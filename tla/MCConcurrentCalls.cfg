CONSTANTS
    t1 = t1
    t2 = t2
    t3 = t3
    a1 = a1
    a2 = a2
    None = None
    Threads <- MCThreads
    Instance <- MCInstance
SPECIFICATION Spec
\* Every call ends; both threads finishing is the end of the program.
CHECK_DEADLOCK FALSE
INVARIANTS
    OwnResults
