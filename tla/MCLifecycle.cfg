\* A client that has destroyed both analyzers and freed every result has
\* nothing left to call: such a state is an end, not a deadlock.
CONSTANTS
    h1 = h1
    h2 = h2
    Handles <- MCHandles
    MaxAlloc = 8
    MaxHeld = 1
    ReloadCopies = FALSE
SYMMETRY MCSymmetry
SPECIFICATION Spec
INVARIANTS
    TypeOK
    NoDoubleFree
CHECK_DEADLOCK FALSE
