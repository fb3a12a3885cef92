CONSTANTS
    h1 = h1
    h2 = h2
    Handles <- MCHandles
    MaxAlloc = 8
    MaxHeld = 1
    ReloadCopies = TRUE
SYMMETRY MCSymmetry
SPECIFICATION Spec
INVARIANT NoDoubleFree
CHECK_DEADLOCK FALSE
