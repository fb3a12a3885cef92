CONSTANTS
    h1 = h1
    h2 = h2
    Handles <- MCHandles
    MaxAlloc = 8
    MaxHeld = 1
    ReloadCopies = FALSE
SYMMETRY MCSymmetry
SPECIFICATION Spec
INVARIANT ApiAnalyzeDelivers
CHECK_DEADLOCK FALSE
