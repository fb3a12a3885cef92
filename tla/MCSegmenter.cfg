CONSTANTS
    Chars <- MCChars
    Lines <- MCLines
    Dicts <- MCDicts
    BasePos = 3
SPECIFICATION Spec
INVARIANTS
    TypeOK
    PositionsTrackText
    FineRefinesTokens
    InnerCopiesAgree
    FineCopiesAgree
    DpTop1Optimal
PROPERTIES
    AbsSpec
