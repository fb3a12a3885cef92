CONSTANTS
    Words <- MCWords
    LowerOf <- MCLowerOf
    DictVersions <- MCDictVersions
    PosLines <- MCPosLines
    Bundles <- MCBundles
    LnMilli <- MCLnMilli
    MaxStarts = 3
    WnIndex <- MCWnIndex
    WnExc <- MCWnExc
    LemmaWords <- MCLemmaWords
    TextWords <- MCTextWords
SPECIFICATION Spec
INVARIANTS
    LoadReportsBrokenBundle
