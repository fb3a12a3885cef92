CONSTANTS
    NonWord <- MCNonWord
    Group <- MCGroup
    Garbage <- MCGarbage
    MergeWords <- MCMergeWords
    Stem <- MCStem
    Lines <- MCNormLines
SPECIFICATION Spec
INVARIANT NoReadPastEnd
