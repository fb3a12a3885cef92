CONSTANTS
    NonWord <- MCNonWord
    Group <- MCGroup
    Garbage <- MCGarbage
    MergeWords <- MCMergeWords
    Stem <- MCStem
    Lines <- MCDotLines
SPECIFICATION Spec
INVARIANT TermSpansSource
