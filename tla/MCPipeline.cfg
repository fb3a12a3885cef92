CONSTANTS
    NonWord <- MCNonWord
    Group <- MCGroup
    Garbage <- MCGarbage
    MergeWords <- MCMergeWords
    Stem <- MCStem
    Lines <- MCLines
SPECIFICATION Spec
INVARIANTS
    TypeOK
    FinalMappingOrdered
    SourceCharMaps
    OffsetsOrdered
    RunsTileLine
    ConversionShortestPath
    TokenizeConsistent
