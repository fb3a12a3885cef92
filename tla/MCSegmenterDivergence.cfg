CONSTANTS
    Chars <- MCChars
    Lines <- MCLines
    Dicts <- MCDicts
    BasePos = 3
SPECIFICATION Spec
INVARIANTS
    RegionsScoredOptimally
