CONSTANTS
    MaxLen = 8
    Value = {1, 2, 3}
    InsertionCutoff = 1
SPECIFICATION FairSpec
INVARIANTS
    TypeOK
    SortedAtEnd
    Separated
    DepthLogarithmic
PROPERTIES
    Permutes
    Ends
