CONSTANTS
    Sizes <- MCSizes
    MaxRuns = 2
SPECIFICATION Spec
INVARIANTS
    TypeOK
    OwnHeaders
    PartialResults
PROPERTY ImplementsKernel
