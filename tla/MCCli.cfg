CONSTANTS
    Reference <- MCReference
    Commands <- MCCommands
    Machines <- MCMachines
    Second = 2
    NumCPU = 5
    IntMiB = 4096
SPECIFICATION Spec
INVARIANTS
    TypeOK
    MeasuredOnce
    AllOrNothing
    FasterScoresHigher
    RowsBelongTogether
    CoresCounted
    ReferenceScores1000
    StressAsAsked
PROPERTY FailsEarly
