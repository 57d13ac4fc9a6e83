CONSTANTS
    Reference <- MCReference
    Commands <- MCIntegerHeavy
    Machines <- MCOneMachine
    Second = 2
    NumCPU = 5
    IntMiB = 4096
SPECIFICATION Spec
INVARIANT ReferenceTotal1000
