CONSTANTS
    Reference <- MCReference
    Commands <- MCIntegerHeavy
    Machines <- MCSlowMachine
    Second = 2
    NumCPU = 5
    IntMiB = 4096
SPECIFICATION Spec
INVARIANT TimingsLegible
