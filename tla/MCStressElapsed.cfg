CONSTANTS
    MaxWorkers = 2
    NumCPU = 1
    InitialProcs = 3
    Configs <- MCTimed
    MaxBatches = 2
    MaxClock = 3
SPECIFICATION Spec
INVARIANT ElapsedIsDuration
