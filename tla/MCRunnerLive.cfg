CONSTANTS
    MaxThreads = 2
    NumCPU = 2
    InitialProcs = 3
    DefaultDuration = 1
    DefaultWarmup = 1
    Configs <- MCMixed
    Benchmarks = {b1}
    Nil = Nil
    MaxCalls = 2
    MaxIter = 2
    MaxOverrun = 1
SPECIFICATION FairSpec
PROPERTIES
    EveryCallReturns
    ImplementsTally
