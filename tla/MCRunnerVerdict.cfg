CONSTANTS
    MaxThreads = 2
    NumCPU = 2
    InitialProcs = 3
    DefaultDuration = 1
    DefaultWarmup = 1
    Configs <- MCPair
    Benchmarks = {b1}
    Nil = Nil
    MaxCalls = 1
    MaxIter = 2
    MaxOverrun = 1
SPECIFICATION Spec
INVARIANT RightOutputVerified
