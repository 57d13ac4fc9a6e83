CONSTANTS
    MaxThreads = 3
    NumCPU = 2
    InitialProcs = 3
    DefaultDuration = 1
    DefaultWarmup = 1
    Configs <- MCThree
    Benchmarks = {b1, b2}
    Nil = Nil
    MaxCalls = 2
    MaxIter = 2
    MaxOverrun = 1
SPECIFICATION Spec
INVARIANTS
    TypeOK
    PhaseBarrier
    HandedOverIntact
    SamplesInWindow
    DeadlineHonoured
    VerdictOfWorker0
    ProcsRestored
    SinkCoherent
    StatsOrdered
PROPERTY NoSampleLost
SYMMETRY MCSymmetry
