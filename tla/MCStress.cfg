CONSTANTS
    MaxWorkers = 2
    NumCPU = 1
    InitialProcs = 3
    Configs <- MCConfigs
    MaxBatches = 3
    MaxClock = 3
SPECIFICATION Spec
INVARIANTS
    TypeOK
    NothingLeftBehind
    NeverEarly
PROPERTIES
    StopIsPrompt
    FiguresCoherent
    ImplementsTally
