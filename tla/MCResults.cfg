CONSTANTS
    Latency = {1, 2, 3}
    BurstSize = {1, 19}
    MaxBursts = 4
SPECIFICATION Spec
INVARIANT RankHonoured
