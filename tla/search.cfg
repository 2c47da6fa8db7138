SPECIFICATION MCSpec
CONSTANTS
    N = 3
    Types = {t}
    MaxRank = 2
    MaxSim = 2
    Signals = {0, 1}
    Modes = {"hybrid", "fts", "semantic", "vector"}
    Limits = {2, 3}
    Thresholds = {1, 2}
    MaxRows = 2
    RrfK = 60
    Alphas = {0, 2, 3}
    Blends = {0, 1}
    Unit = 3
INVARIANT TypeOK
INVARIANT NothingDropped
INVARIANT FusionMonotone
INVARIANT AlphaEnds
INVARIANT ValidOnly
INVARIANT CrowdedOut
CHECK_DEADLOCK FALSE
