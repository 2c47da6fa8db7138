SPECIFICATION MCSpec
CONSTANTS
    N = 2
    Types = {t}
    MaxRank = 2
    MaxSim = 1
    Signals = {0}
    Modes = {"fts"}
    Limits = {2}
    Thresholds = {1}
    MaxRows = 2
    RrfK = 60
    Alphas = {2}
    Blends = {0}
    Unit = 3
INVARIANT BestMatchFirst
CHECK_DEADLOCK FALSE
