SPECIFICATION Spec
CONSTANTS
    N = 2
    Dreamers = {d1}
    Full = 4
    DecayRate = 1
    BoostAmount = 1
    DecayFloor = 2
    ConfidenceFloor = 2
    MergeCap = 20
    InitConfs = {1, 4}
    Traits <- IdleStale
    Envs <- Quiet
PROPERTY BelowFloorInvalidated
