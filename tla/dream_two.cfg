SPECIFICATION Spec
CONSTANTS
    N = 2
    Dreamers = {d1, d2}
    Full = 3
    DecayRate = 1
    BoostAmount = 1
    DecayFloor = 1
    ConfidenceFloor = 2
    MergeCap = 20
    InitConfs = {1, 3}
    Traits <- Mixed
    Envs <- Users
INVARIANT TypeOK
INVARIANT SupersededExpired
PROPERTY BelowFloorInvalidated
PROPERTY DryRunWritesNothing
