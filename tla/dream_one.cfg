SPECIFICATION SplitSpec
CONSTANTS
    N = 3
    Dreamers = {d1}
    Full = 4
    DecayRate = 1
    BoostAmount = 1
    DecayFloor = 2
    ConfidenceFloor = 2
    MergeCap = 20
    InitConfs = {3, 4}
    Traits <- IdleStale
    Envs <- QuietOrDisturbed
INVARIANT ClusterSurvives
INVARIANT NoDuplicateLinks
INVARIANT SupersededTraceable
PROPERTY CycleEnds
