SPECIFICATION Spec
CONSTANTS
    Texts = {x1, x2, x3}
    Threads = {t1, t2}
    MaxSlices = 6
    Slices <- Addresses
    MaxCacheSize = 0
    DefaultMaxCache = 2
    None = None
    WrongDim = WrongDim
    Overwritten = Overwritten
INVARIANT TypeOK
INVARIANT CacheTrue
PROPERTY RefinesService
PROPERTY NobodyLockedOut
PROPERTY CallsReturn
