CONSTANTS
    r1 = r1
    Request = {r1}
    Creators = 2
    Likes <- Overlapping
    Trending = {7, 8}
    Limits <- Unequal
    BatchFlag = 2
    PoolFlag = 2
    Options <- AllOptions
    MaxRefresh = 2
SPECIFICATION Spec
INVARIANTS
    FanOutSound
    ServedIsComplete
    CountedOnce
    PoolBalanced
PROPERTIES
    CacheOnlyGrows
    RequestEnds
CHECK_DEADLOCK FALSE
