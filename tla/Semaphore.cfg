CONSTANTS
    w1 = w1
    w2 = w2
    p1 = p1
    p2 = p2
    Waiter = {w1, w2}
    Poster = {p1, p2}
    MaxPosts = 4
    MaxWaits = 2
SPECIFICATION Spec
INVARIANTS
    NothingLost
PROPERTIES
    IsCounting
    CancelReturns
CHECK_DEADLOCK FALSE
