CONSTANTS
    w1 = w1
    w2 = w2
    p1 = p1
    p2 = p2
    Waiter = {w1, w2}
    Poster = {p1, p2}
    MaxPosts = 2
    MaxWaits = 1
SPECIFICATION Spec
SYMMETRY Symmetry
INVARIANTS
    NoLostWakeup
CHECK_DEADLOCK FALSE
