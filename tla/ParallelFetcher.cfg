CONSTANTS
    c1 = c1
    c2 = c2
    c3 = c3
    Caller = {c1, c2, c3}
    Limits = {0, 1, 2}
    Items = 2
    MaxCalls = 2
SPECIFICATION Spec
INVARIANTS
    PermitsKept
PROPERTIES
    NoFetchAfterOwnFalse
    FetchesReturn
CHECK_DEADLOCK FALSE
