CONSTANTS
    a = a
    b = b
    Source = {a, b}
    MaxItems = 2
    Modes = {"channels", "cancel", "fetches"}
    Caps = {0, 1}
SPECIFICATION Spec
INVARIANTS
    NoSendOnClosed
    MergesAll
PROPERTIES
    Finishes
CHECK_DEADLOCK FALSE
