CONSTANTS
    c1 = c1
    c2 = c2
    x = x
    y = y
    Client = {c1, c2}
    Value = {x, y}
    Empty = Empty
    MaxNodes = 3
SPECIFICATION Spec
INVARIANTS
    ListSound
PROPERTIES
    IsFifo
    CallsReturn
CHECK_DEADLOCK FALSE
