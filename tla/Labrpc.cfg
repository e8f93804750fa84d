CONSTANTS
    s1 = s1
    s2 = s2
    c1 = c1
    c2 = c2
    Server = {s1, s2}
    Call = {c1, c2}
    Walker = {c1, c2}
    Type <- GobTypes
    Elem <- GobElem
    Program <- GobPrograms
    Field = {"term"}
    Budgets <- SmallBudgets
SPECIFICATION Spec
INVARIANTS
    TrueIsDurable
    LivesApart
    GobSpeaksUp
PROPERTIES
    IsAtMostOnce
    EveryCallReturns
CHECK_DEADLOCK FALSE
