CONSTANTS
    s1 = s1
    s2 = s2
    s3 = s3
    a = a
    Server = {s1, s2, s3}
    Command = {a}
    Nil = Nil
    Scopes <- AllScopes
    MaxElections = 1
    MaxBroadcasts = 1
    ChanCap = 1
    Prompt = {"election", "broadcast", "send", "apply"}
    InOrder = TRUE
SPECIFICATION TesterSpec
INVARIANTS
    ElectionSafety
    LogDurable
    LogsAgree
    IndicesInRange
    StateMachineSafety
    AppliedSurvives
    TesterSatisfied
PROPERTIES
    LogsKept
    IsReplicatedLog
CHECK_DEADLOCK FALSE
