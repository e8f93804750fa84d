CONSTANTS
    s1 = s1
    s2 = s2
    s3 = s3
    a = a
    Server = {s1, s2, s3}
    Command = {a}
    Nil = Nil
    Scopes <- Overtaking
    MaxElections = 1
    MaxBroadcasts = 1
    ChanCap = 1
    Prompt = {"election", "broadcast", "send", "apply"}
    InOrder = FALSE
SPECIFICATION TesterSpec
INVARIANTS
    StateMachineSafety

CHECK_DEADLOCK FALSE
