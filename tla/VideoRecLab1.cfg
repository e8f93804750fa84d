CONSTANTS
    r1 = r1
    Request = {r1}
    User <- FewUsers
    Video <- FewVideos
    drawn <- Drawn
    Encrypted <- SomeText
    Sum32 <- Mix32
    Sum64 <- Mix64
    Word <- Nibble
    UserCoefficients <- UserFeatures
    VideoCoefficients <- VideoFeatures
    Configs <- NoOmission
    Scenes <- FewScenes
    NetUser = 200001
    TestUsers <- Tested
    TestLimit = 2
    Limits = {1}
    MaxSent = 1
    MaxPolls = 2
SPECIFICATION ClientsSpec
INVARIANTS
    FanOutSound
    BestAreServed
    ObserversAgree
    VerdictIsJust
    ScoresAgree
PROPERTIES
    CacheOnlyGrows
    CallsEnd
CHECK_DEADLOCK FALSE
