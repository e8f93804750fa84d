----------------------------------- MODULE Backends -----------------------------------
(***********************************************************************************)
(* The user service and the video service of lab1 (user_service/server_lib and      *)
(* video_service/server_lib), and the failures they are told to inject              *)
(* (failure_injection). The mock clients call the same servers without a network.   *)
(*                                                                                  *)
(* A call is the set of the answers it can get. An answer is a code, the ids it is  *)
(* about, and the batch size its message quotes (0: none). What the services know   *)
(* of a user or a video other than its ids does not matter here.                    *)
(***********************************************************************************)
EXTENDS Integers, Sequences, SequencesExt

CONSTANTS
    User,          \* user id -> [subscribedTo, likedVideos], sequences of ids
    Video,         \* the ids of the videos
    drawn,         \* the ids of the trending ones, as they were drawn: with duplicates
    Configs        \* the injection configurations under study

Service == {"user", "video"}

ASSUME BackendAssumption ==
    /\ \A u \in DOMAIN User :
        /\ User[u].subscribedTo \in Seq(DOMAIN User \ {u})
        /\ User[u].likedVideos \in Seq(Video)
    /\ drawn \in Seq(Video)

VARIABLES
    MaxBatchSize,  \* the option of each service
    Config         \* the injection configuration of each service

backendVars == <<MaxBatchSize, Config>>

Answer(code, ids, quoted) == [code |-> code, ids |-> ids, quoted |-> quoted]
OK(ids) == Answer("OK", ids, 0)
Failed(code) == Answer(code, <<>>, 0)

\* Whether it is the one in n times.
oneIn(n) == IF n = 0 THEN {FALSE} ELSE {x = 0 : x \in 0 .. n - 1}

\* What MaybeInject returns; nothing if the response is always omitted: it blocks then.
MaybeInject(s) ==
    {e \in oneIn(Config[s].FailureRate) : FALSE \in oneIn(Config[s].ResponseOmissionRate)}

\* Each id where it occurs first.
deduplicateIds(ids) ==
    LET first == {k \in DOMAIN ids : \A j \in 1 .. k - 1 : ids[j] # ids[k]}
        Place(n) == CHOOSE k \in first : Cardinality({j \in first : j <= k}) = n
    IN  [n \in 1 .. Cardinality(first) |-> ids[Place(n)]]

\* The users are made of random draws: somebody may be drawn twice, but not oneself.
makeRandomUser(userId, subscribed, liked) ==
    [subscribedTo |-> SelectSeq(subscribed, LAMBDA s : s # userId), likedVideos |-> liked]

\* Of a video only its coefficients matter; c may come of 10 to 19 draws of a feature and
\* a number, which replaces an earlier one for the feature.
makeRandomVideo(c) ==
    /\ DOMAIN c \subseteq 0 .. 19 /\ DOMAIN c \notin {{}, 0 .. 19}
    /\ c \in [DOMAIN c -> 0 .. 499]

topVideos == deduplicateIds(drawn)

\* The order of the checks is that of the code.
GetUser(ids) ==
    {CASE e                                     -> Failed("Internal")
       [] ~e /\ ids = <<>>                      -> Failed("InvalidArgument")
       [] ~e /\ Len(ids) > MaxBatchSize["user"] -> Answer("InvalidArgument", <<>>, MaxBatchSize["user"])
       [] OTHER -> IF ToSet(ids) \subseteq DOMAIN User THEN OK(ids) ELSE Failed("NotFound")
     : e \in MaybeInject("user")}

GetVideo(ids) ==
    {CASE e                                      -> Failed("Internal")
       [] ~e /\ ids = <<>>                       -> Failed("InvalidArgument")
       [] ~e /\ Len(ids) > MaxBatchSize["video"] -> Answer("InvalidArgument", <<>>, MaxBatchSize["video"])
       [] ~e /\ Len(ids) <= MaxBatchSize["video"] /\ Len(deduplicateIds(ids)) # Len(ids)
                                                 -> Failed("InvalidArgument")
       [] OTHER -> IF ToSet(ids) \subseteq Video THEN OK(ids) ELSE Failed("NotFound")
     : e \in MaybeInject("video")}

GetTrendingVideos ==
    {IF e THEN Failed("Internal") ELSE OK(topVideos) : e \in MaybeInject("video")}

\* The rates are replaced in one atomic store, while calls are under way.
SetInjectionConfig(s, c) ==
    /\ Config' = [Config EXCEPT ![s] = c]
    /\ UNCHANGED MaxBatchSize

---------------------------------------------------------------------------------------
(* Two kinds of clients. The generated ones send a call over a connection that may be  *)
(* down, and give up when the context has ended. The server's handler decodes what the *)
(* client has encoded, and calls the service through the logging of MakeMiddleware,    *)
(* which passes on the answer. The mock clients call the service directly, whatever    *)
(* the context.                                                                        *)

Invoke(ended, answers) ==
    IF ended THEN {Failed("Canceled")} ELSE answers \cup {Failed("Unavailable")}

\* What the main functions register for a method; any other is not implemented.
UserService_Handler(method, ids) ==
    IF method = "GetUser" THEN GetUser(ids) ELSE {Failed("Unimplemented")}
VideoService_Handler(method, ids) ==
    CASE method = "GetVideo"          -> GetVideo(ids)
      [] method = "GetTrendingVideos" -> GetTrendingVideos
      [] OTHER                        -> {Failed("Unimplemented")}

userServiceClient(ended, ids) == Invoke(ended, UserService_Handler("GetUser", ids))
videoServiceClient(ended, method, ids) == Invoke(ended, VideoService_Handler(method, ids))

MockUserServiceClient(ids) == GetUser(ids)
MockVideoServiceClient(method, ids) ==
    IF method = "GetVideo" THEN GetVideo(ids) ELSE GetTrendingVideos

\* The options of the services that the tests make for the mock clients.
DefaultUserServiceOptions ==
    [MaxBatchSize |-> 50, Config |-> [FailureRate |-> 0, ResponseOmissionRate |-> 0]]
DefaultVideoServiceOptions ==
    [MaxBatchSize |-> 50, Config |-> [FailureRate |-> 0, ResponseOmissionRate |-> 0]]

\* The options that the main functions of the services take from their flags.
UserServiceOptions(limits, config) ==
    [MaxBatchSize |-> limits["user"], Config |-> config]
VideoServiceOptions(limits, config) ==
    [MaxBatchSize |-> limits["video"], Config |-> config]
OptionsOf(s, limits, config) ==
    IF s = "user" THEN UserServiceOptions(limits, config) ELSE VideoServiceOptions(limits, config)
BackendsInit(limits, config) ==
    /\ MaxBatchSize = [s \in Service |-> OptionsOf(s, limits, config).MaxBatchSize]
    /\ Config = [s \in Service |-> OptionsOf(s, limits, config).Config]
=======================================================================================
