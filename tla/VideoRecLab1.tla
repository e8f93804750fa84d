--------------------------------- MODULE VideoRecLab1 ---------------------------------
(***********************************************************************************)
(* The video recommendation service of lab1/video_rec_service/server_lib, against   *)
(* the services of Backends. It differs from the one of lab2 (VideoRec): it dials   *)
(* for every request, gives a request a deadline, counts errors per service and     *)
(* stale responses, answers a slow GetVideo from the cache at once, and a user with *)
(* nothing to recommend gets an empty list.                                         *)
(*                                                                                  *)
(* A call of a service is one step, taken when it returns. A list of videos is the  *)
(* sequence of their ids; a nil list is <<>>. The scores are those of DetBcrypt.       *)
(***********************************************************************************)
EXTENDS Backends, DetBcrypt, FiniteSets

CONSTANTS
    Request,
    UserCoefficients, VideoCoefficients,   \* of each user and video: feature -> coefficient
    Scenes         \* the cases under study: the options of this service, those of the other
                   \* two, and the bounds: asked, the pairs of user id (0 is not a user) and
                   \* limit (0 is none) that a request may have; rounds of the refresher; sets,
                   \* the changes of an injection configuration; the probes that run;
                   \* ends, how a context may end: "expired", "canceled";
                   \* the program that calls, and whether there is a monitor (Clients)

ASSUME RequestAssumption ==
    /\ 0 \notin DOMAIN User
    /\ DOMAIN UserCoefficients = DOMAIN User
    /\ DOMAIN VideoCoefficients = Video
    /\ \A v \in Video : makeRandomVideo(VideoCoefficients[v])
ASSUME SceneAssumption ==
    \A c \in Scenes :
        /\ c.opt.MaxBatchSize \in Int /\ c.opt.retry \in BOOLEAN /\ c.opt.fallback \in BOOLEAN
        /\ c.limits \in [Service -> Nat \ {0}]
        /\ c.asked \subseteq Int \X Int /\ c.ends \subseteq {"expired", "canceled"}

VARIABLES
    scene,           \* the member of Scenes this behaviour keeps to
    batch, probe,    \* UserServiceMaxBatchSize and VideoServiceMaxBatchSize; who finds out
    cache, refresh,  \* TrendingCache; the refresher: it has a client, holds the lock, ...
    stats, sets,     \* the counters of GetStats; changes of a Config made
    \* Per request: its goroutine; its fan-out of the moment, with the goroutines and the
    \* two channels; and, as history, what was counted on its behalf and whether a batch
    \* failed for good.
    req, fan, hist

vars == <<backendVars, sets, scene, batch, probe, cache, refresh, stats, req, fan, hist>>

--------------------------------------------------------------------------------------
(* Lists, batches and answers.                                                        *)

\* MaxBatchSize, retry and fallback (the code has their negations), isMock.
opt == scene.opt

Truncate(vs, n) == IF n > 0 /\ n <= Len(vs) THEN SubSeq(vs, 1, n) ELSE vs

\* What the ranker makes of a user and a video, going over the features in some order.
Scores ==
    [u \in DOMAIN User |-> [v \in Video |->
        Rank(SetToSeq(DOMAIN UserCoefficients[u]), UserCoefficients[u], VideoCoefficients[v])]]

\* A score is a uint64.
ASSUME ScoreAssumption == \A u \in DOMAIN User, v \in Video : Scores[u][v] \in Nat

rankUpwards(u, vs, n) ==
    LET Before(i, j) == Scores[u][vs[i]] < Scores[u][vs[j]] \/ i = j
        Place(k) == CHOOSE i \in DOMAIN vs : Cardinality({j \in DOMAIN vs : Before(j, i)}) = k
    IN  Truncate([k \in DOMAIN vs |-> vs[Place(k)]], n)

\* Sorted by descending score, stably.
rankVideos(u, vs, n) ==
    LET Score(i) == Scores[u][vs[i]]
        Before(i, j) == Score(i) > Score(j) \/ (Score(i) = Score(j) /\ i <= j)
        Place(k) == CHOOSE i \in DOMAIN vs : Cardinality({j \in DOMAIN vs : Before(j, i)}) = k
    IN  Truncate([k \in DOMAIN vs |-> vs[Place(k)]], n)

\* Goroutine i of a fan-out over the list l; the last has what is left, maybe nothing.
Slice(l, m, i) ==
    SubSeq(l, i * m + 1, IF i = Len(l) \div m THEN Len(l) ELSE (i + 1) * m)

Ids(r, i) == Slice(fan[r].ids, fan[r].size, i)
IsLast(r, i) == i = Len(fan[r].ids) \div fan[r].size
AllDone(r) == \A i \in DOMAIN fan[r].worker : fan[r].worker[i] = "exit"

\* A call with the request's context, which ends with the request at the latest.
UserAnswers(r, ids) ==
    IF opt.isMock THEN MockUserServiceClient(ids) ELSE userServiceClient(req[r].ctx # "live", ids)

\* A call with two seconds of its own on the request's connection; a mock's answer may be
\* late as well.
VideoAnswers(r, ids) ==
    LET answers == IF opt.isMock THEN MockVideoServiceClient("GetVideo", ids)
                   ELSE videoServiceClient(req[r].pc = "done", "GetVideo", ids)
    IN  answers \cup {Failed("Late") : a \in {b \in answers : b.code # "Canceled"}}

\* Add one to each of the counters named, and to what r is known to have caused.
Added(names) ==
    [k \in DOMAIN stats |-> stats[k] + Cardinality({n \in DOMAIN names : names[n] = k})]
Remember(r, names) ==
    hist' = [hist EXCEPT ![r] = [k \in DOMAIN @ |->
                @[k] + Cardinality({n \in DOMAIN names : names[n] = k})]]
Count(r, names) == stats' = Added(names) /\ Remember(r, names)
Uncounted == UNCHANGED <<stats, hist>>

ErrorOf(s) == IF s = "user" THEN "UserServiceErrors" ELSE "VideoServiceErrors"

Response(kind, videos) == [kind |-> kind, videos |-> videos]

\* The deferred function runs: the request is not active any more, and its context ends.
Finish(r, names, response) ==
    /\ req' = [req EXCEPT ![r].pc = "done", ![r].resp = response, ![r].ctx = "canceled"]
    /\ stats' = [Added(names) EXCEPT !.ActiveRequests = @ - 1]
    /\ Remember(r, names)

Goto(r, pc) == req' = [req EXCEPT ![r].pc = pc]

\* To the cache, and what to do if there is nothing: an error or an empty list. The list
\* from the cache may be ranked; the error may be yet to be counted.
FallTo(r, instead, ranked, late) ==
    req' = [req EXCEPT ![r].pc = "fall",
                       ![r].how = [instead |-> instead, ranked |-> ranked, late |-> late]]
FallToError(r) == FallTo(r, "error", FALSE, FALSE)
FallToEmpty(r) == FallTo(r, "fresh", TRUE, FALSE)

StaticVars == <<scene, batch, probe, cache, refresh, backendVars, sets>>

--------------------------------------------------------------------------------------
(* GetTopVideos up to the first fan-out.                                              *)

\* A negative limit is refused and not counted; the deadline may have passed already.
Arrive(r, u, n) ==
    /\ req[r].pc = "idle"
    /\ \/ /\ n < 0
          /\ req' = [req EXCEPT ![r].pc = "done", ![r].resp = Response("refused", <<>>)]
          /\ Count(r, <<"TotalRequests">>)
       \/ /\ n >= 0
          /\ req' = [req EXCEPT ![r].pc = IF opt.isMock THEN "user" ELSE "dialUser",
                                ![r].user = u, ![r].limit = n]
          /\ Count(r, <<"TotalRequests", "ActiveRequests">>)
       \/ /\ n >= 0
          /\ req' = [req EXCEPT ![r].pc = "fall", ![r].user = u, ![r].limit = n,
                                ![r].ctx = "expired"]
          /\ Count(r, <<"TotalRequests", "ActiveRequests", "TotalErrors", "UserServiceErrors">>)
    /\ UNCHANGED <<StaticVars, fan>>

\* The deadline of the client, or the three seconds given to a request without one; or
\* the client goes away. The context is not read after the first fan-out.
ContextEnds(r) ==
    /\ req[r].pc \in {"dialUser", "dialUserAgain", "user", "userAgain", "users"}
    /\ req[r].ctx = "live"
    /\ \E how \in scene.ends : req' = [req EXCEPT ![r].ctx = how]
    /\ UNCHANGED <<StaticVars, fan, stats, hist>>

\* Dialling fails or it does not; the connection is made later.
ConnectClient == {"conn", "err"}

\* Without retries a stale answer is not counted among the errors.
DialUser(r) ==
    /\ req[r].pc \in {"dialUser", "dialUserAgain"}
    /\ \E dialled \in ConnectClient :
       \/ /\ dialled = "conn"
          /\ Goto(r, "user")
          /\ Uncounted
       \/ /\ dialled = "err" /\ req[r].pc = "dialUser" /\ opt.retry
          /\ Goto(r, "dialUserAgain")
          /\ Count(r, <<"UserServiceErrors">>)
       \/ /\ dialled = "err" /\ req[r].pc = "dialUser" /\ ~opt.retry
          /\ FallTo(r, "error", FALSE, TRUE)
          /\ Count(r, <<"UserServiceErrors">>)
       \/ /\ dialled = "err" /\ req[r].pc = "dialUserAgain"
          /\ FallToError(r)
          /\ Count(r, <<"TotalErrors", "UserServiceErrors">>)
    /\ UNCHANGED fan

NoSuchUser(r) ==
    /\ req[r].pc = "user" /\ req[r].user = 0
    /\ FallToError(r)
    /\ Count(r, <<"TotalErrors">>)
    /\ UNCHANGED fan

\* Goroutines for the ids in l, in batches as large as s is known to take.
FanOut(r, s, l) ==
    fan' = [fan EXCEPT ![r] =
        [svc |-> s, ids |-> l, size |-> batch[s], got |-> <<>>,
         worker |-> [i \in 0 .. Len(l) \div batch[s] |-> "call"],
         errorChan |-> <<>>, returnChanCache |-> <<>>, closed |-> FALSE,
         gaveUp |-> fan[r].gaveUp]]

Subscriber(r) ==
    /\ req[r].pc \in {"user", "userAgain"} /\ req[r].user # 0
    /\ OK(<<req[r].user>>) \in UserAnswers(r, <<req[r].user>>)
    /\ LET l == User[req[r].user].subscribedTo IN
       \/ /\ l = <<>>
          /\ FallToEmpty(r)
          /\ Count(r, <<"TotalErrors">>)
          /\ UNCHANGED fan
       \/ /\ l # <<>>
          /\ Goto(r, "users")
          /\ FanOut(r, "user", l)
          /\ Uncounted

\* An expired context is looked for after each of the two errors, and counted again.
SubscriberFails(r) ==
    /\ req[r].pc \in {"user", "userAgain"} /\ req[r].user # 0
    /\ \E a \in UserAnswers(r, <<req[r].user>>) : a.code # "OK"
    /\ LET again == IF req[r].ctx = "expired" THEN <<"TotalErrors", "UserServiceErrors">> ELSE <<>> IN
       \/ /\ req[r].pc = "user" /\ req[r].ctx = "expired"
          /\ FallToError(r)
          /\ Count(r, <<"UserServiceErrors">> \o again)
       \/ /\ req[r].pc = "user" /\ req[r].ctx # "expired" /\ opt.retry
          /\ Goto(r, "userAgain")
          /\ Count(r, <<"UserServiceErrors">>)
       \/ /\ req[r].pc = "user" /\ req[r].ctx # "expired" /\ ~opt.retry
          /\ FallToError(r)
          /\ Count(r, <<"UserServiceErrors", "TotalErrors">>)
       \/ /\ req[r].pc = "userAgain"
          /\ FallToError(r)
          /\ Count(r, <<"UserServiceErrors", "TotalErrors">> \o again)
    /\ UNCHANGED fan

\* GetCachedVideos under the read lock, if fallback is on.
FallBack(r) ==
    LET how == req[r].how
        vids == Truncate(cache, req[r].limit)
    IN  /\ req[r].pc = "fall" /\ (opt.fallback => ~refresh.locked)
        /\ IF opt.fallback /\ cache # <<>>
           THEN Finish(r, <<"StaleResponses">>,
                    Response("stale", IF how.ranked THEN rankVideos(req[r].user, vids, req[r].limit) ELSE vids))
           ELSE Finish(r, IF how.late THEN <<"TotalErrors">> ELSE <<>>, Response(how.instead, <<>>))
        /\ UNCHANGED fan

--------------------------------------------------------------------------------------
(* The goroutines of a fan-out. They outlive a request that returns early.            *)

\* The capacity of both channels, and a send on one of them.
Room(r) == Len(fan[r].ids) \div fan[r].size + 1

Exit(r, i, errors, caches, got) ==
    /\ Len(fan[r].errorChan \o errors) <= Room(r)
    /\ Len(fan[r].returnChanCache \o caches) <= Room(r)
    /\ fan' = [fan EXCEPT ![r].worker[i] = "exit",
                          ![r].errorChan = @ \o errors,
                          ![r].returnChanCache = @ \o caches,
                          ![r].got = @ \o got]

Answers(r, ids) == IF fan[r].svc = "user" THEN UserAnswers(r, ids) ELSE VideoAnswers(r, ids)

\* What a goroutine may do, besides which it changes nothing (Worker). The last one makes
\* no call when nothing is left over.
WorkerSucceeds(r, i) ==
    /\ fan[r].worker[i] \in {"call", "again"}
    /\ Uncounted
    /\ Exit(r, i, <<"nil">>, <<>>, Ids(r, i))
    /\ Ids(r, i) = <<>> \/ OK(Ids(r, i)) \in Answers(r, Ids(r, i))

\* Two seconds have passed: GetVideo is not repeated. For a batch that is not the last
\* one the retry does not look at its context, and fails as any other.
TimesOut(r, i) == fan[r].worker[i] = "call" \/ (fan[r].worker[i] = "again" /\ IsLast(r, i))

WorkerIsLate(r, i) ==
    /\ fan[r].svc = "video" /\ TimesOut(r, i) /\ Ids(r, i) # <<>>
    /\ fan' = [fan EXCEPT ![r].worker[i] = "late", ![r].gaveUp = TRUE]
    /\ Count(r, <<"TotalErrors", "VideoServiceErrors">>)
    /\ Failed("Late") \in Answers(r, Ids(r, i))

WorkerFails(r, i) ==
    /\ fan[r].worker[i] \in {"call", "again"} /\ Ids(r, i) # <<>>
    /\ \/ /\ fan[r].worker[i] = "call" /\ opt.retry
          /\ fan' = [fan EXCEPT ![r].worker[i] = "again"]
       \/ /\ fan[r].worker[i] = "again" \/ ~opt.retry
          /\ fan' = [fan EXCEPT ![r].gaveUp = TRUE,
                                ![r].worker[i] = IF opt.fallback THEN "fall" ELSE "report"]
    /\ Count(r, <<ErrorOf(fan[r].svc)>>)
    /\ \E a \in Answers(r, Ids(r, i)) : a.code # "OK" /\ (a.code = "Late" => ~TimesOut(r, i))

WorkerReports(r, i) ==
    /\ fan[r].worker[i] = "report"
    /\ Exit(r, i, <<"err">>, <<>>, <<>>)
    /\ Uncounted

\* GetCachedVideos; with a nil cache the goroutine returns and sends nothing at all.
Cached(r) == IF opt.fallback THEN Truncate(cache, req[r].limit) ELSE <<>>

WorkerAwaitsCache(r, i) ==
    /\ fan[r].worker[i] = "fall" /\ ~refresh.locked /\ cache # <<>>
    /\ Exit(r, i, <<>>, <<Cached(r)>>, <<>>)
    /\ Uncounted

WorkerFallsBack(r, i) ==
    /\ fan[r].worker[i] = "fall" /\ ~refresh.locked
    /\ Exit(r, i, <<>>, IF cache = <<>> THEN <<>> ELSE <<Cached(r)>>, <<>>)
    /\ Uncounted

\* deadlineExc; what it returns is sent on also when it is nothing but an error.
WorkerAnswersLate(r, i) ==
    /\ fan[r].worker[i] = "late" /\ (opt.fallback => ~refresh.locked)
    /\ Exit(r, i, <<>>, <<Cached(r)>>, <<>>)
    /\ Count(r, IF Cached(r) = <<>> THEN <<>> ELSE <<"StaleResponses">>)

Worker(r, i) ==
    /\ UNCHANGED <<StaticVars, req>>
    /\ \/ WorkerSucceeds(r, i) \/ WorkerIsLate(r, i) \/ WorkerFails(r, i)
       \/ WorkerReports(r, i) \/ WorkerFallsBack(r, i) \/ WorkerAnswersLate(r, i)

--------------------------------------------------------------------------------------
(* GetTopVideos between and after the fan-outs.                                       *)

FirstIsError(r) == fan[r].errorChan # <<>> /\ Head(fan[r].errorChan) = "err"

\* Both selects: a cache was sent. The request ends, its goroutines may run on.
AnswerStale(r) ==
    /\ req[r].pc \in {"users", "videos"} /\ fan[r].returnChanCache # <<>>
    /\ Finish(r, <<"StaleResponses", "TotalErrors">>,
              Response("stale", rankVideos(req[r].user, Head(fan[r].returnChanCache), req[r].limit)))
    /\ UNCHANGED fan

\* The first select: all goroutines have ended, which Go may notice first although a
\* cache was sent as well. One receive from errorChanUser decides.
LikedVideos(r) ==
    deduplicateIds(FlattenSeq([k \in DOMAIN fan[r].got |-> User[fan[r].got[k]].likedVideos]))
UsersDone(r) ==
    /\ req[r].pc = "users" /\ AllDone(r)
    /\ \/ /\ FirstIsError(r)
          /\ Finish(r, <<"TotalErrors">>, Response("error", <<>>))
          /\ UNCHANGED fan
       \/ /\ ~FirstIsError(r) /\ LikedVideos(r) = <<>>
          /\ FallToEmpty(r)
          /\ Count(r, <<"TotalErrors">>)
          /\ fan' = [fan EXCEPT ![r].closed = TRUE]
       \/ /\ ~FirstIsError(r) /\ LikedVideos(r) # <<>>
          /\ Goto(r, IF opt.isMock THEN "fanOut" ELSE "dialVideo")
          /\ Uncounted
          /\ fan' = [fan EXCEPT ![r].closed = TRUE]

DialVideo(r) ==
    /\ req[r].pc \in {"dialVideo", "dialVideoAgain"}
    /\ \E dialled \in ConnectClient :
       \/ /\ dialled = "conn"
          /\ Goto(r, "fanOut")
          /\ Uncounted
       \/ /\ dialled = "err" /\ req[r].pc = "dialVideo" /\ opt.retry
          /\ Goto(r, "dialVideoAgain")
          /\ Count(r, <<"VideoServiceErrors">>)
       \/ /\ dialled = "err" /\ (req[r].pc = "dialVideoAgain" \/ ~opt.retry)
          /\ FallTo(r, "error", TRUE, FALSE)
          /\ Count(r, <<"TotalErrors", "VideoServiceErrors">>)
    /\ UNCHANGED fan

AskForVideos(r) ==
    /\ req[r].pc = "fanOut"
    /\ Goto(r, "videos")
    /\ FanOut(r, "video", LikedVideos(r))
    /\ Uncounted

\* The second select, the close of returnChanCache and one receive from errorChanVideo.
VideosUnawaited(r) ==
    /\ req[r].pc = "videos"
    /\ fan' = [fan EXCEPT ![r].closed = TRUE]
    /\ Finish(r, <<>>, Response("fresh", rankVideos(req[r].user, fan[r].got, req[r].limit)))

VideosDone(r) ==
    /\ req[r].pc = "videos" /\ AllDone(r)
    /\ fan' = [fan EXCEPT ![r].closed = TRUE]
    /\ IF FirstIsError(r)
       THEN Finish(r, <<"TotalErrors">>, Response("error", <<>>))
       ELSE Finish(r, <<>>, Response("fresh", rankVideos(req[r].user, fan[r].got, req[r].limit)))

Handler(r) ==
    /\ UNCHANGED StaticVars
    /\ \/ DialUser(r) \/ NoSuchUser(r) \/ Subscriber(r) \/ SubscriberFails(r)
       \/ FallBack(r) \/ AnswerStale(r) \/ UsersDone(r)
       \/ DialVideo(r) \/ AskForVideos(r) \/ VideosDone(r)

--------------------------------------------------------------------------------------
(* The goroutine that refreshes the cache.                                            *)

Tries == IF opt.retry THEN 2 ELSE 1
RequestVars == <<scene, batch, probe, req, fan, hist, backendVars, sets>>

NextRound == refresh.round < scene.rounds /\ ~refresh.locked /\ opt.fallback

\* ConnectClient, until there is a client. Ten seconds of sleep follow a failure.
RefreshDials(failures) ==
    /\ NextRound /\ ~refresh.client
    /\ refresh' = [refresh EXCEPT !.client = failures < Tries,
                                !.round = IF failures < Tries THEN @ ELSE @ + 1]
    /\ stats' = [stats EXCEPT !.VideoServiceErrors = @ + failures,
                              !.TotalErrors = @ + (IF failures = Tries THEN 1 ELSE 0)]
    /\ UNCHANGED <<RequestVars, cache>>

\* The expiration time is near: the lock is taken and kept until the cache is updated,
\* with batches of the size that was read before.
RefreshBegins ==
    /\ NextRound /\ refresh.client
    /\ refresh' = [refresh EXCEPT !.locked = TRUE, !.size = batch["video"], !.round = @ + 1]
    /\ UNCHANGED <<RequestVars, cache, stats>>

\* The answers that one attempt can get, as it succeeds or fails.
RefreshAnswers(method, ids) ==
    IF opt.isMock THEN MockVideoServiceClient(method, ids) ELSE videoServiceClient(FALSE, method, ids)
Attempts(answers, failures) ==
    /\ failures > 0 => \E a \in answers : a.code # "OK"
    /\ failures < Tries => \E a \in answers : a.code = "OK"
Trending == RefreshAnswers("GetTrendingVideos", <<>>)

NoTrending ==
    /\ refresh.locked /\ Attempts(Trending, Tries)
    /\ refresh' = [refresh EXCEPT !.locked = FALSE]
    /\ stats' = [stats EXCEPT !.VideoServiceErrors = @ + Tries, !.TotalErrors = @ + 1]
    /\ UNCHANGED <<RequestVars, cache>>

KeptAlways(lost, fetched) == fetched

\* UpdateCache with so many failed attempts at GetTrendingVideos and at each batch (the
\* last goroutine, if nothing is left for it, makes no call and is left out). The
\* batches arrive in any order. What was fetched is kept if nothing was lost, or if there
\* was nothing before. The code leaves the cache alone if the expiration time has not
\* moved, which it does only for a cache that is whole already.
Kept(lost, fetched) == IF lost = {} \/ cache = <<>> THEN fetched ELSE cache
UpdateCache(first, failures, order) ==
    LET lost == {i \in DOMAIN failures : failures[i] = Tries}
        failed == {x \in (DOMAIN failures) \X (1 .. Tries) : x[2] <= failures[x[1]]}
        Fetched(i) == Slice(topVideos, refresh.size, i)
    IN  /\ stats' = [stats EXCEPT
                        !.VideoServiceErrors = @ + first + Cardinality(failed),
                        !.TotalErrors = @ + Cardinality(lost)]
        /\ cache' = Kept(lost, FlattenSeq([k \in DOMAIN order |-> Fetched(order[k])]))
        /\ Attempts(Trending, first)
        /\ \A i \in DOMAIN failures : Attempts(RefreshAnswers("GetVideo", Fetched(i)), failures[i])

Refreshed ==
    /\ refresh.locked
    /\ refresh' = [refresh EXCEPT !.locked = FALSE]
    /\ UNCHANGED RequestVars
    /\ LET batches == 0 .. (Len(topVideos) - 1) \div refresh.size IN
       \E first \in 0 .. Tries - 1, failures \in [batches -> 0 .. Tries] :
            \E order \in SetToSeqs({i \in batches : failures[i] < Tries}) :
                UpdateCache(first, failures, order)

--------------------------------------------------------------------------------------
(* The goroutines that learn the batch sizes, with the ids they ask for.              *)

ProbeIds(s) ==
    [k \in 1 .. opt.MaxBatchSize |-> IF s = "user" THEN 204054 ELSE 1299 + k]

ProbeAnswers(s) ==
    CASE s = "user" /\ opt.isMock   -> MockUserServiceClient(ProbeIds(s))
      [] s = "user" /\ ~opt.isMock  -> userServiceClient(FALSE, ProbeIds(s))
      [] s = "video" /\ opt.isMock  -> MockVideoServiceClient("GetVideo", ProbeIds(s))
      [] s = "video" /\ ~opt.isMock -> videoServiceClient(FALSE, "GetVideo", ProbeIds(s))

\* They dial until it works.
ProbeDials(s) ==
    /\ probe[s] = "dial" /\ s \in scene.probes
    /\ probe' = [probe EXCEPT ![s] = IF opt.MaxBatchSize < 1 THEN "end" ELSE "ask"]
    /\ UNCHANGED <<scene, batch, cache, refresh, stats, req, fan, hist, backendVars, sets>>

\* Not found is as good as found: the batch was taken. A message that quotes a limit is
\* parsed; for any other code they ask again.
Learnt(a) ==
    IF a.code = "InvalidArgument" THEN (IF a.quoted = 0 THEN 0 ELSE a.quoted - 1)
    ELSE opt.MaxBatchSize - 1

ProbeAsks(s) ==
    /\ probe[s] = "ask" /\ s \in scene.probes
    /\ \E a \in ProbeAnswers(s) :
        /\ a.code \in {"OK", "NotFound", "InvalidArgument"}
        /\ batch' = [batch EXCEPT ![s] = @ + Learnt(a)]
    /\ probe' = [probe EXCEPT ![s] = "end"]
    /\ UNCHANGED <<scene, cache, refresh, stats, req, fan, hist, backendVars, sets>>

\* All attempts share one context of ten seconds; later ones can only fail.
ProbeExpires(s) ==
    /\ probe[s] = "ask" /\ s \in scene.probes
    /\ probe' = [probe EXCEPT ![s] = "spin"]
    /\ UNCHANGED <<scene, batch, cache, refresh, stats, req, fan, hist, backendVars, sets>>

Inject(s, c) ==
    /\ sets < scene.sets /\ sets' = sets + 1
    /\ SetInjectionConfig(s, c)
    /\ UNCHANGED <<scene, batch, probe, cache, refresh, stats, req, fan, hist>>

--------------------------------------------------------------------------------------
Counters == {"TotalRequests", "TotalErrors", "ActiveRequests", "UserServiceErrors",
             "VideoServiceErrors", "StaleResponses"}

NewRequest ==
    [pc |-> "idle", user |-> 0, limit |-> 0, ctx |-> "live",
     how |-> [instead |-> "error", ranked |-> FALSE, late |-> FALSE],
     resp |-> Response("none", <<>>)]
NewFan ==
    [svc |-> "user", ids |-> <<>>, size |-> 1, got |-> <<>>, worker |-> [i \in {} |-> "exit"],
     errorChan |-> <<>>, returnChanCache |-> <<>>, closed |-> FALSE, gaveUp |-> FALSE]

\* MakeVideoRecServiceServer, or the one with mocks, and the two services.
Init ==
    /\ scene \in Scenes
    /\ BackendsInit(scene.limits, scene.config)
    /\ sets = 0
    /\ batch = [s \in Service |-> 1]
    /\ probe = [s \in Service |-> IF opt.isMock THEN "ask" ELSE "dial"]
    /\ cache = <<>>
    /\ refresh = [client |-> opt.isMock, locked |-> FALSE, size |-> 1, round |-> 0]
    /\ stats = [k \in Counters |-> 0]
    /\ req = [r \in Request |-> NewRequest]
    /\ fan = [r \in Request |-> NewFan]
    /\ hist = [r \in Request |-> [k \in {"TotalErrors", "StaleResponses"} |-> 0]]

Serve ==
    \/ \E r \in Request :
        \/ Handler(r) \/ ContextEnds(r)
        \/ \E i \in DOMAIN fan[r].worker : Worker(r, i)
    \/ \E failures \in 0 .. Tries : RefreshDials(failures)
    \/ RefreshBegins \/ NoTrending \/ Refreshed
    \/ \E s \in Service :
        \/ ProbeDials(s) \/ ProbeAsks(s) \/ ProbeExpires(s)
        \/ \E c \in Configs : Inject(s, c)

Next == Serve \/ \E r \in Request, ask \in scene.asked : Arrive(r, ask[1], ask[2])

\* Every call returns, at the deadline if not before; goroutines run, and trendingLock
\* lets waiting readers in. It is enough to assume that some goroutine moves while one
\* can: each takes a bounded number of steps.
Progress ==
    \/ NoTrending \/ Refreshed
    \/ \E r \in Request : Handler(r) \/ \E i \in DOMAIN fan[r].worker : Worker(r, i)

Spec == Init /\ [][Next]_vars /\ WF_vars(Progress)

--------------------------------------------------------------------------------------
(* Properties.                                                                        *)

\* Types. The batch sizes are never 0: GetTopVideos divides by them.
TypeOK ==
    /\ batch \in [Service -> Nat \ {0}]
    /\ probe \in [Service -> {"dial", "ask", "spin", "end"}]
    /\ ToSet(cache) \subseteq Video
    /\ stats \in [Counters -> Nat]
    /\ \A r \in Request :
        /\ req[r].resp.kind \in {"none", "fresh", "stale", "error", "refused"}
        /\ ToSet(req[r].resp.videos) \subseteq Video
        /\ \A i \in DOMAIN fan[r].worker :
            fan[r].worker[i] \in {"call", "again", "late", "fall", "report", "exit"}

\* A request sends no batch that its service refuses for its size, whatever the probes
\* have learnt by then.
BatchesAccepted ==
    \A r \in Request : \A i \in DOMAIN fan[r].worker :
        fan[r].worker[i] \in {"call", "again"} => Len(Ids(r, i)) <= MaxBatchSize[fan[r].svc]

\* errorChanUser, errorChanVideo and returnChanCache are closed when no goroutine of the
\* fan-out is left that could send on them, and panic.
NoSendOnClosed == \A r \in Request : fan[r].closed => AllDone(r)

\* No goroutine of a fan-out ever waits to send, also when nobody will receive any more.
SendersHaveRoom ==
    \A r \in Request :
        LET running == {i \in DOMAIN fan[r].worker : fan[r].worker[i] # "exit"} IN
        Cardinality(running) + Len(fan[r].errorChan) + Len(fan[r].returnChanCache) <= Room(r)

\* A fan-out is sound whatever the batch size was when it was cut and however the request
\* ended: sizes are never 0, no batch is refused, and no goroutine panics or is left behind.
FanOutSound == TypeOK /\ BatchesAccepted /\ NoSendOnClosed /\ SendersHaveRoom

\* lab1.md:159: "Return the list of candidate videos in descending rank order (...), and
\* truncate the list based on the limit (...). There should not be duplicate videos":
\* holds of every fresh response none of whose batches failed for good, however the ids
\* were cut into batches and in whichever order these arrived.
Candidates(r) ==
    UNION {ToSet(User[u].likedVideos) : u \in ToSet(User[req[r].user].subscribedTo)}
BestAreServed ==
    \A r \in Request : req[r].resp.kind = "fresh" /\ ~fan[r].gaveUp =>
        LET vs == req[r].resp.videos
            all == Cardinality(Candidates(r))
            n == req[r].limit
            Score(v) == Scores[req[r].user][v]
        IN  /\ Len(vs) = IF n \in 1 .. all THEN n ELSE all
            /\ ToSet(vs) \subseteq Candidates(r) /\ Cardinality(ToSet(vs)) = Len(vs)
            /\ \A i, j \in DOMAIN vs : i < j => Score(vs[i]) >= Score(vs[j])
            /\ \A v \in Candidates(r) \ ToSet(vs) : \A i \in DOMAIN vs : Score(vs[i]) >= Score(v)

\* "as long as it is deterministic" (ranker.go:35): the score of a video that is returned
\* does not depend on the order in which Go happens to go over the map of coefficients,
\* although the sum wraps around.
Determined ==
    [u \in DOMAIN User |-> {v \in Video :
        \A order \in SetToSeqs(DOMAIN UserCoefficients[u]) :
            Rank(order, UserCoefficients[u], VideoCoefficients[v]) = Scores[u][v]}]
RankIsDetermined ==
    \A r \in Request : req[r].user \in DOMAIN User =>
        ToSet(req[r].resp.videos) \subseteq Determined[req[r].user]

\* The hashes behind the scores of a response have the layout that newFromHash reads:
\* LayoutAgrees, at every cost that GenerateFromPassword allows.
HashesAreRead == \A r \in Request : req[r].resp.videos # <<>> => LayoutAgrees

\* The scores that a response was ranked by are those that every server and every run
\* computes: what the front end's tests rest on.
ScoresAgree == RankIsDetermined /\ HashesAreRead

\* A request that ends with an error or from the cache is counted in TotalErrors, in
\* whichever goroutine it goes wrong. The code leaves out one case: the connection to the
\* user service fails, retries are off and the answer comes from the cache.
TroubleIsCounted ==
    \A r \in Request : req[r].resp.kind \in {"error", "stale"} =>
        \/ hist[r].TotalErrors > 0
        \/ req[r].resp.kind = "stale" /\ req[r].how.late

\* A request that was answered from the cache is counted in StaleResponses, and maybe more
\* than once (StaleRequestsCounted).
StaleIsCounted ==
    \A r \in Request : req[r].resp.kind = "stale" => hist[r].StaleResponses > 0

\* No request past the test of its limit goes wrong unseen: GetStats counts it at least once.
RequestsAreCounted == TroubleIsCounted /\ StaleIsCounted

\* A filled cache is never emptied or cut by a refresh that fails halfway.
CacheOnlyGrows == [][ToSet(cache) \subseteq ToSet(cache')]_vars

\* The request is under way, or goroutines that it started are.
Inside(r) == req[r].pc \notin {"idle", "done"} \/ ~AllDone(r)

\* lab1.md:333: "keep track of the number of requests that returned a fallback response":
\* once nothing of a request is under way any more, it has added one to StaleResponses if
\* its response is a fallback and nothing otherwise. The code does not keep it: a goroutine
\* whose deadline passes counts the cache it sends, and so does the request that receives it.
StaleRequestsCounted ==
    \A r \in Request : ~Inside(r) =>
        hist[r].StaleResponses = IF req[r].resp.kind = "stale" THEN 1 ELSE 0

\* lab1.md:254: "Total number of requests to `GetTopVideos` which returned an error": a
\* request adds one to TotalErrors if it returned an error and nothing otherwise, except that
\* one that fell back may be counted too (server_test.go:318). The code does not keep it: a
\* negative limit returns an error that is not counted, and several goroutines of a request
\* may each count it, also one that gets a fresh response.
ErrorRequestsCounted ==
    \A r \in Request : req[r].pc = "done" /\ ~Inside(r) =>
        CASE req[r].resp.kind \in {"error", "refused"} -> hist[r].TotalErrors = 1
          [] req[r].resp.kind = "stale" -> hist[r].TotalErrors \in 0 .. 1
          [] OTHER -> hist[r].TotalErrors = 0
======================================================================================
