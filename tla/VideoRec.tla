----------------------------------- MODULE VideoRec ----------------------------------
(***********************************************************************************)
(* The video recommendation service of lab2/video_rec_service/server_lib: requests  *)
(* that fan out in batches to the user service and then to the video service, the   *)
(* cache of trending videos they fall back to and the goroutine that refreshes it,  *)
(* the goroutines that learn the services' batch sizes, and the error counters.     *)
(*                                                                                 *)
(* An RPC is one step, taken when it returns: with a result, or with an error (a    *)
(* failure of the service, a deadline). Ranking and the limit on the number of      *)
(* results are left out: a response is the set of its videos. A nil cache is {}.    *)
(***********************************************************************************)
EXTENDS Integers, Sequences, FiniteSets, SequencesExt

CONSTANTS
    Request,      \* the calls of GetTopVideos
    Creators,     \* how many users a subscriber is subscribed to, at most
    Likes,        \* creator -> the videos it likes
    Trending,     \* the videos of GetTrendingVideos
    Limits,       \* service -> the largest batch it accepts: the cases under study
    BatchFlag,    \* the --batch-size flag of this service
    PoolFlag,     \* the --client-pool-size flag
    Options,      \* the settings of the retry and fallback flags under study
    MaxRefresh    \* bound: refreshes of the cache

Service == {"user", "video"}

\* The flags that change what the service does; the code has their negations.
VideoRecServiceOptions == [retry : BOOLEAN, fallback : BOOLEAN]

ASSUME VideoRecAssumption ==
    /\ Creators \in Nat /\ Likes \in [1 .. Creators -> SUBSET Nat]
    /\ \A u \in 1 .. Creators : IsFiniteSet(Likes[u])
    /\ Trending \subseteq Nat /\ IsFiniteSet(Trending)
    /\ Limits \subseteq [Service -> Nat \ {0}] /\ BatchFlag \in Int /\ MaxRefresh \in Nat
    /\ PoolFlag \in Int
    /\ Options \subseteq VideoRecServiceOptions

VARIABLES
    opt, limit,      \* the flags, and the batch size the services accept
    batch,           \* UserServiceMaxBatchSize and VideoServiceMaxBatchSize
    probe,           \* per service: "new", "probing", "expired" (its context is), "learnt",
                     \* or "ended" without a probe
    cache,           \* TrendingCache
    locked,          \* the refresher holds trendingLock
    refreshSize,     \* the batch size it read before it took the lock
    refreshes,       \* refreshes begun
    totalErrors,     \* the counter TotalErrors
    stats,           \* TotalRequests, ActiveRequests and StaleResponses
    pool,            \* per service: UserConnIndex or VideoConnIndex, and, as history, how
                     \* often each of its connections was handed out
    \* Per request: where its goroutine is, what it asks for, the service it is fanning
    \* out to, the ids and the batch size of the fan-out, what the fan-out brought, the
    \* creators found, and the response.
    pc, subs, svc, ids, size, got, resp,
    \* Per request: the goroutines of the fan-out, and the two channels they send on.
    worker, errorChan, cacheChan,
    \* History: a batch of the request failed for good; errors the refresher counted.
    gaveUp, refreshErrors

serviceVars == <<opt, limit, batch, probe>>
cacheVars == <<cache, locked, refreshSize, refreshes, refreshErrors>>
fanVars == <<svc, ids, size, got, worker, errorChan, cacheChan, gaveUp>>
vars == <<serviceVars, cacheVars, totalErrors, stats, pool, pc, subs, resp, fanVars>>

NoResponse == [kind |-> "none", videos |-> {}]
Stale(videos) == [kind |-> "stale", videos |-> videos]
Fresh(videos) == [kind |-> "fresh", videos |-> videos]
Error == [kind |-> "error", videos |-> {}]
Refused == [kind |-> "refused", videos |-> {}]

--------------------------------------------------------------------------------------
(* Batches: goroutine i of a fan-out over the list l with batches of size m. There    *)
(* are Len(l) / m + 1 goroutines; the last one has the remainder, possibly nothing.   *)

Slice(l, m, i) ==
    {l[k] : k \in i * m + 1 .. IF i = Len(l) \div m THEN Len(l) ELSE (i + 1) * m}

Batch(r, i) == Slice(ids[r], size[r], i)

\* The capacity of both channels.
RoomTight(n, m) == n \div m
Room(n, m) == n \div m + 1

\* Start the goroutines for the ids in l, batches being as large as s is known to take.
FanOut(r, s, l) ==
    /\ svc' = [svc EXCEPT ![r] = s]
    /\ ids' = [ids EXCEPT ![r] = l]
    /\ size' = [size EXCEPT ![r] = batch[s]]
    /\ got' = [got EXCEPT ![r] = {}]
    /\ worker' = [worker EXCEPT ![r] = [i \in 0 .. Len(l) \div batch[s] |-> "call"]]
    /\ errorChan' = [errorChan EXCEPT ![r] = <<>>]
    /\ cacheChan' = [cacheChan EXCEPT ![r] = <<>>]

\* The one receive that is made from an error channel brings an error.
FirstIsError(r) == errorChan[r] # <<>> /\ Head(errorChan[r]) = "err"

AllDone(r) == \A i \in DOMAIN worker[r] : worker[r][i] = "exit"

\* A call that is not repeated when it fails.
LastTry(label, first, again) == label = again \/ (label = first /\ ~opt.retry)

\* The deferred function has run.
Finish(r, response) ==
    /\ pc' = [pc EXCEPT ![r] = "done"]
    /\ resp' = [resp EXCEPT ![r] = response]
    /\ stats' = [stats EXCEPT !.ActiveRequests = @ - 1,
                              !.StaleResponses = IF response.kind = "stale" THEN @ + 1 ELSE @]

--------------------------------------------------------------------------------------
(* The connections to each service, dialled once. If one of them cannot be dialled    *)
(* the server does not start. They are handed out in turn.                            *)

ClientPoolSize == IF PoolFlag > 1 THEN PoolFlag ELSE 1

NextConnShared(s) ==
    LET idx == (pool["user"].index + 1) % ClientPoolSize IN
    pool' = [pool EXCEPT !["user"].index = @ + 1, ![s].uses[idx] = @ + 1]

NextConn(s) ==
    LET idx == (pool[s].index + 1) % ClientPoolSize IN
    pool' = [pool EXCEPT ![s].index = @ + 1, ![s].uses[idx] = @ + 1]

--------------------------------------------------------------------------------------
(* GetTopVideos up to the first fan-out.                                              *)

\* A negative limit is refused, which is not counted among the errors, before a
\* connection is chosen; user 0 does not exist.
Call(r) ==
    /\ pc[r] = "idle"
    /\ \/ /\ pc' = [pc EXCEPT ![r] = "done"]
          /\ resp' = [resp EXCEPT ![r] = Refused]
          /\ stats' = [stats EXCEPT !.TotalRequests = @ + 1]
          /\ UNCHANGED <<subs, totalErrors, pool>>
       \/ /\ pc' = [pc EXCEPT ![r] = "fall"]
          /\ totalErrors' = totalErrors + 1
          /\ stats' = [stats EXCEPT !.TotalRequests = @ + 1, !.ActiveRequests = @ + 1]
          /\ NextConn("user")
          /\ UNCHANGED <<subs, resp>>
       \/ /\ pc' = [pc EXCEPT ![r] = "subscriber"]
          /\ \E n \in 0 .. Creators : subs' = [subs EXCEPT ![r] = n]
          /\ stats' = [stats EXCEPT !.TotalRequests = @ + 1, !.ActiveRequests = @ + 1]
          /\ NextConn("user")
          /\ UNCHANGED <<resp, totalErrors>>
    /\ UNCHANGED <<serviceVars, cacheVars, fanVars>>

\* GetUser for the subscriber. Nobody to recommend from counts as an error.
SubscriberFound(r) ==
    /\ pc[r] \in {"subscriber", "subscriberRetry"}
    /\ \/ /\ subs[r] = 0
          /\ pc' = [pc EXCEPT ![r] = "fall"]
          /\ totalErrors' = totalErrors + 1
          /\ UNCHANGED fanVars
       \/ /\ subs[r] > 0
          /\ pc' = [pc EXCEPT ![r] = "users"]
          /\ FanOut(r, "user", [k \in 1 .. subs[r] |-> k])
          /\ UNCHANGED <<totalErrors, gaveUp>>
    /\ UNCHANGED <<stats, pool, serviceVars, cacheVars, subs, resp>>

SubscriberFails(r) ==
    /\ \/ /\ pc[r] = "subscriber" /\ opt.retry
          /\ pc' = [pc EXCEPT ![r] = "subscriberRetry"]
          /\ UNCHANGED totalErrors
       \/ /\ LastTry(pc[r], "subscriber", "subscriberRetry")
          /\ pc' = [pc EXCEPT ![r] = "fall"]
          /\ totalErrors' = totalErrors + 1
    /\ UNCHANGED <<stats, pool, serviceVars, cacheVars, subs, resp, fanVars>>

\* GetCachedVideos under the read lock, if fallback is on; the error otherwise.
FallBack(r) ==
    /\ pc[r] = "fall" /\ (opt.fallback => ~locked)
    /\ Finish(r, IF opt.fallback /\ cache # {} THEN Stale(cache) ELSE Error)
    /\ UNCHANGED <<pool, serviceVars, cacheVars, totalErrors, subs, fanVars>>

--------------------------------------------------------------------------------------
(* The goroutines of a fan-out. They outlive a request that returns early.            *)

\* A service refuses a batch larger than its limit; the last goroutine makes no call
\* when nothing is left over.
WorkerSucceeds(r, i) ==
    /\ worker[r][i] \in {"call", "retry"}
    /\ Cardinality(Batch(r, i)) <= limit[svc[r]]
    /\ Len(errorChan[r]) < Room(Len(ids[r]), size[r])
    /\ got' = [got EXCEPT ![r] = @ \cup Batch(r, i)]
    /\ errorChan' = [errorChan EXCEPT ![r] = Append(@, "nil")]
    /\ worker' = [worker EXCEPT ![r][i] = "exit"]
    /\ UNCHANGED <<stats, pool, serviceVars, cacheVars, totalErrors, pc, subs, resp,
                   svc, ids, size,
                   cacheChan, gaveUp>>

\* An error, also after the retry: to the cache if fallback is on.
WorkerCounting(r, i) ==
    /\ Batch(r, i) # {}
    /\ \/ /\ worker[r][i] = "call" /\ opt.retry
          /\ worker' = [worker EXCEPT ![r][i] = "retry"]
          /\ totalErrors' = totalErrors + 1
          /\ UNCHANGED <<errorChan, gaveUp>>
       \/ /\ LastTry(worker[r][i], "call", "retry")
          /\ gaveUp' = [gaveUp EXCEPT ![r] = TRUE]
          /\ worker' = [worker EXCEPT ![r][i] = IF opt.fallback THEN "fall" ELSE "exit"]
          /\ errorChan' = [errorChan EXCEPT ![r] =
                              IF opt.fallback THEN @ ELSE Append(@, "err")]
          /\ totalErrors' = totalErrors + 1
    /\ UNCHANGED <<stats, pool, serviceVars, cacheVars, pc, subs, resp, svc, ids,
                   size, got, cacheChan>>

WorkerFails(r, i) ==
    /\ Batch(r, i) # {}
    /\ \/ /\ worker[r][i] = "call" /\ opt.retry
          /\ worker' = [worker EXCEPT ![r][i] = "retry"]
          /\ UNCHANGED <<errorChan, gaveUp>>
       \/ /\ LastTry(worker[r][i], "call", "retry")
          /\ gaveUp' = [gaveUp EXCEPT ![r] = TRUE]
          /\ \/ /\ opt.fallback
                /\ worker' = [worker EXCEPT ![r][i] = "fall"]
                /\ UNCHANGED errorChan
             \/ /\ ~opt.fallback /\ Len(errorChan[r]) < Room(Len(ids[r]), size[r])
                /\ worker' = [worker EXCEPT ![r][i] = "exit"]
                /\ errorChan' = [errorChan EXCEPT ![r] = Append(@, "err")]
    /\ UNCHANGED <<stats, pool, serviceVars, cacheVars, totalErrors, pc, subs, resp,
                   svc, ids, size, got,
                   cacheChan>>

\* GetCachedVideos; with a nil cache the goroutine returns and sends nothing at all.
WorkerFallsBack(r, i) ==
    /\ worker[r][i] = "fall" /\ ~locked
    /\ Len(cacheChan[r]) < Room(Len(ids[r]), size[r])
    /\ worker' = [worker EXCEPT ![r][i] = "exit"]
    /\ cacheChan' = [cacheChan EXCEPT ![r] = IF cache = {} THEN @ ELSE Append(@, cache)]
    /\ UNCHANGED <<stats, pool, serviceVars, cacheVars, totalErrors, pc, subs, resp,
                   svc, ids, size, got,
                   errorChan, gaveUp>>

--------------------------------------------------------------------------------------
(* GetTopVideos between and after the fan-outs.                                       *)

\* The first select, case returnChanCache: the request ends, its goroutines may run on.
UsersStale(r) ==
    /\ pc[r] = "users" /\ cacheChan[r] # <<>>
    /\ totalErrors' = totalErrors + 1
    /\ Finish(r, Stale(Head(cacheChan[r])))
    /\ UNCHANGED <<pool, serviceVars, cacheVars, subs, fanVars>>

\* The first select, case done, which Go may pick although a cache was sent as well;
\* then one receive from errorChanUser decides, and the videos are asked for.
UsersDone(r) ==
    /\ pc[r] = "users" /\ AllDone(r)
    /\ \/ /\ FirstIsError(r)
          /\ totalErrors' = totalErrors + 1
          /\ Finish(r, Error)
          /\ UNCHANGED <<fanVars, pool>>
       \/ /\ ~FirstIsError(r)
          /\ pc' = [pc EXCEPT ![r] = "videos"]
          /\ FanOut(r, "video", SetToSeq(UNION {Likes[u] : u \in got[r]}))
          /\ NextConn("video")
          /\ UNCHANGED <<totalErrors, stats, resp, gaveUp>>
    /\ UNCHANGED <<serviceVars, cacheVars, subs>>

\* wg.Wait(), then a cache if one was sent, then one receive from errorChanVideo.
VideosUnawaited(r) ==
    /\ pc[r] = "videos"
    /\ Finish(r, Fresh(got[r]))
    /\ UNCHANGED <<pool, serviceVars, cacheVars, totalErrors, subs, fanVars>>

VideosDone(r) ==
    /\ pc[r] = "videos" /\ AllDone(r)
    /\ \/ /\ cacheChan[r] # <<>>
          /\ totalErrors' = totalErrors + 1
          /\ Finish(r, Stale(Head(cacheChan[r])))
       \/ /\ cacheChan[r] = <<>>
          /\ FirstIsError(r)
          /\ totalErrors' = totalErrors + 1
          /\ Finish(r, Error)
       \/ /\ cacheChan[r] = <<>>
          /\ ~FirstIsError(r)
          /\ Finish(r, Fresh(got[r]))
          /\ UNCHANGED totalErrors
    /\ UNCHANGED <<pool, serviceVars, cacheVars, subs, fanVars>>

--------------------------------------------------------------------------------------
(* The goroutine that refreshes the cache.                                            *)

\* The refresher chooses a connection once and keeps it.
RefreshBegins ==
    /\ opt.fallback /\ ~locked /\ refreshes < MaxRefresh
    /\ locked' = TRUE
    /\ refreshSize' = batch["video"]
    /\ refreshes' = refreshes + 1
    /\ IF refreshes = 0 THEN NextConn("video") ELSE UNCHANGED pool
    /\ UNCHANGED <<stats, serviceVars, cache, refreshErrors, totalErrors, pc, subs,
                   resp, fanVars>>

\* UpdateCache when GetTrendingVideos fails.
NoTrending ==
    /\ locked
    /\ locked' = FALSE
    /\ totalErrors' = totalErrors + 1
    /\ refreshErrors' = refreshErrors + 1
    /\ UNCHANGED <<stats, pool, serviceVars, cache, refreshSize, refreshes, pc, subs,
                   resp, fanVars>>

\* UpdateCache when the batches in lost fail: what was fetched is kept only if there was
\* nothing. With no batch lost the cache is replaced; the code leaves it alone if the
\* expiration time has not moved, which it does only for a cache that is whole already.
RefreshOverwrites(lost) ==
    LET l == SetToSeq(Trending)
        fetched == UNION {Slice(l, refreshSize, i) : i \in (0 .. Len(l) \div refreshSize) \ lost}
    IN  /\ locked
        /\ locked' = FALSE
        /\ cache' = fetched
        /\ totalErrors' = totalErrors + Cardinality(lost)
        /\ refreshErrors' = refreshErrors + Cardinality(lost)
        /\ UNCHANGED <<stats, pool, serviceVars, refreshSize, refreshes, pc, subs,
                       resp, fanVars>>

RefreshEnds(lost) ==
    LET l == SetToSeq(Trending)
        fetched == UNION {Slice(l, refreshSize, i) : i \in (0 .. Len(l) \div refreshSize) \ lost}
    IN  /\ locked
        /\ locked' = FALSE
        /\ cache' = IF lost = {} \/ cache = {} THEN fetched ELSE cache
        /\ totalErrors' = totalErrors + Cardinality(lost)
        /\ refreshErrors' = refreshErrors + Cardinality(lost)
        /\ UNCHANGED <<stats, pool, serviceVars, refreshSize, refreshes, pc, subs,
                       resp, fanVars>>

\* The batches of a refresh that make a call, and so can fail.
Losable ==
    {i \in 0 .. Cardinality(Trending) \div refreshSize :
        Slice(SetToSeq(Trending), refreshSize, i) # {}}

--------------------------------------------------------------------------------------
(* The goroutines that learn the batch sizes: they ask for BatchFlag ids at once. The *)
(* counter starts at 1 and the rest of what the service accepts is added to it.       *)

\* What the answer to the probe says: all of it was taken, or the limit is quoted.
Accepted(s) == IF BatchFlag <= limit[s] THEN BatchFlag ELSE limit[s]

\* Each of them chooses a connection first, and ends there when the flag is below 1.
ProbeBegins(s) ==
    /\ probe[s] = "new"
    /\ probe' = [probe EXCEPT ![s] = IF BatchFlag < 1 THEN "ended" ELSE "probing"]
    /\ NextConn(s)
    /\ UNCHANGED <<stats, opt, limit, batch, cacheVars, totalErrors, pc, subs, resp,
                   fanVars>>

ProbeAddsAll(s) ==
    /\ probe[s] = "probing"
    /\ probe' = [probe EXCEPT ![s] = "learnt"]
    /\ batch' = [batch EXCEPT ![s] = @ + Accepted(s)]
    /\ UNCHANGED <<stats, pool, opt, limit, cacheVars, totalErrors, pc, subs, resp,
                   fanVars>>

ProbeAnswered(s) ==
    /\ probe[s] = "probing"
    /\ probe' = [probe EXCEPT ![s] = "learnt"]
    /\ batch' = [batch EXCEPT ![s] = @ + Accepted(s) - 1]
    /\ UNCHANGED <<stats, pool, opt, limit, cacheVars, totalErrors, pc, subs, resp,
                   fanVars>>

\* All attempts share one context of ten seconds; later ones can only fail.
ProbeExpires(s) ==
    /\ probe[s] = "probing"
    /\ probe' = [probe EXCEPT ![s] = "expired"]
    /\ UNCHANGED <<stats, pool, opt, limit, batch, cacheVars, totalErrors, pc, subs,
                   resp, fanVars>>

--------------------------------------------------------------------------------------
Init ==
    /\ opt \in Options /\ limit \in Limits
    /\ batch = [s \in Service |-> 1]
    /\ probe = [s \in Service |-> "new"]
    /\ stats = [TotalRequests |-> 0, ActiveRequests |-> 0, StaleResponses |-> 0]
    /\ pool = [s \in Service |-> [index |-> 0, uses |-> [i \in 0 .. ClientPoolSize - 1 |-> 0]]]
    /\ cache = {} /\ locked = FALSE /\ refreshSize = 1 /\ refreshes = 0
    /\ totalErrors = 0 /\ refreshErrors = 0
    /\ pc = [r \in Request |-> "idle"]
    /\ subs = [r \in Request |-> 0]
    /\ svc = [r \in Request |-> "user"]
    /\ ids = [r \in Request |-> <<>>]
    /\ size = [r \in Request |-> 1]
    /\ got = [r \in Request |-> {}]
    /\ resp = [r \in Request |-> NoResponse]
    /\ worker = [r \in Request |-> [i \in {} |-> "exit"]]
    /\ errorChan = [r \in Request |-> <<>>]
    /\ cacheChan = [r \in Request |-> <<>>]
    /\ gaveUp = [r \in Request |-> FALSE]

Handler(r) ==
    \/ SubscriberFound(r) \/ SubscriberFails(r) \/ FallBack(r)
    \/ UsersStale(r) \/ UsersDone(r) \/ VideosDone(r)

Worker(r, i) == WorkerSucceeds(r, i) \/ WorkerFails(r, i) \/ WorkerFallsBack(r, i)

Refresh == NoTrending \/ \E lost \in SUBSET Losable : RefreshEnds(lost)

Next ==
    \/ \E r \in Request : Call(r) \/ Handler(r)
    \/ \E r \in Request : \E i \in DOMAIN worker[r] : Worker(r, i)
    \/ RefreshBegins \/ Refresh
    \/ \E s \in Service : ProbeBegins(s) \/ ProbeAnswered(s) \/ ProbeExpires(s)

\* Every RPC returns: GetVideo has its own deadline, GetUser the one of the client that
\* called GetTopVideos. Goroutines run, and trendingLock lets waiting readers in.
Fairness ==
    /\ WF_vars(Refresh)
    /\ \A r \in Request :
        /\ WF_vars(Handler(r))
        /\ \A i \in 0 .. Creators + Cardinality(UNION {Likes[u] : u \in DOMAIN Likes}) :
            WF_vars(i \in DOMAIN worker[r] /\ Worker(r, i))

Spec == Init /\ [][Next]_vars /\ Fairness

--------------------------------------------------------------------------------------
(* Properties.                                                                        *)

\* Types. The batch sizes are never 0: GetTopVideos divides by them.
TypeOK ==
    /\ opt \in Options /\ limit \in Limits
    /\ batch \in [Service -> Nat \ {0}]
    /\ stats \in [TotalRequests : Nat, ActiveRequests : Nat, StaleResponses : Nat]
    /\ probe \in [Service -> {"new", "probing", "expired", "learnt", "ended"}]
    /\ cache \subseteq Trending /\ locked \in BOOLEAN
    /\ refreshSize \in Nat \ {0} /\ {refreshes, totalErrors, refreshErrors} \subseteq Nat
    /\ pc \in [Request -> {"idle", "subscriber", "subscriberRetry", "fall", "users",
                           "videos", "done"}]
    /\ subs \in [Request -> 0 .. Creators]
    /\ svc \in [Request -> Service]
    /\ \A r \in Request :
        /\ ids[r] \in Seq(Nat) /\ size[r] \in Nat \ {0} /\ got[r] \subseteq Range(ids[r])
        /\ \A i \in DOMAIN worker[r] : worker[r][i] \in {"call", "retry", "fall", "exit"}
        /\ errorChan[r] \in Seq({"nil", "err"}) /\ cacheChan[r] \in Seq(SUBSET Trending)
        /\ resp[r].kind \in {"none", "fresh", "stale", "error", "refused"}
    /\ gaveUp \in [Request -> BOOLEAN]

\* What the subscriptions of r recommend.
Wanted(r) == UNION {Likes[u] : u \in 1 .. subs[r]}

\* However the two fan-outs are cut into batches, and whenever the batch sizes change
\* in between: if no batch failed for good, a fresh response has every video.
ServedIsComplete ==
    \A r \in Request : resp[r].kind = "fresh" /\ ~gaveUp[r] => resp[r].videos = Wanted(r)

\* A request sends no batch that its service refuses for its size, whatever the probes
\* have learnt by then.
BatchesAccepted ==
    \A r \in Request : \A i \in DOMAIN worker[r] :
        worker[r][i] \in {"call", "retry"} => Cardinality(Batch(r, i)) <= limit[svc[r]]

\* No goroutine of a fan-out ever waits to send, also when the request has returned and
\* nobody will receive.
SendersHaveRoom ==
    \A r \in Request :
        LET running == {i \in DOMAIN worker[r] : worker[r][i] # "exit"} IN
        Cardinality(running) + Len(errorChan[r]) + Len(cacheChan[r])
            <= Room(Len(ids[r]), size[r])

\* A fan-out is sound whatever the batch size was when it was cut: sizes are never 0, no
\* batch is refused and no goroutine of it is left behind.
FanOutSound == TypeOK /\ BatchesAccepted /\ SendersHaveRoom

\* The requests that went wrong, or are about to fall back.
Failing == {r \in Request : pc[r] = "fall" \/ resp[r].kind \in {"stale", "error", "refused"}}

\* However many of its goroutines fail, and wherever, a request adds at most one to
\* TotalErrors, and one that fails past the test of its limit does add one (what TotalErrors
\* is against its documentation is ErrorsAreCounted). StaleResponses has every stale
\* response once, although several goroutines of a request may have sent the cache, and
\* ActiveRequests is the number of requests inside.
CountedOnce ==
    /\ totalErrors - refreshErrors <= Cardinality(Failing)
    /\ totalErrors >= Cardinality({r \in Request : resp[r].kind = "error"})
    /\ stats.StaleResponses = Cardinality({r \in Request : resp[r].kind = "stale"})
    /\ stats.ActiveRequests = Cardinality({r \in Request : pc[r] \notin {"idle", "done"}})

\* lab1.md:254: TotalErrors is the "Total number of requests to `GetTopVideos` which
\* returned an error" (server_test.go:319 has it count those that fell back as well). The
\* code does not keep it: a negative limit returns an error before anything is counted, and
\* a refresh that fails, which is no request, is counted.
ErrorsAreCounted ==
    (\A r \in Request : pc[r] \in {"idle", "done"}) =>
        totalErrors \in Cardinality({r \in Request : resp[r].kind \in {"error", "refused"}})
                        .. Cardinality(Failing)

\* lab2.md:556: "spreads out the load among the potential clients": no connection of a
\* service is handed out more than once more than another one, whoever asks, requests, the
\* refresher or the probes, and in whichever order.
PoolBalanced ==
    \A s \in Service : \A i, j \in DOMAIN pool[s].uses : pool[s].uses[i] - pool[s].uses[j] <= 1

\* A stale response comes from a cache that was filled, and a filled cache is never
\* emptied or cut by a refresh that fails halfway.
CacheOnlyGrows == [][cache \subseteq cache']_vars

\* Every request is answered, and the goroutines it started end.
RequestEnds ==
    \A r \in Request : pc[r] # "idle" ~> pc[r] = "done" /\ AllDone(r)

\* "handle these errors [and] propagate these back to the return value of GetTopVideos";
\* "return a response using the fallback trending videos instead": a response without
\* error or stale mark is complete. The code does not achieve it, see README.md.
FreshIsComplete ==
    \A r \in Request : resp[r].kind = "fresh" => resp[r].videos = Wanted(r)
======================================================================================
