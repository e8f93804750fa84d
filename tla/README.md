# Verification of the CPSC 426 labs

TLA+ models of the programs in this repository, TLC runs that check them on small
instances, and TLAPS proofs of what holds on every instance. `PROJECT.json` lists the
components, the runs, the source lines behind every definition, the hazards and the
findings.

## 1. Inventory

The repository holds five labs. `lab0/bws26`, `lab1/bws26` and `lab2/bws26` are byte-for-byte
copies of the submitted files of `lab0`, `lab1` and `lab2`; everything said of a file holds of
its copy. The user service, video service, failure injection, ranker, bcrypt, logging and
command line tools of lab 2 are those of lab 1.

| Component | State | Operations | Interaction |
|---|---|---|---|
| Raft peer, `lab3/raft/raft.go` | `currentTerm`, `votedFor`, `log`, `state`, vote count, `commitIdx`, `appliedLast`, `nextIdx`, `matchIdx`, two token channels, one mutex | `ticker`, the election, broadcast and apply goroutines, `RequestVote`, `AppendEntries`, the code after each RPC, `Start`, `Make`, `Kill` | RPCs through labrpc, `applyCh` to the service, `Persister` |
| Persister, `lab3/raft/persister.go` | the encoded term, vote and log | save, read, copy | written by `persist`, read by `Make` |
| Tester, `lab3/raft/config.go` | the applied log of every server, the connected flags | crash, restart, connect, `one`, `nCommitted`, `checkOneLeader`, `checkLogs` | owns the servers and the network |
| labrpc, `lab3/labrpc` | end points, servers, enabled and reliable flags | `Call`, `processReq`, dispatch, `DeleteServer`, `Cleanup` | carries every RPC; may lose or delay either direction |
| labgob, `lab3/labgob` | the types checked, the warnings given | encode, decode | used by `persist` and labrpc |
| Queue, `lab0/queue.go` | a linked list; the concurrent one adds a mutex | `Push`, `Pop` | called from many goroutines |
| Semaphore, `lab0/semaphore.go` | an atomic count and a channel of capacity 1 | `Post`, `Wait` with a context | posters and waiters |
| Merge, `lab0/merge_channels.go` | reader goroutines, a wait group, the output channel | `MergeChannels`, `MergeChannelsOrCancel`, `MergeFetches` | producers, consumer, canceller |
| Parallel fetcher, `lab0/parallel_fetcher.go` | a flag, a weighted semaphore | `Fetch` | a fetcher that ends with `false` |
| Video recommendation service, `lab1|lab2/video_rec_service` | trending cache, statistics, batch sizes, in lab 2 connection pools | `GetTopVideos`, `GetStats`, cache refresh, batch-size probing | gRPC to the user and video services |
| User and video services, `lab1|lab2/user_service`, `video_service` | generated data | `GetUser`, `GetVideo`, `GetTrendingVideos` | failure injection |
| Failure injection, `failure_injection` | failure and omission rates, a delay | `MaybeInject`, `SetInjectionConfig` | called by each service |
| Ranker, bcrypt | none | `BcryptRanker.Rank`, `GenerateFromPassword`, `CompareHashAndPassword` | called by `GetTopVideos` |
| Load generator, front end, monitor, logging | atomic counters; the position in a list of tests | `sendRequest`, `reportStats`, the two basic tests, `gatherStats`, `MakeMiddleware` | call the service, watch it |

Where the difficulty is: in Raft, goroutines that are spawned under the lock and run
later, replies for an earlier term, calls that overtake each other, indices kept from an
earlier leadership, and what survives a crash; in labrpc, a server that is deleted, copied
and replaced while a handler of its runs; in lab 0, a count and a channel that are updated in
separate steps, and the close of a channel that several goroutines send on; in labs 1 and 2,
fan-out with one error channel, deadlines, a cache that is refreshed in the background under a
lock, a fallback that may find the cache empty, and counters that several programs read one
by one.

What makes each part correct: a Raft term has at most one leader, what is applied
anywhere is never contradicted, the cluster is one log; logs survive a crash; a call is
handled at most once, and what it was told lasts; a semaphore never hands out more than
was posted and wakes those who can go on; a queue is first-in first-out; a merge neither
loses a value nor sends on a closed channel, and ends; a fetcher keeps its limit and stops
at the end; a recommendation is the best of the candidates unless something failed, a failure
is counted, every request ends and no goroutine stays behind; those who watch the service
agree.

## 2. Plan

| Order | Module | Models | State of the work |
|---|---|---|---|
| 1 | `Raft`, `ReplicatedLog` | the peer, its Persister, the network and the tester's crashes; what a cluster promises | done, except `cHeartbeat` as a queue and `Kill` |
| 1 | `Tester` | `one` and `checkOneLeader` beside the cluster | done; `wait`, `checkTerms`, `checkNoLeader` left out |
| 1 | `RaftProofs` | types, durability of the log, elections, agreement of logs; what is applied is final, the cluster is a replicated log, the tester's verdicts last | done, all safety properties proved |
| 2 | `CountingSemaphore`, `Semaphore`, `SemaphoreProofs` | `semaphore.go` and what it promises | done |
| 2 | `FifoQueue`, `ConcurrentQueue`, `ConcurrentQueueProofs` | `queue.go` and what it promises | done |
| 2 | `Merge`, `ParallelFetcher`, `MergeProofs`, `ParallelFetcherProofs` | `merge_channels.go`, `parallel_fetcher.go` | done, all safety properties proved |
| 3 | `VideoRec`, `VideoRecProofs` | the lab 2 service: requests, cache, probes, counters, connection pools | done, all safety properties proved |
| 4 | `RpcContract`, `Labgob`, `Labrpc`, `LabrpcProofs` | the network, the encoding, the tester's operations on them; what `Call` promises | done, all safety properties proved |
| 5 | `Backends`, `DetBcrypt`, `VideoRecLab1`, `Clients`, `VideoRecLab1Proofs` | the lab 1 system: services, failure injection, ranking, the recommendation service, the programs around it | done, all safety properties proved but `ScoresAgree` |

## 3. The modules and the code

Every module has one action per atomic step of the code: a critical section, an operation
on an atomic or a channel, or the return of an RPC. Some definitions are preceded by one
that no specification uses, the same operation with a plausible mistake. `PROJECT.json`
pairs it with a property that TLC refutes once the mistake is in place; this is how we know
that the property says something about that code. A property that has several sides is the
conjunction of named parts, each with its comment.

### Raft, ReplicatedLog, Tester

| State | In the code |
|---|---|
| `currentTerm`, `votedFor`, `log`, `state`, `numVotesReceived`, `commitIdx`, `appliedLast`, `nextIdx`, `matchIdx` | the fields of `Raft` with the same names |
| `cWinElection` | the number of tokens in the channel |
| `pc` | where the ticker goroutine is in its loop |
| `electing`, `broadcasting`, `applying` | goroutines that were spawned and have not got the lock yet |
| `disk`, `restarts` | the Persister, and the crashes so far |
| `net` | calls and replies in flight, a bag; a call of `AppendEntries` is in it from the moment it is prepared, and `copied` says whether its goroutine has made its copy of the entries |
| `logs` | `cfg.logs` of the tester: what each server sent on its `applyCh`, with its index |
| `scope` | the set of bounds that a behaviour keeps to |

`FollowerTimeout`, `TickCandidate`, `CandidateWin`, `CandidateBackOff`, `TickLeader` and
`LeaderPersist` are the ticker; `ElectionGoroutine` and `broadcastHeartbeat` the goroutines it
spawns; `SendCopy` the first critical section of `sendAppendEntries`, `sendAppendEntries` the one after
the call; `RequestVote`, `AppendEntries`, `sendRequestVote`, `Apply` and `Start` the functions of the
same names; `Restart` the tester's `crash1` followed by `start1`;
`Lose` a call or reply that labrpc drops. Timers are nondeterministic: a `select` may always
take its `time.After` branch.

A call is prepared with a slice of `rf.log` (`raft.go:407`), which its own goroutine copies when it gets
the lock (line 332). Until then the slice shows what is in the array: whoever cuts the log and appends
writes into it, as long as it has room. `Overwritten` does this to every call that `Waits`. When `append`
moves to a new array instead, the slice keeps what it had, which is the same as a copy just before.

`ReplicatedLog` is what a cluster promises to the services above it: one log that only grows,
of which each server hands over the entries in order, from the start again after a crash.
`IsReplicatedLog` is the refinement, with the agreed log read off what was ever applied.

`Tester` runs `one` (submit, wait until enough servers have applied it, submit again when the
time is over) and the sweep of `checkOneLeader` concurrently with the servers.

Two constants describe scheduling. `Prompt` names the kinds of goroutine that run as soon as
they are spawned ("election", "broadcast", "send" for the copy of a call, "apply"); `InOrder` says
that a leader's round of `AppendEntries` is over before its next one starts. The code guarantees neither. The passing run assumes both and so shows
what the protocol logic achieves when scheduling is kind, which is the usual case with
labrpc's delays of up to 27 ms and heartbeats 100 ms apart. The violation runs, and section 7,
show what is lost without them.

### Labrpc, Labgob, RpcContract

`Labrpc` has a call as three parties: the caller (`req`), `processReq` (the later values of
`req.pc`) and the goroutine of the handler (`handler`). The tester connects, disconnects,
crashes and restarts servers meanwhile, in the steps of `crash1` and `start1`: end points
disabled, server deleted, Persister copied, new life, server added. A life is numbered; its end
points carry the number, as `start1` draws new names. `kept` is the set of calls whose effect is
in the Persister that the next life will read: a handler of an old life writes to an old copy.
A crashed life may go on calling; `posthumous` are the calls it began after its crash.

`Labgob` is the walk of `checkType` over the types of a value, one type per step because the
mutex is released in between, the count and the warning of `checkDefault`, which is printed only
while nothing was counted before it, a lower-case field included, and what `Decode` leaves in a
variable that was not fresh. `Program` are the programs under study: how many lower-case fields each
of their types has. `RpcContract` is the comment above `sendRequestVote` as a
specification: at most one run of the handler, `true` only after it.

### Semaphore, ConcurrentQueue

`Semaphore` has one action for each atomic operation and each `select` of `Post` and `Wait`. A
waiter in the second `select` is `parked`; a `Post` that finds one parked hands its token over,
as a Go channel does. `CountingSemaphore` is the promise: an atomic value, and waiters that
take one or give up. `IsCounting` and `IsLive` are the refinement without and with liveness,
under the mapping `value <- available`.

`ConcurrentQueue` models the linked list as a heap of nodes, and the assignments of `Push` and
`Pop` one by one, between the lock and the unlock. `FifoQueue` is the promise; the list maps
to the sequence of values from `head` on, and an operation takes effect when its node is
linked or when `head` moves.

### Merge, ParallelFetcher

`Merge` has the three functions as modes of one module, since they differ in how a reader gets
its next value and in who reports the end. Producers, the consumer (who may stop
reading) and the canceller are the environment.

`ParallelFetcher` takes the data race on `callAgain` seriously: a read that is not ordered
after the write by the semaphore may return the old value.

### VideoRec (lab 2)

An RPC is one step, taken when it returns. A request goes through `pc` = `subscriber`, `users`,
`videos`; each fan-out has a function `worker` from batch numbers to states, and the two
channels that its goroutines send on. The refresher holds `trendingLock` from
`RefreshBegins` to `RefreshEnds` or `NoTrending`. The probes change `batch` under running
requests, which keep the size they read; with a batch size flag below 1 the probes end at once. `pool`
has the index of each service's connections and
how often each was handed out; requests, refresher and probes share it. The retry and
fallback flags are chosen in `Init`, so that one run covers all four settings. A response is a
set of videos; ranking and the limit are those of lab 1.

### Backends, DetBcrypt, VideoRecLab1, Clients (lab 1)

`Backends` has the user and video services, each call as the set of the answers it can get:
the checks are in the order of the code, the injected failures are those the configuration of
the moment allows. Over a connection an answer may also be a failure of the network or of the
context; the mock clients call the service directly. The random data are constants, with the
assumption that the generators could have drawn them.

`DetBcrypt` has the layout of a hash (version, optional minor version, cost, salt, text), its
base64 encoding, the parser `newFromHash`, and the ranker's sum of products modulo a word.
Blowfish and FNV are constants: any function of their inputs.

`VideoRecLab1` is the recommendation service: a request dials for itself, has a deadline
(`ContextEnds`), may retry, answers a slow `GetVideo` from the cache at once, ranks and truncates.
`fan` holds the fan-out of the moment: the goroutines, the two channels, and whether they are
closed. `stats` are the counters of `GetStats`, `hist` what was counted on behalf of a request.
The refresher dials, asks for the trending videos and fetches them in batches under the
write lock. The probes parse the limit out of the service's answer.

`Clients` puts the programs around it: the load generator with its four atomic counters, the
line of `reportStats` assembled from loads at different moments, the front end with its two
basic tests, the monitor that polls `GetStats` counter by counter, and the logging middleware. A call
may reach the service when its client has given up already.
The unit tests call the service directly. Which program calls, with which flags, injection
configuration and bounds, is the `scene`, chosen in `Init`; a scene is one case the
repository's tests or mains set up.

## 4. Runs

| Run | Shows | States, time |
|---|---|---|
| `raft` | with goroutines that run when they are spawned: no two leaders in a term; indices in range; logs agree, are saved, and are never cut where they were applied or by a leader; applied entries are never contradicted, stay with a majority and reach every newer leader; the cluster is one replicated log; what `one` and `checkOneLeader` report is right | 1.2 M, 120 s |
| `raft_stale_match` | *violation*: a leader that returns counts acknowledgements of entries that were replaced since | |
| `raft_late_append` | *violation*: an overtaken `AppendEntries` erases an entry that is then applied | |
| `raft_aliased_slice` | *violation*: a call that is prepared and not yet copied is overwritten by a newer leader, and a follower takes entries whose terms are out of order | |
| `labrpc` | at most one run of a handler, `true` only for what lasts, a crashed life is not heard, calls return; labgob counts every mix of values, complains of a type once, and is not silent | 669 000, 150 s |
| `semaphore` | refinement of the counting semaphore, balance, cancelled waits return: two waiters | 76 000, 10 s |
| `semaphore_lost_wakeup` | *violation*: two waiters, two posts, one wake-up | |
| `queue` | refinement of the FIFO queue, the list is sound, calls return | 52 000, 13 s |
| `merge` | no send on a closed channel, nothing lost, `nil` only for a complete merge, it ends | 44 000, 3 s |
| `fetcher` | the limit, no call after one's own `false`, every `Fetch` returns; limits 0, 1, 2 | 3 700, 2 s |
| `videorec` | complete responses, sound fan-outs, no request counted twice, balanced pools, a cache that is never cut, requests and goroutines end | 328 000, 105 s |
| `videorec_lab1` | the best videos (`BestAreServed`) by scores that do not depend on the order of a map (`ScoresAgree`), sound fan-outs, observers agree, a test of the front end fails only with cause (`VerdictIsJust`), the cache is never cut, requests and the front end come to an end | 145 000, 60 s |

Bounds, and why they are enough. Three Raft servers are the smallest cluster in which a
majority is not everybody. A scope of `MCRaft` says who may stand in which term, which entries
are accepted, in which terms leaders send rounds and messages are lost, and how many votes and
appends may be in flight when a new round starts. `Rivals` has two candidates per term and late
votes, with rounds in the second term only; `Contested` alternates leaders over four terms, with losses in the first three, what the classical loss of an entry of an
older term needs (`CommitAnyTerm` is refuted only there); `Returning` has the two entries and three
terms that a difference below a matching term needs (`MatchesByLength`); `Crashing` has two
crashes; `Submitting` has a retry of `one` across a change of leader; `Sweeping` has
`checkOneLeader` among rivals. `Alternating` extends `Returning` to the six terms that the stale
`matchIdx` needs; `Aliasing` has the four terms and two entries in which a returned leader's slice is
overwritten, with copies that are late and all else prompt. One entry
per command value is enough because entries also carry their term.
Two waiters and two posts show the lost wake-up. In `labrpc` three operations of the tester
are a crash and two more around one call, and two calls without operations meet in labgob,
in a program with a lower-case field and in one without. In `videorec` two creators with a video in common and services with batch sizes 1 and 2 give
fan-outs with several batches, with an empty last batch and with a remainder, and two
refreshes give a cache that is filled, partly filled and kept. `videorec_lab1` has four kinds of
scenes: `Probing` (sizes learnt during a request, contexts that expire or are cancelled),
`Falling` (the cache filled while requests need it, a service that never answers, a change of the
injection configuration), `Mocking` (mock clients under injection) and `Calling` (the programs).
A word of four bits makes the ranker's sum wrap around, and a `TestLimit` of 2 makes the order in a test's
list matter. One request at a time suffices there:
requests meet only in counters, the cache and the batch sizes, which the
refresher, the probes and the monitor change meanwhile; two requests overlap in no other state.

Deadlock is not checked: bounds make every system stop in the end, and liveness properties
say where it must not.

## 5. Fairness

`Semaphore`, `ConcurrentQueue`, `Merge` and `VideoRec` assume weak fairness of every goroutine
that can go on, which is what the Go scheduler gives. Taking a mutex or a permit of
`semaphore.Weighted` is strongly fair: Go's mutex hands over to a starving waiter, and the
weighted semaphore queues its waiters. Environments (producers, posts, cancellations, clients,
the tester) are not fair. `VideoRec` assumes that RPCs return: `GetVideo` has a deadline of its own
and `GetUser` has that of the client's call; a client without a deadline whose user service omits
its response would wait for ever. `VideoRecLab1` needs less: its requests have a deadline in any
case, and weak fairness is asked of the service as a whole, not of each goroutine. The mock mode
has no deadline, and its scene omits no responses. `Labrpc` assumes that the goroutine of each call
goes on, and nothing of handlers: `EveryCallReturns` excepts a handler that never returns on a
server that is not deleted, as `raft.go:198` does. `Clients` assumes that a client program goes
on while it can. `Raft` has no fairness: no liveness is claimed of it.

## 6. Proofs

| Theorem | Says | Argument |
|---|---|---|
| `RaftProofs!TypeCorrect` | `Spec => []TypeOK` for any servers and bounds, a part of `IndicesInRange` that needs no condition | `TypeOK` is inductive; one lemma per action, lemmas on bags for sending and dropping, on `Max`, `Min` and splicing |
| `RaftProofs!LogSaved` | `Spec => []LogDurable` for any number of restarts and losses | inductive with `TypeOK`: a step leaves a server's term, log and Persister alone, saves the new term and log together, raises the term alone, or restarts from the Persister |
| `RaftProofs!OneLeaderPerTerm` | `Spec /\ VotesSurvive => []ElectionSafety` | see below |
| `RaftProofs!LogsShareTheirPast` | `Spec /\ VotesSurvive /\ CopiesInTime => []LogsAgree` | see below |
| `RaftProofs!PromptCopies` | `Spec => CopiesInTime` if `"send" \in Prompt` | a slice that waits shows its part of the log (`SlicesHold`), and only steps that come after the copies write into a log |
| `RaftProofs!BroadcastInRange` | `Spec /\ VotesSurvive /\ CopiesInTime => []NextInRange`, a part of `IndicesInRange` | a return that is accepted belongs to a call of this leader's term, so its index is within a log that has only grown since |
| `RaftProofs!LeaderAppends` | `Spec /\ VotesSurvive /\ CopiesInTime => [][\A i \in Server : OnlyAppends(i)]_vars`, a part of `LogsKept` | an `AppendEntries` call of a term comes from its one leader, and never goes to the sender |
| `RaftProofs!NoForkedService` | `Spec /\ Conditions => []StateMachineSafety` | what is committed is chosen, and chosen entries do not differ; see below |
| `RaftProofs!AppliedIsNeverLost` | `Spec /\ Conditions => []AppliedSurvives` | Leader Completeness |
| `RaftProofs!NoIndexOutOfRange` | `Spec /\ Conditions => []IndicesInRange` | with `TypeOK`; a log has all that is committed on its server, so a cut ends above `commitIdx` |
| `RaftProofs!AppliedIsKept` | `Spec /\ Conditions => LogsKept` | the same, for the step that cuts |
| `RaftProofs!ImplementsReplicatedLog` | `Spec /\ Conditions => IsReplicatedLog` | step simulation: `Apply` extends or follows the agreed log, `Restart` begins again, all else stutters |
| `RaftProofs!TesterIsSatisfied` | `TesterSpec /\ Conditions => []TesterSatisfied` | `one` returns an index only when its command was applied there; the leaders that the sweep has seen are those of the history |
| `SemaphoreProofs!NothingIsLost` | `Spec => []NothingLost`, that is `Balanced /\ NothingOverlooked` | inductive together with `TypeOK`, `LoadedPositive` (a waiter before its compare-and-swap has read a positive value) and `ExpiredIsDone` |
| `SemaphoreProofs!ImplementsCounting` | `Spec => IsCounting` | step simulation under the invariant |
| `SemaphoreProofs!OneWaiterWakes` | `Spec => []NoLostWakeup` if there is one waiter | needs `Owed`: while something is available, a waiter that has read 0 has a signal buffered or on its way |
| `ConcurrentQueueProofs!ListIsWhole` | `Spec => []ListSound` | the invariant adds mutual exclusion and the shape of the list at each place inside the lock |
| `ConcurrentQueueProofs!ImplementsFifo` | `Spec => IsFifo` | step simulation under that invariant |
| `LabrpcProofs!Invariance` | the inductive invariant, `CfgInv /\ CallInv /\ GobInv` | what the tester has made, enabled and crashed, in its order; where each request and each handler is; what the goroutines in `labgob` have marked and counted |
| `LabrpcProofs!TrueIsKept` | `Spec => []TrueIsDurable` | needs `SavedOrGone` (what a handler saved is in the Persister, or its life does not write there any more): an answer is passed on only if the server was not deleted after the handler returned, and `crash1` deletes it before it copies the Persister |
| `LabrpcProofs!LivesStayApart` | `Spec => []LivesApart` | only the latest life serves and writes, in the order of `crash1` and `start1`; a crashed life has no enabled end point, so its calls do not get past `processReq` |
| `LabrpcProofs!GobIsHeard` | `Spec => []GobSpeaksUp` | a type is counted when it is marked, and marked once under the mutex; a field that keeps an old value was not the default, so `checkDefault` counted it, and what is counted first is printed (`FirstIsPrinted`) |
| `LabrpcProofs!HandledAtMostOnce` | `Spec => IsAtMostOnce` | step simulation of `RpcContract` under the invariant |
| `MergeProofs!NeverSendsOnClosed` | `Spec => []NoSendOnClosed` | the closer runs when the `WaitGroup` is 0, which counts the readers still running |
| `MergeProofs!MergeIsExact` | `Spec => []MergesAll` | inductive with `Control`: what a closed output, an exit and a nil result imply, and that a reader about to send holds the value it took last |
| `ParallelFetcherProofs!LimitIsKept` | `Spec => []PermitsKept` | the permits and the callers that hold one add up to the limit |
| `ParallelFetcherProofs!OwnFalseIsFinal` | `Spec => NoFetchAfterOwnFalse` | needs `FalseIsSeen`: a caller's own write of the flag is ordered before its later reads |
| `VideoRecProofs!Invariance` | the inductive invariant, in ten layers | one per group of variables, each preserved by the steps that write the group; see below |
| `VideoRecProofs!FanOutsAreSound` | `Spec => []FanOutSound` | a batch size is 1 or what the probe has learnt; goroutines not through plus messages sent never exceed the capacity |
| `VideoRecProofs!FreshHasAll` | `Spec => []ServedIsComplete` | every id is in a batch (`SliceSound`), a batch that ended without giving up is in `got`, the second fan-out asks for all that the first one found |
| `VideoRecProofs!EachIsCountedOnce` | `Spec => []CountedOnce` | only requests that have ended have a response, so each of the three sets changes by the request that moves; the requests in `TotalErrors` are known exactly (`ErrorInv`) and lie between the two bounds |
| `VideoRecProofs!TurnsAreTaken` | `Spec => []PoolBalanced` | the connections 1 to `index % n` are one ahead of the others |
| `VideoRecProofs!NothingIsDropped` | `Spec => CacheOnlyGrows` | a refresh without losses fetches all of `Trending` |
| `VideoRecLab1Proofs!FanOutIsSound` | `ClientsSpec => []FanOutSound` | a batch size is 1 or the limit its service quoted; goroutines that are not through plus what the two channels hold never exceed the capacity, and a close comes after all of them |
| `VideoRecLab1Proofs!TroubleIsSeen` | `ClientsSpec => []RequestsAreCounted` | every step of a request adds a known number to each counter (`Moves`); `Honest` says what was counted at each stage, `how.late` what is still to be; a lower bound, checked by no run, since the counters themselves are not what `lab1.md` says (section 7) |
| `VideoRecLab1Proofs!ObserversTellTheSame` | `ClientsSpec => []ObserversAgree` | six balances between pairs of counters; see below |
| `VideoRecLab1Proofs!CacheIsNeverCut` | `ClientsSpec => CacheOnlyGrows` | the batches of a refresh without losses cover the list of trending videos, the last one included, and the cache holds nothing else |
| `VideoRecLab1Proofs!OnlyTheBest` | `ClientsSpec => []BestAreServed` | `GatherInv`; see below |
| `VideoRecLab1Proofs!TestsAreJust` | `ClientsSpec => []VerdictIsJust` if no two candidates of a test have the same score (`NoTies`) | an answer that is neither stale nor incomplete is the best of the candidates; without ties there is one such list, and `Expected` chooses it |

`Conditions` stands for `VotesSurvive /\ CopiesInTime /\ MatchesWithin`, with `"election" \in Prompt` and `InOrder`.

**Raft, elections and logs.** `ElectionSafety` is far from inductive: a leader's votes are forgotten when
its voters move on. The invariant says that a history of votes exists (`votes[t][j]`, who `j` voted
for in term `t`) that has the present votes and no future ones; each call and return about a vote
in flight agrees with it; a candidate's count is covered by the voters who answered; a leader has a
majority of its term. Two majorities meet, so a term has one leader. For the logs the history also
has the winner of each term (`won`) and its log (`master`), the longest it had. Every log, every
`AppendEntries` call in flight and every part of a master log is the beginning of a master log as
far as its last term reaches; hence `LogsAgree`.

**Raft, what is final.** The properties of what was applied need a fourth history: `acks[t][j]`, how
much of the log of the leader of term `t` server `j` has accepted in that term. An entry that a
leader took in its own term is *chosen* when a majority has accepted it, and *refused* when a majority has
moved past the term without accepting it; two majorities meet, so no entry is both, now or later.
`SafeInv` says that histories exist such that

- every later winner has each entry or the entry is refused (`WinnersHave`), and so does the log of
  every server that accepted it (`LogsHave`). Kept by an election because a voter compares the last
  terms and lengths: `VotesCarry` says what the vote has told about the candidate's log, until the
  candidate wins or moves on, and `VoteCallsTrue` that a call still describes the candidate's log.
  This is Leader Completeness: chosen entries are not refused, so every later leader has them;
- a call of `AppendEntries` in flight has no less than what its receiver has accepted in that term
  (`CallsWhole`). Without it the cut of `raft.go:299` takes back an acceptance;
- what a return claims was accepted (`ReturnsTrue`), and of the entries of its own term a leader has
  only accepted ones within a `matchIdx`, which may be a leftover of an earlier term (`MatchTrue`);
- everything up to `commitIdx` is the beginning of a master log up to a chosen entry, and the log has it
  (`CommitTrue`); everything in `logs` is part of such a beginning, without gaps (`AppliedTrue`).

The predicates take the state they are about as parameters, so that one lemma (`SafetyFrame`) covers
all steps that change neither terms nor logs. Among the rest, the steps that matter are a win, an
acceptance, an entry taken by a leader, a vote, a return, and a restart.

The conditions are those of the environment that the code relies on without saying so:

- `"election" \in Prompt`: the goroutine of `raft.go:495` gets the lock before anything else happens
  to its server. Otherwise `ElectionSafety` is false (section 7).
- `VotesSurvive`: a server that restarts has `votedFor = -1` and has saved its term. `Make`
  resets `votedFor` and `RequestVote` does not call `persist`, and without this condition a term may
  get two leaders (`Scopes <- OpenVote`, section 7). Restarts are otherwise unrestricted, also those of leaders'
  followers with half-replicated logs.
- `CopiesInTime`: no step changes what the slice of a call shows before the call's goroutine has copied it.
  `raft.go:323` makes the copy against a data race, and makes it too late: in the run
  `raft_aliased_slice` a log has its terms out of order. If the goroutines of the calls get the lock before anything
  else happens (`"send" \in Prompt`), the condition holds, which is the theorem `PromptCopies`; with a
  copy in line 407 it would hold by itself. Elections and the durability of logs do not need it.
- `InOrder`: a server starts no round of `AppendEntries` while a call of an earlier round has neither
  arrived nor been lost; returns may be late. The run `raft_late_append` shows what happens
  otherwise. The theorems on elections and logs do not need it.
- `MatchesWithin`: a server wins with a log that reaches every match index it has kept, since
  `sendRequestVote` does not reset `matchIdx`. Without it the run `raft_stale_match` applies two
  entries at one index. With a reset in line 232 the condition would hold by itself.

Calls and returns are lost, and votes delayed and reordered, at will. The goroutine of a broadcast may
start late and that of an apply may run late; what may not happen between a broadcast and
the copies of its calls is said by `CopiesInTime`, and nothing else is asked of `Prompt` but the election.

**VideoRec.** The layers are the batch sizes, the cache, the pool, the requests, the fan-outs, their
course, the responses, the errors, the statistics, and that finitely many requests were refused. A fan-out is described without
state (`Fan`, `Course`), so that a step of one request leaves those of the others alone by rewriting.

**VideoRecLab1 and Clients.** The inductive invariant has three parts. `ServiceInv` describes the service:
the batch sizes within the limits of the services (`StaticInv`), the cache (`CacheInv`), the counters
(`HistType`), and for each request where it is and the fan-out it has (`RequestInv`, that is `Course` and
`Fan`). `AccountInv` says what was counted on behalf of a request at its stage, and that `ActiveRequests` is
the number of requests under way. `ClientInv` is about the programs: where a call is on either side
(`CallCourse`), that the front end has one call at a time (`FrontInv`), and that counters which different
programs keep differ by no less than the calls in between (`BalanceInv`): requests and log
lines, errors and logged errors, logged and seen successes, stale responses and those seen, calls
sent and answered, responses and successes. A comparison of two counters is not inductive, since a call
is counted at one place and later at the other; the set of calls in between makes it so. `ReadInv` carries
this over to numbers that are read one after the other while they grow.

`BestAreServed` needs what a request has gathered as well (`GatherInv`): as long as no goroutine
gave up, those that are through have brought just the ids of their batches, none of them twice, and the
second fan-out asks for all that the first one found. That the batches are disjoint and cover the
list is arithmetic of quotients (`SliceMembers`, `SlicesApart`, `SlicesAre`). `rankVideos` is stated by places: an
element comes to the place that is the number of elements that are not after it. That this is a
permutation which sorts follows from the cardinalities of nested sets (`Places`), without induction
over lists. `VerdictIsJust` adds that the call of a test is about that test's user and limit, and
that what spoilt an answer stays spoilt. `NoTies` is needed: of two candidates with one
score, the one whose batch came back first is served first, and the lists in the front end have an
order. Ranks are 64-bit hashes; fixed lists presuppose that they differ.

The assumptions are those stated in the modules: the servers are a finite, non-empty set
that does not contain `Nil`, the bounds are natural numbers, the fields of a message, the
likes of a user and the trending videos are finite (they are Go structs and slices). For lab 1 they
are: users like videos and follow other users (`BackendAssumption`, as the generators draw them), a
service takes at least one id per call and flags have their types (`SceneAssumption`), user 0 does not exist
(`RequestAssumption`), scores and words are natural numbers (`ScoreAssumption`, `WordAssumption`), and
the front end's two test users exist (`ClientsAssumption`). What the hash functions compute is left open.
The bounds are parameters of the theorems, so they hold without any bound that matters.

Checked by TLC only:

- liveness, since the prover has no rule for fairness;
- `ScoresAgree`: that a sum which wraps around does not depend on the order of its terms is an induction over
  lists of any length, and the layout of a hash is evaluated byte by byte;
- that a `Fetch`, a merge, a call or a request comes to an end, in every component: see section 5.

## 7. Where code and documents disagree

Four disagreements are runs with a counterexample, listed under findings in `PROJECT.json`:
the stale `matchIdx`, the late `AppendEntries`, the slice that is overwritten before it is copied, and the
lost wake-up.

The slice takes these steps: s1 leads term 1 with two entries, s2 leads term 2 with one; s1 leads
term 3 and prepares a call with both of its entries for s3; before the call's goroutine has the lock, s1
votes for s2 in term 4 and takes its entry, which is written into the first place of s1's array; the call of
term 3 goes out with the entry of term 2 followed by one of term 1, and s3, still in term 3, accepts it.

Others were met while modelling. Those with a definition can be reproduced with
it, in the MC module of the component.

- `raft.go:570`: `Make` resets `votedFor` after `readPersist`, and `RequestVote` never calls `persist`, where
  `lab3.md:239` asks for the state to be saved "each time the state changes". With `Scopes <- OpenVote` in
  `Raft.cfg`, `ElectionSafety` fails: a restarted server votes twice, and the term has two leaders.
- Counters that are not what `lab1.md` asks for. Each of these definitions fails within seconds as an
  invariant of the component's configuration:
  - `StaleRequestsCounted` (lab 1, `server_lib.go:1071`): `deadlineExc` counts a stale response (line 671),
    and the request that receives the list counts it again (line 1213), where `lab1.md:333` asks for the
    number of requests that returned a fallback response.
  - `ErrorRequestsCounted` (lab 1, `server_lib.go:701`): a negative limit returns an error and is not counted in
    `TotalErrors`, and goroutines whose deadlines pass (line 1069) count their request once each;
    `lab1.md:254` asks for the requests that returned an error.
  - `ErrorsAreCounted` (lab 2, `server_lib.go:682`): a negative limit is not counted, while failed
    refreshes, which are no requests, are. `CountedOnce` leaves these cases out, and says what does hold.
  Responses from the cache are counted in `TotalErrors` as well; `server_test.go:319` expects that, and
  these properties allow it.
- `raft.go:495`: the election goroutine reads `currentTerm` after the ticker has released the
  lock. With `Prompt = {"broadcast", "send", "apply"}` in `Raft.cfg`, `ElectionSafety` fails: a server asks
  for votes in a term in which it voted for another. In a cluster of four or more there is a second
  way: two delayed goroutines of a server ask in the same term, a peer grants both, and its vote
  is counted twice.
- `merge_channels.go:95`: a reader sends outside of any `select`. `CancelReturns` of `Merge`
  fails when the consumer stops reading.
- `parallel_fetcher.go:39`: the flag is not read again after `Acquire`. `NoFetchAfterFalse`
  fails with a limit of 1 and two callers.
- `server_lib.go:886` and `1074` (lab 2): one element of the error channel is read. Without
  fallback `FreshIsComplete` fails: an incomplete response is returned with no error. With
  fallback it fails too, since a goroutine sends nothing when the cache is still empty
  (line 795) and the `select` of line 876 may pick `done` although a cached list is waiting.
- `server_lib.go:1068-1073` (lab 1): after a deadline the list that `deadlineExc` returns is sent
  even when it is nil, so the caller may get an empty response marked stale.
- `server_lib.go:736-743` (lab 1): a failed dial without retries that is answered from the cache
  is not counted in `TotalErrors`, unlike every other stale response (`TroubleIsCounted` excepts it).
- `loadgen.go:83` (labs 1 and 2): responses are loaded before successes and subtracted
  unsigned. With calls under way a line may show nearly 2^64 errors; `IdleReportIsSane` states
  when it cannot.

## 8. Not modelled

- The generated messages of the `*.pb.go` files, flags, formats, InfluxDB and deployment files:
  data and text without state.
- Latencies, their digest and quantiles: durations. The digest is changed without a lock
  (`server_lib.go:691`, lab 1); it is a data race inside a library.
- In labrpc, the reflection of `MakeService` and the counters of calls and bytes; in the tester,
  `wait`, `checkTerms`, `checkNoLeader`, timing and statistics.
- In Raft, `cHeartbeat` as a queue, the lock held across a send on a full channel, `Kill` and
  `killed`, and liveness: an election ends only with probability one.
- Polls of the monitor that overlap: their lines are out of order by the shape of the code.
- A probe that has used up its ten seconds asks in vain for ever; the models have the state, and
  all properties hold with batches of size 1.
- `lab-dsml`, a proto file and a text.

Clocks are nondeterminism throughout: no property depends on a duration.
