----------------------------------- MODULE Clients -----------------------------------
(***********************************************************************************)
(* The programs around the video recommendation service of lab1: the load generator *)
(* (cmd/loadgen), the test front end (cmd/frontend), the monitor (cmd/stats), and   *)
(* the generated stubs and the logging middleware that a call of theirs goes        *)
(* through. Which program calls is part of the scene; "tests" are the unit tests,   *)
(* which call the service directly.                                                 *)
(*                                                                                  *)
(* A call of GetTopVideos uses a member of Request, which serves again for a later  *)
(* call when everything about the earlier one has ended.                            *)
(***********************************************************************************)
EXTENDS VideoRecLab1

CONSTANTS
    NetUser,     \* the user that getUserId picks for a net id
    TestUsers,   \* the users of the two basic tests
    TestLimit,   \* the limit that the front end asks for: 5
    Limits,      \* the limits that the load generator draws from: 1 .. 10
    MaxSent,     \* bound: calls of the load generator
    MaxPolls     \* bound: calls of the monitor

ASSUME ClientsAssumption ==
    /\ NetUser \in DOMAIN User /\ TestUsers \in Seq(DOMAIN User) /\ Len(TestUsers) = 2
    /\ TestLimit \in Nat \ {0} /\ Limits \subseteq Nat \ {0}

VARIABLES
    call,     \* per request: the client's side and the server's side of the call
    load,     \* the counters of the load generator, and the next user id
    report,   \* reportStats: what it has loaded so far
    poll,     \* GetStats for the monitor: the line it prints, and how much of it is there
    front,    \* where main of the front end is
    log       \* how many calls the middleware has logged, without and with an error

clientVars == <<call, load, report, poll, front, log>>
allVars == <<vars, clientVars>>

NoCall == [client |-> "none", server |-> "none", user |-> 0, limit |-> 0]
IsError(r) == req[r].resp.kind \in {"error", "refused"}
Program(p) == scene.program = p

--------------------------------------------------------------------------------------
(* A call of GetTopVideos between the client and the service.                         *)

\* Nothing is left of the last call: a new one begins.
Settled(r) ==
    /\ call[r].client = "none" /\ call[r].server # "handling"
    /\ req[r].pc \in {"idle", "done"} /\ AllDone(r)
videoRecServiceClient(r, u, n) ==
    /\ Settled(r)
    /\ call' = [call EXCEPT ![r] = [client |-> "waiting", server |-> "none", user |-> u, limit |-> n]]
    /\ req' = [req EXCEPT ![r] = NewRequest]
    /\ fan' = [fan EXCEPT ![r] = NewFan]
    /\ hist' = [hist EXCEPT ![r] = [k \in DOMAIN @ |-> 0]]
    /\ UNCHANGED <<StaticVars, stats>>

\* The call arrives, maybe when its client has given up: the interceptor calls the service.
VideoRecService_GetTopVideos_Handler(r) ==
    /\ call[r].client \in {"waiting", "failure"} /\ call[r].server = "none"
    /\ Arrive(r, call[r].user, call[r].limit)
    /\ call' = [call EXCEPT ![r].server = "handling"]
    /\ UNCHANGED <<load, report, poll, front, log>>

\* Either logger writes a line to stderr; the one for InfluxDB sends a point as well.
LogRequest(isError) ==
    log' = IF isError THEN [log EXCEPT !.err = @ + 1] ELSE [log EXCEPT !.ok = @ + 1]

\* ... and logs what came of it, before the client hears of it.
MakeMiddleware(r) ==
    /\ call[r].server = "handling" /\ req[r].pc = "done"
    /\ call' = [call EXCEPT ![r].server = "logged"]
    /\ LogRequest(IsError(r))
    /\ UNCHANGED <<vars, load, report, poll, front>>

\* The client gets the answer; or the server cannot be reached; or ten seconds are over,
\* and the service may not know yet.
CallReturns(r) ==
    /\ call[r].client = "waiting"
    /\ \E outcome \in {"answer", "error"} :
        /\ outcome = "answer" => call[r].server = "logged"
        /\ call' = [call EXCEPT ![r].client =
                    IF outcome = "answer" /\ ~IsError(r) THEN "success" ELSE "failure"]
    /\ UNCHANGED <<vars, load, report, poll, front, log>>

--------------------------------------------------------------------------------------
(* The load generator. Every counter is changed and read atomically, one by one.      *)

getNextUserId(userId) == ((userId + 1) % 5000) + 200000

\* A goroutine of its own for each call, when the limiter lets it.
sendRequest(r) ==
    /\ Program("loadgen") /\ load.totalSent < MaxSent
    /\ load' = [load EXCEPT !.totalSent = @ + 1, !.userId = getNextUserId(@)]
    /\ \E responseLimit \in Limits : videoRecServiceClient(r, load.userId, responseLimit)
    /\ UNCHANGED <<report, poll, front, log>>

\* After the call, and in the deferred function.
CountStale(r) ==
    /\ Program("loadgen") /\ call[r].client = "success" /\ req[r].resp.kind = "stale"
    /\ load' = [load EXCEPT !.totalStale = @ + 1]
    /\ call' = [call EXCEPT ![r].client = "stale"]
    /\ UNCHANGED <<vars, report, poll, front, log>>

CountResponse(r) ==
    /\ Program("loadgen")
    /\ \/ call[r].client \in {"stale", "failure"}
       \/ call[r].client = "success" /\ req[r].resp.kind # "stale"
    /\ load' = [load EXCEPT !.totalResponses = @ + 1]
    /\ call' = [call EXCEPT ![r].client = IF @ = "failure" THEN "none" ELSE "counted"]
    /\ UNCHANGED <<vars, report, poll, front, log>>

CountSuccess(r) ==
    /\ call[r].client = "counted"
    /\ load' = [load EXCEPT !.totalSuccesses = @ + 1]
    /\ call' = [call EXCEPT ![r].client = "none"]
    /\ UNCHANGED <<vars, report, poll, front, log>>

\* reportStats every second. numErrors is unsigned: it may wrap around.
reportStatsSentFirst ==
    /\ Program("loadgen")
    /\ \/ /\ report.pc = "tick"
          /\ report' = [report EXCEPT !.pc = "numErrors", !.totalSent = load.totalSent]
       \/ /\ report.pc = "numErrors"
          /\ report' = [report EXCEPT !.pc = "print", !.numReqs = load.totalResponses]
       \/ /\ report.pc = "print"
          /\ report' = [report EXCEPT !.pc = "printed",
                                      !.numErrors = (report.numReqs - load.totalSuccesses) % Word]
    /\ UNCHANGED <<vars, call, load, poll, front, log>>

reportStats ==
    /\ Program("loadgen")
    /\ \/ /\ report.pc = "tick"
          /\ report' = [report EXCEPT !.pc = "numErrors", !.numReqs = load.totalResponses]
       \/ /\ report.pc = "numErrors"
          /\ report' = [report EXCEPT !.pc = "print",
                                      !.numErrors = (report.numReqs - load.totalSuccesses) % Word]
       \/ /\ report.pc = "print"
          /\ report' = [report EXCEPT !.pc = "printed", !.totalSent = load.totalSent]
    /\ UNCHANGED <<vars, call, load, poll, front, log>>

--------------------------------------------------------------------------------------
(* The monitor.                                                                       *)

\* The order in which GetStats loads the counters.
LoadOrder == <<"TotalRequests", "TotalErrors", "ActiveRequests", "UserServiceErrors",
               "VideoServiceErrors", "StaleResponses">>

gatherStats ==
    /\ scene.monitor /\ poll.loaded = Len(LoadOrder) /\ poll.count < MaxPolls
    /\ poll' = [poll EXCEPT !.loaded = 0, !.count = @ + 1, !.last = poll.line]
    /\ UNCHANGED <<vars, call, load, report, front, log>>

GetStats ==
    /\ poll.loaded < Len(LoadOrder)
    /\ LET k == LoadOrder[poll.loaded + 1] IN
       poll' = [poll EXCEPT !.loaded = @ + 1, !.line[k] = stats[k]]
    /\ UNCHANGED <<vars, call, load, report, front, log>>

--------------------------------------------------------------------------------------
(* The front end: it stops at the first thing that goes wrong.                        *)

fetchUser ==
    /\ Program("frontend") /\ front = "fetch"
    /\ \E a \in userServiceClient(FALSE, <<NetUser>>) :
        front' = IF a.code = "OK" /\ Len(a.ids) = 1 THEN "ask" ELSE "fatal"
    /\ UNCHANGED <<vars, call, load, report, poll, log>>

\* The three requests of main, which waits for the answer of each.
UserOf(step) == CASE step = "ask" -> NetUser [] step = "test1" -> TestUsers[1] [] OTHER -> TestUsers[2]
NextStep == [ask |-> "test1", test1 |-> "test2", test2 |-> "passed"]

sendSingleTestRequest(r) ==
    /\ Program("frontend") /\ front \in DOMAIN NextStep
    /\ \A x \in Request : call[x].client = "none"
    /\ videoRecServiceClient(r, UserOf(front), TestLimit)
    /\ UNCHANGED <<load, report, poll, front, log>>

\* What the tests expect was written down from the data: the best of the candidates.
Expected(u) ==
    LET all == UNION {ToSet(User[x].likedVideos) : x \in ToSet(User[u].subscribedTo)}
        length == IF Cardinality(all) < TestLimit THEN Cardinality(all) ELSE TestLimit
        Left(vs, i) == all \ {vs[j] : j \in 1 .. (i - 1)}
    IN  CHOOSE vs \in [1 .. length -> all] :
            \A i \in DOMAIN vs : /\ vs[i] \in Left(vs, i)
                                 /\ \A v \in Left(vs, i) : Scores[u][vs[i]] >= Scores[u][v]

Judge(r) ==
    /\ Program("frontend") /\ call[r].client \in {"success", "failure"}
    /\ front' = CASE call[r].client = "failure" -> "fatal"
                  [] call[r].client = "success" /\ front # "ask"
                        /\ req[r].resp.videos # Expected(UserOf(front)) -> "wrong"
                  [] OTHER -> NextStep[front]
    /\ call' = [call EXCEPT ![r].client = "none"]
    /\ UNCHANGED <<vars, load, report, poll, log>>

--------------------------------------------------------------------------------------
ClientsInit ==
    /\ Init
    /\ call = [r \in Request |-> NoCall]
    /\ load = [totalSent |-> 0, totalResponses |-> 0, totalSuccesses |-> 0, totalStale |-> 0,
               userId |-> 200000]
    /\ report = [pc |-> "tick", numReqs |-> 0, numErrors |-> 0, totalSent |-> 0]
    /\ poll = [loaded |-> Len(LoadOrder), count |-> 0, line |-> [k \in Counters |-> 0],
               last |-> [k \in Counters |-> 0]]
    /\ front = "fetch"
    /\ log = [ok |-> 0, err |-> 0]

Client(r) ==
    \/ VideoRecService_GetTopVideos_Handler(r) \/ MakeMiddleware(r) \/ CallReturns(r)
    \/ CountStale(r) \/ CountResponse(r) \/ CountSuccess(r)
    \/ sendSingleTestRequest(r) \/ Judge(r)

\* The service by itself, and what the tests ask of it.
ServiceNext ==
    /\ \/ Program("tests") /\ \E r \in Request, ask \in scene.asked : Arrive(r, ask[1], ask[2])
       \/ Serve
    /\ UNCHANGED clientVars

ClientsNext ==
    \/ ServiceNext
    \/ \E r \in Request : Client(r) \/ sendRequest(r)
    \/ reportStats \/ gatherStats \/ GetStats \/ fetchUser

\* As for the service; and the front end goes on while it can.
ClientsSpec ==
    /\ ClientsInit /\ [][ClientsNext]_allVars
    /\ WF_vars(UNCHANGED clientVars /\ Progress)
    /\ WF_allVars(fetchUser \/ \E r \in Request : Client(r))

--------------------------------------------------------------------------------------
(* Properties.                                                                        *)

\* Types, of the client programs.
ClientsTypeOK ==
    /\ \A r \in Request :
        /\ call[r].client \in {"none", "waiting", "success", "failure", "stale", "counted"}
        /\ call[r].server \in {"none", "handling", "logged"}
    /\ \A k \in DOMAIN load : load[k] \in Nat
    /\ report.numErrors \in 0 .. Word - 1
    /\ poll.line \in [Counters -> Nat]
    /\ front \in DOMAIN NextStep \cup {"fetch", "passed", "wrong", "fatal"}

\* The three that watch the service agree. ActiveRequests is the number of requests that
\* are inside GetTopVideos: it never falls below zero. Every call that the middleware
\* logged as an error is in TotalErrors, and it logged each call that ended once. What
\* the load generator saw succeed was logged so; a stale response it saw is among the
\* StaleResponses.
CountersAgree ==
    LET inside == {r \in Request : req[r].pc \notin {"idle", "done"}}
        unlogged == {r \in Request : call[r].server = "handling"}
    IN  /\ stats.ActiveRequests = Cardinality(inside)
        /\ ~Program("tests") =>
            /\ stats.TotalRequests = log.ok + log.err + Cardinality(unlogged)
            /\ log.err <= stats.TotalErrors
        /\ load.totalSuccesses <= log.ok
        /\ load.totalStale <= stats.StaleResponses

\* A line of reportStats that shows as many responses as calls sent has a number of
\* errors that did not wrap around, although the counters are read one after the other
\* while calls return. (With calls under way, it may show 2^64 - 1 errors.)
IdleReportIsSane ==
    report.pc = "printed" /\ report.totalSent = report.numReqs => report.numErrors <= report.numReqs

\* The lines that the monitor prints never go back, but for ActiveRequests.
LinesGrow ==
    poll.loaded = Len(LoadOrder) => \A k \in Counters \ {"ActiveRequests"} : poll.last[k] <= poll.line[k]

\* Load generator, monitor and logger, each with counters of its own that it reads one by
\* one, tell the same story of the service.
ObserversAgree == ClientsTypeOK /\ CountersAgree /\ IdleReportIsSane /\ LinesGrow

\* A basic test of the front end (sendSingleTestRequest, and the comparison in Judge) fails
\* only if the answer was a stale one, or a batch was lost for good.
VerdictIsJust ==
    front = "wrong" => \E r \in Request : req[r].resp.kind = "stale" \/ fan[r].gaveUp

\* Everything comes to rest, whatever the services do: each request is answered and the
\* goroutines it started end, and the front end comes to a verdict.
Unfinished ==
    \/ \E r \in Request : Inside(r)
    \/ Program("frontend") /\ front \notin {"passed", "wrong", "fatal"}
CallsEnd == Unfinished ~> ~Unfinished
======================================================================================
