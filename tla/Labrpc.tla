------------------------------------ MODULE Labrpc ------------------------------------
(***********************************************************************************)
(* The simulated network of lab3/labrpc/labrpc.go, and the part of                   *)
(* lab3/raft/config.go that connects, disconnects, crashes and restarts the servers *)
(* on it while calls are under way.                                                  *)
(*                                                                                  *)
(* One action is one critical section of rn.mu, one channel operation or one call   *)
(* of the tester's. Delays are the freedom to take the next step later.             *)
(*                                                                                  *)
(* A life of a server is numbered; its end points are named by the server, the life *)
(* and the peer, as start1 draws new random names for each life. An end point is    *)
(* connected to its peer from the moment it exists.                                 *)
(***********************************************************************************)
EXTENDS Labgob

CONSTANTS
    Server, Call,
    Budgets          \* bounds: [calls |-> the calls made, ops |-> the tester's operations]

ASSUME CallAssumption == Walker = Call /\ {"args", "reply"} \subseteq Type

VARIABLES
    \* Network: the end points that are enabled, the server object under each name, the
    \* setting, and whether Cleanup was called.
    enabled, servers, reliable, done,
    \* config: the life of each server whose end points are in endnames, who is on the
    \* net, and the Persister in cfg.saved: whose writes reach it, and the calls whose
    \* effect it holds.
    life, connected, writer, kept,
    \* The tester's position in crash1 and start1, and the operations it has made.
    tester, ops,
    \* Each call: the caller, processReq and the handler's goroutine.
    req, handler,
    \* The lives that crash1 has taken off the net, and the calls they began after that.
    crashed, posthumous,
    budget           \* the member of Budgets this behaviour keeps to

netVars == <<enabled, servers, reliable, done>>
cfgVars == <<life, connected, writer, kept, tester, ops, crashed>>
callVars == <<req, handler, posthumous>>
Nobody == 0
vars == <<netVars, cfgVars, callVars, gobVars, lowerCase, budget>>

End(i, g, j) == <<i, g, j>>
EndsOf(i) == {End(i, life[i], j) : j \in Server} \cup {End(j, life[j], i) : j \in Server}
To(c) == req[c].end[3]

NoReq == [pc |-> "idle", end |-> <<>>, srv |-> Nobody, reliable |-> TRUE, ok |-> FALSE,
          old |-> Fresh, reply |-> Fresh]
Idle == [pc |-> "none", reply |-> Fresh]

-------------------------------------------------------------------------------------
(* ClientEnd.Call.                                                                   *)

\* Any life of i, a crashed one too, calls j. The reply variable is new, or holds what
\* an earlier use left there. The arguments are encoded first.
CallBegins(c, i, g, j, old) ==
    /\ req[c].pc = "idle" /\ c \in budget.calls /\ i # j /\ g \in 1 .. life[i]
    /\ req' = [req EXCEPT ![c] =
                  [NoReq EXCEPT !.pc = "send", !.end = End(i, g, j), !.old = old]]
    /\ posthumous' = posthumous \cup {x \in {c} : <<i, g>> \in crashed}
    /\ checkValue(c, "args")
    /\ UNCHANGED <<netVars, cfgVars, handler, checked, complaints, warnings, warned>>

\* The network's goroutine takes the request and spawns processReq, or Cleanup was
\* called and Call returns at once.
CallSent(c) ==
    /\ req[c].pc = "send" /\ Walked(c)
    /\ \/ req' = [req EXCEPT ![c].pc = "process"]
       \/ done /\ req' = [req EXCEPT ![c].pc = "false"]
    /\ UNCHANGED <<netVars, cfgVars, handler, posthumous, gobVars>>

\* The reply arrives. A good one is decoded into the reply variable.
CallReturns(c) ==
    /\ req[c].pc \in {"reply", "decode"}
    /\ \/ /\ req[c].pc = "reply" /\ ~req[c].ok
          /\ req' = [req EXCEPT ![c].pc = "false"]
          /\ UNCHANGED gobVars
       \/ /\ req[c].pc = "reply" /\ req[c].ok
          /\ req' = [req EXCEPT ![c].pc = "decode"]
          /\ checkValue(c, "reply")
          /\ UNCHANGED <<checked, complaints, warnings, warned>>
       \/ /\ req[c].pc = "decode" /\ Walked(c)
          /\ checkDefault(req[c].old)
          /\ req' = [req EXCEPT ![c].pc = "true", ![c].reply = Decoded(req[c].old, @)]
          /\ UNCHANGED <<checked, walk, complaints>>
    /\ UNCHANGED <<netVars, cfgVars, handler, posthumous>>

-------------------------------------------------------------------------------------
(* processReq.                                                                       *)

\* readEndnameInfo: the end point, its server and the setting are read once. Without a
\* server a timer answers false later.
processReq(c) ==
    LET up == req[c].end \in enabled /\ servers[To(c)] # Nobody IN
    /\ req[c].pc = "process"
    /\ req' = [req EXCEPT ![c].pc = IF up THEN "deliver" ELSE "reply",
                          ![c].srv = servers[To(c)], ![c].reliable = reliable]
    /\ UNCHANGED <<netVars, cfgVars, handler, posthumous, gobVars>>

\* An unreliable network drops the request after a short delay; otherwise the handler
\* gets a goroutine, on the server that was read before the delay.
DropRequest(c) ==
    /\ req[c].pc = "deliver" /\ ~req[c].reliable
    /\ req' = [req EXCEPT ![c].pc = "reply"]
    /\ UNCHANGED <<netVars, cfgVars, handler, posthumous, gobVars>>

Deliver(c) ==
    /\ req[c].pc = "deliver"
    /\ req' = [req EXCEPT ![c].pc = "wait"]
    /\ handler' = [handler EXCEPT ![c].pc = "decode"]
    /\ checkValue(c, "args")
    /\ UNCHANGED <<netVars, cfgVars, posthumous, checked, complaints, warnings, warned>>

isServerDead(c) == req[c].end \notin enabled \/ servers[To(c)] # req[c].srv

\* The select: the handler has returned, or the server is found dead every 100 ms. The
\* second look, after the select, decides whether a reply may be passed on.
PollReplyOnly(c) ==
    /\ req[c].pc = "wait" /\ handler[c].pc = "returned"
    /\ req' = [req EXCEPT ![c].pc = "check", ![c].ok = TRUE]
    /\ UNCHANGED <<netVars, cfgVars, handler, posthumous, gobVars>>

PollDeadIsReply(c) ==
    /\ req[c].pc = "wait"
    /\ handler[c].pc = "returned" \/ isServerDead(c)
    /\ req' = [req EXCEPT ![c].pc = "check", ![c].ok = TRUE]
    /\ UNCHANGED <<netVars, cfgVars, handler, posthumous, gobVars>>

Poll(c) ==
    /\ req[c].pc = "wait"
    /\ \/ /\ handler[c].pc = "returned"
          /\ req' = [req EXCEPT ![c].pc = "check", ![c].ok = TRUE]
       \/ /\ isServerDead(c)
          /\ req' = [req EXCEPT ![c].pc = "check", ![c].ok = FALSE]
    /\ UNCHANGED <<netVars, cfgVars, handler, posthumous, gobVars>>

PassOnBlind(c) == req[c].ok
PassOn(c) == req[c].ok /\ ~isServerDead(c)

\* A reply may still be dropped, or wait for long under longreordering: it is
\* then sent by a timer without another look at the server.
CheckDead(c) ==
    /\ req[c].pc = "check"
    /\ \/ /\ PassOn(c)
          /\ req' = [req EXCEPT ![c].pc = "reply", ![c].reply = handler[c].reply]
       \/ /\ ~PassOn(c) \/ ~req[c].reliable
          /\ req' = [req EXCEPT ![c].pc = "reply", ![c].ok = FALSE]
    /\ UNCHANGED <<netVars, cfgVars, handler, posthumous, gobVars>>

-------------------------------------------------------------------------------------
(* Server.dispatch and Service.dispatch.                                             *)

\* The arguments are decoded into a new variable and the method runs: it saves
\* something, in the Persister of the life it belongs to, and fills in its reply. It may
\* also never return.
Handle(c) ==
    /\ handler[c].pc = "decode" /\ Walked(c)
    /\ \E v \in Value : handler' = [handler EXCEPT ![c] = [pc |-> "encode", reply |-> v]]
    /\ kept' = [kept EXCEPT ![To(c)] = IF writer[To(c)] = req[c].srv THEN @ \cup {c} ELSE @]
    /\ checkValue(c, "reply")
    /\ UNCHANGED <<netVars, life, connected, writer, tester, ops, crashed, req,
                   posthumous, checked, complaints, warnings, warned>>

HandlerStuck(c) ==
    /\ handler[c].pc = "decode" /\ Walked(c)
    /\ handler' = [handler EXCEPT ![c].pc = "stuck"]
    /\ UNCHANGED <<netVars, cfgVars, req, posthumous, gobVars>>

HandlerReturns(c) ==
    /\ handler[c].pc = "encode" /\ Walked(c)
    /\ handler' = [handler EXCEPT ![c].pc = "returned"]
    /\ UNCHANGED <<netVars, cfgVars, req, posthumous, gobVars>>

GobWalk(c) ==
    /\ \E t \in Type : checkType(c, t)
    /\ UNCHANGED <<netVars, cfgVars, callVars>>
-------------------------------------------------------------------------------------
(* The tester: connect, disconnect, crash1, start1 and the settings of the network.  *)
(* It is one goroutine; crash1 and start1 are several of its steps.                  *)

Operation == tester.pc = "free" /\ ops < budget.ops /\ ~done /\ ops' = ops + 1

\* Each Enable is a critical section of its own; a tester that has enabled some of them
\* is a tester whose calls are not all there yet.
connect(i) ==
    /\ Operation /\ servers[i] # Nobody
    /\ connected' = [connected EXCEPT ![i] = TRUE]
    /\ enabled' = enabled \cup
           UNION {{End(i, life[i], j), End(j, life[j], i)} : j \in {k \in Server : connected'[k]}}
    /\ UNCHANGED <<servers, reliable, done, life, writer, kept, tester, crashed, callVars, gobVars>>

Detach(i) ==
    /\ connected' = [connected EXCEPT ![i] = FALSE]
    /\ enabled' = enabled \ EndsOf(i)

disconnect(i) ==
    /\ Operation /\ servers[i] # Nobody
    /\ Detach(i)
    /\ UNCHANGED <<servers, reliable, done, life, writer, kept, tester, crashed, callVars, gobVars>>

\* crash1, or start1, which begins with it: first off the net, then DeleteServer, then a
\* copy of the Persister and Kill. The copy is what the next life gets; the old one may
\* go on writing to the original.
CrashBegins(i, then) ==
    /\ Operation
    /\ then = "crash" => servers[i] # Nobody
    /\ Detach(i)
    /\ crashed' = crashed \cup {<<i, life[i]>>}
    /\ tester' = [pc |-> "delete", on |-> i, then |-> then]
    /\ UNCHANGED <<servers, reliable, done, life, writer, kept, callVars, gobVars>>

DeleteServer ==
    /\ tester.pc = "delete"
    /\ servers' = [servers EXCEPT ![tester.on] = Nobody]
    /\ tester' = [tester EXCEPT !.pc = "copy"]
    /\ UNCHANGED <<enabled, reliable, done, life, connected, writer, kept, ops, crashed,
                   callVars, gobVars>>

CopyPersister ==
    /\ tester.pc = "copy"
    /\ writer' = [writer EXCEPT ![tester.on] = Nobody]
    /\ tester' = [tester EXCEPT !.pc = IF tester.then = "start" THEN "make" ELSE "free"]
    /\ UNCHANGED <<netVars, life, connected, kept, ops, crashed, callVars, gobVars>>

\* start1 draws new names, makes and connects the end points, copies the Persister once
\* more and hands it to Make; the new life runs from here on.
MakeWithOldNames ==
    /\ tester.pc = "make"
    /\ writer' = [writer EXCEPT ![tester.on] = life[tester.on]]
    /\ tester' = [tester EXCEPT !.pc = "add"]
    /\ UNCHANGED <<netVars, life, connected, kept, ops, crashed, callVars, gobVars>>

MakeLife ==
    /\ tester.pc = "make"
    /\ life' = [life EXCEPT ![tester.on] = @ + 1]
    /\ writer' = [writer EXCEPT ![tester.on] = life[tester.on] + 1]
    /\ tester' = [tester EXCEPT !.pc = "add"]
    /\ UNCHANGED <<netVars, connected, kept, ops, crashed, callVars, gobVars>>

AddServer ==
    /\ tester.pc = "add"
    /\ servers' = [servers EXCEPT ![tester.on] = life[tester.on]]
    /\ tester' = [tester EXCEPT !.pc = "free"]
    /\ UNCHANGED <<enabled, reliable, done, life, connected, writer, kept, ops, crashed,
                   callVars, gobVars>>

\* setunreliable; longDelays and longreordering only change how long a step takes.
setunreliable ==
    /\ Operation
    /\ reliable' = ~reliable
    /\ UNCHANGED <<enabled, servers, done, life, connected, writer, kept, tester, crashed,
                   callVars, gobVars>>

\* cleanup: the network's goroutine may end and calls return false from now on. Kill
\* only stops the tickers.
Cleanup ==
    /\ Operation
    /\ done' = TRUE
    /\ UNCHANGED <<enabled, servers, reliable, life, connected, writer, kept, tester, crashed,
                   callVars, gobVars>>

-------------------------------------------------------------------------------------
\* make_config: everybody is started and connected.
Init ==
    /\ GobInit
    /\ life = [i \in Server |-> 1]
    /\ servers = [i \in Server |-> 1]
    /\ connected = [i \in Server |-> TRUE]
    /\ enabled = {End(i, 1, j) : i, j \in Server}
    /\ reliable \in BOOLEAN
    /\ done = FALSE
    /\ writer = [i \in Server |-> 1]
    /\ kept = [i \in Server |-> {}]
    /\ tester = [pc |-> "free", on |-> Nobody, then |-> "none"]
    /\ ops = 0
    /\ req = [c \in Call |-> NoReq]
    /\ handler = [c \in Call |-> Idle]
    /\ crashed = {} /\ posthumous = {}
    /\ budget \in Budgets

\* The steps of a call that nobody outside has to wait for.
Progress(c) ==
    \/ CallSent(c) \/ CallReturns(c)
    \/ processReq(c) \/ DropRequest(c) \/ Deliver(c) \/ Poll(c) \/ CheckDead(c)
    \/ Handle(c) \/ HandlerStuck(c) \/ HandlerReturns(c) \/ GobWalk(c)

Testing ==
    \/ \E i \in Server :
        \/ connect(i) \/ disconnect(i)
        \/ \E then \in {"crash", "start"} : CrashBegins(i, then)
    \/ DeleteServer \/ CopyPersister \/ MakeLife \/ AddServer
    \/ setunreliable
    \/ Cleanup

Step ==
    \/ \E c \in Call :
        \/ \E i, j \in Server : \E g \in 1 .. life[i] : \E old \in Value : CallBegins(c, i, g, j, old)
        \/ Progress(c)
    \/ Testing

Next == Step /\ UNCHANGED <<lowerCase, budget>>

Spec ==
    /\ Init /\ [][Next]_vars
    /\ \A c \in Call : WF_vars(Progress(c) /\ UNCHANGED <<lowerCase, budget>>)

-------------------------------------------------------------------------------------
(* Properties.                                                                       *)

\* Types: only the present life of a server serves and saves; an end point that is enabled
\* was made by one of the lives.
TypeOK ==
    /\ enabled \subseteq Server \X (1 .. ops + 1) \X Server
    /\ \A i \in Server : servers[i] \in {Nobody, life[i]} /\ writer[i] \in {Nobody, life[i]}
    /\ \A i \in Server : kept[i] \subseteq Call
    /\ \A c \in Call : walk[c] \subseteq Type /\ req[c].reply \in Value
    /\ checked \subseteq Type /\ warnings \in Nat /\ warned \in BOOLEAN

\* The handler of a call runs at most once, and a call that returns true was handled
\* (raft.go:190-196).
Outcome ==
    [c \in Call |->
        CASE req[c].pc = "idle" -> "idle"
          [] req[c].pc \in {"true", "false"} -> req[c].pc
          [] OTHER -> "called"]
Contract ==
    INSTANCE RpcContract WITH
        outcome <- Outcome,
        handled <- {c \in Call : handler[c].pc \in {"encode", "returned"}}
IsAtMostOnce == Contract!Spec

\* labrpc.go:264-269: a caller that is told true can rely on what the handler saved: it
\* is in the Persister that the next life of the server reads.
TrueIsDurable ==
    \A c \in Call : req[c].pc = "true" => c \in kept[To(c)]

\* config.go:185-186: a life that was crashed is not heard any more, on whatever end
\* point it calls and whatever is connected later.
CrashedIsSilent ==
    \A c \in posthumous : handler[c].pc = "none"

\* The lives of a server are apart: the network knows at most the latest one, the
\* Persister has at most that one writer, and the earlier ones are not heard.
LivesApart == TypeOK /\ CrashedIsSilent

\* raft.go:198-199: Call returns, except if the handler does not; and even then it
\* returns once the server is deleted.
EveryCallReturns ==
    \A c \in Call :
        req[c].pc # "idle" ~>
            \/ req[c].pc \in {"true", "false"}
            \/ handler[c].pc = "stuck" /\ ~isServerDead(c)

\* Each type is complained about once, however many goroutines meet it at the same time.
ComplainedOnce == \A t \in Type : complaints[t] <= lowerCase[t]

\* A scalar of the reply that is not what the handler sent was counted in errorCount, and
\* the user has read something: the warning, or a lower-case complaint that came before it
\* and keeps it from being printed (labgob.go:161; "labgob does not print a warning",
\* labgob/test_test.go:144, which runs after such a complaint).
NoSilentMix ==
    \A c \in Call : req[c].pc = "true" =>
        \A f \in Field : req[c].reply[f] # handler[c].reply[f] =>
            warnings > 0 /\ (warned \/ Complained)

\* labgob counts what gob would hide and complains of a type once, and whoever meets the
\* first of these faults prints it.
GobSpeaksUp == ComplainedOnce /\ NoSilentMix
=======================================================================================
