-------------------------------- MODULE LabrpcProofs --------------------------------
(***********************************************************************************)
(* For any number of servers, calls, lives and operations of the tester: a crashed  *)
(* life is not heard, a call that returns true left its effect in the Persister,    *)
(* labgob's counts are complete and its complaints made once, and a handler runs at *)
(* most once per call.                                                              *)
(***********************************************************************************)
EXTENDS Labrpc, FiniteSetTheorems, TLAPS

-------------------------------------------------------------------------------------
(* Types.                                                                            *)

ReqPC == {"idle", "send", "process", "deliver", "wait", "check", "reply", "decode",
          "true", "false"}
EndPoint == {<<>>} \cup (Server \X Nat \X Server)
Req == [pc : ReqPC, end : EndPoint, srv : Nat, reliable : BOOLEAN, ok : BOOLEAN,
        old : Value, reply : Value]
HandlerPC == {"none", "decode", "encode", "returned", "stuck"}
Handling == [pc : HandlerPC, reply : Value]

CallTypes ==
    /\ req \in [Call -> Req] /\ handler \in [Call -> Handling]
    /\ posthumous \subseteq Call /\ reliable \in BOOLEAN

CfgTypes ==
    /\ life \in [Server -> Nat \ {0}] /\ servers \in [Server -> Nat]
    /\ writer \in [Server -> Nat] /\ connected \in [Server -> BOOLEAN]
    /\ kept \in [Server -> SUBSET Call] /\ ops \in Nat
    /\ tester \in [pc : {"free", "delete", "copy", "make", "add"}, on : Server \cup {Nobody},
                   then : {"none", "crash", "start"}]
    /\ enabled \subseteq Server \X Nat \X Server
    /\ crashed \subseteq Server \X Nat

GobTypesOK ==
    /\ walk \in [Call -> SUBSET Type] /\ checked \subseteq Type
    /\ warnings \in Nat /\ complaints \in [Type -> Nat] /\ warned \in BOOLEAN
    /\ lowerCase \in [Type -> Nat]

-------------------------------------------------------------------------------------
(* The tester and the lives of the servers.                                          *)

\* Life numbers are drawn by operations: while the tester is on its way to a new life, the
\* operation that will give it is counted already.
LivesCounted ==
    \A i \in Server :
        /\ life[i] <= ops + 1
        /\ tester.pc \in {"delete", "copy", "make"} => life[i] <= ops

\* Only the latest life serves, and it is the one whose writes reach the Persister.
LatestServes ==
    \A i \in Server :
        /\ servers[i] \in {Nobody, life[i]} /\ writer[i] \in {Nobody, life[i]}
        /\ servers[i] # Nobody => writer[i] = life[i]

\* crash1 deletes the server before it copies the Persister; start1 makes the life after
\* both and adds the server last.
CrashInOrder ==
    tester.pc # "free" =>
        /\ tester.on \in Server
        /\ tester.pc # "delete" => servers[tester.on] = Nobody
        /\ tester.pc = "make" => writer[tester.on] = Nobody
        /\ tester.pc = "add" =>
            /\ writer[tester.on] = life[tester.on]
            /\ <<tester.on, life[tester.on]>> \notin crashed

\* A life that crash1 has taken off the net stays off it.
CrashedIsOff ==
    /\ \A x \in crashed : x[2] <= life[x[1]]
    /\ \A i \in Server :
        <<i, life[i]>> \in crashed =>
            /\ ~connected[i]
            /\ servers[i] # Nobody => tester.pc = "delete" /\ tester.on = i
    /\ \A x \in crashed : \A j \in Server : End(x[1], x[2], j) \notin enabled

EnabledWasMade == \A e \in enabled : e[2] \in 1 .. life[e[1]]

CfgInv ==
    CfgTypes /\ LivesCounted /\ LatestServes /\ CrashInOrder /\ CrashedIsOff /\ EnabledWasMade

-------------------------------------------------------------------------------------
(* Calls.                                                                            *)

\* Before a request is delivered it has no handler, and no good reply.
Before == {"idle", "send", "process", "deliver"}
HandlerAfterDelivery ==
    \A c \in Call :
        /\ req[c].pc \in Before => handler[c].pc = "none"
        /\ req[c].pc \in Before \cup {"wait", "false"} => ~req[c].ok
        /\ req[c].pc # "idle" => req[c].end \in Server \X Nat \X Server

\* A delivered request went to a life of its server.
DeliveredToLife ==
    \A c \in Call :
        req[c].pc \in {"deliver", "wait", "check"} \/ handler[c].pc # "none"
            => req[c].srv \in 1 .. life[To(c)]

\* What a handler saved is in the Persister, or the life it ran on does not write there
\* any more.
SavedOrGone ==
    \A c \in Call :
        handler[c].pc \in {"encode", "returned"} =>
            c \in kept[To(c)] \/ writer[To(c)] # req[c].srv

\* A reply that is on its way to the caller was given by the handler on a server that was
\* alive after it.
Good(c) == req[c].ok \/ req[c].pc \in {"decode", "true"}
GoodIsKept ==
    \A c \in Call :
        Good(c) =>
            /\ handler[c].pc = "returned"
            /\ req[c].pc # "check" => c \in kept[To(c)]
            /\ req[c].pc \in {"reply", "decode"} => req[c].reply = handler[c].reply

\* A call of a crashed life does not get past processReq.
PosthumousIsLost ==
    \A c \in posthumous :
        /\ req[c].pc \in {"send", "process", "reply", "false"}
        /\ <<req[c].end[1], req[c].end[2]>> \in crashed
        /\ handler[c].pc = "none" /\ ~req[c].ok

CallInv ==
    /\ CallTypes /\ HandlerAfterDelivery /\ DeliveredToLife /\ SavedOrGone /\ GoodIsKept
    /\ PosthumousIsLost

-------------------------------------------------------------------------------------
(* labgob.                                                                           *)

\* A type is counted when it is marked.
CountedWhenMarked ==
    \A t \in Type : complaints[t] = IF t \in checked THEN lowerCase[t] ELSE 0

\* Whatever raises errorCount first is printed.
FirstIsPrinted == warnings > 0 => warned \/ Complained

\* A scalar of the reply that is not what the handler sent was counted.
MixIsCounted ==
    \A c \in Call : req[c].pc = "true" =>
        \A f \in Field : req[c].reply[f] # handler[c].reply[f] => warnings > 0

GobInv == GobTypesOK /\ CountedWhenMarked /\ FirstIsPrinted /\ MixIsCounted

Inv == CfgInv /\ CallInv /\ GobInv

-------------------------------------------------------------------------------------
(* The tester's steps.                                                               *)

\* A call changes nothing of the tester's but the calls whose effect is kept.
LEMMA CallFrame ==
    ASSUME CallTypes, CfgTypes, NEW c \in Call,
           \/ \E i, j \in Server : \E g \in 1 .. life[i] : \E old \in Value :
                CallBegins(c, i, g, j, old)
           \/ Progress(c)
    PROVE  /\ UNCHANGED <<netVars, life, connected, writer, tester, ops, crashed>>
           /\ kept' \in [Server -> SUBSET Call]
           /\ \A i \in Server : kept[i] \subseteq kept'[i]
<1> USE DEF netVars, cfgVars
<1>1. UNCHANGED <<netVars, life, connected, writer, tester, ops, crashed>>
    BY DEF CallBegins, Progress, CallSent, CallReturns, processReq, DropRequest, Deliver, Poll,
           CheckDead, Handle, HandlerStuck, HandlerReturns, GobWalk
<1>2. UNCHANGED kept \/ Handle(c)
    BY DEF CallBegins, Progress, CallSent, CallReturns, processReq, DropRequest, Deliver, Poll,
           CheckDead, HandlerStuck, HandlerReturns, GobWalk
<1>3. CASE UNCHANGED kept
    BY <1>1, <1>3 DEF CfgTypes
<1>4. CASE Handle(c)
    BY <1>1, <1>4 DEF Handle, CfgTypes
<1> QED
    BY <1>1, <1>2, <1>3, <1>4

LEMMA CfgUnchanged ==
    ASSUME CfgInv, UNCHANGED <<netVars, life, connected, writer, tester, ops, crashed>>,
           kept' \in [Server -> SUBSET Call]
    PROVE  CfgInv'
BY DEF CfgInv, CfgTypes, LivesCounted, LatestServes, CrashInOrder, CrashedIsOff,
       EnabledWasMade, netVars

LEMMA CfgTesting == ASSUME CfgInv, Testing PROVE CfgInv'
<1> USE DEF CfgInv, CfgTypes, Nobody
<1>1. ASSUME NEW i \in Server, connect(i) PROVE CfgInv'
    <2>1. /\ tester.pc = "free" /\ ops' = ops + 1 /\ servers[i] # Nobody
          /\ connected' = [connected EXCEPT ![i] = TRUE]
          /\ UNCHANGED <<servers, life, writer, kept, tester, crashed>>
        BY <1>1 DEF connect, Operation
    <2>2. \A j \in Server : connected'[j] => <<j, life[j]>> \notin crashed
        BY <2>1 DEF CrashedIsOff
    <2>3. ASSUME NEW e \in enabled'
          PROVE  \/ e \in enabled
                 \/ \E j, k \in Server : e = <<j, life[j], k>> /\ connected'[j]
        <3>1. CASE e \in enabled
            BY <3>1
        <3>2. CASE e \notin enabled
            <4>1. PICK j \in {k \in Server : connected'[k]} :
                    e \in {End(i, life[i], j), End(j, life[j], i)}
                BY <1>1, <2>3, <3>2 DEF connect
            <4>2. connected'[i]
                BY <2>1
            <4> QED
                BY <4>1, <4>2 DEF End
        <3> QED
            BY <3>1, <3>2
    <2>4. enabled' \subseteq Server \X Nat \X Server
        BY <2>3
    <2>5. CfgTypes'
        BY <2>1, <2>4
    <2>6. LivesCounted' /\ LatestServes' /\ CrashInOrder'
        BY <2>1 DEF LivesCounted, LatestServes, CrashInOrder
    <2>7. CrashedIsOff'
        <3>1. ASSUME NEW x \in crashed, NEW j \in Server PROVE End(x[1], x[2], j) \notin enabled'
            BY <2>2, <2>3 DEF CrashedIsOff, End
        <3> QED
            BY <2>1, <2>2, <3>1 DEF CrashedIsOff
    <2>8. EnabledWasMade'
        BY <2>1, <2>3 DEF EnabledWasMade
    <2> QED
        BY <2>5, <2>6, <2>7, <2>8
<1>2. ASSUME NEW i \in Server, disconnect(i) PROVE CfgInv'
    <2>1. /\ tester.pc = "free" /\ ops' = ops + 1
          /\ connected' = [connected EXCEPT ![i] = FALSE] /\ enabled' \subseteq enabled
          /\ UNCHANGED <<servers, life, writer, kept, tester, crashed>>
        BY <1>2 DEF disconnect, Operation, Detach
    <2> QED
        BY <2>1 DEF LivesCounted, LatestServes, CrashInOrder, CrashedIsOff, EnabledWasMade
<1>3. ASSUME NEW i \in Server, NEW then \in {"crash", "start"}, CrashBegins(i, then)
      PROVE  CfgInv'
    <2>1. /\ tester.pc = "free" /\ ops' = ops + 1
          /\ tester' = [pc |-> "delete", on |-> i, then |-> then]
          /\ connected' = [connected EXCEPT ![i] = FALSE]
          /\ enabled' = enabled \ EndsOf(i)
          /\ crashed' = crashed \cup {<<i, life[i]>>}
          /\ UNCHANGED <<servers, life, writer, kept>>
        BY <1>3 DEF CrashBegins, Operation, Detach
    <2>2. CfgTypes' /\ LivesCounted' /\ LatestServes' /\ CrashInOrder' /\ EnabledWasMade'
        BY <2>1 DEF LivesCounted, LatestServes, CrashInOrder, EnabledWasMade
    <2>3. \A j \in Server : End(i, life[i], j) \notin enabled'
        BY <2>1 DEF EndsOf, End
    <2>4. CrashedIsOff'
        BY <2>1, <2>3 DEF CrashedIsOff, End
    <2> QED
        BY <2>2, <2>4
<1>4. CASE DeleteServer
    <2>1. /\ tester.pc = "delete" /\ tester' = [tester EXCEPT !.pc = "copy"]
          /\ servers' = [servers EXCEPT ![tester.on] = Nobody] /\ tester.on \in Server
          /\ UNCHANGED <<enabled, life, connected, writer, kept, ops, crashed>>
        BY <1>4 DEF DeleteServer, CrashInOrder
    <2>2. CfgTypes' /\ LivesCounted' /\ LatestServes' /\ CrashInOrder' /\ EnabledWasMade'
        BY <2>1 DEF LivesCounted, LatestServes, CrashInOrder, EnabledWasMade
    <2>3. CrashedIsOff'
        BY <2>1 DEF CrashedIsOff
    <2> QED
        BY <2>2, <2>3
<1>5. CASE CopyPersister
    <2>1. /\ tester.pc = "copy"
          /\ tester' = [tester EXCEPT !.pc = IF tester.then = "start" THEN "make" ELSE "free"]
          /\ writer' = [writer EXCEPT ![tester.on] = Nobody]
          /\ tester.on \in Server /\ servers[tester.on] = Nobody
          /\ UNCHANGED <<enabled, servers, life, connected, kept, ops, crashed>>
        BY <1>5 DEF CopyPersister, CrashInOrder, netVars
    <2>2. CfgTypes' /\ LivesCounted' /\ LatestServes' /\ CrashInOrder' /\ EnabledWasMade'
        BY <2>1 DEF LivesCounted, LatestServes, CrashInOrder, EnabledWasMade
    <2>3. CrashedIsOff'
        BY <2>1 DEF CrashedIsOff
    <2> QED
        BY <2>2, <2>3
<1>6. CASE MakeLife
    <2>1. /\ tester.pc = "make" /\ tester' = [tester EXCEPT !.pc = "add"]
          /\ life' = [life EXCEPT ![tester.on] = @ + 1]
          /\ writer' = [writer EXCEPT ![tester.on] = life[tester.on] + 1]
          /\ tester.on \in Server /\ servers[tester.on] = Nobody
          /\ UNCHANGED <<enabled, servers, connected, kept, ops, crashed>>
        BY <1>6 DEF MakeLife, CrashInOrder, netVars
    <2>2. <<tester.on, life[tester.on] + 1>> \notin crashed
        BY <2>1 DEF CrashedIsOff
    <2>3. CfgTypes' /\ LivesCounted' /\ LatestServes' /\ CrashInOrder'
        BY <2>1, <2>2 DEF LivesCounted, LatestServes, CrashInOrder
    <2>4. \A i \in Server : life[i] <= life'[i]
        BY <2>1
    <2>5. EnabledWasMade'
        <3> SUFFICES ASSUME NEW e \in enabled PROVE e[2] \in 1 .. life'[e[1]]
            BY <2>1 DEF EnabledWasMade
        <3>1. e[1] \in Server /\ e[2] \in 1 .. life[e[1]] /\ life[e[1]] \in Nat
              /\ life'[e[1]] \in Nat
            BY <2>3 DEF EnabledWasMade
        <3> QED
            BY <2>4, <3>1
    <2>6. CrashedIsOff'
        BY <2>1, <2>2, <2>4 DEF CrashedIsOff
    <2> QED
        BY <2>3, <2>5, <2>6
<1>7. CASE AddServer
    <2>1. /\ tester.pc = "add" /\ tester' = [tester EXCEPT !.pc = "free"]
          /\ servers' = [servers EXCEPT ![tester.on] = life[tester.on]]
          /\ tester.on \in Server /\ writer[tester.on] = life[tester.on]
          /\ <<tester.on, life[tester.on]>> \notin crashed
          /\ UNCHANGED <<enabled, life, connected, writer, kept, ops, crashed>>
        BY <1>7 DEF AddServer, CrashInOrder
    <2>2. CfgTypes' /\ LivesCounted' /\ LatestServes' /\ CrashInOrder' /\ EnabledWasMade'
        BY <2>1 DEF LivesCounted, LatestServes, CrashInOrder, EnabledWasMade
    <2>3. CrashedIsOff'
        BY <2>1 DEF CrashedIsOff
    <2> QED
        BY <2>2, <2>3
<1>8. CASE setunreliable \/ Cleanup
    <2>1. /\ tester.pc = "free" /\ ops' = ops + 1
          /\ UNCHANGED <<enabled, servers, life, connected, writer, kept, tester, crashed>>
        BY <1>8 DEF setunreliable, Cleanup, Operation
    <2> QED
        BY <2>1 DEF LivesCounted, LatestServes, CrashInOrder, CrashedIsOff, EnabledWasMade
<1> QED
    BY <1>1, <1>2, <1>3, <1>4, <1>5, <1>6, <1>7, <1>8 DEF Testing

-------------------------------------------------------------------------------------
(* The steps of a call.                                                              *)

\* While the tester works on the servers, calls keep what they have: a life that has
\* stopped writing never starts again, and a crashed life stays crashed.
LEMMA CallsDuringTesting == ASSUME CfgInv, CallInv, Testing PROVE CallInv'
<1> USE DEF CfgInv, CfgTypes, CallInv, Nobody
<1>1. UNCHANGED <<req, handler, posthumous, kept>> /\ (reliable' \in BOOLEAN)
    BY DEF CallTypes, Testing, connect, disconnect, CrashBegins, DeleteServer, CopyPersister,
           MakeLife, AddServer, setunreliable, Cleanup, netVars, callVars
<1>2. crashed \subseteq crashed'
    BY DEF Testing, connect, disconnect, CrashBegins, DeleteServer, CopyPersister,
           MakeLife, AddServer, setunreliable, Cleanup
<1>3. \A i \in Server : life'[i] \in Nat /\ life[i] <= life'[i]
    <2>1. UNCHANGED life \/ MakeLife
        BY DEF Testing, connect, disconnect, CrashBegins, DeleteServer, CopyPersister,
               AddServer, setunreliable, Cleanup
    <2> QED
        BY <2>1 DEF MakeLife
<1>4. \A i \in Server : \A g \in 1 .. life[i] : writer[i] # g => writer'[i] # g
    <2>1. UNCHANGED writer \/ CopyPersister \/ MakeLife
        BY DEF Testing, connect, disconnect, CrashBegins, DeleteServer, AddServer,
               setunreliable, Cleanup
    <2>2. CASE CopyPersister
        BY <2>2 DEF CopyPersister
    <2>3. CASE MakeLife
        BY <2>3 DEF MakeLife
    <2> QED
        BY <2>1, <2>2, <2>3
<1>5. ASSUME NEW c \in Call, handler[c].pc # "none" PROVE To(c) \in Server
    <2>1. req[c].pc # "idle"
        BY <1>5 DEF HandlerAfterDelivery, Before
    <2> QED
        BY <2>1 DEF HandlerAfterDelivery, To
<1>6. CallTypes' /\ HandlerAfterDelivery' /\ GoodIsKept'
    BY <1>1 DEF CallTypes, HandlerAfterDelivery, GoodIsKept, Good, To
<1>7. DeliveredToLife'
    <2> SUFFICES ASSUME NEW c \in Call,
                        req[c].pc \in {"deliver", "wait", "check"} \/ handler[c].pc # "none"
                 PROVE  req[c].srv \in 1 .. life'[To(c)]
        BY <1>1 DEF DeliveredToLife, To
    <2>1. To(c) \in Server
        BY <1>5 DEF HandlerAfterDelivery, To, Before
    <2>2. req[c].srv \in 1 .. life[To(c)]
        BY DEF DeliveredToLife
    <2> QED
        BY <1>3, <2>1, <2>2
<1>8. SavedOrGone'
    <2> SUFFICES ASSUME NEW c \in Call, handler[c].pc \in {"encode", "returned"},
                        c \notin kept[To(c)]
                 PROVE  writer'[To(c)] # req[c].srv
        BY <1>1 DEF SavedOrGone, To
    <2>1. To(c) \in Server /\ req[c].srv \in 1 .. life[To(c)]
        BY <1>5 DEF DeliveredToLife
    <2> QED
        BY <1>4, <2>1 DEF SavedOrGone
<1>9. PosthumousIsLost'
    BY <1>1, <1>2 DEF PosthumousIsLost
<1> QED
    BY <1>6, <1>7, <1>8, <1>9

LEMMA FreshValue == Fresh \in Value
BY DEF Fresh, Value

\* What a step writes into a request is of the request's type.
LEMMA ReqEdited ==
    ASSUME NEW r \in Req, NEW p \in ReqPC
    PROVE  /\ [r EXCEPT !.pc = p] \in Req
           /\ \A b \in BOOLEAN : [r EXCEPT !.pc = p, !.ok = b] \in Req
           /\ \A v \in Value : [r EXCEPT !.pc = p, !.reply = v] \in Req
           /\ \A n \in Nat, b \in BOOLEAN : [r EXCEPT !.pc = p, !.srv = n, !.reliable = b] \in Req
BY DEF Req

LEMMA PcMoves ==
    ASSUME CallTypes, NEW c \in Call, NEW p \in ReqPC, req' = [req EXCEPT ![c].pc = p]
    PROVE  \E r \in Req : req' = [req EXCEPT ![c] = r] /\ r.end = req[c].end
<1>1. req[c] \in Req
    BY DEF CallTypes
<1>2. [req[c] EXCEPT !.pc = p] \in Req
    BY <1>1, ReqEdited
<1>3. [req[c] EXCEPT !.pc = p].end = req[c].end
    BY <1>1 DEF Req
<1> QED
    BY <1>2, <1>3

LEMMA NoReqTyped == NoReq \in Req
<1>1. <<>> \in EndPoint /\ "idle" \in ReqPC
    BY DEF EndPoint, ReqPC
<1> QED
    BY <1>1, FreshValue DEF NoReq, Req, Nobody

LEMMA CallsBegin ==
    ASSUME CfgInv, CallInv, NEW c \in Call, NEW i \in Server, NEW j \in Server,
           NEW g \in 1 .. life[i], NEW old \in Value, CallBegins(c, i, g, j, old)
    PROVE  CallInv'
<1> USE DEF CfgInv, CfgTypes, CallInv, Nobody
<1>1. /\ req[c].pc = "idle"
      /\ req' = [req EXCEPT ![c] =
                    [NoReq EXCEPT !.pc = "send", !.end = <<i, g, j>>, !.old = old]]
      /\ posthumous' = posthumous \cup {x \in {c} : <<i, g>> \in crashed}
      /\ UNCHANGED <<handler, kept, life, writer, crashed, reliable>>
    BY DEF CallBegins, netVars, cfgVars, End
<1> DEFINE new == [NoReq EXCEPT !.pc = "send", !.end = <<i, g, j>>, !.old = old]
<1>2. /\ new \in Req /\ new.pc = "send" /\ new.end = <<i, g, j>> /\ new.ok = NoReq.ok
      /\ ~NoReq.ok
    <2>1. <<i, g, j>> \in EndPoint /\ "send" \in ReqPC
        BY DEF EndPoint, ReqPC
    <2>2. ~NoReq.ok
        BY DEF NoReq
    <2>3. <<i, g, j>> \in EndPoint
        BY <2>1
    <2>4. ASSUME NEW e \in EndPoint
          PROVE  LET r == [NoReq EXCEPT !.pc = "send", !.end = e, !.old = old]
                 IN  r \in Req /\ r.pc = "send" /\ r.end = e /\ r.ok = NoReq.ok
        <3> DEFINE no == NoReq
        <3>1. no \in Req /\ "send" \in ReqPC
            BY <2>1, NoReqTyped
        <3> HIDE DEF no
        <3>2. LET r == [no EXCEPT !.pc = "send", !.end = e, !.old = old]
              IN  r \in Req /\ r.pc = "send" /\ r.end = e /\ r.ok = no.ok
            BY <3>1 DEF Req
        <3> QED
            BY <3>2 DEF no
    <2> QED
        BY <2>2, <2>3, <2>4
<1>3. handler[c].pc = "none"
    BY <1>1 DEF HandlerAfterDelivery, Before
<1>4. req'[c] = new /\ \A d \in Call \ {c} : req'[d] = req[d]
    BY <1>1 DEF CallTypes
<1> HIDE DEF new
<1>5. CallTypes'
    BY <1>1, <1>2 DEF CallTypes, new
<1>6. HandlerAfterDelivery'
    BY <1>1, <1>3, <1>4, <1>2 DEF HandlerAfterDelivery, Before
<1>7. DeliveredToLife'
    BY <1>1, <1>3, <1>4, <1>2 DEF DeliveredToLife, To
<1>8. SavedOrGone'
    BY <1>1, <1>3, <1>4, <1>2 DEF SavedOrGone, To
<1>9. GoodIsKept'
    BY <1>1, <1>4, <1>2 DEF GoodIsKept, Good, To
<1>10. PosthumousIsLost'
    <2> SUFFICES ASSUME NEW d \in posthumous'
                 PROVE  /\ req'[d].pc \in {"send", "process", "reply", "false"}
                        /\ <<req'[d].end[1], req'[d].end[2]>> \in crashed'
                        /\ handler'[d].pc = "none" /\ ~req'[d].ok
        BY DEF PosthumousIsLost
    <2>1. CASE d = c
        <3>1. c \notin posthumous
            BY <1>1 DEF PosthumousIsLost
        <3> QED
            BY <1>1, <1>3, <1>4, <1>2, <2>1, <3>1
    <2>2. CASE d # c
        BY <1>1, <1>4, <2>2 DEF PosthumousIsLost, CallTypes
    <2> QED
        BY <2>1, <2>2
<1> QED
    BY <1>5, <1>6, <1>7, <1>8, <1>9, <1>10

\* A step that changes only the fields pc, srv, ok, reliable and reply of its request
\* leaves the other calls and the destination alone.
LEMMA CallsProceed ==
    ASSUME CfgInv, CallInv, NEW c \in Call,
           \/ CallSent(c) \/ CallReturns(c) \/ processReq(c) \/ DropRequest(c) \/ Poll(c)
           \/ CheckDead(c)
    PROVE  CallInv'
<1> USE DEF CfgInv, CfgTypes, CallInv, Nobody
<1> DEFINE new == req'[c]
<1>1. UNCHANGED <<netVars, cfgVars, handler, posthumous>>
    BY DEF CallSent, CallReturns, processReq, DropRequest, Poll, CheckDead
<1>2. req[c] \in Req /\ handler[c] \in Handling
    BY DEF CallTypes
<1>3. /\ req' \in [Call -> Req] /\ new.end = req[c].end
      /\ \A d \in Call \ {c} : req'[d] = req[d]
    <2> SUFFICES \E r \in Req : req' = [req EXCEPT ![c] = r] /\ r.end = req[c].end
        BY DEF CallTypes
    <2>1. CASE CallSent(c) \/ DropRequest(c)
        <3>1. \E p \in ReqPC : req' = [req EXCEPT ![c].pc = p]
            BY <2>1 DEF CallSent, DropRequest, ReqPC
        <3> QED
            BY <3>1, PcMoves
    <2>2. CASE Poll(c)
        <3>1. \E b \in BOOLEAN : req' = [req EXCEPT ![c].pc = "check", ![c].ok = b]
            BY <2>2 DEF Poll
        <3>2. "check" \in ReqPC
            BY DEF ReqPC
        <3>3. PICK b \in BOOLEAN : req' = [req EXCEPT ![c].pc = "check", ![c].ok = b]
            BY <3>1
        <3>4. req' = [req EXCEPT ![c] = [req[c] EXCEPT !.pc = "check", !.ok = b]]
            BY <3>3 DEF CallTypes
        <3>5. [req[c] EXCEPT !.pc = "check", !.ok = b] \in Req
            BY <1>2, <3>2, ReqEdited
        <3> QED
            BY <1>2, <3>4, <3>5 DEF Req
    <2>3. CASE CallReturns(c)
        <3>1. Decoded(req[c].old, req[c].reply) \in Value
            BY <1>2 DEF Decoded, Value, Req
        <3>2. \/ \E p \in ReqPC : req' = [req EXCEPT ![c].pc = p]
              \/ req' = [req EXCEPT ![c].pc = "true",
                                    ![c].reply = Decoded(req[c].old, req[c].reply)]
            BY <1>2, <2>3 DEF CallReturns, ReqPC, CallTypes, Req
        <3> DEFINE d == Decoded(req[c].old, req[c].reply)
        <3> HIDE DEF d
        <3>3. CASE \E p \in ReqPC : req' = [req EXCEPT ![c].pc = p]
            BY <3>3, PcMoves
        <3>4. CASE req' = [req EXCEPT ![c].pc = "true", ![c].reply = d]
            <4>1. req' = [req EXCEPT ![c] = [req[c] EXCEPT !.pc = "true", !.reply = d]]
                BY <3>4 DEF CallTypes
            <4>2. "true" \in ReqPC /\ d \in Value
                BY <3>1 DEF ReqPC, d
            <4>3. [req[c] EXCEPT !.pc = "true", !.reply = d] \in Req
                BY <1>2, <4>2, ReqEdited
            <4> QED
                BY <1>2, <4>1, <4>3 DEF Req
        <3> QED
            BY <3>2, <3>3, <3>4 DEF d
    <2>4. CASE processReq(c)
        <3>1. req[c].pc # "idle"
            BY <2>4 DEF processReq
        <3>2. servers[To(c)] \in Nat /\ reliable \in BOOLEAN
            BY <3>1 DEF HandlerAfterDelivery, To, CallTypes
        <3>3. PICK p \in ReqPC : req' = [req EXCEPT ![c].pc = p, ![c].srv = servers[To(c)],
                                                   ![c].reliable = reliable]
            BY <2>4 DEF processReq, ReqPC
        <3>4. req' = [req EXCEPT ![c] = [req[c] EXCEPT !.pc = p, !.srv = servers[To(c)],
                                                       !.reliable = reliable]]
            BY <3>3 DEF CallTypes
        <3>5. [req[c] EXCEPT !.pc = p, !.srv = servers[To(c)], !.reliable = reliable] \in Req
            BY <1>2, <3>2, ReqEdited
        <3> QED
            BY <1>2, <3>4, <3>5 DEF Req
    <2>5. CASE CheckDead(c)
        <3>1. "reply" \in ReqPC /\ handler[c].reply \in Value
            BY <1>2 DEF ReqPC, Handling
        <3>2. PICK r : /\ req' = [req EXCEPT ![c] = r]
                       /\ \/ r = [req[c] EXCEPT !.pc = "reply", !.reply = handler[c].reply]
                          \/ r = [req[c] EXCEPT !.pc = "reply", !.ok = FALSE]
            BY <2>5 DEF CheckDead, CallTypes
        <3>3. r \in Req
            <4>1. [req[c] EXCEPT !.pc = "reply", !.reply = handler[c].reply] \in Req
                BY <1>2, <3>1, ReqEdited
            <4>2. [req[c] EXCEPT !.pc = "reply", !.ok = FALSE] \in Req
                BY <1>2, <3>1, ReqEdited
            <4> QED
                BY <3>2, <4>1, <4>2
        <3>4. r.end = req[c].end
            BY <1>2, <3>2 DEF Req
        <3> QED
            BY <3>2, <3>3, <3>4
    <2> QED
        BY <2>1, <2>2, <2>3, <2>4, <2>5
<1>4. CallTypes'
    BY <1>1, <1>3 DEF CallTypes, netVars
<1> USE DEF netVars, cfgVars
<1>5. HandlerAfterDelivery'
    BY <1>1, <1>2, <1>3, <1>4 DEF HandlerAfterDelivery, Before, CallTypes, Req, CallSent,
        CallReturns, processReq, DropRequest, Poll, CheckDead
<1>6. \A d \in Call : req[d].pc # "idle" => To(d)' = To(d) /\ To(d) \in Server
    BY <1>3 DEF To, HandlerAfterDelivery
<1>7. req[c].pc # "idle"
    BY DEF CallSent, CallReturns, processReq, DropRequest, Poll, CheckDead
<1>8. DeliveredToLife' /\ SavedOrGone'
    <2>1. CASE processReq(c)
        <3>1. handler[c].pc = "none"
            BY <2>1 DEF processReq, HandlerAfterDelivery, Before
        <3>2. new.pc = "deliver" => new.srv = servers[To(c)] /\ new.srv # Nobody
            BY <1>2, <2>1 DEF processReq, CallTypes, Req
        <3>3. new.pc \in {"deliver", "reply"}
            BY <1>2, <2>1 DEF processReq, CallTypes, Req
        <3>4. new.pc = "deliver" => new.srv \in 1 .. life[To(c)]
            BY <1>6, <1>7, <3>2 DEF LatestServes
        <3> QED
            BY <1>1, <1>3, <1>6, <1>7, <3>1, <3>3, <3>4 DEF DeliveredToLife, SavedOrGone, To
    <2>2. CASE ~processReq(c)
        <3>1. new.srv = req[c].srv
            BY <1>2, <2>2 DEF CallSent, CallReturns, DropRequest, Poll, CheckDead, CallTypes, Req
        <3>2. /\ new.pc \in {"deliver", "wait", "check"} =>
                    req[c].pc \in {"deliver", "wait", "check"}
            BY <1>2, <2>2 DEF CallSent, CallReturns, DropRequest, Poll, CheckDead, CallTypes, Req
        <3> QED
            BY <1>1, <1>3, <1>6, <1>7, <3>1, <3>2 DEF DeliveredToLife, SavedOrGone, To
    <2> QED
        BY <2>1, <2>2
<1>9. GoodIsKept'
    <2> SUFFICES ASSUME Good(c)'
                 PROVE  /\ handler[c].pc = "returned"
                        /\ new.pc # "check" => c \in kept[To(c)]
                        /\ new.pc \in {"reply", "decode"} => new.reply = handler[c].reply
        BY <1>1, <1>3 DEF GoodIsKept, Good, To
    <2>1. CASE CallSent(c) \/ processReq(c) \/ DropRequest(c)
        BY <1>2, <2>1 DEF CallSent, processReq, DropRequest, Good, CallTypes, Req,
                         HandlerAfterDelivery, Before
    <2>2. CASE Poll(c)
        BY <1>2, <2>2 DEF Poll, Good, CallTypes, Req
    <2>3. CASE CheckDead(c)
        <3>1. PassOn(c) /\ new.reply = handler[c].reply /\ new.pc = "reply" /\ req[c].pc = "check"
            BY <1>2, <2>3 DEF CheckDead, Good, CallTypes, Req
        <3>2. /\ handler[c].pc = "returned" /\ servers[To(c)] = req[c].srv
              /\ To(c) \in Server /\ req[c].srv \in 1 .. life[To(c)]
            BY <1>6, <1>7, <3>1 DEF PassOn, isServerDead, GoodIsKept, Good, DeliveredToLife
        <3>3. writer[To(c)] = req[c].srv
            BY <3>2 DEF LatestServes
        <3>4. c \in kept[To(c)]
            BY <3>2, <3>3 DEF SavedOrGone
        <3> QED
            BY <3>1, <3>2, <3>4
    <2>4. CASE CallReturns(c)
        <3>1. Good(c) /\ req[c].pc \in {"reply", "decode"}
            BY <1>2, <2>4 DEF CallReturns, Good, CallTypes, Req
        <3>2. new.pc \in {"reply", "decode"} => new.reply = req[c].reply
            BY <1>2, <2>4 DEF CallReturns, CallTypes, Req
        <3> QED
            BY <3>1, <3>2 DEF GoodIsKept
    <2> QED
        BY <2>1, <2>2, <2>3, <2>4
<1>10. PosthumousIsLost'
    <2> SUFFICES ASSUME c \in posthumous
                 PROVE  new.pc \in {"send", "process", "reply", "false"} /\ ~new.ok
        BY <1>1, <1>3 DEF PosthumousIsLost, CallTypes
    <2>1. /\ req[c].pc \in {"send", "process", "reply", "false"} /\ ~req[c].ok
          /\ req[c].end \in Server \X Nat \X Server
          /\ <<req[c].end[1], req[c].end[2]>> \in crashed
        BY <1>7 DEF PosthumousIsLost, HandlerAfterDelivery
    <2>2. req[c].end \notin enabled
        <3>1. req[c].end = End(req[c].end[1], req[c].end[2], req[c].end[3])
            BY <2>1 DEF End
        <3> QED
            BY <2>1, <3>1 DEF CrashedIsOff
    <2> QED
        BY <1>2, <2>1, <2>2 DEF CallSent, CallReturns, processReq, DropRequest, Poll, CheckDead,
                                CallTypes, Req
<1> QED
    BY <1>4, <1>5, <1>8, <1>9, <1>10

LEMMA HandlingEdited ==
    ASSUME NEW h \in Handling, NEW p \in HandlerPC
    PROVE  /\ [h EXCEPT !.pc = p] \in Handling /\ [h EXCEPT !.pc = p].pc = p
           /\ [h EXCEPT !.pc = p].reply = h.reply
BY DEF Handling

\* The handler's own steps: what it saves is in the Persister if its life still writes
\* there. No reply of it is on its way yet.
LEMMA CallsHandled ==
    ASSUME CfgInv, CallInv, NEW c \in Call, Handle(c) \/ HandlerStuck(c) \/ HandlerReturns(c)
    PROVE  CallInv'
<1> DEFINE new == handler'[c]
<1>1. /\ UNCHANGED <<req, life, writer, crashed, posthumous, reliable>>
      /\ handler[c].pc \in {"decode", "encode"}
    BY DEF Handle, HandlerStuck, HandlerReturns, netVars, cfgVars
<1>2. /\ req \in [Call -> Req] /\ handler \in [Call -> Handling] /\ posthumous \subseteq Call
      /\ reliable \in BOOLEAN /\ kept \in [Server -> SUBSET Call] /\ handler[c] \in Handling
    BY DEF CallInv, CallTypes, CfgInv, CfgTypes
<1>3. req[c].pc \notin Before /\ To(c) \in Server
    <2>1. req[c].pc \notin Before
        BY <1>1 DEF CallInv, HandlerAfterDelivery
    <2> QED
        BY <2>1 DEF CallInv, HandlerAfterDelivery, Before, To
<1>4. \E h \in Handling :
        /\ handler' = [handler EXCEPT ![c] = h] /\ h.pc \in {"encode", "stuck", "returned"}
    <2>1. CASE Handle(c)
        <3>1. PICK v \in Value :
                handler' = [handler EXCEPT ![c] = [pc |-> "encode", reply |-> v]]
            BY <2>1 DEF Handle
        <3>2. [pc |-> "encode", reply |-> v] \in Handling
            BY DEF Handling, HandlerPC
        <3> QED
            BY <3>1, <3>2
    <2>2. CASE HandlerStuck(c) \/ HandlerReturns(c)
        <3>1. PICK p \in {"stuck", "returned"} : handler' = [handler EXCEPT ![c].pc = p]
            BY <2>2 DEF HandlerStuck, HandlerReturns
        <3>2. p \in HandlerPC
            BY DEF HandlerPC
        <3>3. [handler[c] EXCEPT !.pc = p] \in Handling /\ [handler[c] EXCEPT !.pc = p].pc = p
            BY <1>2, <3>2, HandlingEdited
        <3> QED
            BY <1>2, <3>1, <3>3
    <2> QED
        BY <2>1, <2>2
<1>5. /\ handler' \in [Call -> Handling] /\ new.pc \in {"encode", "stuck", "returned"}
      /\ \A d \in Call \ {c} : handler'[d] = handler[d]
    BY <1>2, <1>4
<1> HIDE DEF new
<1>6. kept' \in [Server -> SUBSET Call] /\ \A i \in Server : kept[i] \subseteq kept'[i]
    BY <1>2 DEF Handle, HandlerStuck, HandlerReturns, cfgVars
<1>7. CallTypes'
    BY <1>1, <1>2, <1>5 DEF CallTypes
<1>8. HandlerAfterDelivery'
    BY <1>1, <1>3, <1>5 DEF CallInv, HandlerAfterDelivery
<1>9. DeliveredToLife'
    BY <1>1, <1>5 DEF CallInv, DeliveredToLife, To
<1>10. SavedOrGone'
    <2> SUFFICES ASSUME NEW d \in Call, handler'[d].pc \in {"encode", "returned"}
                 PROVE  d \in kept'[To(d)] \/ writer[To(d)] # req[d].srv
        BY <1>1 DEF SavedOrGone, To
    <2>1. CASE d = c /\ Handle(c)
        BY <1>2, <1>3, <2>1 DEF Handle
    <2>2. CASE d = c /\ ~Handle(c)
        <3>1. handler[c].pc = "encode"
            <4>1. HandlerStuck(c) \/ HandlerReturns(c)
                BY <2>2
            <4>2. ~HandlerStuck(c)
                BY <1>2, <2>2 DEF HandlerStuck, Handling
            <4> QED
                BY <4>1, <4>2 DEF HandlerReturns
        <3> QED
            BY <1>3, <1>6, <2>2, <3>1 DEF CallInv, SavedOrGone
    <2>3. CASE d # c
        <3>1. handler[d].pc \in {"encode", "returned"}
            BY <1>5, <2>3
        <3>2. req[d].pc \notin Before
            BY <3>1 DEF CallInv, HandlerAfterDelivery
        <3>3. To(d) \in Server
            BY <3>2 DEF CallInv, HandlerAfterDelivery, Before, To
        <3> QED
            BY <1>6, <3>1, <3>3 DEF CallInv, SavedOrGone
    <2> QED
        BY <2>1, <2>2, <2>3
<1>11. GoodIsKept'
    <2> SUFFICES ASSUME NEW d \in Call, Good(d)
                 PROVE  /\ handler'[d].pc = "returned"
                        /\ req[d].pc # "check" => d \in kept'[To(d)]
                        /\ req[d].pc \in {"reply", "decode"} => req[d].reply = handler'[d].reply
        BY <1>1 DEF GoodIsKept, Good, To
    <2>1. handler[d].pc = "returned"
        BY DEF CallInv, GoodIsKept
    <2>2. handler'[d] = handler[d]
        BY <1>1, <1>5, <2>1
    <2>3. req[d].pc \notin Before
        BY <2>1 DEF CallInv, HandlerAfterDelivery
    <2>4. To(d) \in Server
        BY <2>3 DEF CallInv, HandlerAfterDelivery, Before, To
    <2> QED
        BY <1>6, <2>2, <2>4 DEF CallInv, GoodIsKept
<1>12. PosthumousIsLost'
    <2>1. c \notin posthumous
        BY <1>1 DEF CallInv, PosthumousIsLost
    <2> QED
        BY <1>1, <1>2, <1>5, <2>1 DEF CallInv, PosthumousIsLost
<1> QED
    BY <1>7, <1>8, <1>9, <1>10, <1>11, <1>12 DEF CallInv

LEMMA CallsDelivered == ASSUME CfgInv, CallInv, NEW c \in Call, Deliver(c) PROVE CallInv'
<1>1. /\ UNCHANGED <<life, writer, kept, crashed, posthumous, reliable>>
      /\ req[c].pc = "deliver"
      /\ req' = [req EXCEPT ![c].pc = "wait"]
      /\ handler' = [handler EXCEPT ![c].pc = "decode"]
    BY DEF Deliver, netVars, cfgVars
<1>2. /\ req \in [Call -> Req] /\ handler \in [Call -> Handling] /\ posthumous \subseteq Call
      /\ reliable \in BOOLEAN /\ handler[c] \in Handling /\ req[c] \in Req
    BY DEF CallInv, CallTypes
<1>3. req' \in [Call -> Req] /\ handler' \in [Call -> Handling]
    <2>1. [handler[c] EXCEPT !.pc = "decode"] \in Handling
        BY <1>2, HandlingEdited DEF HandlerPC
    <2>2. [req[c] EXCEPT !.pc = "wait"] \in Req
        BY <1>2, ReqEdited DEF ReqPC
    <2> QED
        BY <1>1, <1>2, <2>1, <2>2
<1>4. /\ req'[c].pc = "wait" /\ req'[c].end = req[c].end /\ req'[c].ok = req[c].ok
      /\ req'[c].srv = req[c].srv
    BY <1>1, <1>2 DEF Req
<1>5. handler'[c].pc = "decode"
    BY <1>1, <1>2 DEF Handling
<1>6. \A d \in Call \ {c} : req'[d] = req[d] /\ handler'[d] = handler[d]
    BY <1>1, <1>2
<1>7. ~req[c].ok /\ req[c].end \in Server \X Nat \X Server
    BY <1>1 DEF CallInv, HandlerAfterDelivery, Before
<1>8. CallTypes'
    BY <1>1, <1>2, <1>3 DEF CallTypes
<1>9. HandlerAfterDelivery'
    BY <1>4, <1>6, <1>7 DEF CallInv, HandlerAfterDelivery, Before
<1>10. DeliveredToLife'
    BY <1>1, <1>4, <1>6 DEF CallInv, DeliveredToLife, To
<1>11. SavedOrGone'
    BY <1>1, <1>5, <1>6 DEF CallInv, SavedOrGone, To
<1>12. GoodIsKept'
    BY <1>1, <1>4, <1>6, <1>7 DEF CallInv, GoodIsKept, Good, To
<1>13. PosthumousIsLost'
    <2>1. c \notin posthumous
        BY <1>1 DEF CallInv, PosthumousIsLost
    <2> QED
        BY <1>1, <1>2, <1>6, <2>1 DEF CallInv, PosthumousIsLost
<1> QED
    BY <1>8, <1>9, <1>10, <1>11, <1>12, <1>13 DEF CallInv

LEMMA CallsUnchanged ==
    ASSUME CallInv, UNCHANGED <<callVars, reliable, life, writer, kept, crashed>>
    PROVE  CallInv'
BY DEF CallInv, CallTypes, HandlerAfterDelivery, DeliveredToLife, SavedOrGone, GoodIsKept, Good,
       PosthumousIsLost, To, callVars

-------------------------------------------------------------------------------------
(* labgob's own counts.                                                              *)

LEMMA GobTypesKept ==
    ASSUME CallTypes, GobTypesOK, CountedWhenMarked, FirstIsPrinted, Step, UNCHANGED lowerCase
    PROVE  /\ GobTypesOK' /\ CountedWhenMarked' /\ FirstIsPrinted' /\ warnings <= warnings'
<1> USE GobAssumption, CallAssumption DEF GobTypesOK
<1>1. CASE UNCHANGED gobVars
    BY <1>1 DEF CountedWhenMarked, FirstIsPrinted, Complained, gobVars
<1>2. ASSUME NEW c \in Call, NEW t \in {"args", "reply"}, checkValue(c, t),
             UNCHANGED <<checked, complaints, warnings, warned>>
      PROVE  GobTypesOK' /\ CountedWhenMarked' /\ FirstIsPrinted' /\ warnings <= warnings'
    BY <1>2 DEF CountedWhenMarked, FirstIsPrinted, Complained, checkValue
<1>3. ASSUME NEW c \in Call, NEW old \in Value, checkDefault(old),
             UNCHANGED <<checked, walk, complaints>>
      PROVE  GobTypesOK' /\ CountedWhenMarked' /\ FirstIsPrinted' /\ warnings <= warnings'
    <2>1. IsFiniteSet({f \in Field : old[f] # 0})
        BY FS_Subset
    <2>2. Cardinality({f \in Field : old[f] # 0}) \in Nat
        BY <2>1, FS_CardinalityType
    <2>3. GobTypesOK' /\ CountedWhenMarked' /\ warnings <= warnings'
        BY <1>3, <2>2 DEF CountedWhenMarked, checkDefault
    <2>4. FirstIsPrinted'
        <3>1. Complained' <=> Complained
            BY <1>3 DEF Complained
        <3>2. CASE {f \in Field : old[f] # 0} = {}
            <4>1. Cardinality({f \in Field : old[f] # 0}) = 0
                BY <3>2, FS_EmptySet
            <4>2. warnings' = warnings /\ warned' = warned
                BY <1>3, <3>2, <4>1 DEF checkDefault
            <4> QED
                BY <3>1, <4>2 DEF FirstIsPrinted
        <3>3. CASE {f \in Field : old[f] # 0} # {}
            <4>1. warned' = (warned \/ (warnings = 0 /\ ~Complained))
                BY <1>3, <3>3 DEF checkDefault
            <4>2. warnings = 0 \/ warnings > 0
                OBVIOUS
            <4> QED
                BY <3>1, <4>1, <4>2 DEF FirstIsPrinted
        <3> QED
            BY <3>2, <3>3
    <2> QED
        BY <2>3, <2>4
<1>4. ASSUME NEW c \in Call, GobWalk(c)
      PROVE  GobTypesOK' /\ CountedWhenMarked' /\ FirstIsPrinted' /\ warnings <= warnings'
    <2>1. PICK t \in Type : checkType(c, t)
        BY <1>4 DEF GobWalk
    <2>2. GobTypesOK' /\ warnings <= warnings'
        BY <2>1 DEF checkType
    <2>3. CountedWhenMarked'
        BY <2>1 DEF checkType, CountedWhenMarked
    <2>4. Complained => Complained'
        BY <2>1 DEF checkType, Complained
    <2>5. FirstIsPrinted'
        BY <2>1, <2>4 DEF checkType, FirstIsPrinted
    <2> QED
        BY <2>2, <2>3, <2>5
<1>5. CASE Testing
    BY <1>1, <1>5 DEF Testing, connect, disconnect, CrashBegins, DeleteServer, CopyPersister,
                      MakeLife, AddServer, setunreliable, Cleanup
<1>6. ASSUME NEW c \in Call, NEW i \in Server, NEW j \in Server, NEW g \in 1 .. life[i],
             NEW old \in Value, CallBegins(c, i, g, j, old)
      PROVE  GobTypesOK' /\ CountedWhenMarked' /\ FirstIsPrinted' /\ warnings <= warnings'
    BY <1>2, <1>6 DEF CallBegins
<1>7. ASSUME NEW c \in Call, CallReturns(c)
      PROVE  GobTypesOK' /\ CountedWhenMarked' /\ FirstIsPrinted' /\ warnings <= warnings'
    <2>1. req[c].old \in Value
        BY DEF CallTypes, Req
    <2> QED
        BY <1>1, <1>2, <1>3, <1>7, <2>1 DEF CallReturns
<1>8. ASSUME NEW c \in Call, Deliver(c) \/ Handle(c)
      PROVE  GobTypesOK' /\ CountedWhenMarked' /\ FirstIsPrinted' /\ warnings <= warnings'
    BY <1>2, <1>8 DEF Deliver, Handle
<1>9. ASSUME NEW c \in Call,
             \/ CallSent(c) \/ processReq(c) \/ DropRequest(c) \/ Poll(c) \/ CheckDead(c)
             \/ HandlerStuck(c) \/ HandlerReturns(c)
      PROVE  GobTypesOK' /\ CountedWhenMarked' /\ FirstIsPrinted' /\ warnings <= warnings'
    BY <1>1, <1>9 DEF CallSent, processReq, DropRequest, Poll, CheckDead, HandlerStuck,
                      HandlerReturns
<1> QED
    BY <1>4, <1>5, <1>6, <1>7, <1>8, <1>9 DEF Step, Progress

\* A field that is mixed is a field of the old value that was not the default, and
\* checkDefault has counted it.
LEMMA MixIsWarned ==
    ASSUME NEW old \in Value, NEW sent \in Value, warnings \in Nat, checkDefault(old),
           NEW f \in Field, Decoded(old, sent)[f] # sent[f]
    PROVE  warnings' > 0
<1> DEFINE S == {x \in Field : old[x] # 0}
<1>1. f \in S
    BY DEF Decoded, Value
<1>2. IsFiniteSet(S)
    BY GobAssumption, FS_Subset
<1>3. Cardinality(S) \in Nat /\ Cardinality(S) # 0
    BY <1>1, <1>2, FS_CardinalityType, FS_EmptySet
<1> HIDE DEF S
<1> QED
    BY <1>3 DEF checkDefault, S

\* A step of one call leaves the others alone.
LEMMA OthersAlone ==
    ASSUME CallTypes, NEW c \in Call, NEW d \in Call, c # d,
           \/ \E i, j \in Server : \E g \in 1 .. life[i] : \E old \in Value :
                CallBegins(c, i, g, j, old)
           \/ Progress(c)
    PROVE  req'[d] = req[d] /\ handler'[d] = handler[d]
<1> USE DEF CallTypes
<1>1. CASE \E i, j \in Server : \E g \in 1 .. life[i] : \E old \in Value :
                CallBegins(c, i, g, j, old)
    BY <1>1 DEF CallBegins
<1>2. CASE CallSent(c) \/ CallReturns(c) \/ processReq(c) \/ DropRequest(c)
    BY <1>2 DEF CallSent, CallReturns, processReq, DropRequest
<1>3. CASE Deliver(c) \/ Poll(c) \/ CheckDead(c)
    BY <1>3 DEF Deliver, Poll, CheckDead
<1>4. CASE Handle(c) \/ HandlerStuck(c) \/ HandlerReturns(c) \/ GobWalk(c)
    BY <1>4 DEF Handle, HandlerStuck, HandlerReturns, GobWalk, callVars
<1> QED
    BY <1>1, <1>2, <1>3, <1>4 DEF Progress

\* A handler that has not returned belongs to a call that has no good reply.
LEMMA GoodHasReturned ==
    ASSUME CallInv, NEW c \in Call, req[c].pc = "true" PROVE handler[c].pc = "returned"
BY DEF CallInv, GoodIsKept, Good

LEMMA MixKept == ASSUME Inv, Step, UNCHANGED lowerCase PROVE MixIsCounted'
<1> SUFFICES ASSUME NEW d \in Call, req'[d].pc = "true", NEW f \in Field,
                    req'[d].reply[f] # handler'[d].reply[f]
             PROVE  warnings' > 0
    BY DEF MixIsCounted
<1>1. warnings \in Nat /\ warnings' \in Nat /\ warnings <= warnings'
    BY GobTypesKept DEF Inv, CallInv, GobInv, GobTypesOK
<1>2. req \in [Call -> Req] /\ handler \in [Call -> Handling]
    BY DEF Inv, CallInv, CallTypes
<1>3. CASE req'[d] = req[d] /\ handler'[d].reply = handler[d].reply
    BY <1>1, <1>3 DEF Inv, GobInv, MixIsCounted
<1>4. CASE Testing
    BY <1>3, <1>4 DEF Testing, connect, disconnect, CrashBegins, DeleteServer, CopyPersister,
                      MakeLife, AddServer, setunreliable, Cleanup, callVars
<1>5. ASSUME NEW c \in Call, c # d,
           \/ \E i, j \in Server : \E g \in 1 .. life[i] : \E old \in Value :
                CallBegins(c, i, g, j, old)
           \/ Progress(c)
      PROVE  warnings' > 0
    BY <1>3, <1>5, OthersAlone DEF Inv, CallInv
<1>6. ASSUME NEW i \in Server, NEW j \in Server, NEW g \in 1 .. life[i], NEW old \in Value,
             CallBegins(d, i, g, j, old)
      PROVE  FALSE
    <2>1. req' = [req EXCEPT ![d] = [NoReq EXCEPT !.pc = "send", !.end = End(i, g, j), !.old = old]]
        BY <1>6 DEF CallBegins
    <2>2. [NoReq EXCEPT !.pc = "send", !.end = End(i, g, j), !.old = old].pc = "send"
        BY DEF NoReq
    <2> QED
        BY <1>2, <2>1, <2>2
<1>7. ASSUME CallSent(d) \/ processReq(d) \/ DropRequest(d) \/ Deliver(d) \/ Poll(d)
             \/ CheckDead(d)
      PROVE  FALSE
    <2>1. req[d] \in Req
        BY <1>2
    <2> QED
        BY <1>2, <1>7, <2>1 DEF CallSent, processReq, DropRequest, Deliver, Poll, CheckDead, Req
<1>8. ASSUME Handle(d) \/ HandlerStuck(d) \/ HandlerReturns(d)
      PROVE  FALSE
    BY <1>8, GoodHasReturned DEF Handle, HandlerStuck, HandlerReturns, Inv
<1>9. CASE GobWalk(d)
    BY <1>3, <1>9 DEF GobWalk, callVars
<1>10. CASE CallReturns(d)
    <2>1. req[d] \in Req
        BY <1>2
    <2>2. /\ req[d].pc = "decode" /\ checkDefault(req[d].old)
          /\ req' = [req EXCEPT ![d].pc = "true", ![d].reply = Decoded(req[d].old, @)]
          /\ handler' = handler
        BY <1>2, <1>10, <2>1 DEF CallReturns, Req
    <2>3. req'[d].reply = Decoded(req[d].old, req[d].reply)
        BY <1>2, <2>1, <2>2 DEF Req
    <2>4. req[d].reply = handler[d].reply
        BY <2>2 DEF Inv, CallInv, GoodIsKept, Good
    <2>5. req[d].old \in Value /\ req[d].reply \in Value
        BY <2>1 DEF Req
    <2> QED
        BY <1>1, <2>2, <2>3, <2>4, <2>5, MixIsWarned
<1> QED
    BY <1>4, <1>5, <1>6, <1>7, <1>8, <1>9, <1>10 DEF Step, Progress

-------------------------------------------------------------------------------------
(* The inductive invariant.                                                          *)

LEMMA InvInit == Init => Inv
<1> SUFFICES ASSUME Init PROVE Inv
    OBVIOUS
<1> USE DEF Init, Nobody
<1>1. CfgInv
    <2>1. CfgTypes
        BY DEF CfgTypes, End
    <2>2. LivesCounted /\ LatestServes /\ CrashInOrder /\ CrashedIsOff
        BY DEF LivesCounted, LatestServes, CrashInOrder, CrashedIsOff
    <2>3. EnabledWasMade
        BY DEF EnabledWasMade, End
    <2> QED
        BY <2>1, <2>2, <2>3 DEF CfgInv
<1>2. CallInv
    <2>1. /\ req \in [Call -> Req] /\ \A c \in Call : req[c] = NoReq
          /\ NoReq.pc = "idle" /\ ~NoReq.ok
        BY NoReqTyped DEF NoReq
    <2>2. handler \in [Call -> Handling] /\ \A c \in Call : handler[c].pc = "none"
        BY FreshValue DEF Idle, Handling, HandlerPC
    <2>3. CallTypes
        BY <2>1, <2>2 DEF CallTypes
    <2>4. HandlerAfterDelivery /\ DeliveredToLife /\ SavedOrGone
        BY <2>1, <2>2 DEF HandlerAfterDelivery, DeliveredToLife, SavedOrGone
    <2>5. GoodIsKept /\ PosthumousIsLost
        BY <2>1, <2>2 DEF GoodIsKept, Good, PosthumousIsLost
    <2> QED
        BY <2>3, <2>4, <2>5 DEF CallInv
<1>3. GobInv
    <2>1. GobTypesOK
        BY CallAssumption, GobAssumption DEF GobInit, GobTypesOK
    <2>3. CountedWhenMarked /\ FirstIsPrinted
        <3>1. \A t \in Type : t \notin checked /\ complaints[t] = 0
            BY DEF GobInit
        <3>2. warnings = 0
            BY DEF GobInit
        <3> QED
            BY <3>1, <3>2 DEF CountedWhenMarked, FirstIsPrinted
    <2>2. MixIsCounted
        BY DEF MixIsCounted, NoReq
    <2> QED
        BY <2>1, <2>2, <2>3 DEF GobInv
<1> QED
    BY <1>1, <1>2, <1>3 DEF Inv

LEMMA InvNext == ASSUME Inv, [Next]_vars PROVE Inv'
<1>1. CASE UNCHANGED vars
    <2>1. CfgInv'
        BY <1>1, CfgUnchanged DEF vars, netVars, cfgVars, Inv, CfgInv, CfgTypes
    <2>2. CallInv'
        BY <1>1, CallsUnchanged DEF vars, netVars, cfgVars, Inv
    <2>3. GobInv'
        BY <1>1 DEF vars, gobVars, callVars, Inv, GobInv, GobTypesOK, CountedWhenMarked,
                    FirstIsPrinted, Complained, MixIsCounted
    <2> QED
        BY <2>1, <2>2, <2>3 DEF Inv
<1>2. CASE Step /\ UNCHANGED lowerCase
    <2>1. GobInv'
        BY <1>2, GobTypesKept, MixKept DEF Inv, CallInv, GobInv
    <2>2. CASE Testing
        BY <2>1, <2>2, CfgTesting, CallsDuringTesting DEF Inv
    <2>3. ASSUME NEW c \in Call,
                 \/ \E i, j \in Server : \E g \in 1 .. life[i] : \E old \in Value :
                      CallBegins(c, i, g, j, old)
                 \/ Progress(c)
          PROVE  CfgInv' /\ CallInv'
        <3>1. CfgInv'
            BY <2>3, CallFrame, CfgUnchanged DEF Inv, CfgInv, CallInv
        <3>2. CASE \E i, j \in Server : \E g \in 1 .. life[i] : \E old \in Value :
                      CallBegins(c, i, g, j, old)
            BY <3>1, <3>2, CallsBegin DEF Inv
        <3>3. CASE GobWalk(c)
            BY <3>1, <3>3, CallsUnchanged DEF Inv, GobWalk, netVars, cfgVars
        <3>4. CASE Progress(c) /\ ~GobWalk(c)
            BY <3>1, <3>4, CallsProceed, CallsDelivered, CallsHandled DEF Inv, Progress
        <3> QED
            BY <2>3, <3>2, <3>3, <3>4
    <2> QED
        BY <1>2, <2>1, <2>2, <2>3 DEF Step, Inv
<1> QED
    BY <1>1, <1>2 DEF Next

\* The parts above hold of every reachable state.
THEOREM Invariance == Spec => []Inv
<1>1. Inv /\ [Next]_vars => Inv'
    BY InvNext
<1> QED
    BY <1>1, InvInit, PTL DEF Spec

\* labrpc.go:264-269: whatever is crashed, restarted, dropped or delayed, a call that
\* returned true left its effect in the Persister that the server's next life reads.
THEOREM TrueIsKept == Spec => []TrueIsDurable
<1>1. Inv => TrueIsDurable
    BY DEF Inv, CallInv, GoodIsKept, Good, TrueIsDurable
<1> QED
    BY <1>1, Invariance, PTL

\* config.go:185-186: the lives of a server stay apart, and a crashed one is not heard.
THEOREM LivesStayApart == Spec => []LivesApart
<1>1. Inv => TypeOK
    <2> SUFFICES ASSUME Inv PROVE TypeOK
        OBVIOUS
    <2>1. enabled \subseteq Server \X (1 .. ops + 1) \X Server
        <3> SUFFICES ASSUME NEW e \in enabled PROVE e \in Server \X (1 .. ops + 1) \X Server
            OBVIOUS
        <3>1. e \in Server \X Nat \X Server /\ e[2] \in 1 .. life[e[1]]
            BY DEF Inv, CfgInv, CfgTypes, EnabledWasMade
        <3>2. life[e[1]] <= ops + 1 /\ life[e[1]] \in Nat /\ ops \in Nat
            BY <3>1 DEF Inv, CfgInv, CfgTypes, LivesCounted
        <3> QED
            BY <3>1, <3>2
    <2>2. \A i \in Server : /\ servers[i] \in {Nobody, life[i]} /\ writer[i] \in {Nobody, life[i]}
                            /\ kept[i] \subseteq Call
        BY DEF Inv, CfgInv, CfgTypes, LatestServes
    <2>3. \A c \in Call : walk[c] \subseteq Type /\ req[c].reply \in Value
        BY DEF Inv, GobInv, GobTypesOK, CallInv, CallTypes, Req
    <2>4. checked \subseteq Type /\ warnings \in Nat /\ warned \in BOOLEAN
        BY DEF Inv, GobInv, GobTypesOK
    <2> QED
        BY <2>1, <2>2, <2>3, <2>4 DEF TypeOK
<1>2. Inv => CrashedIsSilent
    BY DEF Inv, CallInv, PosthumousIsLost, CrashedIsSilent
<1> QED
    BY <1>1, <1>2, Invariance, PTL DEF LivesApart

\* labgob.go: each type is complained about once, by whichever goroutine meets it first,
\* and a reply that is mixed with what the variable held before was counted in errorCount,
\* of which the first fault was printed: this one, or the one that silenced its warning.
THEOREM GobIsHeard == Spec => []GobSpeaksUp
<1>1. Inv => ComplainedOnce
    BY GobAssumption DEF Inv, GobInv, GobTypesOK, CountedWhenMarked, ComplainedOnce
<1>2. Inv => NoSilentMix
    BY DEF Inv, GobInv, MixIsCounted, FirstIsPrinted, NoSilentMix
<1> QED
    BY <1>1, <1>2, Invariance, PTL DEF GobSpeaksUp

-------------------------------------------------------------------------------------
(* The contract of the callers.                                                      *)

OutcomeOf(pc) ==
    CASE pc = "idle" -> "idle"
      [] pc \in {"true", "false"} -> pc
      [] OTHER -> "called"
Handled == {c \in Call : handler[c].pc \in {"encode", "returned"}}

\* What a caller sees of its call depends on the position of the call.
LEMMA OutcomeByPC ==
    /\ Outcome = [c \in Call |-> OutcomeOf(req[c].pc)]
    /\ Outcome' = [c \in Call |-> OutcomeOf(req'[c].pc)]
BY DEF Outcome, OutcomeOf

LEMMA OutcomeCases ==
    /\ OutcomeOf("idle") = "idle" /\ OutcomeOf("true") = "true" /\ OutcomeOf("false") = "false"
    /\ \A pc \in ReqPC \ {"idle", "true", "false"} : OutcomeOf(pc) = "called"
BY DEF OutcomeOf

\* A step of one call that is seen.
LEMMA SeenStep ==
    ASSUME NEW c \in Call, \A d \in Call : d # c => req'[d] = req[d]
    PROVE  Outcome' = [Outcome EXCEPT ![c] = OutcomeOf(req'[c].pc)]
BY OutcomeByPC

LEMMA UnseenStep ==
    ASSUME \A d \in Call : OutcomeOf(req'[d].pc) = OutcomeOf(req[d].pc)
    PROVE  Outcome' = Outcome
BY OutcomeByPC

\* Every step of a call is a step of the contract, or is not seen.
LEMMA CallRefines ==
    ASSUME Inv, NEW c \in Call,
           \/ \E i, j \in Server : \E g \in 1 .. life[i] : \E old \in Value :
                CallBegins(c, i, g, j, old)
           \/ Progress(c)
    PROVE  \/ Contract!Invoke(c) \/ Contract!Handle(c) \/ Contract!Return(c)
           \/ Outcome' = Outcome /\ Handled' = Handled
<1> USE OutcomeCases
<1>1. /\ req \in [Call -> Req] /\ handler \in [Call -> Handling]
      /\ req[c] \in Req /\ handler[c] \in Handling
    BY DEF Inv, CallInv, CallTypes
<1>2. \A d \in Call : d # c => req'[d] = req[d] /\ handler'[d] = handler[d]
    BY OthersAlone DEF Inv, CallInv
<1>3. Outcome' = [Outcome EXCEPT ![c] = OutcomeOf(req'[c].pc)]
    BY <1>2, SeenStep
<1>4. Outcome[c] = OutcomeOf(req[c].pc)
    BY OutcomeByPC
<1>5. ASSUME OutcomeOf(req'[c].pc) = OutcomeOf(req[c].pc) PROVE Outcome' = Outcome
    BY <1>2, <1>5, UnseenStep
<1>6. ASSUME NEW i \in Server, NEW j \in Server, NEW g \in 1 .. life[i], NEW old \in Value,
             CallBegins(c, i, g, j, old)
      PROVE  Contract!Invoke(c)
    <2>1. /\ req[c].pc = "idle" /\ handler' = handler
          /\ req' = [req EXCEPT ![c] =
                        [NoReq EXCEPT !.pc = "send", !.end = End(i, g, j), !.old = old]]
        BY <1>6 DEF CallBegins
    <2>2. [NoReq EXCEPT !.pc = "send", !.end = End(i, g, j), !.old = old].pc = "send"
        BY DEF NoReq
    <2>3. req'[c].pc = "send"
        BY <1>1, <2>1, <2>2
    <2>4. OutcomeOf(req'[c].pc) = "called"
        BY <2>3 DEF ReqPC
    <2> QED
        BY <1>3, <1>4, <2>1, <2>4 DEF Contract!Invoke
<1>7. CASE CallSent(c)
    <2>1. req[c].pc = "send" /\ req'[c].pc \in {"process", "false"} /\ handler' = handler
        BY <1>1, <1>7 DEF CallSent, Req
    <2>2. OutcomeOf(req[c].pc) = "called"
        BY <2>1 DEF ReqPC
    <2>3. CASE req'[c].pc = "process"
        <3>1. OutcomeOf(req'[c].pc) = "called"
            BY <2>3 DEF ReqPC
        <3> QED
            BY <1>5, <2>1, <2>2, <3>1 DEF Handled
    <2>4. CASE req'[c].pc = "false"
        BY <1>3, <1>4, <2>1, <2>2, <2>4 DEF Contract!Return
    <2> QED
        BY <2>1, <2>3, <2>4
<1>8. CASE CallReturns(c)
    <2>1. /\ req[c].pc \in {"reply", "decode"} /\ handler' = handler
          /\ req'[c].pc \in {"decode", "true", "false"}
          /\ req'[c].pc = "true" => req[c].pc = "decode"
        BY <1>1, <1>8 DEF CallReturns, Req
    <2>2. OutcomeOf(req[c].pc) = "called"
        BY <2>1 DEF ReqPC
    <2>3. CASE req'[c].pc = "decode"
        <3>1. OutcomeOf(req'[c].pc) = "called"
            BY <2>3 DEF ReqPC
        <3> QED
            BY <1>5, <2>1, <2>2, <3>1 DEF Handled
    <2>4. CASE req'[c].pc = "false"
        BY <1>3, <1>4, <2>1, <2>2, <2>4 DEF Contract!Return
    <2>5. CASE req'[c].pc = "true"
        <3>1. handler[c].pc = "returned"
            BY <2>1, <2>5 DEF Inv, CallInv, GoodIsKept, Good
        <3> QED
            BY <1>3, <1>4, <2>1, <2>2, <2>5, <3>1 DEF Contract!Return
    <2> QED
        BY <2>1, <2>3, <2>4, <2>5
<1>9. CASE Handle(c)
    <2>1. /\ handler[c].pc = "decode" /\ handler'[c].pc = "encode" /\ req' = req
        BY <1>1, <1>9 DEF Handle
    <2>2. Outcome' = Outcome
        BY <1>5, <2>1
    <2>3. req[c].pc # "idle"
        BY <2>1 DEF Inv, CallInv, HandlerAfterDelivery, Before
    <2>4. Outcome[c] # "idle"
        BY <1>1, <1>4, <2>3 DEF Req, ReqPC
    <2>5. Handled' = Handled \cup {c} /\ c \notin Handled
        BY <1>2, <2>1 DEF Handled
    <2> QED
        BY <2>2, <2>4, <2>5 DEF Contract!Handle, Handled
<1>10. CASE processReq(c) \/ DropRequest(c) \/ Deliver(c) \/ Poll(c) \/ CheckDead(c)
    <2>1. req[c].pc \in {"process", "deliver", "wait", "check"}
          /\ req'[c].pc \in {"deliver", "reply", "wait", "check"}
        BY <1>1, <1>10 DEF processReq, DropRequest, Deliver, Poll, CheckDead, Req
    <2>2. Outcome' = Outcome
        BY <1>5, <2>1 DEF ReqPC
    <2>3. CASE handler' = handler
        BY <2>2, <2>3 DEF Handled
    <2>4. CASE Deliver(c)
        <3>1. handler[c].pc = "none" /\ handler'[c].pc = "decode"
            BY <1>1, <2>4 DEF Deliver, Inv, CallInv, HandlerAfterDelivery, Before, Handling
        <3> QED
            BY <1>2, <2>2, <3>1 DEF Handled
    <2> QED
        BY <1>10, <2>3, <2>4 DEF processReq, DropRequest, Poll, CheckDead
<1>11. CASE HandlerStuck(c) \/ HandlerReturns(c)
    <2>1. /\ req' = req
          /\ \/ handler[c].pc = "decode" /\ handler'[c].pc = "stuck"
             \/ handler[c].pc = "encode" /\ handler'[c].pc = "returned"
        BY <1>1, <1>11 DEF HandlerStuck, HandlerReturns, Handling
    <2> QED
        BY <1>2, <1>5, <2>1 DEF Handled
<1>12. CASE GobWalk(c)
    BY <1>5, <1>12 DEF GobWalk, callVars, Handled
<1> QED
    BY <1>6, <1>7, <1>8, <1>9, <1>10, <1>11, <1>12 DEF Progress

\* raft.go:190-196: under every interleaving of calls, crashes and restarts a handler runs
\* at most once per call, and a call that returns true was handled.
THEOREM HandledAtMostOnce == Spec => IsAtMostOnce
<1>1. Init => Contract!Init
    <2> SUFFICES ASSUME Init PROVE Contract!Init
        OBVIOUS
    <2>1. \A c \in Call : req[c].pc = "idle" /\ handler[c].pc = "none"
        BY DEF Init, NoReq, Idle
    <2>2. Outcome = [c \in Call |-> "idle"]
        BY <2>1, OutcomeByPC, OutcomeCases
    <2>3. Handled = {}
        BY <2>1 DEF Handled
    <2> QED
        BY <2>2, <2>3 DEF Contract!Init, Handled
<1>2. Inv /\ [Next]_vars => [Contract!Next]_(Contract!vars)
    <2> SUFFICES ASSUME Inv, [Next]_vars PROVE Contract!Next \/ UNCHANGED Contract!vars
        OBVIOUS
    <2>1. CASE UNCHANGED callVars
        <3>1. Outcome' = Outcome
            BY <2>1, UnseenStep DEF callVars
        <3> QED
            BY <2>1, <3>1 DEF Contract!vars, callVars
    <2>2. CASE UNCHANGED vars
        BY <2>1, <2>2 DEF vars
    <2>3. CASE Testing
        BY <2>1, <2>3 DEF Testing, connect, disconnect, CrashBegins, DeleteServer, CopyPersister,
                          MakeLife, AddServer, setunreliable, Cleanup
    <2>4. ASSUME NEW c \in Call,
                 \/ \E i, j \in Server : \E g \in 1 .. life[i] : \E old \in Value :
                      CallBegins(c, i, g, j, old)
                 \/ Progress(c)
          PROVE  Contract!Next \/ UNCHANGED Contract!vars
        BY <2>4, CallRefines DEF Contract!Next, Contract!vars, Handled
    <2> QED
        BY <2>2, <2>3, <2>4 DEF Next, Step
<1> QED
    BY <1>1, <1>2, Invariance, PTL DEF Spec, IsAtMostOnce, Contract!Spec
=====================================================================================
