--------------------------------- MODULE RaftProofs ---------------------------------
(***********************************************************************************)
(* Theorems about Raft and its tester, for every set of servers, every bound and    *)
(* every schedule. The first part has the votes, the logs and what is saved of them; *)
(* the second one, what a cluster guarantees to the services above it.              *)
(***********************************************************************************)
EXTENDS Tester, WellFoundedInduction, FiniteSetTheorems, TLAPS

-------------------------------------------------------------------------------------
(* The network.                                                                      *)

\* Sending adds the messages and keeps the ones in flight.
LEMMA SendBag ==
    ASSUME NEW B, IsABag(B), NEW S
    PROVE  IsABag(Send(B, S)) /\ DOMAIN Send(B, S) = DOMAIN B \cup S
BY DEF IsABag, Send, SetToBag, (+)

\* Dropping a message adds none.
LEMMA DropBag ==
    ASSUME NEW B, IsABag(B), NEW m
    PROVE  IsABag(Drop(B, m)) /\ DOMAIN Drop(B, m) \subseteq DOMAIN B
BY DEF IsABag, Drop, SetToBag, (-)

\* A handler replaces the call by its return.
LEMMA ReplyBag ==
    ASSUME NEW B, IsABag(B), NEW m, NEW r
    PROVE  /\ IsABag(Send(Drop(B, m), {r}))
           /\ DOMAIN Send(Drop(B, m), {r}) \subseteq DOMAIN B \cup {r}
<1>1. IsABag(Drop(B, m)) /\ DOMAIN Drop(B, m) \subseteq DOMAIN B
  BY DropBag
<1>2. /\ IsABag(Send(Drop(B, m), {r}))
      /\ DOMAIN Send(Drop(B, m), {r}) = DOMAIN Drop(B, m) \cup {r}
  BY <1>1, SendBag
<1> QED
  BY <1>1, <1>2

-------------------------------------------------------------------------------------
\* A non-empty set of naturals below a bound has a maximum, and Max chooses it.
LEMMA MaxInSet ==
    ASSUME NEW n \in Nat, NEW D \in SUBSET (0 .. n), D # {}
    PROVE  Max(D) \in D /\ \A d \in D : Max(D) >= d
<1> DEFINE T == {n - d : d \in D}
<1>0. \A d \in D : n - d \in Nat
  OBVIOUS
<1>1. T \subseteq Nat /\ T # {}
  BY <1>0, Zenon
<1>2. PICK t \in T : \A u \in T : ~(<<u, t>> \in OpToRel(<, Nat))
  BY <1>1, NatLessThanWellFounded, WFMin
<1>3. PICK x \in D : t = n - x
  OBVIOUS
<1>4. \A d \in D : x >= d
  <2> TAKE d \in D
  <2>1. ~(<<n - d, t>> \in OpToRel(<, Nat))
    BY <1>2
  <2>2. ~(n - d < t)
    BY <2>1, <1>1 DEF OpToRel
  <2> QED
    BY <2>2, <1>3
<1> QED
  BY <1>4 DEF Max

-------------------------------------------------------------------------------------
(* Type correctness.                                                                 *)

\* The term of a log position is a natural number.
LEMMA TermAtType ==
    ASSUME NEW l \in Seq(Entry), NEW k \in 0 .. Len(l)
    PROVE  TermAt(l, k) \in Nat
<1>1. CASE k = 0
  BY <1>1 DEF TermAt
<1>2. CASE k # 0
  <2>1. l[k] \in Entry
    BY <1>2, k \in 1 .. Len(l)
  <2> QED
    BY <1>2, <2>1 DEF TermAt, Entry
<1> QED
  BY <1>1, <1>2

\* What the ticker and the service do to the fields of one server keeps their types.
LEMMA TypeTicker ==
    ASSUME TypeOK, NEW i \in Server, Ticker(i)
    PROVE  TypeOK'
<1>t. /\ currentTerm \in [Server -> Nat]
      /\ electing \in [Server -> Nat]
      /\ broadcasting \in [Server -> Nat]
      /\ cWinElection \in [Server -> 0 .. ChanCap]
  BY DEF TypeOK
<1> USE DEF raftVars, leaderVars, applyVars, tickVars, diskVars, FOLLOWER,
            CANDIDATE, LEADER
<1>1. CASE FollowerTimeout(i)
  BY <1>1 DEF TypeOK, FollowerTimeout, persist, Saved
<1>2. CASE TickCandidate(i)
  <2>1. /\ currentTerm' \in [Server -> Nat]
        /\ electing' \in [Server -> Nat]
    BY <1>t, <1>2 DEF TickCandidate
  <2>2. disk' \in [Server -> [term : Nat, log : Seq(Entry)]]
    BY <1>2 DEF TypeOK, TickCandidate, persist, Saved
  <2> QED
    BY <1>2, <2>1, <2>2 DEF TypeOK, TickCandidate
<1>3. CASE CandidateWin(i)
  <2>1. cWinElection' \in [Server -> 0 .. ChanCap]
    BY <1>t, <1>3, BoundAssumption DEF CandidateWin
  <2> QED
    BY <1>3, <2>1 DEF TypeOK, CandidateWin
<1>4. CASE CandidateBackOff(i)
  BY <1>4 DEF TypeOK, CandidateBackOff
<1>5. CASE TickLeader(i)
  <2>1. broadcasting' \in [Server -> Nat]
    BY <1>t, <1>5 DEF TickLeader
  <2> QED
    BY <1>5, <2>1 DEF TypeOK, TickLeader
<1> QED
  BY <1>1, <1>2, <1>3, <1>4, <1>5 DEF Ticker

\* The messages that the model builds are messages.
LEMMA CallTypes ==
    ASSUME TypeOK, NEW i \in Server, NEW j \in Server
    PROVE  /\ VoteCall(i, j) \in Message
           /\ nextIdx[i][j] \in 1 .. Len(log[i]) + 1 => AppendCall(i, j) \in Message
<1>1. /\ log[i] \in Seq(Entry) /\ Len(log[i]) \in Nat
      /\ currentTerm[i] \in Nat /\ restarts[i] \in Nat /\ commitIdx[i] \in Nat
  BY DEF TypeOK
<1>2. LastTerm(log[i]) \in Nat
  BY <1>1, TermAtType DEF LastTerm
<1>3. VoteCall(i, j) \in Message
  BY <1>1, <1>2 DEF VoteCall, Message
<1>4. ASSUME nextIdx[i][j] \in 1 .. Len(log[i]) + 1
      PROVE  AppendCall(i, j) \in Message
  <2> DEFINE prev == nextIdx[i][j] - 1
  <2>1. prev \in 0 .. Len(log[i]) /\ prev \in Nat
    BY <1>1, <1>4
  <2>2. TermAt(log[i], prev) \in Nat
    BY <1>1, <2>1, TermAtType
  <2>3. SubSeq(log[i], prev + 1, Len(log[i])) \in Seq(Entry)
    BY <1>1, <2>1
  <2> QED
    BY <1>1, <2>1, <2>2, <2>3 DEF AppendCall, Message
<1> QED
  BY <1>3, <1>4

LEMMA VoteReturnType ==
    ASSUME NEW m \in Message, m.type = "RequestVote", NEW term \in Nat, NEW b \in BOOLEAN
    PROVE  VoteReturn(m, term, b) \in Message
BY DEF VoteReturn, Message

LEMMA AppendReturnType ==
    ASSUME NEW m \in Message, m.type = "AppendEntries", NEW term \in Nat,
           NEW b \in BOOLEAN, NEW k \in Nat
    PROVE  AppendReturn(m, term, b, k) \in Message
<1>1. m.entries \in Seq(Entry) /\ m.prevIdx \in Nat /\ m.term \in Nat
  BY DEF Message
<1>2. Len(m.entries) \in Nat
  BY <1>1
<1> QED
  BY <1>1, <1>2 DEF AppendReturn, Message

\* A copied call is a call, and so is one whose slice shows another log.
LEMMA CopyTypes ==
    ASSUME NEW m \in Message, m.type = "AppendEntries", NEW l \in Seq(Entry)
    PROVE  /\ [m EXCEPT !.copied = TRUE] \in Message
           /\ Shown(m, l) \in Message
<1>1. m.entries \in Seq(Entry) /\ m.prevIdx \in Nat
  BY DEF Message
<1>2. [m EXCEPT !.copied = TRUE] \in Message
  BY DEF Message
<1> DEFINE es == [k \in DOMAIN m.entries |->
                    IF m.prevIdx + k <= Len(l) THEN l[m.prevIdx + k] ELSE m.entries[k]]
<1>3. es \in Seq(Entry)
  <2>1. DOMAIN m.entries = 1 .. Len(m.entries) /\ Len(m.entries) \in Nat /\ Len(l) \in Nat
    BY <1>1
  <2>2. ASSUME NEW k \in 1 .. Len(m.entries)
        PROVE  (IF m.prevIdx + k <= Len(l) THEN l[m.prevIdx + k] ELSE m.entries[k]) \in Entry
    <3>1. m.entries[k] \in Entry
      BY <1>1
    <3>2. m.prevIdx + k <= Len(l) => l[m.prevIdx + k] \in Entry
      BY <1>1, <2>1, m.prevIdx + k <= Len(l) => m.prevIdx + k \in 1 .. Len(l)
    <3> QED
      BY <3>1, <3>2
  <2>3. es \in [1 .. Len(m.entries) -> Entry]
    BY <2>1, <2>2
  <2> QED
    BY <2>1, <2>3
<1>4. [m EXCEPT !.entries = es] \in Message
  <2> HIDE DEF es
  <2> QED BY <1>3 DEF Message
<1> QED
  BY <1>2, <1>4 DEF Shown

\* Rewriting the slices of a server keeps a bag of messages one.
LEMMA OverwrittenBag ==
    ASSUME NEW B, IsABag(B), DOMAIN B \subseteq Message, NEW i, NEW l \in Seq(Entry)
    PROVE  IsABag(Overwritten(B, i, l)) /\ DOMAIN Overwritten(B, i, l) \subseteq Message
<1> DEFINE at(m) == IF Waits(i, m) THEN Shown(m, l) ELSE m
           F == Overwritten(B, i, l)
<1>1. F = [x \in {at(m) : m \in DOMAIN B} |-> B[CHOOSE m \in DOMAIN B : at(m) = x]]
  BY DEF Overwritten
<1>2. ASSUME NEW m \in DOMAIN B
      PROVE  at(m) \in Message
  BY CopyTypes DEF Waits
<1> HIDE DEF at, F
<1>3. DOMAIN F = {at(m) : m \in DOMAIN B}
  BY <1>1
<1>4. ASSUME NEW x \in DOMAIN F
      PROVE  F[x] \in Nat \ {0}
  <2>1. \E m \in DOMAIN B : at(m) = x
    BY <1>3
  <2> DEFINE c == CHOOSE m \in DOMAIN B : at(m) = x
  <2>2. c \in DOMAIN B
    BY <2>1
  <2>3. F[x] = B[c]
    BY <1>1, <1>3
  <2> HIDE DEF c
  <2> QED
    BY <2>2, <2>3 DEF IsABag
<1>5. F = [x \in DOMAIN F |-> F[x]]
  BY <1>1, <1>3
<1> QED
  BY <1>2, <1>3, <1>4, <1>5 DEF F, IsABag

\* NextTryIdx is a natural number, and the splice of two logs is a log.
LEMMA ConflictStartType ==
    ASSUME NEW l \in Seq(Entry), NEW prev \in 0 .. Len(l)
    PROVE  ConflictStart(l, prev) \in Nat
<1> DEFINE D == {k \in 0 .. prev - 1 : TermAt(l, k) # TermAt(l, prev)}
<1>1. CASE D = {}
  BY <1>1 DEF ConflictStart
<1>2. CASE D # {}
  <2>0. D \in SUBSET (0 .. prev) /\ prev \in Nat
    OBVIOUS
  <2>1. Max(D) \in D
    <3> HIDE DEF D
    <3> QED BY <1>2, <2>0, MaxInSet
  <2> QED
    BY <1>2, <2>1 DEF ConflictStart
<1> QED
  BY <1>1, <1>2

LEMMA SplicedType ==
    ASSUME NEW l \in Seq(Entry), NEW m, m.entries \in Seq(Entry), m.prevIdx \in 0 .. Len(l)
    PROVE  Spliced(l, m) \in Seq(Entry)
<1>1. SubSeq(l, 1, m.prevIdx) \in Seq(Entry)
  OBVIOUS
<1> QED
  BY <1>1 DEF Spliced

LEMMA TypeCopy ==
    ASSUME TypeOK, NEW m \in DOMAIN net, SendCopy(m)
    PROVE  TypeOK'
<1> USE DEF raftVars, leaderVars, applyVars, tickVars, diskVars
<1> DEFINE r == [m EXCEPT !.copied = TRUE]
<1>1. r \in Message
  BY CopyTypes, <<>> \in Seq(Entry) DEF TypeOK, SendCopy
<1>2. net' = Send(Drop(net, m), {r}) /\ IsABag(net) /\ DOMAIN net \subseteq Message
  BY DEF SendCopy, TypeOK
<1> HIDE DEF r
<1>3. /\ IsABag(Send(Drop(net, m), {r}))
      /\ DOMAIN Send(Drop(net, m), {r}) \subseteq DOMAIN net \cup {r}
  BY <1>2, ReplyBag
<1>4. IsABag(net') /\ DOMAIN net' \subseteq Message
  BY <1>1, <1>2, <1>3
<1> QED
  BY <1>4 DEF TypeOK, SendCopy

LEMMA TypeGoroutines ==
    ASSUME TypeOK, NEW i \in Server,
           ElectionGoroutine(i) \/ broadcastHeartbeat(i) \/ LeaderPersist(i) \/ Apply(i)
    PROVE  TypeOK'
<1>t. /\ electing \in [Server -> Nat] /\ broadcasting \in [Server -> Nat]
      /\ IsABag(net) /\ DOMAIN net \subseteq Message
      /\ nextIdx \in [Server -> [Server -> Nat]]
      /\ Len(log[i]) \in Nat
  BY DEF TypeOK
<1> USE DEF raftVars, leaderVars, applyVars, tickVars, diskVars
<1>1. CASE ElectionGoroutine(i)
  <2>1. electing' \in [Server -> Nat]
    BY <1>t, <1>1 DEF ElectionGoroutine
  <2> DEFINE S == {VoteCall(i, j) : j \in Others(i)}
  <2>2. S \subseteq Message /\ net' = Send(net, S)
    BY <1>1, CallTypes DEF Others, ElectionGoroutine
  <2>3. IsABag(net') /\ DOMAIN net' \subseteq Message
    <3> HIDE DEF S
    <3>1. IsABag(Send(net, S)) /\ DOMAIN Send(net, S) = DOMAIN net \cup S
      BY <1>t, SendBag
    <3> QED
      BY <1>t, <2>2, <3>1
  <2> QED
    BY <1>1, <2>1, <2>3 DEF TypeOK, ElectionGoroutine
<1>2. CASE broadcastHeartbeat(i)
  <2> DEFINE peers == {j \in Others(i) : state[i] = LEADER /\ nextIdx[i][j] > 0}
  <2>1. broadcasting' \in [Server -> Nat]
    BY <1>t, <1>2 DEF broadcastHeartbeat
  <2>2. \A j \in peers : j \in Server /\ nextIdx[i][j] \in 1 .. Len(log[i]) + 1
    BY <1>t, <1>2 DEF broadcastHeartbeat, Others
  <2> DEFINE S == {AppendCall(i, j) : j \in peers}
  <2>3. S \subseteq Message /\ net' = Send(net, S)
    BY <1>2, <2>2, CallTypes DEF broadcastHeartbeat
  <2>4. IsABag(net') /\ DOMAIN net' \subseteq Message
    <3> HIDE DEF S
    <3>1. IsABag(Send(net, S)) /\ DOMAIN Send(net, S) = DOMAIN net \cup S
      BY <1>t, SendBag
    <3> QED
      BY <1>t, <2>3, <3>1
  <2> QED
    BY <1>2, <2>1, <2>4 DEF TypeOK, broadcastHeartbeat
<1>3. CASE LeaderPersist(i)
  BY <1>3 DEF TypeOK, LeaderPersist, persist, Saved
<1>4. CASE Apply(i)
  <2>1. appliedLast' \in [Server -> Nat] /\ applying' \in [Server -> BOOLEAN]
    <3>1. /\ appliedLast \in [Server -> Nat] /\ commitIdx \in [Server -> Nat]
          /\ applying \in [Server -> BOOLEAN]
      BY DEF TypeOK
    <3>2. /\ appliedLast' = [appliedLast EXCEPT ![i] = commitIdx[i]]
          /\ applying' = [applying EXCEPT ![i] = FALSE]
      BY <1>4 DEF Apply
    <3> QED
      BY <3>1, <3>2
  <2>2. \A k \in appliedLast[i] + 1 .. commitIdx[i] : <<k, log[i][k]>> \in Nat \X Entry
    <3>1. /\ appliedLast[i] \in Nat /\ commitIdx[i] \in Nat /\ log[i] \in Seq(Entry)
          /\ commitIdx[i] <= Len(log[i])
      BY <1>4 DEF TypeOK, Apply
    <3>2. \A k \in appliedLast[i] + 1 .. commitIdx[i] : k \in Nat /\ k \in 1 .. Len(log[i])
      BY <3>1
    <3>3. \A k \in 1 .. Len(log[i]) : log[i][k] \in Entry
      BY <3>1
    <3> QED
      BY <3>2, <3>3
  <2>3. logs' \in [Server -> SUBSET (Nat \X Entry)]
    <3> DEFINE new == {<<k, log[i][k]>> : k \in appliedLast[i] + 1 .. commitIdx[i]}
    <3>1. new \in SUBSET (Nat \X Entry)
      BY <2>2
    <3>2. logs' = [logs EXCEPT ![i] = @ \cup new]
      BY <1>4 DEF Apply
    <3> HIDE DEF new
    <3> QED
      BY <3>1, <3>2 DEF TypeOK
  <2> QED
    BY <1>4, <2>1, <2>3 DEF TypeOK, Apply
<1> QED
  BY <1>1, <1>2, <1>3, <1>4

\* The service, the tester and the network.
LEMMA TypeEnvironment ==
    ASSUME TypeOK,
           \/ \E i \in Server, c \in Command : Start(i, c)
           \/ \E i \in Server : Restart(i)
           \/ \E m \in DOMAIN net : Lose(m)
    PROVE  TypeOK'
<1> USE DEF raftVars, leaderVars, applyVars, tickVars, diskVars
<1>1. ASSUME NEW i \in Server, NEW c \in Command, Start(i, c)
      PROVE  TypeOK'
  <2> DEFINE new == Append(log[i], [term |-> currentTerm[i], cmd |-> c])
  <2>0. currentTerm[i] \in Nat /\ log[i] \in Seq(Entry)
    BY DEF TypeOK
  <2>1. new \in Seq(Entry)
    BY <2>0 DEF Entry
  <2>2. /\ log' \in [Server -> Seq(Entry)]
        /\ disk' \in [Server -> [term : Nat, log : Seq(Entry)]]
    BY <1>1, <2>1 DEF TypeOK, Start, persist, Saved
  <2>3. IsABag(net') /\ DOMAIN net' \subseteq Message
    <3>1. net' = Overwritten(net, i, new)
      BY <1>1 DEF Start
    <3> HIDE DEF new
    <3> QED
      BY <2>1, <3>1, OverwrittenBag DEF TypeOK
  <2> QED
    BY <1>1, <2>2, <2>3 DEF TypeOK, Start
<1>2. ASSUME NEW i \in Server, Restart(i)
      PROVE  TypeOK'
  <2>0. restarts \in [Server -> Nat] /\ cWinElection \in [Server -> 0 .. ChanCap]
    BY DEF TypeOK
  <2>1. restarts' \in [Server -> Nat] /\ cWinElection' \in [Server -> 0 .. ChanCap]
    BY <1>2, <2>0, BoundAssumption DEF Restart, readPersist
  <2>2. /\ currentTerm' \in [Server -> Nat] /\ log' \in [Server -> Seq(Entry)]
        /\ votedFor' \in [Server -> Server \cup {Nil}]
        /\ nextIdx' \in [Server -> [Server -> Nat]]
        /\ matchIdx' \in [Server -> [Server -> Nat]]
        /\ numVotesReceived' \in [Server -> Nat]
        /\ commitIdx' \in [Server -> Nat] /\ appliedLast' \in [Server -> Nat]
    BY <1>2 DEF TypeOK, Restart, readPersist
  <2>3. /\ electing' \in [Server -> Nat] /\ broadcasting' \in [Server -> Nat]
        /\ applying' \in [Server -> BOOLEAN]
        /\ pc' \in [Server -> {"top", "candidate", "leader"}]
        /\ state' \in [Server -> {FOLLOWER, CANDIDATE, LEADER}]
    BY <1>2 DEF TypeOK, Restart, readPersist
  <2> QED
    BY <1>2, <2>1, <2>2, <2>3 DEF TypeOK, Restart, readPersist
<1>3. ASSUME NEW m \in DOMAIN net, Lose(m)
      PROVE  TypeOK'
  <2>1. IsABag(net') /\ DOMAIN net' \subseteq Message
    BY <1>3, DropBag DEF TypeOK, Lose
  <2> QED
    BY <1>3, <2>1 DEF TypeOK, Lose
<1> QED
  BY <1>1, <1>2, <1>3

LEMMA TypeRequestVote ==
    ASSUME TypeOK, NEW i \in Server, NEW m \in DOMAIN net, m.to = i, RequestVote(i, m)
    PROVE  TypeOK'
<1> USE DEF raftVars, leaderVars, applyVars, tickVars, diskVars
<1>t. /\ m \in Message /\ m.type = "RequestVote" /\ IsABag(net) /\ DOMAIN net \subseteq Message
      /\ currentTerm \in [Server -> Nat] /\ currentTerm[i] \in Nat
  BY DEF TypeOK, RequestVote
<1>m. m.from \in Server /\ m.term \in Nat
  BY <1>t DEF Message
<1>1. ASSUME NEW term \in Nat, NEW b \in BOOLEAN,
             net' = Send(Drop(net, m), {VoteReturn(m, term, b)})
      PROVE  IsABag(net') /\ DOMAIN net' \subseteq Message
  <2> DEFINE r == VoteReturn(m, term, b)
  <2>1. r \in Message
    BY <1>t, VoteReturnType
  <2> HIDE DEF r
  <2>2. /\ IsABag(Send(Drop(net, m), {r}))
        /\ DOMAIN Send(Drop(net, m), {r}) \subseteq DOMAIN net \cup {r}
    BY <1>t, ReplyBag
  <2> QED
    BY <1>t, <1>1, <2>1, <2>2 DEF r
<1>2. CASE m.term < currentTerm[i]
  <2>1. /\ net' = Send(Drop(net, m), {VoteReturn(m, currentTerm[i], FALSE)})
        /\ UNCHANGED <<currentTerm, votedFor, state>>
    BY <1>t, <1>m, <1>2 DEF RequestVote
  <2>2. IsABag(net') /\ DOMAIN net' \subseteq Message
    BY <1>t, <1>1, <2>1
  <2> QED
    BY <2>1, <2>2 DEF TypeOK, RequestVote
<1>3. CASE m.term >= currentTerm[i]
  <2> DEFINE newer == m.term > currentTerm[i]
             vote == IF newer THEN Nil ELSE votedFor[i]
             granted == Grants(m, vote, log[i])
  <2>0. granted \in BOOLEAN
    BY DEF Grants, UpToDate
  <2>1. /\ net' = Send(Drop(net, m), {VoteReturn(m, m.term, granted)})
        /\ currentTerm' = [currentTerm EXCEPT ![i] = m.term]
        /\ votedFor' = [votedFor EXCEPT ![i] = IF granted THEN m.from ELSE vote]
        /\ state' = [state EXCEPT ![i] = IF newer THEN FOLLOWER ELSE @]
    BY <1>t, <1>m, <1>3 DEF RequestVote
  <2>2. vote \in Server \cup {Nil}
    BY DEF TypeOK
  <2> HIDE DEF granted, vote, newer
  <2>3. IsABag(net') /\ DOMAIN net' \subseteq Message
    BY <1>m, <1>1, <2>0, <2>1
  <2>4. /\ currentTerm' \in [Server -> Nat]
        /\ votedFor' \in [Server -> Server \cup {Nil}]
        /\ state' \in [Server -> {FOLLOWER, CANDIDATE, LEADER}]
    BY <1>t, <1>m, <2>1, <2>2 DEF TypeOK
  <2> QED
    BY <2>3, <2>4 DEF TypeOK, RequestVote
<1> QED
  BY <1>2, <1>3, <1>t, <1>m

LEMMA TypeVoteReturn ==
    ASSUME TypeOK, NEW i \in Server, NEW m \in DOMAIN net, m.to = i, sendRequestVote(i, m)
    PROVE  TypeOK'
<1> USE DEF raftVars, leaderVars, applyVars, tickVars, diskVars
<1>t. /\ m \in Message /\ m.type = "RequestVoteReply" /\ IsABag(net)
      /\ DOMAIN net \subseteq Message /\ net' = Drop(net, m)
      /\ numVotesReceived \in [Server -> Nat]
      /\ cWinElection \in [Server -> 0 .. ChanCap]
      /\ log[i] \in Seq(Entry) /\ currentTerm[i] \in Nat
  BY DEF TypeOK, sendRequestVote
<1>m. m.term \in Nat
  BY <1>t DEF Message
<1>1. IsABag(net') /\ DOMAIN net' \subseteq Message
  BY <1>t, DropBag
<1>2. CASE ~VoteCounts(i, m) \/ (m.term <= currentTerm[i] /\ ~m.granted)
  <2>1. UNCHANGED <<raftVars, nextIdx, cWinElection, disk>>
    BY <1>t, <1>2, <1>m DEF sendRequestVote
  <2> QED
    BY <1>1, <2>1 DEF TypeOK, sendRequestVote
<1>3. CASE VoteCounts(i, m) /\ m.term > currentTerm[i]
  <2>1. /\ currentTerm' = [currentTerm EXCEPT ![i] = m.term]
        /\ votedFor' = [votedFor EXCEPT ![i] = Nil]
        /\ state' = [state EXCEPT ![i] = FOLLOWER]
        /\ UNCHANGED <<log, numVotesReceived, nextIdx, cWinElection, disk>>
    BY <1>t, <1>3, <1>m DEF sendRequestVote
  <2> QED
    BY <1>1, <1>m, <2>1 DEF TypeOK, sendRequestVote
<1>4. CASE VoteCounts(i, m) /\ m.term <= currentTerm[i] /\ m.granted
  <2>1. /\ numVotesReceived' = [numVotesReceived EXCEPT ![i] = @ + 1]
        /\ IF Majority(numVotesReceived[i] + 1)
           THEN WinElection(i)
           ELSE UNCHANGED <<state, nextIdx, cWinElection, disk>>
        /\ UNCHANGED <<currentTerm, votedFor, log>>
    BY <1>t, <1>4, <1>m DEF sendRequestVote
  <2>2. numVotesReceived' \in [Server -> Nat]
    BY <1>t, <2>1
  <2>3. ASSUME WinElection(i)
        PROVE  /\ cWinElection' \in [Server -> 0 .. ChanCap]
               /\ nextIdx' \in [Server -> [Server -> Nat]]
               /\ state' \in [Server -> {FOLLOWER, CANDIDATE, LEADER}]
               /\ disk' \in [Server -> [term : Nat, log : Seq(Entry)]]
    <3>1. cWinElection' \in [Server -> 0 .. ChanCap]
      BY <1>t, <2>3, BoundAssumption DEF WinElection
    <3>2. [j \in Server |-> Len(log[i]) + 1] \in [Server -> Nat]
      BY <1>t
    <3>3. nextIdx' \in [Server -> [Server -> Nat]]
      BY <2>3, <3>2 DEF WinElection, TypeOK
    <3> QED
      BY <2>3, <3>1, <3>3 DEF TypeOK, WinElection, persist, Saved
  <2> QED
    BY <1>1, <2>1, <2>2, <2>3 DEF TypeOK, sendRequestVote
<1> QED
  BY <1>2, <1>3, <1>4, <1>m, <1>t

LEMMA TypeAppendEntries ==
    ASSUME TypeOK, NEW i \in Server, NEW m \in DOMAIN net, m.to = i, AppendEntries(i, m)
    PROVE  TypeOK'
<1> USE DEF raftVars, leaderVars, applyVars, tickVars, diskVars
<1>t. /\ m \in Message /\ m.type = "AppendEntries" /\ IsABag(net) /\ DOMAIN net \subseteq Message
      /\ currentTerm \in [Server -> Nat] /\ currentTerm[i] \in Nat
      /\ log[i] \in Seq(Entry) /\ Len(log[i]) \in Nat
  BY DEF TypeOK, AppendEntries
<1>m. /\ m.term \in Nat /\ m.prevIdx \in Nat /\ m.commit \in Nat /\ m.prevTerm \in Nat
      /\ m.entries \in Seq(Entry) /\ Len(m.entries) \in Nat
  BY <1>t DEF Message
<1>1. ASSUME NEW term \in Nat, NEW b \in BOOLEAN, NEW k \in Nat,
             NEW B, IsABag(B), DOMAIN B \subseteq Message,
             net' = Send(Drop(B, m), {AppendReturn(m, term, b, k)})
      PROVE  IsABag(net') /\ DOMAIN net' \subseteq Message
  <2> DEFINE r == AppendReturn(m, term, b, k)
  <2>1. r \in Message
    BY <1>t, AppendReturnType
  <2> HIDE DEF r
  <2>2. /\ IsABag(Send(Drop(B, m), {r}))
        /\ DOMAIN Send(Drop(B, m), {r}) \subseteq DOMAIN B \cup {r}
    BY <1>1, ReplyBag
  <2> QED
    BY <1>t, <1>1, <2>1, <2>2 DEF r
<1>2. CASE m.term < currentTerm[i]
  <2>1. /\ net' = Send(Drop(net, m), {AppendReturn(m, currentTerm[i], FALSE, Len(log[i]) + 1)})
        /\ UNCHANGED <<currentTerm, votedFor, log, state, commitIdx, applying, disk>>
    BY <1>t, <1>m, <1>2 DEF AppendEntries
  <2>2. IsABag(net') /\ DOMAIN net' \subseteq Message
    BY <1>t, <1>1, <2>1, Len(log[i]) + 1 \in Nat
  <2> QED
    BY <2>1, <2>2 DEF TypeOK, AppendEntries
<1>3. CASE m.term >= currentTerm[i]
  <2> DEFINE newer == m.term > currentTerm[i]
             vote == IF newer THEN Nil ELSE votedFor[i]
             new == Spliced(log[i], m)
  <2>1. /\ currentTerm' = [currentTerm EXCEPT ![i] = m.term]
        /\ votedFor' = [votedFor EXCEPT ![i] = vote]
        /\ state' = [state EXCEPT ![i] = IF newer THEN FOLLOWER ELSE @]
    BY <1>t, <1>m, <1>3 DEF AppendEntries
  <2>2. vote \in Server \cup {Nil}
    BY DEF TypeOK
  <2>3. /\ currentTerm' \in [Server -> Nat]
        /\ votedFor' \in [Server -> Server \cup {Nil}]
        /\ state' \in [Server -> {FOLLOWER, CANDIDATE, LEADER}]
    <3> HIDE DEF newer, vote
    <3> QED BY <1>t, <1>m, <2>1, <2>2 DEF TypeOK
  <2>4. CASE m.prevIdx > Len(log[i])
    <3>1. /\ net' = Send(Drop(net, m), {AppendReturn(m, m.term, FALSE, Len(log[i]) + 1)})
          /\ UNCHANGED <<log, commitIdx, applying, disk>>
      BY <1>t, <1>m, <1>3, <2>4 DEF AppendEntries, Matches
    <3>2. IsABag(net') /\ DOMAIN net' \subseteq Message
      BY <1>t, <1>m, <1>1, <3>1, Len(log[i]) + 1 \in Nat
    <3> QED
      BY <2>3, <3>1, <3>2 DEF TypeOK, AppendEntries
  <2>5. CASE m.prevIdx <= Len(log[i]) /\ TermAt(log[i], m.prevIdx) # m.prevTerm
    <3> DEFINE k == ConflictStart(log[i], m.prevIdx)
    <3>1. /\ net' = Send(Drop(net, m), {AppendReturn(m, m.term, FALSE, k)})
          /\ UNCHANGED <<log, commitIdx, applying, disk>>
      BY <1>t, <1>m, <1>3, <2>5 DEF AppendEntries, Matches
    <3>2. k \in Nat
      BY <1>t, <1>m, <2>5, ConflictStartType
    <3>3. IsABag(net') /\ DOMAIN net' \subseteq Message
      <4> HIDE DEF k
      <4> QED BY <1>t, <1>m, <1>1, <3>1, <3>2
    <3> QED
      BY <2>3, <3>1, <3>3 DEF TypeOK, AppendEntries
  <2>6. CASE m.prevIdx <= Len(log[i]) /\ TermAt(log[i], m.prevIdx) = m.prevTerm
    <3>1. /\ net' = Send(Drop(Overwritten(net, i, new), m),
                        {AppendReturn(m, m.term, TRUE, m.prevIdx + Len(m.entries))})
          /\ AcceptEntries(i, m)
      BY <1>t, <1>m, <1>3, <2>6 DEF AppendEntries, Matches
    <3>3. new \in Seq(Entry)
      BY <1>t, <1>m, <2>6, SplicedType
    <3>2. IsABag(net') /\ DOMAIN net' \subseteq Message
      <4>1. /\ IsABag(Overwritten(net, i, new))
            /\ DOMAIN Overwritten(net, i, new) \subseteq Message
        BY <1>t, <3>3, OverwrittenBag
      <4> HIDE DEF new
      <4> QED
        BY <1>m, <1>1, <3>1, <4>1, m.prevIdx + Len(m.entries) \in Nat
    <3>4. Min({m.commit, Len(new)}) \in Nat
      BY <1>m, <3>3 DEF Min
    <3>5. /\ log' \in [Server -> Seq(Entry)]
          /\ disk' \in [Server -> [term : Nat, log : Seq(Entry)]]
      <4> HIDE DEF new
      <4> QED BY <1>m, <3>1, <3>3 DEF TypeOK, AcceptEntries, persist, Saved, new
    <3>6. commitIdx' \in [Server -> Nat]
      <4>1. commitIdx \in [Server -> Nat]
        BY DEF TypeOK
      <4>2. PICK c \in Nat : c = Min({m.commit, Len(new)})
        BY <3>4
      <4>3. UNCHANGED commitIdx \/ commitIdx' = [commitIdx EXCEPT ![i] = c]
        BY <3>1, <4>2 DEF AcceptEntries
      <4> QED
        BY <4>1, <4>3
    <3>7. applying' \in [Server -> BOOLEAN]
      <4>1. applying \in [Server -> BOOLEAN]
        BY DEF TypeOK
      <4>2. UNCHANGED applying \/ applying' = [applying EXCEPT ![i] = TRUE]
        BY <3>1 DEF AcceptEntries
      <4> QED
        BY <4>1, <4>2
    <3> QED
      BY <2>3, <3>2, <3>5, <3>6, <3>7 DEF TypeOK, AppendEntries
  <2> QED
    BY <1>t, <1>m, <2>4, <2>5, <2>6
<1> QED
  BY <1>2, <1>3, <1>t, <1>m

\* The commit index that the leader moves to is an index of its log.
LEMMA AdvanceCommitType ==
    ASSUME TypeOK, NEW i \in Server, NEW match, AdvanceCommit(i, match)
    PROVE  commitIdx' \in [Server -> Nat] /\ applying' \in [Server -> BOOLEAN]
<1> DEFINE held == {k \in CommitRange(i) : Majority(Cardinality(Holders(i, k, match)))}
<1>t. /\ commitIdx \in [Server -> Nat] /\ applying \in [Server -> BOOLEAN]
      /\ Len(log[i]) \in Nat /\ commitIdx[i] \in Nat
  BY DEF TypeOK
<1>1. CASE held = {}
  BY <1>1, <1>t DEF AdvanceCommit
<1>2. CASE held # {}
  <2>1. held \in SUBSET (0 .. Len(log[i]))
    BY <1>t DEF CommitRange
  <2>2. /\ commitIdx' = [commitIdx EXCEPT ![i] = Max(held)]
        /\ applying' = [applying EXCEPT ![i] = TRUE]
    BY <1>2 DEF AdvanceCommit
  <2> HIDE DEF held
  <2>3. Max(held) \in held
    BY <1>2, <1>t, <2>1, MaxInSet
  <2>4. Max(held) \in Nat
    <3>1. \A k \in held : k \in Nat
      BY <1>t, <2>1
    <3> QED
      BY <2>3, <3>1
  <2> QED
    BY <1>t, <2>2, <2>4
<1> QED
  BY <1>1, <1>2

\* Setting one peer's index of one leader.
LEMMA PeerUpdateType ==
    ASSUME NEW f \in [Server -> [Server -> Nat]], NEW i \in Server, NEW j \in Server, NEW k \in Nat
    PROVE  [f EXCEPT ![i][j] = k] \in [Server -> [Server -> Nat]]
<1>1. [f[i] EXCEPT ![j] = k] \in [Server -> Nat]
  OBVIOUS
<1> QED
  BY <1>1

LEMMA TypeAppendReturn ==
    ASSUME TypeOK, NEW i \in Server, NEW m \in DOMAIN net, m.to = i, sendAppendEntries(i, m)
    PROVE  TypeOK'
<1> USE DEF raftVars, leaderVars, applyVars, tickVars, diskVars
<1>t. /\ m \in Message /\ m.type = "AppendEntriesReply" /\ IsABag(net)
      /\ DOMAIN net \subseteq Message /\ net' = Drop(net, m)
      /\ currentTerm[i] \in Nat
      /\ nextIdx \in [Server -> [Server -> Nat]] /\ matchIdx \in [Server -> [Server -> Nat]]
  BY DEF TypeOK, sendAppendEntries
<1>m. /\ m.term \in Nat /\ m.last \in Nat /\ m.nextTry \in Nat /\ m.from \in Server
      /\ m.success \in BOOLEAN
  BY <1>t DEF Message
<1>1. IsABag(net') /\ DOMAIN net' \subseteq Message
  BY <1>t, DropBag
<1>2. CASE ~AppendCounts(i, m)
  <2>1. UNCHANGED <<currentTerm, votedFor, state, leaderVars, commitIdx, applying, disk>>
    BY <1>2 DEF sendAppendEntries
  <2> QED
    BY <1>1, <2>1 DEF TypeOK, sendAppendEntries
<1>3. CASE AppendCounts(i, m) /\ m.term > currentTerm[i]
  <2>1. /\ currentTerm' = [currentTerm EXCEPT ![i] = m.term]
        /\ votedFor' = [votedFor EXCEPT ![i] = Nil]
        /\ state' = [state EXCEPT ![i] = FOLLOWER]
        /\ persist(i, m.term, log[i])
        /\ UNCHANGED <<leaderVars, commitIdx, applying>>
    BY <1>t, <1>m, <1>3 DEF sendAppendEntries
  <2>2. disk' \in [Server -> [term : Nat, log : Seq(Entry)]]
    BY <1>m, <2>1 DEF TypeOK, persist, Saved
  <2> QED
    BY <1>1, <1>m, <2>1, <2>2 DEF TypeOK, sendAppendEntries
<1>4. CASE AppendCounts(i, m) /\ m.term <= currentTerm[i]
  <2>1. /\ \/ /\ nextIdx' = [nextIdx EXCEPT ![i][m.from] = m.last + 1]
              /\ matchIdx' = [matchIdx EXCEPT ![i][m.from] = m.last]
           \/ UNCHANGED leaderVars
           \/ /\ nextIdx' = [nextIdx EXCEPT ![i][m.from] = m.nextTry]
              /\ UNCHANGED matchIdx
        /\ AdvanceCommit(i, matchIdx'[i])
        /\ UNCHANGED <<currentTerm, votedFor, state, disk>>
    BY <1>t, <1>m, <1>4 DEF sendAppendEntries
  <2>2. /\ nextIdx' \in [Server -> [Server -> Nat]]
        /\ matchIdx' \in [Server -> [Server -> Nat]]
    <3>1. m.last + 1 \in Nat
      BY <1>m
    <3>2. /\ [nextIdx EXCEPT ![i][m.from] = m.last + 1] \in [Server -> [Server -> Nat]]
          /\ [nextIdx EXCEPT ![i][m.from] = m.nextTry] \in [Server -> [Server -> Nat]]
          /\ [matchIdx EXCEPT ![i][m.from] = m.last] \in [Server -> [Server -> Nat]]
      <4> DEFINE F(f, k) == [f EXCEPT ![i][m.from] = k]
      <4>1. F(nextIdx, m.last + 1) \in [Server -> [Server -> Nat]]
        BY <1>t, <1>m, <3>1, PeerUpdateType
      <4>2. F(nextIdx, m.nextTry) \in [Server -> [Server -> Nat]]
        BY <1>t, <1>m, PeerUpdateType
      <4>3. F(matchIdx, m.last) \in [Server -> [Server -> Nat]]
        BY <1>t, <1>m, PeerUpdateType
      <4> QED
        BY <4>1, <4>2, <4>3
    <3> QED
      BY <1>t, <2>1, <3>2
  <2>3. commitIdx' \in [Server -> Nat] /\ applying' \in [Server -> BOOLEAN]
    BY <2>1, AdvanceCommitType
  <2> QED
    BY <1>1, <2>1, <2>2, <2>3 DEF TypeOK, sendAppendEntries
<1> QED
  BY <1>2, <1>3, <1>4, <1>t, <1>m

LEMMA TypeInit == Init => TypeOK
<1> SUFFICES ASSUME Init PROVE TypeOK
  OBVIOUS
<1>1. IsABag(net) /\ DOMAIN net \subseteq Message
  BY DEF Init, EmptyBag, SetToBag, IsABag
<1>2. cWinElection \in [Server -> 0 .. ChanCap]
  BY BoundAssumption DEF Init
<1> QED
  BY <1>1, <1>2 DEF Init, TypeOK, Saved

\* Every step keeps the types.
LEMMA TypeNext == TypeOK /\ [Next]_vars => TypeOK'
<1> SUFFICES ASSUME TypeOK, [Next]_vars PROVE TypeOK'
  OBVIOUS
<1>1. CASE UNCHANGED vars
  BY <1>1 DEF TypeOK, vars, raftVars, leaderVars, applyVars, tickVars, diskVars
<1>2. ASSUME NEW i \in Server,
             ElectionGoroutine(i) \/ broadcastHeartbeat(i) \/ LeaderPersist(i) \/ Apply(i)
      PROVE  TypeOK'
  BY <1>2, TypeGoroutines
<1>3. ASSUME NEW i \in Server, Ticker(i)
      PROVE  TypeOK'
  BY <1>3, TypeTicker
<1>4. ASSUME NEW i \in Server, NEW m \in DOMAIN net, Receive(i, m)
      PROVE  TypeOK'
  BY <1>4, TypeRequestVote, TypeVoteReturn, TypeAppendEntries, TypeAppendReturn DEF Receive
<1>5. ASSUME \/ \E i \in Server, c \in Command : Start(i, c)
             \/ \E i \in Server : Restart(i)
             \/ \E m \in DOMAIN net : Lose(m)
      PROVE  TypeOK'
  BY <1>5, TypeEnvironment
<1>6. ASSUME NEW m \in DOMAIN net, SendCopy(m)
      PROVE  TypeOK'
  BY <1>6, TypeCopy
<1> QED
  BY <1>1, <1>2, <1>3, <1>4, <1>5, <1>6 DEF Next, Step

\* Type correctness of raft.go's state under every interleaving, loss and restart.
THEOREM TypeCorrect == Spec => []TypeOK
BY TypeInit, TypeNext, PTL DEF Spec

-------------------------------------------------------------------------------------
(* Durability of the log. Each step does one of four things to a server's term, log  *)
(* and Persister: nothing, save both as they now are, raise the term alone, or        *)
(* restart from the Persister.                                                       *)

\* Saving what the server now has makes its Persister current.
LEMMA DurableSave ==
    ASSUME TypeOK, LogDurable, NEW i \in Server, NEW t \in Nat, NEW l,
           persist(i, t, l),
           currentTerm' = [currentTerm EXCEPT ![i] = t], log' = [log EXCEPT ![i] = l]
    PROVE  LogDurable'
<1>1. ASSUME NEW j \in Server
      PROVE  disk'[j].log = log'[j] /\ disk'[j].term <= currentTerm'[j]
  <2>1. CASE j = i
    <3>1. disk'[i] = Saved(t, l) /\ currentTerm'[i] = t /\ log'[i] = l
      BY DEF TypeOK, persist
    <3> QED
      BY <2>1, <3>1 DEF Saved
  <2>2. CASE j # i
    <3>1. disk'[j] = disk[j] /\ currentTerm'[j] = currentTerm[j] /\ log'[j] = log[j]
      BY <2>2 DEF TypeOK, persist
    <3> QED
      BY <3>1 DEF LogDurable
  <2> QED
    BY <2>1, <2>2
<1> QED
  BY <1>1 DEF LogDurable

\* Saving a server's fields as they are.
LEMMA DurableSame ==
    ASSUME TypeOK, LogDurable, NEW i \in Server,
           persist(i, currentTerm[i], log[i]), UNCHANGED <<currentTerm, log>>
    PROVE  LogDurable'
<1>1. currentTerm[i] \in Nat
  BY DEF TypeOK
<1>2. /\ currentTerm' = [currentTerm EXCEPT ![i] = currentTerm[i]]
      /\ log' = [log EXCEPT ![i] = log[i]]
  BY DEF TypeOK
<1> QED
  BY <1>1, <1>2, DurableSave

\* A term that grows without being saved leaves the Persister behind, never ahead.
LEMMA DurableLag ==
    ASSUME TypeOK, LogDurable, NEW i \in Server, NEW t \in Nat, currentTerm[i] <= t,
           currentTerm' = [currentTerm EXCEPT ![i] = t], UNCHANGED <<log, disk>>
    PROVE  LogDurable'
<1>1. ASSUME NEW j \in Server
      PROVE  disk[j].term <= currentTerm'[j]
  <2>1. /\ disk[j].term \in Nat /\ currentTerm[j] \in Nat
        /\ disk[j].term <= currentTerm[j]
    BY DEF TypeOK, LogDurable
  <2>2. currentTerm'[j] = IF j = i THEN t ELSE currentTerm[j]
    BY DEF TypeOK
  <2> QED
    BY <2>1, <2>2
<1> QED
  BY <1>1 DEF LogDurable

LEMMA DurableStutter ==
    ASSUME LogDurable, UNCHANGED <<currentTerm, log, disk>>
    PROVE  LogDurable'
BY DEF LogDurable

\* The handlers of calls and of returns.
LEMMA DurableReceive ==
    ASSUME TypeOK, LogDurable, NEW i \in Server, NEW m \in DOMAIN net, Receive(i, m)
    PROVE  LogDurable'
<1> USE DEF raftVars, diskVars
<1>t. m \in Message /\ currentTerm[i] \in Nat /\ log[i] \in Seq(Entry)
  BY DEF TypeOK
<1>s. log = [log EXCEPT ![i] = log[i]]
  BY DEF TypeOK
<1>1. CASE RequestVote(i, m)
  <2>0. m.type = "RequestVote"
    BY <1>1 DEF RequestVote
  <2>m. m.term \in Nat
    BY <1>t, <2>0 DEF Message
  <2>1. UNCHANGED <<log, disk>>
    BY <1>1 DEF RequestVote
  <2>2. CASE m.term < currentTerm[i]
    <3>1. UNCHANGED currentTerm
      BY <1>1, <2>2, <2>m, <1>t DEF RequestVote
    <3> QED
      BY <2>1, <3>1, DurableStutter
  <2>3. CASE m.term >= currentTerm[i]
    <3>1. currentTerm' = [currentTerm EXCEPT ![i] = m.term]
      BY <1>1, <2>3, <2>m, <1>t DEF RequestVote
    <3> QED
      BY <1>t, <2>m, <2>1, <2>3, <3>1, DurableLag
  <2> QED
    BY <1>t, <2>m, <2>2, <2>3
<1>2. CASE sendRequestVote(i, m)
  <2>0. m.type = "RequestVoteReply"
    BY <1>2 DEF sendRequestVote
  <2>m. m.term \in Nat
    BY <1>t, <2>0 DEF Message
  <2>1. \/ UNCHANGED <<currentTerm, log, disk>>
        \/ /\ m.term > currentTerm[i]
           /\ currentTerm' = [currentTerm EXCEPT ![i] = m.term]
           /\ UNCHANGED <<log, disk>>
        \/ /\ persist(i, currentTerm[i], log[i])
           /\ UNCHANGED <<currentTerm, log>>
    BY <1>2 DEF sendRequestVote, WinElection
  <2> QED
    BY <1>t, <2>m, <2>1, DurableStutter, DurableLag, DurableSame
<1>3. CASE AppendEntries(i, m)
  <2>0. m.type = "AppendEntries"
    BY <1>3 DEF AppendEntries
  <2>m. m.term \in Nat
    BY <1>t, <2>0 DEF Message
  <2>1. \/ UNCHANGED <<currentTerm, log, disk>>
        \/ /\ m.term >= currentTerm[i]
           /\ currentTerm' = [currentTerm EXCEPT ![i] = m.term]
           /\ UNCHANGED <<log, disk>>
        \/ /\ currentTerm' = [currentTerm EXCEPT ![i] = m.term]
           /\ log' = [log EXCEPT ![i] = Spliced(log[i], m)]
           /\ persist(i, m.term, Spliced(log[i], m))
    BY <1>3 DEF AppendEntries, AcceptEntries
  <2> QED
    BY <1>t, <2>m, <2>1, DurableStutter, DurableLag, DurableSave
<1>4. CASE sendAppendEntries(i, m)
  <2>0. m.type = "AppendEntriesReply"
    BY <1>4 DEF sendAppendEntries
  <2>m. m.term \in Nat
    BY <1>t, <2>0 DEF Message
  <2>1. \/ UNCHANGED <<currentTerm, log, disk>>
        \/ /\ currentTerm' = [currentTerm EXCEPT ![i] = m.term]
           /\ log' = log
           /\ persist(i, m.term, log[i])
    BY <1>4 DEF sendAppendEntries
  <2> QED
    BY <1>s, <2>m, <2>1, DurableStutter, DurableSave
<1> QED
  BY <1>1, <1>2, <1>3, <1>4 DEF Receive

\* The ticker, the goroutines, the service, a restart and a lost message.
LEMMA DurableLocal ==
    ASSUME TypeOK, LogDurable, NEW i \in Server,
           \/ ElectionGoroutine(i) \/ broadcastHeartbeat(i) \/ LeaderPersist(i) \/ Apply(i)
           \/ Ticker(i) \/ (\E c \in Command : Start(i, c)) \/ Restart(i)
    PROVE  LogDurable'
<1> USE DEF raftVars, diskVars
<1>t. currentTerm[i] \in Nat /\ currentTerm[i] + 1 \in Nat
  BY DEF TypeOK
<1>s. /\ log = [log EXCEPT ![i] = log[i]]
      /\ currentTerm = [currentTerm EXCEPT ![i] = currentTerm[i]]
  BY DEF TypeOK
<1>1. CASE ElectionGoroutine(i) \/ broadcastHeartbeat(i) \/ Apply(i)
  BY <1>1, DurableStutter DEF ElectionGoroutine, broadcastHeartbeat, Apply
<1>2. CASE LeaderPersist(i)
  BY <1>2, DurableSame DEF LeaderPersist
<1>3. CASE Ticker(i)
  <2>1. CASE FollowerTimeout(i)
    BY <2>1, DurableSame DEF FollowerTimeout
  <2>2. CASE TickCandidate(i)
    <3>1. /\ currentTerm' = [currentTerm EXCEPT ![i] = currentTerm[i] + 1]
          /\ log' = [log EXCEPT ![i] = log[i]]
          /\ persist(i, currentTerm[i] + 1, log[i])
      BY <1>s, <2>2 DEF TickCandidate
    <3> QED
      BY <1>t, <3>1, DurableSave
  <2>3. CASE CandidateWin(i) \/ CandidateBackOff(i) \/ TickLeader(i)
    BY <2>3, DurableStutter DEF CandidateWin, CandidateBackOff, TickLeader
  <2> QED
    BY <1>3, <2>1, <2>2, <2>3 DEF Ticker
<1>4. ASSUME NEW c \in Command, Start(i, c)
      PROVE  LogDurable'
  <2> DEFINE new == Append(log[i], [term |-> currentTerm[i], cmd |-> c])
  <2>1. /\ log' = [log EXCEPT ![i] = new]
        /\ persist(i, currentTerm[i], new)
        /\ currentTerm' = [currentTerm EXCEPT ![i] = currentTerm[i]]
    BY <1>s, <1>4 DEF Start
  <2> HIDE DEF new
  <2> QED
    BY <1>t, <2>1, DurableSave
<1>5. CASE Restart(i)
  <2>1. ASSUME NEW j \in Server
        PROVE  disk[j].log = log'[j] /\ disk[j].term <= currentTerm'[j]
    <3>1. CASE j = i
      <4>1. log'[i] = disk[i].log /\ currentTerm'[i] = disk[i].term /\ disk[i].term \in Nat
        BY <1>5 DEF TypeOK, Restart, readPersist
      <4> QED
        BY <3>1, <4>1
    <3>2. CASE j # i
      <4>1. log'[j] = log[j] /\ currentTerm'[j] = currentTerm[j]
        BY <1>5, <3>2 DEF TypeOK, Restart, readPersist
      <4> QED
        BY <4>1 DEF LogDurable
    <3> QED
      BY <3>1, <3>2
  <2>2. disk' = disk
    BY <1>5 DEF Restart, readPersist
  <2> QED
    BY <2>1, <2>2 DEF LogDurable
<1> QED
  BY <1>1, <1>2, <1>3, <1>4, <1>5

LEMMA DurableNext == TypeOK /\ LogDurable /\ [Next]_vars => LogDurable'
<1> SUFFICES ASSUME TypeOK, LogDurable, [Next]_vars PROVE LogDurable'
  OBVIOUS
<1>1. CASE UNCHANGED vars
  BY <1>1, DurableStutter DEF vars, raftVars, diskVars
<1>2. ASSUME NEW i \in Server,
             \/ ElectionGoroutine(i) \/ broadcastHeartbeat(i) \/ LeaderPersist(i) \/ Apply(i)
             \/ Ticker(i) \/ (\E c \in Command : Start(i, c)) \/ Restart(i)
      PROVE  LogDurable'
  BY <1>2, DurableLocal
<1>3. ASSUME NEW i \in Server, NEW m \in DOMAIN net, Receive(i, m)
      PROVE  LogDurable'
  BY <1>3, DurableReceive
<1>4. ASSUME NEW m \in DOMAIN net, Lose(m)
      PROVE  LogDurable'
  BY <1>4, DurableStutter DEF Lose, raftVars, diskVars
<1>5. ASSUME NEW m \in DOMAIN net, SendCopy(m)
      PROVE  LogDurable'
  BY <1>5, DurableStutter DEF SendCopy, raftVars, diskVars
<1> QED
  BY <1>1, <1>2, <1>3, <1>4, <1>5 DEF Next, Step

\* A crash between any two critical sections of raft.go loses no log entry: whatever the
\* schedule, the losses and the number of restarts, each server's Persister holds its
\* log, and a term that is not ahead of the server's.
THEOREM LogSaved == Spec => []LogDurable
<1>1. Init => LogDurable
  BY DEF Init, LogDurable, Saved
<1> QED
  BY <1>1, TypeCorrect, DurableNext, PTL DEF Spec

-------------------------------------------------------------------------------------
(***********************************************************************************)
(* What elections and logs guarantee in clusters of any size, for any number of      *)
(* terms and entries, with calls that are lost, delayed and overtake each other.     *)
(*                                                                                 *)
(* raft.go gives these guarantees only under conditions, which the violation runs    *)
(* and README.md are about: the election goroutine gets the lock before anything     *)
(* else happens to its server, no restart forgets a vote and, for the logs, a call   *)
(* of AppendEntries copies its entries before they are overwritten.                  *)
(***********************************************************************************)

\* A server that restarts has not voted in its term, and its term is saved.
SurvivesStep ==
    \A i \in Server : restarts'[i] # restarts[i] =>
        votedFor[i] = Nil /\ disk[i].term = currentTerm[i]
VotesSurvive == [][SurvivesStep]_vars

\* No step writes other entries under the slice of a call that has yet to be copied.
CopyStep ==
    \A i \in Server : restarts'[i] = restarts[i] =>
        \A m \in DOMAIN net : Waits(i, m) => Shown(m, log'[i]) = m
CopiesInTime == [][CopyStep]_vars

-------------------------------------------------------------------------------------
(* The votes. votes[t][j] is who j voted for in term t: the model forgets it when j  *)
(* moves on, so the invariant says that such a history exists.                       *)

IsVote(m) == m.type \in {"RequestVote", "RequestVoteReply"}
CandidateOf(m) == IF m.type = "RequestVote" THEN m.from ELSE m.to
VoterOf(m) == IF m.type = "RequestVote" THEN m.to ELSE m.from
TermOf(m) == IF m.type = "RequestVote" THEN m.term ELSE m.argTerm

History == [Nat -> [Server -> Server \cup {Nil}]]
Voters(votes, t, i) == {j \in Server : votes[t][j] = i}

\* The history has the present votes and no future ones; nobody stands for term 0.
RecordsVotes(votes) ==
    /\ votes \in History
    /\ \A j \in Server : votes[0][j] = Nil
    /\ \A j \in Server : votes[currentTerm[j]][j] = votedFor[j]
    /\ \A j \in Server : \A t \in Nat : t > currentTerm[j] => votes[t][j] = Nil

\* A vote is asked for once per voter, in a term that the candidate has opened.
Asked(votes, m) ==
    /\ VoterOf(m) # CandidateOf(m)
    /\ TermOf(m) <= currentTerm[CandidateOf(m)]
    /\ electing[CandidateOf(m)] > 0 => TermOf(m) # currentTerm[CandidateOf(m)]
    /\ votes[TermOf(m)][CandidateOf(m)] = CandidateOf(m)
    /\ m.type = "RequestVoteReply" /\ m.granted => votes[TermOf(m)][VoterOf(m)] = CandidateOf(m)
SameVote(m, n) ==
    CandidateOf(m) = CandidateOf(n) /\ VoterOf(m) = VoterOf(n) /\ TermOf(m) = TermOf(n)
VotesAsked(votes) ==
    /\ \A m \in DOMAIN net : IsVote(m) => net[m] = 1 /\ Asked(votes, m)
    /\ \A m, n \in DOMAIN net : IsVote(m) /\ IsVote(n) /\ SameVote(m, n) => m = n

\* The goroutine of an opened term has yet to ask.
OpenedOnce ==
    \A i \in Server : electing[i] > 0 =>
        electing[i] = 1 /\ votedFor[i] = i /\ numVotesReceived[i] = 1

\* The voters of i in its term whose answer is not on its way: a candidate has counted
\* no more than those.
Answered(votes, i) ==
    {j \in Voters(votes, currentTerm[i], i) :
        \A m \in DOMAIN net : IsVote(m) =>
            ~(CandidateOf(m) = i /\ VoterOf(m) = j /\ TermOf(m) = currentTerm[i])}
CountsVoters(votes) ==
    \A i \in Server :
        votedFor[i] = i => numVotesReceived[i] <= Cardinality(Answered(votes, i))

LeadersElected(votes) ==
    \A i \in Server : state[i] = LEADER =>
        votedFor[i] = i /\ Majority(Cardinality(Voters(votes, currentTerm[i], i)))

VoteInv(votes) ==
    /\ RecordsVotes(votes) /\ VotesAsked(votes) /\ OpenedOnce
    /\ CountsVoters(votes) /\ LeadersElected(votes)

-------------------------------------------------------------------------------------
(* The logs. won[t] is the leader of term t, master[t] its log when it last led in t. *)

\* Every entry is in the master log of its term, with the same past.
Derived(l, won, master) ==
    \A k \in 1 .. Len(l) :
        /\ won[l[k].term] # Nil /\ k <= Len(master[l[k].term])
        /\ \A x \in 1 .. k : master[l[k].term][x] = l[x] /\ l[x].term <= l[k].term

\* A term has one leader, whose log is the master log.
OneWinner(votes, won, master) ==
    /\ won \in [Nat -> Server \cup {Nil}] /\ master \in [Nat -> Seq(Entry)]
    /\ won[0] = Nil
    /\ \A t \in Nat : won[t] # Nil =>
        t <= currentTerm[won[t]] /\ Majority(Cardinality(Voters(votes, t, won[t])))
    /\ \A i \in Server : state[i] = LEADER => won[currentTerm[i]] = i
    /\ \A i \in Server : won[currentTerm[i]] = i => master[currentTerm[i]] = log[i]

LogsDerived(won, master) ==
    /\ \A t \in Nat :
        /\ Derived(master[t], won, master)
        /\ \A k \in 1 .. Len(master[t]) : master[t][k].term <= t
    /\ \A i \in Server :
        /\ Derived(log[i], won, master)
        /\ \A k \in 1 .. Len(log[i]) : log[i][k].term <= disk[i].term

\* A call carries a part of the master log of its term.
CallDerived(m, won, master) ==
    /\ won[m.term] = m.from /\ m.from # m.to
    /\ m.prevIdx + Len(m.entries) <= Len(master[m.term])
    /\ m.prevTerm = TermAt(master[m.term], m.prevIdx)
    /\ \A x \in 1 .. Len(m.entries) : m.entries[x] = master[m.term][m.prevIdx + x]
CallsDerived(won, master) ==
    \A m \in DOMAIN net : m.type = "AppendEntries" => CallDerived(m, won, master)

\* A return that counts points into the master log.
ReturnInRange(m, won, master) ==
    /\ won[m.argTerm] = m.to
    /\ m.success => m.last <= Len(master[m.argTerm])
    /\ ~m.success /\ m.term <= m.argTerm =>
        m.nextTry >= 1 /\ m.nextTry <= Len(master[m.argTerm])
ReturnsInRange(won, master) ==
    \A m \in DOMAIN net : m.type = "AppendEntriesReply" => ReturnInRange(m, won, master)

LogInv(votes, won, master) ==
    /\ OneWinner(votes, won, master) /\ LogsDerived(won, master)
    /\ CallsDerived(won, master) /\ ReturnsInRange(won, master)
    /\ NextInRange

-------------------------------------------------------------------------------------
(* The network, counted.                                                             *)

LEMMA SendCount ==
    ASSUME NEW B, IsABag(B), NEW S
    PROVE  /\ \A x \in DOMAIN B : x \notin S => Send(B, S)[x] = B[x]
           /\ \A x \in S : x \notin DOMAIN B => Send(B, S)[x] = 1
BY DEF IsABag, Send, SetToBag, (+)

LEMMA DropCount ==
    ASSUME NEW B, IsABag(B), NEW m
    PROVE  /\ \A x \in DOMAIN Drop(B, m) : x # m => x \in DOMAIN B /\ Drop(B, m)[x] = B[x]
           /\ \A x \in DOMAIN B : x # m => x \in DOMAIN Drop(B, m)
           /\ m \in DOMAIN B /\ B[m] = 1 => m \notin DOMAIN Drop(B, m)
BY DEF IsABag, Drop, SetToBag, (-)

\* A handler takes the call, which is there once, and leaves its return.
LEMMA ReplyCount ==
    ASSUME IsABag(net), NEW m \in DOMAIN net, net[m] = 1, NEW r, r \notin DOMAIN net,
           net' = Send(Drop(net, m), {r})
    PROVE  /\ DOMAIN net' = (DOMAIN net \ {m}) \cup {r} /\ net'[r] = 1
           /\ \A x \in DOMAIN net \ {m} : net'[x] = net[x]
<1> DEFINE D == Drop(net, m)
<1>1. IsABag(D) /\ DOMAIN D = DOMAIN net \ {m} /\ \A x \in DOMAIN D : D[x] = net[x]
    BY DropBag, DropCount
<1>2. r \notin DOMAIN D
    BY <1>1
<1> HIDE DEF D
<1>3. DOMAIN Send(D, {r}) = DOMAIN D \cup {r}
    BY <1>1, SendBag
<1>4. Send(D, {r})[r] = 1 /\ \A x \in DOMAIN D : x # r => Send(D, {r})[x] = D[x]
    BY <1>1, <1>2, SendCount
<1> QED
    BY <1>1, <1>2, <1>3, <1>4 DEF D

-------------------------------------------------------------------------------------
(* Votes are kept.                                                                   *)

\* A vote, once given, stays in the history.
Grows(votes, new) ==
    /\ votes \in History /\ new \in History
    /\ \A t \in Nat : \A j \in Server : votes[t][j] # Nil => new[t][j] = votes[t][j]

\* A step adds votes only in the term its voter is in afterwards.
VotesNow(votes, new) ==
    \A u \in Nat : \A j \in Server : new[u][j] # votes[u][j] => u = currentTerm'[j]

LEMMA VoteTyped ==
    ASSUME NEW m \in Message, IsVote(m)
    PROVE  /\ CandidateOf(m) \in Server /\ VoterOf(m) \in Server /\ TermOf(m) \in Nat
           /\ m.type = "RequestVote" => m.from = CandidateOf(m) /\ m.to = VoterOf(m)
                                        /\ m.term = TermOf(m)
           /\ m.type # "RequestVote" => m.to = CandidateOf(m) /\ m.from = VoterOf(m)
                                        /\ m.argTerm = TermOf(m)
BY DEF IsVote, CandidateOf, VoterOf, TermOf, Message

LEMMA VotersGrow ==
    ASSUME NEW votes, NEW new, Grows(votes, new), NEW t \in Nat, NEW i \in Server
    PROVE  /\ Voters(votes, t, i) \subseteq Voters(new, t, i)
           /\ IsFiniteSet(Voters(new, t, i)) /\ IsFiniteSet(Voters(votes, t, i))
           /\ Cardinality(Voters(votes, t, i)) <= Cardinality(Voters(new, t, i))
           /\ Cardinality(Voters(votes, t, i)) \in Nat /\ Cardinality(Voters(new, t, i)) \in Nat
<1>1. Voters(votes, t, i) \subseteq Voters(new, t, i)
    BY NilAssumption DEF Grows, Voters
<1>2. IsFiniteSet(Voters(new, t, i))
    BY ServerAssumption, FS_Subset DEF Voters
<1> QED
    BY <1>1, <1>2, FS_Subset, FS_CardinalityType

\* More votes do not unmake a majority.
LEMMA MajorityGrows ==
    ASSUME NEW a \in Nat, NEW b \in Nat, a <= b, Majority(a) PROVE Majority(b)
<1>1. Cardinality(Server) \in Nat
    BY ServerAssumption, FS_CardinalityType
<1> QED
    BY <1>1 DEF Majority

\* A server that leads on in its term keeps its voters.
LEMMA LeaderKept ==
    ASSUME TypeOK, NEW votes, NEW new, Grows(votes, new), LeadersElected(votes), NEW i \in Server,
           state[i] = LEADER, currentTerm'[i] = currentTerm[i], votedFor'[i] = votedFor[i]
    PROVE  votedFor'[i] = i /\ Majority(Cardinality(Voters(new, currentTerm'[i], i)))
<1>1. currentTerm[i] \in Nat
    BY DEF TypeOK
<1>2. votedFor[i] = i /\ Majority(Cardinality(Voters(votes, currentTerm[i], i)))
    BY DEF LeadersElected
<1>3. Majority(Cardinality(Voters(new, currentTerm[i], i)))
    BY <1>1, <1>2, VotersGrow, MajorityGrows
<1> QED
    BY <1>2, <1>3

\* A candidate's count is kept while its term and its vote are, and no vote is asked for
\* again.
LEMMA CountKept ==
    ASSUME TypeOK, NEW votes, NEW new, Grows(votes, new), CountsVoters(votes), NEW i \in Server,
           votedFor'[i] = i =>
                /\ votedFor[i] = i /\ currentTerm'[i] = currentTerm[i]
                /\ numVotesReceived'[i] \in Nat /\ numVotesReceived'[i] <= numVotesReceived[i],
           \A m \in DOMAIN net' : IsVote(m) /\ CandidateOf(m) = i =>
                \E n \in DOMAIN net : IsVote(n) /\ SameVote(m, n)
    PROVE  votedFor'[i] = i => numVotesReceived'[i] <= Cardinality(Answered(new, i)')
<1> SUFFICES ASSUME votedFor'[i] = i
             PROVE  numVotesReceived'[i] <= Cardinality(Answered(new, i)')
    OBVIOUS
<1>1. currentTerm[i] \in Nat /\ numVotesReceived[i] \in Nat
    BY DEF TypeOK
<1>2. Answered(votes, i) \subseteq Answered(new, i)'
    <2> SUFFICES ASSUME NEW j \in Answered(votes, i) PROVE j \in Answered(new, i)'
        OBVIOUS
    <2>1. j \in Voters(new, currentTerm'[i], i)
        BY <1>1, VotersGrow DEF Answered
    <2>2. \A m \in DOMAIN net' : IsVote(m) =>
                ~(CandidateOf(m) = i /\ VoterOf(m) = j /\ TermOf(m) = currentTerm'[i])
        BY DEF Answered, SameVote
    <2> QED
        BY <2>1, <2>2 DEF Answered, Voters, IsVote, CandidateOf, VoterOf, TermOf
<1>3. IsFiniteSet(Answered(new, i)')
    BY ServerAssumption, FS_Subset DEF Answered, Voters
<1>4. /\ Cardinality(Answered(votes, i)) <= Cardinality(Answered(new, i)')
      /\ Cardinality(Answered(votes, i)) \in Nat /\ Cardinality(Answered(new, i)') \in Nat
    BY <1>2, <1>3, FS_Subset, FS_CardinalityType
<1>5. numVotesReceived[i] <= Cardinality(Answered(votes, i))
    BY DEF CountsVoters
<1> QED
    BY <1>1, <1>4, <1>5

\* A candidate has its own vote, for which it asks nobody.
LEMMA OwnVote ==
    ASSUME NEW votes, VotesAsked(votes)', NEW i \in Server, votes[currentTerm'[i]][i] = i
    PROVE  1 <= Cardinality(Answered(votes, i)')
<1>1. \A m \in DOMAIN net' : IsVote(m) => VoterOf(m) # CandidateOf(m)
    BY DEF VotesAsked, Asked, IsVote, VoterOf, CandidateOf
<1>2. i \in Answered(votes, i)'
    BY <1>1 DEF Answered, Voters, IsVote, VoterOf, CandidateOf
<1>3. IsFiniteSet(Answered(votes, i)')
    BY ServerAssumption, FS_Subset DEF Answered, Voters
<1>4. Cardinality(Answered(votes, i)') \in Nat /\ Cardinality(Answered(votes, i)') # 0
    BY <1>2, <1>3, FS_CardinalityType, FS_EmptySet
<1> QED
    BY <1>4

\* A vote that was asked for stays so while terms grow.
LEMMA AskedKept ==
    ASSUME TypeOK, TypeOK', NEW votes, NEW new, Grows(votes, new), NEW m \in DOMAIN net, IsVote(m),
           Asked(votes, m),
           \A i \in Server :
                /\ currentTerm[i] <= currentTerm'[i]
                /\ electing'[i] > 0 => electing[i] > 0 \/ currentTerm[i] < currentTerm'[i]
    PROVE  Asked(new, m)'
<1> DEFINE c == CandidateOf(m)
           v == VoterOf(m)
           t == TermOf(m)
<1>1. c \in Server /\ v \in Server /\ t \in Nat
    BY VoteTyped DEF TypeOK
<1>2. currentTerm[c] \in Nat /\ currentTerm'[c] \in Nat /\ currentTerm[c] <= currentTerm'[c]
    BY <1>1 DEF TypeOK
<1>3. v # c /\ t <= currentTerm[c] /\ votes[t][c] = c
    BY DEF Asked
<1>4. new[t][c] = c
    BY <1>1, <1>3, NilAssumption DEF Grows
<1>5. m.type = "RequestVoteReply" /\ m.granted => new[t][v] = c
    <2>1. m.type = "RequestVoteReply" /\ m.granted => votes[t][v] = c
        BY DEF Asked
    <2> QED
        BY <1>1, <2>1, NilAssumption DEF Grows
<1>6. electing'[c] > 0 => t # currentTerm'[c]
    BY <1>1, <1>2, <1>3 DEF Asked
<1> QED
    BY <1>1, <1>2, <1>3, <1>4, <1>5, <1>6 DEF Asked

\* A step that asks for no vote and gives none: a server moves to a later term without a
\* vote and without leading, or keeps its term and its vote.
LEMMA VotesFrame ==
    ASSUME TypeOK, TypeOK', NEW votes, VoteInv(votes),
           \A m \in DOMAIN net' : IsVote(m) => m \in DOMAIN net /\ net'[m] = net[m],
           \A i \in Server :
                /\ electing'[i] > 0 =>
                    /\ electing'[i] = electing[i] /\ numVotesReceived'[i] = numVotesReceived[i]
                    /\ currentTerm'[i] = currentTerm[i]
                /\ numVotesReceived'[i] <= numVotesReceived[i]
                /\ \/ /\ currentTerm'[i] > currentTerm[i] /\ votedFor'[i] = Nil
                      /\ state'[i] # LEADER
                   \/ /\ currentTerm'[i] = currentTerm[i] /\ votedFor'[i] = votedFor[i]
                      /\ state'[i] = LEADER => state[i] = LEADER
    PROVE  VoteInv(votes)'
<1>t. /\ currentTerm \in [Server -> Nat] /\ currentTerm' \in [Server -> Nat]
      /\ DOMAIN net \subseteq Message /\ votes \in History /\ Grows(votes, votes)
      /\ \A i \in Server : numVotesReceived'[i] \in Nat
    BY DEF TypeOK, VoteInv, RecordsVotes, Grows
<1>1. RecordsVotes(votes)'
    BY <1>t DEF VoteInv, RecordsVotes
<1>2. VotesAsked(votes)'
    <2>1. ASSUME NEW m \in DOMAIN net', IsVote(m) PROVE net'[m] = 1 /\ Asked(votes, m)'
        <3>1. m \in DOMAIN net /\ net'[m] = 1 /\ Asked(votes, m)
            BY <2>1 DEF VoteInv, VotesAsked
        <3>2. \A i \in Server : /\ currentTerm[i] <= currentTerm'[i]
                                /\ electing'[i] > 0 => electing[i] > 0
            BY <1>t
        <3> QED
            BY <1>t, <2>1, <3>1, <3>2, AskedKept
    <2>2. \A m, n \in DOMAIN net' : IsVote(m) /\ IsVote(n) /\ SameVote(m, n) => m = n
        BY DEF VoteInv, VotesAsked
    <2> QED
        BY <2>1, <2>2 DEF VotesAsked, IsVote, SameVote, CandidateOf, VoterOf, TermOf
<1>3. OpenedOnce'
    BY <1>t DEF VoteInv, OpenedOnce
<1>4. CountsVoters(votes)'
    <2> SUFFICES ASSUME NEW i \in Server
                 PROVE  votedFor'[i] = i => numVotesReceived'[i] <= Cardinality(Answered(votes, i)')
        BY DEF CountsVoters
    <2>1. votedFor'[i] = i => votedFor[i] = i /\ currentTerm'[i] = currentTerm[i]
        BY NilAssumption
    <2>2. \A m \in DOMAIN net' : IsVote(m) => \E n \in DOMAIN net : IsVote(n) /\ SameVote(m, n)
        BY DEF SameVote
    <2>3. CountsVoters(votes)
        BY DEF VoteInv
    <2> QED
        BY <1>t, <2>1, <2>2, <2>3, CountKept
<1>5. LeadersElected(votes)'
    <2>1. LeadersElected(votes)
        BY DEF VoteInv
    <2> SUFFICES ASSUME NEW i \in Server, state'[i] = LEADER
                 PROVE  votedFor'[i] = i /\ Majority(Cardinality(Voters(votes, currentTerm'[i], i)))
        BY DEF LeadersElected, Majority, Voters
    <2> QED
        BY <1>t, <2>1, LeaderKept
<1> QED
    BY <1>1, <1>2, <1>3, <1>4, <1>5 DEF VoteInv

-------------------------------------------------------------------------------------
(* The steps that give no vote.                                                      *)

\* The votes on their way in C are on their way in B.
NoNewVotes(B, C) == \A x \in DOMAIN C : IsVote(x) => x \in DOMAIN B /\ C[x] = B[x]

LEMMA NoVoteSent ==
    ASSUME NEW B, IsABag(B), NEW S, \A x \in S : ~IsVote(x)
    PROVE  NoNewVotes(B, Send(B, S))
<1>1. DOMAIN Send(B, S) = DOMAIN B \cup S
    BY SendBag
<1> SUFFICES ASSUME NEW x \in DOMAIN Send(B, S), IsVote(x)
             PROVE  x \in DOMAIN B /\ Send(B, S)[x] = B[x]
    BY DEF NoNewVotes
<1>2. x \notin S
    OBVIOUS
<1>3. x \in DOMAIN B
    BY <1>1, <1>2
<1>4. Send(B, S)[x] = B[x]
    BY <1>2, <1>3, SendCount
<1> QED
    BY <1>3, <1>4

LEMMA VoteDropped ==
    ASSUME NEW B, IsABag(B), NEW m, \A x \in DOMAIN B : IsVote(x) => B[x] = 1
    PROVE  NoNewVotes(B, Drop(B, m))
BY DropBag, DropCount DEF NoNewVotes

LEMMA NoVoteReplied ==
    ASSUME NEW B, IsABag(B), NEW m, \A x \in DOMAIN B : IsVote(x) => B[x] = 1,
           NEW r, ~IsVote(r)
    PROVE  NoNewVotes(B, Send(Drop(B, m), {r}))
<1>1. IsABag(Drop(B, m)) /\ NoNewVotes(B, Drop(B, m))
    BY DropBag, VoteDropped
<1> DEFINE D == Drop(B, m)
<1> HIDE DEF D
<1>2. NoNewVotes(D, Send(D, {r}))
    BY <1>1, NoVoteSent DEF D
<1> QED
    BY <1>1, <1>2 DEF NoNewVotes, D

\* Rewriting slices touches no vote.
LEMMA NoVoteOverwritten ==
    ASSUME NEW B, DOMAIN B \subseteq Message, NEW i, NEW l
    PROVE  NoNewVotes(B, Overwritten(B, i, l))
<1> DEFINE at(m) == IF Waits(i, m) THEN Shown(m, l) ELSE m
           F == Overwritten(B, i, l)
<1>1. F = [x \in {at(m) : m \in DOMAIN B} |-> B[CHOOSE m \in DOMAIN B : at(m) = x]]
    BY DEF Overwritten
<1>2. ASSUME NEW m \in DOMAIN B, IsVote(at(m))
      PROVE  at(m) = m
    <2>1. CASE Waits(i, m)
        <3>1. m \in Message /\ m.type = "AppendEntries"
            BY <2>1 DEF Waits
        <3>2. Shown(m, l).type = "AppendEntries"
            BY <3>1 DEF Shown, Message
        <3> QED
            BY <1>2, <2>1, <3>2 DEF IsVote
    <2>2. CASE ~Waits(i, m)
        BY <2>2
    <2> QED
        BY <2>1, <2>2
<1> HIDE DEF at, F
<1>3. ASSUME NEW x \in DOMAIN F, IsVote(x)
      PROVE  x \in DOMAIN B /\ F[x] = B[x]
    <2>1. \E m \in DOMAIN B : at(m) = x
        BY <1>1
    <2> DEFINE c == CHOOSE m \in DOMAIN B : at(m) = x
    <2>2. c \in DOMAIN B /\ at(c) = x
        BY <2>1
    <2>3. F[x] = B[c]
        BY <1>1, <2>1
    <2> HIDE DEF c
    <2>4. c = x
        BY <1>2, <1>3, <2>2
    <2> QED
        BY <2>2, <2>3, <2>4
<1> QED
    BY <1>3 DEF NoNewVotes, F

\* The ticker, the apply and broadcast goroutines, the service and the network.
LEMMA VotesLocal ==
    ASSUME TypeOK, TypeOK', NEW votes, VoteInv(votes),
           \/ \E i \in Server : \/ FollowerTimeout(i) \/ CandidateWin(i) \/ CandidateBackOff(i)
                                \/ TickLeader(i) \/ LeaderPersist(i) \/ Apply(i)
                                \/ broadcastHeartbeat(i)
                                \/ \E c \in Command : Start(i, c)
           \/ \E m \in DOMAIN net : Lose(m) \/ SendCopy(m)
           \/ UNCHANGED vars
    PROVE  VoteInv(votes)'
<1> USE DEF raftVars, tickVars
<1>t. /\ IsABag(net) /\ DOMAIN net \subseteq Message
      /\ \A x \in DOMAIN net : IsVote(x) => net[x] = 1
      /\ state \in [Server -> {FOLLOWER, CANDIDATE, LEADER}]
      /\ \A i \in Server : numVotesReceived[i] \in Nat
    BY DEF TypeOK, VoteInv, VotesAsked
<1>1. UNCHANGED <<currentTerm, votedFor, numVotesReceived, electing>>
    BY DEF FollowerTimeout, CandidateWin, CandidateBackOff, TickLeader, LeaderPersist, Apply,
           broadcastHeartbeat, Start, Lose, SendCopy, vars
<1>2. \A i \in Server : state'[i] = LEADER => state[i] = LEADER
    BY <1>t DEF FollowerTimeout, CandidateWin, CandidateBackOff, TickLeader, LeaderPersist, Apply,
           broadcastHeartbeat, Start, Lose, SendCopy, vars, FOLLOWER, CANDIDATE, LEADER
<1>3. NoNewVotes(net, net')
    <2>1. CASE net' = net
        BY <2>1 DEF NoNewVotes
    <2>2. ASSUME NEW m, Lose(m) PROVE NoNewVotes(net, net')
        BY <1>t, <2>2, VoteDropped DEF Lose
    <2>3. ASSUME NEW i \in Server, broadcastHeartbeat(i) PROVE NoNewVotes(net, net')
        <3> DEFINE peers == {j \in Others(i) : state[i] = LEADER /\ nextIdx[i][j] > 0}
                   S == {AppendCall(i, j) : j \in peers}
        <3>1. net' = Send(net, S)
            BY <2>3 DEF broadcastHeartbeat
        <3>2. \A x \in S : ~IsVote(x)
            BY DEF AppendCall, IsVote
        <3> HIDE DEF S
        <3> QED
            BY <1>t, <3>1, <3>2, NoVoteSent
    <2>4. ASSUME NEW i \in Server, NEW c \in Command, Start(i, c) PROVE NoNewVotes(net, net')
        <3>1. PICK l : net' = Overwritten(net, i, l)
            BY <2>4 DEF Start
        <3> QED
            BY <1>t, <3>1, NoVoteOverwritten
    <2>5. ASSUME NEW m \in DOMAIN net, SendCopy(m) PROVE NoNewVotes(net, net')
        <3> DEFINE r == [m EXCEPT !.copied = TRUE]
        <3>1. net' = Send(Drop(net, m), {r}) /\ m.type = "AppendEntries" /\ m \in Message
            BY <1>t, <2>5 DEF SendCopy
        <3>2. ~IsVote(r)
            BY <3>1 DEF Message, IsVote
        <3> HIDE DEF r
        <3> QED
            BY <1>t, <3>1, <3>2, NoVoteReplied
    <2> QED
        BY <2>1, <2>2, <2>3, <2>4, <2>5
        DEF FollowerTimeout, CandidateWin, CandidateBackOff, TickLeader, LeaderPersist, Apply, vars
<1>4. /\ \A m \in DOMAIN net' : IsVote(m) => m \in DOMAIN net /\ net'[m] = net[m]
    BY <1>3 DEF NoNewVotes
<1> QED
    BY <1>t, <1>1, <1>2, <1>4, VotesFrame

\* A restart that forgets no vote.
LEMMA VotesRestart ==
    ASSUME TypeOK, TypeOK', NEW votes, VoteInv(votes), NEW i \in Server, Restart(i),
           votedFor[i] = Nil, disk[i].term = currentTerm[i]
    PROVE  VoteInv(votes)'
<1>1. /\ currentTerm' = [currentTerm EXCEPT ![i] = disk[i].term]
      /\ votedFor' = [votedFor EXCEPT ![i] = Nil] /\ state' = [state EXCEPT ![i] = FOLLOWER]
      /\ numVotesReceived' = [numVotesReceived EXCEPT ![i] = 0]
      /\ electing' = [electing EXCEPT ![i] = 0] /\ net' = net
    BY DEF Restart, readPersist
<1>2. ASSUME NEW j \in Server
      PROVE  /\ electing'[j] > 0 =>
                    /\ electing'[j] = electing[j] /\ numVotesReceived'[j] = numVotesReceived[j]
                    /\ currentTerm'[j] = currentTerm[j]
             /\ numVotesReceived'[j] <= numVotesReceived[j]
             /\ currentTerm'[j] = currentTerm[j] /\ votedFor'[j] = votedFor[j]
             /\ state'[j] = LEADER => state[j] = LEADER
    <2>1. numVotesReceived[j] \in Nat
        BY DEF TypeOK
    <2>2. CASE j = i
        BY <1>1, <2>1, <2>2 DEF TypeOK, FOLLOWER, LEADER
    <2>3. CASE j # i
        BY <1>1, <2>1, <2>3 DEF TypeOK
    <2> QED
        BY <2>2, <2>3
<1> QED
    BY <1>1, <1>2, VotesFrame

\* AppendEntries and its return give no vote.
LEMMA VotesAppend ==
    ASSUME TypeOK, TypeOK', NEW votes, VoteInv(votes), NEW i \in Server, NEW m \in DOMAIN net,
           AppendEntries(i, m) \/ sendAppendEntries(i, m), electing[i] = 0
    PROVE  VoteInv(votes)'
<1> USE DEF raftVars, tickVars
<1>t. /\ IsABag(net) /\ DOMAIN net \subseteq Message
      /\ \A x \in DOMAIN net : IsVote(x) => net[x] = 1
      /\ m \in Message /\ currentTerm[i] \in Nat
      /\ state \in [Server -> {FOLLOWER, CANDIDATE, LEADER}]
      /\ \A j \in Server : numVotesReceived[j] \in Nat
    BY DEF TypeOK, VoteInv, VotesAsked
<1>1. UNCHANGED <<numVotesReceived, electing>>
    BY DEF AppendEntries, sendAppendEntries
<1>2. NoNewVotes(net, net')
    <2>1. CASE AppendEntries(i, m)
        <3>1. PICK term, b, k :
                \/ net' = Send(Drop(net, m), {AppendReturn(m, term, b, k)})
                \/ \E l \in Seq(Entry) :
                    net' = Send(Drop(Overwritten(net, i, l), m), {AppendReturn(m, term, b, k)})
            <4>1. m.type = "AppendEntries" /\ log[i] \in Seq(Entry)
                BY <2>1 DEF AppendEntries, TypeOK
            <4>2. Matches(log[i], m) => Spliced(log[i], m) \in Seq(Entry)
                <5>1. m.entries \in Seq(Entry) /\ m.prevIdx \in Nat
                    BY <1>t, <4>1 DEF Message
                <5> QED
                    BY <4>1, <5>1, SplicedType DEF Matches
            <4> QED
                BY <2>1, <4>2 DEF AppendEntries
        <3>2. ~IsVote(AppendReturn(m, term, b, k))
            BY DEF AppendReturn, IsVote
        <3> DEFINE r == AppendReturn(m, term, b, k)
        <3> HIDE DEF r
        <3>3. CASE net' = Send(Drop(net, m), {r})
            BY <1>t, <3>2, <3>3, NoVoteReplied DEF r
        <3>4. ASSUME NEW l \in Seq(Entry), net' = Send(Drop(Overwritten(net, i, l), m), {r})
              PROVE  NoNewVotes(net, net')
            <4> DEFINE F == Overwritten(net, i, l)
            <4>1. IsABag(F) /\ NoNewVotes(net, F)
                BY <1>t, OverwrittenBag, NoVoteOverwritten
            <4> HIDE DEF F
            <4>2. NoNewVotes(F, Send(Drop(F, m), {r}))
                BY <1>t, <3>2, <4>1, NoVoteReplied DEF r, NoNewVotes
            <4> QED
                BY <3>4, <4>1, <4>2 DEF NoNewVotes, F
        <3> QED
            BY <3>1, <3>3, <3>4 DEF r
    <2>2. CASE sendAppendEntries(i, m)
        BY <1>t, <2>2, VoteDropped DEF sendAppendEntries
    <2> QED
        BY <2>1, <2>2
<1>3. \/ UNCHANGED <<currentTerm, votedFor, state>>
      \/ \E t \in Nat : /\ t > currentTerm[i] /\ currentTerm' = [currentTerm EXCEPT ![i] = t]
                        /\ votedFor' = [votedFor EXCEPT ![i] = Nil]
                        /\ state' = [state EXCEPT ![i] = FOLLOWER]
    <2>1. CASE AppendEntries(i, m)
        <3>1. m.type = "AppendEntries" /\ m.term \in Nat
            BY <1>t, <2>1 DEF AppendEntries, Message
        <3>2. CASE m.term > currentTerm[i]
            BY <1>t, <2>1, <3>1, <3>2 DEF AppendEntries
        <3>3. CASE m.term = currentTerm[i]
            <4>1. /\ currentTerm' = [currentTerm EXCEPT ![i] = currentTerm[i]]
                  /\ votedFor' = [votedFor EXCEPT ![i] = votedFor[i]]
                  /\ state' = [state EXCEPT ![i] = state[i]]
                BY <1>t, <2>1, <3>1, <3>3 DEF AppendEntries
            <4> QED
                BY <4>1 DEF TypeOK
        <3>4. CASE m.term < currentTerm[i]
            BY <1>t, <2>1, <3>1, <3>4 DEF AppendEntries
        <3> QED
            BY <1>t, <3>1, <3>2, <3>3, <3>4
    <2>2. CASE sendAppendEntries(i, m)
        <3>1. m.type = "AppendEntriesReply" /\ m.term \in Nat
            BY <1>t, <2>2 DEF sendAppendEntries, Message
        <3> QED
            BY <2>2, <3>1 DEF sendAppendEntries
    <2> QED
        BY <2>1, <2>2
<1>4. ASSUME NEW j \in Server
      PROVE  \/ /\ currentTerm'[j] > currentTerm[j] /\ votedFor'[j] = Nil
                /\ state'[j] # LEADER /\ electing[j] = 0
             \/ /\ currentTerm'[j] = currentTerm[j] /\ votedFor'[j] = votedFor[j]
                /\ state'[j] = LEADER => state[j] = LEADER
    <2>1. CASE UNCHANGED <<currentTerm, votedFor, state>>
        BY <2>1
    <2>2. CASE ~UNCHANGED <<currentTerm, votedFor, state>>
        <3>1. PICK t \in Nat :
                /\ t > currentTerm[i] /\ currentTerm' = [currentTerm EXCEPT ![i] = t]
                /\ votedFor' = [votedFor EXCEPT ![i] = Nil]
                /\ state' = [state EXCEPT ![i] = FOLLOWER]
            BY <1>3, <2>2
        <3>2. CASE j = i
            BY <3>1, <3>2 DEF TypeOK, FOLLOWER, LEADER
        <3>3. CASE j # i
            BY <3>1, <3>3 DEF TypeOK
        <3> QED
            BY <3>2, <3>3
    <2> QED
        BY <2>1, <2>2
<1>5. ASSUME NEW j \in Server
      PROVE  /\ electing'[j] > 0 =>
                    /\ electing'[j] = electing[j] /\ numVotesReceived'[j] = numVotesReceived[j]
                    /\ currentTerm'[j] = currentTerm[j]
             /\ numVotesReceived'[j] <= numVotesReceived[j]
    BY <1>t, <1>1, <1>4
<1>6. \A x \in DOMAIN net' : IsVote(x) => x \in DOMAIN net /\ net'[x] = net[x]
    BY <1>2 DEF NoNewVotes
<1> QED
    BY <1>4, <1>5, <1>6, VotesFrame

-------------------------------------------------------------------------------------
(* Counting a vote.                                                                  *)

\* The voter whose return is taken from the network has answered now.
LEMMA OneMoreAnswer ==
    ASSUME TypeOK, NEW votes, VoteInv(votes), NEW i \in Server, NEW m \in DOMAIN net,
           m.to = i, m.type = "RequestVoteReply", m.granted, m.argTerm = currentTerm[i],
           net' = Drop(net, m), currentTerm' = currentTerm
    PROVE  numVotesReceived[i] + 1 <= Cardinality(Answered(votes, i)')
<1>1. m \in Message /\ IsABag(net) /\ currentTerm[i] \in Nat /\ numVotesReceived[i] \in Nat
      /\ DOMAIN net \subseteq Message
    BY DEF TypeOK
<1>2. IsVote(m)
    BY DEF IsVote
<1>3. CandidateOf(m) = i /\ VoterOf(m) = m.from /\ TermOf(m) = currentTerm[i] /\ m.from \in Server
    BY <1>1, <1>2, VoteTyped DEF CandidateOf, VoterOf, TermOf
<1>4. net[m] = 1 /\ Asked(votes, m)
    BY <1>2 DEF VoteInv, VotesAsked
<1>5. votes[currentTerm[i]][i] = i /\ votes[currentTerm[i]][m.from] = i
    BY <1>3, <1>4 DEF Asked
<1>6. votedFor[i] = i
    BY <1>5 DEF VoteInv, RecordsVotes
<1>7. DOMAIN net' = DOMAIN net \ {m}
    <2> DEFINE D == Drop(net, m)
    <2>1. DOMAIN D \subseteq DOMAIN net
        BY <1>1, DropBag
    <2>2. m \notin DOMAIN D /\ \A x \in DOMAIN net : x # m => x \in DOMAIN D
        BY <1>1, <1>4, DropCount
    <2> HIDE DEF D
    <2>3. DOMAIN D = DOMAIN net \ {m}
        BY <2>1, <2>2
    <2> QED
        BY <2>3 DEF D
<1>8. Answered(votes, i) \cup {m.from} \subseteq Answered(votes, i)'
    <2>1. Answered(votes, i) \subseteq Answered(votes, i)'
        BY <1>7 DEF Answered, Voters
    <2>2. ASSUME NEW n \in DOMAIN net', IsVote(n)
          PROVE  ~(CandidateOf(n) = i /\ VoterOf(n) = m.from /\ TermOf(n) = currentTerm'[i])
        <3>1. n \in DOMAIN net /\ n # m
            BY <1>7
        <3>2. ~SameVote(n, m)
            BY <1>2, <2>2, <3>1 DEF VoteInv, VotesAsked
        <3> QED
            BY <1>3, <3>2 DEF SameVote
    <2>3. m.from \in Answered(votes, i)'
        BY <1>3, <1>5, <2>2 DEF Answered, Voters
    <2> QED
        BY <2>1, <2>3
<1>9. m.from \notin Answered(votes, i)
    BY <1>2, <1>3 DEF Answered
<1>10. IsFiniteSet(Answered(votes, i)) /\ IsFiniteSet(Answered(votes, i)')
    BY ServerAssumption, FS_Subset DEF Answered, Voters
<1> DEFINE A == Answered(votes, i)
<1>11. IsFiniteSet(A \cup {m.from}) /\ Cardinality(A \cup {m.from}) = Cardinality(A) + 1
    BY <1>9, <1>10, FS_AddElement
<1>12. Cardinality(A \cup {m.from}) <= Cardinality(Answered(votes, i)')
    BY <1>8, <1>10, FS_Subset
<1>13. numVotesReceived[i] <= Cardinality(A) /\ Cardinality(A) \in Nat
       /\ Cardinality(Answered(votes, i)') \in Nat
    BY <1>6, <1>10, FS_CardinalityType DEF VoteInv, CountsVoters
<1> QED
    BY <1>1, <1>11, <1>12, <1>13

LEMMA VotesCounted ==
    ASSUME TypeOK, TypeOK', NEW votes, VoteInv(votes), NEW i \in Server, NEW m \in DOMAIN net,
           m.to = i, sendRequestVote(i, m), electing[i] = 0
    PROVE  VoteInv(votes)'
<1> USE DEF raftVars, tickVars
<1>t. /\ IsABag(net) /\ \A x \in DOMAIN net : IsVote(x) => net[x] = 1
      /\ m \in Message /\ currentTerm[i] \in Nat
      /\ state \in [Server -> {FOLLOWER, CANDIDATE, LEADER}]
      /\ \A j \in Server : numVotesReceived[j] \in Nat
    BY DEF TypeOK, VoteInv, VotesAsked
<1>1. net' = Drop(net, m) /\ UNCHANGED electing /\ m.type = "RequestVoteReply"
    BY DEF sendRequestVote
<1>2. \A x \in DOMAIN net' : IsVote(x) => x \in DOMAIN net /\ net'[x] = net[x]
    BY <1>t, <1>1, VoteDropped DEF NoNewVotes
<1>3. CASE UNCHANGED <<currentTerm, votedFor, state, numVotesReceived>>
    BY <1>t, <1>1, <1>2, <1>3, VotesFrame
<1>4. CASE /\ m.term > currentTerm[i] /\ currentTerm' = [currentTerm EXCEPT ![i] = m.term]
           /\ votedFor' = [votedFor EXCEPT ![i] = Nil]
           /\ state' = [state EXCEPT ![i] = FOLLOWER] /\ UNCHANGED numVotesReceived
    <2>1. ASSUME NEW j \in Server
          PROVE  \/ /\ currentTerm'[j] > currentTerm[j] /\ votedFor'[j] = Nil
                    /\ state'[j] # LEADER /\ electing[j] = 0
                 \/ /\ currentTerm'[j] = currentTerm[j] /\ votedFor'[j] = votedFor[j]
                    /\ state'[j] = LEADER => state[j] = LEADER
        BY <1>4 DEF TypeOK, FOLLOWER, LEADER
    <2>2. ASSUME NEW j \in Server
          PROVE  /\ electing'[j] > 0 =>
                        /\ electing'[j] = electing[j] /\ numVotesReceived'[j] = numVotesReceived[j]
                        /\ currentTerm'[j] = currentTerm[j]
                 /\ numVotesReceived'[j] <= numVotesReceived[j]
        BY <1>t, <1>1, <1>4, <2>1
    <2> QED
        BY <1>2, <2>1, <2>2, VotesFrame
<1>5. CASE /\ VoteCounts(i, m) /\ m.granted /\ UNCHANGED <<currentTerm, votedFor>>
           /\ numVotesReceived' = [numVotesReceived EXCEPT ![i] = @ + 1]
           /\ IF Majority(numVotesReceived[i] + 1)
              THEN state' = [state EXCEPT ![i] = LEADER] ELSE UNCHANGED state
    <2>1. m.argTerm = currentTerm[i]
        BY <1>5 DEF VoteCounts
    <2>2. numVotesReceived[i] + 1 <= Cardinality(Answered(votes, i)')
        BY <1>1, <1>5, <2>1, OneMoreAnswer
    <2>3. votes \in History /\ Grows(votes, votes)
        BY DEF VoteInv, RecordsVotes, Grows
    <2>4. /\ numVotesReceived'[i] = numVotesReceived[i] + 1
          /\ \A j \in Server \ {i} : numVotesReceived'[j] = numVotesReceived[j]
          /\ \A j \in Server \ {i} : state'[j] = state[j]
        <3>1. numVotesReceived \in [Server -> Nat]
            BY DEF TypeOK
        <3>2. numVotesReceived' = [numVotesReceived EXCEPT ![i] = @ + 1]
            BY <1>5
        <3>3. \A j \in Server \ {i} : state'[j] = state[j]
            BY <1>t, <1>5
        <3> QED
            BY <3>1, <3>2, <3>3
    <2>5. votedFor[i] = i
        <3>1. CandidateOf(m) = i /\ TermOf(m) = currentTerm[i] /\ Asked(votes, m)
            BY <1>1, <2>1 DEF CandidateOf, TermOf, VoteInv, VotesAsked, IsVote
        <3> QED
            BY <3>1 DEF Asked, VoteInv, RecordsVotes
    <2>6. RecordsVotes(votes)'
        BY <1>5 DEF VoteInv, RecordsVotes
    <2>7. VotesAsked(votes)'
        BY <1>1, <1>2, <1>5 DEF VoteInv, VotesAsked, Asked, IsVote, SameVote, CandidateOf, VoterOf,
                                TermOf
    <2>8. OpenedOnce'
        BY <1>1, <1>5, <2>4 DEF VoteInv, OpenedOnce
    <2>9. CountsVoters(votes)'
        <3> SUFFICES ASSUME NEW j \in Server
                     PROVE  votedFor'[j] = j =>
                                numVotesReceived'[j] <= Cardinality(Answered(votes, j)')
            BY DEF CountsVoters
        <3>1. CASE j = i
            BY <2>2, <2>4, <3>1
        <3>2. CASE j # i
            <4>1. \A x \in DOMAIN net' :
                    IsVote(x) => \E n \in DOMAIN net : IsVote(n) /\ SameVote(x, n)
                BY <1>2 DEF SameVote
            <4>2. CountsVoters(votes) /\ numVotesReceived'[j] = numVotesReceived[j]
                BY <2>4, <3>2 DEF VoteInv
            <4> QED
                BY <1>t, <1>5, <2>3, <4>1, <4>2, CountKept
        <3> QED
            BY <3>1, <3>2
    <2>10. LeadersElected(votes)'
        <3> SUFFICES ASSUME NEW j \in Server, state'[j] = LEADER
                     PROVE  votedFor'[j] = j /\ Majority(Cardinality(Voters(votes, currentTerm'[j], j)))
            BY DEF LeadersElected, Majority, Voters
        <3>1. CASE state[j] = LEADER
            <4>1. LeadersElected(votes)
                BY DEF VoteInv
            <4> QED
                BY <1>5, <2>3, <3>1, <4>1, LeaderKept
        <3>2. CASE state[j] # LEADER
            <4>1. j = i /\ Majority(numVotesReceived[i] + 1)
                BY <1>5, <2>4, <3>2
            <4>2. Answered(votes, i)' \subseteq Voters(votes, currentTerm'[i], i)
                BY DEF Answered, Voters
            <4>3. IsFiniteSet(Voters(votes, currentTerm'[i], i))
                BY ServerAssumption, FS_Subset DEF Voters
            <4>4. /\ Cardinality(Answered(votes, i)') <= Cardinality(Voters(votes, currentTerm'[i], i))
                  /\ Cardinality(Answered(votes, i)') \in Nat
                  /\ Cardinality(Voters(votes, currentTerm'[i], i)) \in Nat
                BY <4>2, <4>3, FS_Subset, FS_CardinalityType
            <4>5. numVotesReceived[i] + 1 \in Nat
                  /\ numVotesReceived[i] + 1 <= Cardinality(Voters(votes, currentTerm'[i], i))
                BY <1>t, <2>2, <4>4
            <4> QED
                BY <1>5, <2>5, <4>1, <4>4, <4>5, MajorityGrows
        <3> QED
            BY <3>1, <3>2
    <2> QED
        BY <2>6, <2>7, <2>8, <2>9, <2>10 DEF VoteInv
<1> QED
    BY <1>3, <1>4, <1>5 DEF sendRequestVote, WinElection

-------------------------------------------------------------------------------------
(* Opening a term, asking for votes and giving one.                                  *)

LEMMA VotesOpened ==
    ASSUME TypeOK, TypeOK', NEW votes, VoteInv(votes), NEW i \in Server, TickCandidate(i),
           \A j \in Server : electing[j] = 0
    PROVE  \E new : Grows(votes, new) /\ VotesNow(votes, new) /\ VoteInv(new)'
<1>t. currentTerm \in [Server -> Nat] /\ votes \in History /\ DOMAIN net \subseteq Message
    BY DEF TypeOK, VoteInv, RecordsVotes
<1>1. PICK t \in Nat : t = currentTerm[i] + 1
    BY <1>t
<1>2. /\ currentTerm' = [currentTerm EXCEPT ![i] = t] /\ votedFor' = [votedFor EXCEPT ![i] = i]
      /\ numVotesReceived' = [numVotesReceived EXCEPT ![i] = 1]
      /\ electing' = [electing EXCEPT ![i] = @ + 1] /\ UNCHANGED <<state, net>>
      /\ state[i] # LEADER
    BY <1>1 DEF TickCandidate, CANDIDATE, LEADER
<1>3. /\ currentTerm'[i] = t /\ votedFor'[i] = i /\ numVotesReceived'[i] = 1 /\ electing'[i] = 1
      /\ \A j \in Server \ {i} :
            /\ currentTerm'[j] = currentTerm[j] /\ votedFor'[j] = votedFor[j]
            /\ numVotesReceived'[j] = numVotesReceived[j] /\ electing'[j] = 0
    <2>1. electing \in [Server -> Nat] /\ electing[i] = 0
        BY DEF TypeOK
    <2>2. electing'[i] = 1 /\ \A j \in Server \ {i} : electing'[j] = 0
        BY <1>2, <2>1
    <2> QED
        BY <1>2, <2>2 DEF TypeOK
<1> DEFINE new == [votes EXCEPT ![t][i] = i]
<1>4. /\ new \in History /\ new[t][i] = i
      /\ \A u \in Nat : \A j \in Server : u # t \/ j # i => new[u][j] = votes[u][j]
    BY <1>t DEF History
<1> HIDE DEF new
<1>5. votes[t][i] = Nil
    BY <1>t, <1>1 DEF VoteInv, RecordsVotes
<1>6. Grows(votes, new)
    BY <1>t, <1>4, <1>5 DEF Grows
<1>7. RecordsVotes(new)'
    <2>1. \A j \in Server : new[currentTerm'[j]][j] = votedFor'[j]
        <3> TAKE j \in Server
        <3>1. CASE j = i
            BY <1>3, <1>4, <3>1
        <3>2. CASE j # i
            BY <1>t, <1>3, <1>4, <3>2 DEF VoteInv, RecordsVotes
        <3> QED
            BY <3>1, <3>2
    <2>2. ASSUME NEW j \in Server, NEW u \in Nat, u > currentTerm'[j] PROVE new[u][j] = Nil
        <3>1. u > currentTerm[j]
            BY <1>t, <1>1, <1>3, <2>2
        <3>2. u # t \/ j # i
            BY <1>3, <2>2
        <3> QED
            BY <1>4, <3>1, <3>2 DEF VoteInv, RecordsVotes
    <2>3. \A j \in Server : new[0][j] = Nil
        <3>1. t # 0
            BY <1>t, <1>1
        <3> QED
            BY <1>4, <3>1 DEF VoteInv, RecordsVotes
    <2> QED
        BY <1>4, <2>1, <2>2, <2>3 DEF RecordsVotes
<1>8. VotesAsked(new)'
    <2>1. ASSUME NEW m \in DOMAIN net, IsVote(m) PROVE net'[m] = 1 /\ Asked(new, m)'
        <3>1. net[m] = 1 /\ Asked(votes, m)
            BY <2>1 DEF VoteInv, VotesAsked
        <3>2. \A j \in Server :
                /\ currentTerm[j] <= currentTerm'[j]
                /\ electing'[j] > 0 => electing[j] > 0 \/ currentTerm[j] < currentTerm'[j]
            BY <1>t, <1>1, <1>3
        <3> QED
            BY <1>2, <1>6, <2>1, <3>1, <3>2, AskedKept
    <2>2. \A m, n \in DOMAIN net' : IsVote(m) /\ IsVote(n) /\ SameVote(m, n) => m = n
        BY <1>2 DEF VoteInv, VotesAsked
    <2> QED
        BY <1>2, <2>1, <2>2 DEF VotesAsked
<1>9. OpenedOnce'
    BY <1>3 DEF OpenedOnce
<1>10. CountsVoters(new)'
    <2> SUFFICES ASSUME NEW j \in Server
                 PROVE  votedFor'[j] = j => numVotesReceived'[j] <= Cardinality(Answered(new, j)')
        BY DEF CountsVoters
    <2>1. CASE j = i
        BY <1>3, <1>4, <1>8, <2>1, OwnVote
    <2>2. CASE j # i
        <3>1. CountsVoters(votes) /\ numVotesReceived[j] \in Nat
            BY DEF VoteInv, TypeOK
        <3>2. \A m \in DOMAIN net' : IsVote(m) => \E n \in DOMAIN net : IsVote(n) /\ SameVote(m, n)
            BY <1>2 DEF SameVote
        <3> QED
            BY <1>3, <1>6, <2>2, <3>1, <3>2, CountKept
    <2> QED
        BY <2>1, <2>2
<1>11. LeadersElected(new)'
    <2> SUFFICES ASSUME NEW j \in Server, state'[j] = LEADER
                 PROVE  votedFor'[j] = j /\ Majority(Cardinality(Voters(new, currentTerm'[j], j)))
        BY DEF LeadersElected, Majority, Voters
    <2>1. j # i /\ state[j] = LEADER /\ LeadersElected(votes)
        BY <1>2 DEF VoteInv
    <2> QED
        BY <1>3, <1>6, <2>1, LeaderKept
<1>12. VotesNow(votes, new)
    BY <1>3, <1>4 DEF VotesNow
<1> QED
    BY <1>6, <1>7, <1>8, <1>9, <1>10, <1>11, <1>12 DEF VoteInv

LEMMA VotesRequested ==
    ASSUME TypeOK, TypeOK', NEW votes, VoteInv(votes), NEW i \in Server, ElectionGoroutine(i)
    PROVE  VoteInv(votes)'
<1> USE DEF raftVars
<1>t. /\ currentTerm \in [Server -> Nat] /\ votes \in History /\ DOMAIN net \subseteq Message
      /\ IsABag(net) /\ electing \in [Server -> Nat]
    BY DEF TypeOK, VoteInv, RecordsVotes
<1> DEFINE S == {VoteCall(i, j) : j \in Others(i)}
<1>1. /\ electing[i] > 0 /\ net' = Send(net, S)
      /\ electing' = [electing EXCEPT ![i] = @ - 1]
      /\ UNCHANGED <<currentTerm, votedFor, state, numVotesReceived>>
    BY DEF ElectionGoroutine
<1>2. /\ electing[i] = 1 /\ votedFor[i] = i /\ numVotesReceived[i] = 1
      /\ votes[currentTerm[i]][i] = i
    BY <1>1 DEF VoteInv, OpenedOnce, RecordsVotes
<1>3. electing'[i] = 0 /\ \A j \in Server \ {i} : electing'[j] = electing[j]
    BY <1>t, <1>1, <1>2
<1>4. ASSUME NEW x \in S
      PROVE  /\ IsVote(x) /\ CandidateOf(x) = i /\ TermOf(x) = currentTerm[i] /\ VoterOf(x) # i
             /\ x = VoteCall(i, VoterOf(x)) /\ x.type = "RequestVote"
    BY DEF VoteCall, IsVote, CandidateOf, TermOf, VoterOf, Others
<1>5. ASSUME NEW x \in DOMAIN net, IsVote(x), CandidateOf(x) = i PROVE TermOf(x) # currentTerm[i]
    BY <1>1, <1>5 DEF VoteInv, VotesAsked, Asked
<1>6. \A x \in S : x \notin DOMAIN net
    BY <1>4, <1>5
<1> HIDE DEF S
<1>7. DOMAIN net' = DOMAIN net \cup S
    BY <1>t, <1>1, SendBag
<1>8. (\A x \in S : net'[x] = 1) /\ \A x \in DOMAIN net : net'[x] = net[x]
    BY <1>t, <1>1, <1>6, SendCount
<1>9. RecordsVotes(votes)'
    BY <1>1 DEF VoteInv, RecordsVotes
<1>10. VotesAsked(votes)'
    <2>1. ASSUME NEW m \in DOMAIN net, IsVote(m) PROVE net'[m] = 1 /\ Asked(votes, m)'
        <3>1. net[m] = 1 /\ Asked(votes, m) /\ Grows(votes, votes)
            BY <1>t, <2>1 DEF VoteInv, VotesAsked, Grows
        <3>2. \A j \in Server : /\ currentTerm[j] <= currentTerm'[j]
                                /\ electing'[j] > 0 => electing[j] > 0
            BY <1>t, <1>1, <1>3
        <3> QED
            BY <1>8, <2>1, <3>1, <3>2, AskedKept
    <2>2. ASSUME NEW m \in S PROVE net'[m] = 1 /\ Asked(votes, m)'
        BY <1>t, <1>1, <1>2, <1>3, <1>4, <1>8 DEF Asked
    <2>3. ASSUME NEW m \in DOMAIN net', NEW n \in DOMAIN net', IsVote(m), IsVote(n), SameVote(m, n)
          PROVE  m = n
        <3>1. CASE m \in DOMAIN net /\ n \in DOMAIN net
            BY <2>3, <3>1 DEF VoteInv, VotesAsked
        <3>2. CASE m \in S /\ n \in S
            BY <1>4, <2>3, <3>2 DEF SameVote
        <3>3. CASE m \in S /\ n \in DOMAIN net
            BY <1>4, <1>5, <2>3, <3>3 DEF SameVote
        <3>4. CASE m \in DOMAIN net /\ n \in S
            BY <1>4, <1>5, <2>3, <3>4 DEF SameVote
        <3> QED
            BY <1>7, <3>1, <3>2, <3>3, <3>4
    <2> QED
        BY <1>7, <2>1, <2>2, <2>3 DEF VotesAsked, IsVote, SameVote, CandidateOf, VoterOf, TermOf
<1>11. OpenedOnce'
    BY <1>1, <1>3 DEF VoteInv, OpenedOnce
<1>12. CountsVoters(votes)'
    <2> SUFFICES ASSUME NEW j \in Server
                 PROVE  votedFor'[j] = j => numVotesReceived'[j] <= Cardinality(Answered(votes, j)')
        BY DEF CountsVoters
    <2>1. CASE j = i
        BY <1>1, <1>2, <1>10, <2>1, OwnVote
    <2>2. CASE j # i
        <3>1. CountsVoters(votes) /\ numVotesReceived[j] \in Nat /\ Grows(votes, votes)
            BY <1>t DEF VoteInv, TypeOK, Grows
        <3>2. \A m \in DOMAIN net' : IsVote(m) /\ CandidateOf(m) = j =>
                \E n \in DOMAIN net : IsVote(n) /\ SameVote(m, n)
            BY <1>4, <1>7, <2>2 DEF SameVote
        <3> QED
            BY <1>1, <3>1, <3>2, CountKept
    <2> QED
        BY <2>1, <2>2
<1>13. LeadersElected(votes)'
    BY <1>1 DEF VoteInv, LeadersElected, Majority, Voters
<1> QED
    BY <1>9, <1>10, <1>11, <1>12, <1>13 DEF VoteInv

\* The handler replaces the request by an answer that says what the history says.
LEMMA VotesReplied ==
    ASSUME TypeOK, TypeOK', NEW votes, VoteInv(votes), NEW new, Grows(votes, new),
           NEW m \in DOMAIN net, m.type = "RequestVote", NEW term, NEW b \in BOOLEAN,
           net' = Send(Drop(net, m), {VoteReturn(m, term, b)}),
           b => new[m.term][m.to] = m.from,
           RecordsVotes(new)', UNCHANGED <<electing, numVotesReceived>>,
           \A j \in Server :
                /\ electing[j] = 0 /\ currentTerm[j] <= currentTerm'[j]
                /\ votedFor'[j] = j => votedFor[j] = j /\ currentTerm'[j] = currentTerm[j]
                /\ state'[j] = LEADER =>
                    /\ state[j] = LEADER /\ currentTerm'[j] = currentTerm[j]
                    /\ votedFor'[j] = votedFor[j]
    PROVE  VoteInv(new)'
<1>t. /\ currentTerm \in [Server -> Nat] /\ currentTerm' \in [Server -> Nat]
      /\ DOMAIN net \subseteq Message /\ IsABag(net) /\ m \in Message
      /\ \A j \in Server : numVotesReceived[j] \in Nat
    BY DEF TypeOK
<1>1. IsVote(m)
    BY DEF IsVote
<1>2. net[m] = 1 /\ Asked(votes, m)
    BY <1>1 DEF VoteInv, VotesAsked
<1> DEFINE r == VoteReturn(m, term, b)
<1>3. /\ IsVote(r) /\ SameVote(r, m) /\ r.type = "RequestVoteReply" /\ r.granted = b
      /\ CandidateOf(r) = m.from /\ VoterOf(r) = m.to /\ TermOf(r) = m.term
    BY DEF VoteReturn, IsVote, SameVote, CandidateOf, VoterOf, TermOf
<1>4. net' = Send(Drop(net, m), {r})
    OBVIOUS
<1> HIDE DEF r
<1>5. r \notin DOMAIN net
    BY <1>1, <1>3 DEF VoteInv, VotesAsked
<1>6. /\ DOMAIN net' = (DOMAIN net \ {m}) \cup {r} /\ net'[r] = 1
      /\ \A x \in DOMAIN net \ {m} : net'[x] = net[x]
    BY <1>t, <1>2, <1>4, <1>5, ReplyCount
<1>7. \A j \in Server : /\ currentTerm[j] <= currentTerm'[j]
                        /\ electing'[j] > 0 => electing[j] > 0
    OBVIOUS
<1>8. Asked(new, m)'
    BY <1>1, <1>2, <1>7, AskedKept
<1>9. Asked(new, r)'
    <2>1. CandidateOf(m) = m.from /\ VoterOf(m) = m.to /\ TermOf(m) = m.term
        BY DEF CandidateOf, VoterOf, TermOf
    <2> QED
        BY <1>3, <1>8, <2>1 DEF Asked
<1>10. VotesAsked(new)'
    <2>1. ASSUME NEW x \in DOMAIN net', IsVote(x) PROVE net'[x] = 1 /\ Asked(new, x)'
        <3>1. CASE x = r
            BY <1>6, <1>9, <3>1
        <3>2. CASE x # r
            <4>1. x \in DOMAIN net /\ net'[x] = net[x]
                BY <1>6, <3>2
            <4>2. net[x] = 1 /\ Asked(votes, x)
                BY <2>1, <4>1 DEF VoteInv, VotesAsked
            <4> QED
                BY <1>7, <2>1, <4>1, <4>2, AskedKept
        <3> QED
            BY <3>1, <3>2
    <2>2. ASSUME NEW x \in DOMAIN net', NEW y \in DOMAIN net', IsVote(x), IsVote(y), SameVote(x, y)
          PROVE  x = y
        <3>1. ASSUME NEW z \in DOMAIN net, z # m, IsVote(z) PROVE ~SameVote(z, r) /\ ~SameVote(r, z)
            <4>1. ~SameVote(z, m)
                BY <1>1, <3>1 DEF VoteInv, VotesAsked
            <4> QED
                BY <1>3, <4>1 DEF SameVote
        <3>2. CASE x # r /\ y # r
            BY <1>6, <2>2, <3>2 DEF VoteInv, VotesAsked
        <3>3. CASE x = r \/ y = r
            BY <1>6, <2>2, <3>1, <3>3
        <3> QED
            BY <3>2, <3>3
    <2> QED
        BY <2>1, <2>2 DEF VotesAsked, IsVote, SameVote, CandidateOf, VoterOf, TermOf
<1>11. OpenedOnce'
    BY DEF OpenedOnce
<1>12. CountsVoters(new)'
    <2> SUFFICES ASSUME NEW j \in Server
                 PROVE  votedFor'[j] = j => numVotesReceived'[j] <= Cardinality(Answered(new, j)')
        BY DEF CountsVoters
    <2>1. CountsVoters(votes)
        BY DEF VoteInv
    <2>2. \A x \in DOMAIN net' : IsVote(x) => \E n \in DOMAIN net : IsVote(n) /\ SameVote(x, n)
        <3> TAKE x \in DOMAIN net'
        <3>1. CASE x = r
            BY <1>1, <1>3, <3>1
        <3>2. CASE x # r
            BY <1>6, <3>2 DEF SameVote
        <3> QED
            BY <3>1, <3>2
    <2>3. votedFor'[j] = j =>
                /\ votedFor[j] = j /\ currentTerm'[j] = currentTerm[j]
                /\ numVotesReceived'[j] \in Nat /\ numVotesReceived'[j] <= numVotesReceived[j]
        BY <1>t
    <2> QED
        BY <2>1, <2>2, <2>3, CountKept
<1>13. LeadersElected(new)'
    <2> SUFFICES ASSUME NEW j \in Server, state'[j] = LEADER
                 PROVE  votedFor'[j] = j /\ Majority(Cardinality(Voters(new, currentTerm'[j], j)))
        BY DEF LeadersElected, Majority, Voters
    <2>1. LeadersElected(votes)
        BY DEF VoteInv
    <2> QED
        BY <2>1, LeaderKept
<1> QED
    BY <1>10, <1>11, <1>12, <1>13 DEF VoteInv

LEMMA VotesGiven ==
    ASSUME TypeOK, TypeOK', NEW votes, VoteInv(votes), NEW i \in Server, NEW m \in DOMAIN net,
           m.to = i, RequestVote(i, m), \A j \in Server : electing[j] = 0
    PROVE  \E new : Grows(votes, new) /\ VotesNow(votes, new) /\ VoteInv(new)'
<1> USE DEF raftVars, tickVars
<1>t. /\ currentTerm \in [Server -> Nat] /\ votes \in History /\ m \in Message
      /\ votedFor \in [Server -> Server \cup {Nil}]
      /\ state \in [Server -> {FOLLOWER, CANDIDATE, LEADER}]
    BY DEF TypeOK, VoteInv, RecordsVotes
<1>1. m.type = "RequestVote" /\ UNCHANGED <<electing, numVotesReceived>>
    BY DEF RequestVote
<1>2. m.from \in Server /\ m.term \in Nat
    BY <1>t, <1>1 DEF Message
<1>3. m.from # i
    BY <1>1 DEF VoteInv, VotesAsked, Asked, IsVote, CandidateOf, VoterOf
<1>7. m.term # 0
    <2>1. Asked(votes, m) /\ \A j \in Server : votes[0][j] = Nil
        BY <1>1 DEF VoteInv, VotesAsked, IsVote, RecordsVotes
    <2>2. votes[m.term][m.from] = m.from
        BY <1>1, <2>1 DEF Asked, CandidateOf, TermOf
    <2> QED
        BY <1>2, <2>1, <2>2, NilAssumption
<1>4. Grows(votes, votes)
    BY <1>t DEF Grows
<1>5. CASE m.term < currentTerm[i]
    <2>1. /\ net' = Send(Drop(net, m), {VoteReturn(m, currentTerm[i], FALSE)})
          /\ UNCHANGED <<currentTerm, votedFor, state>>
        BY <1>t, <1>2, <1>5 DEF RequestVote
    <2>2. PICK term : term = currentTerm[i]
        OBVIOUS
    <2>3. RecordsVotes(votes)'
        BY <2>1 DEF VoteInv, RecordsVotes
    <2>4. \A j \in Server :
                /\ electing[j] = 0 /\ currentTerm[j] <= currentTerm'[j]
                /\ votedFor'[j] = j => votedFor[j] = j /\ currentTerm'[j] = currentTerm[j]
                /\ state'[j] = LEADER =>
                    /\ state[j] = LEADER /\ currentTerm'[j] = currentTerm[j]
                    /\ votedFor'[j] = votedFor[j]
        BY <1>t, <2>1
    <2>5. net' = Send(Drop(net, m), {VoteReturn(m, term, FALSE)})
        BY <2>1, <2>2
    <2>6. VoteInv(votes)'
        BY <1>1, <1>4, <2>3, <2>4, <2>5, VotesReplied
    <2> QED
        BY <1>4, <2>6 DEF VotesNow
<1>6. CASE m.term >= currentTerm[i]
    <2> DEFINE newer == m.term > currentTerm[i]
               vote == IF newer THEN Nil ELSE votedFor[i]
               granted == Grants(m, vote, log[i])
    <2>1. /\ net' = Send(Drop(net, m), {VoteReturn(m, m.term, granted)})
          /\ currentTerm' = [currentTerm EXCEPT ![i] = m.term]
          /\ votedFor' = [votedFor EXCEPT ![i] = IF granted THEN m.from ELSE vote]
          /\ state' = [state EXCEPT ![i] = IF newer THEN FOLLOWER ELSE @]
        BY <1>t, <1>2, <1>6 DEF RequestVote
    <2>2. granted \in BOOLEAN /\ (granted => vote \in {Nil, m.from})
        BY DEF Grants, UpToDate
    <2>3. votes[m.term][i] = vote
        <3> HIDE DEF granted
        <3>1. votes[currentTerm[i]][i] = votedFor[i]
            BY DEF VoteInv, RecordsVotes
        <3>2. m.term > currentTerm[i] => votes[m.term][i] = Nil
            BY <1>2 DEF VoteInv, RecordsVotes
        <3>3. m.term > currentTerm[i] \/ m.term = currentTerm[i]
            BY <1>t, <1>2, <1>6
        <3>4. currentTerm[i] \in Nat
            BY <1>t
        <3> QED
            BY <1>2, <3>1, <3>2, <3>3, <3>4
    <2>v. /\ newer => vote = Nil
          /\ ~newer => vote = votedFor[i] /\ m.term = currentTerm[i]
        BY <1>t, <1>2, <1>6
    <2>w. newer \in BOOLEAN
        OBVIOUS
    <2> HIDE DEF newer, vote, granted
    <2>4. /\ currentTerm'[i] = m.term
          /\ votedFor'[i] = IF granted THEN m.from ELSE vote
          /\ (state'[i] = LEADER => ~newer /\ state[i] = LEADER)
        <3>1. currentTerm'[i] = m.term
            BY <1>t, <2>1
        <3>2. votedFor'[i] = IF granted THEN m.from ELSE vote
            BY <1>t, <2>1
        <3>3. state'[i] = IF newer THEN FOLLOWER ELSE state[i]
            BY <1>t, <2>1
        <3>4. CASE newer
            BY <3>1, <3>2, <3>3, <3>4 DEF FOLLOWER, LEADER
        <3>5. CASE ~newer
            BY <3>1, <3>2, <3>3, <3>5
        <3> QED
            BY <2>w, <3>4, <3>5
    <2>5. ASSUME NEW j \in Server, j # i
          PROVE  /\ currentTerm'[j] = currentTerm[j] /\ state'[j] = state[j]
                 /\ votedFor'[j] = votedFor[j]
        BY <1>t, <2>1, <2>5
    <2>6. ASSUME NEW new, new \in History, new[m.term][i] = votedFor'[i],
                 \A u \in Nat : \A j \in Server : u # m.term \/ j # i => new[u][j] = votes[u][j]
          PROVE  RecordsVotes(new)'
        <3>1. ASSUME NEW j \in Server PROVE new[currentTerm'[j]][j] = votedFor'[j]
            <4>1. CASE j = i
                BY <2>4, <2>6, <4>1
            <4>2. CASE j # i
                <5>1. currentTerm[j] \in Nat /\ votes[currentTerm[j]][j] = votedFor[j]
                    BY <1>t DEF VoteInv, RecordsVotes
                <5> QED
                    BY <2>5, <2>6, <4>2, <5>1
            <4> QED
                BY <4>1, <4>2
        <3>2. ASSUME NEW j \in Server, NEW u \in Nat, u > currentTerm'[j]
              PROVE  new[u][j] = Nil
            <4>1. u > currentTerm[j] /\ (u # m.term \/ j # i)
                <5>1. CASE j = i
                    BY <1>t, <1>2, <1>6, <2>4, <3>2, <5>1
                <5>2. CASE j # i
                    BY <2>5, <3>2, <5>2
                <5> QED
                    BY <5>1, <5>2
            <4>2. votes[u][j] = Nil
                BY <4>1 DEF VoteInv, RecordsVotes
            <4> QED
                BY <2>6, <4>1, <4>2
        <3>3. \A j \in Server : new[0][j] = Nil
            BY <1>7, <2>6 DEF VoteInv, RecordsVotes
        <3> QED
            BY <2>6, <3>1, <3>2, <3>3 DEF RecordsVotes
    <2>7. ASSUME votedFor'[i] = i => ~newer /\ votedFor[i] = i,
                 state'[i] = LEADER => votedFor'[i] = votedFor[i]
          PROVE  \A j \in Server :
                    /\ electing[j] = 0 /\ currentTerm[j] <= currentTerm'[j]
                    /\ votedFor'[j] = j => votedFor[j] = j /\ currentTerm'[j] = currentTerm[j]
                    /\ state'[j] = LEADER =>
                        /\ state[j] = LEADER /\ currentTerm'[j] = currentTerm[j]
                        /\ votedFor'[j] = votedFor[j]
        <3> TAKE j \in Server
        <3>1. CASE j = i
            <4>1. currentTerm[i] <= currentTerm'[i]
                BY <1>t, <1>2, <1>6, <2>4
            <4>2. ~newer => currentTerm'[i] = currentTerm[i]
                BY <2>v, <2>4
            <4> QED
                BY <2>4, <2>7, <3>1, <4>1, <4>2
        <3>2. CASE j # i
            <4>1. currentTerm[j] \in Nat
                BY <1>t
            <4> QED
                BY <2>5, <3>2, <4>1
        <3> QED
            BY <3>1, <3>2
    <2>8. CASE ~granted
        <3>1. votedFor'[i] = vote
            BY <2>4, <2>8
        <3>2. RecordsVotes(votes)'
            BY <1>t, <2>3, <2>6, <3>1
        <3>3. /\ votedFor'[i] = i => ~newer /\ votedFor[i] = i
              /\ state'[i] = LEADER => votedFor'[i] = votedFor[i]
            BY <2>v, <2>4, <3>1, NilAssumption
        <3>4. net' = Send(Drop(net, m), {VoteReturn(m, m.term, FALSE)})
            BY <2>1, <2>2, <2>8
        <3>5. VoteInv(votes)'
            BY <1>1, <1>4, <2>7, <3>2, <3>3, <3>4, VotesReplied
        <3> QED
            BY <1>4, <3>5 DEF VotesNow
    <2>9. CASE granted
        <3> DEFINE new == [votes EXCEPT ![m.term][i] = m.from]
        <3>1. /\ new \in History /\ new[m.term][i] = m.from
              /\ \A u \in Nat : \A j \in Server : u # m.term \/ j # i => new[u][j] = votes[u][j]
            BY <1>t, <1>2 DEF History
        <3> HIDE DEF new
        <3>2. votes[m.term][i] \in {Nil, m.from}
            BY <2>2, <2>3, <2>9
        <3>3. Grows(votes, new)
            <4> SUFFICES ASSUME NEW u \in Nat, NEW j \in Server, votes[u][j] # Nil
                         PROVE  new[u][j] = votes[u][j]
                BY <1>t, <3>1 DEF Grows
            <4> QED
                BY <3>1, <3>2
        <3>4. votedFor'[i] = m.from
            BY <2>4, <2>9
        <3>5. RecordsVotes(new)'
            BY <2>6, <3>1, <3>4
        <3>6. state'[i] # LEADER
            <4> SUFFICES ASSUME state'[i] = LEADER PROVE FALSE
                OBVIOUS
            <4>1. ~newer /\ state[i] = LEADER
                BY <2>4
            <4>2. votedFor[i] = i
                BY <4>1 DEF VoteInv, LeadersElected
            <4> QED
                BY <1>3, <2>2, <2>v, <2>9, <4>1, <4>2, NilAssumption
        <3>7. net' = Send(Drop(net, m), {VoteReturn(m, m.term, TRUE)})
            BY <2>1, <2>2, <2>9
        <3>8. VoteInv(new)'
            BY <1>1, <1>3, <2>7, <3>1, <3>3, <3>4, <3>5, <3>6, <3>7, VotesReplied
        <3>9. VotesNow(votes, new)
            BY <2>4, <3>1 DEF VotesNow
        <3> QED
            BY <3>3, <3>8, <3>9
    <2> QED
        BY <2>2, <2>8, <2>9
<1> QED
    BY <1>t, <1>2, <1>5, <1>6

-------------------------------------------------------------------------------------
(* One leader per term.                                                              *)

\* A term is won by one server: two majorities of voters would share one.
LEMMA OneMajority ==
    ASSUME NEW votes \in History, NEW t \in Nat, NEW i \in Server, NEW j \in Server,
           Majority(Cardinality(Voters(votes, t, i))), Majority(Cardinality(Voters(votes, t, j)))
    PROVE  i = j
<1> SUFFICES ASSUME i # j PROVE FALSE
    OBVIOUS
<1> DEFINE A == Voters(votes, t, i)
           B == Voters(votes, t, j)
<1>1. IsFiniteSet(A) /\ IsFiniteSet(B) /\ A \cup B \subseteq Server /\ A \cap B = {}
    BY ServerAssumption, FS_Subset DEF Voters
<1> HIDE DEF A, B
<1>2. IsFiniteSet(A \cup B) /\ Cardinality(A \cup B) <= Cardinality(Server)
    BY <1>1, ServerAssumption, FS_Subset
<1>3. Cardinality(A \cup B) = Cardinality(A) + Cardinality(B) - Cardinality({})
    BY <1>1, FS_Union
<1>4. /\ Cardinality(A) \in Nat /\ Cardinality(B) \in Nat /\ Cardinality({}) = 0
      /\ Cardinality(Server) \in Nat
    BY <1>1, ServerAssumption, FS_CardinalityType, FS_EmptySet
<1>5. /\ Cardinality(A) > Cardinality(Server) \div 2
      /\ Cardinality(B) > Cardinality(Server) \div 2
    BY DEF Majority, A, B
<1> QED
    BY <1>2, <1>3, <1>4, <1>5

LEMMA VotesInit == ASSUME Init PROVE \E votes : VoteInv(votes)
<1> DEFINE votes == [t \in Nat |-> [j \in Server |-> Nil]]
<1>1. RecordsVotes(votes)
    BY DEF Init, RecordsVotes, History
<1>2. VotesAsked(votes)
    <2>1. DOMAIN net = {}
        BY DEF Init, EmptyBag, SetToBag
    <2> QED
        BY <2>1 DEF VotesAsked
<1>3. OpenedOnce /\ CountsVoters(votes) /\ LeadersElected(votes)
    BY NilAssumption DEF Init, OpenedOnce, CountsVoters, LeadersElected, FOLLOWER, LEADER
<1> QED
    BY <1>1, <1>2, <1>3 DEF VoteInv

LEMMA VotesNext ==
    ASSUME "election" \in Prompt, TypeOK, TypeOK', NEW votes, VoteInv(votes),
           [Next]_vars, [SurvivesStep]_vars
    PROVE  \E new : Grows(votes, new) /\ VotesNow(votes, new) /\ VoteInv(new)'
<1>t. Grows(votes, votes) /\ VotesNow(votes, votes)
    BY DEF VoteInv, RecordsVotes, Grows, VotesNow
<1>q. Quiet => \A j \in Server : electing[j] = 0
    BY DEF Quiet
<1>1. CASE UNCHANGED vars
    BY <1>t, <1>1, VotesLocal
<1>2. ASSUME NEW i \in Server, broadcastHeartbeat(i) \/ LeaderPersist(i) \/ Apply(i)
      PROVE  VoteInv(votes)'
    BY <1>2, VotesLocal
<1>3. ASSUME NEW i \in Server, ElectionGoroutine(i) PROVE VoteInv(votes)'
    BY <1>3, VotesRequested
<1>4. ASSUME NEW i \in Server, Ticker(i), Quiet
      PROVE  \E new : Grows(votes, new) /\ VotesNow(votes, new) /\ VoteInv(new)'
    <2>1. CASE TickCandidate(i)
        BY <1>q, <1>4, <2>1, VotesOpened
    <2>2. CASE ~TickCandidate(i)
        BY <1>t, <1>4, <2>2, VotesLocal DEF Ticker
    <2> QED
        BY <2>1, <2>2
<1>5. ASSUME NEW i \in Server, NEW m \in DOMAIN net, Receive(i, m), Quiet
      PROVE  \E new : Grows(votes, new) /\ VotesNow(votes, new) /\ VoteInv(new)'
    <2>1. CASE RequestVote(i, m)
        BY <1>q, <1>5, <2>1, VotesGiven DEF Receive
    <2>2. CASE sendRequestVote(i, m)
        BY <1>t, <1>q, <1>5, <2>2, VotesCounted DEF Receive
    <2>3. CASE AppendEntries(i, m) \/ sendAppendEntries(i, m)
        BY <1>t, <1>q, <1>5, <2>3, VotesAppend
    <2> QED
        BY <1>5, <2>1, <2>2, <2>3 DEF Receive
<1>6. ASSUME NEW i \in Server, NEW c \in Command, Start(i, c) PROVE VoteInv(votes)'
    BY <1>6, VotesLocal
<1>7. ASSUME NEW m \in DOMAIN net, Lose(m) \/ SendCopy(m) PROVE VoteInv(votes)'
    BY <1>7, VotesLocal
<1>8. ASSUME NEW i \in Server, Restart(i), ~UNCHANGED vars PROVE VoteInv(votes)'
    <2>1. restarts'[i] # restarts[i]
        BY <1>8 DEF Restart, TypeOK
    <2>2. votedFor[i] = Nil /\ disk[i].term = currentTerm[i]
        BY <1>8, <2>1 DEF SurvivesStep
    <2> QED
        BY <1>8, <2>2, VotesRestart
<1> QED
    BY <1>t, <1>1, <1>2, <1>3, <1>4, <1>5, <1>6, <1>7, <1>8 DEF Next, Step

Elected == TypeOK /\ \E votes : VoteInv(votes)

LEMMA ElectedNext ==
    ASSUME "election" \in Prompt, Elected, [Next]_vars, [SurvivesStep]_vars PROVE Elected'
<1>1. TypeOK /\ TypeOK'
    BY TypeNext DEF Elected
<1>2. PICK votes : VoteInv(votes)
    BY DEF Elected
<1>3. \E new : VoteInv(new)'
    BY <1>1, <1>2, VotesNext
<1> QED
    BY <1>1, <1>3 DEF Elected

LEMMA ElectedSafe == Elected => ElectionSafety
<1> SUFFICES ASSUME Elected, NEW i \in Server, NEW j \in Server, state[i] = LEADER,
                    state[j] = LEADER, currentTerm[i] = currentTerm[j]
             PROVE  i = j
    BY DEF ElectionSafety
<1>1. PICK votes : VoteInv(votes)
    BY DEF Elected
<1>2. votes \in History /\ currentTerm[i] \in Nat
    BY <1>1 DEF Elected, TypeOK, VoteInv, RecordsVotes
<1>3. /\ Majority(Cardinality(Voters(votes, currentTerm[i], i)))
      /\ Majority(Cardinality(Voters(votes, currentTerm[i], j)))
    BY <1>1 DEF VoteInv, LeadersElected
<1> QED
    BY <1>2, <1>3, OneMajority

\* No term has two leaders (checkOneLeader of config.go), in a cluster of any size:
\* RequestVote gives one vote per term, sendRequestVote counts each of them once, and two
\* majorities share a voter. It takes an election goroutine that runs before its server
\* does anything else, and restarts that forget no vote.
THEOREM OneLeaderPerTerm ==
    ASSUME "election" \in Prompt
    PROVE  Spec /\ VotesSurvive => []ElectionSafety
<1>1. Init => Elected
    BY TypeInit, VotesInit DEF Elected
<1>2. Elected /\ [Next]_vars /\ [SurvivesStep]_vars => Elected'
    BY ElectedNext
<1> QED
    BY <1>1, <1>2, ElectedSafe, PTL DEF Spec, VotesSurvive

-------------------------------------------------------------------------------------
(* Logs have one past per term.                                                      *)

\* Winners stay and their logs only grow.
Extended(won, master, w, s) ==
    /\ won \in [Nat -> Server \cup {Nil}] /\ master \in [Nat -> Seq(Entry)]
    /\ w \in [Nat -> Server \cup {Nil}] /\ s \in [Nat -> Seq(Entry)]
    /\ \A t \in Nat : won[t] # Nil =>
        /\ w[t] = won[t] /\ Len(master[t]) <= Len(s[t])
        /\ \A x \in 1 .. Len(master[t]) : s[t][x] = master[t][x]

LEMMA ExtendedAt ==
    ASSUME NEW won, NEW master, NEW w, NEW s, Extended(won, master, w, s), NEW t \in Nat
    PROVE  /\ master[t] \in Seq(Entry) /\ s[t] \in Seq(Entry)
           /\ Len(master[t]) \in Nat /\ Len(s[t]) \in Nat
           /\ won[t] # Nil =>
                /\ w[t] = won[t] /\ Len(master[t]) <= Len(s[t])
                /\ \A x \in 1 .. Len(master[t]) : s[t][x] = master[t][x]
<1>1. master \in [Nat -> Seq(Entry)] /\ s \in [Nat -> Seq(Entry)]
    BY DEF Extended
<1>2. master[t] \in Seq(Entry) /\ s[t] \in Seq(Entry)
    BY <1>1
<1>3. Len(master[t]) \in Nat /\ Len(s[t]) \in Nat
    BY <1>2
<1> QED
    BY <1>2, <1>3 DEF Extended

LEMMA DerivedKept ==
    ASSUME NEW won, NEW master, NEW w, NEW s, Extended(won, master, w, s),
           NEW l \in Seq(Entry), Derived(l, won, master)
    PROVE  Derived(l, w, s)
<1> SUFFICES ASSUME NEW k \in 1 .. Len(l)
             PROVE  /\ w[l[k].term] # Nil /\ k <= Len(s[l[k].term])
                    /\ \A x \in 1 .. k : s[l[k].term][x] = l[x] /\ l[x].term <= l[k].term
    BY DEF Derived
<1> DEFINE t == l[k].term
<1>1. t \in Nat
    <2>1. l[k] \in Entry
        OBVIOUS
    <2> QED
        BY <2>1 DEF Entry
<1>2. /\ won[t] # Nil /\ k <= Len(master[t])
      /\ \A x \in 1 .. k : master[t][x] = l[x] /\ l[x].term <= t
    BY DEF Derived
<1> HIDE DEF t
<1>3. Len(master[t]) \in Nat /\ Len(s[t]) \in Nat /\ Len(l) \in Nat
    BY <1>1, ExtendedAt
<1>4. /\ w[t] = won[t] /\ Len(master[t]) <= Len(s[t])
      /\ \A x \in 1 .. Len(master[t]) : s[t][x] = master[t][x]
    BY <1>1, <1>2, ExtendedAt
<1>5. w[t] # Nil /\ k <= Len(s[t])
    BY <1>2, <1>3, <1>4
<1>6. \A x \in 1 .. k : s[t][x] = l[x] /\ l[x].term <= t
    BY <1>2, <1>3, <1>4
<1> QED
    BY <1>5, <1>6 DEF t

\* What is in flight keeps pointing into the logs of the winners.
LEMMA FlightKept ==
    ASSUME NEW won, NEW master, NEW w, NEW s, Extended(won, master, w, s), NEW m \in Message
    PROVE  /\ m.type = "AppendEntries" /\ CallDerived(m, won, master) => CallDerived(m, w, s)
           /\ m.type = "AppendEntriesReply" /\ ReturnInRange(m, won, master)
                => ReturnInRange(m, w, s)
<1>1. ASSUME m.type = "AppendEntries", CallDerived(m, won, master) PROVE CallDerived(m, w, s)
    <2>1. /\ m.term \in Nat /\ m.from \in Server /\ m.prevIdx \in Nat
          /\ m.entries \in Seq(Entry)
        BY <1>1 DEF Message
    <2> DEFINE M == master[m.term]
               S == s[m.term]
    <2>2. /\ won[m.term] = m.from /\ m.from # m.to /\ m.prevIdx + Len(m.entries) <= Len(M)
          /\ m.prevTerm = TermAt(M, m.prevIdx)
          /\ \A x \in 1 .. Len(m.entries) : m.entries[x] = M[m.prevIdx + x]
        BY <1>1 DEF CallDerived
    <2>3. /\ w[m.term] = m.from /\ Len(M) <= Len(S) /\ \A x \in 1 .. Len(M) : S[x] = M[x]
        BY <2>1, <2>2, ExtendedAt, NilAssumption
    <2>4. Len(M) \in Nat /\ Len(S) \in Nat /\ Len(m.entries) \in Nat
        BY <2>1, ExtendedAt
    <2> HIDE DEF M, S
    <2>5. m.prevIdx + Len(m.entries) <= Len(S)
        BY <2>1, <2>2, <2>3, <2>4
    <2>6. TermAt(S, m.prevIdx) = TermAt(M, m.prevIdx)
        <3>1. m.prevIdx # 0 => m.prevIdx \in 1 .. Len(M)
            BY <2>1, <2>2, <2>4
        <3> QED
            BY <2>3, <3>1 DEF TermAt
    <2>7. \A x \in 1 .. Len(m.entries) : m.entries[x] = S[m.prevIdx + x]
        <3> TAKE x \in 1 .. Len(m.entries)
        <3>1. m.prevIdx + x \in 1 .. Len(M)
            BY <2>1, <2>2, <2>4
        <3> QED
            BY <2>2, <2>3, <3>1
    <2> QED
        BY <2>2, <2>3, <2>5, <2>6, <2>7 DEF CallDerived, S
<1>2. ASSUME m.type = "AppendEntriesReply", ReturnInRange(m, won, master)
      PROVE  ReturnInRange(m, w, s)
    <2>1. /\ m.argTerm \in Nat /\ m.to \in Server /\ m.last \in Nat /\ m.nextTry \in Nat
          /\ m.term \in Nat
        BY <1>2 DEF Message
    <2>2. w[m.argTerm] = m.to /\ Len(master[m.argTerm]) <= Len(s[m.argTerm])
        BY <1>2, <2>1, ExtendedAt, NilAssumption DEF ReturnInRange
    <2>3. Len(master[m.argTerm]) \in Nat /\ Len(s[m.argTerm]) \in Nat
        BY <2>1, ExtendedAt
    <2> QED
        BY <1>2, <2>1, <2>2, <2>3 DEF ReturnInRange
<1> QED
    BY <1>1, <1>2

\* Terms grow and votes are kept, so winners remain winners, and one that has gone on to
\* another term has not won that one.
LEMMA WinnersKept ==
    ASSUME TypeOK, TypeOK', NEW votes, NEW new, Grows(votes, new), NEW won, NEW master,
           OneWinner(votes, won, master),
           \A j \in Server : currentTerm[j] <= currentTerm'[j]
    PROVE  /\ \A t \in Nat : won[t] # Nil =>
                t <= currentTerm'[won[t]] /\ Majority(Cardinality(Voters(new, t, won[t])))
           /\ \A j \in Server : won[currentTerm'[j]] = j =>
                currentTerm'[j] = currentTerm[j] /\ master[currentTerm'[j]] = log[j]
<1>t. \A j \in Server : currentTerm[j] \in Nat /\ currentTerm'[j] \in Nat
    BY DEF TypeOK
<1>1. ASSUME NEW t \in Nat, won[t] # Nil
      PROVE  t <= currentTerm'[won[t]] /\ Majority(Cardinality(Voters(new, t, won[t])))
    <2>1. /\ won[t] \in Server /\ t <= currentTerm[won[t]]
          /\ Majority(Cardinality(Voters(votes, t, won[t])))
        BY <1>1 DEF OneWinner
    <2>2. t <= currentTerm'[won[t]]
        BY <1>t, <2>1
    <2> QED
        BY <2>1, <2>2, VotersGrow, MajorityGrows
<1>2. ASSUME NEW j \in Server, won[currentTerm'[j]] = j
      PROVE  currentTerm'[j] = currentTerm[j] /\ master[currentTerm'[j]] = log[j]
    <2>1. currentTerm'[j] <= currentTerm[j]
        BY <1>t, <1>2, NilAssumption DEF OneWinner
    <2>2. currentTerm'[j] = currentTerm[j]
        BY <1>t, <2>1
    <2> QED
        BY <1>2, <2>2 DEF OneWinner
<1> QED
    BY <1>1, <1>2

\* A step that elects nobody and adds to no leader's log leaves the winners and their logs.
LEMMA LogsFrame ==
    ASSUME TypeOK, TypeOK', NEW votes, NEW new, Grows(votes, new), NEW won, NEW master,
           LogInv(votes, won, master), NextInRange',
           \A j \in Server :
                /\ currentTerm[j] <= currentTerm'[j] /\ disk[j].term <= disk'[j].term
                /\ state'[j] = LEADER => state[j] = LEADER /\ currentTerm'[j] = currentTerm[j]
                /\ \/ log'[j] = log[j]
                   \/ /\ Derived(log'[j], won, master) /\ won[currentTerm'[j]] # j
                      /\ \A k \in 1 .. Len(log'[j]) : log'[j][k].term <= disk'[j].term,
           \A m \in DOMAIN net' : m.type = "AppendEntries" =>
                m \in DOMAIN net \/ CallDerived(m, won, master),
           \A m \in DOMAIN net' : m.type = "AppendEntriesReply" =>
                m \in DOMAIN net \/ ReturnInRange(m, won, master)
    PROVE  LogInv(new, won, master)'
<1>1. /\ OneWinner(votes, won, master) /\ LogsDerived(won, master)
      /\ CallsDerived(won, master) /\ ReturnsInRange(won, master)
    BY DEF LogInv
<1>2. OneWinner(new, won, master)'
    <2>1. /\ \A t \in Nat : won[t] # Nil =>
                t <= currentTerm'[won[t]] /\ Majority(Cardinality(Voters(new, t, won[t])))
          /\ \A j \in Server : won[currentTerm'[j]] = j =>
                currentTerm'[j] = currentTerm[j] /\ master[currentTerm'[j]] = log[j]
        BY <1>1, WinnersKept
    <2>2. \A j \in Server : won[currentTerm'[j]] = j => master[currentTerm'[j]] = log'[j]
        BY <2>1
    <2>3. \A j \in Server : state'[j] = LEADER => won[currentTerm'[j]] = j
        BY <1>1 DEF OneWinner
    <2> QED
        BY <1>1, <2>1, <2>2, <2>3 DEF OneWinner, Voters, Majority
<1>3. LogsDerived(won, master)'
    <2> SUFFICES ASSUME NEW j \in Server
                 PROVE  /\ Derived(log'[j], won, master)
                        /\ \A k \in 1 .. Len(log'[j]) : log'[j][k].term <= disk'[j].term
        BY <1>1 DEF LogsDerived, Derived
    <2>1. CASE log'[j] = log[j]
        <3>1. disk[j].term \in Nat /\ disk'[j].term \in Nat
            BY DEF TypeOK
        <3>2. \A k \in 1 .. Len(log[j]) : log[j][k].term \in Nat
            <4> TAKE k \in 1 .. Len(log[j])
            <4>1. log[j] \in Seq(Entry)
                BY DEF TypeOK
            <4>2. log[j][k] \in Entry
                BY <4>1
            <4> QED
                BY <4>2 DEF Entry
        <3>3. /\ Derived(log[j], won, master)
              /\ \A k \in 1 .. Len(log[j]) : log[j][k].term <= disk[j].term
            BY <1>1 DEF LogsDerived
        <3> QED
            BY <2>1, <3>1, <3>2, <3>3
    <2>2. CASE log'[j] # log[j]
        BY <2>2
    <2> QED
        BY <2>1, <2>2
<1>4. CallsDerived(won, master)' /\ ReturnsInRange(won, master)'
    BY <1>1 DEF CallsDerived, CallDerived, ReturnsInRange, ReturnInRange, TermAt
<1> QED
    BY <1>2, <1>3, <1>4 DEF LogInv

\* The same for a step that changes no log and gives no leader a new index.
LEMMA LogsSame ==
    ASSUME TypeOK, TypeOK', NEW votes, NEW new, Grows(votes, new), NEW won, NEW master,
           LogInv(votes, won, master), UNCHANGED log,
           \A j \in Server :
                /\ currentTerm[j] <= currentTerm'[j] /\ disk[j].term <= disk'[j].term
                /\ state'[j] = LEADER =>
                    /\ state[j] = LEADER /\ currentTerm'[j] = currentTerm[j]
                    /\ nextIdx'[j] = nextIdx[j],
           \A m \in DOMAIN net' :
                m.type \in {"AppendEntries", "AppendEntriesReply"} => m \in DOMAIN net
    PROVE  LogInv(new, won, master)'
<1>1. NextInRange'
    BY DEF LogInv, NextInRange, Others
<1> QED
    BY <1>1, LogsFrame

\* i leads in term t with the log l, which was old before: it has just won, or led already.
Led(won, master, w, s, i, t, old, l) ==
    /\ Extended(won, master, w, s)
    /\ won[t] = Nil \/ (won[t] = i /\ master[t] = old)
    /\ w[t] = i /\ s[t] = l
    /\ \A u \in Nat : u # t => w[u] = won[u] /\ s[u] = master[u]

\* A step after which i leads and has only appended entries of its term: its log is the
\* log of the winner of that term.
LEMMA LogsLed ==
    ASSUME TypeOK, TypeOK', LogDurable, NEW votes, NEW new, Grows(votes, new), VoteInv(new)',
           NEW won, NEW master, LogInv(votes, won, master), NextInRange', UNCHANGED currentTerm,
           NEW i \in Server, state'[i] = LEADER, disk'[i].term = currentTerm[i],
           Len(log[i]) <= Len(log'[i]), \A x \in 1 .. Len(log[i]) : log'[i][x] = log[i][x],
           \A x \in Len(log[i]) + 1 .. Len(log'[i]) : log'[i][x].term = currentTerm[i],
           \A j \in Server : j # i =>
                /\ log'[j] = log[j] /\ disk'[j].term = disk[j].term
                /\ state'[j] = LEADER => state[j] = LEADER,
           \A m \in DOMAIN net' :
                m.type \in {"AppendEntries", "AppendEntriesReply"} => m \in DOMAIN net
    PROVE  \E w, s : /\ Led(won, master, w, s, i, currentTerm[i], log[i], log'[i])
                      /\ LogInv(new, w, s)'
<1>t. /\ \A j \in Server : currentTerm[j] \in Nat /\ log[j] \in Seq(Entry) /\ log'[j] \in Seq(Entry)
      /\ DOMAIN net \subseteq Message
    BY DEF TypeOK
<1>i. /\ OneWinner(votes, won, master) /\ LogsDerived(won, master)
      /\ CallsDerived(won, master) /\ ReturnsInRange(won, master)
    BY DEF LogInv
<1>0. won \in [Nat -> Server \cup {Nil}] /\ master \in [Nat -> Seq(Entry)] /\ won[0] = Nil
    BY <1>i DEF OneWinner
<1>1. PICK t \in Nat : t = currentTerm[i]
    BY <1>t
<1>2. PICK l \in Seq(Entry) : l = log'[i]
    BY <1>t
<1>3. Majority(Cardinality(Voters(new, t, i))) /\ t # 0 /\ new \in History
    <2>1. votedFor'[i] = i /\ Majority(Cardinality(Voters(new, t, i)))
        BY <1>1 DEF VoteInv, LeadersElected, Majority, Voters
    <2>2. new[t][i] = i /\ new[0][i] = Nil /\ new \in History
        BY <1>1, <2>1 DEF VoteInv, RecordsVotes
    <2> QED
        BY <2>1, <2>2, NilAssumption
<1>4. won[t] = Nil \/ (won[t] = i /\ master[t] = log[i])
    <2> SUFFICES ASSUME won[t] # Nil PROVE won[t] = i /\ master[t] = log[i]
        OBVIOUS
    <2>1. won[t] \in Server /\ Majority(Cardinality(Voters(votes, t, won[t])))
        BY <1>i, <1>0 DEF OneWinner
    <2>2. Majority(Cardinality(Voters(new, t, won[t])))
        BY <2>1, VotersGrow, MajorityGrows
    <2>3. won[t] = i
        BY <1>3, <2>1, <2>2, OneMajority
    <2> QED
        BY <1>i, <1>1, <2>3 DEF OneWinner
<1> DEFINE w == [won EXCEPT ![t] = i]
           s == [master EXCEPT ![t] = l]
<1>5. /\ w \in [Nat -> Server \cup {Nil}] /\ s \in [Nat -> Seq(Entry)]
      /\ w[t] = i /\ s[t] = l
    BY <1>0
<1>6. \A u \in Nat : u # t => w[u] = won[u] /\ s[u] = master[u]
    BY <1>0
<1> HIDE DEF w, s
<1>7. Extended(won, master, w, s)
    <2> SUFFICES ASSUME NEW u \in Nat, won[u] # Nil
                 PROVE  /\ w[u] = won[u] /\ Len(master[u]) <= Len(s[u])
                        /\ \A x \in 1 .. Len(master[u]) : s[u][x] = master[u][x]
        BY <1>0, <1>5 DEF Extended
    <2>1. CASE u = t
        <3>1. won[u] = i /\ master[u] = log[i] /\ w[u] = i /\ s[u] = l
            BY <1>4, <1>5, <2>1
        <3>2. Len(log[i]) <= Len(l) /\ \A x \in 1 .. Len(log[i]) : l[x] = log[i][x]
            BY <1>2
        <3> QED
            BY <3>1, <3>2
    <2>2. CASE u # t
        <3>1. Len(master[u]) \in Nat
            <4>1. master[u] \in Seq(Entry)
                BY <1>0
            <4> QED
                BY <4>1
        <3> QED
            BY <1>6, <2>2, <3>1
    <2> QED
        BY <2>1, <2>2
<1>8. OneWinner(new, w, s)'
    <2>1. \A u \in Nat : won[u] # Nil =>
                u <= currentTerm[won[u]] /\ Majority(Cardinality(Voters(new, u, won[u])))
        <3>1. \A j \in Server : currentTerm[j] <= currentTerm'[j]
            BY <1>t
        <3> QED
            BY <1>i, <3>1, WinnersKept
    <2>2. \A u \in Nat : w[u] # Nil =>
                u <= currentTerm'[w[u]] /\ Majority(Cardinality(Voters(new, u, w[u])))
        <3> TAKE u \in Nat
        <3>1. CASE u = t
            <4>1. w[u] = i /\ currentTerm'[i] = t /\ t <= t
                BY <1>1, <1>5, <3>1
            <4> QED
                BY <1>3, <3>1, <4>1
        <3>2. CASE u # t
            BY <1>6, <2>1, <3>2
        <3> QED
            BY <3>1, <3>2
    <2>3. ASSUME NEW j \in Server PROVE state'[j] = LEADER => w[currentTerm'[j]] = j
        <3>1. CASE j = i
            BY <1>1, <1>5, <3>1
        <3>2. CASE j # i
            <4>1. state'[j] = LEADER => won[currentTerm[j]] = j /\ currentTerm[j] # t
                BY <1>i, <1>4, <3>2, NilAssumption DEF OneWinner
            <4> QED
                BY <1>t, <1>6, <4>1
        <3> QED
            BY <3>1, <3>2
    <2>4. ASSUME NEW j \in Server, w[currentTerm'[j]] = j PROVE s[currentTerm'[j]] = log'[j]
        <3>1. CASE j = i
            BY <1>1, <1>2, <1>5, <3>1
        <3>2. CASE j # i
            <4>1. currentTerm[j] # t
                BY <1>5, <2>4, <3>2
            <4>2. won[currentTerm[j]] = j
                BY <1>t, <1>6, <2>4, <4>1
            <4>3. master[currentTerm[j]] = log[j]
                BY <1>i, <4>2 DEF OneWinner
            <4> QED
                BY <1>t, <1>6, <3>2, <4>1, <4>3
        <3> QED
            BY <3>1, <3>2
    <2>5. w[0] = Nil
        BY <1>0, <1>3, <1>6
    <2> QED
        BY <1>5, <2>2, <2>3, <2>4, <2>5 DEF OneWinner, Voters, Majority
<1>9. \A k \in 1 .. Len(l) : l[k].term <= t
    <2> TAKE k \in 1 .. Len(l)
    <2>1. Len(log[i]) \in Nat /\ Len(l) \in Nat
        BY <1>t
    <2>2. CASE k <= Len(log[i])
        <3>1. k \in 1 .. Len(log[i])
            BY <2>1, <2>2
        <3>2. log[i][k] \in Entry
            BY <1>t, <3>1
        <3>3. log[i][k].term \in Nat /\ disk[i].term \in Nat
            BY <3>2 DEF Entry, TypeOK
        <3>4. log[i][k].term <= disk[i].term /\ disk[i].term <= t
            BY <1>i, <1>1, <3>1 DEF LogsDerived, LogDurable
        <3>5. l[k] = log[i][k]
            BY <1>2, <3>1
        <3> QED
            BY <3>3, <3>4, <3>5
    <2>3. CASE k > Len(log[i])
        BY <1>1, <1>2, <2>1, <2>3
    <2> QED
        BY <2>1, <2>2, <2>3
<1>10. Derived(l, w, s)
    <2> SUFFICES ASSUME NEW k \in 1 .. Len(l)
                 PROVE  /\ w[l[k].term] # Nil /\ k <= Len(s[l[k].term])
                        /\ \A x \in 1 .. k : s[l[k].term][x] = l[x] /\ l[x].term <= l[k].term
        BY DEF Derived
    <2>1. Len(log[i]) \in Nat /\ Len(l) \in Nat
        BY <1>t
    <2>2. CASE k <= Len(log[i])
        <3>1. k \in 1 .. Len(log[i]) /\ \A x \in 1 .. k : l[x] = log[i][x]
            BY <1>2, <2>1, <2>2
        <3>2. Derived(log[i], w, s)
            BY <1>t, <1>i, <1>7, DerivedKept DEF LogsDerived
        <3>3. /\ w[log[i][k].term] # Nil /\ k <= Len(s[log[i][k].term])
              /\ \A x \in 1 .. k : s[log[i][k].term][x] = log[i][x] /\ log[i][x].term <= log[i][k].term
            BY <3>1, <3>2 DEF Derived
        <3>4. l[k] = log[i][k]
            BY <3>1
        <3> QED
            BY <3>1, <3>3, <3>4
    <2>3. CASE k > Len(log[i])
        <3>1. l[k].term = t
            BY <1>1, <1>2, <2>1, <2>3
        <3>2. \A x \in 1 .. k : x \in 1 .. Len(l)
            BY <2>1
        <3>3. k <= Len(l)
            BY <2>1
        <3> QED
            BY <1>5, <1>9, <3>1, <3>2, <3>3, NilAssumption
    <2> QED
        BY <2>1, <2>2, <2>3
<1>11. LogsDerived(w, s)'
    <2>1. ASSUME NEW u \in Nat
          PROVE  Derived(s[u], w, s) /\ \A k \in 1 .. Len(s[u]) : s[u][k].term <= u
        <3>1. CASE u = t
            BY <1>5, <1>9, <1>10, <3>1
        <3>2. CASE u # t
            <4>1. /\ master[u] \in Seq(Entry) /\ Derived(master[u], won, master)
                  /\ \A k \in 1 .. Len(master[u]) : master[u][k].term <= u
                BY <1>i, <1>0 DEF LogsDerived
            <4>2. Derived(master[u], w, s)
                BY <1>7, <4>1, DerivedKept
            <4> QED
                BY <1>6, <3>2, <4>1, <4>2
        <3> QED
            BY <3>1, <3>2
    <2>2. ASSUME NEW j \in Server
          PROVE  /\ Derived(log'[j], w, s)
                 /\ \A k \in 1 .. Len(log'[j]) : log'[j][k].term <= disk'[j].term
        <3>1. CASE j = i
            BY <1>1, <1>2, <1>9, <1>10, <3>1
        <3>2. CASE j # i
            <4>1. /\ Derived(log[j], won, master)
                  /\ \A k \in 1 .. Len(log[j]) : log[j][k].term <= disk[j].term
                BY <1>i DEF LogsDerived
            <4>2. Derived(log[j], w, s)
                BY <1>t, <1>7, <4>1, DerivedKept
            <4> QED
                BY <3>2, <4>1, <4>2
        <3> QED
            BY <3>1, <3>2
    <2> QED
        BY <2>1, <2>2 DEF LogsDerived, Derived
<1>12. CallsDerived(w, s)'
    <2> SUFFICES ASSUME NEW m \in DOMAIN net', m.type = "AppendEntries"
                 PROVE  CallDerived(m, w, s)
        BY DEF CallsDerived, CallDerived, TermAt
    <2>1. m \in Message /\ CallDerived(m, won, master)
        BY <1>t, <1>i DEF CallsDerived
    <2> QED
        BY <1>7, <2>1, FlightKept
<1>13. ReturnsInRange(w, s)'
    <2> SUFFICES ASSUME NEW m \in DOMAIN net', m.type = "AppendEntriesReply"
                 PROVE  ReturnInRange(m, w, s)
        BY DEF ReturnsInRange, ReturnInRange
    <2>1. m \in Message /\ ReturnInRange(m, won, master)
        BY <1>t, <1>i DEF ReturnsInRange
    <2> QED
        BY <1>7, <2>1, FlightKept
<1>14. LogInv(new, w, s)'
    BY <1>8, <1>11, <1>12, <1>13 DEF LogInv
<1>15. Led(won, master, w, s, i, currentTerm[i], log[i], log'[i])
    BY <1>1, <1>2, <1>4, <1>5, <1>6, <1>7 DEF Led
<1> QED
    BY <1>14, <1>15

-------------------------------------------------------------------------------------
(* The steps.                                                                        *)

\* persist moves the saved term of its server forward.
LEMMA SavedTerm ==
    ASSUME TypeOK, NEW i \in Server, NEW term \in Nat, NEW l, persist(i, term, l),
           disk[i].term <= term
    PROVE  /\ disk'[i].term = term /\ \A j \in Server : j # i => disk'[j] = disk[j]
           /\ \A j \in Server : disk[j].term <= disk'[j].term
<1>1. disk'[i] = Saved(term, l) /\ \A j \in Server : j # i => disk'[j] = disk[j]
    BY DEF TypeOK, persist
<1>2. disk'[i].term = term
    BY <1>1 DEF Saved
<1>3. \A j \in Server : disk[j].term \in Nat
    BY DEF TypeOK
<1> QED
    BY <1>1, <1>2, <1>3

LEMMA LogTypes ==
    ASSUME TypeOK, LogDurable, NEW j \in Server
    PROVE  /\ log[j] \in Seq(Entry) /\ Len(log[j]) \in Nat /\ currentTerm[j] \in Nat
           /\ disk[j].term \in Nat /\ disk[j].term <= currentTerm[j]
<1>1. log[j] \in Seq(Entry)
    BY DEF TypeOK
<1>2. Len(log[j]) \in Nat
    BY <1>1
<1> QED
    BY <1>1, <1>2 DEF TypeOK, LogDurable

\* What follows position p of a log.
LEMMA SuffixAt ==
    ASSUME NEW l \in Seq(Entry), NEW p \in 0 .. Len(l)
    PROVE  LET es == SubSeq(l, p + 1, Len(l)) IN
           Len(es) = Len(l) - p /\ \A x \in 1 .. Len(es) : es[x] = l[p + x]
<1>1. Len(l) \in Nat /\ p \in Nat
    OBVIOUS
<1>2. CASE p + 1 > Len(l)
    BY <1>1, <1>2
<1>3. CASE p + 1 <= Len(l)
    BY <1>1, <1>3
<1> QED
    BY <1>1, <1>2, <1>3

LEMMA TermsStay ==
    ASSUME TypeOK, UNCHANGED disk
    PROVE  \A j \in Server : disk[j].term <= disk'[j].term
<1>1. \A j \in Server : disk[j].term \in Nat
    BY DEF TypeOK
<1> QED
    BY <1>1

\* A call that is copied in time goes out as it was prepared.
LEMMA NothingShown ==
    ASSUME IsABag(net), NEW i, NEW l, \A m \in DOMAIN net : Waits(i, m) => Shown(m, l) = m
    PROVE  Overwritten(net, i, l) = net
<1> DEFINE at(m) == IF Waits(i, m) THEN Shown(m, l) ELSE m
<1>1. \A m \in DOMAIN net : at(m) = m
    OBVIOUS
<1>2. Overwritten(net, i, l) =
        [x \in {at(m) : m \in DOMAIN net} |-> net[CHOOSE m \in DOMAIN net : at(m) = x]]
    BY DEF Overwritten
<1> HIDE DEF at
<1>3. {at(m) : m \in DOMAIN net} = DOMAIN net
    BY <1>1
<1>4. ASSUME NEW x \in DOMAIN net
      PROVE  net[CHOOSE m \in DOMAIN net : at(m) = x] = net[x]
    <2> DEFINE c == CHOOSE m \in DOMAIN net : at(m) = x
    <2>1. c \in DOMAIN net /\ at(c) = x
        BY <1>1
    <2> HIDE DEF c
    <2>2. c = x
        BY <1>1, <2>1
    <2> QED
        BY <2>2 DEF c
<1>5. net = [x \in DOMAIN net |-> net[x]]
    BY DEF IsABag
<1> QED
    BY <1>2, <1>3, <1>4, <1>5

LEMMA NothingOverwritten ==
    ASSUME TypeOK, CopyStep, NEW i \in Server, UNCHANGED restarts
    PROVE  Overwritten(net, i, log'[i]) = net
BY NothingShown DEF CopyStep, TypeOK

LEMMA AcceptInTime ==
    ASSUME TypeOK, CopyStep, NEW i \in Server, NEW m, AppendEntries(i, m), AcceptEntries(i, m)
    PROVE  Overwritten(net, i, Spliced(log[i], m)) = net
<1>1. UNCHANGED restarts
    BY DEF AppendEntries
<1>2. log'[i] = Spliced(log[i], m)
    BY DEF AcceptEntries, TypeOK
<1> QED
    BY <1>1, <1>2, NothingOverwritten

LEMMA StartInTime ==
    ASSUME TypeOK, CopyStep, NEW i \in Server, NEW c, Start(i, c)
    PROVE  net' = net
<1>1. UNCHANGED restarts /\ net' = Overwritten(net, i, log'[i])
    BY DEF Start, TypeOK
<1> QED
    BY <1>1, NothingOverwritten

\* The copy says what the call said.
LEMMA CopySays ==
    ASSUME TypeOK, NEW m \in DOMAIN net, SendCopy(m), NEW r, r = [m EXCEPT !.copied = TRUE]
    PROVE  /\ net' = Send(Drop(net, m), {r}) /\ m \in Message
           /\ m.type = "AppendEntries" /\ r.type = "AppendEntries" /\ r # m
           /\ r.from = m.from /\ r.to = m.to /\ r.inc = m.inc /\ r.term = m.term
           /\ r.prevIdx = m.prevIdx /\ r.prevTerm = m.prevTerm
           /\ r.entries = m.entries /\ r.commit = m.commit
<1>1. m \in Message /\ m.type = "AppendEntries" /\ ~m.copied
    BY DEF TypeOK, SendCopy
<1>2. r.copied
    BY <1>1 DEF Message
<1> QED
    BY <1>1, <1>2 DEF SendCopy, Message

\* The ticker, the election and apply goroutines and the network.
LEMMA LogsLocal ==
    ASSUME TypeOK, TypeOK', LogDurable, NEW votes, NEW new, Grows(votes, new),
           NEW won, NEW master, LogInv(votes, won, master),
           \/ \E i \in Server : Ticker(i) \/ ElectionGoroutine(i) \/ LeaderPersist(i) \/ Apply(i)
           \/ \E m \in DOMAIN net : Lose(m)
           \/ UNCHANGED vars
    PROVE  LogInv(new, won, master)'
<1> USE DEF raftVars, tickVars, leaderVars, diskVars
<1>t. /\ currentTerm \in [Server -> Nat] /\ IsABag(net)
      /\ state \in [Server -> {FOLLOWER, CANDIDATE, LEADER}]
      /\ \A j \in Server : currentTerm[j] \in Nat /\ disk[j].term <= currentTerm[j]
      /\ \A j \in Server : currentTerm[j] + 1 \in Nat /\ disk[j].term <= currentTerm[j] + 1
    <2>1. \A j \in Server : disk[j].term \in Nat /\ disk[j].term <= currentTerm[j]
        BY DEF TypeOK, LogDurable
    <2>2. \A j \in Server : currentTerm[j] \in Nat
        BY DEF TypeOK
    <2>3. \A j \in Server : currentTerm[j] + 1 \in Nat /\ disk[j].term <= currentTerm[j] + 1
        BY <2>1, <2>2
    <2> QED
        BY <2>1, <2>2, <2>3 DEF TypeOK
<1>1. UNCHANGED log /\ UNCHANGED nextIdx
    BY DEF Ticker, FollowerTimeout, TickCandidate, CandidateWin, CandidateBackOff, TickLeader,
           LeaderPersist, ElectionGoroutine, Apply, Lose, vars
<1>2. \A j \in Server : /\ currentTerm[j] <= currentTerm'[j]
                        /\ state'[j] = LEADER =>
                                state[j] = LEADER /\ currentTerm'[j] = currentTerm[j]
    <2>1. CASE \E i \in Server : TickCandidate(i)
        <3>1. PICK i \in Server : TickCandidate(i)
            BY <2>1
        <3>2. /\ currentTerm' = [currentTerm EXCEPT ![i] = @ + 1] /\ UNCHANGED state
              /\ state[i] # LEADER
            BY <3>1 DEF TickCandidate, CANDIDATE, LEADER
        <3> QED
            BY <1>t, <3>2
    <2>2. CASE ~\E i \in Server : TickCandidate(i)
        <3>1. UNCHANGED currentTerm
            BY <2>2 DEF Ticker, FollowerTimeout, CandidateWin, CandidateBackOff, TickLeader,
                        LeaderPersist, ElectionGoroutine, Apply, Lose, vars
        <3>2. \A j \in Server : state'[j] = LEADER => state[j] = LEADER
            BY <1>t, <2>2 DEF Ticker, FollowerTimeout, CandidateWin, CandidateBackOff, TickLeader,
                        LeaderPersist, ElectionGoroutine, Apply, Lose, vars,
                        FOLLOWER, CANDIDATE, LEADER
        <3> QED
            BY <1>t, <3>1, <3>2
    <2> QED
        BY <2>1, <2>2
<1>3. \A j \in Server : disk[j].term <= disk'[j].term
    <2>1. ASSUME NEW i \in Server, FollowerTimeout(i) \/ LeaderPersist(i)
          PROVE  \A j \in Server : disk[j].term <= disk'[j].term
        <3>1. persist(i, currentTerm[i], log[i])
            BY <2>1 DEF FollowerTimeout, LeaderPersist
        <3> QED
            BY <1>t, <3>1, SavedTerm
    <2>2. ASSUME NEW i \in Server, TickCandidate(i)
          PROVE  \A j \in Server : disk[j].term <= disk'[j].term
        <3>1. persist(i, currentTerm[i] + 1, log[i])
            BY <2>2 DEF TickCandidate
        <3> QED
            BY <1>t, <3>1, SavedTerm
    <2>3. CASE UNCHANGED disk
        BY <2>3, TermsStay
    <2> QED
        BY <2>1, <2>2, <2>3 DEF Ticker, CandidateWin, CandidateBackOff, TickLeader,
                                ElectionGoroutine, Apply, Lose, vars
<1>4. \A m \in DOMAIN net' : m.type \in {"AppendEntries", "AppendEntriesReply"} => m \in DOMAIN net
    <2>1. CASE net' = net
        BY <2>1
    <2>2. ASSUME NEW m \in DOMAIN net, Lose(m) PROVE DOMAIN net' \subseteq DOMAIN net
        BY <1>t, <2>2, DropBag DEF Lose
    <2>3. ASSUME NEW i \in Server, ElectionGoroutine(i), NEW m \in DOMAIN net', m \notin DOMAIN net
          PROVE  m.type = "RequestVote"
        <3> DEFINE S == {VoteCall(i, j) : j \in Others(i)}
        <3>1. net' = Send(net, S)
            BY <2>3 DEF ElectionGoroutine
        <3>2. \A x \in S : x.type = "RequestVote"
            BY DEF VoteCall
        <3> HIDE DEF S
        <3>3. DOMAIN net' = DOMAIN net \cup S
            BY <1>t, <3>1, SendBag
        <3> QED
            BY <2>3, <3>2, <3>3
    <2> QED
        BY <2>1, <2>2, <2>3 DEF Ticker, FollowerTimeout, TickCandidate, CandidateWin,
                                CandidateBackOff, TickLeader, LeaderPersist, Apply, vars
<1> QED
    BY <1>1, <1>2, <1>3, <1>4, LogsSame

\* Copying the entries of a call.
LEMMA LogsCopy ==
    ASSUME TypeOK, TypeOK', NEW votes, NEW new, Grows(votes, new),
           NEW won, NEW master, LogInv(votes, won, master), NEW m \in DOMAIN net, SendCopy(m)
    PROVE  LogInv(new, won, master)'
<1>1. PICK r : r = [m EXCEPT !.copied = TRUE]
    OBVIOUS
<1>2. /\ net' = Send(Drop(net, m), {r}) /\ r.type = "AppendEntries" /\ r.type = m.type
      /\ r.from = m.from /\ r.to = m.to /\ r.term = m.term /\ r.prevIdx = m.prevIdx
      /\ r.prevTerm = m.prevTerm /\ r.entries = m.entries
    BY <1>1, CopySays
<1>3. CallDerived(r, won, master)
    BY <1>2 DEF LogInv, CallsDerived, CallDerived
<1>4. DOMAIN net' \subseteq DOMAIN net \cup {r}
    BY <1>2, ReplyBag DEF TypeOK
<1>5. UNCHANGED <<currentTerm, log, state, nextIdx, disk>>
    BY DEF SendCopy, raftVars, leaderVars, diskVars
<1>6. NextInRange'
    BY <1>5 DEF LogInv, NextInRange, Others
<1>7. \A j \in Server : currentTerm[j] <= currentTerm'[j]
    BY <1>5 DEF TypeOK
<1> QED
    BY <1>2, <1>3, <1>4, <1>5, <1>6, <1>7, TermsStay, LogsFrame

\* A restart that forgets no vote reads the whole log back.
LEMMA LogsRestart ==
    ASSUME TypeOK, TypeOK', LogDurable, NEW votes, NEW new, Grows(votes, new),
           NEW won, NEW master, LogInv(votes, won, master),
           NEW i \in Server, Restart(i), disk[i].term = currentTerm[i]
    PROVE  LogInv(new, won, master)'
<1>1. /\ currentTerm' = [currentTerm EXCEPT ![i] = disk[i].term]
      /\ log' = [log EXCEPT ![i] = disk[i].log] /\ state' = [state EXCEPT ![i] = FOLLOWER]
      /\ nextIdx' = [nextIdx EXCEPT ![i] = [j \in Server |-> 0]] /\ UNCHANGED <<disk, net>>
    BY DEF Restart, readPersist
<1>2. disk[i].log = log[i]
    BY DEF LogDurable
<1>3. UNCHANGED <<log, currentTerm>>
    BY <1>1, <1>2 DEF TypeOK
<1>4. \A j \in Server : currentTerm[j] <= currentTerm'[j]
    BY <1>3 DEF TypeOK
<1>5. \A j \in Server : state'[j] = LEADER => state[j] = LEADER /\ nextIdx'[j] = nextIdx[j]
    <2> TAKE j \in Server
    <2>1. CASE j = i
        BY <1>1, <2>1 DEF TypeOK, FOLLOWER, LEADER
    <2>2. CASE j # i
        BY <1>1, <2>2 DEF TypeOK
    <2> QED
        BY <2>1, <2>2
<1> QED
    BY <1>1, <1>3, <1>4, <1>5, TermsStay, LogsSame

\* RequestVote takes over a term and touches no log.
LEMMA LogsVote ==
    ASSUME TypeOK, TypeOK', NEW votes, NEW new, Grows(votes, new),
           NEW won, NEW master, LogInv(votes, won, master),
           NEW i \in Server, NEW m \in DOMAIN net, RequestVote(i, m)
    PROVE  LogInv(new, won, master)'
<1>1. UNCHANGED <<log, nextIdx, disk>> /\ m.type = "RequestVote"
    BY DEF RequestVote, leaderVars, diskVars
<1>2. PICK r : r.type = "RequestVoteReply" /\ net' = Send(Drop(net, m), {r})
    BY DEF RequestVote, VoteReturn
<1>3. DOMAIN net' \subseteq DOMAIN net \cup {r}
    BY <1>2, ReplyBag DEF TypeOK
<1>4. \A x \in DOMAIN net' : x.type \in {"AppendEntries", "AppendEntriesReply"} => x \in DOMAIN net
    BY <1>2, <1>3
<1>5. ASSUME NEW j \in Server
      PROVE  /\ currentTerm[j] <= currentTerm'[j]
             /\ state'[j] = LEADER => state[j] = LEADER /\ currentTerm'[j] = currentTerm[j]
    <2>t. /\ currentTerm \in [Server -> Nat] /\ currentTerm[j] \in Nat
          /\ state \in [Server -> {FOLLOWER, CANDIDATE, LEADER}] /\ m \in Message
        BY DEF TypeOK
    <2>1. CASE UNCHANGED <<currentTerm, state>>
        BY <2>t, <2>1
    <2>2. CASE ~UNCHANGED <<currentTerm, state>>
        <3>1. /\ m.term >= currentTerm[i] /\ currentTerm' = [currentTerm EXCEPT ![i] = m.term]
              /\ state' = [state EXCEPT ![i] = IF m.term > currentTerm[i] THEN FOLLOWER ELSE @]
            BY <2>2 DEF RequestVote
        <3>2. m.term \in Nat
            BY <1>1, <2>t DEF Message
        <3>3. CASE j = i
            BY <2>t, <3>1, <3>2, <3>3 DEF FOLLOWER, LEADER
        <3>4. CASE j # i
            BY <2>t, <3>1, <3>4
        <3> QED
            BY <3>3, <3>4
    <2> QED
        BY <2>1, <2>2
<1> QED
    BY <1>1, <1>4, <1>5, TermsStay, LogsSame

\* Start appends to the log of the winner of its term.
LEMMA LogsStart ==
    ASSUME TypeOK, TypeOK', LogDurable, CopyStep, NEW votes, NEW new, Grows(votes, new), VoteInv(new)',
           NEW won, NEW master, LogInv(votes, won, master),
           NEW i \in Server, NEW c \in Command, Start(i, c)
    PROVE  \E w, s : /\ Led(won, master, w, s, i, currentTerm[i], log[i], log'[i])
                      /\ LogInv(new, w, s)'
<1>t. /\ log[i] \in Seq(Entry) /\ log \in [Server -> Seq(Entry)] /\ currentTerm[i] \in Nat
      /\ disk[i].term <= currentTerm[i] /\ Len(log[i]) \in Nat
    BY LogTypes DEF TypeOK
<1> DEFINE e == [term |-> currentTerm[i], cmd |-> c]
           l == Append(log[i], e)
<1>1. /\ state[i] = LEADER /\ log' = [log EXCEPT ![i] = l] /\ persist(i, currentTerm[i], l)
      /\ UNCHANGED <<currentTerm, state, nextIdx, net>>
    BY StartInTime DEF Start, leaderVars
<1>2. e \in Entry /\ e.term = currentTerm[i]
    BY <1>t DEF Entry
<1> HIDE DEF e
<1>3. /\ Len(l) = Len(log[i]) + 1 /\ \A x \in 1 .. Len(log[i]) : l[x] = log[i][x]
      /\ l[Len(log[i]) + 1] = e
    BY <1>t, <1>2
<1> HIDE DEF l
<1>4. log'[i] = l /\ \A j \in Server : j # i => log'[j] = log[j]
    BY <1>t, <1>1
<1>5. disk'[i].term = currentTerm[i] /\ \A j \in Server : j # i => disk'[j] = disk[j]
    BY <1>t, <1>1, SavedTerm
<1>6. /\ Len(log[i]) <= Len(log'[i]) /\ \A x \in 1 .. Len(log[i]) : log'[i][x] = log[i][x]
      /\ \A x \in Len(log[i]) + 1 .. Len(log'[i]) : log'[i][x].term = currentTerm[i]
    BY <1>t, <1>2, <1>3, <1>4
<1>7. NextInRange'
    <2> SUFFICES ASSUME NEW j \in Server, state[j] = LEADER, NEW k \in Others(j)
                 PROVE  nextIdx[j][k] \in 1 .. Len(log'[j]) + 1
        BY <1>1 DEF NextInRange, Others
    <2>1. nextIdx[j][k] \in 1 .. Len(log[j]) + 1
        BY DEF LogInv, NextInRange
    <2>2. CASE j = i
        BY <1>t, <1>3, <1>4, <2>1, <2>2
    <2>3. CASE j # i
        BY <1>4, <2>1, <2>3
    <2> QED
        BY <2>2, <2>3
<1> QED
    BY <1>1, <1>4, <1>5, <1>6, <1>7, LogsLed

\* The last vote makes a winner; every other return leaves the logs alone.
LEMMA LogsVoteReturn ==
    ASSUME TypeOK, TypeOK', LogDurable, NEW votes, NEW new, Grows(votes, new), VoteInv(new)',
           NEW won, NEW master, LogInv(votes, won, master),
           NEW i \in Server, NEW m \in DOMAIN net, sendRequestVote(i, m)
    PROVE  \/ LogInv(new, won, master)'
           \/ /\ WinElection(i) /\ UNCHANGED currentTerm
              /\ \E w, s : /\ Led(won, master, w, s, i, currentTerm[i], log[i], log'[i])
                           /\ LogInv(new, w, s)'
<1>t. /\ \A j \in Server : currentTerm[j] \in Nat /\ disk[j].term <= currentTerm[j]
      /\ currentTerm \in [Server -> Nat] /\ m \in Message /\ IsABag(net)
      /\ state \in [Server -> {FOLLOWER, CANDIDATE, LEADER}]
      /\ nextIdx \in [Server -> [Server -> Nat]]
      /\ \A j \in Server : Len(log[j]) \in Nat
    BY LogTypes DEF TypeOK
<1>1. m.type = "RequestVoteReply" /\ net' = Drop(net, m) /\ UNCHANGED log
    BY DEF sendRequestVote, raftVars
<1>2. \A x \in DOMAIN net' : x.type \in {"AppendEntries", "AppendEntriesReply"} => x \in DOMAIN net
    BY <1>t, <1>1, DropBag
<1>3. CASE UNCHANGED <<currentTerm, state, nextIdx, disk>>
    <2>1. LogInv(new, won, master)'
        BY <1>t, <1>1, <1>2, <1>3, TermsStay, LogsSame
    <2> QED
        BY <2>1
<1>4. CASE /\ m.term > currentTerm[i] /\ currentTerm' = [currentTerm EXCEPT ![i] = m.term]
           /\ state' = [state EXCEPT ![i] = FOLLOWER] /\ UNCHANGED <<nextIdx, disk>>
    <2>1. m.term \in Nat
        BY <1>t, <1>1 DEF Message
    <2>2. ASSUME NEW j \in Server
          PROVE  /\ currentTerm[j] <= currentTerm'[j]
                 /\ state'[j] = LEADER => state[j] = LEADER /\ currentTerm'[j] = currentTerm[j]
        <3>1. CASE j = i
            BY <1>t, <1>4, <2>1, <3>1 DEF FOLLOWER, LEADER
        <3>2. CASE j # i
            BY <1>t, <1>4, <3>2
        <3> QED
            BY <3>1, <3>2
    <2>3. LogInv(new, won, master)'
        BY <1>1, <1>2, <1>4, <2>2, TermsStay, LogsSame
    <2> QED
        BY <2>3
<1>5. CASE WinElection(i) /\ UNCHANGED currentTerm
    <2>1. /\ persist(i, currentTerm[i], log[i]) /\ state' = [state EXCEPT ![i] = LEADER]
          /\ nextIdx' = [nextIdx EXCEPT ![i] = [j \in Server |-> Len(log[i]) + 1]]
        BY <1>5 DEF WinElection
    <2>2. disk'[i].term = currentTerm[i] /\ \A j \in Server : j # i => disk'[j] = disk[j]
        BY <1>t, <2>1, SavedTerm
    <2>3. state'[i] = LEADER /\ \A j \in Server : j # i => state'[j] = state[j]
        BY <1>t, <2>1
    <2>4. NextInRange'
        <3> SUFFICES ASSUME NEW j \in Server, state'[j] = LEADER, NEW k \in Others(j)
                     PROVE  nextIdx'[j][k] \in 1 .. Len(log[j]) + 1
            BY <1>1 DEF NextInRange, Others
        <3>1. CASE j = i
            BY <1>t, <2>1, <3>1 DEF Others
        <3>2. CASE j # i
            BY <1>t, <2>1, <2>3, <3>2 DEF LogInv, NextInRange
        <3> QED
            BY <3>1, <3>2
    <2>5. /\ Len(log[i]) <= Len(log'[i]) /\ \A x \in 1 .. Len(log[i]) : log'[i][x] = log[i][x]
          /\ \A x \in Len(log[i]) + 1 .. Len(log'[i]) : log'[i][x].term = currentTerm[i]
        BY <1>t, <1>1
    <2> QED
        BY <1>1, <1>2, <1>5, <2>2, <2>3, <2>4, <2>5, LogsLed
<1> QED
    BY <1>3, <1>4, <1>5 DEF sendRequestVote, raftVars

\* A leader sends what follows nextIdx - 1 in its log.
LEMMA LogsBroadcast ==
    ASSUME TypeOK, TypeOK', NEW votes, NEW new, Grows(votes, new),
           NEW won, NEW master, LogInv(votes, won, master), NEW i \in Server, broadcastHeartbeat(i)
    PROVE  LogInv(new, won, master)'
<1> DEFINE peers == {j \in Others(i) : state[i] = LEADER /\ nextIdx[i][j] > 0}
           S == {AppendCall(i, j) : j \in peers}
<1>1. /\ net' = Send(net, S) /\ UNCHANGED <<currentTerm, log, state, nextIdx, disk>>
    BY DEF broadcastHeartbeat, raftVars, leaderVars, diskVars
<1>2. ASSUME NEW m \in S PROVE m.type = "AppendEntries" /\ CallDerived(m, won, master)
    <2>1. PICK j \in peers : m = AppendCall(i, j)
        OBVIOUS
    <2>2. j \in Server /\ j # i /\ state[i] = LEADER /\ j \in Others(i)
        BY DEF Others
    <2>3. won[currentTerm[i]] = i /\ master[currentTerm[i]] = log[i]
        BY <2>2 DEF LogInv, OneWinner
    <2>4. nextIdx[i][j] \in 1 .. Len(log[i]) + 1
        BY <2>2 DEF LogInv, NextInRange
    <2>5. log[i] \in Seq(Entry) /\ Len(log[i]) \in Nat
        BY DEF TypeOK
    <2> DEFINE prev == nextIdx[i][j] - 1
               es == SubSeq(log[i], prev + 1, Len(log[i]))
    <2>6. prev \in 0 .. Len(log[i]) /\ prev \in Nat
        BY <2>4, <2>5
    <2>7. /\ m.type = "AppendEntries" /\ m.from = i /\ m.to = j /\ m.term = currentTerm[i]
          /\ m.prevIdx = prev /\ m.prevTerm = TermAt(log[i], prev) /\ m.entries = es
        BY <2>1 DEF AppendCall
    <2> HIDE DEF prev
    <2>8. /\ Len(es) = Len(log[i]) - prev
          /\ \A x \in 1 .. Len(es) : es[x] = log[i][prev + x]
        BY <2>5, <2>6, SuffixAt
    <2> HIDE DEF es
    <2>9. prev + Len(es) <= Len(log[i])
        BY <2>5, <2>6, <2>8
    <2> QED
        BY <2>2, <2>3, <2>7, <2>8, <2>9 DEF CallDerived
<1> HIDE DEF S
<1>3. DOMAIN net' = DOMAIN net \cup S
    BY <1>1, SendBag DEF TypeOK
<1>4. NextInRange'
    BY <1>1 DEF LogInv, NextInRange, Others
<1>5. \A j \in Server : currentTerm[j] <= currentTerm'[j]
    BY <1>1 DEF TypeOK
<1> QED
    BY <1>1, <1>2, <1>3, <1>4, <1>5, TermsStay, LogsFrame

-------------------------------------------------------------------------------------
(* AppendEntries.                                                                    *)

\* Two logs with the same term at an index have the same past up to it.
LEMMA SamePast ==
    ASSUME NEW won, NEW master, NEW a, NEW b, Derived(a, won, master), Derived(b, won, master),
           NEW k \in 1 .. Len(a), k \in 1 .. Len(b), a[k].term = b[k].term
    PROVE  \A x \in 1 .. k : a[x] = b[x]
<1>1. \A x \in 1 .. k : master[a[k].term][x] = a[x]
    BY DEF Derived
<1>2. \A x \in 1 .. k : master[b[k].term][x] = b[x]
    BY DEF Derived
<1> QED
    BY <1>1, <1>2

\* The beginning of a winner's log is a good log.
LEMMA PrefixDerived ==
    ASSUME NEW won, NEW master, NEW l, NEW L, Derived(L, won, master),
           Len(l) \in Nat, Len(L) \in Nat, Len(l) <= Len(L),
           \A x \in 1 .. Len(l) : l[x] = L[x]
    PROVE  Derived(l, won, master)
<1> SUFFICES ASSUME NEW k \in 1 .. Len(l)
             PROVE  /\ won[l[k].term] # Nil /\ k <= Len(master[l[k].term])
                    /\ \A x \in 1 .. k : master[l[k].term][x] = l[x] /\ l[x].term <= l[k].term
    BY DEF Derived
<1>1. k \in 1 .. Len(L) /\ \A x \in 1 .. k : l[x] = L[x]
    OBVIOUS
<1>2. /\ won[L[k].term] # Nil /\ k <= Len(master[L[k].term])
      /\ \A x \in 1 .. k : master[L[k].term][x] = L[x] /\ L[x].term <= L[k].term
    BY <1>1 DEF Derived
<1>3. l[k] = L[k]
    OBVIOUS
<1> QED
    BY <1>1, <1>2, <1>3

LEMMA ConcatAt ==
    ASSUME NEW a \in Seq(Entry), NEW b \in Seq(Entry)
    PROVE  /\ Len(a \o b) = Len(a) + Len(b) /\ \A x \in 1 .. Len(a) : (a \o b)[x] = a[x]
           /\ \A x \in Len(a) + 1 .. Len(a) + Len(b) : (a \o b)[x] = b[x - Len(a)]
<1>1. Len(a) \in Nat /\ Len(b) \in Nat
    OBVIOUS
<1>2. Len(a \o b) = Len(a) + Len(b)
    BY <1>1
<1>3. ASSUME NEW x \in 1 .. Len(a) PROVE (a \o b)[x] = a[x]
    BY <1>1
<1>4. ASSUME NEW x \in Len(a) + 1 .. Len(a) + Len(b) PROVE (a \o b)[x] = b[x - Len(a)]
    BY <1>1
<1> QED
    BY <1>2, <1>3, <1>4

\* The log l cut behind p, followed by the entries es: what AppendEntries keeps.
SpliceOf(l, p, es) == SubSeq(l, 1, p) \o es

\* l is the beginning of L.
Begins(l, L) == Len(l) \in Nat /\ Len(l) <= Len(L) /\ \A x \in 1 .. Len(l) : l[x] = L[x]

\* The splice of l at p is the beginning of L when both of its parts agree with L.
LEMMA SpliceAt ==
    ASSUME NEW l \in Seq(Entry), NEW L \in Seq(Entry), NEW es \in Seq(Entry), NEW p \in Nat,
           p <= Len(l), p + Len(es) <= Len(L), \A x \in 1 .. p : l[x] = L[x],
           \A x \in 1 .. Len(es) : es[x] = L[p + x]
    PROVE  Begins(SpliceOf(l, p, es), L)
<1>1. Len(l) \in Nat /\ Len(L) \in Nat /\ Len(es) \in Nat
    OBVIOUS
<1> DEFINE pre == SubSeq(l, 1, p)
<1>2. pre \in Seq(Entry) /\ Len(pre) = p /\ \A x \in 1 .. p : pre[x] = l[x]
    BY <1>1
<1> HIDE DEF pre
<1>3. /\ Len(pre \o es) = p + Len(es) /\ \A x \in 1 .. p : (pre \o es)[x] = pre[x]
      /\ \A x \in p + 1 .. p + Len(es) : (pre \o es)[x] = es[x - p]
    BY <1>2, ConcatAt
<1>4. \A x \in 1 .. p + Len(es) : (pre \o es)[x] = L[x]
    <2> TAKE x \in 1 .. p + Len(es)
    <2>1. CASE x <= p
        <3>1. x \in 1 .. p
            BY <1>1, <2>1
        <3>2. (pre \o es)[x] = pre[x] /\ pre[x] = l[x] /\ l[x] = L[x]
            BY <1>2, <1>3, <3>1
        <3> QED
            BY <3>2
    <2>2. CASE x > p
        <3>1. x \in p + 1 .. p + Len(es) /\ x - p \in 1 .. Len(es) /\ p + (x - p) = x
            BY <1>1, <2>2
        <3> QED
            BY <1>3, <3>1
    <2>3. x <= p \/ x > p
        BY <1>1
    <2> QED
        BY <2>1, <2>2, <2>3
<1> QED
    BY <1>1, <1>3, <1>4 DEF pre, SpliceOf, Begins

\* The entries of a call, put behind the index that its check matched, make the beginning
\* of the log of the winner, although the check looks at a single index.
LEMMA SplicedLog ==
    ASSUME NEW won, NEW master, NEW l \in Seq(Entry), NEW L \in Seq(Entry),
           Derived(l, won, master), NEW m, m.prevIdx \in Nat, m.entries \in Seq(Entry),
           L = master[m.term], CallDerived(m, won, master), Derived(L, won, master), Matches(l, m)
    PROVE  /\ Len(Spliced(l, m)) \in Nat /\ Len(Spliced(l, m)) <= Len(L)
           /\ \A x \in 1 .. Len(Spliced(l, m)) : Spliced(l, m)[x] = L[x]
<1> DEFINE p == m.prevIdx
           es == m.entries
<1>1. /\ p + Len(es) <= Len(L) /\ m.prevTerm = TermAt(L, p)
      /\ \A x \in 1 .. Len(es) : es[x] = L[p + x]
    BY DEF CallDerived
<1>2. p <= Len(l) /\ TermAt(l, p) = TermAt(L, p)
    BY <1>1 DEF Matches
<1>3. p \in Nat /\ es \in Seq(Entry)
    OBVIOUS
<1> HIDE DEF p, es
<1>4. \A x \in 1 .. p : l[x] = L[x]
    <2>1. CASE p = 0
        BY <2>1
    <2>2. CASE p # 0
        <3>1. Len(l) \in Nat /\ Len(L) \in Nat /\ Len(es) \in Nat
            BY <1>3
        <3>2. p \in 1 .. Len(l) /\ p \in 1 .. Len(L)
            BY <1>1, <1>2, <1>3, <2>2, <3>1
        <3>3. l[p].term = L[p].term
            BY <1>2, <2>2 DEF TermAt
        <3> QED
            BY <3>2, <3>3, SamePast
    <2> QED
        BY <2>1, <2>2
<1>5. Spliced(l, m) = SpliceOf(l, p, es)
    BY DEF Spliced, SpliceOf, p, es
<1>6. Begins(SpliceOf(l, p, es), L)
    BY ONLY l \in Seq(Entry), L \in Seq(Entry), <1>1, <1>2, <1>3, <1>4, SpliceAt, Zenon
<1> QED
    BY <1>5, <1>6 DEF Begins

\* The dummy element ends the backward loop before it reaches the bottom, so the index
\* that a conflict returns is in the log.
LEMMA ConflictInLog ==
    ASSUME NEW l \in Seq(Entry), NEW p \in 1 .. Len(l), l[p].term # 0
    PROVE  ConflictStart(l, p) \in 1 .. p
<1> DEFINE other == {k \in 0 .. p - 1 : TermAt(l, k) # TermAt(l, p)}
<1>1. p \in Nat /\ p # 0 /\ p - 1 \in Nat
    OBVIOUS
<1>2. 0 \in other
    BY <1>1 DEF TermAt
<1>3. Max(other) \in other
    BY <1>1, <1>2, MaxInSet
<1>4. Max(other) \in 0 .. p - 1
    BY <1>3
<1>5. ConflictStart(l, p) = Max(other) + 1
    BY <1>2 DEF ConflictStart
<1> HIDE DEF other
<1> QED
    BY <1>1, <1>4, <1>5

LEMMA ReplyInRange ==
    ASSUME NEW won, NEW master, NEW m \in Message, m.type = "AppendEntries",
           CallDerived(m, won, master), Len(master[m.term]) \in Nat,
           NEW term \in Nat, NEW b \in BOOLEAN, NEW nextTry \in Nat,
           ~b /\ term <= m.term => nextTry >= 1 /\ nextTry <= Len(master[m.term])
    PROVE  /\ AppendReturn(m, term, b, nextTry).type = "AppendEntriesReply"
           /\ ReturnInRange(AppendReturn(m, term, b, nextTry), won, master)
<1> DEFINE r == AppendReturn(m, term, b, nextTry)
           last == IF m.entries = <<>> THEN 0 ELSE m.prevIdx + Len(m.entries)
<1>1. /\ r.type = "AppendEntriesReply" /\ r.argTerm = m.term /\ r.to = m.from /\ r.last = last
      /\ r.success = b /\ r.term = term /\ r.nextTry = nextTry
    BY DEF AppendReturn
<1> HIDE DEF r
<1>2. won[m.term] = m.from /\ m.prevIdx + Len(m.entries) <= Len(master[m.term])
    BY DEF CallDerived
<1>3. last <= Len(master[m.term])
    BY <1>2
<1> HIDE DEF last
<1>4. ReturnInRange(r, won, master)
    BY <1>1, <1>2, <1>3 DEF ReturnInRange
<1> QED
    BY <1>1, <1>4 DEF r

\* The handler: the index it returns after a refusal lies in the log of the winner, and the
\* log it accepts is the beginning of it. The winner itself never gets such a call.
LEMMA LogsAppend ==
    ASSUME TypeOK, TypeOK', LogDurable, CopyStep, NEW votes, NEW new, Grows(votes, new),
           NEW won, NEW master, LogInv(votes, won, master),
           NEW i \in Server, NEW m \in DOMAIN net, m.to = i, AppendEntries(i, m)
    PROVE  LogInv(new, won, master)'
<1>i. /\ OneWinner(votes, won, master) /\ LogsDerived(won, master)
      /\ CallsDerived(won, master) /\ NextInRange
    BY DEF LogInv
<1>t. /\ currentTerm \in [Server -> Nat] /\ m \in Message /\ IsABag(net)
      /\ state \in [Server -> {FOLLOWER, CANDIDATE, LEADER}] /\ log \in [Server -> Seq(Entry)]
      /\ \A j \in Server : currentTerm[j] \in Nat /\ disk[j].term \in Nat
    BY DEF TypeOK
<1>1. m.type = "AppendEntries" /\ CallDerived(m, won, master) /\ UNCHANGED nextIdx
    BY <1>i DEF AppendEntries, CallsDerived, leaderVars
<1>2. /\ m.term \in Nat /\ m.prevIdx \in Nat /\ m.entries \in Seq(Entry)
      /\ Len(m.entries) \in Nat
    <2>1. m.term \in Nat /\ m.prevIdx \in Nat /\ m.entries \in Seq(Entry)
        BY <1>t, <1>1 DEF Message
    <2> QED
        BY <2>1
<1>3. PICK L \in Seq(Entry) : L = master[m.term]
    BY <1>i, <1>2 DEF OneWinner
<1>4. /\ won[m.term] = m.from /\ m.from # i /\ m.prevIdx <= Len(L) /\ Len(L) \in Nat
      /\ Len(master[m.term]) \in Nat
    <2>1. Len(L) \in Nat
        OBVIOUS
    <2> QED
        BY <1>1, <1>2, <1>3, <2>1 DEF CallDerived
<1>5. log[i] \in Seq(Entry) /\ Len(log[i]) \in Nat /\ disk[i].term <= currentTerm[i]
    BY LogTypes
<1> DEFINE Reply(term, b, nextTry) ==
        net' = Send(Drop(net, m), {AppendReturn(m, term, b, nextTry)})
<1>6. ASSUME NEW term \in Nat, NEW b \in BOOLEAN, NEW nextTry \in Nat,
             ~b /\ term <= m.term => nextTry >= 1 /\ nextTry <= Len(L), Reply(term, b, nextTry)
      PROVE  \A x \in DOMAIN net' :
                /\ x.type = "AppendEntries" => x \in DOMAIN net
                /\ x.type = "AppendEntriesReply" =>
                        x \in DOMAIN net \/ ReturnInRange(x, won, master)
    <2>1. PICK r : r = AppendReturn(m, term, b, nextTry)
        OBVIOUS
    <2>2. r.type = "AppendEntriesReply" /\ ReturnInRange(r, won, master)
        BY <1>t, <1>1, <1>3, <1>4, <1>6, <2>1, ReplyInRange
    <2>3. DOMAIN net' \subseteq DOMAIN net \cup {r}
        BY <1>t, <1>6, <2>1, ReplyBag
    <2> QED
        BY <2>2, <2>3
<1> HIDE DEF Reply
<1>7. CASE m.term < currentTerm[i]
    <2>1. /\ Reply(currentTerm[i], FALSE, Len(log[i]) + 1)
          /\ UNCHANGED <<currentTerm, log, state, disk>>
        BY <1>t, <1>2, <1>7 DEF AppendEntries, Reply
    <2>2. Len(log[i]) + 1 \in Nat /\ ~(currentTerm[i] <= m.term)
        BY <1>t, <1>2, <1>5, <1>7
    <2>3. \A x \in DOMAIN net' :
                /\ x.type = "AppendEntries" => x \in DOMAIN net
                /\ x.type = "AppendEntriesReply" =>
                        x \in DOMAIN net \/ ReturnInRange(x, won, master)
        BY <1>t, <1>6, <2>1, <2>2
    <2>4. NextInRange'
        BY <1>i, <1>1, <2>1 DEF NextInRange, Others
    <2>5. \A j \in Server : currentTerm[j] <= currentTerm'[j]
        BY <1>t, <2>1
    <2> QED
        BY <2>1, <2>3, <2>4, <2>5, TermsStay, LogsFrame
<1>8. CASE m.term >= currentTerm[i]
    <2>1. /\ currentTerm' = [currentTerm EXCEPT ![i] = m.term]
          /\ state' = [state EXCEPT ![i] = IF m.term > currentTerm[i] THEN FOLLOWER ELSE @]
        BY <1>t, <1>2, <1>8 DEF AppendEntries
    <2>2. \A j \in Server : j # i => state'[j] = state[j] /\ currentTerm'[j] = currentTerm[j]
        BY <1>t, <2>1
    <2>3. state'[i] # LEADER /\ currentTerm'[i] = m.term
        <3>1. currentTerm'[i] = m.term
            BY <1>t, <2>1
        <3>2. CASE m.term > currentTerm[i]
            BY <1>t, <2>1, <3>1, <3>2 DEF FOLLOWER, LEADER
        <3>3. CASE m.term = currentTerm[i]
            <4>1. state'[i] = state[i]
                BY <1>t, <2>1, <3>3
            <4>2. state[i] = LEADER => won[m.term] = i
                BY <1>i, <3>3 DEF OneWinner
            <4> QED
                BY <1>4, <3>1, <4>1, <4>2
        <3> QED
            BY <1>t, <1>2, <1>8, <3>2, <3>3
    <2>4. ASSUME NEW j \in Server
          PROVE  /\ currentTerm[j] <= currentTerm'[j]
                 /\ state'[j] = LEADER => state[j] = LEADER /\ currentTerm'[j] = currentTerm[j]
        <3>1. currentTerm[j] \in Nat
            BY <1>t
        <3>2. CASE j = i
            BY <1>2, <1>8, <2>3, <3>1, <3>2
        <3>3. CASE j # i
            BY <2>2, <3>1, <3>3
        <3> QED
            BY <3>2, <3>3
    <2>5. ASSUME \A j \in Server : j # i => log'[j] = log[j] PROVE NextInRange'
        BY <1>i, <1>1, <2>2, <2>3, <2>5 DEF NextInRange, Others
    <2>6. ASSUME UNCHANGED <<log, disk>>, NEW nextTry \in Nat, nextTry >= 1, nextTry <= Len(L),
                 Reply(m.term, FALSE, nextTry)
          PROVE  LogInv(new, won, master)'
        <3>1. \A x \in DOMAIN net' :
                /\ x.type = "AppendEntries" => x \in DOMAIN net
                /\ x.type = "AppendEntriesReply" =>
                        x \in DOMAIN net \/ ReturnInRange(x, won, master)
            BY <1>2, <1>6, <2>6
        <3>2. NextInRange'
            BY <2>5, <2>6
        <3> QED
            BY <2>4, <2>6, <3>1, <3>2, TermsStay, LogsFrame
    <2>7. CASE m.prevIdx > Len(log[i]) /\ Reply(m.term, FALSE, Len(log[i]) + 1) /\ UNCHANGED <<log, disk>>
        <3>1. Len(log[i]) + 1 \in Nat /\ Len(log[i]) + 1 >= 1 /\ Len(log[i]) + 1 <= Len(L)
            BY <1>2, <1>4, <1>5, <2>7
        <3> QED
            BY <2>6, <2>7, <3>1
    <2>8. CASE /\ m.prevIdx <= Len(log[i]) /\ ~Matches(log[i], m)
               /\ Reply(m.term, FALSE, ConflictStart(log[i], m.prevIdx)) /\ UNCHANGED <<log, disk>>
        <3>1. m.prevIdx # 0
            BY <1>1, <2>8 DEF Matches, CallDerived, TermAt
        <3>2. m.prevIdx \in 1 .. Len(log[i])
            BY <1>2, <1>5, <2>8, <3>1
        <3>3. log[i][m.prevIdx].term # 0
            BY <1>i, <3>2 DEF LogsDerived, Derived, OneWinner
        <3>4. ConflictStart(log[i], m.prevIdx) \in 1 .. m.prevIdx
            BY <1>5, <3>2, <3>3, ConflictInLog
        <3>5. /\ ConflictStart(log[i], m.prevIdx) \in Nat /\ ConflictStart(log[i], m.prevIdx) >= 1
              /\ ConflictStart(log[i], m.prevIdx) <= Len(L)
            BY <1>2, <1>4, <3>4
        <3> QED
            BY <2>6, <2>8, <3>5
    <2>9. CASE /\ Matches(log[i], m) /\ AcceptEntries(i, m)
               /\ Reply(m.term, TRUE, m.prevIdx + Len(m.entries))
        <3> DEFINE l == Spliced(log[i], m)
        <3>1. log' = [log EXCEPT ![i] = l] /\ persist(i, m.term, l)
            BY <2>9 DEF AcceptEntries
        <3>2. Derived(log[i], won, master) /\ Derived(L, won, master)
              /\ \A k \in 1 .. Len(L) : L[k].term <= m.term
            BY <1>i, <1>2, <1>3 DEF LogsDerived
        <3>3. /\ Len(l) \in Nat /\ Len(l) <= Len(L) /\ \A x \in 1 .. Len(l) : l[x] = L[x]
            BY <1>1, <1>2, <1>3, <1>5, <2>9, <3>2, SplicedLog
        <3> HIDE DEF l
        <3>4. Derived(l, won, master)
            BY <1>4, <3>2, <3>3, PrefixDerived
        <3>5. \A k \in 1 .. Len(l) : l[k].term <= m.term
            BY <1>4, <3>2, <3>3
        <3>6. disk[i].term <= m.term
            BY <1>t, <1>2, <1>5, <1>8
        <3>7. disk'[i].term = m.term /\ \A j \in Server : disk[j].term <= disk'[j].term
            BY <1>2, <3>1, <3>6, SavedTerm
        <3>8. log'[i] = l /\ \A j \in Server : j # i => log'[j] = log[j]
            BY <1>t, <3>1
        <3>9. NextInRange'
            BY <2>5, <3>8
        <3>10. \A x \in DOMAIN net' :
                /\ x.type = "AppendEntries" => x \in DOMAIN net
                /\ x.type = "AppendEntriesReply" =>
                        x \in DOMAIN net \/ ReturnInRange(x, won, master)
            <4>1. m.prevIdx + Len(m.entries) \in Nat
                BY <1>2
            <4> QED
                BY <1>2, <1>6, <2>9, <4>1
        <3>11. ASSUME NEW j \in Server
               PROVE  \/ log'[j] = log[j]
                      \/ /\ Derived(log'[j], won, master) /\ won[currentTerm'[j]] # j
                         /\ \A k \in 1 .. Len(log'[j]) : log'[j][k].term <= disk'[j].term
            <4>1. CASE j = i
                BY <1>4, <2>3, <3>4, <3>5, <3>7, <3>8, <4>1
            <4>2. CASE j # i
                BY <3>8, <4>2
            <4> QED
                BY <4>1, <4>2
        <3> QED
            BY <2>4, <3>7, <3>9, <3>10, <3>11, LogsFrame
    <2>10. AcceptEntries(i, m) => Overwritten(net, i, Spliced(log[i], m)) = net
        BY AcceptInTime
    <2> QED
        BY <1>t, <1>2, <1>8, <2>7, <2>8, <2>9, <2>10 DEF AppendEntries, Reply
<1> QED
    BY <1>t, <1>2, <1>7, <1>8

\* A return that counts moves nextIdx inside the log of the leader.
LEMMA LogsAppendReturn ==
    ASSUME TypeOK, TypeOK', LogDurable, NEW votes, NEW new, Grows(votes, new),
           NEW won, NEW master, LogInv(votes, won, master),
           NEW i \in Server, NEW m \in DOMAIN net, m.to = i, sendAppendEntries(i, m)
    PROVE  LogInv(new, won, master)'
<1>i. OneWinner(votes, won, master) /\ ReturnsInRange(won, master) /\ NextInRange
    BY DEF LogInv
<1>t. /\ currentTerm \in [Server -> Nat] /\ m \in Message /\ IsABag(net)
      /\ state \in [Server -> {FOLLOWER, CANDIDATE, LEADER}]
      /\ nextIdx \in [Server -> [Server -> Nat]]
      /\ \A j \in Server : currentTerm[j] \in Nat
    BY DEF TypeOK
<1>1. m.type = "AppendEntriesReply" /\ net' = Drop(net, m) /\ UNCHANGED log
    BY DEF sendAppendEntries
<1>2. /\ m.term \in Nat /\ m.last \in Nat /\ m.nextTry \in Nat /\ m.from \in Server
      /\ ReturnInRange(m, won, master)
    BY <1>i, <1>t, <1>1 DEF Message, ReturnsInRange
<1>3. DOMAIN net' \subseteq DOMAIN net
    BY <1>t, <1>1, DropBag
<1>4. CASE ~AppendCounts(i, m)
    <2>1. UNCHANGED <<currentTerm, state, nextIdx, disk>>
        BY <1>4 DEF sendAppendEntries, leaderVars
    <2> QED
        BY <1>t, <1>1, <1>3, <2>1, TermsStay, LogsSame
<1>5. CASE AppendCounts(i, m) /\ m.term > currentTerm[i]
    <2>1. /\ currentTerm' = [currentTerm EXCEPT ![i] = m.term] /\ UNCHANGED nextIdx
          /\ state' = [state EXCEPT ![i] = FOLLOWER] /\ persist(i, m.term, log[i])
        BY <1>t, <1>2, <1>5 DEF sendAppendEntries, leaderVars
    <2>2. disk[i].term <= m.term
        BY <1>t, <1>2, <1>5, LogTypes
    <2>3. \A j \in Server : disk[j].term <= disk'[j].term
        BY <1>2, <2>1, <2>2, SavedTerm
    <2>4. ASSUME NEW j \in Server
          PROVE  /\ currentTerm[j] <= currentTerm'[j]
                 /\ state'[j] = LEADER => state[j] = LEADER /\ currentTerm'[j] = currentTerm[j]
        <3>1. CASE j = i
            BY <1>t, <1>2, <1>5, <2>1, <3>1 DEF FOLLOWER, LEADER
        <3>2. CASE j # i
            BY <1>t, <2>1, <3>2
        <3> QED
            BY <3>1, <3>2
    <2> QED
        BY <1>1, <1>3, <2>1, <2>3, <2>4, LogsSame
<1>6. CASE AppendCounts(i, m) /\ m.term <= currentTerm[i]
    <2>1. UNCHANGED <<currentTerm, state, disk>>
        BY <1>t, <1>2, <1>6 DEF sendAppendEntries
    <2>2. \/ m.success /\ m.last > 0 /\ nextIdx' = [nextIdx EXCEPT ![i][m.from] = m.last + 1]
          \/ UNCHANGED nextIdx
          \/ ~m.success /\ nextIdx' = [nextIdx EXCEPT ![i][m.from] = m.nextTry]
        BY <1>t, <1>2, <1>6 DEF sendAppendEntries, leaderVars
    <2>3. /\ won[m.argTerm] = i /\ m.argTerm = currentTerm[i] /\ master[m.argTerm] = log[i]
        BY <1>i, <1>2, <1>6 DEF AppendCounts, ReturnInRange, OneWinner
    <2>4. /\ Len(log[i]) \in Nat
          /\ m.success => m.last <= Len(log[i])
          /\ ~m.success => m.nextTry >= 1 /\ m.nextTry <= Len(log[i])
        BY <1>2, <1>6, <2>3, LogTypes DEF ReturnInRange
    <2>5. ASSUME NEW n \in Nat, n \in 1 .. Len(log[i]) + 1,
                 nextIdx' = [nextIdx EXCEPT ![i][m.from] = n]
          PROVE  NextInRange'
        <3> SUFFICES ASSUME NEW j \in Server, state[j] = LEADER, NEW k \in Others(j)
                     PROVE  nextIdx'[j][k] \in 1 .. Len(log[j]) + 1
            BY <1>1, <2>1 DEF NextInRange, Others
        <3>1. nextIdx[j][k] \in 1 .. Len(log[j]) + 1 /\ k \in Server
            BY <1>i DEF NextInRange, Others
        <3>2. CASE j = i /\ k = m.from
            BY <1>t, <1>2, <2>5, <3>1, <3>2
        <3>3. CASE ~(j = i /\ k = m.from)
            <4>1. nextIdx'[j][k] = nextIdx[j][k]
                BY <1>t, <1>2, <2>5, <3>1, <3>3
            <4> QED
                BY <3>1, <4>1
        <3> QED
            BY <3>2, <3>3
    <2>6. NextInRange'
        <3>1. CASE m.success /\ m.last > 0 /\ nextIdx' = [nextIdx EXCEPT ![i][m.from] = m.last + 1]
            <4>1. m.last + 1 \in Nat /\ m.last + 1 \in 1 .. Len(log[i]) + 1
                BY <1>2, <2>4, <3>1
            <4> QED
                BY <2>5, <3>1, <4>1
        <3>2. CASE UNCHANGED nextIdx
            BY <1>i, <1>1, <2>1, <3>2 DEF NextInRange, Others
        <3>3. CASE ~m.success /\ nextIdx' = [nextIdx EXCEPT ![i][m.from] = m.nextTry]
            <4>1. m.nextTry \in 1 .. Len(log[i]) + 1
                BY <1>2, <2>4, <3>3
            <4> QED
                BY <1>2, <2>5, <3>3, <4>1
        <3> QED
            BY <2>2, <3>1, <3>2, <3>3
    <2>7. \A j \in Server : currentTerm[j] <= currentTerm'[j]
        BY <1>t, <2>1
    <2> QED
        BY <1>1, <1>3, <2>1, <2>6, <2>7, TermsStay, LogsFrame
<1> QED
    BY <1>t, <1>2, <1>4, <1>5, <1>6

-------------------------------------------------------------------------------------
(* The log theorems.                                                                 *)

\* What the theorems rest on: the winners and their logs exist as histories.
Inv ==
    /\ TypeOK /\ LogDurable
    /\ \E votes, won, master : VoteInv(votes) /\ LogInv(votes, won, master)

\* In the first state nobody has won.
NoneWon(won, master) == won = [t \in Nat |-> Nil] /\ master = [t \in Nat |-> <<>>]

LEMMA LogsInit ==
    ASSUME Init, NEW votes, VoteInv(votes), NEW won, NEW master, NoneWon(won, master)
    PROVE  LogInv(votes, won, master)
<1>3. \A t \in Nat : won[t] = Nil /\ master[t] = <<>>
    BY DEF NoneWon
<1>4. won \in [Nat -> Server \cup {Nil}] /\ master \in [Nat -> Seq(Entry)]
    BY DEF NoneWon
<1>5. DOMAIN net = {}
    BY DEF Init, EmptyBag, SetToBag
<1>6. \A i \in Server : state[i] # LEADER /\ log[i] = <<>> /\ currentTerm[i] = 0
    BY DEF Init, FOLLOWER, LEADER
<1>7. OneWinner(votes, won, master)
    BY <1>3, <1>4, <1>6, NilAssumption DEF OneWinner
<1>8. LogsDerived(won, master)
    BY <1>3, <1>6 DEF LogsDerived, Derived
<1>9. CallsDerived(won, master) /\ ReturnsInRange(won, master) /\ NextInRange
    BY <1>5, <1>6 DEF CallsDerived, ReturnsInRange, NextInRange
<1> QED
    BY <1>7, <1>8, <1>9 DEF LogInv

LEMMA DurableInit == Init => LogDurable
<1> SUFFICES ASSUME Init PROVE LogDurable
    OBVIOUS
<1>1. disk = [i \in Server |-> Saved(0, <<>>)] /\ log = [i \in Server |-> <<>>]
      /\ currentTerm = [i \in Server |-> 0]
    BY DEF Init
<1> QED
    BY <1>1 DEF LogDurable, Saved

LEMMA InvInit == Init => Inv
<1> SUFFICES ASSUME Init PROVE Inv
    OBVIOUS
<1>1. PICK votes : VoteInv(votes)
    BY VotesInit
<1>2. PICK won, master : NoneWon(won, master)
    BY DEF NoneWon
<1>3. LogInv(votes, won, master)
    BY <1>1, <1>2, LogsInit
<1> QED
    BY <1>1, <1>3, TypeInit, DurableInit DEF Inv

LEMMA LogsNext ==
    ASSUME "election" \in Prompt, TypeOK, TypeOK', LogDurable, [Next]_vars, [SurvivesStep]_vars,
           [CopyStep]_vars,
           NEW votes, VoteInv(votes), NEW new, Grows(votes, new), VoteInv(new)',
           NEW won, NEW master, LogInv(votes, won, master)
    PROVE  \E w, s : LogInv(new, w, s)'
<1>1. ASSUME \/ \E i \in Server : Ticker(i) \/ ElectionGoroutine(i) \/ LeaderPersist(i) \/ Apply(i)
             \/ \E m \in DOMAIN net : Lose(m)
             \/ UNCHANGED vars
      PROVE  LogInv(new, won, master)'
    BY <1>1, LogsLocal
<1>2. ASSUME NEW i \in Server, broadcastHeartbeat(i) PROVE LogInv(new, won, master)'
    BY <1>2, LogsBroadcast
<1>3. ASSUME NEW i \in Server, NEW m \in DOMAIN net, Receive(i, m), ~UNCHANGED vars
      PROVE  \E w, s : LogInv(new, w, s)'
    <2>1. CASE RequestVote(i, m)
        BY <2>1, LogsVote
    <2>2. CASE sendRequestVote(i, m)
        BY <2>2, LogsVoteReturn
    <2>3. CASE AppendEntries(i, m)
        BY <1>3, <2>3, LogsAppend DEF Receive
    <2>4. CASE sendAppendEntries(i, m)
        BY <1>3, <2>4, LogsAppendReturn DEF Receive
    <2> QED
        BY <1>3, <2>1, <2>2, <2>3, <2>4 DEF Receive
<1>4. ASSUME NEW i \in Server, NEW c \in Command, Start(i, c), ~UNCHANGED vars
      PROVE  \E w, s : LogInv(new, w, s)'
    BY <1>4, LogsStart
<1>5. ASSUME NEW i \in Server, Restart(i), ~UNCHANGED vars PROVE LogInv(new, won, master)'
    <2>1. restarts'[i] # restarts[i]
        BY <1>5 DEF Restart, TypeOK
    <2>2. disk[i].term = currentTerm[i]
        BY <1>5, <2>1 DEF SurvivesStep
    <2> QED
        BY <1>5, <2>2, LogsRestart
<1>6. ASSUME NEW m \in DOMAIN net, SendCopy(m) PROVE LogInv(new, won, master)'
    BY <1>6, LogsCopy
<1> QED
    BY <1>1, <1>2, <1>3, <1>4, <1>5, <1>6 DEF Next, Step

LEMMA InvNext ==
    ASSUME "election" \in Prompt, Inv, [Next]_vars, [SurvivesStep]_vars, [CopyStep]_vars
    PROVE  Inv'
<1>1. TypeOK /\ TypeOK' /\ LogDurable /\ LogDurable'
    BY TypeNext, DurableNext DEF Inv
<1>2. PICK votes, won, master : VoteInv(votes) /\ LogInv(votes, won, master)
    BY DEF Inv
<1>3. PICK new : Grows(votes, new) /\ VoteInv(new)'
    BY <1>1, <1>2, VotesNext
<1>4. \E w, s : LogInv(new, w, s)'
    BY <1>1, <1>2, <1>3, LogsNext
<1> QED
    BY <1>1, <1>3, <1>4 DEF Inv

LEMMA InvLogsAgree == Inv => LogsAgree
<1> SUFFICES ASSUME Inv PROVE LogsAgree
    OBVIOUS
<1>1. PICK votes, won, master : LogInv(votes, won, master)
    BY DEF Inv
<1>2. \A i \in Server : log[i] \in Seq(Entry) /\ Len(log[i]) \in Nat /\ disk[i].term \in Nat
    BY LogTypes DEF Inv
<1>3. won[0] = Nil /\ \A i \in Server : Derived(log[i], won, master)
    BY <1>1 DEF LogInv, OneWinner, LogsDerived
<1>4. LogTermsOrdered
    <2> SUFFICES ASSUME NEW i \in Server, NEW k \in 1 .. Len(log[i])
                 PROVE  /\ log[i][k].term \in 1 .. disk[i].term
                        /\ \A l \in 1 .. k : log[i][l].term <= log[i][k].term
        BY DEF LogTermsOrdered
    <2>1. log[i][k] \in Entry
        BY <1>2
    <2>2. log[i][k].term \in Nat
        BY <2>1 DEF Entry
    <2>3. log[i][k].term <= disk[i].term
        BY <1>1 DEF LogInv, LogsDerived
    <2>4. log[i][k].term # 0 /\ \A l \in 1 .. k : log[i][l].term <= log[i][k].term
        BY <1>3 DEF Derived
    <2> QED
        BY <1>2, <2>2, <2>3, <2>4
<1>5. LogMatching
    <2> SUFFICES ASSUME NEW i \in Server, NEW j \in Server,
                        NEW k \in 1 .. Min({Len(log[i]), Len(log[j])}),
                        log[i][k].term = log[j][k].term
                 PROVE  SubSeq(log[i], 1, k) = SubSeq(log[j], 1, k)
        BY DEF LogMatching
    <2> DEFINE a == Len(log[i])
               b == Len(log[j])
    <2>1. a \in Nat /\ b \in Nat
        BY <1>2
    <2>2. Min({a, b}) <= a /\ Min({a, b}) <= b /\ Min({a, b}) \in Nat
        <3> HIDE DEF a, b
        <3>1. \E x \in {a, b} : \A y \in {a, b} : x <= y
            BY <2>1
        <3>2. Min({a, b}) = CHOOSE x \in {a, b} : \A y \in {a, b} : x <= y
            BY DEF Min
        <3>3. Min({a, b}) \in {a, b} /\ \A y \in {a, b} : Min({a, b}) <= y
            BY <3>1, <3>2
        <3> QED
            BY <2>1, <3>3
    <2>3. k \in 1 .. Len(log[i]) /\ k \in 1 .. Len(log[j])
        BY <2>1, <2>2
    <2>4. \A x \in 1 .. k : log[i][x] = log[j][x]
        BY <1>3, <2>3, SamePast
    <2> QED
        BY <1>2, <2>3, <2>4
<1> QED
    BY <1>4, <1>5 DEF LogsAgree

\* Logs keep their terms in order and share their past from any index whose term they
\* agree on (what AppendEntries and RequestVote rely on), in clusters of any size and with
\* calls that are lost, late and out of order: AppendEntries cuts whatever follows an
\* index it compared, but what it leaves is always the beginning of one leader's log.
THEOREM LogsShareTheirPast ==
    ASSUME "election" \in Prompt
    PROVE  Spec /\ VotesSurvive /\ CopiesInTime => []LogsAgree
<1>1. Init => Inv
    BY InvInit
<1>2. Inv /\ [Next]_vars /\ [SurvivesStep]_vars /\ [CopyStep]_vars => Inv'
    BY InvNext
<1> QED
    BY <1>1, <1>2, InvLogsAgree, PTL DEF Spec, VotesSurvive, CopiesInTime

\* A leader's nextIdx stays inside its log, whatever the returns of its calls say and in
\* which order they arrive: broadcastHeartbeat never skips a peer, and never reads
\* rf.log[PrevLogIdx] out of range.
THEOREM BroadcastInRange ==
    ASSUME "election" \in Prompt
    PROVE  Spec /\ VotesSurvive /\ CopiesInTime => []NextInRange
<1>1. Init => Inv
    BY InvInit
<1>2. Inv /\ [Next]_vars /\ [SurvivesStep]_vars /\ [CopyStep]_vars => Inv'
    BY InvNext
<1>3. Inv => NextInRange
    BY DEF Inv, LogInv
<1> QED
    BY <1>1, <1>2, <1>3, PTL DEF Spec, VotesSurvive, CopiesInTime

LEMMA LeaderAppendsNext ==
    ASSUME Inv, [Next]_vars PROVE \A i \in Server : OnlyAppends(i)
<1> SUFFICES ASSUME NEW i \in Server, state[i] = LEADER, state'[i] = LEADER,
                    currentTerm'[i] = currentTerm[i]
             PROVE  KeepsFirst(i, Len(log[i]))
    BY DEF OnlyAppends
<1> USE DEF raftVars
<1>t. log[i] \in Seq(Entry) /\ Len(log[i]) \in Nat
    BY LogTypes DEF Inv
<1>l. log \in [Server -> Seq(Entry)] /\ state \in [Server -> {FOLLOWER, CANDIDATE, LEADER}]
      /\ DOMAIN net \subseteq Message /\ currentTerm \in [Server -> Nat]
    BY DEF Inv, TypeOK
<1>1. CASE log'[i] = log[i]
    BY <1>t, <1>1 DEF KeepsFirst
<1>2. ASSUME NEW j \in Server, NEW c \in Command, Start(j, c), log'[i] # log[i]
      PROVE  KeepsFirst(i, Len(log[i]))
    <2> DEFINE e == [term |-> currentTerm[j], cmd |-> c]
    <2>1. i = j
        BY <1>l, <1>2 DEF Start
    <2>2. log'[i] = Append(log[i], e)
        BY <1>l, <1>2, <2>1 DEF Start
    <2>3. e \in Entry
        BY <1>l DEF Entry
    <2> HIDE DEF e
    <2> QED
        BY <1>t, <2>2, <2>3 DEF KeepsFirst
<1>3. ASSUME NEW j \in Server, NEW m \in DOMAIN net, m.to = j, AppendEntries(j, m),
             log'[i] # log[i]
      PROVE  FALSE
    <2>1. /\ i = j /\ m.term >= currentTerm[j] /\ m.type = "AppendEntries"
          /\ currentTerm' = [currentTerm EXCEPT ![j] = m.term]
        BY <1>l, <1>3 DEF AppendEntries, AcceptEntries
    <2>2. m.term = currentTerm[i]
        BY <1>l, <2>1
    <2>3. PICK votes, won, master : LogInv(votes, won, master)
        BY DEF Inv
    <2>4. won[m.term] = m.from /\ m.from # m.to
        BY <2>1, <2>3 DEF LogInv, CallsDerived, CallDerived
    <2>5. won[m.term] = i
        BY <2>2, <2>3 DEF LogInv, OneWinner
    <2> QED
        BY <1>3, <2>1, <2>4, <2>5
<1>4. ASSUME NEW j \in Server, Restart(j), log'[i] # log[i] PROVE FALSE
    <2>1. i = j
        BY <1>l, <1>4 DEF Restart, readPersist
    <2> QED
        BY <1>l, <1>4, <2>1 DEF Restart, FOLLOWER, LEADER
<1>5. CASE log'[i] # log[i]
    <2>1. ASSUME NEW j \in Server, NEW m \in DOMAIN net, Receive(j, m) PROVE KeepsFirst(i, Len(log[i]))
        <3>1. AppendEntries(j, m) /\ m.to = j
            BY <1>5, <2>1 DEF Receive, RequestVote, sendRequestVote, sendAppendEntries
        <3> QED
            BY <1>3, <1>5, <3>1
    <2>2. ASSUME NEW j \in Server, Ticker(j) PROVE FALSE
        BY <1>5, <2>2 DEF Ticker, FollowerTimeout, TickCandidate, CandidateWin, CandidateBackOff,
                          TickLeader
    <2>3. ASSUME NEW j \in Server,
                 ElectionGoroutine(j) \/ broadcastHeartbeat(j) \/ LeaderPersist(j) \/ Apply(j)
          PROVE  FALSE
        BY <1>5, <2>3 DEF ElectionGoroutine, broadcastHeartbeat, LeaderPersist, Apply
    <2>4. ASSUME NEW m \in DOMAIN net, Lose(m) PROVE FALSE
        BY <1>5, <2>4 DEF Lose
    <2>5. CASE UNCHANGED vars
        BY <1>5, <2>5 DEF vars
    <2>6. ASSUME NEW m \in DOMAIN net, SendCopy(m) PROVE FALSE
        BY <1>5, <2>6 DEF SendCopy
    <2> QED
        BY <1>2, <1>4, <1>5, <2>1, <2>2, <2>3, <2>4, <2>5, <2>6 DEF Next, Step
<1> QED
    BY <1>1, <1>5

\* A leader only appends to its log (the second part of LogsKept): AppendEntries does not
\* test for LEADER, but no call of its own term can reach the leader of that term.
THEOREM LeaderAppends ==
    ASSUME "election" \in Prompt
    PROVE  Spec /\ VotesSurvive /\ CopiesInTime => [][\A i \in Server : OnlyAppends(i)]_vars
<1>1. Init => Inv
    BY InvInit
<1>2. Inv /\ [Next]_vars /\ [SurvivesStep]_vars /\ [CopyStep]_vars => Inv'
    BY InvNext
<1>3. Inv /\ [Next]_vars => [\A i \in Server : OnlyAppends(i)]_vars
    BY LeaderAppendsNext
<1> QED
    BY <1>1, <1>2, <1>3, PTL DEF Spec, VotesSurvive, CopiesInTime

-------------------------------------------------------------------------------------
(* Where sendAppendEntries runs as soon as it is spawned, copies are in time.         *)

\* The slice of a call that waits shows the log as it is, and no call is of a life to come.
SlicesHold ==
    \A m \in DOMAIN net : m.type = "AppendEntries" =>
        /\ m.inc <= restarts[m.from]
        /\ Waits(m.from, m) => Shown(m, log[m.from]) = m

\* A step that leaves the logs alone and prepares only calls that show them.
LEMMA SlicesSame ==
    ASSUME SlicesHold, UNCHANGED <<log, restarts>>,
           \A m \in DOMAIN net' : m.type = "AppendEntries" =>
               m \in DOMAIN net \/ (m.inc <= restarts[m.from] /\ (~m.copied => Shown(m, log[m.from]) = m))
    PROVE  SlicesHold'
<1> SUFFICES ASSUME NEW m \in DOMAIN net', m.type = "AppendEntries"
             PROVE  /\ m.inc <= restarts'[m.from]
                    /\ Waits(m.from, m)' => Shown(m, log'[m.from]) = m
    BY DEF SlicesHold, Shown
<1>1. Waits(m.from, m)' => Waits(m.from, m) /\ ~m.copied
    BY DEF Waits
<1> QED
    BY <1>1 DEF SlicesHold

\* A call as broadcastHeartbeat prepares it.
LEMMA CallShows ==
    ASSUME TypeOK, NEW i \in Server, NEW j \in Server, nextIdx[i][j] \in 1 .. Len(log[i]) + 1
    PROVE  /\ AppendCall(i, j).inc <= restarts[AppendCall(i, j).from]
           /\ Shown(AppendCall(i, j), log[AppendCall(i, j).from]) = AppendCall(i, j)
<1>1. log[i] \in Seq(Entry) /\ Len(log[i]) \in Nat /\ restarts[i] \in Nat
    BY DEF TypeOK
<1> DEFINE prev == nextIdx[i][j] - 1
           es == SubSeq(log[i], prev + 1, Len(log[i]))
           m == AppendCall(i, j)
<1>2. prev \in 0 .. Len(log[i]) /\ prev \in Nat
    BY <1>1
<1>3. /\ m.from = i /\ m.inc = restarts[i] /\ m.prevIdx = prev /\ m.entries = es
      /\ m = [m EXCEPT !.entries = m.entries]
    BY DEF AppendCall
<1> HIDE DEF prev, m
<1>4. es \in Seq(Entry) /\ Len(es) = Len(log[i]) - prev
      /\ \A x \in 1 .. Len(es) : es[x] = log[i][prev + x]
    BY <1>1, <1>2, SuffixAt
<1> HIDE DEF es
<1>5. [k \in DOMAIN es |-> IF prev + k <= Len(log[i]) THEN log[i][prev + k] ELSE es[k]] = es
    <2>1. DOMAIN es = 1 .. Len(es) /\ es = [k \in DOMAIN es |-> es[k]]
        BY <1>4
    <2> QED
        BY <1>4, <2>1
<1>6. Shown(m, log[i]) = m
    BY <1>3, <1>5 DEF Shown
<1> QED
    BY <1>1, <1>3, <1>6 DEF m

LEMMA SlicesGoroutine ==
    ASSUME TypeOK, SlicesHold,
           \/ \E i \in Server :
                ElectionGoroutine(i) \/ broadcastHeartbeat(i) \/ LeaderPersist(i) \/ Apply(i)
           \/ \E m \in DOMAIN net : SendCopy(m)
    PROVE  SlicesHold' /\ UNCHANGED <<log, restarts>>
<1> USE DEF raftVars, diskVars
<1>t. IsABag(net) /\ DOMAIN net \subseteq Message
    BY DEF TypeOK
<1>0. UNCHANGED <<log, restarts>>
    BY DEF ElectionGoroutine, broadcastHeartbeat, LeaderPersist, Apply, SendCopy
<1>1. ASSUME NEW i \in Server, LeaderPersist(i) \/ Apply(i) PROVE SlicesHold'
    BY <1>0, <1>1, SlicesSame DEF LeaderPersist, Apply
<1>2. ASSUME NEW i \in Server, ElectionGoroutine(i) PROVE SlicesHold'
    <2> DEFINE S == {VoteCall(i, j) : j \in Others(i)}
    <2>1. net' = Send(net, S) /\ \A x \in S : x.type = "RequestVote"
        BY <1>2 DEF ElectionGoroutine, VoteCall
    <2> HIDE DEF S
    <2>2. DOMAIN net' = DOMAIN net \cup S
        BY <1>t, <2>1, SendBag
    <2> QED
        BY <1>0, <2>1, <2>2, SlicesSame
<1>3. ASSUME NEW i \in Server, broadcastHeartbeat(i) PROVE SlicesHold'
    <2> DEFINE peers == {j \in Others(i) : state[i] = LEADER /\ nextIdx[i][j] > 0}
               S == {AppendCall(i, j) : j \in peers}
    <2>1. net' = Send(net, S) /\ \A j \in peers : nextIdx[i][j] <= Len(log[i]) + 1
        BY <1>3 DEF broadcastHeartbeat
    <2>2. ASSUME NEW x \in S
          PROVE  x.inc <= restarts[x.from] /\ Shown(x, log[x.from]) = x
        <3>1. PICK j \in peers : x = AppendCall(i, j)
            OBVIOUS
        <3>2. j \in Server /\ nextIdx[i][j] \in Nat /\ Len(log[i]) \in Nat
            BY DEF Others, TypeOK
        <3>3. nextIdx[i][j] \in 1 .. Len(log[i]) + 1
            BY <2>1, <3>2
        <3> QED
            BY <3>1, <3>2, <3>3, CallShows
    <2> HIDE DEF S
    <2>3. DOMAIN net' = DOMAIN net \cup S
        BY <1>t, <2>1, SendBag
    <2> QED
        BY <1>0, <2>2, <2>3, SlicesSame
<1>4. ASSUME NEW m \in DOMAIN net, SendCopy(m) PROVE SlicesHold'
    <2>1. PICK r : r = [m EXCEPT !.copied = TRUE]
        OBVIOUS
    <2>2. /\ net' = Send(Drop(net, m), {r}) /\ m.type = "AppendEntries" /\ m \in Message
          /\ r.from = m.from /\ r.inc = m.inc
        BY <1>4, <2>1, CopySays
    <2>3. r.copied
        BY <2>1, <2>2 DEF Message
    <2>4. DOMAIN net' \subseteq DOMAIN net \cup {r}
        BY <1>t, <2>2, ReplyBag
    <2>5. r.inc <= restarts[r.from]
        BY <2>2 DEF SlicesHold
    <2> QED
        BY <1>0, <2>3, <2>4, <2>5, SlicesSame
<1> QED
    BY <1>0, <1>1, <1>2, <1>3, <1>4

\* What happens while no call waits to be copied.
LEMMA SlicesQuiet ==
    ASSUME TypeOK, TypeOK', SlicesHold, \A i \in Server : \A m \in DOMAIN net : ~Waits(i, m),
           \/ \E i \in Server :
                \/ Ticker(i)
                \/ \E m \in DOMAIN net : Receive(i, m)
                \/ \E c \in Command : Start(i, c)
                \/ Restart(i)
           \/ \E m \in DOMAIN net : Lose(m)
    PROVE  SlicesHold'
<1> USE DEF tickVars, diskVars
<1>t. IsABag(net) /\ DOMAIN net \subseteq Message /\ restarts \in [Server -> Nat]
    BY DEF TypeOK
<1>1. \A i \in Server : \A l : Overwritten(net, i, l) = net
    BY <1>t, NothingShown
<1>2. \A x \in DOMAIN net' : x.type = "AppendEntries" => x \in DOMAIN net
    <2>1. ASSUME NEW m, NEW r, r.type # "AppendEntries",
                 net' = Send(Drop(net, m), {r}) \/ net' = Drop(net, m) \/ net' = net
          PROVE  \A x \in DOMAIN net' : x.type = "AppendEntries" => x \in DOMAIN net
        <3>1. DOMAIN Send(Drop(net, m), {r}) \subseteq DOMAIN net \cup {r}
            BY <1>t, ReplyBag
        <3>2. DOMAIN Drop(net, m) \subseteq DOMAIN net
            BY <1>t, DropBag
        <3>3. DOMAIN net' \subseteq DOMAIN net \cup {r}
            BY ONLY <2>1, <3>1, <3>2
        <3> QED
            BY <2>1, <3>3
    <2>2. ASSUME NEW i \in Server, NEW m \in DOMAIN net, Receive(i, m)
          PROVE  \E r : /\ r.type # "AppendEntries"
                        /\ net' = Send(Drop(net, m), {r}) \/ net' = Drop(net, m) \/ net' = net
        <3>1. \A v, w, z : VoteReturn(m, v, w).type # "AppendEntries"
                           /\ AppendReturn(m, v, w, z).type # "AppendEntries"
            BY DEF VoteReturn, AppendReturn
        <3>2. CASE RequestVote(i, m)
            BY <3>1, <3>2 DEF RequestVote
        <3>3. CASE sendRequestVote(i, m) \/ sendAppendEntries(i, m)
            <4>1. net' = Drop(net, m)
                BY <3>3 DEF sendRequestVote, sendAppendEntries
            <4> QED
                BY <3>1, <4>1
        <3>4. CASE AppendEntries(i, m)
            <4>1. PICK v, w, z : net' = Send(Drop(net, m), {AppendReturn(m, v, w, z)})
                BY <1>1, <3>4 DEF AppendEntries
            <4> QED
                BY <3>1, <4>1
        <3> QED
            BY <2>2, <3>2, <3>3, <3>4 DEF Receive
    <2>3. ASSUME NEW i \in Server, NEW c \in Command, Start(i, c) PROVE net' = net
        BY <1>1, <2>3 DEF Start
    <2>4. ASSUME NEW i \in Server, Ticker(i) PROVE net' = net
        BY <2>4 DEF Ticker, FollowerTimeout, TickCandidate, CandidateWin, CandidateBackOff, TickLeader
    <2>5. ASSUME NEW i \in Server, Restart(i) PROVE net' = net
        BY <2>5 DEF Restart
    <2>6. ASSUME NEW m \in DOMAIN net, Lose(m)
          PROVE  \A x \in DOMAIN net' : x.type = "AppendEntries" => x \in DOMAIN net
        BY <1>t, <2>6, DropBag DEF Lose
    <2> QED
        BY <2>1, <2>2, <2>3, <2>4, <2>5, <2>6
<1>3. \A i \in Server : restarts[i] <= restarts'[i]
    <2>1. ASSUME NEW j \in Server, Restart(j) PROVE \A i \in Server : restarts[i] <= restarts'[i]
        BY <1>t, <2>1 DEF Restart
    <2>2. CASE UNCHANGED restarts
        BY <1>t, <2>2
    <2>3. ASSUME NEW i \in Server, Ticker(i) PROVE UNCHANGED restarts
        BY <2>3 DEF Ticker, FollowerTimeout, TickCandidate, CandidateWin, CandidateBackOff, TickLeader
    <2>4. ASSUME NEW i \in Server, NEW m \in DOMAIN net, Receive(i, m) PROVE UNCHANGED restarts
        BY <2>4 DEF Receive, RequestVote, sendRequestVote, AppendEntries, sendAppendEntries
    <2>5. ASSUME NEW i \in Server, NEW c \in Command, Start(i, c) PROVE UNCHANGED restarts
        BY <2>5 DEF Start
    <2>6. ASSUME NEW m \in DOMAIN net, Lose(m) PROVE UNCHANGED restarts
        BY <2>6 DEF Lose
    <2> QED
        BY <2>1, <2>2, <2>3, <2>4, <2>5, <2>6
<1> SUFFICES ASSUME NEW m \in DOMAIN net', m.type = "AppendEntries"
             PROVE  m.inc <= restarts'[m.from] /\ ~Waits(m.from, m)'
    BY DEF SlicesHold
<1>4. m \in DOMAIN net
    BY <1>2
<1>5. /\ m.from \in Server /\ m.inc \in Nat /\ m.inc <= restarts[m.from] /\ ~Waits(m.from, m)
      /\ restarts[m.from] \in Nat /\ restarts[m.from] <= restarts'[m.from]
    BY <1>t, <1>3, <1>4 DEF SlicesHold, Message
<1>6. restarts'[m.from] \in Nat
    BY <1>5 DEF TypeOK
<1> QED
    BY <1>5, <1>6 DEF Waits

\* The condition CopiesInTime is one on the scheduler alone: it holds whenever the goroutine
\* that broadcastHeartbeat spawns for a call copies the entries before another critical
\* section of its server writes to rf.log.
THEOREM PromptCopies ==
    ASSUME "send" \in Prompt
    PROVE  Spec => CopiesInTime
<1> DEFINE Held == TypeOK /\ SlicesHold
<1>1. Init => Held
    <2>1. Init => TypeOK
        BY TypeInit
    <2>2. Init => SlicesHold
        BY DEF Init, SlicesHold, EmptyBag, SetToBag
    <2> QED
        BY <2>1, <2>2
<1>2. Held /\ [Next]_vars => Held' /\ [CopyStep]_vars
    <2> SUFFICES ASSUME TypeOK, SlicesHold, [Next]_vars, ~UNCHANGED vars
                 PROVE  TypeOK' /\ SlicesHold' /\ CopyStep
        BY DEF vars, raftVars, leaderVars, applyVars, tickVars, diskVars, TypeOK, SlicesHold, Waits
    <2>1. TypeOK'
        BY TypeNext
    <2>2. ASSUME \/ \E i \in Server :
                    ElectionGoroutine(i) \/ broadcastHeartbeat(i) \/ LeaderPersist(i) \/ Apply(i)
                 \/ \E m \in DOMAIN net : SendCopy(m)
          PROVE  SlicesHold' /\ CopyStep
        <3>1. SlicesHold' /\ UNCHANGED <<log, restarts>>
            BY <2>2, SlicesGoroutine
        <3>2. CopyStep
            BY <3>1 DEF CopyStep, SlicesHold, Waits
        <3> QED
            BY <3>1, <3>2
    <2>3. ASSUME Quiet,
                 \/ \E i \in Server :
                      \/ Ticker(i)
                      \/ \E m \in DOMAIN net : Receive(i, m)
                      \/ \E c \in Command : Start(i, c)
                      \/ Restart(i)
                 \/ \E m \in DOMAIN net : Lose(m)
          PROVE  SlicesHold' /\ CopyStep
        <3>1. \A i \in Server : \A m \in DOMAIN net : ~Waits(i, m)
            BY <2>3 DEF Quiet
        <3>2. SlicesHold'
            BY <2>1, <2>3, <3>1, SlicesQuiet
        <3> QED
            BY <3>1, <3>2 DEF CopyStep
    <2> QED
        BY <2>1, <2>2, <2>3 DEF Next, Step
<1> QED
    BY <1>1, <1>2, PTL DEF Spec, CopiesInTime

-------------------------------------------------------------------------------------
(***********************************************************************************)
(* What a Raft cluster of any size guarantees to the services above it: an entry    *)
(* that one of them was given is final, and the cluster implements ReplicatedLog.   *)
(*                                                                                 *)
(* raft.go gives these guarantees under the three conditions of the first part and  *)
(* two more, each of which a violation run shows to be needed: no AppendEntries of   *)
(* an earlier round arrives after one of a later round (InOrder), and a server wins  *)
(* with a log that is at least as long as every match index it kept from an earlier  *)
(* term (MatchesWithin).                                                             *)
(*                                                                                 *)
(* The predicates take the functions they are about as parameters: the terms, the    *)
(* logs, the calls in flight, and the histories. votes, won and master are those of  *)
(* the first part; acks[t][j] is how much of the log of the leader of term t         *)
(* server j has accepted in that term.                                               *)
(***********************************************************************************)

\* sendRequestVote resets nextIdx and not matchIdx: a server becomes leader only with a
\* log that reaches every match index it has.
MatchStep ==
    \A i \in Server : state[i] # LEADER /\ state'[i] = LEADER =>
        \A j \in Others(i) : matchIdx[i][j] <= Len(log[i])
MatchesWithin == [][MatchStep]_vars

-------------------------------------------------------------------------------------
(* Entries that are chosen.                                                          *)

\* Entry k of the log of the leader of term t is one it took itself.
Own(master, t, k) == k \in 1 .. Len(master[t]) /\ master[t][k].term = t

\* The log l has the first k entries of M.
Has(l, M, k) == k <= Len(l) /\ \A x \in 1 .. k : l[x] = M[x]

\* A majority has moved past term t without accepting entry k from its leader.
Refused(term, acks, t, k) ==
    \E Q \in SUBSET Server :
        Majority(Cardinality(Q)) /\ \A j \in Q : term[j] > t /\ acks[t][j] < k

\* A majority has accepted entry k, an own one, from the leader of term t.
Chosen(master, acks, t, k) ==
    /\ Own(master, t, k)
    /\ \E Q \in SUBSET Server : Majority(Cardinality(Q)) /\ \A j \in Q : acks[t][j] >= k

\* What LogInv and VoteInv say of the histories.
Histories(term, lg, votes, won, master) ==
    /\ term \in [Server -> Nat] /\ lg \in [Server -> Seq(Entry)] /\ votes \in History
    /\ won \in [Nat -> Server \cup {Nil}] /\ master \in [Nat -> Seq(Entry)] /\ won[0] = Nil
    /\ \A u \in Nat : won[u] # Nil =>
        u <= term[won[u]] /\ Majority(Cardinality(Voters(votes, u, won[u])))
    /\ \A j \in Server : \A u \in Nat : u > term[j] => votes[u][j] = Nil
    /\ \A t \in Nat :
        /\ Derived(master[t], won, master)
        /\ \A k \in 1 .. Len(master[t]) : master[t][k].term <= t
    /\ \A j \in Server : Derived(lg[j], won, master)
    /\ \A j \in Server : won[term[j]] = j => master[term[j]] = lg[j]

\* A server accepts only what there is, in a term it has reached; a winner has all of it.
Acks(term, lg, won, master, acks) ==
    /\ acks \in [Nat -> [Server -> Nat]]
    /\ \A t \in Nat : \A j \in Server : acks[t][j] > 0 =>
        won[t] # Nil /\ t <= term[j] /\ acks[t][j] <= Len(master[t])
    /\ \A j \in Server : won[term[j]] = j => acks[term[j]][j] = Len(lg[j])

\* The winners of later terms have every own entry of an earlier winner that may still be
\* chosen.
WinnersHave(term, won, master, acks) ==
    \A t, u \in Nat : t < u /\ won[u] # Nil =>
        \A k \in Nat : Own(master, t, k) =>
            Refused(term, acks, t, k) \/ Has(master[u], master[t], k)

\* So has every server that accepted it, whatever it accepted later.
LogsHave(term, lg, master, acks) ==
    \A j \in Server : \A t \in Nat : \A k \in Nat :
        Own(master, t, k) /\ k <= acks[t][j] =>
            Refused(term, acks, t, k) \/ Has(lg[j], master[t], k)

\* And so has a candidate c that has the vote of a server that accepted it.
Carries(term, lg, master, acks, c, j) ==
    \A t \in Nat : \A k \in Nat :
        t < term[c] /\ Own(master, t, k) /\ k <= acks[t][j] =>
            Refused(term, acks, t, k) \/ Has(lg[c], master[t], k)
VotesCarry(term, lg, votes, won, master, acks) ==
    \A c, j \in Server :
        /\ \A u \in Nat : votes[u][j] = c => u <= term[c]
        /\ votes[term[c]][j] = c /\ won[term[c]] = Nil => Carries(term, lg, master, acks, c, j)

-------------------------------------------------------------------------------------
(* Small facts.                                                                      *)

LEMMA HistoryTypes ==
    ASSUME NEW term, NEW lg, NEW votes, NEW won, NEW master,
           Histories(term, lg, votes, won, master), NEW t \in Nat, NEW j \in Server
    PROVE  /\ master[t] \in Seq(Entry) /\ Len(master[t]) \in Nat
           /\ lg[j] \in Seq(Entry) /\ Len(lg[j]) \in Nat /\ term[j] \in Nat
           /\ won[t] \in Server \cup {Nil}
<1>1. /\ master \in [Nat -> Seq(Entry)] /\ lg \in [Server -> Seq(Entry)]
      /\ term \in [Server -> Nat] /\ won \in [Nat -> Server \cup {Nil}]
    BY DEF Histories
<1>2. master[t] \in Seq(Entry) /\ lg[j] \in Seq(Entry) /\ term[j] \in Nat
      /\ won[t] \in Server \cup {Nil}
    BY <1>1
<1>3. Len(master[t]) \in Nat /\ Len(lg[j]) \in Nat
    BY <1>2
<1> QED
    BY <1>2, <1>3

\* Only a term with a winner has own entries.
LEMMA OwnWon ==
    ASSUME NEW term, NEW lg, NEW votes, NEW won, NEW master,
           Histories(term, lg, votes, won, master), NEW t \in Nat, NEW k, Own(master, t, k)
    PROVE  won[t] # Nil
<1>1. Derived(master[t], won, master)
    BY DEF Histories
<1>2. k \in 1 .. Len(master[t]) /\ master[t][k].term = t
    BY DEF Own
<1>3. won[master[t][k].term] # Nil
    BY <1>1, <1>2 DEF Derived
<1> QED
    BY <1>2, <1>3

\* Two majorities share a server.
LEMMA MajoritiesMeet ==
    ASSUME NEW A \in SUBSET Server, NEW B \in SUBSET Server,
           Majority(Cardinality(A)), Majority(Cardinality(B))
    PROVE  \E j \in Server : j \in A /\ j \in B
<1> SUFFICES ASSUME A \cap B = {} PROVE FALSE
    OBVIOUS
<1>1. IsFiniteSet(A) /\ IsFiniteSet(B) /\ A \cup B \subseteq Server
    BY ServerAssumption, FS_Subset
<1>2. IsFiniteSet(A \cup B) /\ Cardinality(A \cup B) <= Cardinality(Server)
    BY <1>1, ServerAssumption, FS_Subset
<1>3. Cardinality(A \cup B) = Cardinality(A) + Cardinality(B) - Cardinality({})
    BY <1>1, FS_Union
<1>4. /\ Cardinality(A) \in Nat /\ Cardinality(B) \in Nat /\ Cardinality({}) = 0
      /\ Cardinality(Server) \in Nat
    BY <1>1, ServerAssumption, FS_CardinalityType, FS_EmptySet
<1> QED
    BY <1>2, <1>3, <1>4 DEF Majority

\* What is chosen is not refused.
LEMMA ChosenStays ==
    ASSUME NEW acks \in [Nat -> [Server -> Nat]], NEW master, NEW term, NEW t \in Nat,
           NEW k \in Nat, Chosen(master, acks, t, k), Refused(term, acks, t, k)
    PROVE  FALSE
<1>1. PICK A \in SUBSET Server : Majority(Cardinality(A)) /\ \A j \in A : acks[t][j] >= k
    BY DEF Chosen
<1>2. PICK B \in SUBSET Server : Majority(Cardinality(B)) /\ \A j \in B : acks[t][j] < k
    BY DEF Refused
<1>3. PICK j \in Server : j \in A /\ j \in B
    BY <1>1, <1>2, MajoritiesMeet
<1>4. acks[t][j] \in Nat
    OBVIOUS
<1> QED
    BY <1>1, <1>2, <1>3, <1>4

-------------------------------------------------------------------------------------
(* One step of the cluster, seen through the histories. The parameters after acks     *)
(* are the terms, the logs and the histories after the step.                         *)

\* The leader i of term t has just taken entry k; nobody else has accepted that much.
Fresh(T, G, s, a, t, k) ==
    \E i \in Server : T[i] = t /\ G[i] = s[t] /\ \A j \in Server : j # i => a[t][j] < k

\* Server j has now the beginning of the log of the leader of its term: all that it ever
\* accepted from that leader and all that the leader had from earlier terms.
Rewritten(T, G, w, s, a, j) ==
    /\ w[T[j]] # Nil /\ Begins(G[j], s[T[j]]) /\ a[T[j]][j] <= Len(G[j])
    /\ \A k \in 1 .. Len(s[T[j]]) : s[T[j]][k].term < T[j] => k <= Len(G[j])

Moves(term, lg, won, master, acks, T, G, w, s, a) ==
    /\ Extended(won, master, w, s)
    /\ \A j \in Server : term[j] <= T[j]
    /\ \A t \in Nat : \A j \in Server :
        acks[t][j] <= a[t][j] /\ (t < term[j] => a[t][j] = acks[t][j])
    /\ \A t \in Nat : \A k \in Nat : Own(s, t, k) =>
        (Own(master, t, k) /\ won[t] # Nil) \/ Fresh(T, G, s, a, t, k)
    /\ \A t \in Nat : won[t] # Nil =>
        \A k \in Len(master[t]) + 1 .. Len(s[t]) : s[t][k].term = t
    /\ \A u \in Nat : won[u] = Nil /\ w[u] # Nil => term[w[u]] = u /\ s[u] = lg[w[u]]
    /\ \A j \in Server :
        \/ G[j] = lg[j] /\ \A t \in Nat : won[t] # Nil => a[t][j] = acks[t][j]
        \/ Rewritten(T, G, w, s, a, j)

\* What a log has of a winner's log it keeps having while that one grows.
LEMMA HasKept ==
    ASSUME NEW won, NEW master, NEW w, NEW s, Extended(won, master, w, s), NEW t \in Nat,
           won[t] # Nil, NEW k \in Nat, k <= Len(master[t])
    PROVE  /\ \A l : Has(l, master[t], k) => Has(l, s[t], k)
           /\ \A u \in Nat : won[u] # Nil /\ Has(master[u], master[t], k) => Has(s[u], s[t], k)
<1>1. /\ Len(master[t]) \in Nat /\ Len(master[t]) <= Len(s[t])
      /\ \A x \in 1 .. Len(master[t]) : s[t][x] = master[t][x]
    BY ExtendedAt
<1>2. \A x \in 1 .. k : s[t][x] = master[t][x]
    BY <1>1
<1>3. \A l : Has(l, master[t], k) => Has(l, s[t], k)
    BY <1>2 DEF Has
<1>4. ASSUME NEW u \in Nat, won[u] # Nil, Has(master[u], master[t], k)
      PROVE  Has(s[u], s[t], k)
    <2>1. /\ Len(master[u]) \in Nat /\ Len(s[u]) \in Nat /\ Len(master[u]) <= Len(s[u])
          /\ \A x \in 1 .. Len(master[u]) : s[u][x] = master[u][x]
        BY <1>4, ExtendedAt
    <2>2. k <= Len(master[u]) /\ \A x \in 1 .. k : master[u][x] = master[t][x]
        BY <1>4 DEF Has
    <2>3. k <= Len(s[u]) /\ \A x \in 1 .. k : s[u][x] = master[u][x]
        BY <2>1, <2>2
    <2> QED
        BY <1>2, <2>2, <2>3 DEF Has
<1> QED
    BY <1>3, <1>4

LEMMA RefusedKept ==
    ASSUME NEW term \in [Server -> Nat], NEW T \in [Server -> Nat], NEW acks, NEW a,
           \A j \in Server : term[j] <= T[j], NEW t \in Nat, NEW k \in Nat,
           \A j \in Server : t < term[j] => a[t][j] = acks[t][j], Refused(term, acks, t, k)
    PROVE  Refused(T, a, t, k)
<1>1. PICK Q \in SUBSET Server :
        Majority(Cardinality(Q)) /\ \A j \in Q : term[j] > t /\ acks[t][j] < k
    BY DEF Refused
<1>2. \A j \in Q : T[j] > t /\ a[t][j] < k
    <2> TAKE j \in Q
    <2>1. j \in Server /\ term[j] \in Nat /\ T[j] \in Nat /\ term[j] <= T[j] /\ term[j] > t
        BY <1>1
    <2>2. a[t][j] = acks[t][j]
        BY <2>1
    <2> QED
        BY <1>1, <2>1, <2>2
<1> QED
    BY <1>1, <1>2 DEF Refused

\* The same facts for the whole step.
LEMMA MovesKeep ==
    ASSUME NEW term, NEW lg, NEW votes, NEW won, NEW master, NEW acks,
           NEW T, NEW G, NEW new, NEW w, NEW s, NEW a,
           Histories(term, lg, votes, won, master), Histories(T, G, new, w, s),
           acks \in [Nat -> [Server -> Nat]], a \in [Nat -> [Server -> Nat]],
           Moves(term, lg, won, master, acks, T, G, w, s, a), NEW t \in Nat, NEW k \in Nat
    PROVE  /\ Refused(term, acks, t, k) => Refused(T, a, t, k)
           /\ Own(master, t, k) => Own(s, t, k)
           /\ Chosen(master, acks, t, k) => Chosen(s, a, t, k)
<1>1. Refused(term, acks, t, k) => Refused(T, a, t, k)
    <2>1. /\ term \in [Server -> Nat] /\ T \in [Server -> Nat]
          /\ \A j \in Server : term[j] <= T[j]
        BY DEF Histories, Moves
    <2>2. \A j \in Server : t < term[j] => a[t][j] = acks[t][j]
        BY DEF Moves
    <2> QED
        BY <2>1, <2>2, RefusedKept
<1>2. Own(master, t, k) => Own(s, t, k)
    <2> HAVE Own(master, t, k)
    <2>1. won[t] # Nil
        BY OwnWon
    <2>2. Extended(won, master, w, s)
        BY DEF Moves
    <2>3. /\ Len(master[t]) \in Nat /\ Len(s[t]) \in Nat /\ Len(master[t]) <= Len(s[t])
          /\ \A x \in 1 .. Len(master[t]) : s[t][x] = master[t][x]
        BY <2>1, <2>2, ExtendedAt
    <2>4. k \in 1 .. Len(master[t]) /\ master[t][k].term = t
        BY DEF Own
    <2>5. k \in 1 .. Len(s[t]) /\ s[t][k] = master[t][k]
        BY <2>3, <2>4
    <2> QED
        BY <2>4, <2>5 DEF Own
<1>3. Chosen(master, acks, t, k) => Chosen(s, a, t, k)
    <2> HAVE Chosen(master, acks, t, k)
    <2>1. PICK Q \in SUBSET Server : Majority(Cardinality(Q)) /\ \A j \in Q : acks[t][j] >= k
        BY DEF Chosen
    <2>2. \A j \in Q : a[t][j] >= k
        <3> TAKE j \in Q
        <3>1. acks[t][j] \in Nat /\ a[t][j] \in Nat /\ j \in Server
            OBVIOUS
        <3>2. acks[t][j] <= a[t][j]
            BY <3>1 DEF Moves
        <3> QED
            BY <2>1, <3>1, <3>2
    <2>3. Own(s, t, k)
        BY <1>2 DEF Chosen
    <2> QED
        BY <2>1, <2>2, <2>3 DEF Chosen
<1> QED
    BY <1>1, <1>2, <1>3

\* A server that is in term t has not voted in a later term: when its leader has just
\* taken an entry, the voters of a later winner have refused it.
LEMMA FreshRefused ==
    ASSUME NEW T, NEW G, NEW new, NEW w, NEW s, NEW a, Histories(T, G, new, w, s),
           a \in [Nat -> [Server -> Nat]], NEW t \in Nat, NEW u \in Nat, t < u, w[u] # Nil,
           NEW k \in Nat, Fresh(T, G, s, a, t, k)
    PROVE  Refused(T, a, t, k)
<1>1. PICK i \in Server : T[i] = t /\ \A j \in Server : j # i => a[t][j] < k
    BY DEF Fresh
<1> DEFINE Q == Voters(new, u, w[u])
<1>2. Majority(Cardinality(Q)) /\ Q \in SUBSET Server
    BY DEF Histories, Voters
<1>3. \A j \in Q : T[j] > t /\ a[t][j] < k
    <2> TAKE j \in Q
    <2>1. j \in Server /\ new[u][j] # Nil
        BY DEF Voters
    <2>2. T[j] \in Nat /\ ~(u > T[j])
        BY <2>1, HistoryTypes DEF Histories
    <2>3. T[j] > t
        BY <2>2
    <2> QED
        BY <1>1, <2>1, <2>3
<1> HIDE DEF Q
<1> QED
    BY <1>2, <1>3 DEF Refused

-------------------------------------------------------------------------------------
(* Leader completeness, step by step.                                                *)

\* A server that wins has what may still be chosen: if one of its voters accepted it, the
\* vote shows that the winner has it; if none did, its voters have refused it.
LEMMA WinnerCarries ==
    ASSUME NEW term, NEW lg, NEW votes, NEW won, NEW master, NEW acks,
           Histories(term, lg, votes, won, master), acks \in [Nat -> [Server -> Nat]],
           VotesCarry(term, lg, votes, won, master, acks), NEW i \in Server, won[term[i]] = Nil,
           Majority(Cardinality(Voters(votes, term[i], i))),
           NEW t \in Nat, t < term[i], NEW k \in Nat, Own(master, t, k)
    PROVE  Refused(term, acks, t, k) \/ Has(lg[i], master[t], k)
<1> DEFINE Q == Voters(votes, term[i], i)
<1>1. Q \in SUBSET Server /\ term[i] \in Nat
    BY HistoryTypes DEF Voters
<1>2. CASE \E j \in Q : k <= acks[t][j]
    <2>1. PICK j \in Server : votes[term[i]][j] = i /\ k <= acks[t][j]
        BY <1>2 DEF Voters
    <2>2. Carries(term, lg, master, acks, i, j)
        BY <2>1 DEF VotesCarry
    <2> QED
        BY <2>1, <2>2 DEF Carries
<1>3. CASE \A j \in Q : ~(k <= acks[t][j])
    <2>1. \A j \in Q : term[j] > t /\ acks[t][j] < k
        <3> TAKE j \in Q
        <3>1. j \in Server /\ votes[term[i]][j] = i
            BY DEF Voters
        <3>2. acks[t][j] \in Nat /\ term[j] \in Nat
            BY <3>1, HistoryTypes, ZenonT(40)
        <3>3. ~(term[i] > term[j])
            BY <1>1, <3>1, NilAssumption, ZenonT(40) DEF Histories
        <3> QED
            BY <1>1, <1>3, <3>2, <3>3
    <2>2. Majority(Cardinality(Q))
        OBVIOUS
    <2> HIDE DEF Q
    <2> QED
        BY <1>1, <2>1, <2>2 DEF Refused
<1> QED
    BY <1>2, <1>3

\* Who has won in the step has the votes of a majority.
ByMajority(votes, won, w) ==
    \A u \in Nat : won[u] = Nil /\ w[u] # Nil => Majority(Cardinality(Voters(votes, u, w[u])))

LEMMA WinnersHaveNext ==
    ASSUME NEW term, NEW lg, NEW votes, NEW won, NEW master, NEW acks,
           NEW T, NEW G, NEW new, NEW w, NEW s, NEW a,
           Histories(term, lg, votes, won, master), Histories(T, G, new, w, s),
           acks \in [Nat -> [Server -> Nat]], a \in [Nat -> [Server -> Nat]],
           Moves(term, lg, won, master, acks, T, G, w, s, a),
           WinnersHave(term, won, master, acks), VotesCarry(term, lg, votes, won, master, acks),
           ByMajority(votes, won, w)
    PROVE  WinnersHave(T, w, s, a)
<1> SUFFICES ASSUME NEW t \in Nat, NEW u \in Nat, t < u, w[u] # Nil, NEW k \in Nat, Own(s, t, k)
             PROVE  Refused(T, a, t, k) \/ Has(s[u], s[t], k)
    BY DEF WinnersHave
<1>1. CASE Fresh(T, G, s, a, t, k)
    BY <1>1, FreshRefused
<1>2. CASE Own(master, t, k) /\ won[t] # Nil
    <2>0. Extended(won, master, w, s) /\ k <= Len(master[t])
        BY <1>2 DEF Moves, Own
    <2>1. Refused(term, acks, t, k) => Refused(T, a, t, k)
        BY MovesKeep
    <2>2. CASE won[u] # Nil
        <3>1. Refused(term, acks, t, k) \/ Has(master[u], master[t], k)
            BY <1>2, <2>2 DEF WinnersHave
        <3>2. Has(master[u], master[t], k) => Has(s[u], s[t], k)
            BY <1>2, <2>0, <2>2, HasKept
        <3> QED
            BY <2>1, <3>1, <3>2
    <2>3. CASE won[u] = Nil
        <3>w. w[u] \in Server \cup {Nil}
            BY DEF Histories
        <3>1. w[u] \in Server /\ term[w[u]] = u /\ s[u] = lg[w[u]]
            BY <2>3, <3>w DEF Moves
        <3>2. Majority(Cardinality(Voters(votes, u, w[u])))
            BY <2>3 DEF ByMajority
        <3>3. Refused(term, acks, t, k) \/ Has(lg[w[u]], master[t], k)
            BY <1>2, <2>3, <3>1, <3>2, WinnerCarries
        <3>4. Has(lg[w[u]], master[t], k) => Has(lg[w[u]], s[t], k)
            BY <1>2, <2>0, HasKept
        <3> QED
            BY <2>1, <3>1, <3>3, <3>4
    <2> QED
        BY <2>2, <2>3
<1> QED
    BY <1>1, <1>2 DEF Moves

\* A log that was rewritten has what the log of the leader of its term has from before
\* that term.
LEMMA RewrittenHas ==
    ASSUME NEW T, NEW G, NEW new, NEW w, NEW s, NEW a, Histories(T, G, new, w, s),
           NEW j \in Server, Rewritten(T, G, w, s, a, j), NEW t \in Nat, NEW k \in Nat,
           Own(s, t, k), t < T[j], Has(s[T[j]], s[t], k)
    PROVE  Has(G[j], s[t], k)
<1>1. T[j] \in Nat /\ Len(s[T[j]]) \in Nat /\ Len(s[t]) \in Nat
    BY HistoryTypes
<1> DEFINE S == s[T[j]]
<1>2. k \in 1 .. Len(s[t]) /\ s[t][k].term = t
    BY DEF Own
<1>3. k <= Len(S) /\ \A x \in 1 .. k : S[x] = s[t][x]
    BY DEF Has
<1>4. k \in 1 .. Len(S) /\ S[k].term = t
    BY <1>1, <1>2, <1>3
<1>5. k <= Len(G[j])
    BY <1>4 DEF Rewritten
<1>6. Len(G[j]) \in Nat /\ \A x \in 1 .. Len(G[j]) : G[j][x] = S[x]
    BY DEF Rewritten, Begins
<1> HIDE DEF S
<1>7. \A x \in 1 .. k : G[j][x] = s[t][x]
    BY <1>3, <1>5, <1>6
<1> QED
    BY <1>5, <1>7 DEF Has

LEMMA LogsHaveNext ==
    ASSUME NEW term, NEW lg, NEW votes, NEW won, NEW master, NEW acks,
           NEW T, NEW G, NEW new, NEW w, NEW s, NEW a,
           Histories(term, lg, votes, won, master), Histories(T, G, new, w, s),
           acks \in [Nat -> [Server -> Nat]],
           Moves(term, lg, won, master, acks, T, G, w, s, a),
           LogsHave(term, lg, master, acks), WinnersHave(T, w, s, a), Acks(T, G, w, s, a)
    PROVE  LogsHave(T, G, s, a)
<1> SUFFICES ASSUME NEW j \in Server, NEW t \in Nat, NEW k \in Nat, Own(s, t, k), k <= a[t][j]
             PROVE  Refused(T, a, t, k) \/ Has(G[j], s[t], k)
    BY DEF LogsHave
<1>a. a \in [Nat -> [Server -> Nat]]
    BY DEF Acks
<1>h. T[j] \in Nat /\ Len(s[t]) \in Nat
    BY HistoryTypes
<1>t. a[t][j] \in Nat /\ T[j] \in Nat /\ Len(s[t]) \in Nat
    BY <1>a, <1>h
<1>k. k \in 1 .. Len(s[t])
    BY DEF Own
<1>n. PICK n \in Nat : n = a[t][j] /\ k <= n
    BY <1>t
<1>1. CASE Fresh(T, G, s, a, t, k)
    <2>0. PICK i \in Server : G[i] = s[t] /\ \A x \in Server : x # i => a[t][x] < k
        BY <1>1 DEF Fresh
    <2>a. j # i => n < k
        BY <1>n, <2>0
    <2>b. ~(n < k)
        BY <1>n
    <2>1. G[j] = s[t]
        BY <2>0, <2>a, <2>b
    <2> QED
        BY <1>t, <1>k, <2>1 DEF Has
<1>2. CASE Rewritten(T, G, w, s, a, j)
    <2>1. t <= T[j]
        <3>1. a[t][j] > 0
            BY ONLY n \in Nat, <1>n, <1>t, <1>k
        <3> QED
            BY ONLY t \in Nat, j \in Server, Acks(T, G, w, s, a), <3>1 DEF Acks
    <2>2. CASE t = T[j]
        <3>1. /\ Len(G[j]) \in Nat /\ n <= Len(G[j])
              /\ \A x \in 1 .. Len(G[j]) : G[j][x] = s[t][x]
            BY ONLY <1>2, <1>n, <2>2 DEF Rewritten, Begins
        <3>2. k <= Len(G[j])
            BY ONLY k \in Nat, n \in Nat, <1>n, <3>1
        <3> QED
            BY <3>1, <3>2 DEF Has
    <2>3. CASE t < T[j]
        <3>1. w[T[j]] # Nil
            BY <1>2 DEF Rewritten
        <3>2. Refused(T, a, t, k) \/ Has(s[T[j]], s[t], k)
            BY <1>t, <2>3, <3>1 DEF WinnersHave
        <3> QED
            BY <1>2, <2>3, <3>2, RewrittenHas
    <2> QED
        BY <1>t, <2>1, <2>2, <2>3
<1>3. CASE /\ Own(master, t, k) /\ won[t] # Nil
           /\ G[j] = lg[j] /\ \A u \in Nat : won[u] # Nil => a[u][j] = acks[u][j]
    <2>1. Refused(term, acks, t, k) \/ Has(lg[j], master[t], k)
        BY <1>3 DEF LogsHave
    <2>2. Refused(term, acks, t, k) => Refused(T, a, t, k)
        BY <1>a, MovesKeep
    <2>3. Has(lg[j], master[t], k) => Has(lg[j], s[t], k)
        <3>1. Extended(won, master, w, s) /\ k <= Len(master[t])
            BY <1>3 DEF Moves, Own
        <3> QED
            BY <1>3, <3>1, HasKept
    <2> QED
        BY <1>3, <2>1, <2>2, <2>3
<1> QED
    BY <1>1, <1>2, <1>3 DEF Moves

-------------------------------------------------------------------------------------
(* Votes.                                                                            *)

\* The comparison of RequestVote for the log L of a candidate and the log l of a voter.
AsUpToDate(L, l) ==
    \/ LastTerm(L) > LastTerm(l)
    \/ LastTerm(L) = LastTerm(l) /\ Len(L) >= Len(l)

\* A log that has an own entry of term t ends in term t or later.
LEMMA HasLastTerm ==
    ASSUME NEW won, NEW master, NEW l \in Seq(Entry), Derived(l, won, master), NEW M,
           NEW t \in Nat, NEW k \in Nat, k >= 1, M[k].term = t, Has(l, M, k)
    PROVE  /\ Len(l) \in Nat /\ Len(l) >= 1 /\ k <= Len(l)
           /\ LastTerm(l) = l[Len(l)].term /\ LastTerm(l) \in Nat /\ t <= LastTerm(l)
<1>1. Len(l) \in Nat /\ k <= Len(l) /\ l[k] = M[k]
    BY DEF Has
<1>2. Len(l) \in 1 .. Len(l) /\ k \in 1 .. Len(l)
    BY <1>1
<1>3. l[k].term <= l[Len(l)].term
    BY <1>2 DEF Derived
<1>4. l[Len(l)] \in Entry
    BY <1>2
<1>5. LastTerm(l) = l[Len(l)].term
    BY <1>2 DEF LastTerm, TermAt
<1> QED
    BY <1>1, <1>2, <1>3, <1>4, <1>5 DEF Entry

\* A log L that is at least as up to date as one that has an entry of term t which may
\* still be chosen has that entry too.
LEMMA UpToDateHas ==
    ASSUME NEW T, NEW G, NEW new, NEW w, NEW s, NEW a, Histories(T, G, new, w, s),
           WinnersHave(T, w, s, a), NEW c \in Server, NEW j \in Server, AsUpToDate(G[c], G[j]),
           NEW t \in Nat, NEW k \in Nat, Own(s, t, k), Has(G[j], s[t], k)
    PROVE  Refused(T, a, t, k) \/ Has(G[c], s[t], k)
<1> DEFINE L == G[c]
           l == G[j]
           n == Len(L)
<1>1. L \in Seq(Entry) /\ l \in Seq(Entry) /\ n \in Nat /\ Len(s[t]) \in Nat
    BY HistoryTypes
<1>2. Derived(L, w, s) /\ Derived(l, w, s)
    BY DEF Histories
<1>3. k \in 1 .. Len(s[t]) /\ s[t][k].term = t /\ k >= 1
    BY DEF Own
<1>4. Has(l, s[t], k) /\ AsUpToDate(L, l)
    OBVIOUS
<1> HIDE DEF L, l, n
<1>5. Len(l) \in Nat /\ k <= Len(l) /\ LastTerm(l) \in Nat /\ t <= LastTerm(l)
    BY <1>1, <1>2, <1>3, <1>4, HasLastTerm
<1>6. LastTerm(L) \in Nat /\ (n = 0 => LastTerm(L) = 0)
    BY <1>1, TermAtType DEF LastTerm, TermAt, n
<1>7. t <= LastTerm(L)
    BY <1>4, <1>5, <1>6 DEF AsUpToDate
<1>8. t # 0
    <2>1. w[t] # Nil
        BY OwnWon
    <2>2. w[0] = Nil
        BY DEF Histories
    <2> QED
        BY <2>1, <2>2
<1>9. n \in 1 .. n /\ LastTerm(L) = L[n].term
    BY <1>1, <1>6, <1>7, <1>8 DEF LastTerm, TermAt, n
<1>10. PICK v \in Nat : v = L[n].term
    BY <1>6, <1>9
<1>11. /\ w[v] # Nil /\ n <= Len(s[v]) /\ \A x \in 1 .. n : s[v][x] = L[x]
    BY <1>2, <1>9, <1>10 DEF Derived, n
<1>12. CASE v = t
    <2>1. Len(L) >= Len(l)
        <3>1. ~(LastTerm(L) > LastTerm(l))
            BY <1>5, <1>9, <1>10, <1>12
        <3> QED
            BY <1>4, <3>1 DEF AsUpToDate
    <2>2. k <= n
        BY <1>1, <1>5, <2>1 DEF n
    <2>3. \A x \in 1 .. k : L[x] = s[t][x]
        BY <1>1, <1>11, <1>12, <2>2
    <2> QED
        BY <2>2, <2>3 DEF Has, L, n
<1>13. CASE t < v
    <2>1. Refused(T, a, t, k) \/ Has(s[v], s[t], k)
        BY <1>11, <1>13 DEF WinnersHave
    <2>2. ASSUME Has(s[v], s[t], k) PROVE Has(L, s[t], k)
        <3>1. /\ Len(s[v]) \in Nat /\ k <= Len(s[v]) /\ \A x \in 1 .. k : s[v][x] = s[t][x]
            BY <2>2, HistoryTypes DEF Has
        <3>2. k <= n
            <4> SUFFICES ASSUME k > n PROVE FALSE
                BY <1>1
            <4>1. Derived(s[v], w, s) /\ k \in 1 .. Len(s[v]) /\ n \in 1 .. k
                BY <1>1, <1>9, <3>1 DEF Histories
            <4>2. s[v][n].term <= s[v][k].term
                BY <4>1 DEF Derived
            <4>3. s[v][n].term = v /\ s[v][k].term = t
                BY <1>3, <1>9, <1>10, <1>11, <3>1, SMTT(30)
            <4> QED
                BY <1>13, <4>2, <4>3
        <3>3. \A x \in 1 .. k : L[x] = s[t][x]
            BY <1>1, <1>11, <3>1, <3>2
        <3> QED
            BY <3>2, <3>3 DEF Has, n
    <2> QED
        BY <2>1, <2>2 DEF L
<1> QED
    BY <1>7, <1>9, <1>10, <1>12, <1>13

\* A vote that is given now goes to a server with an up to date log.
LEMMA GrantCarries ==
    ASSUME NEW T, NEW G, NEW new, NEW w, NEW s, NEW a, Histories(T, G, new, w, s),
           WinnersHave(T, w, s, a), LogsHave(T, G, s, a), NEW c \in Server, NEW j \in Server,
           c = j \/ AsUpToDate(G[c], G[j])
    PROVE  Carries(T, G, s, a, c, j)
<1> SUFFICES ASSUME NEW t \in Nat, NEW k \in Nat, Own(s, t, k), k <= a[t][j]
             PROVE  Refused(T, a, t, k) \/ Has(G[c], s[t], k)
    BY DEF Carries
<1>1. Refused(T, a, t, k) \/ Has(G[j], s[t], k)
    BY DEF LogsHave
<1> QED
    BY <1>1, UpToDateHas

\* A vote of the step is for the present term of its candidate, who has as good a log.
Earned(votes, T, G, new, w) ==
    \A u \in Nat : \A c, j \in Server : new[u][j] = c /\ votes[u][j] # c =>
        /\ u <= T[c]
        /\ u = T[c] /\ w[u] = Nil => c = j \/ AsUpToDate(G[c], G[j])

LEMMA VotesCarryNext ==
    ASSUME NEW term, NEW lg, NEW votes, NEW won, NEW master, NEW acks,
           NEW T, NEW G, NEW new, NEW w, NEW s, NEW a,
           Histories(term, lg, votes, won, master), Histories(T, G, new, w, s),
           acks \in [Nat -> [Server -> Nat]], a \in [Nat -> [Server -> Nat]],
           Moves(term, lg, won, master, acks, T, G, w, s, a),
           VotesCarry(term, lg, votes, won, master, acks),
           WinnersHave(T, w, s, a), LogsHave(T, G, s, a), Earned(votes, T, G, new, w)
    PROVE  VotesCarry(T, G, new, w, s, a)
<1> SUFFICES ASSUME NEW c \in Server, NEW j \in Server
             PROVE  /\ \A u \in Nat : new[u][j] = c => u <= T[c]
                    /\ new[T[c]][j] = c /\ w[T[c]] = Nil => Carries(T, G, s, a, c, j)
    BY DEF VotesCarry
<1>t. term[c] \in Nat /\ T[c] \in Nat /\ term[j] \in Nat /\ T[j] \in Nat
    BY HistoryTypes
<1>m. term[c] <= T[c]
    BY DEF Moves
<1>1. ASSUME NEW u \in Nat, new[u][j] = c PROVE u <= T[c]
    <2>1. CASE votes[u][j] = c
        <3>1. u <= term[c]
            BY <2>1 DEF VotesCarry
        <3> QED
            BY <1>t, <1>m, <3>1
    <2>2. CASE votes[u][j] # c
        BY <1>1, <2>2 DEF Earned
    <2> QED
        BY <2>1, <2>2
<1>2. ASSUME new[T[c]][j] = c, w[T[c]] = Nil PROVE Carries(T, G, s, a, c, j)
    <2>1. CASE votes[T[c]][j] # c
        <3>1. c = j \/ AsUpToDate(G[c], G[j])
            BY <1>t, <1>2, <2>1 DEF Earned
        <3> QED
            BY <1>t, <1>2, <2>1, <3>1, GrantCarries
    <2>2. CASE votes[T[c]][j] = c
        <3>1. T[c] = term[c]
            <4>1. T[c] <= term[c]
                BY <1>t, <2>2 DEF VotesCarry
            <4> QED
                BY ONLY <1>t, <1>m, <4>1
        <3>2. won[T[c]] = Nil
            BY <1>t, <1>2 DEF Moves, Extended
        <3>3. Carries(term, lg, master, acks, c, j)
            BY <2>2, <3>1, <3>2 DEF VotesCarry
        <3>4. ~(T[c] > term[j]) /\ ~(T[c] > T[j])
            BY <1>t, <1>2, <2>2, NilAssumption, ZenonT(40) DEF Histories
        <3>5. G[c] = lg[c]
            BY <1>2 DEF Moves, Rewritten
        <3> SUFFICES ASSUME NEW t \in Nat, NEW k \in Nat, t < T[c], Own(s, t, k), k <= a[t][j]
                     PROVE  Refused(T, a, t, k) \/ Has(G[c], s[t], k)
            BY DEF Carries
        <3>6. PICK n \in Nat : n = a[t][j] /\ k <= n
            <4>1. a[t][j] \in Nat
                OBVIOUS
            <4> QED
                BY <4>1
        <3>7. t < term[j] /\ t < T[j] /\ t < term[c]
            BY ONLY t \in Nat, t < T[c], <1>t, <3>1, <3>4
        <3>8. a[t][j] = acks[t][j]
            BY <3>7 DEF Moves
        <3>9. ~Fresh(T, G, s, a, t, k)
            <4> SUFFICES ASSUME NEW i \in Server, T[i] = t, \A x \in Server : x # i => a[t][x] < k
                         PROVE  FALSE
                BY DEF Fresh
            <4>1. j # i
                BY ONLY T[i] = t, t \in Nat, <1>t, <3>7
            <4>2. n < k
                BY <3>6, <4>1
            <4> QED
                BY <3>6, <4>2
        <3>10. Own(master, t, k) /\ won[t] # Nil
            BY <3>9 DEF Moves
        <3>11. Refused(term, acks, t, k) \/ Has(lg[c], master[t], k)
            BY <3>3, <3>7, <3>8, <3>10 DEF Carries
        <3>12. Refused(term, acks, t, k) => Refused(T, a, t, k)
            BY MovesKeep
        <3>13. Has(lg[c], master[t], k) => Has(lg[c], s[t], k)
            <4>1. Extended(won, master, w, s) /\ k <= Len(master[t])
                BY <3>10 DEF Moves, Own
            <4> QED
                BY <3>10, <4>1, HasKept
        <3> QED
            BY <3>5, <3>11, <3>12, <3>13
    <2> QED
        BY <2>1, <2>2
<1> QED
    BY <1>1, <1>2

-------------------------------------------------------------------------------------
(* Commit indices.                                                                   *)

\* The first n entries of the log l are chosen, in a term before the given one or in it
\* and then within the first most entries of its leader.
Committed(master, acks, l, n, term, most) ==
    n # 0 => \E t, k \in Nat :
        /\ Chosen(master, acks, t, k) /\ n <= k /\ Has(l, master[t], n)
        /\ t < term \/ (t = term /\ n <= most)

LEMMA HasLess ==
    ASSUME NEW l, Len(l) \in Nat, NEW M, NEW k \in Nat, NEW n \in Nat, n <= k, Has(l, M, k)
    PROVE  Has(l, M, n)
BY DEF Has

\* Entries that are chosen stay in the log of a server that has them: what the server
\* accepts later comes from a winner that has them too.
LEMMA CommitKept ==
    ASSUME NEW term, NEW lg, NEW votes, NEW won, NEW master, NEW acks,
           NEW T, NEW G, NEW new, NEW w, NEW s, NEW a,
           Histories(term, lg, votes, won, master), Histories(T, G, new, w, s),
           acks \in [Nat -> [Server -> Nat]], a \in [Nat -> [Server -> Nat]],
           Moves(term, lg, won, master, acks, T, G, w, s, a), WinnersHave(T, w, s, a),
           NEW i \in Server, NEW n \in Nat, n # 0,
           Committed(master, acks, lg[i], n, term[i], acks[term[i]][i])
    PROVE  Committed(s, a, G[i], n, T[i], a[T[i]][i]) /\ Has(G[i], lg[i], n)
<1>t. term[i] \in Nat /\ T[i] \in Nat /\ Len(G[i]) \in Nat
    BY HistoryTypes
<1>1. PICK t \in Nat, k \in Nat :
        /\ Chosen(master, acks, t, k) /\ n <= k /\ Has(lg[i], master[t], n)
        /\ t < term[i] \/ (t = term[i] /\ n <= acks[term[i]][i])
    BY DEF Committed
<1>2. Chosen(s, a, t, k) /\ Own(s, t, k)
    <2>1. Chosen(s, a, t, k)
        BY <1>1, MovesKeep
    <2> QED
        BY <2>1 DEF Chosen
<1>3. Own(master, t, k) /\ won[t] # Nil /\ Len(master[t]) \in Nat
    <2>1. Own(master, t, k)
        BY <1>1 DEF Chosen
    <2> QED
        BY <2>1, OwnWon, HistoryTypes
<1>4. n <= Len(master[t])
    <2>1. k \in 1 .. Len(master[t])
        BY <1>3 DEF Own
    <2> QED
        BY ONLY n \in Nat, k \in Nat, <1>1, <1>3, <2>1
<1>5. Has(lg[i], s[t], n)
    <2>1. Extended(won, master, w, s)
        BY DEF Moves
    <2> QED
        BY <1>1, <1>3, <1>4, <2>1, HasKept
<1>6. t < T[i] \/ (t = T[i] /\ n <= a[T[i]][i])
    <2>1. term[i] <= T[i]
        BY DEF Moves
    <2>2. CASE t < T[i]
        BY <2>2
    <2>3. CASE ~(t < T[i])
        <3>1. t = term[i] /\ t = T[i]
            BY ONLY t \in Nat, <1>t, <1>1, <2>1, <2>3
        <3>2. acks[t][i] <= a[t][i] /\ acks[t][i] \in Nat /\ a[t][i] \in Nat
            <4>1. acks[t][i] <= a[t][i]
                BY DEF Moves
            <4> QED
                BY <4>1
        <3>3. n <= acks[t][i]
            BY ONLY t \in Nat, <1>t, <1>1, <3>1
        <3>4. n <= a[t][i]
            BY ONLY n \in Nat, <3>2, <3>3
        <3> QED
            BY <3>1, <3>4
    <2> QED
        BY <2>2, <2>3
<1>7. Has(G[i], s[t], n)
    <2>1. CASE G[i] = lg[i]
        BY <1>5, <2>1
    <2>2. CASE Rewritten(T, G, w, s, a, i)
        <3>1. CASE t < T[i]
            <4>1. Refused(T, a, t, k) \/ Has(s[T[i]], s[t], k)
                BY <1>t, <1>2, <2>2, <3>1 DEF WinnersHave, Rewritten
            <4>2. Has(s[T[i]], s[t], k)
                BY <1>2, <4>1, ChosenStays
            <4>3. Has(G[i], s[t], k)
                BY <1>2, <2>2, <3>1, <4>2, RewrittenHas
            <4> QED
                BY <1>t, <1>1, <4>3, HasLess
        <3>2. CASE t = T[i] /\ n <= a[T[i]][i]
            <4>1. /\ a[t][i] <= Len(G[i]) /\ \A x \in 1 .. Len(G[i]) : G[i][x] = s[t][x]
                BY <2>2, <3>2 DEF Rewritten, Begins
            <4>2. a[t][i] \in Nat
                OBVIOUS
            <4>3. n <= a[t][i]
                BY <3>2
            <4>4. n <= Len(G[i])
                BY ONLY n \in Nat, <1>t, <4>1, <4>2, <4>3
            <4>5. \A x \in 1 .. n : G[i][x] = s[t][x]
                BY ONLY n \in Nat, <1>t, <4>1, <4>4
            <4> QED
                BY <4>4, <4>5 DEF Has
        <3> QED
            BY <1>6, <3>1, <3>2
    <2> QED
        BY <2>1, <2>2 DEF Moves
<1>8. Has(G[i], lg[i], n)
    BY <1>5, <1>7 DEF Has
<1>9. Committed(s, a, G[i], n, T[i], a[T[i]][i])
    BY <1>1, <1>2, <1>6, <1>7 DEF Committed
<1> QED
    BY <1>8, <1>9

-------------------------------------------------------------------------------------
(* Calls in flight.                                                                  *)

\* The index of the last entry that server m.to has after it accepted the call.
Total(m) == m.prevIdx + Len(m.entries)

\* A call carries all that its receiver accepted in the call's term and all that the
\* leader has from earlier terms; the commit index it carries is one the leader could have.
CallWhole(master, acks, m) ==
    /\ acks[m.term][m.to] <= Total(m)
    /\ \A k \in 1 .. Len(master[m.term]) : master[m.term][k].term < m.term => k <= Total(m)
    /\ m.commit <= Total(m)
    /\ Committed(master, acks, master[m.term], m.commit, m.term, Total(m))

\* A leader has one call at a time in flight to each peer.
CallsWhole(N, master, acks) ==
    /\ \A m \in DOMAIN N : m.type = "AppendEntries" => N[m] = 1 /\ CallWhole(master, acks, m)
    /\ \A m, n \in DOMAIN N :
        m.type = "AppendEntries" /\ n.type = "AppendEntries" /\ m.from = n.from /\ m.to = n.to
            => m = n

LEMMA CommittedKept ==
    ASSUME NEW term, NEW lg, NEW votes, NEW won, NEW master, NEW acks,
           NEW T, NEW G, NEW new, NEW w, NEW s, NEW a,
           Histories(term, lg, votes, won, master), Histories(T, G, new, w, s),
           acks \in [Nat -> [Server -> Nat]], a \in [Nat -> [Server -> Nat]],
           Moves(term, lg, won, master, acks, T, G, w, s, a),
           NEW u \in Nat, won[u] # Nil, NEW n \in Nat, NEW most,
           Committed(master, acks, master[u], n, u, most)
    PROVE  Committed(s, a, s[u], n, u, most)
<1> SUFFICES ASSUME n # 0
             PROVE  \E t, k \in Nat :
                        /\ Chosen(s, a, t, k) /\ n <= k /\ Has(s[u], s[t], n)
                        /\ t < u \/ (t = u /\ n <= most)
    BY DEF Committed
<1>1. PICK t \in Nat, k \in Nat :
        /\ Chosen(master, acks, t, k) /\ n <= k /\ Has(master[u], master[t], n)
        /\ t < u \/ (t = u /\ n <= most)
    BY DEF Committed
<1>2. Chosen(s, a, t, k)
    BY <1>1, MovesKeep
<1>3. Own(master, t, k)
    BY <1>1 DEF Chosen
<1>4. won[t] # Nil /\ Len(master[t]) \in Nat
    BY <1>3, OwnWon, HistoryTypes
<1>5. n <= Len(master[t])
    <2>1. k \in 1 .. Len(master[t])
        BY <1>3 DEF Own
    <2> QED
        BY ONLY n \in Nat, k \in Nat, <1>1, <1>4, <2>1
<1>6. Has(s[u], s[t], n)
    <2>1. Extended(won, master, w, s)
        BY DEF Moves
    <2> QED
        BY <1>1, <1>4, <1>5, <2>1, HasKept
<1> QED
    BY <1>1, <1>2, <1>6

LEMMA CallKept ==
    ASSUME NEW term, NEW lg, NEW votes, NEW won, NEW master, NEW acks,
           NEW T, NEW G, NEW new, NEW w, NEW s, NEW a,
           Histories(term, lg, votes, won, master), Histories(T, G, new, w, s),
           acks \in [Nat -> [Server -> Nat]], a \in [Nat -> [Server -> Nat]],
           Moves(term, lg, won, master, acks, T, G, w, s, a),
           NEW m \in Message, m.type = "AppendEntries", CallDerived(m, won, master),
           CallWhole(master, acks, m), a[m.term][m.to] = acks[m.term][m.to]
    PROVE  CallWhole(s, a, m)
<1>1. m.term \in Nat /\ m.commit \in Nat /\ m.from \in Server
    BY DEF Message
<1>2. won[m.term] # Nil
    BY <1>1, NilAssumption DEF CallDerived
<1>3. Committed(s, a, s[m.term], m.commit, m.term, Total(m))
    <2>1. Committed(master, acks, master[m.term], m.commit, m.term, Total(m))
        BY DEF CallWhole
    <2>2. PICK u \in Nat, n \in Nat : u = m.term /\ n = m.commit
        BY <1>1
    <2>3. Committed(master, acks, master[u], n, u, Total(m)) /\ won[u] # Nil
        BY <1>2, <2>1, <2>2
    <2>4. Committed(s, a, s[u], n, u, Total(m))
        <3>1. /\ Histories(term, lg, votes, won, master) /\ Histories(T, G, new, w, s)
              /\ acks \in [Nat -> [Server -> Nat]] /\ a \in [Nat -> [Server -> Nat]]
              /\ Moves(term, lg, won, master, acks, T, G, w, s, a)
            OBVIOUS
        <3> QED
            BY ONLY u \in Nat, n \in Nat, <2>3, <3>1, CommittedKept, ZenonT(40)
    <2> QED
        BY <2>2, <2>4
<1>4. ASSUME NEW k \in 1 .. Len(s[m.term]), s[m.term][k].term < m.term PROVE k <= Total(m)
    <2>1. /\ Len(master[m.term]) \in Nat /\ Len(s[m.term]) \in Nat
          /\ \A x \in 1 .. Len(master[m.term]) : s[m.term][x] = master[m.term][x]
        <3>1. Extended(won, master, w, s)
            BY DEF Moves
        <3>2. PICK u \in Nat : u = m.term /\ won[u] # Nil
            BY <1>1, <1>2
        <3>3. /\ Len(master[u]) \in Nat /\ Len(s[u]) \in Nat
              /\ \A x \in 1 .. Len(master[u]) : s[u][x] = master[u][x]
            BY ONLY u \in Nat, <3>1, <3>2, ExtendedAt
        <3> QED
            BY <3>2, <3>3
    <2>2. CASE k \in 1 .. Len(master[m.term])
        BY <1>4, <2>1, <2>2 DEF CallWhole
    <2>3. CASE k \in Len(master[m.term]) + 1 .. Len(s[m.term])
        <3>1. s[m.term][k].term = m.term
            BY <1>1, <1>2, <2>3 DEF Moves
        <3> QED
            BY <1>1, <1>4, <3>1
    <2> QED
        BY <2>1, <2>2, <2>3
<1> QED
    BY <1>3, <1>4 DEF CallWhole

-------------------------------------------------------------------------------------
(* The invariant.                                                                    *)

\* A vote call that can still win a vote describes the log of its candidate.
VoteCallsTrue(N, term, lg, won) ==
    \A m \in DOMAIN N :
        m.type = "RequestVote" /\ won[m.term] = Nil /\ term[m.from] = m.term =>
            m.lastIdx = Len(lg[m.from]) /\ m.lastTerm = LastTerm(lg[m.from])

\* A return that reports success speaks of entries that its sender has accepted.
ReturnsTrue(N, acks) ==
    \A m \in DOMAIN N : m.type = "AppendEntriesReply" /\ m.success =>
        m.last <= acks[m.argTerm][m.from]

\* A match index is in the leader's log; up to it the peer has accepted the own entries.
\* It may be a leftover of an earlier term: entries of earlier terms are not counted.
MatchGood(term, lg, match, master, acks, i) ==
    \A j \in Others(i) :
        /\ match[i][j] <= Len(lg[i])
        /\ \A k \in Nat : Own(master, term[i], k) /\ k <= match[i][j] => k <= acks[term[i]][j]
MatchTrue(term, lg, match, won, master, acks) ==
    \A i \in Server : won[term[i]] = i => MatchGood(term, lg, match, master, acks, i)

CommitGood(term, lg, commit, master, acks, i) ==
    Committed(master, acks, lg[i], commit[i], term[i], acks[term[i]][i])
CommitTrue(term, lg, commit, master, acks) ==
    \A i \in Server : CommitGood(term, lg, commit, master, acks, i)

\* What services were given: chosen entries, without a gap, up to the applied index and in
\* an earlier life of the server perhaps further.
Given(master, acks, x) ==
    \E t, k \in Nat : Chosen(master, acks, t, k) /\ x[1] \in 1 .. k /\ master[t][x[1]] = x[2]
UpTo(S, n) == \A k : (\E x \in S : x[1] = k) <=> k \in 1 .. n
AllOf(given) == UNION {given[i] : i \in Server}
AppliedTrue(commit, applied, given, master, acks) ==
    /\ \A i \in Server :
        /\ applied[i] <= commit[i]
        /\ \E n \in Nat : applied[i] <= n /\ UpTo(given[i], n)
        /\ \A x \in given[i] : Given(master, acks, x)
    /\ \E n \in Nat : UpTo(AllOf(given), n)

AckInv(votes, won, master, acks) ==
    /\ Acks(currentTerm, log, won, master, acks)
    /\ WinnersHave(currentTerm, won, master, acks)
    /\ LogsHave(currentTerm, log, master, acks)
    /\ VotesCarry(currentTerm, log, votes, won, master, acks)
    /\ VoteCallsTrue(net, currentTerm, log, won)
    /\ CallsWhole(net, master, acks)
    /\ ReturnsTrue(net, acks)
    /\ MatchTrue(currentTerm, log, matchIdx, won, master, acks)
    /\ CommitTrue(currentTerm, log, commitIdx, master, acks)
    /\ AppliedTrue(commitIdx, appliedLast, logs, master, acks)

\* The predicates after a step are those of the state it leads to.
LEMMA AckInvAfter ==
    ASSUME NEW votes, NEW won, NEW master, NEW acks,
           Acks(currentTerm', log', won, master, acks),
           WinnersHave(currentTerm', won, master, acks),
           LogsHave(currentTerm', log', master, acks),
           VotesCarry(currentTerm', log', votes, won, master, acks),
           VoteCallsTrue(net', currentTerm', log', won),
           CallsWhole(net', master, acks),
           ReturnsTrue(net', acks),
           MatchTrue(currentTerm', log', matchIdx', won, master, acks),
           CommitTrue(currentTerm', log', commitIdx', master, acks),
           AppliedTrue(commitIdx', appliedLast', logs', master, acks)
    PROVE  AckInv(votes, won, master, acks)'
BY DEF AckInv

\* What VoteInv and LogInv say of the histories, before and after a step.
LEMMA HistoriesNow ==
    ASSUME TypeOK, NEW votes, NEW won, NEW master, VoteInv(votes), LogInv(votes, won, master)
    PROVE  Histories(currentTerm, log, votes, won, master)
BY DEF TypeOK, VoteInv, RecordsVotes, LogInv, OneWinner, LogsDerived, Histories

LEMMA HistoriesAfter ==
    ASSUME TypeOK', NEW votes, NEW won, NEW master, VoteInv(votes)', LogInv(votes, won, master)'
    PROVE  Histories(currentTerm', log', votes, won, master)
<1>1. TypeOK' /\ RecordsVotes(votes)' /\ OneWinner(votes, won, master)' /\ LogsDerived(won, master)'
    BY DEF VoteInv, LogInv
<1> QED
    BY <1>1 DEF TypeOK, RecordsVotes, OneWinner, LogsDerived, Histories, Voters, Majority, Derived

-------------------------------------------------------------------------------------
(* What a step keeps.                                                                *)

LEMMA GivenKept ==
    ASSUME NEW term, NEW lg, NEW votes, NEW won, NEW master, NEW acks,
           NEW T, NEW G, NEW new, NEW w, NEW s, NEW a,
           Histories(term, lg, votes, won, master), Histories(T, G, new, w, s),
           acks \in [Nat -> [Server -> Nat]], a \in [Nat -> [Server -> Nat]],
           Moves(term, lg, won, master, acks, T, G, w, s, a), NEW x, Given(master, acks, x)
    PROVE  Given(s, a, x)
<1>1. PICK t \in Nat, k \in Nat :
        Chosen(master, acks, t, k) /\ x[1] \in 1 .. k /\ master[t][x[1]] = x[2]
    BY DEF Given
<1>2. Chosen(s, a, t, k)
    BY <1>1, MovesKeep
<1>3. Own(master, t, k)
    BY <1>1 DEF Chosen
<1>4. won[t] # Nil
    BY ONLY Histories(term, lg, votes, won, master), t \in Nat, <1>3, OwnWon
<1>5. Extended(won, master, w, s)
    BY DEF Moves
<1>6. Len(master[t]) \in Nat /\ \A y \in 1 .. Len(master[t]) : s[t][y] = master[t][y]
    BY ONLY t \in Nat, <1>4, <1>5, ExtendedAt
<1>7. k \in 1 .. Len(master[t])
    BY <1>3 DEF Own
<1>8. x[1] \in 1 .. Len(master[t])
    BY ONLY k \in Nat, <1>1, <1>6, <1>7
<1> QED
    BY <1>1, <1>2, <1>6, <1>8 DEF Given

\* No server counts more entries as applied than before or than it may.
NoneApplied(applied, A, C) == \A i \in Server : A[i] <= applied[i] /\ A[i] <= C[i]

\* A step that gives the services nothing.
LEMMA AppliedKept ==
    ASSUME NEW term, NEW lg, NEW votes, NEW won, NEW master, NEW acks,
           NEW T, NEW G, NEW new, NEW w, NEW s, NEW a,
           Histories(term, lg, votes, won, master), Histories(T, G, new, w, s),
           acks \in [Nat -> [Server -> Nat]], a \in [Nat -> [Server -> Nat]],
           Moves(term, lg, won, master, acks, T, G, w, s, a),
           NEW given, NEW commit, NEW applied, applied \in [Server -> Nat], NEW C,
           NEW A, A \in [Server -> Nat], AppliedTrue(commit, applied, given, master, acks),
           NoneApplied(applied, A, C)
    PROVE  AppliedTrue(C, A, given, s, a)
<1>1. ASSUME NEW i \in Server
      PROVE  /\ \E n \in Nat : A[i] <= n /\ UpTo(given[i], n)
             /\ \A x \in given[i] : Given(s, a, x)
    <2>1. PICK n \in Nat : applied[i] <= n /\ UpTo(given[i], n)
        BY DEF AppliedTrue
    <2>2. A[i] \in Nat /\ applied[i] \in Nat /\ A[i] <= applied[i]
        BY DEF NoneApplied
    <2>3. A[i] <= n
        BY ONLY n \in Nat, <2>1, <2>2
    <2>4. ASSUME NEW x \in given[i] PROVE Given(s, a, x)
        <3>1. Given(master, acks, x)
            BY DEF AppliedTrue
        <3> QED
            BY <3>1, GivenKept
    <2> QED
        BY <2>1, <2>3, <2>4
<1> QED
    BY <1>1 DEF AppliedTrue, NoneApplied

\* A vote call keeps describing its candidate until that one leaves the term or wins.
LEMMA VoteCallsKept ==
    ASSUME NEW term \in [Server -> Nat], NEW lg, NEW won, NEW master, NEW acks,
           NEW T \in [Server -> Nat], NEW G, NEW w, NEW s, NEW a, NEW B, NEW C,
           Moves(term, lg, won, master, acks, T, G, w, s, a),
           DOMAIN C \subseteq Message, VoteCallsTrue(B, term, lg, won),
           \A m \in DOMAIN C : m.type = "RequestVote" =>
                \/ m \in DOMAIN B /\ m.term <= term[m.from]
                \/ m.lastIdx = Len(G[m.from]) /\ m.lastTerm = LastTerm(G[m.from])
    PROVE  VoteCallsTrue(C, T, G, w)
<1> SUFFICES ASSUME NEW m \in DOMAIN C, m.type = "RequestVote", w[m.term] = Nil,
                    T[m.from] = m.term
             PROVE  m.lastIdx = Len(G[m.from]) /\ m.lastTerm = LastTerm(G[m.from])
    BY DEF VoteCallsTrue
<1>1. m.from \in Server /\ m.term \in Nat
    BY DEF Message
<1>2. CASE m \in DOMAIN B /\ m.term <= term[m.from]
    <2>1. term[m.from] <= T[m.from]
        BY <1>1 DEF Moves
    <2>2. term[m.from] \in Nat
        BY <1>1
    <2>3. term[m.from] = m.term
        BY ONLY T[m.from] = m.term, <1>1, <1>2, <2>1, <2>2
    <2>4. won[m.term] = Nil
        BY <1>1 DEF Moves, Extended
    <2>5. G[m.from] = lg[m.from]
        BY <1>1 DEF Moves, Rewritten
    <2> QED
        BY <1>2, <2>3, <2>4, <2>5 DEF VoteCallsTrue
<1> QED
    BY <1>2

\* Match indices stay good while their leader leads.
LEMMA MatchKept ==
    ASSUME NEW term, NEW lg, NEW votes, NEW won, NEW master, NEW acks,
           NEW T, NEW G, NEW new, NEW w, NEW s, NEW a,
           Histories(term, lg, votes, won, master), Histories(T, G, new, w, s),
           acks \in [Nat -> [Server -> Nat]], a \in [Nat -> [Server -> Nat]],
           Moves(term, lg, won, master, acks, T, G, w, s, a),
           NEW match, match \in [Server -> [Server -> Nat]], NEW after, NEW i \in Server,
           MatchTrue(term, lg, match, won, master, acks),
           won[T[i]] = i, after[i] = match[i]
    PROVE  MatchGood(T, G, after, s, a, i)
<1>t. term[i] \in Nat /\ T[i] \in Nat
    BY HistoryTypes
<1>1. T[i] = term[i]
    <2>1. won[T[i]] # Nil
        BY NilAssumption
    <2>2. T[i] <= term[won[T[i]]]
        BY <1>t, <2>1 DEF Histories
    <2>3. term[i] <= T[i]
        BY DEF Moves
    <2> QED
        BY ONLY won[T[i]] = i, <1>t, <2>2, <2>3
<1>2. PICK t \in Nat : t = T[i]
    BY <1>t
<1>3. Extended(won, master, w, s)
    BY DEF Moves
<1>4. w[t] = i /\ won[t] = i /\ won[t] # Nil
    <2>1. won[t] = i /\ won[t] # Nil
        BY <1>2, NilAssumption
    <2> QED
        BY <1>3, <2>1 DEF Extended
<1>5. master[t] = lg[i] /\ s[t] = G[i]
    BY <1>1, <1>2, <1>4 DEF Histories
<1>6. /\ Len(master[t]) \in Nat /\ Len(s[t]) \in Nat /\ Len(master[t]) <= Len(s[t])
      /\ \A x \in 1 .. Len(master[t]) : s[t][x] = master[t][x]
    BY ONLY t \in Nat, <1>3, <1>4, ExtendedAt
<1>7. MatchGood(term, lg, match, master, acks, i)
    BY <1>1 DEF MatchTrue
<1> SUFFICES ASSUME NEW j \in Others(i)
             PROVE  /\ after[i][j] <= Len(G[i])
                    /\ \A k \in Nat : Own(s, T[i], k) /\ k <= after[i][j] => k <= a[T[i]][j]
    BY DEF MatchGood
<1>8. PICK n \in Nat : n = match[i][j] /\ n = after[i][j]
    <2>1. j \in Server
        BY DEF Others
    <2> QED
        BY <2>1
<1>9. n <= Len(master[t])
    BY <1>5, <1>7, <1>8 DEF MatchGood
<1>10. n <= Len(s[t])
    BY ONLY n \in Nat, <1>6, <1>9
<1>11. ASSUME NEW k \in Nat, Own(s, t, k), k <= n PROVE k <= a[t][j]
    <2>1. k \in 1 .. Len(s[t]) /\ s[t][k].term = t
        BY <1>11 DEF Own
    <2>2. k \in 1 .. Len(master[t])
        BY ONLY k \in Nat, n \in Nat, <1>6, <1>9, <1>11, <2>1
    <2>3. Own(master, t, k)
        BY <1>6, <2>1, <2>2 DEF Own
    <2>4. k <= acks[t][j]
        BY <1>1, <1>2, <1>7, <1>8, <1>11, <2>3 DEF MatchGood
    <2>5. j \in Server /\ acks[t][j] \in Nat /\ a[t][j] \in Nat
        <3>1. j \in Server
            BY DEF Others
        <3> QED
            BY <3>1
    <2>6. acks[t][j] <= a[t][j]
        BY <2>5 DEF Moves
    <2> QED
        BY ONLY k \in Nat, <2>4, <2>5, <2>6
<1> QED
    BY <1>2, <1>5, <1>8, <1>10, <1>11

-------------------------------------------------------------------------------------
(* A step keeps the invariant when it does not do more than this.                    *)

\* Server j votes for nobody, for the same server as before, for itself, or for one that
\* has opened the term and, if it can still win it, has a log as good as j's.
GoodVote(w, j) ==
    \/ votedFor'[j] = Nil
    \/ votedFor'[j] = votedFor[j] /\ currentTerm'[j] = currentTerm[j]
    \/ /\ currentTerm'[j] <= currentTerm'[votedFor'[j]]
       /\ currentTerm'[votedFor'[j]] = currentTerm'[j] /\ w[currentTerm'[j]] = Nil =>
            votedFor'[j] = j \/ AsUpToDate(log'[votedFor'[j]], log'[j])

\* A call or a return that was not in flight before is a good one.
GoodVoteCalls ==
    \A m \in DOMAIN net' : m.type = "RequestVote" =>
        \/ m \in DOMAIN net
        \/ m.lastIdx = Len(log'[m.from]) /\ m.lastTerm = LastTerm(log'[m.from])
GoodCalls(s, acks, a) ==
    /\ \A m \in DOMAIN net' : m.type = "AppendEntries" =>
        /\ net'[m] = 1
        /\ \/ m \in DOMAIN net /\ a[m.term][m.to] = acks[m.term][m.to]
           \/ CallWhole(s, a, m)
    /\ \A m, n \in DOMAIN net' :
        m.type = "AppendEntries" /\ n.type = "AppendEntries" /\ m.from = n.from /\ m.to = n.to
            => m = n
GoodReturns(a) ==
    \A m \in DOMAIN net' : m.type = "AppendEntriesReply" /\ m.success =>
        m \in DOMAIN net \/ m.last <= a[m.argTerm][m.from]

GoodIndices(won, w, s, a) ==
    \A i \in Server :
        /\ w[currentTerm'[i]] = i =>
            \/ won[currentTerm'[i]] = i /\ matchIdx'[i] = matchIdx[i]
            \/ MatchGood(currentTerm', log', matchIdx', s, a, i)
        /\ \/ commitIdx'[i] = commitIdx[i]
           \/ CommitGood(currentTerm', log', commitIdx', s, a, i)

GoodApplied(s, a) ==
    \/ AppliedTrue(commitIdx', appliedLast', logs', s, a)
    \/ UNCHANGED logs /\ NoneApplied(appliedLast, appliedLast', commitIdx')

\* The votes that a step adds to the history are the ones servers have after it.
LEMMA NewVotes ==
    ASSUME TypeOK', NEW votes, NEW new, VoteInv(votes), VoteInv(new)', VotesNow(votes, new),
           NEW w, \A j \in Server : GoodVote(w, j),
           NEW u \in Nat, NEW c \in Server, NEW j \in Server, new[u][j] = c, votes[u][j] # c
    PROVE  /\ u <= currentTerm'[c]
           /\ u = currentTerm'[c] /\ w[u] = Nil => c = j \/ AsUpToDate(log'[c], log'[j])
<1>1. u = currentTerm'[j]
    BY DEF VotesNow
<1>2. votedFor'[j] = c
    <2>1. RecordsVotes(new)'
        BY DEF VoteInv
    <2> QED
        BY <1>1, <2>1 DEF RecordsVotes
<1>3. ~(votedFor'[j] = votedFor[j] /\ currentTerm'[j] = currentTerm[j])
    <2>1. votes[currentTerm[j]][j] = votedFor[j]
        BY DEF VoteInv, RecordsVotes
    <2> QED
        BY <1>1, <1>2, <2>1
<1>4. votedFor'[j] # Nil
    BY <1>2, NilAssumption
<1> QED
    BY <1>1, <1>2, <1>3, <1>4 DEF GoodVote

\* Calls that were in flight and stay there remain good.
LEMMA GoodCallsWhole ==
    ASSUME TypeOK, TypeOK', NEW votes, NEW won, NEW master, NEW acks,
           NEW new, NEW w, NEW s, NEW a,
           Histories(currentTerm, log, votes, won, master),
           Histories(currentTerm', log', new, w, s),
           acks \in [Nat -> [Server -> Nat]], a \in [Nat -> [Server -> Nat]],
           Moves(currentTerm, log, won, master, acks, currentTerm', log', w, s, a),
           CallsDerived(won, master), CallsWhole(net, master, acks), GoodCalls(s, acks, a)
    PROVE  CallsWhole(net', s, a)
<1>1. ASSUME NEW m \in DOMAIN net', m.type = "AppendEntries"
      PROVE  net'[m] = 1 /\ CallWhole(s, a, m)
    <2>1. net'[m] = 1
        BY <1>1 DEF GoodCalls
    <2>2. CASE m \in DOMAIN net /\ a[m.term][m.to] = acks[m.term][m.to]
        <3>1. m \in Message /\ CallDerived(m, won, master) /\ CallWhole(master, acks, m)
            BY <1>1, <2>2 DEF TypeOK, CallsDerived, CallsWhole
        <3>2. /\ Histories(currentTerm, log, votes, won, master)
              /\ Histories(currentTerm', log', new, w, s)
              /\ acks \in [Nat -> [Server -> Nat]] /\ a \in [Nat -> [Server -> Nat]]
              /\ Moves(currentTerm, log, won, master, acks, currentTerm', log', w, s, a)
            OBVIOUS
        <3>3. CallWhole(s, a, m)
            BY ONLY <1>1, <2>2, <3>1, <3>2, CallKept
        <3> QED
            BY <2>1, <3>3
    <2> QED
        BY <1>1, <2>1, <2>2 DEF GoodCalls
<1> QED
    BY <1>1 DEF CallsWhole, GoodCalls

LEMMA GoodReturnsTrue ==
    ASSUME TypeOK, NEW term, NEW lg, NEW won, NEW master, NEW acks,
           NEW T, NEW G, NEW w, NEW s, NEW a,
           acks \in [Nat -> [Server -> Nat]], a \in [Nat -> [Server -> Nat]],
           Moves(term, lg, won, master, acks, T, G, w, s, a),
           ReturnsTrue(net, acks), GoodReturns(a)
    PROVE  ReturnsTrue(net', a)
<1> SUFFICES ASSUME NEW m \in DOMAIN net', m.type = "AppendEntriesReply", m.success,
                    m \in DOMAIN net
             PROVE  m.last <= a[m.argTerm][m.from]
    BY DEF ReturnsTrue, GoodReturns
<1>1. m \in Message
    BY DEF TypeOK
<1>2. m.argTerm \in Nat /\ m.from \in Server /\ m.last \in Nat
    BY <1>1 DEF Message
<1>3. PICK t \in Nat, j \in Server, l \in Nat : t = m.argTerm /\ j = m.from /\ l = m.last
    BY <1>2
<1>4. l <= acks[t][j]
    BY <1>3 DEF ReturnsTrue
<1>5. acks[t][j] <= a[t][j]
    BY DEF Moves
<1>6. acks[t][j] \in Nat /\ a[t][j] \in Nat
    OBVIOUS
<1>7. l <= a[t][j]
    BY ONLY l \in Nat, <1>4, <1>5, <1>6
<1> QED
    BY <1>3, <1>7

LEMMA SafetyFrame ==
    ASSUME TypeOK, TypeOK', NEW votes, NEW won, NEW master, NEW acks,
           NEW new, NEW w, NEW s, NEW a,
           VoteInv(votes), LogInv(votes, won, master), AckInv(votes, won, master, acks),
           VoteInv(new)', LogInv(new, w, s)', VotesNow(votes, new),
           Acks(currentTerm', log', w, s, a),
           Moves(currentTerm, log, won, master, acks, currentTerm', log', w, s, a),
           \A u \in Nat : won[u] = Nil /\ w[u] # Nil =>
                Majority(Cardinality(Voters(votes, u, w[u]))),
           \A j \in Server : GoodVote(w, j),
           GoodVoteCalls, GoodCalls(s, acks, a), GoodReturns(a), GoodIndices(won, w, s, a),
           GoodApplied(s, a)
    PROVE  AckInv(new, w, s, a)'
<1>1. Histories(currentTerm, log, votes, won, master) /\ Histories(currentTerm', log', new, w, s)
    BY HistoriesNow, HistoriesAfter
<1>2. acks \in [Nat -> [Server -> Nat]] /\ a \in [Nat -> [Server -> Nat]]
    BY DEF AckInv, Acks
<1>3. /\ WinnersHave(currentTerm, won, master, acks) /\ LogsHave(currentTerm, log, master, acks)
      /\ VotesCarry(currentTerm, log, votes, won, master, acks)
      /\ VoteCallsTrue(net, currentTerm, log, won) /\ CallsWhole(net, master, acks)
      /\ ReturnsTrue(net, acks) /\ MatchTrue(currentTerm, log, matchIdx, won, master, acks)
      /\ CommitTrue(currentTerm, log, commitIdx, master, acks)
    BY DEF AckInv
<1>m. Moves(currentTerm, log, won, master, acks, currentTerm', log', w, s, a)
    OBVIOUS
<1>4. WinnersHave(currentTerm', w, s, a)
    <2>1. ByMajority(votes, won, w)
        BY DEF ByMajority
    <2>2. /\ WinnersHave(currentTerm, won, master, acks)
          /\ VotesCarry(currentTerm, log, votes, won, master, acks)
        BY <1>3
    <2> QED
        BY ONLY <1>1, <1>2, <1>m, <2>1, <2>2, WinnersHaveNext
<1>5. LogsHave(currentTerm', log', s, a)
    <2>1. LogsHave(currentTerm, log, master, acks) /\ Acks(currentTerm', log', w, s, a)
        BY <1>3
    <2> QED
        BY ONLY <1>1, <1>2, <1>4, <1>m, <2>1, LogsHaveNext
<1>6. VotesCarry(currentTerm', log', new, w, s, a)
    <2>1. \A u \in Nat : \A c, j \in Server : new[u][j] = c /\ votes[u][j] # c =>
            /\ u <= currentTerm'[c]
            /\ u = currentTerm'[c] /\ w[u] = Nil => c = j \/ AsUpToDate(log'[c], log'[j])
        BY NewVotes
    <2>2. Earned(votes, currentTerm', log', new, w)
        BY ONLY <2>1 DEF Earned
    <2>3. VotesCarry(currentTerm, log, votes, won, master, acks)
        BY <1>3
    <2> QED
        BY ONLY <1>1, <1>2, <2>3, <1>4, <1>5, <1>m, <2>2, VotesCarryNext
<1>7. VoteCallsTrue(net', currentTerm', log', w)
    <2>1. currentTerm \in [Server -> Nat] /\ currentTerm' \in [Server -> Nat]
          /\ DOMAIN net' \subseteq Message /\ DOMAIN net \subseteq Message
        BY DEF TypeOK
    <2>2. \A m \in DOMAIN net' : m.type = "RequestVote" =>
            \/ m \in DOMAIN net /\ m.term <= currentTerm[m.from]
            \/ m.lastIdx = Len(log'[m.from]) /\ m.lastTerm = LastTerm(log'[m.from])
        <3> SUFFICES ASSUME NEW m \in DOMAIN net', m.type = "RequestVote", m \in DOMAIN net
                     PROVE  m.term <= currentTerm[m.from]
            BY DEF GoodVoteCalls
        <3>1. IsVote(m) /\ Asked(votes, m)
            BY DEF VoteInv, VotesAsked, IsVote
        <3> QED
            BY <3>1 DEF Asked, TermOf, CandidateOf
    <2> QED
        BY <1>3, <2>1, <2>2, VoteCallsKept
<1>8. CallsWhole(net', s, a)
    BY <1>1, <1>2, <1>3, GoodCallsWhole DEF LogInv
<1>9. ReturnsTrue(net', a)
    BY <1>2, <1>3, GoodReturnsTrue
<1>10. MatchTrue(currentTerm', log', matchIdx', w, s, a)
    <2> SUFFICES ASSUME NEW i \in Server, won[currentTerm'[i]] = i, matchIdx'[i] = matchIdx[i]
                 PROVE  MatchGood(currentTerm', log', matchIdx', s, a, i)
        BY DEF MatchTrue, GoodIndices
    <2>1. matchIdx \in [Server -> [Server -> Nat]]
        BY DEF TypeOK
    <2>2. i \in Server /\ won[currentTerm'[i]] = i /\ matchIdx'[i] = matchIdx[i]
        OBVIOUS
    <2>3. MatchTrue(currentTerm, log, matchIdx, won, master, acks)
        BY <1>3
    <2> QED
        BY ONLY <1>1, <1>2, <1>m, <2>1, <2>2, <2>3, MatchKept
<1>11. CommitTrue(currentTerm', log', commitIdx', s, a)
    <2> SUFFICES ASSUME NEW i \in Server, commitIdx'[i] = commitIdx[i]
                 PROVE  CommitGood(currentTerm', log', commitIdx', s, a, i)
        BY DEF CommitTrue, GoodIndices
    <2>1. PICK n \in Nat : n = commitIdx[i] /\ n = commitIdx'[i]
        BY DEF TypeOK
    <2>2. Committed(master, acks, log[i], n, currentTerm[i], acks[currentTerm[i]][i])
        BY <1>3, <2>1 DEF CommitTrue, CommitGood
    <2>3. Committed(s, a, log'[i], n, currentTerm'[i], a[currentTerm'[i]][i])
        <3>1. CASE n = 0
            BY <3>1 DEF Committed
        <3>2. CASE n # 0
            BY ONLY i \in Server, n \in Nat, <1>1, <1>2, <1>4, <1>m, <2>2, <3>2, CommitKept
        <3> QED
            BY <3>1, <3>2
    <2> QED
        BY <2>1, <2>3 DEF CommitGood
<1>12. AppliedTrue(commitIdx', appliedLast', logs', s, a)
    <2> SUFFICES ASSUME UNCHANGED logs, NoneApplied(appliedLast, appliedLast', commitIdx')
                 PROVE  AppliedTrue(commitIdx', appliedLast', logs', s, a)
        BY DEF GoodApplied
    <2>1. appliedLast \in [Server -> Nat] /\ appliedLast' \in [Server -> Nat]
        BY DEF TypeOK
    <2>2. AppliedTrue(commitIdx, appliedLast, logs, master, acks)
        BY DEF AckInv
    <2>3. AppliedTrue(commitIdx', appliedLast', logs, s, a)
        <3>1. NoneApplied(appliedLast, appliedLast', commitIdx')
            OBVIOUS
        <3> QED
            BY ONLY <1>1, <1>2, <1>m, <2>1, <2>2, <3>1, AppliedKept, ZenonT(40)
    <2> QED
        BY <2>3
<1> QED
    BY <1>4, <1>5, <1>6, <1>7, <1>8, <1>9, <1>10, <1>11, <1>12, AckInvAfter

\* No AppendEntries is sent.
NoNewAppends(B, C) ==
    \A x \in DOMAIN C : x.type = "AppendEntries" => x \in DOMAIN B /\ C[x] = B[x]

LEMMA NoAppendSent ==
    ASSUME NEW B, IsABag(B), NEW S, \A x \in S : x.type # "AppendEntries"
    PROVE  NoNewAppends(B, Send(B, S))
<1>1. DOMAIN Send(B, S) = DOMAIN B \cup S
    BY SendBag
<1> SUFFICES ASSUME NEW x \in DOMAIN Send(B, S), x.type = "AppendEntries"
             PROVE  x \in DOMAIN B /\ Send(B, S)[x] = B[x]
    BY DEF NoNewAppends
<1>2. x \notin S
    OBVIOUS
<1>3. x \in DOMAIN B
    BY <1>1, <1>2
<1> QED
    BY <1>2, <1>3, SendCount

LEMMA AppendDropped ==
    ASSUME NEW B, IsABag(B), NEW m, \A x \in DOMAIN B : x.type = "AppendEntries" => B[x] = 1
    PROVE  NoNewAppends(B, Drop(B, m))
BY DropBag, DropCount DEF NoNewAppends

LEMMA AppendReplied ==
    ASSUME NEW B, IsABag(B), NEW m, \A x \in DOMAIN B : x.type = "AppendEntries" => B[x] = 1,
           NEW r, r.type # "AppendEntries"
    PROVE  NoNewAppends(B, Send(Drop(B, m), {r}))
<1>1. IsABag(Drop(B, m)) /\ NoNewAppends(B, Drop(B, m))
    BY DropBag, AppendDropped
<1> DEFINE D == Drop(B, m)
<1> HIDE DEF D
<1>2. NoNewAppends(D, Send(D, {r}))
    BY <1>1, NoAppendSent DEF D
<1> QED
    BY <1>1, <1>2 DEF NoNewAppends, D

LEMMA CallsStay ==
    ASSUME NEW master, NEW acks, CallsWhole(net, master, acks), NoNewAppends(net, net'), NEW s, NEW a,
           \A m \in DOMAIN net' : m.type = "AppendEntries" => a[m.term][m.to] = acks[m.term][m.to]
    PROVE  GoodCalls(s, acks, a)
BY DEF CallsWhole, NoNewAppends, GoodCalls

\* A step that changes no log leaves the winners, their logs and what servers accepted.
LEMMA SameMoves ==
    ASSUME TypeOK, TypeOK', NEW votes, NEW won, NEW master, NEW acks, NEW new,
           VoteInv(votes), LogInv(votes, won, master), Acks(currentTerm, log, won, master, acks),
           Grows(votes, new), UNCHANGED log, \A j \in Server : currentTerm[j] <= currentTerm'[j]
    PROVE  /\ Acks(currentTerm', log', won, master, acks)
           /\ Moves(currentTerm, log, won, master, acks, currentTerm', log', won, master, acks)
<1>1. Histories(currentTerm, log, votes, won, master) /\ OneWinner(votes, won, master)
    BY HistoriesNow DEF LogInv
<1>2. acks \in [Nat -> [Server -> Nat]] /\ \A t \in Nat : \A j \in Server : acks[t][j] \in Nat
    BY DEF Acks
<1>3. Acks(currentTerm', log', won, master, acks)
    <2>1. ASSUME NEW t \in Nat, NEW j \in Server, acks[t][j] > 0
          PROVE  won[t] # Nil /\ t <= currentTerm'[j] /\ acks[t][j] <= Len(master[t])
        <3>1. won[t] # Nil /\ t <= currentTerm[j] /\ acks[t][j] <= Len(master[t])
            BY <2>1 DEF Acks
        <3>2. currentTerm[j] \in Nat /\ currentTerm'[j] \in Nat /\ currentTerm[j] <= currentTerm'[j]
            BY DEF TypeOK
        <3>3. t <= currentTerm'[j]
            BY ONLY t \in Nat, <3>1, <3>2
        <3> QED
            BY <3>1, <3>3
    <2>2. ASSUME NEW j \in Server, won[currentTerm'[j]] = j
          PROVE  acks[currentTerm'[j]][j] = Len(log'[j])
        <3>1. currentTerm'[j] = currentTerm[j]
            BY <1>1, <2>2, WinnersKept
        <3> QED
            BY <2>2, <3>1 DEF Acks
    <2> QED
        BY <1>2, <2>1, <2>2 DEF Acks
<1>4. Extended(won, master, won, master)
    <2>1. won \in [Nat -> Server \cup {Nil}] /\ master \in [Nat -> Seq(Entry)]
        BY <1>1 DEF OneWinner
    <2>2. \A t \in Nat : Len(master[t]) \in Nat
        BY <2>1
    <2> QED
        BY <2>1, <2>2 DEF Extended
<1>5. \A t \in Nat : \A k \in Nat : Own(master, t, k) => won[t] # Nil
    BY <1>1, OwnWon
<1>6. \A t \in Nat : \A k \in Len(master[t]) + 1 .. Len(master[t]) : master[t][k].term = t
    <2> TAKE t \in Nat
    <2>1. Len(master[t]) \in Nat
        BY <1>4, ExtendedAt
    <2> QED
        BY <2>1
<1>7. \A t \in Nat : \A j \in Server : acks[t][j] <= acks[t][j]
    BY <1>2
<1> QED
    BY <1>3, <1>4, <1>5, <1>6, <1>7 DEF Moves

LEMMA SafetySame ==
    ASSUME TypeOK, TypeOK', NEW votes, NEW won, NEW master, NEW acks, NEW new,
           VoteInv(votes), LogInv(votes, won, master), AckInv(votes, won, master, acks),
           Grows(votes, new), VotesNow(votes, new), VoteInv(new)', LogInv(new, won, master)',
           UNCHANGED log, \A j \in Server : currentTerm[j] <= currentTerm'[j],
           \A j \in Server : GoodVote(won, j), GoodVoteCalls,
           NoNewAppends(net, net') \/ GoodCalls(master, acks, acks),
           GoodReturns(acks), GoodIndices(won, won, master, acks), GoodApplied(master, acks)
    PROVE  AckInv(new, won, master, acks)'
<1>1. /\ Acks(currentTerm', log', won, master, acks)
      /\ Moves(currentTerm, log, won, master, acks, currentTerm', log', won, master, acks)
    BY SameMoves DEF AckInv
<1>2. GoodCalls(master, acks, acks)
    BY CallsStay DEF AckInv
<1> QED
    BY <1>1, <1>2, SafetyFrame

-------------------------------------------------------------------------------------
(* The actions.                                                                      *)

\* The histories before a step, and the votes after it.
Now(votes, won, master, acks) ==
    /\ TypeOK /\ LogDurable /\ VoteInv(votes) /\ LogInv(votes, won, master)
    /\ AckInv(votes, won, master, acks)
Voted(votes, new) == TypeOK' /\ Grows(votes, new) /\ VotesNow(votes, new) /\ VoteInv(new)'

LEMMA OldMessages ==
    ASSUME DOMAIN net' \subseteq DOMAIN net PROVE GoodVoteCalls /\ \A a : GoodReturns(a)
BY DEF GoodVoteCalls, GoodReturns

\* Indices that a step leaves alone.
LEMMA OldIndices ==
    ASSUME UNCHANGED <<matchIdx, commitIdx>>, NEW won, NEW s, NEW a
    PROVE  GoodIndices(won, won, s, a)
BY DEF GoodIndices

LEMMA OldApplied ==
    ASSUME TypeOK, UNCHANGED <<appliedLast, commitIdx, logs>>, NEW votes, NEW won, NEW master,
           NEW acks, AckInv(votes, won, master, acks), NEW s, NEW a
    PROVE  GoodApplied(s, a)
<1> SUFFICES ASSUME NEW i \in Server
             PROVE  appliedLast[i] <= appliedLast[i] /\ appliedLast[i] <= commitIdx[i]
    BY DEF GoodApplied, NoneApplied
<1>1. appliedLast[i] \in Nat
    BY DEF TypeOK
<1>2. appliedLast[i] <= commitIdx[i]
    BY DEF AckInv, AppliedTrue
<1> QED
    BY <1>1, <1>2

\* The ticker, the election goroutine and the network.
LEMMA SafetyLocal ==
    ASSUME NEW votes, NEW won, NEW master, NEW acks, NEW new,
           Now(votes, won, master, acks), Voted(votes, new),
           \/ \E i \in Server : Ticker(i) \/ ElectionGoroutine(i) \/ LeaderPersist(i)
           \/ \E m \in DOMAIN net : Lose(m)
           \/ UNCHANGED vars
    PROVE  LogInv(new, won, master)' /\ AckInv(new, won, master, acks)'
<1> USE DEF raftVars, tickVars, leaderVars, diskVars, applyVars
<1>t. /\ TypeOK /\ TypeOK' /\ IsABag(net) /\ currentTerm \in [Server -> Nat]
      /\ votedFor \in [Server -> Server \cup {Nil}]
    BY DEF Now, Voted, TypeOK
<1>1. LogInv(new, won, master)'
    BY LogsLocal DEF Now, Voted
<1>2. UNCHANGED <<log, matchIdx, commitIdx, appliedLast, logs>>
    BY DEF Ticker, FollowerTimeout, TickCandidate, CandidateWin, CandidateBackOff, TickLeader,
           LeaderPersist, ElectionGoroutine, Lose, vars
<1>3. \A j \in Server : currentTerm[j] <= currentTerm'[j] /\ GoodVote(won, j)
    <2> TAKE j \in Server
    <2>1. currentTerm[j] \in Nat /\ currentTerm'[j] \in Nat
        BY <1>t DEF TypeOK
    <2>2. CASE UNCHANGED <<currentTerm, votedFor>>
        BY <2>1, <2>2 DEF GoodVote
    <2>3. ASSUME NEW i \in Server, TickCandidate(i)
          PROVE  currentTerm[j] <= currentTerm'[j] /\ GoodVote(won, j)
        <3>1. /\ currentTerm' = [currentTerm EXCEPT ![i] = @ + 1]
              /\ votedFor' = [votedFor EXCEPT ![i] = i]
            BY <2>3 DEF TickCandidate
        <3>2. CASE j = i
            <4>1. currentTerm'[j] = currentTerm[j] + 1 /\ votedFor'[j] = j
                BY <1>t, <3>1, <3>2
            <4> QED
                BY <2>1, <4>1 DEF GoodVote
        <3>3. CASE j # i
            <4>1. currentTerm'[j] = currentTerm[j] /\ votedFor'[j] = votedFor[j]
                BY <1>t, <3>1, <3>3
            <4> QED
                BY <2>1, <4>1 DEF GoodVote
        <3> QED
            BY <3>2, <3>3
    <2> QED
        BY <2>2, <2>3 DEF Ticker, FollowerTimeout, CandidateWin, CandidateBackOff, TickLeader,
                          LeaderPersist, ElectionGoroutine, Lose, vars
<1>4. GoodVoteCalls /\ GoodReturns(acks) /\ NoNewAppends(net, net')
    <2>1. CASE net' = net
        <3>1. NoNewAppends(net, net')
            BY <2>1 DEF NoNewAppends
        <3> QED
            BY <2>1, <3>1, OldMessages
    <2>2. ASSUME NEW m \in DOMAIN net, Lose(m)
          PROVE  GoodVoteCalls /\ GoodReturns(acks) /\ NoNewAppends(net, net')
        <3>1. net' = Drop(net, m) /\ DOMAIN net' \subseteq DOMAIN net
            BY <1>t, <2>2, DropBag DEF Lose
        <3>2. \A x \in DOMAIN net : x.type = "AppendEntries" => net[x] = 1
            BY DEF Now, AckInv, CallsWhole
        <3> QED
            BY <1>t, <3>1, <3>2, OldMessages, AppendDropped
    <2>3. ASSUME NEW i \in Server, ElectionGoroutine(i)
          PROVE  GoodVoteCalls /\ GoodReturns(acks) /\ NoNewAppends(net, net')
        <3> DEFINE S == {VoteCall(i, j) : j \in Others(i)}
        <3>1. net' = Send(net, S)
            BY <2>3 DEF ElectionGoroutine
        <3>2. \A x \in S : /\ x.type = "RequestVote" /\ x.from = i
                           /\ x.lastIdx = Len(log'[i]) /\ x.lastTerm = LastTerm(log'[i])
            BY <1>2 DEF VoteCall
        <3> HIDE DEF S
        <3>3. DOMAIN net' = DOMAIN net \cup S
            BY <1>t, <3>1, SendBag
        <3>4. GoodVoteCalls
            BY <3>2, <3>3 DEF GoodVoteCalls
        <3>5. GoodReturns(acks)
            BY <3>2, <3>3 DEF GoodReturns
        <3>6. NoNewAppends(net, net')
            BY <1>t, <3>1, <3>2, NoAppendSent
        <3> QED
            BY <3>4, <3>5, <3>6
    <2> QED
        BY <2>1, <2>2, <2>3 DEF Ticker, FollowerTimeout, TickCandidate, CandidateWin,
                                CandidateBackOff, TickLeader, LeaderPersist, vars
<1>5. GoodIndices(won, won, master, acks) /\ GoodApplied(master, acks)
    BY <1>t, <1>2, OldIndices, OldApplied DEF Now
<1>6. AckInv(new, won, master, acks)'
    BY <1>1, <1>2, <1>3, <1>4, <1>5, SafetySame DEF Now, Voted
<1> QED
    BY <1>1, <1>6

\* The copy that sendAppendEntries sends is the call that broadcastHeartbeat prepared.
LEMMA SafetyCopy ==
    ASSUME NEW votes, NEW won, NEW master, NEW acks, NEW new,
           Now(votes, won, master, acks), Voted(votes, new), NEW m \in DOMAIN net, SendCopy(m)
    PROVE  LogInv(new, won, master)' /\ AckInv(new, won, master, acks)'
<1> USE DEF raftVars, tickVars, leaderVars, diskVars, applyVars
<1>t. TypeOK /\ TypeOK' /\ IsABag(net)
    BY DEF Now, Voted, TypeOK
<1>1. LogInv(new, won, master)'
    BY LogsCopy DEF Now, Voted
<1>2. UNCHANGED <<log, currentTerm, votedFor, matchIdx, commitIdx, appliedLast, logs>>
    BY DEF SendCopy
<1>3. \A j \in Server : currentTerm[j] <= currentTerm'[j] /\ GoodVote(won, j)
    BY <1>t, <1>2 DEF GoodVote, TypeOK
<1>4. PICK r : r = [m EXCEPT !.copied = TRUE]
    OBVIOUS
<1>5. /\ net' = Send(Drop(net, m), {r}) /\ m.type = "AppendEntries" /\ r.type = "AppendEntries"
      /\ r # m /\ r.from = m.from /\ r.to = m.to /\ r.term = m.term /\ r.prevIdx = m.prevIdx
      /\ r.entries = m.entries /\ r.commit = m.commit
    BY <1>t, <1>4, CopySays
<1>6. CallsWhole(net, master, acks)
    BY DEF Now, AckInv
<1>7. net[m] = 1 /\ CallWhole(master, acks, m) /\ r \notin DOMAIN net
    BY <1>5, <1>6 DEF CallsWhole
<1>8. /\ DOMAIN net' = (DOMAIN net \ {m}) \cup {r} /\ net'[r] = 1
      /\ \A x \in DOMAIN net \ {m} : net'[x] = net[x]
    BY <1>t, <1>5, <1>7, ReplyCount
<1>9. CallWhole(master, acks, r)
    BY <1>5, <1>7 DEF CallWhole, Total
<1>10. GoodCalls(master, acks, acks)
    <2>1. ASSUME NEW x \in DOMAIN net', x.type = "AppendEntries"
          PROVE  net'[x] = 1 /\ (x \in DOMAIN net \/ CallWhole(master, acks, x))
        <3>1. CASE x = r
            BY <1>8, <1>9, <3>1
        <3>2. CASE x # r
            BY <1>6, <1>8, <2>1, <3>2 DEF CallsWhole
        <3> QED
            BY <3>1, <3>2
    <2>2. ASSUME NEW x \in DOMAIN net', NEW y \in DOMAIN net', x.type = "AppendEntries",
                 y.type = "AppendEntries", x.from = y.from, x.to = y.to
          PROVE  x = y
        <3>1. CASE x = r /\ y # r
            BY <1>5, <1>6, <1>8, <2>2, <3>1 DEF CallsWhole
        <3>2. CASE x # r /\ y = r
            BY <1>5, <1>6, <1>8, <2>2, <3>2 DEF CallsWhole
        <3>3. CASE x # r /\ y # r
            BY <1>6, <1>8, <2>2, <3>3 DEF CallsWhole
        <3> QED
            BY <3>1, <3>2, <3>3
    <2> QED
        BY <2>1, <2>2 DEF GoodCalls
<1>11. GoodVoteCalls /\ GoodReturns(acks)
    BY <1>5, <1>8 DEF GoodVoteCalls, GoodReturns
<1>12. GoodIndices(won, won, master, acks) /\ GoodApplied(master, acks)
    BY <1>t, <1>2, OldIndices, OldApplied DEF Now
<1>13. AckInv(new, won, master, acks)'
    BY <1>1, <1>2, <1>3, <1>10, <1>11, <1>12, SafetySame DEF Now, Voted
<1> QED
    BY <1>1, <1>13

\* A restart that forgets no vote: the new instance has applied nothing.
LEMMA SafetyRestart ==
    ASSUME NEW votes, NEW won, NEW master, NEW acks, NEW new,
           Now(votes, won, master, acks), Voted(votes, new),
           NEW i \in Server, Restart(i), disk[i].term = currentTerm[i]
    PROVE  LogInv(new, won, master)' /\ AckInv(new, won, master, acks)'
<1>t. TypeOK /\ TypeOK' /\ LogDurable
    BY DEF Now, Voted
<1>1. LogInv(new, won, master)'
    BY LogsRestart DEF Now, Voted
<1>2. /\ currentTerm' = [currentTerm EXCEPT ![i] = disk[i].term]
      /\ log' = [log EXCEPT ![i] = disk[i].log] /\ votedFor' = [votedFor EXCEPT ![i] = Nil]
      /\ commitIdx' = [commitIdx EXCEPT ![i] = 0] /\ appliedLast' = [appliedLast EXCEPT ![i] = 0]
      /\ matchIdx' = [matchIdx EXCEPT ![i] = [j \in Server |-> 0]] /\ UNCHANGED <<net, logs>>
    BY DEF Restart, readPersist
<1>3. UNCHANGED <<log, currentTerm>>
    BY <1>t, <1>2 DEF TypeOK, LogDurable
<1>4. \A j \in Server : currentTerm[j] <= currentTerm'[j]
    BY <1>t, <1>3 DEF TypeOK
<1>5. \A j \in Server : GoodVote(won, j)
    <2> TAKE j \in Server
    <2>1. votedFor'[j] = Nil \/ votedFor'[j] = votedFor[j]
        BY <1>t, <1>2 DEF TypeOK
    <2> QED
        BY <1>3, <2>1 DEF GoodVote
<1>6. GoodVoteCalls /\ GoodReturns(acks) /\ NoNewAppends(net, net')
    <2>1. NoNewAppends(net, net')
        BY <1>2 DEF NoNewAppends
    <2> QED
        BY <1>2, <2>1, OldMessages
<1>7. GoodIndices(won, won, master, acks)
    <2> SUFFICES ASSUME NEW j \in Server
                 PROVE  /\ won[currentTerm'[j]] = j =>
                            matchIdx'[j] = matchIdx[j] \/ MatchGood(currentTerm', log', matchIdx', master, acks, j)
                        /\ \/ commitIdx'[j] = commitIdx[j]
                           \/ CommitGood(currentTerm', log', commitIdx', master, acks, j)
        BY DEF GoodIndices
    <2>1. CASE j # i
        BY <1>t, <1>2, <2>1 DEF TypeOK
    <2>2. CASE j = i
        <3>1. commitIdx'[j] = 0 /\ \A k \in Server : matchIdx'[j][k] = 0
            BY <1>t, <1>2, <2>2 DEF TypeOK
        <3>2. CommitGood(currentTerm', log', commitIdx', master, acks, j)
            BY <3>1 DEF CommitGood, Committed
        <3>3. MatchGood(currentTerm', log', matchIdx', master, acks, j)
            <4> SUFFICES ASSUME NEW k \in Others(j)
                         PROVE  /\ 0 <= Len(log'[j])
                                /\ \A n \in Nat : ~(Own(master, currentTerm'[j], n) /\ n <= 0)
                BY <3>1 DEF MatchGood, Others
            <4>1. log'[j] \in Seq(Entry)
                BY <1>t DEF TypeOK
            <4>2. 0 <= Len(log'[j])
                BY <4>1
            <4>3. ASSUME NEW n \in Nat, Own(master, currentTerm'[j], n), n <= 0 PROVE FALSE
                <5>1. n \in 1 .. Len(master[currentTerm'[j]])
                    BY <4>3 DEF Own
                <5>2. n >= 1
                    BY <5>1
                <5> QED
                    BY ONLY n \in Nat, <4>3, <5>2
            <4> QED
                BY <4>2, <4>3
        <3> QED
            BY <3>2, <3>3
    <2> QED
        BY <2>1, <2>2
<1>8. GoodApplied(master, acks)
    <2> SUFFICES ASSUME NEW j \in Server
                 PROVE  appliedLast'[j] <= appliedLast[j] /\ appliedLast'[j] <= commitIdx'[j]
        BY <1>2 DEF GoodApplied, NoneApplied
    <2>1. appliedLast[j] \in Nat /\ commitIdx[j] \in Nat /\ appliedLast[j] <= commitIdx[j]
        BY <1>t DEF Now, AckInv, AppliedTrue, TypeOK
    <2>2. CASE j = i
        <3>1. appliedLast'[j] = 0 /\ commitIdx'[j] = 0
            BY <1>t, <1>2, <2>2 DEF TypeOK
        <3> QED
            BY ONLY <2>1, <3>1
    <2>3. CASE j # i
        <3>1. appliedLast'[j] = appliedLast[j] /\ commitIdx'[j] = commitIdx[j]
            BY <1>t, <1>2, <2>3 DEF TypeOK
        <3> QED
            BY ONLY <2>1, <3>1
    <2> QED
        BY <2>2, <2>3
<1>9. AckInv(new, won, master, acks)'
    BY <1>1, <1>3, <1>4, <1>5, <1>6, <1>7, <1>8, SafetySame DEF Now, Voted
<1> QED
    BY <1>1, <1>9

\* RequestVote gives its vote to a candidate whose log, as the call describes it, is at least
\* as up to date; the description is still true if the candidate can win.
LEMMA SafetyVote ==
    ASSUME NEW votes, NEW won, NEW master, NEW acks, NEW new,
           Now(votes, won, master, acks), Voted(votes, new),
           NEW i \in Server, NEW m \in DOMAIN net, m.to = i, RequestVote(i, m)
    PROVE  LogInv(new, won, master)' /\ AckInv(new, won, master, acks)'
<1>t. /\ TypeOK /\ TypeOK' /\ IsABag(net) /\ currentTerm \in [Server -> Nat]
      /\ votedFor \in [Server -> Server \cup {Nil}] /\ m \in Message
    BY DEF Now, Voted, TypeOK
<1>1. LogInv(new, won, master)'
    BY LogsVote DEF Now, Voted
<1>2. /\ m.type = "RequestVote"
      /\ UNCHANGED <<log, matchIdx, commitIdx, appliedLast, logs>>
    BY DEF RequestVote, leaderVars, applyVars
<1>3. m.term \in Nat /\ m.from \in Server
    BY <1>t, <1>2 DEF Message
<1>4. m.from # i /\ m.term <= currentTerm[m.from]
    <2>1. IsVote(m)
        BY <1>2 DEF IsVote
    <2>2. Asked(votes, m)
        BY <2>1 DEF Now, VoteInv, VotesAsked
    <2> QED
        BY <1>2, <2>2 DEF Asked, VoterOf, CandidateOf, TermOf
<1>5. ASSUME NEW j \in Server PROVE currentTerm[j] <= currentTerm'[j] /\ GoodVote(won, j)
    <2>t. currentTerm[j] \in Nat
        BY <1>t
    <2>1. CASE UNCHANGED <<currentTerm, votedFor>>
        BY <2>t, <2>1 DEF GoodVote
    <2>2. CASE ~UNCHANGED <<currentTerm, votedFor>>
        <3> DEFINE vote == IF m.term > currentTerm[i] THEN Nil ELSE votedFor[i]
        <3>1. /\ m.term >= currentTerm[i] /\ currentTerm' = [currentTerm EXCEPT ![i] = m.term]
              /\ votedFor' = [votedFor EXCEPT ![i] =
                                IF Grants(m, vote, log[i]) THEN m.from ELSE vote]
            BY <2>2 DEF RequestVote
        <3>2. CASE j # i
            <4>1. currentTerm'[j] = currentTerm[j] /\ votedFor'[j] = votedFor[j]
                BY <1>t, <3>1, <3>2
            <4> QED
                BY <2>t, <4>1 DEF GoodVote
        <3>3. CASE j = i
            <4>1. currentTerm'[j] = m.term /\ currentTerm[j] <= m.term
                BY <1>t, <1>3, <2>t, <3>1, <3>3
            <4>2. CASE Grants(m, vote, log[i])
                <5>1. votedFor'[j] = m.from
                    BY <1>t, <3>1, <3>3, <4>2
                <5>2. currentTerm'[m.from] = currentTerm[m.from]
                    BY <1>t, <1>3, <1>4, <3>1
                <5>3. ASSUME currentTerm[m.from] = m.term, won[m.term] = Nil
                      PROVE  AsUpToDate(log[m.from], log[j])
                    <6>1. m.lastIdx = Len(log[m.from]) /\ m.lastTerm = LastTerm(log[m.from])
                        BY <1>2, <5>3 DEF Now, AckInv, VoteCallsTrue
                    <6>2. UpToDate(m, log[j])
                        BY <3>3, <4>2 DEF Grants
                    <6> QED
                        BY <6>1, <6>2 DEF UpToDate, AsUpToDate
                <5>4. GoodVote(won, j)
                    BY <1>2, <1>4, <4>1, <5>1, <5>2, <5>3 DEF GoodVote
                <5> QED
                    BY <4>1, <5>4
            <4>3. CASE ~Grants(m, vote, log[i])
                <5>1. votedFor'[j] = vote
                    BY <1>t, <3>1, <3>3, <4>3
                <5>2. votedFor'[j] = Nil \/ (votedFor'[j] = votedFor[j] /\ m.term = currentTerm[j])
                    BY <1>3, <2>t, <3>1, <3>3, <5>1
                <5>3. GoodVote(won, j)
                    BY <4>1, <5>2 DEF GoodVote
                <5> QED
                    BY <4>1, <5>3
            <4> QED
                BY <4>2, <4>3
        <3> QED
            BY <3>2, <3>3
    <2> QED
        BY <2>1, <2>2
<1>6. GoodVoteCalls /\ GoodReturns(acks) /\ NoNewAppends(net, net')
    <2>1. PICK r : r.type = "RequestVoteReply" /\ net' = Send(Drop(net, m), {r})
        BY DEF RequestVote, VoteReturn
    <2>2. DOMAIN net' \subseteq DOMAIN net \cup {r}
        BY <1>t, <2>1, ReplyBag
    <2>3. \A x \in DOMAIN net : x.type = "AppendEntries" => net[x] = 1
        BY DEF Now, AckInv, CallsWhole
    <2>4. NoNewAppends(net, net')
        BY <1>t, <2>1, <2>3, AppendReplied
    <2> QED
        BY <2>1, <2>2, <2>4 DEF GoodVoteCalls, GoodReturns
<1>7. GoodIndices(won, won, master, acks) /\ GoodApplied(master, acks)
    BY <1>t, <1>2, OldIndices, OldApplied DEF Now
<1>8. AckInv(new, won, master, acks)'
    BY <1>1, <1>2, <1>5, <1>6, <1>7, SafetySame DEF Now, Voted
<1> QED
    BY <1>1, <1>8

\* A server knows a committed entry by its place in its own log.
LEMMA CommitInLog ==
    ASSUME TypeOK, NEW master, NEW acks, CommitTrue(currentTerm, log, commitIdx, master, acks),
           NEW i \in Server
    PROVE  commitIdx[i] <= Len(log[i])
<1>1. commitIdx[i] \in Nat /\ log[i] \in Seq(Entry)
    BY DEF TypeOK
<1>2. Len(log[i]) \in Nat
    BY <1>1
<1>3. CASE commitIdx[i] = 0
    BY ONLY <1>2, <1>3
<1>4. CASE commitIdx[i] # 0
    BY <1>4 DEF CommitTrue, CommitGood, Committed, Has
<1> QED
    BY <1>3, <1>4

\* A round of calls: each carries the leader's log to its end.
LEMMA SafetyBroadcast ==
    ASSUME InOrder, NEW votes, NEW won, NEW master, NEW acks, NEW new,
           Now(votes, won, master, acks), Voted(votes, new), NEW i \in Server, broadcastHeartbeat(i)
    PROVE  LogInv(new, won, master)' /\ AckInv(new, won, master, acks)'
<1>t. TypeOK /\ TypeOK' /\ IsABag(net)
    BY DEF Now, Voted, TypeOK
<1>1. LogInv(new, won, master)'
    BY LogsBroadcast DEF Now, Voted
<1> DEFINE peers == {j \in Others(i) : state[i] = LEADER /\ nextIdx[i][j] > 0}
           S == {AppendCall(i, j) : j \in peers}
<1>2. /\ net' = Send(net, S) /\ \A m \in DOMAIN net : m.type = "AppendEntries" => m.from # i
      /\ UNCHANGED <<currentTerm, votedFor, log, matchIdx, commitIdx, appliedLast, logs>>
    BY DEF broadcastHeartbeat, raftVars, leaderVars, applyVars
<1>3. \A m \in S : m.type = "AppendEntries" /\ m.from = i
    BY DEF AppendCall
<1>4. ASSUME NEW m \in S, NEW n \in S, m.to = n.to PROVE m = n
    <2>1. PICK j \in peers, k \in peers : m = AppendCall(i, j) /\ n = AppendCall(i, k)
        OBVIOUS
    <2>2. m.to = j /\ n.to = k
        BY <2>1 DEF AppendCall
    <2> QED
        BY <1>4, <2>1, <2>2
<1>5. ASSUME NEW m \in S PROVE CallWhole(master, acks, m)
    <2>1. PICK j \in peers : m = AppendCall(i, j)
        OBVIOUS
    <2>2. j \in Server /\ j # i /\ state[i] = LEADER /\ j \in Others(i)
        BY DEF Others
    <2>3. PICK t \in Nat : t = currentTerm[i]
        BY <1>t DEF TypeOK
    <2>4. won[t] = i /\ master[t] = log[i]
        BY <2>2, <2>3 DEF Now, LogInv, OneWinner
    <2>5. nextIdx[i][j] \in 1 .. Len(log[i]) + 1
        BY <2>2 DEF Now, LogInv, NextInRange
    <2>6. log[i] \in Seq(Entry) /\ Len(log[i]) \in Nat
        BY <1>t DEF TypeOK
    <2> DEFINE prev == nextIdx[i][j] - 1
               es == SubSeq(log[i], prev + 1, Len(log[i]))
    <2>7. prev \in 0 .. Len(log[i]) /\ prev \in Nat
        BY <2>5, <2>6
    <2>8. /\ m.to = j /\ m.term = t /\ m.prevIdx = prev /\ m.entries = es /\ m.commit = commitIdx[i]
        BY <2>1, <2>3 DEF AppendCall
    <2> HIDE DEF prev
    <2>9. Len(es) = Len(log[i]) - prev
        BY <2>6, <2>7, SuffixAt
    <2> HIDE DEF es
    <2>10. Total(m) = Len(log[i])
        BY <2>6, <2>7, <2>8, <2>9 DEF Total
    <2>11. acks[t][j] <= Len(log[i])
        <3>1. acks[t][j] \in Nat /\ (acks[t][j] > 0 => acks[t][j] <= Len(master[t]))
            BY <2>2 DEF Now, AckInv, Acks
        <3> QED
            BY ONLY <2>4, <2>6, <3>1
    <2>12. commitIdx[i] <= Len(log[i])
        BY <1>t, CommitInLog DEF Now, AckInv
    <2>13. acks[t][i] = Len(log[i])
        BY <2>3, <2>4 DEF Now, AckInv, Acks
    <2>14. Committed(master, acks, master[t], commitIdx[i], t, Len(log[i]))
        BY <2>3, <2>4, <2>13 DEF Now, AckInv, CommitTrue, CommitGood
    <2>15. \A k \in 1 .. Len(master[t]) : k <= Len(log[i])
        BY ONLY <2>4, <2>6
    <2> QED
        BY <2>8, <2>10, <2>11, <2>12, <2>14, <2>15 DEF CallWhole
<1> HIDE DEF S
<1>6. DOMAIN net' = DOMAIN net \cup S
    BY <1>t, <1>2, SendBag
<1>7. GoodCalls(master, acks, acks)
    <2>1. ASSUME NEW m \in DOMAIN net', m.type = "AppendEntries"
          PROVE  net'[m] = 1 /\ (m \in DOMAIN net \/ CallWhole(master, acks, m))
        <3>1. CASE m \in DOMAIN net
            <4>1. m \notin S
                BY <1>2, <1>3, <2>1, <3>1
            <4>2. net[m] = 1
                BY <2>1, <3>1 DEF Now, AckInv, CallsWhole
            <4> QED
                BY <1>t, <1>2, <3>1, <4>1, <4>2, SendCount
        <3>2. CASE m \notin DOMAIN net
            <4>1. m \in S
                BY <1>6, <3>2
            <4> QED
                BY <1>t, <1>2, <1>5, <3>2, <4>1, SendCount
        <3> QED
            BY <3>1, <3>2
    <2>2. ASSUME NEW m \in DOMAIN net', NEW n \in DOMAIN net', m.type = "AppendEntries",
                 n.type = "AppendEntries", m.from = n.from, m.to = n.to
          PROVE  m = n
        <3>1. CASE m.from = i
            <4>1. m \in S /\ n \in S
                BY <1>2, <1>6, <2>2, <3>1
            <4> QED
                BY <1>4, <2>2, <4>1
        <3>2. CASE m.from # i
            <4>1. m \in DOMAIN net /\ n \in DOMAIN net
                BY <1>3, <1>6, <2>2, <3>2
            <4> QED
                BY <2>2, <4>1 DEF Now, AckInv, CallsWhole
        <3> QED
            BY <3>1, <3>2
    <2> QED
        BY <2>1, <2>2 DEF GoodCalls
<1>8. GoodVoteCalls /\ GoodReturns(acks)
    BY <1>3, <1>6 DEF GoodVoteCalls, GoodReturns
<1>9. \A j \in Server : currentTerm[j] <= currentTerm'[j] /\ GoodVote(won, j)
    BY <1>t, <1>2 DEF TypeOK, GoodVote
<1>10. GoodIndices(won, won, master, acks) /\ GoodApplied(master, acks)
    BY <1>t, <1>2, OldIndices, OldApplied DEF Now
<1>11. AckInv(new, won, master, acks)'
    BY <1>1, <1>2, <1>7, <1>8, <1>9, <1>10, SafetySame DEF Now, Voted
<1> QED
    BY <1>1, <1>11

\* The indices of N are those from p + 1 to c.
FromTo(N, p, c) == \A k : (\E x \in N : x[1] = k) <=> k \in p + 1 .. c

LEMMA PairsFromTo ==
    ASSUME NEW f, NEW p, NEW c
    PROVE  FromTo({<<k, f[k]>> : k \in p + 1 .. c}, p, c)
<1> DEFINE N == {<<k, f[k]>> : k \in p + 1 .. c}
<1> SUFFICES ASSUME NEW k PROVE (\E x \in N : x[1] = k) <=> k \in p + 1 .. c
    BY DEF FromTo
<1>1. ASSUME NEW x \in N, x[1] = k PROVE k \in p + 1 .. c
    <2>1. PICK l \in p + 1 .. c : x = <<l, f[l]>>
        OBVIOUS
    <2> QED
        BY <1>1, <2>1
<1>2. ASSUME k \in p + 1 .. c PROVE \E x \in N : x[1] = k
    <2>1. <<k, f[k]>> \in N /\ <<k, f[k]>>[1] = k
        BY <1>2
    <2> QED
        BY <2>1
<1> QED
    BY <1>1, <1>2

\* Indices 1 to n have been given, and then those from p + 1 to c.
LEMMA UpToMore ==
    ASSUME NEW S, NEW n \in Nat, UpTo(S, n), NEW p \in Nat, p <= n, NEW c \in Nat,
           NEW N, FromTo(N, p, c)
    PROVE  \E r \in Nat : c <= r /\ UpTo(S \cup N, r)
<1> DEFINE r == IF n >= c THEN n ELSE c
<1>1. r \in Nat /\ c <= r /\ n <= r /\ (r = n \/ (r = c /\ n < c))
    OBVIOUS
<1> HIDE DEF r
<1>2. UpTo(S \cup N, r)
    <2> SUFFICES ASSUME NEW k
                 PROVE  (\E x \in S \cup N : x[1] = k) <=> k \in 1 .. r
        BY DEF UpTo
    <2>1. (\E x \in S : x[1] = k) <=> k \in 1 .. n
        BY DEF UpTo
    <2>2. (\E x \in N : x[1] = k) <=> k \in p + 1 .. c
        BY DEF FromTo
    <2>3. k \in 1 .. r <=> k \in 1 .. n \/ k \in p + 1 .. c
        BY ONLY <1>1, n \in Nat, p \in Nat, c \in Nat, p <= n
    <2> QED
        BY <2>1, <2>2, <2>3
<1> QED
    BY <1>1, <1>2

LEMMA InAllOf ==
    ASSUME NEW given, NEW x PROVE x \in AllOf(given) <=> \E j \in Server : x \in given[j]
BY DEF AllOf

\* What the apply goroutine hands over is chosen.
LEMMA ApplyGiven ==
    ASSUME TypeOK, NEW master, NEW acks, CommitTrue(currentTerm, log, commitIdx, master, acks),
           NEW i \in Server, NEW k \in 1 .. commitIdx[i]
    PROVE  Given(master, acks, <<k, log[i][k]>>)
<1>1. commitIdx[i] \in Nat /\ commitIdx[i] # 0
    BY DEF TypeOK
<1>2. PICK t \in Nat, n \in Nat :
        Chosen(master, acks, t, n) /\ commitIdx[i] <= n /\ Has(log[i], master[t], commitIdx[i])
    BY <1>1 DEF CommitTrue, CommitGood, Committed
<1>3. k \in 1 .. n /\ master[t][k] = log[i][k]
    <2>1. master[t][k] = log[i][k]
        BY <1>2 DEF Has
    <2>2. k \in 1 .. n
        BY ONLY k \in 1 .. commitIdx[i], n \in Nat, <1>1, <1>2
    <2> QED
        BY <2>1, <2>2
<1>4. <<k, log[i][k]>>[1] = k /\ <<k, log[i][k]>>[2] = log[i][k]
    OBVIOUS
<1> QED
    BY <1>2, <1>3, <1>4 DEF Given

LEMMA SafetyApply ==
    ASSUME NEW votes, NEW won, NEW master, NEW acks, NEW new,
           Now(votes, won, master, acks), Voted(votes, new), NEW i \in Server, Apply(i)
    PROVE  LogInv(new, won, master)' /\ AckInv(new, won, master, acks)'
<1>t. /\ TypeOK /\ TypeOK' /\ logs \in [Server -> SUBSET (Nat \X Entry)]
      /\ commitIdx[i] \in Nat /\ appliedLast[i] \in Nat
    BY DEF Now, Voted, TypeOK
<1>1. LogInv(new, won, master)'
    BY LogsLocal DEF Now, Voted
<1> DEFINE N == {<<k, log[i][k]>> : k \in appliedLast[i] + 1 .. commitIdx[i]}
<1>2. /\ logs' = [logs EXCEPT ![i] = @ \cup N]
      /\ appliedLast' = [appliedLast EXCEPT ![i] = commitIdx[i]]
      /\ UNCHANGED <<currentTerm, votedFor, log, matchIdx, commitIdx, net>>
    BY DEF Apply, raftVars, leaderVars
<1>3. /\ AppliedTrue(commitIdx, appliedLast, logs, master, acks)
      /\ CommitTrue(currentTerm, log, commitIdx, master, acks)
    BY DEF Now, AckInv
<1>4. \A x \in N : Given(master, acks, x)
    <2> SUFFICES ASSUME NEW k \in appliedLast[i] + 1 .. commitIdx[i]
                 PROVE  Given(master, acks, <<k, log[i][k]>>)
        OBVIOUS
    <2>1. k \in 1 .. commitIdx[i]
        BY <1>t
    <2> QED
        BY <1>t, <1>3, <2>1, ApplyGiven
<1>5. PICK n \in Nat : appliedLast[i] <= n /\ UpTo(logs[i], n)
    BY <1>3 DEF AppliedTrue
<1>n. FromTo(N, appliedLast[i], commitIdx[i])
    BY PairsFromTo
<1>6. PICK r \in Nat : commitIdx[i] <= r /\ UpTo(logs[i] \cup N, r)
    <2> HIDE DEF N
    <2> QED
        BY ONLY n \in Nat, <1>t, <1>n, <1>5, UpToMore
<1>7. PICK d \in Nat : UpTo(AllOf(logs), d)
    BY <1>3 DEF AppliedTrue
<1>8. appliedLast[i] <= d
    <2>1. CASE appliedLast[i] = 0
        BY ONLY d \in Nat, <2>1
    <2>2. CASE appliedLast[i] # 0
        <3>1. appliedLast[i] \in 1 .. n
            BY <1>t, <1>5, <2>2
        <3>2. PICK x \in logs[i] : x[1] = appliedLast[i]
            BY <1>5, <3>1 DEF UpTo
        <3>3. x \in AllOf(logs)
            BY InAllOf
        <3>4. appliedLast[i] \in 1 .. d
            BY <1>7, <3>2, <3>3 DEF UpTo
        <3> QED
            BY <3>4
    <2> QED
        BY <2>1, <2>2
<1>9. PICK e \in Nat : UpTo(AllOf(logs) \cup N, e)
    <2> HIDE DEF N
    <2> QED
        BY ONLY d \in Nat, <1>t, <1>n, <1>7, <1>8, UpToMore
<1> HIDE DEF N
<1>10. logs'[i] = logs[i] \cup N /\ \A j \in Server : j # i => logs'[j] = logs[j]
    BY <1>t, <1>2
<1>11. AllOf(logs') = AllOf(logs) \cup N
    <2>1. \A x : x \in AllOf(logs') <=> x \in AllOf(logs) \/ x \in N
        BY ONLY i \in Server, <1>10, InAllOf
    <2> QED
        BY ONLY <2>1
<1>12. UpTo(AllOf(logs'), e)
    BY <1>9, <1>11
<1>13. ASSUME NEW j \in Server
       PROVE  /\ appliedLast'[j] <= commitIdx'[j]
              /\ \E l \in Nat : appliedLast'[j] <= l /\ UpTo(logs'[j], l)
              /\ \A x \in logs'[j] : Given(master, acks, x)
    <2>1. CASE j = i
        <3>1. appliedLast'[j] = commitIdx[i] /\ logs'[j] = logs[i] \cup N /\ commitIdx'[j] = commitIdx[i]
            BY <1>t, <1>2, <1>10, <2>1 DEF TypeOK
        <3>2. \A x \in logs[i] : Given(master, acks, x)
            BY <1>3 DEF AppliedTrue
        <3>3. commitIdx[i] <= commitIdx[i]
            BY <1>t
        <3>4. \A x \in logs[i] \cup N : Given(master, acks, x)
            BY <1>4, <3>2
        <3> QED
            BY <1>6, <3>1, <3>3, <3>4
    <2>2. CASE j # i
        <3>1. appliedLast'[j] = appliedLast[j] /\ logs'[j] = logs[j] /\ commitIdx'[j] = commitIdx[j]
            BY <1>t, <1>2, <1>10, <2>2 DEF TypeOK
        <3> QED
            BY <1>3, <3>1 DEF AppliedTrue
    <2> QED
        BY <2>1, <2>2
<1>14. GoodApplied(master, acks)
    BY <1>12, <1>13 DEF GoodApplied, AppliedTrue
<1>15. GoodIndices(won, won, master, acks)
    BY <1>2, OldIndices
<1>16. \A j \in Server : currentTerm[j] <= currentTerm'[j] /\ GoodVote(won, j)
    BY <1>t, <1>2 DEF TypeOK, GoodVote
<1>17. GoodVoteCalls /\ GoodReturns(acks) /\ NoNewAppends(net, net')
    <2>1. NoNewAppends(net, net')
        BY <1>2 DEF NoNewAppends
    <2> QED
        BY <1>2, <2>1, OldMessages
<1>18. AckInv(new, won, master, acks)'
    BY <1>1, <1>2, <1>14, <1>15, <1>16, <1>17, SafetySame DEF Now, Voted
<1> QED
    BY <1>1, <1>18

\* A step that leaves terms and votes adds nothing to the history.
LEMMA SameVoters ==
    ASSUME NEW votes, NEW new, TypeOK, VoteInv(votes), VoteInv(new)', Grows(votes, new),
           VotesNow(votes, new), UNCHANGED <<currentTerm, votedFor>>, NEW t \in Nat, NEW i
    PROVE  Voters(new, t, i) = Voters(votes, t, i)
<1>1. ASSUME NEW j \in Server PROVE new[t][j] = votes[t][j]
    <2>1. CASE t = currentTerm'[j]
        <3>1. RecordsVotes(new)' /\ RecordsVotes(votes)
            BY DEF VoteInv
        <3>2. new[currentTerm'[j]][j] = votedFor'[j]
            BY <3>1 DEF RecordsVotes
        <3>3. votes[currentTerm[j]][j] = votedFor[j]
            BY <3>1 DEF RecordsVotes
        <3> QED
            BY <2>1, <3>2, <3>3
    <2>2. CASE t # currentTerm'[j]
        BY <2>2 DEF VotesNow
    <2> QED
        BY <2>1, <2>2
<1> QED
    BY <1>1 DEF Voters

\* Server i has accepted the first n entries of the leader of term t, all else being as
\* it was.
OneAck(acks, a, t, i, n) ==
    /\ a \in [Nat -> [Server -> Nat]] /\ a[t][i] = n
    /\ \A u \in Nat : \A j \in Server : ~(u = t /\ j = i) => a[u][j] = acks[u][j]

LEMMA CanAck ==
    ASSUME NEW acks, acks \in [Nat -> [Server -> Nat]], NEW t, t \in Nat, NEW i, i \in Server,
           NEW n, n \in Nat
    PROVE  \E a : OneAck(acks, a, t, i, n)
<1> DEFINE a == [acks EXCEPT ![t][i] = n]
<1>1. a \in [Nat -> [Server -> Nat]] /\ a[t][i] = n
    OBVIOUS
<1>2. ASSUME NEW u \in Nat, NEW j \in Server, ~(u = t /\ j = i) PROVE a[u][j] = acks[u][j]
    <2>1. CASE u = t
        BY <1>2, <2>1
    <2>2. CASE u # t
        BY <2>2
    <2> QED
        BY <2>1, <2>2
<1> HIDE DEF a
<1>3. OneAck(acks, a, t, i, n)
    BY <1>1, <1>2 DEF OneAck
<1> QED
    BY <1>3

\* The leader i of term t = term[i] had the log lg[i] and has the log G[i]; a is what
\* servers have accepted afterwards.
Leads(term, lg, won, master, acks, i, G, w, s, a) ==
    LET t == term[i] IN
    /\ G \in [Server -> Seq(Entry)] /\ \A j \in Server : j # i => G[j] = lg[j]
    /\ Led(won, master, w, s, i, t, lg[i], G[i])
    /\ won[t] = Nil => G[i] = lg[i]
    /\ Len(lg[i]) <= Len(G[i])
    /\ \A k \in Len(lg[i]) + 1 .. Len(G[i]) : G[i][k].term = t
    /\ a \in [Nat -> [Server -> Nat]] /\ a[t][i] = Len(G[i])
    /\ \A u \in Nat : \A j \in Server : ~(u = t /\ j = i) => a[u][j] = acks[u][j]

LEMMA LedMoves ==
    ASSUME NEW term, NEW lg, NEW votes, NEW won, NEW master, NEW acks, NEW G, NEW w, NEW s, NEW a,
           Histories(term, lg, votes, won, master), Acks(term, lg, won, master, acks),
           NEW i \in Server, Leads(term, lg, won, master, acks, i, G, w, s, a)
    PROVE  /\ Moves(term, lg, won, master, acks, term, G, w, s, a)
           /\ Acks(term, G, w, s, a)
           /\ won[term[i]] = Nil => \A k \in Nat : ~Own(s, term[i], k)
<1>0. PICK t \in Nat : t = term[i]
    BY HistoryTypes
<1> USE <1>0
<1>d. /\ G \in [Server -> Seq(Entry)] /\ \A j \in Server : j # i => G[j] = lg[j]
      /\ Led(won, master, w, s, i, t, lg[i], G[i])
      /\ won[t] = Nil => G[i] = lg[i]
      /\ Len(lg[i]) <= Len(G[i])
      /\ \A k \in Len(lg[i]) + 1 .. Len(G[i]) : G[i][k].term = t
      /\ a \in [Nat -> [Server -> Nat]] /\ a[t][i] = Len(G[i])
      /\ \A u \in Nat : \A j \in Server : ~(u = t /\ j = i) => a[u][j] = acks[u][j]
    BY DEF Leads
<1> USE <1>d
<1>a. acks \in [Nat -> [Server -> Nat]] /\ \A u \in Nat : \A j \in Server : acks[u][j] \in Nat
    BY DEF Acks
<1>t. \A j \in Server : term[j] \in Nat
    BY HistoryTypes
<1>l. Len(lg[i]) \in Nat /\ Len(G[i]) \in Nat
    <2>1. G[i] \in Seq(Entry)
        OBVIOUS
    <2> QED
        BY <2>1, HistoryTypes
<1>e. Extended(won, master, w, s) /\ w[t] = i /\ s[t] = G[i]
    BY DEF Led
<1>o. \A u \in Nat : u # t => w[u] = won[u] /\ s[u] = master[u]
    BY DEF Led
<1>w. won[t] = Nil \/ (won[t] = i /\ master[t] = lg[i])
    BY DEF Led
<1>i. i # Nil
    BY NilAssumption
<1>n. won[t] = Nil => \A k \in Nat : ~Own(s, t, k)
    <2> SUFFICES ASSUME won[t] = Nil, NEW k \in Nat, Own(s, t, k) PROVE FALSE
        OBVIOUS
    <2>1. k \in 1 .. Len(lg[i]) /\ lg[i][k].term = t
        BY <1>e DEF Own
    <2>2. Derived(lg[i], won, master)
        BY DEF Histories
    <2>3. won[lg[i][k].term] # Nil
        BY <2>1, <2>2 DEF Derived
    <2> QED
        BY <2>1, <2>3
<1>1. acks[t][i] <= a[t][i]
    <2>1. CASE won[t] = Nil
        <3>1. ~(acks[t][i] > 0)
            BY <2>1 DEF Acks
        <3>2. acks[t][i] \in Nat
            BY <1>a
        <3>3. acks[t][i] = 0
            BY ONLY <3>1, <3>2
        <3> QED
            BY <1>l, <3>3
    <2>2. CASE won[t] = i
        <3>1. acks[t][i] = Len(lg[i])
            BY <2>2 DEF Acks
        <3> QED
            BY <3>1
    <2> QED
        BY <1>w, <2>1, <2>2
<1>2. \A u \in Nat : \A j \in Server : acks[u][j] <= a[u][j] /\ (u < term[j] => a[u][j] = acks[u][j])
    <2> SUFFICES ASSUME NEW u \in Nat, NEW j \in Server
                 PROVE  acks[u][j] <= a[u][j] /\ (u < term[j] => a[u][j] = acks[u][j])
        OBVIOUS
    <2>1. CASE u = t /\ j = i
        <3>1. ~(u < term[j])
            BY ONLY t \in Nat, t = term[i], <2>1
        <3> QED
            BY <1>1, <2>1, <3>1
    <2>2. CASE ~(u = t /\ j = i)
        <3>1. a[u][j] = acks[u][j] /\ acks[u][j] \in Nat
            BY <1>a, <2>2
        <3> QED
            BY ONLY <3>1
    <2> QED
        BY <2>1, <2>2
<1>3. ASSUME NEW u \in Nat, NEW k \in Nat, Own(s, u, k)
      PROVE  (Own(master, u, k) /\ won[u] # Nil) \/ Fresh(term, G, s, a, u, k)
    <2>1. CASE u # t
        <3>1. Own(master, u, k)
            BY <1>3, <1>o, <2>1 DEF Own
        <3>2. won[u] # Nil
            BY <3>1, OwnWon
        <3> QED
            BY <3>1, <3>2
    <2>2. CASE u = t
        <3>1. won[t] = i /\ master[t] = lg[i] /\ won[t] # Nil
            BY <1>3, <1>n, <1>w, <1>i, <2>2
        <3>2. k \in 1 .. Len(G[i]) /\ G[i][k].term = t
            BY <1>3, <1>e, <2>2 DEF Own
        <3>3. CASE k <= Len(lg[i])
            <4>1. k \in 1 .. Len(master[t])
                BY ONLY k \in Nat, <1>l, <3>1, <3>2, <3>3
            <4>2. s[t][k] = master[t][k]
                BY ONLY t \in Nat, <1>e, <3>1, <4>1, ExtendedAt, SMTT(30)
            <4>3. Own(master, t, k)
                BY <1>e, <3>2, <4>1, <4>2 DEF Own
            <4> QED
                BY <2>2, <3>1, <4>3
        <3>4. CASE ~(k <= Len(lg[i]))
            <4>1. ASSUME NEW j \in Server, j # i PROVE a[t][j] < k
                <5>1. a[t][j] = acks[t][j] /\ acks[t][j] \in Nat
                    BY <1>a, <4>1
                <5>2. acks[t][j] > 0 => acks[t][j] <= Len(lg[i])
                    BY <3>1 DEF Acks
                <5> QED
                    BY ONLY k \in Nat, <1>l, <3>4, <5>1, <5>2
            <4> QED
                BY <1>e, <2>2, <4>1 DEF Fresh
        <3> QED
            BY <3>3, <3>4
    <2> QED
        BY <2>1, <2>2
<1>4. ASSUME NEW u \in Nat, won[u] # Nil, NEW k \in Len(master[u]) + 1 .. Len(s[u])
      PROVE  s[u][k].term = u
    <2>1. CASE u = t
        <3>1. k \in Len(lg[i]) + 1 .. Len(G[i])
            BY <1>4, <1>e, <1>w, <2>1
        <3> QED
            BY <1>e, <2>1, <3>1
    <2>2. CASE u # t
        <3>1. s[u] = master[u] /\ Len(master[u]) \in Nat
            BY <1>o, <2>2, HistoryTypes
        <3>2. k \in Len(master[u]) + 1 .. Len(master[u])
            BY <3>1
        <3> QED
            BY ONLY <3>1, <3>2
    <2> QED
        BY <2>1, <2>2
<1>5. ASSUME NEW u \in Nat, won[u] = Nil, w[u] # Nil PROVE term[w[u]] = u /\ s[u] = lg[w[u]]
    BY <1>5, <1>e, <1>o
<1>6. ASSUME NEW j \in Server
      PROVE  \/ G[j] = lg[j] /\ \A u \in Nat : won[u] # Nil => a[u][j] = acks[u][j]
             \/ Rewritten(term, G, w, s, a, j)
    <2>1. CASE j # i
        BY <2>1
    <2>2. CASE j = i
        <3>1. Begins(G[i], s[t]) /\ a[t][i] <= Len(G[i]) /\ \A k \in 1 .. Len(s[t]) : k <= Len(G[i])
            BY <1>e, <1>l DEF Begins
        <3> QED
            BY <1>e, <1>i, <2>2, <3>1 DEF Rewritten
    <2> QED
        BY <2>1, <2>2
<1>7. Moves(term, lg, won, master, acks, term, G, w, s, a)
    <2>1. \A j \in Server : term[j] <= term[j]
        BY ONLY <1>t
    <2> QED
        BY <1>e, <1>2, <1>3, <1>4, <1>5, <1>6, <2>1 DEF Moves
<1>8. ASSUME NEW u \in Nat, NEW j \in Server, a[u][j] > 0
      PROVE  w[u] # Nil /\ u <= term[j] /\ a[u][j] <= Len(s[u])
    <2>1. CASE u = t /\ j = i
        <3>1. t <= term[i] /\ Len(G[i]) <= Len(G[i])
            BY ONLY t \in Nat, t = term[i], <1>l
        <3> QED
            BY <1>e, <1>i, <2>1, <3>1
    <2>2. CASE ~(u = t /\ j = i)
        <3>1. a[u][j] = acks[u][j] /\ acks[u][j] \in Nat
            BY <1>a, <2>2
        <3>2. won[u] # Nil /\ u <= term[j] /\ acks[u][j] <= Len(master[u])
            BY <1>8, <3>1 DEF Acks
        <3>3. w[u] = won[u] /\ Len(master[u]) \in Nat /\ Len(s[u]) \in Nat /\ Len(master[u]) <= Len(s[u])
            BY ONLY u \in Nat, <1>e, <3>2, ExtendedAt
        <3>4. a[u][j] <= Len(s[u])
            BY ONLY <3>1, <3>2, <3>3
        <3> QED
            BY <3>2, <3>3, <3>4
    <2> QED
        BY <2>1, <2>2
<1>9. ASSUME NEW j \in Server, w[term[j]] = j PROVE a[term[j]][j] = Len(G[j])
    <2>1. CASE j = i
        BY <2>1
    <2>2. CASE j # i
        <3>1. term[j] # t
            BY <1>9, <1>e, <2>2
        <3>2. won[term[j]] = j
            BY <1>9, <1>o, <1>t, <3>1
        <3>3. acks[term[j]][j] = Len(lg[j])
            BY <3>2 DEF Acks
        <3> QED
            BY <1>t, <2>2, <3>3
    <2> QED
        BY <2>1, <2>2
<1> QED
    BY <1>7, <1>8, <1>9, <1>n DEF Acks

\* A step after which i leads in its term with the log it had, or with a longer one.
LEMMA SafetyLed ==
    ASSUME NEW votes, NEW won, NEW master, NEW acks, NEW new, NEW w, NEW s,
           Now(votes, won, master, acks), Voted(votes, new), LogInv(new, w, s)',
           NEW i \in Server, NEW t \in Nat, t = currentTerm[i],
           UNCHANGED <<currentTerm, votedFor, matchIdx, commitIdx, appliedLast, logs>>,
           \A j \in Server : j # i => log'[j] = log[j],
           Led(won, master, w, s, i, t, log[i], log'[i]),
           won[t] = Nil =>
                /\ log'[i] = log[i] /\ Majority(Cardinality(Voters(votes, t, i)))
                /\ \A j \in Others(i) : matchIdx[i][j] <= Len(log[i]),
           Len(log[i]) <= Len(log'[i]),
           \A k \in Len(log[i]) + 1 .. Len(log'[i]) : log'[i][k].term = t,
           DOMAIN net' \subseteq DOMAIN net, NoNewAppends(net, net')
    PROVE  \E a : AckInv(new, w, s, a)'
<1>t. /\ TypeOK /\ TypeOK' /\ log' \in [Server -> Seq(Entry)] /\ currentTerm \in [Server -> Nat]
      /\ \A j \in Server : currentTerm[j] \in Nat
    BY DEF Now, Voted, TypeOK
<1>h. Histories(currentTerm, log, votes, won, master)
    BY HistoriesNow DEF Now
<1>k. Acks(currentTerm, log, won, master, acks) /\ acks \in [Nat -> [Server -> Nat]]
    BY DEF Now, AckInv, Acks
<1>l. Len(log'[i]) \in Nat
    <2>1. log'[i] \in Seq(Entry)
        BY <1>t
    <2> QED
        BY <2>1
<1>e. w[t] = i /\ (won[t] = Nil \/ won[t] = i) /\ \A u \in Nat : u # t => w[u] = won[u]
    BY DEF Led
<1>0. PICK n \in Nat : n = Len(log'[i])
    BY <1>l
<1>a. PICK a : OneAck(acks, a, t, i, n)
    <2>1. acks \in [Nat -> [Server -> Nat]]
        BY <1>k
    <2> QED
        BY ONLY i \in Server, t \in Nat, n \in Nat, <2>1, CanAck
<1>1. /\ a \in [Nat -> [Server -> Nat]] /\ a[t][i] = n
      /\ \A u \in Nat : \A j \in Server : ~(u = t /\ j = i) => a[u][j] = acks[u][j]
    BY <1>a DEF OneAck
<1>2. /\ Moves(currentTerm, log, won, master, acks, currentTerm, log', w, s, a)
      /\ Acks(currentTerm, log', w, s, a)
      /\ won[t] = Nil => \A k \in Nat : ~Own(s, t, k)
    <2>1. Leads(currentTerm, log, won, master, acks, i, log', w, s, a)
        BY <1>0, <1>1, <1>t DEF Leads
    <2> QED
        BY ONLY t = currentTerm[i], i \in Server, <1>h, <1>k, <2>1, LedMoves
<1>3. /\ Moves(currentTerm, log, won, master, acks, currentTerm', log', w, s, a)
      /\ Acks(currentTerm', log', w, s, a)
    BY <1>2
<1>4. \A u \in Nat : won[u] = Nil /\ w[u] # Nil => Majority(Cardinality(Voters(votes, u, w[u])))
    BY <1>e
<1>5. \A j \in Server : GoodVote(w, j)
    BY DEF GoodVote
<1>6. GoodVoteCalls /\ GoodReturns(a)
    BY OldMessages
<1>7. GoodCalls(s, acks, a)
    <2>1. CallsWhole(net, master, acks)
        BY DEF Now, AckInv
    <2>2. ASSUME NEW m \in DOMAIN net', m.type = "AppendEntries"
          PROVE  a[m.term][m.to] = acks[m.term][m.to]
        <3>1. m \in DOMAIN net /\ m \in Message
            BY <1>t DEF TypeOK
        <3>2. m.term \in Nat /\ m.to \in Server /\ m.from \in Server
            BY <2>2, <3>1 DEF Message
        <3>3. won[m.term] = m.from /\ m.from # m.to
            BY <2>2, <3>1 DEF Now, LogInv, CallsDerived, CallDerived
        <3>4. ~(m.term = t /\ m.to = i)
            BY <1>e, <3>2, <3>3, NilAssumption
        <3> QED
            BY <1>1, <3>2, <3>4
    <2> QED
        BY <2>1, <2>2, CallsStay
<1>8. GoodIndices(won, w, s, a)
    <2> SUFFICES ASSUME NEW j \in Server, w[currentTerm[j]] = j, won[currentTerm[j]] # j
                 PROVE  MatchGood(currentTerm', log', matchIdx', s, a, j)
        BY DEF GoodIndices
    <2>1. j = i
        BY <1>t, <1>e
    <2>2. won[t] = Nil
        BY <1>e, <2>1
    <2>3. \A k \in Nat : ~Own(s, currentTerm'[i], k)
        BY <1>2, <2>2
    <2>4. \A x \in Others(i) : matchIdx'[i][x] <= Len(log'[i])
        BY <2>2
    <2> QED
        BY <2>1, <2>3, <2>4 DEF MatchGood
<1>9. GoodApplied(s, a)
    BY <1>t, OldApplied DEF Now
<1>10. AckInv(new, w, s, a)'
    BY <1>3, <1>4, <1>5, <1>6, <1>7, <1>8, <1>9, SafetyFrame DEF Now, Voted
<1> QED
    BY <1>10

\* A return of RequestVote: a refusal, a later term, one more vote, or the last one needed.
LEMMA SafetyVoteReturn ==
    ASSUME NEW votes, NEW won, NEW master, NEW acks, NEW new,
           Now(votes, won, master, acks), Voted(votes, new), [MatchStep]_vars,
           NEW i \in Server, NEW m \in DOMAIN net, sendRequestVote(i, m)
    PROVE  \E w, s, a : LogInv(new, w, s)' /\ AckInv(new, w, s, a)'
<1>t. /\ TypeOK /\ TypeOK' /\ IsABag(net) /\ currentTerm \in [Server -> Nat]
      /\ votedFor \in [Server -> Server \cup {Nil}] /\ m \in Message
      /\ \A j \in Server : currentTerm[j] \in Nat /\ Len(log[j]) \in Nat
    BY LogTypes DEF Now, Voted, TypeOK
<1>1. /\ m.type = "RequestVoteReply" /\ net' = Drop(net, m)
      /\ UNCHANGED <<log, matchIdx, commitIdx, appliedLast, logs>>
    BY DEF sendRequestVote, raftVars, applyVars
<1>2. m.term \in Nat
    BY <1>t, <1>1 DEF Message
<1>3. DOMAIN net' \subseteq DOMAIN net /\ NoNewAppends(net, net')
    <2>1. \A x \in DOMAIN net : x.type = "AppendEntries" => net[x] = 1
        BY DEF Now, AckInv, CallsWhole
    <2> QED
        BY <1>t, <1>1, <2>1, DropBag, AppendDropped
<1>4. CASE LogInv(new, won, master)'
    <2>1. ASSUME NEW j \in Server PROVE currentTerm[j] <= currentTerm'[j] /\ GoodVote(won, j)
        <3>1. CASE UNCHANGED <<currentTerm, votedFor>>
            BY <1>t, <3>1 DEF GoodVote
        <3>2. CASE /\ m.term > currentTerm[i]
                   /\ currentTerm' = [currentTerm EXCEPT ![i] = m.term]
                   /\ votedFor' = [votedFor EXCEPT ![i] = Nil]
            <4>1. CASE j = i
                BY <1>t, <1>2, <3>2, <4>1 DEF GoodVote
            <4>2. CASE j # i
                <5>1. currentTerm'[j] = currentTerm[j] /\ votedFor'[j] = votedFor[j]
                    BY <1>t, <3>2, <4>2
                <5> QED
                    BY <1>t, <5>1 DEF GoodVote
            <4> QED
                BY <4>1, <4>2
        <3> QED
            BY <3>1, <3>2 DEF sendRequestVote, raftVars
    <2>2. GoodIndices(won, won, master, acks) /\ GoodApplied(master, acks)
        BY <1>t, <1>1, OldIndices, OldApplied DEF Now
    <2>3. AckInv(new, won, master, acks)'
        BY <1>1, <1>3, <1>4, <2>1, <2>2, OldMessages, SafetySame DEF Now, Voted
    <2> QED
        BY <1>4, <2>3
<1>5. CASE /\ WinElection(i) /\ UNCHANGED currentTerm
           /\ \E w, s : /\ Led(won, master, w, s, i, currentTerm[i], log[i], log'[i])
                        /\ LogInv(new, w, s)'
    <2>1. PICK w, s : /\ Led(won, master, w, s, i, currentTerm[i], log[i], log'[i])
                      /\ LogInv(new, w, s)'
        BY <1>5
    <2>2. PICK t \in Nat : t = currentTerm[i]
        BY <1>t
    <2>3. UNCHANGED votedFor
        <3>1. ~(m.term > currentTerm[i] /\ currentTerm' = [currentTerm EXCEPT ![i] = m.term])
            BY <1>t, <1>2, <1>5
        <3> QED
            BY <3>1 DEF sendRequestVote, raftVars
    <2>4. state' = [state EXCEPT ![i] = LEADER] /\ state \in [Server -> {FOLLOWER, CANDIDATE, LEADER}]
        BY <1>t, <1>5 DEF WinElection, TypeOK
    <2>5. state'[i] = LEADER
        BY <2>4
    <2>6. Majority(Cardinality(Voters(votes, t, i)))
        <3>1. LeadersElected(new)'
            BY DEF Voted, VoteInv
        <3>2. Majority(Cardinality(Voters(new, t, i)))
            BY <1>5, <2>2, <2>5, <3>1 DEF LeadersElected, Majority, Voters
        <3>3. Voters(new, t, i) = Voters(votes, t, i)
            BY <1>5, <2>3, SameVoters DEF Now, Voted
        <3> QED
            BY <3>2, <3>3
    <2>7. ASSUME won[t] = Nil PROVE \A j \in Others(i) : matchIdx[i][j] <= Len(log[i])
        <3>1. state[i] # LEADER
            BY <2>2, <2>7, NilAssumption DEF Now, LogInv, OneWinner
        <3>2. ~UNCHANGED vars
            BY <2>5, <3>1 DEF vars, raftVars
        <3> QED
            BY <2>5, <3>1, <3>2 DEF MatchStep
    <2>8. Len(log[i]) <= Len(log'[i]) /\ \A k \in Len(log[i]) + 1 .. Len(log'[i]) : log'[i][k].term = t
        BY ONLY i \in Server, <1>t, <1>1
    <2>9. \E a : AckInv(new, w, s, a)'
        BY <1>1, <1>3, <1>5, <2>1, <2>2, <2>3, <2>6, <2>7, <2>8, SafetyLed
    <2> QED
        BY <2>1, <2>9
<1> QED
    BY <1>4, <1>5, LogsVoteReturn DEF Now, Voted

LEMMA SafetyStart ==
    ASSUME NEW votes, NEW won, NEW master, NEW acks, NEW new,
           Now(votes, won, master, acks), Voted(votes, new),
           NEW i \in Server, NEW c \in Command, Start(i, c), CopyStep
    PROVE  \E w, s, a : LogInv(new, w, s)' /\ AckInv(new, w, s, a)'
<1>t. /\ TypeOK /\ log[i] \in Seq(Entry) /\ log \in [Server -> Seq(Entry)] /\ currentTerm[i] \in Nat
      /\ Len(log[i]) \in Nat
    BY LogTypes DEF Now, TypeOK
<1> DEFINE e == [term |-> currentTerm[i], cmd |-> c]
           l == Append(log[i], e)
<1>1. /\ state[i] = LEADER /\ log' = [log EXCEPT ![i] = l]
      /\ UNCHANGED <<currentTerm, votedFor, matchIdx, commitIdx, appliedLast, logs, net>>
    BY <1>t, StartInTime DEF Start, leaderVars, applyVars
<1>2. e \in Entry /\ e.term = currentTerm[i]
    BY <1>t DEF Entry
<1> HIDE DEF e
<1>3. Len(l) = Len(log[i]) + 1 /\ l[Len(log[i]) + 1] = e
    BY <1>t, <1>2
<1> HIDE DEF l
<1>4. log'[i] = l /\ \A j \in Server : j # i => log'[j] = log[j]
    BY <1>t, <1>1
<1>5. PICK w, s : /\ Led(won, master, w, s, i, currentTerm[i], log[i], log'[i])
                  /\ LogInv(new, w, s)'
    BY LogsStart DEF Now, Voted
<1>6. PICK t \in Nat : t = currentTerm[i]
    BY <1>t
<1>7. won[t] # Nil
    BY <1>1, <1>6, NilAssumption DEF Now, LogInv, OneWinner
<1>8. Len(log[i]) <= Len(log'[i]) /\ \A k \in Len(log[i]) + 1 .. Len(log'[i]) : log'[i][k].term = t
    BY ONLY <1>t, <1>2, <1>3, <1>4, <1>6
<1>9. NoNewAppends(net, net')
    BY <1>1 DEF NoNewAppends
<1>10. \E a : AckInv(new, w, s, a)'
    BY <1>1, <1>4, <1>5, <1>6, <1>7, <1>8, <1>9, SafetyLed
<1> QED
    BY <1>5, <1>10

-------------------------------------------------------------------------------------
(* AppendEntries.                                                                    *)

\* Server i has taken the beginning of the log of the winner of its term: all that it
\* accepted from it before, and all that the winner had from earlier terms.
Takes(term, lg, won, master, acks, i, T, G, a) ==
    /\ T \in [Server -> Nat] /\ G \in [Server -> Seq(Entry)]
    /\ \A j \in Server : j # i => T[j] = term[j] /\ G[j] = lg[j]
    /\ term[i] <= T[i] /\ won[T[i]] # Nil /\ won[T[i]] # i
    /\ Begins(G[i], master[T[i]]) /\ acks[T[i]][i] <= Len(G[i])
    /\ \A k \in 1 .. Len(master[T[i]]) : master[T[i]][k].term < T[i] => k <= Len(G[i])
    /\ OneAck(acks, a, T[i], i, Len(G[i]))

LEMMA TakesMoves ==
    ASSUME NEW term, NEW lg, NEW votes, NEW won, NEW master, NEW acks, NEW T, NEW G, NEW a,
           Histories(term, lg, votes, won, master), Acks(term, lg, won, master, acks),
           NEW i \in Server, Takes(term, lg, won, master, acks, i, T, G, a)
    PROVE  /\ Moves(term, lg, won, master, acks, T, G, won, master, a)
           /\ Acks(T, G, won, master, a)
<1>0. PICK u \in Nat : u = T[i]
    BY DEF Takes
<1>n. PICK n \in Nat : n = Len(G[i])
    BY DEF Takes, Begins
<1>1. /\ \A j \in Server : j # i => T[j] = term[j] /\ G[j] = lg[j]
      /\ term[i] <= u /\ won[u] # Nil /\ won[u] # i /\ acks[u][i] <= n
    BY <1>0, <1>n DEF Takes
<1>2. /\ a \in [Nat -> [Server -> Nat]] /\ a[u][i] = n
      /\ \A t \in Nat : \A j \in Server : ~(t = u /\ j = i) => a[t][j] = acks[t][j]
    BY <1>0, <1>n DEF Takes, OneAck
<1>3. \A t \in Nat : \A j \in Server : acks[t][j] \in Nat
    BY DEF Acks
<1>4. \A j \in Server : term[j] \in Nat /\ T[j] \in Nat
    BY HistoryTypes DEF Takes
<1>5. ASSUME NEW j \in Server PROVE term[j] <= T[j]
    <2>1. CASE j = i
        BY <1>0, <1>1, <2>1
    <2>2. CASE j # i
        <3>1. T[j] = term[j] /\ term[j] \in Nat
            BY <1>1, <1>4, <2>2
        <3> QED
            BY ONLY <3>1
    <2> QED
        BY <2>1, <2>2
<1>6. ASSUME NEW t \in Nat, NEW j \in Server
      PROVE  acks[t][j] <= a[t][j] /\ (t < term[j] => a[t][j] = acks[t][j])
    <2>1. CASE t = u /\ j = i
        <3>1. term[i] \in Nat /\ ~(u < term[i])
            BY <1>1, <1>4
        <3> QED
            BY <1>1, <1>2, <2>1, <3>1
    <2>2. CASE ~(t = u /\ j = i)
        <3>1. a[t][j] = acks[t][j] /\ acks[t][j] \in Nat
            BY <1>2, <1>3, <2>2
        <3> QED
            BY ONLY <3>1
    <2> QED
        BY <2>1, <2>2
<1>7. \A t \in Nat : \A k \in Nat : Own(master, t, k) => won[t] # Nil
    BY OwnWon
<1>8. Extended(won, master, won, master)
    <2>1. won \in [Nat -> Server \cup {Nil}] /\ master \in [Nat -> Seq(Entry)]
        BY DEF Histories
    <2>2. \A t \in Nat : Len(master[t]) \in Nat
        BY <2>1
    <2> QED
        BY <2>1, <2>2 DEF Extended
<1>9. \A t \in Nat : \A k \in Len(master[t]) + 1 .. Len(master[t]) : master[t][k].term = t
    <2> TAKE t \in Nat
    <2>1. Len(master[t]) \in Nat
        BY <1>8, ExtendedAt
    <2> QED
        BY <2>1
<1>10. ASSUME NEW j \in Server
       PROVE  \/ G[j] = lg[j] /\ \A t \in Nat : won[t] # Nil => a[t][j] = acks[t][j]
              \/ Rewritten(T, G, won, master, a, j)
    <2>1. CASE j # i
        BY <1>1, <1>2, <2>1
    <2>2. CASE j = i
        <3>1. n <= n
            OBVIOUS
        <3> QED
            BY <1>0, <1>n, <1>2, <2>2, <3>1 DEF Takes, Rewritten
    <2> QED
        BY <2>1, <2>2
<1>11. Moves(term, lg, won, master, acks, T, G, won, master, a)
    BY <1>5, <1>6, <1>7, <1>8, <1>9, <1>10 DEF Moves
<1>12. ASSUME NEW t \in Nat, NEW j \in Server, a[t][j] > 0
       PROVE  won[t] # Nil /\ t <= T[j] /\ a[t][j] <= Len(master[t])
    <2>1. CASE t = u /\ j = i
        <3>1. n <= Len(master[u])
            BY <1>0, <1>n DEF Takes, Begins
        <3>2. u <= u
            OBVIOUS
        <3> QED
            BY <1>0, <1>1, <1>2, <2>1, <3>1, <3>2
    <2>2. CASE ~(t = u /\ j = i)
        <3>1. acks[t][j] = a[t][j]
            BY <1>2, <2>2
        <3>2. won[t] # Nil /\ t <= term[j] /\ acks[t][j] <= Len(master[t])
            BY <1>12, <3>1 DEF Acks
        <3>3. t <= T[j]
            BY ONLY t \in Nat, j \in Server, <1>4, <1>5, <3>2
        <3> QED
            BY <3>1, <3>2, <3>3
    <2> QED
        BY <2>1, <2>2
<1>13. ASSUME NEW j \in Server, won[T[j]] = j PROVE a[T[j]][j] = Len(G[j])
    <2>1. j # i
        BY <1>0, <1>1, <1>13
    <2>2. T[j] = term[j] /\ G[j] = lg[j] /\ a[T[j]][j] = acks[T[j]][j]
        BY <1>1, <1>2, <1>4, <2>1
    <2> QED
        BY <1>13, <2>2 DEF Acks
<1> QED
    BY <1>2, <1>11, <1>12, <1>13 DEF Acks

\* What the handler does to terms and votes.
LEMMA AppendTerms ==
    ASSUME TypeOK, NEW i \in Server, NEW m \in DOMAIN net, AppendEntries(i, m), NEW w,
           NEW j \in Server
    PROVE  currentTerm[j] <= currentTerm'[j] /\ GoodVote(w, j)
<1>t. /\ currentTerm \in [Server -> Nat] /\ votedFor \in [Server -> Server \cup {Nil}]
      /\ m \in Message /\ currentTerm[j] \in Nat
    BY DEF TypeOK
<1>1. m.type = "AppendEntries"
    BY DEF AppendEntries
<1>2. m.term \in Nat
    BY <1>t, <1>1 DEF Message
<1>3. CASE UNCHANGED <<currentTerm, votedFor>>
    BY <1>t, <1>3 DEF GoodVote
<1>4. CASE /\ m.term >= currentTerm[i] /\ currentTerm' = [currentTerm EXCEPT ![i] = m.term]
           /\ votedFor' = [votedFor EXCEPT ![i] =
                                IF m.term > currentTerm[i] THEN Nil ELSE votedFor[i]]
    <2>1. CASE j # i
        <3>1. currentTerm'[j] = currentTerm[j] /\ votedFor'[j] = votedFor[j]
            BY <1>t, <1>4, <2>1
        <3> QED
            BY <1>t, <3>1 DEF GoodVote
    <2>2. CASE j = i
        <3>1. currentTerm'[j] = m.term /\ currentTerm[j] <= m.term
            BY <1>t, <1>2, <1>4, <2>2
        <3>2. votedFor'[j] = Nil \/ (votedFor'[j] = votedFor[j] /\ m.term = currentTerm[j])
            BY <1>t, <1>2, <1>4, <2>2
        <3> QED
            BY <3>1, <3>2 DEF GoodVote
    <2> QED
        BY <2>1, <2>2
<1> QED
    BY <1>3, <1>4 DEF AppendEntries

\* A refusal leaves the log and tells the leader so.
LEMMA SafetyRefused ==
    ASSUME NEW votes, NEW won, NEW master, NEW acks, NEW new,
           Now(votes, won, master, acks), Voted(votes, new), LogInv(new, won, master)',
           NEW i \in Server, NEW m \in DOMAIN net, AppendEntries(i, m),
           UNCHANGED <<log, commitIdx>>, NEW r, r.type = "AppendEntriesReply", ~r.success,
           net' = Send(Drop(net, m), {r})
    PROVE  AckInv(new, won, master, acks)'
<1>1. TypeOK /\ IsABag(net) /\ UNCHANGED <<matchIdx, appliedLast, logs>>
    BY DEF Now, TypeOK, AppendEntries, leaderVars
<1>2. \A j \in Server : currentTerm[j] <= currentTerm'[j] /\ GoodVote(won, j)
    BY <1>1, AppendTerms
<1>3. GoodVoteCalls /\ GoodReturns(acks) /\ NoNewAppends(net, net')
    <2>1. DOMAIN net' \subseteq DOMAIN net \cup {r}
        BY <1>1, ReplyBag
    <2>2. \A x \in DOMAIN net : x.type = "AppendEntries" => net[x] = 1
        BY DEF Now, AckInv, CallsWhole
    <2>3. NoNewAppends(net, net')
        BY <1>1, <2>2, AppendReplied
    <2> QED
        BY <2>1, <2>3 DEF GoodVoteCalls, GoodReturns
<1>4. GoodIndices(won, won, master, acks) /\ GoodApplied(master, acks)
    BY <1>1, OldIndices, OldApplied DEF Now
<1> QED
    BY <1>2, <1>3, <1>4, SafetySame DEF Now, Voted

LEMMA SplicedLen ==
    ASSUME NEW l \in Seq(Entry), NEW m, m.prevIdx \in Nat, m.prevIdx <= Len(l),
           m.entries \in Seq(Entry)
    PROVE  Len(Spliced(l, m)) = Total(m)
<1> DEFINE a == SubSeq(l, 1, m.prevIdx)
<1>1. a \in Seq(Entry) /\ Len(a) = m.prevIdx
    OBVIOUS
<1> HIDE DEF a
<1>2. Len(a \o m.entries) = Len(a) + Len(m.entries)
    BY <1>1, ConcatAt
<1> QED
    BY <1>1, <1>2 DEF a, Spliced, Total

\* The smaller of two numbers.
LEMMA MinFirst ==
    ASSUME NEW c \in Nat, NEW n \in Nat, c <= n PROVE Min({c, n}) = c
BY DEF Min

\* A commit index that grows keeps covering what was applied.
LEMMA AppliedMore ==
    ASSUME TypeOK, TypeOK', UNCHANGED <<appliedLast, logs>>,
           \A j \in Server : commitIdx[j] <= commitIdx'[j],
           NEW votes, NEW won, NEW master, NEW acks, AckInv(votes, won, master, acks), NEW s, NEW a
    PROVE  GoodApplied(s, a)
<1>1. ASSUME NEW j \in Server
      PROVE  appliedLast'[j] <= appliedLast[j] /\ appliedLast'[j] <= commitIdx'[j]
    <2>1. /\ appliedLast[j] \in Nat /\ commitIdx[j] \in Nat /\ commitIdx'[j] \in Nat
          /\ appliedLast'[j] = appliedLast[j] /\ commitIdx[j] <= commitIdx'[j]
        BY DEF TypeOK
    <2>2. appliedLast[j] <= commitIdx[j]
        BY DEF AckInv, AppliedTrue
    <2> QED
        BY ONLY <2>1, <2>2
<1> QED
    BY <1>1 DEF GoodApplied, NoneApplied

\* After i accepted m, no call of the same term to i is left in flight.
LEMMA AcceptCalls ==
    ASSUME NEW votes, NEW won, NEW master, NEW acks, Now(votes, won, master, acks),
           NEW i \in Server, NEW m \in DOMAIN net, m.to = i, m.type = "AppendEntries",
           NEW r, r.type = "AppendEntriesReply", net' = Send(Drop(net, m), {r}),
           NEW a, NEW n, OneAck(acks, a, m.term, i, n), r.last <= a[r.argTerm][r.from]
    PROVE  GoodVoteCalls /\ GoodReturns(a) /\ GoodCalls(master, acks, a)
<1>t. IsABag(net) /\ DOMAIN net \subseteq Message
    BY DEF Now, TypeOK
<1>1. DOMAIN net' \subseteq DOMAIN net \cup {r}
    BY <1>t, ReplyBag
<1>2. CallsWhole(net, master, acks) /\ CallsDerived(won, master)
    BY DEF Now, AckInv, LogInv
<1>3. \A x \in DOMAIN net : x.type = "AppendEntries" => net[x] = 1
    BY <1>2 DEF CallsWhole
<1>4. NoNewAppends(net, net')
    BY <1>t, <1>3, AppendReplied
<1>5. m \notin DOMAIN net'
    <2>1. m \notin DOMAIN Drop(net, m) /\ IsABag(Drop(net, m))
        BY <1>t, <1>3, DropCount, DropBag
    <2>2. DOMAIN net' = DOMAIN Drop(net, m) \cup {r}
        BY <2>1, SendBag
    <2> QED
        BY <2>1, <2>2
<1>6. ASSUME NEW x \in DOMAIN net', x.type = "AppendEntries"
      PROVE  a[x.term][x.to] = acks[x.term][x.to]
    <2>1. x \in DOMAIN net /\ x # m
        BY <1>4, <1>5, <1>6 DEF NoNewAppends
    <2>2. x.term \in Nat /\ x.to \in Server
        BY <1>t, <1>6, <2>1 DEF Message
    <2>3. ~(x.term = m.term /\ x.to = i)
        <3>1. won[x.term] = x.from /\ won[m.term] = m.from
            BY <1>2, <1>6, <2>1 DEF CallsDerived, CallDerived
        <3> QED
            BY <1>2, <1>6, <2>1, <3>1 DEF CallsWhole
    <2> QED
        BY <2>2, <2>3 DEF OneAck
<1>7. GoodCalls(master, acks, a)
    BY <1>2, <1>4, <1>6, CallsStay
<1> QED
    BY <1>1, <1>7 DEF GoodVoteCalls, GoodReturns

\* The commit index that comes with a call is good for the log that the call leaves.
LEMMA AcceptCommit ==
    ASSUME NEW term, NEW lg, NEW votes, NEW won, NEW master, NEW acks,
           NEW T, NEW G, NEW new, NEW a,
           Histories(term, lg, votes, won, master), Histories(T, G, new, won, master),
           acks \in [Nat -> [Server -> Nat]], a \in [Nat -> [Server -> Nat]],
           Moves(term, lg, won, master, acks, T, G, won, master, a),
           NEW u \in Nat, won[u] # Nil, NEW c \in Nat, NEW l, Begins(l, master[u]), c <= Len(l),
           NEW most, Committed(master, acks, master[u], c, u, most)
    PROVE  Committed(master, a, l, c, u, most)
<1>1. Committed(master, a, master[u], c, u, most)
    BY CommittedKept, ZenonT(40)
<1> SUFFICES ASSUME c # 0 PROVE Committed(master, a, l, c, u, most)
    BY DEF Committed
<1>2. PICK t, k \in Nat :
        /\ Chosen(master, a, t, k) /\ c <= k /\ Has(master[u], master[t], c)
        /\ t < u \/ (t = u /\ c <= most)
    BY <1>1 DEF Committed
<1>3. Has(l, master[t], c)
    <2>1. \A x \in 1 .. c : l[x] = master[u][x]
        BY DEF Begins
    <2> QED
        BY <1>2, <2>1 DEF Has
<1> QED
    BY <1>2, <1>3 DEF Committed

LEMMA SafetyAccepted ==
    ASSUME NEW votes, NEW won, NEW master, NEW acks, NEW new,
           Now(votes, won, master, acks), Voted(votes, new), LogInv(new, won, master)',
           NEW i \in Server, NEW m \in DOMAIN net, m.to = i, AppendEntries(i, m),
           m.term >= currentTerm[i], currentTerm' = [currentTerm EXCEPT ![i] = m.term],
           Matches(log[i], m), AcceptEntries(i, m), NEW nextTry,
           net' = Send(Drop(net, m), {AppendReturn(m, m.term, TRUE, nextTry)})
    PROVE  \E a : /\ AckInv(new, won, master, a)' /\ a \in [Nat -> [Server -> Nat]]
                  /\ Moves(currentTerm, log, won, master, acks, currentTerm', log', won, master, a)
<1>t. /\ TypeOK /\ TypeOK' /\ m \in Message /\ currentTerm \in [Server -> Nat]
      /\ log \in [Server -> Seq(Entry)] /\ commitIdx \in [Server -> Nat]
      /\ \A j \in Server : currentTerm[j] \in Nat
      /\ currentTerm' \in [Server -> Nat] /\ log' \in [Server -> Seq(Entry)]
    BY DEF Now, Voted, TypeOK
<1>h. /\ Histories(currentTerm, log, votes, won, master)
      /\ Histories(currentTerm', log', new, won, master)
    BY HistoriesNow, HistoriesAfter DEF Now, Voted
<1>k. Acks(currentTerm, log, won, master, acks) /\ acks \in [Nat -> [Server -> Nat]]
    BY DEF Now, AckInv, Acks
<1>1. m.type = "AppendEntries" /\ UNCHANGED <<matchIdx, appliedLast, logs>>
    BY DEF AppendEntries, leaderVars
<1>2. CallDerived(m, won, master) /\ CallWhole(master, acks, m)
    BY <1>1 DEF Now, LogInv, CallsDerived, AckInv, CallsWhole
<1>3. /\ m.term \in Nat /\ m.prevIdx \in Nat /\ m.entries \in Seq(Entry) /\ m.commit \in Nat
      /\ m.from \in Server
    BY <1>t, <1>1 DEF Message
<1>4. Len(m.entries) \in Nat /\ Total(m) \in Nat
    <2>1. Len(m.entries) \in Nat
        BY <1>3
    <2> QED
        BY <1>3, <2>1 DEF Total
<1>5. PICK L \in Seq(Entry) : L = master[m.term]
    BY <1>3, HistoryTypes, <1>h
<1>6. Derived(log[i], won, master) /\ Derived(L, won, master) /\ log[i] \in Seq(Entry)
    BY <1>t, <1>h, <1>3, <1>5 DEF Histories
<1> DEFINE l == Spliced(log[i], m)
<1>7. Len(l) \in Nat /\ Len(l) <= Len(L) /\ \A x \in 1 .. Len(l) : l[x] = L[x]
    BY <1>2, <1>3, <1>5, <1>6, SplicedLog
<1>8. Len(l) = Total(m)
    BY <1>3, <1>6, SplicedLen DEF Matches
<1>9. log' = [log EXCEPT ![i] = l]
    BY DEF AcceptEntries
<1> HIDE DEF l
<1>10. /\ log'[i] = l /\ currentTerm'[i] = m.term
       /\ \A j \in Server : j # i => log'[j] = log[j] /\ currentTerm'[j] = currentTerm[j]
    BY <1>t, <1>9
<1>11. Begins(l, master[m.term])
    BY <1>5, <1>7 DEF Begins
<1>12. PICK a : OneAck(acks, a, m.term, i, Total(m))
    BY ONLY i \in Server, <1>3, <1>4, <1>k, CanAck
<1>13. won[m.term] # Nil /\ won[m.term] # i
    BY <1>2, <1>3, NilAssumption DEF CallDerived
<1>14. Takes(currentTerm, log, won, master, acks, i, currentTerm', log', a)
    <2>1. currentTerm[i] <= m.term
        BY <1>t, <1>3
    <2>2. /\ acks[m.term][i] <= Total(m)
          /\ \A k \in 1 .. Len(master[m.term]) : master[m.term][k].term < m.term => k <= Total(m)
        BY <1>2 DEF CallWhole
    <2> QED
        BY <1>t, <1>8, <1>10, <1>11, <1>12, <1>13, <2>1, <2>2 DEF Takes
<1>15. /\ Moves(currentTerm, log, won, master, acks, currentTerm', log', won, master, a)
       /\ Acks(currentTerm', log', won, master, a)
    BY ONLY i \in Server, <1>h, <1>k, <1>14, TakesMoves
<1>16. a \in [Nat -> [Server -> Nat]] /\ a[m.term][i] = Total(m)
    BY <1>12 DEF OneAck
<1>17. GoodVoteCalls /\ GoodReturns(a) /\ GoodCalls(master, acks, a)
    <2>1. PICK r : r = AppendReturn(m, m.term, TRUE, nextTry)
        OBVIOUS
    <2>2. r.type = "AppendEntriesReply" /\ r.argTerm = m.term /\ r.from = i
        BY <2>1 DEF AppendReturn
    <2>3. r.last <= Total(m)
        <3>1. r.last = IF m.entries = <<>> THEN 0 ELSE Total(m)
            BY <2>1 DEF AppendReturn, Total
        <3> QED
            BY ONLY <1>4, <3>1
    <2>4. r.last <= a[r.argTerm][r.from]
        BY <1>16, <2>2, <2>3
    <2> QED
        BY <1>1, <1>12, <2>1, <2>2, <2>4, AcceptCalls
<1>18. \/ UNCHANGED commitIdx
       \/ /\ m.commit > commitIdx[i] /\ commitIdx' = [commitIdx EXCEPT ![i] = m.commit]
          /\ CommitGood(currentTerm', log', commitIdx', master, a, i)
    <2>1. CASE m.commit > commitIdx[i]
        <3>1. m.commit <= Total(m)
            BY <1>2 DEF CallWhole
        <3>2. Min({m.commit, Len(l)}) = m.commit
            BY <1>3, <1>4, <1>8, <3>1, MinFirst
        <3>3. commitIdx' = [commitIdx EXCEPT ![i] = m.commit]
            BY <2>1, <3>2 DEF AcceptEntries, l
        <3>4. commitIdx'[i] = m.commit
            BY <1>t, <3>3
        <3>5. Committed(master, acks, master[m.term], m.commit, m.term, Total(m))
            BY <1>2 DEF CallWhole
        <3>6. m.commit <= Len(l)
            BY <1>8, <3>1
        <3>7. Committed(master, a, l, m.commit, m.term, Total(m))
            BY ONLY <1>h, <1>k, <1>3, <1>11, <1>13, <1>15, <1>16, <3>5, <3>6, AcceptCommit
        <3> QED
            BY <1>10, <1>16, <2>1, <3>3, <3>4, <3>7 DEF CommitGood
    <2>2. CASE ~(m.commit > commitIdx[i])
        BY <2>2 DEF AcceptEntries
    <2> QED
        BY <2>1, <2>2
<1>19. GoodIndices(won, won, master, a)
    <2> SUFFICES ASSUME NEW j \in Server
                 PROVE  \/ commitIdx'[j] = commitIdx[j]
                        \/ CommitGood(currentTerm', log', commitIdx', master, a, j)
        BY <1>1 DEF GoodIndices
    <2>1. CASE j = i
        BY <1>18, <2>1
    <2>2. CASE j # i
        BY <1>t, <1>18, <2>2
    <2> QED
        BY <2>1, <2>2
<1>20. GoodApplied(master, a)
    <2>1. ASSUME NEW j \in Server PROVE commitIdx[j] <= commitIdx'[j]
        <3>t. commitIdx[j] \in Nat
            BY <1>t
        <3>1. commitIdx'[j] = commitIdx[j] \/ (j = i /\ m.commit > commitIdx[i] /\ commitIdx'[j] = m.commit)
            BY <1>t, <1>18
        <3> QED
            BY ONLY <1>3, <3>t, <3>1
    <2> QED
        BY <1>t, <1>1, <2>1, AppliedMore DEF Now
<1>21. \A j \in Server : GoodVote(won, j)
    BY <1>t, AppendTerms
<1>22. AckInv(new, won, master, a)'
    BY <1>15, <1>17, <1>19, <1>20, <1>21, SafetyFrame DEF Now, Voted
<1> QED
    BY <1>15, <1>16, <1>22

LEMMA SafetyAppend ==
    ASSUME NEW votes, NEW won, NEW master, NEW acks, NEW new,
           Now(votes, won, master, acks), Voted(votes, new),
           NEW i \in Server, NEW m \in DOMAIN net, m.to = i, AppendEntries(i, m), CopyStep
    PROVE  \E w, s, a : LogInv(new, w, s)' /\ AckInv(new, w, s, a)'
<1>1. LogInv(new, won, master)'
    BY LogsAppend DEF Now, Voted
<1>2. \E a : AckInv(new, won, master, a)'
    <2>1. CASE /\ UNCHANGED <<log, commitIdx>>
               /\ \E term, nextTry : net' = Send(Drop(net, m), {AppendReturn(m, term, FALSE, nextTry)})
        <3>1. PICK term, nextTry : net' = Send(Drop(net, m), {AppendReturn(m, term, FALSE, nextTry)})
            BY <2>1
        <3>2. PICK r : r = AppendReturn(m, term, FALSE, nextTry)
            OBVIOUS
        <3>3. r.type = "AppendEntriesReply" /\ ~r.success
            BY <3>2 DEF AppendReturn
        <3> QED
            BY <1>1, <2>1, <3>1, <3>2, <3>3, SafetyRefused
    <2>2. CASE /\ m.term >= currentTerm[i] /\ currentTerm' = [currentTerm EXCEPT ![i] = m.term]
               /\ Matches(log[i], m) /\ AcceptEntries(i, m)
               /\ \E nextTry : net' = Send(Drop(net, m), {AppendReturn(m, m.term, TRUE, nextTry)})
        BY <1>1, <2>2, SafetyAccepted
    <2>3. AcceptEntries(i, m) => Overwritten(net, i, Spliced(log[i], m)) = net
        BY AcceptInTime DEF Now
    <2> QED
        BY <2>1, <2>2, <2>3 DEF AppendEntries
<1> QED
    BY <1>1, <1>2

-------------------------------------------------------------------------------------
(* The returns of AppendEntries.                                                     *)

\* A return that counts speaks of entries that its sender accepted from this leader in
\* this term.
LEMMA ReturnMatch ==
    ASSUME NEW votes, NEW won, NEW master, NEW acks, Now(votes, won, master, acks),
           NEW i \in Server, NEW m \in DOMAIN net, m.to = i, m.type = "AppendEntriesReply",
           AppendCounts(i, m),
           \/ UNCHANGED matchIdx
           \/ m.success /\ matchIdx' = [matchIdx EXCEPT ![i][m.from] = m.last]
    PROVE  /\ won[currentTerm[i]] = i
           /\ MatchGood(currentTerm, log, matchIdx', master, acks, i)
           /\ \A j \in Server : j # i => matchIdx'[j] = matchIdx[j]
<1>t. /\ matchIdx \in [Server -> [Server -> Nat]] /\ m \in Message /\ currentTerm[i] \in Nat
      /\ acks \in [Nat -> [Server -> Nat]]
    BY DEF Now, TypeOK, AckInv, Acks
<1>1. m.from \in Server /\ m.last \in Nat
    BY <1>t DEF Message
<1>2. m.argTerm = currentTerm[i] /\ state[i] = LEADER
    BY DEF AppendCounts
<1>3. won[currentTerm[i]] = i /\ master[currentTerm[i]] = log[i]
    BY <1>2 DEF Now, LogInv, OneWinner
<1>4. MatchGood(currentTerm, log, matchIdx, master, acks, i)
    BY <1>3 DEF Now, AckInv, MatchTrue
<1>5. CASE UNCHANGED matchIdx
    BY <1>3, <1>4, <1>5 DEF MatchGood
<1>6. CASE m.success /\ matchIdx' = [matchIdx EXCEPT ![i][m.from] = m.last]
    <2>1. m.last <= acks[currentTerm[i]][m.from] /\ m.last <= Len(log[i])
        BY <1>2, <1>3, <1>6 DEF Now, AckInv, ReturnsTrue, LogInv, ReturnsInRange, ReturnInRange
    <2>2. acks[currentTerm[i]][m.from] \in Nat
        BY <1>t, <1>1
    <2>3. \A j \in Server : j # i => matchIdx'[j] = matchIdx[j]
        BY <1>t, <1>6
    <2>4. ASSUME NEW j \in Others(i)
          PROVE  /\ matchIdx'[i][j] <= Len(log[i])
                 /\ \A k \in Nat : Own(master, currentTerm[i], k) /\ k <= matchIdx'[i][j]
                        => k <= acks[currentTerm[i]][j]
        <3>t. j \in Server
            BY DEF Others
        <3>1. CASE j = m.from
            <4>1. matchIdx'[i][j] = m.last
                BY <1>t, <1>1, <1>6, <3>1
            <4>2. \A k \in Nat : k <= m.last => k <= acks[currentTerm[i]][m.from]
                BY ONLY <1>1, <2>1, <2>2
            <4> QED
                BY <2>1, <3>1, <4>1, <4>2
        <3>2. CASE j # m.from
            <4>1. matchIdx'[i][j] = matchIdx[i][j]
                BY <1>t, <1>1, <1>6, <3>t, <3>2
            <4> QED
                BY <1>4, <4>1 DEF MatchGood
        <3> QED
            BY <3>1, <3>2
    <2> QED
        BY <1>3, <2>3, <2>4 DEF MatchGood
<1> QED
    BY <1>5, <1>6

\* The commit loop stops at an entry of the leader's own term that a majority accepted.
LEMMA CommitAdvances ==
    ASSUME TypeOK, NEW master, NEW acks, acks \in [Nat -> [Server -> Nat]], NEW i \in Server,
           master[currentTerm[i]] = log[i], acks[currentTerm[i]][i] = Len(log[i]),
           NEW M, MatchGood(currentTerm, log, M, master, acks, i), AdvanceCommit(i, M[i])
    PROVE  \/ UNCHANGED commitIdx
           \/ \E c \in Nat :
                /\ c > commitIdx[i] /\ commitIdx' = [commitIdx EXCEPT ![i] = c]
                /\ Committed(master, acks, log[i], c, currentTerm[i], acks[currentTerm[i]][i])
<1>t. log[i] \in Seq(Entry) /\ commitIdx[i] \in Nat /\ currentTerm[i] \in Nat
    BY DEF TypeOK
<1>l. Len(log[i]) \in Nat
    BY <1>t
<1> DEFINE held == {k \in CommitRange(i) : Majority(Cardinality(Holders(i, k, M[i])))}
<1>1. CASE held = {}
    BY <1>1 DEF AdvanceCommit
<1>2. CASE held # {}
    <2>1. commitIdx' = [commitIdx EXCEPT ![i] = Max(held)]
        BY <1>2 DEF AdvanceCommit
    <2>2. held \in SUBSET (0 .. Len(log[i]))
        <3> SUFFICES ASSUME NEW k \in CommitRange(i) PROVE k \in 0 .. Len(log[i])
            OBVIOUS
        <3>1. k \in commitIdx[i] + 1 .. Len(log[i])
            BY DEF CommitRange
        <3> QED
            BY ONLY <1>t, <1>l, <3>1
    <2>3. Max(held) \in held
        BY <1>2, <1>l, <2>2, MaxInSet
    <2>4. PICK k \in Nat : k = Max(held)
        <3> HIDE DEF held
        <3>1. Max(held) \in 0 .. Len(log[i])
            BY ONLY <2>2, <2>3
        <3>2. Max(held) \in Nat
            BY ONLY <1>l, <3>1
        <3> QED
            BY ONLY <3>2
    <2>5. k \in CommitRange(i) /\ Majority(Cardinality(Holders(i, k, M[i])))
        BY <2>3, <2>4
    <2> HIDE DEF held
    <2>6. /\ k \in commitIdx[i] + 1 .. Len(log[i])
          /\ \A x \in k .. Len(log[i]) : log[i][x].term = currentTerm[i]
        BY <2>5 DEF CommitRange
    <2>7. k > commitIdx[i] /\ k \in 1 .. Len(log[i]) /\ k \in k .. Len(log[i]) /\ k <= Len(log[i])
        BY ONLY <1>t, <1>l, k \in Nat, <2>6
    <2>8. Own(master, currentTerm[i], k)
        BY <2>6, <2>7 DEF Own
    <2>9. \A j \in Holders(i, k, M[i]) : acks[currentTerm[i]][j] >= k
        <3> TAKE j \in Holders(i, k, M[i])
        <3>1. CASE j = i
            BY ONLY <1>l, <2>7, <3>1, acks[currentTerm[i]][i] = Len(log[i]), k \in Nat
        <3>2. CASE j # i
            <4>1. j \in Others(i) /\ M[i][j] >= k
                BY <3>2 DEF Holders
            <4>2. j \in Server /\ acks[currentTerm[i]][j] \in Nat
                BY <1>t, <4>1 DEF Others
            <4>3. k <= M[i][j]
                BY <4>1
            <4>4. k <= acks[currentTerm[i]][j]
                BY <2>8, <4>1, <4>3 DEF MatchGood
            <4> QED
                BY ONLY k \in Nat, <4>2, <4>4
        <3> QED
            BY <3>1, <3>2
    <2>10. Holders(i, k, M[i]) \in SUBSET Server
        BY DEF Holders, Others
    <2>11. Chosen(master, acks, currentTerm[i], k)
        BY <2>5, <2>8, <2>9, <2>10 DEF Chosen
    <2>12. Has(log[i], master[currentTerm[i]], k) /\ k <= acks[currentTerm[i]][i] /\ k <= k
        BY <2>7 DEF Has
    <2>13. Committed(master, acks, log[i], k, currentTerm[i], acks[currentTerm[i]][i])
        BY <1>t, <2>11, <2>12 DEF Committed
    <2> QED
        BY <2>1, <2>4, <2>7, <2>13
<1> QED
    BY <1>1, <1>2

LEMMA SafetyAppendReturn ==
    ASSUME NEW votes, NEW won, NEW master, NEW acks, NEW new,
           Now(votes, won, master, acks), Voted(votes, new),
           NEW i \in Server, NEW m \in DOMAIN net, m.to = i, sendAppendEntries(i, m)
    PROVE  LogInv(new, won, master)' /\ AckInv(new, won, master, acks)'
<1>t. /\ TypeOK /\ TypeOK' /\ IsABag(net) /\ currentTerm \in [Server -> Nat]
      /\ votedFor \in [Server -> Server \cup {Nil}] /\ m \in Message
      /\ commitIdx \in [Server -> Nat]
      /\ \A j \in Server : currentTerm[j] \in Nat
    BY DEF Now, Voted, TypeOK
<1>0. LogInv(new, won, master)'
    BY LogsAppendReturn DEF Now, Voted
<1>1. /\ m.type = "AppendEntriesReply" /\ net' = Drop(net, m)
      /\ UNCHANGED <<log, appliedLast, logs>>
    BY DEF sendAppendEntries
<1>2. m.term \in Nat
    BY <1>t, <1>1 DEF Message
<1>3. DOMAIN net' \subseteq DOMAIN net /\ NoNewAppends(net, net')
    <2>1. \A x \in DOMAIN net : x.type = "AppendEntries" => net[x] = 1
        BY DEF Now, AckInv, CallsWhole
    <2> QED
        BY <1>t, <1>1, <2>1, DropBag, AppendDropped
<1>4. ASSUME NEW j \in Server PROVE currentTerm[j] <= currentTerm'[j] /\ GoodVote(won, j)
    <2>1. CASE UNCHANGED <<currentTerm, votedFor>>
        BY <1>t, <2>1 DEF GoodVote
    <2>2. CASE /\ m.term > currentTerm[i]
               /\ currentTerm' = [currentTerm EXCEPT ![i] = m.term]
               /\ votedFor' = [votedFor EXCEPT ![i] = Nil]
        <3>1. CASE j = i
            BY <1>t, <1>2, <2>2, <3>1 DEF GoodVote
        <3>2. CASE j # i
            <4>1. currentTerm'[j] = currentTerm[j] /\ votedFor'[j] = votedFor[j]
                BY <1>t, <2>2, <3>2
            <4> QED
                BY <1>t, <4>1 DEF GoodVote
        <3> QED
            BY <3>1, <3>2
    <2> QED
        BY <2>1, <2>2 DEF sendAppendEntries
<1>5. GoodIndices(won, won, master, acks) /\ GoodApplied(master, acks)
    <2>1. CASE UNCHANGED <<matchIdx, commitIdx>>
        BY <1>t, <1>1, <2>1, OldIndices, OldApplied DEF Now
    <2>2. CASE /\ AppendCounts(i, m) /\ UNCHANGED currentTerm /\ AdvanceCommit(i, matchIdx'[i])
               /\ \/ UNCHANGED matchIdx
                  \/ m.success /\ matchIdx' = [matchIdx EXCEPT ![i][m.from] = m.last]
        <3>1. /\ won[currentTerm[i]] = i
              /\ MatchGood(currentTerm, log, matchIdx', master, acks, i)
              /\ \A j \in Server : j # i => matchIdx'[j] = matchIdx[j]
            BY <1>1, <2>2, ReturnMatch
        <3>2. /\ master[currentTerm[i]] = log[i] /\ acks[currentTerm[i]][i] = Len(log[i])
              /\ acks \in [Nat -> [Server -> Nat]]
            BY <3>1 DEF Now, LogInv, OneWinner, AckInv, Acks
        <3>3. \/ UNCHANGED commitIdx
              \/ \E c \in Nat :
                    /\ c > commitIdx[i] /\ commitIdx' = [commitIdx EXCEPT ![i] = c]
                    /\ Committed(master, acks, log[i], c, currentTerm[i], acks[currentTerm[i]][i])
            BY <1>t, <2>2, <3>1, <3>2, CommitAdvances
        <3>4. ASSUME NEW j \in Server
              PROVE  /\ commitIdx[j] <= commitIdx'[j]
                     /\ \/ commitIdx'[j] = commitIdx[j]
                        \/ CommitGood(currentTerm', log', commitIdx', master, acks, j)
            <4>t. commitIdx[j] \in Nat
                BY <1>t
            <4>1. CASE UNCHANGED commitIdx
                BY <4>t, <4>1
            <4>2. CASE ~UNCHANGED commitIdx
                <5>1. PICK c \in Nat :
                        /\ c > commitIdx[i] /\ commitIdx' = [commitIdx EXCEPT ![i] = c]
                        /\ Committed(master, acks, log[i], c, currentTerm[i], acks[currentTerm[i]][i])
                    BY <3>3, <4>2
                <5>2. CASE j # i
                    <6>1. commitIdx'[j] = commitIdx[j]
                        BY <1>t, <5>1, <5>2
                    <6> QED
                        BY <4>t, <6>1
                <5>3. CASE j = i
                    <6>1. commitIdx'[j] = c
                        BY <1>t, <5>1, <5>3
                    <6>2. CommitGood(currentTerm', log', commitIdx', master, acks, j)
                        BY <1>1, <2>2, <5>1, <5>3, <6>1 DEF CommitGood
                    <6>3. commitIdx[j] <= c
                        BY <4>t, <5>1, <5>3
                    <6> QED
                        BY <6>1, <6>2, <6>3
                <5> QED
                    BY <5>2, <5>3
            <4> QED
                BY <4>1, <4>2
        <3>5. MatchGood(currentTerm', log', matchIdx', master, acks, i)
            BY <1>1, <2>2, <3>1
        <3>6. GoodIndices(won, won, master, acks)
            BY <3>1, <3>4, <3>5 DEF GoodIndices
        <3>7. GoodApplied(master, acks)
            BY <1>t, <1>1, <3>4, AppliedMore DEF Now
        <3> QED
            BY <3>6, <3>7
    <2> QED
        BY <2>1, <2>2 DEF sendAppendEntries, leaderVars
<1>6. AckInv(new, won, master, acks)'
    BY <1>0, <1>1, <1>3, <1>4, <1>5, OldMessages, SafetySame DEF Now, Voted
<1> QED
    BY <1>0, <1>6

-------------------------------------------------------------------------------------
(* The invariant, from the first state on.                                           *)

\* A cluster with the votes so far: winners, their logs and what servers accepted exist
\* as histories.
Safe(votes) ==
    /\ TypeOK /\ LogDurable /\ VoteInv(votes)
    /\ \E won, master, acks : LogInv(votes, won, master) /\ AckInv(votes, won, master, acks)
SafeInv == \E votes : Safe(votes)

\* No entry was accepted.
NoneAcked(acks) == acks = [t \in Nat |-> [j \in Server |-> 0]]

LEMMA AcksInit ==
    ASSUME Init, TypeOK, NEW votes, VoteInv(votes), NEW won, NEW master, NoneWon(won, master),
           NEW acks, NoneAcked(acks)
    PROVE  AckInv(votes, won, master, acks)
<1>1. \A t \in Nat : won[t] = Nil /\ master[t] = <<>>
    BY DEF NoneWon
<1>2. acks \in [Nat -> [Server -> Nat]] /\ \A t \in Nat : \A j \in Server : acks[t][j] = 0
    BY DEF NoneAcked
<1>3. DOMAIN net = {}
    BY DEF Init, EmptyBag, SetToBag
<1>4. \A i \in Server : /\ log[i] = <<>> /\ currentTerm[i] = 0 /\ commitIdx[i] = 0
                        /\ appliedLast[i] = 0 /\ logs[i] = {}
    BY DEF Init
<1>5. \A t \in Nat : \A k : ~Own(master, t, k)
    BY <1>1 DEF Own
<1>6. Acks(currentTerm, log, won, master, acks)
    BY <1>1, <1>2, <1>4, NilAssumption DEF Acks
<1>7. /\ WinnersHave(currentTerm, won, master, acks)
      /\ LogsHave(currentTerm, log, master, acks)
    BY <1>5 DEF WinnersHave, LogsHave
<1>8. VotesCarry(currentTerm, log, votes, won, master, acks)
    <2> SUFFICES ASSUME NEW c \in Server, NEW j \in Server
                 PROVE  /\ \A u \in Nat : votes[u][j] = c => u <= currentTerm[c]
                        /\ Carries(currentTerm, log, master, acks, c, j)
        BY DEF VotesCarry
    <2>1. ASSUME NEW u \in Nat, votes[u][j] = c PROVE u <= currentTerm[c]
        <3>1. ~(u > currentTerm[j])
            BY <2>1, NilAssumption DEF VoteInv, RecordsVotes
        <3> QED
            BY <1>4, <3>1
    <2>2. Carries(currentTerm, log, master, acks, c, j)
        BY <1>5 DEF Carries
    <2> QED
        BY <2>1, <2>2
<1>9. /\ VoteCallsTrue(net, currentTerm, log, won) /\ CallsWhole(net, master, acks)
      /\ ReturnsTrue(net, acks)
    BY <1>3 DEF VoteCallsTrue, CallsWhole, ReturnsTrue
<1>10. MatchTrue(currentTerm, log, matchIdx, won, master, acks)
    BY <1>1, <1>4, NilAssumption DEF MatchTrue
<1>11. CommitTrue(currentTerm, log, commitIdx, master, acks)
    BY <1>4 DEF CommitTrue, CommitGood, Committed
<1>12. AppliedTrue(commitIdx, appliedLast, logs, master, acks)
    <2>1. UpTo({}, 0)
        BY DEF UpTo
    <2>2. AllOf(logs) = {}
        BY <1>4 DEF AllOf
    <2>3. \E n \in Nat : UpTo(AllOf(logs), n)
        BY <2>1, <2>2
    <2>4. ASSUME NEW i \in Server
          PROVE  /\ appliedLast[i] <= commitIdx[i]
                 /\ \E n \in Nat : appliedLast[i] <= n /\ UpTo(logs[i], n)
                 /\ \A x \in logs[i] : Given(master, acks, x)
        <3>1. appliedLast[i] = 0 /\ commitIdx[i] = 0 /\ logs[i] = {}
            BY <1>4
        <3>2. 0 \in Nat /\ 0 <= 0 /\ UpTo(logs[i], 0)
            BY ONLY <2>1, <3>1
        <3>3. \E n \in Nat : appliedLast[i] <= n /\ UpTo(logs[i], n)
            BY ONLY <3>1, <3>2
        <3> QED
            BY ONLY <3>1, <3>2, <3>3
    <2> QED
        BY <2>3, <2>4 DEF AppliedTrue
<1> QED
    BY <1>6, <1>7, <1>8, <1>9, <1>10, <1>11, <1>12 DEF AckInv

LEMMA SafeInit == ASSUME Init PROVE \E votes : Safe(votes)
<1>1. PICK votes : VoteInv(votes)
    BY VotesInit
<1>2. PICK won, master : NoneWon(won, master)
    BY DEF NoneWon
<1>3. PICK acks : NoneAcked(acks)
    BY DEF NoneAcked
<1>4. TypeOK /\ LogDurable
    BY TypeInit, DurableInit
<1>5. LogInv(votes, won, master) /\ AckInv(votes, won, master, acks)
    BY <1>1, <1>2, <1>3, <1>4, LogsInit, AcksInit
<1> QED
    BY <1>1, <1>4, <1>5 DEF Safe

LEMMA SafetyNext ==
    ASSUME InOrder, [Next]_vars, [SurvivesStep]_vars, [MatchStep]_vars, [CopyStep]_vars,
           NEW votes, NEW won, NEW master, NEW acks, NEW new,
           Now(votes, won, master, acks), Voted(votes, new)
    PROVE  \E w, s, a : LogInv(new, w, s)' /\ AckInv(new, w, s, a)'
<1>1. ASSUME \/ \E i \in Server : Ticker(i) \/ ElectionGoroutine(i) \/ LeaderPersist(i)
             \/ \E m \in DOMAIN net : Lose(m)
             \/ UNCHANGED vars
      PROVE  \E w, s, a : LogInv(new, w, s)' /\ AckInv(new, w, s, a)'
    BY <1>1, SafetyLocal
<1>2. ASSUME NEW i \in Server, broadcastHeartbeat(i)
      PROVE  \E w, s, a : LogInv(new, w, s)' /\ AckInv(new, w, s, a)'
    BY <1>2, SafetyBroadcast
<1>3. ASSUME NEW i \in Server, Apply(i)
      PROVE  \E w, s, a : LogInv(new, w, s)' /\ AckInv(new, w, s, a)'
    BY <1>3, SafetyApply
<1>4. ASSUME NEW i \in Server, NEW m \in DOMAIN net, Receive(i, m), ~UNCHANGED vars
      PROVE  \E w, s, a : LogInv(new, w, s)' /\ AckInv(new, w, s, a)'
    <2>0. m.to = i
        BY <1>4 DEF Receive
    <2>1. CASE RequestVote(i, m)
        BY <2>0, <2>1, SafetyVote
    <2>2. CASE sendRequestVote(i, m)
        BY <2>2, SafetyVoteReturn
    <2>3. CASE AppendEntries(i, m)
        BY <1>4, <2>0, <2>3, SafetyAppend
    <2>4. CASE sendAppendEntries(i, m)
        BY <2>0, <2>4, SafetyAppendReturn
    <2> QED
        BY <1>4, <2>1, <2>2, <2>3, <2>4 DEF Receive
<1>5. ASSUME NEW i \in Server, NEW c \in Command, Start(i, c), ~UNCHANGED vars
      PROVE  \E w, s, a : LogInv(new, w, s)' /\ AckInv(new, w, s, a)'
    BY <1>5, SafetyStart
<1>6. ASSUME NEW i \in Server, Restart(i), ~UNCHANGED vars
      PROVE  \E w, s, a : LogInv(new, w, s)' /\ AckInv(new, w, s, a)'
    <2>1. restarts'[i] # restarts[i]
        BY <1>6, SMTT(30) DEF Restart, Now, TypeOK
    <2>2. disk[i].term = currentTerm[i]
        BY <1>6, <2>1 DEF SurvivesStep
    <2> QED
        BY <1>6, <2>2, SafetyRestart
<1>7. ASSUME NEW m \in DOMAIN net, SendCopy(m)
      PROVE  \E w, s, a : LogInv(new, w, s)' /\ AckInv(new, w, s, a)'
    BY <1>7, SafetyCopy
<1> QED
    BY <1>1, <1>2, <1>3, <1>4, <1>5, <1>6, <1>7 DEF Next, Step

LEMMA SafeNext ==
    ASSUME "election" \in Prompt, InOrder, NEW votes, Safe(votes),
           [Next]_vars, [SurvivesStep]_vars, [MatchStep]_vars, [CopyStep]_vars
    PROVE  \E new : Grows(votes, new) /\ Safe(new)'
<1>1. TypeOK /\ TypeOK' /\ LogDurable /\ LogDurable' /\ VoteInv(votes)
    BY TypeNext, DurableNext DEF Safe
<1>2. PICK won, master, acks : Now(votes, won, master, acks)
    BY <1>1 DEF Safe, Now
<1>3. PICK new : Voted(votes, new)
    BY <1>1, VotesNext DEF Voted
<1>4. PICK w, s, a : LogInv(new, w, s)' /\ AckInv(new, w, s, a)'
    BY <1>2, <1>3, SafetyNext
<1> QED
    BY <1>1, <1>3, <1>4 DEF Safe, Voted

-------------------------------------------------------------------------------------
(* What the invariant says about what services were given.                           *)

LEMMA ChosenAgree ==
    ASSUME NEW term, NEW lg, NEW votes, NEW won, NEW master, NEW acks,
           Histories(term, lg, votes, won, master), acks \in [Nat -> [Server -> Nat]],
           WinnersHave(term, won, master, acks), NEW t \in Nat, NEW u \in Nat, t < u,
           NEW k \in Nat, NEW n, Chosen(master, acks, t, k), Own(master, u, n)
    PROVE  Has(master[u], master[t], k)
<1>1. won[u] # Nil /\ Own(master, t, k)
    BY OwnWon DEF Chosen
<1>2. ~Refused(term, acks, t, k)
    BY ChosenStays
<1> QED
    BY <1>1, <1>2 DEF WinnersHave

LEMMA GivenAgree ==
    ASSUME NEW term, NEW lg, NEW votes, NEW won, NEW master, NEW acks,
           Histories(term, lg, votes, won, master), acks \in [Nat -> [Server -> Nat]],
           WinnersHave(term, won, master, acks),
           NEW x, NEW y, Given(master, acks, x), Given(master, acks, y), x[1] = y[1]
    PROVE  x[2] = y[2]
<1>1. PICK t, k \in Nat : Chosen(master, acks, t, k) /\ x[1] \in 1 .. k /\ master[t][x[1]] = x[2]
    BY DEF Given
<1>2. PICK u, n \in Nat : Chosen(master, acks, u, n) /\ y[1] \in 1 .. n /\ master[u][y[1]] = y[2]
    BY DEF Given
<1>3. CASE t = u
    BY <1>1, <1>2, <1>3
<1>4. CASE t < u
    <2>1. Has(master[u], master[t], k)
        BY <1>1, <1>2, <1>4, ChosenAgree DEF Chosen
    <2>2. master[u][x[1]] = master[t][x[1]]
        BY <1>1, <2>1 DEF Has
    <2> QED
        BY <1>1, <1>2, <2>2
<1>5. CASE u < t
    <2>1. Has(master[t], master[u], n)
        BY <1>1, <1>2, <1>5, ChosenAgree DEF Chosen
    <2>2. master[t][y[1]] = master[u][y[1]]
        BY <1>2, <2>1 DEF Has
    <2> QED
        BY <1>1, <1>2, <2>2
<1> QED
    BY <1>3, <1>4, <1>5

\* What a safe cluster offers the proofs below.
LEMMA SafeFacts ==
    ASSUME NEW votes, Safe(votes)
    PROVE  \E won, master, acks :
            /\ Now(votes, won, master, acks) /\ Histories(currentTerm, log, votes, won, master)
            /\ acks \in [Nat -> [Server -> Nat]]
            /\ \A x \in Delivered : Given(master, acks, x)
<1>1. PICK won, master, acks : LogInv(votes, won, master) /\ AckInv(votes, won, master, acks)
    BY DEF Safe
<1>2. Now(votes, won, master, acks)
    BY <1>1 DEF Safe, Now
<1>3. Histories(currentTerm, log, votes, won, master)
    BY <1>1, HistoriesNow DEF Safe
<1>4. acks \in [Nat -> [Server -> Nat]]
    BY <1>1 DEF AckInv, Acks
<1>5. ASSUME NEW x \in Delivered PROVE Given(master, acks, x)
    <2>1. PICK i \in Server : x \in logs[i]
        BY DEF Delivered
    <2> QED
        BY <1>1, <2>1 DEF AckInv, AppliedTrue
<1> QED
    BY <1>2, <1>3, <1>4, <1>5

LEMMA SafeStateMachine == ASSUME NEW votes, Safe(votes) PROVE StateMachineSafety
<1>1. PICK won, master, acks :
        /\ Now(votes, won, master, acks) /\ Histories(currentTerm, log, votes, won, master)
        /\ acks \in [Nat -> [Server -> Nat]]
        /\ \A x \in Delivered : Given(master, acks, x)
    BY SafeFacts
<1>2. WinnersHave(currentTerm, won, master, acks)
    BY <1>1 DEF Now, AckInv
<1>3. ASSUME NEW x \in Delivered, NEW y \in Delivered, x[1] = y[1] PROVE x[2] = y[2]
    BY <1>1, <1>2, <1>3, GivenAgree
<1>4. ASSUME NEW i \in Server, NEW x \in logs[i], x[1] # 1 PROVE \E y \in logs[i] : y[1] = x[1] - 1
    <2>1. PICK n \in Nat : UpTo(logs[i], n)
        BY <1>1 DEF Now, AckInv, AppliedTrue
    <2>2. x[1] \in 1 .. n
        BY <2>1 DEF UpTo
    <2>3. x[1] - 1 \in 1 .. n
        BY <1>4, <2>2
    <2> QED
        BY <2>1, <2>3 DEF UpTo
<1> QED
    BY <1>3, <1>4 DEF StateMachineSafety

LEMMA SafeHeld == ASSUME NEW votes, Safe(votes) PROVE AppliedIsHeld
<1>1. PICK won, master, acks :
        /\ Now(votes, won, master, acks) /\ Histories(currentTerm, log, votes, won, master)
        /\ acks \in [Nat -> [Server -> Nat]]
        /\ \A x \in Delivered : Given(master, acks, x)
    BY SafeFacts
<1> SUFFICES ASSUME NEW x \in Delivered
             PROVE  Majority(Cardinality({i \in Server : Holds(i, x)}))
    BY DEF AppliedIsHeld
<1>2. PICK t, k \in Nat : Chosen(master, acks, t, k) /\ x[1] \in 1 .. k /\ master[t][x[1]] = x[2]
    BY <1>1 DEF Given
<1>3. PICK Q \in SUBSET Server : Majority(Cardinality(Q)) /\ \A j \in Q : acks[t][j] >= k
    BY <1>2 DEF Chosen
<1>4. Own(master, t, k) /\ ~Refused(currentTerm, acks, t, k)
    BY <1>1, <1>2, ChosenStays DEF Chosen
<1>5. ASSUME NEW j \in Q PROVE Holds(j, x)
    <2>1. j \in Server /\ acks[t][j] \in Nat /\ Len(log[j]) \in Nat
        BY <1>1, HistoryTypes
    <2>2. k <= acks[t][j]
        BY <1>3, <2>1
    <2>3. Has(log[j], master[t], k)
        BY <1>1, <1>4, <2>1, <2>2 DEF Now, AckInv, LogsHave
    <2>4. k <= Len(log[j]) /\ log[j][x[1]] = master[t][x[1]]
        BY <1>2, <2>3 DEF Has
    <2>5. Len(log[j]) >= x[1]
        BY <1>2, <2>1, <2>4
    <2> QED
        BY <1>2, <2>4, <2>5 DEF Holds
<1> DEFINE H == {i \in Server : Holds(i, x)}
<1>6. Q \subseteq H /\ H \subseteq Server
    BY <1>5
<1> HIDE DEF H
<1>7. IsFiniteSet(H) /\ IsFiniteSet(Q)
    BY <1>6, ServerAssumption, FS_Subset
<1>8. Cardinality(Q) <= Cardinality(H) /\ Cardinality(Q) \in Nat /\ Cardinality(H) \in Nat
    BY <1>6, <1>7, FS_Subset, FS_CardinalityType
<1>9. Majority(Cardinality(H))
    BY <1>3, <1>8, MajorityGrows
<1> QED
    BY <1>9 DEF H

LEMMA SafeLeader == ASSUME NEW votes, Safe(votes) PROVE LeaderCompleteness
<1>1. PICK won, master, acks :
        /\ Now(votes, won, master, acks) /\ Histories(currentTerm, log, votes, won, master)
        /\ acks \in [Nat -> [Server -> Nat]]
        /\ \A x \in Delivered : Given(master, acks, x)
    BY SafeFacts
<1> SUFFICES ASSUME NEW i \in Server, state[i] = LEADER,
                    \A j \in Server : currentTerm[j] <= currentTerm[i], NEW x \in Delivered
             PROVE  Holds(i, x)
    BY DEF LeaderCompleteness
<1>2. PICK t, k \in Nat : Chosen(master, acks, t, k) /\ x[1] \in 1 .. k /\ master[t][x[1]] = x[2]
    BY <1>1 DEF Given
<1>3. PICK u \in Nat : u = currentTerm[i]
    BY <1>1, HistoryTypes
<1>4. won[u] = i /\ master[u] = log[i] /\ Len(log[i]) \in Nat
    BY <1>1, <1>3, HistoryTypes DEF Now, LogInv, OneWinner
<1>5. t <= u
    <2>1. PICK Q \in SUBSET Server : Majority(Cardinality(Q)) /\ \A j \in Q : acks[t][j] >= k
        BY <1>2 DEF Chosen
    <2>2. PICK j \in Server : acks[t][j] >= k
        BY <2>1, MajoritiesMeet
    <2>3. acks[t][j] \in Nat /\ currentTerm[j] \in Nat /\ currentTerm[j] <= u
        <3>1. acks[t][j] \in Nat
            BY <1>1
        <3>2. currentTerm[j] \in Nat
            BY <1>1, HistoryTypes
        <3> QED
            BY <1>3, <3>1, <3>2
    <2>4. acks[t][j] > 0
        BY <1>2, <2>2, <2>3
    <2>5. t <= currentTerm[j]
        BY <1>1, <2>4 DEF Now, AckInv, Acks
    <2> QED
        BY ONLY t \in Nat, u \in Nat, <2>3, <2>5
<1>6. Has(log[i], master[t], k)
    <2>1. CASE t = u
        BY <1>2, <1>4, <2>1 DEF Chosen, Own, Has
    <2>2. CASE t < u
        <3>1. ~Refused(currentTerm, acks, t, k) /\ Own(master, t, k)
            BY <1>1, <1>2, ChosenStays DEF Chosen
        <3>2. won[u] # Nil
            BY <1>4, NilAssumption
        <3> QED
            BY <1>1, <1>4, <2>2, <3>1, <3>2 DEF Now, AckInv, WinnersHave
    <2> QED
        BY <1>5, <2>1, <2>2
<1>7. k <= Len(log[i]) /\ log[i][x[1]] = master[t][x[1]]
    BY <1>2, <1>6 DEF Has
<1>8. Len(log[i]) >= x[1]
    BY <1>2, <1>4, <1>7
<1> QED
    BY <1>2, <1>7, <1>8 DEF Holds

LEMMA SafeIndices == ASSUME NEW votes, Safe(votes) PROVE IndicesInRange
<1>1. PICK won, master, acks : LogInv(votes, won, master) /\ AckInv(votes, won, master, acks)
    BY DEF Safe
<1>2. \A i \in Server : commitIdx[i] <= Len(log[i])
    BY <1>1, CommitInLog DEF Safe, AckInv
<1> QED
    BY <1>1, <1>2 DEF IndicesInRange, ApplyInRange, LogInv, Safe

\* An AppendEntries that a server accepts keeps what the server has applied: the entries
\* are chosen, so the leader of the call's term has them too, and the call reaches past
\* them.
LEMMA AcceptKeeps ==
    ASSUME NEW votes, NEW new, Safe(votes), Voted(votes, new),
           NEW i \in Server, NEW m \in DOMAIN net, m.to = i, AppendEntries(i, m), log'[i] # log[i],
           CopyStep
    PROVE  KeepsFirst(i, appliedLast[i])
<1>1. PICK won, master, acks : Now(votes, won, master, acks)
    BY DEF Safe, Now
<1>2. LogInv(new, won, master)'
    BY <1>1, LogsAppend DEF Now, Voted
<1>3. /\ m.term >= currentTerm[i] /\ currentTerm' = [currentTerm EXCEPT ![i] = m.term]
      /\ Matches(log[i], m) /\ AcceptEntries(i, m)
      /\ \E nextTry : net' = Send(Drop(net, m), {AppendReturn(m, m.term, TRUE, nextTry)})
    <2>1. AcceptEntries(i, m) => Overwritten(net, i, Spliced(log[i], m)) = net
        BY <1>1, AcceptInTime DEF Now
    <2> QED
        BY <2>1 DEF AppendEntries
<1>4. PICK a : /\ AckInv(new, won, master, a)' /\ a \in [Nat -> [Server -> Nat]]
               /\ Moves(currentTerm, log, won, master, acks, currentTerm', log', won, master, a)
    BY <1>1, <1>2, <1>3, SafetyAccepted
<1>5. /\ Histories(currentTerm, log, votes, won, master)
      /\ Histories(currentTerm', log', new, won, master)
    BY <1>1, <1>2, HistoriesNow, HistoriesAfter DEF Now, Voted
<1>6. acks \in [Nat -> [Server -> Nat]]
    BY <1>1 DEF Now, AckInv, Acks
<1>7. WinnersHave(currentTerm', won, master, a)
    BY <1>4 DEF AckInv
<1>8. PICK n \in Nat : n = commitIdx[i]
    BY <1>1 DEF Now, TypeOK
<1>9. Committed(master, acks, log[i], n, currentTerm[i], acks[currentTerm[i]][i])
    BY <1>1, <1>8 DEF Now, AckInv, CommitTrue, CommitGood
<1>10. n # 0 => Has(log'[i], log[i], n)
    BY ONLY i \in Server, n \in Nat, <1>4, <1>5, <1>6, <1>7, <1>9, CommitKept
<1>11. PICK p \in Nat : p = appliedLast[i]
    BY <1>1 DEF Now, TypeOK
<1>12. p <= n /\ n <= Len(log[i])
    BY <1>1, <1>8, <1>11, CommitInLog DEF Now, AckInv, AppliedTrue
<1>13. /\ log[i] \in Seq(Entry) /\ log'[i] \in Seq(Entry) /\ Len(log[i]) \in Nat /\ Len(log'[i]) \in Nat
    <2>1. log[i] \in Seq(Entry) /\ log'[i] \in Seq(Entry)
        BY <1>1 DEF Now, Voted, TypeOK
    <2> QED
        BY <2>1
<1>14. p <= Len(log[i]) /\ p <= Len(log'[i]) /\ \A x \in 1 .. p : log'[i][x] = log[i][x]
    <2>1. CASE n = 0
        BY ONLY <1>12, <1>13, <2>1, p \in Nat
    <2>2. CASE n # 0
        <3>1. n <= Len(log'[i]) /\ \A x \in 1 .. n : log'[i][x] = log[i][x]
            BY <1>10, <2>2 DEF Has
        <3> QED
            BY ONLY n \in Nat, p \in Nat, <1>12, <1>13, <3>1
    <2> QED
        BY <2>1, <2>2
<1>15. SubSeq(log'[i], 1, p) = SubSeq(log[i], 1, p) /\ Len(log'[i]) >= p
    BY ONLY p \in Nat, <1>13, <1>14
<1> QED
    BY <1>11, <1>15 DEF KeepsFirst

LEMMA KeepsApplied ==
    ASSUME "election" \in Prompt, NEW votes, Safe(votes), [Next]_vars, [SurvivesStep]_vars,
           [CopyStep]_vars, NEW i \in Server, restarts'[i] = restarts[i]
    PROVE  KeepsFirst(i, appliedLast[i])
<1> USE DEF raftVars
<1>t. TypeOK /\ LogDurable /\ TypeOK' /\ VoteInv(votes)
    BY TypeNext DEF Safe
<1>l. /\ log \in [Server -> Seq(Entry)] /\ currentTerm \in [Server -> Nat]
      /\ log[i] \in Seq(Entry) /\ Len(log[i]) \in Nat /\ appliedLast[i] \in Nat
      /\ restarts \in [Server -> Nat]
    BY <1>t, LogTypes DEF TypeOK
<1>p. appliedLast[i] <= Len(log[i])
    <2>1. PICK won, master, acks : AckInv(votes, won, master, acks)
        BY DEF Safe
    <2>2. appliedLast[i] <= commitIdx[i] /\ commitIdx[i] <= Len(log[i]) /\ commitIdx[i] \in Nat
        BY <1>t, <2>1, CommitInLog DEF AckInv, AppliedTrue, TypeOK
    <2> QED
        BY ONLY <1>l, <2>2
<1>1. CASE log'[i] = log[i]
    BY <1>l, <1>p, <1>1 DEF KeepsFirst
<1>2. ASSUME NEW j \in Server, NEW c \in Command, Start(j, c), log'[i] # log[i]
      PROVE  KeepsFirst(i, appliedLast[i])
    <2> DEFINE e == [term |-> currentTerm[j], cmd |-> c]
    <2>1. i = j
        BY <1>l, <1>2 DEF Start
    <2>2. log'[i] = Append(log[i], e)
        BY <1>l, <1>2, <2>1 DEF Start
    <2>3. e \in Entry
        BY <1>l DEF Entry
    <2> HIDE DEF e
    <2> QED
        BY <1>l, <1>p, <2>2, <2>3 DEF KeepsFirst
<1>3. CASE log'[i] # log[i]
    <2>1. ASSUME NEW j \in Server, NEW m \in DOMAIN net, Receive(j, m)
          PROVE  KeepsFirst(i, appliedLast[i])
        <3>1. AppendEntries(j, m) /\ m.to = j
            BY <1>3, <2>1 DEF Receive, RequestVote, sendRequestVote, sendAppendEntries
        <3>2. i = j
            BY <1>l, <1>3, <3>1 DEF AppendEntries, AcceptEntries
        <3>3. PICK new : Voted(votes, new)
            BY <1>t, VotesNext DEF Voted
        <3>4. CopyStep
            BY <1>3 DEF vars
        <3> QED
            BY <1>3, <3>1, <3>2, <3>3, <3>4, AcceptKeeps
    <2>2. ASSUME NEW j \in Server, Ticker(j) PROVE FALSE
        BY <1>3, <2>2 DEF Ticker, FollowerTimeout, TickCandidate, CandidateWin, CandidateBackOff,
                          TickLeader
    <2>3. ASSUME NEW j \in Server,
                 ElectionGoroutine(j) \/ broadcastHeartbeat(j) \/ LeaderPersist(j) \/ Apply(j)
          PROVE  FALSE
        BY <1>3, <2>3 DEF ElectionGoroutine, broadcastHeartbeat, LeaderPersist, Apply
    <2>4. ASSUME NEW m \in DOMAIN net, Lose(m) PROVE FALSE
        BY <1>3, <2>4 DEF Lose
    <2>5. CASE UNCHANGED vars
        BY <1>3, <2>5 DEF vars
    <2>6. ASSUME NEW j \in Server, Restart(j) PROVE FALSE
        <3>1. i = j
            BY <1>l, <1>3, <2>6 DEF Restart, readPersist
        <3>2. restarts'[i] = restarts[i] + 1
            BY <1>l, <2>6, <3>1 DEF Restart
        <3> QED
            BY <1>l, <3>2
    <2>7. ASSUME NEW m \in DOMAIN net, SendCopy(m) PROVE FALSE
        BY <1>3, <2>7 DEF SendCopy
    <2> QED
        BY <1>2, <1>3, <2>1, <2>2, <2>3, <2>4, <2>5, <2>6, <2>7 DEF Next, Step
<1> QED
    BY <1>1, <1>3

-------------------------------------------------------------------------------------
(* The theorems. Each holds for every set of servers and commands, every bound and     *)
(* every schedule that keeps the five conditions.                                     *)

LEMMA AlwaysSafe ==
    ASSUME "election" \in Prompt, InOrder
    PROVE  Spec /\ VotesSurvive /\ CopiesInTime /\ MatchesWithin => []SafeInv
<1>1. Init => SafeInv
    BY SafeInit DEF SafeInv
<1>2. SafeInv /\ [Next]_vars /\ [SurvivesStep]_vars /\ [MatchStep]_vars /\ [CopyStep]_vars
        => SafeInv'
    <2> SUFFICES ASSUME SafeInv, [Next]_vars, [SurvivesStep]_vars, [MatchStep]_vars,
                        [CopyStep]_vars
                 PROVE  SafeInv'
        OBVIOUS
    <2>1. PICK votes : Safe(votes)
        BY DEF SafeInv
    <2> QED
        BY <2>1, SafeNext DEF SafeInv
<1> QED
    BY <1>1, <1>2, PTL DEF Spec, VotesSurvive, CopiesInTime, MatchesWithin

\* checkLogs and applier of config.go never find anything to complain of: whatever is lost,
\* late or restarted, no two servers and no two lives of a server apply different entries
\* at an index, and none skips an index.
THEOREM NoForkedService ==
    ASSUME "election" \in Prompt, InOrder
    PROVE  Spec /\ VotesSurvive /\ CopiesInTime /\ MatchesWithin => []StateMachineSafety
<1>1. SafeInv => StateMachineSafety
    BY SafeStateMachine DEF SafeInv
<1> QED
    BY <1>1, AlwaysSafe, PTL

\* An entry that raft.go has sent on an applyCh is never lost: a majority has it in its
\* log, and so has every leader whose term nobody has passed.
THEOREM AppliedIsNeverLost ==
    ASSUME "election" \in Prompt, InOrder
    PROVE  Spec /\ VotesSurvive /\ CopiesInTime /\ MatchesWithin => []AppliedSurvives
<1>1. SafeInv => AppliedSurvives
    BY SafeHeld, SafeLeader DEF SafeInv, AppliedSurvives
<1> QED
    BY <1>1, AlwaysSafe, PTL

\* Neither the broadcast goroutine nor the apply goroutine of raft.go indexes rf.log out of
\* range: the commit index never passes the end of the log it is used with.
THEOREM NoIndexOutOfRange ==
    ASSUME "election" \in Prompt, InOrder
    PROVE  Spec /\ VotesSurvive /\ CopiesInTime /\ MatchesWithin => []IndicesInRange
<1>1. SafeInv => IndicesInRange
    BY SafeIndices DEF SafeInv
<1> QED
    BY <1>1, AlwaysSafe, PTL

\* AppendEntries cuts the log after PrevLogIdx whatever follows, but never what the server
\* has applied; and a leader only appends.
THEOREM AppliedIsKept ==
    ASSUME "election" \in Prompt, InOrder
    PROVE  Spec /\ VotesSurvive /\ CopiesInTime /\ MatchesWithin => LogsKept
<1>1. SafeInv /\ [Next]_vars /\ [SurvivesStep]_vars /\ [CopyStep]_vars =>
        [\A i \in Server : /\ restarts'[i] = restarts[i] => KeepsFirst(i, appliedLast[i])
                           /\ OnlyAppends(i)]_vars
    <2> SUFFICES ASSUME SafeInv, [Next]_vars, [SurvivesStep]_vars, [CopyStep]_vars, NEW i \in Server
                 PROVE  /\ restarts'[i] = restarts[i] => KeepsFirst(i, appliedLast[i])
                        /\ OnlyAppends(i)
        OBVIOUS
    <2>1. PICK votes : Safe(votes)
        BY DEF SafeInv
    <2>2. Inv
        BY <2>1 DEF Safe, Inv
    <2> QED
        BY <2>1, <2>2, KeepsApplied, LeaderAppendsNext
<1> QED
    BY <1>1, AlwaysSafe, PTL DEF Spec, VotesSurvive, CopiesInTime, LogsKept

-------------------------------------------------------------------------------------
(* The cluster implements ReplicatedLog.                                              *)

\* The agreed log of a set of deliveries, of which an index has one entry.
AgreedOf(S) ==
    [k \in 1 .. Cardinality({x[1] : x \in S}) |-> (CHOOSE x \in S : x[1] = k)[2]]
Single(S) == S \subseteq Nat \X Entry /\ \A x, y \in S : x[1] = y[1] => x[2] = y[2]

LEMMA AgreedAt ==
    ASSUME NEW S, Single(S), NEW n \in Nat, UpTo(S, n)
    PROVE  /\ AgreedOf(S) \in Seq(Entry) /\ Len(AgreedOf(S)) = n
           /\ \A x \in S : x[1] \in 1 .. n /\ AgreedOf(S)[x[1]] = x[2]
<1>1. {x[1] : x \in S} = 1 .. n
    BY DEF UpTo
<1>2. Cardinality(1 .. n) = n
    BY FS_Interval
<1> DEFINE f == [k \in 1 .. n |-> (CHOOSE x \in S : x[1] = k)[2]]
<1>3. AgreedOf(S) = f
    BY <1>1, <1>2 DEF AgreedOf
<1>4. ASSUME NEW k \in 1 .. n PROVE f[k] \in Entry /\ \A x \in S : x[1] = k => f[k] = x[2]
    <2>1. \E x \in S : x[1] = k
        BY DEF UpTo
    <2> DEFINE y == CHOOSE x \in S : x[1] = k
    <2>2. y \in S /\ y[1] = k
        BY <2>1
    <2>3. f[k] = y[2]
        OBVIOUS
    <2> HIDE DEF y, f
    <2>4. y[2] \in Entry
        BY <2>2 DEF Single
    <2> QED
        BY <2>2, <2>3, <2>4 DEF Single
<1>5. f \in [1 .. n -> Entry]
    BY <1>4
<1> HIDE DEF f
<1>6. f \in Seq(Entry) /\ Len(f) = n
    BY <1>5
<1>7. \A x \in S : x[1] \in 1 .. n /\ f[x[1]] = x[2]
    BY <1>4 DEF UpTo
<1> QED
    BY <1>3, <1>6, <1>7

\* More deliveries extend the agreed log.
LEMMA AgreedGrows ==
    ASSUME NEW S, Single(S), NEW n \in Nat, UpTo(S, n),
           NEW R, Single(R), NEW r \in Nat, UpTo(R, r), S \subseteq R
    PROVE  Replicated!IsPrefix(AgreedOf(S), AgreedOf(R))
<1>1. /\ AgreedOf(S) \in Seq(Entry) /\ Len(AgreedOf(S)) = n
      /\ \A x \in S : x[1] \in 1 .. n /\ AgreedOf(S)[x[1]] = x[2]
    BY AgreedAt
<1>2. /\ AgreedOf(R) \in Seq(Entry) /\ Len(AgreedOf(R)) = r
      /\ \A x \in R : x[1] \in 1 .. r /\ AgreedOf(R)[x[1]] = x[2]
    BY AgreedAt
<1>3. n <= r
    <2>1. CASE n = 0
        BY <2>1
    <2>2. CASE n # 0
        <3>1. n \in 1 .. n
            BY <2>2
        <3>2. PICK x \in S : x[1] = n
            BY <3>1 DEF UpTo
        <3> QED
            BY <1>2, <3>2
    <2> QED
        BY <2>1, <2>2
<1>4. \A k \in 1 .. n : AgreedOf(S)[k] = AgreedOf(R)[k]
    <2> TAKE k \in 1 .. n
    <2>1. PICK x \in S : x[1] = k
        BY DEF UpTo
    <2> QED
        BY <1>1, <1>2, <2>1
<1> DEFINE a == AgreedOf(S)
           b == AgreedOf(R)
<1>5. a \in Seq(Entry) /\ b \in Seq(Entry) /\ Len(a) = n /\ Len(b) = r /\ \A k \in 1 .. n : a[k] = b[k]
    BY <1>1, <1>2, <1>4
<1> HIDE DEF a, b
<1>6. Len(a) <= Len(b) /\ SubSeq(a, 1, Len(a)) = SubSeq(b, 1, Len(a))
    BY ONLY n \in Nat, r \in Nat, <1>3, <1>5
<1> QED
    BY <1>6 DEF Replicated!IsPrefix, a, b

\* What the services were given so far.
DeliveredInOrder ==
    /\ TypeOK /\ Single(AllOf(logs)) /\ \E n \in Nat : UpTo(AllOf(logs), n)
    /\ \A i \in Server :
        /\ appliedLast[i] <= commitIdx[i]
        /\ \E n \in Nat : appliedLast[i] <= n /\ UpTo(logs[i], n)

LEMMA SafeDelivers == ASSUME NEW votes, Safe(votes) PROVE DeliveredInOrder
<1>1. TypeOK
    BY DEF Safe
<1>2. StateMachineSafety
    BY SafeStateMachine
<1>3. Delivered = AllOf(logs) /\ Delivered \subseteq Nat \X Entry
    BY <1>1 DEF Delivered, AllOf, TypeOK
<1>4. Single(AllOf(logs))
    BY <1>2, <1>3 DEF Single, StateMachineSafety
<1>5. PICK won, master, acks : AppliedTrue(commitIdx, appliedLast, logs, master, acks)
    BY DEF Safe, AckInv
<1> QED
    BY <1>1, <1>4, <1>5 DEF DeliveredInOrder, AppliedTrue

LEMMA AgreedIs == Agreed = AgreedOf(AllOf(logs)) /\ Agreed' = AgreedOf(AllOf(logs'))
<1>1. Agreed = AgreedOf(AllOf(logs))
    BY DEF Agreed, AgreedOf, AllOf, Delivered
<1>2. Agreed' = AgreedOf(AllOf(logs'))
    BY DEF Agreed, AgreedOf, AllOf, Delivered
<1> QED
    BY <1>1, <1>2

\* The apply goroutine hands over what the agreed log has at those indices.
LEMMA ApplyDelivers ==
    ASSUME DeliveredInOrder, DeliveredInOrder', NEW i \in Server, Apply(i)
    PROVE  Replicated!Deliver(i)
<1>t. /\ appliedLast \in [Server -> Nat] /\ commitIdx[i] \in Nat /\ appliedLast[i] \in Nat
      /\ logs \in [Server -> SUBSET (Nat \X Entry)]
    BY DEF DeliveredInOrder, TypeOK
<1> DEFINE p == appliedLast[i]
           c == commitIdx[i]
           N == {<<k, log[i][k]>> : k \in p + 1 .. c}
<1>1. /\ logs' = [logs EXCEPT ![i] = logs[i] \cup N]
      /\ appliedLast' = [appliedLast EXCEPT ![i] = c]
    BY DEF Apply
<1>2. appliedLast'[i] = c /\ logs'[i] = logs[i] \cup N /\ \A j \in Server : logs[j] \subseteq logs'[j]
    BY <1>t, <1>1
<1>3. AllOf(logs) \subseteq AllOf(logs')
    BY <1>2 DEF AllOf
<1>4. PICK n \in Nat : UpTo(AllOf(logs), n)
    BY DEF DeliveredInOrder
<1>5. PICK r \in Nat : UpTo(AllOf(logs'), r)
    BY DEF DeliveredInOrder
<1>6. Single(AllOf(logs)) /\ Single(AllOf(logs'))
    BY DEF DeliveredInOrder
<1>7. Replicated!IsPrefix(Agreed, Agreed')
    BY <1>3, <1>4, <1>5, <1>6, AgreedGrows, AgreedIs
<1>8. /\ Len(Agreed') = r
      /\ \A x \in AllOf(logs') : x[1] \in 1 .. r /\ Agreed'[x[1]] = x[2]
    BY <1>5, <1>6, AgreedAt, AgreedIs
<1>9. \A k \in p + 1 .. c : k \in 1 .. r /\ Agreed'[k] = log[i][k]
    <2> TAKE k \in p + 1 .. c
    <2>1. PICK x : x = <<k, log[i][k]>>
        OBVIOUS
    <2>2. x[1] = k /\ x[2] = log[i][k]
        BY ONLY <2>1
    <2>3. x \in AllOf(logs')
        BY <1>2, <2>1 DEF AllOf
    <2>4. x[1] \in 1 .. r /\ Agreed'[x[1]] = x[2]
        BY ONLY <1>8, <2>3
    <2> QED
        BY ONLY <2>2, <2>4
<1>10. N = {<<k, Agreed'[k]>> : k \in p + 1 .. c}
    BY <1>9
<1>11. p <= c /\ c <= r
    <2>1. p <= c
        BY DEF DeliveredInOrder
    <2>2. CASE c = 0
        BY ONLY r \in Nat, <2>1, <2>2
    <2>3. CASE c # 0
        <3>1. PICK q \in Nat : c <= q /\ UpTo(logs'[i], q)
            BY <1>2 DEF DeliveredInOrder
        <3>2. c \in 1 .. q
            BY <1>t, <2>3, <3>1
        <3>3. PICK x \in logs'[i] : x[1] = c
            BY <3>1, <3>2 DEF UpTo
        <3>4. x \in AllOf(logs')
            BY <3>3 DEF AllOf
        <3> QED
            BY <1>8, <2>1, <3>3, <3>4
    <2> QED
        BY <2>1, <2>2, <2>3
<1> HIDE DEF N
<1>12. c \in p .. r
    BY <1>t, <1>11
<1>13. /\ appliedLast'[i] \in appliedLast[i] .. Len(Agreed')
       /\ appliedLast' = [appliedLast EXCEPT ![i] = appliedLast'[i]]
    BY <1>1, <1>2, <1>8, <1>12
<1>14. logs' = [logs EXCEPT ![i] = logs[i] \cup
                {<<k, Agreed'[k]>> : k \in appliedLast[i] + 1 .. appliedLast'[i]}]
    BY <1>1, <1>2, <1>10
<1> QED
    BY <1>7, <1>13, <1>14 DEF Replicated!Deliver

LEMMA ReplicatedStep ==
    ASSUME DeliveredInOrder, DeliveredInOrder', [Next]_vars
    PROVE  [Replicated!Next]_(Replicated!vars)
<1> USE DEF applyVars
<1>1. CASE UNCHANGED <<appliedLast, logs>>
    <2>1. UNCHANGED Agreed
        BY <1>1, AgreedIs
    <2> QED
        BY <1>1, <2>1 DEF Replicated!vars
<1>2. ASSUME NEW i \in Server, Apply(i) PROVE Replicated!Next
    BY <1>2, ApplyDelivers DEF Replicated!Next
<1>3. ASSUME NEW i \in Server, Restart(i) PROVE Replicated!Next
    <2>1. appliedLast' = [appliedLast EXCEPT ![i] = 0] /\ UNCHANGED logs
        BY <1>3 DEF Restart
    <2>2. UNCHANGED Agreed
        BY <2>1, AgreedIs
    <2> QED
        BY <2>1, <2>2 DEF Replicated!Next, Replicated!Restart
<1>4. ASSUME NEW i \in Server, NEW m \in DOMAIN net, Receive(i, m)
      PROVE  UNCHANGED <<appliedLast, logs>>
    BY <1>4 DEF Receive, RequestVote, sendRequestVote, AppendEntries, sendAppendEntries
<1>5. ASSUME NEW i \in Server, Ticker(i) PROVE UNCHANGED <<appliedLast, logs>>
    BY <1>5 DEF Ticker, FollowerTimeout, TickCandidate, CandidateWin, CandidateBackOff, TickLeader
<1>6. ASSUME NEW i \in Server, ElectionGoroutine(i) \/ broadcastHeartbeat(i) \/ LeaderPersist(i)
      PROVE  UNCHANGED <<appliedLast, logs>>
    BY <1>6 DEF ElectionGoroutine, broadcastHeartbeat, LeaderPersist
<1>7. ASSUME NEW i \in Server, NEW c \in Command, Start(i, c) PROVE UNCHANGED <<appliedLast, logs>>
    BY <1>7 DEF Start
<1>8. ASSUME NEW m \in DOMAIN net, Lose(m) PROVE UNCHANGED <<appliedLast, logs>>
    BY <1>8 DEF Lose
<1>9. CASE UNCHANGED vars
    BY <1>1, <1>9 DEF vars
<1>10. ASSUME NEW m \in DOMAIN net, SendCopy(m) PROVE UNCHANGED <<appliedLast, logs>>
    BY <1>10 DEF SendCopy
<1> QED
    BY <1>1, <1>2, <1>3, <1>4, <1>5, <1>6, <1>7, <1>8, <1>9, <1>10
       DEF Next, Step

LEMMA ReplicatedInit == Init => Replicated!Init
<1> SUFFICES ASSUME Init PROVE Replicated!Init
    OBVIOUS
<1>1. appliedLast = [i \in Server |-> 0] /\ logs = [i \in Server |-> {}]
    BY DEF Init
<1>2. AllOf(logs) = {}
    BY <1>1 DEF AllOf
<1>3. Single({}) /\ UpTo({}, 0)
    BY DEF Single, UpTo
<1>4. AgreedOf({}) \in Seq(Entry) /\ Len(AgreedOf({})) = 0
    BY <1>3, AgreedAt
<1>5. Agreed = <<>>
    BY <1>2, <1>4, AgreedIs
<1> QED
    BY <1>1, <1>5 DEF Replicated!Init

\* The cluster is one log that only grows: Apply hands over the next agreed entries of its
\* server, Restart begins again with the first one, and nothing else that the servers, the
\* network or the tester do is visible to a service.
THEOREM ImplementsReplicatedLog ==
    ASSUME "election" \in Prompt, InOrder
    PROVE  Spec /\ VotesSurvive /\ CopiesInTime /\ MatchesWithin => IsReplicatedLog
<1>1. Init => Replicated!Init
    BY ReplicatedInit
<1>2. SafeInv => DeliveredInOrder
    BY SafeDelivers DEF SafeInv
<1>3. DeliveredInOrder /\ DeliveredInOrder' /\ [Next]_vars => [Replicated!Next]_(Replicated!vars)
    BY ReplicatedStep
<1> QED
    BY <1>1, <1>2, <1>3, AlwaysSafe, PTL DEF Spec, IsReplicatedLog, Replicated!Spec

-------------------------------------------------------------------------------------
(* The tester.                                                                       *)

\* Whoever told the sweep that it leads was elected.
Seen(votes, leaders) ==
    \A x \in leaders : \E t \in Nat, i \in Server :
        x = <<t, i>> /\ Majority(Cardinality(Voters(votes, t, i)))

\* one returned because some service was given its command.
ReturnedOwn ==
    one.pc = "returned" =>
        \E x \in Delivered : x[1] = one.index /\ <<x[2].term, x[1]>> \in one.mine

TesterSafe(votes) ==
    /\ Safe(votes) /\ Seen(votes, sweep.leaders) /\ ReturnedOwn
    /\ one = [pc |-> one.pc, index |-> one.index, mine |-> one.mine]
    /\ sweep = [left |-> sweep.left, leaders |-> sweep.leaders]
TesterInv == \E votes : TesterSafe(votes)

\* What the applier goroutines have recorded stays recorded.
LEMMA DeliveredGrows ==
    ASSUME TypeOK, [Next]_vars PROVE Delivered \subseteq Delivered'
<1> USE DEF applyVars
<1>1. CASE UNCHANGED logs
    BY <1>1 DEF Delivered
<1>2. ASSUME NEW i \in Server, Apply(i) PROVE Delivered \subseteq Delivered'
    <2>1. \A j \in Server : logs[j] \subseteq logs'[j]
        BY <1>2 DEF Apply, TypeOK
    <2> QED
        BY <2>1 DEF Delivered
<1>3. ASSUME NEW i \in Server, Restart(i) PROVE UNCHANGED logs
    BY <1>3 DEF Restart
<1>4. ASSUME NEW i \in Server, NEW m \in DOMAIN net, Receive(i, m) PROVE UNCHANGED logs
    BY <1>4 DEF Receive, RequestVote, sendRequestVote, AppendEntries, sendAppendEntries
<1>5. ASSUME NEW i \in Server, Ticker(i) PROVE UNCHANGED logs
    BY <1>5 DEF Ticker, FollowerTimeout, TickCandidate, CandidateWin, CandidateBackOff, TickLeader
<1>6. ASSUME NEW i \in Server, ElectionGoroutine(i) \/ broadcastHeartbeat(i) \/ LeaderPersist(i)
      PROVE  UNCHANGED logs
    BY <1>6 DEF ElectionGoroutine, broadcastHeartbeat, LeaderPersist
<1>7. ASSUME NEW i \in Server, NEW c \in Command, Start(i, c) PROVE UNCHANGED logs
    BY <1>7 DEF Start
<1>8. ASSUME NEW m \in DOMAIN net, Lose(m) PROVE UNCHANGED logs
    BY <1>8 DEF Lose
<1>9. CASE UNCHANGED vars
    BY <1>1, <1>9 DEF vars
<1>10. ASSUME NEW m \in DOMAIN net, SendCopy(m) PROVE UNCHANGED logs
    BY <1>10 DEF SendCopy
<1> QED
    BY <1>1, <1>2, <1>3, <1>4, <1>5, <1>6, <1>7, <1>8, <1>9, <1>10
       DEF Next, Step

\* To the servers, the tester is a service: what it does to them is a call of Start.
LEMMA TesterSteps ==
    ASSUME [TesterNext]_<<vars, testerVars>>
    PROVE  /\ [Next]_vars
           /\ \/ UNCHANGED one
              \/ one'.pc = "waiting" /\ one' = [pc |-> one'.pc, index |-> one'.index, mine |-> one'.mine]
              \/ OneReturns \/ OneGivesUp \/ OneFails
           /\ UNCHANGED sweep \/ (\E i \in Server : AskLeader(i)) \/ SweepAgain
<1>1. CASE Next /\ UNCHANGED testerVars
    BY <1>1 DEF testerVars
<1>2. ASSUME NEW i \in Server, OneSubmits(i), Quiet, UNCHANGED scope
      PROVE  /\ Next /\ UNCHANGED sweep /\ one'.pc = "waiting"
             /\ one' = [pc |-> one'.pc, index |-> one'.index, mine |-> one'.mine]
    <2>1. Step
        BY <1>2 DEF OneSubmits, Step
    <2> QED
        BY <1>2, <2>1 DEF OneSubmits, Next
<1>3. CASE OneReturns \/ OneGivesUp \/ OneFails
    BY <1>3 DEF OneReturns, OneGivesUp, OneFails
<1>4. CASE (\E i \in Server : AskLeader(i)) \/ SweepAgain
    BY <1>4 DEF AskLeader, SweepAgain
<1>5. CASE UNCHANGED <<vars, testerVars>>
    BY <1>5 DEF testerVars
<1> QED
    BY <1>1, <1>2, <1>3, <1>4, <1>5 DEF TesterNext

LEMMA SeenKept ==
    ASSUME NEW votes, NEW new, Grows(votes, new), NEW S, Seen(votes, S) PROVE Seen(new, S)
<1> SUFFICES ASSUME NEW x \in S
             PROVE  \E t \in Nat, i \in Server :
                        x = <<t, i>> /\ Majority(Cardinality(Voters(new, t, i)))
    BY DEF Seen
<1>1. PICK t \in Nat, i \in Server : x = <<t, i>> /\ Majority(Cardinality(Voters(votes, t, i)))
    BY DEF Seen
<1>2. Majority(Cardinality(Voters(new, t, i)))
    BY <1>1, VotersGrow, MajorityGrows
<1> QED
    BY <1>1, <1>2

LEMMA TesterNextSafe ==
    ASSUME "election" \in Prompt, InOrder, NEW votes, TesterSafe(votes),
           [TesterNext]_<<vars, testerVars>>, [SurvivesStep]_vars, [MatchStep]_vars,
           [CopyStep]_vars
    PROVE  \E new : TesterSafe(new)'
<1>1. /\ [Next]_vars
      /\ \/ UNCHANGED one
         \/ one'.pc = "waiting" /\ one' = [pc |-> one'.pc, index |-> one'.index, mine |-> one'.mine]
         \/ OneReturns \/ OneGivesUp \/ OneFails
      /\ UNCHANGED sweep \/ (\E i \in Server : AskLeader(i)) \/ SweepAgain
    BY TesterSteps
<1>2. PICK new : Grows(votes, new) /\ Safe(new)'
    BY <1>1, SafeNext DEF TesterSafe
<1>3. Delivered \subseteq Delivered'
    BY <1>1, DeliveredGrows DEF TesterSafe, Safe
<1>4. one' = [pc |-> one'.pc, index |-> one'.index, mine |-> one'.mine]
    <2>1. CASE OneReturns \/ OneGivesUp \/ OneFails
        <3>1. PICK v : one' = [one EXCEPT !.pc = v]
            BY <2>1 DEF OneReturns, OneGivesUp, OneFails
        <3>2. one = [pc |-> one.pc, index |-> one.index, mine |-> one.mine]
            BY DEF TesterSafe
        <3> QED
            BY ONLY <3>1, <3>2
    <2>2. CASE UNCHANGED one
        BY <2>2 DEF TesterSafe
    <2> QED
        BY <1>1, <2>1, <2>2
<1>5. ReturnedOwn'
    <2>1. CASE UNCHANGED one
        BY <1>3, <2>1 DEF TesterSafe, ReturnedOwn
    <2>2. CASE one'.pc = "waiting"
        BY <2>2 DEF ReturnedOwn
    <2>3. CASE OneReturns
        <3>1. one' = [one EXCEPT !.pc = "returned"] /\ OwnCommand(one.index)
            BY <2>3 DEF OneReturns
        <3>2. one'.index = one.index /\ one'.mine = one.mine
            <4>1. one = [pc |-> one.pc, index |-> one.index, mine |-> one.mine]
                BY DEF TesterSafe
            <4> QED
                BY ONLY <3>1, <4>1
        <3>3. PICK x \in Delivered : x[1] = one.index /\ <<x[2].term, one.index>> \in one.mine
            BY <3>1 DEF OwnCommand
        <3> QED
            BY <1>3, <3>2, <3>3 DEF ReturnedOwn
    <2>4. CASE OneGivesUp \/ OneFails
        <3>1. PICK v \in {"trying", "failed"} : one' = [one EXCEPT !.pc = v]
            BY <2>4 DEF OneGivesUp, OneFails
        <3>2. one = [pc |-> one.pc, index |-> one.index, mine |-> one.mine]
            BY DEF TesterSafe
        <3>3. one'.pc = v
            BY ONLY <3>1, <3>2
        <3> QED
            BY <3>3 DEF ReturnedOwn
    <2> QED
        BY <1>1, <2>1, <2>2, <2>3, <2>4
<1>6. sweep = [left |-> sweep.left, leaders |-> sweep.leaders] /\ Seen(votes, sweep.leaders)
    BY DEF TesterSafe
<1>7. /\ sweep' = [left |-> sweep'.left, leaders |-> sweep'.leaders]
      /\ sweep'.leaders = sweep.leaders \/ \E i \in Server :
            state[i] = LEADER /\ sweep'.leaders = sweep.leaders \cup {<<currentTerm[i], i>>}
    <2>1. CASE UNCHANGED sweep
        BY <1>6, <2>1
    <2>2. CASE SweepAgain
        <3>1. PICK v : sweep' = [sweep EXCEPT !.left = v]
            BY <2>2 DEF SweepAgain
        <3> QED
            BY ONLY <1>6, <3>1
    <2>3. ASSUME NEW i \in Server, AskLeader(i)
          PROVE  /\ sweep' = [left |-> sweep'.left, leaders |-> sweep'.leaders]
                 /\ \/ sweep'.leaders = sweep.leaders
                    \/ state[i] = LEADER /\ sweep'.leaders = sweep.leaders \cup {<<currentTerm[i], i>>}
        BY <2>3 DEF AskLeader, GetState
    <2> QED
        BY <1>1, <2>1, <2>2, <2>3
<1>8. Seen(votes, sweep'.leaders)
    <2>1. CASE sweep'.leaders = sweep.leaders
        BY <1>6, <2>1
    <2>2. ASSUME NEW i \in Server, state[i] = LEADER,
                 sweep'.leaders = sweep.leaders \cup {<<currentTerm[i], i>>}
          PROVE  Seen(votes, sweep'.leaders)
        <3>1. currentTerm[i] \in Nat
            BY DEF TesterSafe, Safe, TypeOK
        <3>2. Majority(Cardinality(Voters(votes, currentTerm[i], i)))
            BY <2>2 DEF TesterSafe, Safe, VoteInv, LeadersElected
        <3> QED
            BY <1>6, <2>2, <3>1, <3>2 DEF Seen
    <2> QED
        BY <1>7, <2>1, <2>2
<1>9. Seen(new, sweep'.leaders)
    BY <1>2, <1>8, SeenKept
<1> QED
    BY <1>2, <1>4, <1>5, <1>7, <1>9 DEF TesterSafe

LEMMA TesterSafeSatisfied == ASSUME NEW votes, TesterSafe(votes) PROVE TesterSatisfied
<1>1. ReturnedIsFinal
    <2> SUFFICES ASSUME one.pc = "returned", NEW y \in Delivered, y[1] = one.index
                 PROVE  <<y[2].term, y[1]>> \in one.mine
        BY DEF ReturnedIsFinal
    <2>1. PICK x \in Delivered : x[1] = one.index /\ <<x[2].term, x[1]>> \in one.mine
        BY DEF TesterSafe, ReturnedOwn
    <2>2. StateMachineSafety
        BY SafeStateMachine DEF TesterSafe
    <2>3. x[2] = y[2]
        BY <2>1, <2>2 DEF StateMachineSafety
    <2> QED
        BY <2>1, <2>3
<1>2. OneLeaderSeen
    <2> SUFFICES ASSUME NEW x \in sweep.leaders, NEW y \in sweep.leaders, x[1] = y[1] PROVE x = y
        BY DEF OneLeaderSeen
    <2>1. PICK t \in Nat, i \in Server : x = <<t, i>> /\ Majority(Cardinality(Voters(votes, t, i)))
        BY DEF TesterSafe, Seen
    <2>2. PICK u \in Nat, j \in Server : y = <<u, j>> /\ Majority(Cardinality(Voters(votes, u, j)))
        BY DEF TesterSafe, Seen
    <2>3. t = u
        BY <2>1, <2>2
    <2>4. Voters(votes, t, i) \in SUBSET Server /\ Voters(votes, t, j) \in SUBSET Server
        BY DEF Voters
    <2>5. PICK k \in Server : k \in Voters(votes, t, i) /\ k \in Voters(votes, t, j)
        BY <2>1, <2>2, <2>3, <2>4, MajoritiesMeet
    <2> QED
        BY <2>1, <2>2, <2>3, <2>5 DEF Voters
<1> QED
    BY <1>1, <1>2 DEF TesterSatisfied

\* The tester of config.go is right to trust what it has seen: an index that one returned
\* keeps its command for ever, on every server and through every restart; and the sweep of
\* checkOneLeader, which asks one server after the other, never collects two leaders of
\* one term.
THEOREM TesterIsSatisfied ==
    ASSUME "election" \in Prompt, InOrder
    PROVE  TesterSpec /\ VotesSurvive /\ CopiesInTime /\ MatchesWithin => []TesterSatisfied
<1>1. TesterInit => TesterInv
    <2> SUFFICES ASSUME TesterInit PROVE TesterInv
        OBVIOUS
    <2>1. PICK votes : Safe(votes)
        BY SafeInit DEF TesterInit
    <2>2. one.pc # "returned" /\ one = [pc |-> one.pc, index |-> one.index, mine |-> one.mine]
        BY DEF TesterInit
    <2>3. sweep.leaders = {} /\ sweep = [left |-> sweep.left, leaders |-> sweep.leaders]
        BY DEF TesterInit
    <2> QED
        BY <2>1, <2>2, <2>3 DEF TesterInv, TesterSafe, Seen, ReturnedOwn
<1>2. TesterInv /\ [TesterNext]_<<vars, testerVars>> /\ [SurvivesStep]_vars /\ [MatchStep]_vars
        /\ [CopyStep]_vars => TesterInv'
    <2> SUFFICES ASSUME TesterInv, [TesterNext]_<<vars, testerVars>>, [SurvivesStep]_vars,
                        [MatchStep]_vars, [CopyStep]_vars
                 PROVE  TesterInv'
        OBVIOUS
    <2>1. PICK votes : TesterSafe(votes)
        BY DEF TesterInv
    <2> QED
        BY <2>1, TesterNextSafe DEF TesterInv
<1>3. TesterInv => TesterSatisfied
    BY TesterSafeSatisfied DEF TesterInv
<1> QED
    BY <1>1, <1>2, <1>3, PTL DEF TesterSpec, VotesSurvive, CopiesInTime, MatchesWithin
=====================================================================================
