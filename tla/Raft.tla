------------------------------------ MODULE Raft ------------------------------------
(***********************************************************************************)
(* The Raft peer of lab3/raft/raft.go, run by the tester of lab3/raft/config.go    *)
(* over the network of lab3/labrpc.                                                *)
(*                                                                                 *)
(* One action is one critical section of rf.mu together with the channel operation *)
(* or the wait that leads to it: the ticker goroutine's steps, the election,       *)
(* broadcast and apply goroutines it and the handlers spawn, the two RPC handlers, *)
(* the code that runs when an RPC returns, Start, and a crash with its restart.    *)
(* Timers are nondeterministic: a select may always take its time.After branch. A  *)
(* token of cHeartbeat makes the ticker do nothing (FOLLOWER) or what the timer    *)
(* makes it do (CANDIDATE), so this module needs no cHeartbeat.                    *)
(*                                                                                 *)
(* A log is the slice rf.log without the dummy element that Make puts at position  *)
(* 0, so baseIdx is 0 and LogElement.Index is the element's position.              *)
(*                                                                                 *)
(* Some definitions are preceded by one that Next does not use: the same operation *)
(* with a plausible mistake. PROJECT.json pairs each with a property that, checked *)
(* with the mistake in place, fails.                                               *)
(***********************************************************************************)
EXTENDS Integers, Sequences, FiniteSets, FiniteSetsExt, Bags

CONSTANTS
    Server,          \* the peers
    Command,         \* what the service asks Raft to agree on
    Nil,             \* votedFor = -1
    Scopes,          \* the bounds a behaviour may be held to, by name
    MaxElections,    \* bound: election goroutines of a server that wait for the lock
    MaxBroadcasts,   \* bound: broadcast goroutines of a server that wait for the lock
    ChanCap,         \* capacity of cWinElection (1000 in Make)
    Prompt,          \* the kinds of goroutine that run as soon as they are spawned
    InOrder          \* a round of AppendEntries is over before the next one leaves

ASSUME NilAssumption == Nil \notin Server
ASSUME ServerAssumption == IsFiniteSet(Server) /\ Server # {}
ASSUME BoundAssumption ==
    /\ MaxElections \in Nat /\ MaxBroadcasts \in Nat
    /\ ChanCap \in Nat \ {0}
ASSUME ModeAssumption ==
    Prompt \subseteq {"election", "broadcast", "send", "apply"} /\ InOrder \in BOOLEAN

FOLLOWER == "follower"
CANDIDATE == "candidate"
LEADER == "leader"

VARIABLES
    \* The fields of struct Raft, each a function of the server.
    currentTerm, votedFor, log, state, numVotesReceived, commitIdx, appliedLast,
    nextIdx, matchIdx,
    \* Tokens in the channel that tells the ticker of a won election.
    cWinElection,
    \* Where the ticker is: at the top of its loop, in the candidate's select, or
    \* between the unlock and the second lock of the LEADER case.
    pc,
    \* Goroutines that have been spawned and have not taken the lock yet.
    electing, broadcasting, applying,
    \* The Persister's contents, and how often the tester restarted the server.
    disk, restarts,
    \* The calls in flight, those included whose goroutine has not copied its arguments.
    net,
    \* cfg.logs of the tester: what each server, in any of its lives, sent on its
    \* applyCh, as pairs of an index and an entry. An applier goroutine records it; it
    \* only ever adds here, because a different value for an index ends the test.
    logs,
    \* The name of the bounds of this behaviour.
    scope

raftVars == <<currentTerm, votedFor, log, state, numVotesReceived>>
leaderVars == <<nextIdx, matchIdx>>
applyVars == <<commitIdx, appliedLast, applying, logs>>
tickVars == <<cWinElection, pc, electing, broadcasting>>
diskVars == <<disk, restarts>>
vars == <<raftVars, leaderVars, applyVars, tickVars, diskVars, net, scope>>

\* Which server may stand for which term, in which term a leader takes an entry for
\* which index, in which terms leaders broadcast and messages are lost, how many crashes
\* there are, and how many messages may be in flight when an election or a broadcast
\* starts.
bound == Scopes[scope]

-------------------------------------------------------------------------------------
(* Helpers.                                                                          *)

Entry == [term : Nat, cmd : Command]

\* rf.log[k].Term, the dummy element at 0 included.
TermAt(l, k) == IF k = 0 THEN 0 ELSE l[k].term
LastTerm(l) == TermAt(l, Len(l))

\* count > len(rf.peers)/2 with Go's integer division.
AtLeastHalf(n) == n >= Cardinality(Server) \div 2
Majority(n) == n > Cardinality(Server) \div 2

\* The log check of RequestVote: the candidate's log is at least as up to date.
UpToDateByLength(m, l) == m.lastIdx >= Len(l)
UpToDate(m, l) ==
    \/ m.lastTerm > LastTerm(l)
    \/ m.lastTerm = LastTerm(l) /\ m.lastIdx >= Len(l)

\* The condition under which RequestVote grants its vote, vote being votedFor after the
\* term of the call has been taken over.
GrantsAgain(m, vote, l) == UpToDate(m, l)
Grants(m, vote, l) == UpToDate(m, l) /\ vote \in {Nil, m.from}

\* persist saves the term, the vote and the log. The vote is left out: its only reader,
\* Make, replaces it by -1 before the new instance does anything (see Restart).
Saved(term, l) == [term |-> term, log |-> l]
persist(i, term, l) == disk' = [disk EXCEPT ![i] = Saved(term, l)]

\* labrpc delivers a call at most once; calls and returns overtake each other.
Send(B, msgs) == B (+) SetToBag(msgs)
Drop(B, m) == B (-) SetToBag({m})

Others(i) == Server \ {i}

-------------------------------------------------------------------------------------
(* The messages. inc is the sender's restart count: the return of a call made by an  *)
(* earlier instance of a server finds nobody waiting for it.                         *)

VoteCall(i, j) ==
    [type |-> "RequestVote", from |-> i, to |-> j, inc |-> restarts[i],
     term |-> currentTerm[i], lastIdx |-> Len(log[i]), lastTerm |-> LastTerm(log[i])]

VoteReturn(m, term, granted) ==
    [type |-> "RequestVoteReply", from |-> m.to, to |-> m.from, inc |-> m.inc,
     argTerm |-> m.term, term |-> term, granted |-> granted]

\* copied is FALSE until sendAppendEntries has replaced the slice of rf.log by a copy.
AppendCall(i, j) ==
    LET prev == nextIdx[i][j] - 1 IN
    [type |-> "AppendEntries", from |-> i, to |-> j, inc |-> restarts[i],
     term |-> currentTerm[i], prevIdx |-> prev, prevTerm |-> TermAt(log[i], prev),
     entries |-> SubSeq(log[i], prev + 1, Len(log[i])), commit |-> commitIdx[i],
     copied |-> FALSE]

\* last is the index of the last entry of the call, 0 when it carried none.
AppendReturn(m, term, success, nextTry) ==
    [type |-> "AppendEntriesReply", from |-> m.to, to |-> m.from, inc |-> m.inc,
     argTerm |-> m.term,
     last |-> IF m.entries = <<>> THEN 0 ELSE m.prevIdx + Len(m.entries),
     term |-> term, success |-> success, nextTry |-> nextTry]

Message ==
    [type : {"RequestVote"}, from : Server, to : Server, inc : Nat,
     term : Nat, lastIdx : Nat, lastTerm : Nat]
    \cup
    [type : {"RequestVoteReply"}, from : Server, to : Server, inc : Nat,
     argTerm : Nat, term : Nat, granted : BOOLEAN]
    \cup
    [type : {"AppendEntries"}, from : Server, to : Server, inc : Nat,
     term : Nat, prevIdx : Nat, prevTerm : Nat, entries : Seq(Entry), commit : Nat,
     copied : BOOLEAN]
    \cup
    [type : {"AppendEntriesReply"}, from : Server, to : Server, inc : Nat,
     argTerm : Nat, last : Nat, term : Nat, success : BOOLEAN, nextTry : Nat]

-------------------------------------------------------------------------------------
(* The ticker: one loop iteration is a step at the top of the loop, which reads the  *)
(* state under the lock, and the step its select or its sleep ends with.             *)

\* case FOLLOWER, and its timer fires. Until then the state stays FOLLOWER: only the
\* ticker leaves it. A heartbeat instead of the timer leads back here unchanged.
FollowerTimeout(i) ==
    /\ \E e \in bound.elections : e[1] = i /\ e[2] >= currentTerm[i]
    /\ pc[i] = "top" /\ state[i] = FOLLOWER
    /\ state' = [state EXCEPT ![i] = CANDIDATE]
    /\ persist(i, currentTerm[i], log[i])
    /\ UNCHANGED <<currentTerm, votedFor, log, numVotesReceived, leaderVars, applyVars,
                   tickVars, restarts, net>>

\* case CANDIDATE: open a new term and spawn the goroutine that asks for votes.
TickCandidate(i) ==
    /\ pc[i] = "top" /\ state[i] = CANDIDATE
    /\ <<i, currentTerm[i] + 1>> \in bound.elections /\ electing[i] < MaxElections
    /\ BagCardinality(net) < bound.votes
    /\ pc' = [pc EXCEPT ![i] = "candidate"]
    /\ currentTerm' = [currentTerm EXCEPT ![i] = @ + 1]
    /\ votedFor' = [votedFor EXCEPT ![i] = i]
    /\ numVotesReceived' = [numVotesReceived EXCEPT ![i] = 1]
    /\ electing' = [electing EXCEPT ![i] = @ + 1]
    /\ persist(i, currentTerm[i] + 1, log[i])
    /\ UNCHANGED <<log, state, leaderVars, applyVars, cWinElection,
                   broadcasting, restarts, net>>

\* The candidate's select: the token of a won election, possibly an old one, leaves the
\* state alone; the timer and a heartbeat both assign FOLLOWER, a leader included.
CandidateWin(i) ==
    /\ pc[i] = "candidate" /\ cWinElection[i] > 0
    /\ pc' = [pc EXCEPT ![i] = "top"]
    /\ cWinElection' = [cWinElection EXCEPT ![i] = @ - 1]
    /\ UNCHANGED <<raftVars, leaderVars, applyVars, electing, broadcasting, diskVars, net>>

CandidateBackOff(i) ==
    /\ pc[i] = "candidate"
    /\ pc' = [pc EXCEPT ![i] = "top"]
    /\ state' = [state EXCEPT ![i] = FOLLOWER]
    /\ UNCHANGED <<currentTerm, votedFor, log, numVotesReceived, leaderVars, applyVars,
                   cWinElection, electing, broadcasting, diskVars, net>>

\* case LEADER: spawn a broadcast, then lock again to persist, then sleep.
TickLeader(i) ==
    /\ pc[i] = "top" /\ state[i] = LEADER
    /\ broadcasting[i] < MaxBroadcasts /\ BagCardinality(net) < bound.appends
    /\ currentTerm[i] \in bound.rounds
    /\ pc' = [pc EXCEPT ![i] = "leader"]
    /\ broadcasting' = [broadcasting EXCEPT ![i] = @ + 1]
    /\ UNCHANGED <<raftVars, leaderVars, applyVars, cWinElection, electing,
                   diskVars, net>>

LeaderPersist(i) ==
    /\ pc[i] = "leader"
    /\ pc' = [pc EXCEPT ![i] = "top"]
    /\ persist(i, currentTerm[i], log[i])
    /\ UNCHANGED <<raftVars, leaderVars, applyVars, cWinElection, electing,
                   broadcasting, restarts, net>>

-------------------------------------------------------------------------------------
(* The goroutines the ticker spawns.                                                 *)

\* The election goroutine reads the term and the log when it gets the lock, not when
\* the ticker opened the term.
ElectionGoroutine(i) ==
    /\ electing[i] > 0
    /\ electing' = [electing EXCEPT ![i] = @ - 1]
    /\ net' = Send(net, {VoteCall(i, j) : j \in Others(i)})
    /\ UNCHANGED <<raftVars, leaderVars, applyVars, cWinElection, pc,
                   broadcasting, diskVars>>

\* broadcastHeartbeat: nothing if no longer leader; a peer whose nextIdx is at or below
\* baseIdx is skipped; past the end of the log the read of PrevLogTerm would panic. The
\* entries of a call are a slice of rf.log; its goroutine gets the lock later.
broadcastHeartbeat(i) ==
    LET peers == {j \in Others(i) : state[i] = LEADER /\ nextIdx[i][j] > 0} IN
    /\ broadcasting[i] > 0
    /\ InOrder => \A m \in DOMAIN net : m.type = "AppendEntries" => m.from # i
    /\ \A j \in peers : nextIdx[i][j] <= Len(log[i]) + 1
    /\ broadcasting' = [broadcasting EXCEPT ![i] = @ - 1]
    /\ net' = Send(net, {AppendCall(i, j) : j \in peers})
    /\ UNCHANGED <<raftVars, leaderVars, applyVars, cWinElection, pc, electing, diskVars>>

\* The first half of sendAppendEntries: the goroutine of a call copies the entries, as
\* the slice shows them now, and calls.
SendCopy(m) ==
    /\ m.type = "AppendEntries" /\ ~m.copied /\ m.inc = restarts[m.from]
    /\ net' = Send(Drop(net, m), {[m EXCEPT !.copied = TRUE]})
    /\ UNCHANGED <<raftVars, leaderVars, applyVars, tickVars, diskVars>>

-------------------------------------------------------------------------------------
(* RequestVote, and what sendRequestVote does when the call returns.                 *)

RequestVote(i, m) ==
    LET newer   == m.term > currentTerm[i]
        vote    == IF newer THEN Nil ELSE votedFor[i]
        granted == Grants(m, vote, log[i])
    IN  /\ m.type = "RequestVote"
        /\ \/ /\ m.term < currentTerm[i]
              /\ net' = Send(Drop(net, m), {VoteReturn(m, currentTerm[i], FALSE)})
              /\ UNCHANGED <<currentTerm, votedFor, state>>
           \/ /\ m.term >= currentTerm[i]
              /\ currentTerm' = [currentTerm EXCEPT ![i] = m.term]
              /\ votedFor' = [votedFor EXCEPT ![i] = IF granted THEN m.from ELSE vote]
              /\ state' = [state EXCEPT ![i] = IF newer THEN FOLLOWER ELSE @]
              /\ net' = Send(Drop(net, m), {VoteReturn(m, m.term, granted)})
        /\ UNCHANGED <<log, numVotesReceived, leaderVars, applyVars, cWinElection, pc,
                       electing, broadcasting, diskVars>>

\* The return is for this instance, for its current term, and it still is a candidate.
VoteCounts(i, m) ==
    m.inc = restarts[i] /\ m.argTerm = currentTerm[i] /\ state[i] = CANDIDATE

\* The last vote needed: persist, reset nextIdx, become leader and signal the ticker.
WinElectionAtLast(i) ==
    /\ cWinElection[i] < ChanCap
    /\ persist(i, currentTerm[i], log[i])
    /\ nextIdx' = [nextIdx EXCEPT ![i] = [j \in Server |-> Len(log[i])]]
    /\ state' = [state EXCEPT ![i] = LEADER]
    /\ cWinElection' = [cWinElection EXCEPT ![i] = @ + 1]

WinElection(i) ==
    /\ cWinElection[i] < ChanCap
    /\ persist(i, currentTerm[i], log[i])
    /\ nextIdx' = [nextIdx EXCEPT ![i] = [j \in Server |-> Len(log[i]) + 1]]
    /\ state' = [state EXCEPT ![i] = LEADER]
    /\ cWinElection' = [cWinElection EXCEPT ![i] = @ + 1]

sendRequestVote(i, m) ==
    /\ m.type = "RequestVoteReply"
    /\ \/ /\ ~VoteCounts(i, m)
          /\ UNCHANGED <<raftVars, nextIdx, cWinElection, disk>>
       \/ /\ VoteCounts(i, m) /\ m.term > currentTerm[i]
          /\ currentTerm' = [currentTerm EXCEPT ![i] = m.term]
          /\ votedFor' = [votedFor EXCEPT ![i] = Nil]
          /\ state' = [state EXCEPT ![i] = FOLLOWER]
          /\ UNCHANGED <<log, numVotesReceived, nextIdx, cWinElection, disk>>
       \/ /\ VoteCounts(i, m) /\ m.term <= currentTerm[i] /\ ~m.granted
          /\ UNCHANGED <<raftVars, nextIdx, cWinElection, disk>>
       \/ /\ VoteCounts(i, m) /\ m.term <= currentTerm[i] /\ m.granted
          /\ numVotesReceived' = [numVotesReceived EXCEPT ![i] = @ + 1]
          /\ IF Majority(numVotesReceived[i] + 1)
             THEN WinElection(i)
             ELSE UNCHANGED <<state, nextIdx, cWinElection, disk>>
          /\ UNCHANGED <<currentTerm, votedFor, log>>
    /\ net' = Drop(net, m)
    /\ UNCHANGED <<matchIdx, applyVars, pc, electing, broadcasting, restarts>>

-------------------------------------------------------------------------------------
(* AppendEntries, and what sendAppendEntries does when the call returns.             *)

\* The first index of the conflicting term at prev. Entries have positive terms and
\* the dummy element has term 0, so the backward loop always finds where to return;
\* NextTryIdx would stay 0 otherwise.
ConflictStart(l, prev) ==
    LET other == {k \in 0 .. prev - 1 : TermAt(l, k) # TermAt(l, prev)} IN
    IF other = {} THEN 0 ELSE Max(other) + 1

\* The consistency check: the log has an entry at prev, and of the right term.
MatchesByLength(l, m) == m.prevIdx <= Len(l)
Matches(l, m) == m.prevIdx <= Len(l) /\ TermAt(l, m.prevIdx) = m.prevTerm

\* Cut the log after prev, whatever follows, and append the entries of the call.
Spliced(l, m) == SubSeq(l, 1, m.prevIdx) \o m.entries

\* A call of server i that still holds a slice of i's log.
Waits(i, m) ==
    m.type = "AppendEntries" /\ ~m.copied /\ m.from = i /\ m.inc = restarts[i]

\* What the slice of such a call shows once the log is l, written in place: the entries
\* of l at its positions and, past the end of l, what was there before.
Shown(m, l) ==
    [m EXCEPT !.entries = [k \in DOMAIN m.entries |->
        IF m.prevIdx + k <= Len(l) THEN l[m.prevIdx + k] ELSE m.entries[k]]]

\* append writes into the array of rf.log as long as it has room. When it moves to a new
\* array instead, a slice keeps the old entries, as if they had been copied just before:
\* SendCopy is that case. Two slices of the same positions show the same, so no two
\* calls become one.
Overwritten(B, i, l) ==
    LET Now(m) == IF Waits(i, m) THEN Shown(m, l) ELSE m IN
    [x \in {Now(m) : m \in DOMAIN B} |-> B[CHOOSE m \in DOMAIN B : Now(m) = x]]

\* The log matches at prev: take the entries, move commitIdx and spawn the apply
\* goroutine if the leader's commit index is ahead, persist.
AcceptUnsaved(i, m) ==
    LET new == Spliced(log[i], m) IN
    /\ log' = [log EXCEPT ![i] = new]
    /\ IF m.commit > commitIdx[i]
       THEN /\ persist(i, m.term, new)
            /\ commitIdx' = [commitIdx EXCEPT ![i] = Min({m.commit, Len(new)})]
            /\ applying' = [applying EXCEPT ![i] = TRUE]
       ELSE UNCHANGED <<commitIdx, applying, disk>>

AcceptEntries(i, m) ==
    LET new == Spliced(log[i], m) IN
    /\ log' = [log EXCEPT ![i] = new]
    /\ persist(i, m.term, new)
    /\ IF m.commit > commitIdx[i]
       THEN /\ commitIdx' = [commitIdx EXCEPT ![i] = Min({m.commit, Len(new)})]
            /\ applying' = [applying EXCEPT ![i] = TRUE]
       ELSE UNCHANGED <<commitIdx, applying>>

AppendEntries(i, m) ==
    LET newer == m.term > currentTerm[i]
        vote  == IF newer THEN Nil ELSE votedFor[i]
        last  == Len(log[i])
        Reply(B, term, success, nextTry) ==
            net' = Send(Drop(B, m), {AppendReturn(m, term, success, nextTry)})
    IN  /\ m.type = "AppendEntries" /\ m.copied
        /\ \/ /\ m.term < currentTerm[i]
              /\ Reply(net, currentTerm[i], FALSE, last + 1)
              /\ UNCHANGED <<currentTerm, votedFor, log, state, commitIdx, applying, disk>>
           \/ /\ m.term >= currentTerm[i]
              /\ currentTerm' = [currentTerm EXCEPT ![i] = m.term]
              /\ votedFor' = [votedFor EXCEPT ![i] = vote]
              /\ state' = [state EXCEPT ![i] = IF newer THEN FOLLOWER ELSE @]
              /\ \/ /\ m.prevIdx > last
                    /\ Reply(net, m.term, FALSE, last + 1)
                    /\ UNCHANGED <<log, commitIdx, applying, disk>>
                 \/ /\ m.prevIdx <= last /\ ~Matches(log[i], m)
                    /\ Reply(net, m.term, FALSE, ConflictStart(log[i], m.prevIdx))
                    /\ UNCHANGED <<log, commitIdx, applying, disk>>
                 \/ /\ Matches(log[i], m)
                    /\ AcceptEntries(i, m)
                    /\ Reply(Overwritten(net, i, Spliced(log[i], m)), m.term, TRUE,
                             m.prevIdx + Len(m.entries))
        /\ UNCHANGED <<numVotesReceived, leaderVars, appliedLast, logs, cWinElection,
                       pc, electing, broadcasting, restarts>>

\* The return is for this instance, for its current term, and it still is the leader.
AppendCounts(i, m) ==
    m.inc = restarts[i] /\ m.argTerm = currentTerm[i] /\ state[i] = LEADER

\* The servers known to hold entry k, the leader always among them.
Holders(i, k, match) == {i} \cup {j \in Others(i) : match[j] >= k}

\* The indices the commit loop reaches: it counts down from the end of the log and
\* stops at commitIdx and at the first entry of an older term.
CommitAnyTerm(i) == commitIdx[i] + 1 .. Len(log[i])
CommitRange(i) ==
    {k \in commitIdx[i] + 1 .. Len(log[i]) :
        \A l \in k .. Len(log[i]) : log[i][l].term = currentTerm[i]}

\* The highest of them that a majority holds is committed.
AdvanceCommit(i, match) ==
    LET held == {k \in CommitRange(i) : Majority(Cardinality(Holders(i, k, match)))} IN
    IF held = {}
    THEN UNCHANGED <<commitIdx, applying>>
    ELSE /\ commitIdx' = [commitIdx EXCEPT ![i] = Max(held)]
         /\ applying' = [applying EXCEPT ![i] = TRUE]

sendAppendEntries(i, m) ==
    /\ m.type = "AppendEntriesReply"
    /\ \/ /\ ~AppendCounts(i, m)
          /\ UNCHANGED <<currentTerm, votedFor, state, leaderVars, commitIdx, applying, disk>>
       \/ /\ AppendCounts(i, m) /\ m.term > currentTerm[i]
          /\ currentTerm' = [currentTerm EXCEPT ![i] = m.term]
          /\ votedFor' = [votedFor EXCEPT ![i] = Nil]
          /\ state' = [state EXCEPT ![i] = FOLLOWER]
          /\ persist(i, m.term, log[i])
          /\ UNCHANGED <<leaderVars, commitIdx, applying>>
       \/ /\ AppendCounts(i, m) /\ m.term <= currentTerm[i]
          /\ \/ /\ m.success /\ m.last > 0
                /\ nextIdx' = [nextIdx EXCEPT ![i][m.from] = m.last + 1]
                /\ matchIdx' = [matchIdx EXCEPT ![i][m.from] = m.last]
             \/ /\ m.success /\ m.last = 0
                /\ UNCHANGED leaderVars
             \/ /\ ~m.success
                /\ nextIdx' = [nextIdx EXCEPT ![i][m.from] = m.nextTry]
                /\ UNCHANGED matchIdx
          /\ AdvanceCommit(i, matchIdx'[i])
          /\ UNCHANGED <<currentTerm, votedFor, state, disk>>
    /\ net' = Drop(net, m)
    /\ UNCHANGED <<log, numVotesReceived, appliedLast, logs, tickVars, restarts>>

-------------------------------------------------------------------------------------
(* The apply goroutine, the service, the tester and the network.                     *)

\* Every entry from appliedLast + 1 to commitIdx goes to applyCh under the lock. When
\* commitIdx points past the log the goroutine panics instead (see ApplyInRange). Two
\* waiting goroutines do what one does, so one flag stands for all of them.
ApplyForgets(i) ==
    /\ applying[i]
    /\ commitIdx[i] <= Len(log[i])
    /\ logs' = [logs EXCEPT ![i] = @ \cup
                    {<<k, log[i][k]>> : k \in appliedLast[i] + 1 .. commitIdx[i]}]
    /\ applying' = [applying EXCEPT ![i] = FALSE]
    /\ UNCHANGED <<raftVars, leaderVars, commitIdx, appliedLast, tickVars, diskVars, net>>

Apply(i) ==
    /\ applying[i]
    /\ commitIdx[i] <= Len(log[i])
    /\ logs' = [logs EXCEPT ![i] = @ \cup
                    {<<k, log[i][k]>> : k \in appliedLast[i] + 1 .. commitIdx[i]}]
    /\ appliedLast' = [appliedLast EXCEPT ![i] = commitIdx[i]]
    /\ applying' = [applying EXCEPT ![i] = FALSE]
    /\ UNCHANGED <<raftVars, leaderVars, commitIdx, tickVars, diskVars, net>>

Start(i, c) ==
    LET new == Append(log[i], [term |-> currentTerm[i], cmd |-> c]) IN
    /\ state[i] = LEADER
    /\ <<currentTerm[i], Len(new)>> \in bound.accepts
    /\ log' = [log EXCEPT ![i] = new]
    /\ persist(i, currentTerm[i], new)
    /\ net' = Overwritten(net, i, new)
    /\ UNCHANGED <<currentTerm, votedFor, state, numVotesReceived, leaderVars, applyVars,
                   tickVars, restarts>>

\* The saved vote is read as well, to no avail.
readPersist(i) ==
    /\ currentTerm' = [currentTerm EXCEPT ![i] = disk[i].term]
    /\ log' = [log EXCEPT ![i] = disk[i].log]

\* crash1, start1 and Make: a new instance reads the Persister, saves what it read and
\* sets votedFor to -1, whatever readPersist restored.
Restart(i) ==
    /\ MapThenSumSet(LAMBDA j : restarts[j], Server) < bound.restarts
    /\ restarts' = [restarts EXCEPT ![i] = @ + 1]
    /\ readPersist(i)
    /\ votedFor' = [votedFor EXCEPT ![i] = Nil]
    /\ state' = [state EXCEPT ![i] = FOLLOWER]
    /\ numVotesReceived' = [numVotesReceived EXCEPT ![i] = 0]
    /\ commitIdx' = [commitIdx EXCEPT ![i] = 0]
    /\ appliedLast' = [appliedLast EXCEPT ![i] = 0]
    /\ nextIdx' = [nextIdx EXCEPT ![i] = [j \in Server |-> 0]]
    /\ matchIdx' = [matchIdx EXCEPT ![i] = [j \in Server |-> 0]]
    /\ cWinElection' = [cWinElection EXCEPT ![i] = 0]
    /\ pc' = [pc EXCEPT ![i] = "top"]
    /\ electing' = [electing EXCEPT ![i] = 0]
    /\ broadcasting' = [broadcasting EXCEPT ![i] = 0]
    /\ applying' = [applying EXCEPT ![i] = FALSE]
    /\ UNCHANGED <<disk, net, logs>>

\* Call returns false: the request or its reply was lost, and the caller's !ok branch
\* does nothing. bound.lossy names the terms whose calls may be lost. A call that was not
\* copied when its server crashed is never made.
Lost(m) ==
    (IF m.type \in {"RequestVote", "AppendEntries"} THEN m.term ELSE m.argTerm) \in bound.lossy

Lose(m) ==
    /\ IF m.type = "AppendEntries" /\ ~m.copied THEN m.inc # restarts[m.from] ELSE Lost(m)
    /\ net' = Drop(net, m)
    /\ UNCHANGED <<raftVars, leaderVars, applyVars, tickVars, diskVars>>

-------------------------------------------------------------------------------------
\* Make on an empty Persister, on every server.
Init ==
    /\ currentTerm = [i \in Server |-> 0]
    /\ votedFor = [i \in Server |-> Nil]
    /\ log = [i \in Server |-> <<>>]
    /\ state = [i \in Server |-> FOLLOWER]
    /\ numVotesReceived = [i \in Server |-> 0]
    /\ commitIdx = [i \in Server |-> 0]
    /\ appliedLast = [i \in Server |-> 0]
    /\ nextIdx = [i \in Server |-> [j \in Server |-> 0]]
    /\ matchIdx = [i \in Server |-> [j \in Server |-> 0]]
    /\ cWinElection = [i \in Server |-> 0]
    /\ pc = [i \in Server |-> "top"]
    /\ electing = [i \in Server |-> 0]
    /\ broadcasting = [i \in Server |-> 0]
    /\ applying = [i \in Server |-> FALSE]
    /\ disk = [i \in Server |-> Saved(0, <<>>)]
    /\ restarts = [i \in Server |-> 0]
    /\ net = EmptyBag
    /\ logs = [i \in Server |-> {}]
    /\ scope \in DOMAIN Scopes

\* Goroutines get the lock in any order. A kind in Prompt is served before anything else
\* happens; the second lock of the LEADER case goes with the broadcast.
Quiet ==
    /\ "election" \in Prompt => \A i \in Server : electing[i] = 0
    /\ "broadcast" \in Prompt => \A i \in Server : broadcasting[i] = 0 /\ pc[i] # "leader"
    /\ "send" \in Prompt => \A i \in Server : \A m \in DOMAIN net : ~Waits(i, m)
    /\ "apply" \in Prompt => \A i \in Server : ~applying[i]

Ticker(i) ==
    \/ FollowerTimeout(i)
    \/ TickCandidate(i) \/ CandidateWin(i) \/ CandidateBackOff(i)
    \/ TickLeader(i)

Receive(i, m) ==
    /\ m.to = i
    /\ \/ RequestVote(i, m) \/ sendRequestVote(i, m)
       \/ AppendEntries(i, m) \/ sendAppendEntries(i, m)

Step ==
    \/ \E i \in Server :
        ElectionGoroutine(i) \/ broadcastHeartbeat(i) \/ LeaderPersist(i) \/ Apply(i)
    \/ \E m \in DOMAIN net : SendCopy(m)
    \/ /\ Quiet
       /\ \/ \E i \in Server :
              \/ Ticker(i)
              \/ \E m \in DOMAIN net : Receive(i, m)
              \/ \E c \in Command : Start(i, c)
              \/ Restart(i)
          \/ \E m \in DOMAIN net : Lose(m)

Next == Step /\ UNCHANGED scope

Spec == Init /\ [][Next]_vars

-------------------------------------------------------------------------------------
(* Properties.                                                                       *)

\* Every variable keeps its type; cWinElection stays within its capacity.
TypeOK ==
    /\ currentTerm \in [Server -> Nat]
    /\ votedFor \in [Server -> Server \cup {Nil}]
    /\ log \in [Server -> Seq(Entry)]
    /\ state \in [Server -> {FOLLOWER, CANDIDATE, LEADER}]
    /\ numVotesReceived \in [Server -> Nat]
    /\ commitIdx \in [Server -> Nat]
    /\ appliedLast \in [Server -> Nat]
    /\ nextIdx \in [Server -> [Server -> Nat]]
    /\ matchIdx \in [Server -> [Server -> Nat]]
    /\ cWinElection \in [Server -> 0 .. ChanCap]
    /\ pc \in [Server -> {"top", "candidate", "leader"}]
    /\ electing \in [Server -> Nat]
    /\ broadcasting \in [Server -> Nat]
    /\ applying \in [Server -> BOOLEAN]
    /\ disk \in [Server -> [term : Nat, log : Seq(Entry)]]
    /\ restarts \in [Server -> Nat]
    /\ IsABag(net) /\ DOMAIN net \subseteq Message
    /\ logs \in [Server -> SUBSET (Nat \X Entry)]

\* checkOneLeader (config.go): no term ever has two leaders.
ElectionSafety ==
    \A i, j \in Server :
        state[i] = LEADER /\ state[j] = LEADER /\ currentTerm[i] = currentTerm[j] => i = j

\* Between critical sections the Persister holds the whole log, so a crash loses no
\* entry that a reply or a count has relied on; the saved term may only lag behind.
LogDurable == \A i \in Server : disk[i].log = log[i] /\ disk[i].term <= currentTerm[i]

\* Logs are sorted by term and hold no entry of a term that their server, restarted from
\* its Persister, would not know: RequestVote's comparison of last terms rests on it.
LogTermsOrdered ==
    \A i \in Server : \A k \in 1 .. Len(log[i]) :
        /\ log[i][k].term \in 1 .. disk[i].term
        /\ \A l \in 1 .. k : log[i][l].term <= log[i][k].term

\* Two logs that agree on the term of an index agree on everything up to it, although
\* AppendEntries checks a single index and cuts whatever follows it.
LogMatching ==
    \A i, j \in Server : \A k \in 1 .. Min({Len(log[i]), Len(log[j])}) :
        log[i][k].term = log[j][k].term => SubSeq(log[i], 1, k) = SubSeq(log[j], 1, k)

\* The shape that AppendEntries and RequestVote rely on: terms in order within a log, and
\* logs that share their past.
LogsAgree == LogTermsOrdered /\ LogMatching

\* A leader's nextIdx stays inside its log: the skip in broadcastHeartbeat is never
\* taken and rf.log[PrevLogIdx] is always in range.
NextInRange ==
    \A i \in Server : state[i] = LEADER =>
        \A j \in Others(i) : nextIdx[i][j] \in 1 .. Len(log[i]) + 1

\* The apply goroutines never index past the log.
ApplyInRange == \A i \in Server : commitIdx[i] <= Len(log[i])

\* No index that a goroutine carries from one critical section to the next is out of the
\* log by then (a panic would end the process), and every variable and every message in
\* flight keeps its type.
IndicesInRange == TypeOK /\ NextInRange /\ ApplyInRange

Holds(i, x) == Len(log[i]) >= x[1] /\ log[i][x[1]] = x[2]

\* Everything ever sent on an applyCh.
Delivered == UNION {logs[i] : i \in Server}

\* checkLogs and applier (config.go): no two servers, and no two instances of a server,
\* ever send different entries for the same index, and none skips an index.
StateMachineSafety ==
    /\ \A x, y \in Delivered : x[1] = y[1] => x[2] = y[2]
    /\ \A i \in Server : \A x \in logs[i] : x[1] = 1 \/ \E y \in logs[i] : y[1] = x[1] - 1

\* An entry that was applied anywhere stays in the logs of a majority.
AppliedIsHeld ==
    \A x \in Delivered : Majority(Cardinality({i \in Server : Holds(i, x)}))

\* A leader whose term nobody has passed has every entry that was ever applied.
LeaderCompleteness ==
    \A i \in Server :
        state[i] = LEADER /\ (\A j \in Server : currentTerm[j] <= currentTerm[i])
            => \A x \in Delivered : Holds(i, x)

\* Whatever a service was given survives every election, loss and crash that follows: a
\* majority holds it and each leader that is up to date does.
AppliedSurvives == AppliedIsHeld /\ LeaderCompleteness

\* The first n entries of server i's log survive a step.
KeepsFirst(i, n) == Len(log'[i]) >= n /\ SubSeq(log'[i], 1, n) = SubSeq(log[i], 1, n)

\* While it leads, a server only appends: its own AppendEntries handler, which does not
\* test for LEADER, never cuts its log.
OnlyAppends(i) ==
    state[i] = LEADER /\ state'[i] = LEADER /\ currentTerm'[i] = currentTerm[i]
        => KeepsFirst(i, Len(log[i]))

\* What a server has applied stays in its log as long as the instance runs: no later
\* AppendEntries cuts or replaces it. And while it leads, a server only appends.
LogsKept ==
    [][\A i \in Server :
        /\ restarts'[i] = restarts[i] => KeepsFirst(i, appliedLast[i])
        /\ OnlyAppends(i)]_vars

\* The agreed log: an entry is in it once some server has sent it to its service.
Agreed ==
    [k \in 1 .. Cardinality({x[1] : x \in Delivered}) |->
        (CHOOSE x \in Delivered : x[1] = k)[2]]

\* The cluster behaves as one log that only grows, of which every server applies a
\* prefix in order, from the start again after a crash.
Replicated ==
    INSTANCE ReplicatedLog WITH agreed <- Agreed, applied <- appliedLast
IsReplicatedLog == Replicated!Spec
=====================================================================================
