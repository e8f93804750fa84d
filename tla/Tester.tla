----------------------------------- MODULE Tester -----------------------------------
(***********************************************************************************)
(* The checks the tester of lab3/raft/config.go makes of a running cluster: one,    *)
(* which submits a command and waits until enough servers have applied it, and      *)
(* checkOneLeader, which asks one server after the other who leads. Both run beside *)
(* the servers and see their state at different moments.                            *)
(*                                                                                  *)
(* The applier goroutines and their record, cfg.logs, are part of Raft. Commands of *)
(* different Starts are different random numbers in the tests: the index and the    *)
(* term of an entry stand for its command.                                          *)
(***********************************************************************************)
EXTENDS Raft

VARIABLES
    \* The call of one: where it is, the index Start returned last, the terms and
    \* indices at which its command was put into a log.
    one,
    \* The sweep of checkOneLeader: the servers still to be asked, and the answers of
    \* those that said they lead.
    sweep

testerVars == <<one, sweep>>

-------------------------------------------------------------------------------------
\* How many servers think an entry for the index is committed. The loop takes cfg.mu for
\* each server; records are only added, so the count it ends with is still reached when
\* it ends.
nCommitted(index) ==
    Cardinality({i \in Server : \E x \in logs[i] : x[1] = index})

\* The command nCommitted returns with its count is the one that was submitted.
OwnCommandAny(index) == TRUE
OwnCommand(index) ==
    \E x \in Delivered : x[1] = index /\ <<x[2].term, index>> \in one.mine

\* one tries the connected servers in turn until one of them takes the command; the ones
\* that do not lead change nothing. bound.one is TRUE when the test calls it.
OneSubmits(i) ==
    /\ one.pc = "trying" /\ bound.one
    /\ \E c \in Command : Start(i, c)
    /\ one' = [pc |-> "waiting", index |-> Len(log[i]) + 1,
               mine |-> one.mine \cup {<<currentTerm[i], Len(log[i]) + 1>>}]
    /\ UNCHANGED sweep

\* Enough servers have committed the index, and it is the command of this call.
OneReturns ==
    /\ one.pc = "waiting"
    /\ nCommitted(one.index) > 0 /\ nCommitted(one.index) >= bound.expected
    /\ OwnCommand(one.index)
    /\ one' = [one EXCEPT !.pc = "returned"]
    /\ UNCHANGED <<vars, sweep>>

\* The five seconds of an attempt are over: with retry the command is submitted again,
\* without it the test fails; so it does when the time for all attempts is over.
OneGivesUp ==
    /\ one.pc = "waiting"
    /\ one' = [one EXCEPT !.pc = IF bound.retry THEN "trying" ELSE "failed"]
    /\ UNCHANGED <<vars, sweep>>

OneFails ==
    /\ one.pc = "trying" /\ bound.one
    /\ one' = [one EXCEPT !.pc = "failed"]
    /\ UNCHANGED <<vars, sweep>>

-------------------------------------------------------------------------------------
GetState(i) == [term |-> currentTerm[i], isLeader |-> state[i] = LEADER]

\* GetState of one more connected server, in the order of the servers' numbers. That
\* order matters to nothing, so any server left is asked.
AskLeader(i) ==
    /\ i \in sweep.left
    /\ sweep' = [left |-> sweep.left \ {i},
                 leaders |-> IF GetState(i).isLeader
                             THEN sweep.leaders \cup {<<GetState(i).term, i>>}
                             ELSE sweep.leaders]
    /\ UNCHANGED <<vars, one>>

\* Everybody was asked: the test fails if a term has two leaders, goes on if there is a
\* leader, and sweeps again if there is none.
SweepAgain ==
    /\ sweep.left = {} /\ sweep.leaders = {} /\ bound.sweep # {}
    /\ sweep' = [sweep EXCEPT !.left = bound.sweep]
    /\ UNCHANGED <<vars, one>>

-------------------------------------------------------------------------------------
TesterInit ==
    /\ Init
    /\ one = [pc |-> "trying", index |-> 0, mine |-> {}]
    /\ sweep = [left |-> bound.sweep, leaders |-> {}]

\* The tester and the servers run concurrently. Whatever else calls Start is a test that
\* has picked a leader itself.
TesterNext ==
    \/ Next /\ UNCHANGED testerVars
    \/ \E i \in Server : OneSubmits(i) /\ Quiet /\ UNCHANGED scope
    \/ OneReturns \/ OneGivesUp \/ OneFails
    \/ \E i \in Server : AskLeader(i)
    \/ SweepAgain

TesterSpec == TesterInit /\ [][TesterNext]_<<vars, testerVars>>

-------------------------------------------------------------------------------------
(* Properties.                                                                       *)

\* When one has returned an index, no server ever applies anything but its command
\* there, whichever of its attempts put it into a log.
ReturnedIsFinal ==
    one.pc = "returned" =>
        \A x \in Delivered : x[1] = one.index => <<x[2].term, x[1]>> \in one.mine

\* checkOneLeader never collects two leaders of one term, although it asks the servers
\* at different moments and a leader may have stepped down in between.
OneLeaderSeen ==
    \A x, y \in sweep.leaders : x[1] = y[1] => x = y

\* What the tests rely on: the index that one returned, and the leaders checkOneLeader saw.
TesterSatisfied == ReturnedIsFinal /\ OneLeaderSeen
=====================================================================================
