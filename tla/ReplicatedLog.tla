-------------------------------- MODULE ReplicatedLog --------------------------------
(***********************************************************************************)
(* What a Raft cluster promises to the services above it (the comments of Make,     *)
(* Start and ApplyMsg in lab3/raft/raft.go): there is one log that only grows, and  *)
(* every server hands its entries to its service in order, without a gap, from the  *)
(* first one on after each restart.                                                 *)
(***********************************************************************************)
EXTENDS Naturals, SequencesExt

CONSTANT Server

VARIABLES
    agreed,      \* the entries agreed on
    applied,     \* how many of them this life of a server has handed to its service
    logs         \* what each server ever handed over, with its index

vars == <<agreed, applied, logs>>

Init ==
    /\ agreed = <<>>
    /\ applied = [i \in Server |-> 0]
    /\ logs = [i \in Server |-> {}]

\* Server i hands over the next entries, the last of which may just have been agreed on.
Deliver(i) ==
    /\ IsPrefix(agreed, agreed')
    /\ applied'[i] \in applied[i] .. Len(agreed')
    /\ applied' = [applied EXCEPT ![i] = applied'[i]]
    /\ logs' = [logs EXCEPT ![i] = @ \cup
                    {<<k, agreed'[k]>> : k \in applied[i] + 1 .. applied'[i]}]

\* Server i restarts: its service starts again from nothing.
Restart(i) ==
    /\ applied' = [applied EXCEPT ![i] = 0]
    /\ UNCHANGED <<agreed, logs>>

Next == \E i \in Server : Deliver(i) \/ Restart(i)

Spec == Init /\ [][Next]_vars
======================================================================================
