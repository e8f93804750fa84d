---------------------------------- MODULE RpcContract ----------------------------------
(***********************************************************************************)
(* What labrpc promises to its callers (lab3/raft/raft.go:190-200 and the comments  *)
(* of lab3/labrpc/labrpc.go): the handler of a call runs at most once; a call that  *)
(* returns true has been handled; after one that returns false the handler may have *)
(* run, may still run, or never runs.                                               *)
(***********************************************************************************)
CONSTANT Call

VARIABLES
    outcome,     \* "idle", "called", "true" or "false"
    handled      \* the calls whose handler has run

vars == <<outcome, handled>>

Init == outcome = [c \in Call |-> "idle"] /\ handled = {}

Invoke(c) ==
    /\ outcome[c] = "idle"
    /\ outcome' = [outcome EXCEPT ![c] = "called"]
    /\ UNCHANGED handled

Handle(c) ==
    /\ outcome[c] # "idle" /\ c \notin handled
    /\ handled' = handled \cup {c}
    /\ UNCHANGED outcome

Return(c) ==
    /\ outcome[c] = "called"
    /\ \/ c \in handled /\ outcome' = [outcome EXCEPT ![c] = "true"]
       \/ outcome' = [outcome EXCEPT ![c] = "false"]
    /\ UNCHANGED handled

Next == \E c \in Call : Invoke(c) \/ Handle(c) \/ Return(c)

Spec == Init /\ [][Next]_vars
========================================================================================
