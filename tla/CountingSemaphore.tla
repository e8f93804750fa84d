------------------------------ MODULE CountingSemaphore ------------------------------
(***********************************************************************************)
(* What the comments of lab0/semaphore.go promise: a counter that Post increments   *)
(* and a successful Wait decrements, never below zero, and a Wait that otherwise    *)
(* ends only when its context is done.                                              *)
(***********************************************************************************)
EXTENDS Naturals

CONSTANT Waiter
VARIABLES
    value,      \* resources left from earlier Posts
    waiting,    \* the goroutines inside Wait
    cancelled   \* those of them whose context is done

vars == <<value, waiting, cancelled>>

Init == value = 0 /\ waiting = {} /\ cancelled = {}

Post == value' = value + 1 /\ UNCHANGED <<waiting, cancelled>>

Begin(w) ==
    /\ w \notin waiting
    /\ waiting' = waiting \cup {w}
    /\ UNCHANGED <<value, cancelled>>

Cancel(w) ==
    /\ w \in waiting
    /\ cancelled' = cancelled \cup {w}
    /\ UNCHANGED <<value, waiting>>

\* Wait returns nil.
Acquire(w) ==
    /\ w \in waiting /\ value > 0
    /\ value' = value - 1
    /\ waiting' = waiting \ {w}
    /\ cancelled' = cancelled \ {w}

\* Wait returns the error of its context.
GiveUp(w) ==
    /\ w \in waiting /\ w \in cancelled
    /\ waiting' = waiting \ {w}
    /\ cancelled' = cancelled \ {w}
    /\ UNCHANGED value

Next == Post \/ \E w \in Waiter : Begin(w) \/ Cancel(w) \/ Acquire(w) \/ GiveUp(w)

Spec == Init /\ [][Next]_vars

\* A Wait that could return does return.
LiveSpec == Spec /\ \A w \in Waiter : WF_vars(Acquire(w) \/ GiveUp(w))
======================================================================================
