---------------------------------- MODULE Semaphore ----------------------------------
(***********************************************************************************)
(* lab0/semaphore.go: a semaphore made of an atomic counter and a channel of       *)
(* capacity 1. Post and Wait touch the counter and the channel in separate steps.  *)
(*                                                                                 *)
(* A Go channel hands a value to a parked receiver directly; only without one does *)
(* the value stay in the buffer. "select" is a goroutine about to run the second   *)
(* select of Wait, "parked" one that found nothing ready there, "expired" one that *)
(* the end of its context resumed.                                                 *)
(***********************************************************************************)
EXTENDS Integers, FiniteSets

CONSTANTS
    Waiter,      \* the goroutines that call Wait
    Poster,      \* the goroutines that call Post
    MaxPosts,    \* bound: Posts in total
    MaxWaits     \* bound: Waits of one goroutine

ASSUME BoundAssumption == MaxPosts \in Nat /\ MaxWaits \in Nat

VARIABLES
    available,   \* the atomic counter
    signal,      \* tokens in the channel's buffer
    ppc,         \* poster: "idle", or "send" between the Add and the select
    pc,          \* waiter: "idle", "load", "cas", "check", "select", "parked" or
                 \* "expired"
    v,           \* waiter: what its Load returned
    done,        \* the waiters whose context is done
    \* History: Posts begun, Waits that returned nil, and calls of each waiter.
    posted, granted, calls

vars == <<available, signal, ppc, pc, v, done, posted, granted, calls>>

Init ==
    /\ available = 0 /\ signal = 0
    /\ ppc = [p \in Poster |-> "idle"]
    /\ pc = [w \in Waiter |-> "idle"]
    /\ v = [w \in Waiter |-> 0]
    /\ done = {}
    /\ posted = 0 /\ granted = 0
    /\ calls = [w \in Waiter |-> 0]

Goto(w, label) == pc' = [pc EXCEPT ![w] = label]

\* Wait returns: its context is of no further interest.
Return(w) == Goto(w, "idle") /\ done' = done \ {w}

\* s.available.Add(1).
PostAdd(p) ==
    /\ ppc[p] = "idle" /\ posted < MaxPosts
    /\ available' = available + 1
    /\ posted' = posted + 1
    /\ ppc' = [ppc EXCEPT ![p] = "send"]
    /\ UNCHANGED <<signal, pc, v, done, granted, calls>>

\* The select of Post: to a parked receiver, else into the buffer, else its default.
PostSignal(p) ==
    LET parked == {w \in Waiter : pc[w] = "parked"} IN
    /\ ppc[p] = "send"
    /\ ppc' = [ppc EXCEPT ![p] = "idle"]
    /\ \/ /\ \E w \in parked : Goto(w, "load")
          /\ UNCHANGED signal
       \/ /\ parked = {} /\ signal = 0
          /\ signal' = 1
          /\ UNCHANGED pc
       \/ /\ parked = {} /\ signal = 1
          /\ UNCHANGED <<signal, pc>>
    /\ UNCHANGED <<available, v, done, posted, granted, calls>>

WaitCall(w) ==
    /\ pc[w] = "idle" /\ calls[w] < MaxWaits
    /\ calls' = [calls EXCEPT ![w] = @ + 1]
    /\ Goto(w, "load")
    /\ UNCHANGED <<available, signal, ppc, v, done, posted, granted>>

WaitLoad(w) ==
    /\ pc[w] = "load"
    /\ v' = [v EXCEPT ![w] = available]
    /\ Goto(w, IF available > 0 THEN "cas" ELSE "check")
    /\ UNCHANGED <<available, signal, ppc, done, posted, granted, calls>>

\* CompareAndSwap, and back to the Load when somebody was faster.
WaitStore(w) ==
    /\ pc[w] = "cas"
    /\ available' = v[w] - 1
    /\ granted' = granted + 1
    /\ Return(w)
    /\ UNCHANGED <<signal, ppc, v, posted, calls>>

WaitCAS(w) ==
    /\ pc[w] = "cas"
    /\ \/ /\ available = v[w]
          /\ available' = v[w] - 1
          /\ granted' = granted + 1
          /\ Return(w)
       \/ /\ available # v[w]
          /\ Goto(w, "load")
          /\ UNCHANGED <<available, done, granted>>
    /\ UNCHANGED <<signal, ppc, v, posted, calls>>

\* The first select: return if the context is done already.
WaitCheck(w) ==
    /\ pc[w] = "check"
    /\ \/ w \in done /\ Return(w)
       \/ w \notin done /\ Goto(w, "select") /\ UNCHANGED done
    /\ UNCHANGED <<available, signal, ppc, v, posted, granted, calls>>

\* The second select: with both branches ready Go picks either; with none it parks.
WaitSelect(w) ==
    /\ pc[w] = "select"
    /\ \/ w \in done /\ Return(w) /\ UNCHANGED signal
       \/ signal = 1 /\ signal' = 0 /\ Goto(w, "load") /\ UNCHANGED done
       \/ w \notin done /\ signal = 0 /\ Goto(w, "parked") /\ UNCHANGED <<done, signal>>
    /\ UNCHANGED <<available, ppc, v, posted, granted, calls>>

WaitExpired(w) ==
    /\ pc[w] = "expired"
    /\ Return(w)
    /\ UNCHANGED <<available, signal, ppc, v, posted, granted, calls>>

\* The caller's context ends while Wait runs; a parked Wait is resumed to return.
CancelUnseen(w) ==
    /\ pc[w] # "idle" /\ w \notin done
    /\ done' = done \cup {w}
    /\ UNCHANGED <<available, signal, ppc, pc, v, posted, granted, calls>>

Cancel(w) ==
    /\ pc[w] # "idle" /\ w \notin done
    /\ done' = done \cup {w}
    /\ Goto(w, IF pc[w] = "parked" THEN "expired" ELSE pc[w])
    /\ UNCHANGED <<available, signal, ppc, v, posted, granted, calls>>

Waiting(w) == WaitLoad(w) \/ WaitCAS(w) \/ WaitCheck(w) \/ WaitSelect(w) \/ WaitExpired(w)

Next ==
    \/ \E p \in Poster : PostAdd(p) \/ PostSignal(p)
    \/ \E w \in Waiter : WaitCall(w) \/ Waiting(w) \/ Cancel(w)

\* Goroutines that can run do run. Nobody has to call Post or Wait, or to cancel.
Fairness ==
    /\ \A p \in Poster : WF_vars(PostSignal(p))
    /\ \A w \in Waiter : WF_vars(Waiting(w))

Spec == Init /\ [][Next]_vars /\ Fairness

--------------------------------------------------------------------------------------
(* Properties.                                                                        *)

\* Types, and the facts about places in Wait that its steps rely on.
TypeOK ==
    /\ available \in Nat /\ signal \in {0, 1}
    /\ ppc \in [Poster -> {"idle", "send"}]
    /\ pc \in [Waiter -> {"idle", "load", "cas", "check", "select", "parked", "expired"}]
    /\ v \in [Waiter -> Nat]
    /\ done \subseteq {w \in Waiter : pc[w] # "idle"}
    /\ posted \in Nat /\ granted \in Nat
    /\ calls \in [Waiter -> Nat]

\* However Loads and CompareAndSwaps of several Waits interleave with Posts, a resource
\* is handed out once: the counter is exactly what is left.
Balanced == posted = available + granted

\* A token is buffered only while nobody is parked, and a parked Wait is not cancelled:
\* nothing that could resume a parked Wait is overlooked.
NothingOverlooked ==
    \A w \in Waiter : pc[w] = "parked" => signal = 0 /\ w \notin done

\* No resource is lost or handed out twice, and no wake-up that reached a parked Wait is
\* lost: Balanced and NothingOverlooked hold together, however Posts, the steps of Waits
\* and the ends of their contexts interleave.
NothingLost == Balanced /\ NothingOverlooked

\* "If there are any callers waiting, it signals exactly one to wake up" (Post): no Wait
\* stays parked with resources left and nobody on the way to change that.
NoLostWakeup ==
    available > 0 /\ (\E w \in Waiter : pc[w] = "parked")
        => \/ \E p \in Poster : ppc[p] = "send"
           \/ \E w \in Waiter : pc[w] \notin {"idle", "parked"}

\* A cancelled Wait returns, with an error or with a resource.
CancelReturns == \A w \in Waiter : w \in done ~> pc[w] = "idle"

\* available is the abstract value; a Wait that has not returned is waiting.
Counting ==
    INSTANCE CountingSemaphore WITH
        value <- available, waiting <- {w \in Waiter : pc[w] # "idle"}, cancelled <- done

\* The atomic counter and the channel of Post and Wait together implement a counting
\* semaphore.
IsCounting == Counting!Spec

\* A Wait that could return does. It holds when there is one waiter only, see README.md.
IsLive == Counting!LiveSpec
======================================================================================
