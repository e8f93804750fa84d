------------------------------- MODULE ParallelFetcher -------------------------------
(***********************************************************************************)
(* lab0/parallel_fetcher.go: Fetch behind a weighted semaphore and a flag that says *)
(* whether the underlying Fetcher may be called again.                              *)
(*                                                                                 *)
(* callAgain is read before the semaphore is taken and written while it is held, so *)
(* reads race with the write. A racing read may return the old value; only the      *)
(* writer, and goroutines that used the semaphore after the writer released it, are *)
(* certain to see the new one.                                                      *)
(***********************************************************************************)
EXTENDS Integers, FiniteSets

CONSTANTS
    Caller,      \* the goroutines that call Fetch
    Limits,      \* the values of maxConcurrencyLimit under study
    Items,       \* how often the underlying Fetcher returns true
    MaxCalls     \* bound: calls of one goroutine

ASSUME FetcherAssumption ==
    /\ IsFiniteSet(Caller)
    /\ Limits \subseteq Int /\ Items \in Nat /\ MaxCalls \in Nat

VARIABLES
    limit,       \* maxConcurrencyLimit
    callAgain,   \* the flag
    published,   \* the flag was cleared before some Release
    certain,     \* the callers that are certain to read a cleared flag
    free,        \* what is left of the semaphore
    left,        \* values the underlying Fetcher still has
    exhausted,   \* the underlying Fetcher has returned false
    pc,          \* caller: "idle", "acquire", "fetch", "clear" or "release"
    more,        \* caller: what the underlying Fetch returned to it last
    calls        \* caller: Fetches begun

vars == <<limit, callAgain, published, certain, free, left, exhausted, pc, more, calls>>

\* NewWeighted(max(maxConcurrencyLimit, 1)).
SizeUnchecked == limit
Size == IF limit > 1 THEN limit ELSE 1

Init ==
    /\ limit \in Limits
    /\ callAgain = TRUE /\ published = FALSE /\ certain = {}
    /\ free = Size
    /\ left = Items /\ exhausted = FALSE
    /\ pc = [c \in Caller |-> "idle"]
    /\ more = [c \in Caller |-> TRUE]
    /\ calls = [c \in Caller |-> 0]

Goto(c, label) == pc' = [pc EXCEPT ![c] = label]

\* Using the semaphore orders c after every earlier Release.
Synchronise(c) == certain' = IF published THEN certain \cup {c} ELSE certain

\* if !pf.callAgain { return "", false }.
Check(c) ==
    /\ pc[c] = "idle" /\ calls[c] < MaxCalls
    /\ calls' = [calls EXCEPT ![c] = @ + 1]
    /\ \/ ~callAgain /\ UNCHANGED pc
       \/ (callAgain \/ c \notin certain) /\ Goto(c, "acquire")
    /\ UNCHANGED <<limit, callAgain, published, certain, free, left, exhausted, more>>

\* sema.Acquire(context.Background(), 1) never returns an error.
AcquireAny(c) ==
    /\ pc[c] = "acquire"
    /\ Goto(c, "fetch")
    /\ Synchronise(c)
    /\ UNCHANGED <<limit, callAgain, published, free, left, exhausted, more, calls>>

Acquire(c) ==
    /\ pc[c] = "acquire" /\ free > 0
    /\ free' = free - 1
    /\ Goto(c, "fetch")
    /\ Synchronise(c)
    /\ UNCHANGED <<limit, callAgain, published, left, exhausted, more, calls>>

\* The underlying Fetch returns; it is thread-safe, and false once it has nothing left.
FetchReturns(c) ==
    /\ pc[c] = "fetch"
    /\ \/ /\ left > 0
          /\ left' = left - 1
          /\ more' = [more EXCEPT ![c] = TRUE]
          /\ Goto(c, "release")
          /\ UNCHANGED exhausted
       \/ /\ left = 0
          /\ exhausted' = TRUE
          /\ more' = [more EXCEPT ![c] = FALSE]
          /\ Goto(c, "clear")
          /\ UNCHANGED left
    /\ UNCHANGED <<limit, callAgain, published, certain, free, calls>>

\* pf.callAgain = false.
KeepFlag(c) ==
    /\ pc[c] = "clear"
    /\ Goto(c, "release")
    /\ UNCHANGED <<limit, callAgain, published, certain, free, left, exhausted, more, calls>>

ClearFlag(c) ==
    /\ pc[c] = "clear"
    /\ callAgain' = FALSE
    /\ certain' = certain \cup {c}
    /\ Goto(c, "release")
    /\ UNCHANGED <<limit, published, free, left, exhausted, more, calls>>

\* The deferred sema.Release(1), and the return.
Release(c) ==
    /\ pc[c] = "release"
    /\ free' = free + 1
    /\ published' = (published \/ c \in certain)
    /\ Goto(c, "idle")
    /\ Synchronise(c)
    /\ UNCHANGED <<limit, callAgain, left, exhausted, more, calls>>

Next ==
    \E c \in Caller :
        Check(c) \/ Acquire(c) \/ FetchReturns(c) \/ ClearFlag(c) \/ Release(c)

\* The underlying Fetch returns, and semaphore.Weighted serves its waiters in order.
Fairness ==
    \A c \in Caller :
        /\ WF_vars(FetchReturns(c) \/ ClearFlag(c) \/ Release(c))
        /\ SF_vars(Acquire(c))

Spec == Init /\ [][Next]_vars /\ Fairness

--------------------------------------------------------------------------------------
(* Properties.                                                                        *)

\* The callers between Acquire and Release.
Holding == {c \in Caller : pc[c] \in {"fetch", "clear", "release"}}

\* Types; and every permit of the semaphore is free or held, so that the deferred Release
\* runs on every path out of Fetch.
TypeOK ==
    /\ callAgain \in BOOLEAN /\ published \in BOOLEAN /\ exhausted \in BOOLEAN
    /\ limit \in Limits /\ certain \subseteq Caller
    /\ free \in Nat /\ free + Cardinality(Holding) = Size
    /\ left \in Nat
    /\ pc \in [Caller -> {"idle", "acquire", "fetch", "clear", "release"}]
    /\ more \in [Caller -> BOOLEAN]
    /\ calls \in [Caller -> Nat]

\* "no more than maxConcurrentLimit clients call Fetcher.Fetch() at any given time".
LimitKept == Cardinality({c \in Caller : pc[c] = "fetch"}) <= Size

\* ... and every permit is either free or held by one caller, also when the fetcher is
\* exhausted: the limit does not wear away.
PermitsKept == TypeOK /\ LimitKept

\* A goroutine whose own call of the underlying Fetch returned false never calls it
\* again, although its later reads of the flag race with other goroutines' writes.
NoFetchAfterOwnFalse ==
    [][\A c \in Caller : pc[c] = "idle" /\ ~more[c] => pc'[c] = "idle"]_vars

\* "Fetch() should not be called again once false is returned; *however*, it is OK to
\* have Fetch()s that are already in progress". The code does not achieve it, see
\* README.md: a caller may have read the flag and be waiting for the semaphore.
NoFetchAfterFalse ==
    [][\A c \in Caller : exhausted /\ pc[c] # "fetch" => pc'[c] # "fetch"]_vars

\* Every Fetch returns, whatever limit NewParallelFetcher was given, 0 included.
FetchesReturn == \A c \in Caller : pc[c] # "idle" ~> pc[c] = "idle"
======================================================================================
