---------------------------- MODULE ParallelFetcherProofs ----------------------------
(***********************************************************************************)
(* For any number of callers, any limit and any number of values: the permits of    *)
(* the weighted semaphore are neither lost nor made up, the limit is kept, and no   *)
(* goroutine calls the underlying Fetcher after its own false.                      *)
(***********************************************************************************)
EXTENDS ParallelFetcher, FiniteSetTheorems, TLAPS

\* A caller whose last Fetch returned false is about to clear the flag, or has cleared it
\* and is certain to read what it wrote.
FalseIsSeen ==
    \A c \in Caller : ~more[c] =>
        \/ pc[c] = "clear"
        \/ pc[c] \in {"release", "idle"} /\ ~callAgain /\ c \in certain

Label == {"idle", "acquire", "fetch", "clear", "release"}

Inv == TypeOK /\ FalseIsSeen

LEMMA SizePositive == ASSUME limit \in Limits PROVE Size \in Nat \ {0}
BY FetcherAssumption DEF Size

LEMMA HoldingFinite ==
    ASSUME NEW S \in SUBSET Caller
    PROVE  IsFiniteSet(S) /\ Cardinality(S) \in Nat
BY FetcherAssumption, FS_Subset, FS_CardinalityType

\* A caller that takes a permit joins the holders, one that gives it back leaves them.
LEMMA HoldingChanges ==
    ASSUME NEW c \in Caller, NEW label, pc \in [Caller -> Label], label \in Label,
           pc' = [pc EXCEPT ![c] = label]
    PROVE  LET inside == label \in {"fetch", "clear", "release"} IN
           /\ c \notin Holding /\ inside =>
                Cardinality(Holding') = Cardinality(Holding) + 1
           /\ c \in Holding /\ ~inside =>
                Cardinality(Holding') = Cardinality(Holding) - 1
           /\ (c \in Holding <=> inside) => Holding' = Holding
<1>1. IsFiniteSet(Holding)
    BY HoldingFinite DEF Holding
<1>2. ASSUME c \notin Holding, label \in {"fetch", "clear", "release"}
      PROVE  Cardinality(Holding') = Cardinality(Holding) + 1
    <2>1. Holding' = Holding \cup {c}
        BY <1>2 DEF Holding
    <2> QED
        BY <1>1, <1>2, <2>1, FS_AddElement
<1>3. ASSUME c \in Holding, label \notin {"fetch", "clear", "release"}
      PROVE  Cardinality(Holding') = Cardinality(Holding) - 1
    <2>1. Holding' = Holding \ {c}
        BY <1>3 DEF Holding
    <2> QED
        BY <1>1, <1>3, <2>1, FS_RemoveElement
<1>4. ASSUME c \in Holding <=> label \in {"fetch", "clear", "release"}
      PROVE  Holding' = Holding
    BY <1>4 DEF Holding
<1> QED
    BY <1>2, <1>3, <1>4

LEMMA InvInit == Init => Inv
<1> SUFFICES ASSUME Init PROVE Inv
    OBVIOUS
<1>1. Holding = {}
    BY DEF Init, Holding
<1>2. Cardinality(Holding) = 0
    BY <1>1, FS_EmptySet
<1>3. Size \in Nat
    BY SizePositive DEF Init
<1>4. free \in Nat /\ free + Cardinality(Holding) = Size
    BY <1>2, <1>3 DEF Init
<1> QED
    BY <1>4, FetcherAssumption DEF Init, Inv, TypeOK, FalseIsSeen

LEMMA InvNext == Inv /\ [Next]_vars => Inv'
<1> SUFFICES ASSUME Inv, [Next]_vars PROVE Inv'
    OBVIOUS
<1>t. /\ pc \in [Caller -> Label] /\ Cardinality(Holding) \in Nat /\ Size \in Nat
      /\ free \in Nat /\ free + Cardinality(Holding) = Size
      /\ calls \in [Caller -> Nat] /\ left \in Nat
    <2>1. Cardinality(Holding) \in Nat
        BY HoldingFinite DEF Holding
    <2>2. Size \in Nat
        BY SizePositive DEF Inv, TypeOK
    <2> QED
        BY <2>1, <2>2 DEF Inv, TypeOK, Label
<1> USE DEF Inv, TypeOK, FalseIsSeen, Label, Goto, Synchronise
<1>1. ASSUME NEW c \in Caller, Check(c) PROVE Inv'
    <2>1. Holding' = Holding
        BY <1>1, <1>t DEF Check, Holding
    <2>2. calls' \in [Caller -> Nat]
        BY <1>1, <1>t DEF Check
    <2>3. TypeOK'
        BY <1>1, <2>1, <2>2 DEF Check, Size
    <2> QED
        BY <1>1, <2>3 DEF Check
<1>2. ASSUME NEW c \in Caller, Acquire(c) PROVE Inv'
    <2>1. Cardinality(Holding') = Cardinality(Holding) + 1
        BY <1>2, <1>t, HoldingChanges DEF Acquire, Holding
    <2>2. free' \in Nat /\ free' + Cardinality(Holding') = Size'
        BY <1>2, <1>t, <2>1 DEF Acquire, Size
    <2> QED
        BY <1>2, <2>2 DEF Acquire
<1>3. ASSUME NEW c \in Caller, FetchReturns(c) PROVE Inv'
    <2>1. Holding' = Holding
        BY <1>3, <1>t DEF FetchReturns, Holding
    <2>2. left' \in Nat
        BY <1>3, <1>t DEF FetchReturns
    <2> QED
        BY <1>3, <2>1, <2>2 DEF FetchReturns, Size
<1>4. ASSUME NEW c \in Caller, ClearFlag(c) PROVE Inv'
    <2>1. Holding' = Holding
        BY <1>4, <1>t DEF ClearFlag, Holding
    <2> QED
        BY <1>4, <2>1 DEF ClearFlag, Size
<1>5. ASSUME NEW c \in Caller, Release(c) PROVE Inv'
    <2>1. Cardinality(Holding') = Cardinality(Holding) - 1
        BY <1>5, <1>t, HoldingChanges DEF Release, Holding
    <2>2. free' \in Nat /\ free' + Cardinality(Holding') = Size'
        BY <1>5, <1>t, <2>1 DEF Release, Size
    <2> QED
        BY <1>5, <2>2 DEF Release
<1>6. CASE UNCHANGED vars
    BY <1>6 DEF vars, Holding, Size
<1> QED
    BY <1>1, <1>2, <1>3, <1>4, <1>5, <1>6 DEF Next

--------------------------------------------------------------------------------------
\* "no more than maxConcurrentLimit clients call Fetcher.Fetch() at any given time", and
\* every permit comes back: for any number of goroutines and any limit, 0 and negative
\* ones included.
THEOREM LimitIsKept == Spec => []PermitsKept
<1>1. Inv => PermitsKept
    <2> SUFFICES ASSUME Inv PROVE LimitKept
        BY DEF Inv, PermitsKept
    <2> DEFINE fetching == {c \in Caller : pc[c] = "fetch"}
    <2>1. fetching \subseteq Holding
        BY DEF Holding
    <2>2. Cardinality(fetching) <= Cardinality(Holding)
        BY <2>1, HoldingFinite, FS_Subset DEF Holding
    <2>3. Cardinality(fetching) \in Nat /\ Cardinality(Holding) \in Nat /\ Size \in Nat
        BY HoldingFinite, SizePositive DEF Inv, TypeOK, Holding
    <2> QED
        BY <2>2, <2>3 DEF Inv, TypeOK, LimitKept
<1> QED
    BY <1>1, InvInit, InvNext, PTL DEF Spec

\* The flag is read without the semaphore, and yet the goroutine that was told false is
\* never sent to the underlying Fetcher again.
THEOREM OwnFalseIsFinal == Spec => NoFetchAfterOwnFalse
<1>1. Inv /\ [Next]_vars =>
        [\A c \in Caller : pc[c] = "idle" /\ ~more[c] => pc'[c] = "idle"]_vars
    BY DEF Inv, TypeOK, FalseIsSeen, Next, Check, Acquire, FetchReturns, ClearFlag, Release,
           Goto, vars
<1> QED
    BY <1>1, InvInit, InvNext, PTL DEF Spec, NoFetchAfterOwnFalse
======================================================================================
