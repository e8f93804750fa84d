------------------------------- MODULE SemaphoreProofs -------------------------------
(***********************************************************************************)
(* For any number of posters and waiters: the counter of Semaphore is balanced, no  *)
(* parked Wait is overlooked, and Post and Wait implement the safety part of         *)
(* CountingSemaphore. With a single waiter no wake-up is lost.                       *)
(***********************************************************************************)
EXTENDS Semaphore, TLAPS

\* The Load that precedes a CompareAndSwap saw a positive counter. Balanced and
\* IsCounting need it: CompareAndSwap stores v - 1.
LoadedPositive == \A w \in Waiter : pc[w] = "cas" => v[w] > 0

\* Only the end of its context makes a parked Wait return an error.
ExpiredIsDone == \A w \in Waiter : pc[w] = "expired" => w \in done

Inv == TypeOK /\ LoadedPositive /\ ExpiredIsDone /\ Balanced /\ NothingOverlooked

LEMMA InvInit == Init => Inv
  BY DEF Init, Inv, TypeOK, LoadedPositive, ExpiredIsDone, Balanced, NothingOverlooked

LEMMA InvNext == Inv /\ [Next]_vars => Inv'
<1> SUFFICES ASSUME Inv, [Next]_vars PROVE Inv'
    OBVIOUS
<1> USE DEF Inv, TypeOK, LoadedPositive, ExpiredIsDone, Balanced, NothingOverlooked, Goto, Return
<1>1. ASSUME NEW p \in Poster, PostAdd(p) PROVE Inv'
    BY <1>1 DEF PostAdd
<1>2. ASSUME NEW p \in Poster, PostSignal(p) PROVE Inv'
    BY <1>2 DEF PostSignal
<1>3. ASSUME NEW w \in Waiter, WaitCall(w) PROVE Inv'
    BY <1>3 DEF WaitCall
<1>4. ASSUME NEW w \in Waiter, WaitLoad(w) PROVE Inv'
    BY <1>4 DEF WaitLoad
<1>5. ASSUME NEW w \in Waiter, WaitCAS(w) PROVE Inv'
    BY <1>5 DEF WaitCAS
<1>6. ASSUME NEW w \in Waiter, WaitCheck(w) PROVE Inv'
    BY <1>6 DEF WaitCheck
<1>7. ASSUME NEW w \in Waiter, WaitSelect(w) PROVE Inv'
    BY <1>7 DEF WaitSelect
<1>8. ASSUME NEW w \in Waiter, WaitExpired(w) PROVE Inv'
    BY <1>8 DEF WaitExpired
<1>9. ASSUME NEW w \in Waiter, Cancel(w) PROVE Inv'
    BY <1>9 DEF Cancel
<1>10. CASE UNCHANGED vars
    BY <1>10 DEF vars
<1> QED
    BY <1>1, <1>2, <1>3, <1>4, <1>5, <1>6, <1>7, <1>8, <1>9, <1>10 DEF Next, Waiting

\* However Loads, CompareAndSwaps and Posts interleave, no resource is handed out twice,
\* and whatever could resume a parked Wait, a token or its context, has resumed it.
THEOREM NothingIsLost == Spec => []NothingLost
<1>1. Init => Inv
    BY InvInit
<1>2. Inv /\ [Next]_vars => Inv'
    BY InvNext
<1>3. Inv => NothingLost
    BY DEF Inv, NothingLost
<1> QED
    BY <1>1, <1>2, <1>3, PTL DEF Spec

--------------------------------------------------------------------------------------
(* Refinement: Add is Post, a CompareAndSwap that succeeds is Acquire, a return with  *)
(* the context's error is GiveUp; every other step leaves the abstract state alone.   *)

LEMMA RefinesStep == Inv /\ [Next]_vars => [Counting!Next]_(Counting!vars)
<1> SUFFICES ASSUME Inv, [Next]_vars PROVE [Counting!Next]_(Counting!vars)
    OBVIOUS
<1>t. pc \in [Waiter -> {"idle", "load", "cas", "check", "select", "parked", "expired"}]
    BY DEF Inv, TypeOK
<1> USE DEF Counting!Next, Counting!vars
<1>1. ASSUME NEW p \in Poster, PostAdd(p) PROVE Counting!Post
    BY <1>1 DEF PostAdd, Counting!Post
<1>2. ASSUME NEW p \in Poster, PostSignal(p) PROVE UNCHANGED Counting!vars
    BY <1>2, <1>t DEF PostSignal, Goto
<1>3. ASSUME NEW w \in Waiter, WaitCall(w) PROVE Counting!Begin(w)
    BY <1>3, <1>t DEF WaitCall, Goto, Counting!Begin
<1>4. ASSUME NEW w \in Waiter, WaitLoad(w) PROVE UNCHANGED Counting!vars
    BY <1>4, <1>t DEF WaitLoad, Goto
<1>5. ASSUME NEW w \in Waiter, WaitCAS(w)
      PROVE Counting!Acquire(w) \/ UNCHANGED Counting!vars
    <2>1. CASE available = v[w]
        <3>1. available > 0
            BY <1>5, <2>1 DEF Inv, LoadedPositive, WaitCAS
        <3> QED
            BY <1>5, <1>t, <2>1, <3>1 DEF WaitCAS, Goto, Return, Counting!Acquire
    <2>2. CASE available # v[w]
        BY <1>5, <1>t, <2>2 DEF WaitCAS, Goto
    <2> QED
        BY <2>1, <2>2
<1>6. ASSUME NEW w \in Waiter, WaitCheck(w) \/ WaitSelect(w)
      PROVE Counting!GiveUp(w) \/ UNCHANGED Counting!vars
    BY <1>6, <1>t DEF WaitCheck, WaitSelect, Goto, Return, Counting!GiveUp
<1>7. ASSUME NEW w \in Waiter, WaitExpired(w) PROVE Counting!GiveUp(w)
    <2>1. w \in done
        BY <1>7 DEF Inv, ExpiredIsDone, WaitExpired
    <2> QED
        BY <1>7, <1>t, <2>1 DEF WaitExpired, Goto, Return, Counting!GiveUp
<1>8. ASSUME NEW w \in Waiter, Cancel(w) PROVE Counting!Cancel(w)
    BY <1>8, <1>t DEF Cancel, Goto, Counting!Cancel
<1>9. CASE UNCHANGED vars
    BY <1>9 DEF vars
<1> QED
    BY <1>1, <1>2, <1>3, <1>4, <1>5, <1>6, <1>7, <1>8, <1>9 DEF Next, Waiting

\* Post and Wait, with their steps interleaved in any order, are a counting semaphore.
THEOREM ImplementsCounting == Spec => IsCounting
<1>1. Init => Counting!Init
    BY DEF Init, Counting!Init
<1>2. Init => Inv
    BY InvInit
<1>3. Inv /\ [Next]_vars => Inv'
    BY InvNext
<1>4. Inv /\ [Next]_vars => [Counting!Next]_(Counting!vars)
    BY RefinesStep
<1> QED
    BY <1>1, <1>2, <1>3, <1>4, PTL DEF Spec, IsCounting, Counting!Spec

--------------------------------------------------------------------------------------
(* One waiter. A Wait that has loaded 0 and has not parked is owed the token of any   *)
(* Post since then: buffered, or still to be sent.                                    *)

Sending == \E p \in Poster : ppc[p] = "send"

Owed ==
    \A w \in Waiter : available > 0 =>
        /\ pc[w] \in {"check", "select"} => signal = 1 \/ Sending
        /\ pc[w] = "parked" => Sending

LEMMA OwedNext ==
    ASSUME NEW w0, Waiter = {w0}, Inv, Owed, [Next]_vars
    PROVE  Owed'
<1>t. /\ available \in Nat /\ signal \in {0, 1}
      /\ ppc \in [Poster -> {"idle", "send"}]
      /\ pc \in [Waiter -> {"idle", "load", "cas", "check", "select", "parked", "expired"}]
      /\ v \in [Waiter -> Nat]
    BY DEF Inv, TypeOK
<1> USE DEF Owed, Sending, Goto, Return
<1>1. ASSUME NEW p \in Poster, PostAdd(p) PROVE Owed'
    BY <1>1, <1>t DEF PostAdd
<1>2. ASSUME NEW p \in Poster, PostSignal(p) PROVE Owed'
    BY <1>2, <1>t DEF PostSignal
<1>3. ASSUME NEW w \in Waiter, WaitCall(w) PROVE Owed'
    BY <1>3, <1>t DEF WaitCall
<1>4. ASSUME NEW w \in Waiter, WaitLoad(w) PROVE Owed'
    BY <1>4, <1>t DEF WaitLoad
<1>5. ASSUME NEW w \in Waiter, WaitCAS(w) PROVE Owed'
    BY <1>5, <1>t DEF WaitCAS
<1>6. ASSUME NEW w \in Waiter, WaitCheck(w) PROVE Owed'
    BY <1>6, <1>t DEF WaitCheck
<1>7. ASSUME NEW w \in Waiter, WaitSelect(w) PROVE Owed'
    BY <1>7, <1>t DEF WaitSelect
<1>8. ASSUME NEW w \in Waiter, WaitExpired(w) PROVE Owed'
    BY <1>8, <1>t DEF WaitExpired
<1>9. ASSUME NEW w \in Waiter, Cancel(w) PROVE Owed'
    BY <1>9, <1>t DEF Cancel
<1>10. CASE UNCHANGED vars
    BY <1>10 DEF vars
<1> QED
    BY <1>1, <1>2, <1>3, <1>4, <1>5, <1>6, <1>7, <1>8, <1>9, <1>10 DEF Next, Waiting

\* With one goroutine that waits, and any number that post, no wake-up is lost. The
\* assumption is needed: SemaphoreLostWakeup.cfg shows the loss with two.
THEOREM OneWaiterWakes ==
    ASSUME NEW CONSTANT w0, Waiter = {w0}
    PROVE  Spec => []NoLostWakeup
<1>1. Init => Inv /\ Owed
    <2>1. Init => Owed
        BY DEF Init, Owed
    <2> QED
        BY <2>1, InvInit
<1>2. Inv /\ Owed /\ [Next]_vars => Inv' /\ Owed'
    BY InvNext, OwedNext
<1>3. Inv /\ Owed => NoLostWakeup
    BY DEF Owed, Sending, NoLostWakeup
<1> QED
    BY <1>1, <1>2, <1>3, PTL DEF Spec
======================================================================================
