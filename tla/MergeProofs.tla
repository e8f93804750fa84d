--------------------------------- MODULE MergeProofs ---------------------------------
(***********************************************************************************)
(* For any number of sources, any capacity of out and all three functions of        *)
(* merge_channels.go: no send on a closed channel; nothing is dropped, repeated or  *)
(* reordered; nil is returned for complete merges only.                             *)
(***********************************************************************************)
EXTENDS Merge, FiniteSetTheorems, SequenceTheorems, TLAPS

Item == Source \X Nat
Label == {"none", "read", "send", "exit"}

\* out is closed after the readers, or by RefuseCancelled instead of them.
ClosedIsOver ==
    outClosed => \A s \in Source :
        pc[s] = "exit" \/ (pc[s] = "none" /\ mode = "cancel" /\ result = "err")

\* The last goroutine is started after the readers and gets past wg.Wait() after them.
CloserIsLast ==
    \A s \in Source :
        /\ closer # "none" => pc[s] # "none"
        /\ closer \in {"report", "exit"} => pc[s] = "exit"

Emptied(s) == closed[s] /\ taken[s] = sent[s]

\* A reader leaves its source when it has emptied it, or because of the context.
ExitHasCause ==
    \A s \in Source : pc[s] = "exit" => Emptied(s) \/ (mode = "cancel" /\ cancelled)

\* What Report has found holds from then on, whatever happens to the context later.
NilWasTrue == mode = "cancel" /\ result = "nil" => \A s \in Source : Emptied(s)

\* A reader that sends has taken something.
SenderHasValue == \A s \in Source : pc[s] = "send" => taken[s] > 0

Control == ClosedIsOver /\ CloserIsLast /\ ExitHasCause /\ NilWasTrue /\ SenderHasValue

Inv == TypeOK /\ Control /\ NothingLost

--------------------------------------------------------------------------------------
(* The WaitGroup.                                                                     *)

LEMMA RunningFinite == IsFiniteSet(Running) /\ Cardinality(Running) \in Nat
<1>1. Running \subseteq Source
    BY DEF Running
<1> QED
    BY <1>1, MergeAssumption, FS_Subset, FS_CardinalityType

LEMMA SpawnCounts ==
    ASSUME NEW s \in Source, pc \in [Source -> Label], pc[s] = "none", Goto(s, "read")
    PROVE  Cardinality(Running') = Cardinality(Running) + 1
<1>1. Running' = Running \cup {s} /\ s \notin Running
    BY DEF Running, Goto, Label
<1> QED
    BY <1>1, RunningFinite, FS_AddElement

LEMMA ExitCounts ==
    ASSUME NEW s \in Source, pc \in [Source -> Label], pc[s] = "read", Goto(s, "exit")
    PROVE  Cardinality(Running') = Cardinality(Running) - 1
<1>1. Running' = Running \ {s} /\ s \in Running
    BY DEF Running, Goto, Label
<1> QED
    BY <1>1, RunningFinite, FS_RemoveElement

LEMMA StayCounts ==
    ASSUME NEW s \in Source, pc \in [Source -> Label], pc[s] \in {"read", "send"},
           NEW label \in {"read", "send"}, Goto(s, label)
    PROVE  Running' = Running
BY DEF Running, Goto, Label

\* wg.Wait() lets the closer through when nobody runs.
LEMMA ZeroIsNobody ==
    ASSUME wg = Cardinality(Running), wg = 0
    PROVE  Running = {}
BY RunningFinite, FS_EmptySet

--------------------------------------------------------------------------------------
(* Sequences.                                                                         *)

\* The consumer takes the head of the buffer: what has gone out is the same.
LEMMA ConsumeKeepsGone ==
    ASSUME NEW S, NEW r \in Seq(S), NEW o \in Seq(S), o # <<>>
    PROVE  Append(r, Head(o)) \o Tail(o) = r \o o
<1> DEFINE l == Append(r, Head(o)) \o Tail(o)
           m == r \o o
<1>1. Head(o) \in S /\ Tail(o) \in Seq(S) /\ Len(o) \in Nat \ {0} /\ Len(Tail(o)) = Len(o) - 1
    BY HeadTailProperties, EmptySeq
<1>2. l \in Seq(S) /\ m \in Seq(S) /\ Len(l) = Len(m)
    BY <1>1
<1>3. \A i \in 1 .. Len(l) : l[i] = m[i]
    BY <1>1
<1> QED
    BY <1>2, <1>3, SeqEqual

LEMMA AppendToGone ==
    ASSUME NEW S, NEW r \in Seq(S), NEW o \in Seq(S), NEW x \in S
    PROVE  r \o Append(o, x) = Append(r \o o, x)
<1> DEFINE l == r \o Append(o, x)
           m == Append(r \o o, x)
<1>1. l \in Seq(S) /\ m \in Seq(S) /\ Len(l) = Len(m)
    OBVIOUS
<1>2. \A i \in 1 .. Len(l) : l[i] = m[i]
    OBVIOUS
<1> QED
    BY <1>1, <1>2, SeqEqual

--------------------------------------------------------------------------------------
LEMMA InvInit == Init => Inv
<1> SUFFICES ASSUME Init PROVE Inv
    OBVIOUS
<1>1. Running = {}
    BY DEF Init, Running
<1>2. Cardinality(Running) = 0
    BY <1>1, FS_EmptySet
<1>3. Len(out) <= cap
    BY MergeAssumption DEF Init
<1>a. out \in Seq(Source \X Nat) /\ received \in Seq(Source \X Nat)
    BY DEF Init
<1>b. \A s \in Source : taken[s] <= sent[s]
    BY DEF Init
<1>4. TypeOK
    BY <1>2, <1>3, <1>a, <1>b DEF Init, TypeOK
<1>5. Control
    BY DEF Init, Control, ClosedIsOver, CloserIsLast, ExitHasCause, NilWasTrue,
           SenderHasValue
<1>6. Gone = <<>>
    BY DEF Init, Gone
<1>7. NothingLost
    BY <1>6 DEF Init, NothingLost
<1> QED
    BY <1>4, <1>5, <1>7 DEF Inv

LEMMA TypeNext == TypeOK /\ [Next]_vars => TypeOK'
<1> SUFFICES ASSUME TypeOK, [Next]_vars PROVE TypeOK'
    OBVIOUS
<1>t. /\ pc \in [Source -> Label] /\ wg = Cardinality(Running) /\ wg \in Nat
      /\ sent \in [Source -> Nat] /\ taken \in [Source -> Nat]
      /\ \A s \in Source : taken[s] <= sent[s]
      /\ cap \in Nat /\ Len(out) <= cap
      /\ out \in Seq(Item) /\ received \in Seq(Item)
    BY RunningFinite, MergeAssumption DEF TypeOK, Running, Label, Item
<1> USE DEF source, output
<1>1. CASE RefuseCancelled
    BY <1>1 DEF TypeOK, RefuseCancelled, Running
<1>2. ASSUME NEW s \in Source, Spawn(s) PROVE TypeOK'
    <2>1. wg' = Cardinality(Running')
        BY <1>2, <1>t, SpawnCounts DEF Spawn
    <2> QED
        BY <1>2, <2>1 DEF TypeOK, Spawn, Goto
<1>3. CASE SpawnCloser
    BY <1>3 DEF TypeOK, SpawnCloser, Running
<1>4. ASSUME NEW s \in Source, ReadChannel(s) \/ ReadFetcher(s) \/ ReadOrCancel(s)
      PROVE  TypeOK'
    <2>1. CASE Exit(s)
        <3>1. wg' = Cardinality(Running')
            BY <1>4, <1>t, <2>1, ExitCounts DEF Exit, ReadChannel, ReadFetcher, ReadOrCancel
        <3> QED
            BY <1>4, <2>1, <3>1 DEF TypeOK, Exit, Goto, ReadChannel, ReadFetcher,
                                    ReadOrCancel
    <2>2. CASE ~Exit(s)
        <3>1. /\ taken[s] < sent[s] /\ taken' = [taken EXCEPT ![s] = @ + 1]
              /\ Goto(s, "send") /\ UNCHANGED wg
            BY <1>4, <2>2 DEF TakeOrEnd, ReadChannel, ReadFetcher, ReadOrCancel
        <3>2. Running' = Running
            BY <1>4, <1>t, <3>1, StayCounts DEF ReadChannel, ReadFetcher, ReadOrCancel
        <3>3. /\ taken' \in [Source -> Nat]
              /\ UNCHANGED sent => \A x \in Source : taken'[x] <= sent'[x]
            BY <1>t, <3>1
        <3> QED
            BY <1>4, <3>1, <3>2, <3>3 DEF TypeOK, Goto, ReadChannel, ReadFetcher,
                                          ReadOrCancel
    <2> QED
        BY <2>1, <2>2
<1>5. ASSUME NEW s \in Source, SendOut(s) PROVE TypeOK'
    <2>1. Running' = Running
        BY <1>5, <1>t, StayCounts DEF SendOut
    <2>2. <<s, taken[s]>> \in Item
        BY <1>t DEF Item
    <2>3. /\ out' \in Seq(Item) /\ received' \in Seq(Item) /\ Len(out') <= cap'
        <3> DEFINE x == <<s, taken[s]>>
        <3>1. /\ Append(out, x) \in Seq(Item) /\ Len(Append(out, x)) = Len(out) + 1
              /\ Append(received, x) \in Seq(Item) /\ Len(out) \in Nat
            BY <1>t, <2>2, AppendProperties, LenProperties
        <3>2. /\ cap' = cap
              /\ \/ received' = Append(received, x) /\ out' = out
                 \/ Len(out) < cap /\ out' = Append(out, x) /\ received' = received
            BY <1>5 DEF SendOut
        <3>3. CASE received' = Append(received, x) /\ out' = out
            BY <1>t, <3>1, <3>2, <3>3
        <3>4. CASE Len(out) < cap /\ out' = Append(out, x) /\ received' = received
            <4>1. Len(out') = Len(out) + 1
                BY <3>1, <3>4
            <4> QED
                BY <1>t, <3>1, <3>2, <3>4, <4>1
        <3> QED
            BY <3>2, <3>3, <3>4
    <2>4. pc' \in [Source -> {"none", "read", "send", "exit"}]
        BY <1>5 DEF TypeOK, SendOut, Goto
    <2>5. wg' = Cardinality(Running') /\ UNCHANGED <<mode, cap, sent, closed, taken, closer,
                                            outClosed, reading, cancelled, result>>
        BY <1>5, <1>t, <2>1 DEF SendOut
    <2> QED
        BY <2>3, <2>4, <2>5 DEF TypeOK, Item
<1>6. CASE CloseOut
    BY <1>6 DEF TypeOK, CloseOut, Running
<1>7. CASE Report
    BY <1>7 DEF TypeOK, Report, Running
<1>8. ASSUME NEW s \in Source, Produce(s) PROVE TypeOK'
    <2>1. sent' \in [Source -> Nat] /\ \A x \in Source : taken'[x] <= sent'[x]
        BY <1>8, <1>t DEF Produce
    <2> QED
        BY <1>8, <2>1 DEF TypeOK, Produce, Running
<1>9. ASSUME NEW s \in Source, EndSource(s) PROVE TypeOK'
    BY <1>9 DEF TypeOK, EndSource, Running
<1>10. CASE Consume
    <2>1. Head(out) \in Item /\ Tail(out) \in Seq(Item) /\ Len(Tail(out)) = Len(out) - 1
        BY <1>10, <1>t DEF Consume
    <2>2. received' \in Seq(Item) /\ out' \in Seq(Item) /\ Len(out') <= cap'
        BY <1>10, <1>t, <2>1 DEF Consume
    <2> QED
        BY <1>10, <2>2 DEF TypeOK, Consume, Running, Item
<1>11. CASE Desert
    BY <1>11 DEF TypeOK, Desert, Running
<1>12. CASE CancelContext
    BY <1>12 DEF TypeOK, CancelContext, Running
<1>13. CASE UNCHANGED vars
    BY <1>13 DEF TypeOK, vars, Running
<1> QED
    BY <1>1, <1>2, <1>3, <1>4, <1>5, <1>6, <1>7, <1>8, <1>9, <1>10, <1>11, <1>12, <1>13
       DEF Next, Reader

\* Emptied sources stay emptied: nothing is produced on a closed one.
LEMMA EmptiedStays ==
    ASSUME TypeOK, [Next]_vars, NEW s \in Source, Emptied(s)
    PROVE  Emptied(s)'
<1> USE DEF source, output
<1>1. taken[s] \in Nat /\ sent[s] \in Nat
    BY DEF TypeOK
<1>2. UNCHANGED sent \/ \E x \in Source : Produce(x)
    BY DEF Next, Reader, RefuseCancelled, SpawnCloser, CloseOut, Report, Spawn, ReadChannel,
           ReadFetcher, ReadOrCancel, SendOut, EndSource, Consume, Desert, CancelContext, vars
<1>3. sent'[s] = sent[s]
    BY <1>2 DEF Produce, Emptied, TypeOK
<1>4. closed'[s]
    BY DEF Next, Reader, RefuseCancelled, SpawnCloser, CloseOut, Report, Spawn, ReadChannel,
           ReadFetcher, ReadOrCancel, SendOut, Produce, EndSource, Consume, Desert,
           CancelContext, vars, Emptied, TypeOK
<1>5. UNCHANGED taken \/ \E x \in Source : TakeOrEnd(x) \/ Exit(x)
    BY DEF Next, Reader, RefuseCancelled, SpawnCloser, CloseOut, Report, Spawn, ReadChannel,
           ReadFetcher, ReadOrCancel, SendOut, Produce, EndSource, Consume, Desert,
           CancelContext, vars
<1>6. taken'[s] = taken[s]
    BY <1>1, <1>5 DEF TakeOrEnd, Exit, Emptied, TypeOK
<1> QED
    BY <1>3, <1>4, <1>6 DEF Emptied

LEMMA ControlNext == TypeOK /\ Control /\ [Next]_vars => Control'
<1> SUFFICES ASSUME TypeOK, Control, [Next]_vars PROVE Control'
    OBVIOUS
<1>t. pc \in [Source -> Label] /\ wg = Cardinality(Running)
    BY DEF TypeOK, Label
<1>e. \A s \in Source : Emptied(s) => Emptied(s)'
    BY EmptiedStays
<1> USE DEF source, output
<1>1. ClosedIsOver'
    <2>1. CASE CloseOut
        <3>1. Running = {}
            BY <1>t, <2>1, ZeroIsNobody DEF CloseOut
        <3>2. \A s \in Source : pc[s] = "exit"
            BY <1>t, <2>1, <3>1 DEF CloseOut, Running, Label, Control, CloserIsLast
        <3> QED
            BY <2>1, <3>2 DEF CloseOut, ClosedIsOver
    <2>2. CASE ~CloseOut
        BY <2>2, <1>t DEF Next, Reader, RefuseCancelled, SpawnCloser, Report, Spawn,
           ReadChannel, ReadFetcher, ReadOrCancel, SendOut, Produce, EndSource, Consume,
           Desert, CancelContext, vars, Control, ClosedIsOver, CloserIsLast, Label, Goto,
           TakeOrEnd, Exit
    <2> QED
        BY <2>1, <2>2
<1>2. CloserIsLast'
    <2>1. CASE CloseOut
        <3>1. Running = {}
            BY <1>t, <2>1, ZeroIsNobody DEF CloseOut
        <3> QED
            BY <1>t, <2>1, <3>1 DEF CloseOut, Running, Label, Control, CloserIsLast
    <2>2. CASE ~CloseOut
        BY <2>2, <1>t DEF Next, Reader, RefuseCancelled, SpawnCloser, Report, Spawn,
           ReadChannel, ReadFetcher, ReadOrCancel, SendOut, Produce, EndSource, Consume,
           Desert, CancelContext, vars, Control, CloserIsLast, Label, Goto, TakeOrEnd, Exit
    <2> QED
        BY <2>1, <2>2
<1>3. ExitHasCause'
    <2> SUFFICES ASSUME NEW s \in Source, pc'[s] = "exit"
                 PROVE  Emptied(s)' \/ (mode' = "cancel" /\ cancelled')
        BY DEF ExitHasCause
    <2>1. CASE pc[s] = "exit"
        <3>1. mode' = mode /\ (cancelled => cancelled')
            BY DEF Next, Reader, RefuseCancelled, SpawnCloser, CloseOut, Report, Spawn,
               ReadChannel, ReadFetcher, ReadOrCancel, SendOut, Produce, EndSource, Consume,
               Desert, CancelContext, vars
        <3> QED
            BY <1>e, <2>1, <3>1 DEF Control, ExitHasCause
    <2>2. CASE pc[s] # "exit"
        <3>1. ReadChannel(s) \/ ReadFetcher(s) \/ ReadOrCancel(s)
            BY <2>2, <1>t DEF Next, Reader, RefuseCancelled, SpawnCloser, CloseOut, Report,
               Spawn, ReadChannel, ReadFetcher, ReadOrCancel, SendOut, Produce, EndSource,
               Consume, Desert, CancelContext, vars, Goto, Label, TakeOrEnd, Exit
        <3> QED
            BY <1>t, <2>2, <3>1 DEF ReadChannel, ReadFetcher, ReadOrCancel, TakeOrEnd, Exit,
                                    Goto, Emptied
    <2> QED
        BY <2>1, <2>2
<1>4. NilWasTrue'
    <2>1. CASE Report
        BY <1>e, <2>1 DEF Report, Control, CloserIsLast, ExitHasCause, NilWasTrue
    <2>2. CASE ~Report
        <3>1. mode' = mode /\ (mode = "cancel" => result' \in {result, "err"})
            BY <2>2 DEF Next, Reader, RefuseCancelled, SpawnCloser, CloseOut, Report, Spawn,
               ReadChannel, ReadFetcher, ReadOrCancel, SendOut, Produce, EndSource, Consume,
               Desert, CancelContext, vars
        <3> QED
            BY <1>e, <3>1 DEF Control, NilWasTrue
    <2> QED
        BY <2>1, <2>2
<1>5. SenderHasValue'
    <2> SUFFICES ASSUME NEW s \in Source, pc'[s] = "send" PROVE taken'[s] > 0
        BY DEF SenderHasValue
    <2>1. taken \in [Source -> Nat]
        BY DEF TypeOK
    <2>2. CASE \E x \in Source : TakeOrEnd(x) \/ Exit(x)
        BY <1>t, <2>1, <2>2 DEF TakeOrEnd, Exit, Goto, Control, SenderHasValue
    <2>3. CASE ~\E x \in Source : TakeOrEnd(x) \/ Exit(x)
        BY <1>t, <2>3 DEF Next, Reader, RefuseCancelled, SpawnCloser, CloseOut, Report, Spawn,
           ReadChannel, ReadFetcher, ReadOrCancel, SendOut, Produce, EndSource, Consume,
           Desert, CancelContext, vars, Goto, Label, Control, SenderHasValue
    <2> QED
        BY <2>2, <2>3
<1> QED
    BY <1>1, <1>2, <1>3, <1>4, <1>5 DEF Control

--------------------------------------------------------------------------------------
\* The values of s that have gone out.
Left(s) == IF pc[s] = "send" THEN taken[s] - 1 ELSE taken[s]

\* A step that sends nothing: the stream and the number each source has in it stay.
LEMMA LostStutters ==
    ASSUME NothingLost, Gone' = Gone, \A s \in Source : Left(s)' = Left(s)
    PROVE  NothingLost'
BY DEF NothingLost, Left

\* out <- v: the next value of s goes behind everything that has gone out.
LEMMA LostAppends ==
    ASSUME NothingLost, NEW s \in Source, Gone \in Seq(Item),
           \A x \in Source : Left(x) \in Nat,
           Gone' = Append(Gone, <<s, Left(s) + 1>>), Left(s)' = Left(s) + 1,
           \A x \in Source \ {s} : Left(x)' = Left(x)
    PROVE  NothingLost'
<1> DEFINE n == Len(Gone)
           v == <<s, Left(s) + 1>>
           H == Append(Gone, v)
<1>1. /\ n \in Nat /\ DOMAIN Gone = 1 .. n /\ v \in Item
      /\ DOMAIN H = 1 .. n + 1 /\ H[n + 1] = v /\ \A p \in 1 .. n : H[p] = Gone[p]
    BY DEF Item
<1>2. \A x \in Source : \A k \in 1 .. Left(x) : \E p \in 1 .. n : Gone[p] = <<x, k>>
    <2>1. \A x \in Source : \A k \in 1 .. Left(x) : \E p \in DOMAIN Gone : Gone[p] = <<x, k>>
        BY Zenon DEF NothingLost, Left
    <2>2. DOMAIN Gone = 1 .. n
        BY <1>1
    <2> QED
        BY <2>1, <2>2, Zenon
<1>3. \A x \in Source : \A p \in 1 .. n : Gone[p][1] = x =>
        /\ Gone[p][2] \in 1 .. Left(x)
        /\ \A q \in 1 .. p - 1 : Gone[q][1] = x => Gone[q][2] < Gone[p][2]
    BY <1>1 DEF NothingLost, Left
<1>g. Gone' = H
    OBVIOUS
<1> HIDE DEF H, n
<1> SUFFICES ASSUME NEW x \in Source
             PROVE  /\ \A k \in 1 .. Left(x)' : \E p \in DOMAIN Gone' : Gone'[p] = <<x, k>>
                    /\ \A p \in DOMAIN Gone' : Gone'[p][1] = x =>
                        /\ Gone'[p][2] \in 1 .. Left(x)'
                        /\ \A q \in 1 .. p - 1 : Gone'[q][1] = x => Gone'[q][2] < Gone'[p][2]
    BY DEF NothingLost, Left
<1>4. ASSUME NEW k \in 1 .. Left(x)' PROVE \E p \in 1 .. n + 1 : H[p] = <<x, k>>
    <2>1. CASE k \in 1 .. Left(x)
        <3>1. PICK p \in 1 .. n : Gone[p] = <<x, k>>
            BY <1>2, <2>1
        <3> QED
            BY <1>1, <3>1
    <2>2. CASE k \notin 1 .. Left(x)
        <3>1. x = s /\ k = Left(s) + 1
            BY <1>4, <2>2
        <3> QED
            BY <1>1, <3>1
    <2> QED
        BY <2>1, <2>2
<1>5. ASSUME NEW p \in 1 .. n + 1, H[p][1] = x
      PROVE  /\ H[p][2] \in 1 .. Left(x)'
             /\ \A q \in 1 .. p - 1 : H[q][1] = x => H[q][2] < H[p][2]
    <2>1. CASE p \in 1 .. n
        <3>1. H[p] = Gone[p] /\ \A q \in 1 .. p - 1 : H[q] = Gone[q]
            BY <1>1, <2>1
        <3>2. Left(x) \in Nat /\ (Left(x)' = Left(x) \/ Left(x)' = Left(x) + 1)
            OBVIOUS
        <3>3. Gone[p][1] = x
            BY <1>5, <3>1
        <3>4. H[p][2] \in 1 .. Left(x)
            BY <1>3, <2>1, <3>1, <3>3
        <3>5. H[p][2] \in 1 .. Left(x)'
            BY <3>2, <3>4
        <3>6. \A q \in 1 .. p - 1 : H[q][1] = x => H[q][2] < H[p][2]
            BY <1>3, <2>1, <3>1, <3>3
        <3> QED
            BY <3>5, <3>6
    <2>2. CASE p = n + 1
        <3>1. x = s /\ H[p][2] = Left(s) + 1
            BY <1>1, <1>5, <2>2
        <3>2. \A q \in 1 .. p - 1 : H[q] = Gone[q] /\ q \in 1 .. n
            BY <1>1, <2>2
        <3> QED
            BY <1>3, <3>1, <3>2
    <2> QED
        BY <1>1, <2>1, <2>2
<1> QED
    BY <1>g, <1>1, <1>4, <1>5

LEMMA LostNext == TypeOK /\ SenderHasValue /\ NothingLost /\ [Next]_vars => NothingLost'
<1> SUFFICES ASSUME TypeOK, SenderHasValue, NothingLost, [Next]_vars PROVE NothingLost'
    OBVIOUS
<1>t. /\ pc \in [Source -> Label] /\ taken \in [Source -> Nat]
      /\ cap \in Nat /\ Len(out) <= cap
      /\ out \in Seq(Item) /\ received \in Seq(Item)
    BY MergeAssumption DEF TypeOK, Label, Item
<1> USE DEF source, output
<1>1. ASSUME NEW s \in Source, SendOut(s) PROVE NothingLost'
    <2> DEFINE v == <<s, taken[s]>>
    <2>1. v \in Item /\ taken[s] \in Nat
        BY <1>t DEF Item
    <2>2. Gone' = Append(Gone, v)
        <3>1. CASE cap = 0 /\ received' = Append(received, v) /\ out' = out
            <4>1. out = <<>>
                BY <1>t, <3>1, EmptySeq
            <4>2. received' \in Seq(Item)
                BY <1>t, <2>1, <3>1
            <4>3. Gone' = received' /\ Gone = received
                BY <1>t, <3>1, <4>1, <4>2, ConcatEmptySeq DEF Gone
            <4> QED
                BY <3>1, <4>3
        <3>2. CASE out' = Append(out, v) /\ received' = received
            BY <1>t, <2>1, <3>2, AppendToGone DEF Gone
        <3> QED
            BY <1>1, <3>1, <3>2 DEF SendOut
    <2>3. Gone \in Seq(Item)
        BY <1>t, ConcatProperties DEF Gone
    <2>4. pc[s] = "send" /\ pc' = [pc EXCEPT ![s] = "read"] /\ taken' = taken
        BY <1>1 DEF SendOut, Goto
    <2>5. Left(s) = taken[s] - 1 /\ Left(s)' = taken[s]
        BY <1>t, <2>4 DEF Left
    <2>6. \A x \in Source \ {s} : Left(x)' = Left(x)
        BY <1>t, <2>4 DEF Left
    <2>7. \A x \in Source : Left(x) \in Nat
        BY <1>t DEF Left, SenderHasValue
    <2> QED
        BY <2>1, <2>2, <2>3, <2>5, <2>6, <2>7, LostAppends
<1>2. CASE Consume
    <2>1. Gone' = Gone
        BY <1>t, <1>2, ConsumeKeepsGone DEF Consume, Gone
    <2>2. \A s \in Source : Left(s)' = Left(s)
        BY <1>2 DEF Consume, Left
    <2> QED
        BY <2>1, <2>2, LostStutters
<1>3. CASE ~Consume /\ \A s \in Source : ~SendOut(s)
    <2>1. Gone' = Gone
        BY <1>3 DEF Gone, Next, Reader, RefuseCancelled, SpawnCloser, CloseOut, Report,
           Spawn, ReadChannel, ReadFetcher, ReadOrCancel, Produce, EndSource, Desert,
           CancelContext, vars
    <2>2. \A s \in Source : Left(s)' = Left(s)
        <3>1. CASE \E x \in Source : pc[x] = "read" /\ (TakeOrEnd(x) \/ Exit(x))
            BY <1>t, <3>1 DEF TakeOrEnd, Exit, Goto, Left
        <3>2. CASE ~\E x \in Source : pc[x] = "read" /\ (TakeOrEnd(x) \/ Exit(x))
            BY <1>3, <1>t, <3>2 DEF Left, Next, Reader, RefuseCancelled, SpawnCloser,
               CloseOut, Report, Spawn, ReadChannel, ReadFetcher, ReadOrCancel, Produce,
               EndSource, Desert, CancelContext, vars, Goto, Label
        <3> QED
            BY <3>1, <3>2
    <2> QED
        BY <2>1, <2>2, LostStutters
<1> QED
    BY <1>1, <1>2, <1>3

LEMMA InvNext == Inv /\ [Next]_vars => Inv'
BY TypeNext, ControlNext, LostNext DEF Inv, Control

--------------------------------------------------------------------------------------
\* The goroutine that closes out runs after every reader, in all three functions and also
\* when the context ends between the check and the first reader.
THEOREM NeverSendsOnClosed == Spec => []NoSendOnClosed
<1>1. Inv => NoSendOnClosed
    BY DEF Inv, Control, ClosedIsOver, NoSendOnClosed
<1> QED
    BY <1>1, InvInit, InvNext, PTL DEF Spec

\* "if a value is read out of an input channel, it is tried to put into the output", once
\* and in order, and a nil error means that every source was emptied.
THEOREM MergeIsExact == Spec => []MergesAll
<1>1. Inv => MergesAll
    <2>1. Inv => NilIsComplete
        BY DEF Inv, Control, ClosedIsOver, ExitHasCause, NilWasTrue, NilIsComplete, Emptied
    <2> QED
        BY <2>1 DEF Inv, MergesAll
<1> QED
    BY <1>1, InvInit, InvNext, PTL DEF Spec
======================================================================================
