---------------------------- MODULE ConcurrentQueueProofs ----------------------------
(***********************************************************************************)
(* For any number of goroutines, values and nodes: the linked list under the mutex  *)
(* implements the FIFO queue of FifoQueue.                                          *)
(***********************************************************************************)
EXTENDS ConcurrentQueue, TLAPS

\* The mutex excludes: whoever is between Lock and Unlock holds it, and nobody else.
Exclusive ==
    /\ \A c \in Client : pc[c] \in Inside => holder = c
    /\ holder # Empty => pc[holder] \in Inside

\* A value is only pushed once CallPush has set it.
HasArg == \A c \in Client : pc[c] \in {"push", "alloc"} => arg[c] \in Value

\* head and tail are nil together, and tail is the last node.
Whole == (head = nil <=> tail = nil) /\ (tail # nil => tail = Len(heap))

\* What is wrong with the list while a method runs: between the two assignments of Push
\* tail is late, between the two of Pop it may point at the node taken out.
Broken ==
    /\ holder = Empty => Whole
    /\ \A c \in Client :
        /\ pc[c] \in {"alloc", "read", "unlock"} => Whole
        /\ pc[c] = "tail" => head # nil
        /\ pc[c] = "fix" => tail # nil /\ tail = Len(heap)

\* The last node is the last of the list.
LastEnds == Len(heap) > 0 => heap[Len(heap)].next = nil

Inv == TypeOK /\ Exclusive /\ HasArg /\ Broken /\ LastEnds /\ NothingUnlinked

LEMMA InvInit == Init => Inv
  BY EmptyAssumption DEF Init, Inv, TypeOK, Exclusive, HasArg, Broken, Whole, LastEnds,
      NothingUnlinked, Inside, Node, nil

LEMMA AppendType ==
    ASSUME NEW S, NEW s \in Seq(S), NEW x \in S
    PROVE  /\ Append(s, x) \in Seq(S)
           /\ Len(Append(s, x)) = Len(s) + 1
           /\ Append(s, x)[Len(s) + 1] = x
           /\ \A k \in 1 .. Len(s) : Append(s, x)[k] = s[k]
  OBVIOUS

\* linked is the heap with the last node's next set, before the new node is added.
Links(linked, c) ==
    /\ Len(linked) = Len(heap)
    /\ \A n \in 1 .. Len(heap) :
        /\ linked[n].value = heap[n].value
        /\ linked[n].next = IF n = tail THEN Len(heap) + 1 ELSE heap[n].next
    /\ heap' = Append(linked, [value |-> arg[c], next |-> nil])
    /\ head' = IF tail = nil THEN Len(heap) + 1 ELSE head

LEMMA PushLinkHeap ==
    ASSUME TypeOK, NEW c \in Client, PushLink(c)
    PROVE  \E linked \in Seq(Node) : Links(linked, c)
<1>t. /\ heap \in Seq(Node) /\ Len(heap) \in Nat /\ tail \in 0 .. Len(heap)
    BY DEF TypeOK
<1>1. CASE tail = nil
    <2>1. Links(heap, c)
        BY <1>1, <1>t DEF PushLink, Links, nil
    <2> QED
        BY <2>1, <1>t
<1>2. CASE tail # nil
    <2> DEFINE linked == [heap EXCEPT ![tail].next = Len(heap) + 1]
    <2>1. tail \in 1 .. Len(heap)
        BY <1>2, <1>t DEF nil
    <2>2. heap[tail] \in Node /\ [heap[tail] EXCEPT !.next = Len(heap) + 1] \in Node
        <3>1. heap[tail] \in Node /\ Len(heap) + 1 \in Nat
            BY <2>1, <1>t
        <3> QED
            BY <3>1 DEF Node
    <2>3. linked \in Seq(Node) /\ Len(linked) = Len(heap)
        BY <2>1, <2>2, <1>t
    <2>4. \A n \in 1 .. Len(heap) :
            linked[n] = IF n = tail THEN [heap[n] EXCEPT !.next = Len(heap) + 1] ELSE heap[n]
        BY <2>1, <1>t
    <2>5. \A n \in 1 .. Len(heap) : heap[n] \in Node
        BY <1>t
    <2>6. \A n \in 1 .. Len(heap) :
            /\ linked[n].value = heap[n].value
            /\ linked[n].next = IF n = tail THEN Len(heap) + 1 ELSE heap[n].next
        BY <2>4, <2>5 DEF Node
    <2>7. /\ heap' = Append(linked, [value |-> arg[c], next |-> nil])
          /\ head' = head
        BY <1>2 DEF PushLink
    <2> HIDE DEF linked
    <2>8. Links(linked, c)
        BY <1>2, <2>3, <2>6, <2>7 DEF Links
    <2> QED
        BY <2>3, <2>8
<1> QED
    BY <1>1, <1>2

LEMMA InvNext == Inv /\ [Next]_vars => Inv'
<1> SUFFICES ASSUME Inv, [Next]_vars PROVE Inv'
    OBVIOUS
<1> USE EmptyAssumption
<1>t. /\ heap \in Seq(Node) /\ Len(heap) \in Nat
      /\ head \in 0 .. Len(heap) /\ tail \in 0 .. Len(heap)
      /\ holder \in Client \cup {Empty}
      /\ pc \in [Client -> {"idle", "push", "pop"} \cup Inside]
      /\ arg \in [Client -> Value \cup {Empty}]
      /\ got \in [Client -> Value \cup {Empty}]
    BY DEF Inv, TypeOK
<1>1. ASSUME NEW c \in Client, NEW x \in Value, CallPush(c, x) PROVE Inv'
    BY <1>1 DEF CallPush, Goto, Inv, TypeOK, Exclusive, HasArg, Broken, Whole, LastEnds,
        NothingUnlinked, Inside
<1>2. ASSUME NEW c \in Client, CallPop(c) PROVE Inv'
    BY <1>2 DEF CallPop, Goto, Inv, TypeOK, Exclusive, HasArg, Broken, Whole, LastEnds,
        NothingUnlinked, Inside
<1>3. ASSUME NEW c \in Client, Lock(c) PROVE Inv'
    BY <1>3 DEF Lock, Goto, Inv, TypeOK, Exclusive, HasArg, Broken, Whole, LastEnds,
        NothingUnlinked, Inside
<1>4. ASSUME NEW c \in Client, PushLink(c) PROVE Inv'
    <2>1. /\ pc[c] = "alloc" /\ holder = c /\ Whole /\ arg[c] \in Value
          /\ pc' = [pc EXCEPT ![c] = "tail"]
          /\ UNCHANGED <<tail, holder, arg, got>>
        BY <1>4 DEF PushLink, Goto, Inv, Exclusive, HasArg, Broken, Inside
    <2>2. PICK linked \in Seq(Node) : Links(linked, c)
        BY <1>4, <2>1, PushLinkHeap DEF Inv
    <2>3. /\ heap' \in Seq(Node) /\ Len(heap') = Len(heap) + 1
          /\ head' = IF tail = nil THEN Len(heap) + 1 ELSE head
          /\ heap'[Len(heap) + 1].next = nil
          /\ tail # nil => heap'[Len(heap)].next = Len(heap) + 1
          /\ \A n \in 1 .. Len(heap) - 1 : heap'[n].next = heap[n].next
        <3>1. [value |-> arg[c], next |-> nil] \in Node
            BY <2>1 DEF Node, nil
        <3>2. tail # nil => tail = Len(heap)
            BY <2>1 DEF Whole
        <3> QED
            BY <2>2, <3>1, <3>2, <1>t, AppendType DEF Links, nil
    <2>4. TypeOK'
        BY <2>1, <2>3, <1>t DEF TypeOK, Inside, nil
    <2>5. LastEnds' /\ NothingUnlinked'
        <3>1. CASE tail = nil
            BY <2>3, <3>1, <1>t DEF LastEnds, NothingUnlinked, nil
        <3>2. CASE tail # nil
            <4>1. head # nil /\ head' = head
                BY <2>1, <2>3, <3>2 DEF Whole
            <4>2. \A n \in head .. Len(heap) - 1 : heap[n].next = n + 1
                BY <4>1 DEF Inv, NothingUnlinked
            <4> QED
                BY <2>3, <3>2, <4>1, <4>2, <1>t DEF LastEnds, NothingUnlinked, nil
        <3> QED
            BY <3>1, <3>2
    <2>6. Exclusive' /\ HasArg'
        BY <2>1, <1>t DEF Inv, Exclusive, HasArg, Inside
    <2>7. Broken'
        <3>1. head' # nil
            BY <2>1, <2>3, <1>t DEF Whole, nil
        <3>2. \A d \in Client : d # c => pc'[d] \notin Inside
            BY <2>1, <1>t DEF Inv, Exclusive
        <3> QED
            BY <2>1, <3>1, <3>2, <1>t DEF Broken, Inside
    <2> QED
        BY <2>4, <2>5, <2>6, <2>7 DEF Inv
<1>5. ASSUME NEW c \in Client, PushTail(c) PROVE Inv'
    BY <1>5, <1>t DEF PushTail, Goto, Inv, TypeOK, Exclusive, HasArg, Broken, Whole, LastEnds,
        NothingUnlinked, Inside, nil
<1>6. ASSUME NEW c \in Client, PopEmpty(c) PROVE Inv'
    BY <1>6 DEF PopEmpty, Goto, Inv, TypeOK, Exclusive, HasArg, Broken, Whole, LastEnds,
        NothingUnlinked, Inside
<1>7. ASSUME NEW c \in Client, PopHead(c) PROVE Inv'
    <2>1. /\ pc[c] = "read" /\ holder = c /\ Whole /\ head # nil
          /\ pc' = [pc EXCEPT ![c] = "fix"]
          /\ got' = [got EXCEPT ![c] = heap[head].value]
          /\ UNCHANGED <<tail, heap, holder, arg>>
        BY <1>7 DEF PopHead, Goto, Inv, Exclusive, Broken, Inside
    <2>2. head' = IF head = Len(heap) THEN nil ELSE head + 1
        BY <1>7, <2>1, <1>t DEF PopHead, Inv, LastEnds, NothingUnlinked, nil
    <2>3. heap[head].value \in Value
        <3>1. heap[head] \in Node
            BY <2>1, <1>t DEF nil
        <3> QED
            BY <3>1 DEF Node
    <2>4. TypeOK'
        BY <2>1, <2>2, <2>3, <1>t DEF TypeOK, Inside, nil
    <2>5. LastEnds' /\ NothingUnlinked'
        BY <2>1, <2>2, <1>t DEF Inv, LastEnds, NothingUnlinked, nil
    <2>6. Exclusive' /\ HasArg'
        BY <2>1, <1>t DEF Inv, Exclusive, HasArg, Inside
    <2>7. Broken'
        <3>1. \A d \in Client : d # c => pc'[d] \notin Inside
            BY <2>1, <1>t DEF Inv, Exclusive
        <3>2. holder' # Empty /\ tail' # nil /\ tail' = Len(heap')
            BY <2>1 DEF Whole
        <3> QED
            BY <2>1, <3>1, <3>2, <1>t DEF Broken, Inside
    <2> QED
        BY <2>4, <2>5, <2>6, <2>7 DEF Inv
<1>8. ASSUME NEW c \in Client, PopTail(c) PROVE Inv'
    BY <1>8, <1>t DEF PopTail, Goto, Inv, TypeOK, Exclusive, HasArg, Broken, Whole, LastEnds,
        NothingUnlinked, Inside, nil
<1>9. ASSUME NEW c \in Client, Unlock(c) PROVE Inv'
    BY <1>9 DEF Unlock, Goto, Inv, TypeOK, Exclusive, HasArg, Broken, Whole, LastEnds,
        NothingUnlinked, Inside
<1>10. CASE UNCHANGED vars
    BY <1>10 DEF vars, Inv, TypeOK, Exclusive, HasArg, Broken, Whole, LastEnds,
        NothingUnlinked, Inside
<1> QED
    BY <1>1, <1>2, <1>3, <1>4, <1>5, <1>6, <1>7, <1>8, <1>9, <1>10 DEF Next

--------------------------------------------------------------------------------------
(* Refinement: linking the node is Push, moving head or finding it nil is Pop.        *)

LEMMA PushAppends ==
    ASSUME Inv, NEW c \in Client, PushLink(c)
    PROVE  Contents' = Append(Contents, arg[c])
<1>t. /\ heap \in Seq(Node) /\ Len(heap) \in Nat
      /\ head \in 0 .. Len(heap) /\ tail \in 0 .. Len(heap)
    BY DEF Inv, TypeOK
<1>1. Whole /\ arg[c] \in Value
    BY DEF PushLink, Inv, Broken, HasArg
<1>2. PICK linked \in Seq(Node) : Links(linked, c)
    BY PushLinkHeap DEF Inv
<1>3. [value |-> arg[c], next |-> nil] \in Node
    BY <1>1 DEF Node, nil
<1>4. /\ heap' \in Seq(Node) /\ Len(heap') = Len(heap) + 1
      /\ heap'[Len(heap) + 1].value = arg[c]
      /\ \A n \in 1 .. Len(heap) : heap'[n].value = heap[n].value
      /\ head' = IF tail = nil THEN Len(heap) + 1 ELSE head
    BY <1>2, <1>3, <1>t, AppendType DEF Links
<1>5. CASE tail = nil
    <2>1. Contents = <<>>
        BY <1>1, <1>5 DEF Contents, Whole
    <2>2. Contents' = [k \in 1 .. 1 |-> arg[c]]
        BY <1>4, <1>5, <1>t DEF Contents, nil
    <2> QED
        BY <2>1, <2>2
<1>6. CASE tail # nil
    <2> DEFINE n == Len(heap) - head + 1
    <2>1. head \in 1 .. Len(heap) /\ head' = head
        BY <1>1, <1>4, <1>6, <1>t DEF Whole, nil
    <2>2. n \in Nat /\ n = Len(heap) - head + 1
        BY <2>1, <1>t
    <2>3. Contents = [k \in 1 .. n |-> heap[head + k - 1].value]
        BY <2>1 DEF Contents, nil
    <2>4. Contents' = [k \in 1 .. n + 1 |-> heap'[head + k - 1].value]
        <3>1. head' # nil /\ Len(heap') - head' + 1 = n + 1
            <4>1. Len(heap') = Len(heap) + 1
                BY <1>4
            <4> HIDE DEF n
            <4> QED
                BY <4>1, <2>1, <2>2, <1>t DEF nil
        <3>2. Contents' = [k \in 1 .. Len(heap') - head' + 1 |-> heap'[head' + k - 1].value]
            BY <3>1 DEF Contents
        <3> HIDE DEF n
        <3> QED
            BY <2>1, <3>1, <3>2
    <2> HIDE DEF n
    <2>5. \A k \in 1 .. n : head + k - 1 \in 1 .. Len(heap)
        BY <2>1, <2>2, <1>t
    <2>6. head + (n + 1) - 1 = Len(heap) + 1
        BY <2>1, <2>2, <1>t
    <2>7. Append(Contents, arg[c])
            = [k \in 1 .. n + 1 |-> IF k = n + 1 THEN arg[c] ELSE heap[head + k - 1].value]
        BY <2>2, <2>3
    <2>8. \A k \in 1 .. n + 1 :
            heap'[head + k - 1].value = IF k = n + 1 THEN arg[c] ELSE heap[head + k - 1].value
        BY <1>4, <2>2, <2>5, <2>6
    <2> QED
        BY <2>4, <2>7, <2>8
<1> QED
    BY <1>5, <1>6

LEMMA PopTakesHead ==
    ASSUME Inv, NEW c \in Client, PopHead(c)
    PROVE  /\ Contents # <<>>
           /\ heap[head].value = Head(Contents)
           /\ Contents' = Tail(Contents)
<1>t. /\ heap \in Seq(Node) /\ Len(heap) \in Nat /\ head \in 1 .. Len(heap)
    BY DEF PopHead, Inv, TypeOK, nil
<1>1. heap' = heap /\ head' = IF head = Len(heap) THEN nil ELSE head + 1
    BY <1>t DEF PopHead, Inv, LastEnds, NothingUnlinked, nil
<1> DEFINE n == Len(heap) - head + 1
<1>2. n \in Nat \ {0} /\ n = Len(heap) - head + 1
    BY <1>t
<1>3. Contents = [k \in 1 .. n |-> heap[head + k - 1].value]
    BY <1>t DEF Contents, nil
<1> HIDE DEF n
<1>4. Contents # <<>> /\ Head(Contents) = heap[head + 1 - 1].value
    BY <1>2, <1>3
<1>5. Tail(Contents) = [k \in 1 .. n - 1 |-> heap[head + (k + 1) - 1].value]
    BY <1>2, <1>3
<1>6. Contents' = [k \in 1 .. n - 1 |-> heap[head + 1 + k - 1].value]
    <2>1. CASE head = Len(heap)
        <3>1. n - 1 = 0 /\ Contents' = <<>>
            BY <1>1, <1>2, <1>t, <2>1 DEF Contents
        <3> QED
            BY <3>1
    <2>2. CASE head # Len(heap)
        <3>1. head' # nil /\ head' = head + 1 /\ Len(heap') - head' + 1 = n - 1
            BY <1>1, <1>2, <1>t, <2>2 DEF nil
        <3>2. Contents' = [k \in 1 .. Len(heap') - head' + 1 |-> heap'[head' + k - 1].value]
            BY <3>1 DEF Contents
        <3> QED
            BY <1>1, <3>1, <3>2
    <2> QED
        BY <2>1, <2>2
<1>7. \A k \in 1 .. n - 1 : head + (k + 1) - 1 = head + 1 + k - 1
    BY <1>2, <1>t
<1> QED
    BY <1>4, <1>5, <1>6, <1>7, <1>t

LEMMA RefinesStep == Inv /\ [Next]_vars => [Fifo!Next]_(Fifo!vars)
<1> SUFFICES ASSUME Inv, [Next]_vars PROVE [Fifo!Next]_(Fifo!vars)
    OBVIOUS
<1>t. pc \in [Client -> {"idle", "push", "pop"} \cup Inside]
    BY DEF Inv, TypeOK
<1> USE DEF Inside, AbstractCall, Goto
<1>1. ASSUME NEW c \in Client, NEW x \in Value, CallPush(c, x) PROVE Fifo!CallPush(c, x)
    BY <1>1, <1>t DEF CallPush, Fifo!CallPush, Contents
<1>2. ASSUME NEW c \in Client, CallPop(c) PROVE Fifo!CallPop(c)
    BY <1>2, <1>t DEF CallPop, Fifo!CallPop, Contents
<1>3. ASSUME NEW c \in Client, Lock(c) PROVE UNCHANGED Fifo!vars
    BY <1>3, <1>t DEF Lock, Fifo!vars, Contents
<1>4. ASSUME NEW c \in Client, PushLink(c) PROVE Fifo!Push(c)
    BY <1>4, <1>t, PushAppends DEF PushLink, Fifo!Push
<1>5. ASSUME NEW c \in Client, PushTail(c) PROVE UNCHANGED Fifo!vars
    BY <1>5, <1>t DEF PushTail, Fifo!vars, Contents
<1>6. ASSUME NEW c \in Client, PopEmpty(c) PROVE Fifo!Pop(c)
    BY <1>6, <1>t DEF PopEmpty, Fifo!Pop, Contents
<1>7. ASSUME NEW c \in Client, PopHead(c) PROVE Fifo!Pop(c)
    BY <1>7, <1>t, PopTakesHead DEF PopHead, Fifo!Pop
<1>8. ASSUME NEW c \in Client, PopTail(c) PROVE UNCHANGED Fifo!vars
    BY <1>8, <1>t DEF PopTail, Fifo!vars, Contents
<1>9. ASSUME NEW c \in Client, Unlock(c) PROVE Fifo!Return(c)
    BY <1>9, <1>t DEF Unlock, Fifo!Return, Contents
<1>10. CASE UNCHANGED vars
    BY <1>10 DEF vars, Fifo!vars, Contents
<1> QED
    BY <1>1, <1>2, <1>3, <1>4, <1>5, <1>6, <1>7, <1>8, <1>9, <1>10 DEF Next, Fifo!Next

\* The linked list under the mutex is a FIFO queue: every Push and Pop takes effect at
\* one step between its call and its return.
THEOREM ImplementsFifo == Spec => IsFifo
<1>1. Init => Fifo!Init
    BY DEF Init, Fifo!Init, Contents, AbstractCall
<1>2. Init => Inv
    BY InvInit
<1>3. Inv /\ [Next]_vars => Inv'
    BY InvNext
<1>4. Inv /\ [Next]_vars => [Fifo!Next]_(Fifo!vars)
    BY RefinesStep
<1> QED
    BY <1>1, <1>2, <1>3, <1>4, PTL DEF Spec, IsFifo, Fifo!Spec

\* Nothing is ever linked behind a node that has left the list, and outside the methods
\* head and tail agree.
THEOREM ListIsWhole == Spec => []ListSound
<1>1. Init => Inv
    BY InvInit
<1>2. Inv /\ [Next]_vars => Inv'
    BY InvNext
<1>3. Inv => ListWhole
    BY DEF Inv, ListWhole, Broken, Whole, LastEnds, TypeOK, nil
<1>4. Inv => ListSound
    BY <1>3 DEF Inv, ListSound
<1> QED
    BY <1>1, <1>2, <1>4, PTL DEF Spec
======================================================================================
