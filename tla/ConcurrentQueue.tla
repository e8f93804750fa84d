------------------------------- MODULE ConcurrentQueue -------------------------------
(***********************************************************************************)
(* lab0/queue.go: the linked list of Queue, one step per assignment, under the      *)
(* mutex of ConcurrentQueue.                                                        *)
(*                                                                                 *)
(* The heap is an array of nodes, allocated in order and never reused (the garbage  *)
(* collector frees nothing that is reachable). Address 0 is nil.                    *)
(***********************************************************************************)
EXTENDS Integers, Sequences

CONSTANTS
    Client,      \* the goroutines
    Value,       \* what they push
    Empty,       \* the zero value that Pop returns with false
    MaxNodes     \* bound: nodes ever allocated

ASSUME EmptyAssumption == Empty \notin Value \cup Client
ASSUME BoundAssumption == MaxNodes \in Nat

VARIABLES
    head, tail,  \* addresses of the first and the last node
    heap,        \* the nodes allocated so far, each with a value and a next address
    holder,      \* the goroutine that holds the mutex, or Empty
    pc,          \* where each goroutine is
    arg,         \* Push: the value of the call
    got          \* Pop: v, and what the last Pop returned

vars == <<head, tail, heap, holder, pc, arg, got>>
nil == 0

Init ==
    /\ head = nil /\ tail = nil
    /\ heap = <<>>
    /\ holder = Empty
    /\ pc = [c \in Client |-> "idle"]
    /\ arg = [c \in Client |-> Empty]
    /\ got = [c \in Client |-> Empty]

Goto(c, label) == pc' = [pc EXCEPT ![c] = label]

CallPush(c, x) ==
    /\ pc[c] = "idle"
    /\ Goto(c, "push")
    /\ arg' = [arg EXCEPT ![c] = x]
    /\ UNCHANGED <<head, tail, heap, holder, got>>

CallPop(c) ==
    /\ pc[c] = "idle"
    /\ Goto(c, "pop")
    /\ UNCHANGED <<head, tail, heap, holder, arg, got>>

\* mutex.Lock() of either method.
LockUnchecked(c) ==
    /\ \/ pc[c] = "push" /\ Len(heap) < MaxNodes /\ Goto(c, "alloc")
       \/ pc[c] = "pop" /\ Goto(c, "read")
    /\ holder' = c
    /\ UNCHANGED <<head, tail, heap, arg, got>>

Lock(c) ==
    /\ holder = Empty
    /\ \/ pc[c] = "push" /\ Len(heap) < MaxNodes /\ Goto(c, "alloc")
       \/ pc[c] = "pop" /\ Goto(c, "read")
    /\ holder' = c
    /\ UNCHANGED <<head, tail, heap, arg, got>>

\* Push: the new node, linked from the last node or, in an empty queue, from head.
PushLink(c) ==
    LET new == Len(heap) + 1
        node == [value |-> arg[c], next |-> nil]
    IN  /\ pc[c] = "alloc"
        /\ \/ /\ tail = nil
              /\ head' = new
              /\ heap' = Append(heap, node)
           \/ /\ tail # nil
              /\ heap' = Append([heap EXCEPT ![tail].next = new], node)
              /\ UNCHANGED head
        /\ Goto(c, "tail")
        /\ UNCHANGED <<tail, holder, arg, got>>

\* q.tail = newNode.
PushTail(c) ==
    /\ pc[c] = "tail"
    /\ tail' = Len(heap)
    /\ Goto(c, "unlock")
    /\ UNCHANGED <<head, heap, holder, arg, got>>

\* Pop on an empty queue returns at once.
PopEmpty(c) ==
    /\ pc[c] = "read" /\ head = nil
    /\ got' = [got EXCEPT ![c] = Empty]
    /\ Goto(c, "unlock")
    /\ UNCHANGED <<head, tail, heap, holder, arg>>

\* v := q.head.value; q.head = q.head.next.
PopHead(c) ==
    /\ pc[c] = "read" /\ head # nil
    /\ got' = [got EXCEPT ![c] = heap[head].value]
    /\ head' = heap[head].next
    /\ Goto(c, "fix")
    /\ UNCHANGED <<tail, heap, holder, arg>>

\* if q.head == nil { q.tail = nil }.
PopKeepTail(c) ==
    /\ pc[c] = "fix"
    /\ Goto(c, "unlock")
    /\ UNCHANGED <<head, tail, heap, holder, arg, got>>

PopTail(c) ==
    /\ pc[c] = "fix"
    /\ tail' = IF head = nil THEN nil ELSE tail
    /\ Goto(c, "unlock")
    /\ UNCHANGED <<head, heap, holder, arg, got>>

\* The deferred mutex.Unlock(), and the return.
ReturnLocked(c) ==
    /\ pc[c] = "unlock"
    /\ Goto(c, "idle")
    /\ UNCHANGED <<head, tail, heap, holder, arg, got>>

Unlock(c) ==
    /\ pc[c] = "unlock"
    /\ holder' = Empty
    /\ Goto(c, "idle")
    /\ UNCHANGED <<head, tail, heap, arg, got>>

Next ==
    \E c \in Client :
        \/ \E x \in Value : CallPush(c, x)
        \/ CallPop(c) \/ Lock(c)
        \/ PushLink(c) \/ PushTail(c)
        \/ PopEmpty(c) \/ PopHead(c) \/ PopTail(c)
        \/ Unlock(c)

\* A goroutine inside a method runs; sync.Mutex hands itself to every waiter in turn.
Fairness ==
    \A c \in Client :
        /\ WF_vars(PushLink(c) \/ PushTail(c) \/ PopEmpty(c) \/ PopHead(c)
                   \/ PopTail(c) \/ Unlock(c))
        /\ SF_vars(Lock(c))

Spec == Init /\ [][Next]_vars /\ Fairness

--------------------------------------------------------------------------------------
(* Properties.                                                                        *)

Inside == {"alloc", "tail", "fix", "read", "unlock"}
Node == [value : Value, next : Nat]

\* Types; a node in the list has a pushed value, and addresses point into the heap.
TypeOK ==
    /\ heap \in Seq(Node)
    /\ head \in 0 .. Len(heap) /\ tail \in 0 .. Len(heap)
    /\ holder \in Client \cup {Empty}
    /\ pc \in [Client -> {"idle", "push", "pop"} \cup Inside]
    /\ arg \in [Client -> Value \cup {Empty}]
    /\ got \in [Client -> Value \cup {Empty}]

\* With the mutex free the list is whole: head and tail are nil together, and tail is
\* the last node.
ListWhole ==
    holder = Empty =>
        /\ head = nil <=> tail = nil
        /\ tail # nil => tail = Len(heap) /\ heap[tail].next = nil

\* Nodes are linked in the order of their allocation, so the list from head is the heap
\* from head, and nothing when head is nil.
Contents ==
    IF head = nil THEN <<>>
    ELSE [k \in 1 .. Len(heap) - head + 1 |-> heap[head + k - 1].value]

\* No Push is linked behind a node that a Pop has already taken out: following next from
\* head visits every node up to the last one.
NothingUnlinked ==
    head # nil => \A n \in head .. Len(heap) - 1 : heap[n].next = n + 1

\* The linked list is sound: no pointer out of the heap, whole whenever the mutex is free,
\* and no node lost to a tail that Pop left behind.
ListSound == TypeOK /\ ListWhole /\ NothingUnlinked

AbstractCall(label) ==
    CASE label = "idle" -> "idle"
      [] label \in {"push", "alloc"} -> "push"
      [] label \in {"pop", "read"} -> "pop"
      [] OTHER -> "return"

\* Push takes effect when its node is linked, Pop when head moves or is found nil.
Fifo ==
    INSTANCE FifoQueue WITH
        items <- Contents,
        call <- [c \in Client |-> AbstractCall(pc[c])],
        result <- got

\* Push and Pop, with all their assignments, implement an atomic first-in first-out queue.
IsFifo == Fifo!Spec

\* Every Pop, and every Push the heap has room for, returns.
CallsReturn ==
    \A c \in Client :
        /\ pc[c] = "pop" ~> pc[c] = "idle"
        /\ pc[c] = "push" ~> pc[c] = "idle" \/ Len(heap) = MaxNodes
======================================================================================
