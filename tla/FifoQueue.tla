---------------------------------- MODULE FifoQueue ----------------------------------
(***********************************************************************************)
(* What lab0/queue.go promises: an unbounded FIFO queue whose Push and Pop take     *)
(* effect at one instant between call and return, whoever else calls.               *)
(***********************************************************************************)
EXTENDS Sequences

CONSTANTS Client, Value, Empty
VARIABLES
    items,    \* the queue
    call,     \* client: "idle", "push", "pop", or "return" once it has taken effect
    arg,      \* client: what it pushes
    result    \* client: what its last Pop got, Empty for (zero, false)

vars == <<items, call, arg, result>>

Init ==
    /\ items = <<>>
    /\ call = [c \in Client |-> "idle"]
    /\ arg = [c \in Client |-> Empty]
    /\ result = [c \in Client |-> Empty]

CallPush(c, x) ==
    /\ call[c] = "idle"
    /\ call' = [call EXCEPT ![c] = "push"]
    /\ arg' = [arg EXCEPT ![c] = x]
    /\ UNCHANGED <<items, result>>

CallPop(c) ==
    /\ call[c] = "idle"
    /\ call' = [call EXCEPT ![c] = "pop"]
    /\ UNCHANGED <<items, arg, result>>

Push(c) ==
    /\ call[c] = "push"
    /\ items' = Append(items, arg[c])
    /\ call' = [call EXCEPT ![c] = "return"]
    /\ UNCHANGED <<arg, result>>

Pop(c) ==
    /\ call[c] = "pop"
    /\ \/ /\ items = <<>>
          /\ result' = [result EXCEPT ![c] = Empty]
          /\ UNCHANGED items
       \/ /\ items # <<>>
          /\ result' = [result EXCEPT ![c] = Head(items)]
          /\ items' = Tail(items)
    /\ call' = [call EXCEPT ![c] = "return"]
    /\ UNCHANGED arg

Return(c) ==
    /\ call[c] = "return"
    /\ call' = [call EXCEPT ![c] = "idle"]
    /\ UNCHANGED <<items, arg, result>>

Next ==
    \E c \in Client :
        \/ \E x \in Value : CallPush(c, x)
        \/ CallPop(c) \/ Push(c) \/ Pop(c) \/ Return(c)

Spec == Init /\ [][Next]_vars
======================================================================================
