----------------------------------- MODULE MCLabrpc -----------------------------------
(* Labrpc for TLC. The arguments hold a slice of a type that refers to itself and, in *)
(* one of the programs, has a lower-case field; the reply has one scalar.             *)
EXTENDS Labrpc

CONSTANTS s1, s2, c1, c2

GobTypes == {"args", "entry", "reply"}
GobElem == [t \in GobTypes |-> IF t = "reply" THEN {} ELSE {"entry"}]
GobPrograms == {[t \in GobTypes |-> IF t = "entry" THEN n ELSE 0] : n \in 0 .. 1}

\* One call while the tester works on both ends; two calls that meet in labgob.
SmallBudgets == {[calls |-> {c1}, ops |-> 3], [calls |-> {c1, c2}, ops |-> 0]}
=======================================================================================
