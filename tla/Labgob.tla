------------------------------------ MODULE Labgob ------------------------------------
(***********************************************************************************)
(* lab3/labgob/labgob.go: gob with two checks. Whatever is encoded or decoded has   *)
(* its type walked once for lower-case field names; whatever is decoded into is     *)
(* searched for values that are not the default.                                    *)
(*                                                                                  *)
(* A value is a function from its fields to 0 (the default) or 1. gob does not send *)
(* a field that has its default, and leaves the receiver's field alone then.        *)
(***********************************************************************************)
EXTENDS Naturals, FiniteSets, FiniteSetsExt

CONSTANTS
    Walker,       \* the goroutines that encode and decode
    Type, Elem,   \* the types, and the types each is made of
    Program,      \* how many lower-case field names each type has, in some programs
    Field         \* the scalar fields of a reply, at most three levels down

ASSUME GobAssumption ==
    /\ Elem \in [Type -> SUBSET Type]
    /\ Program \subseteq [Type -> Nat]
    /\ IsFiniteSet(Field)

VARIABLES
    lowerCase,    \* the member of Program that runs
    checked,      \* types that were walked or are being walked
    walk,         \* the types each goroutine has yet to look at
    complaints,   \* the lower-case fields counted in errorCount, per type
    warnings,     \* the rest of errorCount: non-default values decoded into
    warned        \* the warning about such a value was printed

gobVars == <<checked, walk, complaints, warnings, warned>>

Value == [Field -> {0, 1}]
Fresh == [f \in Field |-> 0]

GobInit ==
    /\ lowerCase \in Program
    /\ checked = {}
    /\ walk = [w \in Walker |-> {}]
    /\ complaints = [t \in Type |-> 0]
    /\ warnings = 0
    /\ warned = FALSE

\* Encode, EncodeValue and Decode begin with checkValue. The goroutine goes on when its
\* walk is over.
checkValue(w, t) == walk' = [walk EXCEPT ![w] = {t}]
Walked(w) == walk[w] = {}

\* checkType looks at one type. It is marked under the mutex, before its fields are
\* counted and its element types are looked at, so that recursive types come to an end.
\* A field that is counted is printed.
checkTypeAgain(w, t) ==
    /\ t \in walk[w]
    /\ checked' = checked \cup {t}
    /\ walk' = [walk EXCEPT ![w] = (@ \cup Elem[t]) \ {t}]
    /\ complaints' = [complaints EXCEPT ![t] = @ + lowerCase[t]]
    /\ UNCHANGED <<warnings, warned>>

checkType(w, t) ==
    /\ t \in walk[w]
    /\ checked' = checked \cup {t}
    /\ IF t \in checked
       THEN /\ walk' = [walk EXCEPT ![w] = @ \ {t}]
            /\ UNCHANGED complaints
       ELSE /\ walk' = [walk EXCEPT ![w] = (@ \cup Elem[t]) \ {t}]
            /\ complaints' = [complaints EXCEPT ![t] = @ + lowerCase[t]]
    /\ UNCHANGED <<warnings, warned>>

\* checkDefault1 counts the scalar fields that are not the default. It does not look into
\* slices and maps, nor deeper than three levels: such fields are not in Field. It prints
\* a warning only while errorCount is 0, and a lower-case field raises errorCount as well.
Complained == \E t \in Type : complaints[t] > 0

checkDefault(old) ==
    LET kept == {f \in Field : old[f] # 0} IN
    /\ warnings' = warnings + Cardinality(kept)
    /\ warned' = (warned \/ (kept # {} /\ warnings = 0 /\ ~Complained))

\* What a variable holds after decoding into it what was sent.
Decoded(old, sent) == [f \in Field |-> IF sent[f] = 0 THEN old[f] ELSE sent[f]]
=======================================================================================
