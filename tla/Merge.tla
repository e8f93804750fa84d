------------------------------------ MODULE Merge ------------------------------------
(***********************************************************************************)
(* lab0/merge_channels.go: MergeChannels, MergeChannelsOrCancel and MergeFetches.   *)
(*                                                                                 *)
(* Each starts one reader goroutine per source and a goroutine that waits for the   *)
(* readers and closes out. The producers, the consumer of out and whoever cancels   *)
(* the context are the environment. The k-th value of source s is <<s, k>>.         *)
(***********************************************************************************)
EXTENDS Integers, Sequences, FiniteSets

CONSTANTS
    Source,        \* the input channels or fetchers, a and b in the code
    MaxItems,      \* bound: values of one source
    Modes,         \* the functions under study: "channels", "cancel", "fetches"
    Caps           \* capacities the caller's out channel may have

ASSUME MergeAssumption ==
    /\ IsFiniteSet(Source) /\ MaxItems \in Nat
    /\ Modes \subseteq {"channels", "cancel", "fetches"} /\ Caps \subseteq Nat

VARIABLES
    mode, cap,       \* the function called, and the capacity of out
    sent, closed,    \* per source: values offered so far, and whether it has ended
    pc,              \* reader: "none", "read", "send" or "exit"
    taken,           \* reader: values received from its source
    wg,              \* the WaitGroup's counter
    closer,          \* the goroutine that closes out: "none", "wait", "report", "exit"
    out, outClosed,  \* the buffer of out
    received,        \* everything the consumer got
    reading,         \* the consumer still reads
    cancelled,       \* ctx is done
    result           \* "running", then what the function returned: "nil" or "err"

source == <<sent, closed>>
output == <<out, outClosed, received, reading>>
vars == <<mode, cap, source, pc, taken, wg, closer, output, cancelled, result>>

Init ==
    /\ mode \in Modes /\ cap \in Caps
    /\ sent = [s \in Source |-> 0] /\ closed = [s \in Source |-> FALSE]
    /\ pc = [s \in Source |-> "none"]
    /\ taken = [s \in Source |-> 0]
    /\ wg = 0 /\ closer = "none"
    /\ out = <<>> /\ outClosed = FALSE /\ received = <<>> /\ reading = TRUE
    /\ cancelled = FALSE /\ result = "running"

Goto(s, label) == pc' = [pc EXCEPT ![s] = label]

--------------------------------------------------------------------------------------
(* The caller's goroutine.                                                            *)

\* MergeChannelsOrCancel with a context that is done already.
RefuseCancelled ==
    /\ mode = "cancel" /\ cancelled
    /\ result = "running" /\ \A s \in Source : pc[s] = "none"
    /\ outClosed' = TRUE
    /\ result' = "err"
    /\ UNCHANGED <<mode, cap, source, pc, taken, wg, closer, out, received, reading, cancelled>>

\* wg.Add(1) and go, for one source after the other. The check of the context goes with
\* the first: a context that ends after the check ends, for the readers, after the go.
Spawn(s) ==
    /\ pc[s] = "none" /\ result = "running"
    /\ mode = "cancel" => ~cancelled \/ \E t \in Source : pc[t] # "none"
    /\ wg' = wg + 1
    /\ Goto(s, "read")
    /\ UNCHANGED <<mode, cap, source, taken, closer, output, cancelled, result>>

\* The last goroutine. MergeChannels and MergeFetches return at this point.
SpawnCloser ==
    /\ closer = "none" /\ \A s \in Source : pc[s] # "none"
    /\ closer' = "wait"
    /\ result' = IF mode = "cancel" THEN result ELSE "nil"
    /\ UNCHANGED <<mode, cap, source, pc, taken, wg, output, cancelled>>

--------------------------------------------------------------------------------------
(* The readers.                                                                       *)

\* The deferred wg.Done().
Exit(s) == Goto(s, "exit") /\ wg' = wg - 1 /\ UNCHANGED taken

\* A value, if there is one; the end of the source, if it has ended.
TakeOrEnd(s) ==
    \/ /\ taken[s] < sent[s]
       /\ taken' = [taken EXCEPT ![s] = @ + 1]
       /\ Goto(s, "send")
       /\ UNCHANGED wg
    \/ /\ taken[s] = sent[s] /\ closed[s]
       /\ Exit(s)

ReadChannel(s) ==
    /\ mode = "channels" /\ pc[s] = "read"
    /\ TakeOrEnd(s)
    /\ UNCHANGED <<mode, cap, source, closer, output, cancelled, result>>

ReadFetcher(s) ==
    /\ mode = "fetches" /\ pc[s] = "read"
    /\ TakeOrEnd(s)
    /\ UNCHANGED <<mode, cap, source, closer, output, cancelled, result>>

\* The two selects of MergeChannelsOrCancel. The context may end between them, and then
\* the second one picks any branch that is ready.
ReadDeaf(s) ==
    /\ mode = "cancel" /\ pc[s] = "read"
    /\ TakeOrEnd(s)
    /\ UNCHANGED <<mode, cap, source, closer, output, cancelled, result>>

ReadOrCancel(s) ==
    /\ mode = "cancel" /\ pc[s] = "read"
    /\ \/ cancelled /\ Exit(s)
       \/ TakeOrEnd(s)
    /\ UNCHANGED <<mode, cap, source, closer, output, cancelled, result>>

\* out <- v: into the buffer, or to the consumer when out is unbuffered. It waits for
\* nothing else, so a done context does not interrupt it.
SendDropped(s) ==
    /\ pc[s] = "send" /\ ~outClosed
    /\ IF Len(out) < cap THEN out' = Append(out, <<s, taken[s]>>) ELSE UNCHANGED out
    /\ Goto(s, "read")
    /\ UNCHANGED <<mode, cap, source, taken, wg, closer, outClosed, received, reading,
                   cancelled, result>>

SendOut(s) ==
    /\ pc[s] = "send" /\ ~outClosed
    /\ \/ cap = 0 /\ reading /\ received' = Append(received, <<s, taken[s]>>) /\ UNCHANGED out
       \/ Len(out) < cap /\ out' = Append(out, <<s, taken[s]>>) /\ UNCHANGED received
    /\ Goto(s, "read")
    /\ UNCHANGED <<mode, cap, source, taken, wg, closer, outClosed, reading, cancelled, result>>

--------------------------------------------------------------------------------------
(* The goroutine that closes out.                                                     *)

\* wg.Wait(), close(out).
CloseAtOnce ==
    /\ closer = "wait"
    /\ outClosed' = TRUE
    /\ closer' = IF mode = "cancel" THEN "report" ELSE "exit"
    /\ UNCHANGED <<mode, cap, source, pc, taken, wg, out, received, reading, cancelled, result>>

CloseOut ==
    /\ closer = "wait" /\ wg = 0
    /\ outClosed' = TRUE
    /\ closer' = IF mode = "cancel" THEN "report" ELSE "exit"
    /\ UNCHANGED <<mode, cap, source, pc, taken, wg, out, received, reading, cancelled, result>>

\* errCh <- ctx.Err(), which MergeChannelsOrCancel returns.
Report ==
    /\ closer = "report"
    /\ closer' = "exit"
    /\ result' = IF cancelled THEN "err" ELSE "nil"
    /\ UNCHANGED <<mode, cap, source, pc, taken, wg, output, cancelled>>

--------------------------------------------------------------------------------------
(* The environment.                                                                   *)

Produce(s) ==
    /\ ~closed[s] /\ sent[s] < MaxItems
    /\ sent' = [sent EXCEPT ![s] = @ + 1]
    /\ UNCHANGED <<mode, cap, closed, pc, taken, wg, closer, output, cancelled, result>>

EndSource(s) ==
    /\ ~closed[s]
    /\ closed' = [closed EXCEPT ![s] = TRUE]
    /\ UNCHANGED <<mode, cap, sent, pc, taken, wg, closer, output, cancelled, result>>

Consume ==
    /\ reading /\ out # <<>>
    /\ received' = Append(received, Head(out))
    /\ out' = Tail(out)
    /\ UNCHANGED <<mode, cap, source, pc, taken, wg, closer, outClosed, reading, cancelled,
                   result>>

Desert ==
    /\ reading
    /\ reading' = FALSE
    /\ UNCHANGED <<mode, cap, source, pc, taken, wg, closer, out, outClosed, received,
                   cancelled, result>>

CancelContext ==
    /\ mode = "cancel" /\ ~cancelled
    /\ cancelled' = TRUE
    /\ UNCHANGED <<mode, cap, source, pc, taken, wg, closer, output, result>>

--------------------------------------------------------------------------------------
Reader(s) == ReadChannel(s) \/ ReadFetcher(s) \/ ReadOrCancel(s) \/ SendOut(s)

Next ==
    \/ RefuseCancelled \/ SpawnCloser \/ CloseOut \/ Report
    \/ \E s \in Source : Spawn(s) \/ Reader(s) \/ Produce(s) \/ EndSource(s)
    \/ Consume \/ Desert \/ CancelContext

\* Goroutines that can run do run, and a consumer that has not left takes what is there.
\* Producers may stop short of closing; nobody has to cancel.
Fairness ==
    /\ WF_vars(RefuseCancelled) /\ WF_vars(SpawnCloser) /\ WF_vars(CloseOut \/ Report)
    /\ WF_vars(Consume)
    /\ \A s \in Source : WF_vars(Spawn(s)) /\ WF_vars(Reader(s))

Spec == Init /\ [][Next]_vars /\ Fairness

--------------------------------------------------------------------------------------
(* Properties.                                                                        *)

Running == {s \in Source : pc[s] \in {"read", "send"}}

\* Types; the WaitGroup counts the readers that run.
TypeOK ==
    /\ mode \in Modes /\ cap \in Caps
    /\ sent \in [Source -> Nat] /\ closed \in [Source -> BOOLEAN]
    /\ pc \in [Source -> {"none", "read", "send", "exit"}]
    /\ taken \in [Source -> Nat] /\ \A s \in Source : taken[s] <= sent[s]
    /\ wg = Cardinality(Running)
    /\ closer \in {"none", "wait", "report", "exit"}
    /\ out \in Seq(Source \X Nat) /\ Len(out) <= cap
    /\ received \in Seq(Source \X Nat)
    /\ outClosed \in BOOLEAN /\ reading \in BOOLEAN /\ cancelled \in BOOLEAN
    /\ result \in {"running", "nil", "err"}

\* No goroutine sends on out once it is closed, which would panic.
NoSendOnClosed == outClosed => \A s \in Source : pc[s] \notin {"read", "send"}

\* What has gone out, in the order it did.
Gone == received \o out

\* "if a value is read out of an input channel, it is tried to put into the output": what
\* the readers took and are not holding has gone out once, in the order of its source.
NothingLost ==
    \A s \in Source :
        LET n == IF pc[s] = "send" THEN taken[s] - 1 ELSE taken[s] IN
        /\ \A k \in 1 .. n : \E p \in DOMAIN Gone : Gone[p] = <<s, k>>
        /\ \A p \in DOMAIN Gone : Gone[p][1] = s =>
            /\ Gone[p][2] \in 1 .. n
            /\ \A q \in 1 .. p - 1 : Gone[q][1] = s => Gone[q][2] < Gone[p][2]

\* out is closed, without an error, only after every source has ended and been emptied.
NilIsComplete ==
    outClosed /\ (mode = "cancel" => result = "nil")
        => \A s \in Source : closed[s] /\ taken[s] = sent[s]

\* A merge neither drops, repeats nor reorders, and does not claim to be complete when it
\* was cut short; wg counts its readers all the while.
MergesAll == TypeOK /\ NothingLost /\ NilIsComplete

Over == (\A s \in Source : closed[s]) \/ cancelled

\* Once the sources have ended, or the context has, out is closed and the call returns,
\* as long as somebody reads out.
Finishes == Over ~> (outClosed /\ result # "running") \/ ~reading

\* "until there are no more results in either channel, *or* ctx is done": a cancelled
\* MergeChannelsOrCancel returns, whatever the consumer of out does. The code does not
\* achieve it, see README.md.
CancelReturns == cancelled ~> result # "running"
======================================================================================
