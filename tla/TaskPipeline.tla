--------------------------- MODULE TaskPipeline ---------------------------
(***************************************************************************)
(* The execution of a compiled TQL script (mods/tql/task.go executeOutput, *)
(* task_node.go, task_output.go).  Node 1 is the source, nodes 2..N are    *)
(* maps and N + 1 is the output (the sink).  Every one of them is a        *)
(* goroutine that reads records from an unbuffered channel; 0 is the       *)
(* goroutine that called Execute.                                          *)
(*                                                                         *)
(* A record in out[n] is one that n still has to Tell to n + 1, so n is    *)
(* blocked in Receive of n + 1 while out[n] is not empty.                  *)
(***************************************************************************)
EXTENDS Integers, Sequences

CONSTANTS
    N,          \* the nodes of the script, the source included
    NumRows,    \* the rows the source has
    Limit,      \* the argument of every TAKE
    Dropped,    \* the rows a FILTER drops
    Bad,        \* the rows the expression of a map fails on
    Panics,     \* the nodes whose functions may panic
    Kinds,      \* the kinds of maps a script may consist of
    OpenFails,  \* the encoder or the database sink may fail to open
    ClientLeaves,   \* the request may end before the answer (Task.Cancel)
    ContextEnds     \* the context of the task may be cancelled

ASSUME PipelineAssumption ==
    /\ N \in Nat \ {0}
    /\ NumRows \in Nat /\ Limit \in Nat
    /\ Kinds \subseteq {"map", "take", "flat", "group"}

VARIABLES
    kind,       \* the compiled script
    out,        \* the records a goroutine still has to tell to the next one
    pc,         \* where the goroutine of a node (or of the output) is
    next,       \* the next row of the source
    kept,       \* the rows a TAKE has counted, the current key of a GROUP
    stop,       \* Task._shouldStop
    stopAt,     \* the nodes executeOutput has begun to stop: 1..stopAt
    opened,     \* the state of the encoder: no, yes, failed
    written,    \* the rows the encoder was given
    failed,     \* output.lastError is set
    left,       \* Task.Cancel was called for a client that went away
    ctxDone,    \* the context is done
    panicked    \* a node panicked

vars == <<kind, out, pc, next, kept, stop, stopAt, opened, written, failed,
          left, ctxDone, panicked>>

Nodes == 1 .. N
Out == N + 1
Rows == 1 .. NumRows

RowRecord(r) == [key |-> "row", row |-> r]
FirstRecord == [key |-> "first", row |-> 0]
EofRecord == [key |-> "eof", row |-> 0]
ErrorRecord == [key |-> "error", row |-> 0]
RowsTo(k) == [i \in 1 .. k |-> i]
RowRecords(rs) == [i \in DOMAIN rs |-> RowRecord(rs[i])]

Init ==
    /\ kind \in [2 .. N -> Kinds]
    /\ out = [n \in 0 .. N |-> IF n = 0 THEN <<FirstRecord, EofRecord>> ELSE <<>>]
    /\ pc = [n \in 1 .. Out |-> "receive"]
    /\ next = 1
    /\ kept = [n \in 2 .. N |-> <<>>]
    /\ stop = FALSE
    /\ stopAt = 0
    /\ opened = "no"
    /\ written = <<>>
    /\ failed = FALSE
    /\ left = FALSE
    /\ ctxDone = FALSE
    /\ panicked = FALSE

\* The channel of n: Receive has a receiver, and the sender loses its record.
Sent(n) == out[n - 1] # <<>> /\ pc[n] = "receive"
Told(n) == Head(out[n - 1])
Tell(n, records) ==
    out' = [out EXCEPT ![n - 1] = Tail(@), ![n] = records]

----------------------------------------------------------------------------
(* The nodes *)

\* What the expression of a map makes of a row: the records it tells, the
\* rows it has seen, and whether it breaks the circuit.
EvalMap(n, r) ==
    [tell |-> IF r \in Bad THEN <<ErrorRecord>>
              ELSE IF r \in Dropped THEN <<>> ELSE <<RowRecord(r)>>,
     keep |-> kept[n], break |-> FALSE]
EvalFlat(n, r) ==
    [tell |-> <<RowRecord(r), RowRecord(r)>>, keep |-> kept[n], break |-> FALSE]
EvalTake(n, r) ==
    IF Len(kept[n]) >= Limit
      THEN [tell |-> <<>>, keep |-> kept[n], break |-> TRUE]
      ELSE [tell |-> <<RowRecord(r)>>, keep |-> Append(kept[n], r), break |-> FALSE]
\* GROUP(by(...)) not lazy: an aggregate, named by its key, is told when the
\* key changes, the last one by eofCallback.
EvalGroup(n, r) ==
    [tell |-> IF kept[n] = <<r>> THEN <<>> ELSE RowRecords(kept[n]),
     keep |-> <<r>>, break |-> FALSE]
Eval(n, r) ==
    CASE kind[n] = "map" -> EvalMap(n, r)
      [] kind[n] = "flat" -> EvalFlat(n, r)
      [] kind[n] = "take" -> EvalTake(n, r)
      [] kind[n] = "group" -> EvalGroup(n, r)

\* Mutant: a node drops the rows that come after a circuit break (issue 309).
NodeRowStops(n) ==
    /\ n \in 2 .. N /\ out[n] = <<>> /\ Sent(n) /\ Told(n).key = "row"
    /\ LET e == Eval(n, Told(n).row) IN
         /\ Tell(n, IF stop THEN <<>> ELSE e.tell)
         /\ kept' = [kept EXCEPT ![n] = e.keep]
         /\ stop' = (stop \/ e.break)
    /\ UNCHANGED <<kind, pc, next, stopAt, opened, written, failed, left,
                   ctxDone, panicked>>
\* Mutant: the goroutine of a node ends when the node breaks the circuit.
NodeRowEnds(n) ==
    /\ n \in 2 .. N /\ out[n] = <<>> /\ Sent(n) /\ Told(n).key = "row"
    /\ LET e == Eval(n, Told(n).row) IN
         /\ Tell(n, e.tell)
         /\ kept' = [kept EXCEPT ![n] = e.keep]
         /\ stop' = (stop \/ e.break)
         /\ pc' = IF e.break THEN [pc EXCEPT ![n] = "ended"] ELSE pc
    /\ UNCHANGED <<kind, next, stopAt, opened, written, failed, left, ctxDone,
                   panicked>>
\* A row is evaluated, and the node tells what comes of it.
NodeRow(n) ==
    /\ n \in 2 .. N /\ out[n] = <<>> /\ Sent(n) /\ Told(n).key = "row"
    /\ LET e == Eval(n, Told(n).row) IN
         /\ Tell(n, e.tell)
         /\ kept' = [kept EXCEPT ![n] = e.keep]
         /\ stop' = (stop \/ e.break)
    /\ UNCHANGED <<kind, pc, next, stopAt, opened, written, failed, left,
                   ctxDone, panicked>>

\* The first record makes the source run.
SourceStart ==
    /\ out[1] = <<>> /\ Sent(1) /\ Told(1).key = "first"
    /\ Tell(1, <<>>)
    /\ pc' = [pc EXCEPT ![1] = "produce"]
    /\ UNCHANGED <<kind, next, kept, stop, stopAt, opened, written, failed,
                   left, ctxDone, panicked>>

\* The loop of a source: it looks at shouldStop before each row.
SourceRow ==
    /\ pc[1] = "produce" /\ out[1] = <<>>
    /\ IF stop \/ next > NumRows
         THEN /\ pc' = [pc EXCEPT ![1] = "receive"]
              /\ UNCHANGED <<out, next>>
         ELSE /\ out' = [out EXCEPT ![1] = <<RowRecord(next)>>]
              /\ next' = next + 1
              /\ UNCHANGED pc
    /\ UNCHANGED <<kind, kept, stop, stopAt, opened, written, failed, left,
                   ctxDone, panicked>>

\* An error record is passed on.
NodeError(n) ==
    /\ n \in Nodes /\ out[n] = <<>> /\ Sent(n) /\ Told(n).key = "error"
    /\ Tell(n, <<ErrorRecord>>)
    /\ UNCHANGED <<kind, pc, next, kept, stop, stopAt, opened, written, failed,
                   left, ctxDone, panicked>>

\* The end: eofCallback tells the last aggregate, then the last will.
LastWill(n) ==
    IF n \in 2 .. N /\ kind[n] = "group"
      THEN Append(RowRecords(kept[n]), EofRecord)
      ELSE <<EofRecord>>
NodeEof(n) ==
    /\ n \in Nodes /\ out[n] = <<>> /\ Sent(n) /\ Told(n).key = "eof"
    /\ Tell(n, LastWill(n))
    /\ pc' = [pc EXCEPT ![n] = "last"]
    /\ UNCHANGED <<kind, next, kept, stop, stopAt, opened, written, failed,
                   left, ctxDone, panicked>>

\* The goroutine ends: after its last will, because executeOutput closed its
\* channel, or because the context is done.
NodeEnds(n) ==
    /\ n \in Nodes /\ out[n] = <<>>
    /\ \/ pc[n] = "last"
       \/ (pc[n] = "receive" /\ n <= stopAt)
       \/ (pc[n] = "receive" /\ ctxDone)
    /\ pc' = [pc EXCEPT ![n] = "ended"]
    /\ UNCHANGED <<kind, out, next, kept, stop, stopAt, opened, written, failed,
                   left, ctxDone, panicked>>

\* A function panics: the goroutine recovers, and ends without a last will.
NodePanics(n) ==
    /\ n \in Panics /\ out[n] = <<>> /\ Sent(n) /\ Told(n).key # "error"
    /\ Tell(n, <<>>)
    /\ pc' = [pc EXCEPT ![n] = "ended"]
    /\ panicked' = TRUE
    /\ UNCHANGED <<kind, next, kept, stop, stopAt, opened, written, failed,
                   left, ctxDone>>

\* Receive gives up a record when the context is done, and cancels the task.
GiveUp(n) ==
    /\ n \in 0 .. N /\ out[n] # <<>> /\ ctxDone
    /\ out' = [out EXCEPT ![n] = Tail(@)]
    /\ stop' = TRUE
    /\ UNCHANGED <<kind, pc, next, kept, stopAt, opened, written, failed, left,
                   ctxDone, panicked>>

----------------------------------------------------------------------------
(* The output *)

\* A row is written; the first one opens the encoder, and when that fails the
\* circuit is broken and all rows are thrown away.
OutRow ==
    /\ Sent(Out) /\ Told(Out).key = "row"
    /\ out' = [out EXCEPT ![N] = Tail(@)]
    /\ opened' \in IF opened # "no" THEN {opened}
                   ELSE IF OpenFails THEN {"yes", "failed"} ELSE {"yes"}
    /\ written' = IF opened' = "yes" THEN Append(written, Told(Out).row) ELSE written
    /\ failed' = (failed \/ opened' = "failed")
    /\ stop' = (stop \/ (opened = "no" /\ opened' = "failed"))
    /\ UNCHANGED <<kind, pc, next, kept, stopAt, left, ctxDone, panicked>>

\* An error is kept for the result.
OutError ==
    /\ Sent(Out) /\ Told(Out).key = "error"
    /\ out' = [out EXCEPT ![N] = Tail(@)]
    /\ failed' = TRUE
    /\ UNCHANGED <<kind, pc, next, kept, stop, stopAt, opened, written, left,
                   ctxDone, panicked>>

\* The output ends at the end of the records, at a closed channel, or with
\* the context, which also breaks the circuit.
OutEof ==
    /\ Sent(Out) /\ Told(Out).key = "eof"
    /\ out' = [out EXCEPT ![N] = Tail(@)]
    /\ pc' = [pc EXCEPT ![Out] = "ended"]
    /\ UNCHANGED <<kind, next, kept, stop, stopAt, opened, written, failed, left,
                   ctxDone, panicked>>
OutEnds ==
    /\ pc[Out] = "receive"
    /\ \/ (Out <= stopAt /\ UNCHANGED stop)
       \/ (ctxDone /\ stop' = TRUE)
    /\ pc' = [pc EXCEPT ![Out] = "ended"]
    /\ UNCHANGED <<kind, out, next, kept, stopAt, opened, written, failed, left,
                   ctxDone, panicked>>

----------------------------------------------------------------------------
(* The caller and the request *)

\* Mutant: executeOutput closes the channels without waiting for the nodes.
StopNextNoWait ==
    /\ stopAt <= Out
    /\ stopAt = 0 => out[0] = <<>>
    /\ stopAt' = stopAt + 1
    /\ UNCHANGED <<kind, out, pc, next, kept, stop, opened, written, failed,
                   left, ctxDone, panicked>>
\* executeOutput closes the channel of a node when the one before it ended.
StopNext ==
    /\ stopAt <= Out
    /\ IF stopAt = 0 THEN out[0] = <<>> ELSE pc[stopAt] = "ended"
    /\ stopAt' = stopAt + 1
    /\ UNCHANGED <<kind, out, pc, next, kept, stop, opened, written, failed,
                   left, ctxDone, panicked>>
Finished == stopAt = Out + 1

\* The client goes away: the handler of the request cancels the task.
Cancel ==
    /\ ClientLeaves /\ ~left /\ ~Finished
    /\ left' = TRUE
    /\ stop' = TRUE
    /\ UNCHANGED <<kind, out, pc, next, kept, stopAt, opened, written, failed,
                   ctxDone, panicked>>

\* The context ends, and its AfterFunc breaks the circuit.
ContextDone ==
    /\ ContextEnds /\ ~ctxDone /\ ~Finished
    /\ ctxDone' = TRUE
    /\ UNCHANGED <<kind, out, pc, next, kept, stop, stopAt, opened, written,
                   failed, left, panicked>>
AfterContext ==
    /\ ctxDone /\ ~stop
    /\ stop' = TRUE
    /\ UNCHANGED <<kind, out, pc, next, kept, stopAt, opened, written, failed,
                   left, ctxDone, panicked>>

NodeStep(n) ==
    NodeRow(n) \/ NodeError(n) \/ NodeEof(n) \/ NodeEnds(n) \/ NodePanics(n)
OutStep == OutRow \/ OutError \/ OutEof \/ OutEnds
Next ==
    \/ \E n \in Nodes : NodeStep(n)
    \/ SourceStart
    \/ SourceRow
    \/ \E n \in 0 .. N : GiveUp(n)
    \/ OutStep
    \/ StopNext
    \/ Cancel
    \/ ContextDone
    \/ AfterContext

Spec == Init /\ [][Next]_vars

\* Every goroutine that can go on does so; nothing makes a client leave, a
\* context end or a function panic.
PipelineSteps ==
    \/ \E n \in Nodes : NodeRow(n) \/ NodeError(n) \/ NodeEof(n) \/ NodeEnds(n)
    \/ SourceStart
    \/ SourceRow
    \/ \E n \in 0 .. N : GiveUp(n)
    \/ OutStep
    \/ StopNext
FairSpec == Spec /\ WF_vars(PipelineSteps)

----------------------------------------------------------------------------
(* What a script computes, and the properties *)

\* The rows of rs at the places in I, in their order.
Sieve(rs, I) ==
    LET f[i \in 0 .. Len(rs)] ==
            IF i = 0 THEN <<>>
            ELSE IF i \in I THEN Append(f[i - 1], rs[i]) ELSE f[i - 1]
    IN  f[Len(rs)]

\* Where a map keeps a row: neither dropped nor failed on; among the first ones;
\* where a key begins.
Places(k, rs) ==
    {i \in 1 .. Len(rs) :
        CASE k = "map" -> rs[i] \notin Bad \cup Dropped
          [] k = "take" -> i <= Limit
          [] k = "group" -> i = 1 \/ rs[i] # rs[i - 1]}
Twice(rs) == [i \in 1 .. 2 * Len(rs) |-> rs[(i + 1) \div 2]]

\* One map applied to all rows, and the script up to each of its nodes.
Stage(k, rs) == IF k = "flat" THEN Twice(rs) ELSE Sieve(rs, Places(k, rs))
Results(rs) ==
    LET f[n \in Nodes] == IF n = 1 THEN rs ELSE Stage(kind[n], f[n - 1])
    IN  f
Fails(rs) ==
    \E n \in 2 .. N : /\ kind[n] = "map"
                      /\ \E i \in DOMAIN Results(rs)[n - 1] : Results(rs)[n - 1][i] \in Bad

\* executeOutput closes the channels in the order of the nodes: nobody is left
\* who would send on a closed one, which panics (task_node.go stop).
NoSendOnClosed ==
    \A n \in 1 .. Out :
        n <= stopAt => /\ out[n - 1] = <<>>
                       /\ n > 1 => pc[n - 1] = "ended"

\* A circuit break stops the source and nothing else: all rows that left the
\* source are carried to the end, whichever TAKE broke the circuit first, and
\* their result is that of all rows (task_node.go:215).
ResultComplete ==
    Finished /\ ~ctxDone /\ ~panicked /\ opened # "failed" =>
        /\ written = Results(RowsTo(next - 1))[N]
        /\ ~left => written = Results(RowsTo(NumRows))[N]
        /\ failed <=> Fails(RowsTo(next - 1))

\* Execute returns: every goroutine finds its record, its closed channel or
\* the end of its context, after a panic as well.  Only a context that never
\* ends leaves the node before one that panicked waiting.
ExecuteEnds == <>Finished \/ <>[](panicked /\ ~ctxDone)
=============================================================================
