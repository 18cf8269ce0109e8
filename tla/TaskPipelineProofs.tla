------------------------ MODULE TaskPipelineProofs ------------------------
(***************************************************************************)
(* For a script of any length, of any maps, over any number of rows:       *)
(* executeOutput never closes a channel that somebody still sends on, and  *)
(* the answer is what the maps make of the rows of the source.             *)
(*                                                                         *)
(* The second argument follows the rows.  There are histories of what each *)
(* node was told, and every map has so far made of them what its           *)
(* definition says of all rows (Flow); when all goroutines have ended,     *)
(* nothing is on its way, and the definitions compose (FlowEnds).  A TAKE  *)
(* that broke the circuit is full, so the rows that never left the source  *)
(* would not have mattered (ResultsFull).                                  *)
(***************************************************************************)
EXTENDS TaskPipeline, SequenceTheorems, NaturalsInduction, WellFoundedInduction, TLAPS

\* The shape of the variables the argument speaks of.
Shape ==
    /\ DOMAIN out = 0 .. N
    /\ DOMAIN pc = 1 .. Out
    /\ stopAt \in 0 .. Out + 1

\* A goroutine that ended has told everything it had to tell.
EndedEmpty == \A n \in Nodes : pc[n] = "ended" => out[n] = <<>>

Inductive == Shape /\ EndedEmpty /\ NoSendOnClosed

\* Initially all goroutines wait for their first record.
LEMMA InitInductive == Init => Inductive
<1> SUFFICES ASSUME Init PROVE Inductive
  OBVIOUS
<1> USE PipelineAssumption DEF PipelineAssumption
<1>1. Shape
  BY DEF Init, Shape, Out
<1>2. EndedEmpty
  BY DEF Init, EndedEmpty, Nodes, Out
<1>3. NoSendOnClosed
  BY DEF Init, NoSendOnClosed, Out
<1> QED
  BY <1>1, <1>2, <1>3 DEF Inductive

\* A node that is receiving its turn stands before all channels that are
\* closed for good: its own may be closed, the next one is not.
LEMMA ReceivingBeforeClosed ==
    ASSUME Inductive, NEW n \in Nodes, pc[n] # "ended"
    PROVE  n + 1 > stopAt
<1> USE PipelineAssumption DEF PipelineAssumption
<1>1. CASE n + 1 <= stopAt
  <2>1. n + 1 \in 1 .. Out /\ n + 1 > 1 /\ (n + 1) - 1 = n
    BY DEF Nodes, Out
  <2>2. pc[n] = "ended"
    BY <1>1, <2>1 DEF Inductive, NoSendOnClosed
  <2> QED
    BY <2>2
<1> QED
  BY <1>1 DEF Inductive, Shape, Nodes, Out

\* A record that is delivered comes over a channel that is open.
LEMMA DeliveredOpen ==
    ASSUME Inductive, NEW n \in 1 .. Out, out[n - 1] # <<>>
    PROVE  n > stopAt
<1> USE PipelineAssumption DEF PipelineAssumption
<1> QED
  BY DEF Inductive, NoSendOnClosed, Shape, Out

\* No other node moves, and n may end only when it has nothing to tell.
OnlyMoves(n, records) ==
    /\ DOMAIN pc' = DOMAIN pc
    /\ \A m \in 1 .. Out : m # n => pc'[m] = pc[m]
    /\ pc'[n] = "ended" => records = <<>>

\* A goroutine that has not ended takes a record from the one before it (or
\* has a record of its own making) and may have something to tell, or end.
LEMMA ReceiveKeeps ==
    ASSUME Inductive,
           NEW n \in Nodes, pc[n] # "ended",
           NEW records, NEW rest,
           out' = [out EXCEPT ![n - 1] = rest, ![n] = records],
           out[n - 1] = <<>> => rest = <<>>,
           OnlyMoves(n, records),
           stopAt' = stopAt
    PROVE  Inductive'
<1> USE PipelineAssumption DEF PipelineAssumption
<1> DEFINE before == out[n - 1]
<1>1. n \in 1 .. N /\ n - 1 \in 0 .. N /\ n \in 0 .. N /\ n \in 1 .. Out /\ n - 1 # n
  BY DEF Nodes, Out
<1>2. n + 1 > stopAt
  BY ReceivingBeforeClosed
<1>3. /\ DOMAIN out' = 0 .. N
      /\ out'[n] = records
      /\ out'[n - 1] = rest
      /\ \A m \in 0 .. N : m # n /\ m # n - 1 => out'[m] = out[m]
  BY <1>1 DEF Inductive, Shape
<1>4. /\ DOMAIN pc' = 1 .. Out
      /\ \A m \in 1 .. Out : m # n => pc'[m] = pc[m]
      /\ pc'[n] = "ended" => records = <<>>
  BY <1>1 DEF Inductive, Shape, OnlyMoves
<1>5. Shape'
  BY <1>3, <1>4 DEF Shape, Inductive, Out
<1>6. EndedEmpty'
  <2> SUFFICES ASSUME NEW m \in Nodes, pc'[m] = "ended" PROVE out'[m] = <<>>
    BY DEF EndedEmpty, Nodes
  <2>1. m \in 0 .. N /\ m \in 1 .. Out
    BY DEF Nodes, Out
  <2>2. CASE m = n
    BY <2>2, <1>3, <1>4
  <2>3. CASE m # n
    <3>1. out[m] = <<>>
      BY <2>1, <2>3, <1>4 DEF Inductive, EndedEmpty
    <3> QED
      BY <3>1, <2>1, <2>3, <1>3
  <2> QED
    BY <2>2, <2>3
<1>7. NoSendOnClosed'
  <2> SUFFICES ASSUME NEW m \in 1 .. Out, m <= stopAt
               PROVE  out'[m - 1] = <<>> /\ (m > 1 => pc'[m - 1] = "ended")
    BY DEF NoSendOnClosed, Out
  <2>1. out[m - 1] = <<>> /\ (m > 1 => pc[m - 1] = "ended")
    BY DEF Inductive, NoSendOnClosed
  <2>2. m <= n /\ m - 1 \in 0 .. N /\ m - 1 # n
    BY <1>1, <1>2 DEF Inductive, Shape, Out
  <2>3. out'[m - 1] = <<>>
    BY <2>1, <2>2, <1>3
  <2>4. m > 1 => pc'[m - 1] = "ended"
    BY <2>1, <2>2, <1>4 DEF Out
  <2> QED
    BY <2>3, <2>4
<1> QED
  BY <1>5, <1>6, <1>7 DEF Inductive

\* Steps that only take a record away, from whoever tells it.
LEMMA TakeKeeps ==
    ASSUME Inductive,
           NEW n \in 0 .. N,
           out' = [out EXCEPT ![n] = Tail(@)], out[n] # <<>>,
           pc' = pc \/ (\E c : pc' = [pc EXCEPT ![Out] = c]),
           stopAt' = stopAt
    PROVE  Inductive'
<1> USE PipelineAssumption DEF PipelineAssumption
<1>1. /\ DOMAIN out' = 0 .. N
      /\ \A m \in 0 .. N : m # n => out'[m] = out[m]
  BY DEF Inductive, Shape
<1>2. /\ DOMAIN pc' = 1 .. Out
      /\ \A m \in 1 .. N : pc'[m] = pc[m]
  BY DEF Inductive, Shape, Out
<1>3. Shape'
  BY <1>1, <1>2 DEF Shape, Inductive, Out
<1>4. EndedEmpty'
  BY <1>1, <1>2 DEF Inductive, EndedEmpty, Nodes
<1>5. NoSendOnClosed'
  <2> SUFFICES ASSUME NEW m \in 1 .. Out, m <= stopAt
               PROVE  out'[m - 1] = <<>> /\ (m > 1 => pc'[m - 1] = "ended")
    BY DEF NoSendOnClosed, Out
  <2>1. out[m - 1] = <<>> /\ (m > 1 => pc[m - 1] = "ended")
    BY DEF Inductive, NoSendOnClosed
  <2>2. m - 1 \in 0 .. N /\ (m > 1 => m - 1 \in 1 .. N)
    BY DEF Out
  <2> QED
    BY <2>1, <2>2, <1>1, <1>2
<1> QED
  BY <1>3, <1>4, <1>5 DEF Inductive

\* Steps of the output and of the request touch no node.
LEMMA ElsewhereKeeps ==
    ASSUME Inductive, UNCHANGED <<out, stopAt>>,
           pc' = pc \/ (\E c : pc' = [pc EXCEPT ![Out] = c])
    PROVE  Inductive'
<1> USE PipelineAssumption DEF PipelineAssumption
<1>1. /\ DOMAIN pc' = 1 .. Out
      /\ \A m \in 1 .. N : pc'[m] = pc[m]
  BY DEF Inductive, Shape, Out
<1>2. Shape'
  BY <1>1 DEF Shape, Inductive, Out
<1>3. EndedEmpty'
  BY <1>1 DEF Inductive, EndedEmpty, Nodes
<1>4. NoSendOnClosed'
  <2> SUFFICES ASSUME NEW m \in 1 .. Out, m <= stopAt
               PROVE  out[m - 1] = <<>> /\ (m > 1 => pc'[m - 1] = "ended")
    BY DEF NoSendOnClosed, Out
  <2>1. m > 1 => m - 1 \in 1 .. N
    BY DEF Out
  <2> QED
    BY <2>1, <1>1 DEF Inductive, NoSendOnClosed
<1> QED
  BY <1>2, <1>3, <1>4 DEF Inductive

\* executeOutput closes the next channel when the node before it ended.
LEMMA StopKeeps == Inductive /\ StopNext => Inductive'
<1> SUFFICES ASSUME Inductive, StopNext PROVE Inductive'
  OBVIOUS
<1> USE PipelineAssumption DEF PipelineAssumption
<1>1. Shape'
  BY DEF StopNext, Shape, Inductive, Out
<1>2. EndedEmpty'
  BY DEF StopNext, EndedEmpty, Inductive, Nodes
<1>3. NoSendOnClosed'
  <2> SUFFICES ASSUME NEW m \in 1 .. Out, m <= stopAt + 1
               PROVE  out[m - 1] = <<>> /\ (m > 1 => pc[m - 1] = "ended")
    BY DEF NoSendOnClosed, Out, StopNext
  <2>1. CASE m <= stopAt
    BY <2>1 DEF Inductive, NoSendOnClosed
  <2>2. CASE m = stopAt + 1
    <3>1. stopAt = m - 1 /\ stopAt \in 0 .. N
      BY <2>2 DEF Inductive, Shape, Out
    <3>2. CASE stopAt = 0
      BY <3>1, <3>2 DEF StopNext
    <3>3. CASE stopAt # 0
      <4>1. pc[stopAt] = "ended" /\ stopAt \in Nodes
        BY <3>1, <3>3 DEF StopNext, Nodes
      <4> QED
        BY <4>1, <3>1 DEF Inductive, EndedEmpty
    <3> QED
      BY <3>2, <3>3
  <2> QED
    BY <2>1, <2>2 DEF Inductive, Shape
<1> QED
  BY <1>1, <1>2, <1>3 DEF Inductive

\* Every step of a node.
LEMMA NodeKeeps ==
    ASSUME Inductive, NEW n \in Nodes, NodeStep(n)
    PROVE  Inductive'
<1> USE PipelineAssumption DEF PipelineAssumption
<1>1. CASE NodeRow(n)
  <2> DEFINE e == Eval(n, Told(n).row)
  <2>1. pc[n] # "ended" /\ out[n - 1] # <<>>
    BY <1>1 DEF NodeRow, Sent
  <2>2. out' = [out EXCEPT ![n - 1] = Tail(@), ![n] = e.tell]
    BY <1>1 DEF NodeRow, Tell
  <2>3. out' = [out EXCEPT ![n - 1] = Tail(out[n - 1]), ![n] = e.tell]
    BY <2>2
  <2>4. OnlyMoves(n, e.tell) /\ stopAt' = stopAt
    BY <1>1, <2>1 DEF NodeRow, OnlyMoves
  <2> HIDE DEF e
  <2> QED
    BY <2>1, <2>3, <2>4, ReceiveKeeps
<1>2. CASE NodeError(n)
  <2>1. pc[n] # "ended" /\ out[n - 1] # <<>>
    BY <1>2 DEF NodeError, Sent
  <2>2. out' = [out EXCEPT ![n - 1] = Tail(out[n - 1]), ![n] = <<ErrorRecord>>]
    BY <1>2 DEF NodeError, Tell
  <2>3. OnlyMoves(n, <<ErrorRecord>>) /\ stopAt' = stopAt
    BY <1>2, <2>1 DEF NodeError, OnlyMoves
  <2> QED
    BY <2>1, <2>2, <2>3, ReceiveKeeps
<1>3. CASE NodeEof(n)
  <2>1. pc[n] # "ended" /\ out[n - 1] # <<>>
    BY <1>3 DEF NodeEof, Sent
  <2>2. out' = [out EXCEPT ![n - 1] = Tail(out[n - 1]), ![n] = LastWill(n)]
    BY <1>3 DEF NodeEof, Tell
  <2>3. pc' = [pc EXCEPT ![n] = "last"] /\ stopAt' = stopAt
    BY <1>3 DEF NodeEof
  <2>4. OnlyMoves(n, LastWill(n))
    BY <2>3 DEF OnlyMoves, Inductive, Shape, Nodes, Out
  <2> QED
    BY <2>1, <2>2, <2>3, <2>4, ReceiveKeeps
<1>4. CASE NodeEnds(n)
  <2>1. pc[n] # "ended" /\ out[n] = <<>>
    BY <1>4 DEF NodeEnds
  <2>2. out' = [out EXCEPT ![n - 1] = out[n - 1], ![n] = <<>>]
    BY <1>4, <2>1 DEF NodeEnds, Inductive, Shape
  <2>3. OnlyMoves(n, <<>>) /\ stopAt' = stopAt
    BY <1>4 DEF NodeEnds, OnlyMoves, Inductive, Shape, Nodes, Out
  <2> QED
    BY <2>1, <2>2, <2>3, ReceiveKeeps
<1>5. CASE NodePanics(n)
  <2>1. pc[n] # "ended" /\ out[n - 1] # <<>>
    BY <1>5 DEF NodePanics, Sent
  <2>2. out' = [out EXCEPT ![n - 1] = Tail(out[n - 1]), ![n] = <<>>]
    BY <1>5 DEF NodePanics, Tell
  <2>3. OnlyMoves(n, <<>>) /\ stopAt' = stopAt
    BY <1>5 DEF NodePanics, OnlyMoves, Inductive, Shape, Nodes, Out
  <2> QED
    BY <2>1, <2>2, <2>3, ReceiveKeeps
<1> QED
  BY <1>1, <1>2, <1>3, <1>4, <1>5 DEF NodeStep

\* One step of the system.
LEMMA NextInductive == Inductive /\ [Next]_vars => Inductive'
<1> SUFFICES ASSUME Inductive, [Next]_vars PROVE Inductive'
  OBVIOUS
<1> USE PipelineAssumption DEF PipelineAssumption
<1>0. 1 \in Nodes
  BY DEF Nodes
<1>1. ASSUME NEW n \in Nodes, NodeStep(n) PROVE Inductive'
  BY <1>1, NodeKeeps
<1>2. CASE SourceStart
  <2>1. pc[1] # "ended" /\ out[1 - 1] # <<>>
    BY <1>2 DEF SourceStart, Sent
  <2>2. out' = [out EXCEPT ![1 - 1] = Tail(out[1 - 1]), ![1] = <<>>]
    BY <1>2 DEF SourceStart, Tell
  <2>3. OnlyMoves(1, <<>>) /\ stopAt' = stopAt
    BY <1>0, <1>2 DEF SourceStart, OnlyMoves, Inductive, Shape, Nodes, Out
  <2> QED
    BY <1>0, <2>1, <2>2, <2>3, ReceiveKeeps
<1>3. CASE SourceRow
  <2>1. pc[1] # "ended" /\ out[1] = <<>> /\ stopAt' = stopAt
    BY <1>3 DEF SourceRow
  <2>2. CASE stop \/ next > NumRows
    <3>1. out' = [out EXCEPT ![1 - 1] = out[1 - 1], ![1] = <<>>]
      BY <1>3, <2>1, <2>2 DEF SourceRow, Inductive, Shape
    <3>2. OnlyMoves(1, <<>>)
      BY <1>0, <1>3, <2>2 DEF SourceRow, OnlyMoves, Inductive, Shape, Nodes, Out
    <3> QED
      BY <1>0, <2>1, <3>1, <3>2, ReceiveKeeps
  <2>3. CASE ~(stop \/ next > NumRows)
    <3>1. out' = [out EXCEPT ![1 - 1] = out[1 - 1], ![1] = <<RowRecord(next)>>]
      BY <1>3, <2>3 DEF SourceRow, Inductive, Shape
    <3>2. OnlyMoves(1, <<RowRecord(next)>>)
      BY <1>3, <2>1, <2>3 DEF SourceRow, OnlyMoves
    <3> QED
      BY <1>0, <2>1, <3>1, <3>2, ReceiveKeeps
  <2> QED
    BY <2>2, <2>3
<1>4. ASSUME NEW n \in 0 .. N, GiveUp(n) PROVE Inductive'
  BY <1>4, TakeKeeps DEF GiveUp
<1>5. CASE OutStep
  <2>0. N \in 0 .. N /\ Out - 1 = N
    BY DEF Out
  <2>1. CASE OutRow
    BY <2>0, <2>1, TakeKeeps DEF OutRow, Sent
  <2>2. CASE OutError
    BY <2>0, <2>2, TakeKeeps DEF OutError, Sent
  <2>3. CASE OutEof
    BY <2>0, <2>3, TakeKeeps DEF OutEof, Sent
  <2>4. CASE OutEnds
    BY <2>4, ElsewhereKeeps DEF OutEnds
  <2> QED
    BY <1>5, <2>1, <2>2, <2>3, <2>4 DEF OutStep
<1>6. CASE StopNext
  BY <1>6, StopKeeps
<1>7. CASE Cancel
  BY <1>7, ElsewhereKeeps DEF Cancel
<1>8. CASE ContextDone
  BY <1>8, ElsewhereKeeps DEF ContextDone
<1>9. CASE AfterContext
  BY <1>9, ElsewhereKeeps DEF AfterContext
<1>10. CASE UNCHANGED vars
  BY <1>10, ElsewhereKeeps DEF vars
<1> QED
  BY <1>1, <1>2, <1>3, <1>4, <1>5, <1>6, <1>7, <1>8, <1>9, <1>10 DEF Next

\* Nobody ever sends on a channel that executeOutput closed, however many
\* nodes the script has and whoever panics, leaves or gives up
\* (task_node.go stop, task.go executeOutput).
THEOREM NeverSendOnClosed == Spec => []NoSendOnClosed
<1>1. Init => Inductive
  BY InitInductive
<1>2. Inductive /\ [Next]_vars => Inductive'
  BY NextInductive
<1>3. Inductive => NoSendOnClosed
  BY DEF Inductive
<1> QED
  BY <1>1, <1>2, <1>3, PTL DEF Spec
-----------------------------------------------------------------------------
(* Recursion over numbers *)

\* A set that has b, and a number of b..n when it has the one before, has them all.
LEMMA Induction ==
  ASSUME NEW b \in Nat, NEW n \in Nat, NEW D, b \in D,
         \A i \in b + 1 .. n : i - 1 \in D => i \in D
  PROVE  \A i \in b .. n : i \in D
<1> DEFINE rest == {i \in Nat : i \in b .. n /\ i \notin D}
<1> SUFFICES ASSUME rest # {} PROVE FALSE
  OBVIOUS
<1>1. IsWellFoundedOn(OpToRel(<, Nat), Nat)
  BY NatLessThanWellFounded
<1>2. PICK m \in rest : \A k \in rest : <<k, m>> \notin OpToRel(<, Nat)
  BY <1>1, WFMin, Zenon
<1>3. \A k \in rest : ~(k < m)
  BY <1>2, Zenon DEF OpToRel
<1>4. m \in Nat /\ m \in b .. n /\ m \notin D /\ m # b
  BY <1>2
<1>5. m - 1 \in Nat /\ m - 1 \in b .. n /\ m - 1 < m /\ m \in b + 1 .. n
  BY <1>4
<1>6. m - 1 \in D
  BY <1>3, <1>5
<1> QED
  BY <1>4, <1>5, <1>6

\* What a recursive definition of the modules says of a function.
Recursive(f, b, n, first, step) ==
    f = [i \in b .. n |-> IF i = b THEN first ELSE step[i][f[i - 1]]]

LEMMA RecursiveExists ==
  ASSUME NEW A, NEW b \in Nat, NEW n \in Nat, b <= n, NEW first \in A,
         NEW step \in [b + 1 .. n -> [A -> A]]
  PROVE  \E f \in [b .. n -> A] : Recursive(f, b, n, first, step)
<1> DEFINE D == {m \in b .. n : \E f \in [b .. m -> A] : Recursive(f, b, m, first, step)}
<1>1. b \in D
  <2> DEFINE f == [i \in b .. b |-> first]
  <2>1. f \in [b .. b -> A] /\ f = [i \in b .. b |-> IF i = b THEN first ELSE step[i][f[i - 1]]]
    OBVIOUS
  <2> HIDE DEF f
  <2>2. b \in b .. n
    OBVIOUS
  <2> QED
    BY <2>1, <2>2 DEF Recursive
<1>2. ASSUME NEW m \in b + 1 .. n, m - 1 \in D PROVE m \in D
  <2>1. PICK f \in [b .. m - 1 -> A] : Recursive(f, b, m - 1, first, step)
    BY <1>2
  <2> DEFINE g == [i \in b .. m |-> IF i = m THEN step[m][f[m - 1]] ELSE f[i]]
  <2>2. m - 1 \in b .. m - 1 /\ m \in b .. n /\ f[m - 1] \in A /\ step[m][f[m - 1]] \in A
    OBVIOUS
  <2>3. g \in [b .. m -> A]
    BY <2>2
  <2>4. ASSUME NEW i \in b .. m PROVE g[i] = IF i = b THEN first ELSE step[i][g[i - 1]]
    <3>1. CASE i = m
      BY <2>2, <3>1
    <3>2. CASE i # m
      <4>1. i \in b .. m - 1 /\ (i # b => i - 1 \in b .. m - 1 /\ i - 1 \in b .. m /\ i - 1 # m)
        BY <3>2
      <4>2. f[i] = IF i = b THEN first ELSE step[i][f[i - 1]]
        BY <2>1, <4>1 DEF Recursive
      <4> QED
        BY <3>2, <4>1, <4>2
    <3> QED
      BY <3>1, <3>2
  <2> HIDE DEF g
  <2>5. g = [i \in b .. m |-> IF i = b THEN first ELSE step[i][g[i - 1]]]
    BY <2>3, <2>4
  <2> QED
    BY <2>2, <2>3, <2>5 DEF Recursive
<1> HIDE DEF D
<1>3. n \in D
  <2>1. \A i \in b .. n : i \in D
    BY <1>1, <1>2, Induction
  <2> QED
    BY <2>1
<1> QED
  BY <1>3 DEF D

-----------------------------------------------------------------------------
(* The rows at some places *)

SieveStep(A, rs, I) ==
    [i \in 1 .. Len(rs) |-> [s \in A |-> IF i \in I THEN Append(s, rs[i]) ELSE s]]

LEMMA SieveIs ==
  ASSUME NEW S, NEW rs \in Seq(S), NEW I
  PROVE  \E f \in [0 .. Len(rs) -> Seq(S)] :
           Recursive(f, 0, Len(rs), <<>>, SieveStep(Seq(S), rs, I)) /\ Sieve(rs, I) = f[Len(rs)]
<1> DEFINE n == Len(rs)  st == SieveStep(Seq(S), rs, I)
           G(f) == [i \in 0 .. n |-> IF i = 0 THEN <<>>
                                     ELSE IF i \in I THEN Append(f[i - 1], rs[i]) ELSE f[i - 1]]
           F == CHOOSE f : f = G(f)
<1>1. st \in [0 + 1 .. n -> [Seq(S) -> Seq(S)]] /\ n \in Nat /\ <<>> \in Seq(S)
  BY DEF SieveStep
<1>2. PICK f \in [0 .. n -> Seq(S)] : Recursive(f, 0, n, <<>>, st)
  <2> DEFINE A == Seq(S)
  <2> HIDE DEF st, n, A
  <2>1. st \in [0 + 1 .. n -> [A -> A]] /\ n \in Nat /\ <<>> \in A /\ 0 <= n /\ 0 \in Nat
    BY <1>1 DEF A
  <2>2. \E f \in [0 .. n -> A] : Recursive(f, 0, n, <<>>, st)
    BY <2>1, RecursiveExists
  <2> QED
    BY <2>2 DEF A
<1>3. ASSUME NEW g, \A i \in 0 .. n : g[i] \in Seq(S)
      PROVE  \A i \in 0 .. n : i # 0 => st[i][g[i - 1]] = IF i \in I THEN Append(g[i - 1], rs[i]) ELSE g[i - 1]
  BY <1>3 DEF SieveStep
<1>4. f = G(f)
  <2>1. \A i \in 0 .. n : f[i] = IF i = 0 THEN <<>> ELSE st[i][f[i - 1]]
    <3> HIDE DEF st
    <3> QED
      BY <1>2 DEF Recursive
  <2>2. \A i \in 0 .. n : f[i] \in Seq(S)
    OBVIOUS
  <2> HIDE DEF st, n
  <2>3. \A i \in 0 .. n : f[i] = IF i = 0 THEN <<>> ELSE IF i \in I THEN Append(f[i - 1], rs[i]) ELSE f[i - 1]
    BY <1>3, <2>1, <2>2
  <2> QED
    BY <2>3
<1> HIDE DEF st, n
<1>5. F = G(F)
  <2> HIDE DEF G
  <2> QED
    BY <1>4
<1>6. \A i \in 0 .. n : F[i] = IF i = 0 THEN <<>> ELSE IF i \in I THEN Append(F[i - 1], rs[i]) ELSE F[i - 1]
  <2> HIDE DEF F
  <2> QED
    BY <1>5
<1> HIDE DEF F
<1>7. \A i \in 0 .. n : F[i] = f[i]
  <2> DEFINE D == {i \in 0 .. n : F[i] = f[i]}
  <2>1. f[0] = <<>> /\ F[0] = <<>> /\ 0 \in D
    BY <1>1, <1>4, <1>6
  <2>2. \A i \in 0 .. n : f[i] = IF i = 0 THEN <<>> ELSE IF i \in I THEN Append(f[i - 1], rs[i]) ELSE f[i - 1]
    BY <1>4
  <2>3. ASSUME NEW i \in 0 + 1 .. n, i - 1 \in D PROVE i \in D
    <3>1. i \in 0 .. n /\ i # 0 /\ i - 1 \in 0 .. n
      BY <1>1
    <3>2. F[i - 1] = f[i - 1]
      BY <2>3
    <3>3. F[i] = IF i \in I THEN Append(F[i - 1], rs[i]) ELSE F[i - 1]
      BY <1>6, <3>1
    <3>4. f[i] = IF i \in I THEN Append(f[i - 1], rs[i]) ELSE f[i - 1]
      BY <2>2, <3>1
    <3>5. F[i] = f[i]
      BY <3>2, <3>3, <3>4
    <3> QED
      BY <3>1, <3>5
  <2> HIDE DEF D
  <2>4. \A i \in 0 .. n : i \in D
    BY <1>1, <2>1, <2>3, Induction
  <2> QED
    BY <2>4 DEF D
<1>8. Sieve(rs, I) = F[n]
  BY DEF Sieve, F, n
<1>9. Sieve(rs, I) = f[n]
  BY <1>1, <1>7, <1>8
<1> QED
  BY <1>2, <1>9 DEF st, n

\* The rows found in the places up to i, for every i.
Sieving(g, S, rs, I) ==
    /\ g \in [0 .. Len(rs) -> Seq(S)] /\ g[0] = <<>> /\ Sieve(rs, I) = g[Len(rs)]
    /\ \A i \in 1 .. Len(rs) : g[i] = IF i \in I THEN Append(g[i - 1], rs[i]) ELSE g[i - 1]

LEMMA SieveOf ==
  ASSUME NEW S, NEW rs \in Seq(S), NEW I
  PROVE  \E g : Sieving(g, S, rs, I)
<1> DEFINE n == Len(rs)  st == SieveStep(Seq(S), rs, I)
<1>1. PICK f \in [0 .. n -> Seq(S)] : Recursive(f, 0, n, <<>>, st) /\ Sieve(rs, I) = f[n]
  BY SieveIs
<1>2. n \in Nat /\ \A i \in 0 .. n : f[i] \in Seq(S)
  OBVIOUS
<1>3. \A i \in 1 .. n : i - 1 \in 0 .. n
  BY <1>2
<1>4. \A i \in 1 .. n : \A s \in Seq(S) : st[i][s] = IF i \in I THEN Append(s, rs[i]) ELSE s
  BY DEF SieveStep
<1>5. \A i \in 0 .. n : f[i] = IF i = 0 THEN <<>> ELSE st[i][f[i - 1]]
  <2> HIDE DEF st
  <2> QED
    BY <1>1 DEF Recursive
<1> HIDE DEF st, n
<1>6. \A i \in 1 .. n : i \in 0 .. n /\ i # 0
  BY <1>2
<1>7. f[0] = <<>> /\ \A i \in 1 .. n : f[i] = IF i \in I THEN Append(f[i - 1], rs[i]) ELSE f[i - 1]
  <2>1. f[0] = <<>>
    BY <1>2, <1>5
  <2>2. ASSUME NEW i \in 1 .. n PROVE f[i] = IF i \in I THEN Append(f[i - 1], rs[i]) ELSE f[i - 1]
    <3>1. f[i] = st[i][f[i - 1]]
      BY <1>5, <1>6
    <3>2. f[i - 1] \in Seq(S)
      BY <1>2, <1>3
    <3> QED
      BY <1>4, <3>1, <3>2
  <2> QED
    BY <2>1, <2>2
<1> QED
  BY <1>1, <1>7 DEF Sieving, n

\* a is where b starts.
StartsWith(b, a) == Len(a) <= Len(b) /\ \A i \in 1 .. Len(a) : a[i] = b[i]

\* rs is where t starts, with the same places.
SameStart(rs, I, t, J) == StartsWith(t, rs) /\ \A i \in 1 .. Len(rs) : i \in I <=> i \in J

LEMMA SievePart ==
  ASSUME NEW S, NEW rs \in Seq(S), NEW I, NEW t \in Seq(S), NEW J, SameStart(rs, I, t, J),
         NEW g, Sieving(g, S, t, J)
  PROVE  Sieve(rs, I) = g[Len(rs)]
<1> DEFINE n == Len(rs)  m == Len(t)
<1>1. PICK f : Sieving(f, S, rs, I)
  BY SieveOf
<1> DEFINE D == {i \in 0 .. n : f[i] = g[i]}
<1>2. n \in Nat /\ m \in Nat /\ n <= m /\ \A i \in 1 .. n : rs[i] = t[i] /\ (i \in I <=> i \in J)
  BY DEF SameStart, StartsWith
<1>3. /\ f[0] = <<>> /\ g[0] = <<>>
      /\ \A i \in 1 .. n : f[i] = IF i \in I THEN Append(f[i - 1], rs[i]) ELSE f[i - 1]
      /\ \A i \in 1 .. m : g[i] = IF i \in J THEN Append(g[i - 1], t[i]) ELSE g[i - 1]
  BY <1>1 DEF Sieving
<1>4. 0 \in D
  BY <1>2, <1>3
<1>5. ASSUME NEW i \in 0 + 1 .. n, i - 1 \in D PROVE i \in D
  <2>1. i \in 1 .. n /\ i \in 1 .. m /\ i \in 0 .. n /\ i - 1 \in 0 .. n /\ f[i - 1] = g[i - 1]
    BY <1>2, <1>5
  <2> HIDE DEF n, m
  <2>2. f[i] = g[i]
    BY <1>2, <1>3, <2>1
  <2> QED
    BY <2>1, <2>2
<1> HIDE DEF D
<1>6. \A i \in 0 .. n : i \in D
  <2> HIDE DEF n
  <2> QED
    BY <1>2, <1>4, <1>5, Induction
<1>7. f[n] = g[n]
  BY <1>2, <1>6 DEF D
<1> QED
  BY <1>1, <1>7 DEF Sieving

LEMMA SieveType ==
  ASSUME NEW S, NEW rs \in Seq(S), NEW I
  PROVE  Sieve(rs, I) \in Seq(S)
<1>1. PICK g : Sieving(g, S, rs, I)
  BY SieveOf
<1> QED
  BY <1>1 DEF Sieving

LEMMA SieveNothing == ASSUME NEW I PROVE Sieve(<<>>, I) = <<>>
<1>1. <<>> \in Seq({})
  OBVIOUS
<1>2. PICK g : Sieving(g, {}, <<>>, I)
  BY <1>1, SieveOf
<1> QED
  BY <1>2 DEF Sieving

LEMMA SieveAppend ==
  ASSUME NEW S, NEW rs \in Seq(S), NEW x \in S, NEW I, NEW J,
         \A i \in 1 .. Len(rs) : i \in I <=> i \in J
  PROVE  Sieve(Append(rs, x), J) = IF Len(rs) + 1 \in J THEN Append(Sieve(rs, I), x) ELSE Sieve(rs, I)
<1> DEFINE t == Append(rs, x)  n == Len(rs)
<1>1. t \in Seq(S) /\ Len(t) = n + 1 /\ t[n + 1] = x /\ n \in Nat /\ SameStart(rs, I, t, J)
  BY DEF SameStart, StartsWith
<1> HIDE DEF t
<1>2. PICK g : Sieving(g, S, t, J)
  BY <1>1, SieveOf
<1>3. Sieve(rs, I) = g[n]
  BY <1>1, <1>2, SievePart
<1>4. n + 1 \in 1 .. Len(t) /\ (n + 1) - 1 = n
  BY <1>1
<1>5. Sieve(t, J) = g[n + 1] /\ g[n + 1] = IF n + 1 \in J THEN Append(g[n], t[n + 1]) ELSE g[n]
  BY <1>1, <1>2, <1>4 DEF Sieving
<1> QED
  BY <1>1, <1>3, <1>5 DEF t

\* More rows and places find more, behind what was found.
LEMMA SieveGrows ==
  ASSUME NEW S, NEW rs \in Seq(S), NEW I, NEW t \in Seq(S), NEW J, SameStart(rs, I, t, J)
  PROVE  /\ StartsWith(Sieve(t, J), Sieve(rs, I))
         /\ (\A i \in 1 .. Len(t) : i \in J => i <= Len(rs)) => Sieve(t, J) = Sieve(rs, I)
<1> DEFINE n == Len(rs)  m == Len(t)
<1>1. PICK g : Sieving(g, S, t, J)
  BY SieveOf
<1>2. Sieve(rs, I) = g[n] /\ Sieve(t, J) = g[m]
  <2>1. Sieve(rs, I) = g[Len(rs)]
    BY <1>1, SievePart
  <2> QED
    BY <1>1, <2>1 DEF Sieving
<1>3. n \in Nat /\ m \in Nat /\ n <= m /\ n \in n .. m /\ m \in n .. m
  BY DEF SameStart, StartsWith
<1>4. /\ \A i \in 0 .. m : g[i] \in Seq(S)
      /\ \A i \in 1 .. m : g[i] = IF i \in J THEN Append(g[i - 1], t[i]) ELSE g[i - 1]
  BY <1>1 DEF Sieving
<1> HIDE DEF n, m
<1>5. StartsWith(g[m], g[n])
  <2> DEFINE D == {i \in n .. m : StartsWith(g[i], g[n])}
  <2>1. n \in D
    <3>1. g[n] \in Seq(S)
      BY <1>3, <1>4
    <3>2. StartsWith(g[n], g[n])
      BY <3>1 DEF StartsWith
    <3> QED
      BY <1>3, <3>2
  <2>2. ASSUME NEW i \in n + 1 .. m, i - 1 \in D PROVE i \in D
    <3>1. i \in 1 .. m /\ i - 1 \in 0 .. m /\ i \in n .. m /\ n \in 0 .. m
      BY <1>3
    <3>2. g[i - 1] \in Seq(S) /\ g[n] \in Seq(S) /\ StartsWith(g[i - 1], g[n])
          /\ g[i] = IF i \in J THEN Append(g[i - 1], t[i]) ELSE g[i - 1]
      BY <1>4, <2>2, <3>1
    <3>3. \A a, b \in Seq(S) : \A x : StartsWith(a, b) => StartsWith(Append(a, x), b)
      BY DEF StartsWith
    <3>4. StartsWith(g[i], g[n])
      BY <3>2, <3>3
    <3> QED
      BY <3>1, <3>4
  <2> HIDE DEF D
  <2>3. \A i \in n .. m : i \in D
    BY <1>3, <2>1, <2>2, Induction
  <2> QED
    BY <1>3, <2>3 DEF D
<1>6. ASSUME \A i \in 1 .. m : i \in J => i <= n PROVE g[m] = g[n]
  <2> DEFINE D == {i \in n .. m : g[i] = g[n]}
  <2>1. n \in D
    BY <1>3
  <2>2. ASSUME NEW i \in n + 1 .. m, i - 1 \in D PROVE i \in D
    <3>1. i \in 1 .. m /\ i \in n .. m /\ ~(i <= n)
      BY <1>3
    <3>2. g[i] = g[i - 1]
      BY <1>4, <1>6, <3>1
    <3> QED
      BY <2>2, <3>1, <3>2
  <2> HIDE DEF D
  <2>3. \A i \in n .. m : i \in D
    BY <1>3, <2>1, <2>2, Induction
  <2> QED
    BY <1>3, <2>3 DEF D
<1> QED
  BY <1>2, <1>5, <1>6 DEF n, m
-----------------------------------------------------------------------------
(* The maps *)

LEMMA PlacesOf ==
  ASSUME NEW rs, NEW i
  PROVE  /\ i \in Places("map", rs) <=> i \in 1 .. Len(rs) /\ rs[i] \notin Bad \cup Dropped
         /\ i \in Places("take", rs) <=> i \in 1 .. Len(rs) /\ i <= Limit
         /\ i \in Places("group", rs) <=> i \in 1 .. Len(rs) /\ (i = 1 \/ rs[i] # rs[i - 1])
<1>1. Places("map", rs) = {j \in 1 .. Len(rs) : rs[j] \notin Bad \cup Dropped}
  BY DEF Places
<1>2. Places("take", rs) = {j \in 1 .. Len(rs) : j <= Limit}
  BY DEF Places
<1>3. Places("group", rs) = {j \in 1 .. Len(rs) : j = 1 \/ rs[j] # rs[j - 1]}
  BY DEF Places
<1> QED
  BY <1>1, <1>2, <1>3

LEMMA PlacesStart ==
  ASSUME NEW S, NEW rs \in Seq(S), NEW t \in Seq(S), StartsWith(t, rs), NEW k \in {"map", "take", "group"}
  PROVE  SameStart(rs, Places(k, rs), t, Places(k, t))
<1>1. Len(rs) \in Nat /\ Len(t) \in Nat /\ Len(rs) <= Len(t) /\ \A i \in 1 .. Len(rs) : rs[i] = t[i]
  BY DEF StartsWith
<1>2. ASSUME NEW i \in 1 .. Len(rs) PROVE i \in Places(k, rs) <=> i \in Places(k, t)
  <2>1. i \in 1 .. Len(t) /\ rs[i] = t[i] /\ (i # 1 => i - 1 \in 1 .. Len(rs))
    BY <1>1
  <2>2. i # 1 => rs[i - 1] = t[i - 1]
    BY <1>1, <2>1
  <2>3. CASE k = "map"
    BY <2>1, <2>3, PlacesOf
  <2>4. CASE k = "take"
    BY <2>1, <2>4, PlacesOf
  <2>5. CASE k = "group"
    BY <2>1, <2>2, <2>5, PlacesOf
  <2> QED
    BY <2>3, <2>4, <2>5
<1> QED
  BY <1>2 DEF SameStart

LEMMA AppendStarts ==
  ASSUME NEW S, NEW rs \in Seq(S), NEW x \in S PROVE StartsWith(Append(rs, x), rs)
BY DEF StartsWith

LEMMA TwiceOf ==
  ASSUME NEW S, NEW rs \in Seq(S)
  PROVE  /\ Twice(rs) \in Seq(S) /\ Len(Twice(rs)) = 2 * Len(rs)
         /\ \A i \in 1 .. 2 * Len(rs) : (i + 1) \div 2 \in 1 .. Len(rs) /\ Twice(rs)[i] = rs[(i + 1) \div 2]
<1>1. Len(rs) \in Nat /\ 2 * Len(rs) \in Nat
  OBVIOUS
<1>2. \A n \in Nat : \A i \in 1 .. 2 * n : (i + 1) \div 2 \in 1 .. n
  OBVIOUS
<1>3. \A i \in 1 .. 2 * Len(rs) : (i + 1) \div 2 \in 1 .. Len(rs)
  BY <1>1, <1>2
<1>4. \A i \in 1 .. 2 * Len(rs) : rs[(i + 1) \div 2] \in S
  BY <1>3
<1> QED
  BY <1>1, <1>3, <1>4 DEF Twice

LEMMA TwiceAppend ==
  ASSUME NEW S, NEW rs \in Seq(S), NEW x \in S
  PROVE  Twice(Append(rs, x)) = Twice(rs) \o <<x, x>>
<1> DEFINE n == Len(rs)  t == Append(rs, x)  a == Twice(t)  c == Twice(rs)  b == c \o <<x, x>>
<1>1. n \in Nat /\ t \in Seq(S) /\ Len(t) = n + 1 /\ t[n + 1] = x /\ \A i \in 1 .. n : t[i] = rs[i]
  OBVIOUS
<1> HIDE DEF t
<1>2. /\ a \in Seq(S) /\ Len(a) = 2 * (n + 1)
      /\ \A i \in 1 .. 2 * (n + 1) : (i + 1) \div 2 \in 1 .. n + 1 /\ a[i] = t[(i + 1) \div 2]
  BY <1>1, TwiceOf
<1>3. /\ c \in Seq(S) /\ Len(c) = 2 * n
      /\ \A i \in 1 .. 2 * n : (i + 1) \div 2 \in 1 .. n /\ c[i] = rs[(i + 1) \div 2]
  BY TwiceOf
<1> HIDE DEF a, c, n
<1>4. <<x, x>> \in Seq(S) /\ Len(<<x, x>>) = 2 /\ <<x, x>>[1] = x /\ <<x, x>>[2] = x
  OBVIOUS
<1>5. b \in Seq(S) /\ Len(b) = 2 * n + 2 /\ (\A i \in 1 .. 2 * n : b[i] = c[i])
      /\ b[2 * n + 1] = x /\ b[2 * n + 2] = x
  BY <1>1, <1>3, <1>4
<1> HIDE DEF b
<1>6. ASSUME NEW i \in 1 .. 2 * (n + 1) PROVE a[i] = b[i]
  <2>0. \A m \in Nat : \A j \in 1 .. 2 * (m + 1) : j \in 1 .. 2 * m \/ j = 2 * m + 1 \/ j = 2 * m + 2
    OBVIOUS
  <2>1. i \in 1 .. 2 * n \/ i = 2 * n + 1 \/ i = 2 * n + 2
    BY <1>1, <2>0
  <2>2. CASE i \in 1 .. 2 * n
    BY <1>1, <1>2, <1>3, <1>5, <2>2
  <2>3. (2 * n + 1 + 1) \div 2 = n + 1 /\ (2 * n + 2 + 1) \div 2 = n + 1
    BY <1>1
  <2>4. CASE i = 2 * n + 1
    BY <1>1, <1>2, <1>5, <2>3, <2>4
  <2>5. CASE i = 2 * n + 2
    BY <1>1, <1>2, <1>5, <2>3, <2>5
  <2> QED
    BY <2>1, <2>2, <2>4, <2>5
<1>7. Len(a) = Len(b)
  BY <1>1, <1>2, <1>5
<1>8. a = b
  BY <1>2, <1>5, <1>6, <1>7, SeqEqual
<1> QED
  BY <1>8 DEF a, b, c, t

LEMMA StageType ==
  ASSUME NEW S, NEW rs \in Seq(S), NEW k PROVE Stage(k, rs) \in Seq(S)
BY SieveType, TwiceOf DEF Stage

LEMMA StageNothing == ASSUME NEW k PROVE Stage(k, <<>>) = <<>>
<1>1. Twice(<<>>) = <<>>
  BY DEF Twice
<1> QED
  BY <1>1, SieveNothing DEF Stage

LEMMA StageSieve == ASSUME NEW rs, NEW k, k # "flat" PROVE Stage(k, rs) = Sieve(rs, Places(k, rs))
BY DEF Stage

LEMMA StageAppend ==
  ASSUME NEW S, NEW rs \in Seq(S), NEW r \in S, NEW k \in {"map", "take", "group"}
  PROVE  Stage(k, Append(rs, r)) =
           IF Len(rs) + 1 \in Places(k, Append(rs, r)) THEN Append(Stage(k, rs), r) ELSE Stage(k, rs)
<1>1. Append(rs, r) \in Seq(S) /\ k # "flat"
  OBVIOUS
<1>2. \A i \in 1 .. Len(rs) : i \in Places(k, rs) <=> i \in Places(k, Append(rs, r))
  BY <1>1, AppendStarts, PlacesStart DEF SameStart
<1>3. Sieve(Append(rs, r), Places(k, Append(rs, r))) =
        IF Len(rs) + 1 \in Places(k, Append(rs, r))
        THEN Append(Sieve(rs, Places(k, rs)), r) ELSE Sieve(rs, Places(k, rs))
  BY <1>2, SieveAppend
<1> QED
  BY <1>1, <1>3, StageSieve

LEMMA StageGrows ==
  ASSUME NEW S, NEW rs \in Seq(S), NEW t \in Seq(S), StartsWith(t, rs),
         NEW k \in {"map", "take", "flat", "group"}
  PROVE  /\ StartsWith(Stage(k, t), Stage(k, rs))
         /\ k = "take" /\ Len(rs) >= Limit => Stage(k, t) = Stage(k, rs)
<1>1. CASE k = "flat"
  <2>1. Len(rs) \in Nat /\ Len(t) \in Nat /\ Len(rs) <= Len(t) /\ \A i \in 1 .. Len(rs) : rs[i] = t[i]
    BY DEF StartsWith
  <2>2. /\ Len(Twice(rs)) = 2 * Len(rs) /\ Len(Twice(t)) = 2 * Len(t)
        /\ \A i \in 1 .. 2 * Len(rs) : (i + 1) \div 2 \in 1 .. Len(rs) /\ Twice(rs)[i] = rs[(i + 1) \div 2]
        /\ \A i \in 1 .. 2 * Len(t) : Twice(t)[i] = t[(i + 1) \div 2]
    BY TwiceOf
  <2>3. 2 * Len(rs) <= 2 * Len(t) /\ \A i \in 1 .. 2 * Len(rs) : i \in 1 .. 2 * Len(t)
    BY <2>1
  <2>4. StartsWith(Twice(t), Twice(rs))
    BY <2>1, <2>2, <2>3 DEF StartsWith
  <2> QED
    BY <1>1, <2>4 DEF Stage
<1>2. CASE k # "flat"
  <2>1. k \in {"map", "take", "group"} /\ SameStart(rs, Places(k, rs), t, Places(k, t))
    BY <1>2, PlacesStart
  <2>2. /\ StartsWith(Sieve(t, Places(k, t)), Sieve(rs, Places(k, rs)))
        /\ (\A i \in 1 .. Len(t) : i \in Places(k, t) => i <= Len(rs))
             => Sieve(t, Places(k, t)) = Sieve(rs, Places(k, rs))
    BY <2>1, SieveGrows
  <2>3. ASSUME k = "take", Len(rs) >= Limit PROVE \A i \in 1 .. Len(t) : i \in Places(k, t) => i <= Len(rs)
    <3>1. Len(rs) \in Nat /\ Limit \in Nat
      BY PipelineAssumption DEF PipelineAssumption
    <3> QED
      BY <2>3, <3>1, PlacesOf
  <2> QED
    BY <1>2, <2>2, <2>3, StageSieve
<1> QED
  BY <1>1, <1>2

\* A TAKE is full when it has let Limit rows through.
LEMMA TakeLength ==
  ASSUME NEW S, NEW rs \in Seq(S)
  PROVE  Len(Stage("take", rs)) = IF Len(rs) <= Limit THEN Len(rs) ELSE Limit
<1> DEFINE I == Places("take", rs)  n == Len(rs)
<1>1. PICK g : Sieving(g, S, rs, I)
  BY SieveOf
<1>2. /\ \A i \in 0 .. n : g[i] \in Seq(S)
      /\ g[0] = <<>> /\ Sieve(rs, I) = g[n]
      /\ \A i \in 1 .. n : g[i] = IF i \in I THEN Append(g[i - 1], rs[i]) ELSE g[i - 1]
  BY <1>1 DEF Sieving
<1>3. n \in Nat /\ Limit \in Nat /\ \A i \in 1 .. n : i \in I <=> i <= Limit
  BY PipelineAssumption, PlacesOf DEF PipelineAssumption
<1> DEFINE D == {i \in 0 .. n : Len(g[i]) = IF i <= Limit THEN i ELSE Limit}
<1> HIDE DEF I, n
<1>4. 0 \in D
  BY <1>2, <1>3
<1>5. ASSUME NEW i \in 0 + 1 .. n, i - 1 \in D PROVE i \in D
  <2>1. i \in 1 .. n /\ i - 1 \in 0 .. n /\ i \in 0 .. n
    BY <1>3
  <2>2. g[i - 1] \in Seq(S) /\ g[i] = IF i <= Limit THEN Append(g[i - 1], rs[i]) ELSE g[i - 1]
    BY <1>2, <1>3, <2>1
  <2>3. Len(g[i - 1]) = IF i - 1 <= Limit THEN i - 1 ELSE Limit
    BY <1>5
  <2>4. \A s \in Seq(S) : \A x : Len(Append(s, x)) = Len(s) + 1
    OBVIOUS
  <2>5. Len(g[i]) = IF i <= Limit THEN Len(g[i - 1]) + 1 ELSE Len(g[i - 1])
    BY <2>2, <2>4
  <2>6. Len(g[i]) = IF i <= Limit THEN i ELSE Limit
    BY <1>3, <2>1, <2>3, <2>5
  <2> QED
    BY <2>1, <2>6
<1> HIDE DEF D
<1>6. \A i \in 0 .. n : i \in D
  BY <1>3, <1>4, <1>5, Induction
<1>7. Len(g[n]) = IF n <= Limit THEN n ELSE Limit
  BY <1>3, <1>6 DEF D
<1> QED
  BY <1>2, <1>7, StageSieve DEF I, n
-----------------------------------------------------------------------------
(* The script *)

LEMMA ResultsOf ==
  ASSUME NEW S, NEW rs \in Seq(S)
  PROVE  /\ Results(rs) \in [Nodes -> Seq(S)] /\ Results(rs)[1] = rs
         /\ \A n \in 2 .. N : Results(rs)[n] = Stage(kind[n], Results(rs)[n - 1])
<1> DEFINE A == Seq(S)
           st == [n \in 2 .. N |-> [s \in A |-> Stage(kind[n], s)]]
           G(f) == [n \in Nodes |-> IF n = 1 THEN rs ELSE Stage(kind[n], f[n - 1])]
           F == CHOOSE f : f = G(f)
<1>1. st \in [2 .. N -> [A -> A]] /\ 1 \in Nat /\ N \in Nat /\ 1 <= N /\ rs \in A
  BY StageType, PipelineAssumption DEF PipelineAssumption
<1>2. \A n \in 2 .. N : \A s \in A : st[n][s] = Stage(kind[n], s) /\ Stage(kind[n], s) \in A
  BY StageType
<1> HIDE DEF st, A
<1>3. PICK f \in [1 .. N -> A] : Recursive(f, 1, N, rs, st)
  <2>1. st \in [1 + 1 .. N -> [A -> A]]
    BY <1>1
  <2> QED
    BY <1>1, <2>1, RecursiveExists
<1>4. \A n \in 1 .. N : n # 1 => n \in 2 .. N /\ n - 1 \in 1 .. N
  BY <1>1
<1>5. \A n \in 1 .. N : f[n] = IF n = 1 THEN rs ELSE Stage(kind[n], f[n - 1])
  <2>1. \A n \in 1 .. N : f[n] = IF n = 1 THEN rs ELSE st[n][f[n - 1]]
    BY <1>3 DEF Recursive
  <2> QED
    BY <1>2, <1>3, <1>4, <2>1
<1>6. f = G(f)
  BY <1>5 DEF Nodes
<1>7. F = G(F)
  <2> HIDE DEF G
  <2> QED
    BY <1>6
<1>8. F = Results(rs)
  BY DEF Results
<1> HIDE DEF F
<1>9. \A n \in 1 .. N : F[n] = IF n = 1 THEN rs ELSE Stage(kind[n], F[n - 1])
  BY <1>7 DEF Nodes
<1> DEFINE D == {n \in 1 .. N : F[n] \in A}
<1>10. 1 \in D
  BY <1>1, <1>9
<1>11. ASSUME NEW n \in 1 + 1 .. N, n - 1 \in D PROVE n \in D
  <2>1. n \in 1 .. N /\ n # 1 /\ n \in 2 .. N /\ F[n - 1] \in A
    BY <1>1, <1>11
  <2>2. F[n] = Stage(kind[n], F[n - 1])
    BY <1>9, <2>1
  <2> QED
    BY <1>2, <2>1, <2>2
<1> HIDE DEF D
<1>12. \A n \in 1 .. N : n \in D
  BY <1>1, <1>10, <1>11, Induction
<1>13. \A n \in 1 .. N : F[n] \in A
  BY <1>12 DEF D
<1>14. \A n \in 2 .. N : n \in 1 .. N /\ n # 1
  BY <1>1
<1>15. F \in [1 .. N -> A] /\ F[1] = rs /\ \A n \in 2 .. N : F[n] = Stage(kind[n], F[n - 1])
  <2>1. F = [n \in 1 .. N |-> F[n]]
    BY <1>7 DEF Nodes
  <2> QED
    <3>1. F \in [1 .. N -> A]
      BY <1>13, <2>1
    <3>2. F[1] = rs
      BY <1>1, <1>9
    <3>3. \A n \in 2 .. N : F[n] = Stage(kind[n], F[n - 1])
      BY <1>9, <1>14
    <3> QED
      BY <3>1, <3>2, <3>3
<1> QED
  BY <1>8, <1>15 DEF Nodes, A

\* Whatever is made stage by stage is the result.
LEMMA ResultsAre ==
  ASSUME NEW S, NEW rs \in Seq(S), NEW flow, flow[1] = rs,
         \A n \in 2 .. N : flow[n] = Stage(kind[n], flow[n - 1])
  PROVE  \A n \in Nodes : flow[n] = Results(rs)[n]
<1> DEFINE R == Results(rs)  D == {n \in 1 .. N : flow[n] = R[n]}
<1>1. R[1] = rs /\ \A n \in 2 .. N : R[n] = Stage(kind[n], R[n - 1])
  BY ResultsOf
<1> HIDE DEF R
<1>2. 1 \in D /\ N \in Nat /\ 1 \in Nat
  BY <1>1, PipelineAssumption DEF PipelineAssumption
<1>3. ASSUME NEW n \in 1 + 1 .. N, n - 1 \in D PROVE n \in D
  <2>1. n \in 1 .. N /\ n \in 2 .. N /\ flow[n - 1] = R[n - 1]
    BY <1>2, <1>3
  <2>2. flow[n] = R[n]
    BY <1>1, <2>1
  <2> QED
    BY <2>1, <2>2
<1> HIDE DEF D
<1>4. \A n \in 1 .. N : n \in D
  BY <1>2, <1>3, Induction
<1> QED
  BY <1>4 DEF D, R, Nodes

\* A TAKE that is full hides what comes after it.
LEMMA ResultsFull ==
  ASSUME kind \in [2 .. N -> Kinds], NEW S, NEW rs \in Seq(S), NEW t \in Seq(S), StartsWith(t, rs),
         NEW m \in 2 .. N, kind[m] = "take", Len(Results(rs)[m - 1]) >= Limit
  PROVE  Results(t)[N] = Results(rs)[N]
<1> DEFINE R == Results(rs)  T == Results(t)
           D == {n \in 1 .. N : StartsWith(T[n], R[n])}
           E == {n \in m .. N : T[n] = R[n]}
<1>1. /\ R \in [1 .. N -> Seq(S)] /\ R[1] = rs /\ \A n \in 2 .. N : R[n] = Stage(kind[n], R[n - 1])
      /\ T \in [1 .. N -> Seq(S)] /\ T[1] = t /\ \A n \in 2 .. N : T[n] = Stage(kind[n], T[n - 1])
  BY ResultsOf DEF Nodes
<1>2. N \in Nat /\ 1 \in 1 .. N /\ m \in Nat /\ \A n \in 2 .. N : kind[n] \in {"map", "take", "flat", "group"}
  <2>1. N \in Nat /\ 1 \in 1 .. N /\ m \in Nat /\ Kinds \subseteq {"map", "take", "flat", "group"}
    BY PipelineAssumption DEF PipelineAssumption
  <2>2. \A n \in 2 .. N : kind[n] \in Kinds
    OBVIOUS
  <2> QED
    BY <2>1, <2>2
<1> HIDE DEF R, T
<1>3. 1 \in D
  BY <1>1, <1>2
<1>4. ASSUME NEW n \in 1 + 1 .. N, n - 1 \in D PROVE n \in D
  <2>1. n \in 2 .. N /\ n \in 1 .. N /\ n - 1 \in 1 .. N /\ StartsWith(T[n - 1], R[n - 1])
    BY <1>2, <1>4
  <2>2. R[n - 1] \in Seq(S) /\ T[n - 1] \in Seq(S)
    BY <1>1, <2>1
  <2>3. StartsWith(Stage(kind[n], T[n - 1]), Stage(kind[n], R[n - 1]))
    BY <1>2, <2>1, <2>2, StageGrows
  <2> QED
    BY <1>1, <2>1, <2>3
<1> HIDE DEF D
<1>5. \A n \in 1 .. N : StartsWith(T[n], R[n])
  <2>1. \A n \in 1 .. N : n \in D
    BY <1>2, <1>3, <1>4, Induction
  <2> QED
    BY <2>1 DEF D
<1>6. m \in E
  <2>1. m - 1 \in 1 .. N /\ m \in m .. N
    BY <1>2
  <2>2. R[m - 1] \in Seq(S) /\ T[m - 1] \in Seq(S) /\ StartsWith(T[m - 1], R[m - 1])
    BY <1>1, <1>5, <2>1
  <2>3. Len(R[m - 1]) >= Limit
    BY DEF R
  <2>4. Stage("take", T[m - 1]) = Stage("take", R[m - 1])
    BY <2>2, <2>3, StageGrows
  <2> QED
    BY <1>1, <2>1, <2>4
<1>7. ASSUME NEW n \in m + 1 .. N, n - 1 \in E PROVE n \in E
  <2>1. n \in 2 .. N /\ n \in m .. N /\ T[n - 1] = R[n - 1]
    BY <1>2, <1>7
  <2>2. T[n] = R[n]
    BY <1>1, <2>1
  <2> QED
    BY <2>1, <2>2
<1> HIDE DEF E
<1>8. \A n \in m .. N : n \in E
  BY <1>2, <1>6, <1>7, Induction
<1>9. N \in m .. N
  BY <1>2
<1> QED
  BY <1>8, <1>9 DEF E, R, T
-----------------------------------------------------------------------------
(* What the rows have become, while nothing goes wrong *)

\* The goroutine of a node is past its last record.
Past(n) == pc[n] \in {"last", "ended"}

\* What a node still has to tell of its rows, when it and the next one are past
\* the end or not: its rows, an error alone, the end after its rows.
Channel(o, rows, past, nextPast) ==
    IF nextPast THEN past /\ rows = <<>> /\ o = <<>>
    ELSE IF past THEN o = Append(RowRecords(rows), EofRecord)
    ELSE o = RowRecords(rows) \/ (rows = <<>> /\ o = <<ErrorRecord>>)

\* What a map has made of the rows it has seen; a GROUP keeps the last key.
Work(k, rows, kp, past, made) ==
    /\ k = "take" => kp = made
    /\ k = "group" => kp = IF rows = <<>> THEN <<>> ELSE <<rows[Len(rows)]>>
    /\ Stage(k, rows) = IF k = "group" /\ ~past THEN made \o kp ELSE made

\* The source, and the records of the caller.  It ends when it has no more rows
\* or the circuit is broken.
SourceInv ==
    /\ next \in 1 .. NumRows + 1
    /\ pc[1] \in {"receive", "produce", "last", "ended"}
    /\ \/ out[0] = <<FirstRecord, EofRecord>> /\ pc[1] = "receive" /\ next = 1
       \/ out[0] = <<EofRecord>> /\ pc[1] = "produce"
       \/ /\ out[0] = IF Past(1) THEN <<>> ELSE <<EofRecord>>
          /\ pc[1] # "produce"
          /\ stop \/ next > NumRows

\* seen: the rows that a node was told; pend: the rows it still has to tell.
Made(seen, pend, n) == seen[n + 1] \o pend[n]
Types(seen, pend) ==
    /\ seen \in [2 .. Out -> Seq(Rows)] /\ pend \in [Nodes -> Seq(Rows)]
    /\ kind \in [2 .. N -> Kinds] /\ kept \in [2 .. N -> Seq(Rows)]
    /\ stop \in BOOLEAN /\ failed \in BOOLEAN
    /\ \A n \in 2 .. N : pc[n] \in {"receive", "last", "ended"}
    /\ pc[Out] \in {"receive", "ended"}
Channels(pend) == \A n \in Nodes : Channel(out[n], pend[n], Past(n), Past(n + 1))
Works(seen, pend) ==
    \A n \in 2 .. N : Work(kind[n], seen[n], kept[n], Past(n), Made(seen, pend, n))
Wrote(seen) == opened \in {"no", "yes"} /\ written = seen[Out]

\* A map failed on a row if there is an error on its way or at the end of it.
FailedOn(k, rows) == k = "map" /\ \E i \in DOMAIN rows : rows[i] \in Bad
ErrorTold == failed \/ \E n \in Nodes : out[n] = <<ErrorRecord>>
Errors(seen) == ErrorTold <=> \E n \in 2 .. N : FailedOn(kind[n], seen[n])

\* A circuit that no client broke was broken by a TAKE that is full.
Breaks(seen) == stop /\ ~left => \E n \in 2 .. N : kind[n] = "take" /\ Len(seen[n]) > Limit

Flow(seen, pend) ==
    /\ Types(seen, pend) /\ SourceInv /\ Made(seen, pend, 1) = RowsTo(next - 1)
    /\ Channels(pend) /\ Works(seen, pend)
    /\ Wrote(seen) /\ Errors(seen) /\ Breaks(seen)

Undisturbed == ~ctxDone /\ ~panicked /\ opened # "failed"
FlowInv == Undisturbed => \E seen, pend : Flow(seen, pend)
-----------------------------------------------------------------------------
(* Records on their way *)

Messages == [key : {"row", "first", "eof", "error"}, row : Nat]

LEMMA RecordsOf ==
  ASSUME NEW rows \in Seq(Rows)
  PROVE  /\ RowRecords(rows) \in Seq(Messages) /\ Len(RowRecords(rows)) = Len(rows)
         /\ \A i \in 1 .. Len(rows) : RowRecords(rows)[i] = RowRecord(rows[i])
<1>1. \A i \in 1 .. Len(rows) : rows[i] \in Nat
  BY PipelineAssumption DEF PipelineAssumption, Rows
<1>2. \A r \in Nat : RowRecord(r) \in Messages
  BY DEF RowRecord, Messages
<1>3. RowRecords(rows) = [i \in 1 .. Len(rows) |-> RowRecord(rows[i])]
  BY DEF RowRecords
<1> QED
  BY <1>1, <1>2, <1>3

LEMMA NoRecords ==
  RowRecords(<<>>) = <<>> /\ Append(RowRecords(<<>>), EofRecord) = <<EofRecord>>
<1>1. RowRecords(<<>>) = <<>>
  BY DEF RowRecords
<1>2. \A x : Append(<<>>, x) = <<x>>
  OBVIOUS
<1> QED
  BY <1>1, <1>2

LEMMA MessageKeys ==
  /\ EofRecord \in Messages /\ ErrorRecord \in Messages
  /\ EofRecord.key = "eof" /\ ErrorRecord.key = "error" /\ FirstRecord.key = "first"
  /\ \A r : RowRecord(r).key = "row" /\ RowRecord(r).row = r
BY DEF EofRecord, ErrorRecord, FirstRecord, RowRecord, Messages

LEMMA FirstOfRecords ==
  ASSUME NEW rows \in Seq(Rows), rows # <<>>,
         NEW o, o = RowRecords(rows) \/ o = Append(RowRecords(rows), EofRecord)
  PROVE  /\ o # <<>> /\ Head(o) = RowRecord(Head(rows)) /\ Head(rows) \in Rows /\ Tail(rows) \in Seq(Rows)
         /\ o = RowRecords(rows) => Tail(o) = RowRecords(Tail(rows))
         /\ o = Append(RowRecords(rows), EofRecord) => Tail(o) = Append(RowRecords(Tail(rows)), EofRecord)
<1> DEFINE q == RowRecords(rows)  t == RowRecords(Tail(rows))  n == Len(rows)
<1>1. n \in Nat \ {0} /\ Head(rows) = rows[1] /\ rows[1] \in Rows /\ Tail(rows) \in Seq(Rows)
      /\ Len(Tail(rows)) = n - 1 /\ \A i \in 1 .. n - 1 : Tail(rows)[i] = rows[i + 1]
  OBVIOUS
<1>2. q \in Seq(Messages) /\ Len(q) = n /\ \A i \in 1 .. n : q[i] = RowRecord(rows[i])
  BY RecordsOf
<1>3. t \in Seq(Messages) /\ Len(t) = n - 1 /\ \A i \in 1 .. n - 1 : t[i] = RowRecord(Tail(rows)[i])
  BY <1>1, RecordsOf
<1> HIDE DEF q, t, n
<1>4. q # <<>> /\ Head(q) = RowRecord(rows[1])
  BY <1>1, <1>2
<1>5. Tail(q) = t
  <2>1. Tail(q) \in Seq(Messages) /\ Len(Tail(q)) = n - 1 /\ \A i \in 1 .. n - 1 : Tail(q)[i] = q[i + 1]
    BY <1>1, <1>2
  <2>2. \A i \in 1 .. n - 1 : i + 1 \in 1 .. n
    BY <1>1
  <2>3. \A i \in 1 .. n - 1 : Tail(q)[i] = t[i]
    BY <1>1, <1>2, <1>3, <2>1, <2>2
  <2> QED
    BY <1>3, <2>1, <2>3, SeqEqual
<1>6. \A s \in Seq(Messages) : s # <<>> => \A e \in Messages :
        Append(s, e) # <<>> /\ Head(Append(s, e)) = Head(s) /\ Tail(Append(s, e)) = Append(Tail(s), e)
  <2> SUFFICES ASSUME NEW s \in Seq(Messages), s # <<>>, NEW e \in Messages
               PROVE  /\ Append(s, e) # <<>> /\ Head(Append(s, e)) = Head(s)
                      /\ Tail(Append(s, e)) = Append(Tail(s), e)
    OBVIOUS
  <2> DEFINE a == Tail(Append(s, e))  c == Append(Tail(s), e)
  <2>1. a \in Seq(Messages) /\ c \in Seq(Messages) /\ Len(a) = Len(s) /\ Len(c) = Len(s)
        /\ Append(s, e) # <<>> /\ Head(Append(s, e)) = Head(s)
    OBVIOUS
  <2>2. \A i \in 1 .. Len(s) : a[i] = c[i]
    OBVIOUS
  <2> HIDE DEF a, c
  <2>3. a = c
    BY <2>1, <2>2, SeqEqual
  <2> QED
    BY <2>1, <2>3 DEF a, c
<1>7. o = q \/ o = Append(q, EofRecord)
  BY DEF q
<1>8. /\ o # <<>> /\ Head(o) = RowRecord(rows[1])
      /\ o = q => Tail(o) = t
      /\ o = Append(q, EofRecord) => Tail(o) = Append(t, EofRecord)
  <2>1. EofRecord \in Messages
    BY MessageKeys
  <2> QED
    BY <1>2, <1>4, <1>5, <1>6, <1>7, <2>1
<1> QED
  BY <1>1, <1>8 DEF q, t

LEMMA NotAnError ==
  ASSUME NEW rows \in Seq(Rows)
  PROVE  RowRecords(rows) # <<ErrorRecord>> /\ Append(RowRecords(rows), EofRecord) # <<ErrorRecord>>
<1>1. Head(<<ErrorRecord>>).key = "error"
  BY MessageKeys
<1>2. CASE rows = <<>>
  <2>1. Head(<<EofRecord>>).key = "eof"
    BY MessageKeys
  <2> QED
    BY <1>1, <1>2, <2>1, NoRecords
<1>3. CASE rows # <<>>
  BY <1>1, <1>3, FirstOfRecords, MessageKeys
<1> QED
  BY <1>2, <1>3

\* What the head of a channel tells of the rows on their way.
LEMMA ToldRow ==
  ASSUME NEW n \in Nodes, NEW rows \in Seq(Rows), Channel(out[n], rows, Past(n), Past(n + 1)),
         out[n] # <<>>, Head(out[n]).key = "row"
  PROVE  /\ ~Past(n + 1) /\ rows # <<>> /\ Head(out[n]).row = Head(rows)
         /\ Head(rows) \in Rows /\ Tail(rows) \in Seq(Rows)
         /\ Channel(Tail(out[n]), Tail(rows), Past(n), FALSE)
         /\ out[n] # <<ErrorRecord>> /\ Tail(out[n]) # <<ErrorRecord>>
<1>1. ~Past(n + 1) /\ (Past(n) => out[n] = Append(RowRecords(rows), EofRecord))
      /\ (~Past(n) => out[n] = RowRecords(rows) \/ (rows = <<>> /\ out[n] = <<ErrorRecord>>))
  BY DEF Channel
<1>2. Head(<<ErrorRecord>>).key = "error" /\ Head(<<EofRecord>>).key = "eof"
  BY MessageKeys
<1>3. rows # <<>>
  BY <1>1, <1>2, NoRecords
<1>4. out[n] = RowRecords(rows) \/ out[n] = Append(RowRecords(rows), EofRecord)
  BY <1>1, <1>2
<1>5. /\ Head(out[n]) = RowRecord(Head(rows)) /\ Head(rows) \in Rows /\ Tail(rows) \in Seq(Rows)
      /\ out[n] = RowRecords(rows) => Tail(out[n]) = RowRecords(Tail(rows))
      /\ out[n] = Append(RowRecords(rows), EofRecord) => Tail(out[n]) = Append(RowRecords(Tail(rows)), EofRecord)
  BY <1>3, <1>4, FirstOfRecords
<1>6. Head(out[n]).row = Head(rows)
  BY <1>5, MessageKeys
<1>7. Tail(out[n]) # <<ErrorRecord>>
  BY <1>4, <1>5, NotAnError
<1>8. Channel(Tail(out[n]), Tail(rows), Past(n), FALSE)
  BY <1>1, <1>3, <1>5 DEF Channel
<1> QED
  BY <1>1, <1>2, <1>3, <1>5, <1>6, <1>7, <1>8

LEMMA ToldEof ==
  ASSUME NEW n \in Nodes, NEW rows \in Seq(Rows), Channel(out[n], rows, Past(n), Past(n + 1)),
         out[n] # <<>>, Head(out[n]).key = "eof"
  PROVE  ~Past(n + 1) /\ Past(n) /\ rows = <<>> /\ Tail(out[n]) = <<>> /\ out[n] # <<ErrorRecord>>
<1>1. ~Past(n + 1) /\ (Past(n) => out[n] = Append(RowRecords(rows), EofRecord))
      /\ (~Past(n) => out[n] = RowRecords(rows) \/ (rows = <<>> /\ out[n] = <<ErrorRecord>>))
  BY DEF Channel
<1>2. Head(<<ErrorRecord>>).key = "error" /\ Tail(<<EofRecord>>) = <<>>
  BY MessageKeys
<1>3. rows = <<>>
  <2>1. rows # <<>> => Head(out[n]) = RowRecord(Head(rows))
    BY <1>1, FirstOfRecords
  <2> QED
    BY <2>1, MessageKeys
<1> QED
  BY <1>1, <1>2, <1>3, NoRecords

LEMMA ToldError ==
  ASSUME NEW n \in Nodes, NEW rows \in Seq(Rows), Channel(out[n], rows, Past(n), Past(n + 1)),
         out[n] # <<>>, Head(out[n]).key = "error"
  PROVE  ~Past(n + 1) /\ ~Past(n) /\ rows = <<>> /\ Tail(out[n]) = <<>> /\ out[n] = <<ErrorRecord>>
<1>1. ~Past(n + 1) /\ (Past(n) => out[n] = Append(RowRecords(rows), EofRecord))
      /\ (~Past(n) => out[n] = RowRecords(rows) \/ (rows = <<>> /\ out[n] = <<ErrorRecord>>))
  BY DEF Channel
<1>2. rows = <<>>
  <2>1. rows # <<>> => Head(out[n]) = RowRecord(Head(rows))
    BY <1>1, FirstOfRecords
  <2> QED
    BY <1>1, <2>1, MessageKeys
<1>3. Head(<<EofRecord>>).key = "eof" /\ Tail(<<ErrorRecord>>) = <<>>
  BY MessageKeys
<1> QED
  BY <1>1, <1>2, <1>3, NoRecords

\* A node that has nothing to tell and is not past the end has told all its rows.
LEMMA NothingToTell ==
  ASSUME NEW n \in Nodes, NEW rows \in Seq(Rows), Channel(out[n], rows, Past(n), Past(n + 1)), out[n] = <<>>
  PROVE  rows = <<>> /\ (Past(n) <=> Past(n + 1))
<1>1. Append(RowRecords(rows), EofRecord) # <<>>
  <2>1. \A s \in Seq(Messages) : \A e \in Messages : Append(s, e) # <<>>
    OBVIOUS
  <2> QED
    BY <2>1, RecordsOf, MessageKeys
<1>2. RowRecords(rows) = <<>> => rows = <<>>
  <2>1. RowRecords(rows) = <<>> => Len(RowRecords(rows)) = 0
    OBVIOUS
  <2> QED
    BY <2>1, RecordsOf
<1> QED
  BY <1>1, <1>2 DEF Channel
-----------------------------------------------------------------------------
(* A map and one more row *)

LEMMA SeqFacts ==
  ASSUME NEW S, NEW s \in Seq(S), NEW x \in S
  PROVE  /\ s \o <<>> = s /\ s \o <<x>> = Append(s, x) /\ Append(s, x) \in Seq(S)
         /\ <<>> \in Seq(S) /\ <<x>> \in Seq(S) /\ <<x, x>> \in Seq(S)
         /\ Len(Append(s, x)) = Len(s) + 1 /\ Append(s, x)[Len(s) + 1] = x
         /\ \A i \in 1 .. Len(s) : Append(s, x)[i] = s[i]
         /\ Append(s, x) # <<>>
<1>1. s \o <<x>> = Append(s, x)
  BY AppendIsConcat
<1> QED
  BY <1>1

LEMMA OneRecord == ASSUME NEW r \in Rows PROVE RowRecords(<<r>>) = <<RowRecord(r)>>
<1>1. <<r>> \in Seq(Rows) /\ Len(<<r>>) = 1 /\ <<r>>[1] = r
  OBVIOUS
<1>2. RowRecords(<<r>>) \in Seq(Messages) /\ Len(RowRecords(<<r>>)) = 1 /\ RowRecords(<<r>>)[1] = RowRecord(r)
  <2>1. /\ RowRecords(<<r>>) \in Seq(Messages) /\ Len(RowRecords(<<r>>)) = Len(<<r>>)
        /\ \A i \in 1 .. Len(<<r>>) : RowRecords(<<r>>)[i] = RowRecord(<<r>>[i])
    BY <1>1, RecordsOf
  <2>2. 1 \in 1 .. Len(<<r>>)
    BY <1>1
  <2> QED
    BY <1>1, <2>1, <2>2
<1>3. \A s \in Seq(Messages) : Len(s) = 1 => s = <<s[1]>>
  OBVIOUS
<1> QED
  BY <1>2, <1>3

LEMMA TwoRecords == ASSUME NEW r \in Rows PROVE RowRecords(<<r, r>>) = <<RowRecord(r), RowRecord(r)>>
<1>1. <<r, r>> \in Seq(Rows) /\ Len(<<r, r>>) = 2 /\ <<r, r>>[1] = r /\ <<r, r>>[2] = r
  OBVIOUS
<1>2. /\ RowRecords(<<r, r>>) \in Seq(Messages) /\ Len(RowRecords(<<r, r>>)) = 2
      /\ RowRecords(<<r, r>>)[1] = RowRecord(r) /\ RowRecords(<<r, r>>)[2] = RowRecord(r)
  <2>1. /\ RowRecords(<<r, r>>) \in Seq(Messages) /\ Len(RowRecords(<<r, r>>)) = Len(<<r, r>>)
        /\ \A i \in 1 .. Len(<<r, r>>) : RowRecords(<<r, r>>)[i] = RowRecord(<<r, r>>[i])
    BY <1>1, RecordsOf
  <2>2. 1 \in 1 .. Len(<<r, r>>) /\ 2 \in 1 .. Len(<<r, r>>)
    BY <1>1
  <2> QED
    BY <1>1, <2>1, <2>2
<1>3. \A s \in Seq(Messages) : Len(s) = 2 => s = <<s[1], s[2]>>
  OBVIOUS
<1> QED
  BY <1>2, <1>3

\* e tells the rows that a map makes of its next row, or that it failed on it.
Evaluates(e, k, rows, made, r, told) ==
    /\ Channel(e.tell, told, FALSE, FALSE) /\ e.keep \in Seq(Rows) /\ e.break \in BOOLEAN
    /\ Work(k, Append(rows, r), e.keep, FALSE, made \o told)
    /\ e.tell = <<ErrorRecord>> <=> FailedOn(k, <<r>>)
    /\ e.break => k = "take" /\ Len(rows) >= Limit

LEMMA FailsOnOne == ASSUME NEW k, NEW r PROVE FailedOn(k, <<r>>) <=> k = "map" /\ r \in Bad
<1>1. \A i \in DOMAIN <<r>> : i = 1
  OBVIOUS
<1>2. 1 \in DOMAIN <<r>> /\ <<r>>[1] = r
  OBVIOUS
<1> QED
  BY <1>1, <1>2 DEF FailedOn

LEMMA EvaluatesRow ==
  ASSUME NEW n \in 2 .. N, NEW rows \in Seq(Rows), NEW made \in Seq(Rows), NEW r \in Rows,
         kind[n] \in {"map", "take", "flat", "group"}, kept[n] \in Seq(Rows),
         Work(kind[n], rows, kept[n], FALSE, made)
  PROVE  \E told \in Seq(Rows) : Evaluates(Eval(n, r), kind[n], rows, made, r, told)
<1> DEFINE t == Append(rows, r)  k == kind[n]  e == Eval(n, r)
<1>1. /\ t \in Seq(Rows) /\ Len(t) = Len(rows) + 1 /\ t[Len(t)] = r /\ t # <<>> /\ Len(rows) \in Nat
      /\ \A i \in 1 .. Len(rows) : t[i] = rows[i]
  BY SeqFacts
<1>2. /\ made \o <<>> = made /\ made \o <<r>> = Append(made, r)
      /\ <<>> \in Seq(Rows) /\ <<r>> \in Seq(Rows) /\ <<r, r>> \in Seq(Rows)
  BY SeqFacts
<1>3. k \in {"map", "take", "group"} =>
        Stage(k, t) = IF Len(t) \in Places(k, t) THEN Append(Stage(k, rows), r) ELSE Stage(k, rows)
  <2>1. \A j \in {"map", "take", "group"} :
          Stage(j, t) = IF Len(rows) + 1 \in Places(j, t) THEN Append(Stage(j, rows), r) ELSE Stage(j, rows)
    BY StageAppend
  <2> HIDE DEF t, k
  <2> QED
    BY <1>1, <2>1
<1>4. Len(t) \in 1 .. Len(t)
  BY <1>1
<1>5. <<ErrorRecord>> # <<>> /\ RowRecords(<<>>) = <<>> /\ RowRecords(<<r>>) = <<RowRecord(r)>>
      /\ RowRecords(<<r, r>>) = <<RowRecord(r), RowRecord(r)>>
  BY NoRecords, OneRecord, TwoRecords
<1> DEFINE A == Seq(Rows)
<1>6. \A told \in A : RowRecords(told) # <<ErrorRecord>>
  BY NotAnError
<1> HIDE DEF t, A
<1>7. CASE k = "map"
  <2>1. e = EvalMap(n, r) /\ Stage(k, rows) = made
    BY <1>7 DEF Eval, Work
  <2>2. Len(t) \in Places(k, t) <=> r \notin Bad \cup Dropped
    BY <1>1, <1>4, <1>7, PlacesOf
  <2>3. FailedOn(k, <<r>>) <=> r \in Bad
    BY <1>7, FailsOnOne
  <2>4. CASE r \in Bad
    <3>1. e.tell = <<ErrorRecord>> /\ e.keep = kept[n] /\ e.break = FALSE
      BY <2>1, <2>4 DEF EvalMap
    <3>2. Stage(k, t) = made \o <<>>
      BY <1>2, <1>3, <1>7, <2>1, <2>2, <2>4
    <3>3. Channel(e.tell, <<>>, FALSE, FALSE) /\ Work(k, t, e.keep, FALSE, made \o <<>>)
      BY <1>7, <3>1, <3>2 DEF Channel, Work
    <3>4. Evaluates(e, k, rows, made, r, <<>>)
      BY <2>3, <2>4, <3>1, <3>3 DEF Evaluates, t
    <3> QED
      BY <1>2, <3>4
  <2>5. CASE r \notin Bad /\ r \in Dropped
    <3>1. e.tell = <<>> /\ e.keep = kept[n] /\ e.break = FALSE
      BY <2>1, <2>5 DEF EvalMap
    <3>2. Stage(k, t) = made \o <<>>
      BY <1>2, <1>3, <1>7, <2>1, <2>2, <2>5
    <3>3. Channel(e.tell, <<>>, FALSE, FALSE) /\ Work(k, t, e.keep, FALSE, made \o <<>>)
      BY <1>5, <1>7, <3>1, <3>2 DEF Channel, Work
    <3>4. Evaluates(e, k, rows, made, r, <<>>)
      BY <1>5, <2>3, <2>5, <3>1, <3>3 DEF Evaluates, t
    <3> QED
      BY <1>2, <3>4
  <2>6. CASE r \notin Bad \cup Dropped
    <3>1. e.tell = <<RowRecord(r)>> /\ e.keep = kept[n] /\ e.break = FALSE
      BY <2>1, <2>6 DEF EvalMap
    <3>2. Stage(k, t) = made \o <<r>>
      BY <1>2, <1>3, <1>7, <2>1, <2>2, <2>6
    <3>3. Channel(e.tell, <<r>>, FALSE, FALSE) /\ Work(k, t, e.keep, FALSE, made \o <<r>>)
      BY <1>5, <1>7, <3>1, <3>2 DEF Channel, Work
    <3>4. e.tell # <<ErrorRecord>>
      BY <1>2, <1>5, <1>6, <3>1 DEF A
    <3>5. Evaluates(e, k, rows, made, r, <<r>>)
      BY <2>3, <2>6, <3>1, <3>3, <3>4 DEF Evaluates, t
    <3> QED
      BY <1>2, <3>5
  <2> QED
    BY <2>4, <2>5, <2>6
<1>8. CASE k = "flat"
  <2>1. e = EvalFlat(n, r) /\ Stage(k, rows) = made
    BY <1>8 DEF Eval, Work
  <2>2. e.tell = <<RowRecord(r), RowRecord(r)>> /\ e.keep = kept[n] /\ e.break = FALSE
    BY <2>1 DEF EvalFlat
  <2>3. Stage(k, t) = made \o <<r, r>>
    BY <1>8, <2>1, TwiceAppend DEF Stage, t
  <2>4. Channel(e.tell, <<r, r>>, FALSE, FALSE) /\ Work(k, t, e.keep, FALSE, made \o <<r, r>>)
    BY <1>5, <1>8, <2>2, <2>3 DEF Channel, Work
  <2>5. e.tell # <<ErrorRecord>> /\ ~FailedOn(k, <<r>>)
    BY <1>2, <1>5, <1>6, <1>8, <2>2 DEF A, FailedOn
  <2>6. Evaluates(e, k, rows, made, r, <<r, r>>)
    BY <2>2, <2>4, <2>5 DEF Evaluates, t
  <2> QED
    BY <1>2, <2>6
<1>9. CASE k = "take"
  <2>1. e = EvalTake(n, r) /\ Stage(k, rows) = made /\ kept[n] = made
    BY <1>9 DEF Eval, Work
  <2>2. Len(made) = IF Len(rows) <= Limit THEN Len(rows) ELSE Limit
    BY <1>9, <2>1, TakeLength
  <2>3. Limit \in Nat
    BY PipelineAssumption DEF PipelineAssumption
  <2>4. Len(kept[n]) >= Limit <=> Len(rows) >= Limit
    BY <1>1, <2>1, <2>2, <2>3
  <2>5. Len(t) \in Places(k, t) <=> ~(Len(rows) >= Limit)
    BY <1>1, <1>4, <1>9, <2>3, PlacesOf
  <2>6. ~FailedOn(k, <<r>>)
    BY <1>9 DEF FailedOn
  <2>7. CASE Len(rows) >= Limit
    <3>1. e.tell = <<>> /\ e.keep = kept[n] /\ e.break = TRUE
      BY <2>1, <2>4, <2>7 DEF EvalTake
    <3>2. Stage(k, t) = made \o <<>> /\ e.keep = made \o <<>>
      BY <1>2, <1>3, <1>9, <2>1, <2>5, <2>7, <3>1
    <3>3. Channel(e.tell, <<>>, FALSE, FALSE) /\ Work(k, t, e.keep, FALSE, made \o <<>>)
      BY <1>5, <1>9, <3>1, <3>2 DEF Channel, Work
    <3>4. Evaluates(e, k, rows, made, r, <<>>)
      BY <1>5, <1>9, <2>6, <2>7, <3>1, <3>3 DEF Evaluates, t
    <3> QED
      BY <1>2, <3>4
  <2>8. CASE ~(Len(rows) >= Limit)
    <3>1. e.tell = <<RowRecord(r)>> /\ e.keep = Append(kept[n], r) /\ e.break = FALSE
      BY <2>1, <2>4, <2>8 DEF EvalTake
    <3>2. Stage(k, t) = made \o <<r>> /\ e.keep = made \o <<r>> /\ e.keep \in Seq(Rows)
      BY <1>2, <1>3, <1>9, <2>1, <2>5, <2>8, <3>1
    <3>3. Channel(e.tell, <<r>>, FALSE, FALSE) /\ Work(k, t, e.keep, FALSE, made \o <<r>>)
      BY <1>5, <1>9, <3>1, <3>2 DEF Channel, Work
    <3>4. e.tell # <<ErrorRecord>>
      BY <1>2, <1>5, <1>6, <3>1 DEF A
    <3>5. Evaluates(e, k, rows, made, r, <<r>>)
      BY <2>6, <3>1, <3>2, <3>3, <3>4 DEF Evaluates, t
    <3> QED
      BY <1>2, <3>5
  <2> QED
    BY <2>7, <2>8
<1>10. CASE k = "group"
  <2>1. /\ e = EvalGroup(n, r) /\ Stage(k, rows) = made \o kept[n]
        /\ kept[n] = IF rows = <<>> THEN <<>> ELSE <<rows[Len(rows)]>>
    BY <1>10 DEF Eval, Work
  <2>2. e.keep = <<r>> /\ e.break = FALSE /\ e.tell = IF kept[n] = <<r>> THEN <<>> ELSE RowRecords(kept[n])
    BY <2>1 DEF EvalGroup
  <2>3. Len(t) \in Places(k, t) <=> kept[n] # <<r>>
    <3>1. Len(t) \in Places(k, t) <=> Len(t) = 1 \/ t[Len(t)] # t[Len(t) - 1]
      BY <1>4, <1>10, PlacesOf
    <3>2. CASE rows = <<>>
      BY <1>1, <2>1, <3>1, <3>2
    <3>3. CASE rows # <<>>
      <4>1. Len(t) # 1 /\ Len(t) - 1 = Len(rows) /\ Len(rows) \in 1 .. Len(rows)
        BY <1>1, <3>3
      <4>2. t[Len(t) - 1] = rows[Len(rows)] /\ kept[n] = <<rows[Len(rows)]>>
        BY <1>1, <2>1, <3>3, <4>1
      <4>3. kept[n] = <<r>> <=> rows[Len(rows)] = r
        BY <4>2
      <4> QED
        BY <1>1, <3>1, <4>1, <4>2, <4>3
    <3> QED
      BY <3>2, <3>3
  <2>4. ~FailedOn(k, <<r>>)
    BY <1>10 DEF FailedOn
  <2>5. CASE kept[n] = <<r>>
    <3>1. Stage(k, t) = (made \o <<>>) \o <<r>> /\ e.tell = <<>>
      BY <1>2, <1>3, <1>10, <2>1, <2>2, <2>3, <2>5
    <3>2. Channel(e.tell, <<>>, FALSE, FALSE) /\ Work(k, t, e.keep, FALSE, made \o <<>>)
      BY <1>1, <1>5, <1>10, <2>2, <3>1 DEF Channel, Work
    <3>3. Evaluates(e, k, rows, made, r, <<>>)
      BY <1>2, <1>5, <2>2, <2>4, <3>1, <3>2 DEF Evaluates, t
    <3> QED
      BY <1>2, <3>3
  <2>6. CASE kept[n] # <<r>>
    <3>1. made \o kept[n] \in Seq(Rows) /\ e.tell = RowRecords(kept[n])
      BY <2>2, <2>6, ConcatProperties
    <3>2. Stage(k, t) = (made \o kept[n]) \o <<r>>
      <4>1. (made \o kept[n]) \o <<r>> = Append(made \o kept[n], r)
        BY <3>1, SeqFacts
      <4> QED
        BY <1>3, <1>10, <2>1, <2>3, <2>6, <4>1
    <3>3. Channel(e.tell, kept[n], FALSE, FALSE) /\ Work(k, t, e.keep, FALSE, made \o kept[n])
      BY <1>1, <1>10, <2>2, <3>1, <3>2 DEF Channel, Work
    <3>4. e.tell # <<ErrorRecord>>
      BY <1>6, <3>1 DEF A
    <3>5. Evaluates(e, k, rows, made, r, kept[n])
      BY <1>2, <2>2, <2>4, <3>3, <3>4 DEF Evaluates, t
    <3> QED
      BY <3>5
  <2> QED
    BY <2>5, <2>6
<1> QED
  BY <1>7, <1>8, <1>9, <1>10
-----------------------------------------------------------------------------
(* The steps of the nodes *)

LEMMA NodeRange ==
  /\ N \in Nat /\ 1 \in Nodes /\ N \in Nodes /\ Out = N + 1 /\ NumRows \in Nat /\ Out \in 1 .. Out
  /\ \A n \in Nodes : n \in 0 .. N /\ n \in 1 .. Out /\ n + 1 \in 2 .. Out /\ (n = 1 \/ n \in 2 .. N)
                      /\ (n + 1 = Out \/ n + 1 \in Nodes)
  /\ \A n \in 2 .. N : n \in Nodes /\ n # 1 /\ n # Out /\ n - 1 \in Nodes /\ n \in 2 .. Out /\ (n - 1) + 1 = n
  /\ \A n \in 2 .. Out : n \in 2 .. N \/ n = Out
BY PipelineAssumption DEF PipelineAssumption, Nodes, Out

\* A node that was told its next rows has made something of them; p says whether
\* that was the end.
NodeMoves(seen, pend, n, told, rest, rows, kp, records, p) ==
    /\ pc[n] = "receive" /\ out[n] = <<>>
    /\ told \in Seq(Rows) /\ rest \in Seq(Rows) /\ rows \in Seq(Rows) /\ kp \in Seq(Rows)
    /\ p \in {"receive", "last"}
    /\ out' = [out EXCEPT ![n - 1] = Tail(@), ![n] = records]
    /\ pc'[n] = p /\ \A m \in 1 .. Out : m # n => pc'[m] = pc[m]
    /\ kept' = [kept EXCEPT ![n] = kp]
    /\ UNCHANGED <<kind, next, opened, written, failed, left>>
    /\ stop' \in BOOLEAN /\ (stop => stop')
    /\ told \o rest = seen[n] \o pend[n - 1]
    /\ Channel(Tail(out[n - 1]), rest, Past(n - 1), p = "last")
    /\ Channel(records, rows, p = "last", FALSE)
    /\ Work(kind[n], told, kp, p = "last", seen[n + 1] \o rows)
    /\ Errors([seen EXCEPT ![n] = told])'
    /\ Breaks([seen EXCEPT ![n] = told])'

LEMMA NodeFlow ==
  ASSUME Inductive, NEW seen, NEW pend, Flow(seen, pend), NEW n \in 2 .. N,
         NEW told, NEW rest, NEW rows, NEW kp, NEW records, NEW p,
         NodeMoves(seen, pend, n, told, rest, rows, kp, records, p)
  PROVE  \E s, q : Flow(s, q)'
<1>0. /\ pc[n] = "receive" /\ out[n] = <<>>
      /\ told \in Seq(Rows) /\ rest \in Seq(Rows) /\ rows \in Seq(Rows) /\ kp \in Seq(Rows)
      /\ p \in {"receive", "last"}
      /\ out' = [out EXCEPT ![n - 1] = Tail(@), ![n] = records]
      /\ pc'[n] = p /\ \A m \in 1 .. Out : m # n => pc'[m] = pc[m]
      /\ kept' = [kept EXCEPT ![n] = kp]
      /\ UNCHANGED <<kind, next, opened, written, failed, left>>
      /\ stop' \in BOOLEAN /\ (stop => stop')
      /\ told \o rest = seen[n] \o pend[n - 1]
      /\ Channel(Tail(out[n - 1]), rest, Past(n - 1), p = "last")
      /\ Channel(records, rows, p = "last", FALSE)
      /\ Work(kind[n], told, kp, p = "last", seen[n + 1] \o rows)
      /\ Errors([seen EXCEPT ![n] = told])'
      /\ Breaks([seen EXCEPT ![n] = told])'
  BY DEF NodeMoves
<1> DEFINE s == [seen EXCEPT ![n] = told]  q == [pend EXCEPT ![n - 1] = rest, ![n] = rows]
<1>1. /\ Types(seen, pend) /\ SourceInv /\ Made(seen, pend, 1) = RowsTo(next - 1)
      /\ Channels(pend) /\ Works(seen, pend) /\ Wrote(seen)
  BY DEF Flow
<1>2. /\ DOMAIN out = 0 .. N /\ DOMAIN pc = 1 .. Out
      /\ seen \in [2 .. Out -> Seq(Rows)] /\ pend \in [Nodes -> Seq(Rows)] /\ kept \in [2 .. N -> Seq(Rows)]
  BY <1>1 DEF Inductive, Shape, Types
<1>3. /\ n \in Nodes /\ n # 1 /\ n # Out /\ n - 1 \in Nodes /\ n \in 2 .. Out /\ (n - 1) + 1 = n /\ n - 1 # n
      /\ n + 1 # n /\ n \in 0 .. N /\ n - 1 \in 0 .. N /\ n \in 1 .. Out /\ n - 1 # 0 /\ n # 0
      /\ n + 1 \in 2 .. Out /\ n + 1 \in 1 .. Out
  BY NodeRange DEF Nodes
<1>4. /\ s \in [2 .. Out -> Seq(Rows)] /\ s[n] = told /\ \A m \in 2 .. Out : m # n => s[m] = seen[m]
      /\ q \in [Nodes -> Seq(Rows)] /\ q[n] = rows /\ q[n - 1] = rest
      /\ \A m \in Nodes : m # n /\ m # n - 1 => q[m] = pend[m]
  BY <1>0, <1>2, <1>3
<1>5. /\ out'[n - 1] = Tail(out[n - 1]) /\ out'[n] = records
      /\ \A m \in 0 .. N : m # n /\ m # n - 1 => out'[m] = out[m]
      /\ pc'[n] = p /\ \A m \in 1 .. Out : m # n => pc'[m] = pc[m]
      /\ kept' \in [2 .. N -> Seq(Rows)] /\ kept'[n] = kp /\ \A m \in 2 .. N : m # n => kept'[m] = kept[m]
  BY <1>0, <1>2, <1>3
<1> HIDE DEF s, q
<1>6. ~Past(n) /\ (Past(n)' <=> p = "last") /\ \A m \in 1 .. Out : m # n => (Past(m)' <=> Past(m))
  BY <1>0, <1>5 DEF Past
<1>7. ~Past(n + 1)
  <2>1. Channel(out[n], pend[n], Past(n), Past(n + 1))
    BY <1>1, <1>3 DEF Channels
  <2> QED
    BY <1>6, <2>1 DEF Channel
<1>8. Types(s, q)'
  BY <1>0, <1>1, <1>3, <1>4, <1>5, NodeRange DEF Types
<1>9. SourceInv'
  <2>1. 1 \in 1 .. Out /\ 0 \in 0 .. N
    BY NodeRange
  <2>2. out'[0] = out[0] /\ pc'[1] = pc[1] /\ (Past(1)' <=> Past(1))
    BY <1>3, <1>5, <1>6, <2>1
  <2> QED
    BY <1>0, <1>1, <2>2 DEF SourceInv
<1>10. ASSUME NEW m \in Nodes, m # n PROVE Made(s, q, m) = Made(seen, pend, m)
  <2>1. m + 1 \in 2 .. Out
    BY NodeRange
  <2>2. CASE m = n - 1
    BY <1>0, <1>3, <1>4, <2>2 DEF Made
  <2>3. CASE m # n - 1
    <3>1. m + 1 # n
      BY <2>3, NodeRange
    <3> QED
      BY <1>4, <1>10, <2>1, <2>3, <3>1 DEF Made
  <2> QED
    BY <2>2, <2>3
<1>11. Made(s, q, 1)' = RowsTo(next' - 1)
  <2>1. Made(s, q, 1) = Made(seen, pend, 1)
    BY <1>3, <1>10, NodeRange
  <2> QED
    BY <1>0, <1>1, <2>1 DEF Made
<1>12. ASSUME NEW m \in Nodes PROVE Channel(out'[m], q[m], Past(m)', Past(m + 1)')
  <2>1. m \in 0 .. N /\ m \in 1 .. Out /\ m + 1 \in 2 .. Out /\ m + 1 \in 1 .. Out
    BY NodeRange
  <2>2. Channel(out[m], pend[m], Past(m), Past(m + 1))
    BY <1>1 DEF Channels
  <2>3. CASE m = n
    BY <1>0, <1>3, <1>4, <1>5, <1>6, <1>7, <2>3 DEF Channel
  <2>4. CASE m = n - 1
    <3>1. n - 1 \in 1 .. Out
      BY <1>3, NodeRange
    <3>2. Past(n - 1)' <=> Past(n - 1)
      BY <1>3, <1>6, <3>1
    <3>3. Channel(out'[n - 1], q[n - 1], Past(n - 1)', Past(n)')
      BY <1>0, <1>4, <1>5, <1>6, <3>2 DEF Channel
    <3> QED
      BY <1>3, <2>4, <3>3
  <2>5. CASE m # n /\ m # n - 1
    <3>1. m + 1 # n
      BY <2>5, NodeRange
    <3> QED
      BY <1>4, <1>5, <1>6, <2>1, <2>2, <2>5, <3>1 DEF Channel
  <2> QED
    BY <2>3, <2>4, <2>5
<1>13. Channels(q)'
  BY <1>12 DEF Channels
<1>14. ASSUME NEW m \in 2 .. N PROVE Work(kind'[m], s[m], kept'[m], Past(m)', Made(s, q, m)')
  <2>1. m \in Nodes /\ m \in 1 .. Out /\ m \in 2 .. Out
    BY NodeRange
  <2>2. Work(kind[m], seen[m], kept[m], Past(m), Made(seen, pend, m))
    BY <1>1 DEF Works
  <2>3. CASE m = n
    <3>1. Made(s, q, n)' = seen[n + 1] \o rows
      BY <1>3, <1>4 DEF Made
    <3> QED
      BY <1>0, <1>4, <1>5, <1>6, <2>3, <3>1 DEF Work
  <2>4. CASE m # n
    <3>1. Made(s, q, m)' = Made(seen, pend, m)
      BY <1>10, <2>1, <2>4 DEF Made
    <3> QED
      BY <1>0, <1>4, <1>5, <1>6, <2>1, <2>2, <2>4, <3>1 DEF Work
  <2> QED
    BY <2>3, <2>4
<1>15. Works(s, q)'
  BY <1>14 DEF Works
<1>16. Wrote(s)'
  <2>1. Out \in 2 .. Out
    BY NodeRange
  <2> QED
    BY <1>0, <1>1, <1>3, <1>4, <2>1 DEF Wrote
<1>17. Errors(s)' /\ Breaks(s)'
  BY <1>0 DEF s
<1> QED
  BY <1>8, <1>9, <1>11, <1>13, <1>15, <1>16, <1>17 DEF Flow

\* What a node knows when it is told something.
LEMMA NodeTold ==
  ASSUME NEW seen, NEW pend, Flow(seen, pend), NEW n \in 2 .. N, out[n] = <<>>, Sent(n)
  PROVE  /\ n \in Nodes /\ n - 1 \in Nodes /\ n - 1 \in 0 .. N /\ n - 1 # n /\ (n - 1) + 1 = n
         /\ pc[n] = "receive" /\ ~Past(n) /\ out[n - 1] # <<>> /\ Told(n) = Head(out[n - 1])
         /\ seen[n] \in Seq(Rows) /\ seen[n + 1] \in Seq(Rows) /\ pend[n - 1] \in Seq(Rows) /\ pend[n] = <<>>
         /\ kept[n] \in Seq(Rows) /\ kind[n] \in {"map", "take", "flat", "group"}
         /\ Channel(out[n - 1], pend[n - 1], Past(n - 1), Past(n))
         /\ Work(kind[n], seen[n], kept[n], FALSE, seen[n + 1])
<1>1. /\ Types(seen, pend) /\ Channels(pend) /\ Works(seen, pend)
  BY DEF Flow
<1>2. /\ n \in Nodes /\ n - 1 \in Nodes /\ n - 1 \in 0 .. N /\ n - 1 # n /\ (n - 1) + 1 = n
      /\ n \in 2 .. Out /\ n + 1 \in 2 .. Out
  BY NodeRange
<1>3. pc[n] = "receive" /\ ~Past(n) /\ out[n - 1] # <<>> /\ Told(n) = Head(out[n - 1])
  BY DEF Sent, Told, Past
<1>4. seen[n] \in Seq(Rows) /\ seen[n + 1] \in Seq(Rows) /\ pend[n - 1] \in Seq(Rows) /\ pend[n] \in Seq(Rows)
      /\ kept[n] \in Seq(Rows) /\ kind[n] \in Kinds
  BY <1>1, <1>2 DEF Types
<1>5. Channel(out[n - 1], pend[n - 1], Past(n - 1), Past(n)) /\ Channel(out[n], pend[n], Past(n), Past(n + 1))
  BY <1>1, <1>2 DEF Channels
<1>6. pend[n] = <<>>
  BY <1>2, <1>4, <1>5, NothingToTell
<1>7. Made(seen, pend, n) = seen[n + 1]
  <2>1. \A s \in Seq(Rows) : s \o <<>> = s
    BY ConcatEmptySeq
  <2> QED
    BY <1>4, <1>6, <2>1 DEF Made
<1>8. Work(kind[n], seen[n], kept[n], FALSE, seen[n + 1])
  BY <1>1, <1>3, <1>7 DEF Works, Work
<1>9. kind[n] \in {"map", "take", "flat", "group"}
  BY <1>4, PipelineAssumption DEF PipelineAssumption
<1> QED
  BY <1>2, <1>3, <1>4, <1>5, <1>6, <1>8, <1>9

LEMMA FailsOnMore ==
  ASSUME NEW k, NEW rows \in Seq(Rows), NEW r \in Rows
  PROVE  FailedOn(k, Append(rows, r)) <=> FailedOn(k, rows) \/ FailedOn(k, <<r>>)
<1> DEFINE t == Append(rows, r)  n == Len(rows)
<1>1. /\ n \in Nat /\ DOMAIN rows = 1 .. n /\ DOMAIN t = 1 .. n + 1
      /\ t[n + 1] = r /\ \A i \in 1 .. n : t[i] = rows[i]
  OBVIOUS
<1> HIDE DEF t, n
<1>2. (\E i \in 1 .. n + 1 : t[i] \in Bad) <=> (\E i \in 1 .. n : rows[i] \in Bad) \/ r \in Bad
  <2>1. \A i \in 1 .. n + 1 : i \in 1 .. n \/ i = n + 1
    BY <1>1
  <2>2. n + 1 \in 1 .. n + 1 /\ \A i \in 1 .. n : i \in 1 .. n + 1
    BY <1>1
  <2> QED
    BY <1>1, <2>1, <2>2
<1>3. FailedOn(k, t) <=> FailedOn(k, rows) \/ FailedOn(k, <<r>>)
  BY <1>1, <1>2, FailsOnOne DEF FailedOn
<1> QED
  BY <1>3 DEF t

LEMMA ErrorsAfter ==
  ASSUME NEW seen \in [2 .. Out -> Seq(Rows)], Errors(seen), NEW n \in 2 .. N, NEW told,
         NEW fails \in BOOLEAN, ErrorTold' <=> ErrorTold \/ fails, kind' = kind,
         FailedOn(kind[n], told) <=> FailedOn(kind[n], seen[n]) \/ fails
  PROVE  Errors([seen EXCEPT ![n] = told])'
<1> DEFINE s == [seen EXCEPT ![n] = told]
<1>1. n \in 2 .. Out /\ \A m \in 2 .. N : m \in 2 .. Out
  BY NodeRange
<1>2. s[n] = told /\ \A m \in 2 .. N : m # n => s[m] = seen[m]
  BY <1>1
<1> HIDE DEF s
<1>3. (\E m \in 2 .. N : FailedOn(kind[m], s[m])) <=> (\E m \in 2 .. N : FailedOn(kind[m], seen[m])) \/ fails
  BY <1>2
<1>4. ErrorTold' <=> \E m \in 2 .. N : FailedOn(kind[m], s[m])
  BY <1>3 DEF Errors
<1>5. Errors(s)'
  BY <1>4 DEF Errors
<1> QED
  BY <1>5 DEF s

LEMMA BreaksAfter ==
  ASSUME NEW seen \in [2 .. Out -> Seq(Rows)], Breaks(seen), NEW n \in 2 .. N, NEW told \in Seq(Rows),
         Len(seen[n]) <= Len(told), UNCHANGED <<kind, left>>,
         stop' => stop \/ (kind[n] = "take" /\ Len(told) > Limit)
  PROVE  Breaks([seen EXCEPT ![n] = told])'
<1> DEFINE s == [seen EXCEPT ![n] = told]
<1>1. n \in 2 .. Out /\ \A m \in 2 .. N : m \in 2 .. Out
  BY NodeRange
<1>2. s[n] = told /\ \A m \in 2 .. N : m # n => s[m] = seen[m]
  BY <1>1
<1> HIDE DEF s
<1>3. Limit \in Nat /\ Len(told) \in Nat /\ Len(seen[n]) \in Nat
  BY <1>1, PipelineAssumption DEF PipelineAssumption
<1>4. ASSUME stop', ~left' PROVE \E m \in 2 .. N : kind[m] = "take" /\ Len(s[m]) > Limit
  <2>1. CASE stop
    <3>1. PICK m \in 2 .. N : kind[m] = "take" /\ Len(seen[m]) > Limit
      BY <1>4, <2>1 DEF Breaks
    <3>2. Len(s[m]) > Limit
      <4>1. CASE m = n
        BY <1>2, <1>3, <3>1, <4>1
      <4>2. CASE m # n
        BY <1>2, <3>1, <4>2
      <4> QED
        BY <4>1, <4>2
    <3> QED
      BY <3>1, <3>2
  <2>2. CASE ~stop
    BY <1>2, <1>4, <2>2
  <2> QED
    BY <2>1, <2>2
<1>5. Breaks(s)'
  BY <1>4 DEF Breaks
<1> QED
  BY <1>5 DEF s

LEMMA HeadMoves ==
  ASSUME NEW S, NEW s \in Seq(S), NEW t \in Seq(S), t # <<>>
  PROVE  Append(s, Head(t)) \o Tail(t) = s \o t
<1> DEFINE a == Append(s, Head(t)) \o Tail(t)  c == s \o t
<1>1. /\ a \in Seq(S) /\ c \in Seq(S) /\ Len(a) = Len(c) /\ Len(c) = Len(s) + Len(t)
      /\ Len(s) \in Nat /\ Len(t) \in Nat \ {0}
  OBVIOUS
<1>2. ASSUME NEW i \in 1 .. Len(c) PROVE a[i] = c[i]
  BY <1>1, <1>2
<1> HIDE DEF a, c
<1>3. a = c
  BY <1>1, <1>2, SeqEqual
<1> QED
  BY <1>3 DEF a, c

\* What is told at the receiver n, and what is not.
LEMMA ErrorMoves ==
  ASSUME NEW n \in 2 .. N, DOMAIN out = 0 .. N, NEW records,
         out' = [out EXCEPT ![n - 1] = Tail(@), ![n] = records], failed' = failed,
         out[n] = <<>>, Tail(out[n - 1]) # <<ErrorRecord>>
  PROVE  /\ out[n - 1] # <<ErrorRecord>> => (ErrorTold' <=> ErrorTold \/ records = <<ErrorRecord>>)
         /\ out[n - 1] = <<ErrorRecord>> /\ records = <<ErrorRecord>> => (ErrorTold' <=> ErrorTold)
<1>1. n \in Nodes /\ n - 1 \in Nodes /\ n # n - 1 /\ \A m \in Nodes : m \in 0 .. N
  BY NodeRange
<1>2. /\ out'[n - 1] = Tail(out[n - 1]) /\ out'[n] = records
      /\ \A m \in Nodes : m # n /\ m # n - 1 => out'[m] = out[m]
  BY <1>1
<1>3. out[n] # <<ErrorRecord>>
  OBVIOUS
<1> QED
  BY <1>1, <1>2, <1>3 DEF ErrorTold

LEMMA RowFlows ==
  ASSUME Inductive, NEW seen, NEW pend, Flow(seen, pend), NEW n \in 2 .. N, NodeRow(n)
  PROVE  \E s, q : Flow(s, q)'
<1> DEFINE r == Head(pend[n - 1])  rest == Tail(pend[n - 1])  told == Append(seen[n], r)  e == Eval(n, r)
<1>1. /\ out[n] = <<>> /\ Sent(n) /\ Told(n).key = "row"
      /\ UNCHANGED <<kind, pc, next, opened, written, failed, left>>
  BY DEF NodeRow
<1>2. /\ n \in Nodes /\ n - 1 \in Nodes /\ n - 1 \in 0 .. N /\ n - 1 # n /\ (n - 1) + 1 = n
      /\ pc[n] = "receive" /\ ~Past(n) /\ out[n - 1] # <<>> /\ Told(n) = Head(out[n - 1])
      /\ seen[n] \in Seq(Rows) /\ seen[n + 1] \in Seq(Rows) /\ pend[n - 1] \in Seq(Rows) /\ pend[n] = <<>>
      /\ kept[n] \in Seq(Rows) /\ kind[n] \in {"map", "take", "flat", "group"}
      /\ Channel(out[n - 1], pend[n - 1], Past(n - 1), Past(n))
      /\ Work(kind[n], seen[n], kept[n], FALSE, seen[n + 1])
  BY <1>1, NodeTold
<1>3. /\ pend[n - 1] # <<>> /\ Told(n).row = r /\ r \in Rows /\ rest \in Seq(Rows)
      /\ Channel(Tail(out[n - 1]), rest, Past(n - 1), FALSE)
      /\ out[n - 1] # <<ErrorRecord>> /\ Tail(out[n - 1]) # <<ErrorRecord>>
  BY <1>1, <1>2, ToldRow
<1>4. /\ out' = [out EXCEPT ![n - 1] = Tail(@), ![n] = e.tell]
      /\ kept' = [kept EXCEPT ![n] = e.keep] /\ stop' = (stop \/ e.break)
  BY <1>3 DEF NodeRow, Tell
<1>5. PICK rows \in Seq(Rows) : Evaluates(e, kind[n], seen[n], seen[n + 1], r, rows)
  BY <1>2, <1>3, EvaluatesRow
<1>6. /\ told \in Seq(Rows) /\ Len(told) = Len(seen[n]) + 1 /\ Len(seen[n]) \in Nat
      /\ told \o rest = seen[n] \o pend[n - 1]
  <2>1. \A s, t \in Seq(Rows) : t # <<>> => Append(s, Head(t)) \o Tail(t) = s \o t
    BY HeadMoves
  <2>2. \A s \in Seq(Rows) : \A x \in Rows :
          Append(s, x) \in Seq(Rows) /\ Len(Append(s, x)) = Len(s) + 1 /\ Len(s) \in Nat
    OBVIOUS
  <2>3. told \o rest = seen[n] \o pend[n - 1]
    BY <1>2, <1>3, <2>1
  <2> QED
    BY <1>2, <1>3, <2>2, <2>3
<1>7. FailedOn(kind[n], told) <=> FailedOn(kind[n], seen[n]) \/ FailedOn(kind[n], <<r>>)
  BY <1>2, <1>3, FailsOnMore
<1> HIDE DEF e, told, rest, r
<1>8. /\ Types(seen, pend) /\ Errors(seen) /\ Breaks(seen)
  BY DEF Flow
<1>9. /\ seen \in [2 .. Out -> Seq(Rows)] /\ stop \in BOOLEAN /\ DOMAIN out = 0 .. N
  BY <1>8 DEF Types, Inductive, Shape
<1>10. /\ Channel(e.tell, rows, FALSE, FALSE) /\ e.keep \in Seq(Rows) /\ e.break \in BOOLEAN
       /\ Work(kind[n], told, e.keep, FALSE, seen[n + 1] \o rows)
       /\ e.tell = <<ErrorRecord>> <=> FailedOn(kind[n], <<r>>)
       /\ e.break => kind[n] = "take" /\ Len(seen[n]) >= Limit
  BY <1>5 DEF Evaluates, told
<1>11. Errors([seen EXCEPT ![n] = told])'
  <2>1. ErrorTold' <=> ErrorTold \/ e.tell = <<ErrorRecord>>
    BY <1>1, <1>3, <1>4, <1>9, ErrorMoves
  <2> DEFINE fails == e.tell = <<ErrorRecord>>
  <2>2. fails \in BOOLEAN
    OBVIOUS
  <2>3. ErrorTold' <=> ErrorTold \/ fails
    BY <2>1
  <2>4. FailedOn(kind[n], told) <=> FailedOn(kind[n], seen[n]) \/ fails
    BY <1>7, <1>10
  <2> HIDE DEF fails
  <2> QED
    BY <1>1, <1>8, <1>9, <2>2, <2>3, <2>4, ErrorsAfter
<1>12. Breaks([seen EXCEPT ![n] = told])'
  <2>1. Limit \in Nat
    BY PipelineAssumption DEF PipelineAssumption
  <2>2. stop' => stop \/ (kind[n] = "take" /\ Len(told) > Limit)
    BY <1>4, <1>6, <1>9, <1>10, <2>1
  <2>3. Len(seen[n]) <= Len(told)
    BY <1>6
  <2> QED
    BY <1>1, <1>6, <1>8, <1>9, <2>2, <2>3, BreaksAfter
<1>13. stop' \in BOOLEAN /\ (stop => stop')
  BY <1>4, <1>9, <1>10
<1>14. pc'[n] = "receive" /\ \A m \in 1 .. Out : m # n => pc'[m] = pc[m]
  BY <1>1, <1>2
<1> DEFINE p == "receive"
<1>15. p \in {"receive", "last"} /\ pc'[n] = p /\ (p = "last") = FALSE
  BY <1>14
<1>16. Channel(Tail(out[n - 1]), rest, Past(n - 1), p = "last") /\ Channel(e.tell, rows, p = "last", FALSE)
       /\ Work(kind[n], told, e.keep, p = "last", seen[n + 1] \o rows)
  BY <1>3, <1>10, <1>15
<1> HIDE DEF p
<1>17. UNCHANGED <<kind, next, opened, written, failed, left>>
  BY <1>1
<1>18. NodeMoves(seen, pend, n, told, rest, rows, e.keep, e.tell, p)
  BY <1>1, <1>2, <1>3, <1>4, <1>6, <1>10, <1>11, <1>12, <1>13, <1>14, <1>15, <1>16, <1>17 DEF NodeMoves
<1> QED
  BY <1>18, NodeFlow

LEMMA ErrorFlows ==
  ASSUME Inductive, NEW seen, NEW pend, Flow(seen, pend), NEW n \in 2 .. N, NodeError(n)
  PROVE  \E s, q : Flow(s, q)'
<1> DEFINE told == seen[n]  rest == pend[n - 1]  records == <<ErrorRecord>>  p == "receive"  nothing == <<>>
<1>1. /\ out[n] = <<>> /\ Sent(n) /\ Told(n).key = "error"
      /\ out' = [out EXCEPT ![n - 1] = Tail(@), ![n] = records]
      /\ UNCHANGED <<kind, pc, next, kept, stop, opened, written, failed, left>>
  BY DEF NodeError, Tell
<1>2. /\ n \in Nodes /\ n - 1 \in Nodes /\ n - 1 \in 0 .. N /\ n - 1 # n /\ (n - 1) + 1 = n
      /\ pc[n] = "receive" /\ ~Past(n) /\ out[n - 1] # <<>> /\ Told(n) = Head(out[n - 1])
      /\ told \in Seq(Rows) /\ seen[n + 1] \in Seq(Rows) /\ rest \in Seq(Rows) /\ pend[n] = <<>>
      /\ kept[n] \in Seq(Rows) /\ kind[n] \in {"map", "take", "flat", "group"}
      /\ Channel(out[n - 1], rest, Past(n - 1), Past(n))
      /\ Work(kind[n], told, kept[n], FALSE, seen[n + 1])
  BY <1>1, NodeTold
<1>3. ~Past(n - 1) /\ rest = nothing /\ Tail(out[n - 1]) = nothing /\ out[n - 1] = records
  BY <1>1, <1>2, ToldError
<1>4. Types(seen, pend) /\ Errors(seen) /\ Breaks(seen)
  BY DEF Flow
<1>5. /\ seen \in [2 .. Out -> Seq(Rows)] /\ kept \in [2 .. N -> Seq(Rows)]
      /\ stop \in BOOLEAN /\ DOMAIN out = 0 .. N
  BY <1>4 DEF Types, Inductive, Shape
<1>6. ErrorTold' <=> ErrorTold
  <2>1. Tail(out[n - 1]) # <<ErrorRecord>> /\ records = <<ErrorRecord>>
    BY <1>3
  <2> HIDE DEF records
  <2> QED
    BY <1>1, <1>3, <1>5, <2>1, ErrorMoves
<1> DEFINE fails == FALSE
<1>7. fails \in BOOLEAN /\ (ErrorTold' <=> ErrorTold \/ fails)
      /\ (FailedOn(kind[n], told) <=> FailedOn(kind[n], seen[n]) \/ fails)
  BY <1>6
<1> HIDE DEF fails
<1>8. Errors([seen EXCEPT ![n] = told])'
  BY <1>1, <1>4, <1>5, <1>7, ErrorsAfter
<1>9. Breaks([seen EXCEPT ![n] = told])'
  <2>1. Len(seen[n]) <= Len(told)
    BY <1>2
  <2> QED
    BY <1>1, <1>2, <1>4, <1>5, <2>1, BreaksAfter
<1>10. nothing \in Seq(Rows) /\ nothing = RowRecords(nothing) /\ seen[n + 1] \o nothing = seen[n + 1]
  BY <1>2, NoRecords
<1>11. kept' = [kept EXCEPT ![n] = kept[n]]
  BY <1>1, <1>5
<1>12. /\ p \in {"receive", "last"} /\ (p = "last") = FALSE
       /\ pc'[n] = p /\ \A m \in 1 .. Out : m # n => pc'[m] = pc[m]
  BY <1>1, <1>2
<1>13. /\ Channel(Tail(out[n - 1]), rest, Past(n - 1), p = "last")
       /\ Channel(records, nothing, p = "last", FALSE)
  BY <1>3, <1>10, <1>12 DEF Channel
<1>14. Work(kind[n], told, kept[n], p = "last", seen[n + 1] \o nothing)
  BY <1>2, <1>10, <1>12
<1>15. stop' \in BOOLEAN /\ (stop => stop') /\ told \o rest = seen[n] \o pend[n - 1]
       /\ UNCHANGED <<kind, next, opened, written, failed, left>>
  BY <1>1, <1>5
<1> HIDE DEF told, rest, records, p, nothing
<1>16. NodeMoves(seen, pend, n, told, rest, nothing, kept[n], records, p)
  BY <1>1, <1>2, <1>8, <1>9, <1>10, <1>11, <1>12, <1>13, <1>14, <1>15 DEF NodeMoves
<1> QED
  BY <1>16, NodeFlow

LEMMA EofFlows ==
  ASSUME Inductive, NEW seen, NEW pend, Flow(seen, pend), NEW n \in 2 .. N, NodeEof(n)
  PROVE  \E s, q : Flow(s, q)'
<1> DEFINE told == seen[n]  rest == pend[n - 1]  records == LastWill(n)  p == "last"  nothing == <<>>
           rows == IF kind[n] = "group" THEN kept[n] ELSE nothing
<1>1. /\ out[n] = <<>> /\ Sent(n) /\ Told(n).key = "eof"
      /\ out' = [out EXCEPT ![n - 1] = Tail(@), ![n] = records]
      /\ pc' = [pc EXCEPT ![n] = "last"]
      /\ UNCHANGED <<kind, next, kept, stop, opened, written, failed, left>>
  BY DEF NodeEof, Tell
<1>2. /\ n \in Nodes /\ n - 1 \in Nodes /\ n - 1 \in 0 .. N /\ n - 1 # n /\ (n - 1) + 1 = n
      /\ pc[n] = "receive" /\ ~Past(n) /\ out[n - 1] # <<>> /\ Told(n) = Head(out[n - 1])
      /\ told \in Seq(Rows) /\ seen[n + 1] \in Seq(Rows) /\ rest \in Seq(Rows) /\ pend[n] = <<>>
      /\ kept[n] \in Seq(Rows) /\ kind[n] \in {"map", "take", "flat", "group"}
      /\ Channel(out[n - 1], rest, Past(n - 1), Past(n))
      /\ Work(kind[n], told, kept[n], FALSE, seen[n + 1])
  BY <1>1, NodeTold
<1>3. Past(n - 1) /\ rest = nothing /\ Tail(out[n - 1]) = nothing /\ out[n - 1] # <<ErrorRecord>>
  BY <1>1, <1>2, ToldEof
<1>4. Types(seen, pend) /\ Errors(seen) /\ Breaks(seen)
  BY DEF Flow
<1>5. /\ seen \in [2 .. Out -> Seq(Rows)] /\ kept \in [2 .. N -> Seq(Rows)] /\ stop \in BOOLEAN
      /\ DOMAIN out = 0 .. N /\ DOMAIN pc = 1 .. Out
  BY <1>4 DEF Types, Inductive, Shape
<1>6. nothing \in Seq(Rows) /\ nothing = RowRecords(nothing) /\ seen[n + 1] \o nothing = seen[n + 1]
      /\ Append(RowRecords(nothing), EofRecord) = <<EofRecord>>
  BY <1>2, NoRecords
<1>7. rows \in Seq(Rows) /\ records = Append(RowRecords(rows), EofRecord)
  BY <1>2, <1>6 DEF LastWill
<1>8. records # <<ErrorRecord>>
  <2> HIDE DEF records, rows
  <2> QED
    BY <1>7, NotAnError
<1>9. ErrorTold' <=> ErrorTold
  <2>1. Tail(out[n - 1]) # <<ErrorRecord>>
    BY <1>3
  <2> HIDE DEF records
  <2> QED
    BY <1>1, <1>3, <1>5, <1>8, <2>1, ErrorMoves
<1> DEFINE fails == FALSE
<1>10. fails \in BOOLEAN /\ (ErrorTold' <=> ErrorTold \/ fails)
      /\ (FailedOn(kind[n], told) <=> FailedOn(kind[n], seen[n]) \/ fails)
  BY <1>9
<1> HIDE DEF fails
<1>11. Errors([seen EXCEPT ![n] = told])'
  BY <1>1, <1>4, <1>5, <1>10, ErrorsAfter
<1>12. Breaks([seen EXCEPT ![n] = told])'
  <2>1. Len(seen[n]) <= Len(told)
    BY <1>2
  <2> QED
    BY <1>1, <1>2, <1>4, <1>5, <2>1, BreaksAfter
<1>13. kept' = [kept EXCEPT ![n] = kept[n]]
  BY <1>1, <1>5
<1>14. /\ p \in {"receive", "last"} /\ (p = "last") = TRUE
       /\ pc'[n] = p /\ \A m \in 1 .. Out : m # n => pc'[m] = pc[m]
  <2>1. n \in 1 .. Out
    BY <1>2, NodeRange
  <2> QED
    BY <1>1, <1>5, <2>1
<1>15. Channel(Tail(out[n - 1]), rest, Past(n - 1), p = "last") /\ Channel(records, rows, p = "last", FALSE)
  BY <1>3, <1>7, <1>14 DEF Channel
<1>16. Work(kind[n], told, kept[n], p = "last", seen[n + 1] \o rows)
  <2>1. CASE kind[n] = "group"
    BY <1>2, <1>14, <2>1 DEF Work
  <2>2. CASE kind[n] # "group"
    BY <1>2, <1>6, <1>14, <2>2 DEF Work
  <2> QED
    BY <2>1, <2>2
<1>17. stop' \in BOOLEAN /\ (stop => stop') /\ told \o rest = seen[n] \o pend[n - 1]
       /\ UNCHANGED <<kind, next, opened, written, failed, left>>
  BY <1>1, <1>5
<1> HIDE DEF told, rest, records, p, nothing, rows
<1>18. NodeMoves(seen, pend, n, told, rest, rows, kept[n], records, p)
  BY <1>1, <1>2, <1>7, <1>11, <1>12, <1>13, <1>14, <1>15, <1>16, <1>17 DEF NodeMoves
<1> QED
  BY <1>18, NodeFlow

\* A step that moves no record, and after which everybody is as far as before.
LEMMA SameFlow ==
  ASSUME NEW seen, NEW pend, Flow(seen, pend), pc[1] = "produce" => pc'[1] = "produce",
         UNCHANGED <<kind, out, next, kept, opened, written, failed>>,
         stop => stop', stop' \in BOOLEAN, stop' /\ ~left' => stop /\ ~left,
         \A m \in 1 .. Out : Past(m)' <=> Past(m),
         pc'[1] \in {"receive", "produce", "last", "ended"}, pc'[Out] \in {"receive", "ended"},
         \A m \in 2 .. N : pc'[m] \in {"receive", "last", "ended"},
         pc'[1] = "produce" => pc[1] = "produce"
  PROVE  Flow(seen, pend)'
<1>1. /\ Types(seen, pend) /\ SourceInv /\ Made(seen, pend, 1) = RowsTo(next - 1)
      /\ Channels(pend) /\ Works(seen, pend) /\ Wrote(seen) /\ Errors(seen) /\ Breaks(seen)
  BY DEF Flow
<1>2. Types(seen, pend)'
  BY <1>1 DEF Types
<1>3. SourceInv'
  <2>1. Past(1)' <=> Past(1)
    BY NodeRange
  <2>2. pc[1] = "receive" => pc'[1] = "receive"
    BY <2>1 DEF Past
  <2> QED
    BY <1>1, <2>1, <2>2 DEF SourceInv
<1>4. Made(seen, pend, 1)' = RowsTo(next' - 1)
  BY <1>1 DEF Made
<1>5. Channels(pend)'
  <2>1. \A m \in Nodes : m \in 1 .. Out /\ m + 1 \in 1 .. Out
    BY NodeRange DEF Nodes
  <2>2. ASSUME NEW m \in Nodes PROVE Channel(out'[m], pend[m], Past(m)', Past(m + 1)')
    BY <1>1, <2>1 DEF Channels, Channel
  <2> QED
    BY <2>2 DEF Channels
<1>6. Works(seen, pend)'
  <2>1. ASSUME NEW m \in 2 .. N PROVE Work(kind'[m], seen[m], kept'[m], Past(m)', Made(seen, pend, m)')
    <3>1. m \in 1 .. Out
      BY NodeRange
    <3> QED
      BY <1>1, <3>1 DEF Works, Work, Made
  <2> QED
    BY <2>1 DEF Works
<1>7. Wrote(seen)' /\ Errors(seen)' /\ Breaks(seen)'
  BY <1>1 DEF Wrote, Errors, ErrorTold, Breaks
<1> QED
  BY <1>2, <1>3, <1>4, <1>5, <1>6, <1>7 DEF Flow

\* While the context lasts, a node ends only after its last record: its channel
\* is closed when the node before it ended, which had told it the end.
LEMMA EndFlows ==
  ASSUME Inductive, NEW seen, NEW pend, Flow(seen, pend), NEW n \in Nodes, ~ctxDone, NodeEnds(n)
  PROVE  Flow(seen, pend)'
<1>1. /\ Types(seen, pend) /\ SourceInv /\ Channels(pend)
  BY DEF Flow
<1>2. /\ DOMAIN pc = 1 .. Out /\ n \in 1 .. Out /\ 1 \in 1 .. Out /\ Out \in 1 .. Out /\ n # Out
      /\ \A m \in 2 .. N : m \in 1 .. Out
  BY NodeRange DEF Inductive, Shape, Nodes
<1>3. /\ out[n] = <<>> /\ pc' = [pc EXCEPT ![n] = "ended"]
      /\ UNCHANGED <<kind, out, next, kept, stop, opened, written, failed, left>>
  BY DEF NodeEnds
<1>4. pc[n] = "last"
  <2> SUFFICES ASSUME pc[n] = "receive", n <= stopAt PROVE FALSE
    BY DEF NodeEnds
  <2>1. out[n - 1] = <<>> /\ (n > 1 => pc[n - 1] = "ended")
    BY <1>2 DEF Inductive, NoSendOnClosed
  <2>2. CASE n = 1
    <3>1. out[0] = <<>> /\ ~Past(1) /\ \A x, y : <<x, y>> # <<>> /\ <<x>> # <<>>
      BY <2>1, <2>2 DEF Past
    <3> QED
      BY <1>1, <3>1 DEF SourceInv
  <2>3. CASE n # 1
    <3>1. n \in 2 .. N /\ n - 1 \in Nodes /\ (n - 1) + 1 = n /\ n > 1
      BY <2>3, NodeRange DEF Nodes
    <3>2. Channel(out[n - 1], pend[n - 1], Past(n - 1), Past(n)) /\ pend[n - 1] \in Seq(Rows)
      BY <1>1, <3>1 DEF Channels, Types
    <3>3. Past(n - 1) <=> Past(n)
      BY <2>1, <3>1, <3>2, NothingToTell
    <3> QED
      BY <2>1, <3>1, <3>3 DEF Past
  <2> QED
    BY <2>2, <2>3
<1>5. pc'[n] = "ended" /\ \A m \in 1 .. Out : m # n => pc'[m] = pc[m]
  BY <1>2, <1>3
<1>6. \A m \in 1 .. Out : Past(m)' <=> Past(m)
  BY <1>4, <1>5 DEF Past
<1>7. pc[1] = "produce" <=> pc'[1] = "produce"
  BY <1>2, <1>4, <1>5
<1>8. pc'[1] \in {"receive", "produce", "last", "ended"} /\ pc'[Out] \in {"receive", "ended"}
      /\ \A m \in 2 .. N : pc'[m] \in {"receive", "last", "ended"}
  BY <1>1, <1>2, <1>5 DEF SourceInv, Types
<1>9. stop \in BOOLEAN
  BY <1>1 DEF Types
<1> QED
  BY <1>3, <1>6, <1>7, <1>8, <1>9, SameFlow
-----------------------------------------------------------------------------
(* The steps of the source *)

LEMMA SourceFlow ==
  ASSUME Inductive, NEW seen, NEW pend, Flow(seen, pend), NEW rows \in Seq(Rows),
         UNCHANGED <<kind, kept, opened, written, failed, left, stop>>, SourceInv',
         \A m \in 2 .. N : out'[m] = out[m], \A m \in 2 .. Out : pc'[m] = pc[m],
         Channel(out'[1], rows, Past(1)', Past(2)), seen[2] \o rows = RowsTo(next' - 1),
         out[1] # <<ErrorRecord>>, out'[1] # <<ErrorRecord>>
  PROVE  \E s, q : Flow(s, q)'
<1> DEFINE q == [pend EXCEPT ![1] = rows]
<1>1. /\ Types(seen, pend) /\ Channels(pend) /\ Works(seen, pend)
      /\ Wrote(seen) /\ Errors(seen) /\ Breaks(seen)
  BY DEF Flow
<1>2. /\ 1 \in Nodes /\ Out \in 2 .. Out /\ \A m \in 2 .. N : m \in 2 .. Out /\ m \in Nodes /\ m # 1
      /\ \A m \in Nodes : m + 1 \in 2 .. Out /\ (m # 1 => m \in 2 .. N)
  BY NodeRange
<1>3. q \in [Nodes -> Seq(Rows)] /\ q[1] = rows /\ \A m \in 2 .. N : q[m] = pend[m]
  BY <1>1, <1>2 DEF Types
<1> HIDE DEF q
<1>4. \A m \in 2 .. Out : Past(m)' <=> Past(m)
  BY DEF Past
<1>5. Types(seen, q)'
  BY <1>1, <1>2, <1>3 DEF Types
<1>6. Made(seen, q, 1)' = RowsTo(next' - 1)
  BY <1>3 DEF Made
<1>7. Channels(q)'
  <2>1. ASSUME NEW m \in Nodes PROVE Channel(out'[m], q[m], Past(m)', Past(m + 1)')
    <3>1. CASE m = 1
      <4>1. Past(2)' <=> Past(2)
        BY <1>2, <1>4, <3>1
      <4> QED
        BY <1>3, <3>1, <4>1 DEF Channel
    <3>2. CASE m # 1
      <4>1. m \in 2 .. N /\ m \in 2 .. Out /\ m + 1 \in 2 .. Out
        BY <1>2, <3>2
      <4>2. Channel(out[m], pend[m], Past(m), Past(m + 1))
        BY <1>1 DEF Channels
      <4> QED
        BY <1>3, <1>4, <4>1, <4>2 DEF Channel
    <3> QED
      BY <3>1, <3>2
  <2> QED
    BY <2>1 DEF Channels
<1>8. Works(seen, q)'
  <2>1. ASSUME NEW m \in 2 .. N PROVE Work(kind'[m], seen[m], kept'[m], Past(m)', Made(seen, q, m)')
    <3>1. Made(seen, q, m)' = Made(seen, pend, m)
      BY <1>3 DEF Made
    <3> QED
      BY <1>1, <1>2, <1>4, <3>1 DEF Works, Work
  <2> QED
    BY <2>1 DEF Works
<1>9. Wrote(seen)' /\ Breaks(seen)'
  BY <1>1 DEF Wrote, Breaks
<1>10. Errors(seen)'
  <2>1. ErrorTold' <=> ErrorTold
    BY <1>2 DEF ErrorTold
  <2> QED
    BY <1>1, <2>1 DEF Errors
<1> QED
  BY <1>5, <1>6, <1>7, <1>8, <1>9, <1>10 DEF Flow

\* A source that has nothing to tell has told all its rows.
LEMMA SourceTold ==
  ASSUME Inductive, NEW seen, NEW pend, Flow(seen, pend), out[1] = <<>>, pc[1] \in {"receive", "produce"}
  PROVE  /\ DOMAIN out = 0 .. N /\ DOMAIN pc = 1 .. Out /\ pend[1] = <<>> /\ ~Past(1) /\ ~Past(2)
         /\ seen[2] \in Seq(Rows) /\ seen[2] = RowsTo(next - 1)
         /\ <<>> \in Seq(Rows) /\ seen[2] \o <<>> = seen[2]
         /\ SourceInv /\ \A m \in 2 .. Out : m \in 1 .. Out /\ m # 1
         /\ \A m \in 2 .. N : m \in 0 .. N /\ m # 1 /\ m # 0
         /\ 0 \in 0 .. N /\ 1 \in 0 .. N /\ 1 \in 1 .. Out
<1>1. Types(seen, pend) /\ SourceInv /\ Made(seen, pend, 1) = RowsTo(next - 1) /\ Channels(pend)
  BY DEF Flow
<1>2. /\ 1 \in Nodes /\ 2 \in 2 .. Out /\ \A m \in 2 .. Out : m \in 1 .. Out /\ m # 1
      /\ \A m \in 2 .. N : m \in 0 .. N /\ m # 1 /\ m # 0
      /\ 0 \in 0 .. N /\ 1 \in 0 .. N /\ 1 \in 1 .. Out
  BY NodeRange
<1>3. seen[2] \in Seq(Rows) /\ pend[1] \in Seq(Rows)
  BY <1>1, <1>2 DEF Types
<1>4. ~Past(1)
  BY DEF Past
<1>5. Channel(out[1], pend[1], Past(1), Past(1 + 1))
  BY <1>1, <1>2 DEF Channels
<1>6. pend[1] = <<>> /\ ~Past(1 + 1)
  BY <1>2, <1>3, <1>4, <1>5, NothingToTell
<1>7. seen[2] = RowsTo(next - 1) /\ seen[2] \o <<>> = seen[2]
  BY <1>1, <1>3, <1>6 DEF Made
<1> QED
  BY <1>1, <1>2, <1>3, <1>4, <1>6, <1>7 DEF Inductive, Shape

LEMMA StartFlows ==
  ASSUME Inductive, NEW seen, NEW pend, Flow(seen, pend), SourceStart
  PROVE  \E s, q : Flow(s, q)'
<1> DEFINE nothing == <<>>
<1>1. /\ out[1] = nothing /\ Sent(1) /\ Told(1).key = "first" /\ pc' = [pc EXCEPT ![1] = "produce"]
      /\ out' = [out EXCEPT ![0] = Tail(@), ![1] = nothing]
      /\ UNCHANGED <<kind, next, kept, stop, opened, written, failed, left>>
  BY DEF SourceStart, Tell
<1>2. pc[1] = "receive" /\ out[0] # <<>> /\ Told(1) = Head(out[0])
  BY <1>1 DEF Sent, Told
<1>3. /\ DOMAIN out = 0 .. N /\ DOMAIN pc = 1 .. Out /\ pend[1] = nothing /\ ~Past(1) /\ ~Past(2)
      /\ seen[2] \in Seq(Rows) /\ seen[2] = RowsTo(next - 1)
      /\ nothing \in Seq(Rows) /\ seen[2] \o nothing = seen[2]
      /\ SourceInv /\ \A m \in 2 .. Out : m \in 1 .. Out /\ m # 1
      /\ \A m \in 2 .. N : m \in 0 .. N /\ m # 1 /\ m # 0
      /\ 0 \in 0 .. N /\ 1 \in 0 .. N /\ 1 \in 1 .. Out
  BY <1>1, <1>2, SourceTold
<1>4. out[0] = <<FirstRecord, EofRecord>>
  <2>1. Head(<<EofRecord>>).key = "eof"
    BY MessageKeys
  <2> QED
    BY <1>1, <1>2, <1>3, <2>1 DEF SourceInv
<1>5. /\ out'[0] = <<EofRecord>> /\ out'[1] = nothing /\ pc'[1] = "produce"
      /\ \A m \in 2 .. N : out'[m] = out[m]
      /\ \A m \in 2 .. Out : pc'[m] = pc[m]
  BY <1>1, <1>3, <1>4
<1>6. SourceInv'
  BY <1>1, <1>3, <1>5 DEF SourceInv
<1>7. ~Past(1)'
  BY <1>5 DEF Past
<1>8. nothing # <<ErrorRecord>> /\ RowRecords(nothing) = nothing
  BY NoRecords
<1>9. Channel(out'[1], nothing, Past(1)', Past(2))
  BY <1>3, <1>5, <1>7, <1>8 DEF Channel
<1>10. seen[2] \o nothing = RowsTo(next' - 1)
  BY <1>1, <1>3
<1> HIDE DEF nothing
<1> QED
  BY <1>1, <1>3, <1>5, <1>6, <1>8, <1>9, <1>10, SourceFlow

LEMMA ProduceFlows ==
  ASSUME Inductive, NEW seen, NEW pend, Flow(seen, pend), SourceRow
  PROVE  \E s, q : Flow(s, q)'
<1> DEFINE nothing == <<>>
<1>1. /\ out[1] = nothing /\ pc[1] = "produce"
      /\ UNCHANGED <<kind, kept, stop, opened, written, failed, left>>
  BY DEF SourceRow
<1>2. /\ DOMAIN out = 0 .. N /\ DOMAIN pc = 1 .. Out /\ pend[1] = nothing /\ ~Past(1) /\ ~Past(2)
      /\ seen[2] \in Seq(Rows) /\ seen[2] = RowsTo(next - 1)
      /\ nothing \in Seq(Rows) /\ seen[2] \o nothing = seen[2]
      /\ SourceInv /\ \A m \in 2 .. Out : m \in 1 .. Out /\ m # 1
      /\ \A m \in 2 .. N : m \in 0 .. N /\ m # 1 /\ m # 0
      /\ 0 \in 0 .. N /\ 1 \in 0 .. N /\ 1 \in 1 .. Out
  BY <1>1, SourceTold
<1>3. out[0] = <<EofRecord>> /\ next \in 1 .. NumRows + 1
  BY <1>1, <1>2 DEF SourceInv
<1>4. nothing # <<ErrorRecord>> /\ RowRecords(nothing) = nothing
  BY NoRecords
<1>5. CASE stop \/ next > NumRows
  <2>1. pc' = [pc EXCEPT ![1] = "receive"] /\ UNCHANGED <<out, next>>
    BY <1>5 DEF SourceRow
  <2>2. pc'[1] = "receive" /\ \A m \in 2 .. Out : pc'[m] = pc[m]
    BY <1>2, <2>1
  <2>3. ~Past(1)'
    BY <2>2 DEF Past
  <2>4. SourceInv'
    BY <1>1, <1>3, <1>5, <2>1, <2>2, <2>3 DEF SourceInv
  <2>5. Channel(out'[1], nothing, Past(1)', Past(2)) /\ seen[2] \o nothing = RowsTo(next' - 1)
    BY <1>1, <1>2, <1>4, <2>1, <2>3 DEF Channel
  <2>6. out[1] # <<ErrorRecord>> /\ out'[1] # <<ErrorRecord>> /\ \A m \in 2 .. N : out'[m] = out[m]
    BY <1>1, <1>4, <2>1
  <2> HIDE DEF nothing
  <2> QED
    BY <1>1, <1>2, <2>2, <2>4, <2>5, <2>6, SourceFlow
<1>6. CASE ~(stop \/ next > NumRows)
  <2> DEFINE rows == <<next>>
  <2>1. out' = [out EXCEPT ![1] = <<RowRecord(next)>>] /\ next' = next + 1 /\ pc' = pc
    BY <1>6 DEF SourceRow
  <2>2. out'[1] = <<RowRecord(next)>> /\ out'[0] = out[0] /\ \A m \in 2 .. N : out'[m] = out[m]
    BY <1>2, <2>1
  <2>3. next \in Rows /\ next' \in 1 .. NumRows + 1 /\ next - 1 \in Nat
    BY <1>3, <1>6, <2>1, NodeRange DEF Rows
  <2>4. rows \in Seq(Rows) /\ RowRecords(rows) = <<RowRecord(next)>> /\ RowRecords(rows) # <<ErrorRecord>>
    <3>1. rows \in Seq(Rows)
      BY <2>3
    <3>2. RowRecords(rows) = <<RowRecord(next)>>
      BY <2>3, OneRecord
    <3> HIDE DEF rows
    <3> QED
      BY <3>1, <3>2, NotAnError
  <2>5. seen[2] \o rows = RowsTo(next' - 1)
    <3>1. seen[2] \o rows = Append(seen[2], next)
      BY <1>2, <2>3, SeqFacts
    <3>2. \A k \in Nat : Append([i \in 1 .. k |-> i], k + 1) = [i \in 1 .. k + 1 |-> i]
      OBVIOUS
    <3>3. Append(RowsTo(next - 1), (next - 1) + 1) = RowsTo((next - 1) + 1)
      BY <2>3, <3>2 DEF RowsTo
    <3>4. (next - 1) + 1 = next /\ next' - 1 = next
      BY <1>3, <2>1, NodeRange
    <3> QED
      BY <1>2, <3>1, <3>3, <3>4
  <2>6. (Past(1)' <=> Past(1)) /\ \A m \in 2 .. Out : pc'[m] = pc[m]
    BY <2>1 DEF Past
  <2>7. SourceInv'
    BY <1>1, <1>3, <2>1, <2>2, <2>3 DEF SourceInv
  <2>8. Channel(out'[1], rows, Past(1)', Past(2))
    BY <1>2, <2>2, <2>4, <2>6 DEF Channel
  <2>9. out[1] # <<ErrorRecord>> /\ out'[1] # <<ErrorRecord>>
    BY <1>1, <1>4, <2>2, <2>4
  <2> HIDE DEF rows
  <2> QED
    BY <1>1, <2>2, <2>4, <2>5, <2>6, <2>7, <2>8, <2>9, SourceFlow
<1> QED
  BY <1>5, <1>6

LEMMA SourceEnds ==
  ASSUME Inductive, NEW seen, NEW pend, Flow(seen, pend), NodeEof(1)
  PROVE  \E s, q : Flow(s, q)'
<1> DEFINE nothing == <<>>
<1>1. /\ out[1] = nothing /\ Sent(1) /\ Told(1).key = "eof" /\ pc' = [pc EXCEPT ![1] = "last"]
      /\ out' = [out EXCEPT ![0] = Tail(@), ![1] = <<EofRecord>>]
      /\ UNCHANGED <<kind, next, kept, stop, opened, written, failed, left>>
  BY NodeRange DEF NodeEof, Tell, LastWill
<1>2. pc[1] = "receive" /\ out[0] # <<>> /\ Told(1) = Head(out[0])
  BY <1>1 DEF Sent, Told
<1>3. /\ DOMAIN out = 0 .. N /\ DOMAIN pc = 1 .. Out /\ pend[1] = nothing /\ ~Past(1) /\ ~Past(2)
      /\ seen[2] \in Seq(Rows) /\ seen[2] = RowsTo(next - 1)
      /\ nothing \in Seq(Rows) /\ seen[2] \o nothing = seen[2]
      /\ SourceInv /\ \A m \in 2 .. Out : m \in 1 .. Out /\ m # 1
      /\ \A m \in 2 .. N : m \in 0 .. N /\ m # 1 /\ m # 0
      /\ 0 \in 0 .. N /\ 1 \in 0 .. N /\ 1 \in 1 .. Out
  BY <1>1, <1>2, SourceTold
<1>4. out[0] = <<EofRecord>> /\ (stop \/ next > NumRows)
  <2>1. Head(<<FirstRecord, EofRecord>>).key = "first"
    BY MessageKeys
  <2> QED
    BY <1>1, <1>2, <1>3, <2>1 DEF SourceInv
<1>5. /\ out'[0] = nothing /\ out'[1] = <<EofRecord>> /\ pc'[1] = "last"
      /\ \A m \in 2 .. N : out'[m] = out[m]
      /\ \A m \in 2 .. Out : pc'[m] = pc[m]
  BY <1>1, <1>3, <1>4
<1>6. Past(1)'
  BY <1>5 DEF Past
<1>7. SourceInv'
  BY <1>1, <1>3, <1>4, <1>5, <1>6 DEF SourceInv
<1>8. /\ nothing # <<ErrorRecord>> /\ Append(RowRecords(nothing), EofRecord) = <<EofRecord>>
      /\ <<EofRecord>> # <<ErrorRecord>>
  BY <1>3, NoRecords, NotAnError
<1>9. Channel(out'[1], nothing, Past(1)', Past(2))
  BY <1>3, <1>5, <1>6, <1>8 DEF Channel
<1>10. seen[2] \o nothing = RowsTo(next' - 1)
  BY <1>1, <1>3
<1> HIDE DEF nothing
<1> QED
  BY <1>1, <1>3, <1>5, <1>7, <1>8, <1>9, <1>10, SourceFlow
-----------------------------------------------------------------------------
(* The steps of the output *)

\* The output was told its next rows, or the end.
OutMoves(seen, pend, told, rest) ==
    /\ told \in Seq(Rows) /\ rest \in Seq(Rows) /\ told \o rest = seen[Out] \o pend[N]
    /\ out' = [out EXCEPT ![N] = Tail(@)] /\ \A m \in Nodes : pc'[m] = pc[m]
    /\ UNCHANGED <<kind, next, kept, stop, left>>
    /\ pc'[Out] \in {"receive", "ended"} /\ opened' \in {"no", "yes"}
    /\ failed' \in BOOLEAN /\ written' = told
    /\ Channel(Tail(out[N]), rest, Past(N), Past(Out)')
    /\ failed \/ out[N] = <<ErrorRecord>> <=> failed' \/ Tail(out[N]) = <<ErrorRecord>>

LEMMA OutFlow ==
  ASSUME Inductive, NEW seen, NEW pend, Flow(seen, pend), NEW told, NEW rest, OutMoves(seen, pend, told, rest)
  PROVE  \E s, q : Flow(s, q)'
<1> DEFINE s == [seen EXCEPT ![Out] = told]  q == [pend EXCEPT ![N] = rest]
<1>1. /\ Types(seen, pend) /\ SourceInv /\ Made(seen, pend, 1) = RowsTo(next - 1)
      /\ Channels(pend) /\ Works(seen, pend) /\ Errors(seen) /\ Breaks(seen)
  BY DEF Flow
<1>2. /\ told \in Seq(Rows) /\ rest \in Seq(Rows) /\ told \o rest = seen[Out] \o pend[N]
      /\ out' = [out EXCEPT ![N] = Tail(@)] /\ \A m \in Nodes : pc'[m] = pc[m]
      /\ UNCHANGED <<kind, next, kept, stop, left>>
      /\ pc'[Out] \in {"receive", "ended"} /\ opened' \in {"no", "yes"}
      /\ failed' \in BOOLEAN /\ written' = told
      /\ Channel(Tail(out[N]), rest, Past(N), Past(Out)')
      /\ failed \/ out[N] = <<ErrorRecord>> <=> failed' \/ Tail(out[N]) = <<ErrorRecord>>
  BY DEF OutMoves
<1>3. /\ DOMAIN out = 0 .. N /\ Out \in 2 .. Out /\ N \in Nodes /\ N \in 0 .. N
      /\ 0 \in 0 .. N /\ N # 0 /\ N + 1 = Out
      /\ 1 \in Nodes
      /\ \A m \in 2 .. N : m \in 2 .. Out /\ m # Out /\ m \in Nodes
      /\ \A m \in Nodes : m + 1 \in 2 .. Out /\ m \in 0 .. N /\ (m # N => m + 1 \in Nodes /\ m + 1 # Out)
  BY NodeRange DEF Inductive, Shape, Nodes
<1>4. /\ s \in [2 .. Out -> Seq(Rows)] /\ s[Out] = told /\ \A m \in 2 .. N : s[m] = seen[m]
      /\ \A m \in 2 .. Out : m # Out => s[m] = seen[m]
      /\ q \in [Nodes -> Seq(Rows)] /\ q[N] = rest /\ \A m \in Nodes : m # N => q[m] = pend[m]
  BY <1>1, <1>2, <1>3 DEF Types
<1>5. /\ out'[N] = Tail(out[N]) /\ \A m \in 0 .. N : m # N => out'[m] = out[m]
  BY <1>2, <1>3
<1> HIDE DEF s, q
<1>6. \A m \in Nodes : Past(m)' <=> Past(m)
  BY <1>2 DEF Past
<1>7. ASSUME NEW m \in Nodes PROVE Made(s, q, m) = Made(seen, pend, m)
  <2>1. CASE m = N
    BY <1>2, <1>3, <1>4, <2>1 DEF Made
  <2>2. CASE m # N
    BY <1>3, <1>4, <2>2 DEF Made
  <2> QED
    BY <2>1, <2>2
<1>8. Types(s, q)'
  BY <1>1, <1>2, <1>3, <1>4 DEF Types
<1>9. SourceInv'
  <2>1. out'[0] = out[0] /\ pc'[1] = pc[1] /\ (Past(1)' <=> Past(1))
    BY <1>2, <1>3, <1>5, <1>6
  <2> QED
    BY <1>1, <1>2, <2>1 DEF SourceInv
<1>10. Made(s, q, 1)' = RowsTo(next' - 1)
  <2>1. Made(s, q, 1) = Made(seen, pend, 1)
    BY <1>3, <1>7
  <2> QED
    BY <1>1, <1>2, <2>1 DEF Made
<1>11. Channels(q)'
  <2>1. ASSUME NEW m \in Nodes PROVE Channel(out'[m], q[m], Past(m)', Past(m + 1)')
    <3>1. CASE m = N
      <4>1. Channel(out'[N], q[N], Past(N)', Past(Out)')
        BY <1>2, <1>3, <1>4, <1>5, <1>6 DEF Channel
      <4> QED
        BY <1>3, <3>1, <4>1
    <3>2. CASE m # N
      <4>1. m + 1 \in Nodes /\ m \in 0 .. N
        BY <1>3, <3>2
      <4>2. Channel(out[m], pend[m], Past(m), Past(m + 1))
        BY <1>1 DEF Channels
      <4> QED
        BY <1>4, <1>5, <1>6, <3>2, <4>1, <4>2 DEF Channel
    <3> QED
      BY <3>1, <3>2
  <2> QED
    BY <2>1 DEF Channels
<1>12. Works(s, q)'
  <2>1. ASSUME NEW m \in 2 .. N PROVE Work(kind'[m], s[m], kept'[m], Past(m)', Made(s, q, m)')
    <3>1. m \in Nodes /\ Made(s, q, m)' = Made(seen, pend, m)
      BY <1>3, <1>7 DEF Made
    <3> QED
      BY <1>1, <1>2, <1>4, <1>6, <3>1 DEF Works, Work
  <2> QED
    BY <2>1 DEF Works
<1>13. Wrote(s)' /\ Breaks(s)'
  BY <1>1, <1>2, <1>4 DEF Wrote, Breaks
<1>14. Errors(s)'
  <2>1. ErrorTold' <=> ErrorTold
    <3>1. (\E m \in Nodes : out[m] = <<ErrorRecord>>) <=>
            out[N] = <<ErrorRecord>> \/ \E m \in Nodes : m # N /\ out[m] = <<ErrorRecord>>
      BY <1>3
    <3>2. (\E m \in Nodes : out'[m] = <<ErrorRecord>>) <=>
            Tail(out[N]) = <<ErrorRecord>> \/ \E m \in Nodes : m # N /\ out[m] = <<ErrorRecord>>
      BY <1>3, <1>5
    <3> QED
      BY <1>2, <3>1, <3>2 DEF ErrorTold
  <2> QED
    BY <1>1, <1>2, <1>4, <2>1 DEF Errors
<1> QED
  BY <1>8, <1>9, <1>10, <1>11, <1>12, <1>13, <1>14 DEF Flow

\* What the output knows when it is told something.
LEMMA OutTold ==
  ASSUME Inductive, NEW seen, NEW pend, Flow(seen, pend), Sent(Out)
  PROVE  /\ DOMAIN pc = 1 .. Out /\ Out \in 1 .. Out /\ N \in Nodes /\ N + 1 = Out
         /\ \A m \in Nodes : m \in 1 .. Out /\ m # Out
         /\ pc[Out] = "receive" /\ ~Past(Out) /\ out[N] # <<>> /\ Told(Out) = Head(out[N])
         /\ seen[Out] \in Seq(Rows) /\ pend[N] \in Seq(Rows)
         /\ Channel(out[N], pend[N], Past(N), Past(N + 1))
         /\ opened \in {"no", "yes"} /\ written = seen[Out] /\ failed \in BOOLEAN /\ stop \in BOOLEAN
<1>1. Types(seen, pend) /\ Channels(pend) /\ Wrote(seen)
  BY DEF Flow
<1>2. /\ Out \in 1 .. Out /\ Out \in 2 .. Out /\ N \in Nodes /\ N + 1 = Out /\ Out - 1 = N
      /\ \A m \in Nodes : m \in 1 .. Out /\ m # Out
  BY NodeRange DEF Nodes
<1>3. pc[Out] = "receive" /\ ~Past(Out) /\ out[N] # <<>> /\ Told(Out) = Head(out[N])
  BY <1>2 DEF Sent, Told, Past
<1>4. seen[Out] \in Seq(Rows) /\ pend[N] \in Seq(Rows) /\ failed \in BOOLEAN /\ stop \in BOOLEAN
  BY <1>1, <1>2 DEF Types
<1>5. Channel(out[N], pend[N], Past(N), Past(N + 1))
  BY <1>1, <1>2 DEF Channels
<1> QED
  BY <1>1, <1>2, <1>3, <1>4, <1>5 DEF Wrote, Inductive, Shape

LEMMA WriteFlows ==
  ASSUME Inductive, NEW seen, NEW pend, Flow(seen, pend), OutRow, opened' # "failed"
  PROVE  \E s, q : Flow(s, q)'
<1> DEFINE r == Head(pend[N])  rest == Tail(pend[N])  told == Append(seen[Out], r)
<1>1. /\ Sent(Out) /\ Told(Out).key = "row"
      /\ out' = [out EXCEPT ![N] = Tail(@)] /\ UNCHANGED <<kind, pc, next, kept, left>>
  BY DEF OutRow
<1>2. /\ DOMAIN pc = 1 .. Out /\ Out \in 1 .. Out /\ N \in Nodes /\ N + 1 = Out
      /\ \A m \in Nodes : m \in 1 .. Out /\ m # Out
      /\ pc[Out] = "receive" /\ ~Past(Out) /\ out[N] # <<>> /\ Told(Out) = Head(out[N])
      /\ seen[Out] \in Seq(Rows) /\ pend[N] \in Seq(Rows)
      /\ Channel(out[N], pend[N], Past(N), Past(N + 1))
      /\ opened \in {"no", "yes"} /\ written = seen[Out] /\ failed \in BOOLEAN /\ stop \in BOOLEAN
  BY <1>1, OutTold
<1>3. /\ pend[N] # <<>> /\ Told(Out).row = r /\ r \in Rows /\ rest \in Seq(Rows)
      /\ Channel(Tail(out[N]), rest, Past(N), FALSE)
      /\ out[N] # <<ErrorRecord>> /\ Tail(out[N]) # <<ErrorRecord>>
  BY <1>1, <1>2, ToldRow
<1>4. opened' = "yes"
  BY <1>2 DEF OutRow
<1>5. written' = told /\ failed' = failed /\ stop' = stop
  BY <1>2, <1>3, <1>4 DEF OutRow
<1>6. told \in Seq(Rows) /\ told \o rest = seen[Out] \o pend[N]
  <2>1. \A s, t \in Seq(Rows) : t # <<>> => Append(s, Head(t)) \o Tail(t) = s \o t
    BY HeadMoves
  <2>2. \A s \in Seq(Rows) : \A x \in Rows : Append(s, x) \in Seq(Rows)
    OBVIOUS
  <2> QED
    BY <1>2, <1>3, <2>1, <2>2
<1>7. Past(Out)' <=> FALSE
  BY <1>1, <1>2 DEF Past
<1> HIDE DEF told, rest, r
<1>8. Channel(Tail(out[N]), rest, Past(N), Past(Out)')
  BY <1>3, <1>7 DEF Channel
<1>9. OutMoves(seen, pend, told, rest)
  BY <1>1, <1>2, <1>3, <1>4, <1>5, <1>6, <1>8 DEF OutMoves
<1> QED
  BY <1>9, OutFlow

LEMMA OutErrorFlows ==
  ASSUME Inductive, NEW seen, NEW pend, Flow(seen, pend), OutError
  PROVE  \E s, q : Flow(s, q)'
<1>1. /\ Sent(Out) /\ Told(Out).key = "error" /\ out' = [out EXCEPT ![N] = Tail(@)] /\ failed' = TRUE
      /\ UNCHANGED <<kind, pc, next, kept, stop, opened, written, left>>
  BY DEF OutError
<1>2. /\ DOMAIN pc = 1 .. Out /\ Out \in 1 .. Out /\ N \in Nodes /\ N + 1 = Out
      /\ \A m \in Nodes : m \in 1 .. Out /\ m # Out
      /\ pc[Out] = "receive" /\ ~Past(Out) /\ out[N] # <<>> /\ Told(Out) = Head(out[N])
      /\ seen[Out] \in Seq(Rows) /\ pend[N] \in Seq(Rows)
      /\ Channel(out[N], pend[N], Past(N), Past(N + 1))
      /\ opened \in {"no", "yes"} /\ written = seen[Out] /\ failed \in BOOLEAN /\ stop \in BOOLEAN
  BY <1>1, OutTold
<1>3. ~Past(N) /\ pend[N] = <<>> /\ Tail(out[N]) = <<>> /\ out[N] = <<ErrorRecord>>
  BY <1>1, <1>2, ToldError
<1>4. Past(Out)' <=> FALSE
  BY <1>1, <1>2 DEF Past
<1>5. Channel(Tail(out[N]), pend[N], Past(N), Past(Out)')
  BY <1>3, <1>4, NoRecords DEF Channel
<1>6. OutMoves(seen, pend, seen[Out], pend[N])
  BY <1>1, <1>2, <1>3, <1>5 DEF OutMoves
<1> QED
  BY <1>6, OutFlow

LEMMA OutEofFlows ==
  ASSUME Inductive, NEW seen, NEW pend, Flow(seen, pend), OutEof
  PROVE  \E s, q : Flow(s, q)'
<1>1. /\ Sent(Out) /\ Told(Out).key = "eof"
      /\ out' = [out EXCEPT ![N] = Tail(@)] /\ pc' = [pc EXCEPT ![Out] = "ended"]
      /\ UNCHANGED <<kind, next, kept, stop, opened, written, failed, left>>
  BY DEF OutEof
<1>2. /\ DOMAIN pc = 1 .. Out /\ Out \in 1 .. Out /\ N \in Nodes /\ N + 1 = Out
      /\ \A m \in Nodes : m \in 1 .. Out /\ m # Out
      /\ pc[Out] = "receive" /\ ~Past(Out) /\ out[N] # <<>> /\ Told(Out) = Head(out[N])
      /\ seen[Out] \in Seq(Rows) /\ pend[N] \in Seq(Rows)
      /\ Channel(out[N], pend[N], Past(N), Past(N + 1))
      /\ opened \in {"no", "yes"} /\ written = seen[Out] /\ failed \in BOOLEAN /\ stop \in BOOLEAN
  BY <1>1, OutTold
<1>3. Past(N) /\ pend[N] = <<>> /\ Tail(out[N]) = <<>> /\ out[N] # <<ErrorRecord>>
  BY <1>1, <1>2, ToldEof
<1>4. pc'[Out] = "ended" /\ \A m \in Nodes : pc'[m] = pc[m]
  BY <1>1, <1>2
<1>5. Past(Out)' <=> TRUE
  BY <1>4 DEF Past
<1>6. Channel(Tail(out[N]), pend[N], Past(N), Past(Out)')
  BY <1>3, <1>5 DEF Channel
<1>7. <<>> # <<ErrorRecord>>
  OBVIOUS
<1>8. OutMoves(seen, pend, seen[Out], pend[N])
  BY <1>1, <1>2, <1>3, <1>4, <1>6, <1>7 DEF OutMoves
<1> QED
  BY <1>8, OutFlow

\* While the context lasts, the channel of the output is not closed under it.
LEMMA OutStays ==
  ASSUME Inductive, NEW seen, NEW pend, Flow(seen, pend), ~ctxDone, OutEnds
  PROVE  FALSE
<1>1. pc[Out] = "receive" /\ Out <= stopAt
  BY DEF OutEnds
<1>2. N \in Nodes /\ N + 1 = Out /\ Out - 1 = N /\ Out \in 1 .. Out /\ Out > 1
  BY NodeRange
<1>3. out[N] = <<>> /\ pc[N] = "ended"
  BY <1>1, <1>2 DEF Inductive, NoSendOnClosed
<1>4. Channel(out[N], pend[N], Past(N), Past(N + 1)) /\ pend[N] \in Seq(Rows)
  BY <1>2 DEF Flow, Channels, Types
<1>5. Past(N) <=> Past(N + 1)
  BY <1>2, <1>3, <1>4, NothingToTell
<1> QED
  BY <1>1, <1>2, <1>3, <1>5 DEF Past
-----------------------------------------------------------------------------
(* All steps, and the end *)

LEMMA InitFlow == ASSUME Init PROVE FlowInv
<1> DEFINE nothing == <<>>  s == [n \in 2 .. Out |-> nothing]  q == [n \in Nodes |-> nothing]
<1>1. /\ nothing \in Seq(Rows) /\ nothing \o nothing = nothing /\ RowRecords(nothing) = nothing
      /\ nothing # <<ErrorRecord>> /\ \A k : Stage(k, nothing) = nothing
      /\ RowsTo(0) = nothing /\ DOMAIN nothing = {}
  <2>1. RowsTo(0) = nothing
    BY DEF RowsTo
  <2> QED
    BY <2>1, NoRecords, StageNothing
<1>2. /\ kind \in [2 .. N -> Kinds] /\ next = 1 /\ kept = [n \in 2 .. N |-> nothing] /\ stop = FALSE
      /\ opened = "no" /\ written = nothing /\ failed = FALSE
      /\ out = [n \in 0 .. N |-> IF n = 0 THEN <<FirstRecord, EofRecord>> ELSE nothing]
      /\ pc = [n \in 1 .. Out |-> "receive"]
  BY DEF Init
<1>3. /\ N \in Nat /\ NumRows \in Nat /\ 1 \in Nodes /\ Out \in 2 .. Out
      /\ Out \in 1 .. Out /\ 1 \in 1 .. Out /\ 0 \in 0 .. N
      /\ \A m \in 2 .. N : m \in 2 .. Out /\ m \in Nodes /\ m \in 1 .. Out
      /\ \A m \in Nodes : m + 1 \in 2 .. Out /\ m + 1 \in 1 .. Out /\ m \in 0 .. N /\ m \in 1 .. Out /\ m # 0
  BY NodeRange DEF Nodes
<1> HIDE DEF nothing
<1>4. /\ s \in [2 .. Out -> Seq(Rows)] /\ q \in [Nodes -> Seq(Rows)]
      /\ \A m \in Nodes : q[m] = nothing /\ s[m + 1] = nothing /\ Made(s, q, m) = nothing
      /\ \A m \in 2 .. Out : s[m] = nothing
  BY <1>1, <1>3 DEF Made
<1> HIDE DEF s, q
<1>5. /\ out[0] = <<FirstRecord, EofRecord>> /\ \A m \in Nodes : out[m] = nothing
      /\ \A m \in 1 .. Out : pc[m] = "receive" /\ ~Past(m)
  BY <1>2, <1>3 DEF Past
<1>6. Types(s, q)
  BY <1>1, <1>2, <1>3, <1>4, <1>5 DEF Types
<1>7. SourceInv /\ Made(s, q, 1) = RowsTo(next - 1)
  <2>1. SourceInv
    <3>1. next = 1 /\ next \in 1 .. NumRows + 1
      BY <1>2, <1>3
    <3>2. out[0] = <<FirstRecord, EofRecord>> /\ pc[1] = "receive"
      BY <1>3, <1>5
    <3> QED
      BY <3>1, <3>2 DEF SourceInv
  <2>2. next - 1 = 0
    BY <1>2
  <2>3. RowsTo(next - 1) = nothing
    BY <1>1, <2>2
  <2> QED
    BY <1>3, <1>4, <2>1, <2>3
<1>8. Channels(q)
  BY <1>1, <1>3, <1>4, <1>5 DEF Channels, Channel
<1>9. Works(s, q)
  <2>1. ASSUME NEW m \in 2 .. N PROVE Work(kind[m], s[m], kept[m], Past(m), Made(s, q, m))
    <3>1. s[m] = nothing /\ kept[m] = nothing /\ Made(s, q, m) = nothing /\ ~Past(m)
      BY <1>2, <1>3, <1>4, <1>5
    <3>2. Work(kind[m], nothing, nothing, FALSE, nothing)
      BY <1>1 DEF Work, nothing
    <3> QED
      BY <3>1, <3>2 DEF Work
  <2> QED
    BY <2>1 DEF Works
<1>10. Wrote(s) /\ Breaks(s)
  BY <1>2, <1>3, <1>4 DEF Wrote, Breaks
<1>11. Errors(s)
  BY <1>1, <1>2, <1>3, <1>4, <1>5 DEF Errors, ErrorTold, FailedOn
<1>12. Flow(s, q)
  BY <1>6, <1>7, <1>8, <1>9, <1>10, <1>11 DEF Flow
<1> QED
  BY <1>12 DEF FlowInv

\* Nothing goes right again.
LEMMA StaysDisturbed == ASSUME [Next]_vars, Undisturbed' PROVE Undisturbed
<1>1. ASSUME NEW n \in Nodes, NodeStep(n) PROVE Undisturbed
  BY <1>1 DEF NodeStep, NodeRow, NodeError, NodeEof, NodeEnds, NodePanics, Undisturbed
<1>2. CASE OutStep
  <2>1. CASE OutRow
    BY <2>1 DEF OutRow, Undisturbed
  <2> QED
    BY <1>2, <2>1 DEF OutStep, OutError, OutEof, OutEnds, Undisturbed
<1>3. ASSUME NEW n \in 0 .. N, GiveUp(n) PROVE Undisturbed
  BY <1>3 DEF GiveUp, Undisturbed
<1>4. CASE SourceStart \/ SourceRow \/ StopNext
  BY <1>4 DEF SourceStart, SourceRow, StopNext, Undisturbed
<1>5. CASE Cancel \/ ContextDone \/ AfterContext
  BY <1>5 DEF Cancel, ContextDone, AfterContext, Undisturbed
<1>6. CASE UNCHANGED vars
  BY <1>6 DEF vars, Undisturbed
<1> QED
  BY <1>1, <1>2, <1>3, <1>4, <1>5, <1>6 DEF Next

LEMMA NodeStepFlows ==
  ASSUME Inductive, NEW seen, NEW pend, Flow(seen, pend), NEW n \in Nodes, NodeStep(n),
         Undisturbed, Undisturbed'
  PROVE  \E s, q : Flow(s, q)'
<1>1. CASE NodeEnds(n)
  BY <1>1, EndFlows DEF Undisturbed
<1>2. CASE NodePanics(n)
  BY <1>2 DEF NodePanics, Undisturbed
<1>3. CASE n # 1 /\ ~NodeEnds(n) /\ ~NodePanics(n)
  <2>1. n \in 2 .. N
    BY <1>3, NodeRange
  <2> QED
    BY <1>3, <2>1, RowFlows, ErrorFlows, EofFlows DEF NodeStep
<1>4. CASE n = 1 /\ ~NodeEnds(n) /\ ~NodePanics(n)
  <2>1. ~NodeRow(1)
    BY NodeRange DEF NodeRow
  <2>2. ASSUME NodeError(1) PROVE FALSE
    <3>1. out[0] # <<>> /\ Head(out[0]).key = "error"
      BY <2>2 DEF NodeError, Sent, Told
    <3>2. Head(<<FirstRecord, EofRecord>>).key = "first" /\ Head(<<EofRecord>>).key = "eof"
      BY MessageKeys
    <3> QED
      BY <3>1, <3>2 DEF Flow, SourceInv
  <2> QED
    BY <1>4, <2>1, <2>2, SourceEnds DEF NodeStep
<1> QED
  BY <1>1, <1>2, <1>3, <1>4

LEMMA NextFlow == ASSUME Inductive, FlowInv, [Next]_vars PROVE FlowInv'
<1> SUFFICES ASSUME Undisturbed' PROVE (\E s, q : Flow(s, q))'
  BY DEF FlowInv
<1>1. Undisturbed
  BY StaysDisturbed
<1>2. PICK seen, pend : Flow(seen, pend)
  BY <1>1 DEF FlowInv
<1>3. Types(seen, pend) /\ SourceInv
  BY <1>2 DEF Flow
<1>4. ASSUME NEW n \in Nodes, NodeStep(n) PROVE \E s, q : Flow(s, q)'
  BY <1>1, <1>2, <1>4, NodeStepFlows
<1>5. CASE SourceStart
  BY <1>2, <1>5, StartFlows
<1>6. CASE SourceRow
  BY <1>2, <1>6, ProduceFlows
<1>7. ASSUME NEW n \in 0 .. N, GiveUp(n) PROVE FALSE
  BY <1>1, <1>7 DEF GiveUp, Undisturbed
<1>8. CASE OutStep
  <2>1. CASE OutRow
    BY <1>2, <2>1, WriteFlows DEF Undisturbed
  <2>2. CASE OutError
    BY <1>2, <2>2, OutErrorFlows
  <2>3. CASE OutEof
    BY <1>2, <2>3, OutEofFlows
  <2>4. CASE OutEnds
    BY <1>1, <1>2, <2>4, OutStays DEF Undisturbed
  <2> QED
    BY <1>8, <2>1, <2>2, <2>3, <2>4 DEF OutStep
<1>9. CASE StopNext \/ Cancel \/ UNCHANGED vars
  <2>1. /\ UNCHANGED <<kind, out, pc, next, kept, opened, written, failed>>
        /\ stop' \in BOOLEAN /\ (stop => stop') /\ (stop' /\ ~left' => stop /\ ~left)
    <3>1. stop \in BOOLEAN
      BY <1>3 DEF Types
    <3>2. CASE StopNext
      BY <3>1, <3>2 DEF StopNext
    <3>3. CASE Cancel
      BY <3>1, <3>3 DEF Cancel
    <3>4. CASE UNCHANGED vars
      BY <3>1, <3>4 DEF vars
    <3> QED
      BY <1>9, <3>2, <3>3, <3>4
  <2>2. \A m \in 1 .. Out : Past(m)' <=> Past(m)
    BY <2>1 DEF Past
  <2>3. /\ pc'[1] \in {"receive", "produce", "last", "ended"} /\ pc'[Out] \in {"receive", "ended"}
        /\ \A m \in 2 .. N : pc'[m] \in {"receive", "last", "ended"}
        /\ pc'[1] = "produce" <=> pc[1] = "produce"
    BY <1>3, <2>1 DEF Types, SourceInv
  <2>4. Flow(seen, pend)'
    BY <1>2, <2>1, <2>2, <2>3, SameFlow
  <2> QED
    BY <2>4
<1>10. CASE ContextDone \/ AfterContext
  BY <1>1, <1>10 DEF ContextDone, AfterContext, Undisturbed
<1> QED
  BY <1>4, <1>5, <1>6, <1>7, <1>8, <1>9, <1>10 DEF Next

\* When all have ended, everybody has made all of what the one before it made.
LEMMA FlowEnds ==
  ASSUME Inductive, NEW seen, NEW pend, Flow(seen, pend), Finished
  PROVE  /\ \A n \in Nodes : out[n] = <<>> /\ pend[n] = <<>>
         /\ out[0] = <<>> /\ \A n \in Nodes : seen[n + 1] = Results(RowsTo(next - 1))[n]
<1>1. /\ Types(seen, pend) /\ Made(seen, pend, 1) = RowsTo(next - 1)
      /\ Channels(pend) /\ Works(seen, pend) /\ SourceInv
  BY DEF Flow
<1>2. stopAt = Out + 1 /\ \A n \in 1 .. Out : n <= stopAt
  BY NodeRange DEF Finished
<1>3. out[0] = <<>> /\ \A n \in Nodes : out[n] = <<>> /\ pc[n] = "ended"
  <2>1. \A n \in 1 .. Out : out[n - 1] = <<>> /\ (n > 1 => pc[n - 1] = "ended")
    BY <1>2 DEF Inductive, NoSendOnClosed
  <2>2. 1 \in 1 .. Out /\ 1 - 1 = 0
    BY NodeRange
  <2>3. \A n \in Nodes : n + 1 \in 1 .. Out /\ (n + 1) - 1 = n /\ n + 1 > 1
    BY NodeRange DEF Nodes
  <2>4. out[0] = <<>>
    BY <2>1, <2>2
  <2> QED
    BY <2>1, <2>3, <2>4
<1>4. \A n \in Nodes : pend[n] \in Seq(Rows) /\ seen[n + 1] \in Seq(Rows)
  BY <1>1, NodeRange DEF Types
<1>5. \A n \in Nodes : pend[n] = <<>> /\ Past(n)
  BY <1>1, <1>3, <1>4, NothingToTell DEF Channels, Past
<1>6. \A n \in Nodes : Made(seen, pend, n) = seen[n + 1]
  <2>1. \A s \in Seq(Rows) : s \o <<>> = s
    BY ConcatEmptySeq
  <2> QED
    BY <1>4, <1>5, <2>1 DEF Made
<1> DEFINE flow == [n \in Nodes |-> seen[n + 1]]  rs == RowsTo(next - 1)
<1>7. rs \in Seq(Nat)
  <2>1. next - 1 \in Nat
    BY <1>1, NodeRange DEF SourceInv
  <2> QED
    BY <2>1 DEF RowsTo
<1>8. flow[1] = rs
  BY <1>1, <1>6, NodeRange
<1>9. ASSUME NEW n \in 2 .. N PROVE flow[n] = Stage(kind[n], flow[n - 1])
  <2>1. n \in Nodes /\ n - 1 \in Nodes /\ (n - 1) + 1 = n
    BY NodeRange
  <2>2. Stage(kind[n], seen[n]) = Made(seen, pend, n)
    BY <1>1, <1>5, <2>1 DEF Works, Work
  <2> QED
    BY <1>6, <2>1, <2>2
<1> HIDE DEF flow, rs
<1>10. \A n \in Nodes : flow[n] = Results(rs)[n]
  BY <1>7, <1>8, <1>9, ResultsAre
<1> QED
  BY <1>3, <1>5, <1>10 DEF flow, rs

LEMMA FlowComplete == ASSUME Inductive, FlowInv PROVE ResultComplete
<1> SUFFICES ASSUME Finished, ~ctxDone, ~panicked, opened # "failed"
             PROVE  /\ written = Results(RowsTo(next - 1))[N]
                    /\ ~left => written = Results(RowsTo(NumRows))[N]
                    /\ failed <=> Fails(RowsTo(next - 1))
  BY DEF ResultComplete
<1>1. PICK seen, pend : Flow(seen, pend)
  BY DEF FlowInv, Undisturbed
<1> DEFINE rs == RowsTo(next - 1)  all == RowsTo(NumRows)
<1>2. /\ \A n \in Nodes : out[n] = <<>> /\ pend[n] = <<>>
      /\ out[0] = <<>> /\ \A n \in Nodes : seen[n + 1] = Results(rs)[n]
  BY <1>1, FlowEnds
<1>3. Types(seen, pend) /\ SourceInv /\ Wrote(seen) /\ Errors(seen) /\ Breaks(seen)
  BY <1>1 DEF Flow
<1>4. /\ rs \in Seq(Nat) /\ all \in Seq(Nat) /\ StartsWith(all, rs)
      /\ next > NumRows => rs = all
  <2>1. next \in 1 .. NumRows + 1 /\ NumRows \in Nat
    BY <1>3, NodeRange DEF SourceInv
  <2> DEFINE k == next - 1
  <2>2. k \in Nat /\ k <= NumRows /\ (next > NumRows => k = NumRows)
    BY <2>1
  <2> HIDE DEF k
  <2>3. RowsTo(k) \in Seq(Nat) /\ all \in Seq(Nat) /\ Len(RowsTo(k)) = k /\ Len(all) = NumRows
        /\ \A i \in 1 .. k : RowsTo(k)[i] = all[i]
    BY <2>1, <2>2 DEF RowsTo
  <2>4. StartsWith(all, RowsTo(k)) /\ (next > NumRows => RowsTo(k) = all)
    BY <2>2, <2>3 DEF StartsWith
  <2> QED
    BY <2>3, <2>4 DEF k
<1> HIDE DEF rs, all
<1>5. written = Results(rs)[N]
  BY <1>2, <1>3, NodeRange DEF Wrote
<1>6. ASSUME ~left PROVE written = Results(all)[N]
  <2>1. stop \/ next > NumRows
    <3>1. <<FirstRecord, EofRecord>> # <<>> /\ <<EofRecord>> # <<>>
      OBVIOUS
    <3> QED
      BY <1>2, <1>3, <3>1 DEF SourceInv
  <2>2. CASE next > NumRows
    BY <1>4, <1>5, <2>2
  <2>3. CASE stop
    <3>1. PICK m \in 2 .. N : kind[m] = "take" /\ Len(seen[m]) > Limit
      BY <1>3, <1>6, <2>3 DEF Breaks
    <3>2. m - 1 \in Nodes /\ (m - 1) + 1 = m /\ m \in 2 .. Out
      BY NodeRange
    <3>3. seen[m] = Results(rs)[m - 1] /\ seen[m] \in Seq(Rows)
      BY <1>2, <1>3, <3>2 DEF Types
    <3>4. Len(Results(rs)[m - 1]) >= Limit
      <4>1. Len(seen[m]) \in Nat /\ Limit \in Nat
        BY <3>3, PipelineAssumption DEF PipelineAssumption
      <4> QED
        BY <3>1, <3>3, <4>1
    <3>5. kind \in [2 .. N -> Kinds]
      BY <1>3 DEF Types
    <3>6. Results(all)[N] = Results(rs)[N]
      BY <1>4, <3>1, <3>4, <3>5, ResultsFull
    <3> QED
      BY <1>5, <3>6
  <2> QED
    BY <2>1, <2>2, <2>3
<1>7. failed <=> Fails(rs)
  <2>1. \A n \in 2 .. N : seen[n] = Results(rs)[n - 1]
    BY <1>2, NodeRange
  <2>2. <<>> # <<ErrorRecord>>
    OBVIOUS
  <2>3. failed <=> ErrorTold
    BY <1>2, <2>2 DEF ErrorTold
  <2> QED
    BY <1>3, <2>1, <2>3 DEF Errors, FailedOn, Fails
<1> QED
  BY <1>5, <1>6, <1>7 DEF rs, all

\* Whatever maps a script consists of, and however many, the answer is what
\* they make of the rows that left the source, and of all rows unless the
\* client went away: a circuit break of a TAKE keeps nothing that the maps
\* before it have told from the ones behind it (task_node.go:215).
THEOREM ResultIsComplete == Spec => []ResultComplete
<1>1. Init => Inductive /\ FlowInv
  BY InitInductive, InitFlow
<1>2. Inductive /\ FlowInv /\ [Next]_vars => Inductive' /\ FlowInv'
  BY NextInductive, NextFlow
<1>3. Inductive /\ FlowInv => ResultComplete
  BY FlowComplete
<1> QED
  BY <1>1, <1>2, <1>3, PTL DEF Spec
=============================================================================
