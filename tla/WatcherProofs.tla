---------------------------- MODULE WatcherProofs ----------------------------
(***************************************************************************)
(* For any watcher, with any number of names, tokens and ticks: a row of a *)
(* tag table is reported once, rows of a log table without a gap, and of a *)
(* tag table Close does not close the channels while a task of executeTag  *)
(* may still send.                                                         *)
(***************************************************************************)
EXTENDS Watcher, FiniteSetTheorems, TLAPS

\* The tasks that hold a token.
Holding == {k \in tasks : k.at # "start"}

\* A task has the fields the argument speaks of, and never waits for a token twice.
Shape == \A k \in tasks : {"id", "at", "then"} \subseteq DOMAIN k /\ k.then # "start"

\* Tasks are told apart by their number.
Distinct == \A j, k \in tasks : j.id = k.id => j = k

\* Tokens are in the channel, with a task, or taken by Close: none is lost or made.
TokensKept ==
  /\ IsFiniteSet(Holding)
  /\ tokens \in Nat /\ drained \in Nat
  /\ tokens + drained + Cardinality(Holding) = watch.parallelism

ClosedDrained == closed = "closed" => drained = watch.parallelism

TagInv == Shape /\ Distinct /\ TokensKept /\ ClosedDrained /\ ~panicked

TokenInv == watch \in Watches /\ (IsTagTable => TagInv)

\* The number of tokens is a natural number.
LEMMA ParallelismNat == ASSUME watch \in Watches PROVE watch.parallelism \in Nat
<1>1. watch.names \in Seq(Range(watch.names))
  BY WatcherAssumption DEF WatcherAssumption
<1>2. Len(watch.names) \in Nat
  BY <1>1
<1>3. watch.parallelism \in 1..(IF watch.isTag THEN Len(watch.names) ELSE 1)
  BY WatcherAssumption DEF WatcherAssumption
<1> QED
  BY <1>2, <1>3

\* Initially all tokens are in the channel.
LEMMA InitTokenInv == Init => TokenInv
<1> SUFFICES ASSUME Init PROVE TokenInv
  OBVIOUS
<1>1. watch \in Watches /\ watch.parallelism \in Nat
  BY ParallelismNat DEF Init
<1>2. Holding = {}
  BY DEF Init, Holding
<1>3. IsFiniteSet(Holding) /\ Cardinality(Holding) = 0
  BY <1>2, FS_EmptySet
<1> QED
  BY <1>1, <1>3 DEF Init, TokenInv, TagInv, Shape, Distinct, TokensKept, ClosedDrained

\* SetToSeq lists the elements of a finite set without repetition.
LEMMA SetToSeqInjective ==
  ASSUME NEW S, IsFiniteSet(S)
  PROVE  /\ Cardinality(S) \in Nat
         /\ SetToSeq(S) \in [1..Cardinality(S) -> S]
         /\ IsInjective(SetToSeq(S))
<1>1. Cardinality(S) \in Nat /\ ExistsBijection(1..Cardinality(S), S)
  BY FS_CardinalityType
<1>2. PICK f : f \in Bijection(1..Cardinality(S), S)
  BY <1>1 DEF ExistsBijection
<1>3. f \in [1..Cardinality(S) -> S] /\ IsInjective(f)
  BY <1>2 DEF Bijection, Injection
<1> QED
  BY <1>1, <1>3 DEF SetToSeq

\* A task that holds a token and moves on goes on holding it.
LEMMA MovedHolds ==
  ASSUME Shape, Distinct, IsFiniteSet(Holding),
         NEW k \in tasks, k.at # "start",
         NEW new, {"id", "at", "then"} \subseteq DOMAIN new, new.id = k.id,
         new.at # "start", new.then # "start",
         Move(k, new)
  PROVE  /\ Shape' /\ Distinct'
         /\ IsFiniteSet(Holding') /\ Cardinality(Holding') = Cardinality(Holding)
<1>1. tasks' = (tasks \ {k}) \cup {new}
  BY DEF Move
<1>2. Shape'
  BY <1>1 DEF Shape
<1>3. Distinct'
  BY <1>1 DEF Distinct
<1> DEFINE others == Holding \ {k}
<1>4. /\ IsFiniteSet(others) /\ Cardinality(others) = Cardinality(Holding) - 1
      /\ Cardinality(Holding) \in Nat
  BY FS_RemoveElement, FS_CardinalityType DEF Holding
<1>5. new \notin others
  BY DEF Distinct, Holding
<1>6. Holding' = others \cup {new}
  BY <1>1 DEF Holding
<1>7. IsFiniteSet(others \cup {new}) /\ Cardinality(others \cup {new}) = Cardinality(others) + 1
  BY <1>4, <1>5, FS_AddElement
<1> QED
  BY <1>2, <1>3, <1>4, <1>6, <1>7

\* Nothing that is said here of a task depends on anything but its number and step.
LEMMA GoToHolds ==
  ASSUME Shape, Distinct, IsFiniteSet(Holding),
         NEW k \in tasks, k.at # "start", NEW at, at # "start",
         GoTo(k, at)
  PROVE  /\ Shape' /\ Distinct'
         /\ IsFiniteSet(Holding') /\ Cardinality(Holding') = Cardinality(Holding)
<1> DEFINE new == [k EXCEPT !.at = at]
<1>1. {"id", "at", "then"} \subseteq DOMAIN k /\ k.then # "start"
  BY DEF Shape
<1>2. {"id", "at", "then"} \subseteq DOMAIN new /\ new.id = k.id /\ new.at = at /\ new.then = k.then
  BY <1>1
<1>3. Move(k, new)
  BY DEF GoTo
<1> HIDE DEF new
<1> QED
  BY <1>1, <1>2, <1>3, MovedHolds

\* A step inside a query keeps the invariant.
LEMMA MoveInv ==
  ASSUME TokenInv, IsTagTable, NEW k \in tasks, k.at # "start",
         NEW new, {"id", "at", "then"} \subseteq DOMAIN new, new.id = k.id,
         new.at # "start", new.then # "start",
         Move(k, new), UNCHANGED <<watch, chanVars>>
  PROVE  TokenInv'
<1>1. Shape /\ Distinct /\ IsFiniteSet(Holding)
  BY DEF TokenInv, TagInv, TokensKept
<1>2. /\ Shape' /\ Distinct'
      /\ IsFiniteSet(Holding') /\ Cardinality(Holding') = Cardinality(Holding)
  BY <1>1, MovedHolds
<1> QED
  BY <1>2 DEF TokenInv, TagInv, TokensKept, ClosedDrained, IsTagTable, chanVars

\* So does a step that changes nothing but where the task is.
LEMMA GoToInv ==
  ASSUME TokenInv, IsTagTable, NEW k \in tasks, k.at # "start", NEW at, at # "start",
         GoTo(k, at), UNCHANGED <<watch, chanVars>>
  PROVE  TokenInv'
<1>1. Shape /\ Distinct /\ IsFiniteSet(Holding)
  BY DEF TokenInv, TagInv, TokensKept
<1>2. /\ Shape' /\ Distinct'
      /\ IsFiniteSet(Holding') /\ Cardinality(Holding') = Cardinality(Holding)
  BY <1>1, GoToHolds
<1> QED
  BY <1>2 DEF TokenInv, TagInv, TokensKept, ClosedDrained, IsTagTable, chanVars

\* A step that leaves the tasks and the tokens alone.
LEMMA IdleInv ==
  ASSUME TokenInv, UNCHANGED <<watch, tasks, tokens, drained, closed, panicked>>
  PROVE  TokenInv'
BY DEF TokenInv, TagInv, Shape, Distinct, TokensKept, Holding, ClosedDrained, IsTagTable

\* Execute starts tasks that differ from the others and hold no token.
LEMMA ExecuteInv ==
  ASSUME TokenInv, IsTagTable, Execute
  PROVE  TokenInv'
<1> DEFINE unused == {n \in 1..MaxTasks : \A k \in tasks : k.id # n}
           free == SetToSeq(unused)
           new == {NewTask(watch.names[i], free[i]) : i \in DOMAIN watch.names}
<1>1. /\ Len(watch.names) <= Len(free)
      /\ tasks' = tasks \cup new
      /\ UNCHANGED <<watch, chanVars>>
  BY DEF Execute, IsTagTable, dbVars
<1>2. IsFiniteSet(unused)
  <2>1. MaxTasks \in Nat
    BY WatcherAssumption DEF WatcherAssumption, MaxTasks
  <2>2. IsFiniteSet(1..MaxTasks)
    BY <2>1, FS_Interval
  <2> QED
    BY <2>2, FS_Subset
<1>3. /\ Cardinality(unused) \in Nat
      /\ free \in [1..Cardinality(unused) -> unused]
      /\ IsInjective(free)
  BY <1>2, SetToSeqInjective
<1>4. Len(free) = Cardinality(unused)
  BY <1>3
<1>5. watch \in Watches /\ watch.names \in Seq(Range(watch.names))
  BY WatcherAssumption DEF TokenInv, WatcherAssumption
<1>6. DOMAIN watch.names = 1..Len(watch.names) /\ Len(watch.names) \in Nat
  BY <1>5
<1>7. DOMAIN watch.names \subseteq DOMAIN free
  <2>1. DOMAIN free = 1..Cardinality(unused) /\ Len(watch.names) <= Cardinality(unused)
    BY <1>1, <1>3, <1>4
  <2> HIDE DEF free, unused
  <2> QED
    BY <1>3, <1>6, <2>1
<1>8. \A i \in DOMAIN watch.names : free[i] \in unused
  BY <1>3, <1>7
<1>9. \A i, j \in DOMAIN watch.names : free[i] = free[j] => i = j
  BY <1>3, <1>7 DEF IsInjective
<1> HIDE DEF free
<1>10. \A k \in new : /\ {"id", "at", "then"} \subseteq DOMAIN k
                      /\ k.then = "release" /\ k.at = "start" /\ k.id \in unused
  BY <1>8 DEF NewTask
<1>11. \A j, k \in new : j.id = k.id => j = k
  BY <1>9 DEF NewTask
<1> HIDE DEF new
<1>12. Shape /\ Distinct
  BY DEF TokenInv, TagInv
<1>13. Shape'
  BY <1>1, <1>10, <1>12 DEF Shape
<1>14. Distinct'
  BY <1>1, <1>10, <1>11, <1>12 DEF Distinct
<1>15. Holding' = Holding
  BY <1>1, <1>10 DEF Holding
<1> QED
  BY <1>1, <1>13, <1>14, <1>15 DEF TokenInv, TagInv, TokensKept, ClosedDrained, IsTagTable, chanVars

\* Close takes the tokens one by one.
LEMMA CloseInv ==
  ASSUME TokenInv, IsTagTable, CloseBegin \/ Drain \/ CloseChannels
  PROVE  TokenInv'
<1>1. Holding' = Holding /\ (Shape /\ Distinct => Shape' /\ Distinct')
  BY DEF Holding, Shape, Distinct, CloseBegin, Drain, CloseChannels
<1> USE <1>1 DEF TokenInv, TagInv, TokensKept, ClosedDrained, IsTagTable, dbVars
<1>2. CASE CloseBegin
  BY <1>2 DEF CloseBegin
<1>3. CASE Drain
  <2>1. tokens \in Nat /\ drained \in Nat /\ tokens > 0
    BY <1>3 DEF Drain
  <2>2. IsFiniteSet(Holding) => Cardinality(Holding) \in Nat
    BY FS_CardinalityType
  <2> QED
    BY <1>3, <2>1, <2>2 DEF Drain
<1>4. CASE CloseChannels
  BY <1>4 DEF CloseChannels
<1> QED
  BY <1>2, <1>3, <1>4

\* The token a task takes leaves the channel.
LEMMA AcquireInv ==
  ASSUME TokenInv, IsTagTable, NEW k \in tasks, Acquire(k)
  PROVE  TokenInv'
<1> DEFINE new == [k EXCEPT !.at = "query"]
<1>1. /\ k.at = "start" /\ tokens > 0 /\ tokens' = tokens - 1
      /\ tasks' = (tasks \ {k}) \cup {new}
      /\ UNCHANGED <<watch, drained, closed, panicked>>
  BY DEF Acquire, GoTo, Move, dbVars
<1>2. Shape /\ Distinct /\ TokensKept /\ ClosedDrained /\ ~panicked
  BY DEF TokenInv, TagInv
<1>3. {"id", "at", "then"} \subseteq DOMAIN k /\ k.then # "start"
  BY <1>2 DEF Shape
<1>4. {"id", "at", "then"} \subseteq DOMAIN new /\ new.id = k.id /\ new.at = "query" /\ new.then = k.then
  BY <1>3
<1> HIDE DEF new
<1>5. Shape'
  BY <1>1, <1>2, <1>3, <1>4 DEF Shape
<1>6. Distinct'
  BY <1>1, <1>2, <1>4 DEF Distinct
<1>7. new \notin Holding
  BY <1>1, <1>2, <1>4 DEF Distinct, Holding
<1>8. Holding' = Holding \cup {new}
  BY <1>1, <1>4 DEF Holding
<1>9. /\ IsFiniteSet(Holding \cup {new}) /\ Cardinality(Holding) \in Nat
      /\ Cardinality(Holding \cup {new}) = Cardinality(Holding) + 1
  BY <1>2, <1>7, FS_AddElement, FS_CardinalityType DEF TokensKept
<1>10. tokens' \in Nat
  BY <1>1, <1>2 DEF TokensKept
<1>11. TokensKept'
  BY <1>1, <1>2, <1>8, <1>9, <1>10 DEF TokensKept
<1> QED
  BY <1>1, <1>2, <1>5, <1>6, <1>11 DEF TokenInv, TagInv, ClosedDrained

\* A task that finds the channel closed ends without a token.
LEMMA AcquireClosedInv ==
  ASSUME TokenInv, IsTagTable, NEW k \in tasks, AcquireClosed(k)
  PROVE  TokenInv'
<1>1. k.at = "start" /\ tasks' = tasks \ {k} /\ UNCHANGED <<watch, chanVars>>
  BY DEF AcquireClosed, dbVars
<1>2. Holding' = Holding
  BY <1>1 DEF Holding
<1> QED
  BY <1>1, <1>2 DEF TokenInv, TagInv, Shape, Distinct, TokensKept, ClosedDrained, IsTagTable, chanVars

\* While a task holds a token, the channels are not closed.
LEMMA OpenWhileHeld ==
  ASSUME TokenInv, IsTagTable, NEW k \in tasks, k.at # "start"
  PROVE  closed # "closed"
<1>1. TokensKept /\ ClosedDrained /\ k \in Holding
  BY DEF TokenInv, TagInv, Holding
<1>2. Cardinality(Holding) \in Nat /\ Cardinality(Holding) # 0
  BY <1>1, FS_CardinalityType, FS_EmptySet DEF TokensKept
<1>3. watch.parallelism \in Nat
  BY ParallelismNat DEF TokenInv
<1> QED
  BY <1>1, <1>2, <1>3 DEF TokensKept, ClosedDrained

\* A report is sent on a channel that is open.
LEMMA SendInv ==
  ASSUME TokenInv, IsTagTable, NEW k \in tasks, Send(k)
  PROVE  TokenInv'
<1>1. k.at = "send" /\ closed # "closed"
  BY OpenWhileHeld DEF Send
<1>2. GoTo(k, k.then) /\ UNCHANGED <<watch, chanVars>>
  BY <1>1 DEF Send, dbVars, chanVars
<1>3. k.then # "start"
  BY DEF TokenInv, TagInv, Shape
<1> QED
  BY <1>1, <1>2, <1>3, GoToInv

\* The token goes back to the channel, and the task is gone.
LEMMA ReleaseInv ==
  ASSUME TokenInv, IsTagTable, NEW k \in tasks, Release(k)
  PROVE  TokenInv'
<1>1. k.at = "release" /\ closed # "closed"
  BY OpenWhileHeld DEF Release
<1>2. /\ tokens' = tokens + 1 /\ tasks' = tasks \ {k}
      /\ UNCHANGED <<watch, drained, closed, panicked>>
  BY <1>1 DEF Release, dbVars
<1>3. Holding' = Holding \ {k} /\ k \in Holding
  BY <1>1, <1>2 DEF Holding
<1>4. Shape /\ Distinct /\ TokensKept /\ ClosedDrained /\ ~panicked
  BY DEF TokenInv, TagInv
<1>5. /\ IsFiniteSet(Holding \ {k}) /\ Cardinality(Holding \ {k}) = Cardinality(Holding) - 1
      /\ Cardinality(Holding) \in Nat
  BY <1>3, <1>4, FS_RemoveElement, FS_CardinalityType DEF TokensKept
<1>6. TokensKept'
  BY <1>2, <1>3, <1>4, <1>5 DEF TokensKept
<1> QED
  BY <1>2, <1>4, <1>6 DEF TokenInv, TagInv, Shape, Distinct, ClosedDrained

\* An error is reported, or dropped with the token given back.
LEMMA FailInv ==
  ASSUME TokenInv, IsTagTable, NEW k \in tasks, Fail(k)
  PROVE  TokenInv'
<1>1. k.at # "start" /\ UNCHANGED <<watch, chanVars>>
  BY DEF Fail, dbVars
<1> DEFINE new == Say(k, Report("error", k.tag, k.time), "release")
<1>2. CASE Move(k, new)
  <2>1. {"id", "at", "then"} \subseteq DOMAIN k
    BY DEF TokenInv, TagInv, Shape
  <2>2. {"id", "at", "then"} \subseteq DOMAIN new /\ new.id = k.id /\ new.at = "send" /\ new.then = "release"
    BY <2>1 DEF Say
  <2> HIDE DEF new
  <2> QED
    BY <1>1, <1>2, <2>2, MoveInv
<1>3. CASE GoTo(k, "release")
  BY <1>1, <1>3, GoToInv
<1> QED
  BY <1>2, <1>3 DEF Fail

\* The queries of executeTag.
LEMMA TagQueryInv ==
  ASSUME TokenInv, IsTagTable, NEW k \in tasks, QueryTag(k) \/ Check(k) \/ FetchTag(k)
  PROVE  TokenInv'
<1>1. k.at # "start" /\ UNCHANGED <<watch, chanVars>>
  BY DEF QueryTag, Check, FetchTag, dbVars
<1>2. {"id", "at", "then"} \subseteq DOMAIN k /\ k.then # "start"
  BY DEF TokenInv, TagInv, Shape
<1>3. CASE QueryTag(k)
  <2> DEFINE new == [k EXCEPT !.at = "check", !.time = recent[k.tag]]
  <2>1. {"id", "at", "then"} \subseteq DOMAIN new /\ new.id = k.id /\ new.at = "check" /\ new.then = k.then
    BY <1>2
  <2>2. GoTo(k, "release") \/ Move(k, new)
    BY <1>3 DEF QueryTag
  <2> HIDE DEF new
  <2> QED
    BY <1>1, <1>2, <2>1, <2>2, GoToInv, MoveInv
<1>4. CASE Check(k)
  <2>1. GoTo(k, "fetch") \/ GoTo(k, "release")
    BY <1>4 DEF Check
  <2> QED
    BY <1>1, <2>1, GoToInv
<1>5. CASE FetchTag(k)
  <2> DEFINE new == Say(k, Report("row", k.tag, k.time), "release")
  <2>1. {"id", "at", "then"} \subseteq DOMAIN new /\ new.id = k.id /\ new.at = "send" /\ new.then = "release"
    BY <1>2 DEF Say
  <2>2. Move(k, new)
    BY <1>5 DEF FetchTag
  <2> HIDE DEF new
  <2> QED
    BY <1>1, <2>1, <2>2, MoveInv
<1> QED
  BY <1>3, <1>4, <1>5

\* The steps of executeLog are none of a tag table's tasks, but those that only
\* a log task reaches would keep the invariant as well.
LEMMA LogQueryInv ==
  ASSUME TokenInv, IsTagTable, NEW k \in tasks, QueryMax(k) \/ SelectRows(k) \/ NextRow(k)
  PROVE  TokenInv'
<1>1. k.at # "start" /\ UNCHANGED <<watch, chanVars>>
  BY DEF QueryMax, SelectRows, NextRow, dbVars
<1>2. {"id", "at", "then"} \subseteq DOMAIN k /\ k.then # "start"
  BY DEF TokenInv, TagInv, Shape
<1>3. CASE QueryMax(k)
  BY <1>3 DEF QueryMax
<1>4. CASE SelectRows(k)
  <2> DEFINE new == [k EXCEPT !.at = "rows", !.time = recent[Log]]
  <2>1. {"id", "at", "then"} \subseteq DOMAIN new /\ new.id = k.id /\ new.at = "rows" /\ new.then = k.then
    BY <1>2
  <2>2. Move(k, new)
    BY <1>4 DEF SelectRows
  <2> HIDE DEF new
  <2> QED
    BY <1>1, <1>2, <2>1, <2>2, MoveInv
<1>5. CASE NextRow(k)
  <2> DEFINE omit == Say(k, Report("omit", Log, 0), "release")
             row == Say([k EXCEPT !.rows = @ + 1], Report("row", Log, last[Log] + 1), "rows")
  <2>1. {"id", "at", "then"} \subseteq DOMAIN omit /\ omit.id = k.id /\ omit.at = "send" /\ omit.then = "release"
    BY <1>2 DEF Say
  <2>2. {"id", "at", "then"} \subseteq DOMAIN row /\ row.id = k.id /\ row.at = "send" /\ row.then = "rows"
    BY <1>2 DEF Say
  <2>3. GoTo(k, "release") \/ Move(k, omit) \/ Move(k, row)
    BY <1>5 DEF NextRow
  <2> HIDE DEF omit, row
  <2> QED
    BY <1>1, <2>1, <2>2, <2>3, GoToInv, MoveInv
<1> QED
  BY <1>3, <1>4, <1>5

\* Every step keeps the invariant.
LEMMA StepTokenInv == TokenInv /\ [Next]_vars => TokenInv'
<1> SUFFICES ASSUME TokenInv, [Next]_vars PROVE TokenInv'
  OBVIOUS
<1>1. UNCHANGED watch
  BY DEF Next, vars, Write, Execute, Receive, CloseBegin, Drain, CloseChannels, TaskStep,
         Acquire, AcquireClosed, Send, Release, QueryTag, Check, FetchTag,
         QueryMax, SelectRows, NextRow, Fail, dbVars
<1>2. CASE ~IsTagTable
  BY <1>1, <1>2 DEF TokenInv, IsTagTable
<1> SUFFICES ASSUME IsTagTable PROVE TokenInv'
  BY <1>2
<1>3. CASE UNCHANGED vars
  BY <1>3, IdleInv DEF vars
<1>4. ASSUME NEW g \in Watched, NEW time \in 1..MaxTime, Write(g, time) PROVE TokenInv'
  BY <1>4, IdleInv DEF Write, chanVars
<1>5. CASE Execute
  BY <1>5, ExecuteInv
<1>6. CASE Receive
  BY <1>6, IdleInv DEF Receive, dbVars, chanVars
<1>7. CASE CloseBegin \/ Drain \/ CloseChannels
  BY <1>7, CloseInv
<1>8. ASSUME NEW k \in tasks, TaskStep(k) PROVE TokenInv'
  BY <1>8, AcquireInv, AcquireClosedInv, SendInv, ReleaseInv, TagQueryInv, LogQueryInv DEF TaskStep
<1>9. ASSUME NEW k \in tasks, Fail(k) PROVE TokenInv'
  BY <1>9, FailInv
<1> QED
  BY <1>3, <1>4, <1>5, <1>6, <1>7, <1>8, <1>9 DEF Next

\* Close of a watcher (watch.go:74) waits for the goroutines of executeTag: none of
\* them sends on out or on parallelCh once they are closed.
THEOREM TagTasksEndFirstAlways == Spec => []TagTasksEndFirst
<1>1. TokenInv => TagTasksEndFirst
  BY DEF TokenInv, TagInv, TagTasksEndFirst
<1> QED
  BY <1>1, InitTokenInv, StepTokenInv, PTL DEF Spec
(***************************************************************************)
(* What is reported: of a tag table every row once, of a log table every   *)
(* row in its turn.                                                        *)
(***************************************************************************)
Reports == [kind : {"none", "row", "error", "omit"}, tag : Watched, time : Nat]

Steps ==
  {"start", "query", "send", "release"} \cup (IF IsTagTable THEN {"check", "fetch"} ELSE {"select", "rows"})
Thens == IF IsTagTable THEN {"release"} ELSE {"release", "rows"}

TaskRecords ==
  [tag : Watched, id : Nat, at : Steps, time : Nat, rows : Nat, report : Reports, then : Thens]

ReportType ==
  /\ watch \in Watches
  /\ recent \in [Watched -> Nat] /\ last \in [Watched -> Nat]
  /\ tasks \subseteq TaskRecords
  /\ received \in Seq(Reports) /\ out \in Seq(Reports)
  /\ \A k \in tasks : k.at = "send" => k.report.kind # "none"

SendsRow(k) == k.at = "send" /\ k.report.kind = "row"

\* The task has noted the time of a row and has still to report it.
Pending(k) == k.at = "fetch" \/ SendsRow(k)
RowOf(k) == Report("row", k.tag, k.time)

\* A row that is reported, or is to be, is not newer than what is noted of its
\* tag, and no two tasks have the same one.
TagRows ==
  IsTagTable =>
    /\ \A i \in DOMAIN Reported : Reported[i].kind = "row" => Reported[i].time <= last[Reported[i].tag]
    /\ \A k \in tasks : Pending(k) => k.time <= last[k.tag] /\ \A i \in DOMAIN Reported : Reported[i] # RowOf(k)
    /\ \A j, k \in tasks : Pending(j) /\ Pending(k) /\ RowOf(j) = RowOf(k) => j = k
    /\ \A k \in tasks : SendsRow(k) => k.report = RowOf(k)

\* One goroutine at a time reads a log table.
OneReader ==
  /\ tokens \in Nat /\ drained \in Nat /\ tokens + drained <= 1
  /\ \A j, k \in Holding : j = k
  /\ Holding # {} => tokens = 0 /\ drained = 0

\* The reader goes on after the row it has reported, up to one that is in the table.
Behind(k, noted, newest) ==
  /\ k.at \in {"select", "rows"} \/ SendsRow(k) => noted # 0
  /\ k.at = "rows" \/ SendsRow(k) => noted <= k.time /\ k.time <= newest
  /\ SendsRow(k) => k.report.time = noted + 1 /\ k.report.time <= k.time
  /\ k.at = "send" /\ k.then = "rows" => SendsRow(k)

ReaderBehind == \A k \in tasks : Behind(k, last[Log], recent[Log])

\* Nothing but errors has been reported after the i-th report.
Latest(i) == \A m \in DOMAIN Reported : m > i => Reported[m].kind = "error"

\* The watcher has noted the row it has reported last, if "too many changes"
\* was not reported after it.
LogRows ==
  /\ last[Log] <= recent[Log]
  /\ \A i \in DOMAIN Reported : Reported[i].kind = "row" =>
       /\ Reported[i].time > 0 /\ Reported[i].time <= recent[Log]
       /\ last[Log] # 0 => Reported[i].time <= last[Log]
       /\ Latest(i) => last[Log] = Reported[i].time

LogInv == ~IsTagTable /\ closed # "closed" => OneReader /\ ReaderBehind /\ LogRows

ReportInv == ReportType /\ TagRows /\ LogInv /\ ReportedOnce /\ NoGap

\* The step a task is at changes and nothing else of it.
LEMMA AtShape ==
  ASSUME NEW k \in TaskRecords, NEW at \in Steps
  PROVE  /\ [k EXCEPT !.at = at] \in TaskRecords
         /\ \A n : n = [k EXCEPT !.at = at] =>
              n.at = at /\ n.tag = k.tag /\ n.time = k.time /\ n.report = k.report /\ n.then = k.then
BY DEF TaskRecords

\* So do the step and the time it has read.
AfterQuery(k, at, time) == [k EXCEPT !.at = at, !.time = time]

LEMMA ReadShape ==
  ASSUME NEW k \in TaskRecords, NEW at \in Steps, NEW time \in Nat
  PROVE  /\ AfterQuery(k, at, time) \in TaskRecords
         /\ AfterQuery(k, at, time).at = at /\ AfterQuery(k, at, time).time = time
         /\ AfterQuery(k, at, time).tag = k.tag /\ AfterQuery(k, at, time).then = k.then
<1>1. [k EXCEPT !.at = at] \in TaskRecords
  BY AtShape
<1> DEFINE m == [k EXCEPT !.at = at]
           n == [m EXCEPT !.time = time]
<1>2. m.at = at /\ m.tag = k.tag /\ m.then = k.then
  BY DEF TaskRecords
<1> HIDE DEF m
<1>3. n \in TaskRecords /\ n.at = m.at /\ n.tag = m.tag /\ n.time = time /\ n.then = m.then
  BY <1>1 DEF TaskRecords, m
<1>4. n = AfterQuery(k, at, time)
  BY DEF m, AfterQuery
<1> HIDE DEF n
<1> QED
  BY <1>2, <1>3, <1>4

\* A task is about to send.
LEMMA SayShape ==
  ASSUME NEW k \in TaskRecords, NEW report \in Reports, NEW then \in Thens
  PROVE  /\ Say(k, report, then) \in TaskRecords
         /\ \A n : n = Say(k, report, then) =>
              n.at = "send" /\ n.tag = k.tag /\ n.time = k.time /\ n.report = report /\ n.then = then
<1> DEFINE m == [k EXCEPT !.at = "send"]
           n == [m EXCEPT !.report = report]
           o == [n EXCEPT !.then = then]
<1>1. m \in TaskRecords /\ m.at = "send" /\ m.tag = k.tag /\ m.time = k.time
  BY DEF TaskRecords, Steps
<1>2. o = Say(k, report, then)
  BY DEF Say
<1> HIDE DEF m
<1>3. n \in TaskRecords /\ n.at = m.at /\ n.tag = m.tag /\ n.time = m.time /\ n.report = report
  BY <1>1 DEF TaskRecords
<1> HIDE DEF n
<1>4. o \in TaskRecords /\ o.at = n.at /\ o.tag = n.tag /\ o.time = n.time /\ o.report = n.report /\ o.then = then
  BY <1>3 DEF TaskRecords
<1> HIDE DEF o
<1> QED
  BY <1>1, <1>2, <1>3, <1>4

\* What is watched does not depend on the state.
LEMMA WatchedSame ==
  ASSUME watch' = watch
  PROVE  /\ IsTagTable' = IsTagTable /\ Watched' = Watched /\ Reports' = Reports
         /\ Steps' = Steps /\ Thens' = Thens /\ TaskRecords' = TaskRecords
<1>1. IsTagTable' = IsTagTable
  BY DEF IsTagTable
<1>2. Watched' = Watched
  BY <1>1 DEF Watched
<1>3. Reports' = Reports /\ Steps' = Steps /\ Thens' = Thens
  BY <1>1, <1>2 DEF Reports, Steps, Thens
<1> QED
  BY <1>1, <1>2, <1>3 DEF TaskRecords

\* The handler takes a report from the channel.
LEMMA ReceiveReported ==
  ASSUME ReportType, Receive
  PROVE  Reported' = Reported /\ received' \in Seq(Reports) /\ out' \in Seq(Reports)
<1>1. /\ received \in Seq(Reports) /\ out \in Seq(Reports) /\ out # <<>>
      /\ received' = Append(received, Head(out)) /\ out' = Tail(out)
  BY DEF ReportType, Receive
<1>2. Head(out) \in Reports /\ Tail(out) \in Seq(Reports)
  BY <1>1
<1>3. Append(received, Head(out)) \o Tail(out) = received \o out
  BY <1>1, <1>2
<1> QED
  BY <1>1, <1>2, <1>3 DEF Reported

\* What is said of the reports after one has been sent.
LEMMA SendReported ==
  ASSUME ReportType, NEW r \in Reports, out' = Append(out, r), received' = received
  PROVE  /\ Reported' = Append(Reported, r) /\ out' \in Seq(Reports)
         /\ Reported \in Seq(Reports) /\ Reported' \in Seq(Reports)
         /\ DOMAIN Reported = 1..Len(Reported) /\ DOMAIN Reported' = 1..Len(Reported) + 1
         /\ Len(Reported) \in Nat
         /\ \A i \in DOMAIN Reported : Reported'[i] = Reported[i]
         /\ Reported'[Len(Reported) + 1] = r
<1>1. received \in Seq(Reports) /\ out \in Seq(Reports)
  BY DEF ReportType
<1>2. received \o Append(out, r) = Append(received \o out, r)
  BY <1>1
<1>3. Reported \in Seq(Reports)
  BY <1>1 DEF Reported
<1>4. Reported' = Append(Reported, r)
  BY <1>2 DEF Reported
<1>5. out' \in Seq(Reports)
  BY <1>1
<1> QED
  BY <1>3, <1>4, <1>5

\* A task goes on, or ends.
LEMMA MoveType ==
  ASSUME ReportType, NEW k \in tasks,
         tasks' \subseteq tasks \/ \E new \in TaskRecords : Move(k, new) /\ (new.at = "send" => new.report.kind # "none"),
         UNCHANGED <<watch, recent>>, last' \in [Watched -> Nat],
         received' \in Seq(Reports), out' \in Seq(Reports)
  PROVE  ReportType'
<1>1. Watched' = Watched /\ Reports' = Reports /\ TaskRecords' = TaskRecords
  BY WatchedSame
<1>2. tasks \subseteq TaskRecords /\ \A j \in tasks : j.at = "send" => j.report.kind # "none"
  BY DEF ReportType
<1>3. tasks' \subseteq TaskRecords /\ \A j \in tasks' : j.at = "send" => j.report.kind # "none"
  BY <1>2 DEF Move
<1> QED
  BY <1>1, <1>3 DEF ReportType

\* A new task has read nothing and waits for a token.
LEMMA NewTaskType ==
  ASSUME NEW g \in Watched, NEW n \in Nat
  PROVE  NewTask(g, n) \in TaskRecords /\ NewTask(g, n).at = "start"
<1>1. Report("none", g, 0) \in Reports
  BY DEF Report, Reports
<1>2. "start" \in Steps /\ "release" \in Thens
  BY DEF Steps, Thens
<1> QED
  BY <1>1, <1>2 DEF NewTask, TaskRecords

LEMMA ExecuteTasks ==
  ASSUME watch \in Watches, Execute
  PROVE  tasks \subseteq tasks' /\ \A k \in tasks' \ tasks : k \in TaskRecords /\ k.at = "start"
<1> DEFINE names == IF IsTagTable THEN watch.names ELSE <<Log>>
           unused == {n \in 1..MaxTasks : \A k \in tasks : k.id # n}
           free == SetToSeq(unused)
<1>1. Len(names) <= Len(free) /\ tasks' = tasks \cup {NewTask(names[i], free[i]) : i \in DOMAIN names}
  BY DEF Execute
<1>2. /\ Cardinality(unused) \in Nat
      /\ free \in [1..Cardinality(unused) -> unused]
  <2>1. MaxTasks \in Nat
    BY WatcherAssumption DEF WatcherAssumption, MaxTasks
  <2>2. IsFiniteSet(1..MaxTasks)
    BY <2>1, FS_Interval
  <2>3. IsFiniteSet(unused)
    BY <2>2, FS_Subset
  <2> QED
    BY <2>3, SetToSeqInjective
<1>3. Len(free) = Cardinality(unused) /\ DOMAIN free = 1..Cardinality(unused)
  BY <1>2
<1>4. names \in Seq(Watched)
  <2>1. CASE IsTagTable
    <3>1. watch.names \in Seq(Range(watch.names))
      BY WatcherAssumption DEF WatcherAssumption
    <3> QED
      BY <2>1, <3>1 DEF Watched
  <2>2. CASE ~IsTagTable
    BY <2>2 DEF Watched
  <2> QED
    BY <2>1, <2>2
<1> HIDE DEF names, free
<1>5. ASSUME NEW i \in DOMAIN names PROVE names[i] \in Watched /\ free[i] \in Nat
  BY <1>1, <1>2, <1>3, <1>4
<1> QED
  BY <1>1, <1>5, NewTaskType

LEMMA RowReport == ASSUME NEW kind \in {"row", "error", "omit"}, NEW g \in Watched, NEW time \in Nat
                   PROVE  /\ Report(kind, g, time) \in Reports
                          /\ Report(kind, g, time).kind = kind /\ Report(kind, g, time).tag = g
                          /\ Report(kind, g, time).time = time
BY DEF Report, Reports

\* Where a task can be, and what it knows there.
LEMMA TaskFacts ==
  ASSUME ReportType, NEW k \in tasks
  PROVE  /\ k \in TaskRecords /\ k.tag \in Watched /\ k.at \in Steps /\ k.time \in Nat
         /\ k.report \in Reports /\ k.then \in Thens /\ recent[k.tag] \in Nat /\ last[k.tag] \in Nat
BY DEF ReportType, TaskRecords

\* What each step of a task makes of it.
LEMMA FailTasks ==
  ASSUME ReportType, NEW k \in tasks, Fail(k)
  PROVE  \E new \in TaskRecords :
           /\ Move(k, new) /\ new.tag = k.tag
           /\ \/ new.at = "send" /\ new.report.kind = "error" /\ new.then = "release"
              \/ new.at = "release"
<1>1. /\ k \in TaskRecords /\ k.tag \in Watched /\ k.time \in Nat
      /\ "release" \in Thens /\ "release" \in Steps
  BY TaskFacts DEF Thens, Steps
<1>2. Report("error", k.tag, k.time) \in Reports /\ Report("error", k.tag, k.time).kind = "error"
  BY <1>1, RowReport
<1>3. CASE Move(k, Say(k, Report("error", k.tag, k.time), "release"))
  BY <1>1, <1>2, <1>3, SayShape
<1>4. CASE GoTo(k, "release")
  BY <1>1, <1>4, AtShape DEF GoTo
<1> QED
  BY <1>3, <1>4 DEF Fail

LEMMA GoToTasks ==
  ASSUME ReportType, NEW k \in tasks, NEW at \in Steps, GoTo(k, at)
  PROVE  \E new \in TaskRecords :
           /\ Move(k, new) /\ new.at = at /\ new.tag = k.tag /\ new.time = k.time
           /\ new.report = k.report /\ new.then = k.then
BY TaskFacts, AtShape DEF GoTo

\* The other steps of a task of a tag table.
LEMMA QueryTagTasks ==
  ASSUME ReportType, NEW k \in tasks, QueryTag(k)
  PROVE  \E new \in TaskRecords : Move(k, new) /\ new.tag = k.tag /\ new.at \in {"check", "release"}
<1>1. k \in TaskRecords /\ recent[k.tag] \in Nat /\ {"check", "release"} \subseteq Steps
  BY TaskFacts DEF Steps, QueryTag
<1>2. CASE GoTo(k, "release")
  BY <1>1, <1>2, GoToTasks
<1>3. CASE Move(k, [k EXCEPT !.at = "check", !.time = recent[k.tag]])
  <2>1. AfterQuery(k, "check", recent[k.tag]) \in TaskRecords
        /\ AfterQuery(k, "check", recent[k.tag]).at = "check" /\ AfterQuery(k, "check", recent[k.tag]).tag = k.tag
    BY <1>1, ReadShape
  <2>2. Move(k, AfterQuery(k, "check", recent[k.tag]))
    BY <1>3 DEF AfterQuery
  <2> QED
    BY <2>1, <2>2
<1> QED
  BY <1>2, <1>3 DEF QueryTag

LEMMA FetchTagTasks ==
  ASSUME ReportType, NEW k \in tasks, FetchTag(k)
  PROVE  \E new \in TaskRecords :
           /\ Move(k, new) /\ new.tag = k.tag /\ new.time = k.time
           /\ new.at = "send" /\ new.report = RowOf(k) /\ new.then = "release"
<1>1. k \in TaskRecords /\ k.tag \in Watched /\ k.time \in Nat /\ "release" \in Thens
  BY TaskFacts DEF Thens
<1>2. RowOf(k) \in Reports
  BY <1>1, RowReport DEF RowOf
<1>3. Move(k, Say(k, RowOf(k), "release"))
  BY DEF FetchTag, RowOf
<1> QED
  BY <1>1, <1>2, <1>3, SayShape

\* Those of a task of a log table.
LEMMA SelectRowsTasks ==
  ASSUME ReportType, NEW k \in tasks, SelectRows(k), ~IsTagTable
  PROVE  \E new \in TaskRecords :
           Move(k, new) /\ new.at = "rows" /\ new.time = recent[Log] /\ new.tag = k.tag /\ new.then = k.then
<1>1. k \in TaskRecords /\ recent[Log] \in Nat /\ "rows" \in Steps
  BY TaskFacts DEF ReportType, Watched, Steps
<1> DEFINE new == AfterQuery(k, "rows", recent[Log])
<1>2. Move(k, new)
  BY DEF SelectRows, AfterQuery
<1>3. new \in TaskRecords /\ new.at = "rows" /\ new.time = recent[Log] /\ new.tag = k.tag /\ new.then = k.then
  BY <1>1, ReadShape
<1> QED
  BY <1>2, <1>3

LEMMA NextRowTasks ==
  ASSUME ReportType, NEW k \in tasks, NextRow(k), ~IsTagTable
  PROVE  \E new \in TaskRecords :
           /\ Move(k, new)
           /\ \/ new.at = "release"
              \/ new.at = "send" /\ new.report.kind = "omit" /\ new.then = "release"
              \/ /\ last[Log] # k.time /\ new.at = "send" /\ new.report = Report("row", Log, last[Log] + 1)
                 /\ new.then = "rows" /\ new.time = k.time
<1>1. /\ k \in TaskRecords /\ Log \in Watched /\ last[Log] \in Nat
      /\ "release" \in Thens /\ "rows" \in Thens /\ "release" \in Steps
  BY TaskFacts DEF ReportType, Watched, Thens, Steps
<1>2. /\ Report("omit", Log, 0) \in Reports /\ Report("omit", Log, 0).kind = "omit"
      /\ Report("row", Log, last[Log] + 1) \in Reports
  BY <1>1, RowReport
<1>3. CASE GoTo(k, "release")
  BY <1>1, <1>3, GoToTasks
<1>4. CASE Move(k, Say(k, Report("omit", Log, 0), "release"))
  BY <1>1, <1>2, <1>4, SayShape
<1> DEFINE more == [k EXCEPT !.rows = @ + 1]
<1>5. more \in TaskRecords /\ more.time = k.time /\ more.at = k.at /\ more.tag = k.tag
  BY <1>1 DEF TaskRecords
<1> HIDE DEF more
<1>6. CASE last[Log] # k.time /\ Move(k, Say(more, Report("row", Log, last[Log] + 1), "rows"))
  BY <1>1, <1>2, <1>5, <1>6, SayShape
<1> QED
  BY <1>3, <1>4, <1>6 DEF NextRow, more

\* A report that is sent.
LEMMA SendTasks ==
  ASSUME ReportType, NEW k \in tasks, Send(k), closed # "closed"
  PROVE  /\ out' = Append(out, k.report) /\ received' = received /\ k.report \in Reports /\ k.report.kind # "none"
         /\ \E new \in TaskRecords :
              /\ Move(k, new) /\ new.at = k.then /\ new.tag = k.tag /\ new.time = k.time
              /\ new.report = k.report /\ new.then = k.then
         /\ IsTagTable \/ k.report.kind = "error" => last' = last
         /\ ~IsTagTable /\ k.report.kind = "row" => last' = [last EXCEPT ![Log] = k.report.time]
         /\ ~IsTagTable /\ k.report.kind = "omit" => last' = [last EXCEPT ![Log] = 0]
<1>1. k.then \in Steps /\ k.report \in Reports
  BY TaskFacts DEF Thens, Steps
<1>2. k.report.kind # "none" /\ k.report.kind \in {"none", "row", "error", "omit"}
  BY <1>1 DEF ReportType, Send, Reports
<1>3. GoTo(k, k.then) /\ out' = Append(out, k.report) /\ received' = received
  BY DEF Send
<1>4. \E new \in TaskRecords :
        /\ Move(k, new) /\ new.at = k.then /\ new.tag = k.tag /\ new.time = k.time
        /\ new.report = k.report /\ new.then = k.then
  BY <1>1, <1>3, GoToTasks
<1>5. IsTagTable \/ k.report.kind = "error" => last' = last
  BY DEF Send
<1>6. ~IsTagTable /\ k.report.kind = "row" => last' = [last EXCEPT ![Log] = k.report.time]
  BY DEF Send
<1>7. ~IsTagTable /\ k.report.kind = "omit" => last' = [last EXCEPT ![Log] = 0]
  BY DEF Send
<1> QED
  BY <1>1, <1>2, <1>3, <1>4, <1>5, <1>6, <1>7

LEMMA InitReportType == Init => ReportType /\ Reported = <<>>
BY DEF Init, ReportType, Reported

LEMMA StepReportType == ReportType /\ [Next]_vars => ReportType'
<1> SUFFICES ASSUME ReportType, [Next]_vars PROVE ReportType'
  OBVIOUS
<1> USE DEF dbVars
<1>1. received \in Seq(Reports) /\ out \in Seq(Reports) /\ last \in [Watched -> Nat]
  BY DEF ReportType
<1>2. CASE UNCHANGED vars
  <2>1. UNCHANGED <<watch, recent, last, tasks, received, out>>
    BY <1>2 DEF vars
  <2>2. Watched' = Watched /\ Reports' = Reports /\ TaskRecords' = TaskRecords
    BY <2>1, WatchedSame
  <2> QED
    BY <2>1, <2>2 DEF ReportType
<1>3. ASSUME NEW g \in Watched, NEW time \in 1..MaxTime, Write(g, time) PROVE ReportType'
  <2>1. UNCHANGED <<watch, last, tasks, received, out>> /\ recent' = [recent EXCEPT ![g] = time]
    BY <1>3 DEF Write
  <2>2. Watched' = Watched /\ Reports' = Reports /\ TaskRecords' = TaskRecords
    BY <2>1, WatchedSame
  <2> QED
    BY <2>1, <2>2 DEF ReportType
<1>4. CASE Execute
  <2>1. UNCHANGED <<watch, recent, last, received, out>> /\ watch \in Watches
    BY <1>4 DEF Execute, ReportType
  <2>2. Watched' = Watched /\ Reports' = Reports /\ TaskRecords' = TaskRecords
    BY <2>1, WatchedSame
  <2>3. \A k \in tasks' \ tasks : k \in TaskRecords /\ k.at = "start"
    BY <1>4, <2>1, ExecuteTasks
  <2> QED
    BY <2>1, <2>2, <2>3 DEF ReportType
<1>5. CASE Receive
  <2>1. UNCHANGED <<watch, recent, last, tasks>>
    BY <1>5 DEF Receive
  <2>2. Watched' = Watched /\ Reports' = Reports /\ TaskRecords' = TaskRecords
    BY <2>1, WatchedSame
  <2> QED
    BY <1>5, <2>1, <2>2, ReceiveReported DEF ReportType
<1>6. CASE CloseBegin \/ Drain \/ CloseChannels
  <2>1. UNCHANGED <<watch, recent, last, tasks, received, out>>
    BY <1>6 DEF CloseBegin, Drain, CloseChannels
  <2>2. Watched' = Watched /\ Reports' = Reports /\ TaskRecords' = TaskRecords
    BY <2>1, WatchedSame
  <2> QED
    BY <2>1, <2>2 DEF ReportType
<1>7. ASSUME NEW k \in tasks, Fail(k) PROVE ReportType'
  <2>1. UNCHANGED <<watch, recent, last, received, out>>
    BY <1>7 DEF Fail
  <2> QED
    BY <1>1, <1>7, <2>1, FailTasks, MoveType
<1>8. ASSUME NEW k \in tasks, TaskStep(k) PROVE ReportType'
  <2>0. /\ {"query", "release"} \subseteq Steps
        /\ IsTagTable => "fetch" \in Steps
        /\ ~IsTagTable => "select" \in Steps
    BY DEF Steps
  <2>1. CASE Acquire(k)
    <3>1. GoTo(k, "query") /\ UNCHANGED <<watch, recent, last, received, out>>
      BY <2>1 DEF Acquire
    <3> QED
      BY <1>1, <2>0, <3>1, GoToTasks, MoveType
  <2>2. CASE AcquireClosed(k)
    <3>1. /\ tasks' = tasks \ {k} \/ GoTo(k, "query")
          /\ UNCHANGED <<watch, recent, last, received, out>>
      BY <2>2 DEF AcquireClosed
    <3> QED
      BY <1>1, <2>0, <3>1, GoToTasks, MoveType
  <2>3. CASE Send(k) /\ closed = "closed"
    <3>1. UNCHANGED <<watch, recent, last, tasks, received, out>>
      BY <2>3 DEF Send
    <3> QED
      BY <1>1, <3>1, MoveType
  <2>4. CASE Send(k) /\ closed # "closed"
    <3>1. UNCHANGED <<watch, recent>>
      BY <2>4 DEF Send
    <3>2. /\ out' = Append(out, k.report) /\ received' = received /\ k.report \in Reports /\ k.report.kind # "none"
          /\ \E new \in TaskRecords : Move(k, new) /\ new.at = k.then
      BY <2>4, SendTasks
    <3>3. k.then # "send"
      BY TaskFacts DEF Thens
    <3>4. k.report.kind \in {"row", "error", "omit"} /\ k.report.time \in Nat
      BY <3>2 DEF Reports
    <3>5. last' = last \/ last' = [last EXCEPT ![Log] = k.report.time] \/ last' = [last EXCEPT ![Log] = 0]
      BY <2>4, <3>4, SendTasks
    <3>6. last' \in [Watched -> Nat]
      BY <1>1, <3>4, <3>5
    <3> QED
      BY <1>1, <3>1, <3>2, <3>3, <3>6, SendReported, MoveType
  <2>5. CASE Release(k)
    <3>1. tasks' \subseteq tasks /\ UNCHANGED <<watch, recent, last, received, out>>
      BY <2>5 DEF Release
    <3> QED
      BY <1>1, <3>1, MoveType
  <2>6. CASE QueryTag(k)
    <3>1. UNCHANGED <<watch, recent, last, received, out>>
      BY <2>6 DEF QueryTag
    <3> QED
      BY <1>1, <2>6, <3>1, QueryTagTasks, MoveType
  <2>7. CASE Check(k)
    <3>1. UNCHANGED <<watch, recent, received, out>> /\ k.at = "check"
      BY <2>7 DEF Check
    <3>2. IsTagTable
      BY <3>1, TaskFacts DEF Steps
    <3>3. last' = last \/ last' = [last EXCEPT ![k.tag] = k.time]
      BY <2>7 DEF Check
    <3>4. last' \in [Watched -> Nat]
      BY <1>1, <3>3, TaskFacts
    <3>5. GoTo(k, "fetch") \/ GoTo(k, "release")
      BY <2>7 DEF Check
    <3> QED
      BY <1>1, <2>0, <3>1, <3>2, <3>4, <3>5, GoToTasks, MoveType
  <2>8. CASE FetchTag(k)
    <3>1. UNCHANGED <<watch, recent, last, received, out>>
      BY <2>8 DEF FetchTag
    <3>2. RowOf(k).kind # "none"
      BY DEF RowOf, Report
    <3> QED
      BY <1>1, <2>8, <3>1, <3>2, FetchTagTasks, MoveType
  <2>9. CASE QueryMax(k)
    <3>1. UNCHANGED <<watch, recent, received, out>> /\ ~IsTagTable
      BY <2>9 DEF QueryMax
    <3>2. last' \in [Watched -> Nat]
      BY <1>1, <2>9 DEF QueryMax, ReportType
    <3>3. GoTo(k, "select") \/ GoTo(k, "release")
      BY <2>9 DEF QueryMax
    <3> QED
      BY <1>1, <2>0, <3>1, <3>2, <3>3, GoToTasks, MoveType
  <2>10. CASE SelectRows(k)
    <3>1. UNCHANGED <<watch, recent, last, received, out>> /\ k.at = "select"
      BY <2>10 DEF SelectRows
    <3>2. ~IsTagTable
      BY <3>1, TaskFacts DEF Steps
    <3> QED
      BY <1>1, <2>10, <3>1, <3>2, SelectRowsTasks, MoveType
  <2>11. CASE NextRow(k)
    <3>1. UNCHANGED <<watch, recent, last, received, out>> /\ k.at = "rows"
      BY <2>11 DEF NextRow
    <3>2. ~IsTagTable
      BY <3>1, TaskFacts DEF Steps
    <3>3. Report("row", Log, last[Log] + 1).kind = "row"
      BY DEF Report
    <3>4. \E new \in TaskRecords : Move(k, new) /\ (new.at = "send" => new.report.kind # "none")
      BY <2>11, <3>2, <3>3, NextRowTasks
    <3> QED
      BY <1>1, <3>1, <3>4, MoveType
  <2> QED
    BY <1>8, <2>1, <2>2, <2>3, <2>4, <2>5, <2>6, <2>7, <2>8, <2>9, <2>10, <2>11 DEF TaskStep
<1> QED
  BY <1>2, <1>3, <1>4, <1>5, <1>6, <1>7, <1>8 DEF Next

\* Only a task that sends adds a report.
LEMMA ReportedStep ==
  ASSUME ReportType, [Next]_vars
  PROVE  \/ Reported' = Reported
         \/ \E k \in tasks : Send(k) /\ closed # "closed"
<1>1. received' = received /\ out' = out => Reported' = Reported
  BY DEF Reported
<1>2. CASE Receive
  BY <1>2, ReceiveReported
<1>3. ASSUME NEW k \in tasks, Send(k) PROVE Reported' = Reported \/ closed # "closed"
  BY <1>1, <1>3 DEF Send
<1>4. CASE \E g \in Watched, time \in 1..MaxTime : Write(g, time)
  BY <1>1, <1>4 DEF Write
<1>5. CASE Execute \/ CloseBegin \/ Drain \/ CloseChannels
  BY <1>1, <1>5 DEF Execute, CloseBegin, Drain, CloseChannels
<1>6. ASSUME NEW k \in tasks, TaskStep(k) \/ Fail(k), ~Send(k) PROVE Reported' = Reported
  <2>1. Acquire(k) \/ AcquireClosed(k) \/ Release(k) \/ Fail(k) => received' = received /\ out' = out
    BY DEF Acquire, AcquireClosed, Release, Fail
  <2>2. QueryTag(k) \/ Check(k) \/ FetchTag(k) => received' = received /\ out' = out
    BY DEF QueryTag, Check, FetchTag
  <2>3. QueryMax(k) \/ SelectRows(k) => received' = received /\ out' = out
    BY DEF QueryMax, SelectRows
  <2>4. NextRow(k) => received' = received /\ out' = out
    BY ZenonT(20) DEF NextRow
  <2>5. received' = received /\ out' = out
    BY <1>6, <2>1, <2>2, <2>3, <2>4 DEF TaskStep
  <2> QED
    BY <1>1, <2>5
<1>7. CASE UNCHANGED vars
  BY <1>1, <1>7 DEF vars
<1> QED
  BY <1>2, <1>3, <1>4, <1>5, <1>6, <1>7 DEF Next, TaskStep

LEMMA WatchStep == ASSUME [Next]_vars PROVE watch' = watch
BY DEF Next, vars, Write, Execute, Receive, CloseBegin, Drain, CloseChannels, TaskStep,
       Acquire, AcquireClosed, Send, Release, QueryTag, Check, FetchTag,
       QueryMax, SelectRows, NextRow, Fail, dbVars

\* A step that neither reports nor notes anything, and after which no other task
\* has something to report.
LEMMA TagQuiet ==
  ASSUME TagRows, watch' = watch, last' = last, Reported' = Reported,
         \A k \in tasks' : Pending(k) => k \in tasks
  PROVE  TagRows'
<1>1. IsTagTable' = IsTagTable
  BY WatchedSame
<1> QED
  BY <1>1 DEF TagRows, SendsRow, Pending, RowOf, Report

\* The task k goes on and has nothing to report.
LEMMA TagMoved ==
  ASSUME TagRows, UNCHANGED <<watch, last, received, out>>, NEW k \in tasks,
         tasks' \subseteq tasks \/ \E new \in TaskRecords : Move(k, new) /\ ~Pending(new)
  PROVE  TagRows'
<1>1. \A j \in tasks' : Pending(j) => j \in tasks
  BY DEF Move
<1>2. Reported' = Reported
  BY DEF Reported
<1> QED
  BY <1>1, <1>2, TagQuiet

\* Under tagLastTimeLock a task notes a time that is newer than all before it.
LEMMA CheckTagRows ==
  ASSUME ReportType, TagRows, IsTagTable, NEW k \in tasks, Check(k)
  PROVE  TagRows'
<1>1. k.at = "check" /\ UNCHANGED <<watch, received, out>>
  BY DEF Check, dbVars
<1>2. {"fetch", "release"} \subseteq Steps
  BY DEF Steps
<1>3. CASE ~(k.time > last[k.tag])
  <2>1. last' = last /\ GoTo(k, "release")
    BY <1>3 DEF Check
  <2>2. \E new \in TaskRecords : Move(k, new) /\ ~Pending(new)
    BY <1>2, <2>1, GoToTasks DEF Pending, SendsRow
  <2> QED
    BY <1>1, <2>1, <2>2, TagMoved
<1>4. CASE k.time > last[k.tag]
  <2>1. last' = [last EXCEPT ![k.tag] = k.time] /\ GoTo(k, "fetch")
    BY <1>4 DEF Check
  <2>2. PICK new \in TaskRecords : Move(k, new) /\ new.at = "fetch" /\ new.tag = k.tag /\ new.time = k.time
    BY <1>2, <2>1, GoToTasks
  <2>3. Reported' = Reported /\ IsTagTable'
    BY <1>1, WatchedSame DEF Reported
  <2>4. k.tag \in Watched /\ last \in [Watched -> Nat] /\ k.time \in Nat /\ new.tag \in Watched
    BY TaskFacts DEF ReportType, TaskRecords
  <2>5. /\ last'[k.tag] = k.time
        /\ \A g \in Watched : last[g] \in Nat /\ last[g] <= last'[g] /\ last'[g] \in Nat
    BY <1>4, <2>1, <2>4
  <2>6. Reported \in Seq(Reports)
    BY DEF ReportType, Reported
  <2>7. \A i \in DOMAIN Reported : Reported[i].tag \in Watched /\ Reported[i].time \in Nat
    <3>1. \A i \in DOMAIN Reported : Reported[i] \in Reports
      BY <2>6
    <3> QED
      BY <3>1 DEF Reports
  <2>8. \A j \in tasks' : j = new \/ j \in tasks
    BY <2>2 DEF Move
  <2>9. \A j \in tasks : j.tag \in Watched /\ j.time \in Nat
    BY TaskFacts
  <2>10. \A i \in DOMAIN Reported : Reported[i].kind = "row" => Reported[i].time <= last'[Reported[i].tag]
    BY <2>5, <2>7 DEF TagRows
  <2>11. \A i \in DOMAIN Reported : Reported[i] # RowOf(new)
    <3>1. ASSUME NEW i \in DOMAIN Reported, Reported[i] = RowOf(new) PROVE FALSE
      <4>1. Reported[i].kind = "row" /\ Reported[i].tag = k.tag /\ Reported[i].time = k.time
        BY <2>2, <3>1 DEF RowOf, Report
      <4>2. Reported[i].time <= last[k.tag]
        BY <4>1 DEF TagRows
      <4> QED
        BY <1>4, <2>4, <4>1, <4>2
    <3> QED
      BY <3>1
  <2>12. \A j \in tasks : Pending(j) => RowOf(j) # RowOf(new)
    <3>1. ASSUME NEW j \in tasks, Pending(j), RowOf(j) = RowOf(new) PROVE FALSE
      <4>1. j.tag = k.tag /\ j.time = k.time
        BY <2>2, <3>1 DEF RowOf, Report
      <4>2. j.time <= last[j.tag]
        BY <3>1 DEF TagRows
      <4> QED
        BY <1>4, <2>4, <4>1, <4>2
    <3> QED
      BY <3>1
  <2>13. \A j \in tasks : Pending(j) => j.time <= last'[j.tag] /\ \A i \in DOMAIN Reported : Reported[i] # RowOf(j)
    BY <2>5, <2>9 DEF TagRows
  <2>14. new.time <= last'[new.tag]
    BY <2>2, <2>4, <2>5
  <2>15. \A i, j \in tasks' : Pending(i) /\ Pending(j) /\ RowOf(i) = RowOf(j) => i = j
    BY <2>8, <2>12 DEF TagRows
  <2>16. \A j \in tasks' : SendsRow(j) => j.report = RowOf(j)
    BY <2>2, <2>8 DEF TagRows, SendsRow
  <2> HIDE DEF TagRows
  <2>17. \A j \in tasks' : Pending(j) => j.time <= last'[j.tag] /\ \A i \in DOMAIN Reported : Reported[i] # RowOf(j)
    BY <2>8, <2>11, <2>13, <2>14
  <2> QED
    BY <2>3, <2>10, <2>15, <2>16, <2>17 DEF TagRows, Pending, SendsRow, RowOf, Report
<1> QED
  BY <1>3, <1>4

LEMMA FetchTagRows ==
  ASSUME ReportType, TagRows, IsTagTable, NEW k \in tasks, FetchTag(k)
  PROVE  TagRows'
<1>1. k.at = "fetch" /\ UNCHANGED <<watch, last, received, out>>
  BY DEF FetchTag, dbVars
<1>2. PICK new \in TaskRecords :
        /\ Move(k, new) /\ new.tag = k.tag /\ new.time = k.time
        /\ new.at = "send" /\ new.report = RowOf(k) /\ new.then = "release"
  BY FetchTagTasks
<1>3. Reported' = Reported /\ IsTagTable'
  BY <1>1, WatchedSame DEF Reported
<1>4. Pending(k) /\ RowOf(new) = RowOf(k) /\ SendsRow(new)
  BY <1>1, <1>2 DEF Pending, SendsRow, RowOf, Report
<1>5. \A j \in tasks' : j = new \/ (j \in tasks /\ j # k)
  BY <1>2 DEF Move
<1>6. \A j \in tasks' : Pending(j) => j.time <= last[j.tag] /\ \A i \in DOMAIN Reported : Reported[i] # RowOf(j)
  BY <1>2, <1>4, <1>5 DEF TagRows
<1>7. \A i, j \in tasks' : Pending(i) /\ Pending(j) /\ RowOf(i) = RowOf(j) => i = j
  BY <1>4, <1>5 DEF TagRows
<1>8. \A j \in tasks' : SendsRow(j) => j.report = RowOf(j)
  BY <1>2, <1>4, <1>5 DEF TagRows
<1> QED
  BY <1>1, <1>3, <1>6, <1>7, <1>8 DEF TagRows, Pending, SendsRow, RowOf, Report

LEMMA SendTagRows ==
  ASSUME ReportType, TagRows, IsTagTable, NEW k \in tasks, Send(k), closed # "closed"
  PROVE  TagRows'
<1>1. /\ out' = Append(out, k.report) /\ received' = received /\ k.report \in Reports
      /\ last' = last /\ watch' = watch /\ k.at = "send"
  BY SendTasks DEF Send, dbVars
<1>2. PICK new \in TaskRecords : Move(k, new) /\ new.at = k.then
  BY SendTasks
<1>3. ~Pending(new)
  BY <1>2, TaskFacts DEF Pending, SendsRow, Thens
<1>4. \A j \in tasks' : Pending(j) => j \in tasks /\ j # k
  BY <1>2, <1>3 DEF Move
<1>5. IsTagTable'
  BY <1>1, WatchedSame
<1>6. /\ DOMAIN Reported = 1..Len(Reported) /\ DOMAIN Reported' = 1..Len(Reported) + 1 /\ Len(Reported) \in Nat
      /\ \A i \in DOMAIN Reported : Reported'[i] = Reported[i]
      /\ Reported'[Len(Reported) + 1] = k.report
  BY <1>1, SendReported
<1>7. \A i \in DOMAIN Reported' : i \in DOMAIN Reported \/ i = Len(Reported) + 1
  BY <1>6
<1>8. k.report.kind = "row" => Pending(k) /\ k.report = RowOf(k) /\ k.time <= last[k.tag]
  BY <1>1 DEF TagRows, Pending, SendsRow
<1>9. k.report.kind = "row" => k.report.time <= last[k.report.tag]
  BY <1>8 DEF RowOf, Report
<1>10. \A i \in DOMAIN Reported' : Reported'[i].kind = "row" => Reported'[i].time <= last[Reported'[i].tag]
  BY <1>6, <1>7, <1>9 DEF TagRows
<1>11. \A j \in tasks' : Pending(j) => \A i \in DOMAIN Reported' : Reported'[i] # RowOf(j)
  <2>1. ASSUME NEW j \in tasks', Pending(j), k.report = RowOf(j) PROVE FALSE
    <3>1. k.report.kind = "row"
      BY <2>1 DEF RowOf, Report
    <3> QED
      BY <1>4, <1>8, <2>1, <3>1 DEF TagRows
  <2> QED
    BY <1>4, <1>6, <1>7, <2>1 DEF TagRows
<1>12. \A j \in tasks' : Pending(j) => j.time <= last[j.tag]
  BY <1>4 DEF TagRows
<1>13. \A i, j \in tasks' : Pending(i) /\ Pending(j) /\ RowOf(i) = RowOf(j) => i = j
  BY <1>4 DEF TagRows
<1>14. \A j \in tasks' : SendsRow(j) => j.report = RowOf(j)
  BY <1>4 DEF TagRows, Pending
<1> QED
  BY <1>1, <1>5, <1>10, <1>11, <1>12, <1>13, <1>14 DEF TagRows, Pending, SendsRow, RowOf, Report

LEMMA StepTagRows ==
  ASSUME ReportType, TagRows, [Next]_vars
  PROVE  TagRows'
<1> USE DEF dbVars
<1>1. watch' = watch /\ IsTagTable' = IsTagTable
  BY WatchStep, WatchedSame
<1>2. CASE ~IsTagTable
  BY <1>1, <1>2 DEF TagRows
<1> SUFFICES ASSUME IsTagTable PROVE TagRows'
  BY <1>2
<1>3. CASE UNCHANGED <<last, tasks>> /\ Reported' = Reported
  BY <1>1, <1>3, TagQuiet
<1>4. CASE UNCHANGED vars
  BY <1>3, <1>4 DEF vars, Reported
<1>5. ASSUME NEW g \in Watched, NEW time \in 1..MaxTime, Write(g, time) PROVE TagRows'
  BY <1>3, <1>5 DEF Write, Reported
<1>6. CASE Execute
  <2>1. UNCHANGED <<last, received, out>> /\ watch \in Watches
    BY <1>6 DEF Execute, ReportType
  <2>2. \A k \in tasks' \ tasks : k.at = "start"
    BY <1>6, <2>1, ExecuteTasks
  <2>3. \A k \in tasks' : Pending(k) => k \in tasks
    BY <2>2 DEF Pending, SendsRow
  <2> QED
    BY <1>1, <2>1, <2>3, TagQuiet DEF Reported
<1>7. CASE Receive
  <2>1. UNCHANGED <<last, tasks>>
    BY <1>7 DEF Receive
  <2> QED
    BY <1>3, <1>7, <2>1, ReceiveReported
<1>8. CASE CloseBegin \/ Drain \/ CloseChannels
  BY <1>3, <1>8 DEF CloseBegin, Drain, CloseChannels, Reported
<1>9. ASSUME NEW k \in tasks, Fail(k) PROVE TagRows'
  <2>1. UNCHANGED <<last, received, out>>
    BY <1>9 DEF Fail
  <2>2. \E new \in TaskRecords : Move(k, new) /\ ~Pending(new)
    BY <1>9, FailTasks DEF Pending, SendsRow
  <2> QED
    BY <1>1, <2>1, <2>2, TagMoved
<1>10. ASSUME NEW k \in tasks, TaskStep(k) PROVE TagRows'
  <2>0. {"query", "release"} \subseteq Steps
    BY DEF Steps
  <2>1. CASE Acquire(k)
    <3>1. GoTo(k, "query") /\ UNCHANGED <<last, received, out>>
      BY <2>1 DEF Acquire
    <3>2. \E new \in TaskRecords : Move(k, new) /\ ~Pending(new)
      BY <2>0, <3>1, GoToTasks DEF Pending, SendsRow
    <3> QED
      BY <1>1, <3>1, <3>2, TagMoved
  <2>2. CASE AcquireClosed(k)
    <3>1. tasks' \subseteq tasks /\ UNCHANGED <<last, received, out>>
      BY <2>2 DEF AcquireClosed
    <3> QED
      BY <1>1, <3>1, TagMoved
  <2>3. CASE Send(k) /\ closed = "closed"
    BY <1>3, <2>3 DEF Send, Reported
  <2>4. CASE Send(k) /\ closed # "closed"
    BY <2>4, SendTagRows
  <2>5. CASE Release(k)
    <3>1. tasks' \subseteq tasks /\ UNCHANGED <<last, received, out>>
      BY <2>5 DEF Release
    <3> QED
      BY <1>1, <3>1, TagMoved
  <2>6. CASE QueryTag(k)
    <3>1. UNCHANGED <<last, received, out>>
      BY <2>6 DEF QueryTag
    <3>2. \E new \in TaskRecords : Move(k, new) /\ ~Pending(new)
      BY <2>6, QueryTagTasks DEF Pending, SendsRow
    <3> QED
      BY <1>1, <3>1, <3>2, TagMoved
  <2>7. CASE Check(k)
    BY <2>7, CheckTagRows
  <2>8. CASE FetchTag(k)
    BY <2>8, FetchTagRows
  <2>9. ~QueryMax(k) /\ ~SelectRows(k) /\ ~NextRow(k)
    <3>1. k.at \notin {"select", "rows"}
      BY TaskFacts DEF Steps
    <3> QED
      BY <3>1 DEF QueryMax, SelectRows, NextRow
  <2> QED
    BY <1>10, <2>1, <2>2, <2>3, <2>4, <2>5, <2>6, <2>7, <2>8, <2>9 DEF TaskStep
<1> QED
  BY <1>4, <1>5, <1>6, <1>7, <1>8, <1>9, <1>10 DEF Next

\* A row of a log table that is sent comes right after the one that was noted.
LEMMA LogRowSent ==
  ASSUME ReportType, LogInv, ~IsTagTable, closed # "closed", NEW k \in tasks, SendsRow(k)
  PROVE  /\ k.report.time = last[Log] + 1 /\ last[Log] # 0 /\ last[Log] \in Nat
         /\ k.report.time <= k.time /\ k.time <= recent[Log]
<1>1. Behind(k, last[Log], recent[Log])
  BY DEF LogInv, ReaderBehind
<1>2. last[Log] \in Nat
  BY DEF ReportType, Watched
<1> QED
  BY <1>1, <1>2 DEF Behind

LEMMA ReportedFacts ==
  ASSUME ReportType
  PROVE  Reported \in Seq(Reports) /\ \A i \in DOMAIN Reported : Reported[i] \in Reports /\ Reported[i].time \in Nat
<1>1. Reported \in Seq(Reports)
  BY DEF ReportType, Reported
<1>2. \A i \in DOMAIN Reported : Reported[i] \in Reports
  BY <1>1
<1> QED
  BY <1>1, <1>2 DEF Reports

LEMMA StepReportedOnce ==
  ASSUME ReportType, TagRows, LogInv, ReportedOnce, [Next]_vars
  PROVE  ReportedOnce'
<1>1. CASE Reported' = Reported
  BY <1>1 DEF ReportedOnce
<1>2. ASSUME NEW k \in tasks, Send(k), closed # "closed" PROVE ReportedOnce'
  <2>1. out' = Append(out, k.report) /\ received' = received /\ k.report \in Reports /\ k.at = "send"
    BY <1>2, SendTasks DEF Send
  <2>2. /\ DOMAIN Reported = 1..Len(Reported) /\ DOMAIN Reported' = 1..Len(Reported) + 1 /\ Len(Reported) \in Nat
        /\ \A i \in DOMAIN Reported : Reported'[i] = Reported[i]
        /\ Reported'[Len(Reported) + 1] = k.report
    BY <2>1, SendReported
  <2>3. \A i \in DOMAIN Reported' : i \in DOMAIN Reported \/ i = Len(Reported) + 1
    BY <2>2
  <2>4. k.report.kind = "row" => \A i \in DOMAIN Reported : Reported[i] # k.report
    <3>1. CASE IsTagTable /\ k.report.kind = "row"
      BY <2>1, <3>1 DEF TagRows, Pending, SendsRow
    <3>2. CASE ~IsTagTable /\ k.report.kind = "row"
      <4>1. k.report.time = last[Log] + 1 /\ last[Log] # 0 /\ last[Log] \in Nat
        BY <1>2, <2>1, <3>2, LogRowSent DEF SendsRow
      <4>2. \A i \in DOMAIN Reported : Reported[i].kind = "row" => Reported[i].time <= last[Log]
        BY <1>2, <3>2, <4>1 DEF LogInv, LogRows
      <4> QED
        BY <3>2, <4>1, <4>2
    <3> QED
      BY <3>1, <3>2
  <2> QED
    BY <2>2, <2>3, <2>4 DEF ReportedOnce
<1> QED
  BY <1>1, <1>2, ReportedStep

LEMMA StepNoGap ==
  ASSUME ReportType, LogInv, NoGap, [Next]_vars
  PROVE  NoGap'
<1>1. watch' = watch /\ IsTagTable' = IsTagTable
  BY WatchStep, WatchedSame
<1>2. CASE Reported' = Reported
  BY <1>1, <1>2 DEF NoGap
<1>3. ASSUME NEW k \in tasks, Send(k), closed # "closed" PROVE NoGap'
  <2> SUFFICES ASSUME ~IsTagTable, NEW i \in DOMAIN Reported', NEW j \in DOMAIN Reported',
                      i < j, Reported'[i].kind = "row", Reported'[j].kind = "row",
                      \A m \in i + 1..j - 1 : Reported'[m].kind = "error"
               PROVE  Reported'[j].time = Reported'[i].time + 1
    BY <1>1 DEF NoGap
  <2>1. out' = Append(out, k.report) /\ received' = received /\ k.report \in Reports /\ k.at = "send"
    BY <1>3, SendTasks DEF Send
  <2>2. /\ DOMAIN Reported = 1..Len(Reported) /\ DOMAIN Reported' = 1..Len(Reported) + 1 /\ Len(Reported) \in Nat
        /\ \A n \in DOMAIN Reported : Reported'[n] = Reported[n]
        /\ Reported'[Len(Reported) + 1] = k.report
    BY <2>1, SendReported
  <2>3. i \in DOMAIN Reported /\ (j \in DOMAIN Reported \/ j = Len(Reported) + 1)
    BY <2>2
  <2>4. CASE j \in DOMAIN Reported
    <3>1. \A m \in i + 1..j - 1 : Reported[m].kind = "error"
      BY <2>2, <2>3, <2>4
    <3> QED
      BY <2>2, <2>3, <2>4, <3>1 DEF NoGap
  <2>5. CASE j = Len(Reported) + 1
    <3>1. Latest(i)
      BY <2>2, <2>3, <2>5 DEF Latest
    <3>2. last[Log] = Reported[i].time
      BY <1>3, <2>2, <2>3, <3>1 DEF LogInv, LogRows
    <3>3. k.report.time = last[Log] + 1
      BY <1>3, <2>1, <2>2, <2>5, LogRowSent DEF SendsRow
    <3> QED
      BY <2>2, <2>3, <2>5, <3>2, <3>3
  <2> QED
    BY <2>3, <2>4, <2>5
<1> QED
  BY <1>2, <1>3, ReportedStep

\* The parts of the invariant of a log table, with the types of what they speak of.
LEMMA LogParts ==
  ASSUME ReportType, LogInv, ~IsTagTable, closed # "closed"
  PROVE  /\ OneReader /\ ReaderBehind /\ LogRows
         /\ last[Log] \in Nat /\ recent[Log] \in Nat /\ DOMAIN last = {Log}
BY DEF LogInv, ReportType, Watched

\* Only one task is not waiting for the token, and it is the one that moves.
LEMMA ReaderMoves ==
  ASSUME OneReader, NEW k \in tasks, k.at # "start", UNCHANGED <<tokens, drained>>,
         NEW new, new.at # "start", Move(k, new)
  PROVE  OneReader' /\ \A j \in tasks' : j = new \/ j.at = "start"
<1>1. k \in Holding /\ \A j \in Holding : j = k
  BY DEF OneReader, Holding
<1>2. \A j \in tasks' : j = new \/ (j \in tasks /\ j # k)
  BY DEF Move
<1>3. \A j \in tasks' : j = new \/ j.at = "start"
  BY <1>1, <1>2 DEF Holding
<1>4. \A j \in Holding' : j = new
  BY <1>3 DEF Holding
<1> QED
  BY <1>1, <1>3, <1>4 DEF OneReader

\* So what is to be shown of the tasks is to be shown of that one.
LEMMA BehindMoved ==
  ASSUME NEW new, \A j \in tasks' : j = new \/ j.at = "start",
         Behind(new, last'[Log], recent'[Log])
  PROVE  ReaderBehind'
BY DEF ReaderBehind, Behind, SendsRow

\* A reader that has nothing to send keeps the invariant.
LEMMA ReaderGoesOn ==
  ASSUME LogInv, ~IsTagTable, closed # "closed", NEW k \in tasks, k.at # "start",
         UNCHANGED <<watch, recent, last, tokens, drained, received, out>>,
         NEW new, Move(k, new), new.at # "start", Behind(new, last[Log], recent[Log])
  PROVE  LogInv'
<1>1. OneReader' /\ ReaderBehind'
  BY ReaderMoves, BehindMoved DEF LogInv
<1>2. LogRows'
  BY DEF LogInv, LogRows, Latest, Reported
<1> QED
  BY <1>1, <1>2 DEF LogInv

\* One that waits or ends, and knows nothing.
LEMMA NotBehind ==
  ASSUME NEW new, new.at \in {"query", "release"} \/ (new.at = "send" /\ new.report.kind # "row" /\ new.then # "rows")
  PROVE  \A noted, newest : Behind(new, noted, newest)
BY DEF Behind, SendsRow

LEMMA SendLogInv ==
  ASSUME ReportType, LogInv, ~IsTagTable, closed # "closed", NEW k \in tasks, Send(k)
  PROVE  LogInv'
<1> DEFINE r == k.report
           n == Len(Reported) + 1
<1>1. /\ out' = Append(out, r) /\ received' = received /\ r \in Reports /\ r.kind # "none"
      /\ UNCHANGED <<watch, recent, tokens, drained>> /\ k.at = "send"
  BY SendTasks DEF Send, dbVars
<1>2. PICK new \in TaskRecords :
        Move(k, new) /\ new.at = k.then /\ new.time = k.time
  BY SendTasks
<1>3. k.then \in {"release", "rows"}
  BY TaskFacts DEF Thens
<1>4. /\ OneReader /\ ReaderBehind /\ LogRows
      /\ last[Log] \in Nat /\ recent[Log] \in Nat /\ DOMAIN last = {Log}
  BY LogParts
<1>5. OneReader' /\ \A j \in tasks' : j = new \/ j.at = "start"
  BY <1>1, <1>2, <1>3, <1>4, ReaderMoves
<1>6. /\ DOMAIN Reported = 1..Len(Reported) /\ DOMAIN Reported' = 1..Len(Reported) + 1 /\ Len(Reported) \in Nat
      /\ \A i \in DOMAIN Reported : Reported'[i] = Reported[i]
      /\ Reported'[n] = r
  BY <1>1, SendReported
<1>7. \A i \in DOMAIN Reported' : i \in DOMAIN Reported \/ i = n
  BY <1>6
<1>8. \A i \in DOMAIN Reported : Latest(i)' => Latest(i) /\ r.kind = "error"
  BY <1>6 DEF Latest
<1>9. \A i \in DOMAIN Reported : Reported[i].time \in Nat
  BY ReportedFacts
<1>10. Behind(k, last[Log], recent[Log])
  BY <1>4 DEF ReaderBehind
<1> HIDE DEF n
<1>11. CASE r.kind = "row"
  <2>1. SendsRow(k)
    BY <1>1, <1>11 DEF SendsRow
  <2>2. last'[Log] = r.time
    BY <1>4, <1>11, SendTasks
  <2>3. r.time = last[Log] + 1 /\ last[Log] # 0 /\ r.time <= k.time /\ k.time <= recent[Log] /\ r.time \in Nat /\ k.time \in Nat
    BY <1>1, <2>1, LogRowSent, TaskFacts DEF Reports
  <2>4. Behind(new, last'[Log], recent'[Log])
    BY <1>1, <1>2, <1>3, <1>4, <2>2, <2>3 DEF Behind, SendsRow
  <2>5. ReaderBehind'
    BY <1>5, <2>4, BehindMoved
  <2>6. \A i \in DOMAIN Reported : Reported[i].kind = "row" =>
          Reported[i].time > 0 /\ Reported[i].time <= recent[Log] /\ Reported[i].time <= last[Log]
    BY <1>4, <2>3 DEF LogRows
  <2>7. \A i \in DOMAIN Reported' : Reported'[i].kind = "row" =>
          /\ Reported'[i].time > 0 /\ Reported'[i].time <= recent[Log]
          /\ Reported'[i].time <= r.time
          /\ Latest(i)' => r.time = Reported'[i].time
    <3>1. ASSUME NEW i \in DOMAIN Reported, Reported[i].kind = "row"
          PROVE  Reported[i].time > 0 /\ Reported[i].time <= recent[Log] /\ Reported[i].time <= r.time /\ ~Latest(i)'
      BY <1>4, <1>8, <1>9, <1>11, <2>3, <2>6, <3>1
    <3>2. r.time > 0 /\ r.time <= recent[Log] /\ r.time <= r.time
      BY <1>4, <2>3
    <3>3. ASSUME NEW i \in DOMAIN Reported', Reported'[i].kind = "row"
          PROVE  /\ Reported'[i].time > 0 /\ Reported'[i].time <= recent[Log]
                 /\ Reported'[i].time <= r.time
                 /\ Latest(i)' => r.time = Reported'[i].time
      <4>1. CASE i \in DOMAIN Reported
        BY <1>6, <3>1, <3>3, <4>1
      <4>2. CASE i = n
        BY <1>6, <3>2, <4>2
      <4> QED
        BY <1>7, <4>1, <4>2
    <3> QED
      BY <3>3
  <2>8. r.time <= recent[Log]
    BY <1>4, <2>3
  <2>9. LogRows'
    BY <1>1, <2>2, <2>7, <2>8 DEF LogRows
  <2> QED
    BY <1>5, <2>5, <2>9 DEF LogInv
<1>12. CASE r.kind # "row"
  <2>1. k.then = "release"
    BY <1>1, <1>3, <1>10, <1>12 DEF Behind, SendsRow
  <2>2. ReaderBehind'
    BY <1>2, <1>5, <2>1, NotBehind, BehindMoved
  <2>3. r.kind \in {"error", "omit"}
    BY <1>1, <1>12 DEF Reports
  <2>4. (r.kind = "error" /\ last'[Log] = last[Log]) \/ (r.kind = "omit" /\ last'[Log] = 0)
    BY <1>4, <2>3, SendTasks
  <2>5. \A i \in DOMAIN Reported' : Reported'[i].kind = "row" =>
          /\ Reported'[i].time > 0 /\ Reported'[i].time <= recent[Log]
          /\ last'[Log] # 0 => Reported'[i].time <= last'[Log]
          /\ Latest(i)' => last'[Log] = Reported'[i].time
    BY <1>4, <1>6, <1>7, <1>8, <1>12, <2>4 DEF LogRows
  <2>6. last'[Log] <= recent[Log]
    BY <1>4, <2>4 DEF LogRows
  <2>7. LogRows'
    BY <1>1, <2>5, <2>6 DEF LogRows
  <2> QED
    BY <1>5, <2>2, <2>7 DEF LogInv
<1> QED
  BY <1>11, <1>12

LEMMA QueryMaxLogInv ==
  ASSUME ReportType, LogInv, ~IsTagTable, closed # "closed", NEW k \in tasks, QueryMax(k)
  PROVE  LogInv'
<1>1. /\ k.at = "query" /\ UNCHANGED <<watch, recent, tokens, drained, received, out>>
      /\ last' = IF last[Log] = 0 THEN recent ELSE last
      /\ GoTo(k, IF last'[Log] = 0 THEN "release" ELSE "select")
  BY DEF QueryMax, dbVars, chanVars
<1>2. /\ OneReader /\ ReaderBehind /\ LogRows
      /\ last[Log] \in Nat /\ recent[Log] \in Nat
  BY LogParts
<1>3. "release" \in Steps /\ "select" \in Steps
  BY DEF Steps
<1>4. PICK new \in TaskRecords : Move(k, new) /\ (new.at = "release" \/ (new.at = "select" /\ last'[Log] # 0))
  BY <1>1, <1>3, GoToTasks
<1>5. OneReader' /\ \A j \in tasks' : j = new \/ j.at = "start"
  BY <1>1, <1>2, <1>4, ReaderMoves
<1>6. Behind(new, last'[Log], recent'[Log])
  BY <1>4 DEF Behind, SendsRow
<1>7. ReaderBehind'
  BY <1>5, <1>6, BehindMoved
<1>8. last'[Log] = IF last[Log] = 0 THEN recent[Log] ELSE last[Log]
  BY <1>1
<1>9. Reported' = Reported
  BY <1>1 DEF Reported
<1>10. \A i \in DOMAIN Reported : Reported[i].kind = "row" =>
         /\ Reported[i].time > 0 /\ Reported[i].time <= recent[Log]
         /\ last'[Log] # 0 => Reported[i].time <= last'[Log]
         /\ Latest(i) => last'[Log] = Reported[i].time
  BY <1>2, <1>8, ReportedFacts DEF LogRows
<1>11. last'[Log] <= recent[Log]
  BY <1>2, <1>8 DEF LogRows
<1>12. LogRows'
  BY <1>1, <1>9, <1>10, <1>11 DEF LogRows, Latest
<1> QED
  BY <1>5, <1>7, <1>12 DEF LogInv

LEMMA StepLogInv ==
  ASSUME ReportType, LogInv, [Next]_vars
  PROVE  LogInv'
<1> USE DEF dbVars
<1>1. watch' = watch /\ IsTagTable' = IsTagTable
  BY WatchStep, WatchedSame
<1> SUFFICES ASSUME ~IsTagTable, closed' # "closed" PROVE LogInv'
  BY <1>1 DEF LogInv
<1>2. closed # "closed"
  BY DEF Next, vars, Write, Execute, Receive, CloseBegin, Drain, CloseChannels, TaskStep,
         Acquire, AcquireClosed, Send, Release, QueryTag, Check, FetchTag,
         QueryMax, SelectRows, NextRow, Fail, chanVars
<1>3. /\ OneReader /\ ReaderBehind /\ LogRows
      /\ last[Log] \in Nat /\ recent[Log] \in Nat /\ DOMAIN last = {Log}
  BY <1>2, LogParts
<1>4. CASE UNCHANGED <<recent, last, tasks, tokens, drained>> /\ Reported' = Reported
  <2>1. OneReader' /\ ReaderBehind' /\ LogRows'
    BY <1>3, <1>4 DEF OneReader, Holding, ReaderBehind, LogRows, Latest
  <2> QED
    BY <2>1 DEF LogInv
<1>5. CASE UNCHANGED vars
  BY <1>4, <1>5 DEF vars, Reported
<1>6. ASSUME NEW g \in Watched, NEW time \in 1..MaxTime, Write(g, time) PROVE LogInv'
  <2>1. UNCHANGED <<last, tasks, tokens, drained>> /\ Reported' = Reported
    BY <1>6 DEF Write, chanVars, Reported
  <2>2. recent' = [recent EXCEPT ![g] = recent[g] + 1] /\ g = Log /\ DOMAIN recent = {Log}
    BY <1>6 DEF Write, Watched, ReportType
  <2>3. recent'[Log] = recent[Log] + 1
    BY <2>2
  <2>4. ASSUME NEW k \in tasks PROVE Behind(k, last[Log], recent'[Log])
    <3>1. Behind(k, last[Log], recent[Log]) /\ k.time \in Nat
      BY <1>3, TaskFacts DEF ReaderBehind
    <3> QED
      BY <1>3, <2>3, <3>1 DEF Behind
  <2>5. ReaderBehind'
    BY <2>1, <2>4 DEF ReaderBehind
  <2>6. OneReader'
    BY <1>3, <2>1 DEF OneReader, Holding
  <2>7. \A i \in DOMAIN Reported : Reported[i].kind = "row" => Reported[i].time <= recent'[Log]
    BY <1>3, <2>3, ReportedFacts DEF LogRows
  <2>8. last[Log] <= recent'[Log]
    BY <1>3, <2>3 DEF LogRows
  <2>9. LogRows'
    BY <1>3, <2>1, <2>7, <2>8 DEF LogRows, Latest
  <2> QED
    BY <2>5, <2>6, <2>9 DEF LogInv
<1>7. CASE Execute
  <2>1. UNCHANGED <<recent, last, tokens, drained>> /\ Reported' = Reported /\ watch \in Watches
    BY <1>7 DEF Execute, ReportType, chanVars, Reported
  <2>2. tasks \subseteq tasks' /\ \A k \in tasks' \ tasks : k.at = "start"
    BY <1>7, <2>1, ExecuteTasks
  <2>3. Holding' = Holding
    BY <2>2 DEF Holding
  <2>4. OneReader'
    BY <1>3, <2>1, <2>3 DEF OneReader
  <2>5. \A k \in tasks' \ tasks : Behind(k, last[Log], recent[Log])
    BY <2>2 DEF Behind, SendsRow
  <2>6. ReaderBehind'
    BY <1>3, <2>1, <2>2, <2>5 DEF ReaderBehind
  <2>7. LogRows'
    BY <1>3, <2>1 DEF LogRows, Latest
  <2> QED
    BY <2>4, <2>6, <2>7 DEF LogInv
<1>8. CASE Receive
  <2>1. UNCHANGED <<recent, last, tasks, tokens, drained>>
    BY <1>8 DEF Receive, chanVars
  <2> QED
    BY <1>4, <1>8, <2>1, ReceiveReported
<1>9. CASE CloseBegin
  BY <1>4, <1>9 DEF CloseBegin, Reported
<1>10. CASE Drain
  <2>1. /\ tokens > 0 /\ tokens' = tokens - 1 /\ drained' = drained + 1
        /\ UNCHANGED <<recent, last, tasks>> /\ Reported' = Reported
    BY <1>10 DEF Drain, Reported
  <2>2. OneReader'
    BY <1>3, <2>1 DEF OneReader, Holding
  <2>3. ReaderBehind' /\ LogRows'
    BY <1>3, <2>1 DEF ReaderBehind, LogRows, Latest
  <2> QED
    BY <2>2, <2>3 DEF LogInv
<1>11. ~CloseChannels
  BY DEF CloseChannels
<1>12. ASSUME NEW k \in tasks, Fail(k) PROVE LogInv'
  <2>1. UNCHANGED <<recent, last, tokens, drained, received, out>> /\ k.at # "start"
    BY <1>12 DEF Fail, chanVars
  <2>2. PICK new \in TaskRecords :
          /\ Move(k, new)
          /\ \/ new.at = "send" /\ new.report.kind = "error" /\ new.then = "release"
             \/ new.at = "release"
    BY <1>12, FailTasks
  <2>3. Behind(new, last[Log], recent[Log])
    BY <2>2, NotBehind
  <2> QED
    BY <1>1, <1>2, <2>1, <2>2, <2>3, ReaderGoesOn
<1>13. ASSUME NEW k \in tasks, TaskStep(k) PROVE LogInv'
  <2>0. {"query", "release"} \subseteq Steps
    BY DEF Steps
  <2>1. CASE Acquire(k)
    <3>1. /\ GoTo(k, "query") /\ tokens > 0 /\ tokens' = tokens - 1
          /\ UNCHANGED <<recent, last, drained>> /\ Reported' = Reported
      BY <2>1 DEF Acquire, Reported
    <3>2. PICK new \in TaskRecords : Move(k, new) /\ new.at = "query"
      BY <2>0, <3>1, GoToTasks
    <3>3. Holding = {}
      BY <1>3, <3>1 DEF OneReader
    <3>4. \A j \in tasks' : j = new \/ j.at = "start"
      BY <3>2, <3>3 DEF Move, Holding
    <3>5. \A j \in Holding' : j = new
      BY <3>2, <3>4 DEF Holding
    <3>6. OneReader'
      BY <1>3, <3>1, <3>5 DEF OneReader
    <3>7. ReaderBehind'
      BY <3>2, <3>4, NotBehind, BehindMoved
    <3>8. LogRows'
      BY <1>3, <3>1 DEF LogRows, Latest
    <3> QED
      BY <3>6, <3>7, <3>8 DEF LogInv
  <2>2. ~AcquireClosed(k)
    BY <1>2 DEF AcquireClosed
  <2>3. CASE Send(k)
    BY <1>2, <2>3, SendLogInv
  <2>4. CASE Release(k)
    <3>1. /\ k.at = "release" /\ tokens' = tokens + 1 /\ tasks' = tasks \ {k}
          /\ UNCHANGED <<recent, last, drained>> /\ Reported' = Reported
      BY <1>2, <2>4 DEF Release, Reported
    <3>2. Holding' = {} /\ tokens = 0 /\ drained = 0
      BY <1>3, <3>1 DEF OneReader, Holding
    <3>3. OneReader'
      BY <3>1, <3>2 DEF OneReader
    <3>4. ReaderBehind' /\ LogRows'
      BY <1>3, <3>1 DEF ReaderBehind, LogRows, Latest
    <3> QED
      BY <3>3, <3>4 DEF LogInv
  <2>5. ~QueryTag(k) /\ ~Check(k) /\ ~FetchTag(k)
    <3>1. k.at \notin {"check", "fetch"}
      BY TaskFacts DEF Steps
    <3> QED
      BY <3>1 DEF QueryTag, Check, FetchTag
  <2>6. CASE QueryMax(k)
    BY <1>2, <2>6, QueryMaxLogInv
  <2>7. CASE SelectRows(k)
    <3>1. UNCHANGED <<recent, last, tokens, drained, received, out>> /\ k.at = "select"
      BY <2>7 DEF SelectRows, chanVars
    <3>2. PICK new \in TaskRecords : Move(k, new) /\ new.at = "rows" /\ new.time = recent[Log]
      BY <2>7, SelectRowsTasks
    <3>3. last[Log] # 0 /\ last[Log] <= recent[Log]
      BY <1>3, <3>1 DEF ReaderBehind, Behind, LogRows
    <3>4. Behind(new, last[Log], recent[Log])
      BY <1>3, <3>2, <3>3 DEF Behind, SendsRow
    <3> QED
      BY <1>1, <1>2, <3>1, <3>2, <3>4, ReaderGoesOn
  <2>8. CASE NextRow(k)
    <3>1. UNCHANGED <<recent, last, tokens, drained, received, out>> /\ k.at = "rows"
      BY <2>8 DEF NextRow, chanVars
    <3>2. PICK new \in TaskRecords :
            /\ Move(k, new)
            /\ \/ new.at = "release"
               \/ new.at = "send" /\ new.report.kind = "omit" /\ new.then = "release"
               \/ /\ last[Log] # k.time /\ new.at = "send" /\ new.report = Report("row", Log, last[Log] + 1)
                  /\ new.then = "rows" /\ new.time = k.time
      BY <2>8, NextRowTasks
    <3>3. last[Log] # 0 /\ last[Log] <= k.time /\ k.time <= recent[Log] /\ k.time \in Nat
      BY <1>3, <3>1, TaskFacts DEF ReaderBehind, Behind
    <3>4. new.at # "start"
      BY <3>2
    <3>5. CASE /\ last[Log] # k.time /\ new.at = "send" /\ new.report = Report("row", Log, last[Log] + 1)
               /\ new.then = "rows" /\ new.time = k.time
      <4>1. new.report.kind = "row" /\ new.report.time = last[Log] + 1
        BY <3>5 DEF Report
      <4>2. last[Log] + 1 <= k.time
        BY <1>3, <3>3, <3>5
      <4>3. Behind(new, last[Log], recent[Log])
        BY <3>3, <3>5, <4>1, <4>2 DEF Behind, SendsRow
      <4> QED
        BY <1>1, <1>2, <3>1, <3>2, <3>4, <4>3, ReaderGoesOn
    <3>6. CASE new.at = "release" \/ (new.at = "send" /\ new.report.kind = "omit" /\ new.then = "release")
      <4>1. Behind(new, last[Log], recent[Log])
        BY <3>6, NotBehind
      <4> QED
        BY <1>1, <1>2, <3>1, <3>2, <3>4, <4>1, ReaderGoesOn
    <3> QED
      BY <3>2, <3>5, <3>6
  <2> QED
    BY <1>13, <2>1, <2>2, <2>3, <2>4, <2>5, <2>6, <2>7, <2>8 DEF TaskStep
<1> QED
  BY <1>5, <1>6, <1>7, <1>8, <1>9, <1>10, <1>11, <1>12, <1>13 DEF Next

LEMMA InitReportInv == Init => ReportInv
<1> SUFFICES ASSUME Init PROVE ReportInv
  OBVIOUS
<1>1. ReportType /\ DOMAIN Reported = {} /\ tasks = {}
  BY InitReportType DEF Init
<1>2. TagRows /\ ReportedOnce /\ NoGap
  BY <1>1 DEF TagRows, ReportedOnce, NoGap
<1>3. ASSUME ~IsTagTable PROVE OneReader /\ ReaderBehind /\ LogRows
  <2>1. tokens = 1 /\ drained = 0 /\ Holding = {}
    BY <1>1, <1>3, WatcherAssumption DEF Init, IsTagTable, Holding, WatcherAssumption
  <2>2. last[Log] = 0 /\ recent[Log] = 0
    BY <1>3 DEF Init, Watched
  <2> QED
    BY <1>1, <2>1, <2>2 DEF OneReader, ReaderBehind, LogRows
<1> QED
  BY <1>1, <1>2, <1>3 DEF ReportInv, LogInv

LEMMA StepReportInv == ReportInv /\ [Next]_vars => ReportInv'
BY StepReportType, StepTagRows, StepLogInv, StepReportedOnce, StepNoGap DEF ReportInv

\* Ticks of a tag table may overlap, and a tag may be named twice: executeTag
\* notes the time of a row under tagLastTimeLock (watch.go:208) before it fetches
\* the row, so a row is sent once.
THEOREM ReportedOnceAlways == Spec => []ReportedOnce
<1>1. ReportInv => ReportedOnce
  BY DEF ReportInv
<1> QED
  BY <1>1, InitReportInv, StepReportInv, PTL DEF Spec

\* executeLog has the only token of a log table when it reads and notes
\* lastArrivalTime (watch.go:313): no row is left out between two that it sends,
\* whatever fails between them.
THEOREM NoGapAlways == Spec => []NoGap
<1>1. ReportInv => NoGap
  BY DEF ReportInv
<1> QED
  BY <1>1, InitReportInv, StepReportInv, PTL DEF Spec
=============================================================================
