------------------------------ MODULE Watcher ------------------------------
(***************************************************************************)
(* Table watcher, spi/watch.go, with the handler that drives it, the loop  *)
(* of mods/server/http_query.go: Execute on every tick, receive from C,    *)
(* Close at the end.  parallelCh is a bag of tokens: a task takes one, and *)
(* Close takes them all before it closes the channels.                     *)
(* The database is external: times and arrival times are numbers.          *)
(***************************************************************************)
EXTENDS Integers, Sequences, FiniteSets, SequencesExt

CONSTANTS
  Watches,      \* configurations a watcher is made with (WatcherConfig), one is chosen
  Log,          \* stands for the tag of a log table
  MaxTagTime,   \* bound: times of tag rows
  MaxLogRows,   \* bound: rows of a log table
  MaxWrites,    \* bound: rows written to a tag table
  MaxFails,     \* bound: failed queries
  MaxTagTasks,  \* bound: tasks of a tag table that have not finished
  MaxLogTasks   \* bound: those of a log table

\* a tag may be named twice
ASSUME WatcherAssumption ==
  /\ \A w \in Watches :
       /\ w.isTag \in BOOLEAN /\ Log \notin Range(w.names) /\ w.names \in Seq(Range(w.names))
       /\ w.parallelism \in 1..(IF w.isTag THEN Len(w.names) ELSE 1)
       /\ w.chanSize \in Nat \ {0} /\ w.maxRowNum \in 1..100
  /\ MaxTagTime \in Nat /\ MaxLogRows \in Nat
  /\ MaxWrites \in Nat /\ MaxFails \in Nat
  /\ MaxTagTasks \in Nat /\ MaxLogTasks \in 0..MaxTagTasks

VARIABLES
  watch,     \* w.WatcherConfig
  recent,    \* database: recent_row_time of a tag, or the last arrival time
  last,      \* w.tagLastTime, or w.lastArrivalTime for Log; 0 when not set
  tasks,     \* goroutines of executeTag and executeLog
  tokens,    \* len(w.parallelCh)
  drained,   \* tokens Close has taken
  closed,    \* "open", "closing", "closed": both channels are closed
  out,       \* w.out
  received,  \* what the handler has received
  panicked,  \* somebody sent on a closed channel
  writes, fails

vars == <<watch, recent, last, tasks, tokens, drained, closed, out, received, panicked, writes, fails>>
dbVars == <<watch, recent, writes>>
chanVars == <<tokens, drained, closed, panicked>>

IsTagTable == watch.isTag
Watched == IF IsTagTable THEN Range(watch.names) ELSE {Log}
MaxTasks == IF IsTagTable THEN MaxTagTasks ELSE MaxLogTasks
MaxTime == IF IsTagTable THEN MaxTagTime ELSE MaxLogRows

Report(kind, tag, time) == [kind |-> kind, tag |-> tag, time |-> time]

Init ==
  /\ watch \in Watches
  /\ recent = [g \in Watched |-> 0]
  /\ last = [g \in Watched |-> 0]
  /\ tasks = {}
  /\ tokens = watch.parallelism /\ drained = 0
  /\ closed = "open"
  /\ out = <<>> /\ received = <<>>
  /\ panicked = FALSE
  /\ writes = 0 /\ fails = 0
-----------------------------------------------------------------------------
(* The database: tag rows come in any order, log rows in arrival order *)

Write(g, time) ==
  /\ IF IsTagTable THEN writes < MaxWrites /\ time # recent[g] ELSE time = recent[g] + 1
  /\ recent' = [recent EXCEPT ![g] = time]
  /\ writes' = IF IsTagTable THEN writes + 1 ELSE writes
  /\ UNCHANGED <<watch, last, tasks, chanVars, out, received, fails>>
-----------------------------------------------------------------------------
(* The handler *)

\* A task: its tag, a number that tells tasks apart, the step it is at, the time
\* it read (for Log the last row of its query), the rows sent, the report to
\* send and the step that follows.
NewTask(g, n) ==
  [tag |-> g, id |-> n, at |-> "start", time |-> 0, rows |-> 0, report |-> Report("none", g, 0), then |-> "release"]

\* one goroutine for every name, or one that reads the log if none is at work
Execute ==
  LET names == IF IsTagTable THEN watch.names ELSE <<Log>>
      free == SetToSeq({n \in 1..MaxTasks : \A k \in tasks : k.id # n}) IN
  /\ closed = "open" /\ Len(names) <= Len(free)
  /\ IsTagTable \/ tokens > 0
  /\ tasks' = tasks \cup {NewTask(names[i], free[i]) : i \in DOMAIN names}
  /\ UNCHANGED <<dbVars, last, chanVars, out, received, fails>>

Receive ==
  /\ closed = "open" /\ out # <<>>
  /\ received' = Append(received, Head(out))
  /\ out' = Tail(out)
  /\ UNCHANGED <<dbVars, last, tasks, chanVars, fails>>

CloseBegin ==
  /\ closed = "open"
  /\ closed' = "closing"
  /\ UNCHANGED <<dbVars, last, tasks, tokens, drained, panicked, out, received, fails>>

Drain ==
  /\ closed = "closing" /\ drained < watch.parallelism /\ tokens > 0
  /\ tokens' = tokens - 1 /\ drained' = drained + 1
  /\ UNCHANGED <<dbVars, last, tasks, closed, panicked, out, received, fails>>

\* mutant: Close closes the channels when one token is left
CloseEarly ==
  /\ closed = "closing" /\ drained >= watch.parallelism - 1
  /\ closed' = "closed"
  /\ UNCHANGED <<dbVars, last, tasks, tokens, drained, panicked, out, received, fails>>

CloseChannels ==
  /\ closed = "closing" /\ drained = watch.parallelism
  /\ closed' = "closed"
  /\ UNCHANGED <<dbVars, last, tasks, tokens, drained, panicked, out, received, fails>>
-----------------------------------------------------------------------------
(* What executeTag and executeLog have in common *)

Move(k, new) == tasks' = (tasks \ {k}) \cup {new}
GoTo(k, at) == Move(k, [k EXCEPT !.at = at])
Say(k, report, then) == [k EXCEPT !.at = "send", !.report = report, !.then = then]

Acquire(k) ==
  /\ k.at = "start" /\ tokens > 0
  /\ tokens' = tokens - 1
  /\ GoTo(k, "query")
  /\ UNCHANGED <<dbVars, last, drained, closed, panicked, out, received, fails>>

\* a receive from the closed channel returns at once: executeTag ends,
\* executeLog does not look at the result
AcquireClosed(k) ==
  /\ k.at = "start" /\ tokens = 0 /\ closed = "closed"
  /\ IF IsTagTable THEN tasks' = tasks \ {k} ELSE GoTo(k, "query")
  /\ UNCHANGED <<dbVars, last, chanVars, out, received, fails>>

\* mutant: an error ends the task without giving the token back
FailLeaks(k) ==
  /\ k.at \in {"query", "fetch", "rows"} /\ fails < MaxFails
  /\ fails' = fails + 1
  /\ tasks' = tasks \ {k}
  /\ UNCHANGED <<dbVars, last, chanVars, out, received>>

\* a connection, query or scan error is reported and ends the task; that of the
\* first query of executeTag is dropped
Fail(k) ==
  /\ k.at \in {"query", "fetch", "rows"} /\ fails < MaxFails
  /\ fails' = fails + 1
  /\ \/ Move(k, Say(k, Report("error", k.tag, k.time), "release"))
     \/ IsTagTable /\ k.at = "query" /\ GoTo(k, "release")
  /\ UNCHANGED <<dbVars, last, chanVars, out, received>>

Send(k) ==
  /\ k.at = "send"
  /\ IF closed = "closed" THEN panicked' = TRUE /\ UNCHANGED <<out, tasks, last>>
     ELSE /\ Len(out) < watch.chanSize
          /\ out' = Append(out, k.report)
          /\ GoTo(k, k.then)
          /\ last' = IF IsTagTable \/ k.report.kind = "error" THEN last
                     ELSE [last EXCEPT ![Log] = IF k.report.kind = "row" THEN k.report.time ELSE 0]
          /\ UNCHANGED panicked
  /\ UNCHANGED <<dbVars, tokens, drained, closed, received, fails>>

Release(k) ==
  /\ k.at = "release"
  /\ IF closed = "closed" THEN panicked' = TRUE /\ UNCHANGED <<tokens, tasks>>
     ELSE tokens' = tokens + 1 /\ tasks' = tasks \ {k} /\ UNCHANGED panicked
  /\ UNCHANGED <<dbVars, last, drained, closed, out, received, fails>>
-----------------------------------------------------------------------------
(* executeTag *)

QueryTag(k) ==
  /\ k.at = "query" /\ IsTagTable
  /\ IF recent[k.tag] = 0 THEN GoTo(k, "release")
     ELSE Move(k, [k EXCEPT !.at = "check", !.time = recent[k.tag]])
  /\ UNCHANGED <<dbVars, last, chanVars, out, received, fails>>

\* mutant: the time that was read is not noted
CheckOnly(k) ==
  /\ k.at = "check"
  /\ GoTo(k, IF k.time > last[k.tag] THEN "fetch" ELSE "release")
  /\ UNCHANGED <<dbVars, last, chanVars, out, received, fails>>

\* mutant: the time noted is the latest there is, not the one that was read
CheckLatest(k) ==
  /\ k.at = "check"
  /\ IF k.time > last[k.tag]
     THEN last' = [last EXCEPT ![k.tag] = recent[k.tag]] /\ GoTo(k, "fetch")
     ELSE UNCHANGED last /\ GoTo(k, "release")
  /\ UNCHANGED <<dbVars, chanVars, out, received, fails>>

\* under tagLastTimeLock
Check(k) ==
  /\ k.at = "check"
  /\ IF k.time > last[k.tag]
     THEN last' = [last EXCEPT ![k.tag] = k.time] /\ GoTo(k, "fetch")
     ELSE UNCHANGED last /\ GoTo(k, "release")
  /\ UNCHANGED <<dbVars, chanVars, out, received, fails>>

FetchTag(k) ==
  /\ k.at = "fetch"
  /\ Move(k, Say(k, Report("row", k.tag, k.time), "release"))
  /\ UNCHANGED <<dbVars, last, chanVars, out, received, fails>>
-----------------------------------------------------------------------------
(* executeLog *)

\* select max(_ARRIVAL_TIME), when there is no last one yet
QueryMax(k) ==
  /\ k.at = "query" /\ ~IsTagTable
  /\ last' = IF last[Log] = 0 THEN recent ELSE last
  /\ GoTo(k, IF last'[Log] = 0 THEN "release" ELSE "select")
  /\ UNCHANGED <<dbVars, chanVars, out, received, fails>>

\* the rows after last, up to the latest at this time
SelectRows(k) ==
  /\ k.at = "select"
  /\ Move(k, [k EXCEPT !.at = "rows", !.time = recent[Log]])
  /\ UNCHANGED <<dbVars, last, chanVars, out, received, fails>>

\* mutant: the loop stops at MaxRowNum rows without a word
NextRowSilent(k) ==
  /\ k.at = "rows"
  /\ IF last[Log] = k.time THEN GoTo(k, "release") /\ UNCHANGED last
     ELSE IF k.rows = watch.maxRowNum THEN GoTo(k, "release") /\ last' = [last EXCEPT ![Log] = 0]
     ELSE UNCHANGED last /\ Move(k, Say([k EXCEPT !.rows = @ + 1], Report("row", Log, last[Log] + 1), "rows"))
  /\ UNCHANGED <<dbVars, chanVars, out, received, fails>>

NextRow(k) ==
  /\ k.at = "rows"
  /\ IF last[Log] = k.time THEN GoTo(k, "release")
     ELSE Move(k, IF k.rows = watch.maxRowNum THEN Say(k, Report("omit", Log, 0), "release")
                  ELSE Say([k EXCEPT !.rows = @ + 1], Report("row", Log, last[Log] + 1), "rows"))
  /\ UNCHANGED <<dbVars, last, chanVars, out, received, fails>>
-----------------------------------------------------------------------------
TaskStep(k) ==
  \/ Acquire(k) \/ AcquireClosed(k) \/ Send(k) \/ Release(k)
  \/ QueryTag(k) \/ Check(k) \/ FetchTag(k)
  \/ QueryMax(k) \/ SelectRows(k) \/ NextRow(k)

Next ==
  /\ ~panicked
  /\ \/ \E g \in Watched, time \in 1..MaxTime : Write(g, time)
     \/ Execute \/ Receive \/ CloseBegin \/ Drain \/ CloseChannels
     \/ \E k \in tasks : TaskStep(k) \/ Fail(k)

Spec == Init /\ [][Next]_vars

\* The ticker goes on, goroutines run, and a channel serves waiting receivers
\* and senders in order.  Nobody has to close the watcher or write a row.
Fairness ==
  /\ WF_vars(Execute) /\ WF_vars(Receive) /\ SF_vars(Drain) /\ WF_vars(CloseChannels)
  /\ \A n \in 1..MaxTagTasks : SF_vars(\E k \in tasks : k.id = n /\ TaskStep(k))

FairSpec == Spec /\ Fairness
-----------------------------------------------------------------------------
(* Properties *)

Reported == received \o out

\* "drain the channel, waiting for all goroutines to finish" (watch.go:74): no
\* task sends on the closed channels, out or parallelCh.
NoSendAfterClose == ~panicked

\* The same of the tasks of a tag table, which take a token before they query.
TagTasksEndFirst == IsTagTable => ~panicked

\* Overlapping executeTag of one tag report a row of it once.
ReportedOnce ==
  \A i, j \in DOMAIN Reported :
    Reported[i] = Reported[j] /\ Reported[i].kind = "row" => i = j

\* A newer row of a tag is reported, or the error that came instead, unless the
\* watcher has noted one still newer, another row has come or it is closed.
NewerReported ==
  \A g \in UNION {Range(w.names) : w \in Watches}, time \in 1..MaxTagTime :
    IsTagTable /\ closed = "open" /\ recent[g] = time /\ last[g] < time
      ~> \/ ~IsTagTable \/ closed # "open" \/ recent[g] # time \/ last[g] > time
         \/ \E i \in DOMAIN Reported : Reported[i].tag = g /\ Reported[i].time = time

\* Rows of a log table are reported in arrival order and without a gap, across
\* ticks and failed queries, except where "too many changes" was reported.
NoGap ==
  ~IsTagTable =>
    \A i, j \in DOMAIN Reported :
      /\ i < j /\ Reported[i].kind = "row" /\ Reported[j].kind = "row"
      /\ \A m \in i + 1..j - 1 : Reported[m].kind = "error"
      => Reported[j].time = Reported[i].time + 1

\* Close returns: every task gives its token back, when out has room.
CloseReturns == (IsTagTable /\ closed = "closing") ~> (closed = "closed")
=============================================================================
