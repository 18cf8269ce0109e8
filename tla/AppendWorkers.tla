--------------------------- MODULE AppendWorkers ---------------------------
(***************************************************************************)
(* The registry of append workers, spi/append_worker.go: one worker per    *)
(* table name, shared by every HTTP, MQTT and TQL writer through a         *)
(* reference count, with a bounded channel of rows and one goroutine that  *)
(* hands the rows to the database appender.  Workers are stopped by        *)
(* - the flusher goroutine, when nobody references an idle worker (a tick) *)
(*   or when StopAppendWorker asks for it (a control message),             *)
(* - FlushAppendWorkers, whoever references them,                          *)
(* - StopAppendWorkers at shutdown, without the lock.                      *)
(* AdminOps says which of the last three the environment performs: the     *)
(* server in service performs none of them.                                *)
(***************************************************************************)
EXTENDS Integers, Sequences, FiniteSets

CONSTANTS
  Tables,      \* lower-cased table names, the keys of `appenders`
  Clients,     \* goroutines of HTTP/MQTT/TQL writers
  Workers,     \* *AppendWorker objects that may be allocated
  QueueCap,    \* capacity of appendC, 1000 in the code
  MaxRows,     \* bound: rows of one client that `log` follows
  Endless,     \* clients that send any number of rows after those
  AdminOps,    \* subset of {"control", "flush", "shutdown"}
  None         \* nil

Stoppers == {"flusher", "flush", "shutdown"}

ASSUME AppendAssumption ==
  /\ IsFiniteSet(Clients)
  /\ QueueCap \in Nat \ {0}
  /\ MaxRows \in Nat
  /\ Endless \subseteq Clients
  /\ AdminOps \subseteq {"control", "flush", "shutdown"}
  /\ None \notin Tables \cup Workers \cup Clients \cup Stoppers

Rows == Clients \X Nat

VARIABLES
  lock,      \* holder of appendersLock; reads and writes of one action need no holder
  registry,  \* appenders: table -> worker or None
  tableOf,   \* table of an allocated worker, None before
  refs,      \* refCount
  idle,      \* time.Since(lastTime) > AppendWorkerMaxIdleTimeout
  stop,      \* appendStop is closed
  loop,      \* the worker's goroutine: "none", "select", "drain", "done"
  chan,      \* appendC: "none" before Start, "open", "closed" (then nil)
  queue,     \* rows buffered in appendC that `log` follows
  more,      \* the number of other rows buffered there
  log,       \* rows handed to client.Appender.Append, per table
  hold,      \* the worker a client got from GetAppendWorker
  pc,        \* client: "idle", "holding", "sending", "sendingMore", "stuck", "panicked"
  sent,      \* rows a client began to send, up to MaxRows
  job,       \* what each stopper is doing
  control,   \* a pending StopAppendWorker request
  shut       \* appendersFlusher is closed

workerVars == <<tableOf, refs, idle, stop, loop, chan, queue, more>>
clientVars == <<hold, pc, sent>>
stopVars   == <<job, control, shut>>
vars == <<lock, registry, workerVars, log, clientVars, stopVars>>

Ready == [phase |-> "ready", mode |-> "none", todo |-> {}, cur |-> None, del |-> {}]
Registered == {t \in Tables : registry[t] # None}
Scan(mode, tabs) ==
  [phase |-> "scan", mode |-> mode, todo |-> tabs \cap Registered, cur |-> None, del |-> {}]

Init ==
  /\ lock = None
  /\ registry = [t \in Tables |-> None]
  /\ tableOf = [w \in Workers |-> None]
  /\ refs = [w \in Workers |-> 0]
  /\ idle = [w \in Workers |-> FALSE]
  /\ stop = [w \in Workers |-> FALSE]
  /\ loop = [w \in Workers |-> "none"]
  /\ chan = [w \in Workers |-> "none"]
  /\ queue = [w \in Workers |-> <<>>]
  /\ more = [w \in Workers |-> 0]
  /\ log = [t \in Tables |-> <<>>]
  /\ hold = [c \in Clients |-> None]
  /\ pc = [c \in Clients |-> "idle"]
  /\ sent = [c \in Clients |-> 0]
  /\ job = [s \in Stoppers |-> Ready]
  /\ control = None
  /\ shut = FALSE
-----------------------------------------------------------------------------
(* Clients *)

\* mutant: the reference is not counted
GetExistingUncounted(c, t) ==
  /\ pc[c] = "idle" /\ lock = None /\ registry[t] # None
  /\ idle' = [idle EXCEPT ![registry[t]] = FALSE]
  /\ hold' = [hold EXCEPT ![c] = registry[t]]
  /\ pc' = [pc EXCEPT ![c] = "holding"]
  /\ UNCHANGED <<lock, registry, tableOf, refs, stop, loop, chan, queue, more, log, sent, stopVars>>

\* GetAppendWorker finds the worker: lastTime = now, refCount + 1
GetExisting(c, t) ==
  /\ pc[c] = "idle" /\ lock = None /\ registry[t] # None
  /\ refs' = [refs EXCEPT ![registry[t]] = @ + 1]
  /\ idle' = [idle EXCEPT ![registry[t]] = FALSE]
  /\ hold' = [hold EXCEPT ![c] = registry[t]]
  /\ pc' = [pc EXCEPT ![c] = "holding"]
  /\ UNCHANGED <<lock, registry, tableOf, stop, loop, chan, queue, more, log, sent, stopVars>>

\* mutant: the map is looked up without the lock, before the connection is made
GetNewUnlocked(c, t, w) ==
  /\ pc[c] = "idle" /\ chan[w] = "none"
  /\ registry' = [registry EXCEPT ![t] = w]
  /\ tableOf' = [tableOf EXCEPT ![w] = t]
  /\ refs' = [refs EXCEPT ![w] = 1]
  /\ loop' = [loop EXCEPT ![w] = "select"]
  /\ chan' = [chan EXCEPT ![w] = "open"]
  /\ hold' = [hold EXCEPT ![c] = w]
  /\ pc' = [pc EXCEPT ![c] = "holding"]
  /\ UNCHANGED <<lock, idle, stop, queue, more, log, sent, stopVars>>

\* GetAppendWorker opens an appender, registers a new worker and starts it
GetNew(c, t, w) ==
  /\ pc[c] = "idle" /\ lock = None /\ registry[t] = None /\ chan[w] = "none"
  /\ registry' = [registry EXCEPT ![t] = w]
  /\ tableOf' = [tableOf EXCEPT ![w] = t]
  /\ refs' = [refs EXCEPT ![w] = 1]
  /\ loop' = [loop EXCEPT ![w] = "select"]
  /\ chan' = [chan EXCEPT ![w] = "open"]
  /\ hold' = [hold EXCEPT ![c] = w]
  /\ pc' = [pc EXCEPT ![c] = "holding"]
  /\ UNCHANGED <<lock, idle, stop, queue, more, log, sent, stopVars>>

\* Append reads aw.appendC and starts the channel send
AppendBegin(c) ==
  /\ pc[c] = "holding" /\ sent[c] < MaxRows /\ chan[hold[c]] = "open"
  /\ sent' = [sent EXCEPT ![c] = @ + 1]
  /\ pc' = [pc EXCEPT ![c] = "sending"]
  /\ UNCHANGED <<lock, registry, workerVars, log, hold, stopVars>>

\* len(appendC)
Buffered(w) == Len(queue[w]) + more[w]

\* the send completes when the buffer has room
Deliver(c) ==
  LET w == hold[c] IN
  /\ pc[c] = "sending" /\ chan[w] = "open" /\ Buffered(w) < QueueCap
  /\ queue' = [queue EXCEPT ![w] = Append(@, <<c, sent[c]>>)]
  /\ pc' = [pc EXCEPT ![c] = "holding"]
  /\ UNCHANGED <<lock, registry, tableOf, refs, idle, stop, loop, chan, more, log, hold, sent, stopVars>>

\* Append and its send, for a writer that goes on after MaxRows rows
AppendMore(c) ==
  /\ pc[c] = "holding" /\ c \in Endless /\ sent[c] = MaxRows /\ chan[hold[c]] = "open"
  /\ pc' = [pc EXCEPT ![c] = "sendingMore"]
  /\ UNCHANGED <<lock, registry, workerVars, log, hold, sent, stopVars>>

DeliverMore(c) ==
  LET w == hold[c] IN
  /\ pc[c] = "sendingMore" /\ chan[w] = "open" /\ Buffered(w) < QueueCap
  /\ more' = [more EXCEPT ![w] = @ + 1]
  /\ pc' = [pc EXCEPT ![c] = "holding"]
  /\ UNCHANGED <<lock, registry, tableOf, refs, idle, stop, loop, chan, queue, log, hold, sent, stopVars>>

\* mutant: Close drops the reference twice
ReleaseTwice(c, next) ==
  /\ refs' = [refs EXCEPT ![hold[c]] = @ - 2]
  /\ hold' = [hold EXCEPT ![c] = None]
  /\ pc' = [pc EXCEPT ![c] = next]

\* AppendWorker.Close drops the reference, without the lock
ReleaseTo(c, next) ==
  /\ refs' = [refs EXCEPT ![hold[c]] = @ - 1]
  /\ hold' = [hold EXCEPT ![c] = None]
  /\ pc' = [pc EXCEPT ![c] = next]

Close(c) ==
  /\ pc[c] = "holding"
  /\ ReleaseTo(c, "idle")
  /\ UNCHANGED <<lock, registry, tableOf, idle, stop, loop, chan, queue, more, log, sent, stopVars>>

HasRow(c) == sent[c] < MaxRows \/ c \in Endless

\* a send on the channel Stop closed panics; the deferred Close still runs
SendPanic(c) ==
  /\ pc[c] \in {"sending", "sendingMore"} \/ (pc[c] = "holding" /\ HasRow(c))
  /\ chan[hold[c]] = "closed"
  /\ ReleaseTo(c, "panicked")
  /\ UNCHANGED <<lock, registry, tableOf, idle, stop, loop, chan, queue, more, log, sent, stopVars>>

\* a send on the nil appendC that Stop leaves blocks for ever
SendStuck(c) ==
  /\ pc[c] = "holding" /\ HasRow(c) /\ chan[hold[c]] = "closed"
  /\ pc' = [pc EXCEPT ![c] = "stuck"]
  /\ UNCHANGED <<lock, registry, workerVars, log, hold, sent, stopVars>>
-----------------------------------------------------------------------------
(* The goroutine of a worker *)

\* mutant: the drain takes the newest row first
TakeNewest(w) ==
  /\ queue[w] # <<>>
  /\ queue' = [queue EXCEPT ![w] = SubSeq(@, 1, Len(@) - 1)]
  /\ log' = [log EXCEPT ![tableOf[w]] = Append(@, queue[w][Len(queue[w])])]

Take(w) ==
  /\ queue[w] # <<>>
  /\ queue' = [queue EXCEPT ![w] = Tail(@)]
  /\ log' = [log EXCEPT ![tableOf[w]] = Append(@, Head(queue[w]))]

LoopAppend(w) ==
  /\ loop[w] \in {"select", "drain"}
  /\ Take(w)
  /\ UNCHANGED <<lock, registry, tableOf, refs, idle, stop, loop, chan, more, clientVars, stopVars>>

LoopMore(w) ==
  /\ loop[w] \in {"select", "drain"} /\ more[w] > 0
  /\ more' = [more EXCEPT ![w] = @ - 1]
  /\ UNCHANGED <<lock, registry, tableOf, refs, idle, stop, loop, chan, queue, log, clientVars, stopVars>>

\* mutant: appendStop is looked at only between rows
LoopBreakOnRow(w) ==
  /\ loop[w] = "select" /\ stop[w] /\ queue[w] # <<>>
  /\ loop' = [loop EXCEPT ![w] = "drain"]
  /\ UNCHANGED <<lock, registry, tableOf, refs, idle, stop, chan, queue, more, log, clientVars, stopVars>>

LoopBreak(w) ==
  /\ loop[w] = "select" /\ stop[w]
  /\ loop' = [loop EXCEPT ![w] = "drain"]
  /\ UNCHANGED <<lock, registry, tableOf, refs, idle, stop, chan, queue, more, log, clientVars, stopVars>>

\* mutant: no drain after the loop
LoopExitUndrained(w) ==
  /\ loop[w] = "drain"
  /\ loop' = [loop EXCEPT ![w] = "done"]
  /\ UNCHANGED <<lock, registry, tableOf, refs, idle, stop, chan, queue, more, log, clientVars, stopVars>>

LoopExit(w) ==
  /\ loop[w] = "drain" /\ Buffered(w) = 0
  /\ loop' = [loop EXCEPT ![w] = "done"]
  /\ UNCHANGED <<lock, registry, tableOf, refs, idle, stop, chan, queue, more, log, clientVars, stopVars>>

\* more than AppendWorkerMaxIdleTimeout passes since the last GetAppendWorker
Age(w) ==
  /\ chan[w] = "open" /\ ~idle[w]
  /\ idle' = [idle EXCEPT ![w] = TRUE]
  /\ UNCHANGED <<lock, registry, tableOf, refs, stop, loop, chan, queue, more, log, clientVars, stopVars>>
-----------------------------------------------------------------------------
(* Stopping workers *)

BeginScan(s, mode, tabs) ==
  /\ job[s].phase = "ready" /\ lock = None
  /\ lock' = s
  /\ job' = [job EXCEPT ![s] = Scan(mode, tabs)]

\* the flusher's AppendWorkerIdleCheckInterval elapsed
TickBegin ==
  /\ BeginScan("flusher", "idle", Tables)
  /\ UNCHANGED <<registry, workerVars, log, clientVars, control, shut>>

\* StopAppendWorker(t) sends on appendersControl ...
RequestStop(t) ==
  /\ "control" \in AdminOps /\ control = None
  /\ control' = t
  /\ UNCHANGED <<lock, registry, workerVars, log, clientVars, job, shut>>

\* ... and the flusher receives it
ControlBegin ==
  /\ control # None
  /\ BeginScan("flusher", "all", {control})
  /\ control' = None
  /\ UNCHANGED <<registry, workerVars, log, clientVars, shut>>

\* FlushAppendWorkers(tabs...); callers do not flush once shutdown has begun
FlushBegin(tabs) ==
  /\ "flush" \in AdminOps /\ ~shut
  /\ BeginScan("flush", "all", tabs)
  /\ UNCHANGED <<registry, workerVars, log, clientVars, control, shut>>

\* StopAppendWorkers: close(appendersFlusher) ...
ShutdownBegin ==
  /\ "shutdown" \in AdminOps /\ ~shut /\ job["flush"].phase = "ready"
  /\ shut' = TRUE
  /\ UNCHANGED <<lock, registry, workerVars, log, clientVars, job, control>>

FlusherExit ==
  /\ shut /\ job["flusher"].phase = "ready"
  /\ job' = [job EXCEPT !["flusher"].phase = "exited"]
  /\ UNCHANGED <<lock, registry, workerVars, log, clientVars, control, shut>>

\* ... then appendersFlusherWg.Wait() and Stop on every worker, no lock taken
ShutdownScan ==
  /\ job["flusher"].phase = "exited" /\ job["shutdown"].phase = "ready"
  /\ job' = [job EXCEPT !["shutdown"] = Scan("all", Tables)]
  /\ UNCHANGED <<lock, registry, workerVars, log, clientVars, control, shut>>

\* mutant: the idle check ignores refCount
StoppableWhenIdle(s, t) == job[s].mode = "all" \/ idle[registry[t]]

Stoppable(s, t) ==
  job[s].mode = "all" \/ (idle[registry[t]] /\ refs[registry[t]] = 0)

Skip(s, t) ==
  /\ t \in job[s].todo /\ job[s].cur = None /\ ~Stoppable(s, t)
  /\ job' = [job EXCEPT ![s].todo = @ \ {t}]
  /\ UNCHANGED <<lock, registry, workerVars, log, clientVars, control, shut>>

\* AppendWorker.Stop: close(appendStop), then appendWg.Wait()
StopSignal(s, t) ==
  /\ t \in job[s].todo /\ job[s].cur = None /\ Stoppable(s, t)
  /\ stop' = [stop EXCEPT ![registry[t]] = TRUE]
  /\ job' = [job EXCEPT ![s].todo = @ \ {t}, ![s].cur = t]
  /\ UNCHANGED <<lock, registry, tableOf, refs, idle, loop, chan, queue, more, log, clientVars, control, shut>>

\* mutant: no appendWg.Wait()
StopFinishNoWait(s) ==
  LET t == job[s].cur IN
  /\ t # None
  /\ chan' = [chan EXCEPT ![registry[t]] = "closed"]
  /\ job' = [job EXCEPT ![s].cur = None, ![s].del = @ \cup {t}]
  /\ UNCHANGED <<lock, registry, tableOf, refs, idle, stop, loop, queue, more, log, clientVars, control, shut>>

\* the goroutine ended: close(appendC), appendC = nil, appender.Close()
StopFinish(s) ==
  LET t == job[s].cur IN
  /\ t # None /\ loop[registry[t]] = "done"
  /\ chan' = [chan EXCEPT ![registry[t]] = "closed"]
  /\ job' = [job EXCEPT ![s].cur = None, ![s].del = @ \cup {t}]
  /\ UNCHANGED <<lock, registry, tableOf, refs, idle, stop, loop, queue, more, log, clientVars, control, shut>>

\* delete the stopped workers from the map and unlock; shutdown does neither
ScanEnd(s) ==
  /\ job[s].phase = "scan" /\ job[s].todo = {} /\ job[s].cur = None
  /\ IF s = "shutdown"
     THEN /\ job' = [job EXCEPT ![s] = [Ready EXCEPT !.phase = "exited"]]
          /\ UNCHANGED <<registry, lock>>
     ELSE /\ job' = [job EXCEPT ![s] = Ready]
          /\ registry' = [t \in Tables |-> IF t \in job[s].del THEN None ELSE registry[t]]
          /\ lock' = None
  /\ UNCHANGED <<workerVars, log, clientVars, control, shut>>
-----------------------------------------------------------------------------
ClientStep(c) ==
  \/ \E t \in Tables : GetExisting(c, t) \/ \E w \in Workers : GetNew(c, t, w)
  \/ AppendBegin(c) \/ Deliver(c) \/ AppendMore(c) \/ DeliverMore(c)
  \/ Close(c) \/ SendPanic(c) \/ SendStuck(c)

LoopStep(w) == LoopAppend(w) \/ LoopMore(w) \/ LoopBreak(w) \/ LoopExit(w)

ScanStep(s) ==
  \/ \E t \in Tables : Skip(s, t) \/ StopSignal(s, t)
  \/ StopFinish(s) \/ ScanEnd(s)

AdminStep ==
  \/ \E t \in Tables : RequestStop(t)
  \/ ControlBegin
  \/ \E tabs \in SUBSET Tables : FlushBegin(tabs)
  \/ ShutdownBegin \/ FlusherExit \/ ShutdownScan

Next ==
  \/ \E c \in Clients : ClientStep(c)
  \/ \E w \in Workers : LoopStep(w) \/ Age(w)
  \/ \E s \in Stoppers : ScanStep(s)
  \/ TickBegin
  \/ AdminStep

Spec == Init /\ [][Next]_vars

\* Goroutines that can run do run, time passes, the flusher's timer fires, and
\* a handler that has nothing more to send ends (Close is deferred).  select
\* chooses at random among what is ready: appendStop is not passed over for ever.
Fairness ==
  /\ \A w \in Workers : WF_vars(LoopAppend(w)) /\ WF_vars(LoopMore(w)) /\ WF_vars(LoopBreak(w))
                        /\ WF_vars(LoopExit(w)) /\ WF_vars(Age(w))
  /\ \A s \in Stoppers : WF_vars(ScanStep(s))
  /\ WF_vars(TickBegin)
  /\ \A c \in Clients : WF_vars(Deliver(c)) /\ WF_vars(DeliverMore(c))
                        /\ WF_vars(Close(c))

FairSpec == Spec /\ Fairness
-----------------------------------------------------------------------------
(* Properties *)

Jobs == [phase : {"ready", "scan", "exited"}, mode : {"none", "idle", "all"},
         todo : SUBSET Tables, cur : Tables \cup {None}, del : SUBSET Tables]

TypeOK ==
  /\ lock \in Stoppers \cup {None}
  /\ registry \in [Tables -> Workers \cup {None}]
  /\ tableOf \in [Workers -> Tables \cup {None}]
  /\ refs \in [Workers -> Nat]
  /\ idle \in [Workers -> BOOLEAN]
  /\ stop \in [Workers -> BOOLEAN]
  /\ loop \in [Workers -> {"none", "select", "drain", "done"}]
  /\ chan \in [Workers -> {"none", "open", "closed"}]
  /\ queue \in [Workers -> Seq(Rows)]
  /\ more \in [Workers -> Nat]
  /\ log \in [Tables -> Seq(Rows)]
  /\ hold \in [Clients -> Workers \cup {None}]
  /\ pc \in [Clients -> {"idle", "holding", "sending", "sendingMore", "stuck", "panicked"}]
  /\ sent \in [Clients -> Nat]
  /\ job \in [Stoppers -> Jobs]
  /\ control \in Tables \cup {None}
  /\ shut \in BOOLEAN

\* A worker's reference count is the number of writers that hold it: the
\* flusher trusts refCount = 0 to mean that nobody will send on appendC.
RefCountExact == \A w \in Workers : refs[w] = Cardinality({c \in Clients : hold[c] = w})

\* As long as only the flusher's idle check stops workers, a writer that holds
\* a worker holds the registered one, and nobody has begun to stop it.
HeldIsServed ==
  \A c \in Clients : hold[c] # None =>
    /\ chan[hold[c]] = "open" /\ ~stop[hold[c]]
    /\ registry[tableOf[hold[c]]] = hold[c]

\* ... so no send ever meets a closed or nil channel, and Stop, which closes
\* the channel after the goroutine drained it, leaves no row behind.
NoRowStranded ==
  /\ \A w \in Workers : chan[w] = "closed" => Buffered(w) = 0
  /\ \A c \in Clients : pc[c] \notin {"stuck", "panicked"}

\* Whoever stops workers, a table never has two open appenders: a new one is
\* opened after Stop has returned for the one before.
OneAppenderPerTable ==
  \A w1, w2 \in Workers :
    chan[w1] = "open" /\ chan[w2] = "open" /\ tableOf[w1] = tableOf[w2] => w1 = w2

\* Across the generations of a table's worker, the rows of one writer reach
\* the appender in the order they were sent, none of them twice.
RowsInOrder ==
  \A t \in Tables : \A i, j \in 1..Len(log[t]) :
    i < j /\ log[t][i][1] = log[t][j][1] => log[t][i][2] < log[t][j][2]

\* A worker nobody references is stopped by the idle check, or used again.
IdleReaped ==
  \A w \in Workers : chan[w] = "open" /\ refs[w] = 0 ~> chan[w] = "closed" \/ refs[w] > 0

\* Every stop returns and gives the lock back, unless a writer goes on filling
\* the channel of the worker being stopped: the drain runs while len(appendC) > 0
\* and does not hinder anybody from sending.
StopReturns ==
  \A s \in Stoppers :
    \/ []<>(job[s].phase # "scan")
    \/ []<><<\E c \in Clients : DeliverMore(c) /\ loop[hold[c]] = "drain">>_vars

Abstract == INSTANCE AppendLog WITH
  pending <- [t \in Tables |-> IF registry[t] = None THEN <<>> ELSE queue[registry[t]]],
  count <- [c \in Clients |-> IF pc[c] = "sending" THEN sent[c] - 1 ELSE sent[c]]

\* In service, the workers implement the append log: every accepted row
\* reaches the table's appender once, in order, and it does eventually.
ImplementsAppendLog == Abstract!FairSpec
============================================================================
