# machbase-neo server: a TLA+ verification project

machbase-neo is a Go server around the machbase time series engine. It serves
SQL, the transformation language TQL, bulk writes and a web console over HTTP,
MQTT and SSH, and it runs JavaScript services as child processes. This directory
models the concurrent core of the server in TLA+, checks the models with TLC on
small instances, and proves the most important results with TLAPS for every
value of the constants. `src/` below is the root of the repository.

## 1. Inventory

### 1.1 Components that are modelled

| component | source | state | operations |
|---|---|---|---|
| append workers | `spi/append_worker.go` | `appenders` (table → worker) under `appendersLock`; per worker a reference count, the time of last use, a stop channel, a bounded channel of rows, one goroutine | `GetAppendWorker`, `Append`, `Close`, the idle check of the flusher, `StopAppendWorker`, `FlushAppendWorkers`, `StopAppendWorkers` |
| service controller | `jsh/service/controller.go`, `service.go`; routes in `mods/server/proxy_rpc.go` | the table of services under `ctl.mu` (config, status, child process, stop channel, client id), the last `Read`, shared file handles, proxy routes | start, stop, install, uninstall, `Read`, `Update`, `Reload`, `Stop`; the goroutine that waits for a process |
| event bus | `mods/eventbus/bus.go` | handlers per topic under `bus.lock`, one mutex per handler, a wait group | subscribe (sync, async, transactional, once), unsubscribe, publish, `WaitAsync` |
| web console | `mods/server/http_ws.go` | connection, message buffer, `closeOnce`, `connMutex` | `Send`, `flushLoop`, the reader, `Close`; its callback is a transactional handler of the bus |
| table watcher | `spi/watch.go`, the loop of `mods/server/http_query.go` | `parallelCh` (tokens), the channel of reports, the last time of each tag, the last arrival time of a log table | `Execute`, `executeTag`, `executeLog`, `Close` |
| scheduler, NATS bridge | `mods/scheduler`, `mods/bridge/nats.go`, `registry.go` | the stored definitions, the registry of entries under its lock, an entry's state, its cron entry or subscription; per bridge the subscriptions under `subscriberLock`, `alive`, the connection | add, update, delete, start, stop of a schedule; runs of its task, a task that fails; `Subscribe`, `Unsubscribe`, the goroutine of a subscription, a broker that goes away, the removal of the bridge |
| tailer | `mods/util/tailer/tail.go`, `watcher.go` | the open file with position, size and inode, the channel of lines, the stop channel | the poll, `readLines`, `openFile`, `Stop`; a writer that appends, rotates and truncates |
| TQL pipeline | `mods/tql/task.go`, `task_node.go`, `task_output.go` | one goroutine and one unbuffered channel per node, `_shouldStop`, the context | `Execute`, the loops of source, maps and output, circuit break, `Cancel` |

How they interact: HTTP, MQTT and TQL writers are the clients of the append
workers. The controller calls the lifecycle hook of the proxy manager when an
instance of a service ends. Every web console subscribes a method of its own to
the event bus, publishers are the loggers and RPC handlers of the server. A
watch request creates a watcher, ticks it and closes it when its peer leaves. A
TQL request compiles a script to nodes, runs them and cancels them when the
client leaves; timers and subscribers of the scheduler run them without that. A
subscriber of the scheduler is a subscription of a bridge, whose goroutine runs
the task and may stop the entry it belongs to. The console page of the server's
logs reads a tail and stops it when its peer leaves.

Hard behaviour, and what makes each component correct:

- *Append workers.* `Close` drops the reference count without the lock and a
  writer sends on the row channel without the lock, while the flusher decides by
  the count whether it may close that channel. Correct means: the count is the
  number of holders, nobody in service meets a stopped worker, rows reach the
  table once and in order, an idle worker is stopped, a stop returns unless a writer
  feeds its drain for ever.
- *Service controller.* The goroutine that waits for a child takes `ctl.mu` some
  time after the child died; meanwhile the service may be stopped, restarted,
  replaced or removed, and a stop waits for that goroutine with the lock held.
  The processes ask for shared files and routes by RPC, and the goroutine that
  serves a request looks neither at the lock nor at the process. Correct means:
  every process that runs can be found and stopped by name, a goroutine of an
  earlier life writes nothing, the routes and handles that a process has when it
  is cleaned up after are freed, no operation keeps the lock, nothing survives a
  shutdown.
- *Event bus.* `Publish` unlocks the bus while it waits for a transactional
  handler, and goes on over a copy; callbacks unsubscribe themselves. Correct
  means: order per publisher, nobody is missed or removed by mistake, the wait
  group is exact, `Publish` returns.
- *Web console.* Three goroutines may find the connection broken and close the
  console while a publisher waits for its handler. Correct means: merging and
  buffering lose nothing, a buffered line is written, a dead console ends and is
  unsubscribed.
- *Table watcher.* Ticks overlap, the time of a row is read before the lock, and
  `Close` collects tokens while tasks start. Correct means: no send after the
  close, each row once, none missing, `Close` returns.
- *TQL pipeline.* A chain of rendezvous in which any link may stop early: TAKE,
  an error, a panic, a sink that fails, a client that leaves, a context that
  ends. Correct means: no send on a closed channel, a break stops the source and
  loses no row, `Execute` returns.

- *Scheduler and NATS bridge.* The task of an entry runs in a goroutine of the
  cron or of the subscription and stops its own entry when it fails, while an
  administrator stops, replaces or deletes that entry; a subscription ends by a
  rendezvous on its signal channel, with a lock held. Correct means: what runs is
  what the registry says is running, a stopped entry begins no run, whoever
  signals a subscription is answered.
- *Tailer.* The path is looked at three times in one poll (`os.Stat`, the open for
  the file id, the open for the line boundary) and may be another file each time.
  Correct means: lines in order, once, whole, none left out; `Stop` returns
  though nobody reads.

### 1.2 Components that are not modelled yet

| component | source | why, or when |
|---|---|---|
| JSON-RPC and shared file system of the controller | `jsh/service/rpc*.go`, `jsh/engine/fs_controller.go` | in the plan; `ServiceController` has who owns a handle, and no more |
| metrics collector | `mods/util/metric`, `mods/server/svrmetric.go`, `spi/metrics.go` | in the plan |
| other bridges, backup, snowflake ids | `mods/bridge`, `mods/backup`, `mods/util/snowflake` | SQL bridges are drivers, MQTT has no goroutine of its own; backup and ids are in the plan |
| proxy manager | `mods/server/proxy_manager.go` | routes and their removal are in `ServiceController`; matching and forwarding are not |
| TQL functions, expressions, result cache, SCRIPT nodes | `mods/tql` | data transformations; cache and SCRIPT are listed as hazards |
| LLM RPC | `jsh/service/rpc_llm.go` | a dialogue with external services |
| jsh engine, libraries, programs, charts, session | `jsh/engine`, `jsh/lib`, `jsh/sbin`, `jsh/usr`, `jsh/viz`, `jsh/session` | sequential JavaScript programs and bindings of libraries |
| database access, SHOW commands, tokens | `spi/database.go`, `spi/show.go` | `database/sql` pools, queries, cryptography |
| HTTP, MQTT and SSH servers | `mods/server/http*.go`, `mqtt*.go`, `ssh*.go` | handlers without shared state around the components above |
| server life cycle, management, keys, authentication, configuration | `mods/server/server.go`, `svr*.go`, `machbase_conf.go` | sequential administration |
| model provider, codecs, language server, numeric library, utilities, logging, booter, commands, build, documents | the remaining directories of `mods`, `booter`, `cmd`, `magefiles`, `docs` | no concurrent control, or no code of the server |

## 2. Plan

1. Append workers with their abstract specification and their theorems (done).
2. Service controller (done); event bus with its first theorem, and web consoles
   composed with it (done).
3. Table watcher and TQL pipeline, each with its first theorem (done).
4. Scheduler and NATS bridge (done); tailer (done).
5. Shared file handles of the controller (`jsh/service/rpc.go`): optimistic
   conflict check on flush, appends, a memory file system restored when the write
   behind it fails; then the RPC connections: slots, requests that outlive
   `stopRPC`, client ids.
6. Result cache (hits, one preemptive update, expiry) and SCRIPT nodes, beside
   `TaskPipeline`.
7. MQTT subscribers and the rows a subscriber writes, which makes it a client of
   the append workers; `MultiTail`; metrics collector (start, stop, bounded
   channel); snowflake (a clock that steps back) as operators checked against a
   reference definition.
8. Abstract specifications still to state: a bus as a set of queues, of which
   `EventBus` is an implementation; a pipeline as one function from rows to
   rows; the controller as a map from names to at most one process.
9. Theorems: append workers with the implementation of `AppendLog`, controller, bus,
   consoles, watcher, pipeline, scheduler and tailer (done): every safety property that a
   passing run checks is one. Still to prove: those of the modules of 5 to 8.

## 3. Modules

| module | models | extends or instantiates |
|---|---|---|
| `AppendLog` | what the append workers promise: an accepted row is stored once, in order | |
| `AppendWorkers` | `spi/append_worker.go` | instance of `AppendLog` |
| `AppendWorkersProofs` | theorems | `AppendWorkers` |
| `ServiceController` | `jsh/service/controller.go` | |
| `ServiceControllerProofs` | theorems | `ServiceController` |
| `EventBus` | `mods/eventbus/bus.go` | |
| `EventBusProofs` | theorems | `EventBus` |
| `WebConsole` | `mods/server/http_ws.go` | `EventBus` |
| `WebConsoleProofs` | theorems | `WebConsole` |
| `Watcher` | `spi/watch.go` | |
| `WatcherProofs` | theorems | `Watcher` |
| `Schedules` | `mods/scheduler`, `mods/bridge/nats.go` | |
| `SchedulesProofs` | theorems | `Schedules` |
| `Tailer` | `mods/util/tailer/tail.go` | |
| `TailerProofs` | theorems | `Tailer` |
| `TaskPipeline` | `mods/tql/task*.go` | |
| `TaskPipelineProofs` | theorems | `TaskPipeline` |
| `MC...` | values of the constants for TLC | the module of that name |

### AppendWorkers

`registry`, `tableOf`, `refs`, `idle`, `stop`, `loop`, `chan`, `queue` are the map
and the fields of the workers, `log` is what the database appender was given,
`hold`, `pc`, `sent` are the writers, `job` is the goroutine of each stopper.
`MaxRows` bounds the rows of a writer that `queue` and `log` tell apart. A writer
in `Endless` sends any number after them; these are only counted, in `more`, and fill
the channel like the others (`AppendMore`, `DeliverMore`, `LoopMore`). Without them
the bound would end every drain, which the code does not.
`GetExisting` and `GetNew` are the two branches of `GetAppendWorker`; `AppendBegin`
and `Deliver` the start and the end of a send that may block; `Close` is `Close`.
`LoopAppend`, `LoopBreak`, `LoopExit` are the goroutine of a worker with its
drain. A stop is `StopSignal` (close of the stop channel) and `StopFinish` (wait,
close of the row channel, which becomes nil). The flusher's tick and control
message, `FlushAppendWorkers` and `StopAppendWorkers` differ in who is stopped
and whether the lock is held; the last one takes no lock, as in the code. Parts
of a scan that run under `appendersLock` and touch nothing that is used without
it are single steps. Sends on a nil or closed channel are `SendStuck` and
`SendPanic`. Time is the flag `idle`, set by `Age` and cleared by a get.

### ServiceController

`disk` is the directory of configurations, `seen` and `reread` the last `Read`,
`config`, `status`, `cmd`, `stopCh`, `client` the fields of a service, `phase`,
`owner`, `link`, `killed` the processes. `link` says whether the struct the
goroutine of a process points to is the one in the table, one that was detached
last, or an older one: structs are replaced while their goroutines live. An
operation under `ctl.mu` is a list of tasks in `todo`, worked off one by one, and
the lock is free when the list is empty. A process goes from running through
`Exit` (`cmd.Wait` returned), `Signal` (`stopCh` closed before the lock, as the
comment in the code demands), `Settle` (under the lock, the test for the active
instance, the handles) and `Report` (the lifecycle hook, after the lock). A
process that runs sends a request (`Ask`); the goroutine of `serveRPCConn` does
what it asks for (`OpenFD`, `RegisterProxy`) at any time after that, also when the
process has died and `Settle` and `Report` are over. `late` is a history
variable: the requests of the last kind, whose handle or route nobody removes.

### EventBus and WebConsole

`Publish` is a program counter, a copy of the handlers and an index; each
`doPublishAsync` is a member of `calls`. `PubUnlock`, `PubAcquire` and `PubRelock`
are the window in which the bus is unlocked for a transactional handler. Handlers
are found by the pointer of their function (`Fn`), which all method values of one
method share. `WebConsole` replaces the body of the callback by `Send`: `SendEvent`
for a message, `SendNil` for the flusher, with the merging of equal log lines, and
adds `CloseFirst`, `CloseUnsubscribe`, `CloseAgain` for the three goroutines
that may close. Answers to ping and RPC requests, written under the same mutex,
are left out.

### Watcher

A task is a record with a program counter: `Acquire` takes a token, `QueryTag`
reads the time of the last row, `Check` compares under `tagLastTimeLock`,
`FetchTag` reads the row, `Send` waits for room in `out`, `Release` gives the
token back; `QueryMax`, `SelectRows`, `NextRow` are those of a log table. `Fail` is
an error at any of the queries. `Drain`, `CloseBegin` and `CloseChannels` are
`Close`. A send on a closed channel sets `panicked`, and the process stops there.

A watch is a record in `watch`, chosen from the constant `Watches` at the start:
what is watched, how many tokens there are, how much room the channel has and how
many rows one query may return.

### Schedules

One schedule, since schedules share only the registry lock. `registry` is the
registered entry and `entries` every entry there has been: `Register` replaces an
entry, and goroutines go on with the old one. `feeds` are the cron entries and
the subscriptions, `act` is what each goroutine does: a management request, a task that
cron started, the goroutine of a subscription, or `run` of the NATS bridge. A subscription
calls its task in its one goroutine (`RunTask`); cron starts a goroutine per tick, also
while earlier ones run (`Tick`, in one of `Jobs`), so two runs of one cron entry may fail
and stop their entry side by side. `Register`, `Replace` and
`Unregister` hold `registryLock`, with the `Stop` and `Start` they call inside;
`StartSchedule`, `StopSchedule` and a task that fails call `Start` and `Stop` of
the entry without it. Every write of the state, the bridge and the subscription
is a step, and so is the read of the state in the deferred function of `TimerEntry.Stop`
(`CheckStopped`, then `Restore`). `LockSubscribers` and `Signal` are `Unsubscribe`, a rendezvous on
`sigChan` with `subscriberLock` held; `LockToClose`, `Sweep` and `CloseConn` are
the end of a bridge. `UpdateSchedule` registers a timer whatever the schedule was,
as the code does.

Two history variables name what the code leaves undecided. `irregular` is set by
the things after which state and cron entry need not agree: a `Start` beside
another operation on the entry or on one that runs (the id of the first cron entry
is lost), the deferred function of `TimerEntry.Stop` that writes `RUNNING` or `STARTING`
back, an entry that runs when it is replaced, if it or the new one is a subscriber
(only a timer that replaces a timer stops it), a subscriber that is stopped while
the broker is away, a bridge that is deleted under a subscription. `blockable` is set by the
things after which a call may wait for ever: a failing task of a subscription, an
`Unsubscribe` that meets a subscription which is ending, a bridge deleted while a
callback runs. The invariants hold as long as the flag is down, so the flags are
the complete list of the ways out; what the code does after one of them was raised, no
property says.

### Tailer

A file is a sequence of writes, each with or without the end of its line; `files`
has all that have been at the path and `path` says which one is there now. The
goroutine goes through `Poll` (`os.Stat`), `Inspect` (file id and sizes),
`Boundary`, `Open` and the reads of `readLines` one write at a time, so the writer
may append, rotate (`Rename`, then `Create`) or truncate between any two of them.
`FailPoll` and `Reopen` are the error path of `run`, with the sleep in between.
`StopReading` is the `stopChan` branch of the send. `lost` is set when a file that
has unread lines is given up (closed because the poll found no file, rotated twice
between polls, left by `Stop`, or opened again after it was rotated), `gap` when a
poll found no file: the file it then opens is not read before it grows.

### TaskPipeline

`out[n]` is what goroutine `n` still has to `Tell`; it is blocked in `Receive` of
the next one while that is not empty. A record passes in one step from sender to
receiver, as on an unbuffered channel, and the receiver's handler is that step.
`NodeRow` is one pass of the loop of a map with the closure `to_next`; `SourceRow`
is the loop of a source; `NodeEof` is `eofCallback` with the last will; `NodeEnds`
the three other ways out of the loop; `NodePanics` the recovered panic; `GiveUp`
the second branch of `Receive`; `StopNext` the loop of `executeOutput`. The script
is chosen at the start from all sequences of four kinds of maps: `map` (filter and
expressions that fail), `take`, `flat` (a list of records) and `group` (tells when
its key changes, and at the end).

## 4. Runs

| run | instance | what it shows |
|---|---|---|
| `append_serving` | 1 table, 2 writers, 2 workers, queue of 2, 2 rows each that are followed, one of the writers goes on, idle stops only | `RefCountExact`, `HeldIsServed`, `NoRowStranded`; the workers implement `AppendLog`, fairness included; `IdleReaped` |
| `append_admin` | 1 table, 1 writer, 2 workers, queue of 1, 3 rows followed and any number after them, all forced stops | `OneAppenderPerTable`, `RowsInOrder`, `StopReturns` |
| `service_reread` | 1 service, 2 configurations and an unreadable one, 2 processes that register routes, edits, `Read`, `Update`, `Reload` | `NoOrphan`, `RouteFreed` |
| `service_install` | 2 services, 2 processes of which one opens shared files, install, uninstall, shutdown | `ShutdownLeavesNone`, `OperationsEnd`, `DeathNoticed` |
| `bus_publish` | 1 topic, 1 publisher, 2 events, a serial, an async and a sync handler, the first may unsubscribe itself | `SerialInOrder`, `WaitCountsCalls`, `StaysSubscribed`, `AllServed`, `PublishReturns` |
| `console` | 1 console, 1 publisher, 3 equal logs and an event that is no log | `NothingLost`, `BufferFlushed`, `ConsoleEnds` |
| `watch` | a tag named twice, 2 tokens, 3 overlapping tasks; or a log table with up to 4 rows, at most 1 per query; 2 writes, 1 failure, a close at any time | `TagTasksEndFirst`, `ReportedOnce`, `NoGap`, `NewerReported`, `CloseReturns` |
| `watch_log_close` | log table, closed after a tick | refutes `NoSendAfterClose` |
| `tql_pipeline` | source and 2 maps, 16 scripts, 4 rows, TAKE(1), a filter, a failing row, panics, a sink that fails, client and context that end | `NoSendOnClosed`, `ResultComplete`, `ExecuteEnds` |
| `schedules` | a timer or NATS schedule, 2 administrators and 2 tasks of timers at a time (each pair symmetric), 2 requests, 3 entries, 2 feeds, failing tasks, 1 outage, a bridge that is deleted | `RunsIffRunning`, `StoppedIsSilent`, `SignalAnswered` |
| `schedule_nats` | a NATS schedule, 1 request | refutes `FailedTaskStops` |
| `tail` | 3 lines, a channel of 1, any 2 of: rotation, truncation, a line written in two parts; `Stop` at any time | `SentInOrder`, `NoneLeftOut`, `SentWhole`, `Delivered`, `StopReturns` |

Deadlock is not checked: every
instance stops when its bounded inputs are used up.

### What the two refutations say

- `watch_log_close`: `Execute` starts `executeLog` in a goroutine; when `Close`
  drains the only token first, the task receives from a closed channel without
  looking and then sends on one, which panics.

- `schedule_nats`: `doNatsTask` runs in the goroutine of the subscription and calls
  `ent.Stop` when the task fails. `Unsubscribe` then sends on `sigChan`, which that
  goroutine alone reads, with `subscriberLock` held: the entry stays `STOPPING`, and
  every later `Subscribe`, `Unsubscribe` or deletion of the bridge waits as well. A
  test of the package expects `STOP`, with an entry that has no subscription.

### Bounds, and why they are enough

- Two writers are what a lost update of a reference count needs; two workers are a
  worker and its successor. Rows are bounded only where they are told apart: a
  writer may send for ever. One table, since only the lock is shared by tables and
  it is held for whole scans in the model too. A queue of one or two is full and
  empty within the rows that are sent. `append_admin` has one writer: order is
  per writer and the competition is with the stoppers.
- Two processes are an instance and its successor; two services are a name that
  is worked on while another one dies. A third process adds a second goroutine
  of the past, which acts on the same two conditions as the first. A process has
  one request of a kind on the way: a second one would do what the first did.
  Handles are kept by process and the processes start in any order, so one that
  opens files is enough where the other bounds are large.
- Two events show order; three handlers are one of each kind; in the console the
  fourth event ends a series of three that merge (0, then 2, then 3).
- A tag named twice gives overlapping tasks of one tag, which two tags never do.
  Four rows with a limit of one reach the branch of too many changes and go on.
- Three entries are a timer, the subscriber that replaces it and the timer that
  replaces that; two feeds are what an entry may have by mistake. The administrators
are interchangeable, and so are the tasks: nothing in the module compares them, and the run
has no liveness property. Two requests are two that meet, or one after the other; with what
was stored at the start they give three entries. Two tasks are two failing runs of one cron
entry, or one of a replaced entry and one of its successor; the theorems are about any
number of requests and tasks.
  Requests begin only while `irregular` is down: after it nothing is claimed.
- Two troubles in the life of a file give the pairs that matter: two rotations
  between polls, a rotation while a line is half written, a truncation of a new
  file. Three lines are one per file there has been.
- Two maps let one break the circuit while the other still has rows, in both
  orders. Four rows pass a filter, an error and a TAKE and leave one over.

### Fairness, and why the code justifies it

Goroutines that can run do run (weak fairness of their steps). A lock or a
channel that becomes available again and again is granted to who waits for it
(strong fairness of taking it): `sync.Mutex` hands the lock to a waiter after a
millisecond (starvation mode), and a channel keeps its waiters in a queue. Timers
and tickers fire (`TickBegin`, `Tick`, `Execute`). A handler that got a worker and
has no more to send ends, `Close` is deferred; one that always has more need not.
A process that was killed exits and `cmd.Wait` returns: this fails when a grandchild keeps the pipe of its output open, for which the code
has no limit. A task of a schedule ends by itself. The reader of a tail reads until
it stops the tail, and not after, as `serveWatcher` does. Nothing is assumed about
users, nor about when an RPC is served: writers need not write, services need not
die, clients and contexts need not end.

## 5. Proofs

The theorems hold for every value of the constants that the modules' assumptions
allow: any number of tables, services, handlers, names, nodes, entries, lines and
events. Each is an invariant of the specification unless the list says otherwise.

| module | theorems | condition |
|---|---|---|
| `AppendWorkersProofs` | `TypeCorrect`, `RefCountCorrect`, `OneAppender`, `RowsArriveInOrder` | |
| | `HeldServed`, `NothingStranded`, `LogImplemented` (a refinement) | in service: `AdminOps = {}` |
| `ServiceControllerProofs` | `RoutesAreFreed` | |
| | `NoProcessOrphaned`, `ShutdownIsComplete` | `Orderly` administrators |
| `EventBusProofs` | `WaitCountsCallsAlways`, `SerialInOrderAlways`, `AllServedAlways` (an action property) | |
| | `StaysSubscribedAlways` | callbacks `ToldApart` |
| `WebConsoleProofs` | `NothingLostAlways` | `OwnTopics`: a console shares its topic with no other |
| `WatcherProofs` | `TagTasksEndFirstAlways`, `ReportedOnceAlways`, `NoGapAlways` | |
| `TaskPipelineProofs` | `NeverSendOnClosed`, `ResultIsComplete` | |
| `SchedulesProofs` | `RunsIffRunningAlways`, `StoppedIsSilentAlways` | until one of the events of `irregular` |
| | `SignalAnsweredAlways` | until one of the events of `blockable` |
| `TailerProofs` | `SentInOrderAlways` | no file truncated, no line written in two parts |
| | `NoneLeftOutAlways` | and no file closed with lines unread |
| | `SentWholeAlways` | the file at the path is the first one, not truncated |

Every proof has the same shape: an invariant in named parts that holds at the
start and is kept by every action, one lemma per action or per part, and a last
step that brings the temporal operators in. Each inductive invariant was checked
with TLC on the instance of its component first.

### Append workers

The count is exact by `CountInv`: the types, `RefCountExact`, and `Linked`, which
says that a writer holds a worker exactly between get and close and that workers
held, registered or running were started. It is needed because a get adds a holder
that was none before. In service, `ServiceInv` adds `InService` (who holds
the lock and what the flusher is doing: at most one worker is being stopped, a
worker of the table it is scanning) and `Lives` for every worker (a worker is
unregistered and closed only after its goroutine ended with an empty queue, and
signalled only while its count is zero). The step that carries the proof is the
flusher's check: with the lock held nobody can get the worker, and a count of
zero with `RefCountExact` means nobody holds it, so nobody sends any more.

`OneAppender` rests on `AppenderInv`: an open worker is the registered one of its
table, and the two stoppers that delete from the map, the flusher and
`FlushAppendWorkers`, hold the lock for as long as they scan and have only closed
workers to delete. `StopAppendWorkers` takes no lock, but deletes nothing; it may
close a worker that another scan is about to close, which opens none.

`LogImplemented` maps the queue of the registered worker to `pending`, the rows
whose `Append` returned to `count`, and shows that the initial state is one of
`AppendLog` and that every step accepts one row (`Deliver`), stores one (a step of the worker's loop
or of its drain), or changes none of the three. The invariant it needs is
`ServiceInv`: a worker leaves the registry with an empty queue only, or its rows
would vanish from `pending`. With forced stops that is not so, and the run with
forced stops claims the order of rows only. `RowsArriveInOrder` is proved for
them from `OrderInv`: what is in the log, then in the queue of a worker whose goroutine still
takes rows, is ascending for each writer and already accepted. A queue nobody
reads may hold anything. Two goroutines that read for one table would break it,
which `OneAppender` excludes.

### Service controller

`BaseInv` holds whatever administrators do. It ties the three things a struct and
its goroutines know of each other: a stored child has the stop channel of its own
life, a goroutine whose struct was replaced does not point to the table, and an
operation that waits has its service marked `stopping`. From this follows
`RouteFreed`, which has to speak about goroutines of every earlier life. A route
that is registered when the goroutine of its process has ended is in `late`; one
that is registered before is freed by the hook, or the start had been replaced.

`OrphanInv` adds what makes the list of tasks of an operation harmless:
`Safe` says that a task that needs its service quiet (a start, a removal, a new
struct) finds it quiet or comes after the stop of that service in the list, and
that no task in between starts it; `RereadInv` keeps that true for what a `Read`
has found and an `Update` applies later; `QuitInv` says that a shutdown still has
every service before it that has a process. `Orderly` excludes a restart of a
service that runs, and installing while a `Read` is applied: there the code does lose
a process (section 6).

### Event bus

`BusInv` says that the list Publish goes
through names a handler once (`HandlersOnce`, `CopyOnce`, also after a removal by
an index of an older list) and that a goroutine's handler is one its publisher has
passed (`CallsBehind`); so a goroutine started is one more, and the wait group is
exact. `DeliveryInv` adds that the lock of a transactional handler has one owner,
be it a goroutine or the publisher that is about to start one (`Owned`), that a handler has
no event its publisher has yet to bring (`ReceivedBehind`), that the event in the
hands of a goroutine is newer than what was received from the same publisher (`CallNewer`),
and that every handler passed has the event or a goroutine with it (`Given`).
The first and the last give `AllServed`, which speaks about the last step of a `Publish`.

`StaysSubscribed` is false when two callbacks of a topic share their code, and the
theorem says so: `ToldApart` asks for different code pointers on a topic, and for
handlers that are wanted once to be alone there. The reason for the second is
`findHandlerIdx` again: the index found before the lock may be another handler's
after it, which does not happen when nobody else removes.

### Web console

`Send` counts in a field of the event, so `NothingLost` needs to know where else that
event may be. `EventsInv` says nowhere: a publisher whose topic has one console starts one
goroutine for an event (`PublishedFirst`), no two goroutines have the same event
(`OneCall`), and what a console received no console received before (`OneConsole`).
This is proved over the steps of the bus, the removals of `Close` among them. `Buffered` adds that an
event is in the buffer once and that `Repeat` is zero until it was buffered. Then a
call of `Send` is one more line that stands for one message, or one more
repetition of the last line, and no other line changes. Without `OwnTopics` the
theorem is false (section 6).

### Table watcher

`TokenInv` says that the tokens in the channel, with Close and with tasks beyond
`Acquire` add up to `parallelism`, and that the channels are closed only when Close
has them all. Two tasks may do the same work for one name, so tasks are told apart
by a number (`Distinct`), which `Execute` must choose afresh. For a log table the sum
does not hold, and `watch_log_close` shows why.

`ReportInv` is about rows. `TagRows`: a row that is reported, or that a task is
about to fetch or send, is not newer than the time noted for its tag, and no two
tasks have the same row; the check and the note are one step under
`tagLastTimeLock`, so overlapping tasks cannot both go on. `LogInv`, until the channels are
closed: one task reads a log table at a time, it is at the row after the last one noted, and
the noted time is that of the last row reported unless "too many changes" came after it.

### TQL pipeline

`NeverSendOnClosed`: the strengthening says that a
goroutine that ended has nothing left to tell (`EndedEmpty`). `executeOutput`
closes the channel of a node after the one before it ended, so the only sender
is gone; and a node that is still running stands behind all closed channels but
its own, so the record it tells next goes to an open one
(`ReceivingBeforeClosed`).

`ResultIsComplete` is about scripts of any length. A script is evaluated row by row,
by goroutines that are at different rows; its result is defined map by map, on all
rows at once (`Stage`, `Results`). The strengthening (`FlowInv`), for runs in which
nothing goes wrong, says that there are histories of what each node was told, such that
what is on the channel of a node and what the next one was told are together what its map
makes of the rows it was told (`Works`, `Channels`). A `GROUP` is one row behind until its
last will. So each map must do for one more row what its definition says of a
sequence that is one row longer (`EvaluatesRow`, from `SieveAppend` and `TwiceAppend`).
`Errors` follows the error records to the output, `Breaks` says that a circuit that no client
broke was broken by a `TAKE` that is full. At the end nothing is on its way and the
stages compose (`FlowEnds`, `ResultsAre`); what a full `TAKE` hides does not change the
result (`ResultsFull`), since every map extends its result when its input is
extended (`StageGrows`). `Sieve` and `Results` are recursive functions. That they are
defined, and what they return, is shown by induction in the form of sets: a set of numbers
that has the first one, and a number when it has the one before, has them all
(`Induction`, from the well-foundedness of the naturals).

### Scheduler

`SchedInv` has three parts. `SchedBase`: types, and for every goroutine what it
may be doing, for which entry, and which locks it has (`Local`); an entry's number
of its feed is one the entry owns (`Owners`). `SignalInv`: while `blockable` is
down, no callback runs for a bridge that is gone and a subscription that is ending is on no list
that somebody will signal. `RunInv`, while `irregular` is down:
a `Start` beyond its first step is the only operation on its entry, and the feed
it makes is the entry's only one (`StartAlone`); a `Stop` beyond its check finds
nothing running afterwards (`StopWorks`); a timer that is replaced is stopped before the
new one takes its place (`Replaces`); a feed that feeds belongs to the registered
entry that runs, or to one that is being started or stopped (`FeedsKept`); an entry that
runs has its feed (`Runs`); without a bridge nothing is subscribed (`NoBridge`).

### Tailer

`TailInv` compares what was sent with the numbers of the lines. `Place(first)`: the
file that is tailed begins after line `first`, what was sent ends where the position in
the file is, and files that came later continue the numbering. A poll works
with what it found some steps ago, so `Polled`, `OpensNew` and `LeavesNone` say what is
still true of it: a file that was found rotated is not the one at the path, and it has been read to
its end or lines are lost. `WholeInv` is for lines written in two parts: a part
without its end is followed by the rest of its line, or the file is read again.

### Assumptions

They are those the modules declare: finitely many writers and services, a queue of
at least one row, a script of at least one node, at most one token per name,
modes and topics for all handlers. `ServiceAssumption` says in addition that
`None` and `Bad` are no configurations, names, processes or statuses, which
model values make true in every run. `AdminOps = {}`, `Orderly` and `ToldApart` are
hypotheses of the theorems that need them, as is `OwnTopics`, and each has states that
meet it: `append_serving`, both runs of the controller, `bus_publish` and `console` are
such instances. The invariant of the consoles was also checked with two of them.

### What the proofs found

- A subscriber that is registered under the name of a timer that runs does not stop
  it (`registry.go:140`): the cron entry of the old timer goes on. Two entries, as in the
  first instance, do not show what that does to a third. `irregular` names the case and
  the run has three entries now.
- `NoGap` compared neighbours in a filtered list of reports. It now speaks of any two
  rows with nothing but errors between them, which says the same and can be reasoned about.
- `NothingLost` compared with a sequence built by a fold. It now says which messages each
  line stands for, by an index per line, and needs no recursion.
- `ResultComplete` compared with a fold over the script, and took the rows of a `GROUP` as
  a set in the order of the source. It now says at which places of its input a map
  keeps a row (for a `GROUP`, where a key begins).
- The alternatives of a `CASE` overlapped in `Watcher!Send` and in `Schedules!Stop`: TLC
  takes the first one, the proof system none in particular. They are written as `IF`.

### Only model-checked

All liveness properties, and with them the fairness part of the implementation of
`AppendLog`: liveness under fairness, and ENABLED, are outside what the proof
system can do.

## 6. Limits of the models

- An RPC that is served after the process that sent it was cleaned up after leaves a
  shared file handle, or a route to a process that is dead, for which nothing in the
  controller looks again. `DeathNoticed` and `RouteFreed` except these (`late`), and
  only these: with a request served before the cleanup TLC finds nothing left.
- A process that ends by itself while it is being stopped makes `Kill` fail: the
  service is shown as `failed` until its goroutine gets the lock, and `Update` does not
  start it again. The model does this (`StopKill`), no property speaks about it.
- The reports of `Report` come after the lock was released. A new instance may
  have registered its proxy by then and loses its route; the model does this,
  and no statement in the repository says otherwise. A `stopped` event may be sent
  twice, since `controlledStop` is never set; the model sends it once more too.
- `StartService` on a service that runs starts a second process and forgets the
  first; so does `Update` after another install. `NoOrphan` is checked for
  administrators that do neither.
- `CloseReturns` of the watcher has room in the channel for all reports. With a
  log table of more than 100 new rows, or a slow peer, `Close` can wait for ever:
  its caller is the only reader.
- `ExecuteEnds` excepts a node that panicked in a context that never ends: its
  predecessor then waits for ever, as do timers that run such a script. When the
  context ends after the panic, `Execute` must return.
- A forced stop of an append worker need not return: its drain runs while
  `len(appendC) > 0`, with `appendersLock` held by the flusher or `FlushAppendWorkers`,
  and a writer that keeps sending keeps the channel filled. `StopReturns` says that this is the
  only way; without its second part TLC shows that loop.
- A sync callback of the bus must not call the bus, and a transactional one must
  not publish to its own topic. The code has no such callback and neither have
  the instances. Handlers that are subscribed once are modelled, but nothing in
  the code subscribes once and no run has one.
- Handlers of the bus are compared by type and code pointer, which the method values
  of different objects share: `Unsubscribe` may remove the handler of another object.
  The instances have different functions, but `Fn` can say otherwise and
  `StaysSubscribed` is then refuted.
- When a restart of a service fails, `svc.stopCh` is still that of the process
  before; its goroutine then overwrites `failed` by `stopped`. The model does this
  (`StartFails`, `IsActive`), and no property speaks about the status afterwards.
- A poll of the tailer between the rename and the create of a rotation gives up the
  lines it has not read, and the new file is read only when it grows once more; a
  line that was read in two parts makes it send the whole file again. `NoneLeftOut`
  and `Delivered` except the first, `SentInOrder` and `NoneLeftOut` the second (they ask
for lines written in one part). After a rotation of a file whose last line was half read
the rest of a line is sent; `SentWhole` speaks of the first file only.
- `MultiTail` is left out. Its `Stop` waits for goroutines that send to a channel which
  its caller no longer reads, so it can wait for ever when that channel is full.
- MQTT subscribers, and the rows a subscriber writes, are left out of `Schedules`. What it
  does when the task of a subscriber is no valid write descriptor is in `BridgeOn`: `Start`
  returns the error and the entry stays `STARTING`.
- A subscriber that is stopped while the broker is away, or whose bridge is deleted, may go on
  or come back (`nats.go:261`), a `run` that ends while a callback runs keeps
  `subscriberLock` (`nats.go:230`), and replacing anything but a timer by a timer leaves the old
  one running (`registry.go:139`). The model does all of this; the flags except it.
- Two consoles on one topic count `Repeat` twice, since they share the event; the
  run has one console per topic.
- Sinks of the pipeline do not panic, and rows are numbers: an aggregate is
  named by its key.
