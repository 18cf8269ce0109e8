------------------------- MODULE ServiceController -------------------------
(***************************************************************************)
(* The service controller, jsh/service/controller.go: the table of         *)
(* configured services, the child process of each, and the goroutine that  *)
(* waits for every process.  All operations hold ctl.mu from beginning to  *)
(* end, a stop even while it waits for the process to exit; the waiting    *)
(* goroutine signals stopCh before it asks for the lock and reports the    *)
(* stop to the lifecycle hooks after it has released it.  The one hook of  *)
(* the server removes the service's HTTP proxies (mods/server), which the  *)
(* processes register by RPC.  A goroutine of the controller serves each   *)
(* RPC, with neither lock nor look at the process: it may do so when the   *)
(* process that sent the request has died and been cleaned up after.       *)
(*                                                                         *)
(* An operation is a sequence of tasks, `todo`; ctl.mu is held exactly     *)
(* while it is not empty.                                                  *)
(***************************************************************************)
EXTENDS Integers, Sequences, FiniteSets

CONSTANTS
  Names,     \* service names
  Configs,   \* what a config file can say, up to Config.Equal
  Enabled,   \* the configs that say "enable"
  Bad,       \* a config file that cannot be parsed
  Procs,     \* child processes; bound on how many are started
  Ops,       \* subset of {"restart", "install", "edit", "reread", "shutdown"}: what
             \* the administrators do besides starting and stopping services
  Rpcs,      \* subset of {"file", "proxy"} \X Procs: what the processes may ask for
  None

Statuses == {"running", "stopping", "stopped", "failed"}

ASSUME ServiceAssumption ==
  /\ IsFiniteSet(Names)
  /\ Enabled \subseteq Configs
  /\ Bad \notin Configs
  /\ None \notin Names \cup Configs \cup {Bad} \cup Procs \cup Statuses \cup {"unstarted"}
  /\ "unstarted" \notin Procs

VARIABLES
  disk,      \* the config directory: name -> config, Bad or None
  seen,      \* what Read got from the disk and has not yet compared, or None
  reread,    \* ctl.reread: [added, updated, removed] and the configs read, or None
  config,    \* svc.Config of the struct ctl.services has for the name, None without one
  status,    \* svc.Status: "running", "stopping", "stopped", "failed"
  cmd,       \* svc.cmd: a process, "unstarted" when cmd.Start failed, or None
  stopCh,    \* svc.stopCh, named by the process that closes it
  client,    \* svc.sharedClientID, named by its process
  phase,     \* the process and its waiting goroutine: "new", "running", "reaped",
             \* "signalled", "reporting", "done"
  owner,     \* the name its goroutine captured
  link,      \* the struct the goroutine captured: in the "table", or replaced or
             \* deleted when this was the "last" of its starts, or a "past" one
  killed,    \* processes Process.Kill was sent to
  asked,     \* the requests <<kind, process>> sent and not yet served; bound: one
             \* of a kind per process
  fds,       \* processes with open shared file handles
  proxies,   \* the server's proxy table: name -> process that registered, or None
  todo,      \* the rest of the operation that holds ctl.mu
  waiting,   \* the head of todo waits for svc.stopCh
  unstopped, \* names whose stop failed in this operation
  late       \* history: the requests that left something after the cleanup that was
             \* to remove it

structs == <<config, status, cmd, stopCh, client>>
procs == <<phase, owner, link, killed>>
rpcs == <<asked, fds, proxies, late>>
vars == <<disk, seen, reread, structs, procs, rpcs, todo, waiting, unstopped>>

Registered == {n \in Names : status[n] # None}
Free == todo = <<>>

Init ==
  /\ disk \in [Names -> Configs \cup {None}]
  /\ seen = None /\ reread = None
  /\ config = [n \in Names |-> None]
  /\ status = [n \in Names |-> None]
  /\ cmd = [n \in Names |-> None]
  /\ stopCh = [n \in Names |-> None]
  /\ client = [n \in Names |-> None]
  /\ phase = [p \in Procs |-> "new"]
  /\ owner = [p \in Procs |-> None]
  /\ link = [p \in Procs |-> "table"]
  /\ killed = {} /\ asked = {} /\ fds = {} /\ late = {}
  /\ proxies = [n \in Names |-> None]
  /\ todo = <<>> /\ waiting = FALSE /\ unstopped = {}
-----------------------------------------------------------------------------
(* Child processes and their waiting goroutines *)

\* emitServiceLifecycle(stopped): the server's hook drops the service's proxies
Notify(n) == proxies' = [proxies EXCEPT ![n] = None]

\* cmd.Wait returns, because of Kill or by itself
Exit(p) ==
  /\ phase[p] = "running"
  /\ phase' = [phase EXCEPT ![p] = "reaped"]
  /\ UNCHANGED <<disk, seen, reread, structs, owner, link, killed, rpcs, todo,
                 waiting, unstopped>>

\* mutant: the waiters are signalled with the lock held
SignalLocked(p) ==
  /\ phase[p] = "reaped" /\ Free
  /\ phase' = [phase EXCEPT ![p] = "signalled"]
  /\ UNCHANGED <<disk, seen, reread, structs, owner, link, killed, rpcs, todo,
                 waiting, unstopped>>

\* close(myStopCh), before the lock is asked for
Signal(p) ==
  /\ phase[p] = "reaped"
  /\ phase' = [phase EXCEPT ![p] = "signalled"]
  /\ UNCHANGED <<disk, seen, reread, structs, owner, link, killed, rpcs, todo,
                 waiting, unstopped>>

\* mutant: whoever owns the struct now, it is marked stopped
IsActiveAlways(p) == TRUE

\* svc.stopCh == myStopCh: no later start of the same struct succeeded
IsActive(p) == IF link[p] = "table" THEN stopCh[owner[p]] = p ELSE link[p] = "last"

\* mutant: the file handles are taken back only from the active start
SettleKeepsFDs(p) ==
  LET n == owner[p] IN
  /\ phase[p] = "signalled" /\ Free
  /\ fds' = IF IsActive(p) THEN fds \ {p} ELSE fds
  /\ IF IsActive(p) /\ link[p] = "table"
     THEN /\ status' = [status EXCEPT ![n] = "stopped"]
          /\ client' = [client EXCEPT ![n] = None]
     ELSE UNCHANGED <<status, client>>
  /\ phase' = [phase EXCEPT ![p] =
       IF IsActive(p) /\ ~(link[p] = "table" /\ status[n] = "stopping") THEN "reporting" ELSE "done"]
  /\ UNCHANGED <<disk, seen, reread, config, cmd, stopCh, owner, link, killed, asked,
                 proxies, late, todo, waiting, unstopped>>

\* mutant: the hooks hear of commanded stops only
SettleSilent(p) ==
  LET n == owner[p] IN
  /\ phase[p] = "signalled" /\ Free
  /\ fds' = fds \ {p}
  /\ IF IsActive(p) /\ link[p] = "table"
     THEN /\ status' = [status EXCEPT ![n] = "stopped"]
          /\ client' = [client EXCEPT ![n] = None]
     ELSE UNCHANGED <<status, client>>
  /\ phase' = [phase EXCEPT ![p] =
       IF IsActive(p) /\ link[p] = "table" /\ status[n] = "stopping" THEN "reporting" ELSE "done"]
  /\ UNCHANGED <<disk, seen, reread, config, cmd, stopCh, owner, link, killed, asked,
                 proxies, late, todo, waiting, unstopped>>

\* the goroutine gets ctl.mu
Settle(p) ==
  LET n == owner[p] IN
  /\ phase[p] = "signalled" /\ Free
  /\ fds' = fds \ {p}
  /\ IF IsActive(p) /\ link[p] = "table"
     THEN /\ status' = [status EXCEPT ![n] = "stopped"]
          /\ client' = [client EXCEPT ![n] = None]
     ELSE UNCHANGED <<status, client>>
  /\ phase' = [phase EXCEPT ![p] =
       IF IsActive(p) /\ ~(link[p] = "table" /\ status[n] = "stopping") THEN "reporting" ELSE "done"]
  /\ UNCHANGED <<disk, seen, reread, config, cmd, stopCh, owner, link, killed, asked,
                 proxies, late, todo, waiting, unstopped>>

\* ... and calls the hooks after it released it
Report(p) ==
  /\ phase[p] = "reporting"
  /\ Notify(owner[p])
  /\ phase' = [phase EXCEPT ![p] = "done"]
  /\ UNCHANGED <<disk, seen, reread, structs, owner, link, killed, asked, fds, late,
                 todo, waiting, unstopped>>

\* a process asks for a shared file or for its route
Ask(k, p) ==
  /\ phase[p] = "running" /\ <<k, p>> \in Rpcs
  /\ asked' = asked \cup {<<k, p>>}
  /\ UNCHANGED <<disk, seen, reread, structs, procs, fds, proxies, late, todo,
                 waiting, unstopped>>

\* the goroutine that serves the request, whatever became of the process
Serve(k, p) ==
  /\ <<k, p>> \in asked
  /\ asked' = asked \ {<<k, p>>}
  /\ UNCHANGED <<disk, seen, reread, structs, procs, todo, waiting, unstopped>>

OpenFD(p) ==
  /\ Serve("file", p)
  /\ fds' = fds \cup {p}
  /\ late' = IF phase[p] \in {"reporting", "done"} THEN late \cup {<<"file", p>>} ELSE late
  /\ UNCHANGED proxies

\* an error when another process holds the route
RegisterProxy(p) ==
  /\ Serve("proxy", p)
  /\ IF proxies[owner[p]] = None
     THEN /\ proxies' = [proxies EXCEPT ![owner[p]] = p]
          /\ late' = IF phase[p] = "done" THEN late \cup {<<"proxy", p>>} ELSE late
     ELSE UNCHANGED <<proxies, late>>
  /\ UNCHANGED fds
-----------------------------------------------------------------------------
(* Requests: what an operation does when it gets the lock *)

Task(do, n, c) == [do |-> do, name |-> n, config |-> c]

\* the sequences of one task per member of ns, in any order (Go maps)
Orders(ns, T(_)) ==
  {[i \in 1..Cardinality(ns) |-> T(f[i])] :
     f \in {g \in [1..Cardinality(ns) -> ns] : \A i, j \in DOMAIN g : g[i] = g[j] => i = j}}

Begin(tasks) ==
  /\ Free
  /\ todo' = tasks
  /\ unstopped' = {}
  /\ UNCHANGED <<seen, structs, procs, rpcs, waiting>>

StartService(n) ==
  /\ status[n] # None
  /\ "restart" \in Ops \/ status[n] # "running"
  /\ Begin(<<Task("start", n, config[n])>>)
  /\ UNCHANGED <<disk, reread>>

StopService(n) ==
  /\ status[n] # None
  /\ Begin(<<Task("stop", n, None)>>)
  /\ UNCHANGED <<disk, reread>>

Install(n, c) ==
  /\ disk[n] = None
  /\ Begin(<<Task("install", n, c)>>)
  /\ disk' = [disk EXCEPT ![n] = c]
  /\ UNCHANGED reread

Uninstall(n) ==
  /\ disk[n] # None
  /\ status[n] # None => status[n] \notin {"running", "stopping"}
  /\ Begin(IF status[n] = None THEN <<>> ELSE <<Task("remove", n, None)>>)
  /\ disk' = [disk EXCEPT ![n] = None]
  /\ UNCHANGED reread

\* Controller.Stop at shutdown
Shutdown ==
  /\ \E tasks \in Orders(Registered, LAMBDA n : Task("quit", n, None)) : Begin(tasks)
  /\ UNCHANGED <<disk, reread>>

\* Read gets the files without the lock ...
ReadDisk ==
  /\ seen = None
  /\ seen' = disk
  /\ UNCHANGED <<disk, reread, structs, procs, rpcs, todo, waiting, unstopped>>

Found == {n \in Names : seen[n] \in Configs}

\* ... and compares them with the services under it
ReadDiff ==
  /\ seen # None /\ Free
  /\ reread' = [config |-> seen,
                added |-> Found \ Registered,
                updated |-> {n \in Found \cap Registered : seen[n] # config[n]},
                removed |-> Registered \ Found]
  /\ seen' = None
  /\ UNCHANGED <<disk, structs, procs, rpcs, todo, waiting, unstopped>>

Update ==
  /\ reread # None
  /\ \E rem \in Orders(reread.removed, LAMBDA n : Task("remove", n, None)),
        upd \in Orders(reread.updated, LAMBDA n : Task("update", n, reread.config[n])),
        add \in Orders(reread.added, LAMBDA n : Task("add", n, reread.config[n])) :
        Begin(rem \o upd \o add)
  /\ reread' = None
  /\ UNCHANGED disk

Reload ==
  /\ reread # None
  /\ \E stp \in Orders({n \in Registered : status[n] = "running"},
                       LAMBDA n : Task("halt", n, None)),
        rem \in Orders(reread.removed, LAMBDA n : Task("drop", n, None)),
        upd \in Orders(reread.updated, LAMBDA n : Task("reset", n, reread.config[n])),
        add \in Orders(reread.added, LAMBDA n : Task("fresh", n, reread.config[n])),
        run \in Orders(Names, LAMBDA n : Task("boot", n, None)) :
        Begin(stp \o rem \o upd \o add \o run)
  /\ reread' = None
  /\ UNCHANGED disk

\* an administrator edits the config directory by hand
Edit(n) ==
  /\ \E c \in Configs \cup {Bad, None} : c # disk[n] /\ disk' = [disk EXCEPT ![n] = c]
  /\ UNCHANGED <<seen, reread, structs, procs, rpcs, todo, waiting, unstopped>>
-----------------------------------------------------------------------------
(* Tasks, executed with ctl.mu held *)

head == todo[1]
it == head.name
Next1(tasks) == todo' = tasks \o Tail(todo)

StopKinds == {"stop", "quit", "remove", "update", "install", "halt"}

\* what the operation does with the name once it is stopped
Then(stopped) ==
  CASE head.do = "remove" -> <<Task("drop", it, None)>>
    [] head.do = "install" -> <<Task("drop", it, None), Task("add", it, head.config)>>
    [] head.do = "update" /\ status[it] # None /\ stopped /\ head.config \in Enabled ->
         <<Task("start", it, head.config)>>
    [] OTHER -> <<>>

Stopping == todo # <<>> /\ head.do \in StopKinds

\* stopServiceInstance of a service that is not running (or is not there)
StopIdle ==
  /\ Stopping /\ status[it] \notin {"running", "stopping"}
  /\ IF status[it] = None
     THEN UNCHANGED <<structs, fds, proxies>>
     ELSE /\ IF cmd[it] = None
             THEN /\ status' = [status EXCEPT ![it] = "stopped"]
                  /\ fds' = fds \ {client[it]}
                  /\ client' = [client EXCEPT ![it] = None]
             ELSE UNCHANGED <<status, fds, client>>
          /\ IF status[it] # "stopped" THEN Notify(it) ELSE UNCHANGED proxies
          /\ config' = IF head.do = "update" THEN [config EXCEPT ![it] = head.config] ELSE config
          /\ UNCHANGED <<cmd, stopCh>>
  /\ Next1(Then(TRUE))
  /\ UNCHANGED <<disk, seen, reread, procs, asked, late, waiting, unstopped>>

\* Kill, then <-svc.stopCh; Kill fails when the process was already waited for
StopKill ==
  /\ Stopping /\ status[it] = "running"
  /\ config' = IF head.do = "update" THEN [config EXCEPT ![it] = head.config] ELSE config
  /\ IF phase[cmd[it]] = "running"
     THEN /\ status' = [status EXCEPT ![it] = "stopping"]
          /\ killed' = killed \cup {cmd[it]}
          /\ waiting' = TRUE
          /\ UNCHANGED <<todo, unstopped>>
     ELSE /\ status' = [status EXCEPT ![it] = "failed"]
          /\ unstopped' = unstopped \cup {it}
          /\ Next1(Then(FALSE))
          /\ UNCHANGED <<killed, waiting>>
  /\ UNCHANGED <<disk, seen, reread, cmd, stopCh, client, phase, owner, link, rpcs>>

\* mutant: the stop does not wait for the process
StopDoneNoWait ==
  /\ waiting
  /\ waiting' = FALSE
  /\ status' = [status EXCEPT ![it] = "stopped"]
  /\ Notify(it)
  /\ Next1(Then(TRUE))
  /\ UNCHANGED <<disk, seen, reread, config, cmd, stopCh, client, procs, asked, fds,
                 late, unstopped>>

\* stopCh is closed
StopDone ==
  /\ waiting /\ phase[stopCh[it]] \notin {"running", "reaped"}
  /\ waiting' = FALSE
  /\ status' = [status EXCEPT ![it] = "stopped"]
  /\ Notify(it)
  /\ Next1(Then(TRUE))
  /\ UNCHANGED <<disk, seen, reread, config, cmd, stopCh, client, procs, asked, fds,
                 late, unstopped>>

\* the goroutines keep the struct that leaves the table
Detach(n) ==
  link' = [p \in Procs |-> IF owner[p] # n \/ link[p] # "table" THEN link[p]
                           ELSE IF stopCh[n] = p THEN "last" ELSE "past"]

Fill(n, c, st) ==
  /\ Detach(n)
  /\ config' = [config EXCEPT ![n] = c]
  /\ status' = [status EXCEPT ![n] = st]
  /\ cmd' = [cmd EXCEPT ![n] = None]
  /\ stopCh' = [stopCh EXCEPT ![n] = None]
  /\ client' = [client EXCEPT ![n] = None]

Drop ==
  /\ todo # <<>> /\ head.do = "drop"
  /\ Fill(it, None, None)
  /\ Next1(<<>>)
  /\ UNCHANGED <<disk, seen, reread, phase, owner, killed, rpcs, waiting, unstopped>>

\* a new struct, in place of whatever the table had
Add ==
  /\ todo # <<>> /\ head.do \in {"add", "fresh"}
  /\ Fill(it, head.config, "stopped")
  /\ Next1(IF head.do = "add" /\ head.config \in Enabled
           THEN <<Task("start", it, head.config)>> ELSE <<>>)
  /\ UNCHANGED <<disk, seen, reread, phase, owner, killed, rpcs, waiting, unstopped>>

\* Reload of a changed config: whatever became of the stop, the status is stopped
Reset ==
  /\ todo # <<>> /\ head.do = "reset"
  /\ IF status[it] = None
     THEN UNCHANGED <<config, status>>
     ELSE /\ config' = [config EXCEPT ![it] = head.config]
          /\ status' = [status EXCEPT ![it] = "stopped"]
  /\ Next1(<<>>)
  /\ UNCHANGED <<disk, seen, reread, cmd, stopCh, client, procs, rpcs, waiting,
                 unstopped>>

\* the second half of Reload starts what is enabled and was not left unstopped
Boot ==
  /\ todo # <<>> /\ head.do = "boot"
  /\ Next1(IF status[it] # None /\ it \notin unstopped /\ config[it] \in Enabled
           THEN <<Task("start", it, config[it])>> ELSE <<>>)
  /\ UNCHANGED <<disk, seen, reread, structs, procs, rpcs, waiting, unstopped>>

\* startServiceInstance: cmd.Start succeeds ...
Start(p) ==
  /\ todo # <<>> /\ head.do = "start" /\ phase[p] = "new"
  /\ config' = [config EXCEPT ![it] = head.config]
  /\ status' = [status EXCEPT ![it] = "running"]
  /\ cmd' = [cmd EXCEPT ![it] = p]
  /\ stopCh' = [stopCh EXCEPT ![it] = p]
  /\ client' = [client EXCEPT ![it] = p]
  /\ phase' = [phase EXCEPT ![p] = "running"]
  /\ owner' = [owner EXCEPT ![p] = it]
  /\ Next1(<<>>)
  /\ UNCHANGED <<disk, seen, reread, link, killed, rpcs, waiting, unstopped>>

\* ... or fails, and svc.stopCh stays what it was
StartFails ==
  /\ todo # <<>> /\ head.do = "start"
  /\ config' = [config EXCEPT ![it] = head.config]
  /\ status' = [status EXCEPT ![it] = "failed"]
  /\ cmd' = [cmd EXCEPT ![it] = "unstarted"]
  /\ client' = [client EXCEPT ![it] = None]
  /\ Next1(<<>>)
  /\ UNCHANGED <<disk, seen, reread, stopCh, procs, rpcs, waiting, unstopped>>
-----------------------------------------------------------------------------
Request ==
  \/ \E n \in Names : StartService(n) \/ StopService(n)
  \/ "install" \in Ops /\ \E n \in Names : Uninstall(n) \/ \E c \in Configs : Install(n, c)
  \/ "edit" \in Ops /\ \E n \in Names : Edit(n)
  \/ "reread" \in Ops /\ (ReadDisk \/ ReadDiff \/ Update \/ Reload)
  \/ "shutdown" \in Ops /\ Shutdown

Work ==
  \/ StopIdle \/ StopKill \/ StopDone \/ Drop \/ Add \/ Reset \/ Boot \/ StartFails
  \/ \E p \in Procs : Start(p)

Process(p) ==
  \/ Exit(p) \/ Signal(p) \/ Settle(p) \/ Report(p)
  \/ \E k \in {"file", "proxy"} : Ask(k, p)
  \/ OpenFD(p) \/ RegisterProxy(p)

Next == Request \/ Work \/ \E p \in Procs : Process(p)

Spec == Init /\ [][Next]_vars

\* Goroutines run, a killed process exits, and ctl.mu, which is free again and
\* again, is granted to the goroutine that asks for it.
Fairness ==
  /\ WF_vars(Work)
  /\ \A p \in Procs :
       /\ WF_vars(p \in killed /\ Exit(p)) /\ WF_vars(Signal(p))
       /\ SF_vars(Settle(p)) /\ WF_vars(Report(p))

FairSpec == Spec /\ Fairness
-----------------------------------------------------------------------------
(* Properties *)

\* A process that runs is the one its service's table entry knows, and shows:
\* it can be stopped by name, and no stop or restart left another one behind.
NoOrphan ==
  \A p \in Procs : phase[p] = "running" =>
    /\ link[p] = "table"
    /\ cmd[owner[p]] = p /\ status[owner[p]] \in {"running", "stopping"}

\* The route of a process that died is free again when its goroutine has ended,
\* unless a later start of the service took its place before, or the goroutine
\* that serves the RPC registered the route only after the hook had run.
RouteFreed ==
  \A n \in Names, p \in Procs :
    proxies[n] = p /\ phase[p] = "done" => ~IsActive(p) \/ <<"proxy", p>> \in late

\* Controller.Stop returns when no child process is left.
ShutdownLeavesNone ==
  [][Len(todo) = 1 /\ todo[1].do = "quit" /\ todo' = <<>>
       => \A p \in Procs : phase'[p] # "running"]_vars

\* "Signal waiters before acquiring controller lock to avoid lock-wait cycles":
\* every operation releases the lock.
OperationsEnd == todo # <<>> ~> todo = <<>>

\* From some time on a process that died is not shown as running, and its shared
\* file handles are taken back, unless the goroutine that serves the RPC opened one
\* only after the cleanup.
DeathNoticed ==
  \A p \in Procs : <>[](phase[p] \notin {"new", "running"} =>
    /\ p \notin fds \/ <<"file", p>> \in late
    /\ \A n \in Names : cmd[n] = p => status[n] # "running")
============================================================================
