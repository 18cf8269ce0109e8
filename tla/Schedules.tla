------------------------------ MODULE Schedules ------------------------------
(***************************************************************************)
(* One schedule of the scheduler (mods/scheduler) and what runs it: a cron *)
(* entry for a timer, a NATS subscription of a bridge (mods/bridge/nats.go)*)
(* for a subscriber; both are called feeds here.  A subscription calls the *)
(* task in its one goroutine; cron starts a goroutine for each tick, also  *)
(* while earlier ones still run.  Management calls run in goroutines of    *)
(* their own; registryLock covers Register and Unregister, but not         *)
(* StartSchedule, StopSchedule and a task that stops its entry.            *)
(***************************************************************************)
EXTENDS Integers, FiniteSets

CONSTANTS
  Admins,      \* goroutines of management requests
  Jobs,        \* goroutines cron runs tasks in; bound on the tasks of timers at a time
  Types,       \* types the schedule may be added with, "TIMER" or "NATS"
  MaxEntry,    \* bound: entries created
  MaxFeed,     \* bound: cron entries and subscriptions created
  MaxRequest,  \* bound: management requests
  MaxOutage,   \* bound: times the broker is unreachable
  Removable,   \* whether the bridge may be deleted
  Runner,      \* the goroutine of NatsBridge.run
  NoOne

ASSUME SchedAssumption ==
  /\ Types \subseteq {"TIMER", "NATS"}
  /\ MaxEntry \in Nat \ {0} /\ MaxFeed \in Nat \ {0} /\ MaxOutage \in Nat /\ MaxRequest \in Nat
  /\ Removable \in BOOLEAN
  /\ Admins \cap (1..MaxFeed) = {} /\ Jobs \cap (Admins \cup 1..MaxFeed) = {}
  /\ Runner \notin Admins \cup Jobs \cup (1..MaxFeed)
  /\ NoOne \notin Admins \cup Jobs \cup (1..MaxFeed) \cup {Runner}

Feeds == 1..MaxFeed
Actors == Admins \cup Jobs \cup Feeds \cup {Runner}

VARIABLES
  type,            \* type of the schedule, as AddSchedule gets it
  file,            \* its definition is stored
  registry,        \* registered entry, 0 for none
  registryLock,
  entries,         \* the entries ever made: kind, state, entryId or subscription
  feeds,           \* cron entries and subscriptions: owner, live
  subscribers,     \* NatsBridge.subscribers
  subscriberLock,
  bridge,          \* the bridge is registered, alive, connected; subscriptions run still has to signal
  outages, requests,
  act,             \* what each goroutine does; a subscription names its own
  irregular,       \* history: something happened that the states do not follow
  blockable        \* history: something happened that may block a call

schedVars == <<type, file, registry, registryLock, entries, feeds, subscribers, subscriberLock,
               bridge, outages, requests, act, irregular, blockable>>

storeVars == <<type, file, requests>>
regVars == <<registry, registryLock>>
natsVars == <<subscribers, subscriberLock>>
bridgeVars == <<bridge, outages>>
historyVars == <<irregular, blockable>>

Idle == [pc |-> "idle", ent |-> 0, then |-> "reply", feed |-> 0, prev |-> "STOP",
         kind |-> "TIMER", start |-> FALSE]
NoEntry == [kind |-> "none", state |-> "STOP", feed |-> 0]

\* Service.Start: nothing stored, or one definition registered, started if it says autoStart
SchedInit ==
  /\ type \in Types
  /\ \E stored, auto \in BOOLEAN :
       LET up == stored /\ auto IN
       /\ file = stored /\ registry = IF stored THEN 1 ELSE 0
       /\ entries = [e \in 1..MaxEntry |->
            IF e = 1 /\ stored
            THEN [kind |-> type, state |-> IF up THEN "RUNNING" ELSE "STOP", feed |-> IF up THEN 1 ELSE 0]
            ELSE NoEntry]
       /\ feeds = [f \in Feeds |-> [owner |-> IF f = 1 /\ up THEN 1 ELSE 0, live |-> f = 1 /\ up]]
       /\ subscribers = IF up /\ type = "NATS" THEN {1} ELSE {}
  /\ registryLock = NoOne /\ subscriberLock = NoOne
  /\ bridge = [registered |-> TRUE, alive |-> TRUE, connected |-> TRUE, todo |-> {}]
  /\ outages = 0 /\ requests = 0
  /\ act = [a \in Actors |-> Idle]
  /\ irregular = FALSE /\ blockable = FALSE

StartPcs == {"start", "add", "bridgeOn", "subscribe", "running"}
StopPcs == {"stop", "remove", "bridgeOff", "unsubscribe", "locked", "signal", "stopped", "check", "restore"}
Starting(e) == \E a \in Actors : act[a].pc \in StartPcs /\ act[a].ent = e
\* a feed that will call the task again
Feeding(f) == feeds[f].live /\ act[f].pc # "ending"

FreeEntries == {e \in 1..MaxEntry : entries[e].kind = "none"}
FreeFeeds == {f \in Feeds : feeds[f].owner = 0}
Registering == {a \in Admins : act[a].pc \in {"register", "replace"} \/ act[a].then = "replace"}
EntryLeft == Cardinality(FreeEntries) > Cardinality(Registering)
FeedLeft ==
  Cardinality(FreeFeeds) >
    Cardinality(Registering) + Cardinality({a \in Admins : act[a].pc \in StartPcs \ {"running"}})

Goto(a, pc) == act' = [act EXCEPT ![a].pc = pc]
SetState(e, s) == entries' = [entries EXCEPT ![e].state = s]

(*************** management calls (management.go), up to the first lock ****)
\* the stored definition is overwritten without a look at an existing one
AddSchedule(a, auto) ==
  /\ act[a].pc = "idle" /\ EntryLeft /\ FeedLeft
  /\ file' = TRUE
  /\ act' = [act EXCEPT ![a] = [Idle EXCEPT !.pc = "register", !.kind = type, !.start = auto]]
  /\ UNCHANGED <<type, regVars, entries, feeds, natsVars, bridgeVars, historyVars>>

\* registers a timer, whatever the entry was; the file keeps the type
UpdateSchedule(a, auto) ==
  /\ act[a].pc = "idle" /\ EntryLeft /\ FeedLeft
  /\ registryLock = NoOne /\ registry # 0 /\ file
  /\ act' = [act EXCEPT ![a] = [Idle EXCEPT !.pc = "register", !.kind = "TIMER", !.start = auto]]
  /\ UNCHANGED <<type, file, regVars, entries, feeds, natsVars, bridgeVars, historyVars>>

\* a definition that is not stored cannot be deleted
DelSchedule(a) ==
  /\ act[a].pc = "idle" /\ file
  /\ file' = FALSE
  /\ Goto(a, "unregister")
  /\ UNCHANGED <<type, regVars, entries, feeds, natsVars, bridgeVars, historyVars>>

\* GetEntry, then the call on the entry without a lock
CallEntry(a, pc) ==
  /\ act[a].pc = "idle" /\ registryLock = NoOne /\ registry # 0
  /\ pc = "start" => FeedLeft
  /\ act' = [act EXCEPT ![a].pc = pc, ![a].ent = registry]
  /\ UNCHANGED <<type, file, regVars, entries, feeds, natsVars, bridgeVars, historyVars>>
StartSchedule(a) == CallEntry(a, "start")
StopSchedule(a) == CallEntry(a, "stop")

(*************************** registry.go ***********************************)
\* mutant: a running timer is replaced without being stopped
RegisterKeepsOld(a) ==
  /\ act[a].pc = "register" /\ registryLock = NoOne
  /\ registryLock' = a
  /\ act' = [act EXCEPT ![a].pc = "replace", ![a].start = registry = 0 => act[a].start]
  /\ UNCHANGED <<storeVars, registry, entries, feeds, natsVars, bridgeVars, historyVars>>

Register(a) ==
  LET running == registry # 0 /\ act[a].kind = "TIMER" /\ entries[registry].state = "RUNNING" IN
  /\ act[a].pc = "register" /\ registryLock = NoOne
  /\ registryLock' = a
  /\ act' = IF running
            THEN [act EXCEPT ![a].pc = "stop", ![a].ent = registry, ![a].then = "replace", ![a].start = TRUE]
            ELSE [act EXCEPT ![a].pc = "replace", ![a].start = registry = 0 /\ act[a].start]
  /\ irregular' = (irregular \/ Starting(registry))
  /\ UNCHANGED <<storeVars, registry, entries, feeds, natsVars, bridgeVars, blockable>>

\* the new entry takes the name; a timer whose task cannot be loaded is FAILED and not started
Replace(a) ==
  LET old == registry IN
  /\ act[a].pc = "replace"
  /\ \E e \in FreeEntries, loads \in (IF act[a].kind = "TIMER" THEN BOOLEAN ELSE {TRUE}) :
       /\ entries' = [entries EXCEPT ![e] = [NoEntry EXCEPT !.kind = act[a].kind,
                                                            !.state = IF loads THEN "STOP" ELSE "FAILED"]]
       /\ registry' = e
       /\ IF loads /\ act[a].start
          THEN /\ act' = [act EXCEPT ![a].pc = "start", ![a].ent = e, ![a].then = "unlock"]
               /\ UNCHANGED registryLock
          ELSE act' = [act EXCEPT ![a] = Idle] /\ registryLock' = NoOne
  /\ irregular' = \/ irregular
                  \/ \E f \in Feeds : /\ feeds[f].owner = old /\ Feeding(f)
                                      /\ "NATS" \in {entries[old].kind, act[a].kind}
  /\ UNCHANGED <<storeVars, feeds, natsVars, bridgeVars, blockable>>

\* Unregister: the error of Stop is dropped
Unregister(a) ==
  /\ act[a].pc = "unregister" /\ registryLock = NoOne
  /\ IF registry = 0
     THEN act' = [act EXCEPT ![a] = Idle] /\ UNCHANGED registryLock
     ELSE /\ registryLock' = a
          /\ act' = [act EXCEPT ![a].pc = "stop", ![a].ent = registry, ![a].then = "delete"]
  /\ UNCHANGED <<storeVars, registry, entries, feeds, natsVars, bridgeVars, historyVars>>

\* the loop of a subscription ends when the bridge is no longer alive
AfterTask(a) == IF a \in Feeds /\ ~bridge.alive THEN "ending" ELSE "idle"

\* what follows a Start or a Stop that returned, ok or with an error
Return(a, ok) ==
  LET then == act[a].then IN
  /\ act' = [act EXCEPT ![a] =
       CASE then = "replace" /\ ok -> [@ EXCEPT !.pc = "replace", !.then = "reply"]
         [] then = "next"          -> [Idle EXCEPT !.pc = AfterTask(a)]
         [] OTHER                  -> Idle]
  /\ registryLock' = IF then \in {"unlock", "delete"} \/ (then = "replace" /\ ~ok) THEN NoOne ELSE registryLock
  /\ registry' = IF then = "delete" THEN 0 ELSE registry

(********************* TimerEntry and SubscriberEntry ***********************)
Start(a) ==
  LET e == act[a].ent IN
  /\ act[a].pc = "start"
  /\ SetState(e, "STARTING")
  /\ Goto(a, IF entries[e].kind = "TIMER" THEN "add" ELSE "bridgeOn")
  /\ irregular' = \/ irregular
                  \/ e # registry
                  \/ \E f \in Feeds : feeds[f].owner = e /\ Feeding(f)
                  \/ \E b \in Actors \ {a} : act[b].pc \in StartPcs \cup StopPcs /\ act[b].ent = e
  /\ UNCHANGED <<storeVars, regVars, feeds, natsVars, bridgeVars, blockable>>

\* one is free: FeedLeft
NewFeed(a, pc) ==
  LET f == CHOOSE f \in FreeFeeds : TRUE IN
  /\ FreeFeeds # {}
  /\ feeds' = [feeds EXCEPT ![f] = [owner |-> act[a].ent, live |-> TRUE]]
  /\ act' = [act EXCEPT ![a].pc = pc, ![a].feed = f]

FailAndReturn(a, ok) == SetState(act[a].ent, "FAILED") /\ Return(a, ok)

\* crons.AddFunc, or an error for a definition without a task or with no valid schedule
AddFunc(a) ==
  /\ act[a].pc = "add"
  /\ \/ NewFeed(a, "running") /\ UNCHANGED <<entries, regVars>>
     \/ FailAndReturn(a, FALSE) /\ UNCHANGED feeds
  /\ UNCHANGED <<storeVars, natsVars, bridgeVars, historyVars>>

\* the entry stays STARTING when its task is no valid write descriptor
BridgeOn(a) ==
  /\ act[a].pc = "bridgeOn"
  /\ \/ bridge.registered /\ Goto(a, "subscribe") /\ UNCHANGED <<entries, regVars>>
     \/ bridge.registered /\ Return(a, FALSE) /\ UNCHANGED entries
     \/ ~bridge.registered /\ FailAndReturn(a, FALSE)
  /\ UNCHANGED <<storeVars, feeds, natsVars, bridgeVars, historyVars>>

\* NatsBridge.Subscribe, which also starts the goroutine of the subscription
Subscribe(a) ==
  /\ act[a].pc = "subscribe"
  /\ \/ /\ ~bridge.connected
        /\ FailAndReturn(a, TRUE)
        /\ UNCHANGED <<feeds, subscribers>>
     \/ /\ bridge.connected /\ subscriberLock = NoOne
        /\ \/ NewFeed(a, "running") /\ subscribers' = subscribers \cup {act'[a].feed}
              /\ UNCHANGED <<entries, regVars>>
           \/ FailAndReturn(a, TRUE) /\ UNCHANGED <<feeds, subscribers>>   \* refused by the broker
  /\ UNCHANGED <<storeVars, subscriberLock, bridgeVars, historyVars>>

\* ent.entryId or ent.subscription, then the state
SetRunning(a) ==
  LET e == act[a].ent IN
  /\ act[a].pc = "running"
  /\ entries' = [entries EXCEPT ![e].feed = act[a].feed, ![e].state = "RUNNING"]
  /\ Return(a, TRUE)
  /\ UNCHANGED <<storeVars, feeds, natsVars, bridgeVars, historyVars>>

\* a timer notes its state; a subscriber that never subscribed is done at once
Stop(a) ==
  LET e == act[a].ent
      kind == entries[e].kind IN
  /\ act[a].pc = "stop"
  /\ SetState(e, "STOPPING")
  /\ act' = [act EXCEPT ![a].prev = IF kind = "TIMER" THEN entries[e].state ELSE @,
                        ![a].pc = CASE kind = "TIMER"      -> "remove"
                                    [] kind # "TIMER" /\ entries[e].feed = 0 -> "stopped"
                                    [] OTHER               -> "bridgeOff"]
  /\ irregular' = (irregular \/ Starting(e))
  /\ UNCHANGED <<storeVars, regVars, feeds, natsVars, bridgeVars, blockable>>

\* mutant: the cron entry stays
KeepCron(a) ==
  /\ act[a].pc = "remove"
  /\ Goto(a, "stopped")
  /\ UNCHANGED <<storeVars, regVars, entries, feeds, natsVars, bridgeVars, historyVars>>

RemoveCron(a) ==
  LET f == entries[act[a].ent].feed IN
  /\ act[a].pc = "remove"
  /\ feeds' = IF f = 0 THEN feeds ELSE [feeds EXCEPT ![f].live = FALSE]
  /\ Goto(a, "stopped")
  /\ UNCHANGED <<storeVars, regVars, entries, natsVars, bridgeVars, historyVars>>

BridgeOff(a) ==
  /\ act[a].pc = "bridgeOff"
  /\ IF bridge.registered
     THEN Goto(a, "unsubscribe") /\ UNCHANGED <<entries, regVars>>
     ELSE FailAndReturn(a, FALSE)
  /\ UNCHANGED <<storeVars, feeds, natsVars, bridgeVars, historyVars>>

\* NatsSubscription.Unsubscribe does nothing while the broker is unreachable
Unsubscribe(a) ==
  /\ act[a].pc = "unsubscribe"
  /\ IF bridge.connected
     THEN Goto(a, "locked") /\ UNCHANGED <<entries, irregular, regVars>>
     ELSE FailAndReturn(a, FALSE) /\ irregular' = TRUE
  /\ UNCHANGED <<storeVars, feeds, natsVars, bridgeVars, blockable>>

\* mutant: signals without a look at getSubscription()
SignalAlways(a) ==
  /\ act[a].pc = "locked" /\ subscriberLock = NoOne
  /\ subscriberLock' = a
  /\ act' = [act EXCEPT ![a].pc = "signal", ![a].feed = entries[act[a].ent].feed]
  /\ UNCHANGED <<storeVars, regVars, entries, feeds, subscribers, bridgeVars, historyVars>>

\* takes subscriberLock; keeps it while it waits for the goroutine of a live subscription
LockSubscribers(a) ==
  LET f == entries[act[a].ent].feed IN
  /\ act[a].pc = "locked" /\ subscriberLock = NoOne
  /\ IF feeds[f].live
     THEN /\ subscriberLock' = a
          /\ act' = [act EXCEPT ![a].pc = "signal", ![a].feed = f]
          /\ UNCHANGED subscribers
     ELSE /\ subscribers' = subscribers \ {f}
          /\ Goto(a, "stopped") /\ UNCHANGED subscriberLock
  /\ blockable' = (blockable \/ act[f].pc = "ending")
  /\ UNCHANGED <<storeVars, regVars, entries, feeds, bridgeVars, irregular>>

\* sigChan is not buffered: the goroutine must be in its select, so it is not the sender
Signal(a) ==
  LET f == act[a].feed IN
  /\ act[a].pc = "signal" /\ act[f].pc = "idle" /\ feeds[f].live
  /\ IF a = Runner
     THEN /\ act' = [act EXCEPT ![f].pc = "ending", ![a].pc = "sweep"]
          /\ UNCHANGED natsVars
     ELSE /\ act' = [act EXCEPT ![f].pc = "ending", ![a].pc = "stopped"]
          /\ subscribers' = subscribers \ {f} /\ subscriberLock' = NoOne
  /\ UNCHANGED <<storeVars, regVars, entries, feeds, bridgeVars, historyVars>>

SetStopped(a) ==
  /\ act[a].pc = "stopped"
  /\ SetState(act[a].ent, "STOP")
  /\ IF entries[act[a].ent].kind = "TIMER"
     THEN Goto(a, "check") /\ UNCHANGED regVars
     ELSE Return(a, TRUE)
  /\ UNCHANGED <<storeVars, feeds, natsVars, bridgeVars, historyVars>>

\* the deferred function of TimerEntry.Stop reads the state ...
CheckStopped(a) ==
  /\ act[a].pc = "check"
  /\ IF entries[act[a].ent].state # "STOP"
     THEN Goto(a, "restore") /\ UNCHANGED regVars
     ELSE Return(a, TRUE)
  /\ UNCHANGED <<storeVars, entries, feeds, natsVars, bridgeVars, historyVars>>

\* ... and sets the one from before, if somebody else has changed it
Restore(a) ==
  /\ act[a].pc = "restore"
  /\ SetState(act[a].ent, act[a].prev)
  /\ irregular' = (irregular \/ act[a].prev \in {"STARTING", "RUNNING"})
  /\ Return(a, TRUE)
  /\ UNCHANGED <<storeVars, feeds, natsVars, bridgeVars, blockable>>

(***************** the task, called by cron or by a subscription ************)
\* a tick of the cron entry f, whatever the goroutines of earlier ticks do
Tick(a, f) ==
  /\ feeds[f].live /\ entries[feeds[f].owner].kind = "TIMER" /\ act[a].pc = "idle"
  /\ act' = [act EXCEPT ![a].pc = "run", ![a].ent = feeds[f].owner]
  /\ UNCHANGED <<storeVars, regVars, entries, feeds, natsVars, bridgeVars, historyVars>>

\* a message, taken by the goroutine of the subscription f
RunTask(f) ==
  /\ feeds[f].live /\ entries[feeds[f].owner].kind = "NATS" /\ act[f].pc = "idle"
  /\ act' = [act EXCEPT ![f].pc = "run", ![f].ent = feeds[f].owner]
  /\ blockable' = (blockable \/ ~bridge.alive)
  /\ UNCHANGED <<storeVars, regVars, entries, feeds, natsVars, bridgeVars, irregular>>

TaskEnds(a) ==
  /\ act[a].pc = "run"
  /\ act' = [act EXCEPT ![a] = [Idle EXCEPT !.pc = AfterTask(a)]]
  /\ UNCHANGED <<storeVars, regVars, entries, feeds, natsVars, bridgeVars, historyVars>>

\* a task that fails stops its entry from the goroutine it runs in
TaskFails(a) ==
  /\ act[a].pc = "run"
  /\ SetState(act[a].ent, "FAILED")
  /\ act' = [act EXCEPT ![a].pc = "stop", ![a].then = "next"]
  /\ blockable' = (blockable \/ entries[act[a].ent].kind = "NATS")
  /\ UNCHANGED <<storeVars, regVars, feeds, natsVars, bridgeVars, irregular>>

\* subscription.Unsubscribe(), setSubscription(nil), subscriberWait.Done()
EndSubscription(f) ==
  /\ act[f].pc = "ending"
  /\ feeds' = [feeds EXCEPT ![f].live = FALSE]
  /\ Goto(f, "idle")
  /\ UNCHANGED <<storeVars, regVars, entries, natsVars, bridgeVars, historyVars>>

(******************************* the bridge *********************************)
\* bridge.Unregister, AfterUnregister and the end of run's loop
RemoveBridge ==
  /\ Removable /\ type = "NATS" /\ bridge.registered
  /\ bridge' = [bridge EXCEPT !.registered = FALSE, !.alive = FALSE]
  /\ Goto(Runner, "close")
  /\ irregular' = \/ irregular
                  \/ \E f \in Feeds : feeds[f].live
                  \/ \E a \in Admins : act[a].pc \in StartPcs
  /\ blockable' = (blockable \/ \E f \in Feeds : feeds[f].live /\ act[f].pc # "idle")
  /\ UNCHANGED <<storeVars, regVars, entries, feeds, natsVars, outages>>

LockToClose ==
  /\ act[Runner].pc = "close" /\ subscriberLock = NoOne
  /\ subscriberLock' = Runner
  /\ bridge' = [bridge EXCEPT !.todo = subscribers]
  /\ Goto(Runner, "sweep")
  /\ UNCHANGED <<storeVars, regVars, entries, feeds, subscribers, outages, historyVars>>

Sweep ==
  /\ act[Runner].pc = "sweep"
  /\ \/ \E f \in bridge.todo :
          /\ bridge' = [bridge EXCEPT !.todo = @ \ {f}]
          /\ IF feeds[f].live THEN act' = [act EXCEPT ![Runner].pc = "signal", ![Runner].feed = f]
                              ELSE UNCHANGED act
          /\ UNCHANGED subscriberLock
     \/ /\ bridge.todo = {}
        /\ subscriberLock' = NoOne /\ Goto(Runner, "wait") /\ UNCHANGED bridge
  /\ UNCHANGED <<storeVars, regVars, entries, feeds, subscribers, outages, historyVars>>

\* subscriberWait.Wait(), conn.Close()
CloseConn ==
  /\ act[Runner].pc = "wait"
  /\ \A f \in Feeds : feeds[f].live => entries[feeds[f].owner].kind # "NATS"
  /\ bridge' = [bridge EXCEPT !.connected = FALSE]
  /\ Goto(Runner, "closed")
  /\ UNCHANGED <<storeVars, regVars, entries, feeds, natsVars, outages, historyVars>>

\* the client library reconnects by itself (MaxReconnect -1) and keeps the subscriptions
BrokerLost ==
  /\ type = "NATS" /\ bridge.registered /\ bridge.connected /\ outages < MaxOutage
  /\ bridge' = [bridge EXCEPT !.connected = FALSE] /\ outages' = outages + 1
  /\ UNCHANGED <<storeVars, regVars, entries, feeds, natsVars, act, historyVars>>

BrokerBack ==
  /\ ~bridge.connected /\ act[Runner].pc # "closed"
  /\ bridge' = [bridge EXCEPT !.connected = TRUE]
  /\ UNCHANGED <<storeVars, regVars, entries, feeds, natsVars, outages, act, historyVars>>

Request(a) ==
  /\ requests < MaxRequest /\ ~irregular /\ requests' = requests + 1
  /\ \/ \E auto \in BOOLEAN : AddSchedule(a, auto) \/ UpdateSchedule(a, auto)
     \/ DelSchedule(a) \/ StartSchedule(a) \/ StopSchedule(a)
Step(a) ==
  \/ Replace(a) \/ Start(a) \/ AddFunc(a) \/ BridgeOn(a) \/ SetRunning(a)
  \/ Stop(a) \/ RemoveCron(a) \/ BridgeOff(a) \/ Unsubscribe(a)
  \/ SetStopped(a) \/ CheckStopped(a) \/ Restore(a)
LockedStep(a) == Register(a) \/ Unregister(a) \/ Subscribe(a) \/ LockSubscribers(a) \/ Signal(a)
TaskStep(a) == TaskEnds(a) \/ TaskFails(a)

SchedNext ==
  \/ \E a \in Admins : Request(a)
  \/ \E a \in Actors : Step(a) \/ LockedStep(a)
  \/ \E a \in Jobs \cup Feeds : TaskStep(a)
  \/ \E f \in Feeds : RunTask(f) \/ EndSubscription(f) \/ \E a \in Jobs : Tick(a, f)
  \/ RemoveBridge \/ LockToClose \/ Sweep \/ CloseConn \/ BrokerLost \/ BrokerBack

\* Go's mutexes do not starve a waiter and select picks among ready cases at random (SF);
\* a task ends by itself
SchedFairness ==
  /\ \A a \in Actors : WF_schedVars(Step(a)) /\ SF_schedVars(LockedStep(a))
  /\ \A a \in Jobs \cup Feeds : WF_schedVars(TaskStep(a))
  /\ \A f \in Feeds : WF_schedVars(EndSubscription(f))
  /\ SF_schedVars(LockToClose) /\ WF_schedVars(Sweep) /\ WF_schedVars(CloseConn)

SchedSafety == SchedInit /\ [][SchedNext]_schedVars
SchedSpec == SchedSafety /\ SchedFairness

-----------------------------------------------------------------------------
\* Nobody is between the first and the last step of a Start, a Stop or a Register.
Quiet == \A a \in Actors : act[a].pc \notin StartPcs \cup StopPcs \cup {"replace"}

(* A schedule runs exactly when its entry says RUNNING: between operations  *)
(* there is one cron entry or subscription, the one the registered entry    *)
(* holds (Register, Unregister, Start, Stop, doTask); except after what     *)
(* "irregular" lists: a Start beside another operation or on an entry that  *)
(* runs, a deferred restore of Stop to RUNNING or STARTING, an entry that   *)
(* runs while a subscriber replaces it or it is a subscriber itself, a      *)
(* subscriber stopped while the broker is away, a bridge removed under a    *)
(* subscription.                                                            *)
RunsIffRunning ==
  (Quiet /\ ~irregular) =>
    {f \in Feeds : Feeding(f)} =
      IF registry # 0 /\ entries[registry].state = "RUNNING" THEN {entries[registry].feed} ELSE {}

(* Once an entry says STOP, nothing calls its task any more                 *)
(* (TimerEntry.Stop, SubscriberEntry.Stop), with the same exceptions.       *)
StoppedIsSilent ==
  ~irregular =>
    \A f \in Feeds : Feeding(f) => entries[feeds[f].owner].state # "STOP"

(* Whoever signals a subscription, with subscriberLock held and often       *)
(* registryLock too, is answered: its goroutine is or comes back to its     *)
(* select (Unsubscribe, run); unless a task of a NATS subscription failed,  *)
(* a subscription was signalled while it was ending, or its bridge was      *)
(* removed while it ran.                                                    *)
SignalAnswered ==
  ~blockable =>
    \A a \in Actors : act[a].pc = "signal" =>
      /\ feeds[act[a].feed].live
      /\ act[act[a].feed].pc \in {"idle", "run"}

(* registry_timer_test.go:264-266: the entry is STOP after a failing task   *)
(* of a NATS subscription.                                                  *)
FailedTaskStops ==
  \A f \in Feeds, e \in 1..MaxEntry :
    (act[f].pc = "stop" /\ act[f].ent = e /\ entries[e].kind = "NATS") ~> (entries[e].state = "STOP")
=============================================================================
