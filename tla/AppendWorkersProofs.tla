------------------------ MODULE AppendWorkersProofs ------------------------
(***************************************************************************)
(* Proofs about the append workers.  The reference counts are exact for    *)
(* every number of clients, workers and tables, whoever stops workers.     *)
(* When only the idle check stops workers (AdminOps = {}), a worker in     *)
(* use is never being stopped, and a stopped one left no row behind.       *)
(* Whoever stops workers, a table has one appender at a time.              *)
(* In service the workers implement AppendLog, step by step; and whoever   *)
(* stops workers, the rows of a writer reach the appender in order, once.  *)
(***************************************************************************)
EXTENDS AppendWorkers, FiniteSetTheorems, TLAPS

Holders(w) == {c \in Clients : hold[c] = w}

\* A client is between GetAppendWorker and Close exactly when it has a worker,
\* which was started; a registered or running worker knows its table.
HoldsWhileBusy ==
  \A c \in Clients : (hold[c] # None) <=> (pc[c] \in {"holding", "sending", "sendingMore", "stuck"})
Started ==
  /\ \A c \in Clients : hold[c] # None => chan[hold[c]] # "none"
  /\ \A w \in Workers : chan[w] # "none" => tableOf[w] # None
  /\ \A w \in Workers : loop[w] # "none" => chan[w] # "none"
  /\ \A t \in Tables : registry[t] # None => tableOf[registry[t]] = t /\ chan[registry[t]] # "none"
Linked == HoldsWhileBusy /\ Started

CountInv == TypeOK /\ RefCountExact /\ Linked

\* What the lock protects in service.
Idle == job["flusher"]
InService ==
  /\ control = None /\ ~shut
  /\ job["flush"] = Ready /\ job["shutdown"] = Ready
  /\ \/ lock = None /\ Idle = Ready
     \/ lock = "flusher" /\ Idle.phase = "scan" /\ Idle.mode = "idle"
  /\ Idle.cur \notin Idle.todo \cup Idle.del /\ Idle.todo \cap Idle.del = {}
  /\ \A t \in Idle.todo \cup Idle.del : registry[t] # None
  /\ Idle.cur # None => registry[Idle.cur] # None /\ stop[registry[Idle.cur]]
  /\ \A t \in Idle.del : chan[registry[t]] = "closed"

\* The life of one worker in service: the registered one is open until the
\* flusher has stopped it, and it is stopped only while nobody holds it.
Lives(w) ==
  /\ chan[w] = "none" => ~stop[w] /\ loop[w] = "none"
  /\ chan[w] = "open" => registry[tableOf[w]] = w /\ loop[w] # "none"
  /\ chan[w] = "closed" => stop[w] /\ loop[w] = "done"
                           /\ (registry[tableOf[w]] = w => tableOf[w] \in Idle.del)
  /\ stop[w] /\ chan[w] = "open" => tableOf[w] = Idle.cur
  /\ stop[w] => refs[w] = 0
  /\ loop[w] \in {"drain", "done"} => stop[w]
  /\ loop[w] \in {"none", "done"} => queue[w] = <<>> /\ more[w] = 0

ServiceInv == CountInv /\ InService /\ \A w \in Workers : Lives(w)
-----------------------------------------------------------------------------
\* Counting: refCount follows the holders when one client takes or drops w.
LEMMA HoldersFinite == ASSUME NEW w PROVE IsFiniteSet(Holders(w)) /\ Cardinality(Holders(w)) \in Nat
  BY AppendAssumption, FS_Subset, FS_CardinalityType DEF AppendAssumption, Holders

LEMMA HoldersGain ==
  ASSUME hold \in [Clients -> Workers \cup {None}], NEW c \in Clients, hold[c] = None,
         NEW w \in Workers, hold' = [hold EXCEPT ![c] = w], NEW v \in Workers
  PROVE  Cardinality(Holders(v)') =
           IF v = w THEN Cardinality(Holders(v)) + 1 ELSE Cardinality(Holders(v))
<1>1. CASE v = w
  <2>1. Holders(v)' = Holders(v) \cup {c} /\ c \notin Holders(v)
    BY <1>1, AppendAssumption DEF Holders, AppendAssumption
  <2> QED BY <2>1, <1>1, HoldersFinite, FS_AddElement
<1>2. CASE v # w
  <2>1. Holders(v)' = Holders(v)
    BY <1>2, AppendAssumption DEF Holders, AppendAssumption
  <2> QED BY <2>1, <1>2
<1> QED BY <1>1, <1>2

LEMMA HoldersLose ==
  ASSUME hold \in [Clients -> Workers \cup {None}], NEW c \in Clients, hold[c] \in Workers,
         hold' = [hold EXCEPT ![c] = None], NEW v \in Workers
  PROVE  /\ Cardinality(Holders(v)') =
              IF v = hold[c] THEN Cardinality(Holders(v)) - 1 ELSE Cardinality(Holders(v))
         /\ Cardinality(Holders(v)') \in Nat
<1>0. Cardinality(Holders(v)') \in Nat
  <2>1. IsFiniteSet(Holders(v)')
    BY AppendAssumption, FS_Subset DEF AppendAssumption, Holders
  <2> QED BY <2>1, FS_CardinalityType
<1>1. CASE v = hold[c]
  <2>1. Holders(v)' = Holders(v) \ {c} /\ c \in Holders(v)
    BY <1>1, AppendAssumption DEF Holders, AppendAssumption
  <2> QED BY <2>1, <1>1, <1>0, HoldersFinite, FS_RemoveElement
<1>2. CASE v # hold[c]
  <2>1. Holders(v)' = Holders(v)
    BY <1>2, AppendAssumption DEF Holders, AppendAssumption
  <2> QED BY <2>1, <1>2, <1>0
<1> QED BY <1>1, <1>2
-----------------------------------------------------------------------------
LEMMA InitCount == Init => CountInv
<1> SUFFICES ASSUME Init PROVE CountInv
  OBVIOUS
<1>1. TypeOK
  <2>1. Ready \in Jobs
    BY DEF Ready, Jobs
  <2>2. <<>> \in Seq(Rows)
    OBVIOUS
  <2> QED BY <2>1, <2>2 DEF Init, TypeOK
<1>2. RefCountExact
  <2> SUFFICES ASSUME NEW w \in Workers PROVE refs[w] = Cardinality({c \in Clients : hold[c] = w})
    BY DEF RefCountExact
  <2>1. {c \in Clients : hold[c] = w} = {}
    BY AppendAssumption DEF Init, AppendAssumption
  <2> QED BY <2>1, FS_EmptySet DEF Init
<1>3. Linked
  BY AppendAssumption DEF Init, Linked, HoldsWhileBusy, Started, AppendAssumption
<1> QED BY <1>1, <1>2, <1>3 DEF CountInv

\* A step that leaves the holders and the counts alone keeps the counts exact.
LEMMA CountKept == ASSUME RefCountExact, UNCHANGED <<refs, hold>> PROVE RefCountExact'
  BY DEF RefCountExact

LEMMA GetExistingCount ==
  ASSUME CountInv, NEW c \in Clients, NEW t \in Tables, GetExisting(c, t) PROVE CountInv'
<1> USE DEF GetExisting, stopVars
<1>0. TypeOK /\ HoldsWhileBusy /\ Started /\ RefCountExact
  BY DEF CountInv, Linked
<1>1. hold[c] = None /\ registry[t] \in Workers
  <2>1. hold[c] = None
    BY <1>0 DEF HoldsWhileBusy
  <2>2. registry[t] \in Workers
    BY <1>0 DEF TypeOK
  <2> QED BY <2>1, <2>2
<1>2. TypeOK'
  BY <1>0, <1>1 DEF TypeOK
<1>3. RefCountExact'
  <2> SUFFICES ASSUME NEW w \in Workers PROVE refs'[w] = Cardinality(Holders(w)')
    BY DEF RefCountExact, Holders
  <2>2. refs[w] = Cardinality(Holders(w))
    BY <1>0 DEF RefCountExact, Holders
  <2>3. refs'[w] = IF w = registry[t] THEN refs[w] + 1 ELSE refs[w]
    BY <1>0, <1>1 DEF TypeOK
  <2>4. hold \in [Clients -> Workers \cup {None}]
    BY <1>0 DEF TypeOK
  <2> QED BY <1>1, <2>2, <2>3, <2>4, HoldersGain
<1>4. HoldsWhileBusy'
  BY <1>0, <1>1, AppendAssumption DEF HoldsWhileBusy, TypeOK, AppendAssumption
<1>5. Started'
  BY <1>0, <1>1 DEF Started, TypeOK
<1> QED BY <1>2, <1>3, <1>4, <1>5 DEF CountInv, Linked

LEMMA GetNewCount ==
  ASSUME CountInv, NEW c \in Clients, NEW t \in Tables, NEW w \in Workers, GetNew(c, t, w)
  PROVE  CountInv'
<1> USE DEF GetNew, stopVars
<1>0. TypeOK /\ HoldsWhileBusy /\ Started /\ RefCountExact
  BY DEF CountInv, Linked
<1>1. hold[c] = None
  BY <1>0 DEF HoldsWhileBusy
<1>2. TypeOK'
  BY <1>0 DEF TypeOK
<1>3. RefCountExact'
  <2> SUFFICES ASSUME NEW v \in Workers PROVE refs'[v] = Cardinality(Holders(v)')
    BY DEF RefCountExact, Holders
  <2>2. refs[v] = Cardinality(Holders(v))
    BY <1>0 DEF RefCountExact, Holders
  <2>3. Cardinality(Holders(w)) = 0
    <3>1. Holders(w) = {}
      BY <1>0, AppendAssumption DEF Started, Holders, AppendAssumption
    <3> QED BY <3>1, FS_EmptySet
  <2>4. refs'[v] = IF v = w THEN 1 ELSE refs[v]
    BY <1>0 DEF TypeOK
  <2>5. hold \in [Clients -> Workers \cup {None}]
    BY <1>0 DEF TypeOK
  <2>6. Cardinality(Holders(v)') =
           IF v = w THEN Cardinality(Holders(v)) + 1 ELSE Cardinality(Holders(v))
    BY <1>1, <2>5, HoldersGain
  <2> QED BY <2>2, <2>3, <2>4, <2>6
<1>4. HoldsWhileBusy'
  BY <1>0, <1>1, AppendAssumption DEF HoldsWhileBusy, TypeOK, AppendAssumption
<1>5. Started'
  BY <1>0, <1>1, AppendAssumption DEF Started, TypeOK, AppendAssumption
<1> QED BY <1>2, <1>3, <1>4, <1>5 DEF CountInv, Linked

LEMMA ReleaseCount ==
  ASSUME CountInv, NEW c \in Clients, NEW p \in {"idle", "panicked"},
         pc[c] \in {"holding", "sending", "sendingMore"}, ReleaseTo(c, p),
         UNCHANGED <<lock, registry, tableOf, idle, stop, loop, chan, queue, more, log, sent, stopVars>>
  PROVE  CountInv'
<1> USE DEF ReleaseTo, stopVars
<1>0. TypeOK /\ HoldsWhileBusy /\ Started /\ RefCountExact
  BY DEF CountInv, Linked
<1>1. hold[c] \in Workers
  <2>1. hold[c] # None
    BY <1>0 DEF HoldsWhileBusy
  <2> QED BY <1>0, <2>1 DEF TypeOK
<1>2. RefCountExact' /\ refs' \in [Workers -> Nat]
  <2>1. refs \in [Workers -> Nat] /\ hold \in [Clients -> Workers \cup {None}]
    BY <1>0 DEF TypeOK
  <2>2. ASSUME NEW w \in Workers
        PROVE  refs'[w] = Cardinality(Holders(w)') /\ refs'[w] \in Nat
    <3>2. refs[w] = Cardinality(Holders(w))
      BY <1>0 DEF RefCountExact, Holders
    <3>3. refs'[w] = IF w = hold[c] THEN refs[w] - 1 ELSE refs[w]
      BY <1>1, <2>1
    <3>4. /\ Cardinality(Holders(w)') =
              IF w = hold[c] THEN Cardinality(Holders(w)) - 1 ELSE Cardinality(Holders(w))
          /\ Cardinality(Holders(w)') \in Nat
      BY <1>1, <2>1, HoldersLose
    <3> QED BY <3>2, <3>3, <3>4
  <2> QED BY <2>1, <2>2 DEF RefCountExact, Holders
<1>3. TypeOK'
  BY <1>0, <1>2 DEF TypeOK
<1>4. HoldsWhileBusy'
  BY <1>0, <1>1, AppendAssumption DEF HoldsWhileBusy, TypeOK, AppendAssumption
<1>5. Started'
  BY <1>0, <1>1, AppendAssumption DEF Started, TypeOK, AppendAssumption
<1> QED BY <1>2, <1>3, <1>4, <1>5 DEF CountInv, Linked

\* Steps that neither take nor drop a reference.
LEMMA SendCount ==
  ASSUME CountInv, NEW c \in Clients,
         AppendBegin(c) \/ Deliver(c) \/ SendStuck(c) \/ AppendMore(c) \/ DeliverMore(c)
  PROVE  CountInv'
<1> USE DEF CountInv, Linked, workerVars, stopVars
<1>0. RefCountExact'
  BY CountKept DEF AppendBegin, Deliver, SendStuck, AppendMore, DeliverMore
<1>1. CASE AppendBegin(c)
  <2>1. TypeOK'
    BY <1>1 DEF AppendBegin, TypeOK
  <2>2. Linked'
    BY <1>1 DEF AppendBegin, TypeOK, HoldsWhileBusy, Started
  <2> QED BY <1>0, <2>1, <2>2
<1>2. CASE Deliver(c)
  <2>1. hold[c] \in Workers
    BY <1>2 DEF Deliver, TypeOK, HoldsWhileBusy
  <2>2. Append(queue[hold[c]], <<c, sent[c]>>) \in Seq(Rows)
    BY <2>1 DEF TypeOK, Rows
  <2>3. TypeOK'
    BY <1>2, <2>1, <2>2 DEF Deliver, TypeOK
  <2>4. Linked'
    BY <1>2, <2>1 DEF Deliver, TypeOK, HoldsWhileBusy, Started
  <2> QED BY <1>0, <2>3, <2>4
<1>3. CASE SendStuck(c)
  <2>1. TypeOK'
    BY <1>3 DEF SendStuck, TypeOK
  <2>2. Linked'
    BY <1>3 DEF SendStuck, TypeOK, HoldsWhileBusy, Started
  <2> QED BY <1>0, <2>1, <2>2
<1>4. CASE AppendMore(c)
  <2>1. TypeOK'
    BY <1>4 DEF AppendMore, TypeOK
  <2>2. Linked'
    BY <1>4 DEF AppendMore, TypeOK, HoldsWhileBusy, Started
  <2> QED BY <1>0, <2>1, <2>2
<1>5. CASE DeliverMore(c)
  <2>1. hold[c] \in Workers
    BY <1>5 DEF DeliverMore, TypeOK, HoldsWhileBusy
  <2>2. TypeOK'
    BY <1>5, <2>1 DEF DeliverMore, TypeOK
  <2>3. Linked'
    BY <1>5, <2>1 DEF DeliverMore, TypeOK, HoldsWhileBusy, Started
  <2> QED BY <1>0, <2>2, <2>3
<1> QED BY <1>1, <1>2, <1>3, <1>4, <1>5

LEMMA LoopCount ==
  ASSUME CountInv, NEW w \in Workers, LoopStep(w) \/ Age(w) PROVE CountInv'
<1> USE DEF CountInv, Linked, clientVars, stopVars
<1>0. RefCountExact'
  BY CountKept DEF LoopStep, LoopAppend, LoopMore, LoopBreak, LoopExit, Age, Take
<1>1. CASE LoopAppend(w)
  <2>1. tableOf[w] \in Tables
    BY <1>1 DEF LoopAppend, TypeOK, Started
  <2>2. Head(queue[w]) \in Rows /\ Tail(queue[w]) \in Seq(Rows)
    BY <1>1 DEF LoopAppend, Take, TypeOK
  <2>3. TypeOK'
    BY <1>1, <2>1, <2>2 DEF LoopAppend, Take, TypeOK
  <2>4. Linked'
    BY <1>1 DEF LoopAppend, Take, HoldsWhileBusy, Started
  <2> QED BY <1>0, <2>3, <2>4
<1>2. CASE LoopBreak(w) \/ LoopExit(w)
  <2>1. TypeOK'
    BY <1>2 DEF LoopBreak, LoopExit, TypeOK
  <2>2. Linked'
    BY <1>2 DEF LoopBreak, LoopExit, TypeOK, HoldsWhileBusy, Started
  <2> QED BY <1>0, <2>1, <2>2
<1>3. CASE Age(w)
  <2>1. TypeOK'
    BY <1>3 DEF Age, TypeOK
  <2>2. Linked'
    BY <1>3 DEF Age, HoldsWhileBusy, Started
  <2> QED BY <1>0, <2>1, <2>2
<1>4. CASE LoopMore(w)
  <2>1. TypeOK'
    BY <1>4 DEF LoopMore, TypeOK
  <2>2. Linked'
    BY <1>4 DEF LoopMore, HoldsWhileBusy, Started
  <2> QED BY <1>0, <2>1, <2>2
<1> QED BY <1>1, <1>2, <1>3, <1>4 DEF LoopStep

LEMMA JobEdit ==
  ASSUME NEW j \in Jobs, NEW S \in SUBSET Tables, NEW x \in Tables \cup {None}
  PROVE  /\ [j EXCEPT !.todo = S] \in Jobs
         /\ [j EXCEPT !.todo = S, !.cur = x] \in Jobs
         /\ [j EXCEPT !.cur = x, !.del = S] \in Jobs
  BY DEF Jobs

LEMMA ScanCount ==
  ASSUME CountInv, NEW s \in Stoppers, ScanStep(s) PROVE CountInv'
<1> USE DEF CountInv, Linked, clientVars, workerVars
<1>0. RefCountExact'
  BY CountKept DEF ScanStep, Skip, StopSignal, StopFinish, ScanEnd
<1>1. ASSUME NEW t \in Tables, Skip(s, t) PROVE CountInv'
  <2>0. job[s] \in Jobs /\ job[s].todo \ {t} \in SUBSET Tables
    BY DEF TypeOK, Jobs
  <2>3. [job[s] EXCEPT !.todo = @ \ {t}] \in Jobs
    BY <2>0, JobEdit
  <2>4. job' = [job EXCEPT ![s] = [job[s] EXCEPT !.todo = @ \ {t}]]
    BY <1>1 DEF Skip
  <2>1. TypeOK'
    BY <1>1, <2>3, <2>4 DEF Skip, TypeOK
  <2>2. Linked'
    BY <1>1 DEF Skip, HoldsWhileBusy, Started
  <2> QED BY <1>0, <2>1, <2>2
<1>2. ASSUME NEW t \in Tables, StopSignal(s, t) PROVE CountInv'
  <2>0. job[s] \in Jobs /\ job[s].todo \ {t} \in SUBSET Tables
    BY DEF TypeOK, Jobs
  <2>3. [job[s] EXCEPT !.todo = @ \ {t}, !.cur = t] \in Jobs
    BY <2>0, JobEdit
  <2>4. job' = [job EXCEPT ![s] = [job[s] EXCEPT !.todo = @ \ {t}, !.cur = t]]
    BY <1>2 DEF StopSignal, TypeOK
  <2>1. TypeOK'
    <3>1. job' \in [Stoppers -> Jobs]
      BY <2>3, <2>4 DEF TypeOK
    <3>2. stop' \in [Workers -> BOOLEAN]
      BY <1>2 DEF StopSignal, TypeOK
    <3> QED BY <1>2, <3>1, <3>2 DEF StopSignal, TypeOK
  <2>2. Linked'
    BY <1>2 DEF StopSignal, HoldsWhileBusy, Started
  <2> QED BY <1>0, <2>1, <2>2
<1>3. CASE StopFinish(s)
  <2>0. job[s].cur \in Tables
    BY <1>3 DEF StopFinish, TypeOK, Jobs
  <2>3. job[s] \in Jobs /\ job[s].del \cup {job[s].cur} \in SUBSET Tables
    BY <2>0 DEF TypeOK, Jobs
  <2>4. [job[s] EXCEPT !.cur = None, !.del = @ \cup {job[s].cur}] \in Jobs
    <3>1. \A j \in Jobs, S \in SUBSET Tables : [j EXCEPT !.cur = None, !.del = S] \in Jobs
      BY JobEdit
    <3> QED BY <2>3, <3>1
  <2>5. job' = [job EXCEPT ![s] = [job[s] EXCEPT !.cur = None, !.del = @ \cup {job[s].cur}]]
    BY <1>3 DEF StopFinish, TypeOK
  <2>1. TypeOK'
    <3>1. job' \in [Stoppers -> Jobs]
      BY <2>4, <2>5 DEF TypeOK
    <3>2. chan' \in [Workers -> {"none", "open", "closed"}]
      BY <1>3 DEF StopFinish, TypeOK
    <3> QED BY <1>3, <3>1, <3>2 DEF StopFinish, TypeOK
  <2>2. Linked'
    BY <1>3 DEF StopFinish, TypeOK, HoldsWhileBusy, Started
  <2> QED BY <1>0, <2>1, <2>2
<1>4. CASE ScanEnd(s)
  <2>1. Ready \in Jobs /\ [Ready EXCEPT !.phase = "exited"] \in Jobs
    BY DEF Ready, Jobs
  <2>2. TypeOK'
    BY <1>4, <2>1 DEF ScanEnd, TypeOK
  <2>3. Linked'
    BY <1>4, AppendAssumption DEF ScanEnd, TypeOK, HoldsWhileBusy, Started, AppendAssumption
  <2> QED BY <1>0, <2>2, <2>3
<1> QED BY <1>1, <1>2, <1>3, <1>4 DEF ScanStep

LEMMA BeginCount ==
  ASSUME CountInv, TickBegin \/ AdminStep PROVE CountInv'
<1> USE DEF CountInv, Linked, clientVars, workerVars
<1>0. RefCountExact'
  BY CountKept DEF TickBegin, AdminStep, RequestStop, ControlBegin, FlushBegin, ShutdownBegin,
                   FlusherExit, ShutdownScan
<1>1. \A mode \in {"idle", "all"}, tabs \in SUBSET Tables : Scan(mode, tabs) \in Jobs
  BY DEF Scan, Jobs
<1>2. Linked'
  BY DEF TickBegin, AdminStep, RequestStop, ControlBegin, FlushBegin, ShutdownBegin,
         FlusherExit, ShutdownScan, HoldsWhileBusy, Started
<1>3. CASE TickBegin
  BY <1>0, <1>1, <1>2, <1>3 DEF TickBegin, BeginScan, TypeOK, Stoppers
<1>4. ASSUME NEW t \in Tables, RequestStop(t) PROVE TypeOK'
  BY <1>4 DEF RequestStop, TypeOK
<1>5. CASE ControlBegin
  <2>1. {control} \in SUBSET Tables
    BY <1>5 DEF ControlBegin, TypeOK
  <2> QED BY <1>0, <1>1, <1>2, <1>5, <2>1 DEF ControlBegin, BeginScan, TypeOK, Stoppers
<1>6. ASSUME NEW tabs \in SUBSET Tables, FlushBegin(tabs) PROVE TypeOK'
  BY <1>1, <1>6 DEF FlushBegin, BeginScan, TypeOK, Stoppers
<1>7. CASE ShutdownBegin
  BY <1>0, <1>2, <1>7 DEF ShutdownBegin, TypeOK
<1>8. CASE FlusherExit
  BY <1>0, <1>2, <1>8 DEF FlusherExit, TypeOK, Stoppers, Jobs
<1>9. CASE ShutdownScan
  BY <1>0, <1>1, <1>2, <1>9 DEF ShutdownScan, TypeOK, Stoppers
<1> QED BY <1>0, <1>2, <1>3, <1>4, <1>5, <1>6, <1>7, <1>8, <1>9 DEF AdminStep

LEMMA CountStep == CountInv /\ [Next]_vars => CountInv'
<1> SUFFICES ASSUME CountInv, [Next]_vars PROVE CountInv'
  OBVIOUS
<1>1. ASSUME NEW c \in Clients, ClientStep(c) PROVE CountInv'
  <2>1. ASSUME Close(c) \/ SendPanic(c) PROVE CountInv'
    BY <2>1, ReleaseCount DEF Close, SendPanic
  <2> QED BY <1>1, <2>1, GetExistingCount, GetNewCount, SendCount DEF ClientStep
<1>2. CASE UNCHANGED vars
  BY <1>2 DEF vars, workerVars, clientVars, stopVars, CountInv, TypeOK, RefCountExact, Linked,
              HoldsWhileBusy, Started
<1> QED BY <1>1, <1>2, LoopCount, ScanCount, BeginCount DEF Next

\* Every state is well typed; in particular no reference count goes below 0.
THEOREM TypeCorrect == Spec => []TypeOK
<1>1. CountInv => TypeOK
  BY DEF CountInv
<1> QED BY InitCount, CountStep, <1>1, PTL DEF Spec

\* The count the idle check reads is the number of writers that hold the
\* worker, whoever stops workers and however many there are.
THEOREM RefCountCorrect == Spec => []RefCountExact
<1>1. CountInv => RefCountExact
  BY DEF CountInv
<1> QED BY InitCount, CountStep, <1>1, PTL DEF Spec
-----------------------------------------------------------------------------
\* In service.  A held worker has a positive count, so it is not being stopped.
LEMMA HeldOpen ==
  ASSUME ServiceInv, NEW c \in Clients, hold[c] # None
  PROVE  LET w == hold[c] IN
         /\ w \in Workers /\ refs[w] > 0 /\ ~stop[w]
         /\ chan[w] = "open" /\ loop[w] = "select" /\ registry[tableOf[w]] = w
<1>1. hold[c] \in Workers
  BY DEF ServiceInv, CountInv, TypeOK
<1>2. refs[hold[c]] > 0
  <2>1. Holders(hold[c]) # {}
    BY DEF Holders
  <2>2. Cardinality(Holders(hold[c])) # 0
    BY <2>1, HoldersFinite, FS_EmptySet
  <2>3. refs[hold[c]] = Cardinality(Holders(hold[c]))
    BY <1>1 DEF ServiceInv, CountInv, RefCountExact, Holders
  <2> QED BY <2>2, <2>3, HoldersFinite
<1>3. chan[hold[c]] \in {"open", "closed"} /\ loop[hold[c]] \in {"none", "select", "drain", "done"}
  BY <1>1 DEF ServiceInv, CountInv, Linked, Started, TypeOK
<1>4. Lives(hold[c])
  BY <1>1 DEF ServiceInv
<1>5. ~stop[hold[c]] /\ chan[hold[c]] = "open" /\ loop[hold[c]] \in {"none", "select"}
  BY <1>2, <1>3, <1>4 DEF Lives
<1> QED BY <1>1, <1>2, <1>4, <1>5 DEF Lives

LEMMA InitService == Init => ServiceInv
  BY InitCount, AppendAssumption
  DEF Init, ServiceInv, InService, Lives, Ready, Idle, Stoppers, AppendAssumption

\* Only the flusher stops workers.
LEMMA OthersRest ==
  ASSUME AdminOps = {}, ServiceInv, NEW s \in Stoppers, ScanStep(s) PROVE s = "flusher"
<1>1. s \in {"flush", "shutdown"} => job[s] = Ready
  BY DEF ServiceInv, InService
<1>2. Ready.todo = {} /\ Ready.cur = None /\ Ready.phase = "ready"
  BY DEF Ready
<1> QED BY <1>1, <1>2 DEF ScanStep, Skip, StopSignal, StopFinish, ScanEnd, Stoppers

LEMMA GetExistingService ==
  ASSUME ServiceInv, NEW c \in Clients, NEW t \in Tables, GetExisting(c, t)
  PROVE  InService' /\ \A w \in Workers : Lives(w)'
<1> USE DEF GetExisting, stopVars
<1>1. InService'
  BY DEF ServiceInv, InService, Idle
<1>2. ASSUME NEW w \in Workers PROVE Lives(w)'
  <2>1. Lives(w) /\ TypeOK
    BY DEF ServiceInv, CountInv
  <2>2. CASE w # registry[t]
    BY <2>1, <2>2 DEF Lives, Idle, TypeOK
  <2>3. CASE w = registry[t]
    <3>1. Idle = Ready
      BY AppendAssumption DEF ServiceInv, InService, AppendAssumption, Stoppers
    <3>2. tableOf[w] = t /\ chan[w] # "none"
      BY <2>3 DEF ServiceInv, CountInv, Linked, Started
    <3>3. ~stop[w]
      BY <2>1, <2>3, <3>1, <3>2, AppendAssumption DEF Lives, Ready, TypeOK, AppendAssumption
    <3> QED BY <2>1, <3>3 DEF Lives, Idle
  <2> QED BY <2>2, <2>3
<1> QED BY <1>1, <1>2

LEMMA GetNewService ==
  ASSUME ServiceInv, NEW c \in Clients, NEW t \in Tables, NEW w \in Workers, GetNew(c, t, w)
  PROVE  InService' /\ \A v \in Workers : Lives(v)'
<1> USE DEF GetNew, stopVars
<1>0. Idle = Ready /\ lock = None /\ TypeOK /\ Started
  BY AppendAssumption DEF ServiceInv, InService, AppendAssumption, Stoppers, CountInv, Linked
<1>1. InService'
  BY <1>0 DEF ServiceInv, InService, Idle, Ready
<1>2. ASSUME NEW v \in Workers PROVE Lives(v)'
  <2>1. Lives(v)
    BY DEF ServiceInv
  <2>2. CASE v # w
    <3>1. chan[v] = "open" => tableOf[v] # t
      BY <1>0, <2>1, AppendAssumption DEF Lives, AppendAssumption
    <3>2. chan[v] # "none" => tableOf[v] \in Tables
      BY <1>0 DEF Started, TypeOK
    <3>3. \A u \in Tables : u # t => registry'[u] = registry[u]
      BY <1>0 DEF TypeOK
    <3>4. registry'[t] = w
      BY <1>0 DEF TypeOK
    <3>5. chan'[v] = chan[v] /\ tableOf'[v] = tableOf[v] /\ refs'[v] = refs[v] /\ loop'[v] = loop[v]
      BY <2>2, <1>0 DEF TypeOK
    <3>6. chan[v] \in {"none", "open", "closed"}
      BY <1>0 DEF TypeOK
    <3>7. stop[v] => chan[v] # "none"
      BY <2>1 DEF Lives
    <3>8. chan[v] # "none" => (registry'[tableOf[v]] = v <=> (tableOf[v] # t /\ registry[tableOf[v]] = v))
      BY <2>2, <3>2, <3>3, <3>4
    <3> QED BY <2>1, <2>2, <3>1, <3>5, <3>6, <3>7, <3>8 DEF Lives, Idle
  <2>3. CASE v = w
    BY <1>0, <2>1, <2>3 DEF Lives, TypeOK
  <2> QED BY <2>2, <2>3
<1> QED BY <1>1, <1>2

LEMMA SendService ==
  ASSUME ServiceInv, NEW c \in Clients,
         AppendBegin(c) \/ Deliver(c) \/ SendStuck(c) \/ SendPanic(c) \/ Close(c)
         \/ AppendMore(c) \/ DeliverMore(c)
  PROVE  InService' /\ \A w \in Workers : Lives(w)'
<1> USE DEF stopVars, workerVars
<1>0. TypeOK /\ InService /\ HoldsWhileBusy /\ \A w \in Workers : Lives(w)
  BY DEF ServiceInv, CountInv, Linked
<1>1. hold[c] # None
  BY <1>0 DEF HoldsWhileBusy, AppendBegin, Deliver, SendStuck, SendPanic, Close, AppendMore, DeliverMore
<1>2. /\ hold[c] \in Workers /\ ~stop[hold[c]] /\ refs[hold[c]] > 0
      /\ chan[hold[c]] = "open" /\ loop[hold[c]] = "select"
  BY <1>1, HeldOpen
<1>3. ~SendStuck(c) /\ ~SendPanic(c)
  BY <1>2 DEF SendStuck, SendPanic
<1>4. CASE AppendBegin(c)
  BY <1>0, <1>4 DEF AppendBegin, InService, Lives, Idle
<1>5. CASE Deliver(c)
  <2>1. \A w \in Workers : w # hold[c] => queue'[w] = queue[w]
    BY <1>0, <1>5 DEF Deliver, TypeOK
  <2> QED BY <1>0, <1>2, <1>5, <2>1 DEF Deliver, InService, Lives, Idle
<1>6. CASE Close(c)
  <2>1. \A w \in Workers : w # hold[c] => refs'[w] = refs[w]
    BY <1>0, <1>6 DEF Close, ReleaseTo, TypeOK
  <2> QED BY <1>0, <1>2, <1>6, <2>1 DEF Close, ReleaseTo, InService, Lives, Idle
<1>7. CASE AppendMore(c)
  BY <1>0, <1>7 DEF AppendMore, InService, Lives, Idle
<1>8. CASE DeliverMore(c)
  <2>1. \A w \in Workers : w # hold[c] => more'[w] = more[w]
    BY <1>0, <1>8 DEF DeliverMore, TypeOK
  <2> QED BY <1>0, <1>2, <1>8, <2>1 DEF DeliverMore, InService, Lives, Idle
<1> QED BY <1>3, <1>4, <1>5, <1>6, <1>7, <1>8

\* len(appendC) = 0 is an empty channel.
LEMMA BufferEmpty ==
  ASSUME TypeOK, NEW w \in Workers PROVE Buffered(w) = 0 <=> queue[w] = <<>> /\ more[w] = 0
<1>1. queue[w] \in Seq(Rows) /\ more[w] \in Nat /\ Len(queue[w]) \in Nat
  BY DEF TypeOK
<1>2. queue[w] = <<>> <=> Len(queue[w]) = 0
  BY <1>1
<1> QED BY <1>1, <1>2 DEF Buffered

LEMMA LoopService ==
  ASSUME ServiceInv, NEW w \in Workers, LoopStep(w) \/ Age(w)
  PROVE  InService' /\ \A v \in Workers : Lives(v)'
<1> USE DEF stopVars, clientVars
<1>0. TypeOK /\ InService /\ \A v \in Workers : Lives(v)
  BY DEF ServiceInv, CountInv
<1>1. CASE LoopAppend(w)
  <2>1. \A v \in Workers : v # w => queue'[v] = queue[v]
    BY <1>0, <1>1 DEF LoopAppend, Take, TypeOK
  <2> QED BY <1>0, <1>1, <2>1 DEF LoopAppend, Take, InService, Lives, Idle
<1>2. CASE LoopBreak(w) \/ LoopExit(w)
  <2>1. \A v \in Workers : v # w => loop'[v] = loop[v]
    BY <1>0, <1>2 DEF LoopBreak, LoopExit, TypeOK
  <2>2. /\ loop'[w] \in {"drain", "done"} /\ stop[w]
        /\ loop'[w] = "done" => queue[w] = <<>> /\ more[w] = 0
    BY <1>0, <1>2, BufferEmpty DEF LoopBreak, LoopExit, TypeOK, Lives
  <2>3. loop[w] # "done" /\ loop[w] # "none"
    BY <1>2 DEF LoopBreak, LoopExit
  <2> QED BY <1>0, <1>2, <2>1, <2>2, <2>3 DEF LoopBreak, LoopExit, InService, Lives, Idle
<1>3. CASE Age(w)
  BY <1>0, <1>3 DEF Age, InService, Lives, Idle
<1>4. CASE LoopMore(w)
  <2>1. \A v \in Workers : v # w => more'[v] = more[v]
    BY <1>0, <1>4 DEF LoopMore, TypeOK
  <2> QED BY <1>0, <1>4, <2>1 DEF LoopMore, InService, Lives, Idle
<1> QED BY <1>1, <1>2, <1>3, <1>4 DEF LoopStep

LEMMA TickService ==
  ASSUME ServiceInv, TickBegin PROVE InService' /\ \A w \in Workers : Lives(w)'
<1> USE DEF workerVars, clientVars, TickBegin, BeginScan
<1>0. TypeOK /\ InService /\ Started /\ \A w \in Workers : Lives(w)
  BY DEF ServiceInv, CountInv, Linked
<1>1. Idle = Ready /\ lock = None
  BY <1>0, AppendAssumption DEF InService, AppendAssumption, Stoppers
<1>2. Idle' = Scan("idle", Tables) /\ \A s \in {"flush", "shutdown"} : job'[s] = job[s]
  BY <1>0 DEF Idle, TypeOK, Stoppers
<1>3. InService'
  BY <1>0, <1>2, AppendAssumption
  DEF InService, Scan, Registered, Ready, AppendAssumption
<1>4. ASSUME NEW w \in Workers PROVE Lives(w)'
  BY <1>0, <1>1, <1>2 DEF Lives, Ready, Scan
<1> QED BY <1>3, <1>4

LEMMA ScanService ==
  ASSUME ServiceInv, ScanStep("flusher") PROVE InService' /\ \A w \in Workers : Lives(w)'
<1> USE DEF clientVars, workerVars
<1>0. /\ TypeOK /\ InService /\ Started /\ \A w \in Workers : Lives(w)
      /\ Idle \in Jobs /\ Idle = job["flusher"] /\ "flusher" \in Stoppers
  BY DEF ServiceInv, CountInv, Linked, TypeOK, Idle, Stoppers
<1>1. ASSUME NEW t \in Tables, Skip("flusher", t) PROVE InService' /\ \A w \in Workers : Lives(w)'
  <2>1. Idle' = [Idle EXCEPT !.todo = @ \ {t}] /\ \A s \in {"flush", "shutdown"} : job'[s] = job[s]
    BY <1>0, <1>1 DEF Skip, TypeOK, Idle, Stoppers
  <2>2. /\ Idle'.todo = Idle.todo \ {t} /\ Idle'.cur = Idle.cur /\ Idle'.del = Idle.del
        /\ Idle'.phase = Idle.phase /\ Idle'.mode = Idle.mode
    BY <1>0, <2>1 DEF Jobs
  <2>3. Idle # Ready /\ Idle.phase = "scan"
    BY <1>0, <1>1 DEF Skip, Ready, InService
  <2>4. InService'
    BY <1>0, <1>1, <2>1, <2>2, <2>3 DEF Skip, InService
  <2>5. \A w \in Workers : Lives(w)'
    BY <1>0, <1>1, <2>2 DEF Skip, Lives
  <2> QED BY <2>4, <2>5
<1>2. ASSUME NEW t \in Tables, StopSignal("flusher", t)
      PROVE  InService' /\ \A w \in Workers : Lives(w)'
  <2>1. Idle' = [Idle EXCEPT !.todo = @ \ {t}, !.cur = t]
        /\ \A s \in {"flush", "shutdown"} : job'[s] = job[s]
    BY <1>0, <1>2 DEF StopSignal, TypeOK, Idle, Stoppers
  <2>2. /\ Idle'.todo = Idle.todo \ {t} /\ Idle'.cur = t /\ Idle'.del = Idle.del
        /\ Idle'.phase = Idle.phase /\ Idle'.mode = Idle.mode
    BY <1>0, <2>1 DEF Jobs
  <2>3. Idle.phase = "scan" /\ Idle.mode = "idle" /\ lock = "flusher" /\ t \in Idle.todo /\ Idle.cur = None
    BY <1>0, <1>2 DEF StopSignal, Ready, InService
  <2>4. registry[t] \in Workers /\ tableOf[registry[t]] = t /\ refs[registry[t]] = 0
        /\ chan[registry[t]] # "none"
    <3>1. registry[t] # None
      BY <1>0, <2>3 DEF InService
    <3> QED BY <1>0, <1>2, <2>3, <3>1 DEF StopSignal, Stoppable, TypeOK, Started
  <2>5. stop' = [stop EXCEPT ![registry[t]] = TRUE] /\ stop \in [Workers -> BOOLEAN]
    BY <1>0, <1>2 DEF StopSignal, TypeOK
  <2>6. InService'
    <3>1. t \notin Idle.del /\ t # None
      BY <1>0, <2>3, AppendAssumption DEF InService, AppendAssumption
    <3>2. stop'[registry[t]]
      BY <2>4, <2>5
    <3> QED BY <1>0, <1>2, <2>1, <2>2, <2>3, <2>4, <3>1, <3>2 DEF StopSignal, InService
  <2>7. ASSUME NEW w \in Workers PROVE Lives(w)'
    <3>0. Lives(w) /\ (w # registry[t] => stop'[w] = stop[w])
      BY <1>0, <2>5
    <3>1. chan[w] # "none" => tableOf[w] \in Tables
      BY <1>0 DEF Started, TypeOK
    <3>2. stop[w] => chan[w] = "closed"
      BY <3>0, <3>1, <2>3, <1>0, AppendAssumption DEF Lives, TypeOK, AppendAssumption
    <3>3. CASE w = registry[t]
      BY <1>2, <2>2, <2>4, <2>5, <3>0, <3>3 DEF StopSignal, Lives
    <3>4. CASE w # registry[t]
      BY <1>2, <2>2, <3>0, <3>2, <3>4 DEF StopSignal, Lives
    <3> QED BY <3>3, <3>4
  <2> QED BY <2>6, <2>7
<1>3. CASE StopFinish("flusher")
  <2> DEFINE t == Idle.cur
  <2>0. t \in Tables /\ registry[t] \in Workers /\ tableOf[registry[t]] = t /\ stop[registry[t]]
    BY <1>0, <1>3 DEF StopFinish, InService, TypeOK, Started, Jobs
  <2>1. Idle' = [Idle EXCEPT !.cur = None, !.del = @ \cup {t}]
        /\ \A s \in {"flush", "shutdown"} : job'[s] = job[s]
    BY <1>0, <1>3 DEF StopFinish, TypeOK, Idle, Stoppers
  <2>2. /\ Idle'.todo = Idle.todo /\ Idle'.cur = None /\ Idle'.del = Idle.del \cup {t}
        /\ Idle'.phase = Idle.phase /\ Idle'.mode = Idle.mode
    BY <1>0, <2>1 DEF Jobs
  <2>3. Idle.phase = "scan" /\ Idle.mode = "idle" /\ lock = "flusher" /\ loop[registry[t]] = "done"
    BY <1>0, <1>3, <2>0, AppendAssumption DEF StopFinish, Ready, InService, AppendAssumption
  <2>4. chan' = [chan EXCEPT ![registry[t]] = "closed"]
        /\ chan \in [Workers -> {"none", "open", "closed"}]
    BY <1>0, <1>3 DEF StopFinish, TypeOK
  <2>5. InService'
    <3>1. \A u \in Tables : chan[registry[u]] = "closed" /\ registry[u] \in Workers
                              => chan'[registry[u]] = "closed"
      BY <2>4
    <3>2. chan'[registry[t]] = "closed" /\ t \notin Idle.todo /\ t # None /\ registry[t] # None
      BY <1>0, <2>0, <2>4, AppendAssumption DEF InService, AppendAssumption
    <3>3. \A u \in Idle.del : u \in Tables /\ registry[u] \in Workers
      BY <1>0 DEF InService, Jobs, TypeOK
    <3>4. None \notin Idle.todo \cup Idle.del'
      BY <1>0, <2>0, <2>2, AppendAssumption DEF Jobs, AppendAssumption
    <3>5. UNCHANGED <<registry, stop, lock, control, shut>>
      BY <1>3 DEF StopFinish
    <3> QED BY <1>0, <2>1, <2>2, <2>3, <3>1, <3>2, <3>3, <3>4, <3>5 DEF InService
  <2>6. ASSUME NEW w \in Workers PROVE Lives(w)'
    <3>0. Lives(w) /\ (w # registry[t] => chan'[w] = chan[w]) /\ chan'[registry[t]] = "closed"
      BY <1>0, <2>0, <2>4
    <3>1. UNCHANGED <<registry, stop, loop, tableOf, refs, queue, more>>
      BY <1>3 DEF StopFinish
    <3>2. CASE w = registry[t]
      BY <2>0, <2>2, <2>3, <3>0, <3>1, <3>2 DEF Lives
    <3>3. CASE w # registry[t]
      <4>1. stop[w] => chan[w] # "open"
        BY <1>0, <3>0, <3>3, <2>0 DEF Lives
      <4> QED BY <2>2, <3>0, <3>1, <3>3, <4>1 DEF Lives
    <3> QED BY <3>2, <3>3
  <2> QED BY <2>5, <2>6
<1>4. CASE ScanEnd("flusher")
  <2>1. Idle' = Ready /\ lock' = None /\ \A s \in {"flush", "shutdown"} : job'[s] = job[s]
    BY <1>0, <1>4 DEF ScanEnd, TypeOK, Idle, Stoppers
  <2>2. registry' = [t \in Tables |-> IF t \in Idle.del THEN None ELSE registry[t]]
    BY <1>0, <1>4 DEF ScanEnd
  <2>3. InService'
    BY <1>0, <1>4, <2>1 DEF ScanEnd, InService, Ready
  <2>4. ASSUME NEW w \in Workers PROVE Lives(w)'
    <3>0. Lives(w) /\ UNCHANGED <<chan, stop, loop, tableOf, refs, queue, more>> /\ Idle.cur = None /\ w # None
      BY <1>0, <1>4, AppendAssumption DEF ScanEnd, AppendAssumption
    <3>1. chan[w] # "none" => tableOf[w] \in Tables
      BY <1>0 DEF Started, TypeOK
    <3>2. chan[w] = "open" => registry'[tableOf[w]] = w /\ ~stop[w]
      BY <1>0, <2>2, <3>0, <3>1, AppendAssumption DEF Lives, InService, AppendAssumption
    <3>3. chan[w] = "closed" => registry'[tableOf[w]] # w
      BY <2>2, <3>0, <3>1 DEF Lives
    <3>4. chan[w] \in {"none", "open", "closed"}
      BY <1>0 DEF TypeOK
    <3> QED BY <3>0, <3>2, <3>3, <3>4 DEF Lives
  <2> QED BY <2>3, <2>4
<1> QED BY <1>1, <1>2, <1>3, <1>4 DEF ScanStep

\* The forced stops do not happen in service.
LEMMA NoAdmin == ASSUME AdminOps = {}, ServiceInv PROVE ~AdminStep
<1>1. job["flusher"].phase # "exited" /\ control = None /\ ~shut
  BY DEF ServiceInv, InService, Idle, Ready
<1> QED BY <1>1 DEF AdminStep, RequestStop, ControlBegin, FlushBegin, ShutdownBegin, FlusherExit,
                    ShutdownScan

LEMMA ServiceStep == ASSUME AdminOps = {} PROVE ServiceInv /\ [Next]_vars => ServiceInv'
<1> SUFFICES ASSUME ServiceInv, [Next]_vars PROVE InService' /\ \A w \in Workers : Lives(w)'
  BY CountStep DEF ServiceInv
<1>1. ASSUME NEW c \in Clients, ClientStep(c) PROVE InService' /\ \A w \in Workers : Lives(w)'
  BY <1>1, GetExistingService, GetNewService, SendService DEF ClientStep
<1>2. ASSUME NEW s \in Stoppers, ScanStep(s) PROVE InService' /\ \A w \in Workers : Lives(w)'
  BY <1>2, OthersRest, ScanService
<1>3. CASE UNCHANGED vars
  BY <1>3 DEF vars, workerVars, clientVars, stopVars, ServiceInv, InService, Lives, Idle
<1> QED BY <1>1, <1>2, <1>3, LoopService, TickService, NoAdmin DEF Next

\* In service a writer always holds the registered, open worker of its table,
\* and nobody has begun to stop it.
THEOREM HeldServed == ASSUME AdminOps = {} PROVE Spec => []HeldIsServed
<1>1. ServiceInv => HeldIsServed
  BY HeldOpen DEF HeldIsServed
<1> QED BY InitService, ServiceStep, <1>1, PTL DEF Spec

\* In service no send meets a closed channel, and a stopped worker has handed
\* over every row it accepted.
THEOREM NothingStranded == ASSUME AdminOps = {} PROVE Spec => []NoRowStranded
<1> DEFINE Sound == \A c \in Clients : pc[c] \notin {"stuck", "panicked"}
<1>1. Init => Sound
  BY DEF Init
<1>2. ServiceInv /\ Sound /\ [Next]_vars => Sound'
  <2> SUFFICES ASSUME ServiceInv, Sound, [Next]_vars PROVE Sound'
    OBVIOUS
  <2>1. TypeOK /\ HoldsWhileBusy
    BY DEF ServiceInv, CountInv, Linked
  <2>2. ASSUME NEW c \in Clients, ClientStep(c) PROVE Sound'
    <3>1. ~SendStuck(c) /\ ~SendPanic(c)
      <4>1. hold[c] # None => chan[hold[c]] = "open"
        BY HeldOpen
      <4>2. SendStuck(c) \/ SendPanic(c) => hold[c] # None
        BY <2>1 DEF SendStuck, SendPanic, HoldsWhileBusy
      <4> QED BY <4>1, <4>2 DEF SendStuck, SendPanic
    <3> QED BY <2>1, <2>2, <3>1 DEF ClientStep, GetExisting, GetNew, AppendBegin, Deliver, Close,
                                 AppendMore, DeliverMore, ReleaseTo, TypeOK
  <2>3. ASSUME UNCHANGED pc PROVE Sound'
    BY <2>3
  <2> QED BY <2>2, <2>3
          DEF Next, LoopStep, LoopAppend, LoopMore, LoopBreak, LoopExit, Age, ScanStep, Skip, StopSignal,
              StopFinish, ScanEnd, TickBegin, AdminStep, RequestStop, ControlBegin, FlushBegin,
              ShutdownBegin, FlusherExit, ShutdownScan, clientVars, vars
<1>3. ServiceInv /\ Sound => NoRowStranded
  <2>1. ServiceInv => \A w \in Workers : chan[w] = "closed" => Buffered(w) = 0
    BY BufferEmpty DEF ServiceInv, CountInv, Lives
  <2> QED BY <2>1 DEF NoRowStranded
<1> QED BY InitService, ServiceStep, <1>1, <1>2, <1>3, PTL DEF Spec
-----------------------------------------------------------------------------
(* Whoever stops workers: one appender for a table at a time.              *)

\* An open worker is the registered one of its table.
OpenRegistered ==
  \A w \in Workers : chan[w] = "open" => tableOf[w] \in Tables /\ registry[tableOf[w]] = w

\* The stoppers that delete from the map hold the lock from their first look at it
\* to the end, and delete only workers that are closed.
Lockers == {"flusher", "flush"}
Guarded(s) ==
  /\ lock = s <=> job[s].phase = "scan"
  /\ job[s].phase # "scan" => job[s].todo = {} /\ job[s].cur = None /\ job[s].del = {}
  /\ \A t \in job[s].todo : registry[t] # None
  /\ job[s].cur # None => registry[job[s].cur] # None
  /\ \A t \in job[s].del : registry[t] # None /\ chan[registry[t]] = "closed"

AppenderInv == CountInv /\ OpenRegistered /\ \A s \in Lockers : Guarded(s)

LEMMA InitAppender == Init => AppenderInv
<1> SUFFICES ASSUME Init PROVE AppenderInv
  OBVIOUS
<1>1. CountInv
  BY InitCount
<1>2. OpenRegistered
  BY DEF Init, OpenRegistered
<1>3. \A s \in Lockers : Guarded(s)
  BY AppendAssumption DEF Init, Guarded, Lockers, Stoppers, Ready, AppendAssumption
<1> QED
  BY <1>1, <1>2, <1>3 DEF AppenderInv

\* Steps that touch neither the map nor the jobs.
LEMMA AppenderKept ==
  ASSUME AppenderInv, CountInv', UNCHANGED <<lock, registry, tableOf, chan, job>>
  PROVE  AppenderInv'
BY DEF AppenderInv, OpenRegistered, Guarded, Lockers

\* A worker is made while nobody scans and the table has none.
LEMMA GetNewAppender ==
  ASSUME AppenderInv, CountInv', NEW c \in Clients, NEW t \in Tables, NEW w \in Workers, GetNew(c, t, w)
  PROVE  AppenderInv'
<1>1. /\ lock = None /\ registry[t] = None /\ chan[w] = "none"
      /\ registry' = [registry EXCEPT ![t] = w]
      /\ tableOf' = [tableOf EXCEPT ![w] = t]
      /\ chan' = [chan EXCEPT ![w] = "open"]
      /\ UNCHANGED <<lock, job>>
  BY DEF GetNew, stopVars
<1>2. /\ registry \in [Tables -> Workers \cup {None}] /\ tableOf \in [Workers -> Tables \cup {None}]
      /\ chan \in [Workers -> {"none", "open", "closed"}] /\ None \notin Workers /\ None \notin Lockers
  BY AppendAssumption DEF AppenderInv, CountInv, TypeOK, AppendAssumption, Stoppers, Lockers
<1>3. OpenRegistered'
  <2> SUFFICES ASSUME NEW v \in Workers, chan'[v] = "open"
               PROVE  tableOf'[v] \in Tables /\ registry'[tableOf'[v]] = v
    BY DEF OpenRegistered
  <2>1. CASE v = w
    BY <1>1, <1>2, <2>1
  <2>2. CASE v # w
    <3>1. tableOf[v] \in Tables /\ registry[tableOf[v]] = v /\ tableOf'[v] = tableOf[v]
      BY <1>1, <1>2, <2>2 DEF AppenderInv, OpenRegistered
    <3>2. tableOf[v] # t
      BY <1>1, <1>2, <3>1
    <3> QED
      BY <1>1, <1>2, <3>1, <3>2
  <2> QED
    BY <2>1, <2>2
<1>4. ASSUME NEW s \in Lockers PROVE Guarded(s)'
  <2>1. job[s].todo = {} /\ job[s].cur = None /\ job[s].del = {} /\ job[s].phase # "scan"
    BY <1>1, <1>2 DEF AppenderInv, Guarded
  <2> QED
    BY <1>1, <1>2, <2>1 DEF Guarded
<1> QED
  BY <1>3, <1>4 DEF AppenderInv

\* A scan begins with the lock taken and the tables that have a worker.
LEMMA BeginScanAppender ==
  ASSUME AppenderInv, CountInv', NEW s \in Lockers, NEW mode, NEW tabs, BeginScan(s, mode, tabs),
         UNCHANGED <<registry, tableOf, chan>>
  PROVE  AppenderInv'
<1>1. /\ lock = None /\ lock' = s /\ job[s].phase = "ready"
      /\ job' = [job EXCEPT ![s] = Scan(mode, tabs)]
  BY DEF BeginScan
<1>2. job \in [Stoppers -> Jobs] /\ s \in Stoppers /\ None \notin Lockers /\ Lockers \subseteq Stoppers
  BY AppendAssumption DEF AppenderInv, CountInv, TypeOK, AppendAssumption, Stoppers, Lockers
<1>3. OpenRegistered'
  BY DEF AppenderInv, OpenRegistered
<1>4. ASSUME NEW r \in Lockers PROVE Guarded(r)'
  <2>1. CASE r = s
    <3>1. job'[r] = Scan(mode, tabs)
      BY <1>1, <1>2, <2>1
    <3> QED
      BY <1>1, <2>1, <3>1 DEF Guarded, Scan, Registered
  <2>2. CASE r # s
    <3>1. job'[r] = job[r] /\ job[r].phase # "scan"
      BY <1>1, <1>2, <2>2 DEF AppenderInv, Guarded
    <3> QED
      BY <1>1, <2>2, <3>1 DEF AppenderInv, Guarded
  <2> QED
    BY <2>1, <2>2
<1> QED
  BY <1>3, <1>4 DEF AppenderInv

\* The flusher ends, and StopAppendWorkers goes over the map without the lock.
LEMMA ShutdownAppender ==
  ASSUME AppenderInv, CountInv', FlusherExit \/ ShutdownScan
  PROVE  AppenderInv'
<1>1. UNCHANGED <<lock, registry, tableOf, chan>>
  BY DEF FlusherExit, ShutdownScan, workerVars
<1>2. job \in [Stoppers -> Jobs] /\ Lockers \subseteq Stoppers
  BY DEF AppenderInv, CountInv, TypeOK, Stoppers, Lockers
<1>3. OpenRegistered'
  BY <1>1 DEF AppenderInv, OpenRegistered
<1>4. ASSUME NEW s \in Lockers PROVE Guarded(s)'
  <2>1. CASE FlusherExit
    <3>1. /\ job["flusher"].phase = "ready"
          /\ job' = [job EXCEPT !["flusher"].phase = "exited"]
      BY <2>1 DEF FlusherExit
    <3>2. /\ job'[s].todo = job[s].todo /\ job'[s].cur = job[s].cur /\ job'[s].del = job[s].del
          /\ job'[s].phase = "scan" <=> job[s].phase = "scan"
      BY <1>2, <3>1 DEF Jobs
    <3> QED
      BY <1>1, <3>2 DEF AppenderInv, Guarded
  <2>2. CASE ShutdownScan
    <3>1. job'[s] = job[s]
      BY <1>2, <2>2 DEF ShutdownScan, Lockers
    <3> QED
      BY <1>1, <3>1 DEF AppenderInv, Guarded
  <2> QED
    BY <2>1, <2>2
<1> QED
  BY <1>3, <1>4 DEF AppenderInv

\* One step of a scan that leaves the map alone.
LEMMA ScanAppender ==
  ASSUME AppenderInv, CountInv', NEW s \in Stoppers, NEW t \in Tables, Skip(s, t) \/ StopSignal(s, t)
  PROVE  AppenderInv'
<1>1. t \in job[s].todo /\ job[s].cur = None /\ UNCHANGED <<lock, registry, tableOf, chan>>
  BY DEF Skip, StopSignal, workerVars
<1>2. job \in [Stoppers -> Jobs] /\ Lockers \subseteq Stoppers /\ None \notin Tables
  BY AppendAssumption DEF AppenderInv, CountInv, TypeOK, Stoppers, Lockers, AppendAssumption
<1>3. OpenRegistered'
  BY <1>1 DEF AppenderInv, OpenRegistered
<1>4. /\ job'[s].phase = job[s].phase /\ job'[s].todo = job[s].todo \ {t}
      /\ job'[s].cur \in {None, t} /\ job'[s].del = job[s].del
      /\ \A r \in Stoppers \ {s} : job'[r] = job[r]
  <2>1. CASE Skip(s, t)
    BY <1>1, <1>2, <2>1 DEF Skip, Jobs
  <2>2. CASE StopSignal(s, t)
    <3>1. job[s] \in Jobs
      BY <1>2
    <3>2. job' = [job EXCEPT ![s] = [job[s] EXCEPT !.todo = @ \ {t}, !.cur = t]]
      BY <1>2, <2>2 DEF StopSignal
    <3>3. job'[s] = [job[s] EXCEPT !.todo = @ \ {t}, !.cur = t] /\ \A r \in Stoppers \ {s} : job'[r] = job[r]
      BY <1>2, <3>2
    <3> QED
      BY <3>1, <3>3 DEF Jobs
  <2> QED
    BY <2>1, <2>2
<1>5. ASSUME NEW r \in Lockers PROVE Guarded(r)'
  <2>1. Guarded(r)
    BY DEF AppenderInv
  <2>2. CASE r # s
    BY <1>1, <1>2, <1>4, <2>1, <2>2 DEF Guarded
  <2>3. CASE r = s
    BY <1>1, <1>4, <2>1, <2>3 DEF Guarded
  <2> QED
    BY <2>2, <2>3
<1> QED
  BY <1>3, <1>5 DEF AppenderInv

\* Stop has returned: the worker is closed, and noted for deletion.
LEMMA StopFinishAppender ==
  ASSUME AppenderInv, CountInv', NEW s \in Stoppers, StopFinish(s)
  PROVE  AppenderInv'
<1> DEFINE t == job[s].cur
<1>1. /\ t # None
      /\ chan' = [chan EXCEPT ![registry[t]] = "closed"]
      /\ job' = [job EXCEPT ![s].cur = None, ![s].del = @ \cup {t}]
      /\ UNCHANGED <<lock, registry, tableOf>>
  BY DEF StopFinish
<1>2. /\ job \in [Stoppers -> Jobs] /\ Lockers \subseteq Stoppers
      /\ chan \in [Workers -> {"none", "open", "closed"}]
      /\ registry \in [Tables -> Workers \cup {None}]
  BY DEF AppenderInv, CountInv, TypeOK, Stoppers, Lockers
<1>3. t \in Tables
  BY <1>1, <1>2 DEF Jobs
<1>4. /\ job'[s].phase = job[s].phase /\ job'[s].todo = job[s].todo
      /\ job'[s].cur = None /\ job'[s].del = job[s].del \cup {t}
      /\ \A r \in Stoppers \ {s} : job'[r] = job[r]
  <2>1. job[s] \in Jobs
    BY <1>2
  <2>2. job' = [job EXCEPT ![s] = [job[s] EXCEPT !.cur = None, !.del = @ \cup {t}]]
    BY <1>1, <1>2
  <2>3. /\ job'[s] = [job[s] EXCEPT !.cur = None, !.del = @ \cup {t}]
        /\ \A r \in Stoppers \ {s} : job'[r] = job[r]
    BY <1>2, <2>2
  <2> QED
    BY <2>1, <2>3 DEF Jobs
<1> HIDE DEF t
<1>5. \A w \in Workers : chan'[w] = chan[w] \/ chan'[w] = "closed"
  BY <1>1, <1>2
<1>6. OpenRegistered'
  BY <1>1, <1>5 DEF AppenderInv, OpenRegistered
<1>7. ASSUME NEW r \in Lockers PROVE Guarded(r)'
  <2>1. Guarded(r)
    BY DEF AppenderInv
  <2>2. \A u \in job[r].del : registry[u] # None /\ chan'[registry[u]] = "closed"
    <3>1. job[r].del \subseteq Tables
      BY <1>2 DEF Jobs
    <3> QED
      BY <1>2, <1>5, <2>1, <3>1 DEF Guarded
  <2>3. CASE r # s
    <3>1. job'[r] = job[r]
      BY <1>2, <1>4, <2>3
    <3>2. UNCHANGED <<lock, registry>>
      BY <1>1
    <3> QED
      BY <2>1, <2>2, <3>1, <3>2 DEF Guarded
  <2>4. CASE r = s
    <3>1. registry[t] # None /\ job[r].phase = "scan"
      BY <1>1, <2>1, <2>4 DEF Guarded, t
    <3>2. chan'[registry[t]] = "closed"
      BY <1>1, <1>2, <1>3, <3>1
    <3>3. UNCHANGED <<lock, registry>>
      BY <1>1
    <3>4. /\ job'[r].phase = job[r].phase /\ job'[r].todo = job[r].todo
          /\ job'[r].cur = None /\ job'[r].del = job[r].del \cup {t}
      BY <1>4, <2>4
    <3> QED
      BY <2>1, <2>2, <3>1, <3>2, <3>3, <3>4 DEF Guarded
  <2> QED
    BY <2>3, <2>4
<1> QED
  BY <1>6, <1>7 DEF AppenderInv

\* What a scan deletes from the map is closed.
LEMMA ScanEndAppender ==
  ASSUME AppenderInv, CountInv', NEW s \in Stoppers, ScanEnd(s)
  PROVE  AppenderInv'
<1>1. job[s].phase = "scan" /\ UNCHANGED <<tableOf, chan>>
  BY DEF ScanEnd, workerVars
<1>2. /\ job \in [Stoppers -> Jobs] /\ Lockers \subseteq Stoppers /\ Stoppers = Lockers \cup {"shutdown"}
      /\ "shutdown" \notin Lockers /\ None \notin Lockers
      /\ registry \in [Tables -> Workers \cup {None}]
  BY AppendAssumption DEF AppenderInv, CountInv, TypeOK, Stoppers, Lockers, AppendAssumption
<1>3. CASE s = "shutdown"
  <2>1. UNCHANGED <<registry, lock>> /\ \A r \in Lockers : job'[r] = job[r]
    BY <1>2, <1>3 DEF ScanEnd
  <2> QED
    BY <1>1, <2>1 DEF AppenderInv, OpenRegistered, Guarded
<1>4. CASE s \in Lockers
  <2>1. /\ job' = [job EXCEPT ![s] = Ready] /\ lock' = None
        /\ registry' = [t \in Tables |-> IF t \in job[s].del THEN None ELSE registry[t]]
    BY <1>2, <1>4 DEF ScanEnd
  <2>2. Guarded(s) /\ lock = s
    BY <1>1, <1>4 DEF AppenderInv, Guarded
  <2>3. OpenRegistered'
    <3> SUFFICES ASSUME NEW w \in Workers, chan[w] = "open"
                 PROVE  tableOf[w] \in Tables /\ registry'[tableOf[w]] = w
      BY <1>1 DEF OpenRegistered
    <3>1. tableOf[w] \in Tables /\ registry[tableOf[w]] = w
      BY DEF AppenderInv, OpenRegistered
    <3>2. tableOf[w] \notin job[s].del
      BY <2>2, <3>1 DEF Guarded
    <3> QED
      BY <2>1, <3>1, <3>2
  <2>4. ASSUME NEW r \in Lockers PROVE Guarded(r)'
    <3>1. job'[r] = Ready \/ (job'[r] = job[r] /\ r # s)
      BY <1>2, <2>1
    <3>2. CASE job'[r] = Ready
      BY <1>2, <2>1, <3>2 DEF Guarded, Ready
    <3>3. CASE job'[r] = job[r] /\ r # s
      <4>1. job[r].phase # "scan" /\ job[r].todo = {} /\ job[r].cur = None /\ job[r].del = {}
        BY <2>2, <3>3 DEF AppenderInv, Guarded
      <4> QED
        BY <1>2, <2>1, <3>3, <4>1 DEF Guarded
    <3> QED
      BY <3>1, <3>2, <3>3
  <2> QED
    BY <2>3, <2>4 DEF AppenderInv
<1> QED
  BY <1>2, <1>3, <1>4

LEMMA AppenderStep == AppenderInv /\ [Next]_vars => AppenderInv'
<1> SUFFICES ASSUME AppenderInv, [Next]_vars PROVE AppenderInv'
  OBVIOUS
<1>0. CountInv'
  BY CountStep DEF AppenderInv
<1> USE <1>0
<1>1. CASE UNCHANGED vars
  BY <1>1, AppenderKept DEF vars, workerVars, stopVars
<1>2. ASSUME NEW c \in Clients, ClientStep(c) PROVE AppenderInv'
  <2>1. ASSUME NEW t \in Tables, GetExisting(c, t) PROVE AppenderInv'
    BY <2>1, AppenderKept DEF GetExisting, stopVars
  <2>2. ASSUME NEW t \in Tables, NEW w \in Workers, GetNew(c, t, w) PROVE AppenderInv'
    BY <2>2, GetNewAppender
  <2>3. CASE AppendBegin(c) \/ Deliver(c) \/ Close(c) \/ SendPanic(c) \/ SendStuck(c)
             \/ AppendMore(c) \/ DeliverMore(c)
    BY <2>3, AppenderKept DEF AppendBegin, Deliver, Close, SendPanic, SendStuck, AppendMore,
                              DeliverMore, workerVars, stopVars
  <2> QED
    BY <1>2, <2>1, <2>2, <2>3 DEF ClientStep
<1>3. ASSUME NEW w \in Workers, LoopStep(w) \/ Age(w) PROVE AppenderInv'
  BY <1>3, AppenderKept DEF LoopStep, LoopAppend, LoopMore, LoopBreak, LoopExit, Age, stopVars
<1>4. ASSUME NEW s \in Stoppers, ScanStep(s) PROVE AppenderInv'
  BY <1>4, ScanAppender, StopFinishAppender, ScanEndAppender DEF ScanStep
<1>5. CASE TickBegin
  BY <1>5, BeginScanAppender DEF TickBegin, Lockers, workerVars
<1>6. CASE AdminStep
  <2>1. ASSUME NEW t \in Tables, RequestStop(t) PROVE AppenderInv'
    BY <2>1, AppenderKept DEF RequestStop, workerVars
  <2>2. CASE ControlBegin
    BY <2>2, BeginScanAppender DEF ControlBegin, Lockers, workerVars
  <2>3. ASSUME NEW tabs \in SUBSET Tables, FlushBegin(tabs) PROVE AppenderInv'
    BY <2>3, BeginScanAppender DEF FlushBegin, Lockers, workerVars
  <2>4. CASE ShutdownBegin
    BY <2>4, AppenderKept DEF ShutdownBegin, workerVars
  <2>5. CASE FlusherExit \/ ShutdownScan
    BY <2>5, ShutdownAppender
  <2> QED
    BY <1>6, <2>1, <2>2, <2>3, <2>4, <2>5 DEF AdminStep
<1> QED
  BY <1>1, <1>2, <1>3, <1>4, <1>5, <1>6 DEF Next

\* Whoever stops workers, a second appender for a table is opened only after Stop
\* has returned for the first (GetAppendWorker and the three ways to stop).
THEOREM OneAppender == Spec => []OneAppenderPerTable
<1>1. AppenderInv => OneAppenderPerTable
  BY DEF AppenderInv, OpenRegistered, OneAppenderPerTable
<1> QED
  BY <1>1, InitAppender, AppenderStep, PTL DEF Spec
-----------------------------------------------------------------------------
(* The refinement                                                          *)

\* What AppendLog calls pending and count.
Pending == [t \in Tables |-> IF registry[t] = None THEN <<>> ELSE queue[registry[t]]]
Accepted == [c \in Clients |-> IF pc[c] = "sending" THEN sent[c] - 1 ELSE sent[c]]
mapped == <<Pending, log, Accepted>>

\* The steps of AppendLog in those terms.
AcceptRow(c, t) ==
  /\ Accepted' = [Accepted EXCEPT ![c] = @ + 1]
  /\ Pending' = [Pending EXCEPT ![t] = Append(@, <<c, Accepted[c] + 1>>)]
  /\ UNCHANGED log
StoreRow(t) ==
  /\ Pending[t] # <<>>
  /\ log' = [log EXCEPT ![t] = Append(@, Head(Pending[t]))]
  /\ Pending' = [Pending EXCEPT ![t] = Tail(@)]
  /\ UNCHANGED Accepted
LogStep == (\E t \in Tables : StoreRow(t) \/ \E c \in Clients : AcceptRow(c, t)) \/ UNCHANGED mapped

LEMMA PendingSame ==
  ASSUME UNCHANGED <<registry, queue>> PROVE UNCHANGED Pending
BY DEF Pending

LEMMA AcceptedSame ==
  ASSUME UNCHANGED <<pc, sent>> PROVE UNCHANGED Accepted
BY DEF Accepted

\* A row that nobody follows leaves the log of those followed alone.
LEMMA MoreMaps ==
  ASSUME TypeOK, \/ \E c \in Clients : AppendMore(c) \/ DeliverMore(c)
                 \/ \E w \in Workers : LoopMore(w)
  PROVE  UNCHANGED mapped /\ UNCHANGED <<queue, log, tableOf, loop, chan>> /\ UNCHANGED Accepted
<1>1. UNCHANGED <<registry, queue, log, sent, tableOf, loop, chan>>
  BY DEF AppendMore, DeliverMore, LoopMore, workerVars, clientVars
<1>2. \A d \in Clients : pc'[d] = "sending" <=> pc[d] = "sending"
  BY DEF AppendMore, DeliverMore, LoopMore, clientVars, TypeOK
<1>3. UNCHANGED Accepted
  BY <1>1, <1>2 DEF Accepted
<1> QED
  BY <1>1, <1>3, PendingSame DEF mapped

\* A writer that gets a worker accepts nothing, and a new worker holds no row.
LEMMA GetMaps ==
  ASSUME ServiceInv, NEW c \in Clients, NEW t \in Tables, NEW w \in Workers,
         GetExisting(c, t) \/ GetNew(c, t, w)
  PROVE  UNCHANGED mapped
<1>1. TypeOK
  BY DEF ServiceInv, CountInv
<1>2. UNCHANGED Accepted
  BY <1>1 DEF GetExisting, GetNew, Accepted, TypeOK
<1>3. UNCHANGED log
  BY DEF GetExisting, GetNew
<1>4. CASE GetExisting(c, t)
  BY <1>2, <1>3, <1>4, PendingSame DEF GetExisting, mapped
<1>5. CASE GetNew(c, t, w)
  <2>1. queue[w] = <<>> /\ w # None
    BY <1>5, AppendAssumption DEF GetNew, ServiceInv, Lives, AppendAssumption
  <2>2. /\ registry[t] = None /\ registry' = [registry EXCEPT ![t] = w] /\ queue' = queue
        /\ registry \in [Tables -> Workers \cup {None}]
    BY <1>1, <1>5 DEF GetNew, TypeOK
  <2>3. UNCHANGED Pending
    BY <2>1, <2>2 DEF Pending
  <2> QED
    BY <1>2, <1>3, <2>3 DEF mapped
<1> QED
  BY <1>4, <1>5

\* The row of an Append that begins is not accepted yet, and Close accepts none.
LEMMA BeginCloseMaps ==
  ASSUME ServiceInv, NEW c \in Clients, AppendBegin(c) \/ Close(c)
  PROVE  UNCHANGED mapped
<1>1. TypeOK
  BY DEF ServiceInv, CountInv
<1>2. UNCHANGED Accepted
  <2> SUFFICES ASSUME NEW d \in Clients
               PROVE  (IF pc'[d] = "sending" THEN sent'[d] - 1 ELSE sent'[d])
                        = IF pc[d] = "sending" THEN sent[d] - 1 ELSE sent[d]
    BY DEF Accepted
  <2>1. pc \in [Clients -> {"idle", "holding", "sending", "sendingMore", "stuck", "panicked"}] /\ sent \in [Clients -> Nat]
    BY <1>1 DEF TypeOK
  <2>2. CASE AppendBegin(c)
    <3>1. /\ pc[c] = "holding" /\ sent' = [sent EXCEPT ![c] = @ + 1]
          /\ pc' = [pc EXCEPT ![c] = "sending"]
      BY <2>2 DEF AppendBegin
    <3>2. CASE d = c
      BY <2>1, <3>1, <3>2
    <3>3. CASE d # c
      BY <2>1, <3>1, <3>3
    <3> QED
      BY <3>2, <3>3
  <2>3. CASE Close(c)
    BY <2>1, <2>3 DEF Close, ReleaseTo
  <2> QED
    BY <2>2, <2>3
<1>3. UNCHANGED <<registry, queue, log>>
  BY DEF AppendBegin, Close, workerVars
<1> QED
  BY <1>2, <1>3, PendingSame DEF mapped

\* A send that completes is the acceptance of the row.
LEMMA DeliverMaps ==
  ASSUME ServiceInv, NEW c \in Clients, Deliver(c)
  PROVE  AcceptRow(c, tableOf[hold[c]])
<1> DEFINE w == hold[c]
           t == tableOf[hold[c]]
           row == <<c, sent[c]>>
<1>1. TypeOK /\ Linked
  BY DEF ServiceInv, CountInv
<1>2. pc[c] = "sending" /\ hold[c] # None
  BY <1>1 DEF Deliver, Linked, HoldsWhileBusy
<1>3. w \in Workers /\ registry[t] = w /\ chan[w] = "open"
  BY <1>2, HeldOpen
<1>4. t \in Tables
  BY <1>1, <1>3, AppendAssumption DEF TypeOK, Linked, Started
<1>5. /\ queue' = [queue EXCEPT ![w] = Append(@, row)]
      /\ pc' = [pc EXCEPT ![c] = "holding"] /\ UNCHANGED <<registry, log, sent>>
  BY DEF Deliver
<1>6. sent[c] \in Nat /\ \A d \in Clients : sent[d] \in Nat
  BY <1>1 DEF TypeOK
<1>7. Accepted[c] + 1 = sent[c]
  BY <1>2, <1>6 DEF Accepted
<1>8. Accepted' = [Accepted EXCEPT ![c] = @ + 1]
  <2>1. Accepted' = [d \in Clients |-> IF d = c THEN sent[c] ELSE Accepted[d]]
    BY <1>1, <1>5 DEF Accepted, TypeOK
  <2>2. Accepted = [d \in Clients |-> Accepted[d]]
    BY DEF Accepted
  <2> HIDE DEF Accepted
  <2> QED
    BY <1>7, <2>1, <2>2
<1>9. Pending[t] = queue[w]
  BY <1>3, <1>4, AppendAssumption DEF Pending, AppendAssumption
<1>10. Pending' = [Pending EXCEPT ![t] = Append(@, row)]
  <2>1. \A u \in Tables \ {t} : registry[u] # None => registry[u] # w
    BY <1>1, <1>3 DEF Linked, Started
  <2>2. \A v \in Workers : queue'[v] = IF v = w THEN Append(queue[w], row) ELSE queue[v]
    BY <1>1, <1>5 DEF TypeOK
  <2>3. \A u \in Tables : registry[u] # None => registry[u] \in Workers
    BY <1>1 DEF TypeOK
  <2>4. Pending' = [u \in Tables |-> IF registry[u] = None THEN <<>> ELSE queue'[registry[u]]]
    BY <1>5 DEF Pending
  <2>5. \A u \in Tables \ {t} : Pending[u] = IF registry[u] = None THEN <<>> ELSE queue'[registry[u]]
    BY <2>1, <2>2, <2>3 DEF Pending
  <2>6. registry[t] # None /\ queue'[registry[t]] = Append(Pending[t], row)
    BY <1>3, <1>9, <2>2, AppendAssumption DEF AppendAssumption
  <2>7. Pending = [u \in Tables |-> Pending[u]]
    BY DEF Pending
  <2> HIDE DEF Pending, row
  <2>8. Pending' = [u \in Tables |-> IF u = t THEN Append(Pending[t], row) ELSE Pending[u]]
    BY <2>4, <2>5, <2>6
  <2> QED
    BY <2>7, <2>8
<1> QED
  BY <1>5, <1>7, <1>8, <1>10 DEF AcceptRow

\* In service no send meets a closed channel.
LEMMA NoSendFails ==
  ASSUME ServiceInv, NEW c \in Clients
  PROVE  ~SendPanic(c) /\ ~SendStuck(c)
<1>1. HoldsWhileBusy
  BY DEF ServiceInv, CountInv, Linked
<1>2. hold[c] # None => chan[hold[c]] = "open"
  BY HeldOpen
<1> QED
  BY <1>1, <1>2 DEF SendPanic, SendStuck, HoldsWhileBusy

\* What the goroutine of a worker takes is the head of its table's log.
LEMMA TakeMaps ==
  ASSUME ServiceInv, NEW w \in Workers, LoopAppend(w)
  PROVE  tableOf[w] \in Tables /\ StoreRow(tableOf[w])
<1> DEFINE t == tableOf[w]
<1>1. TypeOK /\ Linked /\ Lives(w)
  BY DEF ServiceInv, CountInv
<1>2. /\ loop[w] \in {"select", "drain"} /\ queue[w] # <<>>
      /\ queue' = [queue EXCEPT ![w] = Tail(@)]
      /\ log' = [log EXCEPT ![t] = Append(@, Head(queue[w]))]
      /\ UNCHANGED <<registry, pc, sent>>
  BY DEF LoopAppend, Take, clientVars
<1>3. chan[w] = "open"
  BY <1>1, <1>2 DEF TypeOK, Lives
<1>4. t \in Tables /\ registry[t] = w /\ w # None
  BY <1>1, <1>3, AppendAssumption DEF TypeOK, Lives, Linked, Started, AppendAssumption
<1>5. Pending[t] = queue[w]
  BY <1>4 DEF Pending
<1>6. Pending' = [Pending EXCEPT ![t] = Tail(@)]
  <2>1. \A u \in Tables \ {t} : registry[u] # None => registry[u] # w
    BY <1>1, <1>4 DEF Linked, Started
  <2>2. \A v \in Workers : queue'[v] = IF v = w THEN Tail(queue[w]) ELSE queue[v]
    BY <1>1, <1>2 DEF TypeOK
  <2>3. \A u \in Tables : registry[u] # None => registry[u] \in Workers
    BY <1>1 DEF TypeOK
  <2>4. Pending' = [u \in Tables |-> IF registry[u] = None THEN <<>> ELSE queue'[registry[u]]]
    BY <1>2 DEF Pending
  <2>5. \A u \in Tables \ {t} : Pending[u] = IF registry[u] = None THEN <<>> ELSE queue'[registry[u]]
    BY <2>1, <2>2, <2>3 DEF Pending
  <2>6. registry[t] # None /\ queue'[registry[t]] = Tail(Pending[t])
    BY <1>4, <1>5, <2>2
  <2>7. Pending = [u \in Tables |-> Pending[u]]
    BY DEF Pending
  <2> HIDE DEF Pending, t
  <2>8. Pending' = [u \in Tables |-> IF u = t THEN Tail(Pending[t]) ELSE Pending[u]]
    BY <2>4, <2>5, <2>6
  <2> QED
    BY <2>7, <2>8
<1>7. UNCHANGED Accepted
  BY <1>2, AcceptedSame
<1> QED
  BY <1>2, <1>4, <1>5, <1>6, <1>7 DEF StoreRow

\* A worker that is taken out of the map holds no row.
LEMMA ScanMaps ==
  ASSUME AdminOps = {}, ServiceInv, NEW s \in Stoppers, ScanStep(s)
  PROVE  UNCHANGED mapped
<1>1. UNCHANGED <<queue, log, pc, sent>>
  BY DEF ScanStep, Skip, StopSignal, StopFinish, ScanEnd, workerVars, clientVars
<1>2. UNCHANGED Accepted
  BY <1>1, AcceptedSame
<1>3. CASE UNCHANGED registry
  BY <1>1, <1>2, <1>3, PendingSame DEF mapped
<1>4. CASE ScanEnd(s)
  <2>1. s = "flusher"
    BY OthersRest
  <2>2. registry' = [t \in Tables |-> IF t \in Idle.del THEN None ELSE registry[t]]
    BY <1>4, <2>1 DEF ScanEnd, Idle
  <2>3. ASSUME NEW t \in Tables, t \in Idle.del
        PROVE  registry[t] # None /\ queue[registry[t]] = <<>>
    <3>1. registry[t] # None /\ chan[registry[t]] = "closed"
      BY <2>3 DEF ServiceInv, InService
    <3>2. registry[t] \in Workers
      BY <3>1 DEF ServiceInv, CountInv, TypeOK
    <3> QED
      BY <3>1, <3>2 DEF ServiceInv, Lives
  <2>4. \A t \in Tables :
          (IF registry'[t] = None THEN <<>> ELSE queue'[registry'[t]])
            = IF registry[t] = None THEN <<>> ELSE queue[registry[t]]
    BY <1>1, <2>2, <2>3
  <2>5. UNCHANGED Pending
    BY <2>4 DEF Pending
  <2> QED
    BY <1>1, <1>2, <2>5 DEF mapped
<1> QED
  BY <1>3, <1>4 DEF ScanStep, Skip, StopSignal, StopFinish

\* Every step in service is a step of AppendLog.
LEMMA ServiceMaps ==
  ASSUME AdminOps = {}, ServiceInv, [Next]_vars PROVE LogStep
<1>1. ASSUME NEW c \in Clients, ClientStep(c) PROVE LogStep
  <2>1. CASE Deliver(c)
    <3>1. tableOf[hold[c]] \in Tables
      <4>1. hold[c] # None
        BY <2>1 DEF ServiceInv, CountInv, Linked, HoldsWhileBusy, Deliver
      <4>2. hold[c] \in Workers /\ chan[hold[c]] = "open"
        BY <4>1, HeldOpen
      <4> QED
        BY <4>2 DEF ServiceInv, CountInv, Linked, Started, TypeOK
    <3> QED
      BY <2>1, <3>1, DeliverMaps DEF LogStep
  <2>2. CASE AppendBegin(c) \/ Close(c)
    BY <2>2, BeginCloseMaps DEF LogStep
  <2>3. ASSUME NEW t \in Tables, GetExisting(c, t) \/ \E w \in Workers : GetNew(c, t, w) PROVE LogStep
    <3>1. Workers # {}
      BY <2>3 DEF GetExisting, ServiceInv, CountInv, TypeOK
    <3> QED
      BY <2>3, <3>1, GetMaps DEF LogStep
  <2>4. CASE AppendMore(c) \/ DeliverMore(c)
    BY <2>4, MoreMaps DEF LogStep, ServiceInv, CountInv
  <2> QED
    BY <1>1, <2>1, <2>2, <2>3, <2>4, NoSendFails DEF ClientStep
<1>2. ASSUME NEW w \in Workers, LoopStep(w) \/ Age(w) PROVE LogStep
  <2>1. CASE LoopAppend(w)
    BY <2>1, TakeMaps DEF LogStep
  <2>2. CASE LoopBreak(w) \/ LoopExit(w) \/ Age(w)
    <3>1. UNCHANGED <<registry, queue, log, pc, sent>>
      BY <2>2 DEF LoopBreak, LoopExit, Age, clientVars
    <3> QED
      BY <3>1, PendingSame, AcceptedSame DEF mapped, LogStep
  <2>3. CASE LoopMore(w)
    BY <2>3, MoreMaps DEF LogStep, ServiceInv, CountInv
  <2> QED
    BY <1>2, <2>1, <2>2, <2>3 DEF LoopStep
<1>3. ASSUME NEW s \in Stoppers, ScanStep(s) PROVE LogStep
  BY <1>3, ScanMaps DEF LogStep
<1>4. CASE TickBegin \/ UNCHANGED vars
  <2>1. UNCHANGED <<registry, queue, log, pc, sent>>
    BY <1>4 DEF TickBegin, vars, workerVars, clientVars
  <2> QED
    BY <2>1, PendingSame, AcceptedSame DEF mapped, LogStep
<1> QED
  BY <1>1, <1>2, <1>3, <1>4, NoAdmin DEF Next

\* In service the append workers implement AppendLog: whatever the writers, the
\* workers' goroutines and the flusher do, each row whose Append returned enters the
\* sequence of its table once, and the appender gets that sequence (GetAppendWorker,
\* Append, Close, the loop and the idle check).
THEOREM LogImplemented == ASSUME AdminOps = {} PROVE Spec => Abstract!Spec
<1>1. Init => Abstract!Init
  BY DEF Init, Abstract!Init
<1>2. ServiceInv /\ [Next]_vars => [Abstract!Next]_(Abstract!vars)
  <2> SUFFICES ASSUME ServiceInv, [Next]_vars PROVE Abstract!Next \/ UNCHANGED Abstract!vars
    OBVIOUS
  <2>1. LogStep
    BY ServiceMaps
  <2>2. CASE UNCHANGED mapped
    BY <2>2 DEF mapped, Pending, Accepted, Abstract!vars
  <2>3. ASSUME NEW t \in Tables, StoreRow(t) PROVE Abstract!Next
    <3>1. Abstract!Store(t)
      BY <2>3 DEF StoreRow, Pending, Accepted, Abstract!Store
    <3> QED
      BY <3>1 DEF Abstract!Next
  <2>4. ASSUME NEW t \in Tables, NEW c \in Clients, AcceptRow(c, t) PROVE Abstract!Next
    <3>1. Abstract!Accept(c, t)
      BY <2>4 DEF AcceptRow, Pending, Accepted, Abstract!Accept
    <3> QED
      BY <3>1 DEF Abstract!Next
  <2> QED
    BY <2>1, <2>2, <2>3, <2>4 DEF LogStep
<1> QED
  BY <1>1, <1>2, InitService, ServiceStep, PTL DEF Spec, Abstract!Spec
-----------------------------------------------------------------------------
(* Rows in order, whoever stops workers                                    *)

\* Rows of one client in ascending order within q, and between p and q.
Ascending(q) == \A i, j \in 1..Len(q) : i < j /\ q[i][1] = q[j][1] => q[i][2] < q[j][2]
Precedes(p, q) == \A i \in 1..Len(p), j \in 1..Len(q) : p[i][1] = q[j][1] => p[i][2] < q[j][2]
\* No row of q is one that its client has yet to deliver.
Delivered(q) == \A i \in 1..Len(q) : q[i][2] <= Accepted[q[i][1]]

\* A goroutine that still takes rows has the one open appender of its table, so
\* what it appends comes after all that its predecessors appended.  The queue of
\* a worker whose goroutine ended may hold anything: nobody reads it.
Running(w) == loop[w] \in {"select", "drain"}
Sequenced(w) ==
  /\ Running(w) => /\ chan[w] = "open"
                   /\ Ascending(queue[w])
                   /\ Precedes(log[tableOf[w]], queue[w])
  /\ chan[w] = "none" => queue[w] = <<>>
  /\ Delivered(queue[w])

OrderInv ==
  /\ AppenderInv
  /\ \A w \in Workers : Sequenced(w)
  /\ \A t \in Tables : Ascending(log[t]) /\ Delivered(log[t])

LEMMA AcceptedNat == ASSUME TypeOK, NEW c \in Clients PROVE Accepted[c] \in Int
BY DEF TypeOK, Accepted

LEMMA AscendingAppend ==
  ASSUME NEW q \in Seq(Rows), NEW row \in Rows, Ascending(q),
         \A i \in 1..Len(q) : q[i][1] = row[1] => q[i][2] < row[2]
  PROVE  Ascending(Append(q, row))
BY DEF Ascending, Rows

LEMMA PrecedesAppend ==
  ASSUME NEW p \in Seq(Rows), NEW q \in Seq(Rows), NEW row \in Rows, Precedes(p, q)
  PROVE  /\ (\A i \in 1..Len(p) : p[i][1] = row[1] => p[i][2] < row[2]) => Precedes(p, Append(q, row))
         /\ (\A i \in 1..Len(q) : row[1] = q[i][1] => row[2] < q[i][2]) => Precedes(Append(p, row), q)
<1>1. ASSUME NEW r \in Seq(Rows)
      PROVE  \A i \in 1..Len(Append(r, row)) :
               Append(r, row)[i] = row \/ (i \in 1..Len(r) /\ Append(r, row)[i] = r[i])
  OBVIOUS
<1>2. ASSUME \A i \in 1..Len(p) : p[i][1] = row[1] => p[i][2] < row[2]
      PROVE  Precedes(p, Append(q, row))
  BY <1>1, <1>2 DEF Precedes
<1>3. ASSUME \A i \in 1..Len(q) : row[1] = q[i][1] => row[2] < q[i][2]
      PROVE  Precedes(Append(p, row), q)
  BY <1>1, <1>3 DEF Precedes
<1> QED
  BY <1>2, <1>3

\* The head of an ascending queue precedes the rest.
LEMMA QueueTail ==
  ASSUME NEW q \in Seq(Rows), q # <<>>
  PROVE  /\ Head(q) = q[1] /\ Head(q) \in Rows /\ 1 \in 1..Len(q)
         /\ Tail(q) \in Seq(Rows) /\ \A i \in 1..Len(Tail(q)) : i + 1 \in 1..Len(q) /\ Tail(q)[i] = q[i + 1]
OBVIOUS

LEMMA AscendingTail ==
  ASSUME NEW q \in Seq(Rows), q # <<>>, Ascending(q)
  PROVE  /\ Ascending(Tail(q))
         /\ \A i \in 1..Len(Tail(q)) : Head(q)[1] = Tail(q)[i][1] => Head(q)[2] < Tail(q)[i][2]
<1> DEFINE r == Tail(q)
<1>1. Head(q) = q[1] /\ 1 \in 1..Len(q) /\ Len(r) \in Nat
      /\ \A i \in 1..Len(r) : i + 1 \in 1..Len(q) /\ r[i] = q[i + 1]
  BY QueueTail
<1> HIDE DEF r
<1>2. \A i, j \in 1..Len(r) : i < j /\ r[i][1] = r[j][1] => r[i][2] < r[j][2]
  <2> SUFFICES ASSUME NEW i \in 1..Len(r), NEW j \in 1..Len(r), i < j, r[i][1] = r[j][1]
               PROVE  r[i][2] < r[j][2]
    OBVIOUS
  <2>1. i + 1 \in 1..Len(q) /\ j + 1 \in 1..Len(q) /\ i + 1 < j + 1
    BY <1>1
  <2> QED
    BY <1>1, <2>1 DEF Ascending
<1>3. \A i \in 1..Len(r) : q[1][1] = r[i][1] => q[1][2] < r[i][2]
  <2>1. \A i \in 1..Len(r) : 1 < i + 1
    BY <1>1
  <2> QED
    BY <1>1, <2>1 DEF Ascending
<1> QED
  BY <1>1, <1>2, <1>3 DEF Ascending, r

LEMMA InitOrder == Init => OrderInv
<1> SUFFICES ASSUME Init PROVE OrderInv
  OBVIOUS
<1>1. /\ \A w \in Workers : queue[w] = <<>> /\ loop[w] = "none"
      /\ \A t \in Tables : log[t] = <<>>
  BY DEF Init
<1>2. Ascending(<<>>) /\ Delivered(<<>>)
  BY DEF Ascending, Delivered
<1> QED
  BY <1>1, <1>2, InitAppender DEF OrderInv, Sequenced, Running

\* Steps that touch no row.
LEMMA OrderKept ==
  ASSUME OrderInv, AppenderInv', UNCHANGED <<queue, log, tableOf>>,
         \A w \in Workers : Running(w)' => Running(w) /\ chan'[w] = chan[w],
         \A w \in Workers : chan'[w] = "none" => chan[w] = "none",
         \A c \in Clients : Accepted[c] <= Accepted'[c]
  PROVE  OrderInv'
<1>1. TypeOK /\ TypeOK'
  BY DEF OrderInv, AppenderInv, CountInv
<1>2. \A c \in Clients : Accepted[c] \in Int /\ Accepted'[c] \in Int
  BY <1>1, AcceptedNat DEF TypeOK, Accepted
<1>3. ASSUME NEW q \in Seq(Rows), Delivered(q) PROVE Delivered(q)'
  <2> SUFFICES ASSUME NEW i \in 1..Len(q) PROVE q[i][2] <= Accepted'[q[i][1]]
    BY DEF Delivered
  <2>1. q[i] \in Rows /\ q[i][1] \in Clients /\ q[i][2] \in Nat
    BY DEF Rows
  <2> QED
    BY <1>2, <1>3, <2>1 DEF Delivered
<1>4. ASSUME NEW w \in Workers PROVE Sequenced(w)'
  <2>1. Sequenced(w) /\ queue[w] \in Seq(Rows)
    BY <1>1 DEF OrderInv, TypeOK
  <2>2. Delivered(queue[w])'
    BY <1>3, <2>1 DEF Sequenced, Delivered
  <2> QED
    BY <2>1, <2>2 DEF Sequenced, Ascending, Precedes
<1>5. ASSUME NEW t \in Tables PROVE (Ascending(log[t]) /\ Delivered(log[t]))'
  <2>1. Ascending(log[t]) /\ Delivered(log[t]) /\ log[t] \in Seq(Rows)
    BY <1>1 DEF OrderInv, TypeOK
  <2> QED
    BY <1>3, <2>1 DEF Ascending, Delivered
<1> QED
  BY <1>4, <1>5 DEF OrderInv

\* A new worker starts with an empty queue.
LEMMA GetNewOrder ==
  ASSUME OrderInv, AppenderInv', NEW c \in Clients, NEW t \in Tables, NEW w \in Workers, GetNew(c, t, w)
  PROVE  OrderInv'
<1>1. TypeOK
  BY DEF OrderInv, AppenderInv, CountInv
<1>2. /\ pc[c] = "idle" /\ chan[w] = "none"
      /\ tableOf' = [tableOf EXCEPT ![w] = t] /\ loop' = [loop EXCEPT ![w] = "select"]
      /\ chan' = [chan EXCEPT ![w] = "open"] /\ pc' = [pc EXCEPT ![c] = "holding"]
      /\ UNCHANGED <<queue, log, sent>>
  BY DEF GetNew
<1>3. UNCHANGED Accepted
  BY <1>1, <1>2 DEF Accepted, TypeOK
<1>4. ASSUME NEW v \in Workers PROVE Sequenced(v)'
  <2>1. Sequenced(v)
    BY DEF OrderInv
  <2>2. CASE v = w
    <3>1. queue'[v] = <<>> /\ chan'[v] = "open"
      BY <1>1, <1>2, <2>1, <2>2 DEF Sequenced, TypeOK
    <3> QED
      BY <3>1 DEF Sequenced, Ascending, Precedes, Delivered
  <2>3. CASE v # w
    <3>1. loop'[v] = loop[v] /\ chan'[v] = chan[v] /\ tableOf'[v] = tableOf[v]
      BY <1>1, <1>2, <2>3 DEF TypeOK
    <3> QED
      BY <1>2, <1>3, <2>1, <3>1 DEF Sequenced, Running, Ascending, Precedes, Delivered
  <2> QED
    BY <2>2, <2>3
<1>5. \A u \in Tables : (Ascending(log[u]) /\ Delivered(log[u]))'
  BY <1>2, <1>3 DEF OrderInv, Ascending, Delivered
<1> QED
  BY <1>4, <1>5 DEF OrderInv

\* A delivered row is the newest of its client.
LEMMA DeliverOrder ==
  ASSUME OrderInv, AppenderInv', NEW c \in Clients, Deliver(c)
  PROVE  OrderInv'
<1> DEFINE w == hold[c]
           row == <<c, sent[c]>>
<1>1. TypeOK /\ TypeOK' /\ Linked
  BY DEF OrderInv, AppenderInv, CountInv
<1>2. /\ pc[c] = "sending" /\ chan[w] = "open"
      /\ queue' = [queue EXCEPT ![w] = Append(@, row)]
      /\ pc' = [pc EXCEPT ![c] = "holding"] /\ UNCHANGED <<log, sent, tableOf, loop, chan>>
  BY DEF Deliver
<1>3. w \in Workers
  BY <1>1, <1>2 DEF TypeOK, Linked, HoldsWhileBusy
<1>4. sent[c] \in Nat /\ row \in Rows
  BY <1>1 DEF TypeOK, Rows
<1>5. Accepted[c] = sent[c] - 1 /\ Accepted'[c] = sent[c]
  BY <1>1, <1>2 DEF Accepted, TypeOK
<1>6. \A d \in Clients : Accepted[d] \in Int /\ Accepted'[d] \in Int /\ Accepted[d] <= Accepted'[d]
  <2> SUFFICES ASSUME NEW d \in Clients
               PROVE  Accepted[d] \in Int /\ Accepted'[d] \in Int /\ Accepted[d] <= Accepted'[d]
    OBVIOUS
  <2>1. CASE d = c
    BY <1>4, <1>5, <2>1
  <2>2. CASE d # c
    <3>1. pc'[d] = pc[d] /\ sent'[d] = sent[d] /\ sent[d] \in Nat
      BY <1>1, <1>2, <2>2 DEF TypeOK
    <3> QED
      BY <3>1 DEF Accepted
  <2> QED
    BY <2>1, <2>2
<1> HIDE DEF w, row
<1>7. ASSUME NEW q \in Seq(Rows), Delivered(q)
      PROVE  Delivered(q)' /\ \A i \in 1..Len(q) : q[i][1] = row[1] => q[i][2] < row[2]
  <2> SUFFICES ASSUME NEW i \in 1..Len(q)
               PROVE  q[i][2] <= Accepted'[q[i][1]] /\ (q[i][1] = row[1] => q[i][2] < row[2])
    BY DEF Delivered
  <2>1. q[i] \in Rows /\ q[i][1] \in Clients /\ q[i][2] \in Nat
    BY DEF Rows
  <2>2. q[i][2] <= Accepted[q[i][1]]
    BY <1>7 DEF Delivered
  <2>3. row[1] = c /\ row[2] = sent[c]
    BY DEF row
  <2> QED
    BY <1>4, <1>5, <1>6, <2>1, <2>2, <2>3
<1>8. ASSUME NEW v \in Workers PROVE Sequenced(v)'
  <2>1. Sequenced(v) /\ queue[v] \in Seq(Rows)
    BY <1>1 DEF OrderInv, TypeOK
  <2>2. CASE v # w
    <3>1. queue'[v] = queue[v]
      BY <1>1, <1>2, <2>2 DEF TypeOK
    <3>2. Delivered(queue[v])'
      BY <1>7, <2>1, <3>1 DEF Sequenced, Delivered
    <3>3. tableOf'[v] = tableOf[v] /\ loop'[v] = loop[v] /\ chan'[v] = chan[v] /\ log' = log
      BY <1>2
    <3> QED
      BY <2>1, <3>1, <3>2, <3>3 DEF Sequenced, Running, Ascending, Precedes
  <2>3. CASE v = w
    <3>1. queue'[v] = Append(queue[v], row)
      BY <1>1, <1>2, <2>3 DEF TypeOK
    <3>2. Delivered(queue[v]) /\ chan[v] = "open"
      BY <1>2, <2>1, <2>3 DEF Sequenced
    <3>3. Delivered(queue[v])'
      <4> SUFFICES ASSUME NEW i \in 1..Len(queue'[v]) PROVE queue'[v][i][2] <= Accepted'[queue'[v][i][1]]
        BY DEF Delivered
      <4>1. CASE i = Len(queue[v]) + 1
        <5>1. queue'[v][i] = row
          BY <1>4, <2>1, <3>1, <4>1
        <5> QED
          BY <1>4, <1>5, <5>1 DEF row
      <4>2. CASE i \in 1..Len(queue[v])
        <5>1. queue'[v][i] = queue[v][i]
          BY <1>4, <2>1, <3>1, <4>2
        <5> QED
          BY <1>7, <2>1, <3>2, <4>2, <5>1 DEF Delivered
      <4> QED
        BY <1>4, <2>1, <3>1, <4>1, <4>2
    <3>4. ASSUME Running(v) PROVE Ascending(queue'[v]) /\ Precedes(log[tableOf[v]], queue'[v])
      <4>1. Ascending(queue[v]) /\ Precedes(log[tableOf[v]], queue[v])
        BY <2>1, <3>4 DEF Sequenced
      <4>2. tableOf[v] \in Tables
        BY <3>2 DEF OrderInv, AppenderInv, OpenRegistered
      <4>3. log[tableOf[v]] \in Seq(Rows) /\ Delivered(log[tableOf[v]])
        BY <1>1, <4>2 DEF OrderInv, TypeOK
      <4> QED
        BY <1>4, <1>7, <2>1, <3>1, <3>2, <4>1, <4>3, AscendingAppend, PrecedesAppend
    <3> QED
      BY <1>2, <3>2, <3>3, <3>4 DEF Sequenced, Running, Ascending, Precedes
  <2> QED
    BY <2>2, <2>3
<1>9. ASSUME NEW t \in Tables PROVE (Ascending(log[t]) /\ Delivered(log[t]))'
  <2>1. Ascending(log[t]) /\ Delivered(log[t]) /\ log[t] \in Seq(Rows)
    BY <1>1 DEF OrderInv, TypeOK
  <2> QED
    BY <1>2, <1>7, <2>1 DEF Ascending, Delivered
<1> QED
  BY <1>8, <1>9 DEF OrderInv

\* The row a goroutine takes comes after the log and before its queue.
LEMMA TakeOrder ==
  ASSUME OrderInv, AppenderInv', NEW w \in Workers, LoopAppend(w)
  PROVE  OrderInv'
<1> DEFINE t == tableOf[w]
           row == Head(queue[w])
<1>1. TypeOK
  BY DEF OrderInv, AppenderInv, CountInv
<1>2. /\ Running(w) /\ queue[w] # <<>>
      /\ queue' = [queue EXCEPT ![w] = Tail(@)]
      /\ log' = [log EXCEPT ![t] = Append(@, row)]
      /\ UNCHANGED <<tableOf, loop, chan, pc, sent>>
  BY DEF LoopAppend, Take, Running, clientVars
<1>3. chan[w] = "open" /\ Ascending(queue[w]) /\ Precedes(log[t], queue[w]) /\ Delivered(queue[w])
  BY <1>2 DEF OrderInv, Sequenced
<1>4. t \in Tables /\ registry[t] = w
  BY <1>3 DEF OrderInv, AppenderInv, OpenRegistered
<1>5. queue[w] \in Seq(Rows) /\ log[t] \in Seq(Rows) /\ Ascending(log[t]) /\ Delivered(log[t])
  BY <1>1, <1>4 DEF OrderInv, TypeOK
<1>6. row \in Rows /\ row = queue[w][1] /\ 1 \in 1..Len(queue[w]) /\ Tail(queue[w]) \in Seq(Rows)
  BY <1>2, <1>5, QueueTail
<1>7. UNCHANGED Accepted
  BY <1>2, AcceptedSame
<1>8. /\ \A u \in Tables : log'[u] = IF u = t THEN Append(log[t], row) ELSE log[u]
      /\ \A v \in Workers : queue'[v] = IF v = w THEN Tail(queue[w]) ELSE queue[v]
  BY <1>1, <1>2 DEF TypeOK
<1> HIDE DEF t, row
<1>9. \A i \in 1..Len(log[t]) : log[t][i][1] = row[1] => log[t][i][2] < row[2]
  BY <1>3, <1>6 DEF Precedes
<1>10. row[2] <= Accepted[row[1]]
  BY <1>3, <1>6 DEF Delivered
<1>11. ASSUME NEW u \in Tables PROVE (Ascending(log[u]) /\ Delivered(log[u]))'
  <2>1. CASE u = t
    <3>1. Ascending(log'[u])
      BY <1>5, <1>6, <1>8, <1>9, <2>1, AscendingAppend
    <3>2. \A i \in 1..Len(log'[u]) :
            \/ log'[u][i] = row
            \/ i \in 1..Len(log[u]) /\ log'[u][i] = log[u][i]
      <4>1. log'[u] = Append(log[u], row) /\ log[u] \in Seq(Rows)
        BY <1>5, <1>8, <2>1
      <4> QED
        BY <1>6, <4>1
    <3>3. Delivered(log[u])'
      BY <1>5, <1>7, <1>10, <2>1, <3>2 DEF Delivered
    <3> QED
      BY <3>1, <3>3 DEF Ascending
  <2>2. CASE u # t
    BY <1>7, <1>8, <2>2 DEF OrderInv, Ascending, Delivered
  <2> QED
    BY <2>1, <2>2
<1>12. ASSUME NEW v \in Workers PROVE Sequenced(v)'
  <2>1. Sequenced(v)
    BY DEF OrderInv
  <2>2. CASE v = w
    <3>1. queue'[v] = Tail(queue[w])
      BY <1>8, <2>2
    <3>2. /\ \A i \in 1..Len(Tail(queue[w])) :
                i + 1 \in 1..Len(queue[w]) /\ Tail(queue[w])[i] = queue[w][i + 1]
      BY <1>2, <1>5, QueueTail
    <3>3. Delivered(queue[v])'
      BY <1>3, <1>7, <3>1, <3>2 DEF Delivered
    <3>4. /\ Ascending(Tail(queue[w]))
          /\ \A i \in 1..Len(Tail(queue[w])) : row[1] = Tail(queue[w])[i][1] => row[2] < Tail(queue[w])[i][2]
      BY <1>2, <1>3, <1>5, AscendingTail DEF row
    <3>5. Precedes(log[t], Tail(queue[w]))
      BY <1>3, <3>2 DEF Precedes
    <3>6. Precedes(Append(log[t], row), Tail(queue[w]))
      BY <1>5, <1>6, <3>4, <3>5, PrecedesAppend
    <3>7. log'[tableOf'[v]] = Append(log[t], row) /\ chan'[v] = "open"
      BY <1>2, <1>3, <1>4, <1>8, <2>2 DEF t
    <3> QED
      BY <3>1, <3>3, <3>4, <3>6, <3>7 DEF Sequenced, Ascending, Precedes
  <2>3. CASE v # w
    <3>1. queue'[v] = queue[v]
      BY <1>8, <2>3
    <3>2. Running(v) => tableOf[v] \in Tables /\ tableOf[v] # t
      BY <1>4, <2>1, <2>3 DEF Sequenced, OrderInv, AppenderInv, OpenRegistered
    <3>3. Running(v) => log'[tableOf[v]] = log[tableOf[v]]
      BY <1>8, <3>2
    <3>4. Delivered(queue[v])'
      BY <1>7, <2>1, <3>1 DEF Sequenced, Delivered
    <3>5. tableOf'[v] = tableOf[v] /\ loop'[v] = loop[v] /\ chan'[v] = chan[v]
      BY <1>2
    <3> QED
      BY <2>1, <3>1, <3>3, <3>4, <3>5 DEF Sequenced, Running, Ascending, Precedes
  <2> QED
    BY <2>2, <2>3
<1> QED
  BY <1>11, <1>12 DEF OrderInv

LEMMA AcceptedGrows ==
  ASSUME TypeOK, NEW c \in Clients,
         AppendBegin(c) \/ Close(c) \/ SendPanic(c) \/ SendStuck(c)
         \/ \E t \in Tables : GetExisting(c, t)
  PROVE  \A d \in Clients : Accepted[d] <= Accepted'[d]
<1> SUFFICES ASSUME NEW d \in Clients PROVE Accepted[d] <= Accepted'[d]
  OBVIOUS
<1>1. pc \in [Clients -> {"idle", "holding", "sending", "sendingMore", "stuck", "panicked"}] /\ sent \in [Clients -> Nat]
  BY DEF TypeOK
<1>2. CASE d # c
  <2>1. pc'[d] = pc[d] /\ sent'[d] = sent[d] /\ sent[d] \in Nat
    BY <1>1, <1>2 DEF AppendBegin, Close, SendPanic, SendStuck, GetExisting, ReleaseTo
  <2> QED
    BY <2>1 DEF Accepted
<1>3. CASE d = c
  <2>1. sent[d] \in Nat /\ sent'[d] \in Nat
    BY <1>1 DEF AppendBegin, Close, SendPanic, SendStuck, GetExisting, ReleaseTo
  <2>2. \/ pc'[d] = "sending" /\ pc[d] # "sending" /\ sent'[d] = sent[d] + 1
        \/ pc'[d] # "sending" /\ sent'[d] = sent[d]
    BY <1>1, <1>3 DEF AppendBegin, Close, SendPanic, SendStuck, GetExisting, ReleaseTo
  <2> QED
    BY <2>1, <2>2 DEF Accepted
<1> QED
  BY <1>2, <1>3

\* Steps of the workers' goroutines and of the stoppers: a goroutine only ends, and
\* a channel is closed only under one that ended.
LEMMA StopOrder ==
  ASSUME OrderInv, AppenderInv', UNCHANGED <<queue, log, tableOf, pc, sent>>,
         UNCHANGED <<loop, chan>> \/ (\E w \in Workers : LoopBreak(w) \/ LoopExit(w))
         \/ \E s \in Stoppers : StopFinish(s)
  PROVE  OrderInv'
<1>1. TypeOK
  BY DEF OrderInv, AppenderInv, CountInv
<1>2. UNCHANGED Accepted
  BY AcceptedSame
<1>3. \A c \in Clients : Accepted[c] <= Accepted'[c]
  BY <1>1, <1>2, AcceptedNat
<1>4. CASE UNCHANGED <<loop, chan>>
  BY <1>3, <1>4, OrderKept DEF Running
<1>5. ASSUME NEW w \in Workers, LoopBreak(w) \/ LoopExit(w) PROVE OrderInv'
  <2>1. \A v \in Workers : Running(v)' => Running(v)
    BY <1>1, <1>5 DEF LoopBreak, LoopExit, Running, TypeOK
  <2>2. chan' = chan
    BY <1>5 DEF LoopBreak, LoopExit
  <2> QED
    BY <1>3, <2>1, <2>2, OrderKept
<1>6. ASSUME NEW s \in Stoppers, StopFinish(s) PROVE OrderInv'
  <2>1. /\ loop' = loop /\ loop[registry[job[s].cur]] = "done"
        /\ chan' = [chan EXCEPT ![registry[job[s].cur]] = "closed"]
    BY <1>6 DEF StopFinish
  <2>2. \A v \in Workers : /\ Running(v)' => Running(v) /\ chan'[v] = chan[v]
                           /\ chan'[v] = "none" => chan[v] = "none"
    BY <1>1, <2>1 DEF TypeOK, Running
  <2> QED
    BY <1>3, <2>2, OrderKept
<1> QED
  BY <1>4, <1>5, <1>6

\* Rows that nobody follows.
LEMMA MoreOrder ==
  ASSUME OrderInv, AppenderInv', \/ \E c \in Clients : AppendMore(c) \/ DeliverMore(c)
                                 \/ \E w \in Workers : LoopMore(w)
  PROVE  OrderInv'
<1>1. TypeOK
  BY DEF OrderInv, AppenderInv, CountInv
<1>2. UNCHANGED <<queue, log, tableOf, loop, chan>> /\ UNCHANGED Accepted
  BY <1>1, MoreMaps
<1>3. \A c \in Clients : Accepted[c] <= Accepted'[c]
  BY <1>1, <1>2, AcceptedNat
<1> QED
  BY <1>2, <1>3, OrderKept DEF Running

LEMMA OrderStep == OrderInv /\ [Next]_vars => OrderInv'
<1> SUFFICES ASSUME OrderInv, [Next]_vars PROVE OrderInv'
  OBVIOUS
<1>1. AppenderInv' /\ TypeOK
  BY AppenderStep DEF OrderInv, AppenderInv, CountInv
<1>2. ASSUME NEW c \in Clients, ClientStep(c) PROVE OrderInv'
  <2>1. ASSUME NEW t \in Tables, NEW w \in Workers, GetNew(c, t, w) PROVE OrderInv'
    BY <1>1, <2>1, GetNewOrder
  <2>2. CASE Deliver(c)
    BY <1>1, <2>2, DeliverOrder
  <2>3. CASE AppendBegin(c) \/ Close(c) \/ SendPanic(c) \/ SendStuck(c)
             \/ \E t \in Tables : GetExisting(c, t)
    <3>1. UNCHANGED <<queue, log, tableOf, loop, chan>>
      BY <2>3 DEF AppendBegin, Close, SendPanic, SendStuck, GetExisting, workerVars
    <3>2. \A d \in Clients : Accepted[d] <= Accepted'[d]
      BY <1>1, <2>3, AcceptedGrows
    <3> QED
      BY <1>1, <3>1, <3>2, OrderKept DEF Running
  <2>4. CASE AppendMore(c) \/ DeliverMore(c)
    BY <1>1, <2>4, MoreOrder
  <2> QED
    BY <1>2, <2>1, <2>2, <2>3, <2>4 DEF ClientStep
<1>3. ASSUME NEW w \in Workers, LoopStep(w) \/ Age(w) PROVE OrderInv'
  <2>1. CASE LoopAppend(w)
    BY <1>1, <2>1, TakeOrder
  <2>2. CASE LoopBreak(w) \/ LoopExit(w) \/ Age(w)
    BY <1>1, <2>2, StopOrder DEF LoopBreak, LoopExit, Age, clientVars
  <2>3. CASE LoopMore(w)
    BY <1>1, <2>3, MoreOrder
  <2> QED
    BY <1>3, <2>1, <2>2, <2>3 DEF LoopStep
<1>4. ASSUME NEW s \in Stoppers, ScanStep(s) PROVE OrderInv'
  BY <1>1, <1>4, StopOrder DEF ScanStep, Skip, StopSignal, StopFinish, ScanEnd, workerVars, clientVars
<1>5. CASE TickBegin \/ AdminStep \/ UNCHANGED vars
  <2>1. UNCHANGED <<queue, log, tableOf, pc, sent, loop, chan>>
    BY <1>5 DEF TickBegin, AdminStep, RequestStop, ControlBegin, FlushBegin, ShutdownBegin,
                FlusherExit, ShutdownScan, workerVars, clientVars, vars
  <2> QED
    BY <1>1, <2>1, StopOrder
<1> QED
  BY <1>2, <1>3, <1>4, <1>5 DEF Next

\* Whoever stops workers, and however often a table's worker is replaced, the rows of
\* a writer reach the appender in the order of its Append calls, and none of them
\* twice (Append, the worker's loop with its drain, Stop and GetAppendWorker).
THEOREM RowsArriveInOrder == Spec => []RowsInOrder
<1>1. OrderInv => RowsInOrder
  BY DEF OrderInv, Ascending, RowsInOrder
<1> QED
  BY <1>1, InitOrder, OrderStep, PTL DEF Spec
=============================================================================
