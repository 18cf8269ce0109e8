---------------------- MODULE ServiceControllerProofs ----------------------
(***************************************************************************)
(* Proofs about the service controller, for any services, configurations   *)
(* and processes.  Whatever administrators do, the route of a dead         *)
(* process is freed, unless its request was served too late.  When nobody  *)
(* starts a service that runs, nor installs services beside a Read, every  *)
(* process that runs can be stopped by its name, and none survives the     *)
(* shutdown.                                                               *)
(***************************************************************************)
EXTENDS ServiceController, FiniteSetTheorems, SequenceTheorems, TLAPS

Texts == Configs \cup {Bad, None}
Kinds == StopKinds \cup {"start", "drop", "add", "fresh", "reset", "boot"}
Tasks == [do : Kinds, name : Names, config : Texts]
Phases == {"new", "running", "reaped", "signalled", "reporting", "done"}

TypeInv ==
  /\ disk \in [Names -> Texts]
  /\ seen # None => seen \in [Names -> Texts]
  /\ reread # None => /\ reread.config \in [Names -> Texts] 
                      /\ reread.added \in SUBSET Names 
                      /\ reread.updated \in SUBSET Names 
                      /\ reread.removed \in SUBSET Names
  /\ config \in [Names -> Texts]
  /\ status \in [Names -> Statuses \cup {None}]
  /\ cmd \in [Names -> Procs \cup {None, "unstarted"}]
  /\ stopCh \in [Names -> Procs \cup {None}]
  /\ client \in [Names -> Procs \cup {None}]
  /\ phase \in [Procs -> Phases]
  /\ owner \in [Procs -> Names \cup {None}]
  /\ link \in [Procs -> {"table", "last", "past"}]
  /\ proxies \in [Names -> Procs \cup {None}]
  /\ todo \in Seq(Tasks)
  /\ waiting \in BOOLEAN

\* A service is shown as stopping exactly while an operation waits for it.
LockInv ==
  /\ \A n \in Names : status[n] = "stopping" => waiting /\ it = n
  /\ waiting => todo # <<>> /\ head.do \in StopKinds /\ status[it] = "stopping"

\* What a struct in the table and the goroutines of its processes know of each other.
StructInv ==
  /\ \A p \in Procs : IF phase[p] = "new" THEN owner[p] = None /\ link[p] = "table"
                                         ELSE owner[p] \in Names
  /\ \A n \in Names :
       /\ cmd[n] \in Procs => stopCh[n] = cmd[n]
       /\ stopCh[n] # None => /\ owner[stopCh[n]] = n /\ link[stopCh[n]] = "table"
                              /\ phase[stopCh[n]] # "new"
       /\ status[n] \in {"running", "stopping"} => cmd[n] \in Procs
       /\ status[n] = None => stopCh[n] = None

\* A route belongs to the service of its process, only started processes ask for
\* one, and a goroutine that ended either reported the stop or had been replaced.
RouteInv ==
  /\ \A n \in Names : proxies[n] # None => owner[proxies[n]] = n /\ phase[proxies[n]] # "new"
  /\ \A p \in Procs : <<"proxy", p>> \in asked => phase[p] # "new"
  /\ RouteFreed

BaseInv == TypeInv /\ LockInv /\ StructInv /\ RouteInv

\* No process of the service runs.
Quiet(n) == \A p \in Procs : phase[p] = "running" => owner[p] # n

\* Tasks that must not meet a process that runs, and tasks that may start one.
Needy == {"start", "drop", "add", "fresh", "reset", "boot"}
Starters == {"start", "add", "boot", "update", "install"}

\* A needy task finds its service quiet, or stopped by a task before it; and no
\* task before it starts the service.
Safe(s, Q) ==
  \A i \in 1..Len(s) : s[i].do \in Needy =>
    /\ s[i].name \in Q \/ \E j \in 1..(i - 1) : s[j].name = s[i].name /\ s[j].do \in StopKinds
    /\ \A j \in 1..(i - 1) : s[j].name = s[i].name => s[j].do \notin Starters

QuietNames == {n \in Names : Quiet(n)}

\* What a Read found to be new is not in the table when it is applied.
RereadInv ==
  /\ reread # None => /\ "reread" \in Ops
                      /\ reread.added \cap (Registered \cup reread.updated) = {}
                      /\ \A i \in 1..Len(todo) :
                           /\ todo[i].do \in {"start", "stop", "quit"}
                           /\ todo[i].do = "start" => todo[i].name \notin reread.added

\* The shutdown still has every service to stop that has a process.
QuitInv ==
  (\E i \in 1..Len(todo) : todo[i].do = "quit") =>
    /\ \A i \in 1..Len(todo) : todo[i].do = "quit"
    /\ \A p \in Procs : phase[p] = "running" => \E i \in 1..Len(todo) : todo[i].name = owner[p]

OrphanInv == BaseInv /\ NoOrphan /\ Safe(todo, QuietNames) /\ RereadInv /\ QuitInv

Orderly == "restart" \notin Ops /\ ~({"install", "reread"} \subseteq Ops)
-----------------------------------------------------------------------------
(* Sequences of tasks                                                      *)

\* s has one task of the kind d for every name of ns.
Lists(s, ns, d) ==
  /\ s \in Seq(Tasks)
  /\ \A i \in 1..Len(s) : s[i].do = d /\ s[i].name \in ns
  /\ \A n \in ns : \E i \in 1..Len(s) : s[i].name = n
  /\ \A i, j \in 1..Len(s) : s[i].name = s[j].name => i = j

Enumerations(ns) == {g \in [1..Cardinality(ns) -> ns] : \A i, j \in DOMAIN g : g[i] = g[j] => i = j}

LEMMA NamesFinite == ASSUME NEW ns \in SUBSET Names PROVE IsFiniteSet(ns) /\ Cardinality(ns) \in Nat
BY ServiceAssumption, FS_Subset, FS_CardinalityType DEF ServiceAssumption

LEMMA Enumerate ==
  ASSUME NEW ns \in SUBSET Names, NEW f \in Enumerations(ns), NEW n \in ns
  PROVE  \E i \in 1..Cardinality(ns) : f[i] = n
<1> DEFINE S == 1..Cardinality(ns)
<1>1. Cardinality(ns) \in Nat /\ IsFiniteSet(ns)
  BY NamesFinite
<1>2. f \in Injection(S, ns)
  BY DEF Enumerations, Injection, IsInjective
<1>3. Cardinality(S) = Cardinality(ns)
  BY <1>1, FS_Interval
<1>4. f \in Surjection(S, ns)
  BY <1>1, <1>2, <1>3, FS_Injection
<1> QED
  BY <1>4 DEF Surjection

LEMMA ConfigList ==
  ASSUME NEW ns \in SUBSET Names, NEW d \in Kinds, NEW c \in [Names -> Texts],
         NEW f \in Enumerations(ns), NEW s,
         s = [i \in 1..Cardinality(ns) |-> Task(d, f[i], c[f[i]])]
  PROVE  Lists(s, ns, d)
<1>1. Cardinality(ns) \in Nat
  BY NamesFinite
<1>2. f \in [1..Cardinality(ns) -> ns] /\ \A i, j \in 1..Cardinality(ns) : f[i] = f[j] => i = j
  BY DEF Enumerations
<1>3. Len(s) = Cardinality(ns) /\ s \in Seq(Tasks)
  <2>1. \A i \in 1..Cardinality(ns) : Task(d, f[i], c[f[i]]) \in Tasks
    BY <1>2 DEF Task, Tasks
  <2> QED
    BY <1>1, <2>1
<1>4. \A i \in 1..Len(s) : s[i].do = d /\ s[i].name = f[i]
  BY <1>3 DEF Task
<1>5. \A n \in ns : \E i \in 1..Cardinality(ns) : f[i] = n
  BY Enumerate
<1>6. ASSUME NEW n \in ns PROVE \E i \in 1..Len(s) : s[i].name = n
  <2>1. PICK i \in 1..Cardinality(ns) : f[i] = n
    BY <1>5
  <2>2. i \in 1..Len(s)
    BY <1>3
  <2>3. s[i].name = n
    BY <1>4, <2>1, <2>2
  <2> QED
    BY <2>2, <2>3
<1>7. ASSUME NEW i \in 1..Len(s), NEW j \in 1..Len(s), s[i].name = s[j].name PROVE i = j
  <2>1. i \in 1..Cardinality(ns) /\ j \in 1..Cardinality(ns)
    BY <1>3
  <2>2. f[i] = f[j]
    BY <1>4, <1>7
  <2> QED
    BY <1>2, <2>1, <2>2
<1>8. \A i \in 1..Len(s) : s[i].do = d /\ s[i].name \in ns
  BY <1>2, <1>3, <1>4
<1> QED
  BY <1>3, <1>6, <1>7, <1>8 DEF Lists

LEMMA PlainList ==
  ASSUME NEW ns \in SUBSET Names, NEW d \in Kinds,
         NEW f \in Enumerations(ns), NEW s,
         s = [i \in 1..Cardinality(ns) |-> Task(d, f[i], None)]
  PROVE  Lists(s, ns, d)
<1> DEFINE c == [n \in Names |-> None]
<1>1. c \in [Names -> Texts]
  BY DEF Texts
<1>2. \A i \in 1..Cardinality(ns) : f[i] \in Names
  BY DEF Enumerations
<1>3. \A i \in 1..Cardinality(ns) : c[f[i]] = None
  BY <1>2
<1>4. s = [i \in 1..Cardinality(ns) |-> Task(d, f[i], c[f[i]])]
  BY <1>3
<1> HIDE DEF c
<1> QED
  BY <1>1, <1>4, ConfigList

\* What Update, Reload and Shutdown do, as lists.
LEMMA UpdateTasks ==
  ASSUME TypeInv, Update
  PROVE  \E rem, upd, add :
           /\ Lists(rem, reread.removed, "remove") /\ Lists(upd, reread.updated, "update")
           /\ Lists(add, reread.added, "add") /\ todo' = rem \o upd \o add
<1>1. /\ reread.config \in [Names -> Texts]
      /\ reread.removed \in SUBSET Names /\ reread.updated \in SUBSET Names
      /\ reread.added \in SUBSET Names
  BY DEF TypeInv, Update
<1>2. PICK rem \in Orders(reread.removed, LAMBDA n : Task("remove", n, None)),
           upd \in Orders(reread.updated, LAMBDA n : Task("update", n, reread.config[n])),
           add \in Orders(reread.added, LAMBDA n : Task("add", n, reread.config[n])) :
        todo' = rem \o upd \o add
  BY DEF Update, Begin
<1>3. Lists(rem, reread.removed, "remove")
  <2>1. PICK f \in Enumerations(reread.removed) :
          rem = [i \in 1..Cardinality(reread.removed) |-> Task("remove", f[i], None)]
    BY DEF Orders, Enumerations
  <2> QED
    BY <1>1, <2>1, PlainList DEF Kinds, StopKinds
<1>4. Lists(upd, reread.updated, "update")
  <2>1. PICK f \in Enumerations(reread.updated) :
          upd = [i \in 1..Cardinality(reread.updated) |-> Task("update", f[i], reread.config[f[i]])]
    BY DEF Orders, Enumerations
  <2> QED
    BY <1>1, <2>1, ConfigList DEF Kinds, StopKinds
<1>5. Lists(add, reread.added, "add")
  <2>1. PICK f \in Enumerations(reread.added) :
          add = [i \in 1..Cardinality(reread.added) |-> Task("add", f[i], reread.config[f[i]])]
    BY DEF Orders, Enumerations
  <2> QED
    BY <1>1, <2>1, ConfigList DEF Kinds, StopKinds
<1> QED
  BY <1>2, <1>3, <1>4, <1>5

Running == {n \in Registered : status[n] = "running"}

LEMMA ReloadTasks ==
  ASSUME TypeInv, Reload
  PROVE  \E stp, rem, upd, add, run :
           /\ Lists(stp, Running, "halt") /\ Lists(rem, reread.removed, "drop")
           /\ Lists(upd, reread.updated, "reset") /\ Lists(add, reread.added, "fresh")
           /\ Lists(run, Names, "boot") /\ todo' = stp \o rem \o upd \o add \o run
<1>1. /\ reread.config \in [Names -> Texts] /\ Running \in SUBSET Names
      /\ reread.removed \in SUBSET Names /\ reread.updated \in SUBSET Names
      /\ reread.added \in SUBSET Names
  BY DEF TypeInv, Reload, Running, Registered
<1>2. PICK stp \in Orders({n \in Registered : status[n] = "running"}, LAMBDA n : Task("halt", n, None)),
           rem \in Orders(reread.removed, LAMBDA n : Task("drop", n, None)),
           upd \in Orders(reread.updated, LAMBDA n : Task("reset", n, reread.config[n])),
           add \in Orders(reread.added, LAMBDA n : Task("fresh", n, reread.config[n])),
           run \in Orders(Names, LAMBDA n : Task("boot", n, None)) :
        todo' = stp \o rem \o upd \o add \o run
  BY DEF Reload, Begin
<1>3. Lists(stp, Running, "halt")
  <2>1. PICK f \in Enumerations(Running) :
          stp = [i \in 1..Cardinality(Running) |-> Task("halt", f[i], None)]
    BY DEF Orders, Enumerations, Running
  <2> QED
    BY <1>1, <2>1, PlainList DEF Kinds, StopKinds
<1>4. Lists(rem, reread.removed, "drop")
  <2>1. PICK f \in Enumerations(reread.removed) :
          rem = [i \in 1..Cardinality(reread.removed) |-> Task("drop", f[i], None)]
    BY DEF Orders, Enumerations
  <2> QED
    BY <1>1, <2>1, PlainList DEF Kinds
<1>5. Lists(upd, reread.updated, "reset")
  <2>1. PICK f \in Enumerations(reread.updated) :
          upd = [i \in 1..Cardinality(reread.updated) |-> Task("reset", f[i], reread.config[f[i]])]
    BY DEF Orders, Enumerations
  <2> QED
    BY <1>1, <2>1, ConfigList DEF Kinds
<1>6. Lists(add, reread.added, "fresh")
  <2>1. PICK f \in Enumerations(reread.added) :
          add = [i \in 1..Cardinality(reread.added) |-> Task("fresh", f[i], reread.config[f[i]])]
    BY DEF Orders, Enumerations
  <2> QED
    BY <1>1, <2>1, ConfigList DEF Kinds
<1>7. Lists(run, Names, "boot")
  <2>1. PICK f \in Enumerations(Names) :
          run = [i \in 1..Cardinality(Names) |-> Task("boot", f[i], None)]
    BY DEF Orders, Enumerations
  <2> QED
    BY <2>1, PlainList DEF Kinds
<1> QED
  BY <1>2, <1>3, <1>4, <1>5, <1>6, <1>7

LEMMA ShutdownTasks ==
  ASSUME TypeInv, Shutdown
  PROVE  Lists(todo', Registered, "quit")
<1>1. PICK s \in Orders(Registered, LAMBDA n : Task("quit", n, None)) : todo' = s
  BY DEF Shutdown, Begin
<1>2. PICK f \in Enumerations(Registered) :
        s = [i \in 1..Cardinality(Registered) |-> Task("quit", f[i], None)]
  BY DEF Orders, Enumerations
<1>3. Registered \in SUBSET Names
  BY DEF Registered
<1> QED
  BY <1>1, <1>2, <1>3, PlainList DEF Kinds, StopKinds
-----------------------------------------------------------------------------
(* Types                                                                   *)

LEMMA ConcatTasks ==
  ASSUME NEW s \in Seq(Tasks), NEW r \in Seq(Tasks) PROVE s \o r \in Seq(Tasks)
OBVIOUS

LEMMA InitType == Init => TypeInv
<1> SUFFICES ASSUME Init PROVE TypeInv
  OBVIOUS
<1>1. disk \in [Names -> Texts]
  BY DEF Init, Texts
<1>2. <<>> \in Seq(Tasks)
  OBVIOUS
<1> QED
  BY <1>1, <1>2 DEF Init, TypeInv, Texts, Statuses, Phases

LEMMA RequestType == ASSUME TypeInv, Request PROVE TypeInv'
<1>1. ASSUME NEW tasks \in Seq(Tasks), Begin(tasks), disk' \in [Names -> Texts],
             reread' = None \/ UNCHANGED reread
      PROVE  TypeInv'
  BY <1>1 DEF TypeInv, Begin, structs, procs, rpcs
<1>2. ASSUME NEW n \in Names, StartService(n) \/ StopService(n) PROVE TypeInv'
  <2>1. Task("start", n, config[n]) \in Tasks /\ Task("stop", n, None) \in Tasks
    BY DEF TypeInv, Task, Tasks, Kinds, StopKinds, Texts
  <2>2. <<Task("start", n, config[n])>> \in Seq(Tasks) /\ <<Task("stop", n, None)>> \in Seq(Tasks)
    BY <2>1
  <2>3. disk' \in [Names -> Texts] /\ UNCHANGED reread
    BY <1>2 DEF StartService, StopService, TypeInv
  <2> QED
    BY <1>1, <1>2, <2>2, <2>3 DEF StartService, StopService
<1>3. ASSUME NEW n \in Names, Uninstall(n) \/ (\E c \in Configs : Install(n, c)) PROVE TypeInv'
  <2>1. CASE Uninstall(n)
    <3>1. <<>> \in Seq(Tasks) /\ <<Task("remove", n, None)>> \in Seq(Tasks)
      BY DEF Task, Tasks, Kinds, StopKinds, Texts
    <3>2. disk' \in [Names -> Texts] /\ UNCHANGED reread
      BY <2>1 DEF Uninstall, TypeInv, Texts
    <3> QED
      BY <1>1, <2>1, <3>1, <3>2 DEF Uninstall
  <2>2. ASSUME NEW c \in Configs, Install(n, c) PROVE TypeInv'
    <3>1. <<Task("install", n, c)>> \in Seq(Tasks)
      BY DEF Task, Tasks, Kinds, StopKinds, Texts
    <3>2. disk' \in [Names -> Texts] /\ UNCHANGED reread
      BY <2>2 DEF Install, TypeInv, Texts
    <3> QED
      BY <1>1, <2>2, <3>1, <3>2 DEF Install
  <2> QED
    BY <1>3, <2>1, <2>2
<1>4. ASSUME NEW n \in Names, Edit(n) PROVE TypeInv'
  <2>1. disk' \in [Names -> Texts]
    BY <1>4 DEF Edit, TypeInv, Texts
  <2> QED
    BY <1>4, <2>1 DEF Edit, TypeInv, structs, procs, rpcs
<1>5. CASE ReadDisk
  BY <1>5 DEF ReadDisk, TypeInv, structs, procs, rpcs
<1>6. CASE ReadDiff
  <2>1. Found \in SUBSET Names /\ Registered \in SUBSET Names
    BY DEF Found, Registered
  <2>2. /\ reread'.config \in [Names -> Texts]
        /\ reread'.added \in SUBSET Names /\ reread'.updated \in SUBSET Names
        /\ reread'.removed \in SUBSET Names
    BY <1>6, <2>1 DEF ReadDiff, TypeInv
  <2> QED
    BY <1>6, <2>2 DEF ReadDiff, TypeInv, structs, procs, rpcs
<1>7. CASE Update
  <2>1. todo' \in Seq(Tasks)
    <3>1. PICK rem, upd, add :
            /\ Lists(rem, reread.removed, "remove") /\ Lists(upd, reread.updated, "update")
            /\ Lists(add, reread.added, "add") /\ todo' = rem \o upd \o add
      BY <1>7, UpdateTasks
    <3>2. rem \in Seq(Tasks) /\ upd \in Seq(Tasks) /\ add \in Seq(Tasks)
      BY <3>1 DEF Lists
    <3>3. rem \o upd \in Seq(Tasks)
      BY <3>2, ConcatTasks
    <3> QED
      BY <3>1, <3>2, <3>3, ConcatTasks
  <2> QED
    BY <1>7, <2>1 DEF Update, Begin, TypeInv, structs, procs, rpcs
<1>8. CASE Reload
  <2>1. todo' \in Seq(Tasks)
    <3>1. PICK stp, rem, upd, add, run :
            /\ Lists(stp, Running, "halt") /\ Lists(rem, reread.removed, "drop")
            /\ Lists(upd, reread.updated, "reset") /\ Lists(add, reread.added, "fresh")
            /\ Lists(run, Names, "boot") /\ todo' = stp \o rem \o upd \o add \o run
      BY <1>8, ReloadTasks
    <3>2. /\ stp \in Seq(Tasks) /\ rem \in Seq(Tasks) /\ upd \in Seq(Tasks)
          /\ add \in Seq(Tasks) /\ run \in Seq(Tasks)
      BY <3>1 DEF Lists
    <3>3. stp \o rem \in Seq(Tasks)
      BY <3>2, ConcatTasks
    <3>4. stp \o rem \o upd \in Seq(Tasks)
      BY <3>2, <3>3, ConcatTasks
    <3>5. stp \o rem \o upd \o add \in Seq(Tasks)
      BY <3>2, <3>4, ConcatTasks
    <3> QED
      BY <3>1, <3>2, <3>5, ConcatTasks
  <2> QED
    BY <1>8, <2>1 DEF Reload, Begin, TypeInv, structs, procs, rpcs
<1>9. CASE Shutdown
  <2>1. todo' \in Seq(Tasks)
    BY <1>9, ShutdownTasks DEF Lists
  <2> QED
    BY <1>9, <2>1 DEF Shutdown, Begin, TypeInv, structs, procs, rpcs
<1> QED
  BY <1>2, <1>3, <1>4, <1>5, <1>6, <1>7, <1>8, <1>9 DEF Request

\* The head of todo, and what Next1 makes of the list.
LEMMA HeadTask ==
  ASSUME TypeInv, todo # <<>>
  PROVE  head \in Tasks /\ it \in Names /\ head.config \in Texts /\ head.do \in Kinds
         /\ Tail(todo) \in Seq(Tasks) /\ head.name = it
<1>1. head \in Tasks /\ Tail(todo) \in Seq(Tasks)
  BY DEF TypeInv, head
<1> QED
  BY <1>1 DEF Tasks, it

LEMMA ThenTasks ==
  ASSUME TypeInv, todo # <<>>, NEW b \in BOOLEAN PROVE Then(b) \in Seq(Tasks)
<1>1. it \in Names /\ head.config \in Texts
  BY HeadTask
<1>2. /\ Task("drop", it, None) \in Tasks /\ Task("add", it, head.config) \in Tasks
      /\ Task("start", it, head.config) \in Tasks
  BY <1>1 DEF Task, Tasks, Kinds, Texts
<1> QED
  BY <1>2 DEF Then

LEMMA StopType == ASSUME TypeInv, StopIdle \/ StopKill \/ StopDone, waiting => todo # <<>> PROVE TypeInv'
<1>1. todo # <<>>
  BY DEF StopIdle, StopKill, StopDone, Stopping
<1>2. it \in Names /\ head.config \in Texts /\ Tail(todo) \in Seq(Tasks)
  BY <1>1, HeadTask
<1>3. todo' \in Seq(Tasks)
  <2>1. Then(TRUE) \in Seq(Tasks) /\ Then(FALSE) \in Seq(Tasks)
    BY <1>1, ThenTasks
  <2> QED
    <3>1. Then(TRUE) \o Tail(todo) \in Seq(Tasks) /\ Then(FALSE) \o Tail(todo) \in Seq(Tasks)
      BY <1>2, <2>1, ConcatTasks
    <3> QED
      BY <3>1 DEF StopIdle, StopKill, StopDone, Next1, TypeInv
<1>4. CASE StopIdle
  <2>1. status' \in [Names -> Statuses \cup {None}] /\ config' \in [Names -> Texts]
    BY <1>2, <1>4 DEF StopIdle, TypeInv, structs, Statuses
  <2>2. client' \in [Names -> Procs \cup {None}] /\ proxies' \in [Names -> Procs \cup {None}]
    BY <1>2, <1>4 DEF StopIdle, TypeInv, structs, Notify
  <2>3. UNCHANGED <<cmd, stopCh>>
    BY <1>4 DEF StopIdle, structs
  <2> QED
    BY <1>3, <1>4, <2>1, <2>2, <2>3 DEF StopIdle, TypeInv, procs
<1>5. CASE StopKill
  <2>1. status' \in [Names -> Statuses \cup {None}] /\ config' \in [Names -> Texts] /\ waiting' \in BOOLEAN
    BY <1>2, <1>5 DEF StopKill, TypeInv, Statuses
  <2> QED
    BY <1>3, <1>5, <2>1 DEF StopKill, TypeInv, procs, rpcs
<1>6. CASE StopDone
  <2>1. status' \in [Names -> Statuses \cup {None}] /\ proxies' \in [Names -> Procs \cup {None}]
    BY <1>2, <1>6 DEF StopDone, TypeInv, Statuses, Notify
  <2> QED
    BY <1>3, <1>6, <2>1 DEF StopDone, TypeInv, procs
<1> QED
  BY <1>4, <1>5, <1>6

LEMMA TaskType ==
  ASSUME TypeInv, Drop \/ Add \/ Reset \/ Boot \/ StartFails \/ (\E p \in Procs : Start(p))
  PROVE  TypeInv'
<1>1. todo # <<>>
  BY DEF Drop, Add, Reset, Boot, StartFails, Start
<1>2. it \in Names /\ head.config \in Texts /\ Tail(todo) \in Seq(Tasks)
  BY <1>1, HeadTask
<1>3. todo' \in Seq(Tasks)
  <2>1. /\ <<>> \in Seq(Tasks) /\ <<Task("start", it, head.config)>> \in Seq(Tasks)
        /\ <<Task("start", it, config[it])>> \in Seq(Tasks)
    BY <1>2 DEF Task, Tasks, Kinds, TypeInv
  <2> QED
    <3>1. \A s \in {<<>>, <<Task("start", it, head.config)>>, <<Task("start", it, config[it])>>} :
            s \o Tail(todo) \in Seq(Tasks)
      BY <1>2, <2>1, ConcatTasks
    <3>2. \E s \in {<<>>, <<Task("start", it, head.config)>>, <<Task("start", it, config[it])>>} :
            todo' = s \o Tail(todo)
      BY DEF Drop, Add, Reset, Boot, StartFails, Start, Next1
    <3> QED
      BY <3>1, <3>2
<1>4. ASSUME NEW c \in Texts, NEW st \in Statuses \cup {None}, Fill(it, c, st)
      PROVE  /\ config' \in [Names -> Texts] /\ status' \in [Names -> Statuses \cup {None}]
             /\ cmd' \in [Names -> Procs \cup {None, "unstarted"}]
             /\ stopCh' \in [Names -> Procs \cup {None}] /\ client' \in [Names -> Procs \cup {None}]
             /\ link' \in [Procs -> {"table", "last", "past"}]
  BY <1>2, <1>4 DEF Fill, Detach, TypeInv
<1>5. CASE Drop
  BY <1>3, <1>4, <1>5 DEF Drop, TypeInv, Texts, rpcs
<1>6. CASE Add
  BY <1>2, <1>3, <1>4, <1>6 DEF Add, TypeInv, Statuses, rpcs
<1>7. CASE Reset
  BY <1>2, <1>3, <1>7 DEF Reset, TypeInv, Statuses, procs, rpcs
<1>8. CASE Boot
  BY <1>3, <1>8 DEF Boot, TypeInv, structs, procs, rpcs
<1>9. ASSUME NEW p \in Procs, Start(p) PROVE TypeInv'
  <2>1. /\ config' \in [Names -> Texts] /\ status' \in [Names -> Statuses \cup {None}]
        /\ cmd' \in [Names -> Procs \cup {None, "unstarted"}]
        /\ stopCh' \in [Names -> Procs \cup {None}] /\ client' \in [Names -> Procs \cup {None}]
    BY <1>2, <1>9 DEF Start, TypeInv, Statuses
  <2>2. phase' \in [Procs -> Phases] /\ owner' \in [Procs -> Names \cup {None}]
    BY <1>2, <1>9 DEF Start, TypeInv, Phases
  <2> QED
    BY <1>3, <1>9, <2>1, <2>2 DEF Start, TypeInv, rpcs
<1>10. CASE StartFails
  <2>1. /\ config' \in [Names -> Texts] /\ status' \in [Names -> Statuses \cup {None}]
        /\ cmd' \in [Names -> Procs \cup {None, "unstarted"}]
        /\ client' \in [Names -> Procs \cup {None}]
    BY <1>2, <1>10 DEF StartFails, TypeInv, Statuses
  <2> QED
    BY <1>3, <1>10, <2>1 DEF StartFails, TypeInv, procs, rpcs
<1> QED
  BY <1>5, <1>6, <1>7, <1>8, <1>9, <1>10

LEMMA ProcessType == ASSUME TypeInv, StructInv, NEW p \in Procs, Process(p) PROVE TypeInv'
<1>1. CASE Exit(p) \/ Signal(p)
  BY <1>1 DEF Exit, Signal, TypeInv, Phases, structs, rpcs
<1>2. CASE Settle(p)
  <2>1. owner[p] \in Names
    BY <1>2 DEF Settle, StructInv
  <2>2. status' \in [Names -> Statuses \cup {None}] /\ client' \in [Names -> Procs \cup {None}]
    BY <1>2, <2>1 DEF Settle, TypeInv, Statuses
  <2>3. phase' \in [Procs -> Phases]
    BY <1>2 DEF Settle, TypeInv, Phases
  <2> QED
    BY <1>2, <2>2, <2>3 DEF Settle, TypeInv
<1>3. CASE Report(p)
  BY <1>3 DEF Report, Notify, TypeInv, Phases, structs
<1>4. CASE OpenFD(p) \/ RegisterProxy(p) \/ \E k \in {"file", "proxy"} : Ask(k, p)
  <2>1. proxies' \in [Names -> Procs \cup {None}]
    BY <1>4 DEF OpenFD, RegisterProxy, Ask, TypeInv
  <2> QED
    BY <1>4, <2>1 DEF OpenFD, RegisterProxy, Ask, Serve, TypeInv, structs, procs
<1> QED
  BY <1>1, <1>2, <1>3, <1>4 DEF Process
-----------------------------------------------------------------------------
(* The lock and the structs, whatever administrators do                    *)

TaskStep == Drop \/ Add \/ Reset \/ Boot \/ StartFails \/ \E p \in Procs : Start(p)

LEMMA NotWaiting ==
  ASSUME LockInv, todo = <<>> \/ head.do \notin StopKinds \/ status[it] # "stopping"
  PROVE  ~waiting /\ \A n \in Names : status[n] # "stopping"
BY DEF LockInv

LEMMA NobodyStopping ==
  ASSUME ~waiting', \A n \in Names : status'[n] # "stopping" PROVE LockInv'
BY DEF LockInv

LEMMA InitLock == Init => LockInv
BY ServiceAssumption DEF Init, LockInv, ServiceAssumption, Statuses

LEMMA LockStep == ASSUME TypeInv, LockInv, StructInv, [Next]_vars PROVE LockInv'
<1>0. status \in [Names -> Statuses \cup {None}] /\ (todo # <<>> => it \in Names)
  BY HeadTask DEF TypeInv
<1>1. CASE UNCHANGED <<status, waiting, todo>>
  BY <1>1 DEF LockInv, it, head
<1>2. CASE Free /\ UNCHANGED <<status, waiting>>
  BY <1>2, NotWaiting, NobodyStopping DEF Free
<1>3. CASE StopIdle
  <2>1. ~waiting /\ \A n \in Names : status[n] # "stopping"
    BY <1>3, NotWaiting DEF StopIdle
  <2>2. status' = status \/ status' = [status EXCEPT ![it] = "stopped"]
    BY <1>3 DEF StopIdle, structs
  <2>3. waiting' = waiting
    BY <1>3 DEF StopIdle
  <2> QED
    BY <1>0, <2>1, <2>2, <2>3, NobodyStopping
<1>4. CASE StopKill
  <2>1. ~waiting /\ (\A n \in Names : status[n] # "stopping") /\ todo # <<>> /\ head.do \in StopKinds
    BY <1>4, NotWaiting DEF StopKill, Stopping
  <2>2. CASE phase[cmd[it]] = "running"
    <3>1. status' = [status EXCEPT ![it] = "stopping"] /\ waiting' /\ todo' = todo
      BY <1>4, <2>2 DEF StopKill
    <3> QED
      BY <1>0, <2>1, <3>1 DEF LockInv, it, head
  <2>3. CASE phase[cmd[it]] # "running"
    <3>1. status' = [status EXCEPT ![it] = "failed"] /\ waiting' = waiting
      BY <1>4, <2>3 DEF StopKill
    <3> QED
      BY <1>0, <2>1, <3>1, NobodyStopping
  <2> QED
    BY <2>2, <2>3
<1>5. CASE StopDone
  <2>1. ~waiting' /\ status' = [status EXCEPT ![it] = "stopped"] /\ waiting
    BY <1>5 DEF StopDone
  <2>2. \A n \in Names : status[n] = "stopping" => n = it
    BY <2>1 DEF LockInv
  <2> QED
    BY <1>0, <2>1, <2>2, NobodyStopping
<1>6. CASE TaskStep
  <2>1. todo # <<>> /\ head.do \notin StopKinds /\ waiting' = waiting
    BY <1>6 DEF TaskStep, Drop, Add, Reset, Boot, StartFails, Start, StopKinds
  <2>2. ~waiting /\ \A n \in Names : status[n] # "stopping"
    BY <2>1, NotWaiting
  <2>3. status' = status \/ \E st \in {None, "stopped", "running", "failed"} : status' = [status EXCEPT ![it] = st]
    BY <1>6 DEF TaskStep, Drop, Add, Reset, Boot, StartFails, Start, Fill, structs
  <2>4. None # "stopping"
    BY ServiceAssumption DEF ServiceAssumption, Statuses
  <2> QED
    BY <1>0, <2>1, <2>2, <2>3, <2>4, NobodyStopping
<1>7. ASSUME NEW p \in Procs, Settle(p) PROVE LockInv'
  <2>1. ~waiting /\ \A n \in Names : status[n] # "stopping"
    BY <1>7, NotWaiting DEF Settle, Free
  <2>2. waiting' = waiting /\ (status' = status \/ status' = [status EXCEPT ![owner[p]] = "stopped"])
    BY <1>7 DEF Settle
  <2> QED
    BY <1>0, <2>1, <2>2, NobodyStopping
<1>8. CASE Request
  BY <1>1, <1>2, <1>8
  DEF Request, StartService, StopService, Install, Uninstall, Edit, ReadDisk, ReadDiff, Update, Reload,
      Shutdown, Begin, structs
<1>9. ASSUME NEW p \in Procs,
             Exit(p) \/ Signal(p) \/ Report(p) \/ OpenFD(p) \/ RegisterProxy(p) \/ \E k \in {"file", "proxy"} : Ask(k, p)
      PROVE  LockInv'
  BY <1>1, <1>9 DEF Exit, Signal, Report, OpenFD, RegisterProxy, Ask, Serve, structs
<1> QED
  BY <1>1, <1>3, <1>4, <1>5, <1>6, <1>7, <1>8, <1>9 DEF Next, Work, TaskStep, Process, vars, structs

LEMMA InitStruct == Init => StructInv
BY ServiceAssumption DEF Init, StructInv, ServiceAssumption, Statuses

\* Steps that leave the structs alone, but for a status that does not say running.
LEMMA StructKept ==
  ASSUME TypeInv, TypeInv', StructInv, UNCHANGED <<cmd, stopCh, owner, link>>,
         \A p \in Procs : phase'[p] = "new" <=> phase[p] = "new",
         \A n \in Names : \/ status'[n] = status[n]
                          \/ status'[n] \in {"stopped", "failed"} /\ status[n] # None
                          \/ status'[n] = "stopping" /\ status[n] = "running"
  PROVE  StructInv'
<1>1. None \notin Procs /\ None \notin Statuses
  BY ServiceAssumption DEF ServiceAssumption
<1>2. \A n \in Names : stopCh[n] # None => stopCh[n] \in Procs
  BY DEF TypeInv
<1> QED
  BY <1>1, <1>2 DEF StructInv, Statuses

\* A struct leaves the table, and the goroutines of its starts with it.
LEMMA FillStruct ==
  ASSUME TypeInv, StructInv, NEW n \in Names, NEW c, NEW st \in {None, "stopped"}, Fill(n, c, st),
         UNCHANGED <<phase, owner>>
  PROVE  StructInv'
<1>1. None \notin Procs \cup Names \cup Statuses
  BY ServiceAssumption DEF ServiceAssumption
<1>2. /\ status' = [status EXCEPT ![n] = st] /\ cmd' = [cmd EXCEPT ![n] = None]
      /\ stopCh' = [stopCh EXCEPT ![n] = None]
      /\ \A p \in Procs : owner[p] # n => link'[p] = link[p]
  BY DEF Fill, Detach
<1>3. \A p \in Procs : phase[p] = "new" => link'[p] = "table" /\ owner[p] = None
  BY <1>1, <1>2 DEF StructInv
<1>4. ASSUME NEW m \in Names
      PROVE  /\ cmd'[m] \in Procs => stopCh'[m] = cmd'[m]
             /\ stopCh'[m] # None => /\ owner[stopCh'[m]] = m /\ link'[stopCh'[m]] = "table"
                                     /\ phase[stopCh'[m]] # "new"
             /\ status'[m] \in {"running", "stopping"} => cmd'[m] \in Procs
             /\ status'[m] = None => stopCh'[m] = None
  <2>1. CASE m = n
    BY <1>1, <1>2, <2>1 DEF TypeInv, Statuses
  <2>2. CASE m # n
    <3>1. status'[m] = status[m] /\ cmd'[m] = cmd[m] /\ stopCh'[m] = stopCh[m]
      BY <1>2, <2>2 DEF TypeInv
    <3>2. stopCh[m] # None => stopCh[m] \in Procs /\ owner[stopCh[m]] = m /\ link'[stopCh[m]] = link[stopCh[m]]
      BY <1>2, <2>2 DEF TypeInv, StructInv
    <3> QED
      BY <3>1, <3>2 DEF StructInv
  <2> QED
    BY <2>1, <2>2
<1> QED
  BY <1>3, <1>4 DEF StructInv

LEMMA StartStruct ==
  ASSUME TypeInv, StructInv, NEW p \in Procs, Start(p) PROVE StructInv'
<1>1. None \notin Procs \cup Names \cup Statuses
  BY ServiceAssumption DEF ServiceAssumption
<1>2. /\ phase[p] = "new" /\ it \in Names
      /\ status' = [status EXCEPT ![it] = "running"] /\ cmd' = [cmd EXCEPT ![it] = p]
      /\ stopCh' = [stopCh EXCEPT ![it] = p] /\ phase' = [phase EXCEPT ![p] = "running"]
      /\ owner' = [owner EXCEPT ![p] = it] /\ link' = link
  BY HeadTask DEF Start
<1>3. \A q \in Procs : /\ q # p => phase'[q] = phase[q] /\ owner'[q] = owner[q]
                       /\ q = p => phase'[q] = "running" /\ owner'[q] = it
  BY <1>2 DEF TypeInv
<1>4. ASSUME NEW m \in Names
      PROVE  /\ cmd'[m] \in Procs => stopCh'[m] = cmd'[m]
             /\ stopCh'[m] # None => /\ owner'[stopCh'[m]] = m /\ link[stopCh'[m]] = "table"
                                     /\ phase'[stopCh'[m]] # "new"
             /\ status'[m] \in {"running", "stopping"} => cmd'[m] \in Procs
             /\ status'[m] = None => stopCh'[m] = None
  <2>1. CASE m = it
    <3>1. status'[m] = "running" /\ cmd'[m] = p /\ stopCh'[m] = p
      BY <1>2, <2>1 DEF TypeInv
    <3>2. link[p] = "table"
      BY <1>2 DEF StructInv
    <3> QED
      BY <1>1, <1>3, <2>1, <3>1, <3>2 DEF Statuses
  <2>2. CASE m # it
    <3>1. status'[m] = status[m] /\ cmd'[m] = cmd[m] /\ stopCh'[m] = stopCh[m]
      BY <1>2, <2>2 DEF TypeInv
    <3>2. stopCh[m] # None => stopCh[m] \in Procs /\ phase[stopCh[m]] # "new" /\ stopCh[m] # p
                            /\ owner[stopCh[m]] = m /\ link[stopCh[m]] = "table"
      BY <1>2 DEF TypeInv, StructInv
    <3>3. ASSUME NEW q \in Procs, q # p, phase[q] # "new", owner[q] = m
          PROVE  phase'[q] # "new" /\ owner'[q] = m
      BY <1>3, <3>3
    <3>5. stopCh[m] # None => phase'[stopCh[m]] # "new" /\ owner'[stopCh[m]] = m
      BY <3>2, <3>3
    <3>4. /\ cmd[m] \in Procs => stopCh[m] = cmd[m]
          /\ status[m] \in {"running", "stopping"} => cmd[m] \in Procs
          /\ status[m] = None => stopCh[m] = None
      BY DEF StructInv
    <3> QED
      BY <3>1, <3>2, <3>4, <3>5
  <2> QED
    BY <2>1, <2>2
<1>5. \A q \in Procs : IF phase'[q] = "new" THEN owner'[q] = None /\ link[q] = "table" ELSE owner'[q] \in Names
  BY <1>2, <1>3 DEF StructInv
<1> QED
  BY <1>2, <1>4, <1>5 DEF StructInv

LEMMA StructStep == ASSUME TypeInv, TypeInv', LockInv, StructInv, [Next]_vars PROVE StructInv'
<1>0. status \in [Names -> Statuses \cup {None}] /\ (todo # <<>> => it \in Names)
  BY HeadTask DEF TypeInv
<1>1. CASE UNCHANGED <<structs, procs>>
  BY <1>1 DEF StructInv, structs, procs
<1>2. CASE StopIdle
  <2>1. UNCHANGED <<cmd, stopCh, phase, owner, link>>
    BY <1>2 DEF StopIdle, structs, procs
  <2>2. status' = status \/ (status' = [status EXCEPT ![it] = "stopped"] /\ status[it] # None)
    BY <1>2 DEF StopIdle, structs
  <2> QED
    BY <1>0, <2>1, <2>2, StructKept
<1>3. CASE StopKill
  <2>1. UNCHANGED <<cmd, stopCh, phase, owner, link>> /\ status[it] = "running"
    BY <1>3 DEF StopKill
  <2>2. status' = [status EXCEPT ![it] = "stopping"] \/ status' = [status EXCEPT ![it] = "failed"]
    BY <1>3 DEF StopKill
  <2>3. None # "running"
    BY ServiceAssumption DEF ServiceAssumption, Statuses
  <2> QED
    BY <1>0, <2>1, <2>2, <2>3, StructKept
<1>4. CASE StopDone
  <2>1. UNCHANGED <<cmd, stopCh, phase, owner, link>> /\ status' = [status EXCEPT ![it] = "stopped"]
    BY <1>4 DEF StopDone, procs
  <2>2. status[it] = "stopping" /\ None # "stopping"
    BY <1>4, ServiceAssumption DEF StopDone, LockInv, ServiceAssumption, Statuses
  <2> QED
    BY <1>0, <2>1, <2>2, StructKept
<1>5. CASE Drop \/ Add
  <2>1. it \in Names
    BY <1>0, <1>5 DEF Drop, Add
  <2> QED
    BY <1>5, <2>1, FillStruct DEF Drop, Add
<1>6. CASE Reset
  <2>1. UNCHANGED <<cmd, stopCh, phase, owner, link>>
    BY <1>6 DEF Reset, procs
  <2>2. status' = status \/ (status' = [status EXCEPT ![it] = "stopped"] /\ status[it] # None)
    BY <1>6 DEF Reset
  <2> QED
    BY <1>0, <2>1, <2>2, StructKept
<1>7. CASE StartFails
  <2>1. /\ UNCHANGED <<stopCh, phase, owner, link>> /\ status' = [status EXCEPT ![it] = "failed"]
        /\ cmd' = [cmd EXCEPT ![it] = "unstarted"] /\ it \in Names
    BY <1>0, <1>7 DEF StartFails, procs
  <2>2. "unstarted" \notin Procs /\ None \notin Statuses
    BY ServiceAssumption DEF ServiceAssumption
  <2> QED
    BY <1>0, <2>1, <2>2 DEF StructInv, TypeInv, Statuses
<1>8. ASSUME NEW p \in Procs, Start(p) PROVE StructInv'
  BY <1>8, StartStruct
<1>9. ASSUME NEW p \in Procs, Exit(p) \/ Signal(p) \/ Report(p) PROVE StructInv'
  <2>1. UNCHANGED <<structs, owner, link>>
    BY <1>9 DEF Exit, Signal, Report
  <2>2. \A q \in Procs : phase'[q] = "new" <=> phase[q] = "new"
    BY <1>9 DEF Exit, Signal, Report, TypeInv
  <2> QED
    BY <2>1, <2>2, StructKept DEF structs
<1>10. ASSUME NEW p \in Procs, Settle(p) PROVE StructInv'
  <2>1. UNCHANGED <<cmd, stopCh, owner, link>>
    BY <1>10 DEF Settle
  <2>2. \A q \in Procs : phase'[q] = "new" <=> phase[q] = "new"
    BY <1>10 DEF Settle, TypeInv
  <2>3. status' = status \/ (status' = [status EXCEPT ![owner[p]] = "stopped"] /\ stopCh[owner[p]] = p)
    BY <1>10 DEF Settle, IsActive
  <2>4. stopCh[owner[p]] = p /\ owner[p] \in Names => status[owner[p]] # None
    BY ServiceAssumption DEF StructInv, ServiceAssumption
  <2> QED
    BY <1>0, <2>1, <2>2, <2>3, <2>4, StructKept
<1>11. ASSUME NEW p \in Procs, OpenFD(p) \/ RegisterProxy(p) \/ \E k \in {"file", "proxy"} : Ask(k, p)
       PROVE  StructInv'
  BY <1>1, <1>11 DEF OpenFD, RegisterProxy, Ask, Serve
<1>12. CASE Request
  BY <1>1, <1>12
  DEF Request, StartService, StopService, Install, Uninstall, Edit, ReadDisk, ReadDiff, Update, Reload,
      Shutdown, Begin
<1>13. CASE Boot
  BY <1>1, <1>13 DEF Boot
<1> QED
  BY <1>1, <1>2, <1>3, <1>4, <1>5, <1>6, <1>7, <1>8, <1>9, <1>10, <1>11, <1>12, <1>13
  DEF Next, Work, Process, vars
-----------------------------------------------------------------------------
(* Routes                                                                  *)

LEMMA InitRoute == Init => RouteInv
BY ServiceAssumption DEF Init, RouteInv, RouteFreed, ServiceAssumption

\* Steps that register no route and start no process.
LEMMA RouteKept ==
  ASSUME TypeInv, RouteInv, UNCHANGED <<owner, asked, late>>,
         \A n \in Names : proxies'[n] \in {None, proxies[n]},
         \A p \in Procs : phase'[p] = phase[p] \/ (phase[p] # "new" /\ phase'[p] \notin {"new", "done"}),
         \A p \in Procs : phase[p] = "done" /\ IsActive(p)' => IsActive(p)
  PROVE  RouteInv'
<1>1. \A n \in Names : proxies[n] # None => proxies[n] \in Procs
  BY DEF TypeInv
<1>2. None \notin Procs
  BY ServiceAssumption DEF ServiceAssumption
<1>3. \A n \in Names : proxies'[n] # None => owner'[proxies'[n]] = n /\ phase'[proxies'[n]] # "new"
  BY <1>1 DEF RouteInv
<1>4. RouteFreed'
  <2> SUFFICES ASSUME NEW n \in Names, NEW p \in Procs, proxies'[n] = p, phase'[p] = "done",
                      <<"proxy", p>> \notin late
               PROVE  ~IsActive(p)'
    BY DEF RouteFreed
  <2>1. proxies[n] = p /\ phase[p] = "done"
    BY <1>2
  <2> QED
    BY <2>1 DEF RouteInv, RouteFreed
<1>5. \A p \in Procs : <<"proxy", p>> \in asked' => phase'[p] # "new"
  BY DEF RouteInv
<1> QED
  BY <1>3, <1>4, <1>5 DEF RouteInv

\* A struct that leaves the table takes the start that is active with it.
LEMMA FillActive ==
  ASSUME TypeInv, StructInv, NEW n \in Names, NEW c, NEW st, Fill(n, c, st), UNCHANGED owner,
         NEW p \in Procs
  PROVE  IsActive(p)' <=> IsActive(p)
<1>1. None \notin Procs
  BY ServiceAssumption DEF ServiceAssumption
<1>2. /\ stopCh' = [stopCh EXCEPT ![n] = None]
      /\ link'[p] = IF owner[p] # n \/ link[p] # "table" THEN link[p]
                    ELSE IF stopCh[n] = p THEN "last" ELSE "past"
  BY DEF Fill, Detach
<1>3. CASE owner[p] = n
  <2>1. stopCh'[n] = None
    BY <1>2 DEF TypeInv
  <2>2. link[p] \in {"table", "last", "past"}
    BY DEF TypeInv
  <2> QED
    BY <1>1, <1>2, <1>3, <2>1, <2>2 DEF IsActive
<1>4. CASE owner[p] # n
  <2>1. stopCh'[owner[p]] = stopCh[owner[p]]
    BY <1>2, <1>4 DEF TypeInv
  <2> QED
    BY <1>2, <1>4, <2>1 DEF IsActive
<1> QED
  BY <1>3, <1>4

\* The new process takes the place of the one before.
LEMMA StartRoute ==
  ASSUME TypeInv, StructInv, RouteInv, NEW p \in Procs, Start(p) PROVE RouteInv'
<1>1. /\ phase[p] = "new" /\ it \in Names /\ stopCh' = [stopCh EXCEPT ![it] = p]
      /\ phase' = [phase EXCEPT ![p] = "running"] /\ owner' = [owner EXCEPT ![p] = it]
      /\ UNCHANGED <<link, asked, proxies, late>>
  BY HeadTask DEF Start, rpcs
<1>2. \A q \in Procs : q # p => phase'[q] = phase[q] /\ owner'[q] = owner[q]
  BY <1>1 DEF TypeInv
<1>3. phase'[p] = "running"
  BY <1>1 DEF TypeInv
<1>4. \A n \in Names : proxies[n] # None => proxies[n] \in Procs /\ proxies[n] # p
  BY <1>1 DEF TypeInv, RouteInv
<1>5. \A n \in Names : proxies'[n] # None => owner'[proxies'[n]] = n /\ phase'[proxies'[n]] # "new"
  BY <1>1, <1>2, <1>4 DEF RouteInv
<1>6. RouteFreed'
  <2> SUFFICES ASSUME NEW n \in Names, NEW q \in Procs, proxies'[n] = q, phase'[q] = "done",
                      <<"proxy", q>> \notin late
               PROVE  ~IsActive(q)'
    BY <1>1 DEF RouteFreed
  <2>1. q # p /\ phase[q] = "done" /\ owner'[q] = owner[q] /\ ~IsActive(q)
    BY <1>1, <1>2, <1>3 DEF RouteInv, RouteFreed
  <2>2. owner[q] \in Names
    BY <2>1 DEF StructInv
  <2>3. stopCh'[owner[q]] = p \/ stopCh'[owner[q]] = stopCh[owner[q]]
    BY <1>1, <2>2 DEF TypeInv
  <2> QED
    BY <1>1, <2>1, <2>3 DEF IsActive
<1>7. \A q \in Procs : <<"proxy", q>> \in asked' => phase'[q] # "new"
  BY <1>1, <1>2, <1>3 DEF RouteInv
<1> QED
  BY <1>5, <1>6, <1>7 DEF RouteInv

\* A goroutine that finds its start active reports the stop: nobody waits for it
\* while the lock is free.
LEMMA SettleRoute ==
  ASSUME TypeInv, LockInv, StructInv, RouteInv, NEW p \in Procs, Settle(p) PROVE RouteInv'
<1>1. \A n \in Names : status[n] # "stopping"
  BY NotWaiting DEF Settle, Free
<1>2. owner[p] \in Names /\ phase[p] = "signalled"
  BY DEF Settle, StructInv
<1>3. /\ phase' = [phase EXCEPT ![p] = IF IsActive(p) THEN "reporting" ELSE "done"]
      /\ UNCHANGED <<asked, proxies, late, stopCh, owner, link>>
  BY <1>1, <1>2 DEF Settle
<1>4. \A q \in Procs : /\ q # p => phase'[q] = phase[q]
                       /\ q = p => phase'[q] = IF IsActive(p) THEN "reporting" ELSE "done"
  BY <1>3 DEF TypeInv
<1>5. \A q \in Procs : IsActive(q)' <=> IsActive(q)
  BY <1>3 DEF IsActive
<1>6. \A n \in Names : proxies[n] # None => proxies[n] \in Procs
  BY DEF TypeInv
<1>7. \A n \in Names : proxies'[n] # None => owner'[proxies'[n]] = n /\ phase'[proxies'[n]] # "new"
  BY <1>3, <1>4, <1>6 DEF RouteInv
<1>8. RouteFreed'
  <2> SUFFICES ASSUME NEW n \in Names, NEW q \in Procs, proxies[n] = q, phase'[q] = "done",
                      <<"proxy", q>> \notin late
               PROVE  ~IsActive(q)
    BY <1>3, <1>5 DEF RouteFreed
  <2> QED
    BY <1>4 DEF RouteInv, RouteFreed
<1>9. \A q \in Procs : <<"proxy", q>> \in asked' => phase'[q] # "new"
  BY <1>2, <1>3, <1>4 DEF RouteInv
<1> QED
  BY <1>7, <1>8, <1>9 DEF RouteInv

\* The report frees the route that the process has.
LEMMA ReportRoute ==
  ASSUME TypeInv, StructInv, RouteInv, NEW p \in Procs, Report(p) PROVE RouteInv'
<1>1. /\ phase[p] = "reporting" /\ phase' = [phase EXCEPT ![p] = "done"]
      /\ proxies' = [proxies EXCEPT ![owner[p]] = None]
      /\ UNCHANGED <<stopCh, owner, link, asked, late>>
  BY DEF Report, Notify, structs
<1>2. owner[p] \in Names /\ None \notin Procs
  BY <1>1, ServiceAssumption DEF StructInv, ServiceAssumption
<1>3. \A n \in Names : /\ n # owner[p] => proxies'[n] = proxies[n]
                       /\ n = owner[p] => proxies'[n] = None
  BY <1>1 DEF TypeInv
<1>4. \A q \in Procs : (q # p => phase'[q] = phase[q]) /\ (IsActive(q)' <=> IsActive(q))
  BY <1>1 DEF TypeInv, IsActive
<1>5. \A n \in Names : proxies'[n] # None => proxies[n] = proxies'[n] /\ proxies[n] \in Procs /\ proxies[n] # p
  BY <1>3 DEF TypeInv, RouteInv
<1>6. \A n \in Names : proxies'[n] # None => owner'[proxies'[n]] = n /\ phase'[proxies'[n]] # "new"
  BY <1>1, <1>4, <1>5 DEF RouteInv
<1>7. RouteFreed'
  <2> SUFFICES ASSUME NEW n \in Names, NEW q \in Procs, proxies'[n] = q, phase'[q] = "done",
                      <<"proxy", q>> \notin late
               PROVE  ~IsActive(q)
    BY <1>1, <1>4 DEF RouteFreed
  <2>1. q # p /\ proxies[n] = q
    BY <1>2, <1>5
  <2> QED
    BY <1>4, <2>1 DEF RouteInv, RouteFreed
<1>8. \A q \in Procs : <<"proxy", q>> \in asked' => phase'[q] # "new"
  BY <1>1, <1>4 DEF RouteInv, TypeInv
<1> QED
  BY <1>6, <1>7, <1>8 DEF RouteInv

\* A process asks while it runs; the answer may come when nobody is left to free the
\* route, and is then noted as late.
LEMMA AskRoute ==
  ASSUME RouteInv, NEW p \in Procs, NEW k \in {"file", "proxy"}, Ask(k, p) PROVE RouteInv'
<1>1. /\ phase[p] = "running" /\ asked' = asked \cup {<<k, p>>}
      /\ UNCHANGED <<stopCh, owner, link, phase, proxies, late>>
  BY DEF Ask, structs, procs
<1>2. \A q \in Procs : <<"proxy", q>> \in asked' => <<"proxy", q>> \in asked \/ q = p
  BY <1>1
<1>3. \A q \in Procs : IsActive(q)' <=> IsActive(q)
  BY <1>1 DEF IsActive
<1> QED
  BY <1>1, <1>2, <1>3 DEF RouteInv, RouteFreed

LEMMA RegisterRoute ==
  ASSUME TypeInv, StructInv, RouteInv, NEW p \in Procs, RegisterProxy(p) PROVE RouteInv'
<1>1. /\ <<"proxy", p>> \in asked /\ asked' \subseteq asked
      /\ UNCHANGED <<stopCh, owner, link, phase>>
  BY DEF RegisterProxy, Serve, structs, procs
<1>2. phase[p] # "new"
  BY <1>1 DEF RouteInv
<1>3. \A q \in Procs : IsActive(q)' <=> IsActive(q)
  BY <1>1 DEF IsActive
<1>4. CASE UNCHANGED <<proxies, late>>
  BY <1>1, <1>3, <1>4 DEF RouteInv, RouteFreed
<1>5. CASE /\ proxies' = [proxies EXCEPT ![owner[p]] = p]
           /\ late' = IF phase[p] = "done" THEN late \cup {<<"proxy", p>>} ELSE late
  <2>1. \A n \in Names : proxies'[n] = proxies[n] \/ (n = owner[p] /\ proxies'[n] = p)
    BY <1>5 DEF TypeInv
  <2>2. late \subseteq late' /\ (phase[p] = "done" => <<"proxy", p>> \in late')
    BY <1>5
  <2>3. \A n \in Names : proxies'[n] # None => owner'[proxies'[n]] = n /\ phase'[proxies'[n]] # "new"
    BY <1>1, <1>2, <2>1 DEF RouteInv
  <2>4. RouteFreed'
    BY <1>1, <1>3, <2>1, <2>2 DEF RouteInv, RouteFreed
  <2> QED
    BY <1>1, <2>3, <2>4 DEF RouteInv
<1> QED
  BY <1>4, <1>5 DEF RegisterProxy

LEMMA RouteStep == ASSUME TypeInv, LockInv, StructInv, RouteInv, [Next]_vars PROVE RouteInv'
<1>1. CASE UNCHANGED <<stopCh, procs, asked, proxies, late>>
  BY <1>1 DEF RouteInv, RouteFreed, IsActive, procs
<1>2. CASE StopIdle \/ StopKill \/ StopDone
  <2>1. UNCHANGED <<stopCh, phase, owner, link, asked, late>>
    BY <1>2 DEF StopIdle, StopKill, StopDone, structs, procs, rpcs
  <2>2. \A n \in Names : proxies'[n] \in {None, proxies[n]}
    BY <1>2 DEF StopIdle, StopKill, StopDone, Notify, TypeInv, rpcs
  <2> QED
    BY <2>1, <2>2, RouteKept DEF IsActive
<1>3. CASE Drop \/ Add
  <2>1. it \in Names
    BY <1>3, HeadTask DEF Drop, Add
  <2>2. UNCHANGED <<phase, owner, rpcs>> /\ \E c, st : Fill(it, c, st)
    BY <1>3 DEF Drop, Add
  <2> QED
    BY <2>1, <2>2, FillActive, RouteKept DEF rpcs
<1>4. ASSUME NEW p \in Procs, Exit(p) \/ Signal(p) PROVE RouteInv'
  <2>1. UNCHANGED <<stopCh, owner, link, asked, proxies, late>>
    BY <1>4 DEF Exit, Signal, structs, rpcs
  <2>2. \A q \in Procs : phase'[q] = phase[q] \/ (phase[q] # "new" /\ phase'[q] \notin {"new", "done"})
    BY <1>4 DEF Exit, Signal, TypeInv
  <2> QED
    BY <2>1, <2>2, RouteKept DEF IsActive
<1>5. ASSUME NEW p \in Procs, Start(p) \/ Settle(p) \/ Report(p) \/ RegisterProxy(p) PROVE RouteInv'
  BY <1>5, StartRoute, SettleRoute, ReportRoute, RegisterRoute
<1>6. CASE Request
  BY <1>1, <1>6
  DEF Request, StartService, StopService, Install, Uninstall, Edit, ReadDisk, ReadDiff, Update, Reload,
      Shutdown, Begin, structs, rpcs
<1>7. CASE Reset \/ Boot \/ StartFails
  BY <1>1, <1>7 DEF Reset, Boot, StartFails, structs, rpcs
<1>8. ASSUME NEW p \in Procs, OpenFD(p) PROVE RouteInv'
  <2>1. UNCHANGED <<stopCh, procs, proxies>> /\ asked' \subseteq asked /\ late \subseteq late'
    BY <1>8 DEF OpenFD, Serve, structs
  <2>2. \A q \in Procs : IsActive(q)' <=> IsActive(q)
    BY <2>1 DEF IsActive, procs
  <2> QED
    BY <2>1, <2>2 DEF RouteInv, RouteFreed, procs
<1>9. ASSUME NEW p \in Procs, NEW k \in {"file", "proxy"}, Ask(k, p) PROVE RouteInv'
  BY <1>9, AskRoute
<1> QED
  BY <1>1, <1>2, <1>3, <1>4, <1>5, <1>6, <1>7, <1>8, <1>9 DEF Next, Work, Process, vars, structs, rpcs

LEMMA InitBase == Init => BaseInv
BY InitType, InitLock, InitStruct, InitRoute DEF BaseInv

LEMMA BaseStep == BaseInv /\ [Next]_vars => BaseInv'
<1> SUFFICES ASSUME BaseInv, [Next]_vars PROVE BaseInv'
  OBVIOUS
<1>1. TypeInv /\ LockInv /\ StructInv /\ RouteInv
  BY DEF BaseInv
<1>2. TypeInv'
  <2>1. waiting => todo # <<>>
    BY <1>1 DEF LockInv
  <2>2. CASE UNCHANGED vars
    BY <1>1, <2>2 DEF vars, structs, procs, rpcs, TypeInv
  <2> QED
    BY <1>1, <2>1, <2>2, RequestType, StopType, TaskType, ProcessType DEF Next, Work
<1> QED
  BY <1>1, <1>2, LockStep, StructStep, RouteStep DEF BaseInv

\* Whatever administrators do and however services die, the goroutine of a process that
\* died has freed its route, unless a later start of the service took its place or
\* the controller served the process' request for the route only after that (the
\* goroutine of startServiceInstance, controlled stops and the lifecycle hook).
THEOREM RoutesAreFreed == Spec => []RouteFreed
<1>1. BaseInv => RouteFreed
  BY DEF BaseInv, RouteInv
<1> QED
  BY <1>1, InitBase, BaseStep, PTL DEF Spec
-----------------------------------------------------------------------------
(* Safe lists of tasks                                                     *)

Stops(s) == {n \in Names : \E j \in 1..Len(s) : s[j].name = n /\ s[j].do \in StopKinds}

LEMMA SafeMore ==
  ASSUME NEW s, NEW Q, NEW R, Safe(s, Q), Q \subseteq R PROVE Safe(s, R)
BY DEF Safe

LEMMA ListSafe ==
  ASSUME NEW s, NEW ns, NEW d, NEW Q, Lists(s, ns, d), d \in Needy => ns \subseteq Q
  PROVE  Safe(s, Q)
<1> SUFFICES ASSUME NEW i \in 1..Len(s), s[i].do \in Needy
             PROVE  s[i].name \in Q /\ \A j \in 1..(i - 1) : s[j].name # s[i].name
  BY DEF Safe
<1>1. s[i].name \in Q
  BY DEF Lists
<1>2. ASSUME NEW j \in 1..(i - 1) PROVE s[j].name # s[i].name
  <2>1. j \in 1..Len(s) /\ j # i
    BY DEF Lists
  <2> QED
    BY <2>1 DEF Lists
<1> QED
  BY <1>1, <1>2

LEMMA ConcatAt ==
  ASSUME NEW s \in Seq(Tasks), NEW r \in Seq(Tasks)
  PROVE  /\ Len(s \o r) = Len(s) + Len(r) /\ Len(s) \in Nat /\ Len(r) \in Nat
         /\ \A i \in 1..Len(s) : i \in 1..Len(s \o r) /\ (s \o r)[i] = s[i]
         /\ \A i \in 1..Len(r) : i + Len(s) \in 1..Len(s \o r) /\ (s \o r)[i + Len(s)] = r[i]
         /\ \A i \in 1..Len(s \o r) :
              \/ i \in 1..Len(s)
              \/ i - Len(s) \in 1..Len(r) /\ (s \o r)[i] = r[i - Len(s)]
OBVIOUS

LEMMA SafeConcat ==
  ASSUME NEW s \in Seq(Tasks), NEW r \in Seq(Tasks), NEW Q,
         Safe(s, Q), Safe(r, Q \cup Stops(s)),
         \A i \in 1..Len(s), j \in 1..Len(r) :
           s[i].do \in Starters /\ r[j].do \in Needy => s[i].name # r[j].name
  PROVE  Safe(s \o r, Q)
<1> DEFINE c == s \o r
           m == Len(s)
<1>1. /\ Len(c) = m + Len(r) /\ m \in Nat /\ Len(r) \in Nat
      /\ \A i \in 1..m : c[i] = s[i]
      /\ \A i \in 1..Len(r) : c[i + m] = r[i]
      /\ \A i \in 1..Len(c) : i \in 1..m \/ (i - m \in 1..Len(r) /\ c[i] = r[i - m])
  BY ConcatAt
<1> HIDE DEF c, m
<1> SUFFICES ASSUME NEW i \in 1..Len(c), c[i].do \in Needy
             PROVE  /\ c[i].name \in Q \/ \E j \in 1..(i - 1) : c[j].name = c[i].name /\ c[j].do \in StopKinds
                    /\ \A j \in 1..(i - 1) : c[j].name = c[i].name => c[j].do \notin Starters
  BY DEF Safe, c
<1>2. CASE i \in 1..m
  <2>1. c[i] = s[i] /\ \A j \in 1..(i - 1) : j \in 1..m /\ c[j] = s[j]
    BY <1>1, <1>2
  <2>2. i \in 1..Len(s)
    BY <1>2 DEF m
  <2> QED
    BY <2>1, <2>2 DEF Safe
<1>3. CASE i \notin 1..m
  <2> DEFINE k == i - m
  <2>1. k \in 1..Len(r) /\ c[i] = r[k]
    BY <1>1, <1>3
  <2>2. ASSUME NEW j \in 1..(k - 1) PROVE j + m \in 1..(i - 1) /\ c[j + m] = r[j]
    <3>1. j \in 1..Len(r) /\ j + m \in 1..(i - 1)
      BY <1>1, <2>1
    <3> QED
      BY <1>1, <3>1
  <2>3. \A j \in 1..m : j \in 1..(i - 1) /\ c[j] = s[j]
    BY <1>1, <2>1
  <2>4. \A j \in 1..(i - 1) : j \in 1..m \/ (j - m \in 1..(k - 1) /\ c[j] = r[j - m])
    BY <1>1, <2>1
  <2> HIDE DEF k
  <2>5. c[i].name \in Q \/ \E j \in 1..(i - 1) : c[j].name = c[i].name /\ c[j].do \in StopKinds
    <3>1. CASE c[i].name \in Stops(s)
      <4>1. PICK j \in 1..m : s[j].name = c[i].name /\ s[j].do \in StopKinds
        BY <3>1 DEF Stops, m
      <4> QED
        BY <2>3, <4>1
    <3>2. CASE c[i].name \notin Stops(s) /\ c[i].name \notin Q
      <4>1. PICK j \in 1..(k - 1) : r[j].name = c[i].name /\ r[j].do \in StopKinds
        BY <2>1, <3>2 DEF Safe
      <4> QED
        BY <2>2, <4>1
    <3> QED
      BY <3>1, <3>2
  <2>6. ASSUME NEW j \in 1..(i - 1), c[j].name = c[i].name PROVE c[j].do \notin Starters
    <3>1. CASE j \in 1..m
      <4>1. c[j] = s[j] /\ j \in 1..Len(s)
        BY <2>3, <3>1 DEF m
      <4> QED
        BY <2>1, <2>6, <4>1
    <3>2. CASE j \notin 1..m
      <4>1. j - m \in 1..(k - 1) /\ c[j] = r[j - m]
        BY <2>4, <3>2
      <4> QED
        BY <2>1, <2>6, <4>1 DEF Safe
    <3> QED
      BY <3>1, <3>2
  <2> QED
    BY <2>5, <2>6
<1> QED
  BY <1>2, <1>3

\* What is left of a list when its head was worked off.
LEMMA TailAt ==
  ASSUME NEW s \in Seq(Tasks), s # <<>>
  PROVE  /\ 1 \in 1..Len(s) /\ Tail(s) \in Seq(Tasks)
         /\ \A i \in 1..Len(Tail(s)) : i + 1 \in 1..Len(s) /\ Tail(s)[i] = s[i + 1]
         /\ \A i \in 1..Len(s) : i = 1 \/ (i - 1 \in 1..Len(Tail(s)) /\ Tail(s)[i - 1] = s[i])
OBVIOUS

LEMMA SafeTail ==
  ASSUME NEW s \in Seq(Tasks), s # <<>>, NEW Q, NEW R, Safe(s, Q),
         \/ Q \subseteq R /\ (s[1].do \in StopKinds => s[1].name \in R)
         \/ Q \subseteq R \cup {s[1].name} /\ s[1].do = "start"
  PROVE  /\ Safe(Tail(s), R)
         /\ \A i \in 1..Len(Tail(s)) :
              Tail(s)[i].do \in Needy /\ Tail(s)[i].name = s[1].name => s[1].do \notin Starters
<1> DEFINE t == Tail(s)
<1>1. /\ 1 \in 1..Len(s) /\ t \in Seq(Tasks)
      /\ \A i \in 1..Len(t) : i + 1 \in 1..Len(s) /\ t[i] = s[i + 1]
  BY TailAt
<1> HIDE DEF t
<1>2. ASSUME NEW i \in 1..Len(t), t[i].do \in Needy
      PROVE  /\ t[i].name \in Q \/ \E j \in 1..i : s[j].name = t[i].name /\ s[j].do \in StopKinds
             /\ \A j \in 1..i : s[j].name = t[i].name => s[j].do \notin Starters
  <2>1. i + 1 \in 1..Len(s) /\ t[i] = s[i + 1] /\ (i + 1) - 1 = i
    BY <1>1
  <2> QED
    BY <1>2, <2>1 DEF Safe
<1>3. ASSUME NEW i \in 1..Len(t), t[i].do \in Needy, t[i].name = s[1].name PROVE s[1].do \notin Starters
  BY <1>2, <1>3
<1>4. ASSUME NEW i \in 1..Len(t), t[i].do \in Needy
      PROVE  /\ t[i].name \in R \/ \E j \in 1..(i - 1) : t[j].name = t[i].name /\ t[j].do \in StopKinds
             /\ \A j \in 1..(i - 1) : t[j].name = t[i].name => t[j].do \notin Starters
  <2>1. \A j \in 1..(i - 1) : j + 1 \in 1..i /\ t[j] = s[j + 1]
    BY <1>1
  <2>2. \A j \in 1..(i - 1) : t[j].name = t[i].name => t[j].do \notin Starters
    BY <1>2, <1>4, <2>1
  <2>3. CASE t[i].name \in Q
    <3>1. s[1].do = "start" => t[i].name # s[1].name
      BY <1>3, <1>4 DEF Starters
    <3> QED
      BY <2>2, <2>3, <3>1
  <2>4. CASE t[i].name \notin Q
    <3>1. PICK j \in 1..i : s[j].name = t[i].name /\ s[j].do \in StopKinds
      BY <1>2, <1>4, <2>4
    <3>2. CASE j = 1
      BY <2>2, <3>1, <3>2 DEF StopKinds
    <3>3. CASE j # 1
      <4>1. j - 1 \in 1..(i - 1) /\ (j - 1) + 1 = j
        BY <3>1, <3>3
      <4>2. t[j - 1] = s[j]
        BY <2>1, <4>1
      <4> QED
        BY <2>2, <3>1, <4>1, <4>2
    <3> QED
      BY <3>2, <3>3
  <2> QED
    BY <2>3, <2>4
<1> QED
  BY <1>3, <1>4 DEF Safe, t

\* The list after a step that put the tasks s in the place of its head.
LEMMA SafeNext ==
  ASSUME TypeInv, todo # <<>>, Safe(todo, QuietNames), NEW R,
         \/ QuietNames \subseteq R /\ (head.do \in StopKinds => it \in R)
         \/ QuietNames \subseteq R \cup {it} /\ head.do = "start",
         NEW s \in Seq(Tasks), Safe(s, R), Next1(s),
         \A i \in 1..Len(s) : s[i].name = it /\ (s[i].do \in Starters => head.do \in Starters)
  PROVE  Safe(todo', R)
<1>1. todo \in Seq(Tasks) /\ todo[1] = head /\ head.name = it
  BY DEF TypeInv, head, it
<1>2. /\ Safe(Tail(todo), R)
      /\ \A i \in 1..Len(Tail(todo)) :
           Tail(todo)[i].do \in Needy /\ Tail(todo)[i].name = it => head.do \notin Starters
  BY <1>1, SafeTail
<1>3. Tail(todo) \in Seq(Tasks) /\ Safe(Tail(todo), R \cup Stops(s))
  BY <1>1, <1>2, SafeMore
<1>4. \A i \in 1..Len(s), j \in 1..Len(Tail(todo)) :
        s[i].do \in Starters /\ Tail(todo)[j].do \in Needy => s[i].name # Tail(todo)[j].name
  BY <1>2
<1> QED
  BY <1>3, <1>4, SafeConcat DEF Next1

LEMMA SafeShort ==
  ASSUME NEW R, NEW t1, NEW t2
  PROVE  /\ Safe(<<>>, R)
         /\ t1.name \in R => Safe(<<t1>>, R)
         /\ t1.name \in R /\ t2.name \in R /\ t1.do = "drop" => Safe(<<t1, t2>>, R)
BY DEF Safe, Starters

\* What follows a stop.
LEMMA SafeThen ==
  ASSUME TypeInv, todo # <<>>, Stopping, NEW b \in BOOLEAN, NEW R, it \in R
  PROVE  /\ Then(b) \in Seq(Tasks) /\ Safe(Then(b), R)
         /\ \A i \in 1..Len(Then(b)) :
              /\ Then(b)[i].name = it /\ Then(b)[i].do \in {"drop", "add", "start"}
              /\ Then(b)[i].do \in Starters => head.do \in Starters
         /\ head.do \in {"stop", "quit", "halt"} => Then(b) = <<>>
<1>1. Then(b) \in Seq(Tasks)
  BY ThenTasks
<1> DEFINE drop == Task("drop", it, None)
           add == Task("add", it, head.config)
           start == Task("start", it, head.config)
<1>2. /\ drop.name = it /\ drop.do = "drop" /\ add.name = it /\ add.do = "add"
      /\ start.name = it /\ start.do = "start"
  BY DEF Task
<1>3. \/ Then(b) = <<>>
      \/ Then(b) = <<drop>> /\ head.do = "remove"
      \/ Then(b) = <<drop, add>> /\ head.do = "install"
      \/ Then(b) = <<start>> /\ head.do = "update"
  BY DEF Then
<1>4. head.do \in {"stop", "quit", "halt"} => Then(b) = <<>>
  BY DEF Then
<1> HIDE DEF drop, add, start
<1>5. Safe(Then(b), R)
  BY <1>2, <1>3, SafeShort
<1>6. \A i \in 1..Len(Then(b)) :
        /\ Then(b)[i].name = it /\ Then(b)[i].do \in {"drop", "add", "start"}
        /\ Then(b)[i].do \in Starters => head.do \in Starters
  <2>1. CASE Then(b) = <<drop>> /\ head.do = "remove"
    BY <1>2, <2>1 DEF Starters
  <2>2. CASE Then(b) = <<drop, add>> /\ head.do = "install"
    BY <1>2, <2>2 DEF Starters
  <2>3. CASE Then(b) = <<start>> /\ head.do = "update"
    BY <1>2, <2>3 DEF Starters
  <2> QED
    BY <1>3, <2>1, <2>2, <2>3
<1> QED
  BY <1>1, <1>4, <1>5, <1>6

\* Steps that start no process leave quiet services quiet.
LEMMA QuietKept ==
  ASSUME UNCHANGED owner, \A p \in Procs : phase'[p] = "running" => phase[p] = "running"
  PROVE  QuietNames \subseteq QuietNames'
BY DEF QuietNames, Quiet

\* A needy task at the head finds its service quiet.
LEMMA HeadQuiet ==
  ASSUME TypeInv, todo # <<>>, Safe(todo, QuietNames), head.do \in Needy PROVE Quiet(it)
<1>1. 1 \in 1..Len(todo) /\ todo[1] = head
  BY DEF TypeInv, head
<1>2. it \in QuietNames
  BY <1>1 DEF Safe, it
<1> QED
  BY <1>2 DEF QuietNames

\* A stop that ends, ends with the service quiet.
LEMMA StopQuiet ==
  ASSUME BaseInv, NoOrphan, StopIdle \/ (StopKill /\ phase[cmd[it]] # "running") \/ StopDone
  PROVE  Quiet(it)
<1> SUFFICES ASSUME NEW p \in Procs, phase[p] = "running", owner[p] = it PROVE FALSE
  BY DEF Quiet
<1>1. cmd[it] = p /\ status[it] \in {"running", "stopping"}
  BY DEF NoOrphan
<1>2. it \in Names
  BY DEF BaseInv, StructInv
<1>3. stopCh[it] = p
  BY <1>1, <1>2 DEF BaseInv, StructInv
<1> QED
  BY <1>1, <1>3 DEF StopIdle, StopKill, StopDone

LEMMA StopFrames ==
  ASSUME StopIdle \/ StopKill \/ StopDone
  PROVE  UNCHANGED <<phase, owner, link, reread, cmd, stopCh>>
BY DEF StopIdle, StopKill, StopDone, procs, structs

\* Where no process of m runs, its struct may change.
LEMMA OrphanKept ==
  ASSUME TypeInv, NoOrphan, NEW m, UNCHANGED owner,
         \A p \in Procs : phase'[p] = "running" => phase[p] = "running" /\ owner[p] # m,
         \A n \in Names : n # m => cmd'[n] = cmd[n] /\ status'[n] = status[n],
         \A p \in Procs : owner[p] # m => link'[p] = link[p],
         StructInv
  PROVE  NoOrphan'
<1> SUFFICES ASSUME NEW p \in Procs, phase'[p] = "running"
             PROVE  link'[p] = "table" /\ cmd'[owner[p]] = p /\ status'[owner[p]] \in {"running", "stopping"}
  BY DEF NoOrphan
<1>1. phase[p] = "running" /\ owner[p] # m /\ owner[p] \in Names
  BY DEF StructInv
<1> QED
  BY <1>1 DEF NoOrphan

\* Before an Update nothing is done that could make a new service known.
LEMMA RereadNext ==
  ASSUME TypeInv, RereadInv, todo # <<>>, NEW s \in Seq(Tasks), Next1(s), UNCHANGED reread,
         head.do \in {"start", "stop", "quit"} => s = <<>>,
         \A n \in Names : n \in Registered' => n \in Registered \/ (n = it /\ head.do = "start")
                                               \/ head.do \notin {"start", "stop", "quit"}
  PROVE  RereadInv'
<1> SUFFICES ASSUME reread # None PROVE RereadInv'
  BY DEF RereadInv
<1>1. todo \in Seq(Tasks) /\ 1 \in 1..Len(todo) /\ todo[1] = head /\ head.name = it
  BY DEF TypeInv, head, it
<1>2. head.do \in {"start", "stop", "quit"} /\ (head.do = "start" => it \notin reread.added)
  BY <1>1 DEF RereadInv
<1>3. todo' = Tail(todo)
  <2>1. Tail(todo) \in Seq(Tasks)
    BY <1>1, TailAt
  <2> QED
    BY <1>2, <2>1 DEF Next1
<1>4. \A i \in 1..Len(todo') : todo'[i].do \in {"start", "stop", "quit"}
                              /\ (todo'[i].do = "start" => todo'[i].name \notin reread.added)
  BY <1>1, <1>3, TailAt DEF RereadInv
<1>5. reread.added \cap (Registered' \cup reread.updated) = {}
  <2>1. reread.added \in SUBSET Names
    BY DEF TypeInv
  <2> QED
    BY <1>2, <2>1 DEF RereadInv
<1> QED
  BY <1>4, <1>5 DEF RereadInv

\* Every stop of a shutdown leaves one service less to stop.
LEMMA QuitNext ==
  ASSUME TypeInv, QuitInv, todo # <<>>, NEW s \in Seq(Tasks), Next1(s),
         \A i \in 1..Len(s) : s[i].do # "quit",
         head.do = "quit" => /\ s = <<>> /\ UNCHANGED owner
                             /\ \A p \in Procs : phase'[p] = "running" => phase[p] = "running" /\ owner[p] # it
  PROVE  QuitInv'
<1>1. todo \in Seq(Tasks) /\ 1 \in 1..Len(todo) /\ todo[1] = head /\ head.name = it
      /\ Tail(todo) \in Seq(Tasks)
  BY TailAt DEF TypeInv, head, it
<1>2. CASE head.do = "quit"
  <2>1. todo' = Tail(todo)
    BY <1>1, <1>2 DEF Next1
  <2>2. \A i \in 1..Len(todo') : todo'[i].do = "quit"
    BY <1>1, <1>2, <2>1, TailAt DEF QuitInv
  <2>3. ASSUME NEW p \in Procs, phase'[p] = "running" PROVE \E i \in 1..Len(todo') : todo'[i].name = owner'[p]
    <3>1. phase[p] = "running" /\ owner'[p] = owner[p] /\ owner[p] # it
      BY <1>2, <2>3
    <3>2. PICK i \in 1..Len(todo) : todo[i].name = owner[p]
      BY <1>1, <1>2, <3>1 DEF QuitInv
    <3>3. i # 1
      BY <1>1, <3>1, <3>2
    <3>4. i - 1 \in 1..Len(todo') /\ todo'[i - 1] = todo[i]
      BY <1>1, <2>1, <3>3, TailAt
    <3> QED
      BY <3>1, <3>2, <3>4
  <2> QED
    BY <2>2, <2>3 DEF QuitInv
<1>3. CASE head.do # "quit"
  <2>1. \A i \in 1..Len(todo) : todo[i].do # "quit"
    BY <1>1, <1>3 DEF QuitInv
  <2>2. \A i \in 1..Len(Tail(todo)) : Tail(todo)[i].do # "quit"
    BY <1>1, <2>1, TailAt
  <2>3. ASSUME NEW i \in 1..Len(s \o Tail(todo)) PROVE (s \o Tail(todo))[i].do # "quit"
    <3>1. \/ i \in 1..Len(s) /\ (s \o Tail(todo))[i] = s[i]
          \/ i - Len(s) \in 1..Len(Tail(todo)) /\ (s \o Tail(todo))[i] = Tail(todo)[i - Len(s)]
      BY <1>1, ConcatAt
    <3> QED
      BY <2>2, <3>1
  <2>4. \A i \in 1..Len(todo') : todo'[i].do # "quit"
    BY <2>3 DEF Next1
  <2> QED
    BY <2>4 DEF QuitInv
<1> QED
  BY <1>2, <1>3

LEMMA StopOrphan ==
  ASSUME OrphanInv, StopIdle \/ StopKill \/ StopDone
  PROVE  NoOrphan' /\ Safe(todo', QuietNames') /\ RereadInv' /\ QuitInv'
<1>1. TypeInv /\ LockInv /\ StructInv /\ BaseInv /\ NoOrphan
  BY DEF OrphanInv, BaseInv
<1>2. UNCHANGED <<phase, owner, link, reread, cmd, stopCh>>
  BY StopFrames
<1>3. todo # <<>> /\ head.do \in StopKinds /\ Stopping
  BY <1>1 DEF StopIdle, StopKill, StopDone, Stopping, LockInv
<1>4. it \in Names /\ QuietNames' = QuietNames
  <2>1. it \in Names
    BY <1>1, <1>3, HeadTask
  <2>2. QuietNames' = QuietNames
    BY <1>2 DEF QuietNames, Quiet
  <2> QED
    BY <2>1, <2>2
<1>5. CASE StopKill /\ phase[cmd[it]] = "running"
  <2>1. status' = [status EXCEPT ![it] = "stopping"] /\ status[it] = "running" /\ UNCHANGED todo
    BY <1>5 DEF StopKill
  <2>2. \A n \in Names : status'[n] = status[n] \/ (n = it /\ status'[n] = "stopping")
    BY <1>1, <2>1 DEF TypeInv
  <2>3. NoOrphan'
    <3> SUFFICES ASSUME NEW p \in Procs, phase[p] = "running"
                 PROVE  link[p] = "table" /\ cmd[owner[p]] = p /\ status'[owner[p]] \in {"running", "stopping"}
      BY <1>2 DEF NoOrphan
    <3>1. owner[p] \in Names
      BY <1>1 DEF StructInv
    <3> QED
      BY <1>1, <2>2, <3>1 DEF NoOrphan
  <2>4. Registered' = Registered
    <3>1. None \notin Statuses
      BY ServiceAssumption DEF ServiceAssumption
    <3> QED
      BY <1>1, <1>4, <2>1, <3>1 DEF Registered, TypeInv, Statuses
  <2>5. RereadInv' /\ QuitInv'
    BY <1>2, <2>1, <2>4 DEF OrphanInv, RereadInv, QuitInv
  <2> QED
    BY <1>4, <2>1, <2>3, <2>5 DEF OrphanInv
<1>6. CASE StopIdle \/ (StopKill /\ phase[cmd[it]] # "running") \/ StopDone
  <2>1. Quiet(it)
    BY <1>1, <1>6, StopQuiet
  <2>2. PICK b \in BOOLEAN : Next1(Then(b))
    BY <1>6 DEF StopIdle, StopKill, StopDone
  <2>3. \/ UNCHANGED status
        \/ \E st \in {"stopped", "failed"} : status' = [status EXCEPT ![it] = st] /\ status[it] # None
    <3>1. None \notin Statuses
      BY ServiceAssumption DEF ServiceAssumption
    <3> QED
      BY <1>1, <1>6, <3>1 DEF StopIdle, StopKill, StopDone, LockInv, structs, Statuses
  <2>4. \A n \in Names : n # it => status'[n] = status[n]
    BY <1>1, <2>3 DEF TypeInv
  <2>5. NoOrphan'
    <3>1. \A p \in Procs : phase'[p] = "running" => phase[p] = "running" /\ owner[p] # it
      BY <1>2, <2>1 DEF Quiet
    <3> QED
      BY <1>1, <1>2, <2>4, <3>1, OrphanKept
  <2>6. it \in QuietNames'
    BY <1>4, <2>1 DEF QuietNames
  <2>7. /\ Then(b) \in Seq(Tasks) /\ Safe(Then(b), QuietNames')
        /\ \A i \in 1..Len(Then(b)) :
              /\ Then(b)[i].name = it /\ Then(b)[i].do \in {"drop", "add", "start"}
              /\ Then(b)[i].do \in Starters => head.do \in Starters
        /\ head.do \in {"stop", "quit", "halt"} => Then(b) = <<>>
    BY <1>1, <1>3, <2>6, SafeThen
  <2>8. Safe(todo', QuietNames')
    BY <1>1, <1>3, <1>4, <2>2, <2>6, <2>7, SafeNext DEF OrphanInv
  <2>9. RereadInv'
    <3>1. \A n \in Names : n \in Registered' => n \in Registered
      BY <1>1, <2>3, <2>4 DEF Registered
    <3>2. head.do # "start"
      BY <1>3 DEF StopKinds
    <3> QED
      BY <1>1, <1>2, <1>3, <2>2, <2>7, <3>1, <3>2, RereadNext DEF OrphanInv
  <2>10. QuitInv'
    <3>1. \A p \in Procs : phase'[p] = "running" => phase[p] = "running" /\ owner[p] # it
      BY <1>2, <2>1 DEF Quiet
    <3>2. \A i \in 1..Len(Then(b)) : Then(b)[i].do # "quit"
      BY <2>7
    <3> QED
      BY <1>1, <1>2, <1>3, <2>2, <2>7, <3>1, <3>2, QuitNext DEF OrphanInv
  <2> QED
    BY <2>5, <2>8, <2>9, <2>10
<1> QED
  BY <1>5, <1>6

\* The tasks that change a struct or put up a start find the service quiet.
LEMMA TaskOrphan ==
  ASSUME OrphanInv, Drop \/ Add \/ Reset \/ Boot \/ StartFails
  PROVE  NoOrphan' /\ Safe(todo', QuietNames') /\ RereadInv' /\ QuitInv'
<1>1. TypeInv /\ StructInv /\ NoOrphan /\ RereadInv /\ QuitInv
  BY DEF OrphanInv, BaseInv
<1>2. /\ todo # <<>> /\ head.do \in {"drop", "add", "fresh", "reset", "boot", "start"}
      /\ UNCHANGED <<phase, owner, reread>>
  BY DEF Drop, Add, Reset, Boot, StartFails, procs, structs
<1>3. it \in Names /\ Quiet(it) /\ head.do \in Needy
  BY <1>1, <1>2, HeadTask, HeadQuiet DEF OrphanInv, Needy
<1>4. QuietNames' = QuietNames /\ it \in QuietNames
  BY <1>2, <1>3 DEF QuietNames, Quiet
<1>0. PICK c \in Texts : \E s \in {<<>>, <<Task("start", it, c)>>} :
        Next1(s) /\ (s # <<>> => head.do \in {"add", "boot"})
  <2>1. head.config \in Texts /\ config[it] \in Texts
    BY <1>1, <1>2, <1>3, HeadTask DEF TypeInv
  <2> QED
    BY <2>1 DEF Drop, Add, Reset, Boot, StartFails
<1>5. PICK s \in {<<>>, <<Task("start", it, c)>>} : Next1(s) /\ (s # <<>> => head.do \in {"add", "boot"})
  BY <1>0
<1>6. s \in Seq(Tasks) /\ Safe(s, QuietNames) /\ \A i \in 1..Len(s) : s[i].name = it /\ s[i].do = "start"
  <2>1. Task("start", it, c) \in Tasks /\ Task("start", it, c).name = it /\ Task("start", it, c).do = "start"
    BY <1>3 DEF Task, Tasks, Kinds
  <2>2. s = <<>> \/ s = <<Task("start", it, c)>>
    BY <1>5
  <2> DEFINE t == Task("start", it, c)
  <2> HIDE DEF t
  <2>3. t \in Tasks /\ t.name = it /\ t.do = "start" /\ (s = <<>> \/ s = <<t>>)
    BY <2>1, <2>2 DEF t
  <2>4. Safe(s, QuietNames)
    BY <1>4, <2>3, SafeShort
  <2>5. CASE s = <<>>
    <3>1. <<>> \in Seq(Tasks) /\ \A i \in 1..Len(<<>>) : FALSE
      OBVIOUS
    <3> QED
      BY <2>4, <2>5, <3>1
  <2>6. CASE s = <<t>>
    <3>1. <<t>> \in Seq(Tasks)
      BY <2>3
    <3>2. \A i \in 1..Len(<<t>>) : <<t>>[i] = t
      OBVIOUS
    <3> QED
      BY <2>3, <2>4, <2>6, <3>1, <3>2
  <2> QED
    BY <2>3, <2>5, <2>6
<1>7. NoOrphan'
  <2>1. \A n \in Names : n # it => cmd'[n] = cmd[n] /\ status'[n] = status[n]
    BY <1>1 DEF TypeInv, Drop, Add, Reset, Boot, StartFails, Fill, structs
  <2>2. \A p \in Procs : owner[p] # it => link'[p] = link[p]
    BY DEF Drop, Add, Reset, Boot, StartFails, Fill, Detach, procs
  <2>3. \A p \in Procs : phase'[p] = "running" => phase[p] = "running" /\ owner[p] # it
    BY <1>2, <1>3 DEF Quiet
  <2> QED
    BY <1>1, <1>2, <2>1, <2>2, <2>3, OrphanKept
<1>8. Safe(todo', QuietNames')
  <2>1. head.do \notin StopKinds /\ Safe(todo, QuietNames)
    BY <1>2 DEF StopKinds, OrphanInv
  <2>2. \A i \in 1..Len(s) : s[i].name = it /\ (s[i].do \in Starters => head.do \in Starters)
    BY <1>5, <1>6 DEF Starters
  <2> QED
    BY <1>1, <1>2, <1>4, <1>5, <1>6, <2>1, <2>2, SafeNext
<1>9. RereadInv'
  <2>1. head.do \in {"start", "stop", "quit"} => s = <<>>
    BY <1>5
  <2>2. \A n \in Names : n \in Registered' => n \in Registered \/ (n = it /\ head.do = "start")
                                               \/ head.do \notin {"start", "stop", "quit"}
    <3> SUFFICES ASSUME head.do = "start", NEW n \in Names, n # it PROVE status'[n] = status[n]
      BY <1>2 DEF Registered
    <3> QED
      BY <1>1 DEF Drop, Add, Reset, Boot, StartFails, TypeInv
  <2> QED
    BY <1>1, <1>2, <1>5, <1>6, <2>1, <2>2, RereadNext
<1>10. QuitInv'
  <2>1. head.do # "quit" /\ \A i \in 1..Len(s) : s[i].do # "quit"
    BY <1>2, <1>6
  <2> QED
    BY <1>1, <1>2, <1>5, <1>6, <2>1, QuitNext
<1> QED
  BY <1>7, <1>8, <1>9, <1>10

LEMMA StartOrphan ==
  ASSUME OrphanInv, NEW p \in Procs, Start(p)
  PROVE  NoOrphan' /\ Safe(todo', QuietNames') /\ RereadInv' /\ QuitInv'
<1>1. TypeInv /\ StructInv /\ NoOrphan /\ RereadInv /\ QuitInv
  BY DEF OrphanInv, BaseInv
<1>2. /\ todo # <<>> /\ head.do = "start" /\ phase[p] = "new"
      /\ status' = [status EXCEPT ![it] = "running"] /\ cmd' = [cmd EXCEPT ![it] = p]
      /\ phase' = [phase EXCEPT ![p] = "running"] /\ owner' = [owner EXCEPT ![p] = it]
      /\ link' = link /\ reread' = reread /\ Next1(<<>>)
  BY DEF Start
<1>3. it \in Names /\ Quiet(it)
  BY <1>1, <1>2, HeadTask, HeadQuiet DEF OrphanInv, Needy
<1>4. \A q \in Procs : /\ q # p => phase'[q] = phase[q] /\ owner'[q] = owner[q]
                       /\ q = p => owner'[q] = it
  BY <1>1, <1>2 DEF TypeInv
<1>5. \A n \in Names : /\ n # it => status'[n] = status[n] /\ cmd'[n] = cmd[n]
                       /\ n = it => status'[n] = "running" /\ cmd'[n] = p
  BY <1>1, <1>2 DEF TypeInv
<1>6. NoOrphan'
  <2> SUFFICES ASSUME NEW q \in Procs, phase'[q] = "running"
               PROVE  link[q] = "table" /\ cmd'[owner'[q]] = q /\ status'[owner'[q]] \in {"running", "stopping"}
    BY <1>2 DEF NoOrphan
  <2>1. CASE q = p
    <3>1. link[p] = "table"
      BY <1>1, <1>2 DEF StructInv
    <3> QED
      BY <1>3, <1>4, <1>5, <2>1, <3>1
  <2>2. CASE q # p
    <3>1. phase[q] = "running" /\ owner'[q] = owner[q] /\ owner[q] # it
      BY <1>3, <1>4, <2>2 DEF Quiet
    <3>2. owner[q] \in Names
      BY <1>1, <3>1 DEF StructInv
    <3>3. link[q] = "table" /\ cmd[owner[q]] = q /\ status[owner[q]] \in {"running", "stopping"}
      BY <1>1, <3>1 DEF NoOrphan
    <3> QED
      BY <1>5, <3>1, <3>2, <3>3
  <2> QED
    BY <2>1, <2>2
<1>7. QuietNames \subseteq QuietNames' \cup {it}
  <2> SUFFICES ASSUME NEW n \in QuietNames, n # it, NEW q \in Procs, phase'[q] = "running"
               PROVE  owner'[q] # n
    BY DEF QuietNames, Quiet
  <2> QED
    BY <1>4 DEF QuietNames, Quiet
<1>8. PICK s \in Seq(Tasks) : s = <<>>
  <2>1. <<>> \in Seq(Tasks)
    OBVIOUS
  <2> QED
    BY <2>1
<1>12. Safe(s, QuietNames') /\ Next1(s) /\ \A i \in 1..Len(s) : FALSE
  BY <1>2, <1>8 DEF Safe
<1>9. Safe(todo', QuietNames')
  <2>1. Safe(todo, QuietNames)
    BY DEF OrphanInv
  <2> QED
    BY <1>1, <1>2, <1>7, <1>12, <2>1, SafeNext
<1>10. RereadInv'
  <2>1. \A n \in Names : n \in Registered' => n \in Registered \/ (n = it /\ head.do = "start")
    BY <1>2, <1>5 DEF Registered
  <2> QED
    BY <1>1, <1>2, <1>8, <1>12, <2>1, RereadNext
<1>11. QuitInv'
  BY <1>1, <1>2, <1>12, QuitNext
<1> QED
  BY <1>6, <1>9, <1>10, <1>11

\* What processes and their goroutines do.
LEMMA ProcessOrphan ==
  ASSUME OrphanInv, NEW p \in Procs, Process(p)
  PROVE  NoOrphan' /\ Safe(todo', QuietNames') /\ RereadInv' /\ QuitInv'
<1>1. TypeInv /\ StructInv /\ NoOrphan /\ RereadInv /\ QuitInv
  BY DEF OrphanInv, BaseInv
<1>2. UNCHANGED <<owner, link, cmd, reread, todo>>
  BY DEF Process, Exit, Signal, Settle, Report, OpenFD, RegisterProxy, Ask, Serve, procs, structs
<1>3. \A q \in Procs : phase'[q] = "running" => phase[q] = "running"
  BY <1>1 DEF TypeInv, Process, Exit, Signal, Settle, Report, OpenFD, RegisterProxy, Ask, Serve, procs
<1>4. \/ UNCHANGED status
      \/ /\ status' = [status EXCEPT ![owner[p]] = "stopped"]
         /\ stopCh[owner[p]] = p /\ phase[p] = "signalled"
  BY DEF Process, Exit, Signal, Settle, Report, OpenFD, RegisterProxy, Ask, Serve, structs, IsActive
<1>5. \A n \in Names : status'[n] = status[n] \/ (status[n] # None /\ Quiet(n))
  <2> SUFFICES ASSUME NEW n \in Names, status'[n] # status[n] PROVE status[n] # None /\ Quiet(n)
    OBVIOUS
  <2>1. n = owner[p] /\ stopCh[n] = p /\ phase[p] = "signalled"
    BY <1>1, <1>4 DEF TypeInv
  <2>2. status[n] # None
    BY <1>1, <2>1, ServiceAssumption DEF StructInv, ServiceAssumption
  <2>3. Quiet(n)
    <3> SUFFICES ASSUME NEW q \in Procs, phase[q] = "running", owner[q] = n PROVE FALSE
      BY DEF Quiet
    <3>1. cmd[n] = q
      BY <1>1 DEF NoOrphan
    <3>2. stopCh[n] = q
      BY <1>1, <3>1 DEF StructInv
    <3> QED
      BY <2>1, <3>2
  <2> QED
    BY <2>2, <2>3
<1>6. NoOrphan'
  <2> SUFFICES ASSUME NEW q \in Procs, phase'[q] = "running"
               PROVE  link[q] = "table" /\ cmd[owner[q]] = q /\ status'[owner[q]] \in {"running", "stopping"}
    BY <1>2 DEF NoOrphan
  <2>1. phase[q] = "running"
    BY <1>3
  <2>2. owner[q] \in Names /\ ~Quiet(owner[q])
    BY <1>1, <2>1 DEF StructInv, Quiet
  <2> QED
    BY <1>1, <1>5, <2>1, <2>2 DEF NoOrphan
<1>7. Safe(todo', QuietNames')
  <2>1. QuietNames \subseteq QuietNames' /\ Safe(todo, QuietNames)
    BY <1>2, <1>3, QuietKept DEF OrphanInv
  <2> QED
    BY <1>2, <2>1, SafeMore
<1>8. RereadInv'
  <2> SUFFICES ASSUME reread # None PROVE RereadInv'
    BY <1>2 DEF RereadInv
  <2>1. reread.added \in SUBSET Names
    BY <1>1 DEF TypeInv
  <2>2. Registered' \subseteq Registered
    BY <1>5 DEF Registered
  <2> QED
    BY <1>1, <1>2, <2>2 DEF RereadInv
<1>9. QuitInv'
  BY <1>1, <1>2, <1>3 DEF QuitInv
<1> QED
  BY <1>6, <1>7, <1>8, <1>9

NoQuit(s) == \A i \in 1..Len(s) : s[i].do # "quit"

LEMMA QuitConcat ==
  ASSUME NEW s \in Seq(Tasks), NEW r \in Seq(Tasks), NoQuit(s), NoQuit(r) PROVE NoQuit(s \o r)
<1> SUFFICES ASSUME NEW i \in 1..Len(s \o r) PROVE (s \o r)[i].do # "quit"
  BY DEF NoQuit
<1>1. \/ i \in 1..Len(s) /\ (s \o r)[i] = s[i]
      \/ i - Len(s) \in 1..Len(r) /\ (s \o r)[i] = r[i - Len(s)]
  BY ConcatAt
<1> QED
  BY <1>1 DEF NoQuit

\* Nobody is stopping while the lock is free: what is not running is quiet.
LEMMA FreeQuiet ==
  ASSUME OrphanInv, Free, NEW n \in Names, status[n] # "running"
  PROVE  Quiet(n)
<1>1. status[n] # "stopping"
  BY DEF OrphanInv, BaseInv, LockInv, Free
<1> QED
  BY <1>1 DEF OrphanInv, NoOrphan, Quiet

NoStarter(s) == \A i \in 1..Len(s) : s[i].do \notin Starters

\* Behind tasks that stop every service, tasks of one kind may do what they like.
LEMMA SafeAppend ==
  ASSUME NEW s \in Seq(Tasks), NEW r, NEW Q, NEW ns \in SUBSET Names, NEW d \in Kinds,
         Safe(s, Q), Names \subseteq Q \cup Stops(s), NoStarter(s), Lists(r, ns, d)
  PROVE  /\ s \o r \in Seq(Tasks) /\ Safe(s \o r, Q) /\ Names \subseteq Q \cup Stops(s \o r)
         /\ d \notin Starters => NoStarter(s \o r)
<1>1. r \in Seq(Tasks) /\ \A i \in 1..Len(r) : r[i].do = d
  BY DEF Lists
<1>2. s \o r \in Seq(Tasks)
  BY <1>1, ConcatTasks
<1>3. Safe(s \o r, Q)
  <2>1. Safe(r, Q \cup Stops(s))
    <3>1. ns \subseteq Q \cup Stops(s)
      OBVIOUS
    <3> QED
      BY <3>1, ListSafe
  <2> QED
    BY <1>1, <2>1, SafeConcat DEF NoStarter
<1>4. Stops(s) \subseteq Stops(s \o r)
  <2> SUFFICES ASSUME NEW n \in Names, NEW i \in 1..Len(s), s[i].name = n, s[i].do \in StopKinds
               PROVE  \E j \in 1..Len(s \o r) : (s \o r)[j].name = n /\ (s \o r)[j].do \in StopKinds
    BY DEF Stops
  <2>1. i \in 1..Len(s \o r) /\ (s \o r)[i] = s[i]
    BY <1>1, ConcatAt
  <2> QED
    BY <2>1
<1>5. ASSUME d \notin Starters PROVE NoStarter(s \o r)
  <2> SUFFICES ASSUME NEW i \in 1..Len(s \o r) PROVE (s \o r)[i].do \notin Starters
    BY DEF NoStarter
  <2>1. \/ i \in 1..Len(s) /\ (s \o r)[i] = s[i]
        \/ i - Len(s) \in 1..Len(r) /\ (s \o r)[i] = r[i - Len(s)]
    BY <1>1, ConcatAt
  <2> QED
    BY <1>1, <1>5, <2>1 DEF NoStarter
<1> QED
  BY <1>2, <1>3, <1>4, <1>5

LEMMA ReloadSafe ==
  ASSUME OrphanInv, Reload
  PROVE  Safe(todo', QuietNames) /\ \A i \in 1..Len(todo') : todo'[i].do # "quit"
<1>1. /\ TypeInv /\ Free /\ Running \in SUBSET Names
      /\ reread.removed \in SUBSET Names /\ reread.updated \in SUBSET Names
      /\ reread.added \in SUBSET Names
  BY DEF OrphanInv, BaseInv, TypeInv, Reload, Begin, Running, Registered
<1>2. PICK stp, rem, upd, add, run :
        /\ Lists(stp, Running, "halt") /\ Lists(rem, reread.removed, "drop")
        /\ Lists(upd, reread.updated, "reset") /\ Lists(add, reread.added, "fresh")
        /\ Lists(run, Names, "boot") /\ todo' = stp \o rem \o upd \o add \o run
  BY <1>1, ReloadTasks
<1>3. {"halt", "drop", "reset", "fresh", "boot"} \subseteq Kinds /\ "halt" \in StopKinds
      /\ "halt" \notin Starters /\ "drop" \notin Starters /\ "reset" \notin Starters
      /\ "fresh" \notin Starters /\ "halt" \notin Needy
  BY DEF Kinds, StopKinds, Starters, Needy
<1>4. stp \in Seq(Tasks) /\ Safe(stp, QuietNames) /\ NoStarter(stp)
  <2>1. Safe(stp, QuietNames)
    BY <1>2, <1>3, ListSafe
  <2> QED
    BY <1>2, <1>3, <2>1 DEF Lists, NoStarter
<1>5. Names \subseteq QuietNames \cup Stops(stp)
  <2> SUFFICES ASSUME NEW n \in Names, n \notin QuietNames PROVE n \in Stops(stp)
    OBVIOUS
  <2>1. status[n] = "running" /\ n \in Running
    <3>1. status[n] = "running"
      BY <1>1, FreeQuiet DEF QuietNames
    <3>2. None # "running"
      BY ServiceAssumption DEF ServiceAssumption, Statuses
    <3> QED
      BY <3>1, <3>2 DEF Running, Registered
  <2>2. PICK i \in 1..Len(stp) : stp[i].name = n
    BY <1>2, <2>1 DEF Lists
  <2>3. stp[i].do = "halt"
    BY <1>2 DEF Lists
  <2> QED
    BY <1>3, <2>2, <2>3 DEF Stops
<1>6. /\ stp \o rem \in Seq(Tasks) /\ Safe(stp \o rem, QuietNames)
      /\ Names \subseteq QuietNames \cup Stops(stp \o rem) /\ NoStarter(stp \o rem)
  BY <1>1, <1>2, <1>3, <1>4, <1>5, SafeAppend
<1>7. /\ stp \o rem \o upd \in Seq(Tasks) /\ Safe(stp \o rem \o upd, QuietNames)
      /\ Names \subseteq QuietNames \cup Stops(stp \o rem \o upd) /\ NoStarter(stp \o rem \o upd)
  BY <1>1, <1>2, <1>3, <1>6, SafeAppend
<1>8. /\ stp \o rem \o upd \o add \in Seq(Tasks) /\ Safe(stp \o rem \o upd \o add, QuietNames)
      /\ Names \subseteq QuietNames \cup Stops(stp \o rem \o upd \o add)
      /\ NoStarter(stp \o rem \o upd \o add)
  BY <1>1, <1>2, <1>3, <1>7, SafeAppend
<1>9. Safe(todo', QuietNames)
  BY <1>1, <1>2, <1>3, <1>8, SafeAppend
<1>10. NoQuit(stp) /\ NoQuit(rem) /\ NoQuit(upd) /\ NoQuit(add) /\ NoQuit(run)
       /\ rem \in Seq(Tasks) /\ upd \in Seq(Tasks) /\ add \in Seq(Tasks) /\ run \in Seq(Tasks)
  BY <1>2 DEF NoQuit, Lists
<1>11. NoQuit(todo')
  <2>1. NoQuit(stp \o rem)
    BY <1>4, <1>10, QuitConcat
  <2>2. NoQuit(stp \o rem \o upd)
    BY <1>6, <1>10, <2>1, QuitConcat
  <2>3. NoQuit(stp \o rem \o upd \o add)
    BY <1>7, <1>10, <2>2, QuitConcat
  <2> QED
    BY <1>2, <1>8, <1>10, <2>3, QuitConcat
<1> QED
  BY <1>9, <1>11 DEF NoQuit

LEMMA UpdateSafe ==
  ASSUME OrphanInv, Update
  PROVE  Safe(todo', QuietNames) /\ \A i \in 1..Len(todo') : todo'[i].do # "quit"
<1>1. /\ TypeInv /\ Free /\ RereadInv /\ reread # None
      /\ reread.removed \in SUBSET Names /\ reread.updated \in SUBSET Names
      /\ reread.added \in SUBSET Names
  BY DEF OrphanInv, BaseInv, TypeInv, Update, Begin
<1>2. PICK rem, upd, add :
        /\ Lists(rem, reread.removed, "remove") /\ Lists(upd, reread.updated, "update")
        /\ Lists(add, reread.added, "add") /\ todo' = rem \o upd \o add
  BY <1>1, UpdateTasks
<1>3. "remove" \notin Needy /\ "update" \notin Needy /\ "remove" \notin Starters
  BY DEF Needy, Starters
<1>4. rem \in Seq(Tasks) /\ upd \in Seq(Tasks) /\ add \in Seq(Tasks) /\ rem \o upd \in Seq(Tasks)
  BY <1>2, ConcatTasks DEF Lists
<1>5. reread.added \subseteq QuietNames
  <2> SUFFICES ASSUME NEW n \in reread.added PROVE n \in QuietNames
    OBVIOUS
  <2>1. n \in Names /\ status[n] = None
    BY <1>1 DEF RereadInv, Registered
  <2>2. status[n] # "running"
    BY <2>1, ServiceAssumption DEF ServiceAssumption, Statuses
  <2> QED
    BY <1>1, <2>1, <2>2, FreeQuiet DEF QuietNames
<1>6. Safe(rem, QuietNames) /\ Safe(upd, QuietNames \cup Stops(rem))
      /\ Safe(add, QuietNames \cup Stops(rem \o upd))
  <2>1. Safe(rem, QuietNames)
    BY <1>2, <1>3, ListSafe
  <2>2. Safe(upd, QuietNames \cup Stops(rem))
    BY <1>2, <1>3, ListSafe
  <2>3. reread.added \subseteq QuietNames \cup Stops(rem \o upd)
    BY <1>5
  <2>4. Safe(add, QuietNames \cup Stops(rem \o upd))
    BY <1>2, <2>3, ListSafe
  <2> QED
    BY <2>1, <2>2, <2>4
<1>7. /\ \A i \in 1..Len(rem) : rem[i].do = "remove"
      /\ \A i \in 1..Len(upd) : upd[i].do = "update" /\ upd[i].name \in reread.updated
      /\ \A i \in 1..Len(add) : add[i].do = "add" /\ add[i].name \in reread.added
  BY <1>2 DEF Lists
<1>8. Safe(rem \o upd, QuietNames)
  BY <1>3, <1>4, <1>6, <1>7, SafeConcat
<1>9. \A i \in 1..Len(rem \o upd) :
        (rem \o upd)[i].do = "remove" \/ ((rem \o upd)[i].do = "update" /\ (rem \o upd)[i].name \in reread.updated)
  <2> SUFFICES ASSUME NEW i \in 1..Len(rem \o upd)
               PROVE  \/ (rem \o upd)[i].do = "remove"
                      \/ (rem \o upd)[i].do = "update" /\ (rem \o upd)[i].name \in reread.updated
    OBVIOUS
  <2>1. \/ i \in 1..Len(rem) /\ (rem \o upd)[i] = rem[i]
        \/ i - Len(rem) \in 1..Len(upd) /\ (rem \o upd)[i] = upd[i - Len(rem)]
    BY <1>4, ConcatAt
  <2> QED
    BY <1>7, <2>1
<1>10. Safe(todo', QuietNames)
  <2> DEFINE s == rem \o upd
  <2>1. reread.added \cap reread.updated = {}
    BY <1>1 DEF RereadInv
  <2>2. \A i \in 1..Len(s), j \in 1..Len(add) :
          s[i].do \in Starters /\ add[j].do \in Needy => s[i].name # add[j].name
    BY <1>3, <1>7, <1>9, <2>1
  <2> HIDE DEF s
  <2>3. Safe(s \o add, QuietNames)
    BY <1>4, <1>6, <1>8, <2>2, SafeConcat DEF s
  <2> QED
    BY <1>2, <2>3 DEF s
<1>11. NoQuit(todo')
  <2>1. NoQuit(rem) /\ NoQuit(upd) /\ NoQuit(add)
    BY <1>7 DEF NoQuit
  <2>2. NoQuit(rem \o upd)
    BY <1>4, <2>1, QuitConcat
  <2> QED
    BY <1>2, <1>4, <2>1, <2>2, QuitConcat
<1> QED
  BY <1>10, <1>11 DEF NoQuit

\* What administrators ask for, one request at a time.
LEMMA RequestOrphan ==
  ASSUME Orderly, OrphanInv, Request
  PROVE  NoOrphan' /\ Safe(todo', QuietNames') /\ RereadInv' /\ QuitInv'
<1>1. TypeInv /\ LockInv /\ NoOrphan /\ RereadInv /\ QuitInv /\ Safe(todo, QuietNames)
  BY DEF OrphanInv, BaseInv
<1>2. UNCHANGED <<structs, procs>>
  BY DEF Request, StartService, StopService, Install, Uninstall, Edit, ReadDisk, ReadDiff, Update, Reload,
         Shutdown, Begin
<1>3. NoOrphan' /\ QuietNames' = QuietNames /\ Registered' = Registered
  <2>1. NoOrphan'
    BY <1>1, <1>2 DEF NoOrphan, structs, procs
  <2>2. QuietNames' = QuietNames /\ Registered' = Registered
    BY <1>2 DEF QuietNames, Quiet, Registered, structs, procs
  <2> QED
    BY <2>1, <2>2
<1>4. CASE UNCHANGED <<todo, reread>>
  BY <1>1, <1>2, <1>3, <1>4 DEF RereadInv, QuitInv, procs
<1>5. ASSUME NEW n \in Names, StartService(n) PROVE Safe(todo', QuietNames) /\ RereadInv' /\ QuitInv'
  <2> DEFINE t == Task("start", n, config[n])
  <2>1. t.do = "start" /\ t.name = n
    BY DEF Task
  <2>2. n \in Registered /\ status[n] # "running" /\ Free /\ todo' = <<t>> /\ reread' = reread
    BY <1>5 DEF StartService, Begin, Orderly, Registered
  <2> HIDE DEF t
  <2>3. Safe(todo', QuietNames)
    BY <2>1, <2>2, FreeQuiet, SafeShort DEF QuietNames
  <2>4. \A i \in 1..Len(todo') : todo'[i].do = "start" /\ todo'[i].name = n
    BY <2>1, <2>2
  <2> QED
    BY <1>1, <1>3, <2>2, <2>3, <2>4 DEF RereadInv, QuitInv
<1>6. ASSUME NEW n \in Names, StopService(n) PROVE Safe(todo', QuietNames) /\ RereadInv' /\ QuitInv'
  <2> DEFINE t == Task("stop", n, None)
  <2>1. t.do = "stop" /\ todo' = <<t>> /\ reread' = reread
    BY <1>6 DEF StopService, Begin, Task
  <2> HIDE DEF t
  <2>2. \A i \in 1..Len(todo') : todo'[i].do = "stop"
    BY <2>1
  <2> QED
    BY <1>1, <1>3, <2>1, <2>2 DEF RereadInv, QuitInv, Safe, Needy
<1>7. ASSUME NEW n \in Names, "install" \in Ops, Uninstall(n) \/ \E c \in Configs : Install(n, c)
      PROVE  Safe(todo', QuietNames) /\ RereadInv' /\ QuitInv'
  <2>1. reread' = reread /\ reread = None
    BY <1>1, <1>7 DEF Uninstall, Install, RereadInv, Orderly
  <2>2. \/ todo' = <<>>
        \/ \E t : todo' = <<t>> /\ t.do \in {"install", "remove"}
    <3>1. \A c : Task("install", n, c).do = "install" /\ Task("remove", n, c).do = "remove"
      BY DEF Task
    <3> QED
      BY <1>7, <3>1 DEF Uninstall, Install, Begin
  <2>3. \A i \in 1..Len(todo') : todo'[i].do \in {"install", "remove"}
    BY <2>2
  <2> QED
    BY <2>1, <2>3 DEF RereadInv, QuitInv, Safe, Needy
<1>8. ASSUME "reread" \in Ops, ReadDiff PROVE Safe(todo', QuietNames) /\ RereadInv' /\ QuitInv'
  <2>1. /\ todo = <<>> /\ todo' = todo /\ reread'.added = Found \ Registered
        /\ reread'.updated \subseteq Found \cap Registered
    BY <1>8 DEF ReadDiff, Free
  <2>2. \A i \in 1..Len(todo') : FALSE
    BY <2>1
  <2> QED
    BY <1>1, <1>3, <1>8, <2>1, <2>2 DEF RereadInv, QuitInv
<1>9. CASE Update \/ Reload
  <2>1. reread' = None
    BY <1>9 DEF Update, Reload
  <2> QED
    BY <1>3, <1>9, <2>1, UpdateSafe, ReloadSafe DEF RereadInv, QuitInv
<1>10. CASE Shutdown
  <2>1. Lists(todo', Registered, "quit") /\ reread' = reread
    BY <1>1, <1>10, ShutdownTasks DEF Shutdown
  <2>2. \A i \in 1..Len(todo') : todo'[i].do = "quit"
    BY <2>1 DEF Lists
  <2>3. ASSUME NEW p \in Procs, phase'[p] = "running" PROVE \E i \in 1..Len(todo') : todo'[i].name = owner'[p]
    <3>1. phase[p] = "running" /\ owner'[p] = owner[p]
      BY <1>2, <2>3 DEF procs
    <3>2. owner[p] \in Registered
      <4>1. owner[p] \in Names
        BY <3>1 DEF OrphanInv, BaseInv, StructInv
      <4>2. status[owner[p]] \in {"running", "stopping"}
        BY <1>1, <3>1 DEF NoOrphan
      <4> QED
        BY <4>1, <4>2, ServiceAssumption DEF Registered, ServiceAssumption, Statuses
    <3> QED
      BY <2>1, <3>1, <3>2 DEF Lists
  <2> QED
    BY <1>1, <1>3, <2>1, <2>2, <2>3 DEF RereadInv, QuitInv, Safe, Needy
<1>11. (\E n \in Names : Edit(n)) \/ ReadDisk => UNCHANGED <<todo, reread>>
  BY DEF Edit, ReadDisk
<1> QED
  BY <1>3, <1>4, <1>5, <1>6, <1>7, <1>8, <1>9, <1>10, <1>11 DEF Request

LEMMA InitOrphan == Init => OrphanInv
<1> SUFFICES ASSUME Init PROVE OrphanInv
  OBVIOUS
<1>1. todo = <<>> /\ reread = None /\ \A p \in Procs : phase[p] # "running"
  BY DEF Init
<1>2. \A i \in 1..Len(todo) : FALSE
  BY <1>1
<1> QED
  BY <1>1, <1>2, InitBase DEF OrphanInv, NoOrphan, Safe, RereadInv, QuitInv

LEMMA OrphanStep == ASSUME Orderly, OrphanInv, [Next]_vars PROVE OrphanInv'
<1>1. BaseInv'
  BY BaseStep DEF OrphanInv
<1>2. CASE UNCHANGED vars
  <2>1. NoOrphan' /\ RereadInv' /\ QuitInv'
    BY <1>2 DEF OrphanInv, NoOrphan, RereadInv, QuitInv, Registered, vars, procs, structs
  <2>2. todo' = todo /\ QuietNames' = QuietNames
    BY <1>2 DEF QuietNames, Quiet, vars, procs
  <2> QED
    BY <1>1, <2>1, <2>2 DEF OrphanInv
<1>3. CASE Next
  BY <1>1, <1>3, RequestOrphan, StopOrphan, TaskOrphan, StartOrphan, ProcessOrphan DEF Next, Work, OrphanInv
<1> QED
  BY <1>2, <1>3

\* The last stop of a shutdown: every process that is left is of the service it stops.
LEMMA LastStop ==
  ASSUME OrphanInv, [Next]_vars, Len(todo) = 1, todo[1].do = "quit", todo' = <<>>, NEW p \in Procs
  PROVE  phase'[p] # "running"
<1>1. todo # <<>> /\ head.do = "quit" /\ it = todo[1].name
  <2>1. todo \in Seq(Tasks)
    BY DEF OrphanInv, BaseInv, TypeInv
  <2> QED
    BY <2>1 DEF head, it
<1>2. StopIdle \/ StopKill \/ StopDone
  <2>1. ~UNCHANGED todo
    BY <1>1
  <2>2. ~Request
    BY <1>1, <2>1 DEF Request, StartService, StopService, Install, Uninstall, Edit, ReadDisk, ReadDiff,
                      Update, Reload, Shutdown, Begin, Free
  <2>3. ~\E q \in Procs : Process(q)
    BY <2>1 DEF Process, Exit, Signal, Settle, Report, OpenFD, RegisterProxy, Ask, Serve
  <2>4. ~TaskStep
    BY <1>1 DEF TaskStep, Drop, Add, Reset, Boot, StartFails, Start
  <2> QED
    BY <2>1, <2>2, <2>3, <2>4 DEF Next, Work, TaskStep, vars
<1>3. Quiet(it)
  <2>1. StopKill => phase[cmd[it]] # "running"
    BY <1>1 DEF StopKill
  <2> QED
    BY <1>2, <2>1, StopQuiet DEF OrphanInv
<1> SUFFICES ASSUME phase'[p] = "running" PROVE FALSE
  OBVIOUS
<1>4. phase[p] = "running"
  BY <1>2, StopFrames
<1>5. PICK i \in 1..Len(todo) : todo[i].name = owner[p]
  <2>1. 1 \in 1..Len(todo)
    OBVIOUS
  <2> QED
    BY <1>4, <2>1 DEF OrphanInv, QuitInv
<1>6. owner[p] = it
  <2>1. i = 1
    OBVIOUS
  <2> QED
    BY <1>1, <1>5, <2>1
<1> QED
  BY <1>3, <1>4, <1>6 DEF Quiet

\* A process that runs is the one its service's entry knows, and shows: stops, updates,
\* reloads and deaths in any order leave no process behind that nobody can stop
\* (startServiceInstance, stopServiceInstance and the operations that call them).
THEOREM NoProcessOrphaned ==
  ASSUME Orderly PROVE Spec => []NoOrphan
<1>1. OrphanInv => NoOrphan
  BY DEF OrphanInv
<1>2. OrphanInv /\ [Next]_vars => OrphanInv'
  BY OrphanStep
<1> QED
  BY <1>1, <1>2, InitOrphan, PTL DEF Spec

\* When Controller.Stop returns, no child process is left.
THEOREM ShutdownIsComplete ==
  ASSUME Orderly PROVE Spec => ShutdownLeavesNone
<1>1. OrphanInv /\ [Next]_vars => OrphanInv'
  BY OrphanStep
<1>2. OrphanInv /\ [Next]_vars =>
        [Len(todo) = 1 /\ todo[1].do = "quit" /\ todo' = <<>> => \A p \in Procs : phase'[p] # "running"]_vars
  BY LastStop
<1> QED
  BY <1>1, <1>2, InitOrphan, PTL DEF Spec, ShutdownLeavesNone
=============================================================================
