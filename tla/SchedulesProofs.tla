-------------------------- MODULE SchedulesProofs --------------------------
(***************************************************************************)
(* For any number of management requests, entries, cron entries and        *)
(* subscriptions: a schedule runs exactly when its entry says so, nothing  *)
(* calls the task of an entry that says STOP, and whoever signals a        *)
(* subscription is answered.                                               *)
(***************************************************************************)
EXTENDS Schedules, TLAPS

Entries == 1..MaxEntry
States == {"STOP", "STOPPING", "STARTING", "RUNNING", "FAILED"}
LateStart == {"add", "bridgeOn", "subscribe", "running"}
LateStop == {"remove", "bridgeOff", "unsubscribe", "locked", "signal", "stopped", "check", "restore"}
AdminPcs == {"idle", "register", "unregister", "replace"} \cup StartPcs \cup StopPcs
FeedPcs == {"idle", "run", "ending"} \cup StopPcs
RunnerPcs == {"idle", "close", "sweep", "signal", "wait", "closed"}
Pcs == AdminPcs \cup FeedPcs \cup RunnerPcs

Acts == [pc : Pcs, ent : 0..MaxEntry, then : {"reply", "replace", "unlock", "delete", "next"},
         feed : 0..MaxFeed, prev : States, kind : {"TIMER", "NATS"}, start : BOOLEAN]
EntryRecs == [kind : {"none", "TIMER", "NATS"}, state : States, feed : 0..MaxFeed]
FeedRecs == [owner : 0..MaxEntry, live : BOOLEAN]
Bridges == [registered : BOOLEAN, alive : BOOLEAN, connected : BOOLEAN, todo : SUBSET Feeds]

KindOf(f) == IF feeds[f].owner = 0 THEN "none" ELSE entries[feeds[f].owner].kind

SchedType ==
  /\ act \in [Actors -> Acts]
  /\ entries \in [Entries -> EntryRecs]
  /\ feeds \in [Feeds -> FeedRecs]
  /\ registry \in 0..MaxEntry
  /\ type \in {"TIMER", "NATS"}
  /\ subscribers \subseteq Feeds
  /\ bridge \in Bridges

\* Which step each of them may be at.
RoleOf(a) ==
  /\ a \in Admins => act[a].pc \in AdminPcs /\ act[a].then # "next"
  /\ a \in Jobs \cup Feeds => act[a].pc \in FeedPcs /\ (act[a].pc \in StopPcs => act[a].then = "next")
  /\ a \in Jobs => act[a].pc # "ending"
  /\ a = Runner => act[a].pc \in RunnerPcs /\ act[a].then = "reply"

\* What a call works on.
CallOf(a) ==
  /\ act[a].pc \in StartPcs \cup StopPcs \cup {"run"} /\ a # Runner =>
       act[a].ent # 0 /\ entries[act[a].ent].kind # "none"
  /\ act[a].pc \in {"add", "remove", "check", "restore"} => entries[act[a].ent].kind = "TIMER"
  /\ act[a].pc = "run" => entries[act[a].ent].kind = IF a \in Jobs THEN "TIMER" ELSE "NATS"
  /\ act[a].pc \in {"bridgeOn", "subscribe", "bridgeOff", "unsubscribe", "locked"} =>
       entries[act[a].ent].kind = "NATS"
  /\ act[a].pc \in {"bridgeOff", "unsubscribe", "locked"} => entries[act[a].ent].feed # 0
  /\ act[a].pc = "running" => act[a].feed # 0 /\ feeds[act[a].feed].owner = act[a].ent
  /\ act[a].pc = "signal" => act[a].feed # 0 /\ KindOf(act[a].feed) = "NATS"
  /\ act[a].pc = "signal" /\ a # Runner => feeds[act[a].feed].owner = act[a].ent

\* Who holds registryLock, and for which entry.
LockOf(a) ==
  /\ act[a].pc \in {"idle", "register", "unregister", "replace"} /\ a \in Admins => act[a].then = "reply"
  /\ act[a].pc = "replace" => registryLock = a
  /\ act[a].pc \in StartPcs => act[a].then \in {"reply", "unlock"}
  /\ act[a].pc \in StopPcs => act[a].then # "unlock"
  /\ act[a].pc \in StartPcs \cup StopPcs /\ act[a].then \in {"unlock", "replace", "delete"} =>
       registryLock = a /\ act[a].ent = registry
  /\ act[a].then = "replace" => act[a].kind = "TIMER"

\* The goroutine of a subscription ends with it; a cron entry has none of its own.
FeedOf(a) ==
  a \in Feeds =>
    /\ feeds[a].owner = 0 => ~feeds[a].live /\ act[a].pc = "idle"
    /\ act[a].pc # "idle" => feeds[a].live /\ KindOf(a) = "NATS"
    /\ act[a].pc = "run" => act[a].ent = feeds[a].owner

Local(a) == RoleOf(a) /\ CallOf(a) /\ LockOf(a) /\ FeedOf(a)

\* An entry keeps the number of its own feed.
Owners ==
  /\ \A f \in Feeds : feeds[f].owner # 0 => entries[feeds[f].owner].kind # "none"
  /\ \A e \in Entries : entries[e].feed # 0 => feeds[entries[e].feed].owner = e
  /\ registry # 0 => entries[registry].kind # "none"
  /\ \A f \in subscribers \cup bridge.todo : KindOf(f) = "NATS"

BridgeInv ==
  /\ bridge.alive = bridge.registered
  /\ act[Runner].pc # "idle" => ~bridge.registered

SchedBase == SchedType /\ (\A a \in Actors : Local(a)) /\ Owners /\ BridgeInv

\* Whoever signals has the lock to itself, and the subscription it signals is not ending.
SignalInv ==
  /\ \A a \in Actors : act[a].pc = "signal" => subscriberLock = a
  /\ act[Runner].pc = "sweep" => subscriberLock = Runner
  /\ act[Runner].pc = "signal" => act[Runner].feed \notin bridge.todo
  /\ ~blockable =>
       /\ \A f \in Feeds : KindOf(f) = "NATS" => act[f].pc \in {"idle", "run", "ending"}
       /\ ~bridge.alive => \A f \in Feeds : KindOf(f) = "NATS" => act[f].pc # "run"
       /\ \A f \in Feeds : act[f].pc = "ending" =>
            /\ act[Runner].pc \in {"idle", "close"} => f \notin subscribers
            /\ act[Runner].pc \in {"sweep", "signal"} => f \notin bridge.todo
  /\ SignalAnswered

\* A Start that has begun is alone with its entry.
Alone(a) ==
  /\ act[a].ent = registry
  /\ entries[act[a].ent].state \in {"STARTING", "FAILED"}
  /\ \A b \in Actors \ {a, Runner} : act[b].ent = act[a].ent => act[b].pc \notin LateStart \cup LateStop
  /\ \A f \in Feeds : Feeding(f) /\ feeds[f].owner = act[a].ent => act[a].pc = "running" /\ f = act[a].feed
  /\ act[a].pc = "running" =>
       \E f \in Feeds : f = act[a].feed /\ Feeding(f) /\ entries[act[a].ent].feed # f
StartAlone == \A a \in Actors : act[a].pc \in LateStart => Alone(a)

\* A Stop that has begun brings its entry to STOP, when its feed no longer feeds.
StopWorks ==
  \A a \in Actors \ {Runner} : act[a].pc \in LateStop =>
    /\ entries[act[a].ent].state \notin {"RUNNING", "STARTING"}
    /\ act[a].pc \in {"stopped", "check", "restore"} => \A f \in Feeds : Feeding(f) => feeds[f].owner # act[a].ent
    /\ act[a].pc = "signal" => act[a].feed = entries[act[a].ent].feed

\* The entry that is replaced is not being started, and does not run.
Replaces ==
  \A a \in Actors :
    /\ act[a].pc = "replace" \/ (act[a].pc \in StopPcs /\ act[a].then = "replace") =>
         \A b \in Actors : act[b].pc \in StartPcs => act[b].ent # registry
    /\ act[a].pc = "replace" /\ act[a].kind = "TIMER" /\ registry # 0 => entries[registry].state # "RUNNING"

\* A feed that feeds is the one of an entry that is started, that runs, or that is being stopped.
Kept(f) ==
  \/ \E a \in Actors : act[a].pc = "running" /\ act[a].feed = f
  \/ /\ entries[feeds[f].owner].feed = f
     /\ \/ entries[feeds[f].owner].state = "RUNNING" /\ registry = feeds[f].owner
        \/ \E a \in Actors \ {Runner} :
             act[a].ent = feeds[f].owner /\ act[a].pc \in StopPcs \ {"stopped", "check", "restore"}

FeedsKept == \A f \in Feeds : Feeding(f) => Kept(f)

Runs == \A e \in Entries : entries[e].state = "RUNNING" => \E f \in Feeds : f = entries[e].feed /\ Feeding(f)

NoBridge ==
  ~bridge.registered =>
    /\ \A f \in Feeds : KindOf(f) = "NATS" => ~feeds[f].live
    /\ \A a \in Actors : act[a].pc # "subscribe"

\* Nothing calls the task of an entry that says STOP.
Silent == \A f \in Feeds : Feeding(f) => entries[feeds[f].owner].state # "STOP"

RunParts == StartAlone /\ StopWorks /\ Replaces /\ FeedsKept /\ Runs /\ NoBridge /\ Silent
RunInv == ~irregular => RunParts

SchedInv == SchedBase /\ SignalInv /\ RunInv
-----------------------------------------------------------------------------
(* The operators of the steps *)

Others(a) == \A b \in Actors : b # a => act'[b] = act[b]
Moves(a, p) ==
  /\ act' \in [Actors -> Acts] /\ Others(a) /\ act'[a].pc = p
  /\ act'[a].ent = act[a].ent /\ act'[a].then = act[a].then /\ act'[a].kind = act[a].kind
SameBut(a, p) == Moves(a, p) /\ act'[a].feed = act[a].feed

LEMMA Names ==
  /\ Feeds \subseteq Actors /\ Admins \subseteq Actors /\ Jobs \subseteq Actors /\ Runner \in Actors
  /\ Admins \cap Feeds = {} /\ Jobs \cap (Admins \cup Feeds) = {}
  /\ Runner \notin Admins \cup Jobs \cup Feeds /\ NoOne \notin Actors
  /\ MaxEntry \in Nat /\ MaxFeed \in Nat /\ 0 \notin Feeds /\ 0 \notin Entries
  /\ Entries = 1..MaxEntry /\ Feeds = 1..MaxFeed
  /\ \A a \in Actors : a \in Admins \/ a \in Jobs \/ a \in Feeds \/ a = Runner
BY SchedAssumption DEF SchedAssumption, Actors, Feeds, Entries

LEMMA IdleAct == Idle \in Acts /\ \A p \in Pcs : [Idle EXCEPT !.pc = p] \in Acts
<1>1. "idle" \in Pcs /\ 0 \in 0..MaxEntry /\ 0 \in 0..MaxFeed /\ "STOP" \in States
  BY Names DEF Pcs, AdminPcs, States
<1>2. Idle \in Acts
  BY <1>1 DEF Idle, Acts
<1>3. ASSUME NEW p \in Pcs PROVE [Idle EXCEPT !.pc = p] \in Acts
  BY <1>2 DEF Acts
<1> QED
  BY <1>2, <1>3

LEMMA ActSet ==
  ASSUME SchedType, NEW a \in Actors, NEW r \in Acts, act' = [act EXCEPT ![a] = r]
  PROVE  act' \in [Actors -> Acts] /\ Others(a) /\ act'[a] = r
BY DEF SchedType, Others

LEMMA GotoFacts ==
  ASSUME SchedType, NEW a \in Actors, NEW p \in Pcs, Goto(a, p)
  PROVE  SameBut(a, p)
<1> DEFINE r == [act[a] EXCEPT !.pc = p]
<1>1. act[a] \in Acts
  BY DEF SchedType
<1>2. /\ r \in Acts /\ r.pc = p /\ r.ent = act[a].ent /\ r.then = act[a].then
      /\ r.feed = act[a].feed /\ r.kind = act[a].kind
  BY <1>1 DEF Acts
<1>3. act' = [act EXCEPT ![a] = r]
  BY DEF Goto
<1> HIDE DEF r
<1> QED
  BY <1>2, <1>3, ActSet DEF SameBut, Moves

LEMMA SetStateFacts ==
  ASSUME SchedType, NEW e \in Entries, NEW s \in States, SetState(e, s)
  PROVE  /\ entries' \in [Entries -> EntryRecs]
         /\ entries'[e].state = s
         /\ \A x \in Entries : entries'[x].kind = entries[x].kind /\ entries'[x].feed = entries[x].feed
         /\ \A x \in Entries : x # e => entries'[x] = entries[x]
<1> DEFINE r == [entries[e] EXCEPT !.state = s]
<1>1. entries \in [Entries -> EntryRecs] /\ entries[e] \in EntryRecs
  BY DEF SchedType
<1>2. r \in EntryRecs /\ r.state = s /\ r.kind = entries[e].kind /\ r.feed = entries[e].feed
  BY <1>1 DEF EntryRecs
<1>3. entries' = [entries EXCEPT ![e] = r]
  BY DEF SetState
<1> HIDE DEF r
<1>4. entries' \in [Entries -> EntryRecs] /\ entries'[e] = r /\ \A x \in Entries : x # e => entries'[x] = entries[x]
  BY <1>1, <1>2, <1>3
<1> QED
  BY <1>2, <1>4

\* A feed that is made has not been there before.
LEMMA NewFeedFacts ==
  ASSUME SchedType, NEW a \in Actors, NEW p \in Pcs, NewFeed(a, p)
  PROVE  \E f \in FreeFeeds :
           /\ f \in Feeds /\ feeds[f].owner = 0
           /\ feeds' \in [Feeds -> FeedRecs] /\ feeds'[f].owner = act[a].ent /\ feeds'[f].live
           /\ \A x \in Feeds : x # f => feeds'[x] = feeds[x]
           /\ Moves(a, p) /\ act'[a].feed = f
<1>1. PICK f \in FreeFeeds :
        /\ feeds' = [feeds EXCEPT ![f] = [owner |-> act[a].ent, live |-> TRUE]]
        /\ act' = [act EXCEPT ![a].pc = p, ![a].feed = f]
  BY DEF NewFeed
<1>2. f \in Feeds /\ feeds[f].owner = 0 /\ f \in 0..MaxFeed
  BY <1>1, Names DEF FreeFeeds
<1> DEFINE r == [[act[a] EXCEPT !.pc = p] EXCEPT !.feed = f]
           d == [owner |-> act[a].ent, live |-> TRUE]
<1>3. act[a] \in Acts /\ act \in [Actors -> Acts] /\ feeds \in [Feeds -> FeedRecs]
  BY DEF SchedType
<1>4. /\ r \in Acts /\ r.pc = p /\ r.ent = act[a].ent /\ r.then = act[a].then
      /\ r.feed = f /\ r.kind = act[a].kind
  BY <1>2, <1>3 DEF Acts
<1>5. d \in FeedRecs /\ d.owner = act[a].ent /\ d.live = TRUE
  BY <1>3 DEF Acts, FeedRecs
<1>6. act' = [act EXCEPT ![a] = r]
  BY <1>1, <1>3
<1>7. feeds' = [feeds EXCEPT ![f] = d]
  BY <1>1
<1> HIDE DEF r, d
<1>8. act' \in [Actors -> Acts] /\ Others(a) /\ act'[a] = r
  BY <1>4, <1>6, ActSet
<1>9. feeds' \in [Feeds -> FeedRecs] /\ feeds'[f] = d /\ \A x \in Feeds : x # f => feeds'[x] = feeds[x]
  BY <1>2, <1>3, <1>5, <1>7
<1> QED
  BY <1>1, <1>2, <1>4, <1>5, <1>8, <1>9 DEF Moves

\* Where a goroutine goes on after a Start or a Stop.
LEMMA ReturnFacts ==
  ASSUME SchedType, NEW a \in Actors, NEW ok \in BOOLEAN, Return(a, ok)
  PROVE  /\ act' \in [Actors -> Acts] /\ Others(a)
         /\ act[a].then = "replace" /\ ok =>
              act'[a].pc = "replace" /\ act'[a].then = "reply" /\ act'[a].kind = act[a].kind
         /\ act[a].then = "next" =>
              act'[a].pc = AfterTask(a) /\ AfterTask(a) \in {"ending", "idle"} /\ act'[a].then = "reply"
         /\ act[a].then # "next" /\ ~(act[a].then = "replace" /\ ok) => act'[a].pc = "idle" /\ act'[a].then = "reply"
         /\ act[a].then \in {"unlock", "delete"} => registryLock' = NoOne
         /\ act[a].then = "replace" /\ ~ok => registryLock' = NoOne
         /\ act[a].then \in {"reply", "next"} \/ (act[a].then = "replace" /\ ok) => registryLock' = registryLock
         /\ act[a].then = "delete" => registry' = 0
         /\ act[a].then # "delete" => registry' = registry
<1>1. act[a] \in Acts
  BY DEF SchedType
<1>2. registryLock' = (IF act[a].then \in {"unlock", "delete"} \/ (act[a].then = "replace" /\ ~ok)
                       THEN NoOne ELSE registryLock)
  BY DEF Return
<1>3. registry' = (IF act[a].then = "delete" THEN 0 ELSE registry)
  BY DEF Return
<1>4. AfterTask(a) \in {"ending", "idle"}
  BY DEF AfterTask
<1>5. CASE act[a].then = "replace" /\ ok
  <2> DEFINE r == [[act[a] EXCEPT !.pc = "replace"] EXCEPT !.then = "reply"]
  <2>1. r \in Acts /\ r.pc = "replace" /\ r.then = "reply" /\ r.kind = act[a].kind
    BY <1>1 DEF Acts, Pcs, AdminPcs
  <2>2. act' = [act EXCEPT ![a] = r]
    BY <1>5 DEF Return
  <2> HIDE DEF r
  <2> QED
    BY <1>2, <1>3, <1>5, <2>1, <2>2, ActSet
<1>6. CASE act[a].then = "next"
  <2> DEFINE r == [Idle EXCEPT !.pc = AfterTask(a)]
  <2>1. r \in Acts /\ r.pc = AfterTask(a) /\ r.then = "reply"
    BY <1>4, IdleAct DEF Idle, Pcs, AdminPcs, FeedPcs
  <2>2. act' = [act EXCEPT ![a] = r]
    BY <1>6 DEF Return
  <2> HIDE DEF r
  <2> QED
    BY <1>2, <1>3, <1>4, <1>6, <2>1, <2>2, ActSet
<1>7. CASE act[a].then # "next" /\ ~(act[a].then = "replace" /\ ok)
  <2>1. Idle \in Acts /\ Idle.pc = "idle" /\ Idle.then = "reply"
    BY IdleAct DEF Idle
  <2>2. act' = [act EXCEPT ![a] = Idle]
    BY <1>7 DEF Return
  <2> QED
    BY <1>2, <1>3, <1>7, <2>1, <2>2, ActSet
<1> QED
  BY <1>5, <1>6, <1>7
-----------------------------------------------------------------------------
(* Locks, owners and calls *)

\* Entries and feeds are made and kept.
EntriesGrow ==
  /\ entries' \in [Entries -> EntryRecs]
  /\ \A e \in Entries :
       /\ entries[e].kind # "none" => entries'[e].kind = entries[e].kind
       /\ entries[e].feed # 0 => entries'[e].feed # 0
       /\ entries'[e].feed = entries[e].feed \/ (entries'[e].feed # 0 /\ feeds'[entries'[e].feed].owner = e)

FeedsGrow(a) ==
  /\ feeds' \in [Feeds -> FeedRecs]
  /\ \A f \in Feeds :
       /\ feeds[f].owner # 0 => /\ feeds'[f].owner = feeds[f].owner
                                /\ feeds'[f] = feeds[f] \/ f = a \/ KindOf(f) = "TIMER"
       /\ feeds[f].owner = 0 => \/ feeds'[f] = feeds[f]
                                \/ feeds'[f].owner # 0 /\ entries'[feeds'[f].owner].kind # "none"

LEMMA KindKept ==
  ASSUME SchedType, Owners, NEW a, EntriesGrow, FeedsGrow(a), NEW f \in Feeds, feeds[f].owner # 0
  PROVE  KindOf(f)' = KindOf(f) /\ KindOf(f) \in {"TIMER", "NATS"} /\ feeds'[f].owner = feeds[f].owner
<1>1. feeds[f].owner \in Entries /\ feeds'[f].owner = feeds[f].owner
  BY Names DEF SchedType, FeedRecs, FeedsGrow
<1>2. entries[feeds[f].owner].kind # "none" /\ entries[feeds[f].owner] \in EntryRecs
  BY <1>1 DEF SchedType, Owners
<1>3. entries'[feeds[f].owner].kind = entries[feeds[f].owner].kind
  BY <1>1, <1>2 DEF EntriesGrow
<1>4. entries[feeds[f].owner].kind \in {"TIMER", "NATS"}
  BY <1>2 DEF EntryRecs
<1> QED
  BY <1>1, <1>3, <1>4 DEF KindOf

\* What another one does leaves a call as it is.
LEMMA OthersKept ==
  ASSUME SchedBase, NEW a, EntriesGrow, FeedsGrow(a), NEW b \in Actors, b # a, act'[b] = act[b],
         registryLock # b \/ UNCHANGED <<registryLock, registry>>
  PROVE  Local(b)'
<1>1. Local(b) /\ SchedType /\ Owners /\ act[b] \in Acts
  BY DEF SchedBase, SchedType
<1>2. RoleOf(b)'
  BY <1>1 DEF Local, RoleOf
<1>3. LockOf(b)'
  BY <1>1 DEF Local, LockOf
<1>4. CallOf(b)'
  <2>1. act[b].ent # 0 => act[b].ent \in Entries
    BY <1>1, Names DEF Acts
  <2>2. act[b].feed # 0 => act[b].feed \in Feeds
    BY <1>1, Names DEF Acts
  <2>3. act[b].ent # 0 /\ entries[act[b].ent].kind # "none" => entries'[act[b].ent].kind = entries[act[b].ent].kind
    BY <2>1 DEF EntriesGrow
  <2>4. act[b].ent # 0 /\ entries[act[b].ent].feed # 0 => entries'[act[b].ent].feed # 0
    BY <2>1 DEF EntriesGrow
  <2>5. act[b].feed # 0 /\ feeds[act[b].feed].owner # 0 =>
          feeds'[act[b].feed].owner = feeds[act[b].feed].owner /\ KindOf(act[b].feed)' = KindOf(act[b].feed)
    BY <1>1, <2>2, KindKept
  <2>6. b # Runner \/ act[b].pc \in RunnerPcs
    BY <1>1 DEF Local, RoleOf
  <2> QED
    BY <1>1, <2>3, <2>4, <2>5, <2>6 DEF Local, CallOf, RunnerPcs, StartPcs, StopPcs, KindOf
<1>5. FeedOf(b)'
  <2>1. CASE b \in Feeds /\ feeds[b].owner # 0
    <3>1. KindOf(b)' = KindOf(b) /\ feeds'[b].owner # 0
      BY <1>1, <2>1, KindKept
    <3>2. feeds'[b] = feeds[b] \/ KindOf(b) = "TIMER"
      BY <2>1 DEF FeedsGrow
    <3> QED
      BY <1>1, <2>1, <3>1, <3>2 DEF Local, FeedOf
  <2>2. CASE b \in Feeds /\ feeds[b].owner = 0
    <3>1. act[b].pc = "idle" /\ ~feeds[b].live
      BY <1>1, <2>2 DEF Local, FeedOf
    <3>2. feeds'[b] = feeds[b] \/ feeds'[b].owner # 0
      BY <2>2 DEF FeedsGrow
    <3> QED
      BY <2>2, <3>1, <3>2 DEF FeedOf
  <2>3. CASE b \notin Feeds
    BY <2>3 DEF FeedOf
  <2> QED
    BY <2>1, <2>2, <2>3
<1> QED
  BY <1>2, <1>3, <1>4, <1>5 DEF Local

LEMMA OwnersKept ==
  ASSUME SchedBase, NEW a, EntriesGrow, FeedsGrow(a),
         registry' \in {registry, 0} \/ (registry' \in Entries /\ entries'[registry'].kind # "none"),
         \A f \in subscribers' \cup bridge'.todo : f \in subscribers \cup bridge.todo \/ KindOf(f)' = "NATS"
  PROVE  Owners'
<1>1. SchedType /\ Owners
  BY DEF SchedBase
<1>2. \A f \in Feeds : feeds'[f].owner # 0 => entries'[feeds'[f].owner].kind # "none"
  <2>1. ASSUME NEW f \in Feeds, feeds'[f].owner # 0 PROVE entries'[feeds'[f].owner].kind # "none"
    <3>1. CASE feeds[f].owner # 0
      <4>1. KindOf(f)' = KindOf(f) /\ KindOf(f) \in {"TIMER", "NATS"} /\ feeds'[f].owner = feeds[f].owner
        BY <1>1, <3>1, KindKept
      <4> QED
        BY <2>1, <4>1 DEF KindOf
    <3>2. CASE feeds[f].owner = 0
      BY <2>1, <3>2 DEF FeedsGrow
    <3> QED
      BY <3>1, <3>2
  <2> QED
    BY <2>1
<1>3. \A e \in Entries : entries'[e].feed # 0 => feeds'[entries'[e].feed].owner = e
  <2>1. ASSUME NEW e \in Entries, entries'[e].feed # 0, entries'[e].feed = entries[e].feed
        PROVE  feeds'[entries'[e].feed].owner = e
    <3>1. entries[e].feed \in Feeds /\ feeds[entries[e].feed].owner = e
      BY <1>1, <2>1, Names DEF SchedType, EntryRecs, Owners
    <3>2. e # 0
      BY Names
    <3> QED
      BY <2>1, <3>1, <3>2 DEF FeedsGrow
  <2> QED
    BY <2>1 DEF EntriesGrow
<1>4. registry' # 0 => entries'[registry'].kind # "none"
  <2>1. registry # 0 => registry \in Entries /\ entries[registry].kind # "none"
    BY <1>1, Names DEF SchedType, Owners
  <2> QED
    BY <2>1 DEF EntriesGrow
<1>5. \A f \in subscribers' \cup bridge'.todo : KindOf(f)' = "NATS"
  <2>1. ASSUME NEW f \in subscribers \cup bridge.todo PROVE KindOf(f)' = "NATS"
    <3>1. f \in Feeds /\ KindOf(f) = "NATS"
      BY <1>1 DEF SchedType, Bridges, Owners
    <3>2. feeds[f].owner # 0
      BY <3>1 DEF KindOf
    <3> QED
      BY <1>1, <3>1, <3>2, KindKept
  <2> QED
    BY <2>1
<1> QED
  BY <1>2, <1>3, <1>4, <1>5 DEF Owners

LEMMA BaseStep ==
  ASSUME SchedBase, NEW a \in Actors, a # Runner, act' \in [Actors -> Acts], Others(a),
         EntriesGrow, FeedsGrow(a), UNCHANGED <<type, bridge>>, subscribers' \subseteq Feeds,
         registry' \in {registry, 0} \/ (registry' \in Entries /\ entries'[registry'].kind # "none"),
         \A f \in subscribers' : f \in subscribers \/ KindOf(f)' = "NATS",
         UNCHANGED <<registryLock, registry>> \/ registryLock \in {a, NoOne},
         Local(a)'
  PROVE  SchedBase'
<1>1. SchedType /\ BridgeInv
  BY DEF SchedBase
<1>2. SchedType'
  <2>1. registry' \in 0..MaxEntry
    BY <1>1, Names DEF SchedType
  <2>2. entries' \in [Entries -> EntryRecs] /\ feeds' \in [Feeds -> FeedRecs]
    BY DEF EntriesGrow, FeedsGrow
  <2> QED
    BY <1>1, <2>1, <2>2 DEF SchedType
<1>3. \A f \in subscribers' \cup bridge'.todo : f \in subscribers \cup bridge.todo \/ KindOf(f)' = "NATS"
  OBVIOUS
<1>4. Owners'
  BY <1>3, OwnersKept
<1>5. BridgeInv'
  BY <1>1, Names DEF BridgeInv, Others
<1>6. ASSUME NEW b \in Actors PROVE Local(b)'
  <2>1. CASE b = a
    BY <2>1
  <2>2. CASE b # a
    <3>1. act'[b] = act[b]
      BY <2>2 DEF Others
    <3>2. registryLock # b \/ UNCHANGED <<registryLock, registry>>
      BY <2>2, Names
    <3> QED
      BY <2>2, <3>1, <3>2, OthersKept
  <2> QED
    BY <2>1, <2>2
<1> QED
  BY <1>2, <1>4, <1>5, <1>6 DEF SchedBase

LEMMA EntriesStay ==
  ASSUME SchedType, entries' = entries
  PROVE  EntriesGrow
BY DEF SchedType, EntriesGrow

LEMMA FeedsStay ==
  ASSUME SchedType, NEW a, feeds' = feeds
  PROVE  FeedsGrow(a)
BY DEF SchedType, FeedsGrow

LEMMA StateGrows ==
  ASSUME SchedType, NEW e \in Entries, NEW s \in States, SetState(e, s)
  PROVE  EntriesGrow
BY SetStateFacts DEF EntriesGrow

\* The entry and the feed of a call.
LEMMA CallFacts ==
  ASSUME SchedBase, NEW a \in Actors
  PROVE  /\ act[a] \in Acts /\ act[a].ent \in 0..MaxEntry /\ (act[a].ent # 0 => act[a].ent \in Entries)
         /\ Local(a)
         /\ act[a].pc \in StartPcs => a \in Admins
         /\ act[a].pc \notin RunnerPcs => a # Runner
         /\ act[a].pc \in StartPcs \cup StopPcs /\ a # Runner =>
              /\ act[a].ent \in Entries /\ entries[act[a].ent] \in EntryRecs
              /\ entries[act[a].ent].kind \in {"TIMER", "NATS"}
              /\ entries[act[a].ent].feed # 0 => /\ entries[act[a].ent].feed \in Feeds
                                                 /\ feeds[entries[act[a].ent].feed].owner = act[a].ent
<1>1. Local(a) /\ act[a] \in Acts /\ SchedType /\ Owners
  BY DEF SchedBase, SchedType
<1>2. act[a].ent \in 0..MaxEntry /\ (act[a].ent # 0 => act[a].ent \in Entries)
  BY <1>1, Names DEF Acts
<1>3. act[a].pc \in StartPcs => a \in Admins
  BY <1>1, Names DEF Local, RoleOf, FeedPcs, RunnerPcs, StartPcs, StopPcs
<1>4. act[a].pc \notin RunnerPcs => a # Runner
  BY <1>1 DEF Local, RoleOf
<1>5. act[a].pc \in StartPcs \cup StopPcs /\ a # Runner =>
        /\ act[a].ent \in Entries /\ entries[act[a].ent] \in EntryRecs /\ entries[act[a].ent].kind # "none"
  BY <1>1, <1>2 DEF Local, CallOf, SchedType
<1>6. act[a].pc \in StartPcs \cup StopPcs /\ a # Runner => entries[act[a].ent].kind \in {"TIMER", "NATS"}
  BY <1>5 DEF EntryRecs
<1>7. act[a].pc \in StartPcs \cup StopPcs /\ a # Runner /\ entries[act[a].ent].feed # 0 =>
        entries[act[a].ent].feed \in Feeds /\ feeds[entries[act[a].ent].feed].owner = act[a].ent
  BY <1>1, <1>5, Names DEF EntryRecs, Owners
<1> QED
  BY <1>1, <1>2, <1>3, <1>4, <1>5, <1>6, <1>7
-----------------------------------------------------------------------------
(* Requests and the registry *)

LEMMA RequestEffect ==
  ASSUME SchedBase, NEW a \in Admins, Request(a)
  PROVE  /\ act[a].pc = "idle" /\ act' \in [Actors -> Acts] /\ Others(a) /\ act'[a].then = "reply"
         /\ UNCHANGED <<type, entries, feeds, regVars, natsVars, bridge, irregular, blockable>>
         /\ \/ act'[a].pc \in {"register", "unregister"}
            \/ /\ act'[a].pc \in {"start", "stop"} /\ registryLock = NoOne
               /\ registry # 0 /\ act'[a].ent = registry
<1> USE DEF storeVars, regVars, natsVars, bridgeVars, historyVars
<1>1. a \in Actors /\ a # Runner /\ act[a] \in Acts /\ SchedType /\ Local(a)
  BY Names, CallFacts DEF SchedBase
<1>2. act[a].pc = "idle" => act[a].then = "reply"
  BY <1>1 DEF Local, LockOf
<1>3. ASSUME NEW auto \in BOOLEAN, AddSchedule(a, auto) \/ UpdateSchedule(a, auto)
      PROVE  /\ act[a].pc = "idle" /\ act' \in [Actors -> Acts] /\ Others(a)
             /\ act'[a].then = "reply" /\ act'[a].pc = "register"
             /\ UNCHANGED <<type, entries, feeds, regVars, natsVars, bridge, irregular, blockable>>
  <2>1. PICK k \in {"TIMER", "NATS"} : act' = [act EXCEPT ![a] = [Idle EXCEPT !.pc = "register", !.kind = k, !.start = auto]]
    BY <1>1, <1>3 DEF AddSchedule, UpdateSchedule, SchedType
  <2> DEFINE r == [[[Idle EXCEPT !.pc = "register"] EXCEPT !.kind = k] EXCEPT !.start = auto]
  <2>2. Idle \in Acts /\ Idle.then = "reply"
    BY IdleAct DEF Idle
  <2>3. r \in Acts /\ r.pc = "register" /\ r.then = "reply"
    BY <2>2 DEF Acts, Pcs, AdminPcs
  <2>4. act' = [act EXCEPT ![a] = r]
    BY <2>1
  <2> HIDE DEF r
  <2>5. act' \in [Actors -> Acts] /\ Others(a) /\ act'[a] = r
    BY <1>1, <2>3, <2>4, ActSet
  <2> QED
    BY <1>3, <2>3, <2>5 DEF AddSchedule, UpdateSchedule
<1>4. CASE DelSchedule(a)
  <2>1. act[a].pc = "idle" /\ Goto(a, "unregister") /\ "unregister" \in Pcs
    BY <1>4 DEF DelSchedule, Pcs, AdminPcs
  <2>2. SameBut(a, "unregister")
    BY <1>1, <2>1, GotoFacts
  <2> QED
    BY <1>2, <1>4, <2>1, <2>2 DEF DelSchedule, SameBut, Moves
<1>5. ASSUME NEW p \in {"start", "stop"}, CallEntry(a, p)
      PROVE  /\ act[a].pc = "idle" /\ act' \in [Actors -> Acts] /\ Others(a)
             /\ act'[a].then = "reply" /\ act'[a].pc = p /\ act'[a].ent = registry
             /\ registryLock = NoOne /\ registry # 0
             /\ UNCHANGED <<type, entries, feeds, regVars, natsVars, bridge, irregular, blockable>>
  <2> DEFINE r == [[act[a] EXCEPT !.pc = p] EXCEPT !.ent = registry]
  <2>1. p \in Pcs /\ registry \in 0..MaxEntry
    BY <1>1 DEF Pcs, AdminPcs, StartPcs, StopPcs, SchedType
  <2>2. r \in Acts /\ r.pc = p /\ r.then = act[a].then /\ r.ent = registry
    BY <1>1, <2>1 DEF Acts
  <2>3. act' = [act EXCEPT ![a] = r]
    BY <1>1, <1>5 DEF CallEntry, SchedType
  <2> HIDE DEF r
  <2>4. act' \in [Actors -> Acts] /\ Others(a) /\ act'[a] = r
    BY <1>1, <2>2, <2>3, ActSet
  <2> QED
    BY <1>2, <1>5, <2>2, <2>4 DEF CallEntry
<1> QED
  BY <1>3, <1>4, <1>5 DEF Request, StartSchedule, StopSchedule

LEMMA RequestBase ==
  ASSUME SchedBase, NEW a \in Admins, Request(a)
  PROVE  SchedBase'
<1>1. /\ act[a].pc = "idle" /\ act' \in [Actors -> Acts] /\ Others(a) /\ act'[a].then = "reply"
      /\ UNCHANGED <<type, entries, feeds, registryLock, registry, subscribers, bridge>>
      /\ \/ act'[a].pc \in {"register", "unregister"}
         \/ act'[a].pc \in {"start", "stop"} /\ registry # 0 /\ act'[a].ent = registry
  BY RequestEffect DEF regVars, natsVars
<1>2. a \in Actors /\ a \notin Jobs \cup Feeds /\ a # Runner /\ SchedType /\ Owners
  BY Names DEF SchedBase
<1>3. EntriesGrow /\ FeedsGrow(a)
  BY <1>1, <1>2, EntriesStay, FeedsStay
<1>4. Local(a)'
  <2>1. RoleOf(a)' /\ FeedOf(a)'
    BY <1>1, <1>2 DEF RoleOf, FeedOf, AdminPcs, StartPcs, StopPcs
  <2>2. CallOf(a)'
    BY <1>1, <1>2 DEF CallOf, Owners, StartPcs, StopPcs
  <2>3. LockOf(a)'
    BY <1>1, <1>2 DEF LockOf, StartPcs, StopPcs
  <2> QED
    BY <2>1, <2>2, <2>3 DEF Local
<1> QED
  BY <1>1, <1>2, <1>3, <1>4, BaseStep DEF SchedType

LEMMA RegisterEffect ==
  ASSUME SchedBase, NEW a \in Actors, Register(a)
  PROVE  /\ a \in Admins /\ act[a].pc = "register" /\ registryLock = NoOne /\ registryLock' = a
         /\ act' \in [Actors -> Acts] /\ Others(a) /\ act'[a].kind = act[a].kind
         /\ UNCHANGED <<type, entries, feeds, registry, natsVars, bridge, blockable>>
         /\ irregular' = (irregular \/ Starting(registry))
         /\ \/ /\ registry # 0 /\ act[a].kind = "TIMER"
               /\ act'[a].pc = "stop" /\ act'[a].ent = registry /\ act'[a].then = "replace"
            \/ /\ ~(registry # 0 /\ act[a].kind = "TIMER" /\ entries[registry].state = "RUNNING")
               /\ act'[a].pc = "replace" /\ act'[a].then = "reply"
<1> USE DEF storeVars, natsVars, bridgeVars
<1>1. /\ act[a].pc = "register" /\ registryLock = NoOne /\ registryLock' = a
      /\ UNCHANGED <<type, entries, feeds, registry, natsVars, bridge, blockable>>
      /\ irregular' = (irregular \/ Starting(registry))
  BY DEF Register
<1>2. act[a] \in Acts /\ SchedType /\ a \in Admins /\ act[a].then = "reply" /\ registry \in 0..MaxEntry
  BY <1>1, CallFacts, Names DEF SchedBase, SchedType, Local, RoleOf, LockOf, FeedPcs, RunnerPcs, StopPcs
<1> DEFINE running == registry # 0 /\ act[a].kind = "TIMER" /\ entries[registry].state = "RUNNING"
<1>3. CASE running
  <2> DEFINE r == [[[[act[a] EXCEPT !.pc = "stop"] EXCEPT !.ent = registry] EXCEPT !.then = "replace"] EXCEPT !.start = TRUE]
  <2>1. /\ r \in Acts /\ r.pc = "stop" /\ r.ent = registry /\ r.then = "replace" /\ r.kind = act[a].kind
    BY <1>2 DEF Acts, Pcs, AdminPcs, StopPcs
  <2>2. act' = [act EXCEPT ![a] = r]
    BY <1>2, <1>3 DEF Register, SchedType
  <2> HIDE DEF r
  <2>3. act' \in [Actors -> Acts] /\ Others(a) /\ act'[a] = r
    BY <1>2, <2>1, <2>2, ActSet
  <2> QED
    BY <1>1, <1>2, <1>3, <2>1, <2>3
<1>4. CASE ~running
  <2>1. PICK start \in BOOLEAN : start = (registry = 0 /\ act[a].start)
    BY Zenon
  <2> DEFINE r == [[act[a] EXCEPT !.pc = "replace"] EXCEPT !.start = start]
  <2>2. r \in Acts /\ r.pc = "replace" /\ r.then = act[a].then /\ r.kind = act[a].kind
    BY <1>2 DEF Acts, Pcs, AdminPcs
  <2>3. act' = [act EXCEPT ![a] = r]
    BY <1>2, <1>4, <2>1 DEF Register, SchedType
  <2> HIDE DEF r
  <2>4. act' \in [Actors -> Acts] /\ Others(a) /\ act'[a] = r
    BY <1>2, <2>2, <2>3, ActSet
  <2> QED
    BY <1>1, <1>2, <1>4, <2>2, <2>4
<1> QED
  BY <1>3, <1>4

LEMMA RegisterBase ==
  ASSUME SchedBase, NEW a \in Actors, Register(a)
  PROVE  SchedBase'
<1>1. /\ a \in Admins /\ act[a].pc = "register" /\ registryLock = NoOne /\ registryLock' = a
      /\ act' \in [Actors -> Acts] /\ Others(a) /\ act'[a].kind = act[a].kind
      /\ UNCHANGED <<type, entries, feeds, registry, subscribers, bridge>>
      /\ \/ /\ registry # 0 /\ act[a].kind = "TIMER"
            /\ act'[a].pc = "stop" /\ act'[a].ent = registry /\ act'[a].then = "replace"
         \/ act'[a].pc = "replace" /\ act'[a].then = "reply"
  BY RegisterEffect DEF natsVars
<1>2. a \notin Jobs \cup Feeds /\ a # Runner /\ SchedType /\ Owners
  BY <1>1, Names DEF SchedBase
<1>3. EntriesGrow /\ FeedsGrow(a)
  BY <1>1, <1>2, EntriesStay, FeedsStay
<1>4. Local(a)'
  <2>1. RoleOf(a)' /\ FeedOf(a)'
    BY <1>1, <1>2 DEF RoleOf, FeedOf, AdminPcs, StartPcs, StopPcs
  <2>2. CallOf(a)'
    BY <1>1, <1>2 DEF CallOf, Owners, StartPcs, StopPcs
  <2>3. LockOf(a)'
    BY <1>1, <1>2 DEF LockOf, StartPcs, StopPcs
  <2> QED
    BY <2>1, <2>2, <2>3 DEF Local
<1> QED
  BY <1>1, <1>2, <1>3, <1>4, BaseStep DEF SchedType

LEMMA ReplaceEffect ==
  ASSUME SchedBase, NEW a \in Actors, Replace(a)
  PROVE  /\ a \in Admins /\ act[a].pc = "replace" /\ registryLock = a
         /\ act' \in [Actors -> Acts] /\ Others(a)
         /\ UNCHANGED <<type, feeds, natsVars, bridge, blockable>>
         /\ \E e \in Entries :
              /\ entries[e].kind = "none" /\ entries[e].feed = 0 /\ registry' = e
              /\ entries' \in [Entries -> EntryRecs] /\ \A x \in Entries : x # e => entries'[x] = entries[x]
              /\ entries'[e].kind = act[a].kind /\ entries'[e].feed = 0 /\ entries'[e].state \in {"STOP", "FAILED"}
              /\ \/ /\ act'[a].pc = "start" /\ act'[a].ent = e /\ act'[a].then = "unlock"
                    /\ registryLock' = registryLock
                 \/ act'[a].pc = "idle" /\ act'[a].then = "reply" /\ registryLock' = NoOne
         /\ irregular' = \/ irregular
                         \/ \E f \in Feeds : /\ feeds[f].owner = registry /\ Feeding(f)
                                             /\ "NATS" \in {entries[registry].kind, act[a].kind}
<1> USE DEF storeVars, natsVars, bridgeVars
<1>1. PICK e \in FreeEntries, loads \in BOOLEAN :
        /\ entries' = [entries EXCEPT ![e] = [NoEntry EXCEPT !.kind = act[a].kind,
                                                             !.state = IF loads THEN "STOP" ELSE "FAILED"]]
        /\ registry' = e
        /\ IF loads /\ act[a].start
           THEN /\ act' = [act EXCEPT ![a].pc = "start", ![a].ent = e, ![a].then = "unlock"]
                /\ UNCHANGED registryLock
           ELSE act' = [act EXCEPT ![a] = Idle] /\ registryLock' = NoOne
  <2>1. (IF act[a].kind = "TIMER" THEN BOOLEAN ELSE {TRUE}) \subseteq BOOLEAN
    OBVIOUS
  <2> QED
    BY <2>1, Zenon DEF Replace
<1>2. act[a].pc = "replace" /\ UNCHANGED <<type, feeds, natsVars, bridge, blockable>>
  BY DEF Replace
<1>3. act[a] \in Acts /\ SchedType /\ Owners /\ a \in Admins /\ registryLock = a
  BY <1>2, CallFacts, Names DEF SchedBase, Local, RoleOf, LockOf, FeedPcs, RunnerPcs, StopPcs
<1>4. e \in Entries /\ entries[e].kind = "none" /\ entries[e] \in EntryRecs
  BY <1>1, <1>3 DEF FreeEntries, Entries, SchedType
<1>5. entries[e].feed = 0
  BY <1>3, <1>4, Names DEF Owners, EntryRecs
<1>6. /\ entries' \in [Entries -> EntryRecs] /\ \A x \in Entries : x # e => entries'[x] = entries[x]
      /\ entries'[e].kind = act[a].kind /\ entries'[e].feed = 0 /\ entries'[e].state \in {"STOP", "FAILED"}
  <2>1. PICK s \in {"STOP", "FAILED"} : s = IF loads THEN "STOP" ELSE "FAILED"
    OBVIOUS
  <2> DEFINE r == [[NoEntry EXCEPT !.kind = act[a].kind] EXCEPT !.state = s]
  <2>4. NoEntry \in EntryRecs /\ NoEntry.feed = 0
    BY Names DEF NoEntry, EntryRecs, States
  <2>5. act[a].kind \in {"none", "TIMER", "NATS"} /\ s \in States
    BY <1>3, <2>1 DEF Acts, States
  <2>2. r \in EntryRecs /\ r.kind = act[a].kind /\ r.feed = 0 /\ r.state = s
    BY <2>4, <2>5 DEF EntryRecs
  <2>3. entries' = [entries EXCEPT ![e] = r]
    BY <1>1, <2>1
  <2> HIDE DEF r
  <2> QED
    BY <1>3, <1>4, <2>2, <2>3 DEF SchedType
<1>7. CASE loads /\ act[a].start
  <2> DEFINE r == [[[act[a] EXCEPT !.pc = "start"] EXCEPT !.ent = e] EXCEPT !.then = "unlock"]
  <2>4. e \in 0..MaxEntry /\ "start" \in Pcs
    BY <1>4, Names DEF Pcs, AdminPcs, StartPcs
  <2>1. r \in Acts /\ r.pc = "start" /\ r.ent = e /\ r.then = "unlock"
    BY <1>3, <2>4 DEF Acts
  <2>2. act' = [act EXCEPT ![a] = r]
    BY <1>1, <1>3, <1>7 DEF SchedType
  <2> HIDE DEF r
  <2>3. act' \in [Actors -> Acts] /\ Others(a) /\ act'[a] = r
    BY <1>3, <2>1, <2>2, ActSet
  <2> QED
    BY <1>1, <1>2, <1>3, <1>4, <1>5, <1>6, <1>7, <2>1, <2>3 DEF Replace
<1>8. CASE ~(loads /\ act[a].start)
  <2>1. Idle \in Acts /\ Idle.pc = "idle" /\ Idle.then = "reply"
    BY IdleAct DEF Idle
  <2>2. act' = [act EXCEPT ![a] = Idle] /\ registryLock' = NoOne
    BY <1>1, <1>8
  <2>3. act' \in [Actors -> Acts] /\ Others(a) /\ act'[a] = Idle
    BY <1>3, <2>1, <2>2, ActSet
  <2> QED
    BY <1>1, <1>2, <1>3, <1>4, <1>5, <1>6, <2>1, <2>2, <2>3 DEF Replace
<1> QED
  BY <1>7, <1>8

LEMMA ReplaceBase ==
  ASSUME SchedBase, NEW a \in Actors, Replace(a)
  PROVE  SchedBase'
<1>1. /\ a \in Admins /\ act[a].pc = "replace" /\ registryLock = a
      /\ act' \in [Actors -> Acts] /\ Others(a) /\ UNCHANGED <<type, feeds, subscribers, bridge>>
  BY ReplaceEffect DEF natsVars
<1>2. PICK e \in Entries :
        /\ entries[e].kind = "none" /\ entries[e].feed = 0 /\ registry' = e
        /\ entries' \in [Entries -> EntryRecs] /\ \A x \in Entries : x # e => entries'[x] = entries[x]
        /\ entries'[e].kind = act[a].kind /\ entries'[e].feed = 0
        /\ \/ /\ act'[a].pc = "start" /\ act'[a].ent = e /\ act'[a].then = "unlock"
              /\ registryLock' = registryLock
           \/ act'[a].pc = "idle" /\ act'[a].then = "reply"
  BY ReplaceEffect
<1>3. a \notin Jobs \cup Feeds /\ a # Runner /\ SchedType /\ Owners /\ e # 0
  BY <1>1, <1>2, Names DEF SchedBase
<1>4. EntriesGrow /\ FeedsGrow(a)
  BY <1>1, <1>2, <1>3, FeedsStay DEF EntriesGrow
<1>5. entries'[e].kind # "none"
  BY <1>2, <1>3 DEF SchedType, Acts
<1>6. Local(a)'
  <2>1. RoleOf(a)' /\ FeedOf(a)'
    BY <1>1, <1>2, <1>3 DEF RoleOf, FeedOf, AdminPcs, StartPcs, StopPcs
  <2>2. CallOf(a)'
    BY <1>1, <1>2, <1>3, <1>5 DEF CallOf, StartPcs, StopPcs
  <2>3. LockOf(a)'
    BY <1>1, <1>2, <1>3 DEF LockOf, StartPcs, StopPcs
  <2> QED
    BY <2>1, <2>2, <2>3 DEF Local
<1>7. registry' \in Entries /\ entries'[registry'].kind # "none"
  BY <1>2, <1>5
<1> QED
  BY <1>1, <1>3, <1>4, <1>6, <1>7, BaseStep DEF SchedType

LEMMA UnregisterEffect ==
  ASSUME SchedBase, NEW a \in Actors, Unregister(a)
  PROVE  /\ a \in Admins /\ act[a].pc = "unregister" /\ registryLock = NoOne
         /\ act' \in [Actors -> Acts] /\ Others(a)
         /\ UNCHANGED <<type, entries, feeds, registry, natsVars, bridge, irregular, blockable>>
         /\ \/ act'[a].pc = "idle" /\ act'[a].then = "reply" /\ registryLock' = registryLock
            \/ /\ registry # 0 /\ registryLock' = a
               /\ act'[a].pc = "stop" /\ act'[a].ent = registry /\ act'[a].then = "delete"
               /\ act'[a].kind = act[a].kind
<1> USE DEF storeVars, natsVars, bridgeVars, historyVars
<1>1. /\ act[a].pc = "unregister" /\ registryLock = NoOne
      /\ UNCHANGED <<type, entries, feeds, registry, natsVars, bridge, irregular, blockable>>
  BY DEF Unregister
<1>2. act[a] \in Acts /\ SchedType /\ a \in Admins /\ registry \in 0..MaxEntry
  BY <1>1, CallFacts, Names DEF SchedBase, SchedType, Local, RoleOf, FeedPcs, RunnerPcs, StopPcs
<1>3. CASE registry = 0
  <2>1. Idle \in Acts /\ Idle.pc = "idle" /\ Idle.then = "reply"
    BY IdleAct DEF Idle
  <2>2. act' = [act EXCEPT ![a] = Idle] /\ registryLock' = registryLock
    BY <1>3 DEF Unregister
  <2>3. act' \in [Actors -> Acts] /\ Others(a) /\ act'[a] = Idle
    BY <1>2, <2>1, <2>2, ActSet
  <2> QED
    BY <1>1, <1>2, <2>1, <2>2, <2>3
<1>4. CASE registry # 0
  <2> DEFINE r == [[[act[a] EXCEPT !.pc = "stop"] EXCEPT !.ent = registry] EXCEPT !.then = "delete"]
  <2>1. r \in Acts /\ r.pc = "stop" /\ r.ent = registry /\ r.then = "delete" /\ r.kind = act[a].kind
    BY <1>2 DEF Acts, Pcs, AdminPcs, StopPcs
  <2>2. act' = [act EXCEPT ![a] = r] /\ registryLock' = a
    BY <1>2, <1>4 DEF Unregister, SchedType
  <2> HIDE DEF r
  <2>3. act' \in [Actors -> Acts] /\ Others(a) /\ act'[a] = r
    BY <1>2, <2>1, <2>2, ActSet
  <2> QED
    BY <1>1, <1>2, <1>4, <2>1, <2>2, <2>3
<1> QED
  BY <1>3, <1>4

LEMMA UnregisterBase ==
  ASSUME SchedBase, NEW a \in Actors, Unregister(a)
  PROVE  SchedBase'
<1>1. /\ a \in Admins /\ act[a].pc = "unregister" /\ registryLock = NoOne
      /\ act' \in [Actors -> Acts] /\ Others(a)
      /\ UNCHANGED <<type, entries, feeds, registry, subscribers, bridge>>
      /\ \/ act'[a].pc = "idle" /\ act'[a].then = "reply" /\ registryLock' = registryLock
         \/ /\ registry # 0 /\ registryLock' = a
            /\ act'[a].pc = "stop" /\ act'[a].ent = registry /\ act'[a].then = "delete"
  BY UnregisterEffect DEF natsVars
<1>2. a \notin Jobs \cup Feeds /\ a # Runner /\ SchedType /\ Owners
  BY <1>1, Names DEF SchedBase
<1>3. EntriesGrow /\ FeedsGrow(a)
  BY <1>1, <1>2, EntriesStay, FeedsStay
<1>4. Local(a)'
  <2>1. RoleOf(a)' /\ FeedOf(a)'
    BY <1>1, <1>2 DEF RoleOf, FeedOf, AdminPcs, StartPcs, StopPcs
  <2>2. CallOf(a)'
    BY <1>1, <1>2 DEF CallOf, Owners, StartPcs, StopPcs
  <2>3. LockOf(a)'
    BY <1>1, <1>2 DEF LockOf, StartPcs, StopPcs
  <2> QED
    BY <2>1, <2>2, <2>3 DEF Local
<1> QED
  BY <1>1, <1>2, <1>3, <1>4, BaseStep DEF SchedType
-----------------------------------------------------------------------------
(* A call goes on, or returns *)

LEMMA MoveBase ==
  ASSUME SchedBase, NEW a \in Actors, a # Runner, NEW p, Moves(a, p),
         (act[a].pc \in StartPcs /\ p \in StartPcs) \/ (act[a].pc \in StopPcs /\ p \in StopPcs),
         EntriesGrow, FeedsGrow(a), a \in Feeds => feeds'[a] = feeds[a] \/ KindOf(a) = "TIMER",
         UNCHANGED <<type, registryLock, registry, bridge>>, subscribers' \subseteq subscribers,
         CallOf(a)'
  PROVE  SchedBase'
<1>1. Local(a) /\ SchedType /\ Owners
  BY DEF SchedBase
<1>2. /\ act' \in [Actors -> Acts] /\ Others(a) /\ act'[a].pc = p
      /\ act'[a].then = act[a].then /\ act'[a].ent = act[a].ent /\ act'[a].kind = act[a].kind
  BY DEF Moves
<1>3. RoleOf(a)'
  BY <1>1, <1>2, Names DEF Local, RoleOf, AdminPcs, FeedPcs, StartPcs, StopPcs
<1>4. LockOf(a)'
  BY <1>1, <1>2 DEF Local, LockOf, StartPcs, StopPcs
<1>5. FeedOf(a)'
  <2>1. ASSUME a \in Feeds PROVE FeedOf(a)'
    <3>1. feeds[a].owner # 0
      BY <1>1, <2>1 DEF Local, FeedOf, StartPcs, StopPcs
    <3>2. KindOf(a)' = KindOf(a) /\ feeds'[a].owner = feeds[a].owner
      BY <1>1, <2>1, <3>1, KindKept
    <3> QED
      BY <1>1, <1>2, <2>1, <3>1, <3>2 DEF Local, FeedOf, StartPcs, StopPcs
  <2> QED
    BY <2>1 DEF FeedOf
<1>6. Local(a)'
  BY <1>3, <1>4, <1>5 DEF Local
<1> QED
  BY <1>1, <1>2, <1>6, BaseStep DEF SchedType

LEMMA ReturnBase ==
  ASSUME SchedBase, NEW a \in Actors, a # Runner, NEW ok \in BOOLEAN, Return(a, ok),
         act[a].pc \in StartPcs \cup StopPcs, EntriesGrow, UNCHANGED <<type, feeds, subscribers, bridge>>
  PROVE  SchedBase'
<1>1. Local(a) /\ SchedType /\ Owners /\ act[a] \in Acts
  BY DEF SchedBase, SchedType
<1>2. /\ act' \in [Actors -> Acts] /\ Others(a)
      /\ act[a].then = "replace" /\ ok =>
           act'[a].pc = "replace" /\ act'[a].then = "reply" /\ act'[a].kind = act[a].kind
      /\ act[a].then = "next" =>
           act'[a].pc = AfterTask(a) /\ AfterTask(a) \in {"ending", "idle"} /\ act'[a].then = "reply"
      /\ act[a].then # "next" /\ ~(act[a].then = "replace" /\ ok) => act'[a].pc = "idle" /\ act'[a].then = "reply"
      /\ act[a].then \in {"reply", "next"} \/ (act[a].then = "replace" /\ ok) => registryLock' = registryLock
      /\ registry' \in {registry, 0} /\ (act[a].then # "delete" => registry' = registry)
  BY <1>1, ReturnFacts
<1>3. FeedsGrow(a)
  BY <1>1, FeedsStay
<1>4. act[a].then \in {"reply", "replace", "unlock", "delete", "next"}
  BY <1>1 DEF Acts
<1>5. UNCHANGED <<registryLock, registry>> \/ registryLock \in {a, NoOne}
  BY <1>1, <1>2, <1>4 DEF Local, LockOf
<1>6. a \in Jobs \cup Feeds => act[a].then = "next" /\ act[a].pc \in StopPcs
  BY <1>1 DEF Local, RoleOf, FeedPcs, StartPcs, StopPcs
<1>7. RoleOf(a)'
  <2>1. a \in Jobs => AfterTask(a) = "idle"
    BY Names DEF AfterTask
  <2>2. a \notin Jobs \cup Feeds => act[a].then # "next" /\ a \in Admins
    BY <1>1, Names DEF Local, RoleOf
  <2> QED
    BY <1>2, <1>4, <1>6, <2>1, <2>2, Names DEF RoleOf, AdminPcs, FeedPcs, StartPcs, StopPcs
<1>8. CallOf(a)'
  BY <1>2, <1>4 DEF CallOf, StartPcs, StopPcs
<1>9. LockOf(a)'
  BY <1>1, <1>2, <1>4 DEF Local, LockOf, StartPcs, StopPcs
<1>10. FeedOf(a)'
  <2>1. ASSUME a \in Feeds PROVE FeedOf(a)'
    <3>1. feeds[a].owner # 0
      BY <1>1, <1>6, <2>1 DEF Local, FeedOf, StopPcs
    <3>2. KindOf(a)' = KindOf(a) /\ feeds'[a].owner = feeds[a].owner
      BY <1>1, <1>3, <2>1, <3>1, KindKept
    <3>3. act'[a].pc \in {"ending", "idle"} /\ act[a].pc # "idle"
      BY <1>2, <1>6, <2>1 DEF StopPcs
    <3> QED
      BY <1>1, <1>2, <1>6, <2>1, <3>1, <3>2, <3>3 DEF Local, FeedOf, StartPcs, StopPcs
  <2> QED
    BY <2>1 DEF FeedOf
<1>11. Local(a)'
  BY <1>7, <1>8, <1>9, <1>10 DEF Local
<1> QED
  BY <1>1, <1>2, <1>3, <1>5, <1>11, BaseStep DEF SchedType
-----------------------------------------------------------------------------
(* Starts *)

LEMMA StartEffect ==
  ASSUME SchedBase, NEW a \in Actors, Start(a)
  PROVE  /\ a \in Admins /\ act[a].pc = "start" /\ act[a].ent \in Entries /\ SetState(act[a].ent, "STARTING")
         /\ \/ SameBut(a, "add") /\ entries[act[a].ent].kind = "TIMER"
            \/ SameBut(a, "bridgeOn") /\ entries[act[a].ent].kind = "NATS"
         /\ UNCHANGED <<type, feeds, registry, registryLock, subscribers, subscriberLock, bridge, blockable>>
<1>1. /\ act[a].pc = "start" /\ SetState(act[a].ent, "STARTING")
      /\ UNCHANGED <<type, feeds, registry, registryLock, subscribers, subscriberLock, bridge, blockable>>
  BY DEF Start, storeVars, regVars, natsVars, bridgeVars
<1>2. /\ a \in Admins /\ act[a].ent \in Entries /\ entries[act[a].ent].kind \in {"TIMER", "NATS"}
      /\ SchedType
  BY <1>1, CallFacts DEF SchedBase, StartPcs, RunnerPcs
<1>3. CASE entries[act[a].ent].kind = "TIMER"
  <2>1. Goto(a, "add") /\ "add" \in Pcs
    BY <1>3 DEF Start, Pcs, AdminPcs, StartPcs
  <2> QED
    BY <1>1, <1>2, <1>3, <2>1, GotoFacts
<1>4. CASE entries[act[a].ent].kind # "TIMER"
  <2>1. Goto(a, "bridgeOn") /\ "bridgeOn" \in Pcs
    BY <1>4 DEF Start, Pcs, AdminPcs, StartPcs
  <2> QED
    BY <1>1, <1>2, <1>4, <2>1, GotoFacts
<1> QED
  BY <1>3, <1>4

LEMMA StartBase ==
  ASSUME SchedBase, NEW a \in Actors, Start(a)
  PROVE  SchedBase'
<1>1. /\ a \in Admins /\ act[a].pc = "start" /\ act[a].ent \in Entries /\ SetState(act[a].ent, "STARTING")
      /\ UNCHANGED <<type, feeds, registry, registryLock, subscribers, bridge>>
  BY StartEffect
<1>2. PICK p \in {"add", "bridgeOn"} :
        SameBut(a, p) /\ entries[act[a].ent].kind = IF p = "add" THEN "TIMER" ELSE "NATS"
  BY StartEffect
<1>3. SchedType /\ a # Runner /\ a \notin Feeds /\ "STARTING" \in States
  BY <1>1, Names DEF SchedBase, States
<1>4. EntriesGrow /\ FeedsGrow(a)
  BY <1>1, <1>3, StateGrows, FeedsStay
<1>5. CallOf(a)'
  <2>1. \A x \in Entries : entries'[x].kind = entries[x].kind
    BY <1>1, <1>3, SetStateFacts
  <2> QED
    BY <1>1, <1>2, <2>1, Names DEF CallOf, SameBut, Moves
<1> QED
  BY <1>1, <1>2, <1>3, <1>4, <1>5, MoveBase DEF SameBut, StartPcs, StopPcs

\* The feed that a Start makes.
LEMMA NewFeedBase ==
  ASSUME SchedBase, NEW a \in Actors, NewFeed(a, "running"), act[a].pc \in {"add", "subscribe"},
         UNCHANGED <<type, entries, registry, registryLock, bridge>>,
         subscribers' = subscribers \/
           (subscribers' = subscribers \cup {act'[a].feed} /\ entries[act[a].ent].kind = "NATS")
  PROVE  SchedBase'
<1>1. /\ a \in Admins /\ a # Runner /\ a \notin Jobs \cup Feeds /\ act[a].ent \in Entries /\ act[a].ent # 0
      /\ entries[act[a].ent].kind # "none" /\ SchedType /\ Local(a) /\ "running" \in Pcs
  BY CallFacts, Names DEF SchedBase, StartPcs, RunnerPcs, Pcs, AdminPcs
<1>2. PICK f \in FreeFeeds :
        /\ f \in Feeds /\ feeds[f].owner = 0
        /\ feeds' \in [Feeds -> FeedRecs] /\ feeds'[f].owner = act[a].ent /\ feeds'[f].live
        /\ \A x \in Feeds : x # f => feeds'[x] = feeds[x]
        /\ Moves(a, "running") /\ act'[a].feed = f
  BY <1>1, NewFeedFacts
<1>3. /\ act' \in [Actors -> Acts] /\ Others(a) /\ act'[a].pc = "running"
      /\ act'[a].then = act[a].then /\ act'[a].ent = act[a].ent /\ act'[a].kind = act[a].kind
  BY <1>2 DEF Moves
<1>4. EntriesGrow
  BY <1>1, EntriesStay
<1>5. FeedsGrow(a)
  BY <1>1, <1>2 DEF FeedsGrow
<1>6. Local(a)'
  <2>1. RoleOf(a)' /\ FeedOf(a)' /\ LockOf(a)'
    BY <1>1, <1>3 DEF Local, RoleOf, FeedOf, LockOf, AdminPcs, StartPcs, StopPcs
  <2>2. CallOf(a)'
    BY <1>1, <1>2, <1>3, Names DEF CallOf, StartPcs, StopPcs
  <2> QED
    BY <2>1, <2>2 DEF Local
<1>7. \A x \in subscribers' : x \in subscribers \/ KindOf(x)' = "NATS"
  BY <1>1, <1>2 DEF KindOf
<1>8. subscribers' \subseteq Feeds
  BY <1>1, <1>2 DEF SchedType
<1> QED
  BY <1>1, <1>3, <1>4, <1>5, <1>6, <1>7, <1>8, BaseStep

\* A call that fails.
LEMMA FailBase ==
  ASSUME SchedBase, NEW a \in Actors, a # Runner, NEW ok \in BOOLEAN, FailAndReturn(a, ok),
         act[a].pc \in StartPcs \cup StopPcs, UNCHANGED <<type, feeds, subscribers, bridge>>
  PROVE  SchedBase'
<1>1. act[a].ent \in Entries /\ SchedType /\ "FAILED" \in States
  BY CallFacts DEF SchedBase, States
<1>2. EntriesGrow
  BY <1>1, StateGrows DEF FailAndReturn
<1> QED
  BY <1>2, ReturnBase DEF FailAndReturn

\* A call that goes on, with the entries and the feeds as they are.
LEMMA GotoBase ==
  ASSUME SchedBase, NEW a \in Actors, a # Runner, NEW p \in Pcs, Moves(a, p),
         (act[a].pc \in StartPcs /\ p \in StartPcs) \/ (act[a].pc \in StopPcs /\ p \in StopPcs),
         UNCHANGED <<type, entries, feeds, registryLock, registry, bridge>>, subscribers' \subseteq subscribers,
         CallOf(a)'
  PROVE  SchedBase'
<1>1. SchedType
  BY DEF SchedBase
<1>2. EntriesGrow /\ FeedsGrow(a)
  BY <1>1, EntriesStay, FeedsStay
<1> QED
  BY <1>1, <1>2, MoveBase

LEMMA AddFuncBase ==
  ASSUME SchedBase, NEW a \in Actors, AddFunc(a)
  PROVE  SchedBase'
<1>1. act[a].pc = "add" /\ UNCHANGED <<type, bridge, subscribers>>
  BY DEF AddFunc, storeVars, natsVars, bridgeVars
<1>2. CASE NewFeed(a, "running") /\ UNCHANGED <<entries, registry, registryLock>>
  BY <1>1, <1>2, NewFeedBase
<1>3. CASE FailAndReturn(a, FALSE) /\ UNCHANGED feeds
  BY <1>1, <1>3, CallFacts, FailBase DEF StartPcs, RunnerPcs
<1> QED
  BY <1>2, <1>3 DEF AddFunc, regVars

LEMMA BridgeOnBase ==
  ASSUME SchedBase, NEW a \in Actors, BridgeOn(a)
  PROVE  SchedBase'
<1>1. act[a].pc = "bridgeOn" /\ UNCHANGED <<type, feeds, subscribers, bridge>>
  BY DEF BridgeOn, storeVars, natsVars, bridgeVars
<1>2. /\ a # Runner /\ SchedType /\ Local(a) /\ "subscribe" \in Pcs
      /\ act[a].ent \in Entries /\ entries[act[a].ent].kind = "NATS"
  BY <1>1, CallFacts DEF SchedBase, Local, CallOf, StartPcs, RunnerPcs, Pcs, AdminPcs
<1>3. CASE Goto(a, "subscribe") /\ UNCHANGED <<entries, registry, registryLock>>
  <2>1. Goto(a, "subscribe") /\ UNCHANGED <<entries, registry, registryLock>>
    BY <1>3
  <2>2. SameBut(a, "subscribe")
    BY <1>2, <2>1, GotoFacts
  <2>3. CallOf(a)'
    BY <1>2, <2>1, <2>2, Names DEF CallOf, SameBut, Moves
  <2> QED
    BY <1>1, <1>2, <2>1, <2>2, <2>3, GotoBase DEF SameBut, StartPcs
<1>4. CASE FailAndReturn(a, FALSE)
  BY <1>1, <1>2, <1>4, FailBase DEF StartPcs
<1>5. CASE Return(a, FALSE) /\ UNCHANGED entries
  BY <1>1, <1>2, <1>5, EntriesStay, ReturnBase DEF StartPcs
<1> QED
  BY <1>3, <1>4, <1>5 DEF BridgeOn, regVars

LEMMA SubscribeBase ==
  ASSUME SchedBase, NEW a \in Actors, Subscribe(a)
  PROVE  SchedBase'
<1>1. act[a].pc = "subscribe" /\ UNCHANGED <<type, bridge>>
  BY DEF Subscribe, storeVars, bridgeVars
<1>2. a # Runner /\ entries[act[a].ent].kind = "NATS"
  BY <1>1, CallFacts DEF Local, CallOf, RunnerPcs
<1>3. CASE FailAndReturn(a, TRUE) /\ UNCHANGED <<feeds, subscribers>>
  BY <1>1, <1>2, <1>3, FailBase DEF StartPcs
<1>4. CASE NewFeed(a, "running") /\ subscribers' = subscribers \cup {act'[a].feed} /\ UNCHANGED <<entries, regVars>>
  BY <1>1, <1>2, <1>4, NewFeedBase DEF regVars
<1> QED
  BY <1>3, <1>4 DEF Subscribe

LEMMA SetRunningEffect ==
  ASSUME SchedBase, NEW a \in Actors, SetRunning(a)
  PROVE  /\ a \in Admins /\ act[a].pc = "running" /\ act[a].ent \in Entries
         /\ act[a].feed \in Feeds /\ feeds[act[a].feed].owner = act[a].ent
         /\ entries' \in [Entries -> EntryRecs] /\ entries'[act[a].ent].state = "RUNNING"
         /\ entries'[act[a].ent].feed = act[a].feed
         /\ \A x \in Entries : entries'[x].kind = entries[x].kind /\ (x # act[a].ent => entries'[x] = entries[x])
         /\ Return(a, TRUE) /\ act[a].then \in {"reply", "unlock"}
         /\ UNCHANGED <<type, feeds, subscribers, subscriberLock, bridge, irregular, blockable>>
<1>1. /\ act[a].pc = "running" /\ Return(a, TRUE)
      /\ entries' = [entries EXCEPT ![act[a].ent].feed = act[a].feed, ![act[a].ent].state = "RUNNING"]
      /\ UNCHANGED <<type, feeds, subscribers, subscriberLock, bridge, irregular, blockable>>
  BY DEF SetRunning, storeVars, natsVars, bridgeVars, historyVars
<1>2. /\ a \in Admins /\ a # Runner /\ act[a] \in Acts /\ SchedType /\ Local(a) /\ act[a].ent \in Entries
      /\ entries[act[a].ent] \in EntryRecs
  BY <1>1, CallFacts, Names DEF SchedBase, StartPcs, RunnerPcs
<1>3. act[a].feed # 0 /\ feeds[act[a].feed].owner = act[a].ent /\ act[a].then \in {"reply", "unlock"}
  BY <1>1, <1>2 DEF Local, CallOf, LockOf, StartPcs
<1>4. act[a].feed \in Feeds /\ act[a].feed \in 0..MaxFeed
  BY <1>2, <1>3, Names DEF Acts
<1> DEFINE r == [[entries[act[a].ent] EXCEPT !.feed = act[a].feed] EXCEPT !.state = "RUNNING"]
<1>5. r \in EntryRecs /\ r.state = "RUNNING" /\ r.feed = act[a].feed /\ r.kind = entries[act[a].ent].kind
  BY <1>2, <1>4 DEF EntryRecs, States
<1>6. entries' = [entries EXCEPT ![act[a].ent] = r]
  BY <1>1, <1>2 DEF SchedType
<1> HIDE DEF r
<1>7. /\ entries' \in [Entries -> EntryRecs] /\ entries'[act[a].ent] = r
      /\ \A x \in Entries : x # act[a].ent => entries'[x] = entries[x]
  BY <1>2, <1>5, <1>6 DEF SchedType
<1> QED
  BY <1>1, <1>2, <1>3, <1>4, <1>5, <1>7

LEMMA SetRunningBase ==
  ASSUME SchedBase, NEW a \in Actors, SetRunning(a)
  PROVE  SchedBase'
<1>1. /\ a \in Admins /\ act[a].pc = "running" /\ act[a].ent \in Entries
      /\ act[a].feed \in Feeds /\ feeds[act[a].feed].owner = act[a].ent
      /\ entries' \in [Entries -> EntryRecs] /\ entries'[act[a].ent].feed = act[a].feed
      /\ \A x \in Entries : entries'[x].kind = entries[x].kind /\ (x # act[a].ent => entries'[x] = entries[x])
      /\ Return(a, TRUE) /\ UNCHANGED <<type, feeds, subscribers, bridge>>
  BY SetRunningEffect
<1>2. EntriesGrow
  BY <1>1, Names DEF EntriesGrow
<1> QED
  BY <1>1, <1>2, Names, ReturnBase DEF StartPcs
-----------------------------------------------------------------------------
(* Stops *)

LEMMA StopEffect ==
  ASSUME SchedBase, NEW a \in Actors, Stop(a)
  PROVE  /\ a # Runner /\ act[a].pc = "stop" /\ act[a].ent \in Entries /\ SetState(act[a].ent, "STOPPING")
         /\ \E p \in {"remove", "stopped", "bridgeOff"} :
              /\ SameBut(a, p)
              /\ p = "remove" <=> entries[act[a].ent].kind = "TIMER"
              /\ p = "stopped" => entries[act[a].ent].feed = 0
              /\ p = "bridgeOff" => entries[act[a].ent].feed # 0
         /\ irregular' = (irregular \/ Starting(act[a].ent))
         /\ UNCHANGED <<type, feeds, registry, registryLock, subscribers, subscriberLock, bridge, blockable>>
<1> DEFINE e == act[a].ent
<1>1. /\ act[a].pc = "stop" /\ SetState(e, "STOPPING") /\ irregular' = (irregular \/ Starting(e))
      /\ UNCHANGED <<type, feeds, registry, registryLock, subscribers, subscriberLock, bridge, blockable>>
  BY DEF Stop, storeVars, regVars, natsVars, bridgeVars
<1>2. a # Runner /\ act[a] \in Acts /\ e \in Entries /\ entries[e] \in EntryRecs /\ SchedType
  BY <1>1, CallFacts DEF SchedBase, StopPcs, RunnerPcs
<1>3. PICK p \in {"remove", "stopped", "bridgeOff"} :
        p = CASE entries[e].kind = "TIMER" -> "remove"
              [] entries[e].kind # "TIMER" /\ entries[e].feed = 0 -> "stopped"
              [] OTHER -> "bridgeOff"
  OBVIOUS
<1>4. PICK s \in States : s = IF entries[e].kind = "TIMER" THEN entries[e].state ELSE act[a].prev
  BY <1>2 DEF EntryRecs, Acts
<1> DEFINE r == [[act[a] EXCEPT !.prev = s] EXCEPT !.pc = p]
<1>5. p \in Pcs
  BY <1>3 DEF Pcs, AdminPcs, StopPcs
<1>6. /\ r \in Acts /\ r.pc = p /\ r.ent = act[a].ent /\ r.then = act[a].then
      /\ r.feed = act[a].feed /\ r.kind = act[a].kind
  BY <1>2, <1>4, <1>5 DEF Acts
<1>7. act' = [act EXCEPT ![a] = r]
  <2>1. act' = [act EXCEPT ![a].prev = s, ![a].pc = p]
    BY <1>3, <1>4 DEF Stop
  <2> QED
    BY <1>2, <2>1 DEF SchedType
<1> HIDE DEF r
<1>8. SameBut(a, p)
  BY <1>2, <1>6, <1>7, ActSet DEF SameBut, Moves
<1> QED
  BY <1>1, <1>2, <1>3, <1>8

LEMMA StopBase ==
  ASSUME SchedBase, NEW a \in Actors, Stop(a)
  PROVE  SchedBase'
<1>1. /\ a # Runner /\ act[a].pc = "stop" /\ act[a].ent \in Entries /\ SetState(act[a].ent, "STOPPING")
      /\ UNCHANGED <<type, feeds, registry, registryLock, subscribers, bridge>>
  BY StopEffect
<1>2. PICK p \in {"remove", "stopped", "bridgeOff"} :
        /\ SameBut(a, p)
        /\ p = "remove" <=> entries[act[a].ent].kind = "TIMER"
        /\ p = "bridgeOff" => entries[act[a].ent].feed # 0
  BY StopEffect
<1>3. SchedType /\ "STOPPING" \in States /\ entries[act[a].ent].kind \in {"TIMER", "NATS"}
  BY <1>1, CallFacts DEF SchedBase, States, StopPcs
<1>4. EntriesGrow /\ FeedsGrow(a)
  BY <1>1, <1>3, StateGrows, FeedsStay
<1>5. CallOf(a)'
  <2>1. \A x \in Entries : entries'[x].kind = entries[x].kind /\ entries'[x].feed = entries[x].feed
    BY <1>1, <1>3, SetStateFacts
  <2> QED
    BY <1>1, <1>2, <1>3, <2>1, Names DEF CallOf, SameBut, Moves
<1> QED
  BY <1>1, <1>2, <1>3, <1>4, <1>5, MoveBase DEF SameBut, StartPcs, StopPcs

LEMMA RemoveCronEffect ==
  ASSUME SchedBase, NEW a \in Actors, RemoveCron(a)
  PROVE  /\ a # Runner /\ act[a].pc = "remove" /\ act[a].ent \in Entries
         /\ entries[act[a].ent].kind = "TIMER" /\ SameBut(a, "stopped")
         /\ feeds' \in [Feeds -> FeedRecs]
         /\ \A x \in Feeds : /\ feeds'[x].owner = feeds[x].owner
                             /\ x # entries[act[a].ent].feed => feeds'[x] = feeds[x]
                             /\ x = entries[act[a].ent].feed => ~feeds'[x].live /\ KindOf(x) = "TIMER"
         /\ UNCHANGED <<type, entries, registry, registryLock, subscribers, subscriberLock, bridge, irregular, blockable>>
<1> DEFINE f == entries[act[a].ent].feed
<1>1. /\ act[a].pc = "remove" /\ Goto(a, "stopped")
      /\ feeds' = IF f = 0 THEN feeds ELSE [feeds EXCEPT ![f].live = FALSE]
      /\ UNCHANGED <<type, entries, registry, registryLock, subscribers, subscriberLock, bridge, irregular, blockable>>
  BY DEF RemoveCron, storeVars, regVars, natsVars, bridgeVars, historyVars
<1>2. /\ a # Runner /\ SchedType /\ act[a].ent \in Entries /\ entries[act[a].ent].kind = "TIMER"
      /\ f # 0 => f \in Feeds /\ feeds[f].owner = act[a].ent
  BY <1>1, CallFacts DEF SchedBase, Local, CallOf, StopPcs, RunnerPcs
<1>3. SameBut(a, "stopped")
  BY <1>1, <1>2, GotoFacts DEF Pcs, AdminPcs, StopPcs
<1>4. CASE f = 0
  BY <1>1, <1>2, <1>3, <1>4, Names DEF SchedType
<1>5. CASE f # 0
  <2> DEFINE r == [feeds[f] EXCEPT !.live = FALSE]
  <2>1. r \in FeedRecs /\ r.owner = feeds[f].owner /\ r.live = FALSE
    BY <1>2, <1>5 DEF SchedType, FeedRecs
  <2>2. feeds' = [feeds EXCEPT ![f] = r]
    BY <1>1, <1>5
  <2> HIDE DEF r
  <2>3. feeds' \in [Feeds -> FeedRecs] /\ feeds'[f] = r /\ \A x \in Feeds : x # f => feeds'[x] = feeds[x]
    BY <1>2, <1>5, <2>1, <2>2 DEF SchedType
  <2>4. KindOf(f) = "TIMER"
    BY <1>2, <1>5, Names DEF KindOf
  <2> QED
    BY <1>1, <1>2, <1>3, <1>5, <2>1, <2>3, <2>4
<1> QED
  BY <1>4, <1>5

LEMMA RemoveCronBase ==
  ASSUME SchedBase, NEW a \in Actors, RemoveCron(a)
  PROVE  SchedBase'
<1>1. /\ a # Runner /\ act[a].pc = "remove" /\ SameBut(a, "stopped") /\ feeds' \in [Feeds -> FeedRecs]
      /\ \A x \in Feeds : /\ feeds'[x].owner = feeds[x].owner
                          /\ x # entries[act[a].ent].feed => feeds'[x] = feeds[x]
                          /\ x = entries[act[a].ent].feed => ~feeds'[x].live /\ KindOf(x) = "TIMER"
      /\ UNCHANGED <<type, entries, registry, registryLock, subscribers, bridge>>
  BY RemoveCronEffect
<1>2. SchedType
  BY DEF SchedBase
<1>3. EntriesGrow
  BY <1>1, <1>2, EntriesStay
<1>4. FeedsGrow(a)
  BY <1>1 DEF FeedsGrow, KindOf
<1>5. CallOf(a)'
  BY <1>1, CallFacts DEF CallOf, Local, SameBut, Moves, StartPcs, StopPcs
<1> QED
  BY <1>1, <1>3, <1>4, <1>5, MoveBase DEF SameBut, StartPcs, StopPcs

LEMMA BridgeOffBase ==
  ASSUME SchedBase, NEW a \in Actors, BridgeOff(a)
  PROVE  SchedBase'
<1>1. act[a].pc = "bridgeOff" /\ UNCHANGED <<type, feeds, subscribers, bridge>>
  BY DEF BridgeOff, storeVars, natsVars, bridgeVars
<1>2. a # Runner /\ SchedType /\ Local(a) /\ "unsubscribe" \in Pcs
  BY <1>1, CallFacts DEF SchedBase, RunnerPcs, Pcs, AdminPcs, StopPcs
<1>3. CASE bridge.registered
  <2>1. Goto(a, "unsubscribe") /\ UNCHANGED <<entries, registry, registryLock>>
    BY <1>3 DEF BridgeOff, regVars
  <2>2. SameBut(a, "unsubscribe")
    BY <1>2, <2>1, GotoFacts
  <2>3. CallOf(a)'
    BY <1>1, <1>2, <2>1, <2>2 DEF Local, CallOf, SameBut, Moves, StartPcs, StopPcs
  <2> QED
    BY <1>1, <1>2, <2>1, <2>2, <2>3, GotoBase DEF SameBut, StopPcs
<1>4. CASE ~bridge.registered
  <2>1. FailAndReturn(a, FALSE)
    BY <1>4 DEF BridgeOff
  <2> QED
    BY <1>1, <1>2, <2>1, FailBase DEF StopPcs
<1> QED
  BY <1>3, <1>4

LEMMA UnsubscribeBase ==
  ASSUME SchedBase, NEW a \in Actors, Unsubscribe(a)
  PROVE  SchedBase'
<1>1. act[a].pc = "unsubscribe" /\ UNCHANGED <<type, feeds, subscribers, bridge>>
  BY DEF Unsubscribe, storeVars, natsVars, bridgeVars
<1>2. a # Runner /\ SchedType /\ Local(a) /\ "locked" \in Pcs
  BY <1>1, CallFacts DEF SchedBase, RunnerPcs, Pcs, AdminPcs, StopPcs
<1>3. CASE bridge.connected
  <2>1. Goto(a, "locked") /\ UNCHANGED <<entries, registry, registryLock>>
    BY <1>3 DEF Unsubscribe, regVars
  <2>2. SameBut(a, "locked")
    BY <1>2, <2>1, GotoFacts
  <2>3. CallOf(a)'
    BY <1>1, <1>2, <2>1, <2>2 DEF Local, CallOf, SameBut, Moves, StartPcs, StopPcs
  <2> QED
    BY <1>1, <1>2, <2>1, <2>2, <2>3, GotoBase DEF SameBut, StopPcs
<1>4. CASE ~bridge.connected
  <2>1. FailAndReturn(a, FALSE)
    BY <1>4 DEF Unsubscribe
  <2> QED
    BY <1>1, <1>2, <2>1, FailBase DEF StopPcs
<1> QED
  BY <1>3, <1>4

LEMMA LockEffect ==
  ASSUME SchedBase, NEW a \in Actors, LockSubscribers(a)
  PROVE  /\ a # Runner /\ act[a].pc = "locked" /\ act[a].ent \in Entries /\ subscriberLock = NoOne
         /\ entries[act[a].ent].kind = "NATS" /\ entries[act[a].ent].feed \in Feeds
         /\ feeds[entries[act[a].ent].feed].owner = act[a].ent
         /\ \/ /\ feeds[entries[act[a].ent].feed].live /\ subscriberLock' = a /\ subscribers' = subscribers
               /\ Moves(a, "signal") /\ act'[a].feed = entries[act[a].ent].feed
            \/ /\ ~feeds[entries[act[a].ent].feed].live /\ subscriberLock' = subscriberLock
               /\ subscribers' \subseteq subscribers /\ SameBut(a, "stopped")
         /\ blockable' = (blockable \/ act[entries[act[a].ent].feed].pc = "ending")
         /\ UNCHANGED <<type, entries, feeds, registry, registryLock, bridge, irregular>>
<1> DEFINE f == entries[act[a].ent].feed
<1>1. /\ act[a].pc = "locked" /\ subscriberLock = NoOne
      /\ blockable' = (blockable \/ act[f].pc = "ending")
      /\ UNCHANGED <<type, entries, feeds, registry, registryLock, bridge, irregular>>
  BY DEF LockSubscribers, storeVars, regVars, bridgeVars
<1>2. /\ a # Runner /\ SchedType /\ act[a] \in Acts /\ act[a].ent \in Entries /\ entries[act[a].ent].kind = "NATS"
      /\ f \in Feeds /\ feeds[f].owner = act[a].ent
  BY <1>1, CallFacts DEF SchedBase, Local, CallOf, StopPcs, RunnerPcs
<1>3. CASE feeds[f].live
  <2> DEFINE r == [[act[a] EXCEPT !.pc = "signal"] EXCEPT !.feed = f]
  <2>1. f \in 0..MaxFeed /\ "signal" \in Pcs
    BY <1>2, Names DEF Pcs, AdminPcs, StopPcs
  <2>2. /\ r \in Acts /\ r.pc = "signal" /\ r.ent = act[a].ent /\ r.then = act[a].then
        /\ r.feed = f /\ r.kind = act[a].kind
    BY <1>2, <2>1 DEF Acts
  <2>3. act' = [act EXCEPT ![a] = r] /\ subscriberLock' = a /\ subscribers' = subscribers
    BY <1>2, <1>3 DEF LockSubscribers, SchedType
  <2> HIDE DEF r
  <2>4. act' \in [Actors -> Acts] /\ Others(a) /\ act'[a] = r
    BY <1>2, <2>2, <2>3, ActSet
  <2> QED
    BY <1>1, <1>2, <1>3, <2>2, <2>3, <2>4 DEF Moves
<1>4. CASE ~feeds[f].live
  <2>1. Goto(a, "stopped") /\ subscriberLock' = subscriberLock /\ subscribers' \subseteq subscribers
    BY <1>4 DEF LockSubscribers
  <2>2. SameBut(a, "stopped")
    BY <1>2, <2>1, GotoFacts DEF Pcs, AdminPcs, StopPcs
  <2> QED
    BY <1>1, <1>2, <1>4, <2>1, <2>2
<1> QED
  BY <1>3, <1>4

LEMMA LockBase ==
  ASSUME SchedBase, NEW a \in Actors, LockSubscribers(a)
  PROVE  SchedBase'
<1>1. /\ a # Runner /\ act[a].pc = "locked" /\ act[a].ent \in Entries
      /\ entries[act[a].ent].kind = "NATS" /\ entries[act[a].ent].feed \in Feeds
      /\ feeds[entries[act[a].ent].feed].owner = act[a].ent
      /\ \/ subscribers' = subscribers /\ Moves(a, "signal") /\ act'[a].feed = entries[act[a].ent].feed
         \/ subscribers' \subseteq subscribers /\ SameBut(a, "stopped")
      /\ UNCHANGED <<type, entries, feeds, registry, registryLock, bridge>>
  BY LockEffect
<1>2. PICK p \in {"signal", "stopped"} :
        Moves(a, p) /\ (p = "signal" => act'[a].feed = entries[act[a].ent].feed)
  BY <1>1 DEF SameBut
<1>3. subscribers' \subseteq subscribers /\ p \in Pcs
  BY <1>1, <1>2 DEF Pcs, AdminPcs, StopPcs
<1>4. CallOf(a)'
  BY <1>1, <1>2, Names DEF CallOf, KindOf, Moves
<1> QED
  BY <1>1, <1>2, <1>3, <1>4, GotoBase DEF StopPcs

LEMMA SignalEffect ==
  ASSUME SchedBase, NEW a \in Actors, Signal(a)
  PROVE  /\ act[a].pc = "signal" /\ act[a].feed \in Feeds /\ act[a].feed # a /\ KindOf(act[a].feed) = "NATS"
         /\ act[act[a].feed].pc = "idle" /\ feeds[act[a].feed].live
         /\ act' \in [Actors -> Acts]
         /\ \A b \in Actors : b # a /\ b # act[a].feed => act'[b] = act[b]
         /\ act'[act[a].feed].pc = "ending" /\ act'[act[a].feed].then = act[act[a].feed].then
         /\ act'[act[a].feed].kind = act[act[a].feed].kind
         /\ act'[a].pc = IF a = Runner THEN "sweep" ELSE "stopped"
         /\ act'[a].ent = act[a].ent /\ act'[a].then = act[a].then /\ act'[a].kind = act[a].kind
         /\ a = Runner => UNCHANGED <<subscribers, subscriberLock>>
         /\ a # Runner => subscribers' = subscribers \ {act[a].feed} /\ subscriberLock' = NoOne
         /\ UNCHANGED <<type, entries, feeds, registry, registryLock, bridge, irregular, blockable>>
<1> DEFINE f == act[a].feed
           p == IF a = Runner THEN "sweep" ELSE "stopped"
<1>1. /\ act[a].pc = "signal" /\ act[f].pc = "idle" /\ feeds[f].live
      /\ act' = [act EXCEPT ![f].pc = "ending", ![a].pc = p]
      /\ a = Runner => UNCHANGED <<subscribers, subscriberLock>>
      /\ a # Runner => subscribers' = subscribers \ {f} /\ subscriberLock' = NoOne
      /\ UNCHANGED <<type, entries, feeds, registry, registryLock, bridge, irregular, blockable>>
  BY DEF Signal, storeVars, regVars, natsVars, bridgeVars, historyVars
<1>2. act[a] \in Acts /\ f # 0 /\ KindOf(f) = "NATS" /\ SchedType
  BY <1>1, CallFacts DEF SchedBase, Local, CallOf
<1>3. f \in Feeds /\ f # a /\ f \in Actors
  BY <1>1, <1>2, Names DEF Acts
<1>4. act[f] \in Acts /\ "ending" \in Pcs /\ p \in Pcs
  BY <1>2, <1>3 DEF SchedType, Pcs, FeedPcs, RunnerPcs, StopPcs
<1> DEFINE q == [act[f] EXCEPT !.pc = "ending"]
           r == [act[a] EXCEPT !.pc = p]
<1>5. q \in Acts /\ q.pc = "ending" /\ q.then = act[f].then /\ q.kind = act[f].kind
  BY <1>4 DEF Acts
<1>6. r \in Acts /\ r.pc = p /\ r.ent = act[a].ent /\ r.then = act[a].then /\ r.kind = act[a].kind
  BY <1>2, <1>4 DEF Acts
<1>7. act' = [act EXCEPT ![f] = q, ![a] = r]
  BY <1>1, <1>3, <1>2 DEF SchedType
<1> HIDE DEF q, r, p
<1>8. /\ act' \in [Actors -> Acts] /\ act'[f] = q /\ act'[a] = r
      /\ \A b \in Actors : b # a /\ b # f => act'[b] = act[b]
  BY <1>2, <1>3, <1>5, <1>6, <1>7 DEF SchedType
<1> QED
  BY <1>1, <1>2, <1>3, <1>5, <1>6, <1>8 DEF p

LEMMA SignalBase ==
  ASSUME SchedBase, NEW a \in Actors, Signal(a)
  PROVE  SchedBase'
<1>1. PICK f \in Feeds :
      /\ act[a].pc = "signal" /\ f = act[a].feed /\ f # a /\ KindOf(f) = "NATS" /\ act[f].pc = "idle" /\ feeds[f].live
      /\ act' \in [Actors -> Acts] /\ \A b \in Actors : b # a /\ b # f => act'[b] = act[b]
      /\ act'[f].pc = "ending" /\ act'[f].then = act[f].then /\ act'[f].kind = act[f].kind
      /\ act'[a].pc = IF a = Runner THEN "sweep" ELSE "stopped"
      /\ act'[a].ent = act[a].ent /\ act'[a].then = act[a].then /\ act'[a].kind = act[a].kind
      /\ subscribers' \subseteq subscribers
      /\ UNCHANGED <<type, entries, feeds, registry, registryLock, bridge>>
  BY SignalEffect
<1>2. SchedType /\ Owners /\ BridgeInv /\ Local(a) /\ Local(f) /\ f \in Actors
  BY <1>1, Names DEF SchedBase
<1>3. EntriesGrow /\ FeedsGrow(a)
  BY <1>1, <1>2, EntriesStay, FeedsStay
<1>4. SchedType'
  BY <1>1, <1>2 DEF SchedType
<1>5. Owners'
  BY <1>1, <1>3, OwnersKept
<1>6. BridgeInv'
  BY <1>1, <1>2, Names DEF BridgeInv
<1>7. Local(f)'
  <2>1. feeds[f].owner # 0
    BY <1>1 DEF KindOf
  <2>2. KindOf(f)' = KindOf(f)
    BY <1>1 DEF KindOf
  <2>3. RoleOf(f)' /\ LockOf(f)'
    BY <1>1, <1>2, Names DEF Local, RoleOf, LockOf, FeedPcs, StartPcs, StopPcs
  <2>4. CallOf(f)'
    BY <1>1 DEF CallOf, StartPcs, StopPcs
  <2>5. FeedOf(f)'
    BY <1>1, <2>1, <2>2 DEF FeedOf
  <2> QED
    BY <2>3, <2>4, <2>5 DEF Local
<1>8. Local(a)'
  <2>1. RoleOf(a)' /\ LockOf(a)'
    BY <1>1, <1>2, Names DEF Local, RoleOf, LockOf, AdminPcs, FeedPcs, RunnerPcs, StartPcs, StopPcs
  <2>2. CallOf(a)'
    BY <1>1, <1>2 DEF Local, CallOf, StartPcs, StopPcs
  <2>3. FeedOf(a)'
    BY <1>1, <1>2, Names DEF Local, FeedOf, KindOf
  <2> QED
    BY <2>1, <2>2, <2>3 DEF Local
<1>9. ASSUME NEW b \in Actors, b # a, b # f PROVE Local(b)'
  BY <1>1, <1>3, <1>9, OthersKept
<1> QED
  BY <1>4, <1>5, <1>6, <1>7, <1>8, <1>9 DEF SchedBase

LEMMA SetStoppedEffect ==
  ASSUME SchedBase, NEW a \in Actors, SetStopped(a)
  PROVE  /\ a # Runner /\ act[a].pc = "stopped" /\ act[a].ent \in Entries /\ SetState(act[a].ent, "STOP")
         /\ \/ /\ entries[act[a].ent].kind = "TIMER" /\ SameBut(a, "check")
               /\ UNCHANGED <<registry, registryLock>>
            \/ Return(a, TRUE)
         /\ UNCHANGED <<type, feeds, subscribers, subscriberLock, bridge, irregular, blockable>>
<1>1. /\ act[a].pc = "stopped" /\ SetState(act[a].ent, "STOP")
      /\ UNCHANGED <<type, feeds, subscribers, subscriberLock, bridge, irregular, blockable>>
  BY DEF SetStopped, storeVars, natsVars, bridgeVars, historyVars
<1>2. a # Runner /\ SchedType /\ act[a].ent \in Entries
  BY <1>1, CallFacts DEF SchedBase, StopPcs, RunnerPcs
<1>3. CASE entries[act[a].ent].kind = "TIMER"
  <2>1. Goto(a, "check") /\ UNCHANGED <<registry, registryLock>>
    BY <1>3 DEF SetStopped, regVars
  <2>2. SameBut(a, "check")
    BY <1>2, <2>1, GotoFacts DEF Pcs, AdminPcs, StopPcs
  <2> QED
    BY <1>1, <1>2, <1>3, <2>1, <2>2
<1>4. CASE entries[act[a].ent].kind # "TIMER"
  BY <1>1, <1>2, <1>4 DEF SetStopped
<1> QED
  BY <1>3, <1>4

LEMMA SetStoppedBase ==
  ASSUME SchedBase, NEW a \in Actors, SetStopped(a)
  PROVE  SchedBase'
<1>1. /\ a # Runner /\ act[a].pc = "stopped" /\ act[a].ent \in Entries /\ SetState(act[a].ent, "STOP")
      /\ UNCHANGED <<type, feeds, subscribers, bridge>>
  BY SetStoppedEffect
<1>2. SchedType /\ "STOP" \in States
  BY DEF SchedBase, States
<1>3. EntriesGrow /\ FeedsGrow(a)
  BY <1>1, <1>2, StateGrows, FeedsStay
<1>4. CASE entries[act[a].ent].kind = "TIMER" /\ SameBut(a, "check") /\ UNCHANGED <<registry, registryLock>>
  <2>1. entries'[act[a].ent].kind = "TIMER"
    BY <1>1, <1>2, <1>4, SetStateFacts
  <2>2. CallOf(a)'
    BY <1>1, <1>4, <2>1, Names DEF CallOf, SameBut, Moves
  <2> QED
    BY <1>1, <1>3, <1>4, <2>2, MoveBase DEF SameBut, StopPcs
<1>5. CASE Return(a, TRUE)
  BY <1>1, <1>3, <1>5, ReturnBase DEF StopPcs
<1> QED
  BY <1>4, <1>5, SetStoppedEffect

LEMMA CheckStoppedEffect ==
  ASSUME SchedBase, NEW a \in Actors, CheckStopped(a)
  PROVE  /\ a # Runner /\ act[a].pc = "check" /\ act[a].ent \in Entries
         /\ \/ SameBut(a, "restore") /\ UNCHANGED <<registry, registryLock>>
            \/ Return(a, TRUE)
         /\ UNCHANGED <<type, entries, feeds, subscribers, subscriberLock, bridge, irregular, blockable>>
<1>1. /\ act[a].pc = "check"
      /\ UNCHANGED <<type, entries, feeds, subscribers, subscriberLock, bridge, irregular, blockable>>
  BY DEF CheckStopped, storeVars, natsVars, bridgeVars, historyVars
<1>2. a # Runner /\ SchedType /\ act[a].ent \in Entries
  BY <1>1, CallFacts DEF SchedBase, StopPcs, RunnerPcs
<1>3. CASE Goto(a, "restore") /\ UNCHANGED <<registry, registryLock>>
  <2>1. SameBut(a, "restore")
    BY <1>2, <1>3, GotoFacts DEF Pcs, AdminPcs, StopPcs
  <2> QED
    BY <1>1, <1>2, <1>3, <2>1
<1>4. CASE Return(a, TRUE)
  BY <1>1, <1>2, <1>4
<1> QED
  BY <1>3, <1>4 DEF CheckStopped, regVars

LEMMA CheckStoppedBase ==
  ASSUME SchedBase, NEW a \in Actors, CheckStopped(a)
  PROVE  SchedBase'
<1>1. /\ a # Runner /\ act[a].pc = "check" /\ act[a].ent \in Entries
      /\ UNCHANGED <<type, entries, feeds, subscribers, bridge>>
  BY CheckStoppedEffect
<1>2. SchedType /\ Local(a) /\ "restore" \in Pcs
  BY DEF SchedBase, Pcs, AdminPcs, StopPcs
<1>3. CASE SameBut(a, "restore") /\ UNCHANGED <<registry, registryLock>>
  <2>1. entries[act[a].ent].kind = "TIMER"
    BY <1>1, <1>2 DEF Local, CallOf
  <2>2. CallOf(a)'
    BY <1>1, <1>3, <2>1, Names DEF CallOf, SameBut, Moves
  <2> QED
    BY <1>1, <1>2, <1>3, <2>2, GotoBase DEF SameBut, StopPcs
<1>4. CASE Return(a, TRUE)
  BY <1>1, <1>2, <1>4, EntriesStay, ReturnBase DEF StopPcs
<1> QED
  BY <1>3, <1>4, CheckStoppedEffect

LEMMA RestoreEffect ==
  ASSUME SchedBase, NEW a \in Actors, Restore(a)
  PROVE  /\ a # Runner /\ act[a].pc = "restore" /\ act[a].ent \in Entries /\ act[a].prev \in States
         /\ SetState(act[a].ent, act[a].prev) /\ Return(a, TRUE)
         /\ irregular' = (irregular \/ act[a].prev \in {"STARTING", "RUNNING"})
         /\ UNCHANGED <<type, feeds, subscribers, subscriberLock, bridge, blockable>>
<1>1. /\ act[a].pc = "restore" /\ SetState(act[a].ent, act[a].prev) /\ Return(a, TRUE)
      /\ irregular' = (irregular \/ act[a].prev \in {"STARTING", "RUNNING"})
      /\ UNCHANGED <<type, feeds, subscribers, subscriberLock, bridge, blockable>>
  BY DEF Restore, storeVars, natsVars, bridgeVars
<1>2. a # Runner /\ act[a].ent \in Entries /\ act[a].prev \in States
  BY <1>1, CallFacts DEF Acts, StopPcs, RunnerPcs
<1> QED
  BY <1>1, <1>2

LEMMA RestoreBase ==
  ASSUME SchedBase, NEW a \in Actors, Restore(a)
  PROVE  SchedBase'
<1>1. /\ a # Runner /\ act[a].pc = "restore" /\ act[a].ent \in Entries /\ act[a].prev \in States
      /\ SetState(act[a].ent, act[a].prev) /\ Return(a, TRUE)
      /\ UNCHANGED <<type, feeds, subscribers, bridge>>
  BY RestoreEffect
<1>2. EntriesGrow
  BY <1>1, StateGrows DEF SchedBase
<1> QED
  BY <1>1, <1>2, ReturnBase DEF StopPcs
-----------------------------------------------------------------------------
(* The task, the bridge, and every step *)

\* A goroutine that runs the task goes on.
LEMMA TaskBase ==
  ASSUME SchedBase, NEW a \in Jobs \cup Feeds, act' \in [Actors -> Acts], Others(a), EntriesGrow, FeedsGrow(a),
         act'[a].pc \in {"idle", "run", "stop"} \/ (a \in Feeds /\ act'[a].pc = "ending"),
         act'[a].pc = "stop" => act'[a].then = "next",
         act'[a].then = "replace" => act'[a].then = act[a].then /\ act'[a].kind = act[a].kind,
         act'[a].pc \in {"run", "stop"} => act'[a].ent # 0 /\ entries'[act'[a].ent].kind # "none",
         act'[a].pc = "run" => entries'[act'[a].ent].kind = IF a \in Jobs THEN "TIMER" ELSE "NATS",
         a \in Feeds => /\ feeds'[a].owner # 0
                        /\ act'[a].pc # "idle" => feeds'[a].live /\ KindOf(a)' = "NATS"
                        /\ act'[a].pc = "run" => act'[a].ent = feeds'[a].owner,
         UNCHANGED <<type, registry, registryLock, subscribers, bridge>>
  PROVE  SchedBase'
<1>1. a \in Actors /\ a # Runner /\ a \notin Admins /\ SchedType /\ Local(a)
  BY Names DEF SchedBase
<1>2. RoleOf(a)'
  BY <1>1, Names DEF RoleOf, FeedPcs, StopPcs
<1>3. LockOf(a)'
  BY <1>1 DEF Local, LockOf, StartPcs, StopPcs
<1>4. CallOf(a)'
  BY DEF CallOf, StartPcs, StopPcs
<1>5. FeedOf(a)'
  BY DEF FeedOf
<1>6. Local(a)'
  BY <1>2, <1>3, <1>4, <1>5 DEF Local
<1> QED
  BY <1>1, <1>6, BaseStep DEF SchedType

\* The task of the owner of a feed is called.
LEMMA CallTask ==
  ASSUME SchedBase, NEW a \in Actors, NEW f \in Feeds, feeds[f].live,
         act' = [act EXCEPT ![a].pc = "run", ![a].ent = feeds[f].owner]
  PROVE  /\ feeds[f].owner \in Entries /\ KindOf(f) = entries[feeds[f].owner].kind
         /\ act' \in [Actors -> Acts] /\ Others(a) /\ act'[a].pc = "run" /\ act'[a].ent = feeds[f].owner
         /\ act'[a].then = act[a].then /\ act'[a].kind = act[a].kind
<1>1. f \in Actors /\ SchedType /\ Local(f) /\ act[a] \in Acts
  BY Names DEF SchedBase, SchedType
<1>2. feeds[f].owner \in Entries /\ feeds[f].owner \in 0..MaxEntry /\ feeds[f].owner # 0
  BY <1>1, Names DEF Local, FeedOf, SchedType, FeedRecs
<1> DEFINE r == [[act[a] EXCEPT !.pc = "run"] EXCEPT !.ent = feeds[f].owner]
<1>3. "run" \in Pcs
  BY DEF Pcs, FeedPcs
<1>4. r \in Acts /\ r.pc = "run" /\ r.ent = feeds[f].owner /\ r.then = act[a].then /\ r.kind = act[a].kind
  BY <1>1, <1>2, <1>3 DEF Acts
<1>5. act' = [act EXCEPT ![a] = r]
  BY <1>1 DEF SchedType
<1> HIDE DEF r
<1>6. act' \in [Actors -> Acts] /\ Others(a) /\ act'[a] = r
  BY <1>1, <1>4, <1>5, ActSet
<1> QED
  BY <1>2, <1>4, <1>6 DEF KindOf

LEMMA TickEffect ==
  ASSUME SchedBase, NEW a \in Jobs, NEW f \in Feeds, Tick(a, f)
  PROVE  /\ act[a].pc = "idle" /\ feeds[f].live /\ feeds[f].owner \in Entries /\ KindOf(f) = "TIMER"
         /\ act' \in [Actors -> Acts] /\ Others(a) /\ act'[a].pc = "run" /\ act'[a].ent = feeds[f].owner
         /\ act'[a].then = act[a].then /\ act'[a].kind = act[a].kind
         /\ UNCHANGED <<type, entries, feeds, registry, registryLock, subscribers, subscriberLock, bridge,
                        irregular, blockable>>
<1>1. /\ act[a].pc = "idle" /\ feeds[f].live /\ entries[feeds[f].owner].kind = "TIMER"
      /\ act' = [act EXCEPT ![a].pc = "run", ![a].ent = feeds[f].owner]
      /\ UNCHANGED <<type, entries, feeds, registry, registryLock, subscribers, subscriberLock, bridge,
                     irregular, blockable>>
  BY DEF Tick, storeVars, regVars, natsVars, bridgeVars, historyVars
<1>2. a \in Actors
  BY Names
<1> QED
  BY <1>1, <1>2, CallTask

LEMMA TickBase ==
  ASSUME SchedBase, NEW a \in Jobs, NEW f \in Feeds, Tick(a, f)
  PROVE  SchedBase'
<1>1. /\ feeds[f].owner \in Entries /\ KindOf(f) = "TIMER"
      /\ act' \in [Actors -> Acts] /\ Others(a) /\ act'[a].pc = "run" /\ act'[a].ent = feeds[f].owner
      /\ act'[a].then = act[a].then /\ act'[a].kind = act[a].kind
      /\ UNCHANGED <<type, entries, feeds, registry, registryLock, subscribers, bridge>>
  BY TickEffect
<1>2. SchedType /\ a \notin Feeds /\ feeds[f].owner # 0 /\ entries[feeds[f].owner].kind = "TIMER"
  BY <1>1, Names DEF SchedBase, KindOf
<1>3. EntriesGrow /\ FeedsGrow(a)
  BY <1>1, <1>2, EntriesStay, FeedsStay
<1> QED
  BY <1>1, <1>2, <1>3, TaskBase

LEMMA RunTaskEffect ==
  ASSUME SchedBase, NEW f \in Feeds, RunTask(f)
  PROVE  /\ act[f].pc = "idle" /\ feeds[f].live /\ feeds[f].owner \in Entries /\ KindOf(f) = "NATS"
         /\ act' \in [Actors -> Acts] /\ Others(f) /\ act'[f].pc = "run" /\ act'[f].ent = feeds[f].owner
         /\ act'[f].then = act[f].then /\ act'[f].kind = act[f].kind
         /\ blockable' = (blockable \/ ~bridge.alive)
         /\ UNCHANGED <<type, entries, feeds, registry, registryLock, subscribers, subscriberLock, bridge, irregular>>
<1>1. /\ act[f].pc = "idle" /\ feeds[f].live /\ entries[feeds[f].owner].kind = "NATS"
      /\ act' = [act EXCEPT ![f].pc = "run", ![f].ent = feeds[f].owner]
      /\ blockable' = (blockable \/ ~bridge.alive)
      /\ UNCHANGED <<type, entries, feeds, registry, registryLock, subscribers, subscriberLock, bridge, irregular>>
  BY DEF RunTask, storeVars, regVars, natsVars, bridgeVars
<1>2. f \in Actors
  BY Names
<1> QED
  BY <1>1, <1>2, CallTask

LEMMA RunTaskBase ==
  ASSUME SchedBase, NEW f \in Feeds, RunTask(f)
  PROVE  SchedBase'
<1>1. /\ feeds[f].live /\ feeds[f].owner \in Entries /\ KindOf(f) = "NATS"
      /\ act' \in [Actors -> Acts] /\ Others(f) /\ act'[f].pc = "run" /\ act'[f].ent = feeds[f].owner
      /\ act'[f].then = act[f].then /\ act'[f].kind = act[f].kind
      /\ UNCHANGED <<type, entries, feeds, registry, registryLock, subscribers, bridge>>
  BY RunTaskEffect
<1>2. /\ SchedType /\ f \notin Jobs /\ feeds[f].owner # 0 /\ entries[feeds[f].owner].kind = "NATS"
      /\ KindOf(f)' = "NATS"
  BY <1>1, Names DEF SchedBase, KindOf
<1>3. EntriesGrow /\ FeedsGrow(f)
  BY <1>1, <1>2, EntriesStay, FeedsStay
<1> QED
  BY <1>1, <1>2, <1>3, TaskBase

\* What runs a task: a goroutine of cron, or a subscription for its own entry.
LEMMA TaskFacts ==
  ASSUME SchedBase, NEW a \in Jobs \cup Feeds, act[a].pc = "run"
  PROVE  /\ a \in Actors /\ a # Runner /\ act[a] \in Acts /\ act[a].ent \in Entries /\ act[a].ent # 0
         /\ entries[act[a].ent].kind = IF a \in Jobs THEN "TIMER" ELSE "NATS"
         /\ a \in Feeds => feeds[a].owner # 0 /\ feeds[a].live /\ KindOf(a) = "NATS" /\ act[a].ent = feeds[a].owner
<1>1. a \in Actors /\ a # Runner /\ act[a] \in Acts /\ Local(a)
  BY Names DEF SchedBase, SchedType
<1>2. act[a].ent # 0 /\ entries[act[a].ent].kind = IF a \in Jobs THEN "TIMER" ELSE "NATS"
  BY <1>1 DEF Local, CallOf
<1>3. act[a].ent \in Entries
  BY <1>1, <1>2, Names DEF Acts
<1> QED
  BY <1>1, <1>2, <1>3 DEF Local, FeedOf

LEMMA TaskEndsEffect ==
  ASSUME SchedBase, NEW a \in Jobs \cup Feeds, TaskEnds(a)
  PROVE  /\ act[a].pc = "run" /\ act' \in [Actors -> Acts] /\ Others(a) /\ act'[a].then = "reply"
         /\ act'[a].pc \in {"ending", "idle"} /\ (act'[a].pc = "ending" <=> (a \in Feeds /\ ~bridge.alive))
         /\ UNCHANGED <<type, entries, feeds, registry, registryLock, subscribers, subscriberLock, bridge,
                        irregular, blockable>>
<1>1. /\ act[a].pc = "run" /\ act' = [act EXCEPT ![a] = [Idle EXCEPT !.pc = AfterTask(a)]]
      /\ UNCHANGED <<type, entries, feeds, registry, registryLock, subscribers, subscriberLock, bridge,
                     irregular, blockable>>
  BY DEF TaskEnds, storeVars, regVars, natsVars, bridgeVars, historyVars
<1>2. a \in Actors /\ SchedType
  BY Names DEF SchedBase
<1>3. AfterTask(a) \in {"ending", "idle"} /\ (AfterTask(a) = "ending" <=> (a \in Feeds /\ ~bridge.alive))
  BY DEF AfterTask
<1> DEFINE r == [Idle EXCEPT !.pc = AfterTask(a)]
<1>4. r \in Acts /\ r.pc = AfterTask(a) /\ r.then = "reply"
  BY <1>3, IdleAct DEF Idle, Pcs, AdminPcs, FeedPcs
<1>5. act' = [act EXCEPT ![a] = r]
  BY <1>1
<1> HIDE DEF r
<1>6. act' \in [Actors -> Acts] /\ Others(a) /\ act'[a] = r
  BY <1>2, <1>4, <1>5, ActSet
<1> QED
  BY <1>1, <1>3, <1>4, <1>6

LEMMA TaskEndsBase ==
  ASSUME SchedBase, NEW a \in Jobs \cup Feeds, TaskEnds(a)
  PROVE  SchedBase'
<1>1. /\ act[a].pc = "run" /\ act' \in [Actors -> Acts] /\ Others(a) /\ act'[a].then = "reply"
      /\ act'[a].pc \in {"ending", "idle"} /\ (act'[a].pc = "ending" => a \in Feeds)
      /\ UNCHANGED <<type, entries, feeds, registry, registryLock, subscribers, bridge>>
  BY TaskEndsEffect
<1>2. SchedType
  BY DEF SchedBase
<1>3. EntriesGrow /\ FeedsGrow(a)
  BY <1>1, <1>2, EntriesStay, FeedsStay
<1>4. a \in Feeds => feeds'[a].owner # 0 /\ feeds'[a].live /\ KindOf(a)' = "NATS"
  BY <1>1, TaskFacts DEF KindOf
<1> QED
  BY <1>1, <1>3, <1>4, TaskBase

LEMMA TaskFailsEffect ==
  ASSUME SchedBase, NEW a \in Jobs \cup Feeds, TaskFails(a)
  PROVE  /\ act[a].pc = "run" /\ SetState(act[a].ent, "FAILED")
         /\ blockable' = (blockable \/ entries[act[a].ent].kind = "NATS")
         /\ act' \in [Actors -> Acts] /\ Others(a) /\ act'[a].pc = "stop" /\ act'[a].ent = act[a].ent
         /\ act'[a].then = "next" /\ act'[a].kind = act[a].kind
         /\ UNCHANGED <<type, feeds, registry, registryLock, subscribers, subscriberLock, bridge, irregular>>
<1>1. /\ act[a].pc = "run" /\ SetState(act[a].ent, "FAILED")
      /\ act' = [act EXCEPT ![a].pc = "stop", ![a].then = "next"]
      /\ blockable' = (blockable \/ entries[act[a].ent].kind = "NATS")
      /\ UNCHANGED <<type, feeds, registry, registryLock, subscribers, subscriberLock, bridge, irregular>>
  BY DEF TaskFails, storeVars, regVars, natsVars, bridgeVars
<1>2. a \in Actors /\ SchedType /\ act[a] \in Acts
  BY Names DEF SchedBase, SchedType
<1> DEFINE r == [[act[a] EXCEPT !.pc = "stop"] EXCEPT !.then = "next"]
<1>4. "stop" \in Pcs
  BY DEF Pcs, FeedPcs, StopPcs
<1>5. r \in Acts /\ r.pc = "stop" /\ r.ent = act[a].ent /\ r.then = "next" /\ r.kind = act[a].kind
  BY <1>2, <1>4 DEF Acts
<1>6. act' = [act EXCEPT ![a] = r]
  BY <1>1, <1>2 DEF SchedType
<1> HIDE DEF r
<1>7. act' \in [Actors -> Acts] /\ Others(a) /\ act'[a] = r
  BY <1>2, <1>5, <1>6, ActSet
<1> QED
  BY <1>1, <1>5, <1>7

LEMMA TaskFailsBase ==
  ASSUME SchedBase, NEW a \in Jobs \cup Feeds, TaskFails(a)
  PROVE  SchedBase'
<1>1. /\ act[a].pc = "run" /\ SetState(act[a].ent, "FAILED")
      /\ act' \in [Actors -> Acts] /\ Others(a) /\ act'[a].pc = "stop" /\ act'[a].ent = act[a].ent
      /\ act'[a].then = "next"
      /\ UNCHANGED <<type, feeds, registry, registryLock, subscribers, bridge>>
  BY TaskFailsEffect
<1>2. /\ SchedType /\ Owners /\ "FAILED" \in States /\ act[a].ent \in Entries /\ act[a].ent # 0
      /\ entries[act[a].ent].kind # "none"
      /\ a \in Feeds => feeds[a].owner # 0 /\ feeds[a].live /\ KindOf(a) = "NATS"
  BY <1>1, TaskFacts DEF SchedBase, States
<1>3. EntriesGrow /\ FeedsGrow(a)
  BY <1>1, <1>2, StateGrows, FeedsStay
<1>4. entries'[act[a].ent].kind # "none"
  BY <1>2, <1>3 DEF EntriesGrow
<1>5. a \in Feeds => KindOf(a)' = "NATS"
  BY <1>2, <1>3, KindKept
<1> QED
  BY <1>1, <1>2, <1>3, <1>4, <1>5, TaskBase

LEMMA EndEffect ==
  ASSUME SchedBase, NEW f \in Feeds, EndSubscription(f)
  PROVE  /\ act[f].pc = "ending" /\ feeds[f].owner # 0 /\ KindOf(f) = "NATS" /\ SameBut(f, "idle")
         /\ feeds' \in [Feeds -> FeedRecs] /\ feeds'[f].owner = feeds[f].owner /\ ~feeds'[f].live
         /\ \A x \in Feeds : x # f => feeds'[x] = feeds[x]
         /\ UNCHANGED <<type, entries, registry, registryLock, subscribers, subscriberLock, bridge,
                        irregular, blockable>>
<1>1. /\ act[f].pc = "ending" /\ Goto(f, "idle") /\ feeds' = [feeds EXCEPT ![f].live = FALSE]
      /\ UNCHANGED <<type, entries, registry, registryLock, subscribers, subscriberLock, bridge,
                     irregular, blockable>>
  BY DEF EndSubscription, storeVars, regVars, natsVars, bridgeVars, historyVars
<1>2. f \in Actors /\ SchedType /\ feeds[f].owner # 0 /\ KindOf(f) = "NATS"
  BY <1>1, CallFacts, Names DEF SchedBase, Local, FeedOf
<1>3. SameBut(f, "idle")
  BY <1>1, <1>2, GotoFacts DEF Pcs, FeedPcs
<1> DEFINE r == [feeds[f] EXCEPT !.live = FALSE]
<1>4. r \in FeedRecs /\ r.owner = feeds[f].owner /\ r.live = FALSE
  BY <1>2 DEF SchedType, FeedRecs
<1>5. feeds' = [feeds EXCEPT ![f] = r]
  BY <1>1
<1> HIDE DEF r
<1>6. feeds' \in [Feeds -> FeedRecs] /\ feeds'[f] = r /\ \A x \in Feeds : x # f => feeds'[x] = feeds[x]
  BY <1>2, <1>4, <1>5 DEF SchedType
<1> QED
  BY <1>1, <1>2, <1>3, <1>4, <1>6

LEMMA EndBase ==
  ASSUME SchedBase, NEW f \in Feeds, EndSubscription(f)
  PROVE  SchedBase'
<1>1. /\ act[f].pc = "ending" /\ feeds[f].owner # 0 /\ KindOf(f) = "NATS" /\ SameBut(f, "idle")
      /\ feeds' \in [Feeds -> FeedRecs] /\ feeds'[f].owner = feeds[f].owner /\ ~feeds'[f].live
      /\ \A x \in Feeds : x # f => feeds'[x] = feeds[x]
      /\ UNCHANGED <<type, entries, registry, registryLock, subscribers, bridge>>
  BY EndEffect
<1>2. SchedType
  BY DEF SchedBase
<1>3. EntriesGrow
  BY <1>1, <1>2, EntriesStay
<1>4. FeedsGrow(f)
  BY <1>1 DEF FeedsGrow
<1>5. /\ act' \in [Actors -> Acts] /\ Others(f) /\ act'[f].pc = "idle"
      /\ act'[f].then = act[f].then /\ act'[f].kind = act[f].kind
  BY <1>1 DEF SameBut, Moves
<1> QED
  BY <1>1, <1>3, <1>4, <1>5, TaskBase

\* What the bridge does.
LEMMA RunnerBase ==
  ASSUME SchedBase, act' \in [Actors -> Acts], Others(Runner), act'[Runner].pc \in RunnerPcs,
         act'[Runner].then = act[Runner].then, act'[Runner].kind = act[Runner].kind,
         act'[Runner].pc = "signal" => act'[Runner].feed # 0 /\ KindOf(act'[Runner].feed) = "NATS",
         UNCHANGED <<type, entries, feeds, registry, registryLock, subscribers>>,
         bridge' \in Bridges, bridge'.todo \subseteq subscribers \cup bridge.todo, BridgeInv'
  PROVE  SchedBase'
<1>1. SchedType /\ Owners /\ Runner \in Actors /\ Local(Runner)
  BY Names DEF SchedBase
<1>2. EntriesGrow /\ FeedsGrow(Runner)
  BY <1>1, EntriesStay, FeedsStay
<1>3. SchedType'
  BY <1>1 DEF SchedType
<1>4. Owners'
  BY <1>2, OwnersKept
<1>5. Local(Runner)'
  <2>1. RoleOf(Runner)'
    BY <1>1, Names DEF Local, RoleOf
  <2>2. CallOf(Runner)'
    BY DEF CallOf, RunnerPcs, KindOf
  <2>3. LockOf(Runner)'
    BY <1>1, Names DEF Local, RoleOf, LockOf, RunnerPcs, StartPcs, StopPcs
  <2>4. FeedOf(Runner)'
    BY Names DEF FeedOf
  <2> QED
    BY <2>1, <2>2, <2>3, <2>4 DEF Local
<1>6. ASSUME NEW b \in Actors, b # Runner PROVE Local(b)'
  BY <1>2, <1>6, OthersKept DEF Others
<1> QED
  BY <1>3, <1>4, <1>5, <1>6 DEF SchedBase

\* What of the bridge only the step that connects, or removes it, changes.
SameBridge == bridge' \in Bridges /\ bridge'.registered = bridge.registered /\ bridge'.alive = bridge.alive

LEMMA RemoveBridgeEffect ==
  ASSUME SchedBase, RemoveBridge
  PROVE  /\ SameBut(Runner, "close") /\ bridge.registered /\ act[Runner].pc = "idle"
         /\ bridge' \in Bridges /\ bridge'.registered = FALSE /\ bridge'.alive = FALSE /\ bridge'.todo = bridge.todo
         /\ irregular' = \/ irregular
                         \/ \E f \in Feeds : feeds[f].live
                         \/ \E a \in Admins : act[a].pc \in StartPcs
         /\ blockable' = (blockable \/ \E f \in Feeds : feeds[f].live /\ act[f].pc # "idle")
         /\ UNCHANGED <<type, entries, feeds, registry, registryLock, subscribers, subscriberLock>>
<1>1. SchedType /\ BridgeInv /\ Runner \in Actors
  BY Names DEF SchedBase
<1>2. Goto(Runner, "close") /\ bridge.registered /\ bridge' = [bridge EXCEPT !.registered = FALSE, !.alive = FALSE]
  BY DEF RemoveBridge
<1>3. SameBut(Runner, "close")
  BY <1>1, <1>2, GotoFacts DEF Pcs, RunnerPcs
<1>4. bridge' \in Bridges /\ bridge'.registered = FALSE /\ bridge'.alive = FALSE /\ bridge'.todo = bridge.todo
  BY <1>1, <1>2 DEF SchedType, Bridges
<1> QED
  BY <1>1, <1>2, <1>3, <1>4 DEF RemoveBridge, BridgeInv, storeVars, regVars, natsVars

LEMMA LockToCloseEffect ==
  ASSUME SchedBase, LockToClose
  PROVE  /\ SameBut(Runner, "sweep") /\ act[Runner].pc = "close" /\ subscriberLock = NoOne
         /\ subscriberLock' = Runner /\ SameBridge /\ bridge'.todo = subscribers
         /\ UNCHANGED <<type, entries, feeds, registry, registryLock, subscribers, irregular, blockable>>
<1>1. SchedType /\ Runner \in Actors
  BY Names DEF SchedBase
<1>2. Goto(Runner, "sweep") /\ bridge' = [bridge EXCEPT !.todo = subscribers]
  BY DEF LockToClose
<1>3. SameBut(Runner, "sweep")
  BY <1>1, <1>2, GotoFacts DEF Pcs, RunnerPcs
<1>4. SameBridge /\ bridge'.todo = subscribers
  BY <1>1, <1>2 DEF SchedType, Bridges, SameBridge
<1> QED
  BY <1>3, <1>4 DEF LockToClose, storeVars, regVars, historyVars

LEMMA SweepEffect ==
  ASSUME SchedBase, Sweep
  PROVE  /\ act[Runner].pc = "sweep" /\ SameBridge
         /\ \/ \E f \in bridge.todo :
                 /\ bridge'.todo = bridge.todo \ {f} /\ subscriberLock' = subscriberLock
                 /\ \/ feeds[f].live /\ Moves(Runner, "signal") /\ act'[Runner].feed = f
                    \/ act' = act
            \/ SameBut(Runner, "wait") /\ bridge.todo = {} /\ bridge' = bridge /\ subscriberLock' = NoOne
         /\ UNCHANGED <<type, entries, feeds, registry, registryLock, subscribers, irregular, blockable>>
<1>1. SchedType /\ Runner \in Actors /\ bridge \in Bridges /\ act[Runner] \in Acts
  BY Names DEF SchedBase, SchedType
<1>2. /\ act[Runner].pc = "sweep"
      /\ UNCHANGED <<type, entries, feeds, registry, registryLock, subscribers, irregular, blockable>>
  BY DEF Sweep, storeVars, regVars, historyVars
<1>3. ASSUME NEW f \in bridge.todo, bridge' = [bridge EXCEPT !.todo = @ \ {f}], UNCHANGED subscriberLock,
             IF feeds[f].live THEN act' = [act EXCEPT ![Runner].pc = "signal", ![Runner].feed = f]
                              ELSE UNCHANGED act
      PROVE  /\ SameBridge /\ bridge'.todo = bridge.todo \ {f} /\ subscriberLock' = subscriberLock
             /\ \/ feeds[f].live /\ Moves(Runner, "signal") /\ act'[Runner].feed = f
                \/ act' = act
  <2>1. SameBridge /\ bridge'.todo = bridge.todo \ {f} /\ f \in Feeds
    BY <1>1, <1>3 DEF Bridges, SameBridge
  <2>2. ASSUME feeds[f].live PROVE Moves(Runner, "signal") /\ act'[Runner].feed = f
    <3> DEFINE r == [[act[Runner] EXCEPT !.pc = "signal"] EXCEPT !.feed = f]
    <3>1. "signal" \in Pcs /\ f \in 0..MaxFeed
      BY <2>1, Names DEF Pcs, RunnerPcs
    <3>2. /\ r \in Acts /\ r.pc = "signal" /\ r.ent = act[Runner].ent /\ r.then = act[Runner].then
          /\ r.feed = f /\ r.kind = act[Runner].kind
      BY <1>1, <3>1 DEF Acts
    <3>3. act' = [act EXCEPT ![Runner] = r]
      BY <1>1, <1>3, <2>2 DEF SchedType
    <3> HIDE DEF r
    <3>4. act' \in [Actors -> Acts] /\ Others(Runner) /\ act'[Runner] = r
      BY <1>1, <3>2, <3>3, ActSet
    <3> QED
      BY <3>2, <3>4 DEF Moves
  <2> QED
    BY <1>3, <2>1, <2>2
<1>4. ASSUME bridge.todo = {}, subscriberLock' = NoOne, Goto(Runner, "wait"), UNCHANGED bridge
      PROVE  SameBridge /\ SameBut(Runner, "wait")
  BY <1>1, <1>4, GotoFacts DEF Pcs, RunnerPcs, SameBridge
<1> QED
  BY <1>2, <1>3, <1>4 DEF Sweep

LEMMA CloseConnEffect ==
  ASSUME SchedBase, CloseConn
  PROVE  /\ SameBut(Runner, "closed") /\ act[Runner].pc = "wait" /\ SameBridge /\ bridge'.todo = bridge.todo
         /\ UNCHANGED <<type, entries, feeds, registry, registryLock, subscribers, subscriberLock,
                        irregular, blockable>>
<1>1. SchedType /\ Runner \in Actors
  BY Names DEF SchedBase
<1>2. Goto(Runner, "closed") /\ bridge' = [bridge EXCEPT !.connected = FALSE]
  BY DEF CloseConn
<1>3. SameBut(Runner, "closed")
  BY <1>1, <1>2, GotoFacts DEF Pcs, RunnerPcs
<1>4. SameBridge /\ bridge'.todo = bridge.todo
  BY <1>1, <1>2 DEF SchedType, Bridges, SameBridge
<1> QED
  BY <1>3, <1>4 DEF CloseConn, storeVars, regVars, natsVars, historyVars

LEMMA BrokerEffect ==
  ASSUME SchedBase, BrokerLost \/ BrokerBack
  PROVE  /\ SameBridge /\ bridge'.todo = bridge.todo
         /\ UNCHANGED <<type, act, entries, feeds, registry, registryLock, subscribers, subscriberLock,
                        irregular, blockable>>
<1>1. SchedType
  BY DEF SchedBase
<1>2. PICK c \in BOOLEAN : bridge' = [bridge EXCEPT !.connected = c]
  BY DEF BrokerLost, BrokerBack
<1>3. SameBridge /\ bridge'.todo = bridge.todo
  BY <1>1, <1>2 DEF SchedType, Bridges, SameBridge
<1> QED
  BY <1>3 DEF BrokerLost, BrokerBack, storeVars, regVars, natsVars, historyVars

LEMMA BridgeBase ==
  ASSUME SchedBase, RemoveBridge \/ LockToClose \/ Sweep \/ CloseConn \/ BrokerLost \/ BrokerBack
  PROVE  SchedBase'
<1>1. SchedType /\ BridgeInv /\ Owners /\ Runner \in Actors
  BY Names DEF SchedBase
<1>2. ASSUME NEW p \in {"close", "sweep", "wait", "closed"}, SameBut(Runner, p), bridge' \in Bridges,
             bridge'.todo \subseteq subscribers \cup bridge.todo, ~bridge'.registered, ~bridge'.alive,
             UNCHANGED <<type, entries, feeds, registry, registryLock, subscribers>>
      PROVE  SchedBase'
  <2>1. BridgeInv'
    BY <1>1, <1>2 DEF BridgeInv, Bridges
  <2> QED
    BY <1>2, <2>1, RunnerBase DEF SameBut, Moves, RunnerPcs
<1>3. CASE RemoveBridge
  BY <1>1, <1>2, <1>3, RemoveBridgeEffect
<1>4. CASE LockToClose
  BY <1>1, <1>2, <1>4, LockToCloseEffect DEF BridgeInv, SameBridge
<1>5. CASE CloseConn
  BY <1>1, <1>2, <1>5, CloseConnEffect DEF BridgeInv, SameBridge
<1>6. ASSUME act' = act, SameBridge, bridge'.todo \subseteq bridge.todo,
             UNCHANGED <<type, entries, feeds, registry, registryLock, subscribers>>
      PROVE  SchedBase'
  <2>1. BridgeInv' /\ act' \in [Actors -> Acts] /\ Others(Runner)
    BY <1>1, <1>6 DEF BridgeInv, SameBridge, SchedType, Others
  <2>2. act[Runner].pc \in RunnerPcs /\ (act[Runner].pc = "signal" => act[Runner].feed # 0 /\ KindOf(act[Runner].feed) = "NATS")
    BY <1>1 DEF SchedBase, Local, RoleOf, CallOf
  <2> QED
    BY <1>6, <2>1, <2>2, RunnerBase DEF SameBridge
<1>7. CASE BrokerLost \/ BrokerBack
  BY <1>6, <1>7, BrokerEffect
<1>8. CASE Sweep
  <2>1. /\ act[Runner].pc = "sweep" /\ SameBridge /\ ~bridge.registered /\ ~bridge.alive
        /\ UNCHANGED <<type, entries, feeds, registry, registryLock, subscribers>>
    BY <1>1, <1>8, SweepEffect DEF BridgeInv, Bridges, SchedType
  <2>2. ASSUME SameBut(Runner, "wait"), bridge' = bridge PROVE SchedBase'
    BY <1>1, <1>2, <2>1, <2>2 DEF SchedType
  <2>3. ASSUME NEW f \in bridge.todo, bridge'.todo = bridge.todo \ {f}, act' = act PROVE SchedBase'
    BY <1>6, <2>1, <2>3
  <2>4. ASSUME NEW f \in bridge.todo, bridge'.todo = bridge.todo \ {f},
               Moves(Runner, "signal"), act'[Runner].feed = f
        PROVE  SchedBase'
    <3>1. f \in Feeds /\ f # 0 /\ KindOf(f) = "NATS"
      BY <1>1, Names DEF SchedType, Bridges, Owners
    <3>2. BridgeInv'
      BY <1>1, <2>1 DEF BridgeInv, SameBridge
    <3> QED
      BY <2>1, <2>4, <3>1, <3>2, RunnerBase DEF Moves, SameBridge, RunnerPcs
  <2> QED
    BY <1>8, <2>2, <2>3, <2>4, SweepEffect
<1> QED
  BY <1>3, <1>4, <1>5, <1>7, <1>8

\* SchedBase is inductive.
LEMMA SchedBaseStep ==
  ASSUME SchedBase, [SchedNext]_schedVars
  PROVE  SchedBase'
<1>1. ASSUME NEW a \in Admins, Request(a) PROVE SchedBase'
  BY <1>1, RequestBase
<1>2. ASSUME NEW a \in Actors, Step(a) PROVE SchedBase'
  BY <1>2, ReplaceBase, StartBase, AddFuncBase, BridgeOnBase, SetRunningBase, StopBase, RemoveCronBase,
     BridgeOffBase, UnsubscribeBase, SetStoppedBase, CheckStoppedBase, RestoreBase DEF Step
<1>3. ASSUME NEW a \in Actors, LockedStep(a) PROVE SchedBase'
  BY <1>3, RegisterBase, UnregisterBase, SubscribeBase, LockBase, SignalBase DEF LockedStep
<1>4. ASSUME NEW a \in Jobs \cup Feeds, TaskStep(a) PROVE SchedBase'
  BY <1>4, TaskEndsBase, TaskFailsBase DEF TaskStep
<1>5. ASSUME NEW f \in Feeds, RunTask(f) \/ EndSubscription(f) \/ \E a \in Jobs : Tick(a, f) PROVE SchedBase'
  BY <1>5, RunTaskBase, EndBase, TickBase
<1>6. CASE UNCHANGED schedVars
  BY <1>6 DEF schedVars, SchedBase, SchedType, Local, RoleOf, CallOf, LockOf, FeedOf, KindOf,
     Owners, BridgeInv
<1> QED
  BY <1>1, <1>2, <1>3, <1>4, <1>5, <1>6, BridgeBase DEF SchedNext
-----------------------------------------------------------------------------
(* Signals *)

\* What a call does that signals nobody.
LEMMA SignalFrame ==
  ASSUME SchedBase, SchedBase', SignalInv, NEW a \in Actors, a # Runner, Others(a),
         EntriesGrow, FeedsGrow(a), a \in Feeds => act[a].pc \in StopPcs,
         act[a].pc # "signal", act'[a].pc # "signal", UNCHANGED <<subscriberLock, bridge>>,
         \A f \in subscribers' : f \in subscribers \/ feeds[f].owner = 0,
         blockable => blockable'
  PROVE  SignalInv'
<1>1. SchedType /\ Owners /\ Runner \in Actors
  BY Names DEF SchedBase
<1>2. \A b \in Actors : act'[b].pc = "signal" => subscriberLock' = b
  BY DEF SignalInv, Others
<1>3. act'[Runner].pc = "sweep" => subscriberLock' = Runner
  BY <1>1 DEF SignalInv, Others
<1>4. act'[Runner].pc = "signal" => act'[Runner].feed \notin bridge'.todo
  BY <1>1 DEF SignalInv, Others
<1>5. ASSUME ~blockable', NEW f \in Feeds, KindOf(f)' = "NATS"
      PROVE  f # a /\ act'[f] = act[f] /\ (KindOf(f) = "NATS" \/ act[f].pc = "idle")
  <2>1. f \in Actors /\ FeedOf(f)
    BY Names DEF SchedBase, Local
  <2>2. CASE feeds[f].owner = 0
    <3>1. act[f].pc = "idle"
      BY <2>1, <2>2 DEF FeedOf
    <3> QED
      BY <2>1, <3>1 DEF Others, StopPcs
  <2>3. CASE feeds[f].owner # 0
    <3>1. KindOf(f) = "NATS"
      BY <1>1, <1>5, <2>3, KindKept
    <3>2. act[f].pc \in {"idle", "run", "ending"}
      BY <1>5, <3>1 DEF SignalInv
    <3> QED
      BY <2>1, <3>1, <3>2 DEF Others, StopPcs
  <2> QED
    BY <2>2, <2>3
<1>6. ~blockable' =>
        /\ \A f \in Feeds : KindOf(f)' = "NATS" => act'[f].pc \in {"idle", "run", "ending"}
        /\ ~bridge'.alive => \A f \in Feeds : KindOf(f)' = "NATS" => act'[f].pc # "run"
  BY <1>5 DEF SignalInv
<1>7. ASSUME ~blockable', NEW f \in Feeds, act'[f].pc = "ending"
      PROVE  /\ act'[Runner].pc \in {"idle", "close"} => f \notin subscribers'
             /\ act'[Runner].pc \in {"sweep", "signal"} => f \notin bridge'.todo
  <2>1. f \in Actors /\ FeedOf(f)' /\ FeedOf(f)
    BY Names DEF SchedBase, Local
  <2>2. KindOf(f)' = "NATS"
    BY <1>7, <2>1 DEF FeedOf
  <2>3. act[f].pc = "ending" /\ feeds[f].owner # 0
    BY <1>5, <1>7, <2>1, <2>2 DEF FeedOf
  <2> QED
    BY <1>1, <1>7, <2>3 DEF SignalInv, Others
<1>8. ASSUME ~blockable', NEW b \in Actors, act'[b].pc = "signal"
      PROVE  feeds'[act'[b].feed].live /\ act'[act'[b].feed].pc \in {"idle", "run"}
  <2>1. b # a /\ act'[b] = act[b]
    BY <1>8 DEF Others
  <2>2. act[b].feed # 0 /\ KindOf(act[b].feed) = "NATS" /\ act[b] \in Acts
    BY <1>8, <2>1, CallFacts DEF Local, CallOf
  <2>3. act[b].feed \in Feeds /\ feeds[act[b].feed].owner # 0
    BY <2>2, Names DEF Acts, KindOf
  <2>4. feeds[act[b].feed].live /\ act[act[b].feed].pc \in {"idle", "run"}
    BY <1>8, <2>1 DEF SignalInv, SignalAnswered
  <2>5. KindOf(act[b].feed)' = "NATS"
    BY <1>1, <2>1, <2>2, <2>3, KindKept
  <2>6. act[b].feed # a /\ act'[act[b].feed] = act[act[b].feed]
    BY <1>5, <1>8, <2>1, <2>3, <2>5
  <2>7. feeds'[act[b].feed] = feeds[act[b].feed]
    BY <2>2, <2>3, <2>6 DEF FeedsGrow
  <2> QED
    BY <2>1, <2>4, <2>6, <2>7
<1> QED
  BY <1>2, <1>3, <1>4, <1>6, <1>7, <1>8 DEF SignalInv, SignalAnswered

\* What the goroutine of a feed does.
LEMMA SignalFeed ==
  ASSUME SchedBase, SchedBase', SignalInv, NEW f \in Feeds, Others(f),
         act[f].pc # "signal", act'[f].pc # "signal", UNCHANGED <<subscribers, subscriberLock, bridge>>,
         \A x \in Feeds : KindOf(x)' = KindOf(x) /\ (x # f => feeds'[x] = feeds[x]),
         feeds'[f].live \/ act[f].pc = "ending" \/ KindOf(f) # "NATS",
         blockable => blockable',
         ~blockable' /\ KindOf(f) = "NATS" =>
           act'[f].pc \in {"idle", "run"} /\ (act'[f].pc = "run" => bridge.alive)
  PROVE  SignalInv'
<1>1. f \in Actors /\ f # Runner /\ Runner \in Actors
  BY Names
<1>2. /\ \A b \in Actors : act'[b].pc = "signal" => subscriberLock' = b
      /\ act'[Runner].pc = "sweep" => subscriberLock' = Runner
      /\ act'[Runner].pc = "signal" => act'[Runner].feed \notin bridge'.todo
  BY <1>1 DEF SignalInv, Others
<1>3. ~blockable' =>
        /\ \A x \in Feeds : KindOf(x)' = "NATS" => act'[x].pc \in {"idle", "run", "ending"}
        /\ ~bridge'.alive => \A x \in Feeds : KindOf(x)' = "NATS" => act'[x].pc # "run"
  <2>1. ASSUME ~blockable', NEW x \in Feeds, KindOf(x) = "NATS"
        PROVE  act'[x].pc \in {"idle", "run", "ending"} /\ (~bridge.alive => act'[x].pc # "run")
    <3>1. x \in Actors
      BY Names
    <3> QED
      BY <2>1, <3>1 DEF SignalInv, Others
  <2> QED
    BY <2>1
<1>4. ASSUME ~blockable', NEW x \in Feeds, act'[x].pc = "ending"
      PROVE  /\ act'[Runner].pc \in {"idle", "close"} => x \notin subscribers'
             /\ act'[Runner].pc \in {"sweep", "signal"} => x \notin bridge'.todo
  <2>1. x \in Actors /\ FeedOf(x)'
    BY Names DEF SchedBase, Local
  <2>2. KindOf(x) = "NATS"
    BY <1>4, <2>1 DEF FeedOf
  <2>3. x # f
    BY <1>4, <2>2
  <2> QED
    BY <1>1, <1>4, <2>1, <2>3 DEF SignalInv, Others
<1>5. ASSUME ~blockable', NEW b \in Actors, act'[b].pc = "signal"
      PROVE  feeds'[act'[b].feed].live /\ act'[act'[b].feed].pc \in {"idle", "run"}
  <2>1. b # f /\ act'[b] = act[b]
    BY <1>5 DEF Others
  <2>2. act[b].feed # 0 /\ KindOf(act[b].feed) = "NATS" /\ act[b] \in Acts
    BY <1>5, <2>1, CallFacts DEF Local, CallOf
  <2>3. act[b].feed \in Feeds
    BY <2>2, Names DEF Acts
  <2>4. feeds[act[b].feed].live /\ act[act[b].feed].pc \in {"idle", "run"}
    BY <1>5, <2>1 DEF SignalInv, SignalAnswered
  <2>5. act[b].feed \in Actors
    BY <2>3, Names
  <2> QED
    BY <1>5, <2>1, <2>2, <2>3, <2>4, <2>5 DEF Others
<1> QED
  BY <1>2, <1>3, <1>4, <1>5 DEF SignalInv, SignalAnswered

LEMMA SignalAtLock ==
  ASSUME SchedBase, SchedBase', SignalInv, NEW a \in Actors, LockSubscribers(a)
  PROVE  SignalInv'
<1>1. PICK f \in Feeds :
        /\ f = entries[act[a].ent].feed
        /\ a # Runner /\ act[a].pc = "locked" /\ act[a].ent \in Entries /\ subscriberLock = NoOne
        /\ entries[act[a].ent].kind = "NATS" /\ feeds[f].owner = act[a].ent
        /\ \/ /\ feeds[f].live /\ subscriberLock' = a /\ subscribers' = subscribers
              /\ Moves(a, "signal") /\ act'[a].feed = f
           \/ subscriberLock' = subscriberLock /\ subscribers' \subseteq subscribers /\ SameBut(a, "stopped")
        /\ blockable' = (blockable \/ act[f].pc = "ending")
        /\ UNCHANGED <<type, entries, feeds, registry, registryLock, bridge>>
  BY LockEffect
<1>2. SchedType /\ Runner \in Actors /\ NoOne \notin Actors /\ f # 0 /\ f \in Actors /\ act[a].ent # 0
  BY <1>1, Names DEF SchedBase
<1>3. blockable => blockable'
  BY <1>1
<1>4. a \in Feeds => act[a].pc \in StopPcs
  BY <1>1 DEF StopPcs
<1>5. CASE SameBut(a, "stopped") /\ subscriberLock' = subscriberLock /\ subscribers' \subseteq subscribers
  <2>1. EntriesGrow /\ FeedsGrow(a)
    BY <1>1, <1>2, EntriesStay, FeedsStay
  <2>2. Others(a) /\ act'[a].pc = "stopped"
    BY <1>5 DEF SameBut, Moves
  <2> QED
    BY <1>1, <1>3, <1>4, <1>5, <2>1, <2>2, SignalFrame
<1>6. CASE /\ feeds[f].live /\ subscriberLock' = a /\ subscribers' = subscribers
           /\ Moves(a, "signal") /\ act'[a].feed = f
  <2>1. Others(a) /\ act'[a].pc = "signal"
    BY <1>6 DEF Moves
  <2>2. \A b \in Actors : act[b].pc # "signal"
    BY <1>1, <1>2 DEF SignalInv
  <2>3. act[Runner].pc # "sweep" /\ act'[Runner] = act[Runner]
    BY <1>1, <1>2, <2>1 DEF SignalInv, Others
  <2>4. \A x \in Feeds : KindOf(x)' = KindOf(x)
    BY <1>1 DEF KindOf
  <2>5. KindOf(f) = "NATS"
    BY <1>1, <1>2 DEF KindOf
  <2>6. ASSUME ~blockable', NEW x \in Feeds, KindOf(x) = "NATS" PROVE act'[x] = act[x]
    <3>1. act[x].pc \in {"idle", "run", "ending"} /\ x \in Actors
      BY <1>3, <2>6, Names DEF SignalInv
    <3> QED
      BY <1>1, <2>1, <3>1 DEF Others
  <2>7. ~blockable' => act'[f].pc \in {"idle", "run"}
    BY <1>1, <2>5, <2>6 DEF SignalInv
  <2>8. \A b \in Actors : act'[b].pc = "signal" => b = a
    BY <2>1, <2>2 DEF Others
  <2>9. \A x \in Feeds : act'[x].pc = "ending" => act[x].pc = "ending"
    BY <2>1, Names DEF Others
  <2>10. ~blockable' =>
           /\ \A x \in Feeds : KindOf(x)' = "NATS" => act'[x].pc \in {"idle", "run", "ending"}
           /\ ~bridge'.alive => \A x \in Feeds : KindOf(x)' = "NATS" => act'[x].pc # "run"
    BY <1>1, <1>3, <2>4, <2>6 DEF SignalInv
  <2>11. ~blockable' => \A x \in Feeds : act'[x].pc = "ending" =>
           /\ act'[Runner].pc \in {"idle", "close"} => x \notin subscribers'
           /\ act'[Runner].pc \in {"sweep", "signal"} => x \notin bridge'.todo
    BY <1>1, <1>3, <1>6, <2>3, <2>9 DEF SignalInv
  <2>12. ~blockable' => \A b \in Actors : act'[b].pc = "signal" =>
           feeds'[act'[b].feed].live /\ act'[act'[b].feed].pc \in {"idle", "run"}
    BY <1>1, <1>6, <2>7, <2>8
  <2> QED
    BY <1>1, <1>2, <1>6, <2>2, <2>3, <2>8, <2>10, <2>11, <2>12 DEF SignalInv, SignalAnswered
<1> QED
  BY <1>1, <1>5, <1>6

LEMMA SignalAtSignal ==
  ASSUME SchedBase, SignalInv, NEW a \in Actors, Signal(a)
  PROVE  SignalInv'
<1>1. PICK f \in Feeds :
        /\ f = act[a].feed /\ f # a /\ act[a].pc = "signal" /\ KindOf(f) = "NATS"
        /\ \A b \in Actors : b # a /\ b # f => act'[b] = act[b]
        /\ act'[f].pc = "ending" /\ act'[a].pc = IF a = Runner THEN "sweep" ELSE "stopped"
        /\ a = Runner => UNCHANGED <<subscribers, subscriberLock>>
        /\ a # Runner => subscribers' = subscribers \ {f} /\ subscriberLock' = NoOne
        /\ UNCHANGED <<type, entries, feeds, registry, registryLock, bridge, blockable>>
  BY SignalEffect
<1>2. subscriberLock = a /\ \A b \in Actors : act[b].pc = "signal" => b = a
  BY <1>1 DEF SignalInv
<1>3. Runner \in Actors /\ f \in Actors /\ f # Runner /\ \A x \in Feeds : x \in Actors /\ x # Runner
  BY Names
<1>4. \A b \in Actors : act'[b].pc # "signal"
  BY <1>1, <1>2
<1>5. act'[Runner].pc = "sweep" => a = Runner /\ subscriberLock' = Runner
  BY <1>1, <1>2, <1>3 DEF SignalInv
<1>6. \A x \in Feeds : KindOf(x)' = KindOf(x)
  BY <1>1 DEF KindOf
<1>7. ASSUME ~blockable', NEW x \in Feeds, KindOf(x) = "NATS", x # f
      PROVE  act'[x] = act[x]
  <2>1. act[x].pc \in {"idle", "run", "ending"}
    BY <1>1, <1>7 DEF SignalInv
  <2> QED
    BY <1>1, <1>3, <1>7, <2>1
<1>8. ~blockable' =>
        /\ \A x \in Feeds : KindOf(x)' = "NATS" => act'[x].pc \in {"idle", "run", "ending"}
        /\ ~bridge'.alive => \A x \in Feeds : KindOf(x)' = "NATS" => act'[x].pc # "run"
  BY <1>1, <1>6, <1>7 DEF SignalInv
<1>9. ASSUME ~blockable', NEW x \in Feeds, act'[x].pc = "ending"
      PROVE  /\ act'[Runner].pc \in {"idle", "close"} => x \notin subscribers'
             /\ act'[Runner].pc \in {"sweep", "signal"} => x \notin bridge'.todo
  <2>1. x = f \/ act[x].pc = "ending"
    BY <1>1, <1>3, <1>9
  <2>2. CASE a = Runner
    <3>1. x \notin bridge.todo
      BY <1>1, <1>9, <2>1, <2>2 DEF SignalInv
    <3> QED
      BY <1>1, <2>2, <3>1
  <2>3. CASE a # Runner
    <3>1. act'[Runner] = act[Runner] /\ act[Runner].pc \notin {"sweep", "signal"}
      BY <1>1, <1>2, <1>3, <2>3 DEF SignalInv
    <3> QED
      BY <1>1, <1>9, <2>1, <2>3, <3>1 DEF SignalInv
  <2> QED
    BY <2>2, <2>3
<1> QED
  BY <1>3, <1>4, <1>5, <1>8, <1>9 DEF SignalInv, SignalAnswered

LEMMA SignalAtBridge ==
  ASSUME SchedBase, SignalInv, RemoveBridge \/ LockToClose \/ Sweep \/ CloseConn \/ BrokerLost \/ BrokerBack
  PROVE  SignalInv'
<1>1. /\ Runner \in Actors /\ NoOne \notin Actors /\ Owners /\ SchedType
      /\ \A x \in Feeds : x \in Actors /\ x # Runner /\ FeedOf(x)
  BY Names DEF SchedBase, Local
<1> DEFINE Rest == UNCHANGED <<entries, feeds, subscribers>>
\* the part that does not depend on the bridge
<1>2. ASSUME Others(Runner), Rest, blockable => blockable',
             \A b \in Actors : act'[b].pc = "signal" => subscriberLock' = b,
             act'[Runner].pc = "sweep" => subscriberLock' = Runner,
             act'[Runner].pc = "signal" => act'[Runner].feed \notin bridge'.todo,
             ~blockable' /\ ~bridge'.alive => \A f \in Feeds : KindOf(f) = "NATS" => act[f].pc # "run",
             act'[Runner].pc = "close" => act[Runner].pc \in {"idle", "close"},
             act'[Runner].pc = "idle" => act[Runner].pc = "idle",
             act'[Runner].pc \in {"sweep", "signal"} =>
               \/ act[Runner].pc \in {"sweep", "signal"} /\ bridge'.todo \subseteq bridge.todo
               \/ act[Runner].pc = "close" /\ bridge'.todo = subscribers,
             ~blockable' /\ act'[Runner].pc = "signal" =>
               /\ act'[Runner].feed \in Feeds /\ feeds[act'[Runner].feed].live
               /\ act[act'[Runner].feed].pc \in {"idle", "run"}
      PROVE  SignalInv'
  <2>1. \A x \in Feeds : KindOf(x)' = KindOf(x) /\ act'[x] = act[x]
    BY <1>1, <1>2 DEF KindOf, Others
  <2>2. ~blockable' =>
          /\ \A x \in Feeds : KindOf(x)' = "NATS" => act'[x].pc \in {"idle", "run", "ending"}
          /\ ~bridge'.alive => \A x \in Feeds : KindOf(x)' = "NATS" => act'[x].pc # "run"
    BY <1>2, <2>1 DEF SignalInv
  <2>3. ASSUME ~blockable', NEW x \in Feeds, act'[x].pc = "ending"
        PROVE  /\ act'[Runner].pc \in {"idle", "close"} => x \notin subscribers'
               /\ act'[Runner].pc \in {"sweep", "signal"} => x \notin bridge'.todo
    BY <1>2, <2>1, <2>3 DEF SignalInv
  <2>4. ASSUME ~blockable', NEW b \in Actors, act'[b].pc = "signal"
        PROVE  feeds'[act'[b].feed].live /\ act'[act'[b].feed].pc \in {"idle", "run"}
    <3>1. CASE b = Runner
      BY <1>2, <2>1, <2>4, <3>1
    <3>2. CASE b # Runner
      <4>1. act'[b] = act[b]
        BY <1>2, <3>2 DEF Others
      <4>2. act[b].feed \in Feeds
        BY <2>4, <4>1, CallFacts, Names DEF Local, CallOf, Acts
      <4>3. feeds[act[b].feed].live /\ act[act[b].feed].pc \in {"idle", "run"}
        BY <1>2, <2>4, <4>1 DEF SignalInv, SignalAnswered
      <4> QED
        BY <1>2, <2>1, <4>1, <4>2, <4>3
    <3> QED
      BY <3>1, <3>2
  <2> QED
    BY <1>2, <2>2, <2>3, <2>4 DEF SignalInv, SignalAnswered
<1>3. CASE RemoveBridge
  <2>1. /\ SameBut(Runner, "close") /\ act[Runner].pc = "idle" /\ Rest
        /\ blockable' = (blockable \/ \E f \in Feeds : feeds[f].live /\ act[f].pc # "idle")
        /\ subscriberLock' = subscriberLock
    BY <1>3, RemoveBridgeEffect
  <2>2. Others(Runner) /\ act'[Runner].pc = "close"
    BY <2>1 DEF SameBut, Moves
  <2>3. ~blockable' => \A f \in Feeds : KindOf(f) = "NATS" => act[f].pc # "run"
    BY <1>1, <2>1 DEF FeedOf
  <2> QED
    BY <1>2, <2>1, <2>2, <2>3 DEF SignalInv, Others
<1>4. CASE LockToClose
  <2>1. /\ SameBut(Runner, "sweep") /\ act[Runner].pc = "close" /\ subscriberLock = NoOne /\ SameBridge
        /\ subscriberLock' = Runner /\ bridge'.todo = subscribers /\ Rest /\ blockable' = blockable
    BY <1>4, LockToCloseEffect
  <2>2. Others(Runner) /\ act'[Runner].pc = "sweep"
    BY <2>1 DEF SameBut, Moves
  <2>3. \A b \in Actors : act'[b].pc # "signal"
    BY <1>1, <2>1, <2>2 DEF SignalInv, Others
  <2> QED
    BY <1>2, <2>1, <2>2, <2>3 DEF SignalInv, SameBridge
<1>5. CASE CloseConn
  <2>1. /\ SameBut(Runner, "closed") /\ act[Runner].pc = "wait" /\ SameBridge /\ bridge'.todo = bridge.todo
        /\ Rest /\ blockable' = blockable /\ subscriberLock' = subscriberLock
    BY <1>5, CloseConnEffect
  <2>2. Others(Runner) /\ act'[Runner].pc = "closed"
    BY <2>1 DEF SameBut, Moves
  <2> QED
    BY <1>2, <2>1, <2>2 DEF SignalInv, SameBridge, Others
<1>6. CASE BrokerLost \/ BrokerBack
  <2>1. /\ SameBridge /\ bridge'.todo = bridge.todo /\ act' = act
        /\ Rest /\ blockable' = blockable /\ subscriberLock' = subscriberLock
    BY <1>6, BrokerEffect
  <2> QED
    BY <2>1 DEF SignalInv, SignalAnswered, SameBridge, KindOf
<1>7. CASE Sweep
  <2>1. /\ act[Runner].pc = "sweep" /\ SameBridge /\ Rest /\ blockable' = blockable /\ subscriberLock = Runner
    BY <1>7, SweepEffect DEF SignalInv
  <2>2. \A b \in Actors : act[b].pc = "signal" => b = Runner
    BY <2>1 DEF SignalInv
  <2>3. ASSUME SameBut(Runner, "wait"), bridge' = bridge PROVE SignalInv'
    <3>1. Others(Runner) /\ act'[Runner].pc = "wait"
      BY <2>3 DEF SameBut, Moves
    <3>2. \A b \in Actors : act'[b].pc # "signal"
      BY <2>2, <3>1 DEF Others
    <3> QED
      BY <1>2, <2>1, <2>3, <3>1, <3>2 DEF SignalInv
  <2>4. ASSUME NEW f \in bridge.todo, bridge'.todo = bridge.todo \ {f}, act' = act, subscriberLock' = subscriberLock
        PROVE  SignalInv'
    BY <1>2, <2>1, <2>2, <2>4 DEF SignalInv, SameBridge, Others
  <2>5. ASSUME NEW f \in bridge.todo, bridge'.todo = bridge.todo \ {f}, subscriberLock' = subscriberLock,
               feeds[f].live, Moves(Runner, "signal"), act'[Runner].feed = f
        PROVE  SignalInv'
    <3>1. Others(Runner) /\ act'[Runner].pc = "signal"
      BY <2>5 DEF Moves
    <3>2. f \in Feeds /\ KindOf(f) = "NATS"
      BY <1>1 DEF SchedType, Bridges, Owners
    <3>3. ~blockable' => act[f].pc \in {"idle", "run"}
      BY <2>1, <3>2 DEF SignalInv
    <3>4. \A b \in Actors : act'[b].pc = "signal" => subscriberLock' = b
      BY <2>1, <2>2, <2>5, <3>1 DEF Others
    <3> QED
      BY <1>2, <2>1, <2>5, <3>1, <3>2, <3>3, <3>4 DEF SignalInv, SameBridge
  <2> QED
    BY <1>7, <2>3, <2>4, <2>5, SweepEffect
<1> QED
  BY <1>3, <1>4, <1>5, <1>6, <1>7

\* A call that goes on, or returns.
LEMMA SignalAtMove ==
  ASSUME SchedBase, SchedBase', SignalInv, NEW a \in Actors, a # Runner, NEW p, Moves(a, p), p # "signal",
         act[a].pc \in (StartPcs \cup StopPcs) \ {"signal"}, EntriesGrow, FeedsGrow(a),
         UNCHANGED <<subscribers, subscriberLock, bridge>>, blockable => blockable'
  PROVE  SignalInv'
<1>1. Others(a) /\ act'[a].pc = p
  BY DEF Moves
<1>2. a \in Feeds => act[a].pc \in StopPcs
  BY CallFacts, Names
<1> QED
  BY <1>1, <1>2, SignalFrame

LEMMA SignalAtReturn ==
  ASSUME SchedBase, SchedBase', SignalInv, NEW a \in Actors, a # Runner, NEW ok \in BOOLEAN, Return(a, ok),
         act[a].pc \in (StartPcs \cup StopPcs) \ {"signal"}, EntriesGrow,
         UNCHANGED <<feeds, subscribers, subscriberLock, bridge>>, blockable => blockable'
  PROVE  SignalInv'
<1>1. SchedType
  BY DEF SchedBase
<1>2. Others(a) /\ act'[a].pc \in {"replace", "ending", "idle"}
  BY <1>1, ReturnFacts
<1>3. a \in Feeds => act[a].pc \in StopPcs
  BY CallFacts, Names
<1>4. FeedsGrow(a)
  BY <1>1, FeedsStay
<1> QED
  BY <1>2, <1>3, <1>4, SignalFrame

LEMMA SignalAtFail ==
  ASSUME SchedBase, SchedBase', SignalInv, NEW a \in Actors, a # Runner, NEW ok \in BOOLEAN, FailAndReturn(a, ok),
         act[a].pc \in (StartPcs \cup StopPcs) \ {"signal"},
         UNCHANGED <<feeds, subscribers, subscriberLock, bridge>>, blockable => blockable'
  PROVE  SignalInv'
<1>1. act[a].ent \in Entries /\ SchedType /\ "FAILED" \in States
  BY CallFacts DEF SchedBase, States
<1>2. EntriesGrow
  BY <1>1, StateGrows DEF FailAndReturn
<1> QED
  BY <1>2, SignalAtReturn DEF FailAndReturn

\* Requests and the registry signal nobody.
LEMMA SignalAtRegistry ==
  ASSUME SchedBase, SchedBase', SignalInv, NEW a \in Actors,
         (a \in Admins /\ Request(a)) \/ Register(a) \/ Unregister(a) \/ Replace(a)
  PROVE  SignalInv'
<1>1. SchedType
  BY DEF SchedBase
<1>2. ASSUME a \in Admins, act[a].pc \in {"idle", "register", "unregister", "replace"}, Others(a),
             act'[a].pc \in {"idle", "register", "unregister", "start", "stop", "replace"},
             EntriesGrow, UNCHANGED <<feeds, natsVars, bridge, blockable>>
      PROVE  SignalInv'
  <2>1. a # Runner /\ a \notin Feeds /\ FeedsGrow(a)
    BY <1>1, <1>2, Names, FeedsStay
  <2> QED
    BY <1>2, <2>1, SignalFrame DEF natsVars
<1>3. CASE a \in Admins /\ Request(a)
  BY <1>1, <1>2, <1>3, RequestEffect, EntriesStay
<1>4. CASE Register(a)
  BY <1>1, <1>2, <1>4, RegisterEffect, EntriesStay
<1>5. CASE Unregister(a)
  BY <1>1, <1>2, <1>5, UnregisterEffect, EntriesStay
<1>6. CASE Replace(a)
  <2>1. PICK e \in Entries :
          /\ entries[e].kind = "none" /\ entries[e].feed = 0
          /\ entries' \in [Entries -> EntryRecs] /\ \A x \in Entries : x # e => entries'[x] = entries[x]
          /\ entries'[e].feed = 0 /\ act'[a].pc \in {"start", "idle"}
    BY <1>6, ReplaceEffect
  <2>2. EntriesGrow
    BY <2>1 DEF EntriesGrow
  <2> QED
    BY <1>2, <1>6, <2>1, <2>2, ReplaceEffect
<1> QED
  BY <1>3, <1>4, <1>5, <1>6

\* Nor does a Start.
LEMMA SignalAtStart ==
  ASSUME SchedBase, SchedBase', SignalInv, NEW a \in Actors,
         Start(a) \/ AddFunc(a) \/ BridgeOn(a) \/ Subscribe(a) \/ SetRunning(a)
  PROVE  SignalInv'
<1> USE DEF storeVars, regVars, natsVars, bridgeVars, historyVars
<1>1. SchedType /\ "STARTING" \in States
  BY DEF SchedBase, States
<1>2. act[a].pc \in StartPcs \ {"signal"} /\ a # Runner /\ a \in Admins /\ a \notin Feeds /\ act[a].ent \in Entries
  <2>1. act[a].pc \in StartPcs \ {"signal"}
    BY DEF Start, AddFunc, BridgeOn, Subscribe, SetRunning, StartPcs
  <2> QED
    BY <2>1, CallFacts, Names
<1>3. CASE Start(a)
  <2>1. EntriesGrow /\ FeedsGrow(a)
    BY <1>1, <1>2, <1>3, StartEffect, StateGrows, FeedsStay
  <2> QED
    BY <1>2, <1>3, <2>1, StartEffect, SignalAtMove DEF SameBut
<1>4. ASSUME NewFeed(a, "running"), UNCHANGED <<entries, subscriberLock, bridge, blockable>>,
             subscribers' = subscribers \/ subscribers' = subscribers \cup {act'[a].feed}
      PROVE  SignalInv'
  <2>1. PICK f \in FreeFeeds :
          /\ f \in Feeds /\ feeds[f].owner = 0
          /\ feeds' \in [Feeds -> FeedRecs] /\ feeds'[f].owner = act[a].ent
          /\ \A x \in Feeds : x # f => feeds'[x] = feeds[x]
          /\ Moves(a, "running") /\ act'[a].feed = f
    BY <1>1, <1>4, NewFeedFacts DEF Pcs, AdminPcs, StartPcs
  <2>2. EntriesGrow
    BY <1>1, <1>4, EntriesStay
  <2>3. entries'[act[a].ent].kind # "none" /\ act[a].ent # 0
    BY <1>2, <1>4, CallFacts, Names
  <2>4. FeedsGrow(a)
    BY <2>1, <2>3 DEF FeedsGrow
  <2>5. \A x \in subscribers' : x \in subscribers \/ feeds[x].owner = 0
    BY <1>4, <2>1
  <2>6. Others(a) /\ act'[a].pc # "signal"
    BY <2>1 DEF Moves
  <2> QED
    BY <1>2, <1>4, <2>2, <2>4, <2>5, <2>6, SignalFrame
<1>5. CASE AddFunc(a)
  <2>1. UNCHANGED <<subscribers, subscriberLock, bridge, blockable>>
    BY <1>5 DEF AddFunc
  <2>2. ASSUME FailAndReturn(a, FALSE), UNCHANGED feeds PROVE SignalInv'
    BY <1>2, <2>1, <2>2, SignalAtFail
  <2> QED
    BY <1>4, <1>5, <2>1, <2>2 DEF AddFunc
<1>6. CASE BridgeOn(a)
  <2>1. UNCHANGED <<feeds, subscribers, subscriberLock, bridge, blockable>>
    BY <1>6 DEF BridgeOn
  <2>2. ASSUME Goto(a, "subscribe"), entries' = entries PROVE SignalInv'
    <3>1. Goto(a, "subscribe") /\ entries' = entries /\ "subscribe" \in Pcs
      BY <2>2 DEF Pcs, AdminPcs, StartPcs
    <3>2. SameBut(a, "subscribe") /\ EntriesGrow /\ FeedsGrow(a)
      BY <1>1, <2>1, <3>1, GotoFacts, EntriesStay, FeedsStay
    <3> QED
      BY <1>2, <2>1, <3>2, SignalAtMove DEF SameBut
  <2>3. ASSUME FailAndReturn(a, FALSE) PROVE SignalInv'
    BY <1>2, <2>1, <2>3, SignalAtFail
  <2>4. ASSUME Return(a, FALSE), entries' = entries PROVE SignalInv'
    BY <1>1, <1>2, <2>1, <2>4, EntriesStay, SignalAtReturn
  <2> QED
    BY <1>6, <2>2, <2>3, <2>4 DEF BridgeOn
<1>7. CASE Subscribe(a)
  <2>1. UNCHANGED <<subscriberLock, bridge, blockable>>
    BY <1>7 DEF Subscribe
  <2>2. ASSUME FailAndReturn(a, TRUE), UNCHANGED <<feeds, subscribers>> PROVE SignalInv'
    BY <1>2, <2>1, <2>2, SignalAtFail
  <2>3. ASSUME NewFeed(a, "running"), subscribers' = subscribers \cup {act'[a].feed}, UNCHANGED entries
        PROVE  SignalInv'
    BY <1>4, <2>1, <2>3
  <2> QED
    BY <1>7, <2>2, <2>3 DEF Subscribe
<1>8. CASE SetRunning(a)
  <2>1. /\ act[a].feed \in Feeds /\ feeds[act[a].feed].owner = act[a].ent
        /\ entries' \in [Entries -> EntryRecs] /\ entries'[act[a].ent].feed = act[a].feed
        /\ \A x \in Entries : entries'[x].kind = entries[x].kind /\ (x # act[a].ent => entries'[x] = entries[x])
        /\ Return(a, TRUE) /\ UNCHANGED <<feeds, subscribers, subscriberLock, bridge, blockable>>
    BY <1>8, SetRunningEffect
  <2>2. EntriesGrow
    BY <2>1, Names DEF EntriesGrow
  <2> QED
    BY <1>2, <2>1, <2>2, SignalAtReturn
<1> QED
  BY <1>3, <1>5, <1>6, <1>7, <1>8

\* Nor does a Stop, but for Signal.
LEMMA SignalAtStop ==
  ASSUME SchedBase, SchedBase', SignalInv, NEW a \in Actors,
         \/ Stop(a) \/ RemoveCron(a) \/ BridgeOff(a) \/ Unsubscribe(a)
         \/ SetStopped(a) \/ CheckStopped(a) \/ Restore(a)
  PROVE  SignalInv'
<1> USE DEF storeVars, regVars, natsVars, bridgeVars, historyVars
<1>1. SchedType /\ "STOPPING" \in States /\ "STOP" \in States /\ act[a] \in Acts
  BY DEF SchedBase, SchedType, States
<1>2. act[a].pc \in StopPcs \ {"signal"} /\ a # Runner /\ act[a].ent \in Entries
  <2>1. act[a].pc \in StopPcs \ {"signal"}
    BY DEF Stop, RemoveCron, BridgeOff, Unsubscribe, SetStopped, CheckStopped, Restore, StopPcs
  <2>2. a # Runner
    BY <2>1, CallFacts DEF StopPcs, RunnerPcs
  <2> QED
    BY <2>1, <2>2, CallFacts
<1>3. CASE Stop(a)
  <2>1. EntriesGrow /\ FeedsGrow(a)
    BY <1>1, <1>2, <1>3, StopEffect, StateGrows, FeedsStay
  <2>2. PICK p \in {"remove", "stopped", "bridgeOff"} : SameBut(a, p)
    BY <1>3, StopEffect
  <2> QED
    BY <1>2, <1>3, <2>1, <2>2, StopEffect, SignalAtMove DEF SameBut
<1>4. CASE RemoveCron(a)
  <2>1. /\ SameBut(a, "stopped") /\ feeds' \in [Feeds -> FeedRecs]
        /\ \A x \in Feeds : /\ feeds'[x].owner = feeds[x].owner
                            /\ x # entries[act[a].ent].feed => feeds'[x] = feeds[x]
                            /\ x = entries[act[a].ent].feed => KindOf(x) = "TIMER"
        /\ UNCHANGED <<entries, subscribers, subscriberLock, bridge, blockable>>
    BY <1>4, RemoveCronEffect
  <2>2. EntriesGrow
    BY <1>1, <2>1, EntriesStay
  <2>3. FeedsGrow(a)
    BY <2>1 DEF FeedsGrow, KindOf
  <2> QED
    BY <1>2, <2>1, <2>2, <2>3, SignalAtMove DEF SameBut
<1>5. ASSUME NEW p \in Pcs, p # "signal", Goto(a, p), UNCHANGED <<entries, feeds, subscribers, subscriberLock, bridge, blockable>>
      PROVE  SignalInv'
  <2>1. SameBut(a, p) /\ EntriesGrow /\ FeedsGrow(a)
    BY <1>1, <1>5, GotoFacts, EntriesStay, FeedsStay
  <2> QED
    BY <1>2, <1>5, <2>1, SignalAtMove DEF SameBut
<1>6. CASE BridgeOff(a)
  <2>1. ASSUME bridge.registered PROVE SignalInv'
    <3>1. Goto(a, "unsubscribe") /\ "unsubscribe" \in Pcs /\ UNCHANGED <<entries, feeds, subscribers, subscriberLock, bridge, blockable>>
      BY <1>6, <2>1 DEF BridgeOff, Pcs, AdminPcs, StopPcs
    <3> QED
      BY <1>5, <3>1
  <2>2. ASSUME ~bridge.registered PROVE SignalInv'
    BY <1>2, <1>6, <2>2, SignalAtFail DEF BridgeOff
  <2> QED
    BY <2>1, <2>2
<1>7. CASE Unsubscribe(a)
  <2>1. ASSUME bridge.connected PROVE SignalInv'
    <3>1. Goto(a, "locked") /\ "locked" \in Pcs /\ UNCHANGED <<entries, feeds, subscribers, subscriberLock, bridge, blockable>>
      BY <1>7, <2>1 DEF Unsubscribe, Pcs, AdminPcs, StopPcs
    <3> QED
      BY <1>5, <3>1
  <2>2. ASSUME ~bridge.connected PROVE SignalInv'
    BY <1>2, <1>7, <2>2, SignalAtFail DEF Unsubscribe
  <2> QED
    BY <2>1, <2>2
<1>8. CASE SetStopped(a)
  <2>1. /\ SetState(act[a].ent, "STOP") /\ (SameBut(a, "check") \/ Return(a, TRUE))
        /\ UNCHANGED <<feeds, subscribers, subscriberLock, bridge, blockable>>
    BY <1>8, SetStoppedEffect
  <2>2. EntriesGrow /\ FeedsGrow(a)
    BY <1>1, <1>2, <2>1, StateGrows, FeedsStay
  <2>3. SameBut(a, "check") => SignalInv'
    BY <1>2, <2>1, <2>2, SignalAtMove DEF SameBut
  <2> QED
    BY <1>2, <2>1, <2>2, <2>3, SignalAtReturn
<1>9. CASE CheckStopped(a)
  <2>1. /\ SameBut(a, "restore") \/ Return(a, TRUE)
        /\ UNCHANGED <<entries, feeds, subscribers, subscriberLock, bridge, blockable>>
    BY <1>9, CheckStoppedEffect
  <2>2. EntriesGrow /\ FeedsGrow(a)
    BY <1>1, <2>1, EntriesStay, FeedsStay
  <2>3. SameBut(a, "restore") => SignalInv'
    BY <1>2, <2>1, <2>2, SignalAtMove DEF SameBut
  <2> QED
    BY <1>2, <2>1, <2>2, <2>3, SignalAtReturn
<1>10. CASE Restore(a)
  <2>1. /\ SetState(act[a].ent, act[a].prev) /\ act[a].prev \in States /\ Return(a, TRUE)
        /\ UNCHANGED <<feeds, subscribers, subscriberLock, bridge, blockable>>
    BY <1>10, RestoreEffect
  <2>2. EntriesGrow
    BY <1>1, <1>2, <2>1, StateGrows
  <2> QED
    BY <1>2, <2>1, <2>2, SignalAtReturn
<1> QED
  BY <1>3, <1>4, <1>6, <1>7, <1>8, <1>9, <1>10

\* What a goroutine of cron does, which no subscription is.
LEMMA SignalAtJob ==
  ASSUME SchedBase, SchedBase', SignalInv, NEW a \in Jobs, Others(a), EntriesGrow,
         act[a].pc # "signal", act'[a].pc # "signal",
         UNCHANGED <<feeds, subscribers, subscriberLock, bridge>>, blockable => blockable'
  PROVE  SignalInv'
<1>1. a \in Actors /\ a # Runner /\ a \notin Feeds /\ SchedType
  BY Names DEF SchedBase
<1>2. FeedsGrow(a)
  BY <1>1, FeedsStay
<1> QED
  BY <1>1, <1>2, SignalFrame

\* What a goroutine that runs the task does to its signals.
LEMMA SignalAtTask ==
  ASSUME SchedBase, SchedBase', SignalInv, NEW a \in Jobs \cup Feeds, TaskStep(a)
  PROVE  SignalInv'
<1>1. /\ SchedType /\ act[a].pc = "run" /\ act[a].ent \in Entries /\ "FAILED" \in States
      /\ a \in Feeds => feeds[a].live /\ KindOf(a) = "NATS" /\ entries[act[a].ent].kind = "NATS"
  BY TaskFacts, Names DEF SchedBase, TaskStep, TaskEnds, TaskFails, States
<1>2. CASE TaskEnds(a)
  <2>1. /\ Others(a) /\ act'[a].pc \in {"ending", "idle"}
        /\ act'[a].pc = "ending" <=> (a \in Feeds /\ ~bridge.alive)
        /\ UNCHANGED <<entries, feeds, subscribers, subscriberLock, bridge, blockable>>
    BY <1>2, TaskEndsEffect
  <2>2. EntriesGrow /\ \A x \in Feeds : KindOf(x)' = KindOf(x)
    BY <1>1, <2>1, EntriesStay DEF KindOf
  <2>3. a \in Feeds /\ ~blockable => bridge.alive
    BY <1>1 DEF SignalInv
  <2>4. CASE a \in Jobs
    BY <1>1, <2>1, <2>2, <2>4, SignalAtJob
  <2>5. CASE a \in Feeds
    BY <1>1, <2>1, <2>2, <2>3, <2>5, SignalFeed
  <2> QED
    BY <2>4, <2>5
<1>3. CASE TaskFails(a)
  <2>1. /\ SetState(act[a].ent, "FAILED") /\ blockable' = (blockable \/ entries[act[a].ent].kind = "NATS")
        /\ Others(a) /\ act'[a].pc = "stop" /\ UNCHANGED <<feeds, subscribers, subscriberLock, bridge>>
    BY <1>3, TaskFailsEffect
  <2>2. EntriesGrow
    BY <1>1, <2>1, StateGrows
  <2>3. \A x \in Feeds : KindOf(x)' = KindOf(x)
    <3>1. \A x \in Entries : entries'[x].kind = entries[x].kind
      BY <1>1, <2>1, SetStateFacts
    <3>2. \A x \in Feeds : feeds[x].owner # 0 => feeds[x].owner \in Entries
      BY <1>1, Names DEF SchedType, FeedRecs
    <3> QED
      BY <2>1, <3>1, <3>2 DEF KindOf
  <2>4. CASE a \in Jobs
    BY <1>1, <2>1, <2>2, <2>4, SignalAtJob
  <2>5. CASE a \in Feeds
    BY <1>1, <2>1, <2>3, <2>5, SignalFeed
  <2> QED
    BY <2>4, <2>5
<1> QED
  BY <1>2, <1>3 DEF TaskStep

\* What calls a task, or ends a subscription, signals nobody.
LEMMA SignalAtFeed ==
  ASSUME SchedBase, SchedBase', SignalInv, NEW f \in Feeds,
         RunTask(f) \/ EndSubscription(f) \/ \E a \in Jobs : Tick(a, f)
  PROVE  SignalInv'
<1>1. SchedType
  BY DEF SchedBase
<1>2. CASE RunTask(f)
  <2>1. /\ act[f].pc = "idle" /\ feeds[f].live /\ Others(f) /\ act'[f].pc = "run"
        /\ blockable' = (blockable \/ ~bridge.alive)
        /\ UNCHANGED <<entries, feeds, subscribers, subscriberLock, bridge>>
    BY <1>2, RunTaskEffect
  <2>2. \A x \in Feeds : KindOf(x)' = KindOf(x)
    BY <2>1 DEF KindOf
  <2> QED
    BY <2>1, <2>2, SignalFeed
<1>3. CASE EndSubscription(f)
  <2>1. /\ act[f].pc = "ending" /\ SameBut(f, "idle") /\ feeds'[f].owner = feeds[f].owner
        /\ \A x \in Feeds : x # f => feeds'[x] = feeds[x]
        /\ UNCHANGED <<entries, subscribers, subscriberLock, bridge, blockable>>
    BY <1>3, EndEffect
  <2>2. Others(f) /\ act'[f].pc = "idle" /\ \A x \in Feeds : KindOf(x)' = KindOf(x)
    BY <2>1 DEF SameBut, Moves, KindOf
  <2> QED
    BY <2>1, <2>2, SignalFeed
<1>4. ASSUME NEW a \in Jobs, Tick(a, f) PROVE SignalInv'
  <2>1. /\ act[a].pc = "idle" /\ Others(a) /\ act'[a].pc = "run"
        /\ UNCHANGED <<entries, feeds, subscribers, subscriberLock, bridge, blockable>>
    BY <1>4, TickEffect
  <2>2. EntriesGrow
    BY <1>1, <2>1, EntriesStay
  <2> QED
    BY <2>1, <2>2, SignalAtJob
<1> QED
  BY <1>2, <1>3, <1>4

\* SignalInv is kept by every step.
LEMMA SignalStep ==
  ASSUME SchedBase, SignalInv, [SchedNext]_schedVars
  PROVE  SignalInv'
<1>1. SchedBase'
  BY SchedBaseStep
<1>2. ASSUME NEW a \in Admins, Request(a) PROVE SignalInv'
  BY <1>1, <1>2, Names, SignalAtRegistry
<1>3. ASSUME NEW a \in Actors, Step(a) \/ LockedStep(a) PROVE SignalInv'
  BY <1>1, <1>3, SignalAtRegistry, SignalAtStart, SignalAtStop, SignalAtLock, SignalAtSignal
     DEF Step, LockedStep
<1>4. ASSUME NEW a \in Jobs \cup Feeds, TaskStep(a) PROVE SignalInv'
  BY <1>1, <1>4, SignalAtTask
<1>5. ASSUME NEW f \in Feeds, RunTask(f) \/ EndSubscription(f) \/ \E a \in Jobs : Tick(a, f) PROVE SignalInv'
  BY <1>1, <1>5, SignalAtFeed
<1>6. CASE UNCHANGED schedVars
  BY <1>6 DEF schedVars, SignalInv, SignalAnswered, KindOf
<1> QED
  BY <1>2, <1>3, <1>4, <1>5, <1>6, SignalAtBridge DEF SchedNext
-----------------------------------------------------------------------------
(* Who runs *)

\* The entry of a call, of a feed, and of whoever is registered.
LEMMA RunFacts ==
  ASSUME SchedBase
  PROVE  /\ \A b \in Actors : act[b].pc \in LateStart => b # Runner /\ b \in Admins
         /\ \A b \in Actors : act[b].pc \in StartPcs => b # Runner
         /\ \A b \in Actors : b # Runner /\ act[b].pc \in StartPcs \cup StopPcs => act[b].ent \in Entries
         /\ \A f \in Feeds : Feeding(f) => feeds[f].owner \in Entries
         /\ \A f \in Feeds : feeds[f].owner \in 0..MaxEntry /\ (feeds[f].owner # 0 => feeds[f].owner \in Entries)
         /\ registry # 0 => registry \in Entries
         /\ \A x \in Entries : entries[x].feed # 0 => entries[x].feed \in Feeds /\ feeds[entries[x].feed].owner = x
         /\ \A b \in Actors : act[b].pc = "running" => act[b].feed \in Feeds /\ feeds[act[b].feed].owner = act[b].ent
         /\ \A b \in Actors : act[b].pc = "replace" \/ (b # Runner /\ act[b].pc \in StopPcs /\ act[b].then = "replace")
                                => registryLock = b
         /\ \A b \in Actors : b # Runner /\ act[b].pc \in StopPcs /\ act[b].then = "replace" => act[b].ent = registry
         /\ act[Runner].pc \in RunnerPcs /\ act[Runner].then = "reply"
<1>1. SchedType /\ Owners /\ Runner \in Actors
  BY Names DEF SchedBase
<1>2. \A b \in Actors : act[b].pc \in StartPcs => b # Runner /\ b \in Admins
  BY CallFacts, Names
<1>3. \A b \in Actors : b # Runner /\ act[b].pc \in StartPcs \cup StopPcs => act[b].ent \in Entries
  BY CallFacts
<1>4. \A f \in Feeds : feeds[f].owner \in 0..MaxEntry /\ (feeds[f].owner # 0 => feeds[f].owner \in Entries)
  BY <1>1, Names DEF SchedType, FeedRecs
<1>5. \A f \in Feeds : Feeding(f) => feeds[f].owner # 0
  BY Names DEF SchedBase, Local, FeedOf, Feeding
<1>6. registry # 0 => registry \in Entries
  BY <1>1, Names DEF SchedType
<1>7. \A x \in Entries : entries[x].feed # 0 => entries[x].feed \in Feeds /\ feeds[entries[x].feed].owner = x
  BY <1>1, Names DEF SchedType, EntryRecs, Owners
<1>8. \A b \in Actors : act[b].pc = "running" => act[b].feed \in Feeds /\ feeds[act[b].feed].owner = act[b].ent
  BY <1>1, Names DEF SchedBase, SchedType, Acts, Local, CallOf
<1>9. \A b \in Actors : LockOf(b)
  BY DEF SchedBase, Local
<1>10. act[Runner].pc \in RunnerPcs /\ act[Runner].then = "reply"
  BY <1>1 DEF SchedBase, Local, RoleOf
<1> QED
  BY <1>2, <1>3, <1>4, <1>5, <1>6, <1>7, <1>8, <1>9, <1>10 DEF LockOf, LateStart, StartPcs, StopPcs

\* Steps outside of Start and Stop leave everything that runs as it is.
Calm == {"idle", "register", "unregister", "replace", "start", "run", "ending"}

LEMMA RunFrame ==
  ASSUME SchedBase, SchedBase', RunParts, UNCHANGED <<entries, registry>>,
         \A f \in Feeds : feeds'[f].owner = feeds[f].owner /\ (Feeding(f)' <=> Feeding(f)),
         \A b \in Actors : \/ act'[b] = act[b]
                           \/ b = Runner
                           \/ act[b].pc \in Calm /\ act'[b].pc \in Calm \cup {"stop"},
         NoBridge', Replaces'
  PROVE  RunParts'
<1>1. act'[Runner].pc \in RunnerPcs
  BY Names DEF SchedBase, Local, RoleOf
<1>2. \A b \in Actors : act'[b].pc \in LateStart => act'[b] = act[b]
  BY <1>1 DEF LateStart, Calm, RunnerPcs
<1>3. \A b \in Actors : b # Runner /\ act'[b].pc \in LateStop => act'[b] = act[b]
  BY DEF LateStop, Calm
<1>4. StartAlone'
  <2>1. ASSUME NEW a \in Actors, act'[a].pc \in LateStart
        PROVE  Alone(a)'
    <3>1. act'[a] = act[a]
      BY <1>2, <2>1
    <3>2. \A b \in Actors \ {a, Runner} : act'[b].ent = act'[a].ent => act'[b].pc \notin LateStart \cup LateStop
      BY <1>2, <1>3, <2>1, <3>1 DEF RunParts, StartAlone, Alone
    <3> QED
      BY <2>1, <3>1, <3>2 DEF RunParts, StartAlone, Alone
  <2> QED
    BY <2>1 DEF StartAlone
<1>5. StopWorks'
  BY <1>3 DEF RunParts, StopWorks
<1>6. FeedsKept'
  <2>1. ASSUME NEW f \in Feeds, Feeding(f)' PROVE Kept(f)'
    <3>1. Kept(f)
      BY <2>1 DEF RunParts, FeedsKept
    <3>2. \A b \in Actors : act[b].pc = "running" => act'[b] = act[b]
      BY RunFacts DEF Calm, StartPcs
    <3>3. \A b \in Actors \ {Runner} : act[b].pc \in StopPcs => act'[b] = act[b]
      BY DEF Calm, StopPcs
    <3> QED
      BY <3>1, <3>2, <3>3 DEF Kept
  <2> QED
    BY <2>1 DEF FeedsKept
<1>7. Runs'
  BY RunFacts DEF RunParts, Runs
<1>8. Silent'
  BY DEF RunParts, Silent
<1> QED
  BY <1>4, <1>5, <1>6, <1>7, <1>8 DEF RunParts

LEMMA KindsSame ==
  ASSUME SchedBase, \A x \in Entries : entries'[x].kind = entries[x].kind,
         \A f \in Feeds : feeds'[f].owner = feeds[f].owner
  PROVE  \A f \in Feeds : KindOf(f)' = KindOf(f)
BY RunFacts DEF KindOf

\* A call that ends: nothing feeds its entry any more, and the entry is not said to run; a Start
\* may leave it STARTING.
LEMMA QuietStep ==
  ASSUME SchedBase, SchedBase', RunParts, NEW a \in Actors, a # Runner, NEW e \in Entries, act[a].ent = e,
         act[a].pc \in (StartPcs \cup StopPcs) \ {"running"},
         \A b \in Actors : b # a => act'[b] = act[b] \/ (act[b].pc = "idle" /\ act'[b].pc = "ending"),
         act'[a].pc \in {"idle", "replace", "check", "stopped", "restore"},
         act'[a].pc \in {"check", "stopped", "restore"} =>
           act[a].pc \in StopPcs /\ act'[a].ent = e /\ act'[a].then = act[a].then,
         act'[a].pc = "replace" => act[a].pc \in StopPcs /\ act[a].then = "replace",
         \A b \in Actors : b # a /\ act[b].pc \in LateStart => act[b].ent # e,
         \A x \in Entries : /\ entries'[x].kind = entries[x].kind /\ entries'[x].feed = entries[x].feed
                            /\ x # e => entries'[x] = entries[x],
         entries'[e].state # "RUNNING",
         entries'[e].state = "STARTING" => entries[e].state = "STARTING" /\ act'[a].pc = "idle",
         \A f \in Feeds : /\ feeds'[f].owner = feeds[f].owner /\ (feeds'[f].live => feeds[f].live)
                          /\ Feeding(f)' <=> (Feeding(f) /\ feeds[f].owner # e),
         registry' = registry \/ (registry' = 0 /\ registry = e /\ registryLock = a),
         bridge'.registered = bridge.registered
  PROVE  RunParts'
<1>1. \A b \in Actors : b # a /\ act'[b].pc \notin {"ending"} => act'[b] = act[b]
  OBVIOUS
<1>2. ASSUME NEW c \in Actors, act'[c].pc \in LateStart
      PROVE  /\ c # a /\ act'[c] = act[c] /\ act[c].pc \in LateStart /\ c # Runner
             /\ act[c].ent \in Entries /\ act[c].ent # e /\ act[c].ent = registry /\ registry' = registry
  <2>1. c # a /\ act'[c] = act[c]
    BY <1>1, <1>2 DEF LateStart
  <2>2. c # Runner /\ act[c].ent \in Entries /\ act[c].ent # e
    BY <1>2, <2>1, RunFacts DEF LateStart, StartPcs
  <2>3. act[c].ent = registry
    BY <1>2, <2>1 DEF RunParts, StartAlone, Alone
  <2> QED
    BY <1>2, <2>1, <2>2, <2>3
<1>3. StartAlone'
  <2>1. ASSUME NEW c \in Actors, act'[c].pc \in LateStart PROVE Alone(c)'
    <3>1. /\ c # a /\ act'[c] = act[c] /\ act[c].pc \in LateStart /\ c # Runner
          /\ act[c].ent \in Entries /\ act[c].ent # e /\ act[c].ent = registry /\ registry' = registry
      BY <1>2, <2>1
    <3>2. Alone(c) /\ entries'[act[c].ent] = entries[act[c].ent]
      BY <3>1 DEF RunParts, StartAlone
    <3>3. ASSUME NEW b \in Actors \ {c, Runner}, act'[b].ent = act'[c].ent
          PROVE  act'[b].pc \notin LateStart \cup LateStop
      <4>1. CASE b = a
        BY <3>1, <3>3, <4>1 DEF LateStart, LateStop
      <4>2. CASE b # a
        BY <3>1, <3>2, <3>3, <4>2 DEF Alone, LateStart, LateStop
      <4> QED
        BY <4>1, <4>2
    <3>4. \A f \in Feeds : Feeding(f)' /\ feeds'[f].owner = act'[c].ent => act'[c].pc = "running" /\ f = act'[c].feed
      BY <3>1, <3>2 DEF Alone
    <3>5. act'[c].pc = "running" => \E f \in Feeds : f = act'[c].feed /\ Feeding(f)' /\ entries'[act'[c].ent].feed # f
      <4>1. ASSUME act[c].pc = "running"
            PROVE  \E f \in Feeds : f = act'[c].feed /\ Feeding(f)' /\ entries'[act'[c].ent].feed # f
        <5>1. PICK f \in Feeds : f = act[c].feed /\ Feeding(f) /\ entries[act[c].ent].feed # f
          BY <3>2, <4>1 DEF Alone
        <5>2. feeds[f].owner = act[c].ent
          BY <4>1, <5>1, RunFacts
        <5> QED
          BY <3>1, <3>2, <5>1, <5>2
      <4> QED
        BY <3>1, <4>1
    <3> QED
      BY <3>1, <3>2, <3>3, <3>4, <3>5 DEF Alone
  <2> QED
    BY <2>1 DEF StartAlone
<1>4. StopWorks'
  <2>1. ASSUME NEW c \in Actors \ {Runner}, act'[c].pc \in LateStop
        PROVE  /\ entries'[act'[c].ent].state \notin {"RUNNING", "STARTING"}
               /\ act'[c].pc \in {"stopped", "check", "restore"} => \A f \in Feeds : Feeding(f)' => feeds'[f].owner # act'[c].ent
               /\ act'[c].pc = "signal" => act'[c].feed = entries'[act'[c].ent].feed
    <3>1. CASE c = a
      BY <2>1, <3>1 DEF LateStop
    <3>2. CASE c # a
      <4>1. act'[c] = act[c] /\ act[c].pc \in LateStop
        BY <1>1, <2>1, <3>2 DEF LateStop
      <4>2. act[c].ent \in Entries
        BY <4>1, RunFacts DEF LateStop, StopPcs
      <4>3. entries[act[c].ent].state \notin {"RUNNING", "STARTING"}
        BY <4>1 DEF RunParts, StopWorks
      <4>4. entries'[act[c].ent].state \notin {"RUNNING", "STARTING"}
        BY <4>2, <4>3
      <4> QED
        BY <4>1, <4>2, <4>4 DEF RunParts, StopWorks
    <3> QED
      BY <3>1, <3>2
  <2> QED
    BY <2>1 DEF StopWorks
<1>5. Replaces'
  <2> DEFINE replaces(c) == act[c].pc = "replace" \/ (act[c].pc \in StopPcs /\ act[c].then = "replace")
  <2>1. ASSUME NEW c \in Actors, act'[c].pc = "replace" \/ (act'[c].pc \in StopPcs /\ act'[c].then = "replace")
        PROVE  /\ registry # 0 => (registry' = registry \/ c = a)
               /\ c = a => registry = e
               /\ c # a => registry' = registry /\ act'[c] = act[c]
               /\ \A b \in Actors : act[b].pc \in StartPcs => act[b].ent # registry
    <3>1. CASE c = a
      <4>1. act[a].pc \in StopPcs /\ act[a].then = "replace"
        BY <2>1, <3>1 DEF StopPcs
      <4>2. registry = e
        BY <4>1, RunFacts
      <4> QED
        BY <3>1, <4>1, <4>2 DEF RunParts, Replaces
    <3>2. CASE c # a
      <4>1. act'[c] = act[c]
        BY <1>1, <2>1, <3>2 DEF StopPcs
      <4>2. c # Runner \/ act[c].pc # "replace"
        BY RunFacts DEF RunnerPcs
      <4>3. act[Runner].then # "replace"
        BY RunFacts
      <4>4. registryLock = c
        BY <2>1, <4>1, <4>3, RunFacts
      <4> QED
        BY <2>1, <3>2, <4>1, <4>4 DEF RunParts, Replaces
    <3> QED
      BY <3>1, <3>2
  <2>2. ASSUME NEW c \in Actors, act'[c].pc = "replace" \/ (act'[c].pc \in StopPcs /\ act'[c].then = "replace"),
               NEW b \in Actors, act'[b].pc \in StartPcs
        PROVE  act'[b].ent # registry'
    <3>1. b # a /\ act'[b] = act[b] /\ act[b].ent \in Entries /\ act[b].ent # 0
      BY <1>1, <2>2, RunFacts, Names DEF StartPcs
    <3> QED
      BY <2>1, <2>2, <3>1
  <2>3. ASSUME NEW c \in Actors, act'[c].pc = "replace", act'[c].kind = "TIMER", registry' # 0
        PROVE  entries'[registry'].state # "RUNNING"
    <3>1. registry' = registry /\ registry \in Entries
      BY <2>3, RunFacts
    <3>2. CASE c = a
      BY <2>1, <2>3, <3>1, <3>2
    <3>3. CASE c # a
      <4>1. act'[c] = act[c]
        BY <2>1, <2>3, <3>3
      <4>2. entries[registry].state # "RUNNING"
        BY <2>3, <3>1, <4>1 DEF RunParts, Replaces
      <4> QED
        BY <3>1, <4>2
    <3> QED
      BY <3>2, <3>3
  <2> QED
    BY <2>2, <2>3 DEF Replaces
<1>6. FeedsKept'
  <2>1. ASSUME NEW f \in Feeds, Feeding(f)' PROVE Kept(f)'
    <3>1. Feeding(f) /\ feeds[f].owner # e /\ feeds[f].owner \in Entries /\ Kept(f)
      BY <2>1, RunFacts DEF RunParts, FeedsKept
    <3>2. \A b \in Actors : act[b].pc = "running" => act'[b] = act[b]
      OBVIOUS
    <3>3. \A b \in Actors \ {Runner} : act[b].pc \in StopPcs /\ act[b].ent = feeds[f].owner => act'[b] = act[b]
      BY <3>1 DEF StopPcs
    <3>4. entries'[feeds[f].owner] = entries[feeds[f].owner]
      BY <3>1
    <3> QED
      BY <3>1, <3>2, <3>3, <3>4 DEF Kept
  <2> QED
    BY <2>1 DEF FeedsKept
<1>7. Runs'
  <2>1. ASSUME NEW x \in Entries, entries'[x].state = "RUNNING"
        PROVE  \E f \in Feeds : f = entries'[x].feed /\ Feeding(f)'
    <3>1. x # e /\ entries'[x] = entries[x]
      BY <2>1
    <3>2. PICK f \in Feeds : f = entries[x].feed /\ Feeding(f)
      BY <2>1, <3>1 DEF RunParts, Runs
    <3>3. feeds[f].owner = x
      BY <3>2, RunFacts, Names
    <3> QED
      BY <3>1, <3>2, <3>3
  <2> QED
    BY <2>1 DEF Runs
<1>8. NoBridge'
  <2>1. \A f \in Feeds : KindOf(f)' = KindOf(f)
    BY KindsSame
  <2>2. \A b \in Actors : act'[b].pc = "subscribe" => act[b].pc = "subscribe"
    BY <1>1
  <2> QED
    BY <2>1, <2>2 DEF RunParts, NoBridge
<1>9. Silent'
  BY RunFacts DEF RunParts, Silent
<1> QED
  BY <1>3, <1>4, <1>5, <1>6, <1>7, <1>8, <1>9 DEF RunParts

\* A call that stops an entry, as long as the feed of the entry may still feed.
LEMMA StopsStep ==
  ASSUME SchedBase, SchedBase', RunParts, NEW a \in Actors, a # Runner, NEW e \in Entries, Others(a),
         act[a].pc = "run" \/ (act[a].pc \in StopPcs \ {"stopped", "check", "restore"} /\ act[a].ent = e),
         act'[a].pc \in StopPcs \ {"stopped", "check", "restore"}, act'[a].ent = e,
         act'[a].then = "next" \/ (act[a].pc \in StopPcs /\ act'[a].then = act[a].then),
         act'[a].pc = "signal" => act'[a].feed = entries[e].feed,
         \A x \in Entries : /\ entries'[x].kind = entries[x].kind /\ entries'[x].feed = entries[x].feed
                            /\ x # e => entries'[x] = entries[x],
         entries'[e].state \notin {"RUNNING", "STARTING"},
         entries'[e].state = "STOP" => entries[e].state = "STOP",
         \A b \in Actors : act[b].pc \in LateStart /\ act[b].ent = e =>
           entries'[e].state = "FAILED" /\ act'[a].pc = "stop",
         UNCHANGED <<feeds, registry, bridge>>
  PROVE  RunParts'
<1>1. \A b \in Actors : b # a => act'[b] = act[b]
  BY DEF Others
<1>2. \A f \in Feeds : Feeding(f)' <=> Feeding(f)
  <2>1. act[a].pc # "ending" /\ act'[a].pc # "ending"
    BY DEF StopPcs
  <2> QED
    BY <1>1, <2>1, Names DEF Feeding
<1>3. StartAlone'
  <2>1. ASSUME NEW c \in Actors, act'[c].pc \in LateStart PROVE Alone(c)'
    <3>1. c # a /\ act'[c] = act[c] /\ act[c].pc \in LateStart /\ act[c].ent \in Entries
      BY <1>1, <2>1, RunFacts DEF LateStart, StartPcs, StopPcs
    <3>2. Alone(c)
      BY <3>1 DEF RunParts, StartAlone
    <3>3. entries'[act[c].ent].state \in {"STARTING", "FAILED"} /\ entries'[act[c].ent].feed = entries[act[c].ent].feed
      BY <3>1, <3>2 DEF Alone
    <3>4. ASSUME NEW b \in Actors \ {c, Runner}, act'[b].ent = act'[c].ent
          PROVE  act'[b].pc \notin LateStart \cup LateStop
      <4>1. CASE b = a
        BY <3>1, <3>4, <4>1 DEF LateStart, LateStop
      <4>2. CASE b # a
        BY <1>1, <3>1, <3>2, <3>4, <4>2 DEF Alone
      <4> QED
        BY <4>1, <4>2
    <3> QED
      BY <1>2, <3>1, <3>2, <3>3, <3>4 DEF Alone
  <2> QED
    BY <2>1 DEF StartAlone
<1>4. StopWorks'
  <2>1. ASSUME NEW c \in Actors \ {Runner}, act'[c].pc \in LateStop
        PROVE  /\ entries'[act'[c].ent].state \notin {"RUNNING", "STARTING"}
               /\ act'[c].pc \in {"stopped", "check", "restore"} => \A f \in Feeds : Feeding(f)' => feeds'[f].owner # act'[c].ent
               /\ act'[c].pc = "signal" => act'[c].feed = entries'[act'[c].ent].feed
    <3>1. CASE c = a
      BY <2>1, <3>1 DEF LateStop
    <3>2. CASE c # a
      <4>1. act'[c] = act[c] /\ act[c].pc \in LateStop
        BY <1>1, <2>1, <3>2
      <4>2. act[c].ent \in Entries
        BY <4>1, RunFacts DEF LateStop, StopPcs
      <4>3. entries[act[c].ent].state \notin {"RUNNING", "STARTING"}
        BY <4>1 DEF RunParts, StopWorks
      <4>4. entries'[act[c].ent].state \notin {"RUNNING", "STARTING"}
        BY <4>2, <4>3
      <4> QED
        BY <1>2, <4>1, <4>2, <4>4 DEF RunParts, StopWorks
    <3> QED
      BY <3>1, <3>2
  <2> QED
    BY <2>1 DEF StopWorks
<1>5. Replaces'
  <2>1. ASSUME NEW c \in Actors, act'[c].pc = "replace" \/ (act'[c].pc \in StopPcs /\ act'[c].then = "replace"),
               NEW b \in Actors, act'[b].pc \in StartPcs
        PROVE  act'[b].ent # registry'
    <3>1. b # a /\ act'[b] = act[b]
      BY <1>1, <2>1 DEF StartPcs, StopPcs
    <3>2. act[c].pc = "replace" \/ (act[c].pc \in StopPcs /\ act[c].then = "replace")
      BY <1>1, <2>1 DEF StopPcs
    <3> QED
      BY <2>1, <3>1, <3>2 DEF RunParts, Replaces
  <2>2. ASSUME NEW c \in Actors, act'[c].pc = "replace", act'[c].kind = "TIMER", registry' # 0
        PROVE  entries'[registry'].state # "RUNNING"
    <3>1. act'[c] = act[c] /\ registry \in Entries
      BY <1>1, <2>2, RunFacts DEF StopPcs
    <3>2. entries[registry].state # "RUNNING"
      BY <2>2, <3>1 DEF RunParts, Replaces
    <3> QED
      BY <3>1, <3>2
  <2> QED
    BY <2>1, <2>2 DEF Replaces
<1>6. FeedsKept'
  <2>1. ASSUME NEW f \in Feeds, Feeding(f)' PROVE Kept(f)'
    <3>1. Feeding(f) /\ feeds[f].owner \in Entries /\ Kept(f)
      BY <1>2, <2>1, RunFacts DEF RunParts, FeedsKept
    <3>2. \A b \in Actors : act[b].pc = "running" => act'[b] = act[b]
      BY <1>1 DEF StopPcs
    <3>3. CASE \E b \in Actors : act[b].pc = "running" /\ act[b].feed = f
      BY <3>2, <3>3 DEF Kept
    <3>4. CASE entries[feeds[f].owner].feed = f /\ feeds[f].owner = e
      BY <3>1, <3>4 DEF Kept
    <3>5. CASE /\ entries[feeds[f].owner].feed = f /\ feeds[f].owner # e
               /\ \/ entries[feeds[f].owner].state = "RUNNING" /\ registry = feeds[f].owner
                  \/ \E b \in Actors \ {Runner} :
                       act[b].ent = feeds[f].owner /\ act[b].pc \in StopPcs \ {"stopped", "check", "restore"}
      <4>1. entries'[feeds[f].owner] = entries[feeds[f].owner]
        BY <3>1, <3>5
      <4>2. \A b \in Actors : act[b].ent = feeds[f].owner /\ act[b].pc \in StopPcs => act'[b] = act[b]
        BY <1>1, <3>5 DEF StopPcs
      <4> QED
        BY <3>5, <4>1, <4>2 DEF Kept
    <3> QED
      BY <3>1, <3>3, <3>4, <3>5 DEF Kept
  <2> QED
    BY <2>1 DEF FeedsKept
<1>7. Runs'
  <2>1. ASSUME NEW x \in Entries, entries'[x].state = "RUNNING"
        PROVE  \E f \in Feeds : f = entries'[x].feed /\ Feeding(f)'
    <3>1. x # e /\ entries'[x] = entries[x]
      BY <2>1
    <3> QED
      BY <1>2, <2>1, <3>1 DEF RunParts, Runs
  <2> QED
    BY <2>1 DEF Runs
<1>8. NoBridge'
  <2>1. \A f \in Feeds : KindOf(f)' = KindOf(f)
    BY KindsSame
  <2>2. \A b \in Actors : act'[b].pc = "subscribe" => act[b].pc = "subscribe"
    BY <1>1 DEF StopPcs
  <2> QED
    BY <2>1, <2>2 DEF RunParts, NoBridge
<1>9. Silent'
  <2>1. ASSUME NEW f \in Feeds, Feeding(f)' PROVE entries'[feeds'[f].owner].state # "STOP"
    <3>1. feeds[f].owner \in Entries /\ entries[feeds[f].owner].state # "STOP"
      BY <1>2, <2>1, RunFacts DEF RunParts, Silent
    <3> QED
      BY <3>1
  <2> QED
    BY <2>1 DEF Silent
<1> QED
  BY <1>3, <1>4, <1>5, <1>6, <1>7, <1>8, <1>9 DEF RunParts

\* A Start that goes on, alone with its entry.
LEMMA StartsStep ==
  ASSUME SchedBase, SchedBase', RunParts, NEW a \in Admins, NEW e \in Entries, Others(a),
         act[a].pc \in {"start", "bridgeOn"}, act[a].ent = e,
         act'[a].pc \in LateStart \ {"running"}, act'[a].ent = e, e = registry,
         \A b \in Actors \ {a, Runner} : act[b].ent = e => act[b].pc \notin LateStart \cup LateStop,
         \A f \in Feeds : Feeding(f) => feeds[f].owner # e,
         \A x \in Entries : /\ entries'[x].kind = entries[x].kind /\ entries'[x].feed = entries[x].feed
                            /\ x # e => entries'[x] = entries[x],
         entries'[e].state \in {"STARTING", "FAILED"},
         act'[a].pc = "subscribe" => bridge.registered,
         UNCHANGED <<feeds, registry, bridge>>
  PROVE  RunParts'
<1>1. a \in Actors /\ a # Runner /\ a \notin Feeds /\ \A b \in Actors : b # a => act'[b] = act[b]
  BY Names DEF Others
<1>2. \A f \in Feeds : Feeding(f)' <=> Feeding(f)
  BY <1>1, Names DEF Feeding
<1>3. \A b \in Actors : b # a /\ act[b].pc \in LateStart \cup LateStop /\ b # Runner => act[b].ent \in Entries \ {e}
  BY RunFacts DEF LateStart, LateStop, StartPcs, StopPcs
<1>4. StartAlone'
  <2>1. ASSUME NEW c \in Actors, act'[c].pc \in LateStart, c # a PROVE Alone(c)'
    <3>1. act'[c] = act[c] /\ act[c].ent \in Entries /\ act[c].ent # e
      BY <1>1, <1>3, <2>1, RunFacts
    <3>2. Alone(c) /\ entries'[act[c].ent] = entries[act[c].ent]
      BY <2>1, <3>1 DEF RunParts, StartAlone
    <3>3. ASSUME NEW b \in Actors \ {c, Runner}, act'[b].ent = act'[c].ent
          PROVE  act'[b].pc \notin LateStart \cup LateStop
      BY <1>1, <3>1, <3>2, <3>3 DEF Alone
    <3> QED
      BY <1>2, <3>1, <3>2, <3>3 DEF Alone
  <2>2. Alone(a)'
    BY <1>1, <1>2 DEF Alone
  <2> QED
    BY <2>1, <2>2 DEF StartAlone
<1>5. StopWorks'
  <2>1. ASSUME NEW c \in Actors \ {Runner}, act'[c].pc \in LateStop
        PROVE  /\ entries'[act'[c].ent].state \notin {"RUNNING", "STARTING"}
               /\ act'[c].pc \in {"stopped", "check", "restore"} => \A f \in Feeds : Feeding(f)' => feeds'[f].owner # act'[c].ent
               /\ act'[c].pc = "signal" => act'[c].feed = entries'[act'[c].ent].feed
    <3>1. c # a /\ act'[c] = act[c]
      BY <1>1, <2>1 DEF LateStart, LateStop
    <3>2. entries'[act[c].ent] = entries[act[c].ent]
      BY <1>3, <2>1, <3>1
    <3> QED
      BY <1>2, <2>1, <3>1, <3>2 DEF RunParts, StopWorks
  <2> QED
    BY <2>1 DEF StopWorks
<1>6. Replaces'
  <2>1. ASSUME NEW c \in Actors, act'[c].pc = "replace" \/ (act'[c].pc \in StopPcs /\ act'[c].then = "replace")
        PROVE  FALSE
    <3>1. c # a /\ act'[c] = act[c]
      BY <1>1, <2>1 DEF LateStart, StopPcs
    <3>2. act[a].ent # registry
      BY <1>1, <2>1, <3>1 DEF RunParts, Replaces, StartPcs
    <3> QED
      BY <3>2
  <2> QED
    BY <2>1 DEF Replaces
<1>7. FeedsKept'
  <2>1. ASSUME NEW f \in Feeds, Feeding(f)' PROVE Kept(f)'
    <3>1. Feeding(f) /\ feeds[f].owner \in Entries \ {e} /\ Kept(f)
      BY <1>2, <2>1, RunFacts DEF RunParts, FeedsKept
    <3>2. \A b \in Actors : act[b].pc \in StopPcs \cup {"running"} => act'[b] = act[b]
      BY <1>1 DEF StopPcs
    <3>3. entries'[feeds[f].owner] = entries[feeds[f].owner]
      BY <3>1
    <3> QED
      BY <3>1, <3>2, <3>3 DEF Kept
  <2> QED
    BY <2>1 DEF FeedsKept
<1>8. Runs'
  <2>1. ASSUME NEW x \in Entries, entries'[x].state = "RUNNING"
        PROVE  \E f \in Feeds : f = entries'[x].feed /\ Feeding(f)'
    <3>1. x # e /\ entries'[x] = entries[x]
      BY <2>1
    <3> QED
      BY <1>2, <2>1, <3>1 DEF RunParts, Runs
  <2> QED
    BY <2>1 DEF Runs
<1>9. NoBridge'
  <2>1. \A f \in Feeds : KindOf(f)' = KindOf(f)
    BY KindsSame
  <2> QED
    BY <1>1, <2>1 DEF RunParts, NoBridge
<1>10. Silent'
  BY <1>2, RunFacts DEF RunParts, Silent
<1> QED
  BY <1>4, <1>5, <1>6, <1>7, <1>8, <1>9, <1>10 DEF RunParts

\* A Start that makes the feed of its entry.
LEMMA NewFeedRun ==
  ASSUME SchedBase, SchedBase', RunParts, NEW a \in Actors, act[a].pc \in {"add", "subscribe"},
         NewFeed(a, "running"), UNCHANGED <<entries, registry, bridge>>
  PROVE  RunParts'
<1>1. SchedType /\ a \in Admins /\ a # Runner /\ a \notin Feeds /\ act[a].ent \in Entries /\ act[a].ent # 0
  BY CallFacts, Names DEF SchedBase, StartPcs
<1>2. PICK g \in FreeFeeds :
        /\ g \in Feeds /\ feeds[g].owner = 0
        /\ feeds' \in [Feeds -> FeedRecs] /\ feeds'[g].owner = act[a].ent /\ feeds'[g].live
        /\ \A x \in Feeds : x # g => feeds'[x] = feeds[x]
        /\ Moves(a, "running") /\ act'[a].feed = g
  BY <1>1, NewFeedFacts DEF Pcs, AdminPcs, StartPcs
<1>3. act'[a].pc = "running" /\ act'[a].ent = act[a].ent /\ \A b \in Actors : b # a => act'[b] = act[b]
  BY <1>2 DEF Moves, Others
<1>4. ~Feeding(g) /\ act[g].pc = "idle" /\ g \in Actors /\ g # a
  BY <1>1, <1>2, Names DEF SchedBase, Local, FeedOf, Feeding
<1>5. \A f \in Feeds : Feeding(f)' <=> (Feeding(f) \/ f = g)
  BY <1>1, <1>2, <1>3, <1>4, Names DEF Feeding
<1>6. \A x \in Entries : entries[x].feed # g
  BY <1>2, RunFacts, Names
<1>7. Alone(a)
  BY DEF RunParts, StartAlone, LateStart
<1>8. StartAlone'
  <2>1. ASSUME NEW c \in Actors, act'[c].pc \in LateStart, c # a PROVE Alone(c)'
    <3>1. act'[c] = act[c] /\ c # Runner
      BY <1>3, <2>1, RunFacts
    <3>2. Alone(c) /\ act[c].ent # act[a].ent
      BY <1>7, <2>1, <3>1 DEF RunParts, StartAlone, Alone
    <3>3. ASSUME NEW b \in Actors \ {c, Runner}, act'[b].ent = act'[c].ent
          PROVE  act'[b].pc \notin LateStart \cup LateStop
      BY <1>3, <3>1, <3>2, <3>3 DEF Alone
    <3>4. \A f \in Feeds : Feeding(f)' /\ feeds'[f].owner = act'[c].ent => act'[c].pc = "running" /\ f = act'[c].feed
      BY <1>2, <1>5, <3>1, <3>2 DEF Alone
    <3> QED
      BY <1>5, <3>1, <3>2, <3>3, <3>4 DEF Alone
  <2>2. Alone(a)'
    <3>1. ASSUME NEW b \in Actors \ {a, Runner}, act'[b].ent = act'[a].ent
          PROVE  act'[b].pc \notin LateStart \cup LateStop
      BY <1>3, <1>7, <3>1 DEF Alone
    <3>2. \A f \in Feeds : Feeding(f)' /\ feeds'[f].owner = act'[a].ent => f = g
      BY <1>2, <1>3, <1>5, <1>7 DEF Alone
    <3>3. entries[act[a].ent].feed # g
      BY <1>1, <1>6
    <3> QED
      BY <1>2, <1>3, <1>5, <1>7, <3>1, <3>2, <3>3 DEF Alone
  <2> QED
    BY <2>1, <2>2 DEF StartAlone
<1>9. StopWorks'
  <2>1. ASSUME NEW c \in Actors \ {Runner}, act'[c].pc \in LateStop
        PROVE  /\ entries'[act'[c].ent].state \notin {"RUNNING", "STARTING"}
               /\ act'[c].pc \in {"stopped", "check", "restore"} => \A f \in Feeds : Feeding(f)' => feeds'[f].owner # act'[c].ent
               /\ act'[c].pc = "signal" => act'[c].feed = entries'[act'[c].ent].feed
    <3>1. c # a /\ act'[c] = act[c]
      BY <1>3, <2>1 DEF LateStop
    <3>2. act[c].ent # act[a].ent
      BY <1>7, <2>1, <3>1 DEF Alone
    <3> QED
      BY <1>2, <1>5, <2>1, <3>1, <3>2 DEF RunParts, StopWorks
  <2> QED
    BY <2>1 DEF StopWorks
<1>10. Replaces'
  <2>1. ASSUME NEW c \in Actors, act'[c].pc = "replace" \/ (act'[c].pc \in StopPcs /\ act'[c].then = "replace")
        PROVE  FALSE
    <3>1. c # a /\ act'[c] = act[c]
      BY <1>3, <2>1 DEF StopPcs
    <3>2. act[a].ent # registry
      BY <2>1, <3>1 DEF RunParts, Replaces, StartPcs
    <3> QED
      BY <1>7, <3>2 DEF Alone
  <2> QED
    BY <2>1 DEF Replaces
<1>11. FeedsKept'
  <2>1. ASSUME NEW f \in Feeds, Feeding(f)', f # g PROVE Kept(f)'
    <3>1. Kept(f) /\ feeds'[f] = feeds[f]
      BY <1>2, <1>5, <2>1 DEF RunParts, FeedsKept
    <3>2. \A b \in Actors : act[b].pc \in StopPcs \cup {"running"} => act'[b] = act[b]
      BY <1>3 DEF StopPcs
    <3> QED
      BY <3>1, <3>2 DEF Kept
  <2>2. Kept(g)'
    BY <1>2, <1>3 DEF Kept
  <2> QED
    BY <2>1, <2>2 DEF FeedsKept
<1>12. Runs'
  BY <1>5 DEF RunParts, Runs
<1>13. NoBridge'
  <2>1. ASSUME ~bridge.registered PROVE act[a].pc = "add"
    BY <2>1 DEF RunParts, NoBridge
  <2>2. ASSUME ~bridge.registered, NEW f \in Feeds, KindOf(f)' = "NATS" PROVE ~feeds'[f].live
    <3>1. CASE f = g
      <4>1. entries[act[a].ent].kind = "TIMER"
        BY <2>1, <2>2, CallFacts DEF Local, CallOf
      <4> QED
        BY <1>1, <1>2, <2>2, <3>1, <4>1 DEF KindOf
    <3>2. CASE f # g
      <4>1. KindOf(f) = "NATS" /\ feeds'[f] = feeds[f]
        BY <1>2, <2>2, <3>2 DEF KindOf
      <4> QED
        BY <2>2, <4>1 DEF RunParts, NoBridge
    <3> QED
      BY <3>1, <3>2
  <2> QED
    BY <1>3, <2>2 DEF RunParts, NoBridge
<1>14. Silent'
  <2>1. entries[act[a].ent].state # "STOP"
    BY <1>7 DEF Alone
  <2> QED
    BY <1>2, <1>5, <2>1 DEF RunParts, Silent
<1> QED
  BY <1>8, <1>9, <1>10, <1>11, <1>12, <1>13, <1>14 DEF RunParts

\* The entry says RUNNING, and holds the feed that was made.
LEMMA SetRunningRun ==
  ASSUME SchedBase, SchedBase', RunParts, NEW a \in Actors, SetRunning(a)
  PROVE  RunParts'
<1>1. PICK e \in Entries, g \in Feeds :
        /\ e = act[a].ent /\ g = act[a].feed /\ feeds[g].owner = e
        /\ a \in Admins /\ act[a].pc = "running" /\ entries'[e].state = "RUNNING" /\ entries'[e].feed = g
        /\ \A x \in Entries : entries'[x].kind = entries[x].kind /\ (x # e => entries'[x] = entries[x])
        /\ Return(a, TRUE) /\ act[a].then \in {"reply", "unlock"} /\ UNCHANGED <<feeds, bridge>>
  BY SetRunningEffect
<1>2. SchedType /\ a # Runner /\ a \notin Feeds
  BY <1>1, Names DEF SchedBase
<1>3. act'[a].pc = "idle" /\ registry' = registry /\ \A b \in Actors : b # a => act'[b] = act[b]
  BY <1>1, <1>2, ReturnFacts DEF Others
<1>4. Alone(a)
  BY <1>1 DEF RunParts, StartAlone, LateStart
<1>5. e = registry /\ Feeding(g) /\ \A f \in Feeds : Feeding(f) /\ feeds[f].owner = e => f = g
  BY <1>1, <1>4 DEF Alone
<1>6. \A f \in Feeds : Feeding(f)' <=> Feeding(f)
  BY <1>1, <1>2, <1>3, Names DEF Feeding
<1>7. \A b \in Actors : b # a /\ b # Runner /\ act[b].pc \in LateStart \cup LateStop => act[b].ent \in Entries \ {e}
  BY <1>1, <1>4, RunFacts DEF Alone, LateStart, LateStop, StartPcs, StopPcs
<1>8. StartAlone'
  <2>1. ASSUME NEW c \in Actors, act'[c].pc \in LateStart PROVE Alone(c)'
    <3>1. act'[c] = act[c] /\ c # a /\ act[c].ent \in Entries \ {e}
      BY <1>3, <1>7, <2>1, RunFacts DEF LateStart
    <3>2. Alone(c) /\ entries'[act[c].ent] = entries[act[c].ent]
      BY <1>1, <2>1, <3>1 DEF RunParts, StartAlone
    <3>3. ASSUME NEW b \in Actors \ {c, Runner}, act'[b].ent = act'[c].ent
          PROVE  act'[b].pc \notin LateStart \cup LateStop
      BY <1>3, <3>1, <3>2, <3>3 DEF Alone, LateStart, LateStop
    <3> QED
      BY <1>1, <1>3, <1>6, <3>1, <3>2, <3>3 DEF Alone
  <2> QED
    BY <2>1 DEF StartAlone
<1>9. StopWorks'
  <2>1. ASSUME NEW c \in Actors \ {Runner}, act'[c].pc \in LateStop
        PROVE  /\ entries'[act'[c].ent].state \notin {"RUNNING", "STARTING"}
               /\ act'[c].pc \in {"stopped", "check", "restore"} => \A f \in Feeds : Feeding(f)' => feeds'[f].owner # act'[c].ent
               /\ act'[c].pc = "signal" => act'[c].feed = entries'[act'[c].ent].feed
    <3>1. c # a /\ act'[c] = act[c]
      BY <1>3, <2>1 DEF LateStop
    <3>2. entries'[act[c].ent] = entries[act[c].ent]
      BY <1>1, <1>7, <2>1, <3>1
    <3> QED
      BY <1>1, <1>6, <2>1, <3>1, <3>2 DEF RunParts, StopWorks
  <2> QED
    BY <2>1 DEF StopWorks
<1>10. Replaces'
  <2>1. ASSUME NEW c \in Actors, act'[c].pc = "replace" \/ (act'[c].pc \in StopPcs /\ act'[c].then = "replace")
        PROVE  FALSE
    <3>1. c # a /\ act'[c] = act[c]
      BY <1>3, <2>1 DEF StopPcs
    <3>2. act[a].ent # registry
      BY <1>1, <2>1, <3>1 DEF RunParts, Replaces, StartPcs
    <3> QED
      BY <1>1, <1>5, <3>2
  <2> QED
    BY <2>1 DEF Replaces
<1>11. FeedsKept'
  <2>1. ASSUME NEW f \in Feeds, Feeding(f)', feeds[f].owner # e PROVE Kept(f)'
    <3>1. Kept(f) /\ feeds[f].owner \in Entries
      BY <1>6, <2>1, RunFacts DEF RunParts, FeedsKept
    <3>2. \A b \in Actors : act[b].pc \in StopPcs \/ (act[b].pc = "running" /\ act[b].feed = f) => act'[b] = act[b]
      BY <1>1, <1>3, <2>1 DEF StopPcs
    <3>3. entries'[feeds[f].owner] = entries[feeds[f].owner]
      BY <1>1, <2>1, <3>1
    <3> QED
      BY <1>1, <1>3, <3>1, <3>2, <3>3 DEF Kept
  <2>2. Kept(g)'
    BY <1>1, <1>3, <1>5 DEF Kept
  <2> QED
    BY <1>5, <1>6, <2>1, <2>2 DEF FeedsKept
<1>12. Runs'
  <2>1. ASSUME NEW x \in Entries, entries'[x].state = "RUNNING"
        PROVE  \E f \in Feeds : f = entries'[x].feed /\ Feeding(f)'
    <3>1. CASE x = e
      BY <1>1, <1>5, <1>6, <3>1
    <3>2. CASE x # e
      BY <1>1, <1>6, <2>1, <3>2 DEF RunParts, Runs
    <3> QED
      BY <3>1, <3>2
  <2> QED
    BY <2>1 DEF Runs
<1>13. NoBridge'
  <2>1. \A f \in Feeds : KindOf(f)' = KindOf(f)
    BY <1>1, KindsSame
  <2> QED
    BY <1>1, <1>3, <2>1 DEF RunParts, NoBridge
<1>14. Silent'
  <2>1. ASSUME NEW f \in Feeds, Feeding(f)' PROVE entries'[feeds'[f].owner].state # "STOP"
    <3>1. feeds[f].owner \in Entries /\ entries[feeds[f].owner].state # "STOP"
      BY <1>6, <2>1, RunFacts DEF RunParts, Silent
    <3> QED
      BY <1>1, <3>1
  <2> QED
    BY <2>1 DEF Silent
<1> QED
  BY <1>8, <1>9, <1>10, <1>11, <1>12, <1>13, <1>14 DEF RunParts

\* The entry that is replaced does not run.
LEMMA ReplaceRun ==
  ASSUME SchedBase, SchedBase', RunParts, NEW a \in Actors, Replace(a), ~irregular'
  PROVE  RunParts'
<1>1. /\ a \in Admins /\ act[a].pc = "replace" /\ registryLock = a
      /\ Others(a) /\ UNCHANGED <<feeds, bridge>>
      /\ \A f \in Feeds : ~(feeds[f].owner = registry /\ Feeding(f) /\ "NATS" \in {entries[registry].kind, act[a].kind})
  BY ReplaceEffect
<1>2. PICK e \in Entries :
        /\ entries[e].kind = "none" /\ registry' = e
        /\ \A x \in Entries : x # e => entries'[x] = entries[x]
        /\ entries'[e].kind = act[a].kind /\ entries'[e].state \in {"STOP", "FAILED"}
        /\ (act'[a].pc = "start" /\ act'[a].ent = e) \/ act'[a].pc = "idle"
  BY ReplaceEffect
<1>3. SchedType /\ Owners /\ a # Runner /\ a \notin Feeds /\ act[a] \in Acts
  BY <1>1, Names DEF SchedBase, SchedType
<1>4. \A b \in Actors : b # a => act'[b] = act[b]
  BY <1>1 DEF Others
<1>5. \A f \in Feeds : Feeding(f)' <=> Feeding(f)
  BY <1>1, <1>3, <1>4, Names DEF Feeding
<1>6. \A f \in Feeds : Feeding(f) => feeds[f].owner \in Entries \ {e}
  BY <1>2, <1>3, RunFacts, Names DEF Owners
<1>7. \A b \in Actors : act[b].pc \notin LateStart
  <2>1. \A b \in Actors : act[b].pc \in StartPcs => act[b].ent # registry
    BY <1>1 DEF RunParts, Replaces
  <2> QED
    BY <2>1 DEF RunParts, StartAlone, Alone, LateStart, StartPcs
<1>8. StartAlone'
  BY <1>2, <1>4, <1>7 DEF StartAlone, LateStart
<1>9. StopWorks'
  <2>1. ASSUME NEW c \in Actors \ {Runner}, act'[c].pc \in LateStop
        PROVE  /\ entries'[act'[c].ent].state \notin {"RUNNING", "STARTING"}
               /\ act'[c].pc \in {"stopped", "check", "restore"} => \A f \in Feeds : Feeding(f)' => feeds'[f].owner # act'[c].ent
               /\ act'[c].pc = "signal" => act'[c].feed = entries'[act'[c].ent].feed
    <3>1. c # a /\ act'[c] = act[c] /\ act[c].pc \in StopPcs
      BY <1>2, <1>4, <2>1 DEF LateStop, StopPcs
    <3>2. act[c].ent \in Entries /\ act[c].ent # e
      BY <1>2, <3>1, CallFacts
    <3>3. entries'[act[c].ent] = entries[act[c].ent]
      BY <1>2, <3>2
    <3> QED
      BY <1>1, <1>5, <2>1, <3>1, <3>3 DEF RunParts, StopWorks
  <2> QED
    BY <2>1 DEF StopWorks
<1>10. Replaces'
  <2>1. ASSUME NEW c \in Actors, act'[c].pc = "replace" \/ (act'[c].pc \in StopPcs /\ act'[c].then = "replace")
        PROVE  FALSE
    <3>1. c # a /\ act'[c] = act[c]
      BY <1>2, <1>4, <2>1 DEF StopPcs
    <3>2. registryLock = c
      BY <2>1, <3>1, RunFacts DEF RunnerPcs
    <3> QED
      BY <1>1, <3>1, <3>2
  <2> QED
    BY <2>1 DEF Replaces
<1>11. FeedsKept'
  <2>1. ASSUME NEW f \in Feeds, Feeding(f)' PROVE Kept(f)'
    <3>1. Kept(f) /\ feeds[f].owner \in Entries \ {e} /\ Feeding(f)
      BY <1>5, <1>6, <2>1 DEF RunParts, FeedsKept
    <3>2. ~(entries[feeds[f].owner].state = "RUNNING" /\ registry = feeds[f].owner)
      <4>1. ASSUME entries[feeds[f].owner].state = "RUNNING", registry = feeds[f].owner PROVE FALSE
        <5>1. act[a].kind # "TIMER"
          BY <1>1, <3>1, <4>1, Names DEF RunParts, Replaces
        <5>2. act[a].kind = "NATS"
          BY <1>3, <5>1 DEF Acts
        <5> QED
          BY <1>1, <3>1, <4>1, <5>2
      <4> QED
        BY <4>1
    <3>3. \A b \in Actors : act[b].pc # "running"
      BY <1>7 DEF LateStart
    <3>4. \A b \in Actors : act[b].pc \in StopPcs => act'[b] = act[b]
      BY <1>1, <1>4 DEF StopPcs
    <3>5. entries'[feeds[f].owner] = entries[feeds[f].owner]
      BY <1>2, <3>1
    <3> QED
      BY <1>1, <3>1, <3>2, <3>3, <3>4, <3>5 DEF Kept
  <2> QED
    BY <2>1 DEF FeedsKept
<1>12. Runs'
  <2>1. ASSUME NEW x \in Entries, entries'[x].state = "RUNNING"
        PROVE  \E f \in Feeds : f = entries'[x].feed /\ Feeding(f)'
    <3>1. entries'[x] = entries[x]
      BY <1>2, <2>1
    <3> QED
      BY <1>5, <2>1, <3>1 DEF RunParts, Runs
  <2> QED
    BY <2>1 DEF Runs
<1>13. NoBridge'
  <2>1. ASSUME NEW f \in Feeds PROVE KindOf(f)' = KindOf(f)
    <3>1. feeds[f].owner # 0 => feeds[f].owner \in Entries \ {e}
      BY <1>2, <1>3, RunFacts DEF Owners
    <3> QED
      BY <1>1, <1>2, <3>1 DEF KindOf
  <2> QED
    BY <1>1, <1>2, <1>4, <2>1 DEF RunParts, NoBridge
<1>14. Silent'
  <2>1. ASSUME NEW f \in Feeds, Feeding(f)' PROVE entries'[feeds'[f].owner].state # "STOP"
    <3>1. feeds[f].owner \in Entries \ {e} /\ entries[feeds[f].owner].state # "STOP"
      BY <1>5, <1>6, <2>1 DEF RunParts, Silent
    <3> QED
      BY <1>1, <1>2, <3>1
  <2> QED
    BY <2>1 DEF Silent
<1> QED
  BY <1>8, <1>9, <1>10, <1>11, <1>12, <1>13, <1>14 DEF RunParts
-----------------------------------------------------------------------------
(* Every step keeps who runs *)

\* Nobody replaces, or starts, anew.
LEMMA ReplacesKept ==
  ASSUME SchedBase, SchedBase', RunParts, UNCHANGED <<entries, registry>>,
         \A c \in Actors : \/ act'[c] = act[c]
                           \/ c = Runner
                           \/ /\ act'[c].pc # "replace"
                              /\ act'[c].pc \in StopPcs => act'[c].then # "replace"
                              /\ act'[c].pc \in StartPcs => registryLock = NoOne
  PROVE  Replaces'
<1>1. act'[Runner].pc \in RunnerPcs /\ act'[Runner].then = "reply"
  BY Names DEF SchedBase, Local, RoleOf
<1>2. ASSUME NEW c \in Actors, act'[c].pc = "replace" \/ (act'[c].pc \in StopPcs /\ act'[c].then = "replace")
      PROVE  act'[c] = act[c] /\ registryLock = c /\ registryLock # NoOne
  <2>1. c # Runner /\ act'[c] = act[c]
    BY <1>1, <1>2 DEF RunnerPcs
  <2> QED
    BY <1>2, <2>1, RunFacts, Names
<1>3. ASSUME NEW c \in Actors, act'[c].pc = "replace" \/ (act'[c].pc \in StopPcs /\ act'[c].then = "replace"),
             NEW b \in Actors, act'[b].pc \in StartPcs
      PROVE  act'[b].ent # registry'
  <2>1. act'[b] = act[b]
    BY <1>1, <1>2, <1>3 DEF RunnerPcs, StartPcs
  <2> QED
    BY <1>2, <1>3, <2>1 DEF RunParts, Replaces
<1>4. ASSUME NEW c \in Actors, act'[c].pc = "replace", act'[c].kind = "TIMER", registry' # 0
      PROVE  entries'[registry'].state # "RUNNING"
  BY <1>2, <1>4 DEF RunParts, Replaces
<1> QED
  BY <1>3, <1>4 DEF Replaces

LEMMA CalmStep ==
  ASSUME SchedBase, SchedBase', RunParts, UNCHANGED <<entries, registry>>,
         \A f \in Feeds : /\ feeds'[f].owner = feeds[f].owner /\ (feeds'[f].live => feeds[f].live)
                          /\ Feeding(f)' <=> Feeding(f),
         \A b \in Actors : \/ act'[b] = act[b]
                           \/ b = Runner
                           \/ /\ act[b].pc \in Calm
                              /\ act'[b].pc \in {"idle", "register", "unregister", "run", "ending", "start", "stop"}
                              /\ act'[b].pc = "start" => registryLock = NoOne
                              /\ act'[b].pc = "stop" => act'[b].then # "replace",
         bridge'.registered = bridge.registered
  PROVE  RunParts'
<1>1. Replaces'
  <2>1. \A c \in Actors : \/ act'[c] = act[c]
                          \/ c = Runner
                          \/ /\ act'[c].pc # "replace"
                             /\ act'[c].pc \in StopPcs => act'[c].then # "replace"
                             /\ act'[c].pc \in StartPcs => registryLock = NoOne
    BY DEF StartPcs, StopPcs
  <2> QED
    BY <2>1, ReplacesKept
<1>2. NoBridge'
  <2>1. act'[Runner].pc \in RunnerPcs
    BY Names DEF SchedBase, Local, RoleOf
  <2>2. \A b \in Actors : act'[b].pc = "subscribe" => act[b].pc = "subscribe"
    BY <2>1 DEF RunnerPcs
  <2>3. \A f \in Feeds : KindOf(f)' = KindOf(f)
    BY KindsSame
  <2> QED
    BY <2>2, <2>3 DEF RunParts, NoBridge
<1>3. \A b \in Actors : \/ act'[b] = act[b]
                        \/ b = Runner
                        \/ act[b].pc \in Calm /\ act'[b].pc \in Calm \cup {"stop"}
  BY DEF Calm
<1> QED
  BY <1>1, <1>2, <1>3, RunFrame

LEMMA RequestRun ==
  ASSUME SchedBase, SchedBase', RunParts, NEW a \in Admins, Request(a)
  PROVE  RunParts'
<1>1. /\ act[a].pc = "idle" /\ Others(a) /\ act'[a].then = "reply"
      /\ UNCHANGED <<entries, feeds, registry, bridge>>
      /\ act'[a].pc \in {"register", "unregister"} \/ (act'[a].pc \in {"start", "stop"} /\ registryLock = NoOne)
  BY RequestEffect DEF regVars
<1>2. \A f \in Feeds : act'[f] = act[f]
  BY <1>1, Names DEF Others
<1>3. \A f \in Feeds : Feeding(f)' <=> Feeding(f)
  BY <1>1, <1>2 DEF Feeding
<1> QED
  BY <1>1, <1>3, CalmStep DEF Others, Calm

LEMMA RegisterRun ==
  ASSUME SchedBase, SchedBase', RunParts, NEW a \in Actors, Register(a), ~irregular'
  PROVE  RunParts'
<1>1. /\ a \in Admins /\ act[a].pc = "register" /\ registryLock = NoOne /\ Others(a)
      /\ UNCHANGED <<entries, feeds, registry, bridge>> /\ ~Starting(registry)
      /\ \/ registry # 0 /\ act'[a].pc = "stop"
         \/ /\ ~(registry # 0 /\ act[a].kind = "TIMER" /\ entries[registry].state = "RUNNING")
            /\ act'[a].pc = "replace"
      /\ act'[a].kind = act[a].kind
  BY RegisterEffect
<1>2. \A f \in Feeds : act'[f] = act[f]
  BY <1>1, Names DEF Others
<1>3. \A f \in Feeds : Feeding(f)' <=> Feeding(f)
  BY <1>1, <1>2 DEF Feeding
<1>4. \A b \in Actors : act'[b].pc \in StartPcs => act'[b] = act[b] /\ act[b].ent # registry
  BY <1>1 DEF Others, Starting, StartPcs
<1>5. ASSUME NEW c \in Actors, act'[c].pc = "replace" PROVE c = a
  <2>1. c # a => act[c].pc = "replace"
    BY <1>1, <1>5 DEF Others
  <2> QED
    BY <1>1, <2>1, RunFacts, Names
<1>6. Replaces'
  BY <1>1, <1>4, <1>5 DEF Replaces
<1>7. NoBridge'
  <2>1. \A f \in Feeds : KindOf(f)' = KindOf(f)
    BY <1>1, KindsSame
  <2>2. \A b \in Actors : act'[b].pc = "subscribe" => act[b].pc = "subscribe"
    BY <1>1 DEF Others
  <2> QED
    BY <1>1, <2>1, <2>2 DEF RunParts, NoBridge
<1> QED
  BY <1>1, <1>3, <1>6, <1>7, RunFrame DEF Others, Calm

LEMMA UnregisterRun ==
  ASSUME SchedBase, SchedBase', RunParts, NEW a \in Actors, Unregister(a)
  PROVE  RunParts'
<1>1. /\ a \in Admins /\ act[a].pc = "unregister" /\ Others(a)
      /\ UNCHANGED <<entries, feeds, registry, bridge>>
      /\ act'[a].pc = "idle" \/ (act'[a].pc = "stop" /\ act'[a].then = "delete")
  BY UnregisterEffect
<1>2. \A f \in Feeds : act'[f] = act[f]
  BY <1>1, Names DEF Others
<1>3. \A f \in Feeds : Feeding(f)' <=> Feeding(f)
  BY <1>1, <1>2 DEF Feeding
<1> QED
  BY <1>1, <1>3, CalmStep DEF Others, Calm

\* A task that begins or ends.
LEMMA CalmTask ==
  ASSUME SchedBase, SchedBase', RunParts, NEW a \in Jobs \cup Feeds, Others(a),
         act[a].pc \in {"idle", "run", "ending"}, act'[a].pc \in {"idle", "run"},
         \A x \in Feeds : /\ feeds'[x].owner = feeds[x].owner
                          /\ feeds'[x] = feeds[x] \/ (x = a /\ act[a].pc = "ending" /\ ~feeds'[x].live),
         act[a].pc = "ending" => a \in Feeds /\ ~feeds'[a].live,
         UNCHANGED <<entries, registry, bridge>>
  PROVE  RunParts'
<1>1. a \in Actors
  BY Names
<1>2. \A x \in Feeds : (feeds'[x].live => feeds[x].live) /\ (Feeding(x)' <=> Feeding(x))
  BY <1>1, Names DEF Feeding, Others
<1> QED
  BY <1>1, <1>2, CalmStep DEF Others, Calm

LEMMA TaskEndsRun ==
  ASSUME SchedBase, SchedBase', RunParts, NEW a \in Jobs \cup Feeds, TaskEnds(a)
  PROVE  RunParts'
<1>1. /\ Others(a) /\ act[a].pc = "run" /\ act'[a].pc \in {"ending", "idle"}
      /\ act'[a].pc = "ending" <=> (a \in Feeds /\ ~bridge.alive)
      /\ UNCHANGED <<entries, feeds, registry, bridge>>
  BY TaskEndsEffect
<1>2. a \in Feeds => feeds[a].live /\ KindOf(a) = "NATS"
  BY <1>1, TaskFacts
<1>3. act'[a].pc = "idle"
  BY <1>1, <1>2 DEF SchedBase, BridgeInv, RunParts, NoBridge
<1> QED
  BY <1>1, <1>3, CalmTask

LEMMA TickRun ==
  ASSUME SchedBase, SchedBase', RunParts, NEW a \in Jobs, NEW f \in Feeds, Tick(a, f)
  PROVE  RunParts'
BY TickEffect, CalmTask

LEMMA FeedRun ==
  ASSUME SchedBase, SchedBase', RunParts, NEW f \in Feeds, RunTask(f) \/ EndSubscription(f)
  PROVE  RunParts'
<1>1. CASE RunTask(f)
  BY <1>1, RunTaskEffect, CalmTask
<1>2. CASE EndSubscription(f)
  <2>1. /\ Others(f) /\ act[f].pc = "ending" /\ act'[f].pc = "idle"
        /\ feeds'[f].owner = feeds[f].owner /\ ~feeds'[f].live /\ \A x \in Feeds : x # f => feeds'[x] = feeds[x]
        /\ UNCHANGED <<entries, registry, bridge>>
    BY <1>2, EndEffect DEF SameBut, Moves
  <2> QED
    BY <2>1, CalmTask
<1> QED
  BY <1>1, <1>2

LEMMA BridgeRun ==
  ASSUME SchedBase, SchedBase', RunParts, ~irregular',
         RemoveBridge \/ LockToClose \/ Sweep \/ CloseConn \/ BrokerLost \/ BrokerBack
  PROVE  RunParts'
<1>1. ASSUME Others(Runner), UNCHANGED <<entries, feeds, registry>>
      PROVE  \A x \in Feeds : Feeding(x)' <=> Feeding(x)
  BY <1>1, Names DEF Feeding, Others
<1>2. ASSUME Others(Runner), UNCHANGED <<entries, feeds, registry>>, bridge'.registered = bridge.registered
      PROVE  RunParts'
  BY <1>1, <1>2, CalmStep DEF Others
<1>3. CASE RemoveBridge
  <2>1. /\ Others(Runner) /\ act'[Runner].pc = "close" /\ UNCHANGED <<entries, feeds, registry>>
        /\ \A f \in Feeds : ~feeds[f].live
        /\ \A a \in Admins : act[a].pc \notin StartPcs
    BY <1>3, RemoveBridgeEffect DEF SameBut, Moves
  <2>2. \A b \in Actors : act'[b].pc # "subscribe"
    <3>1. \A b \in Actors : act[b].pc = "subscribe" => b \in Admins
      BY RunFacts DEF LateStart
    <3> QED
      BY <2>1, <3>1 DEF Others, StartPcs
  <2>3. NoBridge'
    BY <2>1, <2>2 DEF NoBridge
  <2>4. Replaces'
    BY <2>1, ReplacesKept DEF Others
  <2> QED
    BY <1>1, <2>1, <2>3, <2>4, RunFrame DEF Others
<1>4. CASE LockToClose
  BY <1>2, <1>4, LockToCloseEffect DEF SameBut, Moves, SameBridge
<1>5. CASE CloseConn
  BY <1>2, <1>5, CloseConnEffect DEF SameBut, Moves, SameBridge
<1>6. CASE BrokerLost \/ BrokerBack
  BY <1>2, <1>6, BrokerEffect DEF SameBridge, Others
<1>7. CASE Sweep
  <2>1. Others(Runner) /\ UNCHANGED <<entries, feeds, registry>> /\ bridge'.registered = bridge.registered
    BY <1>7, SweepEffect DEF SameBut, Moves, SameBridge, Others
  <2> QED
    BY <1>2, <2>1
<1> QED
  BY <1>3, <1>4, <1>5, <1>6, <1>7
-----------------------------------------------------------------------------
(* The steps of a Start and of a Stop *)

\* What a Stop that has begun relies on.
LEMMA StopFacts ==
  ASSUME SchedBase, RunParts, NEW a \in Actors, a # Runner, act[a].pc \in LateStop
  PROVE  /\ act[a].ent \in Entries
         /\ \A b \in Actors : act[b].pc \in LateStart => act[b].ent # act[a].ent
         /\ entries[act[a].ent].state \notin {"RUNNING", "STARTING"}
         /\ \A f \in Feeds : Feeding(f) /\ feeds[f].owner = act[a].ent => f = entries[act[a].ent].feed
         /\ act[a].pc \in {"stopped", "check", "restore"} => \A f \in Feeds : Feeding(f) => feeds[f].owner # act[a].ent
         /\ act[a].pc = "signal" => act[a].feed = entries[act[a].ent].feed
<1>1. act[a].ent \in Entries
  BY RunFacts DEF LateStop, StopPcs
<1>2. ASSUME NEW b \in Actors, act[b].pc \in LateStart PROVE act[b].ent # act[a].ent
  <2>1. Alone(b) /\ a # b
    BY <1>2 DEF RunParts, StartAlone, LateStart, LateStop
  <2> QED
    BY <2>1 DEF Alone
<1>3. ASSUME NEW f \in Feeds, Feeding(f), feeds[f].owner = act[a].ent PROVE f = entries[act[a].ent].feed
  <2>1. Kept(f)
    BY <1>3 DEF RunParts, FeedsKept
  <2>2. ASSUME NEW b \in Actors, act[b].pc = "running", act[b].feed = f PROVE FALSE
    <3>1. feeds[f].owner = act[b].ent /\ act[b].pc \in LateStart
      BY <2>2, RunFacts DEF LateStart
    <3> QED
      BY <1>2, <1>3, <3>1
  <2> QED
    BY <1>3, <2>1, <2>2 DEF Kept
<1> QED
  BY <1>1, <1>2, <1>3 DEF RunParts, StopWorks

\* Setting a state changes nothing else.
LEMMA StateOnly ==
  ASSUME SchedBase, NEW e \in Entries, NEW s \in States, SetState(e, s)
  PROVE  /\ \A x \in Entries : /\ entries'[x].kind = entries[x].kind /\ entries'[x].feed = entries[x].feed
                               /\ x # e => entries'[x] = entries[x]
         /\ entries'[e].state = s
BY SetStateFacts DEF SchedBase

\* A Start or a Stop that returns without a feed of its entry that feeds.
LEMMA QuietReturn ==
  ASSUME SchedBase, SchedBase', RunParts, NEW a \in Actors, a # Runner, NEW ok \in BOOLEAN, Return(a, ok),
         NEW e \in Entries, act[a].ent = e, act[a].pc \in (StartPcs \cup StopPcs) \ {"running"},
         \A f \in Feeds : Feeding(f) => feeds[f].owner # e,
         \A b \in Actors : b # a /\ act[b].pc \in LateStart => act[b].ent # e,
         \A x \in Entries : /\ entries'[x].kind = entries[x].kind /\ entries'[x].feed = entries[x].feed
                            /\ x # e => entries'[x] = entries[x],
         entries'[e].state # "RUNNING",
         entries'[e].state = "STARTING" => entries[e].state = "STARTING" /\ act[a].pc \in StartPcs,
         UNCHANGED <<feeds, bridge>>
  PROVE  RunParts'
<1>1. /\ Others(a)
      /\ act[a].then = "replace" /\ ok => act'[a].pc = "replace"
      /\ act[a].then = "next" => act'[a].pc = AfterTask(a) /\ AfterTask(a) \in {"ending", "idle"}
      /\ act[a].then # "next" /\ ~(act[a].then = "replace" /\ ok) => act'[a].pc = "idle"
      /\ act[a].then = "delete" => registry' = 0
      /\ act[a].then # "delete" => registry' = registry
  BY ReturnFacts DEF SchedBase
<1>2. Local(a) /\ BridgeInv /\ SchedType
  BY DEF SchedBase
<1>3. act[a].pc # "ending" /\ act[a].pc # "idle"
  BY DEF StartPcs, StopPcs
<1>4. act[a].then = "next" => act'[a].pc = "idle"
  <2>1. ASSUME act[a].then = "next", AfterTask(a) = "ending" PROVE FALSE
    <3>1. a \in Feeds /\ ~bridge.alive
      BY <2>1 DEF AfterTask
    <3>2. feeds[a].live /\ KindOf(a) = "NATS"
      BY <1>2, <1>3, <3>1 DEF Local, FeedOf
    <3> QED
      BY <1>2, <3>1, <3>2 DEF BridgeInv, RunParts, NoBridge
  <2> QED
    BY <1>1, <2>1
<1>5. act'[a].pc \in {"idle", "replace"} /\ (act'[a].pc = "replace" => act[a].then = "replace")
  BY <1>1, <1>4
<1>6. act[a].then = "replace" => act[a].pc \in StopPcs
  BY <1>2 DEF Local, LockOf
<1>7. act[a].then = "delete" => registryLock = a /\ registry = e
  BY <1>2 DEF Local, LockOf
<1>8. \A f \in Feeds : Feeding(f)' <=> Feeding(f)
  BY <1>1, <1>3, <1>5, Names DEF Feeding, Others
<1>9. \A f \in Feeds : Feeding(f)' <=> (Feeding(f) /\ feeds[f].owner # e)
  BY <1>8
<1>10. registry' = registry \/ (registry' = 0 /\ registry = e /\ registryLock = a)
  BY <1>1, <1>7
<1>11. \A b \in Actors : b # a => act'[b] = act[b]
  BY <1>1 DEF Others
<1>12. entries'[e].state = "STARTING" => entries[e].state = "STARTING" /\ act'[a].pc = "idle"
  BY <1>5, <1>6 DEF StartPcs, StopPcs
<1> QED
  BY <1>5, <1>6, <1>9, <1>10, <1>11, <1>12, QuietStep

\* A Start that fails; its entry is FAILED, or stays as it is.
LEMMA StartFails ==
  ASSUME SchedBase, SchedBase', RunParts, NEW a \in Actors, act[a].pc \in LateStart \ {"running"},
         NEW ok \in BOOLEAN, Return(a, ok), entries' = entries \/ SetState(act[a].ent, "FAILED"),
         UNCHANGED <<feeds, bridge>>
  PROVE  RunParts'
<1>1. a # Runner /\ act[a].ent \in Entries /\ act[a].pc \in LateStart
  BY RunFacts DEF LateStart, StartPcs
<1>2. "FAILED" \in States
  BY DEF States
<1>3. Alone(a)
  BY <1>1 DEF RunParts, StartAlone
<1>4. \A f \in Feeds : Feeding(f) => feeds[f].owner # act[a].ent
  BY <1>3 DEF Alone
<1>5. \A b \in Actors : b # a /\ act[b].pc \in LateStart => act[b].ent # act[a].ent
  BY <1>3, RunFacts DEF Alone
<1>6. /\ \A x \in Entries : /\ entries'[x].kind = entries[x].kind /\ entries'[x].feed = entries[x].feed
                            /\ x # act[a].ent => entries'[x] = entries[x]
      /\ entries'[act[a].ent].state # "RUNNING"
      /\ entries'[act[a].ent].state = "STARTING" => entries[act[a].ent].state = "STARTING"
  <2>1. CASE entries' = entries
    BY <1>3, <2>1 DEF Alone
  <2>2. CASE SetState(act[a].ent, "FAILED")
    BY <1>1, <1>2, <2>2, StateOnly
  <2> QED
    BY <2>1, <2>2
<1>7. act[a].pc \in (StartPcs \cup StopPcs) \ {"running"} /\ act[a].pc \in StartPcs
  BY DEF LateStart, StartPcs
<1> QED
  BY <1>1, <1>4, <1>5, <1>6, <1>7, QuietReturn

LEMMA StartRun ==
  ASSUME SchedBase, SchedBase', RunParts, NEW a \in Actors, Start(a), ~irregular'
  PROVE  RunParts'
<1>1. /\ a \in Admins /\ act[a].pc = "start" /\ act[a].ent \in Entries /\ SetState(act[a].ent, "STARTING")
      /\ SameBut(a, "add") \/ SameBut(a, "bridgeOn")
      /\ UNCHANGED <<feeds, registry, bridge>>
  BY StartEffect
<1>2. /\ act[a].ent = registry
      /\ \A f \in Feeds : Feeding(f) => feeds[f].owner # act[a].ent
      /\ \A b \in Actors \ {a} : act[b].ent = act[a].ent => act[b].pc \notin StartPcs \cup StopPcs
  BY DEF Start
<1>3. \A b \in Actors \ {a, Runner} : act[b].ent = act[a].ent => act[b].pc \notin LateStart \cup LateStop
  BY <1>2 DEF LateStart, LateStop, StartPcs, StopPcs
<1>4. /\ \A x \in Entries : /\ entries'[x].kind = entries[x].kind /\ entries'[x].feed = entries[x].feed
                            /\ x # act[a].ent => entries'[x] = entries[x]
      /\ entries'[act[a].ent].state = "STARTING"
  BY <1>1, StateOnly DEF States
<1>5. /\ Others(a) /\ act'[a].pc \in LateStart \ {"running"} /\ act'[a].ent = act[a].ent
      /\ act'[a].pc # "subscribe"
  BY <1>1 DEF SameBut, Moves, LateStart
<1> QED
  BY <1>1, <1>2, <1>3, <1>4, <1>5, StartsStep

LEMMA AddFuncRun ==
  ASSUME SchedBase, SchedBase', RunParts, NEW a \in Actors, AddFunc(a)
  PROVE  RunParts'
<1>1. act[a].pc = "add" /\ act[a].pc \in LateStart \ {"running"} /\ UNCHANGED bridge
  BY DEF AddFunc, bridgeVars, LateStart
<1>2. \/ FailAndReturn(a, FALSE) /\ UNCHANGED feeds
      \/ NewFeed(a, "running") /\ UNCHANGED <<entries, registry>>
  BY DEF AddFunc, regVars
<1> QED
  BY <1>1, <1>2, StartFails, NewFeedRun DEF FailAndReturn

LEMMA BridgeOnRun ==
  ASSUME SchedBase, SchedBase', RunParts, NEW a \in Actors, BridgeOn(a)
  PROVE  RunParts'
<1>1. act[a].pc = "bridgeOn" /\ UNCHANGED <<feeds, bridge>>
  BY DEF BridgeOn, bridgeVars
<1>2. a \in Admins /\ act[a].ent \in Entries /\ a # Runner /\ act[a].pc \in LateStart
  BY <1>1, RunFacts DEF LateStart, StartPcs
<1>3. CASE bridge.registered /\ Goto(a, "subscribe") /\ UNCHANGED <<entries, registry>>
  <2>1. Goto(a, "subscribe") /\ UNCHANGED <<entries, registry>>
    BY <1>3
  <2>2. SameBut(a, "subscribe")
    BY <2>1, GotoFacts DEF SchedBase, Pcs, AdminPcs, StartPcs
  <2>3. Others(a) /\ act'[a].pc = "subscribe" /\ act'[a].ent = act[a].ent
    BY <2>2 DEF SameBut, Moves
  <2>4. Alone(a)
    BY <1>2 DEF RunParts, StartAlone
  <2>5. /\ act[a].ent = registry /\ entries[act[a].ent].state \in {"STARTING", "FAILED"}
        /\ \A b \in Actors \ {a, Runner} : act[b].ent = act[a].ent => act[b].pc \notin LateStart \cup LateStop
        /\ \A f \in Feeds : Feeding(f) => feeds[f].owner # act[a].ent
    BY <1>1, <2>4 DEF Alone
  <2>6. act'[a].pc \in LateStart \ {"running"}
    BY <2>3 DEF LateStart
  <2> QED
    BY <1>1, <1>2, <1>3, <2>1, <2>3, <2>5, <2>6, StartsStep
<1>4. CASE Return(a, FALSE) /\ (entries' = entries \/ SetState(act[a].ent, "FAILED"))
  <2>1. act[a].pc \in LateStart \ {"running"}
    BY <1>1 DEF LateStart
  <2> QED
    BY <1>1, <1>4, <2>1, StartFails
<1> QED
  BY <1>3, <1>4 DEF BridgeOn, FailAndReturn, regVars

LEMMA SubscribeRun ==
  ASSUME SchedBase, SchedBase', RunParts, NEW a \in Actors, Subscribe(a)
  PROVE  RunParts'
<1>1. act[a].pc = "subscribe" /\ UNCHANGED bridge
  BY DEF Subscribe, bridgeVars
<1>2. \/ FailAndReturn(a, TRUE) /\ UNCHANGED feeds
      \/ NewFeed(a, "running") /\ UNCHANGED <<entries, registry>>
  BY DEF Subscribe, regVars
<1>3. act[a].pc \in LateStart \ {"running"}
  BY <1>1 DEF LateStart
<1> QED
  BY <1>1, <1>2, <1>3, StartFails, NewFeedRun DEF FailAndReturn

LEMMA StartingRun ==
  ASSUME SchedBase, SchedBase', RunParts, ~irregular', NEW a \in Actors,
         Start(a) \/ AddFunc(a) \/ BridgeOn(a) \/ Subscribe(a) \/ SetRunning(a)
  PROVE  RunParts'
BY StartRun, AddFuncRun, BridgeOnRun, SubscribeRun, SetRunningRun

LEMMA StopRun ==
  ASSUME SchedBase, SchedBase', RunParts, NEW a \in Actors, Stop(a), ~irregular'
  PROVE  RunParts'
<1>1. /\ a # Runner /\ act[a].pc = "stop" /\ act[a].ent \in Entries /\ SetState(act[a].ent, "STOPPING")
      /\ ~Starting(act[a].ent) /\ UNCHANGED <<feeds, registry, bridge>>
  BY StopEffect
<1>2. PICK p \in {"remove", "stopped", "bridgeOff"} :
        SameBut(a, p) /\ (p = "stopped" => entries[act[a].ent].feed = 0)
  BY StopEffect
<1>3. /\ Others(a) /\ act'[a].pc = p /\ act'[a].ent = act[a].ent /\ act'[a].then = act[a].then
      /\ \A b \in Actors : b # a => act'[b] = act[b]
  BY <1>2 DEF SameBut, Moves, Others
<1>4. \A b \in Actors : act[b].pc \in LateStart => act[b].ent # act[a].ent
  BY <1>1 DEF Starting, StartPcs, LateStart
<1>5. /\ \A x \in Entries : /\ entries'[x].kind = entries[x].kind /\ entries'[x].feed = entries[x].feed
                            /\ x # act[a].ent => entries'[x] = entries[x]
      /\ entries'[act[a].ent].state = "STOPPING"
  BY <1>1, StateOnly DEF States
<1>6. CASE p = "stopped"
  <2>1. ASSUME NEW f \in Feeds, Feeding(f), feeds[f].owner = act[a].ent PROVE FALSE
    <3>1. Kept(f) /\ entries[act[a].ent].feed # f
      BY <1>2, <1>6, <2>1, Names DEF RunParts, FeedsKept
    <3>2. PICK b \in Actors : act[b].pc = "running" /\ act[b].feed = f
      BY <2>1, <3>1 DEF Kept
    <3> QED
      BY <1>4, <2>1, <3>2, RunFacts DEF LateStart
  <2>2. \A f \in Feeds : Feeding(f)' <=> Feeding(f)
    BY <1>1, <1>3, <1>6, Names DEF Feeding
  <2>3. \A f \in Feeds : Feeding(f)' <=> (Feeding(f) /\ feeds[f].owner # act[a].ent)
    BY <2>1, <2>2
  <2>4. act[a].pc \in StopPcs /\ act[a].pc # "running"
    BY <1>1 DEF StopPcs
  <2> QED
    BY <1>1, <1>3, <1>4, <1>5, <1>6, <2>3, <2>4, QuietStep
<1>7. CASE p # "stopped"
  <2>1. act[a].pc \in StopPcs \ {"stopped", "check", "restore"} /\ p \in StopPcs \ {"stopped", "check", "restore"} /\ p # "signal"
    BY <1>1, <1>2, <1>7 DEF StopPcs
  <2> QED
    BY <1>1, <1>3, <1>4, <1>5, <2>1, StopsStep
<1> QED
  BY <1>6, <1>7

LEMMA RemoveCronRun ==
  ASSUME SchedBase, SchedBase', RunParts, NEW a \in Actors, RemoveCron(a)
  PROVE  RunParts'
<1>1. /\ a # Runner /\ act[a].pc = "remove" /\ act[a].ent \in Entries /\ SameBut(a, "stopped")
      /\ \A x \in Feeds : /\ feeds'[x].owner = feeds[x].owner
                          /\ x # entries[act[a].ent].feed => feeds'[x] = feeds[x]
                          /\ x = entries[act[a].ent].feed => ~feeds'[x].live
      /\ UNCHANGED <<entries, registry, bridge>>
  BY RemoveCronEffect
<1>2. /\ act'[a].pc = "stopped" /\ act'[a].ent = act[a].ent /\ act'[a].then = act[a].then
      /\ \A b \in Actors : b # a => act'[b] = act[b]
  BY <1>1 DEF SameBut, Moves, Others
<1>3. act[a].pc \in LateStop /\ act[a].pc \in StopPcs
  BY <1>1 DEF LateStop, StopPcs
<1>4. /\ \A b \in Actors : act[b].pc \in LateStart => act[b].ent # act[a].ent
      /\ entries[act[a].ent].state \notin {"RUNNING", "STARTING"}
      /\ \A f \in Feeds : Feeding(f) /\ feeds[f].owner = act[a].ent => f = entries[act[a].ent].feed
  BY <1>1, <1>3, StopFacts
<1>5. ASSUME NEW f \in Feeds
      PROVE  /\ feeds'[f].live => feeds[f].live
             /\ Feeding(f)' <=> (Feeding(f) /\ feeds[f].owner # act[a].ent)
  <2>1. CASE f = entries[act[a].ent].feed
    <3>1. feeds[f].owner = act[a].ent
      BY <1>1, <2>1, RunFacts, Names
    <3> QED
      BY <1>1, <2>1, <3>1 DEF Feeding
  <2>2. CASE f # entries[act[a].ent].feed
    BY <1>1, <1>2, <1>4, <2>2, Names DEF Feeding
  <2> QED
    BY <2>1, <2>2
<1> QED
  BY <1>1, <1>2, <1>3, <1>4, <1>5, QuietStep

\* A Stop that goes on without changing anything but what it waits for.
LEMMA StopsOn ==
  ASSUME SchedBase, SchedBase', RunParts, NEW a \in Actors, a # Runner,
         act[a].pc \in LateStop \ {"stopped", "check", "restore"}, NEW p \in LateStop \ {"stopped", "check", "restore"}, Moves(a, p),
         p = "signal" => act'[a].feed = entries[act[a].ent].feed,
         UNCHANGED <<entries, feeds, registry, bridge>>
  PROVE  RunParts'
<1>1. /\ Others(a) /\ act'[a].pc = p /\ act'[a].ent = act[a].ent /\ act'[a].then = act[a].then
  BY DEF Moves
<1>2. /\ act[a].ent \in Entries
      /\ \A b \in Actors : act[b].pc \in LateStart => act[b].ent # act[a].ent
      /\ entries[act[a].ent].state \notin {"RUNNING", "STARTING"}
  BY StopFacts
<1>3. act[a].pc \in StopPcs \ {"stopped", "check", "restore"} /\ p \in StopPcs \ {"stopped", "check", "restore"}
  BY DEF LateStop, StopPcs
<1> QED
  BY <1>1, <1>2, <1>3, StopsStep

\* A Stop that returns when nothing feeds its entry any more.
LEMMA StopReturns ==
  ASSUME SchedBase, SchedBase', RunParts, NEW a \in Actors, a # Runner, act[a].pc \in LateStop,
         NEW ok \in BOOLEAN, Return(a, ok), \A f \in Feeds : Feeding(f) => feeds[f].owner # act[a].ent,
         entries' = entries \/ (\E s \in States \ {"RUNNING", "STARTING"} : SetState(act[a].ent, s)),
         UNCHANGED <<feeds, bridge>>
  PROVE  RunParts'
<1>1. /\ act[a].ent \in Entries
      /\ \A b \in Actors : act[b].pc \in LateStart => act[b].ent # act[a].ent
      /\ entries[act[a].ent].state \notin {"RUNNING", "STARTING"}
  BY StopFacts
<1>2. /\ \A x \in Entries : /\ entries'[x].kind = entries[x].kind /\ entries'[x].feed = entries[x].feed
                            /\ x # act[a].ent => entries'[x] = entries[x]
      /\ entries'[act[a].ent].state \notin {"RUNNING", "STARTING"}
  BY <1>1, StateOnly
<1>3. act[a].pc \in (StartPcs \cup StopPcs) \ {"running"}
  BY DEF LateStop, StopPcs
<1> QED
  BY <1>1, <1>2, <1>3, QuietReturn

LEMMA BridgeOffRun ==
  ASSUME SchedBase, SchedBase', RunParts, NEW a \in Actors, BridgeOff(a)
  PROVE  RunParts'
<1>1. act[a].pc = "bridgeOff" /\ UNCHANGED <<feeds, bridge>>
  BY DEF BridgeOff, bridgeVars
<1>2. a # Runner /\ act[a].pc \in LateStop \ {"stopped", "check", "restore"} /\ Local(a) /\ act[a].ent \in Entries
  BY <1>1, CallFacts DEF LateStop, RunnerPcs, StopPcs
<1>3. CASE bridge.registered
  <2>1. Goto(a, "unsubscribe") /\ UNCHANGED <<entries, registry>>
    BY <1>3 DEF BridgeOff, regVars
  <2>2. Moves(a, "unsubscribe")
    BY <2>1, GotoFacts DEF SchedBase, Pcs, AdminPcs, StopPcs, SameBut
  <2>3. "unsubscribe" \in LateStop \ {"stopped", "check", "restore"}
    BY DEF LateStop
  <2> QED
    BY <1>1, <1>2, <2>1, <2>2, <2>3, StopsOn
<1>4. CASE ~bridge.registered
  <2>1. SetState(act[a].ent, "FAILED") /\ Return(a, FALSE) /\ "FAILED" \in States \ {"RUNNING", "STARTING"}
    BY <1>4 DEF BridgeOff, FailAndReturn, States
  <2>2. ASSUME NEW f \in Feeds, Feeding(f), feeds[f].owner = act[a].ent PROVE FALSE
    <3>1. KindOf(f) = "NATS"
      BY <1>1, <1>2, <2>2, Names DEF Local, CallOf, KindOf
    <3> QED
      BY <1>4, <2>2, <3>1 DEF RunParts, NoBridge, Feeding
  <2> QED
    BY <1>1, <1>2, <2>1, <2>2, StopReturns
<1> QED
  BY <1>3, <1>4

LEMMA UnsubscribeRun ==
  ASSUME SchedBase, SchedBase', RunParts, NEW a \in Actors, Unsubscribe(a), ~irregular'
  PROVE  RunParts'
<1>1. /\ act[a].pc = "unsubscribe" /\ Goto(a, "locked")
      /\ UNCHANGED <<entries, feeds, registry, bridge>>
  BY DEF Unsubscribe, regVars, bridgeVars
<1>2. a # Runner /\ act[a].pc \in LateStop \ {"stopped", "check", "restore"} /\ "locked" \in LateStop \ {"stopped", "check", "restore"}
  BY <1>1, RunFacts DEF LateStop, RunnerPcs
<1>3. Moves(a, "locked")
  BY <1>1, GotoFacts DEF SchedBase, Pcs, AdminPcs, StopPcs, SameBut
<1> QED
  BY <1>1, <1>2, <1>3, StopsOn

LEMMA LockRun ==
  ASSUME SchedBase, SchedBase', RunParts, NEW a \in Actors, LockSubscribers(a)
  PROVE  RunParts'
<1> DEFINE f == entries[act[a].ent].feed
<1>1. /\ a # Runner /\ act[a].pc = "locked" /\ act[a].ent \in Entries
      /\ \/ feeds[f].live /\ Moves(a, "signal") /\ act'[a].feed = f
         \/ ~feeds[f].live /\ SameBut(a, "stopped")
      /\ UNCHANGED <<entries, feeds, registry, bridge>>
  BY LockEffect
<1>2. act[a].pc \in LateStop \ {"stopped", "check", "restore"} /\ "signal" \in LateStop \ {"stopped", "check", "restore"}
      /\ act[a].pc \in StopPcs
  BY <1>1 DEF LateStop, StopPcs
<1>3. CASE feeds[f].live
  BY <1>1, <1>2, <1>3, StopsOn
<1>4. CASE ~feeds[f].live
  <2>1. /\ \A b \in Actors : b # a => act'[b] = act[b]
        /\ act'[a].pc = "stopped" /\ act'[a].ent = act[a].ent /\ act'[a].then = act[a].then
    BY <1>1, <1>4 DEF SameBut, Moves, Others
  <2>2. /\ \A b \in Actors : act[b].pc \in LateStart => act[b].ent # act[a].ent
        /\ entries[act[a].ent].state \notin {"RUNNING", "STARTING"}
        /\ \A x \in Feeds : Feeding(x) /\ feeds[x].owner = act[a].ent => x = f
    BY <1>1, <1>2, StopFacts
  <2>3. \A x \in Feeds : Feeding(x) => feeds[x].owner # act[a].ent
    BY <1>4, <2>2 DEF Feeding
  <2>4. \A x \in Feeds : Feeding(x)' <=> Feeding(x)
    BY <1>1, <2>1, Names DEF Feeding
  <2>5. \A x \in Feeds : Feeding(x)' <=> (Feeding(x) /\ feeds[x].owner # act[a].ent)
    BY <2>3, <2>4
  <2> QED
    BY <1>1, <1>2, <2>1, <2>2, <2>5, QuietStep
<1> QED
  BY <1>3, <1>4

LEMMA SignalRun ==
  ASSUME SchedBase, SchedBase', RunParts, NEW a \in Actors, Signal(a)
  PROVE  RunParts'
<1> DEFINE f == act[a].feed
<1>1. /\ act[a].pc = "signal" /\ f \in Feeds /\ f # a /\ KindOf(f) = "NATS"
      /\ act[f].pc = "idle" /\ feeds[f].live
      /\ \A b \in Actors : b # a /\ b # f => act'[b] = act[b]
      /\ act'[f].pc = "ending"
      /\ act'[a].pc = IF a = Runner THEN "sweep" ELSE "stopped"
      /\ act'[a].ent = act[a].ent /\ act'[a].then = act[a].then
      /\ UNCHANGED <<entries, feeds, registry, bridge>>
  BY SignalEffect
<1>2. a # Runner
  <2>1. ASSUME a = Runner PROVE FALSE
    <3>1. ~bridge.registered
      BY <1>1, <2>1 DEF SchedBase, BridgeInv
    <3> QED
      BY <1>1, <3>1 DEF RunParts, NoBridge
  <2> QED
    BY <2>1
<1>3. act[a].pc \in LateStop /\ act[a].pc \in StopPcs /\ f \in Actors
  BY <1>1, Names DEF LateStop, StopPcs
<1>4. /\ act[a].ent \in Entries
      /\ \A b \in Actors : act[b].pc \in LateStart => act[b].ent # act[a].ent
      /\ entries[act[a].ent].state \notin {"RUNNING", "STARTING"}
      /\ \A x \in Feeds : Feeding(x) /\ feeds[x].owner = act[a].ent => x = f
  BY <1>1, <1>2, <1>3, StopFacts
<1>5. feeds[f].owner = act[a].ent
  BY <1>1, <1>2 DEF SchedBase, Local, CallOf
<1>6. ASSUME NEW x \in Feeds PROVE Feeding(x)' <=> (Feeding(x) /\ feeds[x].owner # act[a].ent)
  <2>1. CASE x = f
    BY <1>1, <1>5, <2>1 DEF Feeding
  <2>2. CASE x # f
    BY <1>1, <1>2, <1>4, <2>2, Names DEF Feeding
  <2> QED
    BY <2>1, <2>2
<1>7. act'[a].pc = "stopped" /\ act[a].pc # "running"
  BY <1>1, <1>2
<1>8. \A b \in Actors : b # a => act'[b] = act[b] \/ (act[b].pc = "idle" /\ act'[b].pc = "ending")
  BY <1>1
<1> HIDE DEF f
<1> QED
  BY <1>1, <1>2, <1>3, <1>4, <1>6, <1>7, <1>8, QuietStep

LEMMA SetStoppedRun ==
  ASSUME SchedBase, SchedBase', RunParts, NEW a \in Actors, SetStopped(a)
  PROVE  RunParts'
<1>1. /\ a # Runner /\ act[a].pc = "stopped" /\ act[a].ent \in Entries /\ SetState(act[a].ent, "STOP")
      /\ (SameBut(a, "check") /\ registry' = registry) \/ Return(a, TRUE)
      /\ UNCHANGED <<feeds, bridge>>
  BY SetStoppedEffect
<1>2. act[a].pc \in LateStop /\ act[a].pc \in StopPcs
  BY <1>1 DEF LateStop, StopPcs
<1>3. /\ \A b \in Actors : act[b].pc \in LateStart => act[b].ent # act[a].ent
      /\ \A f \in Feeds : Feeding(f) => feeds[f].owner # act[a].ent
  BY <1>1, <1>2, StopFacts
<1>4. CASE SameBut(a, "check") /\ registry' = registry
  <2>1. /\ \A b \in Actors : b # a => act'[b] = act[b]
        /\ act'[a].pc = "check" /\ act'[a].ent = act[a].ent /\ act'[a].then = act[a].then
    BY <1>4 DEF SameBut, Moves, Others
  <2>2. \A f \in Feeds : Feeding(f)' <=> Feeding(f)
    BY <1>1, <2>1, Names DEF Feeding
  <2>3. \A f \in Feeds : Feeding(f)' <=> (Feeding(f) /\ feeds[f].owner # act[a].ent)
    BY <1>3, <2>2
  <2>4. /\ \A x \in Entries : /\ entries'[x].kind = entries[x].kind /\ entries'[x].feed = entries[x].feed
                              /\ x # act[a].ent => entries'[x] = entries[x]
        /\ entries'[act[a].ent].state = "STOP"
    BY <1>1, StateOnly DEF States
  <2> QED
    BY <1>1, <1>2, <1>3, <1>4, <2>1, <2>3, <2>4, QuietStep
<1>5. CASE Return(a, TRUE)
  <2>1. "STOP" \in States \ {"RUNNING", "STARTING"}
    BY DEF States
  <2> QED
    BY <1>1, <1>2, <1>3, <1>5, <2>1, StopReturns
<1> QED
  BY <1>1, <1>4, <1>5

LEMMA CheckStoppedRun ==
  ASSUME SchedBase, SchedBase', RunParts, NEW a \in Actors, CheckStopped(a)
  PROVE  RunParts'
<1>1. /\ a # Runner /\ act[a].pc = "check" /\ act[a].ent \in Entries
      /\ (SameBut(a, "restore") /\ registry' = registry) \/ Return(a, TRUE)
      /\ UNCHANGED <<entries, feeds, bridge>>
  BY CheckStoppedEffect
<1>2. act[a].pc \in LateStop /\ act[a].pc \in StopPcs
  BY <1>1 DEF LateStop, StopPcs
<1>3. /\ \A b \in Actors : act[b].pc \in LateStart => act[b].ent # act[a].ent
      /\ \A f \in Feeds : Feeding(f) => feeds[f].owner # act[a].ent
      /\ entries[act[a].ent].state \notin {"RUNNING", "STARTING"}
  BY <1>1, <1>2, StopFacts
<1>4. CASE SameBut(a, "restore") /\ registry' = registry
  <2>1. /\ \A b \in Actors : b # a => act'[b] = act[b]
        /\ act'[a].pc = "restore" /\ act'[a].ent = act[a].ent /\ act'[a].then = act[a].then
    BY <1>4 DEF SameBut, Moves, Others
  <2>2. \A f \in Feeds : Feeding(f)' <=> Feeding(f)
    BY <1>1, <2>1, Names DEF Feeding
  <2>3. \A f \in Feeds : Feeding(f)' <=> (Feeding(f) /\ feeds[f].owner # act[a].ent)
    BY <1>3, <2>2
  <2> QED
    BY <1>1, <1>2, <1>3, <1>4, <2>1, <2>3, QuietStep
<1>5. CASE Return(a, TRUE)
  BY <1>1, <1>2, <1>3, <1>5, StopReturns
<1> QED
  BY <1>1, <1>4, <1>5

LEMMA RestoreRun ==
  ASSUME SchedBase, SchedBase', RunParts, NEW a \in Actors, Restore(a), ~irregular'
  PROVE  RunParts'
<1>1. /\ a # Runner /\ act[a].pc = "restore" /\ act[a].ent \in Entries
      /\ act[a].prev \in States \ {"RUNNING", "STARTING"}
      /\ SetState(act[a].ent, act[a].prev) /\ Return(a, TRUE) /\ UNCHANGED <<feeds, bridge>>
  BY RestoreEffect
<1>2. act[a].pc \in LateStop
  BY <1>1 DEF LateStop
<1>3. \A f \in Feeds : Feeding(f) => feeds[f].owner # act[a].ent
  BY <1>1, <1>2, StopFacts
<1> QED
  BY <1>1, <1>2, <1>3, StopReturns

LEMMA StoppingRun ==
  ASSUME SchedBase, SchedBase', RunParts, ~irregular', NEW a \in Actors,
         \/ Stop(a) \/ RemoveCron(a) \/ BridgeOff(a) \/ Unsubscribe(a) \/ LockSubscribers(a)
         \/ Signal(a) \/ SetStopped(a) \/ CheckStopped(a) \/ Restore(a)
  PROVE  RunParts'
BY StopRun, RemoveCronRun, BridgeOffRun, UnsubscribeRun, LockRun, SignalRun, SetStoppedRun, CheckStoppedRun,
   RestoreRun

LEMMA TaskFailsRun ==
  ASSUME SchedBase, SchedBase', RunParts, NEW a \in Jobs \cup Feeds, TaskFails(a)
  PROVE  RunParts'
<1>1. /\ act[a].pc = "run" /\ SetState(act[a].ent, "FAILED")
      /\ Others(a) /\ act'[a].pc = "stop" /\ act'[a].ent = act[a].ent /\ act'[a].then = "next"
      /\ UNCHANGED <<feeds, registry, bridge>>
  BY TaskFailsEffect
<1>2. a \in Actors /\ a # Runner /\ act[a].ent \in Entries /\ "stop" \in StopPcs \ {"stopped", "check", "restore"}
  BY <1>1, TaskFacts DEF StopPcs
<1>3. /\ \A x \in Entries : /\ entries'[x].kind = entries[x].kind /\ entries'[x].feed = entries[x].feed
                            /\ x # act[a].ent => entries'[x] = entries[x]
      /\ entries'[act[a].ent].state = "FAILED"
  BY <1>1, <1>2, StateOnly DEF States
<1> QED
  BY <1>1, <1>2, <1>3, StopsStep

\* What the states do not follow stays known.
LEMMA IrregularStays ==
  ASSUME SchedBase, [SchedNext]_schedVars, irregular
  PROVE  irregular'
<1>1. ASSUME NEW a \in Admins, Request(a) PROVE irregular'
  BY <1>1, RequestEffect
<1>2. ASSUME NEW a \in Actors, Step(a) PROVE irregular'
  <2>1. CASE Replace(a) \/ Start(a) \/ Stop(a) \/ Unsubscribe(a) \/ Restore(a)
    BY <2>1 DEF Replace, Start, Stop, Unsubscribe, Restore
  <2>2. CASE AddFunc(a) \/ BridgeOn(a) \/ SetRunning(a) \/ RemoveCron(a) \/ BridgeOff(a) \/ SetStopped(a)
       \/ CheckStopped(a)
    BY <2>2 DEF AddFunc, BridgeOn, SetRunning, RemoveCron, BridgeOff, SetStopped, CheckStopped, historyVars
  <2> QED
    BY <1>2, <2>1, <2>2 DEF Step
<1>3. ASSUME NEW a \in Actors, LockedStep(a) PROVE irregular'
  BY <1>3 DEF LockedStep, Register, Unregister, Subscribe, LockSubscribers, Signal, historyVars
<1>4. ASSUME NEW a \in Jobs \cup Feeds, TaskStep(a) PROVE irregular'
  BY <1>4 DEF TaskStep, TaskEnds, TaskFails, historyVars
<1>7. ASSUME NEW f \in Feeds, RunTask(f) \/ EndSubscription(f) \/ \E a \in Jobs : Tick(a, f) PROVE irregular'
  BY <1>7 DEF RunTask, EndSubscription, Tick, historyVars
<1>5. CASE RemoveBridge \/ LockToClose \/ Sweep \/ CloseConn \/ BrokerLost \/ BrokerBack
  BY <1>5 DEF RemoveBridge, LockToClose, Sweep, CloseConn, BrokerLost, BrokerBack, historyVars
<1>6. CASE UNCHANGED schedVars
  BY <1>6 DEF schedVars
<1> QED
  BY <1>1, <1>2, <1>3, <1>4, <1>5, <1>6, <1>7 DEF SchedNext

LEMMA RunStep ==
  ASSUME SchedBase, RunInv, [SchedNext]_schedVars
  PROVE  RunInv'
<1> SUFFICES ASSUME ~irregular' PROVE RunParts'
  BY DEF RunInv
<1>1. SchedBase' /\ RunParts
  BY SchedBaseStep, IrregularStays DEF RunInv
<1>2. ASSUME NEW a \in Admins, Request(a) PROVE RunParts'
  BY <1>1, <1>2, RequestRun
<1>3. ASSUME NEW a \in Actors, Step(a) \/ LockedStep(a) PROVE RunParts'
  BY <1>1, <1>3, ReplaceRun, RegisterRun, UnregisterRun, StartingRun, StoppingRun DEF Step, LockedStep
<1>4. ASSUME NEW a \in Jobs \cup Feeds, TaskStep(a) PROVE RunParts'
  BY <1>1, <1>4, TaskEndsRun, TaskFailsRun DEF TaskStep
<1>6. ASSUME NEW f \in Feeds, RunTask(f) \/ EndSubscription(f) \/ \E a \in Jobs : Tick(a, f) PROVE RunParts'
  BY <1>1, <1>6, FeedRun, TickRun
<1>5. CASE UNCHANGED schedVars
  BY <1>1, <1>5 DEF schedVars, RunParts, StartAlone, Alone, StopWorks, Replaces, FeedsKept, Kept,
     Runs, NoBridge,
                    Silent, Feeding, KindOf
<1> QED
  BY <1>1, <1>2, <1>3, <1>4, <1>5, <1>6, BridgeRun DEF SchedNext
-----------------------------------------------------------------------------
(* From the first state on *)

LEMMA SchedStarts == SchedInit => SchedInv
<1> SUFFICES ASSUME SchedInit PROVE SchedInv
  OBVIOUS
<1>1. PICK stored \in BOOLEAN, auto \in BOOLEAN :
        LET up == stored /\ auto IN
        /\ registry = IF stored THEN 1 ELSE 0
        /\ entries = [e \in 1..MaxEntry |->
             IF e = 1 /\ stored
             THEN [kind |-> type, state |-> IF up THEN "RUNNING" ELSE "STOP", feed |-> IF up THEN 1 ELSE 0]
             ELSE NoEntry]
        /\ feeds = [f \in Feeds |-> [owner |-> IF f = 1 /\ up THEN 1 ELSE 0, live |-> f = 1 /\ up]]
        /\ subscribers = IF up /\ type = "NATS" THEN {1} ELSE {}
  BY DEF SchedInit
<1>2. /\ type \in {"TIMER", "NATS"} /\ 1 \in Feeds /\ 1 \in Entries /\ 1 \in 0..MaxEntry /\ 1 \in 0..MaxFeed
      /\ 0 \in 0..MaxEntry /\ 0 \in 0..MaxFeed
  BY SchedAssumption, Names DEF SchedInit
<1>3. /\ act = [a \in Actors |-> Idle] /\ irregular = FALSE /\ blockable = FALSE
      /\ bridge = [registered |-> TRUE, alive |-> TRUE, connected |-> TRUE, todo |-> {}]
  BY DEF SchedInit
<1>4. PICK up \in BOOLEAN : up = (stored /\ auto)
  OBVIOUS
<1>5. \A a \in Actors : act[a] = Idle /\ act[a].pc = "idle" /\ act[a].then = "reply"
  BY <1>3 DEF Idle
<1>6. ASSUME NEW e \in Entries
      PROVE  /\ entries[e] \in EntryRecs /\ entries[e].state \in {"RUNNING", "STOP"}
             /\ entries[e].feed # 0 => up /\ e = 1 /\ entries[e].feed = 1
             /\ entries[e].state = "RUNNING" => up /\ e = 1 /\ entries[e].feed = 1
             /\ e = 1 /\ stored => entries[e].kind = type
             /\ e = 1 /\ up => entries[e].state = "RUNNING" /\ entries[e].feed = 1
  BY <1>1, <1>2, <1>4, <1>6 DEF Entries, EntryRecs, States, NoEntry
<1>7. ASSUME NEW f \in Feeds
      PROVE  /\ feeds[f] \in FeedRecs
             /\ feeds[f].owner # 0 => f = 1 /\ up /\ feeds[f].owner = 1 /\ feeds[f].live = TRUE
             /\ feeds[f].owner = 0 => feeds[f].live = FALSE
             /\ f = 1 /\ up => feeds[f].owner = 1 /\ feeds[f].live = TRUE
  <2>1. PICK live \in BOOLEAN : live = (f = 1 /\ up)
    OBVIOUS
  <2>2. feeds[f] = [owner |-> IF live THEN 1 ELSE 0, live |-> live]
    BY <1>1, <1>4, <2>1
  <2>3. CASE f = 1 /\ up
    <3>1. feeds[f] = [owner |-> 1, live |-> TRUE]
      BY <2>1, <2>2, <2>3
    <3> QED
      BY <1>2, <2>3, <3>1 DEF FeedRecs
  <2>4. CASE ~(f = 1 /\ up)
    <3>1. feeds[f] = [owner |-> 0, live |-> FALSE]
      BY <2>1, <2>2, <2>4
    <3> QED
      BY <1>2, <2>4, <3>1 DEF FeedRecs
  <2> QED
    BY <2>3, <2>4
<1>8. SchedType
  <2>1. entries \in [Entries -> EntryRecs] /\ feeds \in [Feeds -> FeedRecs]
    BY <1>1, <1>6, <1>7 DEF Entries
  <2>2. act \in [Actors -> Acts]
    BY <1>3, IdleAct
  <2>3. bridge \in Bridges
    BY <1>3 DEF Bridges
  <2> QED
    BY <1>1, <1>2, <2>1, <2>2, <2>3 DEF SchedType
<1>9. Owners
  <2>1. \A f \in subscribers \cup bridge.todo : f = 1 /\ up /\ type = "NATS"
    BY <1>1, <1>3, <1>4
  <2> QED
    BY <1>1, <1>2, <1>4, <1>6, <1>7, <2>1 DEF Owners, KindOf
<1>10. \A a \in Actors : Local(a)
  BY <1>5, <1>7, Names DEF Local, RoleOf, CallOf, LockOf, FeedOf, AdminPcs, FeedPcs, RunnerPcs,
     StartPcs, StopPcs, Idle
<1>11. BridgeInv
  BY <1>3, <1>5, Names DEF BridgeInv
<1>12. SchedBase
  BY <1>8, <1>9, <1>10, <1>11 DEF SchedBase
<1>13. SignalInv
  <2>1. \A f \in Feeds : f \in Actors
    BY Names
  <2>2. bridge.alive = TRUE
    BY <1>3
  <2>3. act[Runner].pc = "idle"
    BY <1>5, Names
  <2> QED
    BY <1>5, <2>1, <2>2, <2>3 DEF SignalInv, SignalAnswered
<1>14. RunParts
  <2>1. StartAlone /\ StopWorks /\ Replaces /\ NoBridge
    BY <1>3, <1>5 DEF StartAlone, StopWorks, Replaces, NoBridge, LateStart, LateStop, StopPcs
  <2>2. ASSUME NEW f \in Feeds, Feeding(f)
        PROVE  Kept(f) /\ entries[feeds[f].owner].state = "RUNNING"
    <3>1. f = 1 /\ up /\ feeds[f].owner = 1
      BY <1>7, <2>2 DEF Feeding
    <3> QED
      BY <1>1, <1>2, <1>4, <1>6, <3>1 DEF Kept
  <2>3. Runs
    <3>1. ASSUME up PROVE Feeding(1)
      BY <1>2, <1>5, <1>7, <3>1, Names DEF Feeding
    <3> QED
      BY <1>2, <1>6, <3>1 DEF Runs
  <2> QED
    BY <2>1, <2>2, <2>3 DEF RunParts, FeedsKept, Silent
<1> QED
  BY <1>12, <1>13, <1>14 DEF SchedInv, RunInv

LEMMA SchedInvStep == SchedInv /\ [SchedNext]_schedVars => SchedInv'
BY SchedBaseStep, SignalStep, RunStep DEF SchedInv

LEMMA SchedInvAlways == SchedSafety => []SchedInv
BY SchedStarts, SchedInvStep, PTL DEF SchedSafety

\* However Register, Unregister, Start, Stop and failing tasks are interleaved, also the tasks of several
\* ticks of one cron entry, nothing runs beside the registered entry between operations, and it runs
\* exactly when it says RUNNING (registry.go, sched_timer.go, sched_subs.go); except after what
\* "irregular" lists.
THEOREM RunsIffRunningAlways == SchedSafety => []RunsIffRunning
<1>1. SchedInv => RunsIffRunning
  <2> SUFFICES ASSUME SchedInv, Quiet, ~irregular
               PROVE  {f \in Feeds : Feeding(f)} =
                        IF registry # 0 /\ entries[registry].state = "RUNNING" THEN {entries[registry].feed} ELSE {}
    BY DEF RunsIffRunning
  <2>1. SchedBase /\ FeedsKept /\ Runs
    BY DEF SchedInv, RunInv, RunParts
  <2>2. ASSUME NEW f \in Feeds, Feeding(f)
        PROVE  registry # 0 /\ entries[registry].state = "RUNNING" /\ f = entries[registry].feed
    <3>1. Kept(f) /\ feeds[f].owner # 0
      BY <2>1, <2>2, RunFacts, Names DEF FeedsKept
    <3> QED
      BY <3>1 DEF Kept, Quiet, StartPcs, StopPcs
  <2>3. ASSUME registry # 0, entries[registry].state = "RUNNING"
        PROVE  entries[registry].feed \in {f \in Feeds : Feeding(f)}
    BY <2>1, <2>3, RunFacts DEF Runs
  <2> QED
    BY <2>2, <2>3
<1> QED
  BY <1>1, SchedInvAlways, PTL

\* An entry says STOP only when its cron entry is removed and its subscription has been told
\* to end (TimerEntry.Stop, SubscriberEntry.Stop), whoever stops it and however many tasks
\* fail at a time, with the same exceptions.
THEOREM StoppedIsSilentAlways == SchedSafety => []StoppedIsSilent
<1>1. SchedInv => StoppedIsSilent
  BY DEF SchedInv, RunInv, RunParts, Silent, StoppedIsSilent
<1> QED
  BY <1>1, SchedInvAlways, PTL

\* No goroutine waits with subscriberLock for a subscription that is over or is ending by itself
\* (Unsubscribe, run), except after what "blockable" lists.
THEOREM SignalAnsweredAlways == SchedSafety => []SignalAnswered
<1>1. SchedInv => SignalAnswered
  BY DEF SchedInv, SignalInv
<1> QED
  BY <1>1, SchedInvAlways, PTL
=============================================================================
