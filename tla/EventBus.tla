------------------------------ MODULE EventBus ------------------------------
(***************************************************************************)
(* The event bus, mods/eventbus/bus.go: handlers by topic behind one lock, *)
(* called inside Publish (sync), in a goroutine of their own (async), or   *)
(* in goroutines that take turns (serial, "transactional" in the code).    *)
(* The publisher takes the lock of a serial handler before it starts the   *)
(* goroutine, which gives it back; meanwhile the bus is unlocked.          *)
(* A subscription is made once; a callback may unsubscribe itself.         *)
(***************************************************************************)
EXTENDS Integers, Sequences, FiniteSets

CONSTANTS
  Topics,
  Publishers,  \* goroutines that call Publish
  Subs,        \* *eventHandler objects
  TopicOf,     \* topic of a subscription
  Mode,        \* its mode: "sync", "async" or "serial"
  Once,        \* the subscriptions made with SubscribeOnce(Async)
  Fn,          \* code pointer of the callback, all that findHandlerIdx compares
  Closers,     \* the callbacks that may call Unsubscribe
  MaxEvents,   \* bound: events one publisher publishes
  None

ASSUME BusAssumption ==
  /\ TopicOf \in [Subs -> Topics]
  /\ Mode \in [Subs -> {"sync", "async", "serial"}]
  /\ Once \subseteq {h \in Subs : Mode[h] # "serial"}
  /\ Closers \subseteq Subs
  /\ MaxEvents \in Nat
  /\ None \notin Topics \cup Publishers \cup Subs

Events == Publishers \X (1..MaxEvents)

VARIABLES
  handlers,   \* bus.handlers
  lock,       \* the publisher that holds bus.lock, or None; others take it for one step
  subLock,    \* eventHandler.Mutex is locked
  fresh,      \* subscriptions not yet made
  dropped,    \* subscriptions Unsubscribe was called for
  pub,        \* what each publisher does
  calls,      \* goroutines of doPublishAsync
  wg,         \* bus.wg
  received    \* events each callback has handled, in order

busVars == <<handlers, lock, subLock, fresh, dropped, pub, calls, wg, received>>

Idle == [at |-> "idle", topic |-> None, copy |-> <<>>, i |-> 1, count |-> 0]
Event(p) == <<p, pub[p].count>>

\* mutant: Publish ranges over bus.handlers itself
CurrentLive(p) ==
  LET s == handlers[pub[p].topic] IN
  IF pub[p].i \in DOMAIN s THEN s[pub[p].i] ELSE pub[p].copy[pub[p].i]

Current(p) == pub[p].copy[pub[p].i]

BusInit ==
  /\ handlers = [t \in Topics |-> <<>>]
  /\ lock = None
  /\ subLock = [h \in Subs |-> FALSE]
  /\ fresh = Subs /\ dropped = {}
  /\ pub = [p \in Publishers |-> Idle]
  /\ calls = {}
  /\ wg = 0
  /\ received = [h \in Subs |-> <<>>]
-----------------------------------------------------------------------------
(* Subscriptions *)

WithoutAt(s, i) ==
  IF i \in DOMAIN s
  THEN [j \in 1..Len(s) - 1 |-> IF j < i THEN s[j] ELSE s[j + 1]]
  ELSE s

Subscribe(h) ==
  /\ h \in fresh /\ lock = None
  /\ handlers' = [handlers EXCEPT ![TopicOf[h]] = Append(@, h)]
  /\ fresh' = fresh \ {h}
  /\ UNCHANGED <<lock, subLock, dropped, pub, calls, wg, received>>

\* mutant: only the type of the callback is compared
FindByType(h) == IF handlers[TopicOf[h]] = <<>> THEN 0 ELSE 1

\* findHandlerIdx: the first handler with the code pointer of h; 0 when none
Find(h) ==
  LET s == handlers[TopicOf[h]]
      same == {i \in DOMAIN s : Fn[s[i]] = Fn[h]}
  IN IF same = {} THEN 0 ELSE CHOOSE i \in same : \A j \in same : i <= j

RemoveFound(h) ==
  /\ lock = None
  /\ handlers' = [handlers EXCEPT ![TopicOf[h]] = WithoutAt(@, Find(h))]
  /\ dropped' = dropped \cup {h}

Unsubscribe(h) ==
  /\ h \notin fresh \cup dropped
  /\ RemoveFound(h)
  /\ UNCHANGED <<lock, subLock, fresh, pub, calls, wg, received>>
-----------------------------------------------------------------------------
(* Publish *)

\* the event is built and the bus locked; without handlers Publish returns
PubBegin(p, t) ==
  /\ pub[p].at = "idle" /\ pub[p].count < MaxEvents /\ lock = None
  /\ pub' = [pub EXCEPT ![p] =
       IF handlers[t] = <<>> THEN [Idle EXCEPT !.count = pub[p].count + 1]
       ELSE [at |-> "loop", topic |-> t, copy |-> handlers[t], i |-> 1, count |-> @.count + 1]]
  /\ lock' = IF handlers[t] = <<>> THEN None ELSE p
  /\ UNCHANGED <<handlers, subLock, fresh, dropped, calls, wg, received>>

InLoop(p) == pub[p].at = "loop" /\ pub[p].i <= Len(pub[p].copy)

\* a once-handler is removed by its index in the copy
RemoveOnce(p) ==
  handlers' = IF Current(p) \in Once
              THEN [handlers EXCEPT ![pub[p].topic] = WithoutAt(@, pub[p].i)]
              ELSE handlers

Call(p) == [sub |-> Current(p), event |-> Event(p), at |-> "body"]

PubSync(p) ==
  /\ InLoop(p) /\ Mode[Current(p)] = "sync"
  /\ RemoveOnce(p)
  /\ received' = [received EXCEPT ![Current(p)] = Append(@, Event(p))]
  /\ pub' = [pub EXCEPT ![p].i = @ + 1]
  /\ UNCHANGED <<lock, subLock, fresh, dropped, calls, wg>>

PubAsync(p) ==
  /\ InLoop(p) /\ Mode[Current(p)] = "async"
  /\ RemoveOnce(p)
  /\ wg' = wg + 1
  /\ calls' = calls \cup {Call(p)}
  /\ pub' = [pub EXCEPT ![p].i = @ + 1]
  /\ UNCHANGED <<lock, subLock, fresh, dropped, received>>

\* mutant: the bus stays locked while the publisher waits for the handler
PubUnlockNever(p) ==
  /\ InLoop(p) /\ Mode[Current(p)] = "serial"
  /\ RemoveOnce(p)
  /\ wg' = wg + 1
  /\ pub' = [pub EXCEPT ![p].at = "acquire"]
  /\ UNCHANGED <<lock, subLock, fresh, dropped, calls, received>>

\* a serial handler: wg.Add(1), unlock the bus ...
PubUnlock(p) ==
  /\ InLoop(p) /\ Mode[Current(p)] = "serial"
  /\ RemoveOnce(p)
  /\ wg' = wg + 1
  /\ lock' = None
  /\ pub' = [pub EXCEPT ![p].at = "acquire"]
  /\ UNCHANGED <<subLock, fresh, dropped, calls, received>>

\* mutant: the goroutine, not the publisher, waits for the handler
PubAcquireLater(p) ==
  /\ pub[p].at = "acquire"
  /\ pub' = [pub EXCEPT ![p].at = "relock"]
  /\ UNCHANGED <<handlers, lock, subLock, fresh, dropped, calls, wg, received>>

\* ... lock the handler ...
PubAcquire(p) ==
  /\ pub[p].at = "acquire" /\ ~subLock[Current(p)]
  /\ subLock' = [subLock EXCEPT ![Current(p)] = TRUE]
  /\ pub' = [pub EXCEPT ![p].at = "relock"]
  /\ UNCHANGED <<handlers, lock, fresh, dropped, calls, wg, received>>

\* ... lock the bus again and start the goroutine
PubRelock(p) ==
  /\ pub[p].at = "relock" /\ lock \in {None, p}
  /\ lock' = p
  /\ calls' = calls \cup {Call(p)}
  /\ pub' = [pub EXCEPT ![p].at = "loop", ![p].i = @ + 1]
  /\ UNCHANGED <<handlers, subLock, fresh, dropped, wg, received>>

PubEnd(p) ==
  /\ pub[p].at = "loop" /\ pub[p].i > Len(pub[p].copy)
  /\ lock' = None
  /\ pub' = [pub EXCEPT ![p] = [Idle EXCEPT !.count = pub[p].count]]
  /\ UNCHANGED <<handlers, subLock, fresh, dropped, calls, wg, received>>
-----------------------------------------------------------------------------
(* The goroutine of doPublishAsync *)

MoveTo(c, at) == calls' = (calls \ {c}) \cup {[c EXCEPT !.at = at]}

\* the callback handles the event; some then go on to unsubscribe
Body(c, next) ==
  /\ c.at = "body"
  /\ received' = [received EXCEPT ![c.sub] = Append(@, c.event)]
  /\ MoveTo(c, next)
  /\ UNCHANGED <<handlers, lock, subLock, fresh, dropped, pub, wg>>

BodyUnsubscribes(c) ==
  /\ c.at = "unsubscribe"
  /\ RemoveFound(c.sub)
  /\ MoveTo(c, "return")
  /\ UNCHANGED <<lock, subLock, fresh, pub, wg, received>>

\* mutant: a serial goroutine gives only the handler back
ReturnWithoutDone(c) ==
  /\ c.at = "return"
  /\ subLock' = [subLock EXCEPT ![c.sub] = FALSE]
  /\ wg' = IF Mode[c.sub] = "serial" THEN wg ELSE wg - 1
  /\ calls' = calls \ {c}
  /\ UNCHANGED <<handlers, lock, fresh, dropped, pub, received>>

\* the deferred handler.Unlock() and wg.Done()
Return(c) ==
  /\ c.at = "return"
  /\ subLock' = [subLock EXCEPT ![c.sub] = FALSE]
  /\ wg' = wg - 1
  /\ calls' = calls \ {c}
  /\ UNCHANGED <<handlers, lock, fresh, dropped, pub, received>>
-----------------------------------------------------------------------------
PubStep(p) ==
  PubSync(p) \/ PubAsync(p) \/ PubUnlock(p) \/ PubAcquire(p) \/ PubRelock(p) \/ PubEnd(p)

CallStep(c) ==
  \/ Body(c, "return")
  \/ c.sub \in Closers \ dropped /\ Body(c, "unsubscribe")
  \/ BodyUnsubscribes(c)
  \/ Return(c)

BusNext ==
  \/ \E h \in Subs : Subscribe(h) \/ Unsubscribe(h)
  \/ \E p \in Publishers : PubStep(p) \/ \E t \in Topics : PubBegin(p, t)
  \/ \E c \in calls : CallStep(c)

BusSpec == BusInit /\ [][BusNext]_busVars

\* Goroutines run; sync.Mutex is fair enough that a waiter gets a lock which is
\* free again and again (starvation mode).
BusFairness ==
  /\ \A p \in Publishers :
       /\ WF_busVars(PubSync(p) \/ PubAsync(p) \/ PubUnlock(p) \/ PubEnd(p))
       /\ SF_busVars(PubAcquire(p)) /\ SF_busVars(PubRelock(p))
  /\ \A h \in Subs :
       /\ WF_busVars(\E c \in calls : c.sub = h /\ (Body(c, "return") \/ Return(c)))
       /\ SF_busVars(\E c \in calls : c.sub = h /\ BodyUnsubscribes(c))

BusFairSpec == BusSpec /\ BusFairness
-----------------------------------------------------------------------------
(* Properties *)

\* A serial handler (SubscribeAsync with transactional = true) gets the events of
\* one publisher in the order it published them, although doPublishAsync runs in
\* a goroutine of its own for every event.
SerialInOrder ==
  \A h \in Subs : Mode[h] = "serial" =>
    \A i, j \in DOMAIN received[h] :
      i < j /\ received[h][i][1] = received[h][j][1] => received[h][i][2] < received[h][j][2]

\* bus.wg, which WaitAsync waits for, counts exactly the goroutines of
\* doPublishAsync that are running and those Publish is about to start.
WaitCountsCalls ==
  wg = Cardinality(calls) + Cardinality({p \in Publishers : pub[p].at \in {"acquire", "relock"}})

\* When Publish returns, every handler that was subscribed when it began, other
\* than those unsubscribed since, has got the event or has a goroutine for it.
AllServed ==
  [][\A p \in Publishers : pub[p].at = "loop" /\ pub'[p].at = "idle" =>
       \A h \in Subs :
         \/ TopicOf[h] # pub[p].topic \/ h \in fresh \cup dropped
         \/ h \notin {pub[p].copy[i] : i \in DOMAIN pub[p].copy}
         \/ Event(p) \in {received[h][i] : i \in DOMAIN received[h]}
         \/ \E c \in calls : c.sub = h /\ c.event = Event(p)]_busVars

\* "Unsubscribe removes callback defined for a topic": a handler stays in
\* bus.handlers until Unsubscribe was called for it, whatever else is removed.
StaysSubscribed ==
  \A h \in Subs \ (fresh \cup dropped \cup Once) :
    h \in {handlers[TopicOf[h]][i] : i \in DOMAIN handlers[TopicOf[h]]}

\* Publish returns, also when asynchronous callbacks call Unsubscribe while it
\* waits for their handler.
PublishReturns == \A p \in Publishers : pub[p].at # "idle" ~> pub[p].at = "idle"
=============================================================================
