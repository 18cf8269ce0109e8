--------------------------- MODULE EventBusProofs ---------------------------
(***************************************************************************)
(* For any number of publishers, topics, handlers and events: what bus.wg  *)
(* counts is what WaitAsync is to wait for, every subscribed handler gets  *)
(* every event, and a serial one in the order of publication.              *)
(***************************************************************************)
EXTENDS EventBus, FiniteSetTheorems, SequenceTheorems, TLAPS

OnceIn(s) == \A i, j \in DOMAIN s : s[i] = s[j] => i = j

PubType ==
  pub \in [Publishers -> [at : {"idle", "loop", "acquire", "relock"}, topic : Topics \cup {None},
                          copy : Seq(Subs), i : Nat \ {0}, count : Nat]]

\* A handler is in the list of its topic once, and only when it was subscribed.
HandlersOnce ==
  /\ handlers \in [Topics -> Seq(Subs)]
  /\ \A t \in Topics : OnceIn(handlers[t]) /\ \A i \in DOMAIN handlers[t] : handlers[t][i] \notin fresh

\* Publish goes through a list without repetition, and stays inside it while it
\* waits for a lock.
CopyOnce ==
  \A p \in Publishers :
    /\ OnceIn(pub[p].copy)
    /\ pub[p].at \in {"acquire", "relock"} => pub[p].i \in DOMAIN pub[p].copy

\* A goroutine was started for an event that has been published.
CallShape ==
  \A c \in calls :
    /\ {"sub", "event", "at"} \subseteq DOMAIN c
    /\ \E p \in Publishers : \E n \in Nat : c.event = <<p, n>> /\ n <= pub[p].count

\* At most one goroutine for a handler and an event ...
CallsDistinct ==
  \A c, d \in calls : c.sub = d.sub /\ c.event = d.event => c = d

\* ... because the event's publisher has passed the handler.
CallsBehind ==
  \A c \in calls, p \in Publishers :
    c.event = Event(p) /\ pub[p].at # "idle" =>
      \E j \in DOMAIN pub[p].copy : j < pub[p].i /\ pub[p].copy[j] = c.sub

Waiting == {p \in Publishers : pub[p].at \in {"acquire", "relock"}}

Counted ==
  /\ IsFiniteSet(calls) /\ IsFiniteSet(Waiting)
  /\ wg = Cardinality(calls) + Cardinality(Waiting)

BusInv ==
  /\ PubType /\ HandlersOnce /\ CopyOnce
  /\ CallShape /\ CallsDistinct /\ CallsBehind /\ Counted

\* The part of it that speaks of the goroutines.
CallsInv == CallShape /\ CallsDistinct /\ CallsBehind

\* Initially there is nothing to wait for.
LEMMA InitBusInv == BusInit => BusInv
<1> SUFFICES ASSUME BusInit PROVE BusInv
  OBVIOUS
<1>1. /\ handlers = [t \in Topics |-> <<>>] /\ fresh = Subs
      /\ pub = [p \in Publishers |-> Idle] /\ calls = {} /\ wg = 0
  BY DEF BusInit
<1>2. PubType
  BY <1>1 DEF PubType, Idle
<1>3. HandlersOnce
  BY <1>1 DEF HandlersOnce, OnceIn
<1>4. CopyOnce
  BY <1>1 DEF CopyOnce, OnceIn, Idle
<1>5. CallShape /\ CallsDistinct /\ CallsBehind
  BY <1>1 DEF CallShape, CallsDistinct, CallsBehind
<1>6. Waiting = {}
  BY <1>1 DEF Waiting, Idle
<1>7. Counted
  BY <1>1, <1>6, FS_EmptySet DEF Counted
<1> QED
  BY <1>2, <1>3, <1>4, <1>5, <1>7 DEF BusInv

\* Removing by index, in or out of range, repeats nothing and adds nothing.
LEMMA WithoutAtOnce ==
  ASSUME NEW s \in Seq(Subs), NEW i, OnceIn(s)
  PROVE  /\ WithoutAt(s, i) \in Seq(Subs) /\ OnceIn(WithoutAt(s, i))
         /\ \A j \in DOMAIN WithoutAt(s, i) : \E k \in DOMAIN s : WithoutAt(s, i)[j] = s[k]
<1>1. CASE i \notin DOMAIN s
  BY <1>1 DEF WithoutAt
<1>2. CASE i \in DOMAIN s
  <2> DEFINE n == Len(s)
             w == [j \in 1..n - 1 |-> IF j < i THEN s[j] ELSE s[j + 1]]
  <2>1. n \in Nat /\ DOMAIN s = 1..n /\ i \in 1..n /\ n - 1 \in Nat
    BY <1>2
  <2>2. WithoutAt(s, i) = w
    BY <1>2 DEF WithoutAt
  <2>3. \A j \in 1..n - 1 : j \in 1..n /\ j + 1 \in 1..n
    BY <2>1
  <2>4. \A j \in 1..n - 1 : w[j] \in Subs
    BY <2>1, <2>3
  <2>5. w \in Seq(Subs)
    <3>1. w \in [1..n - 1 -> Subs]
      BY <2>4
    <3>2. Seq(Subs) = UNION {[1..m -> Subs] : m \in Nat}
      BY SeqDef
    <3> DEFINE m == n - 1
    <3>3. w \in [1..m -> Subs] /\ m \in Nat
      BY <2>1, <3>1
    <3> HIDE DEF w, m
    <3> QED
      BY <3>2, <3>3
  <2>6. OnceIn(w)
    <3> SUFFICES ASSUME NEW a \in 1..n - 1, NEW b \in 1..n - 1, w[a] = w[b] PROVE a = b
      BY DEF OnceIn
    <3> DEFINE at(j) == IF j < i THEN j ELSE j + 1
    <3>1. at(a) \in DOMAIN s /\ at(b) \in DOMAIN s
      BY <2>1, <2>3
    <3>2. w[a] = s[at(a)] /\ w[b] = s[at(b)]
      OBVIOUS
    <3>3. at(a) = at(b)
      BY <3>1, <3>2 DEF OnceIn
    <3> QED
      BY <2>1, <3>3
  <2>7. \A j \in 1..n - 1 : \E k \in 1..n : w[j] = s[k]
    BY <2>1, <2>3
  <2>8. DOMAIN w = 1..n - 1
    OBVIOUS
  <2> QED
    BY <2>1, <2>2, <2>5, <2>6, <2>7, <2>8
<1> QED
  BY <1>1, <1>2

\* Removing a handler by index keeps the lists without repetition.
LEMMA RemovedOnce ==
  ASSUME HandlersOnce, NEW t, NEW i, UNCHANGED fresh,
         handlers' = [handlers EXCEPT ![t] = WithoutAt(@, i)]
  PROVE  HandlersOnce'
<1>1. CASE t \notin Topics
  <2>1. handlers' = handlers
    BY <1>1 DEF HandlersOnce
  <2> QED
    BY <2>1 DEF HandlersOnce
<1>2. CASE t \in Topics
  <2> DEFINE w == WithoutAt(handlers[t], i)
  <2>1. handlers[t] \in Seq(Subs) /\ OnceIn(handlers[t])
    BY <1>2 DEF HandlersOnce
  <2>2. /\ w \in Seq(Subs) /\ OnceIn(w)
        /\ \A j \in DOMAIN w : \E k \in DOMAIN handlers[t] : w[j] = handlers[t][k]
    BY <2>1, WithoutAtOnce
  <2>3. \A j \in DOMAIN w : w[j] \notin fresh
    BY <1>2, <2>2 DEF HandlersOnce
  <2> HIDE DEF w
  <2>4. handlers' = [handlers EXCEPT ![t] = w]
    BY DEF w
  <2> QED
    BY <1>2, <2>2, <2>3, <2>4 DEF HandlersOnce
<1> QED
  BY <1>1, <1>2

LEMMA RemoveOnceOnce ==
  ASSUME HandlersOnce, NEW p \in Publishers, RemoveOnce(p), UNCHANGED fresh
  PROVE  HandlersOnce'
<1>1. CASE handlers' = handlers
  BY <1>1 DEF HandlersOnce
<1>2. CASE handlers' = [handlers EXCEPT ![pub[p].topic] = WithoutAt(@, pub[p].i)]
  BY <1>2, RemovedOnce
<1> QED
  BY <1>1, <1>2 DEF RemoveOnce

\* The parts of the invariant that a step which leaves pub and calls alone keeps.
LEMMA PubCallsSame ==
  ASSUME BusInv, HandlersOnce', UNCHANGED <<pub, calls, wg>>
  PROVE  BusInv'
BY DEF BusInv, PubType, CopyOnce, CallShape, CallsDistinct, CallsBehind, Event, Waiting, Counted

\* A subscription is a new element of its list.
LEMMA SubscribeInv ==
  ASSUME BusInv, NEW h \in Subs, Subscribe(h)
  PROVE  BusInv'
<1> DEFINE t == TopicOf[h]
<1>1. /\ h \in fresh /\ handlers' = [handlers EXCEPT ![t] = Append(@, h)] /\ fresh' = fresh \ {h}
      /\ UNCHANGED <<pub, calls, wg>>
  BY DEF Subscribe
<1>2. t \in Topics /\ HandlersOnce
  BY BusAssumption DEF BusAssumption, BusInv
<1> HIDE DEF t
<1> DEFINE s == handlers[t]
           w == Append(s, h)
<1>3. s \in Seq(Subs) /\ OnceIn(s) /\ \A i \in DOMAIN s : s[i] \notin fresh
  BY <1>2 DEF HandlersOnce
<1>4. /\ w \in Seq(Subs) /\ Len(w) = Len(s) + 1 /\ w[Len(s) + 1] = h
      /\ \A i \in 1..Len(s) : w[i] = s[i]
      /\ Len(s) \in Nat /\ DOMAIN s = 1..Len(s) /\ DOMAIN w = 1..Len(s) + 1
  BY <1>3
<1>5. handlers' = [handlers EXCEPT ![t] = w]
  BY <1>1
<1> HIDE DEF s, w
<1>6. OnceIn(w)
  BY <1>1, <1>3, <1>4 DEF OnceIn
<1>7. \A i \in DOMAIN w : w[i] \notin fresh'
  BY <1>1, <1>3, <1>4
<1>8. HandlersOnce'
  BY <1>1, <1>2, <1>4, <1>5, <1>6, <1>7 DEF HandlersOnce
<1> QED
  BY <1>1, <1>8, PubCallsSame

LEMMA UnsubscribeInv ==
  ASSUME BusInv, NEW h \in Subs, Unsubscribe(h)
  PROVE  BusInv'
<1>1. /\ handlers' = [handlers EXCEPT ![TopicOf[h]] = WithoutAt(@, Find(h))]
      /\ UNCHANGED <<fresh, pub, calls, wg>>
  BY DEF Unsubscribe, RemoveFound
<1>2. HandlersOnce'
  BY <1>1, RemovedOnce DEF BusInv
<1> QED
  BY <1>1, <1>2, PubCallsSame
-----------------------------------------------------------------------------
(* Publish *)

PubRecord ==
  [at : {"idle", "loop", "acquire", "relock"}, topic : Topics \cup {None},
   copy : Seq(Subs), i : Nat \ {0}, count : Nat]

\* What a step of one publisher does to pub.
Turns(p, r) ==
  /\ r \in PubRecord /\ OnceIn(r.copy)
  /\ r.at \in {"acquire", "relock"} => r.i \in DOMAIN r.copy
  /\ pub' = [pub EXCEPT ![p] = r]

LEMMA TurnsPub ==
  ASSUME PubType, CopyOnce, NEW p \in Publishers, NEW r, Turns(p, r)
  PROVE  /\ PubType' /\ CopyOnce'
         /\ pub'[p] = r /\ \A q \in Publishers \ {p} : pub'[q] = pub[q]
<1>1. /\ r \in PubRecord /\ OnceIn(r.copy)
      /\ r.at \in {"acquire", "relock"} => r.i \in DOMAIN r.copy
      /\ pub' = [pub EXCEPT ![p] = r]
  BY DEF Turns
<1>2. pub \in [Publishers -> PubRecord]
  BY DEF PubType, PubRecord
<1>3. pub' \in [Publishers -> PubRecord] /\ pub'[p] = r /\ \A q \in Publishers \ {p} : pub'[q] = pub[q]
  BY <1>1, <1>2
<1>4. PubType'
  BY <1>3 DEF PubType, PubRecord
<1>5. CopyOnce'
  BY <1>1, <1>3 DEF CopyOnce
<1> QED
  BY <1>3, <1>4, <1>5

\* A publisher that goes on in the same list keeps what is known of the goroutines.
LEMMA TurnsCalls ==
  ASSUME BusInv, NEW p \in Publishers, NEW r, Turns(p, r), pub[p].at # "idle",
         r.copy = pub[p].copy, r.i >= pub[p].i, r.count = pub[p].count, UNCHANGED calls
  PROVE  CallsInv'
<1>1. PubType /\ CopyOnce /\ CallShape /\ CallsDistinct /\ CallsBehind
  BY DEF BusInv
<1>2. PubType' /\ pub'[p] = r /\ \A q \in Publishers \ {p} : pub'[q] = pub[q]
  BY <1>1, TurnsPub
<1>3. CallShape'
  <2>1. \A q \in Publishers : pub'[q].count = pub[q].count
    BY <1>2
  <2> QED
    BY <1>1, <2>1 DEF CallShape
<1>4. CallsDistinct'
  BY <1>1 DEF CallsDistinct
<1>5. CallsBehind'
  <2> SUFFICES ASSUME NEW c \in calls, NEW q \in Publishers, c.event = Event(q)', pub'[q].at # "idle"
               PROVE  \E j \in DOMAIN pub'[q].copy : j < pub'[q].i /\ pub'[q].copy[j] = c.sub
    BY DEF CallsBehind
  <2>1. Event(q)' = Event(q) /\ pub[q].at # "idle"
    BY <1>2 DEF Event
  <2>2. PICK j \in DOMAIN pub[q].copy : j < pub[q].i /\ pub[q].copy[j] = c.sub
    BY <1>1, <2>1 DEF CallsBehind
  <2>3. pub'[q].copy = pub[q].copy /\ pub'[q].i >= pub[q].i /\ pub[q].i \in Nat /\ pub'[q].i \in Nat
    <3>1. pub[q].i \in Nat
      BY <1>1 DEF PubType
    <3>2. pub'[q].i \in Nat
      BY <1>2 DEF PubType
    <3>3. pub'[q].copy = pub[q].copy /\ (q = p \/ pub'[q].i = pub[q].i)
      BY <1>2
    <3>4. q = p => pub'[q].i >= pub[q].i
      BY <1>2
    <3> QED
      BY <3>1, <3>2, <3>3, <3>4
  <2>4. j \in Nat
    <3>1. pub[q].copy \in Seq(Subs)
      BY <1>1 DEF PubType
    <3> QED
      BY <2>2, <3>1
  <2> QED
    BY <2>2, <2>3, <2>4
<1> QED
  BY <1>3, <1>4, <1>5 DEF CallsInv

\* A goroutine is started for the handler that is current, and the publisher
\* goes on to the next: it is a goroutine that was not there before.
LEMMA StartCall ==
  ASSUME BusInv, NEW p \in Publishers, NEW r, Turns(p, r), pub[p].at # "idle",
         pub[p].i \in DOMAIN pub[p].copy,
         r.copy = pub[p].copy, r.i = pub[p].i + 1, r.count = pub[p].count,
         calls' = calls \cup {Call(p)}
  PROVE  CallsInv' /\ Call(p) \notin calls
<1> DEFINE new == Call(p)
<1>1. PubType /\ CopyOnce /\ CallShape /\ CallsDistinct /\ CallsBehind
  BY DEF BusInv
<1>2. PubType' /\ pub'[p] = r /\ \A q \in Publishers \ {p} : pub'[q] = pub[q]
  BY <1>1, TurnsPub
<1>3. /\ new.sub = Current(p) /\ new.event = Event(p)
      /\ {"sub", "event", "at"} \subseteq DOMAIN new
  BY DEF Call
<1> HIDE DEF new
<1>4. calls' = calls \cup {new}
  BY DEF new
<1>5. pub[p].count \in Nat /\ pub[p].i \in Nat /\ pub[p].copy \in Seq(Subs) /\ OnceIn(pub[p].copy)
  BY <1>1 DEF PubType, CopyOnce
<1>6. \A c \in calls : ~(c.sub = new.sub /\ c.event = new.event)
  <2> SUFFICES ASSUME NEW c \in calls, c.sub = Current(p), c.event = Event(p) PROVE FALSE
    BY <1>3
  <2>1. PICK j \in DOMAIN pub[p].copy : j < pub[p].i /\ pub[p].copy[j] = c.sub
    BY <1>1 DEF CallsBehind
  <2>2. pub[p].copy[j] = pub[p].copy[pub[p].i]
    BY <2>1 DEF Current
  <2>3. j = pub[p].i
    BY <1>5, <2>1, <2>2 DEF OnceIn
  <2> QED
    BY <1>5, <2>1, <2>3
<1>7. \A q \in Publishers : pub'[q].count = pub[q].count /\ Event(q)' = Event(q)
  BY <1>2 DEF Event
<1>8. CallShape'
  <2>1. new.event = <<p, pub[p].count>>
    BY <1>3 DEF Event
  <2>2. \A c \in calls : {"sub", "event", "at"} \subseteq DOMAIN c /\
          \E q \in Publishers : \E n \in Nat : c.event = <<q, n>> /\ n <= pub'[q].count
    BY <1>1, <1>7 DEF CallShape
  <2>3. \E q \in Publishers : \E n \in Nat : new.event = <<q, n>> /\ n <= pub'[q].count
    BY <1>5, <1>7, <2>1
  <2> QED
    BY <1>3, <1>4, <2>2, <2>3 DEF CallShape
<1>9. CallsDistinct'
  BY <1>1, <1>4, <1>6 DEF CallsDistinct
<1>10. CallsBehind'
  <2> SUFFICES ASSUME NEW c \in calls \cup {new}, NEW q \in Publishers, c.event = Event(q), pub'[q].at # "idle"
               PROVE  \E j \in DOMAIN pub'[q].copy : j < pub'[q].i /\ pub'[q].copy[j] = c.sub
    BY <1>4, <1>7 DEF CallsBehind
  <2>1. pub[q].at # "idle"
    BY <1>2
  <2>2. /\ pub'[q].copy = pub[q].copy /\ pub[q].i \in Nat
        /\ pub'[q].i = IF q = p THEN pub[q].i + 1 ELSE pub[q].i
        /\ pub[q].copy \in Seq(Subs)
    BY <1>1, <1>2 DEF PubType
  <2>3. CASE c \in calls
    <3>1. PICK j \in DOMAIN pub[q].copy : j < pub[q].i /\ pub[q].copy[j] = c.sub
      BY <1>1, <2>1, <2>3 DEF CallsBehind
    <3>2. j \in Nat
      BY <2>2, <3>1
    <3> QED
      BY <2>2, <3>1, <3>2
  <2>4. CASE c = new
    <3>1. q = p
      BY <1>3, <2>4 DEF Event
    <3> QED
      BY <1>3, <2>2, <2>4, <3>1 DEF Current
  <2> QED
    BY <2>3, <2>4
<1>11. new \notin calls
  BY <1>6
<1> QED
  BY <1>8, <1>9, <1>10, <1>11 DEF CallsInv, new

\* Who waits for a lock with a handler in hand, after a step of one publisher.
LEMMA WaitingMoves ==
  ASSUME PubType, CopyOnce, NEW p \in Publishers, NEW r, Turns(p, r)
  PROVE  Waiting' = IF r.at \in {"acquire", "relock"} THEN Waiting \cup {p} ELSE Waiting \ {p}
<1>1. pub'[p] = r /\ \A q \in Publishers \ {p} : pub'[q] = pub[q]
  BY TurnsPub
<1> QED
  BY <1>1 DEF Waiting

\* A record of pub that is changed in some fields.
LEMMA PubOf ==
  ASSUME PubType, CopyOnce, NEW p \in Publishers
  PROVE  /\ pub[p] \in PubRecord /\ OnceIn(pub[p].copy)
         /\ pub[p].at \in {"acquire", "relock"} => pub[p].i \in DOMAIN pub[p].copy
BY DEF PubType, PubRecord, CopyOnce

\* Publish begins: no goroutine runs for an event that is not published yet.
LEMMA PubBeginInv ==
  ASSUME BusInv, NEW p \in Publishers, NEW t \in Topics, PubBegin(p, t)
  PROVE  BusInv'
<1> DEFINE r == IF handlers[t] = <<>> THEN [Idle EXCEPT !.count = pub[p].count + 1]
                ELSE [at |-> "loop", topic |-> t, copy |-> handlers[t], i |-> 1, count |-> pub[p].count + 1]
<1>1. /\ pub[p].at = "idle" /\ pub' = [pub EXCEPT ![p] = r]
      /\ UNCHANGED <<handlers, fresh, calls, wg>>
  BY DEF PubBegin
<1>2. /\ PubType /\ HandlersOnce /\ CopyOnce
      /\ CallShape /\ CallsDistinct /\ CallsBehind /\ Counted
  BY DEF BusInv
<1>3. pub[p].count \in Nat
  BY <1>2 DEF PubType
<1>4. handlers[t] \in Seq(Subs) /\ OnceIn(handlers[t])
  BY <1>2 DEF HandlersOnce
<1>5. r.at \in {"idle", "loop"} /\ r.count = pub[p].count + 1
  BY DEF Idle
<1>6. Turns(p, r)
  <2>1. r \in PubRecord
    BY <1>3, <1>4 DEF PubRecord, Idle
  <2>2. OnceIn(r.copy)
    BY <1>4 DEF OnceIn, Idle
  <2> QED
    BY <1>1, <1>5, <2>1, <2>2 DEF Turns
<1> HIDE DEF r
<1>7. PubType' /\ CopyOnce' /\ pub'[p] = r /\ \A q \in Publishers \ {p} : pub'[q] = pub[q]
  BY <1>2, <1>6, TurnsPub
<1>8. Waiting' = Waiting
  BY <1>1, <1>2, <1>5, <1>6, WaitingMoves DEF Waiting
<1>9. HandlersOnce' /\ CallsDistinct'
  BY <1>1, <1>2 DEF HandlersOnce, CallsDistinct
<1>10. CallShape'
  <2> SUFFICES ASSUME NEW c \in calls
               PROVE  /\ {"sub", "event", "at"} \subseteq DOMAIN c
                      /\ \E q \in Publishers : \E n \in Nat : c.event = <<q, n>> /\ n <= pub'[q].count
    BY <1>1 DEF CallShape
  <2>1. PICK q \in Publishers, n \in Nat :
          {"sub", "event", "at"} \subseteq DOMAIN c /\ c.event = <<q, n>> /\ n <= pub[q].count
    BY <1>2 DEF CallShape
  <2>2. n <= pub'[q].count
    <3>1. CASE q = p
      BY <1>3, <1>5, <1>7, <2>1, <3>1
    <3>2. CASE q # p
      BY <1>7, <2>1, <3>2
    <3> QED
      BY <3>1, <3>2
  <2> QED
    BY <2>1, <2>2
<1>11. CallsBehind'
  <2> SUFFICES ASSUME NEW c \in calls, NEW q \in Publishers, c.event = Event(q)', pub'[q].at # "idle"
               PROVE  \E j \in DOMAIN pub'[q].copy : j < pub'[q].i /\ pub'[q].copy[j] = c.sub
    BY <1>1 DEF CallsBehind
  <2>1. CASE q # p
    BY <1>2, <1>7, <2>1 DEF CallsBehind, Event
  <2>2. CASE q = p
    <3>1. c.event = <<p, pub[p].count + 1>>
      BY <1>5, <1>7, <2>2 DEF Event
    <3>2. PICK o \in Publishers, n \in Nat : c.event = <<o, n>> /\ n <= pub[o].count
      BY <1>2 DEF CallShape
    <3>3. o = p /\ n = pub[p].count + 1
      BY <3>1, <3>2
    <3> QED
      BY <1>3, <3>2, <3>3
  <2> QED
    BY <2>1, <2>2
<1>12. Counted'
  BY <1>1, <1>2, <1>8 DEF Counted
<1> QED
  BY <1>7, <1>9, <1>10, <1>11, <1>12 DEF BusInv

\* A handler that is called inside Publish needs no count.
LEMMA PubSyncInv ==
  ASSUME BusInv, NEW p \in Publishers, PubSync(p)
  PROVE  BusInv'
<1> DEFINE r == [pub[p] EXCEPT !.i = @ + 1]
<1>1. /\ pub[p].at = "loop" /\ pub' = [pub EXCEPT ![p] = r]
      /\ RemoveOnce(p) /\ UNCHANGED <<fresh, calls, wg>>
  BY DEF PubSync, InLoop
<1>2. /\ PubType /\ HandlersOnce /\ CopyOnce
      /\ CallShape /\ CallsDistinct /\ CallsBehind /\ Counted
  BY DEF BusInv
<1>3. pub[p] \in PubRecord /\ OnceIn(pub[p].copy)
  BY <1>2, PubOf
<1>4. /\ r \in PubRecord /\ r.copy = pub[p].copy /\ r.at = "loop"
      /\ r.i = pub[p].i + 1 /\ r.count = pub[p].count
  BY <1>1, <1>3 DEF PubRecord
<1> HIDE DEF r
<1>5. Turns(p, r)
  BY <1>1, <1>3, <1>4 DEF Turns
<1>6. PubType' /\ CopyOnce'
  BY <1>2, <1>5, TurnsPub
<1>7. r.i >= pub[p].i
  BY <1>3, <1>4 DEF PubRecord
<1>8. CallsInv'
  BY <1>1, <1>4, <1>5, <1>7, TurnsCalls
<1>9. HandlersOnce'
  BY <1>1, <1>2, RemoveOnceOnce
<1>10. Waiting' = Waiting
  BY <1>1, <1>2, <1>4, <1>5, WaitingMoves DEF Waiting
<1>11. Counted'
  BY <1>1, <1>2, <1>10 DEF Counted
<1> QED
  BY <1>6, <1>8, <1>9, <1>11 DEF BusInv, CallsInv

\* An asynchronous handler is counted when its goroutine is started.
LEMMA PubAsyncInv ==
  ASSUME BusInv, NEW p \in Publishers, PubAsync(p)
  PROVE  BusInv'
<1> DEFINE r == [pub[p] EXCEPT !.i = @ + 1]
<1>1. /\ pub[p].at = "loop" /\ pub[p].i <= Len(pub[p].copy) /\ pub' = [pub EXCEPT ![p] = r]
      /\ RemoveOnce(p) /\ UNCHANGED fresh
      /\ calls' = calls \cup {Call(p)} /\ wg' = wg + 1
  BY DEF PubAsync, InLoop
<1>2. /\ PubType /\ HandlersOnce /\ CopyOnce
      /\ CallShape /\ CallsDistinct /\ CallsBehind /\ Counted
  BY DEF BusInv
<1>3. pub[p] \in PubRecord /\ OnceIn(pub[p].copy)
  BY <1>2, PubOf
<1>4. /\ r \in PubRecord /\ r.copy = pub[p].copy /\ r.at = "loop"
      /\ r.i = pub[p].i + 1 /\ r.count = pub[p].count
  BY <1>1, <1>3 DEF PubRecord
<1>5. pub[p].i \in DOMAIN pub[p].copy
  <2>1. pub[p].copy \in Seq(Subs) /\ pub[p].i \in Nat \ {0}
    BY <1>3 DEF PubRecord
  <2> QED
    BY <1>1, <2>1
<1> HIDE DEF r
<1>6. Turns(p, r)
  BY <1>1, <1>3, <1>4 DEF Turns
<1>7. PubType' /\ CopyOnce'
  BY <1>2, <1>6, TurnsPub
<1>8. CallsInv' /\ Call(p) \notin calls
  BY <1>1, <1>4, <1>5, <1>6, StartCall
<1>9. HandlersOnce'
  BY <1>1, <1>2, RemoveOnceOnce
<1>10. Waiting' = Waiting
  BY <1>1, <1>2, <1>4, <1>6, WaitingMoves DEF Waiting
<1>11. Counted'
  <2>1. /\ IsFiniteSet(calls \cup {Call(p)})
        /\ Cardinality(calls \cup {Call(p)}) = Cardinality(calls) + 1
    BY <1>2, <1>8, FS_AddElement DEF Counted
  <2>2. Cardinality(calls) \in Nat /\ Cardinality(Waiting) \in Nat
    BY <1>2, FS_CardinalityType DEF Counted
  <2> QED
    BY <1>1, <1>2, <1>10, <2>1, <2>2 DEF Counted
<1> QED
  BY <1>7, <1>8, <1>9, <1>11 DEF BusInv, CallsInv

\* A serial handler is counted before the publisher waits for it ...
LEMMA PubUnlockInv ==
  ASSUME BusInv, NEW p \in Publishers, PubUnlock(p)
  PROVE  BusInv'
<1> DEFINE r == [pub[p] EXCEPT !.at = "acquire"]
<1>1. /\ pub[p].at = "loop" /\ pub[p].i <= Len(pub[p].copy) /\ pub' = [pub EXCEPT ![p] = r]
      /\ RemoveOnce(p) /\ UNCHANGED <<fresh, calls>> /\ wg' = wg + 1
  BY DEF PubUnlock, InLoop
<1>2. /\ PubType /\ HandlersOnce /\ CopyOnce
      /\ CallShape /\ CallsDistinct /\ CallsBehind /\ Counted
  BY DEF BusInv
<1>3. pub[p] \in PubRecord /\ OnceIn(pub[p].copy)
  BY <1>2, PubOf
<1>4. /\ r \in PubRecord /\ r.copy = pub[p].copy /\ r.at = "acquire"
      /\ r.i = pub[p].i /\ r.count = pub[p].count
  BY <1>1, <1>3 DEF PubRecord
<1>5. pub[p].i \in DOMAIN pub[p].copy /\ pub[p].i \in Nat
  <2>1. pub[p].copy \in Seq(Subs) /\ pub[p].i \in Nat \ {0}
    BY <1>3 DEF PubRecord
  <2> QED
    BY <1>1, <2>1
<1> HIDE DEF r
<1>6. Turns(p, r)
  BY <1>1, <1>3, <1>4, <1>5 DEF Turns
<1>7. PubType' /\ CopyOnce'
  BY <1>2, <1>6, TurnsPub
<1>8. CallsInv'
  <2>1. r.i >= pub[p].i
    BY <1>4, <1>5
  <2> QED
    BY <1>1, <1>4, <1>6, <2>1, TurnsCalls
<1>9. HandlersOnce'
  BY <1>1, <1>2, RemoveOnceOnce
<1>10. Waiting' = Waiting \cup {p} /\ p \notin Waiting
  BY <1>1, <1>2, <1>4, <1>6, WaitingMoves DEF Waiting
<1>11. Counted'
  <2>1. /\ IsFiniteSet(Waiting \cup {p})
        /\ Cardinality(Waiting \cup {p}) = Cardinality(Waiting) + 1
    BY <1>2, <1>10, FS_AddElement DEF Counted
  <2>2. Cardinality(calls) \in Nat /\ Cardinality(Waiting) \in Nat
    BY <1>2, FS_CardinalityType DEF Counted
  <2> QED
    BY <1>1, <1>2, <1>10, <2>1, <2>2 DEF Counted
<1> QED
  BY <1>7, <1>8, <1>9, <1>11 DEF BusInv, CallsInv

\* ... stays counted while the publisher gets the lock of the handler ...
LEMMA PubAcquireInv ==
  ASSUME BusInv, NEW p \in Publishers, PubAcquire(p)
  PROVE  BusInv'
<1> DEFINE r == [pub[p] EXCEPT !.at = "relock"]
<1>1. /\ pub[p].at = "acquire" /\ pub' = [pub EXCEPT ![p] = r]
      /\ UNCHANGED <<handlers, fresh, calls, wg>>
  BY DEF PubAcquire
<1>2. /\ PubType /\ HandlersOnce /\ CopyOnce
      /\ CallShape /\ CallsDistinct /\ CallsBehind /\ Counted
  BY DEF BusInv
<1>3. pub[p] \in PubRecord /\ OnceIn(pub[p].copy) /\ pub[p].i \in DOMAIN pub[p].copy
  BY <1>1, <1>2, PubOf
<1>4. /\ r \in PubRecord /\ r.copy = pub[p].copy /\ r.at = "relock"
      /\ r.i = pub[p].i /\ r.count = pub[p].count /\ pub[p].i \in Nat
  BY <1>1, <1>3 DEF PubRecord
<1> HIDE DEF r
<1>5. Turns(p, r)
  BY <1>1, <1>3, <1>4 DEF Turns
<1>6. PubType' /\ CopyOnce'
  BY <1>2, <1>5, TurnsPub
<1>7. CallsInv'
  <2>1. r.i >= pub[p].i
    BY <1>4
  <2> QED
    BY <1>1, <1>4, <1>5, <2>1, TurnsCalls
<1>8. HandlersOnce'
  BY <1>1, <1>2 DEF HandlersOnce
<1>9. Waiting' = Waiting
  BY <1>1, <1>2, <1>4, <1>5, WaitingMoves DEF Waiting
<1>10. Counted'
  BY <1>1, <1>2, <1>9 DEF Counted
<1> QED
  BY <1>6, <1>7, <1>8, <1>10 DEF BusInv, CallsInv

\* ... and as a goroutine, when the publisher no longer waits.
LEMMA PubRelockInv ==
  ASSUME BusInv, NEW p \in Publishers, PubRelock(p)
  PROVE  BusInv'
<1> DEFINE r == [pub[p] EXCEPT !.at = "loop", !.i = @ + 1]
<1>1. /\ pub[p].at = "relock" /\ pub' = [pub EXCEPT ![p] = r]
      /\ UNCHANGED <<handlers, fresh, wg>> /\ calls' = calls \cup {Call(p)}
  BY DEF PubRelock
<1>2. /\ PubType /\ HandlersOnce /\ CopyOnce
      /\ CallShape /\ CallsDistinct /\ CallsBehind /\ Counted
  BY DEF BusInv
<1>3. pub[p] \in PubRecord /\ OnceIn(pub[p].copy) /\ pub[p].i \in DOMAIN pub[p].copy
  BY <1>1, <1>2, PubOf
<1>4. /\ r \in PubRecord /\ r.copy = pub[p].copy /\ r.at = "loop"
      /\ r.i = pub[p].i + 1 /\ r.count = pub[p].count
  <2> DEFINE mid == [pub[p] EXCEPT !.at = "loop"]
  <2>1. /\ mid \in PubRecord /\ mid.copy = pub[p].copy /\ mid.at = "loop"
        /\ mid.i = pub[p].i /\ mid.count = pub[p].count
    BY <1>3 DEF PubRecord
  <2>2. r = [mid EXCEPT !.i = pub[p].i + 1]
    OBVIOUS
  <2> HIDE DEF mid, r
  <2> QED
    BY <2>1, <2>2 DEF PubRecord
<1> HIDE DEF r
<1>5. Turns(p, r)
  BY <1>1, <1>3, <1>4 DEF Turns
<1>6. PubType' /\ CopyOnce'
  BY <1>2, <1>5, TurnsPub
<1>7. CallsInv' /\ Call(p) \notin calls
  BY <1>1, <1>3, <1>4, <1>5, StartCall
<1>8. HandlersOnce'
  BY <1>1, <1>2 DEF HandlersOnce
<1>9. Waiting' = Waiting \ {p} /\ p \in Waiting
  BY <1>1, <1>2, <1>4, <1>5, WaitingMoves DEF Waiting
<1>10. Counted'
  <2>1. /\ IsFiniteSet(calls \cup {Call(p)})
        /\ Cardinality(calls \cup {Call(p)}) = Cardinality(calls) + 1
    BY <1>2, <1>7, FS_AddElement DEF Counted
  <2>2. /\ IsFiniteSet(Waiting \ {p})
        /\ Cardinality(Waiting \ {p}) = Cardinality(Waiting) - 1
    BY <1>2, <1>9, FS_RemoveElement DEF Counted
  <2>3. Cardinality(calls) \in Nat /\ Cardinality(Waiting) \in Nat
    BY <1>2, FS_CardinalityType DEF Counted
  <2> QED
    BY <1>1, <1>2, <1>9, <2>1, <2>2, <2>3 DEF Counted
<1> QED
  BY <1>6, <1>7, <1>8, <1>10 DEF BusInv, CallsInv

\* Publish returns: its goroutines are still counted, it is not.
LEMMA PubEndInv ==
  ASSUME BusInv, NEW p \in Publishers, PubEnd(p)
  PROVE  BusInv'
<1> DEFINE r == [Idle EXCEPT !.count = pub[p].count]
<1>1. /\ pub[p].at = "loop" /\ pub' = [pub EXCEPT ![p] = r]
      /\ UNCHANGED <<handlers, fresh, calls, wg>>
  BY DEF PubEnd
<1>2. /\ PubType /\ HandlersOnce /\ CopyOnce
      /\ CallShape /\ CallsDistinct /\ CallsBehind /\ Counted
  BY DEF BusInv
<1>3. pub[p].count \in Nat
  BY <1>2 DEF PubType
<1>4. r \in PubRecord /\ OnceIn(r.copy) /\ r.at = "idle" /\ r.count = pub[p].count
  <2>1. r = [at |-> "idle", topic |-> None, copy |-> <<>>, i |-> 1, count |-> pub[p].count]
    BY DEF Idle
  <2> HIDE DEF r
  <2>2. r \in PubRecord
    BY <1>3, <2>1 DEF PubRecord
  <2>3. OnceIn(r.copy)
    BY <2>1 DEF OnceIn
  <2> QED
    BY <2>1, <2>2, <2>3
<1> HIDE DEF r
<1>5. Turns(p, r)
  BY <1>1, <1>4 DEF Turns
<1>6. PubType' /\ CopyOnce' /\ pub'[p] = r /\ \A q \in Publishers \ {p} : pub'[q] = pub[q]
  BY <1>2, <1>5, TurnsPub
<1>7. \A q \in Publishers : pub'[q].count = pub[q].count
  BY <1>4, <1>6
<1>8. CallShape' /\ CallsDistinct' /\ HandlersOnce'
  BY <1>1, <1>2, <1>7 DEF CallShape, CallsDistinct, HandlersOnce
<1>9. CallsBehind'
  BY <1>1, <1>2, <1>4, <1>6 DEF CallsBehind, Event
<1>10. Waiting' = Waiting
  BY <1>1, <1>2, <1>4, <1>5, WaitingMoves DEF Waiting
<1>11. Counted'
  BY <1>1, <1>2, <1>10 DEF Counted
<1> QED
  BY <1>6, <1>8, <1>9, <1>11 DEF BusInv
-----------------------------------------------------------------------------
(* The goroutines *)

\* A goroutine that moves on is the same goroutine.
LEMMA MoveToCalls ==
  ASSUME BusInv, NEW c \in calls, NEW at, MoveTo(c, at), UNCHANGED pub
  PROVE  CallsInv' /\ IsFiniteSet(calls') /\ Cardinality(calls') = Cardinality(calls)
<1> DEFINE new == [c EXCEPT !.at = at]
<1>1. CallShape /\ CallsDistinct /\ CallsBehind /\ IsFiniteSet(calls)
  BY DEF BusInv, Counted
<1>2. {"sub", "event", "at"} \subseteq DOMAIN c
  BY <1>1 DEF CallShape
<1>3. {"sub", "event", "at"} \subseteq DOMAIN new /\ new.sub = c.sub /\ new.event = c.event
  BY <1>2
<1>4. calls' = (calls \ {c}) \cup {new}
  BY DEF MoveTo
<1> HIDE DEF new
<1>5. CallShape'
  BY <1>1, <1>3, <1>4 DEF CallShape
<1>6. CallsDistinct'
  BY <1>1, <1>3, <1>4 DEF CallsDistinct
<1>7. CallsBehind'
  BY <1>1, <1>3, <1>4 DEF CallsBehind, Event
<1>8. new \notin calls \ {c}
  BY <1>1, <1>3 DEF CallsDistinct
<1>9. /\ IsFiniteSet(calls \ {c}) /\ Cardinality(calls \ {c}) = Cardinality(calls) - 1
      /\ Cardinality(calls) \in Nat
  BY <1>1, FS_RemoveElement, FS_CardinalityType
<1>10. /\ IsFiniteSet((calls \ {c}) \cup {new})
       /\ Cardinality((calls \ {c}) \cup {new}) = Cardinality(calls \ {c}) + 1
  BY <1>8, <1>9, FS_AddElement
<1> QED
  BY <1>4, <1>5, <1>6, <1>7, <1>9, <1>10 DEF CallsInv

LEMMA BodyInv ==
  ASSUME BusInv, NEW c \in calls, NEW next, Body(c, next)
  PROVE  BusInv'
<1>1. MoveTo(c, next) /\ UNCHANGED <<handlers, fresh, pub, wg>>
  BY DEF Body
<1>2. CallsInv' /\ IsFiniteSet(calls') /\ Cardinality(calls') = Cardinality(calls)
  BY <1>1, MoveToCalls
<1> QED
  BY <1>1, <1>2 DEF BusInv, CallsInv, PubType, HandlersOnce, CopyOnce, Counted, Waiting

LEMMA BodyUnsubscribesInv ==
  ASSUME BusInv, NEW c \in calls, BodyUnsubscribes(c)
  PROVE  BusInv'
<1>1. /\ MoveTo(c, "return") /\ UNCHANGED <<fresh, pub, wg>>
      /\ handlers' = [handlers EXCEPT ![TopicOf[c.sub]] = WithoutAt(@, Find(c.sub))]
  BY DEF BodyUnsubscribes, RemoveFound
<1>2. CallsInv' /\ IsFiniteSet(calls') /\ Cardinality(calls') = Cardinality(calls)
  BY <1>1, MoveToCalls
<1>3. HandlersOnce'
  BY <1>1, RemovedOnce DEF BusInv
<1> QED
  BY <1>1, <1>2, <1>3 DEF BusInv, CallsInv, PubType, CopyOnce, Counted, Waiting

\* The goroutine and its count go together.
LEMMA ReturnInv ==
  ASSUME BusInv, NEW c \in calls, Return(c)
  PROVE  BusInv'
<1>1. calls' = calls \ {c} /\ wg' = wg - 1 /\ UNCHANGED <<handlers, fresh, pub>>
  BY DEF Return
<1>2. CallShape' /\ CallsDistinct' /\ CallsBehind'
  BY <1>1 DEF BusInv, CallShape, CallsDistinct, CallsBehind, Event
<1>3. IsFiniteSet(calls) /\ IsFiniteSet(Waiting)
  BY DEF BusInv, Counted
<1>4. /\ IsFiniteSet(calls \ {c}) /\ Cardinality(calls \ {c}) = Cardinality(calls) - 1
      /\ Cardinality(calls) \in Nat /\ Cardinality(Waiting) \in Nat
  BY <1>3, FS_RemoveElement, FS_CardinalityType
<1>5. Counted'
  BY <1>1, <1>4 DEF BusInv, Counted, Waiting
<1> QED
  BY <1>1, <1>2, <1>5 DEF BusInv, PubType, HandlersOnce, CopyOnce
-----------------------------------------------------------------------------
\* Every step keeps the invariant.
LEMMA StepBusInv == BusInv /\ [BusNext]_busVars => BusInv'
<1> SUFFICES ASSUME BusInv, [BusNext]_busVars PROVE BusInv'
  OBVIOUS
<1>1. CASE UNCHANGED busVars
  BY <1>1, PubCallsSame DEF busVars, BusInv, HandlersOnce
<1>2. ASSUME NEW h \in Subs, Subscribe(h) \/ Unsubscribe(h) PROVE BusInv'
  BY <1>2, SubscribeInv, UnsubscribeInv
<1>3. ASSUME NEW p \in Publishers, PubStep(p) PROVE BusInv'
  BY <1>3, PubSyncInv, PubAsyncInv, PubUnlockInv, PubAcquireInv, PubRelockInv, PubEndInv DEF PubStep
<1>4. ASSUME NEW p \in Publishers, NEW t \in Topics, PubBegin(p, t) PROVE BusInv'
  BY <1>4, PubBeginInv
<1>5. ASSUME NEW c \in calls, CallStep(c) PROVE BusInv'
  BY <1>5, BodyInv, BodyUnsubscribesInv, ReturnInv DEF CallStep
<1> QED
  BY <1>1, <1>2, <1>3, <1>4, <1>5 DEF BusNext

\* bus.wg, which WaitAsync waits for, counts the goroutines of doPublishAsync that
\* run and those a publisher has announced, and no other.
THEOREM WaitCountsCallsAlways == BusSpec => []WaitCountsCalls
<1>1. BusInv => WaitCountsCalls
  BY DEF BusInv, Counted, Waiting, WaitCountsCalls
<1> QED
  BY <1>1, InitBusInv, StepBusInv, PTL DEF BusSpec
(***************************************************************************)
(* What the handlers get, and in which order                               *)
(***************************************************************************)
Stamps == Publishers \X Nat

RestType ==
  /\ subLock \in [Subs -> BOOLEAN] /\ received \in [Subs -> Seq(Stamps)]
  /\ calls \subseteq [sub : Subs, event : Stamps, at : {"body", "unsubscribe", "return"}]

\* The publisher has the lock of h and has not yet handed it to a goroutine.
Holds(p, h) == pub[p].at = "relock" /\ Current(p) = h

\* The lock of a serial handler belongs to one goroutine, or to one publisher.
Owned ==
  \A h \in Subs : Mode[h] = "serial" =>
    /\ \A c, d \in calls : c.sub = h /\ d.sub = h => c = d
    /\ \A p, q \in Publishers : Holds(p, h) /\ Holds(q, h) => p = q
    /\ \A c \in calls, p \in Publishers : c.sub = h => ~Holds(p, h)
    /\ \A c \in calls : c.sub = h => subLock[h]
    /\ \A p \in Publishers : Holds(p, h) => subLock[h]

\* A handler has no event that was not published, nor one that its publisher has
\* still to bring to it.
ReceivedBehind ==
  \A h \in Subs : \A i \in DOMAIN received[h] : \A p \in Publishers :
    received[h][i][1] = p =>
      /\ received[h][i][2] <= pub[p].count
      /\ received[h][i][2] = pub[p].count /\ pub[p].at # "idle" =>
           \E j \in DOMAIN pub[p].copy : j < pub[p].i /\ pub[p].copy[j] = h

\* The event in the hands of a serial handler's goroutine is newer than those before.
CallNewer ==
  \A c \in calls : Mode[c.sub] = "serial" /\ c.at = "body" =>
    \A i \in DOMAIN received[c.sub] :
      received[c.sub][i][1] = c.event[1] => received[c.sub][i][2] < c.event[2]

\* h has handled the event, or a goroutine is about to call it.
Has(got, cs, h, e) ==
  \/ \E i \in DOMAIN got[h] : got[h][i] = e
  \/ \E c \in cs : c.sub = h /\ c.event = e /\ c.at = "body"

\* The handlers a publisher has passed have its event.
Given ==
  \A p \in Publishers : pub[p].at # "idle" =>
    \A j \in DOMAIN pub[p].copy : j < pub[p].i => Has(received, calls, pub[p].copy[j], Event(p))

DeliveryInv == RestType /\ Owned /\ ReceivedBehind /\ CallNewer /\ SerialInOrder /\ Given

\* The callbacks of a topic can be told apart, and a callback that is wanted once
\* is alone on its topic.
ToldApart ==
  \A g, h \in Subs : TopicOf[g] = TopicOf[h] /\ (Fn[g] = Fn[h] \/ g \in Once) => g = h

\* Lists hold the handlers of their topic.
OwnTopic ==
  /\ \A t \in Topics : \A i \in DOMAIN handlers[t] : TopicOf[handlers[t][i]] = t
  /\ \A p \in Publishers : \A j \in DOMAIN pub[p].copy : TopicOf[pub[p].copy[j]] = pub[p].topic

\* What a step of p does to pub: it passes its current handler, waits for its lock,
\* begins with an event or ends.
Others(p) == \A q \in Publishers \ {p} : pub'[q] = pub[q]

Same(p) == pub'[p].copy = pub[p].copy /\ pub'[p].topic = pub[p].topic /\ pub'[p].count = pub[p].count

Passes(p) ==
  /\ pub[p].at # "idle" /\ pub[p].i \in DOMAIN pub[p].copy /\ Same(p)
  /\ pub'[p].at = "loop" /\ pub'[p].i = pub[p].i + 1

Waits(p, at) ==
  /\ pub[p].at # "idle" /\ pub[p].i \in DOMAIN pub[p].copy /\ Same(p)
  /\ pub'[p].at = at /\ pub'[p].i = pub[p].i

Begins(p, t) ==
  /\ pub'[p].count = pub[p].count + 1
  /\ \/ pub'[p].at = "idle" /\ pub'[p].copy = <<>>
     \/ pub'[p].at = "loop" /\ pub'[p].i = 1 /\ pub'[p].topic = t /\ pub'[p].copy = handlers[t]

Ends(p) == pub'[p].at = "idle" /\ pub'[p].copy = <<>> /\ pub'[p].count = pub[p].count

LEMMA PubMoves ==
  ASSUME BusInv, NEW p \in Publishers
  PROVE  /\ PubSync(p) \/ PubAsync(p) \/ PubRelock(p) => Passes(p) /\ Others(p)
         /\ PubUnlock(p) => Waits(p, "acquire") /\ Others(p)
         /\ PubAcquire(p) => Waits(p, "relock") /\ Others(p)
         /\ PubEnd(p) => Ends(p) /\ Others(p)
         /\ \A t : PubBegin(p, t) => Begins(p, t) /\ Others(p)
<1>1. PubType /\ CopyOnce
  BY DEF BusInv
<1>2. /\ pub[p] \in PubRecord /\ pub \in [Publishers -> PubRecord]
      /\ pub[p].at \in {"acquire", "relock"} => pub[p].i \in DOMAIN pub[p].copy
  BY <1>1, PubOf DEF PubType, PubRecord
<1>3. pub[p].copy \in Seq(Subs) /\ pub[p].i \in Nat \ {0}
  BY <1>2 DEF PubRecord
<1>4. ASSUME InLoop(p) PROVE pub[p].i \in DOMAIN pub[p].copy /\ pub[p].at # "idle"
  BY <1>3, <1>4 DEF InLoop
<1>5. ASSUME PubSync(p) \/ PubAsync(p) PROVE Passes(p) /\ Others(p)
  <2> DEFINE r == [pub[p] EXCEPT !.i = @ + 1]
  <2>1. pub' = [pub EXCEPT ![p] = r] /\ InLoop(p) /\ pub[p].at = "loop"
    BY <1>5 DEF PubSync, PubAsync, InLoop
  <2>2. r.copy = pub[p].copy /\ r.topic = pub[p].topic /\ r.count = pub[p].count /\ r.at = pub[p].at
        /\ r.i = pub[p].i + 1
    BY <1>2 DEF PubRecord
  <2> HIDE DEF r
  <2>3. pub'[p] = r /\ Others(p)
    BY <1>2, <2>1 DEF Others
  <2> QED
    BY <1>4, <2>1, <2>2, <2>3 DEF Passes, Same
<1>6. ASSUME PubRelock(p) PROVE Passes(p) /\ Others(p)
  <2> DEFINE mid == [pub[p] EXCEPT !.at = "loop"]
             r == [mid EXCEPT !.i = pub[p].i + 1]
  <2>1. pub' = [pub EXCEPT ![p] = [pub[p] EXCEPT !.at = "loop", !.i = @ + 1]] /\ pub[p].at = "relock"
    BY <1>6 DEF PubRelock
  <2>2. pub' = [pub EXCEPT ![p] = r]
    BY <2>1
  <2>3. mid.copy = pub[p].copy /\ mid.topic = pub[p].topic /\ mid.count = pub[p].count /\ mid.at = "loop"
        /\ mid \in PubRecord
    BY <1>2 DEF PubRecord
  <2> HIDE DEF mid
  <2>4. r.copy = mid.copy /\ r.topic = mid.topic /\ r.count = mid.count /\ r.at = mid.at /\ r.i = pub[p].i + 1
    BY <2>3 DEF PubRecord
  <2> HIDE DEF r
  <2>5. pub'[p] = r /\ Others(p)
    BY <1>2, <2>2 DEF Others
  <2> QED
    BY <1>2, <2>1, <2>3, <2>4, <2>5 DEF Passes, Same
<1>7. ASSUME NEW at, (PubUnlock(p) /\ at = "acquire") \/ (PubAcquire(p) /\ at = "relock")
      PROVE  Waits(p, at) /\ Others(p)
  <2> DEFINE r == [pub[p] EXCEPT !.at = at]
  <2>1. pub' = [pub EXCEPT ![p] = r] /\ pub[p].at # "idle" /\ pub[p].i \in DOMAIN pub[p].copy
    BY <1>2, <1>4, <1>7 DEF PubUnlock, PubAcquire
  <2>2. r.copy = pub[p].copy /\ r.topic = pub[p].topic /\ r.count = pub[p].count /\ r.at = at
        /\ r.i = pub[p].i
    BY <1>2 DEF PubRecord
  <2> HIDE DEF r
  <2>3. pub'[p] = r /\ Others(p)
    BY <1>2, <2>1 DEF Others
  <2> QED
    BY <2>1, <2>2, <2>3 DEF Waits, Same
<1>8. ASSUME PubEnd(p) PROVE Ends(p) /\ Others(p)
  <2> DEFINE r == [Idle EXCEPT !.count = pub[p].count]
  <2>1. pub' = [pub EXCEPT ![p] = r]
    BY <1>8 DEF PubEnd
  <2>2. r.copy = <<>> /\ r.at = "idle" /\ r.count = pub[p].count
    BY DEF Idle
  <2> HIDE DEF r
  <2>3. pub'[p] = r /\ Others(p)
    BY <1>2, <2>1 DEF Others
  <2> QED
    BY <2>2, <2>3 DEF Ends
<1>9. ASSUME NEW t, PubBegin(p, t) PROVE Begins(p, t) /\ Others(p)
  <2> DEFINE none == [Idle EXCEPT !.count = pub[p].count + 1]
             some == [at |-> "loop", topic |-> t, copy |-> handlers[t], i |-> 1, count |-> pub[p].count + 1]
  <2>1. pub' = [pub EXCEPT ![p] = none] \/ pub' = [pub EXCEPT ![p] = some]
    BY <1>9 DEF PubBegin
  <2>2. /\ none.at = "idle" /\ none.copy = <<>> /\ none.count = pub[p].count + 1
        /\ some.at = "loop" /\ some.i = 1 /\ some.topic = t /\ some.copy = handlers[t]
        /\ some.count = pub[p].count + 1
    BY DEF Idle
  <2> HIDE DEF none, some
  <2>3. pub'[p] \in {none, some} /\ Others(p)
    BY <1>2, <2>1 DEF Others
  <2> QED
    BY <2>2, <2>3 DEF Begins
<1>10. PubUnlock(p) => Waits(p, "acquire") /\ Others(p)
  BY <1>7
<1>12. PubAcquire(p) => Waits(p, "relock") /\ Others(p)
  BY <1>7
<1>11. \A t : PubBegin(p, t) => Begins(p, t) /\ Others(p)
  BY <1>9
<1> QED
  BY <1>5, <1>6, <1>8, <1>10, <1>11, <1>12

\* What every step leaves of a publisher's progress.
Onward(q) ==
  /\ pub'[q].count \in Nat /\ pub'[q].count >= pub[q].count
  /\ pub'[q].count = pub[q].count /\ pub'[q].at # "idle" =>
       pub[q].at # "idle" /\ pub'[q].copy = pub[q].copy /\ pub'[q].i >= pub[q].i

LEMMA AllOnward ==
  ASSUME BusInv, [BusNext]_busVars, NEW q \in Publishers PROVE Onward(q)
<1>1. pub[q].count \in Nat /\ pub[q].i \in Nat
  BY DEF BusInv, PubType
<1>2. CASE pub'[q] = pub[q]
  BY <1>1, <1>2 DEF Onward
<1>3. CASE PubStep(q)
  <2>1. Passes(q) \/ Waits(q, "acquire") \/ Waits(q, "relock") \/ Ends(q)
    BY <1>3, PubMoves DEF PubStep
  <2> QED
    BY <1>1, <2>1 DEF Onward, Passes, Waits, Ends, Same
<1>4. ASSUME NEW t, PubBegin(q, t) PROVE Onward(q)
  <2>1. Begins(q, t)
    BY <1>4, PubMoves
  <2> QED
    BY <1>1, <2>1 DEF Onward, Begins
<1>5. ASSUME NEW p \in Publishers, p # q, PubStep(p) \/ \E t \in Topics : PubBegin(p, t) PROVE pub'[q] = pub[q]
  <2>1. Others(p)
    BY <1>5, PubMoves DEF PubStep
  <2> QED
    BY <1>5, <2>1 DEF Others
<1>6. ASSUME \/ UNCHANGED busVars \/ \E h \in Subs : Subscribe(h) \/ Unsubscribe(h) 
             \/ \E c \in calls : CallStep(c)
      PROVE  UNCHANGED pub
  BY <1>6 DEF busVars, Subscribe, Unsubscribe, CallStep, Body, BodyUnsubscribes, Return
<1> QED
  BY <1>2, <1>3, <1>4, <1>5, <1>6 DEF BusNext

LEMMA StampAppend ==
  ASSUME NEW s \in Seq(Stamps), NEW e \in Stamps
  PROVE  /\ Append(s, e) \in Seq(Stamps) /\ DOMAIN Append(s, e) = 1..Len(s) + 1 /\ DOMAIN s = 1..Len(s)
         /\ Len(s) \in Nat /\ Append(s, e)[Len(s) + 1] = e
         /\ \A i \in 1..Len(s) : Append(s, e)[i] = s[i]
OBVIOUS

\* The only steps that bring an event to a handler.
LEMMA Receives ==
  ASSUME [BusNext]_busVars
  PROVE  \/ UNCHANGED received
         \/ \E p \in Publishers : PubSync(p)
         \/ \E c \in calls : Body(c, "return") \/ Body(c, "unsubscribe")
BY DEF BusNext, busVars, Subscribe, Unsubscribe, PubBegin, PubStep, PubAsync, PubUnlock,
   PubAcquire, PubRelock,
       PubEnd, CallStep, BodyUnsubscribes, Return

\* Where an event of received' comes from.
LEMMA ReceivedFrom ==
  ASSUME BusInv, RestType, [BusNext]_busVars, NEW h \in Subs, NEW i \in DOMAIN received'[h]
  PROVE  \/ i \in DOMAIN received[h] /\ received'[h][i] = received[h][i]
         \/ /\ i = Len(received[h]) + 1 /\ DOMAIN received[h] = 1..Len(received[h]) /\ Len(received[h]) \in Nat
            /\ \/ \E p \in Publishers : PubSync(p) /\ h = Current(p) /\ received'[h][i] = Event(p)
               \/ \E c \in calls : /\ Body(c, "return") \/ Body(c, "unsubscribe")
                                   /\ c.at = "body" /\ h = c.sub /\ received'[h][i] = c.event
<1>1. received[h] \in Seq(Stamps)
  BY DEF RestType
<1>2. ASSUME NEW g, NEW e \in Stamps, received' = [received EXCEPT ![g] = Append(@, e)]
      PROVE  \/ i \in DOMAIN received[h] /\ received'[h][i] = received[h][i]
             \/ /\ i = Len(received[h]) + 1 /\ DOMAIN received[h] = 1..Len(received[h]) /\ Len(received[h]) \in Nat
                /\ h = g /\ received'[h][i] = e
  <2>1. CASE h = g
    <3>1. received'[h] = Append(received[h], e)
      BY <1>2, <2>1 DEF RestType
    <3> QED
      BY <1>1, <2>1, <3>1, StampAppend
  <2>2. CASE h # g
    BY <1>2, <2>2 DEF RestType
  <2> QED
    BY <2>1, <2>2
<1>3. CASE UNCHANGED received
  BY <1>3
<1>4. ASSUME NEW p \in Publishers, PubSync(p)
      PROVE  \/ i \in DOMAIN received[h] /\ received'[h][i] = received[h][i]
             \/ /\ i = Len(received[h]) + 1 /\ DOMAIN received[h] = 1..Len(received[h]) /\ Len(received[h]) \in Nat
                /\ h = Current(p) /\ received'[h][i] = Event(p)
  <2>1. Event(p) \in Stamps
    BY DEF Event, Stamps, BusInv, PubType
  <2>2. received' = [received EXCEPT ![Current(p)] = Append(@, Event(p))]
    BY <1>4 DEF PubSync
  <2> QED
    BY <1>2, <2>1, <2>2
<1>5. ASSUME NEW c \in calls, Body(c, "return") \/ Body(c, "unsubscribe")
      PROVE  \/ i \in DOMAIN received[h] /\ received'[h][i] = received[h][i]
             \/ /\ i = Len(received[h]) + 1 /\ DOMAIN received[h] = 1..Len(received[h]) /\ Len(received[h]) \in Nat
                /\ h = c.sub /\ received'[h][i] = c.event /\ c.at = "body"
  <2>1. c.event \in Stamps
    BY DEF RestType
  <2>2. received' = [received EXCEPT ![c.sub] = Append(@, c.event)] /\ c.at = "body"
    BY <1>5 DEF Body
  <2> QED
    BY <1>2, <2>1, <2>2
<1> QED
  BY <1>3, <1>4, <1>5, Receives

\* Nothing is taken back.
LEMMA ReceivedKept ==
  ASSUME BusInv, RestType, [BusNext]_busVars, NEW h \in Subs, NEW i \in DOMAIN received[h]
  PROVE  i \in DOMAIN received'[h] /\ received'[h][i] = received[h][i]
<1>1. received[h] \in Seq(Stamps)
  BY DEF RestType
<1>2. ASSUME NEW g, NEW e \in Stamps, received' = [received EXCEPT ![g] = Append(@, e)]
      PROVE  i \in DOMAIN received'[h] /\ received'[h][i] = received[h][i]
  <2>1. CASE h = g
    <3>1. received'[h] = Append(received[h], e)
      BY <1>2, <2>1 DEF RestType
    <3> QED
      BY <1>1, <3>1, StampAppend
  <2>2. CASE h # g
    BY <1>2, <2>2 DEF RestType
  <2> QED
    BY <2>1, <2>2
<1>3. ASSUME NEW p \in Publishers, PubSync(p)
      PROVE  i \in DOMAIN received'[h] /\ received'[h][i] = received[h][i]
  <2>1. Event(p) \in Stamps
    BY DEF Event, Stamps, BusInv, PubType
  <2> QED
    BY <1>2, <1>3, <2>1 DEF PubSync
<1>4. ASSUME NEW c \in calls, Body(c, "return") \/ Body(c, "unsubscribe")
      PROVE  i \in DOMAIN received'[h] /\ received'[h][i] = received[h][i]
  <2>1. c.event \in Stamps
    BY DEF RestType
  <2> QED
    BY <1>2, <1>4, <2>1 DEF Body
<1> QED
  BY <1>3, <1>4, Receives

LEMMA BehindStep ==
  ASSUME BusInv, RestType, ReceivedBehind, [BusNext]_busVars PROVE ReceivedBehind'
<1> SUFFICES ASSUME NEW h \in Subs, NEW i \in DOMAIN received'[h], NEW p \in Publishers,
                    received'[h][i][1] = p
             PROVE  /\ received'[h][i][2] <= pub'[p].count
                    /\ received'[h][i][2] = pub'[p].count /\ pub'[p].at # "idle" =>
                         \E j \in DOMAIN pub'[p].copy : j < pub'[p].i /\ pub'[p].copy[j] = h
  BY DEF ReceivedBehind
<1> DEFINE n == received'[h][i][2]
<1>1. /\ pub[p].count \in Nat /\ pub[p].i \in Nat /\ pub[p].copy \in Seq(Subs)
      /\ pub'[p].count \in Nat /\ pub'[p].i \in Nat /\ Onward(p)
  <2>1. PubType /\ PubType'
    BY StepBusInv DEF BusInv
  <2> QED
    BY <2>1, AllOnward DEF PubType
<1>2. CASE i \in DOMAIN received[h] /\ received'[h][i] = received[h][i]
  <2>1. /\ n <= pub[p].count
        /\ n = pub[p].count /\ pub[p].at # "idle" =>
             \E j \in DOMAIN pub[p].copy : j < pub[p].i /\ pub[p].copy[j] = h
    BY <1>2 DEF ReceivedBehind
  <2>2. n \in Nat
    BY <1>2 DEF RestType, Stamps
  <2>3. n <= pub'[p].count
    BY <1>1, <2>1, <2>2 DEF Onward
  <2>4. ASSUME n = pub'[p].count, pub'[p].at # "idle"
        PROVE  \E j \in DOMAIN pub'[p].copy : j < pub'[p].i /\ pub'[p].copy[j] = h
    <3>1. pub'[p].count = pub[p].count
      BY <1>1, <2>1, <2>2, <2>4 DEF Onward
    <3>2. pub[p].at # "idle" /\ pub'[p].copy = pub[p].copy /\ pub'[p].i >= pub[p].i
      BY <1>1, <2>4, <3>1 DEF Onward
    <3>3. PICK j \in DOMAIN pub[p].copy : j < pub[p].i /\ pub[p].copy[j] = h
      BY <2>1, <2>4, <3>1, <3>2
    <3>4. j \in Nat
      BY <1>1, <3>3
    <3>5. j < pub'[p].i
      BY <1>1, <3>2, <3>3, <3>4
    <3> QED
      BY <3>2, <3>3, <3>5
  <2> QED
    BY <2>3, <2>4
<1>3. ASSUME NEW q \in Publishers, PubSync(q), h = Current(q), received'[h][i] = Event(q)
      PROVE  /\ n <= pub'[p].count
             /\ n = pub'[p].count /\ pub'[p].at # "idle" =>
                  \E j \in DOMAIN pub'[p].copy : j < pub'[p].i /\ pub'[p].copy[j] = h
  <2>1. q = p /\ n = pub[p].count
    BY <1>3 DEF Event
  <2>2. Passes(p)
    BY <1>3, <2>1, PubMoves
  <2>3. pub[p].i < pub'[p].i /\ pub'[p].copy[pub[p].i] = h /\ pub[p].i \in DOMAIN pub'[p].copy
    BY <1>1, <1>3, <2>1, <2>2 DEF Passes, Same, Current
  <2>4. n <= pub'[p].count
    BY <1>1, <2>1, <2>2 DEF Passes, Same
  <2> QED
    BY <2>3, <2>4
<1>4. ASSUME NEW c \in calls, Body(c, "return") \/ Body(c, "unsubscribe"), h = c.sub, received'[h][i] = c.event
      PROVE  /\ n <= pub'[p].count
             /\ n = pub'[p].count /\ pub'[p].at # "idle" =>
                  \E j \in DOMAIN pub'[p].copy : j < pub'[p].i /\ pub'[p].copy[j] = h
  <2>1. pub' = pub /\ CallShape /\ CallsBehind
    BY <1>4 DEF Body, BusInv
  <2>2. PICK q \in Publishers, m \in Nat : c.event = <<q, m>> /\ m <= pub[q].count
    BY <2>1 DEF CallShape
  <2>3. q = p /\ n = m
    BY <1>4, <2>2
  <2>4. n = pub[p].count => c.event = Event(p)
    BY <2>2, <2>3 DEF Event
  <2> QED
    BY <1>4, <2>1, <2>2, <2>3, <2>4 DEF CallsBehind
<1> QED
  BY <1>2, <1>3, <1>4, ReceivedFrom

\* A goroutine that is about to call its handler was there, or has just been started.
LEMMA BodyFrom ==
  ASSUME BusInv, [BusNext]_busVars, NEW d \in calls', d.at = "body"
  PROVE  \/ d \in calls /\ ~Body(d, "return") /\ ~Body(d, "unsubscribe")
         \/ \E p \in Publishers : (PubAsync(p) \/ PubRelock(p)) /\ d = Call(p)
<1>1. ASSUME NEW c \in calls, NEW at \in {"return", "unsubscribe"}, MoveTo(c, at) PROVE d \in calls \ {c}
  <2>1. [c EXCEPT !.at = at].at = at
    BY DEF BusInv, CallShape
  <2> QED
    BY <1>1, <2>1 DEF MoveTo
<1>2. d \in calls => ~Body(d, "return") /\ ~Body(d, "unsubscribe")
  BY <1>1 DEF Body
<1>3. ASSUME NEW c \in calls, CallStep(c) PROVE d \in calls
  BY <1>1, <1>3 DEF CallStep, Body, BodyUnsubscribes, Return
<1>4. CASE UNCHANGED calls
  BY <1>2, <1>4
<1>5. ASSUME NEW p \in Publishers, PubAsync(p) \/ PubRelock(p)
      PROVE  d \in calls \/ d = Call(p)
  BY <1>5 DEF PubAsync, PubRelock
<1> QED
  BY <1>2, <1>3, <1>4, <1>5 
  DEF BusNext, busVars, Subscribe, Unsubscribe, PubBegin, PubStep, PubSync, PubUnlock, PubAcquire, PubEnd

LEMMA NewerStep ==
  ASSUME BusInv, RestType, Owned, ReceivedBehind, CallNewer, [BusNext]_busVars PROVE CallNewer'
<1> SUFFICES ASSUME NEW d \in calls', Mode[d.sub] = "serial", d.at = "body",
                    NEW i \in DOMAIN received'[d.sub], received'[d.sub][i][1] = d.event[1]
             PROVE  received'[d.sub][i][2] < d.event[2]
  BY DEF CallNewer
<1>1. CASE d \in calls /\ ~Body(d, "return") /\ ~Body(d, "unsubscribe")
  <2>1. d.sub \in Subs
    BY <1>1 DEF RestType
  <2>2. i \in DOMAIN received[d.sub] /\ received'[d.sub][i] = received[d.sub][i]
    <3>1. ~\E p \in Publishers : PubSync(p) /\ d.sub = Current(p)
      BY DEF PubSync
    <3>2. \A c \in calls : c.sub = d.sub => c = d
      BY <1>1, <2>1 DEF Owned
    <3> QED
      BY <1>1, <2>1, <3>1, <3>2, ReceivedFrom
  <2> QED
    BY <1>1, <2>2 DEF CallNewer
<1>2. ASSUME NEW p \in Publishers, PubAsync(p) \/ PubRelock(p), d = Call(p)
      PROVE  received'[d.sub][i][2] < d.event[2]
  <2>1. d.sub = Current(p) /\ d.event = Event(p) /\ d.event[1] = p /\ d.event[2] = pub[p].count
    BY <1>2 DEF Call, Event
  <2>2. PubRelock(p)
    BY <1>2, <2>1 DEF PubAsync
  <2>3. pub[p].at = "relock" /\ UNCHANGED received
    BY <2>2 DEF PubRelock
  <2>4. /\ OnceIn(pub[p].copy) /\ pub[p].i \in DOMAIN pub[p].copy /\ pub[p].i \in Nat
        /\ pub[p].copy \in Seq(Subs) /\ pub[p].count \in Nat
    BY <2>3 DEF BusInv, PubType, CopyOnce
  <2>5. d.sub \in Subs
    BY <2>1, <2>4 DEF Current
  <2>6. received[d.sub] \in Seq(Stamps) /\ i \in DOMAIN received[d.sub] /\ received[d.sub][i] = received'[d.sub][i]
    BY <2>3, <2>5 DEF RestType
  <2>7. received[d.sub][i][2] \in Nat /\ received[d.sub][i][2] <= pub[p].count
    BY <2>1, <2>5, <2>6 DEF ReceivedBehind, Stamps
  <2>8. received[d.sub][i][2] # pub[p].count
    <3> SUFFICES ASSUME received[d.sub][i][2] = pub[p].count PROVE FALSE
      OBVIOUS
    <3>1. PICK j \in DOMAIN pub[p].copy : j < pub[p].i /\ pub[p].copy[j] = d.sub
      BY <2>1, <2>3, <2>5, <2>6 DEF ReceivedBehind
    <3>2. j = pub[p].i
      BY <2>1, <2>4, <3>1 DEF OnceIn, Current
    <3> QED
      BY <2>4, <3>1, <3>2
  <2> QED
    BY <2>1, <2>4, <2>6, <2>7, <2>8
<1> QED
  BY <1>1, <1>2, BodyFrom

LEMMA OrderStep ==
  ASSUME BusInv, RestType, CallNewer, SerialInOrder, [BusNext]_busVars PROVE SerialInOrder'
<1> SUFFICES ASSUME NEW h \in Subs, Mode[h] = "serial", NEW i \in DOMAIN received'[h], NEW j \in DOMAIN received'[h],
                    i < j, received'[h][i][1] = received'[h][j][1]
             PROVE  received'[h][i][2] < received'[h][j][2]
  BY DEF SerialInOrder
<1>1. CASE j \in DOMAIN received[h] /\ received'[h][j] = received[h][j]
  <2>1. i \in DOMAIN received[h] /\ received'[h][i] = received[h][i]
    <3>1. DOMAIN received[h] = 1..Len(received[h]) /\ Len(received[h]) \in Nat
      BY DEF RestType
    <3>2. ~(i = Len(received[h]) + 1)
      BY <1>1, <3>1
    <3> QED
      BY <3>2, ReceivedFrom
  <2> QED
    BY <1>1, <2>1 DEF SerialInOrder
<1>2. ASSUME j = Len(received[h]) + 1, DOMAIN received[h] = 1..Len(received[h]), Len(received[h]) \in Nat,
             NEW c \in calls, c.at = "body", h = c.sub, received'[h][j] = c.event
      PROVE  received'[h][i][2] < received'[h][j][2]
  <2>1. ~(i = Len(received[h]) + 1)
    BY <1>2
  <2>2. i \in DOMAIN received[h] /\ received'[h][i] = received[h][i]
    BY <2>1, ReceivedFrom
  <2> QED
    BY <1>2, <2>2 DEF CallNewer
<1>3. ~\E p \in Publishers : PubSync(p) /\ h = Current(p)
  BY DEF PubSync
<1> QED
  BY <1>1, <1>2, <1>3, ReceivedFrom

\* A publisher that is not at "relock" holds no handler.
LEMMA OwnedStep ==
  ASSUME BusInv, RestType, Owned, [BusNext]_busVars PROVE Owned'
<1> DEFINE Mine(h) == /\ \A c, d \in calls : c.sub = h /\ d.sub = h => c = d
                      /\ \A p, q \in Publishers : Holds(p, h) /\ Holds(q, h) => p = q
                      /\ \A c \in calls, p \in Publishers : c.sub = h => ~Holds(p, h)
                      /\ \A c \in calls : c.sub = h => subLock[h]
                      /\ \A p \in Publishers : Holds(p, h) => subLock[h]
<1> SUFFICES ASSUME NEW h \in Subs, Mode[h] = "serial", Mine(h) PROVE Mine(h)'
  BY DEF Owned
<1>1. CASE UNCHANGED <<pub, calls, subLock>>
  BY <1>1 DEF Holds, Current
<1>2. ASSUME NEW p \in Publishers, Others(p) PROVE \A q \in Publishers : q # p => (Holds(q, h)' <=> Holds(q, h))
  BY <1>2 DEF Others, Holds, Current
<1>3. ASSUME NEW p \in Publishers, Others(p), pub'[p].at # "relock", UNCHANGED <<calls, subLock>> PROVE Mine(h)'
  <2>1. \A q \in Publishers : Holds(q, h)' => Holds(q, h)
    BY <1>2, <1>3 DEF Holds
  <2> QED
    BY <1>3, <2>1
<1>4. ASSUME NEW p \in Publishers, PubSync(p) \/ PubUnlock(p) \/ PubEnd(p) \/ \E t \in Topics : PubBegin(p, t)
      PROVE  Mine(h)'
  <2>1. Others(p) /\ pub'[p].at # "relock"
    BY <1>4, PubMoves DEF Passes, Waits, Ends, Begins
  <2>2. UNCHANGED <<calls, subLock>>
    BY <1>4 DEF PubSync, PubUnlock, PubEnd, PubBegin
  <2> QED
    BY <1>3, <2>1, <2>2
<1>5. ASSUME NEW p \in Publishers, PubAsync(p) PROVE Mine(h)'
  <2>1. Others(p) /\ pub'[p].at # "relock"
    BY <1>5, PubMoves DEF Passes
  <2>2. \A q \in Publishers : Holds(q, h)' => Holds(q, h)
    BY <1>2, <2>1 DEF Holds
  <2>3. subLock' = subLock /\ calls' = calls \cup {Call(p)} /\ Call(p).sub # h
    BY <1>5 DEF PubAsync, Call
  <2> QED
    BY <2>2, <2>3
<1>6. ASSUME NEW p \in Publishers, PubAcquire(p) PROVE Mine(h)'
  <2>1. Others(p) /\ Waits(p, "relock") /\ ~subLock[Current(p)] /\ calls' = calls
        /\ subLock' = [subLock EXCEPT ![Current(p)] = TRUE] /\ pub[p].at = "acquire"
    BY <1>6, PubMoves DEF PubAcquire
  <2>2. Holds(p, h)' <=> Current(p) = h
    BY <2>1 DEF Waits, Same, Holds, Current
  <2>3. \A q \in Publishers : q # p => (Holds(q, h)' <=> Holds(q, h))
    BY <1>2, <2>1
  <2>4. CASE Current(p) = h
    <3>1. /\ \A c \in calls : c.sub # h
          /\ \A q \in Publishers : ~Holds(q, h)
      BY <2>1, <2>4
    <3>2. subLock'[h]
      BY <2>1, <2>4 DEF RestType
    <3> QED
      BY <2>1, <2>2, <2>3, <3>1, <3>2
  <2>5. CASE Current(p) # h
    <3>1. subLock'[h] = subLock[h]
      BY <2>1, <2>5 DEF RestType
    <3>2. \A q \in Publishers : Holds(q, h)' => Holds(q, h)
      BY <2>2, <2>3, <2>5
    <3> QED
      BY <2>1, <3>1, <3>2
  <2> QED
    BY <2>4, <2>5
<1>7. ASSUME NEW p \in Publishers, PubRelock(p) PROVE Mine(h)'
  <2>1. Others(p) /\ pub'[p].at # "relock" /\ pub[p].at = "relock" /\ subLock' = subLock
        /\ calls' = calls \cup {Call(p)} /\ Call(p).sub = Current(p)
    BY <1>7, PubMoves DEF PubRelock, Passes, Call
  <2>2. ~Holds(p, h)' /\ \A q \in Publishers : q # p => (Holds(q, h)' <=> Holds(q, h))
    BY <1>2, <2>1 DEF Holds
  <2>3. CASE Current(p) = h
    <3>1. Holds(p, h)
      BY <2>1, <2>3 DEF Holds
    <3>2. (\A c \in calls : c.sub # h) /\ (\A q \in Publishers : q # p => ~Holds(q, h)) /\ subLock[h]
      BY <3>1
    <3> QED
      BY <2>1, <2>2, <3>2
  <2>4. CASE Current(p) # h
    <3>1. \A c \in calls' : c.sub = h => c \in calls
      BY <2>1, <2>4
    <3>2. \A q \in Publishers : Holds(q, h)' => Holds(q, h)
      BY <2>2
    <3> QED
      BY <2>1, <3>1, <3>2
  <2> QED
    BY <2>3, <2>4
<1>8. ASSUME NEW c \in calls, Body(c, "return") \/ Body(c, "unsubscribe") \/ BodyUnsubscribes(c) PROVE Mine(h)'
  <2>1. PICK at : MoveTo(c, at)
    BY <1>8 DEF Body, BodyUnsubscribes
  <2> DEFINE new == [c EXCEPT !.at = at]
  <2>2. new.sub = c.sub /\ calls' = (calls \ {c}) \cup {new}
    BY <2>1 DEF MoveTo, BusInv, CallShape
  <2> HIDE DEF new
  <2>3. UNCHANGED <<pub, subLock>>
    BY <1>8 DEF Body, BodyUnsubscribes
  <2>4. \A q \in Publishers : Holds(q, h)' <=> Holds(q, h)
    BY <2>3 DEF Holds, Current
  <2> QED
    BY <2>2, <2>3, <2>4
<1>9. ASSUME NEW c \in calls, Return(c) PROVE Mine(h)'
  <2>1. calls' = calls \ {c} /\ pub' = pub /\ subLock' = [subLock EXCEPT ![c.sub] = FALSE]
    BY <1>9 DEF Return
  <2>2. \A q \in Publishers : Holds(q, h)' <=> Holds(q, h)
    BY <2>1 DEF Holds, Current
  <2>3. CASE c.sub = h
    BY <2>1, <2>2, <2>3
  <2>4. CASE c.sub # h
    <3>1. subLock'[h] = subLock[h]
      BY <2>1, <2>4 DEF RestType
    <3> QED
      BY <2>1, <2>2, <3>1
  <2> QED
    BY <2>3, <2>4
<1>10. (\E g \in Subs : Subscribe(g) \/ Unsubscribe(g)) \/ UNCHANGED busVars => UNCHANGED <<pub, calls, subLock>>
  BY DEF Subscribe, Unsubscribe, busVars
<1> HIDE DEF Mine
<1> QED
  BY <1>1, <1>4, <1>5, <1>6, <1>7, <1>8, <1>9, <1>10 DEF BusNext, PubStep, CallStep

LEMMA RestStep == ASSUME BusInv, RestType, [BusNext]_busVars PROVE RestType'
<1> DEFINE Calls == [sub : Subs, event : Stamps, at : {"body", "unsubscribe", "return"}]
<1>1. CASE UNCHANGED <<subLock, received, calls>>
  BY <1>1 DEF RestType
<1>2. received' \in [Subs -> Seq(Stamps)]
  <2>1. ASSUME NEW g, NEW e \in Stamps, received' = [received EXCEPT ![g] = Append(@, e)]
        PROVE  received' \in [Subs -> Seq(Stamps)]
    <3>1. received \in [Subs -> Seq(Stamps)]
      BY DEF RestType
    <3>2. CASE g \in Subs
      <4> DEFINE s == Append(received[g], e)
      <4>1. received[g] \in Seq(Stamps)
        BY <3>1, <3>2
      <4>2. s \in Seq(Stamps)
        BY <2>1, <4>1, StampAppend
      <4>3. received' = [received EXCEPT ![g] = s]
        BY <2>1
      <4> HIDE DEF s
      <4> QED
        BY <3>1, <4>2, <4>3
    <3>3. CASE g \notin Subs
      <4>1. received' = received
        BY <2>1, <3>1, <3>3
      <4> QED
        BY <3>1, <4>1
    <3> QED
      BY <3>2, <3>3
  <2>2. ASSUME NEW p \in Publishers, PubSync(p) PROVE received' \in [Subs -> Seq(Stamps)]
    <3>1. Event(p) \in Stamps
      BY DEF Event, Stamps, BusInv, PubType
    <3> QED
      BY <2>1, <2>2, <3>1 DEF PubSync
  <2>3. ASSUME NEW c \in calls, Body(c, "return") \/ Body(c, "unsubscribe")
        PROVE  received' \in [Subs -> Seq(Stamps)]
    <3>1. c.event \in Stamps
      BY DEF RestType
    <3> QED
      BY <2>1, <2>3, <3>1 DEF Body
  <2> QED
    BY <2>2, <2>3, Receives DEF RestType
<1>3. subLock' \in [Subs -> BOOLEAN]
  BY DEF RestType, BusNext, busVars, Subscribe, Unsubscribe, PubBegin, PubStep, PubSync, PubAsync,
     PubUnlock,
         PubAcquire, PubRelock, PubEnd, CallStep, Body, BodyUnsubscribes, Return
<1>4. ASSUME NEW c \in calls, NEW at \in {"return", "unsubscribe"}, MoveTo(c, at) PROVE calls' \subseteq Calls
  <2>1. [c EXCEPT !.at = at] \in Calls
    BY DEF RestType
  <2> QED
    BY <1>4, <2>1 DEF RestType, MoveTo
<1>5. ASSUME NEW p \in Publishers, PubAsync(p) \/ PubRelock(p) PROVE calls' \subseteq Calls
  <2>1. pub[p].i \in DOMAIN pub[p].copy /\ pub[p].copy \in Seq(Subs) /\ Event(p) \in Stamps
    BY <1>5, PubMoves DEF Passes, Event, Stamps, BusInv, PubType
  <2>2. Current(p) \in Subs
    BY <2>1 DEF Current
  <2>3. Call(p) \in Calls
    BY <2>1, <2>2 DEF Call
  <2> QED
    BY <1>5, <2>3 DEF PubAsync, PubRelock, RestType
<1>6. calls' \subseteq Calls
  <2>1. ASSUME NEW c \in calls, CallStep(c) PROVE calls' \subseteq Calls
    BY <1>4, <2>1 DEF CallStep, Body, BodyUnsubscribes, Return, RestType
  <2>2. CASE UNCHANGED calls
    BY <2>2 DEF RestType
  <2> HIDE DEF Calls
  <2> QED
    BY <1>5, <2>1, <2>2
    DEF BusNext, busVars, Subscribe, Unsubscribe, PubBegin, PubStep, PubSync, PubUnlock, PubAcquire, PubEnd
<1> QED
  BY <1>2, <1>3, <1>6 DEF RestType

\* What a handler has, it keeps.
LEMMA HasKept ==
  ASSUME BusInv, RestType, [BusNext]_busVars, NEW h \in Subs, NEW e, Has(received, calls, h, e)
  PROVE  Has(received', calls', h, e)
<1>1. ASSUME NEW i \in DOMAIN received[h], received[h][i] = e PROVE Has(received', calls', h, e)
  BY <1>1, ReceivedKept DEF Has
<1>2. ASSUME NEW c \in calls, c.sub = h, c.event = e, c.at = "body" PROVE Has(received', calls', h, e)
  <2>1. CASE Body(c, "return") \/ Body(c, "unsubscribe")
    <3>1. received[h] \in Seq(Stamps) /\ e \in Stamps
      BY <1>2 DEF RestType
    <3>2. received'[h] = Append(received[h], e)
      BY <1>2, <2>1 DEF Body, RestType
    <3>3. Len(received[h]) + 1 \in DOMAIN received'[h] /\ received'[h][Len(received[h]) + 1] = e
      BY <3>1, <3>2, StampAppend
    <3> QED
      BY <3>3 DEF Has
  <2>2. CASE c \in calls'
    BY <1>2, <2>2 DEF Has
  <2>3. ASSUME NEW d \in calls, CallStep(d) PROVE c \in calls' \/ Body(c, "return") \/ Body(c, "unsubscribe")
    BY <1>2, <2>3 DEF CallStep, Body, BodyUnsubscribes, Return, MoveTo
  <2> QED
    BY <2>1, <2>2, <2>3
    DEF BusNext, busVars, Subscribe, Unsubscribe, PubBegin, PubStep, PubSync, PubAsync, PubUnlock, PubAcquire,
        PubRelock, PubEnd
<1> QED
  BY <1>1, <1>2 DEF Has

\* A handler that is passed is served.
LEMMA PassedHas ==
  ASSUME BusInv, RestType, NEW p \in Publishers, PubSync(p) \/ PubAsync(p) \/ PubRelock(p)
  PROVE  Has(received', calls', Current(p), Event(p))
<1>1. pub[p].i \in DOMAIN pub[p].copy /\ pub[p].copy \in Seq(Subs) /\ Event(p) \in Stamps
  BY PubMoves DEF Passes, Event, Stamps, BusInv, PubType
<1>2. Current(p) \in Subs
  BY <1>1 DEF Current
<1>3. CASE PubSync(p)
  <2> DEFINE s == received[Current(p)]
  <2>1. s \in Seq(Stamps) /\ received'[Current(p)] = Append(s, Event(p))
    BY <1>2, <1>3 DEF PubSync, RestType
  <2>2. Len(s) + 1 \in DOMAIN received'[Current(p)] /\ received'[Current(p)][Len(s) + 1] = Event(p)
    BY <1>1, <2>1, StampAppend
  <2> QED
    BY <2>2 DEF Has
<1>4. CASE PubAsync(p) \/ PubRelock(p)
  <2>1. Call(p) \in calls' /\ Call(p).sub = Current(p) /\ Call(p).event = Event(p) /\ Call(p).at = "body"
    <3>1. calls' = calls \cup {Call(p)}
      BY <1>4 DEF PubAsync, PubRelock
    <3> QED
      BY <3>1 DEF Call
  <2> QED
    BY <2>1 DEF Has
<1> QED
  BY <1>3, <1>4

LEMMA GivenStep ==
  ASSUME BusInv, RestType, Given, [BusNext]_busVars PROVE Given'
<1> SUFFICES ASSUME NEW q \in Publishers, pub'[q].at # "idle", NEW j \in DOMAIN pub'[q].copy, j < pub'[q].i
             PROVE  Has(received', calls', pub'[q].copy[j], Event(q)')
  BY DEF Given
<1>1. PubType /\ PubType'
  BY StepBusInv DEF BusInv
<1>2. pub'[q].copy \in Seq(Subs) /\ pub'[q].i \in Nat /\ pub[q].i \in Nat /\ pub[q].copy \in Seq(Subs)
  BY <1>1 DEF PubType
<1>3. j \in Nat \ {0} /\ pub'[q].copy[j] \in Subs
  BY <1>2
<1>4. ASSUME pub[q].at # "idle", pub'[q].copy = pub[q].copy, pub'[q].count = pub[q].count, j < pub[q].i
      PROVE  Has(received', calls', pub'[q].copy[j], Event(q)')
  <2>1. Has(received, calls, pub[q].copy[j], Event(q)) /\ Event(q)' = Event(q) /\ pub[q].copy[j] \in Subs
    BY <1>3, <1>4 DEF Given, Event
  <2>2. Has(received', calls', pub[q].copy[j], Event(q))
    BY <2>1, HasKept
  <2> QED
    BY <1>4, <2>1, <2>2
<1>5. ASSUME PubSync(q) \/ PubAsync(q) \/ PubRelock(q) PROVE Has(received', calls', pub'[q].copy[j], Event(q)')
  <2>1. Passes(q)
    BY <1>5, PubMoves
  <2>2. CASE j < pub[q].i
    BY <1>4, <2>1, <2>2 DEF Passes, Same
  <2>3. CASE j = pub[q].i
    <3>1. Has(received', calls', Current(q), Event(q))
      BY <1>5, PassedHas
    <3>2. pub'[q].copy[j] = Current(q) /\ Event(q)' = Event(q)
      BY <2>1, <2>3 DEF Passes, Same, Current, Event
    <3> QED
      BY <3>1, <3>2
  <2> QED
    BY <1>2, <1>3, <2>1, <2>2, <2>3 DEF Passes
<1>6. ASSUME PubUnlock(q) \/ PubAcquire(q) PROVE Has(received', calls', pub'[q].copy[j], Event(q)')
  <2>1. Waits(q, "acquire") \/ Waits(q, "relock")
    BY <1>6, PubMoves
  <2> QED
    BY <1>4, <2>1 DEF Waits, Same
<1>7. ~PubEnd(q)
  BY PubMoves DEF Ends
<1>8. ~\E t \in Topics : PubBegin(q, t)
  BY <1>2, <1>3, PubMoves DEF Begins
<1>9. pub'[q] = pub[q] => Has(received', calls', pub'[q].copy[j], Event(q)')
  BY <1>4
<1>10. ASSUME NEW p \in Publishers, p # q, PubStep(p) \/ \E t \in Topics : PubBegin(p, t) PROVE pub'[q] = pub[q]
  <2>1. Others(p)
    BY <1>10, PubMoves DEF PubStep
  <2> QED
    BY <1>10, <2>1 DEF Others
<1>11. ASSUME \/ UNCHANGED busVars \/ \E h \in Subs : Subscribe(h) \/ Unsubscribe(h)
              \/ \E c \in calls : CallStep(c)
       PROVE  UNCHANGED pub
  BY <1>11 DEF busVars, Subscribe, Unsubscribe, CallStep, Body, BodyUnsubscribes, Return
<1> QED
  BY <1>5, <1>6, <1>7, <1>8, <1>9, <1>10, <1>11 DEF BusNext, PubStep

LEMMA InitDelivery == BusInit => BusInv /\ DeliveryInv
<1> SUFFICES ASSUME BusInit PROVE DeliveryInv
  BY InitBusInv
<1>1. /\ subLock = [h \in Subs |-> FALSE] /\ received = [h \in Subs |-> <<>>] /\ calls = {}
      /\ pub = [p \in Publishers |-> Idle]
  BY DEF BusInit
<1>2. RestType
  BY <1>1 DEF RestType
<1>3. \A p \in Publishers : pub[p].at = "idle"
  BY <1>1 DEF Idle
<1>4. \A h \in Subs : DOMAIN received[h] = {}
  BY <1>1
<1> QED
  BY <1>1, <1>2, <1>3, <1>4 DEF DeliveryInv, Owned, Holds, ReceivedBehind, CallNewer, SerialInOrder, Given

LEMMA StepDelivery == BusInv /\ DeliveryInv /\ [BusNext]_busVars => BusInv' /\ DeliveryInv'
BY StepBusInv, RestStep, OwnedStep, BehindStep, NewerStep, OrderStep, GivenStep DEF DeliveryInv

\* A transactional handler gets the events of one publisher in the order in which they
\* were published, although each comes in a goroutine of its own (Publish, doPublishAsync).
THEOREM SerialInOrderAlways == BusSpec => []SerialInOrder
<1>1. DeliveryInv => SerialInOrder
  BY DEF DeliveryInv
<1> QED
  BY <1>1, InitDelivery, StepDelivery, PTL DEF BusSpec

\* When Publish returns, the handlers of the list it began with have the event, or a
\* goroutine that brings it, whatever was subscribed and removed meanwhile.
LEMMA ServedAtEnd ==
  ASSUME BusInv, DeliveryInv, [BusNext]_busVars, NEW p \in Publishers, pub[p].at = "loop", pub'[p].at = "idle",
         NEW h \in Subs, NEW j \in DOMAIN pub[p].copy, pub[p].copy[j] = h
  PROVE  \/ Event(p) \in {received[h][i] : i \in DOMAIN received[h]}
         \/ \E c \in calls : c.sub = h /\ c.event = Event(p)
<1>1. PubEnd(p)
  <2>1. ASSUME NEW q \in Publishers, q # p, PubStep(q) \/ \E t \in Topics : PubBegin(q, t) PROVE pub'[p] = pub[p]
    <3>1. Others(q)
      BY <2>1, PubMoves DEF PubStep
    <3> QED
      BY <2>1, <3>1 DEF Others
  <2>2. UNCHANGED busVars \/ (\E g \in Subs : Subscribe(g) \/ Unsubscribe(g)) \/ (\E c \in calls : CallStep(c))
          => UNCHANGED pub
    BY DEF busVars, Subscribe, Unsubscribe, CallStep, Body, BodyUnsubscribes, Return
  <2>3. ~\E t \in Topics : PubBegin(p, t)
    BY DEF PubBegin
  <2>4. ~(PubSync(p) \/ PubAsync(p) \/ PubRelock(p) \/ PubUnlock(p) \/ PubAcquire(p))
    BY PubMoves DEF Passes, Waits
  <2> QED
    BY <2>1, <2>2, <2>3, <2>4 DEF BusNext, PubStep
<1>2. pub[p].copy \in Seq(Subs) /\ pub[p].i \in Nat
  BY DEF BusInv, PubType
<1>3. j < pub[p].i
  BY <1>1, <1>2 DEF PubEnd
<1>4. Has(received, calls, h, Event(p))
  BY <1>3 DEF DeliveryInv, Given
<1> QED
  BY <1>4 DEF Has

\* When Publish returns, every handler that was subscribed from its begin to its end
\* has the event, or a goroutine that is about to call it (Publish, doPublishAsync).
THEOREM AllServedAlways == BusSpec => AllServed
<1>1. BusInv /\ DeliveryInv /\ [BusNext]_busVars =>
        [\A p \in Publishers : pub[p].at = "loop" /\ pub'[p].at = "idle" =>
           \A h \in Subs :
             \/ TopicOf[h] # pub[p].topic \/ h \in fresh \cup dropped
             \/ h \notin {pub[p].copy[i] : i \in DOMAIN pub[p].copy}
             \/ Event(p) \in {received[h][i] : i \in DOMAIN received[h]}
             \/ \E c \in calls : c.sub = h /\ c.event = Event(p)]_busVars
  BY ServedAtEnd
<1> QED
  BY <1>1, InitDelivery, StepDelivery, PTL DEF BusSpec, AllServed
-----------------------------------------------------------------------------
(* Who stays subscribed *)

\* What removing by index keeps.
LEMMA WithoutAtKeeps ==
  ASSUME NEW s \in Seq(Subs), NEW i
  PROVE  \A j \in DOMAIN s : j # i => \E k \in DOMAIN WithoutAt(s, i) : WithoutAt(s, i)[k] = s[j]
<1> SUFFICES ASSUME NEW j \in DOMAIN s, j # i
             PROVE  \E k \in DOMAIN WithoutAt(s, i) : WithoutAt(s, i)[k] = s[j]
  OBVIOUS
<1>1. CASE i \notin DOMAIN s
  BY <1>1 DEF WithoutAt
<1>2. CASE i \in DOMAIN s
  <2> DEFINE n == Len(s)
             w == [k \in 1..n - 1 |-> IF k < i THEN s[k] ELSE s[k + 1]]
  <2>1. n \in Nat /\ DOMAIN s = 1..n /\ i \in 1..n /\ j \in 1..n
    BY <1>2
  <2>2. WithoutAt(s, i) = w
    BY <1>2 DEF WithoutAt
  <2>3. CASE j < i
    <3>1. j \in 1..n - 1 /\ w[j] = s[j]
      BY <2>1, <2>3
    <3> QED
      BY <2>2, <3>1
  <2>4. CASE ~(j < i)
    <3>1. j - 1 \in 1..n - 1 /\ ~(j - 1 < i) /\ (j - 1) + 1 = j
      BY <2>1, <2>4
    <3>2. w[j - 1] = s[j]
      BY <3>1
    <3> QED
      BY <2>2, <3>1, <3>2
  <2> QED
    BY <2>3, <2>4
<1> QED
  BY <1>1, <1>2

StayInv == OwnTopic /\ StaysSubscribed

\* Unsubscribe finds no other handler than the one it was called for.
LEMMA FindExact ==
  ASSUME ToldApart, HandlersOnce, OwnTopic, NEW h \in Subs,
         NEW j \in DOMAIN handlers[TopicOf[h]], j = Find(h)
  PROVE  handlers[TopicOf[h]][j] = h
<1> DEFINE s == handlers[TopicOf[h]]
           same == {i \in DOMAIN s : Fn[s[i]] = Fn[h]}
<1>1. TopicOf[h] \in Topics
  BY BusAssumption DEF BusAssumption
<1>2. s \in Seq(Subs) /\ OnceIn(s) /\ \A i \in DOMAIN s : TopicOf[s[i]] = TopicOf[h]
  BY <1>1 DEF HandlersOnce, OwnTopic
<1>3. \A i \in same : s[i] = h
  BY <1>2 DEF ToldApart
<1>4. DOMAIN s \subseteq Nat \ {0}
  BY <1>2
<1>5. same # {}
  <2>1. Find(h) # 0
    BY <1>4
  <2> QED
    BY <2>1 DEF Find
<1>6. \E i \in same : \A k \in same : i <= k
  <2>1. PICK i \in same : TRUE
    BY <1>5
  <2>2. \A k \in same : k = i
    BY <1>2, <1>3 DEF OnceIn
  <2> QED
    BY <1>4, <2>2
<1>7. Find(h) \in same
  BY <1>5, <1>6 DEF Find
<1> QED
  BY <1>3, <1>7

\* A handler h leaves its list and no other does.
LEMMA LeavesAlone ==
  ASSUME HandlersOnce, StayInv, NEW h \in Subs, NEW i,
         handlers' = [handlers EXCEPT ![TopicOf[h]] = WithoutAt(@, i)],
         \A g \in Subs : g \notin fresh' \cup dropped' \cup Once =>
           /\ g \notin fresh \cup dropped \cup Once
           /\ \A j \in DOMAIN handlers[TopicOf[h]] : j = i => handlers[TopicOf[h]][j] # g
  PROVE  StaysSubscribed' /\ \A t \in Topics : \A k \in DOMAIN handlers'[t] : TopicOf[handlers'[t][k]] = t
<1> DEFINE t == TopicOf[h]
           w == WithoutAt(handlers[t], i)
<1>1. t \in Topics /\ TopicOf \in [Subs -> Topics]
  BY BusAssumption DEF BusAssumption
<1>2. handlers[t] \in Seq(Subs) /\ OnceIn(handlers[t]) /\ handlers \in [Topics -> Seq(Subs)]
  BY <1>1 DEF HandlersOnce
<1>3. \A u \in Topics : (u # t => handlers'[u] = handlers[u]) /\ (u = t => handlers'[u] = w)
  BY <1>2
<1>4. \A k \in DOMAIN w : \E j \in DOMAIN handlers[t] : w[k] = handlers[t][j]
  BY <1>2, WithoutAtOnce
<1>5. \A j \in DOMAIN handlers[t] : j # i => \E k \in DOMAIN w : w[k] = handlers[t][j]
  <2>1. PICK s \in Seq(Subs) : s = handlers[t]
    BY <1>2
  <2>2. \A j \in DOMAIN s : j # i => \E k \in DOMAIN WithoutAt(s, i) : WithoutAt(s, i)[k] = s[j]
    BY WithoutAtKeeps
  <2> QED
    BY <2>1, <2>2
<1> HIDE DEF w
<1>6. ASSUME NEW u \in Topics, NEW k \in DOMAIN handlers'[u] PROVE TopicOf[handlers'[u][k]] = u
  BY <1>1, <1>3, <1>4 DEF StayInv, OwnTopic
<1>7. ASSUME NEW g \in Subs, g \notin fresh' \cup dropped' \cup Once
      PROVE  \E k \in DOMAIN handlers'[TopicOf[g]] : handlers'[TopicOf[g]][k] = g
  <2>1. g \notin fresh \cup dropped \cup Once /\ \A j \in DOMAIN handlers[t] : j = i => handlers[t][j] # g
    BY <1>7
  <2>2. PICK j \in DOMAIN handlers[TopicOf[g]] : handlers[TopicOf[g]][j] = g
    BY <2>1 DEF StayInv, StaysSubscribed
  <2>3. TopicOf[g] \in Topics
    BY <1>1
  <2>4. CASE TopicOf[g] = t
    BY <1>3, <1>5, <2>1, <2>2, <2>3, <2>4
  <2>5. CASE TopicOf[g] # t
    BY <1>3, <2>2, <2>3, <2>5
  <2> QED
    BY <2>4, <2>5
<1>8. StaysSubscribed'
  BY <1>7 DEF StaysSubscribed
<1> QED
  BY <1>6, <1>8

LEMMA CopyTopicStep ==
  ASSUME BusInv, OwnTopic, [BusNext]_busVars, NEW q \in Publishers, NEW j \in DOMAIN pub'[q].copy
  PROVE  TopicOf[pub'[q].copy[j]] = pub'[q].topic
<1>1. CASE pub'[q] = pub[q]
  BY <1>1 DEF OwnTopic
<1>2. CASE PubStep(q)
  <2>1. Passes(q) \/ Waits(q, "acquire") \/ Waits(q, "relock") \/ Ends(q)
    BY <1>2, PubMoves DEF PubStep
  <2> QED
    BY <2>1 DEF Passes, Waits, Same, Ends, OwnTopic
<1>3. ASSUME NEW t \in Topics, PubBegin(q, t) PROVE TopicOf[pub'[q].copy[j]] = pub'[q].topic
  <2>1. Begins(q, t)
    BY <1>3, PubMoves
  <2> QED
    BY <2>1 DEF Begins, OwnTopic
<1>4. ASSUME NEW p \in Publishers, p # q, PubStep(p) \/ \E t \in Topics : PubBegin(p, t) PROVE pub'[q] = pub[q]
  <2>1. Others(p)
    BY <1>4, PubMoves DEF PubStep
  <2> QED
    BY <1>4, <2>1 DEF Others
<1>5. ASSUME \/ UNCHANGED busVars \/ \E h \in Subs : Subscribe(h) \/ Unsubscribe(h)
             \/ \E c \in calls : CallStep(c)
      PROVE  UNCHANGED pub
  BY <1>5 DEF busVars, Subscribe, Unsubscribe, CallStep, Body, BodyUnsubscribes, Return
<1> QED
  BY <1>1, <1>2, <1>3, <1>4, <1>5 DEF BusNext

LEMMA StayStep ==
  ASSUME ToldApart, BusInv, RestType, StayInv, [BusNext]_busVars PROVE StayInv'
<1> DEFINE Listed == \A t \in Topics : \A i \in DOMAIN handlers[t] : TopicOf[handlers[t][i]] = t
<1>1. /\ HandlersOnce /\ TopicOf \in [Subs -> Topics] /\ OwnTopic /\ StaysSubscribed
      /\ \A t \in Topics : handlers[t] \in Seq(Subs)
  BY BusAssumption DEF BusInv, BusAssumption, StayInv, HandlersOnce
<1>2. CASE UNCHANGED <<handlers, fresh, dropped>>
  <2>1. StaysSubscribed' /\ Listed'
    BY <1>1, <1>2 DEF StaysSubscribed, OwnTopic
  <2> QED
    BY <2>1, <1>1, CopyTopicStep DEF StayInv, OwnTopic
<1>3. ASSUME NEW h \in Subs, Subscribe(h) PROVE StaysSubscribed' /\ Listed'
  <2> DEFINE t == TopicOf[h]
             w == Append(handlers[t], h)
  <2>1. handlers' = [handlers EXCEPT ![t] = w] /\ fresh' = fresh \ {h} /\ dropped' = dropped /\ t \in Topics
        /\ handlers \in [Topics -> Seq(Subs)]
    BY <1>1, <1>3 DEF Subscribe, HandlersOnce
  <2>2. /\ DOMAIN w = 1..Len(handlers[t]) + 1 /\ w[Len(handlers[t]) + 1] = h
        /\ DOMAIN handlers[t] = 1..Len(handlers[t]) /\ Len(handlers[t]) \in Nat
        /\ \A i \in 1..Len(handlers[t]) : w[i] = handlers[t][i]
    BY <1>1, <2>1
  <2> HIDE DEF w
  <2>3. \A u \in Topics : (u # t => handlers'[u] = handlers[u]) /\ (u = t => handlers'[u] = w)
    BY <2>1
  <2>4. ASSUME NEW g \in Subs, g \notin fresh' \cup dropped' \cup Once
        PROVE  \E k \in DOMAIN handlers'[TopicOf[g]] : handlers'[TopicOf[g]][k] = g
    <3>1. CASE g = h
      BY <2>1, <2>2, <2>3, <3>1
    <3>2. CASE g # h
      <4>1. PICK i \in DOMAIN handlers[TopicOf[g]] : handlers[TopicOf[g]][i] = g
        BY <1>1, <2>1, <2>4, <3>2 DEF StaysSubscribed
      <4>2. TopicOf[g] \in Topics
        BY <1>1
      <4>3. CASE TopicOf[g] = t
        BY <2>2, <2>3, <4>1, <4>2, <4>3
      <4>4. CASE TopicOf[g] # t
        BY <2>3, <4>1, <4>2, <4>4
      <4> QED
        BY <4>3, <4>4
    <3> QED
      BY <3>1, <3>2
  <2>5. ASSUME NEW u \in Topics, NEW i \in DOMAIN handlers'[u] PROVE TopicOf[handlers'[u][i]] = u
    <3>1. CASE u = t
      <4>1. i \in 1..Len(handlers[t]) + 1 /\ handlers'[u][i] = w[i]
        BY <2>2, <2>3, <3>1
      <4>2. i \in 1..Len(handlers[t]) => w[i] = handlers[t][i] /\ TopicOf[handlers[t][i]] = t
        BY <1>1, <2>1, <2>2 DEF OwnTopic
      <4>3. i \notin 1..Len(handlers[t]) => i = Len(handlers[t]) + 1
        BY <2>2, <4>1
      <4> QED
        BY <2>2, <3>1, <4>1, <4>2, <4>3
    <3>2. CASE u # t
      BY <1>1, <2>3, <3>2 DEF OwnTopic
    <3> QED
      BY <3>1, <3>2
  <2> QED
    BY <2>4, <2>5 DEF StaysSubscribed
<1>4. ASSUME NEW h \in Subs, RemoveFound(h), UNCHANGED fresh PROVE StaysSubscribed' /\ Listed'
  <2>1. handlers' = [handlers EXCEPT ![TopicOf[h]] = WithoutAt(@, Find(h))] /\ dropped' = dropped \cup {h}
    BY <1>4 DEF RemoveFound
  <2>2. \A g \in Subs : g \notin fresh' \cup dropped' \cup Once =>
          /\ g \notin fresh \cup dropped \cup Once
          /\ \A j \in DOMAIN handlers[TopicOf[h]] : j = Find(h) => handlers[TopicOf[h]][j] # g
    BY <1>1, <1>4, <2>1, FindExact
  <2> QED
    BY <1>1, <2>1, <2>2, LeavesAlone
<1>5. ASSUME NEW p \in Publishers, RemoveOnce(p), InLoop(p), UNCHANGED <<fresh, dropped>>
      PROVE  StaysSubscribed' /\ Listed'
  <2>1. CASE Current(p) \notin Once
    BY <1>1, <1>5, <2>1 DEF RemoveOnce, StaysSubscribed, OwnTopic
  <2>2. CASE Current(p) \in Once
    <3> DEFINE h == Current(p)
    <3>1. pub[p].i \in DOMAIN pub[p].copy /\ h \in Subs /\ TopicOf[h] = pub[p].topic
      <4>1. pub[p].copy \in Seq(Subs) /\ pub[p].i \in Nat \ {0}
        BY DEF BusInv, PubType
      <4>2. pub[p].i \in DOMAIN pub[p].copy
        BY <1>5, <4>1 DEF InLoop
      <4> QED
        BY <1>1, <4>1, <4>2 DEF OwnTopic, Current
    <3>2. handlers' = [handlers EXCEPT ![TopicOf[h]] = WithoutAt(@, pub[p].i)]
      BY <1>5, <2>2, <3>1 DEF RemoveOnce
    <3>3. \A j \in DOMAIN handlers[TopicOf[h]] : TopicOf[handlers[TopicOf[h]][j]] = TopicOf[h]
      BY <1>1, <3>1 DEF OwnTopic
    <3>4. \A g \in Subs : g \notin fresh' \cup dropped' \cup Once =>
            /\ g \notin fresh \cup dropped \cup Once
            /\ \A j \in DOMAIN handlers[TopicOf[h]] : j = pub[p].i => handlers[TopicOf[h]][j] # g
      BY <1>5, <2>2, <3>1, <3>3 DEF ToldApart
    <3> HIDE DEF h
    <3> QED
      BY <1>1, <3>1, <3>2, <3>4, LeavesAlone
  <2> QED
    BY <2>1, <2>2
<1>6. ASSUME NEW c \in calls, BodyUnsubscribes(c) PROVE StaysSubscribed' /\ Listed'
  <2>1. c.sub \in Subs /\ RemoveFound(c.sub) /\ UNCHANGED fresh
    BY <1>6 DEF BodyUnsubscribes, RestType
  <2> QED
    BY <1>4, <2>1
<1>7. StaysSubscribed' /\ Listed' => StayInv'
  BY CopyTopicStep DEF StayInv, OwnTopic
<1>8. \A h \in Subs : Unsubscribe(h) => RemoveFound(h) /\ UNCHANGED fresh
  BY DEF Unsubscribe
<1>9. \A p \in Publishers : PubSync(p) \/ PubAsync(p) \/ PubUnlock(p) =>
        RemoveOnce(p) /\ InLoop(p) /\ UNCHANGED <<fresh, dropped>>
  BY DEF PubSync, PubAsync, PubUnlock
<1>10. ASSUME \/ UNCHANGED busVars
              \/ \E p \in Publishers : PubAcquire(p) \/ PubRelock(p) \/ PubEnd(p) \/ \E t \in Topics : PubBegin(p, t)
              \/ \E c \in calls : Body(c, "return") \/ Body(c, "unsubscribe") \/ Return(c)
       PROVE  UNCHANGED <<handlers, fresh, dropped>>
  BY <1>10 DEF busVars, PubAcquire, PubRelock, PubEnd, PubBegin, Body, Return
<1> HIDE DEF Listed
<1> QED
  BY <1>2, <1>3, <1>4, <1>5, <1>6, <1>7, <1>8, <1>9, <1>10 DEF BusNext, PubStep, CallStep

\* A handler stays in the list of its topic until Unsubscribe was called for it, when no
\* other callback of the topic has its code and no callback there is wanted only once:
\* findHandlerIdx compares code pointers and removeHandler works with an index
\* (Publish, Unsubscribe).
THEOREM StaysSubscribedAlways ==
  ASSUME ToldApart PROVE BusSpec => []StaysSubscribed
<1>1. BusInit => StayInv
  BY DEF BusInit, StayInv, OwnTopic, StaysSubscribed, Idle
<1>2. DeliveryInv => RestType
  BY DEF DeliveryInv
<1>3. BusInv /\ DeliveryInv /\ StayInv /\ [BusNext]_busVars => StayInv'
  BY <1>2, StayStep
<1>4. StayInv => StaysSubscribed
  BY DEF StayInv
<1> QED
  BY <1>1, <1>3, <1>4, InitDelivery, StepDelivery, PTL DEF BusSpec
=============================================================================
