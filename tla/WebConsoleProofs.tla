------------------------- MODULE WebConsoleProofs --------------------------
(***************************************************************************)
(* What Send loses: nothing, when every console has a topic of its own.    *)
(* An event is then given to one console, once, so the Repeat that Send    *)
(* counts in the shared event belongs to one line of one buffer.           *)
(***************************************************************************)
EXTENDS WebConsole, SequenceTheorems, TLAPS

\* Consoles of one topic would share the events, and count Repeat together.
OwnTopics == \A g, h \in Subs : TopicOf[g] = TopicOf[h] => g = h

Lists == {<<>>} \cup {<<h>> : h \in Subs}
PubRecs == [at : {"idle", "loop", "acquire", "relock"}, topic : Topics \cup {None},
            copy : Lists, i : {1, 2}, count : 0..MaxEvents]
CallRecs == [sub : Subs, event : Events, at : {"body", "unsubscribe", "return"}]
LineRecs == [event : Events, repeat : Nat]

BusType ==
  /\ handlers \in [Topics -> Lists] /\ fresh \subseteq Subs
  /\ pub \in [Publishers -> PubRecs]
  /\ calls \subseteq CallRecs
  /\ received \in [Subs -> Seq(Events)]

SendType ==
  /\ repeat \in [Events -> Nat]
  /\ messages \in [Subs -> Seq(Events)] /\ written \in [Subs -> Seq(LineRecs)]

CloseType ==
  /\ conn \in [Subs -> BOOLEAN] /\ closed \in [Subs -> BOOLEAN]
  /\ once \in [Subs -> {"new", "running", "done"}]

\* A topic has its one console in its list, or nothing.
OneHandler ==
  \A t \in Topics : handlers[t] # <<>> => \E h \in Subs \ fresh : handlers[t] = <<h>> /\ TopicOf[h] = t

\* Publish waits for the first handler of its copy, the only one.
FirstOnly ==
  \A p \in Publishers :
    /\ pub[p].at # "idle" => pub[p].count # 0
    /\ pub[p].at \in {"acquire", "relock"} => pub[p].i = 1 /\ pub[p].copy # <<>>

Got(e) == \E h \in Subs : \E i \in DOMAIN received[h] : received[h][i] = e

\* An event was published before it is seen, and is not given away before its turn.
PublishedFirst ==
  \A e \in Events : Got(e) \/ (\E c \in calls : c.event = e) =>
    /\ e[2] <= pub[e[1]].count
    /\ pub[e[1]].at # "idle" /\ pub[e[1]].i = 1 => e[2] < pub[e[1]].count

\* One goroutine has an event, and one console gets it, once.
OneCall ==
  /\ \A c, d \in calls : c.event = d.event => c = d
  /\ \A c \in calls : c.at = "body" => ~Got(c.event)
OneConsole ==
  \A g, h \in Subs : \A i \in DOMAIN received[g], j \in DOMAIN received[h] :
    received[g][i] = received[h][j] => g = h /\ i = j

EventsInv == PublishedFirst /\ OneCall /\ OneConsole

\* What Send buffers it was given, every event is in the buffer once, and only
\* an event that was buffered is repeated.
Buffered ==
  /\ \A h \in Subs : \A i \in DOMAIN messages[h] :
       \E j \in DOMAIN received[h] : received[h][j] = messages[h][i]
  /\ \A h \in Subs : \A i, j \in DOMAIN messages[h] : messages[h][i] = messages[h][j] => i = j
  /\ \A e \in Events : repeat[e] # 0 => Got(e)

\* Close closes the connection before it is done.
CloseEndsIt == \A h \in Subs : once[h] = "done" => ~conn[h]

ListInv == BusType /\ OneHandler /\ FirstOnly
SendInv == SendType /\ CloseType /\ Buffered /\ CloseEndsIt /\ NothingLost
ConsInv == ListInv /\ EventsInv /\ SendInv
-----------------------------------------------------------------------------
(* Lines and the events they stand for *)

LEMMA TimesType == ASSUME NEW l \in LineRecs PROVE Times(l) \in Nat
BY DEF Times, LineRecs

LEMMA TellsNothing == Tells(<<>>, <<>>)
<1> DEFINE u == [i \in 0..0 |-> 0]
<1>1. u \in [0..Len(<<>>) -> 0..Len(<<>>)] /\ u[0] = 0 /\ u[Len(<<>>)] = Len(<<>>)
  OBVIOUS
<1>2. \A i \in 1..Len(<<>>) : FALSE
  OBVIOUS
<1> HIDE DEF u
<1> QED
  BY <1>1, <1>2 DEF Tells

\* A new line for an event ...
LEMMA TellsOneMore ==
  ASSUME NEW lines \in Seq(LineRecs), NEW events \in Seq(Events), Tells(lines, events),
         NEW l \in LineRecs, NEW e \in Events, Times(l) = 1, Text[e] = Text[l.event]
  PROVE  Tells(Append(lines, l), Append(events, e))
<1> DEFINE n == Len(lines)  m == Len(events)
<1>1. PICK u \in [0..n -> 0..m] :
        /\ u[0] = 0 /\ u[n] = m
        /\ \A i \in 1..n :
             /\ u[i] = u[i - 1] + Times(lines[i])
             /\ \A j \in u[i - 1] + 1..u[i] : Text[events[j]] = Text[lines[i].event]
  BY DEF Tells
<1> DEFINE v == [i \in 0..(n + 1) |-> IF i <= n THEN u[i] ELSE m + 1]
           ls == Append(lines, l)  es == Append(events, e)
<1>2. n \in Nat /\ m \in Nat /\ Len(ls) = n + 1 /\ Len(es) = m + 1
  OBVIOUS
<1>3. v \in [0..Len(ls) -> 0..Len(es)] /\ v[0] = 0 /\ v[Len(ls)] = Len(es)
  BY <1>1, <1>2
<1>4. ASSUME NEW i \in 1..n
      PROVE  /\ v[i] = v[i - 1] + Times(ls[i])
             /\ \A j \in v[i - 1] + 1..v[i] : Text[es[j]] = Text[ls[i].event]
  <2>0. i \in 0..n /\ i - 1 \in 0..n /\ i \in 1..Len(lines)
    BY <1>2
  <2>1. v[i] = u[i] /\ v[i - 1] = u[i - 1] /\ ls[i] = lines[i] /\ u[i] \in 0..m /\ u[i - 1] \in 0..m
    <3>1. ls[i] = lines[i]
      BY <1>2, <2>0
    <3>2. i <= n /\ i - 1 <= n /\ i - 1 < n
      BY <1>2
    <3> HIDE DEF ls, es
    <3>3. v[i] = u[i] /\ v[i - 1] = u[i - 1]
      BY <2>0, <3>2
    <3> HIDE DEF v
    <3> QED
      BY <1>1, <2>0, <3>1, <3>3
  <2>2. \A j \in u[i - 1] + 1..u[i] : es[j] = events[j]
    BY <1>2, <2>1
  <2> HIDE DEF v, ls, es
  <2> QED
    BY <1>1, <2>1, <2>2
<1>5. /\ v[n + 1] = v[n + 1 - 1] + Times(ls[n + 1])
      /\ \A j \in v[n + 1 - 1] + 1..v[n + 1] : Text[es[j]] = Text[ls[n + 1].event]
  <2>1. v[n + 1] = m + 1 /\ v[n + 1 - 1] = m /\ ls[n + 1] = l /\ es[m + 1] = e
    BY <1>1, <1>2
  <2> HIDE DEF v, ls, es
  <2>2. \A j \in m + 1..m + 1 : j = m + 1
    BY <1>2
  <2> QED
    BY <1>2, <2>1, <2>2
<1>6. \A i \in 1..Len(ls) : i \in 1..n \/ i = n + 1
  BY <1>2
<1> HIDE DEF v, ls, es
<1>7. \A i \in 1..Len(ls) :
        /\ v[i] = v[i - 1] + Times(ls[i])
        /\ \A j \in v[i - 1] + 1..v[i] : Text[es[j]] = Text[ls[i].event]
  BY <1>4, <1>5, <1>6
<1>8. Tells(ls, es)
  BY <1>3, <1>7 DEF Tells
<1> QED
  BY <1>8 DEF ls, es

\* ... or one more event that the last line stands for.
LEMMA TellsOnceMore ==
  ASSUME NEW lines \in Seq(LineRecs), NEW events \in Seq(Events), Tells(lines, events), lines # <<>>,
         NEW l \in LineRecs, NEW e \in Events, Text[e] = Text[l.event],
         l.event = lines[Len(lines)].event, Times(l) = Times(lines[Len(lines)]) + 1
  PROVE  Tells([lines EXCEPT ![Len(lines)] = l], Append(events, e))
<1> DEFINE n == Len(lines)  m == Len(events)
<1>1. PICK u \in [0..n -> 0..m] :
        /\ u[0] = 0 /\ u[n] = m
        /\ \A i \in 1..n :
             /\ u[i] = u[i - 1] + Times(lines[i])
             /\ \A j \in u[i - 1] + 1..u[i] : Text[events[j]] = Text[lines[i].event]
  BY DEF Tells
<1> DEFINE v == [i \in 0..n |-> IF i < n THEN u[i] ELSE m + 1]
           ls == [lines EXCEPT ![n] = l]  es == Append(events, e)
<1>2. n \in Nat \ {0} /\ m \in Nat /\ Len(ls) = n /\ Len(es) = m + 1
  OBVIOUS
<1>3. v \in [0..Len(ls) -> 0..Len(es)] /\ v[0] = 0 /\ v[Len(ls)] = Len(es)
  BY <1>1, <1>2
<1>4. ASSUME NEW i \in 1..n - 1
      PROVE  /\ v[i] = v[i - 1] + Times(ls[i])
             /\ \A j \in v[i - 1] + 1..v[i] : Text[es[j]] = Text[ls[i].event]
  <2>0. i \in 0..n /\ i - 1 \in 0..n /\ i \in 1..Len(lines)
    BY <1>2
  <2>1. v[i] = u[i] /\ v[i - 1] = u[i - 1] /\ ls[i] = lines[i] /\ u[i] \in 0..m /\ u[i - 1] \in 0..m
    <3>1. ls[i] = lines[i]
      BY <1>2, <2>0
    <3>2. i < n /\ i - 1 < n /\ i \in 0..n
      BY <1>2
    <3> HIDE DEF ls, es
    <3>3. v[i] = u[i] /\ v[i - 1] = u[i - 1]
      BY <2>0, <3>2
    <3> HIDE DEF v
    <3> QED
      BY <1>1, <2>0, <3>1, <3>3
  <2>2. \A j \in u[i - 1] + 1..u[i] : es[j] = events[j]
    BY <1>2, <2>1
  <2>3. i \in 1..n
    BY <1>2
  <2> HIDE DEF v, ls, es
  <2> QED
    BY <1>1, <2>1, <2>2, <2>3
<1>5. /\ v[n] = v[n - 1] + Times(ls[n])
      /\ \A j \in v[n - 1] + 1..v[n] : Text[es[j]] = Text[ls[n].event]
  <2>1. v[n] = m + 1 /\ v[n - 1] = u[n - 1] /\ ls[n] = l /\ es[m + 1] = e /\ u[n - 1] \in 0..m /\ n \in 1..n
    BY <1>1, <1>2
  <2>2. \A j \in u[n - 1] + 1..m : es[j] = events[j]
    BY <1>2, <2>1
  <2>3. lines[n] \in LineRecs
    BY <1>2
  <2> HIDE DEF v, ls, es
  <2>4. m = u[n - 1] + Times(lines[n]) /\ Times(lines[n]) \in Nat
        /\ \A j \in u[n - 1] + 1..m : Text[events[j]] = Text[lines[n].event]
    BY <1>1, <2>1, <2>3, TimesType
  <2>5. m + 1 = u[n - 1] + Times(l)
    BY <1>2, <2>1, <2>4
  <2>6. \A j \in u[n - 1] + 1..m + 1 : j \in u[n - 1] + 1..m \/ j = m + 1
    BY <1>2, <2>1
  <2> QED
    BY <2>1, <2>2, <2>4, <2>5, <2>6
<1> HIDE DEF v, ls, es
<1>6. \A i \in 1..Len(ls) : i \in 1..n - 1 \/ i = n
  BY <1>2
<1>7. \A i \in 1..Len(ls) :
        /\ v[i] = v[i - 1] + Times(ls[i])
        /\ \A j \in v[i - 1] + 1..v[i] : Text[es[j]] = Text[ls[i].event]
  BY <1>4, <1>5, <1>6
<1>8. Tells(ls, es)
  BY <1>3, <1>7 DEF Tells
<1> QED
  BY <1>8 DEF ls, es
-----------------------------------------------------------------------------
(* The bus, when a topic has one console *)

FirstOf(r) ==
  /\ r.at # "idle" => r.count # 0
  /\ r.at \in {"acquire", "relock"} => r.i = 1 /\ r.copy # <<>>

\* What a publisher's step does: it begins with an event, goes on, or starts the goroutine.
Begins(p) == pub'[p].count = pub[p].count + 1 /\ pub'[p].i = 1 /\ calls' = calls
GoesOn(p) ==
  /\ pub'[p].count = pub[p].count /\ calls' = calls
  /\ pub'[p].at # "idle" /\ pub'[p].i = 1 => pub[p].at # "idle" /\ pub[p].i = 1
Starts(p) ==
  /\ pub'[p].count = pub[p].count /\ pub'[p].i = 2 /\ pub[p].at # "idle" /\ pub[p].i = 1
  /\ Call(p) \in CallRecs /\ calls' = calls \cup {Call(p)}

PubMoves(p) ==
  /\ pub' = [pub EXCEPT ![p] = pub'[p]] /\ pub'[p] \in PubRecs /\ FirstOf(pub'[p])
  /\ Begins(p) \/ GoesOn(p) \/ Starts(p)
  /\ UNCHANGED <<handlers, fresh, received>>

LEMMA ListsShape ==
  ASSUME NEW s \in Lists
  PROVE  Len(s) \in {0, 1} /\ (s # <<>> => 1 \in DOMAIN s /\ s[1] \in Subs /\ Len(s) = 1)
         /\ (Len(s) = 1 => s # <<>>)
BY DEF Lists

LEMMA RelockRecord ==
  ASSUME NEW r \in PubRecs, r.i = 1
  PROVE  LET q == [[r EXCEPT !.at = "loop"] EXCEPT !.i = @ + 1] IN
         q \in PubRecs /\ q.at = "loop" /\ q.i = 2 /\ q.count = r.count
<1>1. [r EXCEPT !.at = "loop"] \in PubRecs
  BY DEF PubRecs
<1>2. PICK q \in PubRecs : q = [r EXCEPT !.at = "loop"]
  BY <1>1
<1>3. q.at = "loop" /\ q.i = 1 /\ q.count = r.count
  BY <1>2 DEF PubRecs
<1>4. [q EXCEPT !.i = @ + 1] = [q EXCEPT !.i = 2]
  BY <1>3
<1>5. [q EXCEPT !.i = 2] \in PubRecs
  BY DEF PubRecs
<1>6. [q EXCEPT !.i = 2].at = q.at /\ [q EXCEPT !.i = 2].i = 2 /\ [q EXCEPT !.i = 2].count = q.count
  BY DEF PubRecs
<1> QED
  BY <1>2, <1>3, <1>4, <1>5, <1>6

LEMMA PubOne ==
  ASSUME ListInv, NEW p \in Publishers, PubStep(p) \/ \E t \in Topics : PubBegin(p, t)
  PROVE  PubMoves(p)
<1>1. /\ pub \in [Publishers -> PubRecs] /\ handlers \in [Topics -> Lists]
      /\ pub[p] \in PubRecs /\ FirstOf(pub[p]) /\ MaxEvents \in Nat
  BY BusAssumption DEF ListInv, BusType, FirstOnly, FirstOf, BusAssumption
<1>2. /\ pub[p].at \in {"idle", "loop", "acquire", "relock"} /\ pub[p].topic \in Topics \cup {None}
      /\ pub[p].copy \in Lists /\ pub[p].i \in {1, 2} /\ pub[p].count \in 0..MaxEvents
  BY <1>1 DEF PubRecs
<1>3. ASSUME pub[p].copy # <<>>, pub[p].i = 1
      PROVE  Current(p) \in Subs /\ Mode[Current(p)] = "serial" /\ Current(p) \notin Once
  BY <1>2, <1>3, ListsShape, ConsoleAssumption DEF Current, ConsoleAssumption
<1>4. ASSUME InLoop(p) PROVE pub[p].copy # <<>> /\ pub[p].i = 1 /\ pub[p].at = "loop"
  <2>1. Len(pub[p].copy) \in {0, 1} /\ (Len(pub[p].copy) = 1 => pub[p].copy # <<>>)
    BY <1>2, ListsShape
  <2>2. pub[p].i <= Len(pub[p].copy) /\ pub[p].at = "loop"
    BY <1>4 DEF InLoop
  <2>3. \A i \in {1, 2}, l \in {0, 1} : i <= l => i = 1 /\ l = 1
    OBVIOUS
  <2> QED
    BY <1>2, <2>1, <2>2, <2>3
<1>5. ~PubSync(p) /\ ~PubAsync(p)
  BY <1>3, <1>4 DEF PubSync, PubAsync
<1>6. CASE PubUnlock(p)
  <2> DEFINE r == [pub[p] EXCEPT !.at = "acquire"]
  <2>1. pub' = [pub EXCEPT ![p] = r] /\ InLoop(p) /\ RemoveOnce(p) /\ UNCHANGED <<fresh, calls, received>>
    BY <1>6 DEF PubUnlock
  <2>2. r \in PubRecs /\ r.at = "acquire" /\ r.i = pub[p].i /\ r.count = pub[p].count /\ r.copy = pub[p].copy
    BY <1>1 DEF PubRecs
  <2> HIDE DEF r
  <2>3. pub'[p] = r /\ handlers' = handlers
    BY <1>1, <1>3, <1>4, <2>1 DEF RemoveOnce
  <2>4. FirstOf(r) /\ GoesOn(p)
    BY <1>1, <1>4, <2>1, <2>2, <2>3 DEF FirstOf, GoesOn
  <2> QED
    BY <2>1, <2>2, <2>3, <2>4 DEF PubMoves
<1>7. CASE PubAcquire(p)
  <2> DEFINE r == [pub[p] EXCEPT !.at = "relock"]
  <2>1. pub' = [pub EXCEPT ![p] = r] /\ pub[p].at = "acquire" /\ UNCHANGED <<handlers, fresh, calls, received>>
    BY <1>7 DEF PubAcquire
  <2>2. r \in PubRecs /\ r.at = "relock" /\ r.i = pub[p].i /\ r.count = pub[p].count /\ r.copy = pub[p].copy
    BY <1>1 DEF PubRecs
  <2> HIDE DEF r
  <2>3. pub'[p] = r
    BY <1>1, <2>1
  <2>4. FirstOf(r) /\ GoesOn(p)
    BY <1>1, <2>1, <2>2, <2>3 DEF FirstOf, GoesOn
  <2> QED
    BY <2>1, <2>2, <2>3, <2>4 DEF PubMoves
<1>8. CASE PubRelock(p)
  <2> DEFINE r == [[pub[p] EXCEPT !.at = "loop"] EXCEPT !.i = @ + 1]
  <2>1. pub' = [pub EXCEPT ![p].at = "loop", ![p].i = @ + 1] /\ pub[p].at = "relock"
        /\ calls' = calls \cup {Call(p)} /\ UNCHANGED <<handlers, fresh, received>>
    BY <1>8 DEF PubRelock
  <2>2. pub[p].i = 1 /\ pub[p].copy # <<>> /\ pub[p].count \in 1..MaxEvents
    BY <1>1, <1>2, <2>1 DEF FirstOf
  <2>3. pub' = [pub EXCEPT ![p] = r]
    BY <1>1, <2>1
  <2>4. r \in PubRecs /\ r.at = "loop" /\ r.i = 2 /\ r.count = pub[p].count
    BY <1>1, <2>2, RelockRecord
  <2> HIDE DEF r
  <2>5. pub'[p] = r
    BY <1>1, <2>3
  <2>6. Event(p) \in Events
    BY <2>2 DEF Event, Events
  <2>7. Call(p) \in CallRecs
    BY <1>3, <2>2, <2>6 DEF Call, CallRecs
  <2>8. FirstOf(r) /\ Starts(p)
    BY <1>1, <1>2, <2>1, <2>2, <2>4, <2>5, <2>7 DEF FirstOf, Starts
  <2> QED
    BY <2>1, <2>3, <2>4, <2>5, <2>8 DEF PubMoves
<1>9. CASE PubEnd(p)
  <2> DEFINE r == [Idle EXCEPT !.count = pub[p].count]
  <2>1. pub' = [pub EXCEPT ![p] = r] /\ UNCHANGED <<handlers, fresh, calls, received>>
    BY <1>9 DEF PubEnd
  <2>2. r \in PubRecs /\ r.at = "idle" /\ r.i = 1 /\ r.count = pub[p].count
    BY <1>2 DEF PubRecs, Idle, Lists
  <2> HIDE DEF r
  <2>3. pub'[p] = r
    BY <1>1, <2>1
  <2>4. FirstOf(r) /\ GoesOn(p)
    BY <2>1, <2>2, <2>3 DEF FirstOf, GoesOn
  <2> QED
    BY <2>1, <2>2, <2>3, <2>4 DEF PubMoves
<1>10. CASE \E t \in Topics : PubBegin(p, t)
  <2>1. PICK t \in Topics : PubBegin(p, t)
    BY <1>10
  <2> DEFINE r == IF handlers[t] = <<>> THEN [Idle EXCEPT !.count = pub[p].count + 1]
                  ELSE [at |-> "loop", topic |-> t, copy |-> handlers[t], i |-> 1, count |-> pub[p].count + 1]
  <2>2. pub[p].count < MaxEvents /\ UNCHANGED <<handlers, fresh, calls, received>>
        /\ pub' = [pub EXCEPT ![p] =
             IF handlers[t] = <<>> THEN [Idle EXCEPT !.count = pub[p].count + 1]
             ELSE [at |-> "loop", topic |-> t, copy |-> handlers[t], i |-> 1, count |-> @.count + 1]]
    BY <2>1 DEF PubBegin
  <2>3. pub' = [pub EXCEPT ![p] = r]
    BY <1>1, <2>2
  <2>4. r \in PubRecs /\ r.at \in {"idle", "loop"} /\ r.i = 1 /\ r.count = pub[p].count + 1
    <3>1. pub[p].count + 1 \in 0..MaxEvents /\ handlers[t] \in Lists
      BY <1>1, <1>2, <2>2
    <3>2. CASE handlers[t] = <<>>
      BY <3>1, <3>2 DEF PubRecs, Idle, Lists
    <3>3. CASE handlers[t] # <<>>
      BY <3>1, <3>3 DEF PubRecs
    <3> QED
      BY <3>2, <3>3
  <2> HIDE DEF r
  <2>5. pub'[p] = r
    BY <1>1, <2>3
  <2>6. FirstOf(r)
    BY <1>2, <2>4 DEF FirstOf
  <2>7. Begins(p)
    BY <2>2, <2>4, <2>5 DEF Begins
  <2> QED
    BY <2>2, <2>3, <2>4, <2>5, <2>6, <2>7 DEF PubMoves
<1> QED
  BY <1>5, <1>6, <1>7, <1>8, <1>9, <1>10 DEF PubStep

LEMMA RemoveOne ==
  ASSUME ListInv, NEW h \in Subs, RemoveFound(h)
  PROVE  /\ handlers' \in [Topics -> Lists]
         /\ \A t \in Topics : handlers'[t] = handlers[t] \/ handlers'[t] = <<>>
<1>1. handlers \in [Topics -> Lists] /\ TopicOf[h] \in Topics
  BY BusAssumption DEF ListInv, BusType, BusAssumption
<1> DEFINE s == handlers[TopicOf[h]]
<1>2. s \in Lists
  BY <1>1
<1>3. WithoutAt(s, Find(h)) \in {s, <<>>}
  <2>1. CASE Find(h) \notin DOMAIN s
    BY <2>1 DEF WithoutAt
  <2>2. CASE Find(h) \in DOMAIN s
    <3>1. Len(s) = 1
      BY <1>2, <2>2 DEF Lists
    <3>2. \A f : [j \in 1..1 - 1 |-> f[j]] = <<>>
      OBVIOUS
    <3>3. WithoutAt(s, Find(h)) = [j \in 1..0 |-> IF j < Find(h) THEN s[j] ELSE s[j + 1]]
      BY <2>2, <3>1 DEF WithoutAt
    <3>4. [j \in 1..0 |-> IF j < Find(h) THEN s[j] ELSE s[j + 1]] = <<>>
      OBVIOUS
    <3> QED
      BY <3>3, <3>4
  <2> QED
    BY <2>1, <2>2
<1>4. handlers' = [handlers EXCEPT ![TopicOf[h]] = WithoutAt(s, Find(h))]
  BY <1>1 DEF RemoveFound
<1> HIDE DEF s
<1>5. <<>> \in Lists
  BY DEF Lists
<1> QED
  BY <1>1, <1>2, <1>3, <1>4, <1>5 DEF s

\* The steps that neither publish an event nor give one to a console.
Quiet ==
  /\ UNCHANGED <<pub, received>> /\ calls' \subseteq CallRecs
  /\ \A d \in calls' : \E c \in calls : c.event = d.event /\ (d.at = "body" => d = c)
  /\ \A d, e \in calls' : d.event = e.event => d = e
ListsKept == handlers' \in [Topics -> Lists] /\ fresh' \subseteq Subs /\ OneHandler'
Gives(c) == \E next \in {"return", "unsubscribe"} : Body(c, next)

LEMMA SendGives ==
  ASSUME NEW c \in calls, SendEvent(c) PROVE Gives(c)
BY DEF SendEvent, Gives

LEMMA CloseQuiet ==
  ASSUME ListInv, OneCall, NEW h \in Subs, NEW a \in Actors, AfterClose(h, a), UNCHANGED <<pub, received>>
  PROVE  Quiet
<1>1. calls \subseteq CallRecs /\ \A c, d \in calls : c.event = d.event => c = d
  BY DEF ListInv, BusType, OneCall
<1>2. CASE a # "bus"
  <2>1. calls' = calls
    BY <1>2 DEF AfterClose
  <2> QED
    BY <1>1, <2>1 DEF Quiet
<1>3. CASE a = "bus"
  <2> DEFINE F(c) == IF c.sub = h THEN [c EXCEPT !.at = "return"] ELSE c
  <2>1. calls' = {F(c) : c \in calls}
    BY <1>3 DEF AfterClose
  <2>2. ASSUME NEW c \in calls
        PROVE  F(c) \in CallRecs /\ F(c).event = c.event /\ (F(c).at = "body" => F(c) = c)
    <3>1. c \in CallRecs
      BY <1>1
    <3> QED
      BY <3>1 DEF CallRecs
  <2> HIDE DEF F
  <2> QED
    BY <1>1, <2>1, <2>2 DEF Quiet
<1> QED
  BY <1>2, <1>3

LEMMA SameLists == ASSUME ListInv, UNCHANGED <<handlers, fresh>> PROVE ListsKept
BY DEF ListInv, BusType, ListsKept, OneHandler

LEMMA FewerLists ==
  ASSUME ListInv, NEW h \in Subs, RemoveFound(h), fresh' = fresh PROVE ListsKept
<1>1. /\ handlers' \in [Topics -> Lists]
      /\ \A t \in Topics : handlers'[t] = handlers[t] \/ handlers'[t] = <<>>
  BY RemoveOne
<1>2. OneHandler /\ fresh \subseteq Subs
  BY DEF ListInv, BusType
<1> QED
  BY <1>1, <1>2 DEF ListsKept, OneHandler

LEMMA OpenLists ==
  ASSUME OwnTopics, ListInv, NEW h \in Subs, Subscribe(h) PROVE ListsKept
<1>1. /\ handlers \in [Topics -> Lists] /\ TopicOf[h] \in Topics /\ OneHandler /\ fresh \subseteq Subs
      /\ h \in fresh /\ fresh' = fresh \ {h}
      /\ handlers' = [handlers EXCEPT ![TopicOf[h]] = Append(@, h)]
  BY BusAssumption DEF ListInv, BusType, BusAssumption, Subscribe
<1>2. handlers[TopicOf[h]] = <<>>
  BY <1>1 DEF OneHandler, OwnTopics
<1>3. Append(<<>>, h) = <<h>> /\ <<h>> \in Lists
  BY DEF Lists
<1>4. handlers' = [handlers EXCEPT ![TopicOf[h]] = <<h>>]
  BY <1>1, <1>2, <1>3
<1>5. handlers' \in [Topics -> Lists] /\ handlers'[TopicOf[h]] = <<h>>
      /\ \A t \in Topics : t # TopicOf[h] => handlers'[t] = handlers[t]
  BY <1>1, <1>3, <1>4
<1>6. ASSUME NEW t \in Topics, handlers'[t] # <<>>
      PROVE  \E g \in Subs \ fresh' : handlers'[t] = <<g>> /\ TopicOf[g] = t
  <2>1. CASE t = TopicOf[h]
    BY <1>1, <1>5, <2>1
  <2>2. CASE t # TopicOf[h]
    <3>1. PICK g \in Subs \ fresh : handlers[t] = <<g>> /\ TopicOf[g] = t
      BY <1>1, <1>5, <1>6, <2>2 DEF OneHandler
    <3> QED
      BY <1>1, <1>5, <2>2, <3>1
  <2> QED
    BY <2>1, <2>2
<1> QED
  BY <1>1, <1>5, <1>6 DEF ListsKept, OneHandler

LEMMA BusCases ==
  ASSUME OwnTopics, ListInv, OneCall, [ConsNext]_allVars
  PROVE  \/ \E p \in Publishers : PubMoves(p) /\ UNCHANGED consVars
         \/ \E c \in calls : SendEvent(c)
         \/ Quiet /\ ListsKept
<1>1. calls \subseteq CallRecs /\ \A c, d \in calls : c.event = d.event => c = d
  BY DEF ListInv, BusType, OneCall
<1>2. ASSUME UNCHANGED busVars PROVE Quiet /\ ListsKept
  <2>1. UNCHANGED <<handlers, fresh, pub, calls, received>>
    BY <1>2 DEF busVars
  <2> QED
    BY <1>1, <2>1, SameLists DEF Quiet
<1>3. CASE UNCHANGED allVars
  BY <1>2, <1>3 DEF allVars
<1>4. ASSUME NEW h \in Subs, Open(h) PROVE Quiet /\ ListsKept
  <2>1. Subscribe(h)
    BY <1>4 DEF Open
  <2>2. UNCHANGED <<pub, calls, received>>
    BY <2>1 DEF Subscribe
  <2> QED
    BY <1>1, <2>1, <2>2, OpenLists DEF Quiet
<1>5. ASSUME NEW h \in Subs, Disconnect(h) \/ Tick(h) \/ SendNil(h) \/ ReadError(h)
      PROVE  Quiet /\ ListsKept
  <2>1. UNCHANGED busVars
    BY <1>5 DEF Disconnect, Tick, SendNil, ReadError
  <2> QED
    BY <1>2, <2>1
<1>6. ASSUME NEW h \in Subs, NEW a \in Actors, CloseFirst(h, a) \/ CloseUnsubscribe(h, a) \/ CloseAgain(h, a)
      PROVE  Quiet /\ ListsKept
  <2>1. CASE CloseFirst(h, a)
    BY <1>2, <2>1 DEF CloseFirst
  <2>2. CASE CloseUnsubscribe(h, a)
    <3>1. RemoveFound(h) /\ fresh' = fresh /\ AfterClose(h, a) /\ UNCHANGED <<pub, received>>
      BY <2>2 DEF CloseUnsubscribe
    <3> QED
      BY <3>1, FewerLists, CloseQuiet
  <2>3. CASE CloseAgain(h, a)
    <3>1. UNCHANGED <<handlers, fresh>> /\ AfterClose(h, a) /\ UNCHANGED <<pub, received>>
      BY <2>3 DEF CloseAgain
    <3> QED
      BY <3>1, SameLists, CloseQuiet
  <2> QED
    BY <1>6, <2>1, <2>2, <2>3
<1>7. ASSUME NEW c \in calls, Return(c) PROVE Quiet /\ ListsKept
  <2>1. calls' = calls \ {c} /\ UNCHANGED <<handlers, fresh, pub, received>>
    BY <1>7 DEF Return
  <2> QED
    BY <1>1, <2>1, SameLists DEF Quiet
<1>8. ASSUME NEW p \in Publishers, PubStep(p) \/ \E t \in Topics : PubBegin(p, t) PROVE PubMoves(p)
  BY <1>8, PubOne
<1> QED
  BY <1>3, <1>4, <1>5, <1>6, <1>7, <1>8 DEF ConsNext, ConsStep

LEMMA GivesOne ==
  ASSUME ListInv, NEW c \in calls, Gives(c)
  PROVE  /\ c \in CallRecs /\ c.at = "body" /\ c.sub \in Subs /\ c.event \in Events
         /\ \E d \in CallRecs : d.event = c.event /\ d.at # "body" /\ calls' = (calls \ {c}) \cup {d}
         /\ received' \in [Subs -> Seq(Events)] /\ received'[c.sub] = Append(received[c.sub], c.event)
         /\ \A h \in Subs \ {c.sub} : received'[h] = received[h]
         /\ UNCHANGED <<handlers, fresh, pub>>
<1>1. c \in CallRecs /\ received \in [Subs -> Seq(Events)]
  BY DEF ListInv, BusType
<1>2. PICK next \in {"return", "unsubscribe"} : Body(c, next)
  BY DEF Gives
<1>3. /\ c.at = "body" /\ calls' = (calls \ {c}) \cup {[c EXCEPT !.at = next]}
      /\ received' = [received EXCEPT ![c.sub] = Append(@, c.event)]
      /\ UNCHANGED <<handlers, fresh, pub>>
  BY <1>2 DEF Body, MoveTo
<1>4. c.sub \in Subs /\ c.event \in Events
  BY <1>1 DEF CallRecs
<1>5. [c EXCEPT !.at = next] \in CallRecs /\ [c EXCEPT !.at = next].event = c.event
      /\ [c EXCEPT !.at = next].at # "body"
  BY <1>1 DEF CallRecs
<1>6. received[c.sub] \in Seq(Events)
  BY <1>1, <1>4
<1>7. Append(received[c.sub], c.event) \in Seq(Events)
  BY <1>4, <1>6
<1> QED
  BY <1>1, <1>3, <1>4, <1>5, <1>7

LEMMA ListStep ==
  ASSUME OwnTopics, ListInv, OneCall, [ConsNext]_allVars PROVE ListInv'
<1>1. BusType /\ OneHandler /\ FirstOnly
  BY DEF ListInv
<1>2. ASSUME NEW p \in Publishers, PubMoves(p) PROVE ListInv'
  <2>1. /\ pub' \in [Publishers -> PubRecs] /\ FirstOf(pub'[p])
        /\ \A q \in Publishers \ {p} : pub'[q] = pub[q]
    BY <1>1, <1>2 DEF PubMoves, BusType
  <2>2. calls' \subseteq CallRecs
    BY <1>1, <1>2 DEF PubMoves, BusType, Begins, GoesOn, Starts
  <2>3. FirstOnly'
    BY <1>1, <2>1 DEF FirstOnly, FirstOf
  <2> QED
    BY <1>1, <1>2, <2>1, <2>2, <2>3 DEF ListInv, PubMoves, BusType, OneHandler
<1>3. ASSUME NEW c \in calls, SendEvent(c) PROVE ListInv'
  <2>1. Gives(c)
    BY <1>3, SendGives
  <2> QED
    BY <1>1, <2>1, GivesOne DEF ListInv, BusType, OneHandler, FirstOnly
<1>4. ASSUME Quiet, ListsKept PROVE ListInv'
  BY <1>1, <1>4 DEF ListInv, BusType, Quiet, ListsKept, FirstOnly
<1> QED
  BY <1>2, <1>3, <1>4, BusCases

LEMMA SeenOld ==
  ASSUME ListInv, PublishedFirst, NEW e \in Events, Got(e) \/ \E c \in calls : c.event = e
  PROVE  /\ e[1] \in Publishers /\ e[2] \in Nat /\ e = <<e[1], e[2]>>
         /\ e[2] <= pub[e[1]].count /\ pub[e[1]].count \in Nat
         /\ pub[e[1]].at # "idle" /\ pub[e[1]].i = 1 => e[2] < pub[e[1]].count
<1>1. e[1] \in Publishers /\ e[2] \in 1..MaxEvents /\ e = <<e[1], e[2]>> /\ MaxEvents \in Nat
  BY BusAssumption DEF Events, BusAssumption
<1>2. pub[e[1]].count \in 0..MaxEvents
  BY <1>1 DEF ListInv, BusType, PubRecs
<1> QED
  BY <1>1, <1>2 DEF PublishedFirst

LEMMA PublisherEvents ==
  ASSUME ListInv, EventsInv, NEW p \in Publishers, PubMoves(p) PROVE EventsInv'
<1>1. PublishedFirst /\ OneCall /\ OneConsole /\ calls \subseteq CallRecs
      /\ pub \in [Publishers -> PubRecs] /\ pub' \in [Publishers -> PubRecs]
  BY DEF EventsInv, ListInv, BusType, PubMoves
<1>2. received' = received /\ \A q \in Publishers \ {p} : pub'[q] = pub[q]
  BY <1>1 DEF PubMoves
<1>3. \A e : Got(e)' <=> Got(e)
  BY <1>2 DEF Got
<1>4. pub[p].count \in Nat /\ pub'[p].count \in Nat
  BY <1>1, BusAssumption DEF PubRecs, BusAssumption
<1>5. OneConsole'
  BY <1>1, <1>2 DEF OneConsole
<1>6. CASE Starts(p)
  <2>1. /\ pub'[p].count = pub[p].count /\ pub'[p].i = 2 /\ pub[p].at # "idle" /\ pub[p].i = 1
        /\ Call(p) \in CallRecs /\ calls' = calls \cup {Call(p)}
    BY <1>6 DEF Starts
  <2>2. Call(p).event = <<p, pub[p].count>> /\ Call(p).event \in Events
    BY <2>1 DEF Call, Event, CallRecs
  <2>3. ~Got(Call(p).event) /\ \A c \in calls : c.event # Call(p).event
    <3> SUFFICES ASSUME Got(Call(p).event) \/ \E c \in calls : c.event = Call(p).event PROVE FALSE
      OBVIOUS
    <3>1. Call(p).event[2] < pub[Call(p).event[1]].count
      BY <1>1, <2>1, <2>2, SeenOld
    <3> QED
      BY <1>4, <2>2, <3>1
  <2>4. OneCall'
    BY <1>1, <1>3, <2>1, <2>3 DEF OneCall
  <2>5. ASSUME NEW e \in Events, Got(e)' \/ \E c \in calls' : c.event = e
        PROVE  /\ e[2] <= pub'[e[1]].count
               /\ pub'[e[1]].at # "idle" /\ pub'[e[1]].i = 1 => e[2] < pub'[e[1]].count
    <3>1. CASE e = Call(p).event
      BY <1>4, <2>1, <2>2, <3>1
    <3>2. CASE Got(e) \/ \E c \in calls : c.event = e
      BY <1>1, <1>2, <1>4, <2>1, <3>2, SeenOld
    <3> QED
      BY <1>3, <2>1, <2>5, <3>1, <3>2
  <2>6. PublishedFirst'
    BY <2>5 DEF PublishedFirst
  <2> QED
    BY <1>5, <2>4, <2>6 DEF EventsInv
<1>7. CASE Begins(p) \/ GoesOn(p)
  <2>1. calls' = calls
    BY <1>7 DEF Begins, GoesOn
  <2>2. OneCall'
    BY <1>1, <1>3, <2>1 DEF OneCall
  <2>3. ASSUME NEW e \in Events, Got(e)' \/ \E c \in calls' : c.event = e
        PROVE  /\ e[2] <= pub'[e[1]].count
               /\ pub'[e[1]].at # "idle" /\ pub'[e[1]].i = 1 => e[2] < pub'[e[1]].count
    <3>1. /\ e[1] \in Publishers /\ e[2] \in Nat /\ e[2] <= pub[e[1]].count
          /\ pub[e[1]].at # "idle" /\ pub[e[1]].i = 1 => e[2] < pub[e[1]].count
      BY <1>1, <1>3, <2>1, <2>3, SeenOld
    <3>2. CASE e[1] = p /\ Begins(p)
      BY <1>4, <3>1, <3>2 DEF Begins
    <3>3. CASE e[1] = p /\ GoesOn(p)
      BY <1>4, <3>1, <3>3 DEF GoesOn
    <3>4. CASE e[1] # p
      BY <1>2, <3>1, <3>4
    <3> QED
      BY <1>7, <3>2, <3>3, <3>4
  <2>4. PublishedFirst'
    BY <2>3 DEF PublishedFirst
  <2> QED
    BY <1>5, <2>2, <2>4 DEF EventsInv
<1> QED
  BY <1>6, <1>7 DEF PubMoves

LEMMA GivenEvents ==
  ASSUME ListInv, EventsInv, NEW c \in calls, Gives(c) PROVE EventsInv'
<1>1. PublishedFirst /\ OneCall /\ OneConsole
  BY DEF EventsInv
<1>2. /\ c \in CallRecs /\ c.at = "body" /\ c.sub \in Subs /\ c.event \in Events
      /\ received' \in [Subs -> Seq(Events)] /\ received'[c.sub] = Append(received[c.sub], c.event)
      /\ \A h \in Subs \ {c.sub} : received'[h] = received[h]
      /\ pub' = pub
  BY GivesOne
<1>3. PICK d \in CallRecs : d.event = c.event /\ d.at # "body" /\ calls' = (calls \ {c}) \cup {d}
  BY GivesOne
<1> DEFINE h == c.sub  s == received[h]
<1>4. s \in Seq(Events) /\ received'[h] = Append(s, c.event) /\ ~Got(c.event)
  BY <1>1, <1>2 DEF ListInv, BusType, OneCall
<1>5. /\ DOMAIN received'[h] = DOMAIN s \cup {Len(s) + 1} /\ Len(s) + 1 \notin DOMAIN s
      /\ received'[h][Len(s) + 1] = c.event /\ \A i \in DOMAIN s : received'[h][i] = s[i]
  BY <1>4
<1> HIDE DEF s
<1>6. \A e : Got(e)' => Got(e) \/ e = c.event
  <2> SUFFICES ASSUME NEW e, NEW g \in Subs, NEW i \in DOMAIN received'[g], received'[g][i] = e
               PROVE  Got(e) \/ e = c.event
    BY DEF Got
  <2>1. CASE g = h
    BY <1>2, <1>5, <2>1 DEF Got, s
  <2>2. CASE g # h
    BY <1>2, <2>2 DEF Got
  <2> QED
    BY <2>1, <2>2
<1>7. OneCall'
  <2>1. \A a, b \in calls' : a.event = b.event => a = b
    BY <1>1, <1>3 DEF OneCall
  <2>2. ASSUME NEW a \in calls', a.at = "body" PROVE ~Got(a.event)'
    <3>1. a \in calls /\ a # c
      BY <1>2, <1>3, <2>2
    <3> QED
      BY <1>1, <1>6, <2>2, <3>1 DEF OneCall
  <2> QED
    BY <2>1, <2>2 DEF OneCall
<1>8. PublishedFirst'
  <2> SUFFICES ASSUME NEW e \in Events, Got(e)' \/ \E a \in calls' : a.event = e
               PROVE  Got(e) \/ \E a \in calls : a.event = e
    BY <1>1, <1>2 DEF PublishedFirst
  <2> QED
    BY <1>3, <1>6
<1>9. ASSUME NEW f \in Subs, NEW g \in Subs, NEW i \in DOMAIN received'[f], NEW j \in DOMAIN received'[g],
             received'[f][i] = received'[g][j]
      PROVE  f = g /\ i = j
  <2>1. ASSUME NEW k \in Subs, NEW m \in DOMAIN received'[k]
        PROVE  \/ m \in DOMAIN received[k] /\ received'[k][m] = received[k][m] /\ received'[k][m] # c.event
               \/ k = h /\ m = Len(s) + 1 /\ received'[k][m] = c.event
    <3>1. CASE k = h
      BY <1>4, <1>5, <2>1, <3>1 DEF Got, s
    <3>2. CASE k # h
      BY <1>2, <1>4, <2>1, <3>2 DEF Got
    <3> QED
      BY <3>1, <3>2
  <2>2. \/ i \in DOMAIN received[f] /\ received'[f][i] = received[f][i] /\ received'[f][i] # c.event
        \/ f = h /\ i = Len(s) + 1 /\ received'[f][i] = c.event
    BY <2>1
  <2>3. \/ j \in DOMAIN received[g] /\ received'[g][j] = received[g][j] /\ received'[g][j] # c.event
        \/ g = h /\ j = Len(s) + 1 /\ received'[g][j] = c.event
    BY <2>1
  <2> QED
    BY <1>1, <1>9, <2>2, <2>3 DEF OneConsole
<1> QED
  BY <1>7, <1>8, <1>9 DEF EventsInv, OneConsole

LEMMA QuietEvents == ASSUME EventsInv, Quiet PROVE EventsInv'
<1>1. \A e : Got(e)' <=> Got(e)
  BY DEF Got, Quiet
<1>2. OneCall'
  BY <1>1 DEF OneCall, EventsInv, Quiet
<1>3. PublishedFirst'
  BY <1>1 DEF PublishedFirst, EventsInv, Quiet
<1> QED
  BY <1>2, <1>3 DEF EventsInv, OneConsole, Quiet

LEMMA EventsStep ==
  ASSUME OwnTopics, ListInv, EventsInv, [ConsNext]_allVars PROVE EventsInv'
<1>1. OneCall
  BY DEF EventsInv
<1> QED
  BY <1>1, BusCases, SendGives, PublisherEvents, GivenEvents, QuietEvents
-----------------------------------------------------------------------------
(* Send *)

\* All lines of a console, on the wire and buffered.
Total(h) == written[h] \o Lines(messages[h], repeat, Len(messages[h]))

LineOf(buf, r, i) == [event |-> buf[i], repeat |-> r[buf[i]]]

LEMMA LinesOf ==
  ASSUME NEW buf \in Seq(Events), NEW r \in [Events -> Nat]
  PROVE  /\ Lines(buf, r, Len(buf)) \in Seq(LineRecs) /\ Len(Lines(buf, r, Len(buf))) = Len(buf)
         /\ \A i \in 1..Len(buf) : Lines(buf, r, Len(buf))[i] = LineOf(buf, r, i)
<1>1. Len(buf) \in Nat /\ \A i \in 1..Len(buf) : buf[i] \in Events
  OBVIOUS
<1>2. \A i \in 1..Len(buf) : LineOf(buf, r, i) \in LineRecs
  BY <1>1 DEF LineRecs, LineOf
<1>3. Lines(buf, r, Len(buf)) = [i \in 1..Len(buf) |-> LineOf(buf, r, i)]
  BY DEF Lines, LineOf
<1> QED
  BY <1>1, <1>2, <1>3

LEMMA ConcatAppend ==
  ASSUME NEW S, NEW a \in Seq(S), NEW b \in Seq(S), NEW x \in S
  PROVE  a \o Append(b, x) = Append(a \o b, x)
OBVIOUS

\* c is b but for its last element, x.
LastIs(b, c, x) ==
  b # <<>> /\ Len(b) = Len(c) /\ c[Len(b)] = x /\ \A i \in 1..Len(b) : i # Len(b) => c[i] = b[i]

\* The same two sequences behind a.
LEMMA ConcatLast ==
  ASSUME NEW a \in Seq(LineRecs), NEW b \in Seq(LineRecs), NEW c \in Seq(LineRecs), NEW x \in LineRecs,
         LastIs(b, c, x)
  PROVE  /\ a \o b \in Seq(LineRecs) /\ a \o b # <<>> /\ (a \o b)[Len(a \o b)] = b[Len(b)]
         /\ a \o c = [a \o b EXCEPT ![Len(a \o b)] = x]
<1>1. Len(a) \in Nat /\ Len(b) \in Nat \ {0} /\ Len(b) \in 1..Len(b)
      /\ Len(b) = Len(c) /\ c[Len(b)] = x /\ \A i \in 1..Len(b) : i # Len(b) => c[i] = b[i]
  BY DEF LastIs
<1> DEFINE ab == a \o b  ac == a \o c  d == [ab EXCEPT ![Len(ab)] = x]
<1>2. /\ ab \in Seq(LineRecs) /\ Len(ab) = Len(a) + Len(b)
      /\ \A i \in 1..Len(a) + Len(b) : ab[i] = IF i <= Len(a) THEN a[i] ELSE b[i - Len(a)]
  BY ConcatProperties
<1>3. /\ ac \in Seq(LineRecs) /\ Len(ac) = Len(a) + Len(b)
      /\ \A i \in 1..Len(a) + Len(b) : ac[i] = IF i <= Len(a) THEN a[i] ELSE c[i - Len(a)]
  BY <1>1, ConcatProperties
<1> HIDE DEF ab, ac
<1>4. ab # <<>> /\ Len(ab) \in 1..Len(ab) /\ ab[Len(ab)] = b[Len(b)]
  <2>1. Len(ab) \in 1..Len(a) + Len(b) /\ ~(Len(ab) <= Len(a)) /\ Len(ab) - Len(a) = Len(b)
    BY <1>1, <1>2
  <2> QED
    BY <1>2, <2>1
<1>5. d \in Seq(LineRecs) /\ Len(d) = Len(ab) /\ \A i \in 1..Len(ab) : d[i] = IF i = Len(ab) THEN x ELSE ab[i]
  BY <1>2, <1>4
<1> HIDE DEF d
<1>6. ASSUME NEW i \in 1..Len(a) + Len(b) PROVE ac[i] = d[i]
  <2>1. CASE i <= Len(a)
    <3>1. i # Len(ab) /\ i \in 1..Len(ab)
      BY <1>1, <1>2, <2>1
    <3> QED
      BY <1>2, <1>3, <1>5, <2>1, <3>1
  <2>2. CASE ~(i <= Len(a))
    <3>1. i - Len(a) \in 1..Len(b) /\ (i - Len(a) = Len(b) <=> i = Len(ab)) /\ i \in 1..Len(ab)
      BY <1>1, <1>2, <2>2
    <3>2. ac[i] = c[i - Len(a)] /\ ab[i] = b[i - Len(a)]
      BY <1>2, <1>3, <2>2
    <3>3. c[i - Len(a)] = IF i - Len(a) = Len(b) THEN x ELSE b[i - Len(a)]
      BY <1>1, <3>1
    <3> QED
      BY <1>5, <3>1, <3>2, <3>3
  <2> QED
    BY <2>1, <2>2
<1>7. ac = d
  BY <1>2, <1>3, <1>5, <1>6, SeqEqual
<1> QED
  BY <1>2, <1>4, <1>7 DEF ab, ac, d

LEMMA LinesAppend ==
  ASSUME NEW buf \in Seq(Events), NEW r \in [Events -> Nat], NEW e \in Events
  PROVE  Lines(Append(buf, e), r, Len(Append(buf, e)))
           = Append(Lines(buf, r, Len(buf)), [event |-> e, repeat |-> r[e]])
<1> DEFINE b == Append(buf, e)  l == [event |-> e, repeat |-> r[e]]
           K == Lines(b, r, Len(b))  L == Lines(buf, r, Len(buf))  n == Len(buf)
<1>1. b \in Seq(Events) /\ Len(b) = n + 1 /\ b[n + 1] = e /\ n \in Nat /\ \A i \in 1..n : b[i] = buf[i]
  OBVIOUS
<1> HIDE DEF b
<1>2. K \in Seq(LineRecs) /\ Len(K) = n + 1 /\ \A i \in 1..n + 1 : K[i] = LineOf(b, r, i)
  BY <1>1, LinesOf
<1>3. L \in Seq(LineRecs) /\ Len(L) = n /\ \A i \in 1..n : L[i] = LineOf(buf, r, i)
  BY LinesOf
<1>4. l \in LineRecs
  BY DEF LineRecs
<1> HIDE DEF K, L, n
<1>5. \A i \in 1..n : LineOf(b, r, i) = LineOf(buf, r, i)
  BY <1>1 DEF LineOf
<1>6. LineOf(b, r, n + 1) = l
  BY <1>1 DEF LineOf
<1> HIDE DEF l
<1>7. Append(L, l) \in Seq(LineRecs) /\ Len(Append(L, l)) = n + 1 /\ Append(L, l)[n + 1] = l
      /\ \A i \in 1..n : Append(L, l)[i] = L[i]
  BY <1>3, <1>4
<1>8. ASSUME NEW i \in 1..n + 1 PROVE K[i] = Append(L, l)[i]
  <2>1. i \in 1..n \/ i = n + 1
    BY <1>1
  <2> QED
    BY <1>2, <1>3, <1>5, <1>6, <1>7, <2>1
<1>9. K = Append(L, l)
  BY <1>2, <1>7, <1>8, SeqEqual
<1> QED
  BY <1>9 DEF K, L, b, l, n

\* What Send makes of a log: one more line, or one more repetition of the last.
LEMMA SendTells ==
  ASSUME SendType, Buffered, NEW h \in Subs, NEW e \in Events, ~Got(e),
         received[h] \in Seq(Events), Tells(Total(h), received[h])
  PROVE  Tells(written[h] \o Lines(Buffer(h, e), Repeats(h, e), Len(Buffer(h, e))), Append(received[h], e))
<1> DEFINE m == messages[h]  n == Len(m)  w == written[h]  L == Lines(m, repeat, n)
<1>1. m \in Seq(Events) /\ n \in Nat /\ w \in Seq(LineRecs) /\ repeat \in [Events -> Nat]
  BY DEF SendType
<1>2. L \in Seq(LineRecs) /\ Len(L) = n /\ \A i \in 1..n : L[i] = LineOf(m, repeat, i)
  <2> HIDE DEF m
  <2> QED
    BY <1>1, LinesOf
<1>3. Total(h) = w \o L
  BY DEF Total
<1>4. CASE ~Merges(h, e)
  <2> DEFINE l == [event |-> e, repeat |-> repeat[e]]  K == Lines(Append(m, e), repeat, Len(Append(m, e)))
  <2>1. Buffer(h, e) = Append(m, e) /\ Repeats(h, e) = repeat
    BY <1>4 DEF Buffer, Repeats
  <2>2. repeat[e] = 0 /\ l \in LineRecs /\ l.event = e /\ Times(l) = 1
    BY <1>1 DEF Buffered, LineRecs, Times
  <2>3. K = Append(L, l)
    <3> HIDE DEF m
    <3> QED
      BY <1>1, LinesAppend
  <2> HIDE DEF L, K, l, w
  <2>4. w \o K = Append(w \o L, l) /\ w \o L \in Seq(LineRecs)
    BY <1>1, <1>2, <2>2, <2>3, ConcatAppend, ConcatProperties
  <2>5. Tells(Append(w \o L, l), Append(received[h], e))
    BY <1>3, <2>2, <2>4, TellsOneMore
  <2> QED
    BY <2>1, <2>4, <2>5 DEF K, w
<1>5. CASE Merges(h, e)
  <2> DEFINE x == LastOf(h)  r == Bump(h)  l == [event |-> x, repeat |-> r[x]]  K == Lines(m, r, n)
  <2>1. n \in 1..n /\ x = m[n] /\ x \in Events /\ Text[x] = Text[e]
    BY <1>1, <1>5 DEF Merges, LastOf
  <2>2. Buffer(h, e) = m /\ Repeats(h, e) = r
    BY <1>5 DEF Buffer, Repeats
  <2>3. r \in [Events -> Nat] /\ r[x] = (IF repeat[x] = 0 THEN 2 ELSE repeat[x] + 1)
        /\ \A f \in Events \ {x} : r[f] = repeat[f]
    BY <1>1, <2>1 DEF Bump
  <2>4. \A i \in 1..n : m[i] \in Events /\ (i # n => m[i] # x)
    BY <1>1, <2>1 DEF Buffered
  <2> HIDE DEF x, r, m
  <2>5. K \in Seq(LineRecs) /\ Len(K) = n /\ \A i \in 1..n : K[i] = LineOf(m, r, i)
    BY <1>1, <2>3, LinesOf
  <2> HIDE DEF n, L, K, w
  <2>6. \A i \in 1..n : i # n => LineOf(m, r, i) = LineOf(m, repeat, i)
    BY <2>3, <2>4 DEF LineOf
  <2>7. LineOf(m, r, n) = l /\ LineOf(m, repeat, n) = [event |-> x, repeat |-> repeat[x]] /\ l \in LineRecs
    BY <2>1, <2>3 DEF LineRecs, LineOf
  <2>8. L[n] = [event |-> x, repeat |-> repeat[x]]
    BY <1>2, <2>1, <2>7
  <2>9. Times(l) = Times(L[n]) + 1 /\ l.event = L[n].event /\ Text[e] = Text[l.event]
    <3>1. repeat[x] \in Nat
      BY <1>1, <2>1
    <3> QED
      BY <2>1, <2>3, <2>8, <3>1 DEF Times
  <2> HIDE DEF l
  <2>10. K[n] = l /\ \A i \in 1..n : i # n => K[i] = L[i]
    BY <1>2, <2>1, <2>5, <2>6, <2>7
  <2>11. L # <<>>
    BY <1>1, <1>2, <2>1
  <2> DEFINE T == w \o L
  <2>12. /\ T \in Seq(LineRecs) /\ T # <<>> /\ T[Len(T)] = L[n]
         /\ w \o K = [T EXCEPT ![Len(T)] = l]
    <3>1. LastIs(L, K, l)
      BY <1>2, <2>5, <2>10, <2>11 DEF LastIs
    <3>2. w \in Seq(LineRecs) /\ L \in Seq(LineRecs) /\ K \in Seq(LineRecs) /\ l \in LineRecs /\ Len(L) = n
      BY <1>1, <1>2, <2>5, <2>7
    <3>3. /\ w \o L \in Seq(LineRecs) /\ w \o L # <<>> /\ (w \o L)[Len(w \o L)] = L[Len(L)]
          /\ w \o K = [w \o L EXCEPT ![Len(w \o L)] = l]
      BY <3>1, <3>2, ConcatLast
    <3> QED
      BY <3>2, <3>3
  <2> HIDE DEF T
  <2>13. Tells([T EXCEPT ![Len(T)] = l], Append(received[h], e))
    BY <1>3, <2>7, <2>9, <2>12, TellsOnceMore DEF T
  <2> QED
    BY <2>2, <2>12, <2>13 DEF K, m, n, w
<1> QED
  BY <1>4, <1>5

\* The lines of another console stay as they are.
LEMMA OthersTell ==
  ASSUME SendType, Buffered, OneConsole, NEW h \in Subs, NEW g \in Subs \ {h}, NEW e \in Events
  PROVE  Lines(messages[g], Repeats(h, e), Len(messages[g])) = Lines(messages[g], repeat, Len(messages[g]))
<1>1. CASE ~Merges(h, e)
  BY <1>1 DEF Repeats
<1>2. CASE Merges(h, e)
  <2> DEFINE x == LastOf(h)  r == Bump(h)  m == messages[g]  n == Len(m)
  <2>1. messages[h] \in Seq(Events) /\ messages[h] # <<>> /\ repeat \in [Events -> Nat] /\ m \in Seq(Events)
    BY <1>2 DEF SendType, Merges
  <2>2. Len(messages[h]) \in DOMAIN messages[h] /\ x = messages[h][Len(messages[h])] /\ x \in Events
    BY <2>1 DEF LastOf
  <2>3. Repeats(h, e) = r /\ r = [repeat EXCEPT ![x] = IF @ = 0 THEN 2 ELSE @ + 1]
    BY <1>2 DEF Repeats, Bump
  <2>4. PICK j \in DOMAIN received[h] : received[h][j] = x
    BY <2>2 DEF Buffered
  <2>5. ASSUME NEW i \in DOMAIN m PROVE m[i] # x
    <3>1. PICK k \in DOMAIN received[g] : received[g][k] = m[i]
      BY DEF Buffered
    <3> QED
      BY <2>4, <3>1 DEF OneConsole
  <2>6. \A f \in Events : f # x => r[f] = repeat[f]
    BY <2>1, <2>2, <2>3
  <2>7. \A i \in 1..n : m[i] \in Events /\ m[i] # x
    BY <2>1, <2>5
  <2> HIDE DEF x, r, m
  <2>8. \A i \in 1..n : r[m[i]] = repeat[m[i]]
    BY <2>6, <2>7
  <2>9. Lines(m, r, n) = Lines(m, repeat, n)
    BY <2>8 DEF Lines
  <2> QED
    BY <2>3, <2>9 DEF m
<1> QED
  BY <1>1, <1>2

\* However a call of Send ends, its lines are buffered or written, if the peer is there.
LEMMA PutLines ==
  ASSUME SendType, NEW h \in Subs, NEW buf \in Seq(Events), NEW r \in [Events -> Nat], NEW a,
         Kept(h, buf, r) \/ Flushed(h, buf, r) \/ Failed(h, buf, r, a)
  PROVE  /\ SendType' /\ repeat' = r /\ UNCHANGED <<conn, closed, once>>
         /\ messages'[h] \in {buf, <<>>}
         /\ \A g \in Subs \ {h} : messages'[g] = messages[g] /\ written'[g] = written[g]
         /\ conn[h] => Total(h)' = written[h] \o Lines(buf, r, Len(buf))
<1>1. /\ messages \in [Subs -> Seq(Events)] /\ written \in [Subs -> Seq(LineRecs)]
      /\ <<>> \in Seq(Events) /\ written[h] \in Seq(LineRecs)
  BY DEF SendType
<1>2. repeat' = r /\ UNCHANGED <<conn, closed, once>>
  BY DEF Kept, Flushed, Failed, closeVars
<1>3. CASE Kept(h, buf, r)
  <2>1. messages' = [messages EXCEPT ![h] = buf] /\ written' = written
    BY <1>3 DEF Kept
  <2> QED
    BY <1>1, <1>2, <2>1 DEF SendType, Total
<1>4. CASE Flushed(h, buf, r)
  <2> DEFINE L == Lines(buf, r, Len(buf))
  <2>1. messages' = [messages EXCEPT ![h] = <<>>] /\ written' = [written EXCEPT ![h] = @ \o L]
    BY <1>4 DEF Flushed
  <2>2. L \in Seq(LineRecs)
    BY LinesOf
  <2> HIDE DEF L
  <2>3. written[h] \o L \in Seq(LineRecs)
    BY <1>1, <2>2, ConcatProperties
  <2>4. SendType' /\ written'[h] = written[h] \o L /\ messages'[h] = <<>>
    BY <1>1, <1>2, <2>1, <2>3 DEF SendType
  <2>5. Lines(<<>>, r, Len(<<>>)) = <<>>
    BY DEF Lines
  <2>6. Total(h)' = (written[h] \o L) \o <<>>
    BY <1>2, <2>4, <2>5 DEF Total
  <2>7. Total(h)' = written[h] \o L
    BY <2>3, <2>6, ConcatEmptySeq
  <2> QED
    BY <1>1, <1>2, <2>1, <2>4, <2>7 DEF L
<1>5. CASE Failed(h, buf, r, a)
  <2>1. PICK n \in 0..Len(buf) - 1 : written' = [written EXCEPT ![h] = @ \o Lines(buf, r, n)]
    BY <1>5 DEF Failed
  <2>2. messages' = [messages EXCEPT ![h] = buf] /\ ~conn[h]
    BY <1>5 DEF Failed
  <2>3. Lines(buf, r, n) \in Seq(LineRecs)
    <3>1. n \in Nat /\ \A i \in 1..n : i \in 1..Len(buf)
      OBVIOUS
    <3>2. \A i \in 1..n : LineOf(buf, r, i) \in LineRecs
      BY <3>1 DEF LineOf, LineRecs
    <3>3. Lines(buf, r, n) = [i \in 1..n |-> LineOf(buf, r, i)]
      BY DEF Lines, LineOf
    <3> QED
      BY <3>1, <3>2, <3>3
  <2> DEFINE L == Lines(buf, r, n)
  <2> HIDE DEF L
  <2>4. written' = [written EXCEPT ![h] = @ \o L] /\ L \in Seq(LineRecs)
    BY <2>1, <2>3 DEF L
  <2>5. written[h] \o L \in Seq(LineRecs)
    BY <1>1, <2>4, ConcatProperties
  <2> QED
    BY <1>1, <1>2, <2>2, <2>4, <2>5 DEF SendType
<1> QED
  BY <1>3, <1>4, <1>5

\* Steps that send nothing: consoles may only end.
Ending ==
  /\ UNCHANGED <<received, repeat, written>>
  /\ CloseType' /\ CloseEndsIt'
  /\ \A h \in Subs : conn'[h] /\ ~closed'[h] => conn[h] /\ ~closed[h] /\ messages'[h] = messages[h]
  /\ messages' \in [Subs -> Seq(Events)] /\ \A h \in Subs : messages'[h] \in {messages[h], <<>>}

LEMMA EndingKeeps == ASSUME SendInv, Ending PROVE SendInv'
<1>1. SendType' /\ CloseType' /\ CloseEndsIt'
  BY DEF SendInv, SendType, Ending
<1>2. \A e : Got(e)' <=> Got(e)
  BY DEF Got, Ending
<1>3. Buffered'
  <2>1. \A h \in Subs : messages'[h] = messages[h] \/ DOMAIN messages'[h] = {}
    BY DEF Ending
  <2> QED
    BY <1>2, <2>1 DEF SendInv, Buffered, Ending
<1>4. NothingLost'
  <2> SUFFICES ASSUME NEW h \in Subs, conn'[h] /\ ~closed'[h] PROVE Tells(Total(h)', received'[h])
    BY DEF NothingLost, Total
  <2>1. conn[h] /\ ~closed[h] /\ messages'[h] = messages[h] /\ UNCHANGED <<received, repeat, written>>
    BY DEF Ending
  <2>2. Tells(Total(h), received[h])
    BY <2>1 DEF SendInv, NothingLost, Total
  <2>3. Total(h)' = Total(h)
    BY <2>1 DEF Total
  <2> QED
    BY <2>1, <2>2, <2>3
<1> QED
  BY <1>1, <1>3, <1>4 DEF SendInv

LEMMA NilKeeps == ASSUME SendInv, NEW h \in Subs, SendNil(h), received' = received PROVE SendInv'
<1>1. SendType /\ CloseType /\ Buffered /\ CloseEndsIt /\ messages[h] \in Seq(Events) /\ repeat \in [Events -> Nat]
  BY DEF SendInv, SendType
<1>2. Kept(h, messages[h], repeat) \/ Flushed(h, messages[h], repeat) \/ Failed(h, messages[h], repeat, "flusher")
  BY DEF SendNil
<1>3. /\ SendType' /\ repeat' = repeat /\ UNCHANGED <<conn, closed, once>>
      /\ messages'[h] \in {messages[h], <<>>}
      /\ \A g \in Subs \ {h} : messages'[g] = messages[g] /\ written'[g] = written[g]
      /\ conn[h] => Total(h)' = written[h] \o Lines(messages[h], repeat, Len(messages[h]))
  BY <1>1, <1>2, PutLines
<1>4. \A e : Got(e)' <=> Got(e)
  BY DEF Got
<1>5. Buffered'
  <2>1. \A g \in Subs : messages'[g] = messages[g] \/ DOMAIN messages'[g] = {}
    BY <1>3
  <2> QED
    BY <1>1, <1>3, <1>4, <2>1 DEF Buffered
<1>6. NothingLost'
  <2> SUFFICES ASSUME NEW g \in Subs, conn'[g] /\ ~closed'[g] PROVE Tells(Total(g)', received'[g])
    BY DEF NothingLost, Total
  <2>1. conn[g] /\ ~closed[g]
    BY <1>3
  <2>2. Tells(Total(g), received[g])
    BY <2>1 DEF SendInv, NothingLost, Total
  <2>3. Total(g)' = Total(g)
    BY <1>3, <2>1 DEF Total
  <2> QED
    BY <2>2, <2>3
<1> QED
  BY <1>1, <1>3, <1>5, <1>6 DEF SendInv, CloseType, CloseEndsIt

LEMMA EventKeeps ==
  ASSUME ListInv, EventsInv, SendInv, NEW c \in calls, SendEvent(c) PROVE SendInv'
<1>1. SendType /\ CloseType /\ Buffered /\ CloseEndsIt /\ OneConsole /\ ~Got(c.event)
  <2>1. c.at = "body"
    BY DEF SendEvent
  <2> QED
    BY <2>1 DEF SendInv, EventsInv, OneCall
<1>2. /\ c.sub \in Subs /\ c.event \in Events /\ received \in [Subs -> Seq(Events)]
      /\ received'[c.sub] = Append(received[c.sub], c.event)
      /\ \A g \in Subs \ {c.sub} : received'[g] = received[g]
  BY SendGives, GivesOne DEF ListInv, BusType
<1>3. PICK h \in Subs, e \in Events : h = c.sub /\ e = c.event
  BY <1>2
<1> DEFINE m == messages[h]  x == LastOf(h)  buf == Buffer(h, e)  r == Repeats(h, e)
<1>4. m \in Seq(Events) /\ repeat \in [Events -> Nat] /\ received[h] \in Seq(Events)
  BY <1>1, <1>2 DEF SendType
<1>5. buf \in Seq(Events) /\ (buf = m \/ buf = Append(m, e))
  BY <1>4 DEF Buffer
<1>6. /\ r \in [Events -> Nat] /\ \A f \in Events : r[f] # 0 => repeat[f] # 0 \/ Got(f)
  <2>1. CASE ~Merges(h, e)
    BY <1>4, <2>1 DEF Repeats
  <2>2. CASE Merges(h, e)
    <3>1. Len(m) \in DOMAIN m /\ x = m[Len(m)] /\ x \in Events
      BY <1>4, <2>2 DEF Merges, LastOf
    <3>2. Got(x)
      BY <1>1, <3>1 DEF Buffered, Got
    <3>3. r = [repeat EXCEPT ![x] = IF @ = 0 THEN 2 ELSE @ + 1]
      BY <2>2 DEF Repeats, Bump
    <3> HIDE DEF x, r
    <3> QED
      BY <1>4, <3>1, <3>2, <3>3
  <2> QED
    BY <2>1, <2>2
<1>7. Kept(h, buf, r) \/ Flushed(h, buf, r) \/ Failed(h, buf, r, "bus")
  BY <1>3 DEF SendEvent
<1> HIDE DEF buf, r
<1>8. /\ SendType' /\ repeat' = r /\ UNCHANGED <<conn, closed, once>>
      /\ messages'[h] \in {buf, <<>>}
      /\ \A g \in Subs \ {h} : messages'[g] = messages[g] /\ written'[g] = written[g]
      /\ conn[h] => Total(h)' = written[h] \o Lines(buf, r, Len(buf))
  BY <1>1, <1>5, <1>6, <1>7, PutLines
<1>9. /\ \A g \in Subs : \A i \in DOMAIN received[g] : i \in DOMAIN received'[g] /\ received'[g][i] = received[g][i]
      /\ \E i \in DOMAIN received'[h] : received'[h][i] = e
  <2>1. /\ \A i \in DOMAIN received[h] : i \in DOMAIN received'[h] /\ received'[h][i] = received[h][i]
        /\ Len(received[h]) + 1 \in DOMAIN received'[h] /\ received'[h][Len(received[h]) + 1] = e
    <3>1. \A s \in Seq(Events) :
            /\ \A i \in DOMAIN s : i \in DOMAIN Append(s, e) /\ Append(s, e)[i] = s[i]
            /\ Len(s) + 1 \in DOMAIN Append(s, e) /\ Append(s, e)[Len(s) + 1] = e
      OBVIOUS
    <3> QED
      BY <1>2, <1>3, <1>4, <3>1
  <2> QED
    BY <1>2, <1>3, <2>1
<1>10. Buffered'
  <2>1. \A f \in Events : repeat'[f] # 0 => Got(f)'
    <3>1. \A f \in Events : Got(f) => Got(f)'
      BY <1>9 DEF Got
    <3> QED
      BY <1>1, <1>6, <1>8, <3>1 DEF Buffered
  <2>2. ASSUME NEW g \in Subs
        PROVE  /\ \A i \in DOMAIN messages'[g] : \E j \in DOMAIN received'[g] : received'[g][j] = messages'[g][i]
               /\ \A i, j \in DOMAIN messages'[g] : messages'[g][i] = messages'[g][j] => i = j
    <3>1. CASE messages'[g] = messages[g]
      BY <1>1, <1>9, <3>1 DEF Buffered
    <3>2. CASE g = h /\ messages'[g] = Append(m, e)
      <4>1. \A i \in DOMAIN m : m[i] # e
        BY <1>1, <1>2, <1>3 DEF Buffered, Got
      <4>2. /\ DOMAIN messages'[h] = DOMAIN m \cup {Len(m) + 1} /\ messages'[h][Len(m) + 1] = e
            /\ \A i \in DOMAIN m : messages'[h][i] = m[i]
        BY <1>4, <3>2
      <4> QED
        BY <1>1, <1>9, <3>2, <4>1, <4>2 DEF Buffered
    <3>3. CASE messages'[g] = <<>>
      BY <3>3
    <3> QED
      BY <1>5, <1>8, <3>1, <3>2, <3>3
  <2> QED
    BY <2>1, <2>2 DEF Buffered
<1>11. NothingLost'
  <2> SUFFICES ASSUME NEW g \in Subs, conn'[g] /\ ~closed'[g] PROVE Tells(Total(g)', received'[g])
    BY DEF NothingLost, Total
  <2>1. conn[g] /\ ~closed[g]
    BY <1>8
  <2>2. Tells(Total(g), received[g])
    BY <2>1 DEF SendInv, NothingLost, Total
  <2>3. CASE g = h
    <3>1. Tells(written[h] \o Lines(buf, r, Len(buf)), Append(received[h], e))
      BY <1>1, <1>3, <1>4, <2>2, <2>3, SendTells DEF buf, r
    <3> QED
      BY <1>2, <1>3, <1>8, <2>1, <2>3, <3>1
  <2>4. CASE g # h
    <3>1. Lines(messages[g], r, Len(messages[g])) = Lines(messages[g], repeat, Len(messages[g]))
      BY <1>1, <2>4, OthersTell DEF r
    <3>2. Total(g)' = Total(g)
      BY <1>8, <2>4, <3>1 DEF Total
    <3> QED
      BY <1>2, <1>3, <2>2, <2>4, <3>2
  <2> QED
    BY <2>3, <2>4
<1> QED
  BY <1>1, <1>8, <1>10, <1>11 DEF SendInv, CloseType, CloseEndsIt
-----------------------------------------------------------------------------
(* NothingLost is an invariant *)

LEMMA CloseEnding ==
  ASSUME SendInv, NEW h \in Subs, NEW a \in Actors,
         CloseFirst(h, a) \/ CloseUnsubscribe(h, a) \/ CloseAgain(h, a)
  PROVE  Ending
<1>1. /\ conn \in [Subs -> BOOLEAN] /\ closed \in [Subs -> BOOLEAN]
      /\ once \in [Subs -> {"new", "running", "done"}] /\ CloseEndsIt
      /\ messages \in [Subs -> Seq(Events)] /\ <<>> \in Seq(Events)
  BY DEF SendInv, SendType, CloseType
<1>2. ASSUME AfterClose(h, a)
      PROVE  /\ messages' \in [Subs -> Seq(Events)] /\ messages'[h] \in {messages[h], <<>>}
             /\ \A g \in Subs \ {h} : messages'[g] = messages[g]
             /\ UNCHANGED <<repeat, written>>
  BY <1>1, <1>2 DEF AfterClose
<1>3. CASE CloseFirst(h, a)
  <2>1. /\ closed' = [closed EXCEPT ![h] = TRUE] /\ once' = [once EXCEPT ![h] = "running"]
        /\ UNCHANGED <<received, sendVars, conn>>
    BY <1>3 DEF CloseFirst, busVars
  <2>2. UNCHANGED <<repeat, messages, written>>
    BY <2>1 DEF sendVars
  <2> QED
    BY <1>1, <2>1, <2>2 DEF Ending, CloseType, CloseEndsIt
<1>4. CASE CloseUnsubscribe(h, a)
  <2>1. /\ conn' = [conn EXCEPT ![h] = FALSE] /\ once' = [once EXCEPT ![h] = "done"]
        /\ AfterClose(h, a) /\ UNCHANGED <<received, closed>>
    BY <1>4 DEF CloseUnsubscribe
  <2>2. CloseType' /\ CloseEndsIt'
    BY <1>1, <2>1 DEF CloseType, CloseEndsIt
  <2>3. ~conn'[h] /\ \A g \in Subs \ {h} : conn'[g] = conn[g]
    BY <1>1, <2>1
  <2> QED
    BY <1>2, <2>1, <2>2, <2>3 DEF Ending
<1>5. CASE CloseAgain(h, a)
  <2>1. once[h] = "done" /\ AfterClose(h, a) /\ UNCHANGED <<received, closeVars>>
    BY <1>5 DEF CloseAgain
  <2>2. UNCHANGED <<conn, closed, once>>
    BY <2>1 DEF closeVars
  <2>3. ~conn[h] /\ CloseType' /\ CloseEndsIt'
    BY <1>1, <2>1, <2>2 DEF CloseType, CloseEndsIt
  <2> QED
    BY <1>2, <2>1, <2>2, <2>3 DEF Ending
<1> QED
  BY <1>3, <1>4, <1>5

LEMMA SendStep ==
  ASSUME OwnTopics, ListInv, EventsInv, SendInv, [ConsNext]_allVars PROVE SendInv'
<1>1. /\ conn \in [Subs -> BOOLEAN] /\ closed \in [Subs -> BOOLEAN]
      /\ messages \in [Subs -> Seq(Events)] /\ CloseType /\ CloseEndsIt
  BY DEF SendInv, SendType, CloseType
<1>2. ASSUME UNCHANGED <<received, sendVars, closeVars>> PROVE SendInv'
  <2>1. UNCHANGED <<received, repeat, messages, written, conn, closed, once>>
    BY <1>2 DEF sendVars, closeVars
  <2>2. Ending
    BY <1>1, <2>1 DEF Ending, CloseType, CloseEndsIt
  <2> QED
    BY <2>2, EndingKeeps
<1>3. CASE UNCHANGED allVars
  BY <1>2, <1>3 DEF allVars, busVars, consVars
<1>4. ASSUME NEW p \in Publishers, PubStep(p) \/ \E t \in Topics : PubBegin(p, t), UNCHANGED consVars
      PROVE  SendInv'
  <2>1. received' = received
    BY <1>4, PubOne DEF PubMoves
  <2> QED
    BY <1>2, <1>4, <2>1 DEF consVars
<1>5. ASSUME NEW c \in calls, Return(c), UNCHANGED consVars PROVE SendInv'
  BY <1>2, <1>5 DEF Return, consVars
<1>6. ASSUME NEW h \in Subs, Open(h) PROVE SendInv'
  BY <1>2, <1>6 DEF Open, Subscribe
<1>7. ASSUME NEW h \in Subs, Tick(h) \/ ReadError(h) PROVE SendInv'
  BY <1>2, <1>7 DEF Tick, ReadError, busVars
<1>8. ASSUME NEW h \in Subs, Disconnect(h) PROVE SendInv'
  <2>1. /\ conn' = [conn EXCEPT ![h] = FALSE] /\ UNCHANGED <<received, sendVars, closed, once>>
    BY <1>8 DEF Disconnect, busVars
  <2>2. UNCHANGED <<received, repeat, messages, written, closed, once>>
    BY <2>1 DEF sendVars
  <2>3. Ending
    BY <1>1, <2>1, <2>2 DEF Ending, CloseType, CloseEndsIt
  <2> QED
    BY <2>3, EndingKeeps
<1>9. ASSUME NEW h \in Subs, SendNil(h) PROVE SendInv'
  <2>1. received' = received
    BY <1>9 DEF SendNil, busVars
  <2> QED
    BY <1>9, <2>1, NilKeeps
<1>10. ASSUME NEW h \in Subs, NEW a \in Actors, CloseFirst(h, a) \/ CloseUnsubscribe(h, a) \/ CloseAgain(h, a)
       PROVE  SendInv'
  BY <1>10, CloseEnding, EndingKeeps
<1>11. ASSUME NEW c \in calls, SendEvent(c) PROVE SendInv'
  BY <1>11, EventKeeps
<1> QED
  BY <1>3, <1>4, <1>5, <1>6, <1>7, <1>8, <1>9, <1>10, <1>11 DEF ConsNext, ConsStep

LEMMA ConsStart == ASSUME ConsInit PROVE ConsInv
<1>1. /\ handlers = [t \in Topics |-> <<>>] /\ fresh = Subs /\ pub = [p \in Publishers |-> Idle]
      /\ calls = {} /\ received = [h \in Subs |-> <<>>]
  BY DEF ConsInit, BusInit
<1>2. /\ repeat = [e \in Events |-> 0] /\ messages = [h \in Subs |-> <<>>]
      /\ written = [h \in Subs |-> <<>>] /\ conn = [h \in Subs |-> TRUE]
      /\ closed = [h \in Subs |-> FALSE] /\ once = [h \in Subs |-> "new"]
  BY DEF ConsInit
<1>3. Idle \in PubRecs /\ Idle.at = "idle" /\ Idle.i = 1
  <2>1. MaxEvents \in Nat
    BY BusAssumption DEF BusAssumption
  <2> QED
    BY <2>1 DEF Idle, PubRecs, Lists
<1>4. ListInv
  BY <1>1, <1>3 DEF ListInv, BusType, OneHandler, FirstOnly, Lists
<1>5. \A e : ~Got(e)
  BY <1>1 DEF Got
<1>6. EventsInv
  BY <1>1, <1>5 DEF EventsInv, PublishedFirst, OneCall, OneConsole
<1>7. SendType /\ CloseType /\ CloseEndsIt
  BY <1>2 DEF SendType, CloseType, CloseEndsIt
<1>8. Buffered
  BY <1>2 DEF Buffered
<1>9. NothingLost
  <2> SUFFICES ASSUME NEW h \in Subs PROVE Tells(Total(h), received[h])
    BY DEF NothingLost, Total
  <2>1. Lines(<<>>, repeat, Len(<<>>)) = <<>>
    BY DEF Lines
  <2>2. Total(h) = <<>> \o <<>> /\ received[h] = <<>>
    BY <1>1, <1>2, <2>1 DEF Total
  <2>3. <<>> \o <<>> = <<>>
    OBVIOUS
  <2> QED
    BY <2>2, <2>3, TellsNothing
<1> QED
  BY <1>4, <1>6, <1>7, <1>8, <1>9 DEF ConsInv, SendInv

\* While a console is open, what Send wrote and still buffers stands for the
\* messages it was given, in their order, with Log.Repeat as often as they came.
\* Send counts Repeat in the event itself: consoles of one topic share it.
THEOREM NothingLostAlways == ASSUME OwnTopics PROVE ConsSpec => []NothingLost
<1>1. ConsInit => ConsInv
  BY ConsStart
<1>2. ConsInv /\ [ConsNext]_allVars => ConsInv'
  <2> SUFFICES ASSUME ConsInv, [ConsNext]_allVars PROVE ConsInv'
    OBVIOUS
  <2>1. ListInv /\ EventsInv /\ SendInv /\ OneCall
    BY DEF ConsInv, EventsInv
  <2> QED
    BY <2>1, ListStep, EventsStep, SendStep DEF ConsInv
<1>3. ConsInv => NothingLost
  BY DEF ConsInv, SendInv
<1> QED
  BY <1>1, <1>2, <1>3, PTL DEF ConsSpec
=============================================================================
