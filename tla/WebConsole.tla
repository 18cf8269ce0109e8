----------------------------- MODULE WebConsole -----------------------------
(***************************************************************************)
(* Web consoles, mods/server/http_ws.go, on the event bus.  A console is a *)
(* serial subscription of its topic whose callback is Send.  Send merges   *)
(* repeated log messages, buffers them and writes them to the websocket;   *)
(* flushLoop sends nil now and then to flush.  A failed write closes the   *)
(* console inside Send, with connMutex held; readerLoop closes it too.     *)
(* A log event is one object, shared by all that hold a pointer to it.     *)
(***************************************************************************)
EXTENDS EventBus

CONSTANT Text   \* message of a log event; Other for an event that is no log

Other == "other"
Actors == {"bus", "flusher", "reader"}   \* who calls Send or Close

ASSUME ConsoleAssumption ==
  /\ DOMAIN Text = Events
  /\ \A h \in Subs : Mode[h] = "serial" /\ h \notin Once
  /\ Closers = {}

VARIABLES
  repeat,     \* Log.Repeat of each event
  messages,   \* cons.messages
  written,    \* lines on the wire: the event and its Repeat at that time
  connMutex,  \* held across steps by the actor whose write failed, or None
  conn,       \* the peer is there
  closed,     \* cons.closed
  once,       \* cons.closeOnce: "new", "running" or "done"
  at          \* what each actor of a console does

sendVars == <<repeat, messages, written>>
closeVars == <<conn, closed, once>>
consVars == <<sendVars, closeVars, connMutex, at>>
allVars == <<busVars, consVars>>

ConsInit ==
  /\ BusInit
  /\ repeat = [e \in Events |-> 0]
  /\ messages = [h \in Subs |-> <<>>] /\ written = [h \in Subs |-> <<>>]
  /\ connMutex = [h \in Subs |-> None]
  /\ conn = [h \in Subs |-> TRUE]
  /\ closed = [h \in Subs |-> FALSE] /\ once = [h \in Subs |-> "new"]
  /\ at = [h \in Subs |-> [a \in Actors |-> "new"]]

\* NewWebConsole subscribes, Run starts the loops
Open(h) ==
  /\ Subscribe(h)
  /\ at' = [at EXCEPT ![h] = [a \in Actors |-> "run"]]
  /\ UNCHANGED <<sendVars, closeVars, connMutex>>

\* the browser or the network goes away
Disconnect(h) ==
  /\ h \notin fresh
  /\ conn' = [conn EXCEPT ![h] = FALSE]
  /\ UNCHANGED <<busVars, sendVars, connMutex, closed, once, at>>
-----------------------------------------------------------------------------
(* Send *)

LastOf(h) == messages[h][Len(messages[h])]

\* mutant: the first repetition does not count the message itself
BumpByOne(h) == [repeat EXCEPT ![LastOf(h)] = @ + 1]

Bump(h) == [repeat EXCEPT ![LastOf(h)] = IF @ = 0 THEN 2 ELSE @ + 1]

\* the event is merged with the last log of the buffer, or appended
Merges(h, e) == Text[e] # Other /\ messages[h] # <<>> /\ Text[LastOf(h)] = Text[e]
Buffer(h, e) == IF Merges(h, e) THEN messages[h] ELSE Append(messages[h], e)
Repeats(h, e) == IF Merges(h, e) THEN Bump(h) ELSE repeat

MustFlush(e) == Text[e] = Other

Lines(buf, r, n) == [i \in 1..n |-> [event |-> buf[i], repeat |-> r[buf[i]]]]

Kept(h, buf, r) ==
  /\ messages' = [messages EXCEPT ![h] = buf]
  /\ repeat' = r
  /\ UNCHANGED <<written, closeVars, connMutex>>

Flushed(h, buf, r) ==
  /\ once[h] # "done" \/ buf = <<>>
  /\ written' = [written EXCEPT ![h] = @ \o Lines(buf, r, Len(buf))]
  /\ messages' = [messages EXCEPT ![h] = <<>>]
  /\ repeat' = r
  /\ UNCHANGED <<closeVars, connMutex>>

\* some lines are out when WriteJSON fails; Close follows, connMutex still held
Failed(h, buf, r, a) ==
  /\ ~conn[h]
  /\ \E n \in 0..Len(buf) - 1 : written' = [written EXCEPT ![h] = @ \o Lines(buf, r, n)]
  /\ messages' = [messages EXCEPT ![h] = buf]
  /\ repeat' = r
  /\ connMutex' = [connMutex EXCEPT ![h] = a]
  /\ at' = [at EXCEPT ![h][a] = "close"]
  /\ UNCHANGED closeVars

\* The callback.  For a log, either answer of time.Since(lastFlushTime) < flushPeriod.
SendEvent(c) ==
  LET h == c.sub  buf == Buffer(h, c.event)  r == Repeats(h, c.event) IN
  /\ c.at = "body" /\ connMutex[h] = None
  /\ \/ ~MustFlush(c.event) /\ Kept(h, buf, r) /\ Body(c, "return") /\ UNCHANGED at
     \/ Flushed(h, buf, r) /\ Body(c, "return") /\ UNCHANGED at
     \/ Failed(h, buf, r, "bus") /\ Body(c, "unsubscribe")

\* mutant: the loop waits for something to flush and ends when there is nothing
TickOnce(h) ==
  /\ at[h]["flusher"] = "run"
  /\ at' = [at EXCEPT ![h]["flusher"] = IF closed[h] \/ messages[h] = <<>> THEN "end" ELSE "send"]
  /\ UNCHANGED <<busVars, sendVars, closeVars, connMutex>>

Tick(h) ==
  /\ at[h]["flusher"] = "run"
  /\ at' = [at EXCEPT ![h]["flusher"] = IF closed[h] THEN "end" ELSE "send"]
  /\ UNCHANGED <<busVars, sendVars, closeVars, connMutex>>

\* Send(nil)
SendNil(h) ==
  /\ at[h]["flusher"] = "send" /\ connMutex[h] = None
  /\ \/ /\ Kept(h, messages[h], repeat) \/ Flushed(h, messages[h], repeat)
        /\ at' = [at EXCEPT ![h]["flusher"] = "run"]
     \/ Failed(h, messages[h], repeat, "flusher")
  /\ UNCHANGED busVars

\* ReadJSON fails; the close message is written under connMutex
ReadError(h) ==
  /\ at[h]["reader"] = "run" /\ ~conn[h] /\ connMutex[h] = None
  /\ at' = [at EXCEPT ![h]["reader"] = "close"]
  /\ UNCHANGED <<busVars, sendVars, closeVars, connMutex>>
-----------------------------------------------------------------------------
(* Close, and what follows it in Send and readerLoop *)

\* closeOnce.Do runs the body for the first caller ...
CloseFirst(h, a) ==
  /\ at[h][a] = "close" /\ once[h] = "new"
  /\ once' = [once EXCEPT ![h] = "running"]
  /\ closed' = [closed EXCEPT ![h] = TRUE]
  /\ at' = [at EXCEPT ![h][a] = "unsubscribe"]
  /\ UNCHANGED <<busVars, sendVars, connMutex, conn>>

\* the buffer is cleared and connMutex unlocked; the callback is done
AfterClose(h, a) ==
  /\ at' = [at EXCEPT ![h][a] = IF a = "reader" THEN "end" ELSE "run"]
  /\ IF a = "reader" THEN UNCHANGED <<messages, connMutex>>
     ELSE /\ messages' = [messages EXCEPT ![h] = <<>>]
          /\ connMutex' = [connMutex EXCEPT ![h] = None]
  /\ calls' = IF a = "bus"
              THEN {IF c.sub = h THEN [c EXCEPT !.at = "return"] ELSE c : c \in calls}
              ELSE calls
  /\ UNCHANGED <<repeat, written>>

CloseUnsubscribe(h, a) ==
  /\ at[h][a] = "unsubscribe"
  /\ RemoveFound(h)
  /\ conn' = [conn EXCEPT ![h] = FALSE]
  /\ once' = [once EXCEPT ![h] = "done"]
  /\ AfterClose(h, a)
  /\ UNCHANGED <<lock, subLock, fresh, pub, wg, received, closed>>

\* ... and the others wait for it
CloseAgain(h, a) ==
  /\ at[h][a] = "close" /\ once[h] = "done"
  /\ AfterClose(h, a)
  /\ UNCHANGED <<handlers, lock, subLock, fresh, dropped, pub, wg, received, closeVars>>
-----------------------------------------------------------------------------
ConsStep(h) ==
  \/ Tick(h) \/ SendNil(h) \/ ReadError(h)
  \/ \E a \in Actors : CloseFirst(h, a) \/ CloseUnsubscribe(h, a) \/ CloseAgain(h, a)

ConsNext ==
  \/ \E h \in Subs : Open(h) \/ Disconnect(h) \/ ConsStep(h)
  \/ \E c \in calls : SendEvent(c) \/ (Return(c) /\ UNCHANGED consVars)
  \/ \E p \in Publishers :
       (PubStep(p) \/ \E t \in Topics : PubBegin(p, t)) /\ UNCHANGED consVars

ConsSpec == ConsInit /\ [][ConsNext]_allVars

\* Every goroutine runs and every mutex is fair.  Ticks come flushPeriod apart,
\* so not every one of them finds the time since the last flush too short.
ConsFairness ==
  /\ \A p \in Publishers :
       /\ WF_allVars(PubStep(p) /\ UNCHANGED consVars)
       /\ SF_allVars((PubAcquire(p) \/ PubRelock(p)) /\ UNCHANGED consVars)
  /\ \A h \in Subs :
       /\ SF_allVars(\E c \in calls : c.sub = h /\ SendEvent(c))
       /\ WF_allVars(\E c \in calls : c.sub = h /\ Return(c) /\ UNCHANGED consVars)
       /\ WF_allVars(Tick(h))
       /\ SF_allVars(SendNil(h) /\ messages'[h] = <<>>) /\ SF_allVars(SendNil(h))
       /\ SF_allVars(ReadError(h))
       /\ \A a \in Actors :
            /\ WF_allVars(CloseFirst(h, a) \/ CloseAgain(h, a))
            /\ SF_allVars(CloseUnsubscribe(h, a))

ConsFairSpec == ConsSpec /\ ConsFairness
-----------------------------------------------------------------------------
(* Properties *)

\* The messages a line stands for
Times(line) == IF line.repeat = 0 THEN 1 ELSE line.repeat

\* The lines stand for the events in their order: the i-th line for those after
\* upTo[i - 1] up to upTo[i], all of its text.
Tells(lines, events) ==
  \E upTo \in [0..Len(lines) -> 0..Len(events)] :
    /\ upTo[0] = 0 /\ upTo[Len(lines)] = Len(events)
    /\ \A i \in 1..Len(lines) :
         /\ upTo[i] = upTo[i - 1] + Times(lines[i])
         /\ \A j \in upTo[i - 1] + 1..upTo[i] : Text[events[j]] = Text[lines[i].event]

\* What is on the wire and what Send still buffers, every line as many times as
\* its Repeat says, are the messages Send was given, in their order: merging,
\* buffering and flushing lose and invent nothing while the console is open.
NothingLost ==
  \A h \in Subs : conn[h] /\ ~closed[h] =>
    Tells(written[h] \o Lines(messages[h], repeat, Len(messages[h])), received[h])

\* A buffered log is flushed, by flushLoop when no other event comes.
BufferFlushed == \A h \in Subs : messages[h] # <<>> ~> messages[h] = <<>> \/ ~conn[h]

\* When the peer is gone the console is closed, whoever notices: its loops end
\* and it is unsubscribed, while publishers wait for its callback.
ConsoleEnds ==
  \A h \in Subs : ~conn[h] ~>
    /\ at[h]["flusher"] = "end" /\ at[h]["reader"] = "end"
    /\ h \notin {handlers[TopicOf[h]][i] : i \in DOMAIN handlers[TopicOf[h]]}
=============================================================================
