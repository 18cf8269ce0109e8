------------------------------- MODULE Tailer -------------------------------
(***************************************************************************)
(* Tail of mods/util/tailer/tail.go after Start: a goroutine polls a path, *)
(* tells rotation (another inode), truncation (it shrank) and growth apart *)
(* and sends the lines it reads; beside it a writer appends and rotates or *)
(* truncates the file, the caller reads Lines and calls Stop.  A file is a *)
(* sequence of writes, each the end of a line or a part without one.       *)
(***************************************************************************)
EXTENDS Integers, Sequences, FiniteSets, SequencesExt

CONSTANTS
  BufferSize,   \* room in Lines
  MaxLine,      \* bound: lines written
  MaxTrouble    \* bound: rotations, truncations and lines written in two parts

ASSUME TailAssumption ==
  BufferSize \in Nat \ {0} /\ MaxLine \in Nat /\ MaxTrouble \in Nat

Inodes == 1..MaxTrouble + 1
NoFile == 0

VARIABLES
  files,       \* content of every file there has been
  born,        \* files made so far
  path,        \* the file at filepath, NoFile between rename and create
  line, half,  \* the last line begun, and whether it has no end yet
  handle,      \* tail.file, NoFile when it was closed
  lastSize, lastPos, lastInode,
  pc,          \* step of the goroutine
  stat,        \* os.Stat of the poll, and lastPos before it
  lineBuf,     \* the parts of a line readLines has seen
  lines,       \* tail.c
  received,    \* what the caller has read
  stop,        \* "running", "stopping", "closed"
  split, truncated, \* history: lines in two parts, truncations
  lost, gap    \* history: lines left unread for good, a poll without a file

vars == <<files, born, path, line, half, handle, lastSize, lastPos, lastInode, pc, stat, lineBuf, lines,
          received, stop, split, truncated, lost, gap>>
writerVars == <<files, born, path, line, half, split, truncated>>
tailVars == <<handle, lastSize, lastPos, lastInode>>
callerVars == <<received, stop>>

\* Start has shown the last lines and is at the end of a file
Init ==
  /\ files = [i \in Inodes |-> <<>>]
  /\ born = 1 /\ path = 1 /\ line = 0 /\ half = FALSE
  /\ handle = 1 /\ lastInode = 1 /\ lastSize = 0 /\ lastPos = 0
  /\ pc = [at |-> "wait", then |-> "none"]
  /\ stat = [inode |-> 1, size |-> 0, pos |-> 0]
  /\ lineBuf = <<>> /\ lines = <<>> /\ received = <<>>
  /\ stop = "running"
  /\ split = 0 /\ truncated = 0 /\ lost = FALSE /\ gap = FALSE

Size(f) == Len(files[f])
Unread == handle # NoFile /\ lastPos < Size(handle)
-----------------------------------------------------------------------------
(* The writer *)

Trouble == born - 1 + split + truncated < MaxTrouble
Put(n, end) == files' = [files EXCEPT ![path] = Append(@, [line |-> n, end |-> end])]

WriteLine ==
  /\ path # NoFile
  /\ IF half THEN line' = line ELSE line < MaxLine /\ line' = line + 1
  /\ Put(line', TRUE) /\ half' = FALSE
  /\ UNCHANGED <<born, path, tailVars, pc, stat, lineBuf, lines, callerVars, split, truncated, lost, gap>>

WritePart ==
  /\ path # NoFile /\ ~half /\ line < MaxLine /\ Trouble
  /\ line' = line + 1 /\ half' = TRUE /\ split' = split + 1
  /\ Put(line', FALSE)
  /\ UNCHANGED <<born, path, tailVars, pc, stat, lineBuf, lines, callerVars, truncated, lost, gap>>

\* lumberjack renames the file, then creates another; a file nobody opened is lost
Rename ==
  /\ path # NoFile /\ ~half /\ Trouble
  /\ path' = NoFile
  /\ lost' = (lost \/ (handle # path /\ files[path] # <<>>))
  /\ UNCHANGED <<files, born, line, half, tailVars, pc, stat, lineBuf, lines, callerVars, split,
                 truncated, gap>>

Create ==
  /\ path = NoFile
  /\ born' = born + 1 /\ path' = born + 1
  /\ UNCHANGED <<files, line, half, tailVars, pc, stat, lineBuf, lines, callerVars, split, truncated, lost, gap>>

Truncate ==
  /\ path # NoFile /\ ~half /\ Trouble
  /\ files' = [files EXCEPT ![path] = <<>>] /\ truncated' = truncated + 1
  /\ UNCHANGED <<born, path, line, half, tailVars, pc, stat, lineBuf, lines, callerVars, split, lost, gap>>
-----------------------------------------------------------------------------
(* The goroutine: run and checkAndRead *)

At(at, then) == pc' = [at |-> at, then |-> then]

\* an error of checkAndRead: the file is closed whether it was read to the end or not
FailPoll ==
  /\ handle' = NoFile /\ UNCHANGED <<lastSize, lastPos, lastInode>>
  /\ lost' = (lost \/ Unread) /\ gap' = TRUE
  /\ At("sleep", "none")

OpenFile(f) == handle' = f /\ lastSize' = Size(f) /\ lastInode' = f /\ lastPos' = 0

\* a tick; select may take it although stopChan is closed
Poll ==
  /\ pc.at = "wait"
  /\ IF path = NoFile
     THEN FailPoll /\ UNCHANGED stat
     ELSE /\ stat' = [inode |-> path, size |-> Size(path), pos |-> lastPos]
          /\ At("inspect", "none")
          /\ UNCHANGED <<tailVars, lost, gap>>
  /\ UNCHANGED <<writerVars, lineBuf, lines, callerVars>>

EndRun ==
  /\ pc.at = "wait" /\ stop = "stopping"
  /\ At("done", "none")
  /\ UNCHANGED <<writerVars, tailVars, stat, lineBuf, lines, callerVars, lost, gap>>

\* mutant: the rest of the old file is not read
OnRotationAtOnce == At("open", "new")
OnRotation == At(IF handle # NoFile THEN "read" ELSE "open", IF handle # NoFile THEN "old" ELSE "new")

\* mutant: a file that has its old size counts as truncated
ShrunkOrSame == stat.size <= lastSize \/ lastPos > stat.size
Shrunk == stat.size < lastSize \/ lastPos > stat.size

\* the path is opened a second time for its file id, then the sizes are compared
Inspect ==
  LET rotated == path \notin {NoFile, lastInode} \/ stat.inode # lastInode IN
  /\ pc.at = "inspect"
  /\ CASE rotated -> OnRotation /\ UNCHANGED tailVars
       [] ~rotated /\ Shrunk ->
            /\ lastPos' = 0 /\ lastSize' = 0 /\ UNCHANGED <<handle, lastInode>>
            /\ IF stat.size > 0 THEN At("read", "new") ELSE At("wait", "none")
       [] ~rotated /\ ~Shrunk /\ stat.size > lastSize ->
            At(IF lastPos > 0 THEN "boundary" ELSE "read", "grown") /\ UNCHANGED tailVars
       [] OTHER -> At("wait", "none") /\ UNCHANGED tailVars
  /\ UNCHANGED <<writerVars, stat, lineBuf, lines, callerVars, lost, gap>>

\* mutant: the byte before the position is not looked at
AnyBoundary == {TRUE}
\* the path is opened again: in another file the byte before the position may be
\* anything; an error counts as a boundary
HasLineBoundaryAt ==
  IF path \notin {NoFile, handle} THEN BOOLEAN
  ELSE {path = NoFile \/ lastPos > Size(path) \/ files[path][lastPos].end}

Boundary ==
  /\ pc.at = "boundary"
  /\ \E ok \in HasLineBoundaryAt : IF ok THEN At("read", "grown") ELSE At("open", "again")
  /\ UNCHANGED <<writerVars, tailVars, stat, lineBuf, lines, callerVars, lost, gap>>

\* mutant: the file is opened, and read when it grows
OpenUnread ==
  /\ pc.at = "open"
  /\ IF path = NoFile THEN FailPoll ELSE OpenFile(path) /\ At("wait", "none") /\ UNCHANGED <<lost, gap>>
  /\ UNCHANGED <<writerVars, stat, lineBuf, lines, callerVars>>

\* closes the file and opens the one at the path, by now perhaps another
Open ==
  /\ pc.at = "open"
  /\ IF path = NoFile
     THEN FailPoll
     ELSE /\ OpenFile(path) /\ At("read", "new") /\ UNCHANGED gap
          /\ lost' = (lost \/ (pc.then = "again" /\ path # handle /\ Unread))
  /\ UNCHANGED <<writerVars, stat, lineBuf, lines, callerVars>>

\* after an error, once more before the next tick; lastSize is the size it has now
Reopen ==
  /\ pc.at = "sleep"
  /\ IF path = NoFile THEN UNCHANGED tailVars ELSE OpenFile(path)
  /\ At("wait", "none")
  /\ UNCHANGED <<writerVars, stat, lineBuf, lines, callerVars, lost, gap>>
-----------------------------------------------------------------------------
(* readLines, and what checkAndRead does when it returns *)

Part == files[handle][lastPos + 1]

ReadPart ==
  /\ pc.at = "read" /\ Unread /\ ~Part.end
  /\ lineBuf' = <<Part>> /\ lastPos' = lastPos + 1
  /\ UNCHANGED <<writerVars, handle, lastSize, lastInode, pc, stat, lines, callerVars, lost, gap>>

\* a line that had its beginning read by an earlier call is sent without it
SendLine ==
  /\ pc.at = "read" /\ Unread /\ Part.end
  /\ Len(lines) < BufferSize
  /\ LET begun == lastPos = 0 \/ files[handle][lastPos].end \/ lineBuf # <<>>
     IN lines' = Append(lines, [line |-> Part.line, whole |-> begun])
  /\ lineBuf' = <<>> /\ lastPos' = lastPos + 1
  /\ UNCHANGED <<writerVars, handle, lastSize, lastInode, pc, stat, callerVars, lost, gap>>

AfterRead ==
  CASE pc.then = "old" -> At("open", "new") /\ UNCHANGED lastSize
    [] pc.then = "grown" /\ lastPos = stat.pos /\ stat.size > lastPos /\ Size(handle) <= lastPos ->
         At("open", "again") /\ UNCHANGED lastSize       \* a stale handle
    [] OTHER -> At("wait", "none") /\ lastSize' = lastPos

EndOfFile ==
  /\ pc.at = "read" /\ ~Unread
  /\ lineBuf' = <<>> /\ AfterRead
  /\ UNCHANGED <<writerVars, handle, lastPos, lastInode, stat, lines, callerVars, lost, gap>>

\* mutant: readLines waits for room only
NoStopReading == FALSE /\ UNCHANGED vars
\* select takes stopChan instead of the send; the rest of the file is left
StopReading ==
  /\ pc.at = "read" /\ Unread /\ Part.end /\ stop = "stopping"
  /\ lineBuf' = <<>> /\ AfterRead
  /\ lost' = TRUE
  /\ UNCHANGED <<writerVars, handle, lastPos, lastInode, stat, lines, callerVars, gap>>
-----------------------------------------------------------------------------
(* The caller *)

Receive ==
  /\ stop = "running" /\ lines # <<>>
  /\ received' = Append(received, Head(lines)) /\ lines' = Tail(lines)
  /\ UNCHANGED <<writerVars, tailVars, pc, stat, lineBuf, stop, lost, gap>>

Stop ==
  /\ stop = "running" /\ stop' = "stopping"
  /\ UNCHANGED <<writerVars, tailVars, pc, stat, lineBuf, lines, received, lost, gap>>

\* wg.Wait, close(c), the file is closed
StopEnds ==
  /\ stop = "stopping" /\ pc.at = "done"
  /\ stop' = "closed" /\ handle' = NoFile
  /\ UNCHANGED <<writerVars, lastSize, lastPos, lastInode, pc, stat, lineBuf, lines, received, lost, gap>>
-----------------------------------------------------------------------------
Writer == WriteLine \/ WritePart \/ Rename \/ Create \/ Truncate
Tailing ==
  \/ Inspect \/ Boundary \/ Open \/ Reopen \/ ReadPart \/ SendLine \/ EndOfFile
Next == Writer \/ Poll \/ EndRun \/ Tailing \/ StopReading \/ Receive \/ Stop \/ StopEnds

Safety == Init /\ [][Next]_vars

\* the goroutine runs and its ticker ticks; select takes a ready case in the long
\* run; the caller reads until it stops the tail
Fairness ==
  /\ WF_vars(Tailing) /\ WF_vars(Poll) /\ SF_vars(EndRun) /\ SF_vars(StopReading)
  /\ WF_vars(Receive) /\ WF_vars(StopEnds)

Spec == Safety /\ Fairness
-----------------------------------------------------------------------------
Sent == received \o lines

\* As long as no file was truncated and no line written in two parts, no line is sent
\* twice and none before an earlier one, whatever rotations and errors come between
\* (checkAndRead).
SentInOrder ==
  (split = 0 /\ truncated = 0) =>
    \A i \in 1..Len(Sent) - 1 : Sent[i].line < Sent[i + 1].line

\* Under the same conditions none is left out, except when a file was closed with
\* lines unread (the poll found no file at the path, two rotations came between
\* polls) or by Stop.
NoneLeftOut ==
  (split = 0 /\ truncated = 0 /\ ~lost) => \A i \in DOMAIN Sent : Sent[i].line = i

\* A line whose beginning an earlier poll has read is not sent without it, as long as
\* the file at the path is the first one and was not truncated (hasLineBoundaryAt).
SentWhole == (path = 1 /\ truncated = 0) => \A i \in DOMAIN Sent : Sent[i].whole

\* Every line with an end reaches the caller, if polls always find the file.
Delivered ==
  \A n \in 1..MaxLine :
    (line > n \/ (line = n /\ ~half)) ~>
      \/ \E i \in DOMAIN received : received[i].line = n
      \/ lost \/ gap \/ truncated > 0 \/ stop # "running"

\* Stop returns though nobody reads the lines any more.
StopReturns == (stop = "stopping") ~> (stop = "closed")
=============================================================================
