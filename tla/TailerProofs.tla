---------------------------- MODULE TailerProofs ----------------------------
(***************************************************************************)
(* For a channel with any room and a writer that rotates and truncates the *)
(* file at any time: in which order the lines of a file get to the caller, *)
(* and that none is left out of it or sent without its beginning.          *)
(***************************************************************************)
EXTENDS Tailer, TLAPS

Parts == [line : Nat, end : BOOLEAN]
SentLines == [line : Nat, whole : BOOLEAN]

\* The writer, and the files it has made.
WriterType ==
  /\ files \in [Inodes -> Seq(Parts)]
  /\ born \in Inodes /\ path \in {NoFile, born}
  /\ \A f \in Inodes : f > born => files[f] = <<>>
  /\ line \in Nat /\ half \in BOOLEAN
  /\ split \in Nat /\ truncated \in Nat /\ (half => split > 0)
  /\ born - 1 + split + truncated <= MaxTrouble
  /\ path = NoFile => born - 1 + split + truncated < MaxTrouble

\* What the goroutine has open and what it has found.
TailedType ==
  /\ lastInode \in 1..born /\ handle \in {NoFile, lastInode}
  /\ lastSize \in Nat /\ lastPos \in Nat
  /\ stat.inode \in 1..born /\ stat.size \in Nat

StepType ==
  /\ pc.at \in {"wait", "inspect", "boundary", "open", "read", "sleep", "done"}
  /\ pc.then \in {"none", "old", "new", "grown", "again"}
  /\ stop = "closed" => pc.at = "done"
  /\ pc.at = "sleep" => handle = NoFile
  /\ pc.at = "boundary" => lastPos > 0

SentType == lines \in Seq(SentLines) /\ received \in Seq(SentLines)

TailType == WriterType /\ TailedType /\ StepType /\ SentType

\* Nothing that was read goes away.
Behind == lastPos <= Size(lastInode) /\ lastSize <= Size(lastInode)

\* The file is closed when there was none at the path.
ClosedGone == handle = NoFile /\ stop # "closed" => path # lastInode

\* What is known of the poll at the later steps of checkAndRead.
Polled ==
  /\ pc.at = "inspect" =>
       /\ lastInode <= stat.inode
       /\ stat.inode = lastInode => /\ handle # NoFile /\ stat.size <= Size(lastInode)
                                    /\ lastPos <= stat.size /\ lastSize <= stat.size
  /\ pc.at = "boundary" \/ (pc.at = "read" /\ pc.then = "grown") =>
       stat.inode = lastInode /\ stat.size <= Size(lastInode)
  /\ pc.at \in {"boundary", "read"} => handle # NoFile
  /\ pc.at = "boundary" => pc.then = "grown"

\* A file is opened only when another has taken its place.
OpensNew == pc.at \in {"open", "sleep"} \/ (pc.at = "read" /\ pc.then = "old") => path # lastInode

\* A file is left when it has been read to its end, or lines are lost.
LeavesNone ==
  ~lost =>
    /\ handle = NoFile /\ stop # "closed" => lastPos = Size(lastInode)
    /\ pc.at = "open" /\ pc.then # "again" => lastPos = Size(lastInode)

\* The lines of a file follow a first number, and end at the last one given.
Numbered(f, first) == \A i \in DOMAIN files[f] : files[f][i] = [line |-> first + i, end |-> TRUE]

FirstOfPath == IF path = NoFile THEN line ELSE line - Size(path)

\* The file that is tailed begins after the line numbered first.
Place(first) ==
  /\ Numbered(lastInode, first)
  /\ path # NoFile => Numbered(path, FirstOfPath)
  /\ path # NoFile => Size(path) <= line
  /\ path = lastInode => first = FirstOfPath
  /\ path # lastInode => first + Size(lastInode) <= FirstOfPath
  /\ path # lastInode /\ ~lost => first + Size(lastInode) = FirstOfPath
  /\ \A i \in DOMAIN Sent : Sent[i].line <= first + lastPos
  /\ ~lost => Len(Sent) = first + lastPos

Plain == split = 0 /\ truncated = 0

Fixed == Behind /\ ClosedGone /\ Polled /\ OpensNew /\ LeavesNone

PlainInv == Plain => Fixed /\ \E first \in Nat : Place(first)

\* A part that has no end is followed by the rest of its line, or the file is
\* read from its start again.
WholeInv ==
  path = 1 /\ truncated = 0 =>
    /\ lastPos <= Size(1)
    /\ handle # NoFile \/ stop = "closed"
    /\ pc.at = "read" => lastPos = 0 \/ files[1][lastPos].end \/ lineBuf # <<>>

TailInv == TailType /\ PlainInv /\ WholeInv /\ SentInOrder /\ NoneLeftOut /\ SentWhole
-----------------------------------------------------------------------------
(* Types *)

LEMMA MaxTroubleNat == MaxTrouble \in Nat /\ Inodes \subseteq Nat \ {0} /\ NoFile \notin Inodes /\ 1 \in Inodes
BY TailAssumption DEF TailAssumption, Inodes, NoFile

\* What is appended to a file is at its end, and the rest of it is as it was.
LEMMA PutFacts ==
  ASSUME TailType, path # NoFile, NEW n \in Nat, NEW end \in BOOLEAN, Put(n, end)
  PROVE  /\ files' \in [Inodes -> Seq(Parts)] /\ path \in Inodes
         /\ Len(files[path]) \in Nat /\ Len(files'[path]) = Len(files[path]) + 1
         /\ DOMAIN files[path] = 1..Len(files[path]) /\ DOMAIN files'[path] = 1..Len(files[path]) + 1
         /\ \A i \in DOMAIN files[path] : files'[path][i] = files[path][i]
         /\ files'[path][Len(files[path]) + 1] = [line |-> n, end |-> end]
         /\ \A f \in Inodes : f # path => files'[f] = files[f]
<1>1. path \in Inodes /\ files \in [Inodes -> Seq(Parts)] /\ files[path] \in Seq(Parts)
  BY DEF TailType, WriterType
<1> DEFINE part == [line |-> n, end |-> end]
<1>2. part \in Parts
  BY DEF Parts
<1>3. files' = [files EXCEPT ![path] = Append(files[path], part)]
  BY DEF Put
<1> HIDE DEF part
<1>4. files'[path] = Append(files[path], part) /\ files' \in [Inodes -> Seq(Parts)]
  BY <1>1, <1>2, <1>3
<1>5. \A f \in Inodes : f # path => files'[f] = files[f]
  BY <1>1, <1>3
<1> QED
  BY <1>1, <1>2, <1>4, <1>5 DEF part

\* The files that are made are there for good.
LEMMA WriterKeepsType ==
  ASSUME TailType, Writer
  PROVE  TailType'
<1> USE MaxTroubleNat DEF tailVars, callerVars
<1>0. WriterType /\ TailedType /\ StepType /\ SentType
  BY DEF TailType
<1>1. WriterType' /\ born' \in {born, born + 1}
  <2>1. CASE WriteLine
    <3>1. path # NoFile /\ Put(line', TRUE) /\ half' = FALSE /\ UNCHANGED <<born, path, split, truncated>>
      BY <2>1, Zenon DEF WriteLine
    <3>2. line' = line \/ line' = line + 1
      BY <2>1, Zenon DEF WriteLine
    <3>3. line' \in Nat
      BY <1>0, <3>2 DEF WriterType
    <3>4. files' \in [Inodes -> Seq(Parts)] /\ \A f \in Inodes : f # path => files'[f] = files[f]
      BY <3>1, <3>3, PutFacts
    <3>5. half' \in BOOLEAN /\ ~half'
      BY <3>1
    <3>6. UNCHANGED <<born, path, split, truncated>>
      BY <3>1
    <3>7. \A f \in Inodes : f > born => files'[f] = <<>>
      BY <1>0, <3>1, <3>4 DEF WriterType
    <3> QED
      BY <1>0, <3>3, <3>4, <3>5, <3>6, <3>7 DEF WriterType
  <2>2. CASE WritePart
    <3>1. /\ path # NoFile /\ line' = line + 1 /\ Put(line', FALSE) /\ half' = TRUE /\ split' = split + 1
          /\ Trouble /\ UNCHANGED <<born, path, truncated>>
      BY <2>2, Zenon DEF WritePart
    <3>2. line' \in Nat
      BY <1>0, <3>1 DEF WriterType
    <3>3. files' \in [Inodes -> Seq(Parts)] /\ \A f \in Inodes : f # path => files'[f] = files[f]
      BY <3>1, <3>2, PutFacts
    <3> QED
      BY <1>0, <3>1, <3>2, <3>3 DEF WriterType, Trouble
  <2>3. CASE Rename
    BY <1>0, <2>3 DEF Rename, WriterType, Trouble
  <2>4. CASE Create
    <3>1. born + 1 \in Inodes
      BY <1>0, <2>4 DEF Create, WriterType, Inodes
    <3> QED
      BY <1>0, <2>4, <3>1 DEF Create, WriterType
  <2>5. CASE Truncate
    <3>1. /\ path # NoFile /\ files' = [files EXCEPT ![path] = <<>>] /\ truncated' = truncated + 1 /\ Trouble
          /\ UNCHANGED <<born, path, line, half, split>>
      BY <2>5 DEF Truncate
    <3>2. <<>> \in Seq(Parts)
      OBVIOUS
    <3>3. files' \in [Inodes -> Seq(Parts)] /\ \A f \in Inodes : f > born => files'[f] = <<>>
      BY <1>0, <3>1, <3>2 DEF WriterType
    <3> QED
      BY <1>0, <3>1, <3>3 DEF WriterType, Trouble
  <2> QED
    BY <2>1, <2>2, <2>3, <2>4, <2>5 DEF Writer
<1>2. UNCHANGED <<tailVars, stat, pc, stop, lines, received>>
  BY DEF Writer, WriteLine, WritePart, Rename, Create, Truncate
<1>3. born \in Nat /\ born' \in Nat /\ born <= born'
  BY <1>0, <1>1 DEF WriterType
<1>4. TailedType'
  BY <1>0, <1>2, <1>3 DEF TailedType
<1> QED
  BY <1>0, <1>1, <1>2, <1>4 DEF TailType, StepType, SentType

LEMMA SizeNat == ASSUME TailType, NEW f \in Inodes PROVE Size(f) \in Nat /\ DOMAIN files[f] = 1..Size(f)
BY DEF TailType, WriterType, Size

\* A file that is opened is there.
LEMMA OpenFileType ==
  ASSUME TailType, UNCHANGED writerVars, UNCHANGED stat,
         UNCHANGED tailVars \/ (path # NoFile /\ OpenFile(path)) \/ FailPoll
  PROVE  TailedType' /\ WriterType'
<1>1. path # NoFile => path = born /\ path \in Inodes /\ path \in 1..born
  BY MaxTroubleNat DEF TailType, WriterType
<1>2. path # NoFile => Size(path) \in Nat
  BY <1>1, SizeNat
<1>3. TailedType'
  BY <1>1, <1>2 DEF TailType, TailedType, OpenFile, FailPoll, writerVars, tailVars
<1> QED
  BY <1>3 DEF TailType, WriterType, writerVars

\* What the goroutine finds and opens.
LEMMA PollingType ==
  ASSUME TailType, Poll \/ EndRun \/ Inspect \/ Boundary \/ Open \/ Reopen
  PROVE  TailType'
<1> USE DEF At
<1>1. SentType' /\ UNCHANGED writerVars /\ stop' = stop
  BY DEF TailType, SentType, Poll, EndRun, Inspect, Boundary, Open, Reopen, callerVars
<1>2. WriterType'
  BY <1>1 DEF TailType, WriterType, writerVars
<1>3. TailedType /\ StepType
  BY DEF TailType
<1>4. stop # "closed" \/ pc.at = "done"
  BY <1>3 DEF StepType
<1>5. CASE Poll
  <2>1. CASE path = NoFile
    <3>1. FailPoll /\ UNCHANGED stat /\ pc.at = "wait"
      BY <1>5, <2>1 DEF Poll
    <3>2. TailedType'
      BY <1>1, <3>1, OpenFileType
    <3>3. StepType'
      BY <1>1, <1>4, <3>1 DEF StepType, FailPoll
    <3> QED
      BY <1>1, <1>2, <3>2, <3>3 DEF TailType
  <2>2. CASE path # NoFile
    <3>1. /\ stat' = [inode |-> path, size |-> Size(path), pos |-> lastPos] /\ pc.at = "wait"
          /\ pc' = [at |-> "inspect", then |-> "none"] /\ UNCHANGED tailVars
      BY <1>5, <2>2 DEF Poll
    <3>2. path \in 1..born /\ Size(path) \in Nat
      BY <2>2, SizeNat, MaxTroubleNat DEF TailType, WriterType
    <3>3. stat'.inode = path /\ stat'.size = Size(path)
      BY <3>1
    <3>4. TailedType'
      BY <1>1, <1>3, <3>1, <3>2, <3>3 DEF TailedType, tailVars, writerVars
    <3>5. StepType'
      BY <1>1, <1>4, <3>1 DEF StepType
    <3> QED
      BY <1>1, <1>2, <3>4, <3>5 DEF TailType
  <2> QED
    BY <2>1, <2>2
<1>6. CASE EndRun
  <2>1. UNCHANGED <<tailVars, stat>> /\ pc' = [at |-> "done", then |-> "none"]
    BY <1>6 DEF EndRun
  <2>2. TailedType' /\ StepType'
    BY <1>1, <1>3, <2>1 DEF TailedType, StepType, tailVars, writerVars
  <2> QED
    BY <1>1, <1>2, <2>2 DEF TailType
<1>7. CASE Inspect
  <2>1. pc.at = "inspect" /\ UNCHANGED <<stat, handle, lastInode>>
    BY <1>7 DEF Inspect, tailVars
  <2>2. lastPos' \in Nat /\ lastSize' \in Nat
    BY <1>3, <1>7 DEF Inspect, TailedType, tailVars
  <2>3. pc'.at \in {"wait", "boundary", "open", "read"} /\ pc'.then \in {"none", "old", "new", "grown"}
    BY <1>7 DEF Inspect, OnRotation
  <2>4. pc'.at = "boundary" => lastPos' > 0
    BY <1>7 DEF Inspect, OnRotation, tailVars
  <2>5. TailedType' /\ StepType'
    BY <1>1, <1>3, <1>4, <2>1, <2>2, <2>3, <2>4 DEF TailedType, StepType, writerVars
  <2> QED
    BY <1>1, <1>2, <2>5 DEF TailType
<1>8. CASE Boundary
  <2>1. UNCHANGED <<tailVars, stat>> /\ pc.at = "boundary"
        /\ pc' \in {[at |-> "read", then |-> "grown"], [at |-> "open", then |-> "again"]}
    BY <1>8 DEF Boundary
  <2>2. TailedType' /\ StepType'
    BY <1>1, <1>3, <1>4, <2>1 DEF TailedType, StepType, tailVars, writerVars
  <2> QED
    BY <1>1, <1>2, <2>2 DEF TailType
<1>9. CASE Open
  <2>1. UNCHANGED stat /\ (FailPoll \/ (path # NoFile /\ OpenFile(path)))
    BY <1>9 DEF Open
  <2>2. TailedType'
    BY <1>1, <2>1, OpenFileType
  <2>3. StepType'
    BY <1>1, <1>4, <1>9 DEF StepType, Open, FailPoll
  <2> QED
    BY <1>1, <1>2, <2>2, <2>3 DEF TailType
<1>10. CASE Reopen
  <2>1. UNCHANGED stat /\ (UNCHANGED tailVars \/ (path # NoFile /\ OpenFile(path)))
    BY <1>10 DEF Reopen
  <2>2. TailedType'
    BY <1>1, <2>1, OpenFileType
  <2>3. StepType'
    BY <1>1, <1>4, <1>10 DEF StepType, Reopen
  <2> QED
    BY <1>1, <1>2, <2>2, <2>3 DEF TailType
<1> QED
  BY <1>5, <1>6, <1>7, <1>8, <1>9, <1>10

\* A line that is sent comes after those that were sent.
LEMMA SendFacts ==
  ASSUME TailType, SendLine
  PROVE  /\ lines' \in Seq(SentLines) /\ handle \in Inodes
         /\ Sent \in Seq(SentLines) /\ Len(Sent) \in Nat
         /\ DOMAIN Sent = 1..Len(Sent) /\ DOMAIN Sent' = 1..Len(Sent) + 1 /\ Len(Sent') = Len(Sent) + 1
         /\ \A i \in DOMAIN Sent : Sent'[i] = Sent[i]
         /\ Sent'[Len(Sent) + 1].line = Part.line
         /\ Sent'[Len(Sent) + 1].whole = (lastPos = 0 \/ files[handle][lastPos].end \/ lineBuf # <<>>)
         /\ lastPos + 1 \in DOMAIN files[handle]
<1> DEFINE begun == lastPos = 0 \/ files[handle][lastPos].end \/ lineBuf # <<>>
           s == [line |-> Part.line, whole |-> begun]
<1>1. handle \in Inodes /\ lastPos \in Nat /\ lastPos < Size(handle)
  BY MaxTroubleNat DEF SendLine, Unread, TailType, TailedType, WriterType, Inodes
<1>2. files[handle] \in Seq(Parts) /\ DOMAIN files[handle] = 1..Size(handle) /\ Size(handle) \in Nat
  BY <1>1, SizeNat DEF TailType, WriterType
<1>3. lastPos + 1 \in DOMAIN files[handle] /\ Part \in Parts
  BY <1>1, <1>2 DEF Part
<1>4. begun \in BOOLEAN
  <2>1. CASE lastPos = 0
    BY <2>1
  <2>2. CASE lastPos # 0
    <3>1. lastPos \in DOMAIN files[handle]
      BY <1>1, <1>2, <2>2
    <3>2. files[handle][lastPos] \in Parts
      BY <1>2, <3>1
    <3> QED
      BY <3>2 DEF Parts
  <2> QED
    BY <2>1, <2>2
<1>5. lines' = Append(lines, s) /\ received' = received
  BY DEF SendLine, callerVars
<1> HIDE DEF begun
<1>6. s \in SentLines /\ s.line = Part.line /\ s.whole = begun
  BY <1>3, <1>4 DEF SentLines, Parts
<1> HIDE DEF s
<1>7. lines \in Seq(SentLines) /\ received \in Seq(SentLines)
  BY DEF TailType, SentType
<1>8. lines' \in Seq(SentLines)
  BY <1>5, <1>6, <1>7
<1>9. received \o Append(lines, s) = Append(received \o lines, s)
  BY <1>6, <1>7
<1>10. Sent \in Seq(SentLines) /\ Sent' = Append(Sent, s)
  BY <1>5, <1>7, <1>9 DEF Sent
<1>11. /\ DOMAIN Sent = 1..Len(Sent) /\ DOMAIN Sent' = 1..Len(Sent) + 1 /\ Len(Sent') = Len(Sent) + 1
       /\ Len(Sent) \in Nat /\ \A i \in DOMAIN Sent : Sent'[i] = Sent[i]
       /\ Sent'[Len(Sent) + 1] = s
  BY <1>6, <1>10
<1> QED
  BY <1>1, <1>3, <1>6, <1>8, <1>10, <1>11 DEF begun

\* What is received has been sent before.
LEMMA ReceiveFacts ==
  ASSUME TailType, Receive
  PROVE  Sent' = Sent /\ SentType'
<1>1. /\ lines \in Seq(SentLines) /\ received \in Seq(SentLines) /\ lines # <<>>
      /\ received' = Append(received, Head(lines)) /\ lines' = Tail(lines)
  BY DEF TailType, SentType, Receive
<1>2. Head(lines) \in SentLines /\ Tail(lines) \in Seq(SentLines)
  BY <1>1
<1>3. Append(received, Head(lines)) \o Tail(lines) = received \o lines
  BY <1>1, <1>2
<1> QED
  BY <1>1, <1>2, <1>3 DEF Sent, SentType

\* Where checkAndRead goes on when readLines returns.
LEMMA AfterReadFacts ==
  ASSUME TailType, AfterRead
  PROVE  /\ pc'.at \in {"open", "wait"} /\ pc'.then \in {"none", "new", "again"}
         /\ pc'.at = "open" => lastSize' = lastSize
         /\ pc'.at = "open" /\ pc'.then # "again" => pc.then = "old"
         /\ lastSize' \in {lastSize, lastPos}
BY DEF AfterRead, At

LEMMA ReadingType ==
  ASSUME TailType, ReadPart \/ SendLine \/ EndOfFile \/ StopReading \/ Receive \/ Stop \/ StopEnds
  PROVE  TailType'
<1>1. UNCHANGED writerVars
  BY DEF ReadPart, SendLine, EndOfFile, StopReading, Receive, Stop, StopEnds
<1>2. WriterType' /\ born' = born
  BY <1>1 DEF TailType, WriterType, writerVars
<1>3. TailedType /\ StepType /\ SentType
  BY DEF TailType
<1>4. stop # "closed" \/ pc.at = "done"
  BY <1>3 DEF StepType
<1>5. SentType'
  <2>1. CASE SendLine
    BY <1>3, <2>1, SendFacts DEF SentType, SendLine, callerVars
  <2>2. CASE Receive
    BY <2>2, ReceiveFacts
  <2>3. CASE ReadPart \/ EndOfFile \/ StopReading \/ Stop \/ StopEnds
    BY <1>3, <2>3 DEF SentType, ReadPart, EndOfFile, StopReading, Stop, StopEnds, callerVars
  <2> QED
    BY <2>1, <2>2, <2>3
<1>6. CASE ReadPart \/ SendLine
  <2>1. UNCHANGED <<handle, lastSize, lastInode, pc, stat, stop>> /\ lastPos' = lastPos + 1 /\ pc.at = "read"
    BY <1>6 DEF ReadPart, SendLine, callerVars
  <2>2. TailedType' /\ StepType'
    BY <1>2, <1>3, <2>1 DEF TailedType, StepType
  <2> QED
    BY <1>2, <1>5, <2>2 DEF TailType
<1>7. CASE EndOfFile \/ StopReading
  <2>1. UNCHANGED <<handle, lastPos, lastInode, stat, stop>> /\ AfterRead /\ pc.at = "read"
    BY <1>7 DEF EndOfFile, StopReading, callerVars
  <2>2. /\ pc'.at \in {"open", "wait"} /\ pc'.then \in {"none", "new", "again"}
        /\ lastSize' \in {lastSize, lastPos}
    BY <2>1, AfterReadFacts
  <2>3. TailedType' /\ StepType'
    BY <1>2, <1>3, <1>4, <2>1, <2>2 DEF TailedType, StepType
  <2> QED
    BY <1>2, <1>5, <2>3 DEF TailType
<1>8. CASE Receive \/ Stop \/ StopEnds
  <2>1. UNCHANGED <<lastPos, lastSize, lastInode, pc, stat>> /\ handle' \in {handle, NoFile}
        /\ (stop' = "closed" => stop = "closed" \/ pc.at = "done")
    BY <1>8 DEF Receive, Stop, StopEnds, tailVars
  <2>2. TailedType' /\ StepType'
    BY <1>2, <1>3, <1>4, <2>1 DEF TailedType, StepType
  <2> QED
    BY <1>2, <1>5, <2>2 DEF TailType
<1> QED
  BY <1>6, <1>7, <1>8

LEMMA InitTailType == Init => TailType
<1> SUFFICES ASSUME Init PROVE TailType
  OBVIOUS
<1>1. <<>> \in Seq(Parts) /\ <<>> \in Seq(SentLines)
  OBVIOUS
<1>2. WriterType
  <2>1. files \in [Inodes -> Seq(Parts)] /\ \A f \in Inodes : files[f] = <<>>
    BY <1>1 DEF Init
  <2>2. half \in BOOLEAN /\ ~half
    BY DEF Init
  <2>3. /\ born \in Inodes /\ path = born /\ path # NoFile /\ line \in Nat
        /\ split \in Nat /\ truncated \in Nat /\ born - 1 + split + truncated <= MaxTrouble
    BY MaxTroubleNat DEF Init
  <2> QED
    BY <2>1, <2>2, <2>3 DEF WriterType
<1>3. TailedType /\ StepType /\ SentType
  BY <1>1 DEF Init, TailedType, StepType, SentType
<1> QED
  BY <1>2, <1>3 DEF TailType

LEMMA StepTailType == ASSUME TailType, [Next]_vars PROVE TailType'
<1>1. CASE UNCHANGED vars
  BY <1>1 DEF vars, TailType, WriterType, TailedType, StepType, SentType
<1> QED
  BY <1>1, WriterKeepsType, PollingType, ReadingType DEF Next, Tailing
-----------------------------------------------------------------------------
(* Lines are whole *)

\* An entry of a file stays what it is, unless the file is truncated.
LEMMA FilesKeep ==
  ASSUME TailType, [Next]_vars, truncated' = truncated, NEW f \in Inodes
  PROVE  /\ Size(f) <= Size(f)' /\ Size(f) \in Nat /\ Size(f)' \in Nat
         /\ \A i \in DOMAIN files[f] : i \in DOMAIN files'[f] /\ files'[f][i] = files[f][i]
<1>1. Size(f) \in Nat /\ DOMAIN files[f] = 1..Size(f)
  BY SizeNat
<1>2. CASE files' = files
  BY <1>1, <1>2 DEF Size
<1>3. ASSUME NEW n \in Nat, NEW end \in BOOLEAN, path # NoFile, Put(n, end)
      PROVE  /\ Size(f) <= Size(f)' /\ Size(f)' \in Nat
             /\ \A i \in DOMAIN files[f] : i \in DOMAIN files'[f] /\ files'[f][i] = files[f][i]
  <2>0. /\ Len(files[path]) \in Nat /\ Len(files'[path]) = Len(files[path]) + 1
        /\ DOMAIN files[path] = 1..Len(files[path]) /\ DOMAIN files'[path] = 1..Len(files[path]) + 1
        /\ \A i \in DOMAIN files[path] : files'[path][i] = files[path][i]
        /\ \A g \in Inodes : g # path => files'[g] = files[g]
    BY <1>3, PutFacts
  <2>1. CASE f = path
    BY <1>1, <2>0, <2>1 DEF Size
  <2>2. CASE f # path
    BY <1>1, <2>0, <2>2 DEF Size
  <2> QED
    BY <2>1, <2>2
<1>4. CASE WriteLine
  <2>1. line' \in Nat /\ path # NoFile /\ Put(line', TRUE)
    BY <1>4, WriterKeepsType, Zenon DEF WriteLine, Writer, TailType, WriterType
  <2> QED
    BY <1>1, <1>3, <2>1
<1>5. CASE WritePart
  <2>1. line' \in Nat /\ path # NoFile /\ Put(line', FALSE)
    BY <1>5, WriterKeepsType, Zenon DEF WritePart, Writer, TailType, WriterType
  <2> QED
    BY <1>1, <1>3, <2>1
<1>6. ~Truncate
  BY DEF Truncate, TailType, WriterType
<1>7. CASE Rename \/ Create
  BY <1>2, <1>7 DEF Rename, Create
<1>8. CASE Poll \/ EndRun \/ Tailing \/ StopReading \/ Receive \/ Stop \/ StopEnds
  <2>1. files' = files
    BY <1>8 DEF Poll, EndRun, Tailing, StopReading, Receive, Stop, StopEnds, Inspect, Boundary,
       Open, Reopen,
             ReadPart, SendLine, EndOfFile, writerVars
  <2> QED
    BY <1>2, <2>1
<1>9. CASE UNCHANGED vars
  BY <1>2, <1>9 DEF vars
<1> QED
  BY <1>4, <1>5, <1>6, <1>7, <1>8, <1>9 DEF Next, Writer

\* Only SendLine adds to what is sent.
LEMMA SentStep == ASSUME TailType, [Next]_vars PROVE Sent' = Sent \/ SendLine
<1>1. UNCHANGED <<lines, received>> => Sent' = Sent
  BY DEF Sent
<1>2. Writer => UNCHANGED <<lines, received>>
  BY DEF Writer, WriteLine, WritePart, Rename, Create, Truncate, callerVars
<1>3. Poll \/ EndRun \/ Inspect \/ Boundary \/ Open \/ Reopen => UNCHANGED <<lines, received>>
  BY DEF Poll, EndRun, Inspect, Boundary, Open, Reopen, callerVars
<1>4. ReadPart \/ EndOfFile \/ StopReading \/ Stop \/ StopEnds => UNCHANGED <<lines, received>>
  BY DEF ReadPart, EndOfFile, StopReading, Stop, StopEnds, callerVars
<1>5. UNCHANGED vars => UNCHANGED <<lines, received>>
  BY DEF vars
<1> QED
  BY <1>1, <1>2, <1>3, <1>4, <1>5, ReceiveFacts DEF Next, Tailing

\* The first file, as long as it is at the path and has not been truncated.
LEMMA FirstFile ==
  ASSUME TailType, path = 1
  PROVE  born = 1 /\ lastInode = 1 /\ stat.inode = 1 /\ handle \in {NoFile, 1} /\ lastPos \in Nat /\ NoFile # 1
BY DEF TailType, WriterType, TailedType, NoFile

\* It has been there from the start.
LEMMA FirstAtPath ==
  ASSUME TailType, [Next]_vars, path' = 1, truncated' = 0
  PROVE  path = 1 /\ truncated = 0
<1>1. CASE Create
  BY <1>1, MaxTroubleNat DEF Create, TailType, WriterType
<1>2. CASE Truncate
  BY <1>2 DEF Truncate, TailType, WriterType
<1>3. CASE Rename
  BY <1>3 DEF Rename, NoFile
<1>4. CASE WriteLine \/ WritePart
  BY <1>4 DEF WriteLine, WritePart
<1>5. CASE Poll \/ EndRun \/ Tailing \/ StopReading \/ Receive \/ Stop \/ StopEnds
  BY <1>5 DEF Poll, EndRun, Tailing, StopReading, Receive, Stop, StopEnds, Inspect, Boundary, Open, Reopen,
           ReadPart, SendLine, EndOfFile, writerVars
<1>6. CASE UNCHANGED vars
  BY <1>6 DEF vars
<1> QED
  BY <1>1, <1>2, <1>3, <1>4, <1>5, <1>6 DEF Next, Writer

LEMMA StepWholeInv ==
  ASSUME TailType, WholeInv, [Next]_vars
  PROVE  WholeInv'
<1> SUFFICES ASSUME path' = 1, truncated' = 0 PROVE WholeInv'
  BY DEF WholeInv
<1>1. path = 1 /\ truncated = 0
  BY FirstAtPath
<1>2. born = 1 /\ lastInode = 1 /\ stat.inode = 1 /\ handle \in {NoFile, 1} /\ lastPos \in Nat /\ NoFile # 1
  BY <1>1, FirstFile
<1>3. /\ lastPos <= Size(1) /\ (handle # NoFile \/ stop = "closed")
      /\ pc.at = "read" => lastPos = 0 \/ files[1][lastPos].end \/ lineBuf # <<>>
  BY <1>1 DEF WholeInv
<1>4. 1 \in Inodes /\ Size(1) \in Nat /\ DOMAIN files[1] = 1..Size(1)
  BY MaxTroubleNat, SizeNat
<1>5. /\ Size(1) <= Size(1)' /\ Size(1)' \in Nat
      /\ \A i \in DOMAIN files[1] : files'[1][i] = files[1][i]
  BY <1>1, <1>4, FilesKeep
<1>6. stop # "closed" \/ pc.at = "done"
  BY DEF TailType, StepType
\* the position is where it was
<1>7. CASE UNCHANGED <<handle, lastPos, stop>> /\ (pc'.at = "read" => pc.at = "read" /\ lineBuf' = lineBuf)
  <2>1. lastPos' <= Size(1)'
    BY <1>2, <1>3, <1>4, <1>5, <1>7
  <2>2. pc'.at = "read" => lastPos' = 0 \/ files'[1][lastPos'].end \/ lineBuf' # <<>>
    <3>1. lastPos # 0 => lastPos \in DOMAIN files[1]
      BY <1>2, <1>3, <1>4
    <3> QED
      BY <1>3, <1>5, <1>7, <3>1
  <2> QED
    BY <1>3, <1>7, <2>1, <2>2 DEF WholeInv
\* the file is read from its start
<1>8. CASE lastPos' = 0 /\ (handle' # NoFile \/ stop' = "closed")
  BY <1>5, <1>8 DEF WholeInv
<1>9. CASE Writer
  BY <1>7, <1>9 DEF Writer, WriteLine, WritePart, Rename, Create, Truncate, tailVars, callerVars
<1>10. CASE Poll
  BY <1>1, <1>2, <1>7, <1>10 DEF Poll, At, tailVars, callerVars
<1>11. CASE EndRun \/ EndOfFile \/ StopReading
  <2>1. UNCHANGED <<handle, lastPos, stop>> /\ pc'.at # "read"
    BY <1>11, AfterReadFacts DEF EndRun, EndOfFile, StopReading, At, tailVars, callerVars
  <2> QED
    BY <1>7, <2>1
<1>12. CASE Inspect
  <2>1. handle' = handle /\ stop' = stop
    BY <1>12 DEF Inspect, tailVars, callerVars
  <2>2. CASE Shrunk
    BY <1>1, <1>2, <1>3, <1>8, <1>12, <2>1, <2>2 DEF Inspect
  <2>3. CASE ~Shrunk
    <3>1. lastPos' = lastPos
      BY <1>1, <1>2, <1>12, <2>3 DEF Inspect, tailVars
    <3>2. pc'.at = "read" => ~(lastPos > 0)
      BY <1>1, <1>2, <1>12, <2>3 DEF Inspect, At
    <3> QED
      BY <1>2, <1>3, <1>7, <1>8, <2>1, <3>1, <3>2
  <2> QED
    BY <2>2, <2>3
<1>13. CASE Boundary
  <2>1. pc.at = "boundary" /\ UNCHANGED <<handle, lastPos, stop, files>>
    BY <1>13 DEF Boundary, tailVars, callerVars, writerVars
  <2>2. handle = 1 /\ lastPos > 0
    BY <1>2, <1>3, <1>6, <2>1 DEF TailType, StepType
  <2>3. pc'.at = "read" => files[1][lastPos].end
    <3>1. HasLineBoundaryAt = {path = NoFile \/ lastPos > Size(path) \/ files[path][lastPos].end}
      BY <1>1, <2>2 DEF HasLineBoundaryAt
    <3>2. PICK ok \in HasLineBoundaryAt : IF ok THEN At("read", "grown") ELSE At("open", "again")
      BY <1>13 DEF Boundary
    <3>3. ~(path = NoFile) /\ ~(lastPos > Size(path))
      BY <1>1, <1>2, <1>3, <1>4
    <3>4. pc'.at = "read" => ok
      BY <3>2 DEF At
    <3>5. ok = (path = NoFile \/ lastPos > Size(path) \/ files[path][lastPos].end)
      BY <3>1
    <3> QED
      BY <1>1, <3>3, <3>4, <3>5
  <2> QED
    BY <1>3, <2>1, <2>2, <2>3 DEF WholeInv, Size
<1>14. CASE Open \/ Reopen
  BY <1>1, <1>2, <1>8, <1>14 DEF Open, Reopen, OpenFile
<1>15. CASE ReadPart \/ SendLine
  <2>1. /\ UNCHANGED <<handle, stop, files, pc>> /\ lastPos' = lastPos + 1 /\ Unread
        /\ Part.end \/ lineBuf' # <<>>
    BY <1>15 DEF ReadPart, SendLine, callerVars, writerVars
  <2>2. handle = 1 /\ lastPos + 1 <= Size(1)
    BY <1>2, <1>4, <2>1 DEF Unread
  <2>3. files'[1][lastPos'].end \/ lineBuf' # <<>>
    BY <2>1, <2>2 DEF Part
  <2> QED
    BY <1>2, <2>1, <2>2, <2>3 DEF WholeInv, Size
<1>16. CASE Receive \/ Stop
  <2>1. UNCHANGED <<handle, lastPos, pc, lineBuf, files>> /\ (stop = "closed" => stop' = "closed")
    BY <1>16 DEF Receive, Stop, tailVars, writerVars
  <2> QED
    BY <1>3, <2>1 DEF WholeInv, Size
<1>17. CASE StopEnds
  <2>1. UNCHANGED <<lastPos, files, pc>> /\ stop' = "closed" /\ pc.at = "done"
    BY <1>17 DEF StopEnds, writerVars
  <2> QED
    BY <1>3, <2>1 DEF WholeInv, Size
<1>18. CASE UNCHANGED vars
  BY <1>7, <1>18 DEF vars
<1> QED
  BY <1>9, <1>10, <1>11, <1>12, <1>13, <1>14, <1>15, <1>16, <1>17, <1>18 DEF Next, Tailing

LEMMA StepSentWhole ==
  ASSUME TailType, WholeInv, SentWhole, [Next]_vars
  PROVE  SentWhole'
<1> SUFFICES ASSUME path' = 1, truncated' = 0 PROVE \A i \in DOMAIN Sent' : Sent'[i].whole
  BY DEF SentWhole
<1>1. CASE SendLine
  <2>1. path = 1 /\ truncated = 0 /\ pc.at = "read"
    BY <1>1 DEF SendLine, writerVars
  <2>2. handle = 1
    BY <2>1, FirstFile DEF WholeInv, TailType, StepType
  <2>3. lastPos = 0 \/ files[handle][lastPos].end \/ lineBuf # <<>>
    BY <2>1, <2>2 DEF WholeInv
  <2>4. \A i \in DOMAIN Sent : Sent[i].whole
    BY <2>1 DEF SentWhole
  <2>5. /\ DOMAIN Sent = 1..Len(Sent) /\ DOMAIN Sent' = 1..Len(Sent) + 1 /\ Len(Sent) \in Nat
        /\ \A i \in DOMAIN Sent : Sent'[i] = Sent[i]
        /\ Sent'[Len(Sent) + 1].whole = (lastPos = 0 \/ files[handle][lastPos].end \/ lineBuf # <<>>)
    BY <1>1, SendFacts
  <2>6. \A i \in DOMAIN Sent' : i \in DOMAIN Sent \/ i = Len(Sent) + 1
    BY <2>5
  <2>7. Sent'[Len(Sent) + 1].whole
    BY <2>3, <2>5
  <2> QED
    BY <2>4, <2>5, <2>6, <2>7
<1>2. CASE ~SendLine
  <2>1. Sent' = Sent
    BY <1>2, SentStep
  <2>2. path = 1 /\ truncated = 0
    BY FirstAtPath
  <2> QED
    BY <2>1, <2>2 DEF SentWhole
<1> QED
  BY <1>1, <1>2
-----------------------------------------------------------------------------
(* Lines are in order and complete *)

LEMMA PlainParts ==
  ASSUME TailType, PlainInv, Plain
  PROVE  /\ Fixed /\ \E first \in Nat : Place(first)
         /\ lastInode \in Inodes /\ born \in Nat /\ lastInode \in 1..born /\ handle \in {NoFile, lastInode}
         /\ path \in {NoFile, born} /\ born # NoFile /\ lastInode # NoFile /\ line \in Nat
         /\ Size(lastInode) \in Nat /\ DOMAIN files[lastInode] = 1..Size(lastInode)
         /\ path # NoFile => path \in Inodes /\ Size(path) \in Nat /\ FirstOfPath \in Int
         /\ path = NoFile => FirstOfPath = line
         /\ lastPos \in Nat /\ lastSize \in Nat /\ stat.inode \in 1..born /\ stat.size \in Nat
         /\ (stop = "closed" => pc.at = "done") /\ (pc.at = "sleep" => handle = NoFile)
<1>1. Fixed /\ \E first \in Nat : Place(first)
  BY DEF PlainInv, Fixed
<1>2. /\ lastInode \in Inodes /\ born \in Nat /\ lastInode \in 1..born /\ handle \in {NoFile, lastInode}
      /\ path \in {NoFile, born} /\ born # NoFile /\ lastInode # NoFile /\ line \in Nat
      /\ (path # NoFile => path \in Inodes)
      /\ lastPos \in Nat /\ lastSize \in Nat /\ stat.inode \in 1..born /\ stat.size \in Nat
      /\ (stop = "closed" => pc.at = "done") /\ (pc.at = "sleep" => handle = NoFile)
  <2>1. WriterType /\ TailedType /\ StepType
    BY DEF TailType
  <2>2. born \in 1..MaxTrouble + 1 /\ MaxTrouble \in Nat
    BY <2>1, MaxTroubleNat DEF WriterType, Inodes
  <2>3. lastInode \in 1..born
    BY <2>1 DEF TailedType
  <2>4. lastInode \in Inodes /\ lastInode # NoFile /\ born # NoFile /\ born \in Nat
    BY <2>2, <2>3 DEF Inodes, NoFile
  <2>5. path \in {NoFile, born} /\ line \in Nat /\ (path # NoFile => path \in Inodes)
    BY <2>1 DEF WriterType
  <2>6. (stop = "closed" => pc.at = "done") /\ (pc.at = "sleep" => handle = NoFile)
    BY <2>1 DEF StepType
  <2>7. handle \in {NoFile, lastInode} /\ lastPos \in Nat /\ lastSize \in Nat /\ stat.inode \in 1..born /\ stat.size \in Nat
    BY <2>1 DEF TailedType
  <2> QED
    BY <2>3, <2>4, <2>5, <2>6, <2>7
<1>3. Size(lastInode) \in Nat /\ DOMAIN files[lastInode] = 1..Size(lastInode)
  BY <1>2, SizeNat
<1>4. path # NoFile => Size(path) \in Nat
  BY <1>2, SizeNat
<1> QED
  BY <1>1, <1>2, <1>3, <1>4 DEF FirstOfPath

\* The line after the last one that was read.
LEMMA NextLine ==
  ASSUME TailType, PlainInv, Plain, NEW first \in Nat, Place(first), handle # NoFile, Unread
  PROVE  Part = [line |-> first + (lastPos + 1), end |-> TRUE] /\ handle = lastInode /\ lastPos + 1 <= Size(lastInode)
<1>1. handle = lastInode /\ lastPos + 1 \in 1..Size(lastInode)
  BY PlainParts DEF Unread
<1>2. lastPos + 1 \in DOMAIN files[lastInode]
  BY <1>1, PlainParts
<1> QED
  BY <1>1, <1>2 DEF Place, Numbered, Part

\* A step that reads nothing, opens nothing and writes nothing.
LEMMA PlaceKept ==
  ASSUME NEW first, Place(first), UNCHANGED <<files, path, line, lastInode, lastPos>>, Sent' = Sent,
         ~lost' => ~lost
  PROVE  Place(first)'
BY DEF Place, Numbered, FirstOfPath, Size

LEMMA KeepsFixed ==
  ASSUME Fixed, UNCHANGED <<files, path, lastInode, lastPos, lastSize, handle, stop, pc, stat>>, ~lost' => ~lost
  PROVE  Fixed'
BY DEF Fixed, Behind, ClosedGone, Polled, OpensNew, LeavesNone, Size

\* The writer goes on in the file at the path, or in a new one.
LEMMA WritePlain ==
  ASSUME TailType, PlainInv, Plain, Plain', Writer
  PROVE  PlainInv'
<1> USE DEF tailVars, callerVars
<1>1. PICK first \in Nat : Place(first)
  BY PlainParts
<1>2. Fixed
  BY PlainParts
<1>3. UNCHANGED <<handle, lastSize, lastPos, lastInode, pc, stat, stop>> /\ Sent' = Sent
  BY DEF Writer, WriteLine, WritePart, Rename, Create, Truncate, Sent
<1>4. ~WritePart /\ ~Truncate
  BY DEF Plain, WritePart, Truncate, TailType, WriterType
<1>5. CASE WriteLine
  <2>1. ~half
    BY DEF Plain, TailType, WriterType
  <2>2. path # NoFile /\ Put(line', TRUE) /\ line' = line + 1 /\ UNCHANGED <<path, born, lost>>
    BY <1>5, <2>1, Zenon DEF WriteLine
  <2>3. line' \in Nat /\ path \in Inodes
    BY <2>2, PlainParts
  <2>4. /\ Size(path) \in Nat /\ Size(path)' = Size(path) + 1
        /\ DOMAIN files[path] = 1..Size(path) /\ DOMAIN files'[path] = 1..Size(path) + 1
        /\ \A i \in DOMAIN files[path] : files'[path][i] = files[path][i]
        /\ files'[path][Size(path) + 1] = [line |-> line', end |-> TRUE]
        /\ \A f \in Inodes : f # path => files'[f] = files[f]
    <3>1. /\ Len(files[path]) \in Nat /\ Len(files'[path]) = Len(files[path]) + 1
          /\ DOMAIN files[path] = 1..Len(files[path]) /\ DOMAIN files'[path] = 1..Len(files[path]) + 1
          /\ \A i \in DOMAIN files[path] : files'[path][i] = files[path][i]
          /\ files'[path][Len(files[path]) + 1] = [line |-> line', end |-> TRUE]
          /\ \A f \in Inodes : f # path => files'[f] = files[f]
      BY <2>2, <2>3, PutFacts
    <3> QED
      BY <2>2, <3>1 DEF Size
  <2>5. FirstOfPath' = FirstOfPath /\ FirstOfPath = line - Size(path)
    BY <2>2, <2>4, PlainParts DEF FirstOfPath
  <2>6. Numbered(path, FirstOfPath)'
    <3>1. \A i \in DOMAIN files[path] : files[path][i] = [line |-> FirstOfPath + i, end |-> TRUE]
      BY <1>1, <2>2 DEF Place, Numbered
    <3>2. line' = FirstOfPath + (Size(path) + 1)
      BY <2>2, <2>4, <2>5, PlainParts
    <3>3. \A i \in DOMAIN files'[path] : i \in DOMAIN files[path] \/ i = Size(path) + 1
      BY <2>4
    <3>4. \A i \in DOMAIN files'[path] : files'[path][i] = [line |-> FirstOfPath + i, end |-> TRUE]
      BY <2>4, <3>1, <3>2, <3>3
    <3> QED
      BY <2>2, <2>5, <3>4 DEF Numbered
  <2>7. path # lastInode => files'[lastInode] = files[lastInode]
    BY <2>4, PlainParts
  <2>8. Size(lastInode) <= Size(lastInode)' /\ Size(lastInode)' \in Nat
    BY <1>3, <2>2, <2>4, <2>7, PlainParts DEF Size
  <2>9. Place(first)'
    <3>1. Size(path)' <= line'
      BY <1>1, <2>2, <2>4, PlainParts DEF Place
    <3>2. CASE path = lastInode
      BY <1>1, <1>3, <2>2, <2>5, <2>6, <3>1, <3>2 DEF Place
    <3>3. CASE path # lastInode
      <4>1. Numbered(lastInode, first)' /\ Size(lastInode)' = Size(lastInode)
        BY <1>1, <1>3, <2>7, <3>3 DEF Place, Numbered, Size
      <4> QED
        BY <1>1, <1>3, <2>2, <2>5, <2>6, <3>1, <3>3, <4>1 DEF Place
    <3> QED
      BY <3>2, <3>3
  <2>10. Fixed'
    <3>1. Behind' /\ Polled'
      BY <1>2, <1>3, <2>8, PlainParts DEF Fixed, Behind, Polled
    <3>2. ClosedGone' /\ OpensNew'
      BY <1>2, <1>3, <2>2 DEF Fixed, ClosedGone, OpensNew
    <3>3. LeavesNone'
      <4>1. handle = NoFile /\ stop # "closed" => path # lastInode
        BY <1>2 DEF Fixed, ClosedGone
      <4>2. pc.at = "open" => path # lastInode
        BY <1>2 DEF Fixed, OpensNew
      <4>3. path # lastInode => Size(lastInode)' = Size(lastInode)
        BY <1>3, <2>7 DEF Size
      <4> QED
        BY <1>2, <1>3, <2>2, <4>1, <4>2, <4>3 DEF Fixed, LeavesNone
    <3> QED
      BY <3>1, <3>2, <3>3 DEF Fixed
  <2> QED
    BY <1>1, <2>9, <2>10 DEF PlainInv, Fixed
<1>6. CASE Rename
  <2>1. /\ path # NoFile /\ path' = NoFile /\ UNCHANGED <<files, line>>
        /\ lost' = (lost \/ (handle # path /\ files[path] # <<>>))
    BY <1>6 DEF Rename
  <2>2. FirstOfPath' = line /\ FirstOfPath = line - Size(path) /\ Size(path) \in Nat /\ path' # lastInode
    BY <2>1, PlainParts DEF FirstOfPath
  <2>3. Size(lastInode)' = Size(lastInode)
    BY <1>3, <2>1 DEF Size
  <2>4. first + Size(lastInode) <= line
    BY <1>1, <2>1, <2>2, PlainParts DEF Place
  <2>5. ~lost' => first + Size(lastInode) = line
    <3>1. CASE path = lastInode
      BY <1>1, <2>1, <2>2, <3>1, PlainParts DEF Place
    <3>2. CASE path # lastInode /\ ~lost'
      <4>1. files[path] = <<>> /\ ~lost
        BY <2>1, <3>2, PlainParts
      <4>2. Size(path) = 0
        BY <4>1 DEF Size
      <4> QED
        BY <1>1, <2>2, <3>2, <4>1, <4>2, PlainParts DEF Place
    <3> QED
      BY <3>1, <3>2
  <2>6. Place(first)'
    <3>1. Numbered(lastInode, first)'
      BY <1>1, <1>3, <2>1 DEF Place, Numbered
    <3> QED
      BY <1>1, <1>3, <2>1, <2>2, <2>3, <2>4, <2>5, <3>1 DEF Place
  <2>7. Fixed'
    BY <1>2, <1>3, <2>1, <2>2, <2>3 DEF Fixed, Behind, ClosedGone, Polled, OpensNew, LeavesNone
  <2> QED
    BY <1>1, <2>6, <2>7 DEF PlainInv, Fixed
<1>7. CASE Create
  <2>1. path = NoFile /\ path' = born + 1 /\ UNCHANGED <<files, line, lost>> /\ born' = born + 1
    BY <1>7 DEF Create
  <2>2. path' \in Inodes /\ path' # NoFile /\ path' # lastInode
    <3>1. path' \in {NoFile, born'} /\ born' \in Inodes
      BY WriterKeepsType DEF TailType, WriterType
    <3>2. path' # NoFile /\ path' # lastInode
      BY <2>1, PlainParts DEF NoFile
    <3> QED
      BY <3>1, <3>2
  <2>3. files'[path'] = <<>>
    BY <2>1, <2>2, PlainParts DEF TailType, WriterType
  <2>4. Size(path)' = 0 /\ DOMAIN files'[path'] = {}
    BY <2>3 DEF Size
  <2>5. FirstOfPath' = line /\ FirstOfPath = line
    BY <2>1, <2>2, <2>4, PlainParts DEF FirstOfPath
  <2>6. Size(lastInode)' = Size(lastInode)
    BY <1>3, <2>1 DEF Size
  <2>7. Place(first)'
    <3>1. Numbered(lastInode, first)' /\ Numbered(path, FirstOfPath)'
      BY <1>1, <1>3, <2>1, <2>4 DEF Place, Numbered
    <3>2. path # lastInode
      BY <2>1, PlainParts
    <3> QED
      BY <1>1, <1>3, <2>1, <2>2, <2>4, <2>5, <2>6, <3>1, <3>2, PlainParts DEF Place
  <2>8. Fixed'
    BY <1>2, <1>3, <2>1, <2>2, <2>6 DEF Fixed, Behind, ClosedGone, Polled, OpensNew, LeavesNone
  <2> QED
    BY <1>1, <2>7, <2>8 DEF PlainInv, Fixed
<1> QED
  BY <1>4, <1>5, <1>6, <1>7 DEF Writer

\* Another file is opened when the one before has been read to its end.
LEMMA OpenedPlain ==
  ASSUME TailType, PlainInv, Plain, Plain', UNCHANGED writerVars, UNCHANGED <<stat, stop>>, Sent' = Sent,
         path # NoFile, path # lastInode, OpenFile(path), stop # "closed",
         pc'.at \in {"read", "wait"}, pc'.then \in {"none", "new"},
         ~lost' => ~lost /\ lastPos = Size(lastInode)
  PROVE  PlainInv'
<1>1. PICK first \in Nat : Place(first)
  BY PlainParts
<1>2. /\ UNCHANGED <<files, path, line>>
      /\ handle' = path /\ lastInode' = path /\ lastPos' = 0 /\ lastSize' = Size(path)
  BY DEF OpenFile, writerVars
<1>3. PICK next \in Nat : next = FirstOfPath /\ FirstOfPath' = next /\ Size(path)' = Size(path) /\ Size(path) \in Nat
  <2>1. FirstOfPath \in Nat /\ Size(path) \in Nat
    BY <1>1, PlainParts DEF Place, FirstOfPath
  <2>2. FirstOfPath' = FirstOfPath /\ Size(path)' = Size(path)
    BY <1>2 DEF FirstOfPath, Size
  <2> QED
    BY <2>1, <2>2
<1>4. first + lastPos <= next /\ (~lost' => first + lastPos = next)
  BY <1>1, <1>3, PlainParts DEF Place, Fixed, Behind
<1>5. \A i \in DOMAIN Sent : Sent[i].line <= next
  <2>1. ASSUME NEW i \in DOMAIN Sent PROVE Sent[i].line <= next
    <3>1. Sent[i].line <= first + lastPos
      BY <1>1 DEF Place
    <3>2. Sent \in Seq(SentLines)
      BY DEF Sent, TailType, SentType
    <3>3. Sent[i].line \in Nat
      <4>1. Sent[i] \in SentLines
        BY <3>2
      <4> QED
        BY <4>1 DEF SentLines
    <3> QED
      BY <1>3, <1>4, <3>1, <3>3, PlainParts
  <2> QED
    BY <2>1
<1>6. ~lost' => Len(Sent) = next
  BY <1>1, <1>4 DEF Place
<1>7. Numbered(path, next)'
  BY <1>1, <1>2, <1>3 DEF Place, Numbered
<1>8. Place(next)'
  <2>1. Sent' = Sent /\ next + 0 = next
    BY <1>3
  <2>2. Numbered(lastInode, next)'
    BY <1>2, <1>7 DEF Numbered
  <2>3. (path' # NoFile => Numbered(path, FirstOfPath)')
    BY <1>3, <1>7 DEF Numbered
  <2>4. Size(path)' <= line'
    BY <1>1, <1>2, <1>3 DEF Place
  <2>5. (\A i \in DOMAIN Sent : Sent[i].line <= next + lastPos)'
    BY <1>2, <1>5, <2>1
  <2>6. (~lost => Len(Sent) = next + lastPos)'
    BY <1>2, <1>6, <2>1
  <2> QED
    BY <1>2, <1>3, <2>2, <2>3, <2>4, <2>5, <2>6 DEF Place
<1>9. Fixed'
  <2>1. Behind' /\ ClosedGone' /\ OpensNew' /\ LeavesNone'
    BY <1>2, <1>3, PlainParts DEF Behind, ClosedGone, OpensNew, LeavesNone
  <2>2. Polled'
    BY <1>2 DEF Polled
  <2> QED
    BY <2>1, <2>2 DEF Fixed
<1> QED
  BY <1>3, <1>8, <1>9 DEF PlainInv, Fixed

\* No file at the path: what had been opened is closed, and its rest lost.
LEMMA FailedPlain ==
  ASSUME TailType, PlainInv, Plain, path = NoFile, FailPoll, UNCHANGED writerVars, stop' = stop, Sent' = Sent,
         stop # "closed"
  PROVE  PlainInv'
<1>1. PICK first \in Nat : Place(first)
  BY PlainParts
<1>2. Fixed
  BY PlainParts
<1>3. /\ UNCHANGED <<files, path, line, lastSize, lastPos, lastInode>> /\ handle' = NoFile
      /\ lost' = (lost \/ Unread) /\ pc' = [at |-> "sleep", then |-> "none"]
  BY DEF FailPoll, At, writerVars
<1>4. pc'.at = "sleep" /\ Size(lastInode)' = Size(lastInode)
  BY <1>3 DEF Size
<1>5. Place(first)'
  BY <1>1, <1>3, PlaceKept
<1>6. ~lost' => lastPos = Size(lastInode)
  <2>1. CASE handle = NoFile /\ ~lost'
    BY <1>2, <1>3, <2>1 DEF Fixed, LeavesNone
  <2>2. CASE handle = lastInode /\ ~lost'
    <3>1. ~(lastPos < Size(lastInode))
      BY <1>3, <2>2, PlainParts DEF Unread
    <3> QED
      BY <1>2, <3>1, PlainParts DEF Fixed, Behind
  <2> QED
    BY <2>1, <2>2, PlainParts
<1>7. path' # lastInode'
  BY <1>3, PlainParts
<1>8. Fixed'
  BY <1>2, <1>3, <1>4, <1>6, <1>7 DEF Fixed, Behind, ClosedGone, Polled, OpensNew, LeavesNone
<1> QED
  BY <1>5, <1>8 DEF PlainInv, Fixed

LEMMA PollPlain ==
  ASSUME TailType, PlainInv, Plain, Poll \/ EndRun
  PROVE  PlainInv'
<1> USE DEF tailVars, callerVars
<1>1. PICK first \in Nat : Place(first)
  BY PlainParts
<1>2. Fixed
  BY PlainParts
<1>3. UNCHANGED writerVars /\ stop' = stop /\ Sent' = Sent /\ pc.at = "wait" /\ stop # "closed"
  BY PlainParts DEF Poll, EndRun, Sent
<1>4. UNCHANGED <<files, path, line>>
  BY <1>3 DEF writerVars
<1>5. CASE Poll /\ path = NoFile
  <2>1. FailPoll
    BY <1>5 DEF Poll
  <2> QED
    BY <1>3, <1>5, <2>1, FailedPlain
<1>6. CASE Poll /\ path # NoFile
  <2>1. /\ stat' = [inode |-> path, size |-> Size(path), pos |-> lastPos]
        /\ pc' = [at |-> "inspect", then |-> "none"]
        /\ UNCHANGED <<handle, lastSize, lastPos, lastInode, lost>>
    BY <1>6 DEF Poll, At
  <2>2. Place(first)'
    BY <1>1, <1>3, <1>4, <2>1, PlaceKept
  <2>3. stat'.inode = path /\ stat'.size = Size(path) /\ pc'.at = "inspect" /\ Size(lastInode)' = Size(lastInode)
    BY <1>4, <2>1 DEF Size
  <2>4. lastInode <= path
    BY <1>6, PlainParts
  <2>5. path = lastInode => handle # NoFile
    BY <1>2, <1>3 DEF Fixed, ClosedGone
  <2>6. Polled'
    BY <1>2, <2>1, <2>3, <2>4, <2>5, PlainParts DEF Fixed, Behind, Polled
  <2>7. Behind' /\ ClosedGone' /\ OpensNew' /\ LeavesNone'
    BY <1>2, <1>3, <1>4, <2>1, <2>3 DEF Fixed, Behind, ClosedGone, OpensNew, LeavesNone
  <2> QED
    BY <1>1, <2>2, <2>6, <2>7 DEF PlainInv, Fixed
<1>7. CASE EndRun
  <2>1. pc'.at = "done" /\ UNCHANGED <<stat, handle, lastSize, lastPos, lastInode, lost>>
    BY <1>7 DEF EndRun, At
  <2>2. Place(first)'
    BY <1>1, <1>3, <1>4, <2>1, PlaceKept
  <2>3. Fixed'
    BY <1>2, <1>3, <1>4, <2>1 DEF Fixed, Behind, ClosedGone, Polled, OpensNew, LeavesNone, Size
  <2> QED
    BY <1>1, <2>2, <2>3 DEF PlainInv, Fixed
<1> QED
  BY <1>5, <1>6, <1>7

\* No file is taken for a truncated one.
LEMMA InspectPlain ==
  ASSUME TailType, PlainInv, Plain, Inspect
  PROVE  PlainInv'
<1> DEFINE rotated == path \notin {NoFile, lastInode} \/ stat.inode # lastInode
<1> USE DEF tailVars, callerVars
<1>1. PICK first \in Nat : Place(first)
  BY PlainParts
<1>2. Fixed
  BY PlainParts
<1>3. UNCHANGED writerVars /\ UNCHANGED <<stat, stop, lost>> /\ Sent' = Sent /\ pc.at = "inspect" /\ stop # "closed"
  BY PlainParts DEF Inspect, Sent
<1>4. UNCHANGED <<files, path, line>> /\ Size(lastInode)' = Size(lastInode)' /\ lastInode' = lastInode /\ handle' = handle
  BY <1>3 DEF writerVars, Inspect
<1>5. Size(lastInode)' = Size(lastInode)
  BY <1>4 DEF Size
<1>6. ~rotated => ~Shrunk /\ handle # NoFile /\ stat.size <= Size(lastInode)
  BY <1>2, <1>3, PlainParts DEF Fixed, Polled, Shrunk
<1>7. lastPos' = lastPos /\ lastSize' = lastSize
  <2>1. CASE rotated
    BY <2>1 DEF Inspect
  <2>2. CASE ~rotated
    BY <1>6, <2>2 DEF Inspect
  <2> QED
    BY <2>1, <2>2
<1>8. Place(first)'
  BY <1>1, <1>3, <1>4, <1>7, PlaceKept
<1>9. Behind' /\ ClosedGone'
  BY <1>2, <1>3, <1>4, <1>5, <1>7 DEF Fixed, Behind, ClosedGone
<1>10. CASE rotated
  <2>1. OnRotation
    BY <1>10 DEF Inspect
  <2>2. /\ handle # NoFile => pc'.at = "read" /\ pc'.then = "old"
        /\ handle = NoFile => pc'.at = "open" /\ pc'.then = "new"
    BY <2>1 DEF OnRotation, At
  <2>3. path # lastInode
    <3>1. lastInode <= stat.inode /\ stat.inode <= born
      BY <1>2, <1>3, PlainParts DEF Fixed, Polled
    <3> QED
      BY <1>10, <3>1, PlainParts
  <2>4. Polled' /\ OpensNew'
    BY <1>4, <2>2, <2>3 DEF Polled, OpensNew
  <2>5. LeavesNone'
    BY <1>2, <1>3, <1>4, <1>5, <1>7, <2>2 DEF Fixed, LeavesNone
  <2> QED
    BY <1>1, <1>8, <1>9, <2>4, <2>5 DEF PlainInv, Fixed
<1>11. CASE ~rotated
  <2>1. /\ pc'.at \in {"wait", "boundary", "read"}
        /\ pc'.at \in {"boundary", "read"} => pc'.then = "grown"
    BY <1>6, <1>11 DEF Inspect, At
  <2>2. Polled' /\ OpensNew'
    BY <1>3, <1>4, <1>5, <1>6, <1>11, <2>1 DEF Polled, OpensNew
  <2>3. LeavesNone'
    BY <1>4, <1>6, <1>11, <2>1 DEF LeavesNone
  <2> QED
    BY <1>1, <1>8, <1>9, <2>2, <2>3 DEF PlainInv, Fixed
<1> QED
  BY <1>10, <1>11

\* The byte before the position is the end of a line, unless another file has
\* come to the path.
LEMMA BoundaryPlain ==
  ASSUME TailType, PlainInv, Plain, Boundary
  PROVE  PlainInv'
<1> USE DEF tailVars, callerVars
<1>1. PICK first \in Nat : Place(first)
  BY PlainParts
<1>2. Fixed
  BY PlainParts
<1>3. /\ UNCHANGED <<files, path, line, handle, lastSize, lastPos, lastInode, stat, stop, lost>>
      /\ Sent' = Sent /\ pc.at = "boundary"
  BY DEF Boundary, writerVars, Sent
<1>4. Place(first)'
  BY <1>1, <1>3, PlaceKept
<1>5. PICK ok \in HasLineBoundaryAt : IF ok THEN At("read", "grown") ELSE At("open", "again")
  BY DEF Boundary
<1>6. handle = lastInode /\ handle # NoFile /\ lastPos > 0 /\ lastPos <= Size(lastInode)
  BY <1>2, <1>3, PlainParts DEF Fixed, Polled, Behind, TailType, StepType
<1>7. ok \/ path # lastInode
  <2>1. CASE path = NoFile
    BY <1>6, <2>1
  <2>2. CASE path = lastInode
    <3>1. lastPos \in DOMAIN files[lastInode]
      BY <1>6, PlainParts
    <3>2. files[path][lastPos].end
      <4>1. files[lastInode][lastPos] = [line |-> first + lastPos, end |-> TRUE]
        BY <1>1, <3>1 DEF Place, Numbered
      <4> QED
        BY <2>2, <4>1
    <3>3. HasLineBoundaryAt = {path = NoFile \/ lastPos > Size(path) \/ files[path][lastPos].end}
      BY <1>6, <2>2 DEF HasLineBoundaryAt
    <3>4. ok = (path = NoFile \/ lastPos > Size(path) \/ files[path][lastPos].end)
      BY <1>5, <3>3
    <3> QED
      BY <3>2, <3>4
  <2> QED
    BY <2>1, <2>2
<1>8. \/ pc'.at = "read" /\ pc'.then = "grown"
      \/ pc'.at = "open" /\ pc'.then = "again" /\ path # lastInode
  BY <1>5, <1>7 DEF At
<1>9. Fixed'
  <2>1. Behind' /\ ClosedGone'
    BY <1>2, <1>3 DEF Fixed, Behind, ClosedGone, Size
  <2>2. Polled' /\ OpensNew'
    BY <1>2, <1>3, <1>6, <1>8 DEF Fixed, Polled, OpensNew, Size
  <2>3. LeavesNone'
    BY <1>3, <1>6, <1>8 DEF LeavesNone
  <2> QED
    BY <2>1, <2>2, <2>3 DEF Fixed
<1> QED
  BY <1>4, <1>9 DEF PlainInv, Fixed

LEMMA OpenPlain ==
  ASSUME TailType, PlainInv, Plain, Open \/ Reopen
  PROVE  PlainInv'
<1> USE DEF callerVars
<1>1. PICK first \in Nat : Place(first)
  BY PlainParts
<1>2. Fixed
  BY PlainParts
<1>3. UNCHANGED writerVars /\ UNCHANGED <<stat, stop>> /\ Sent' = Sent /\ stop # "closed" /\ pc.at \in {"open", "sleep"}
  BY PlainParts DEF Open, Reopen, Sent
<1>4. path # lastInode
  BY <1>2, <1>3 DEF Fixed, OpensNew
<1>5. UNCHANGED <<files, path, line>> /\ Plain'
  BY <1>3 DEF writerVars, Plain
<1>6. CASE Open /\ path = NoFile
  <2>1. FailPoll
    BY <1>6 DEF Open
  <2> QED
    BY <1>3, <1>6, <2>1, FailedPlain
<1>7. CASE Open /\ path # NoFile
  <2>1. /\ OpenFile(path) /\ pc'.at = "read" /\ pc'.then = "new" /\ pc.at = "open"
        /\ lost' = (lost \/ (pc.then = "again" /\ path # handle /\ Unread))
    BY <1>7 DEF Open, At
  <2>2. ASSUME ~lost' PROVE ~lost /\ lastPos = Size(lastInode)
    <3>1. ~lost
      BY <2>1, <2>2
    <3>2. CASE pc.then # "again"
      BY <1>2, <2>1, <3>1, <3>2 DEF Fixed, LeavesNone
    <3>3. CASE handle = NoFile
      BY <1>2, <1>3, <3>1, <3>3 DEF Fixed, LeavesNone
    <3>4. CASE pc.then = "again" /\ handle = lastInode
      <4>1. ~(lastPos < Size(lastInode))
        BY <1>4, <2>1, <2>2, <3>4, PlainParts DEF Unread
      <4> QED
        BY <1>2, <3>1, <4>1, PlainParts DEF Fixed, Behind
    <3> QED
      BY <3>2, <3>3, <3>4, PlainParts
  <2> QED
    BY <1>3, <1>4, <1>5, <1>7, <2>1, <2>2, OpenedPlain
<1>8. CASE Reopen /\ path # NoFile
  <2>1. OpenFile(path) /\ pc'.at = "wait" /\ pc'.then = "none" /\ pc.at = "sleep" /\ lost' = lost
    BY <1>8 DEF Reopen, At
  <2>2. ~lost' => ~lost /\ lastPos = Size(lastInode)
    BY <1>2, <1>3, <2>1, PlainParts DEF Fixed, LeavesNone
  <2> QED
    BY <1>3, <1>4, <1>5, <1>8, <2>1, <2>2, OpenedPlain
<1>9. CASE Reopen /\ path = NoFile
  <2>1. pc'.at = "wait" /\ UNCHANGED <<handle, lastSize, lastPos, lastInode, lost>>
    BY <1>9 DEF Reopen, At, tailVars
  <2>2. Place(first)'
    BY <1>1, <1>3, <1>5, <2>1, PlaceKept
  <2>3. Fixed'
    BY <1>2, <1>3, <1>5, <2>1 DEF Fixed, Behind, ClosedGone, Polled, OpensNew, LeavesNone, Size
  <2> QED
    BY <1>1, <2>2, <2>3 DEF PlainInv, Fixed
<1> QED
  BY <1>6, <1>7, <1>8, <1>9

\* A line is read and sent.
LEMMA ReadPlain ==
  ASSUME TailType, PlainInv, Plain, ReadPart \/ SendLine
  PROVE  PlainInv'
<1> USE DEF callerVars
<1>1. PICK first \in Nat : Place(first)
  BY PlainParts
<1>2. Fixed
  BY PlainParts
<1>3. /\ UNCHANGED <<handle, lastSize, lastInode, pc, stat, stop, lost>> /\ lastPos' = lastPos + 1
      /\ Unread /\ pc.at = "read" /\ UNCHANGED writerVars
  BY DEF ReadPart, SendLine
<1>4. UNCHANGED <<files, path, line>>
  BY <1>3 DEF writerVars
<1>5. handle # NoFile /\ stop # "closed"
  BY <1>2, <1>3, PlainParts DEF Fixed, Polled
<1>6. Part = [line |-> first + (lastPos + 1), end |-> TRUE] /\ handle = lastInode /\ lastPos + 1 <= Size(lastInode)
  BY <1>1, <1>3, <1>5, NextLine
<1>7. SendLine
  BY <1>6 DEF ReadPart
<1>8. /\ Sent \in Seq(SentLines) /\ Len(Sent) \in Nat
      /\ DOMAIN Sent = 1..Len(Sent) /\ DOMAIN Sent' = 1..Len(Sent) + 1 /\ Len(Sent') = Len(Sent) + 1
      /\ \A i \in DOMAIN Sent : Sent'[i] = Sent[i]
      /\ Sent'[Len(Sent) + 1].line = Part.line
  BY <1>7, SendFacts
<1>9. Size(lastInode)' = Size(lastInode)
  BY <1>3, <1>4 DEF Size
<1>10. Place(first)'
  <2>1. Numbered(lastInode, first)' /\ (path' # NoFile => Numbered(path, FirstOfPath)')
    BY <1>1, <1>3, <1>4 DEF Place, Numbered, FirstOfPath, Size
  <2>2. FirstOfPath' = FirstOfPath /\ Size(path)' = Size(path)
    BY <1>4 DEF FirstOfPath, Size
  <2>3. ASSUME NEW i \in DOMAIN Sent' PROVE Sent'[i].line <= first + (lastPos + 1)
    <3>1. CASE i \in DOMAIN Sent
      <4>1. Sent'[i] = Sent[i] /\ Sent[i].line <= first + lastPos
        BY <1>1, <1>8, <3>1 DEF Place
      <4>2. Sent[i] \in SentLines
        BY <1>8, <3>1
      <4>3. Sent[i].line \in Nat
        BY <4>2 DEF SentLines
      <4> QED
        BY <4>1, <4>3, PlainParts
    <3>2. CASE i = Len(Sent) + 1
      BY <1>6, <1>8, <3>2, PlainParts
    <3> QED
      BY <1>8, <2>3, <3>1, <3>2
  <2>4. (\A i \in DOMAIN Sent : Sent[i].line <= first + lastPos)'
    BY <1>3, <2>3
  <2>5. (~lost => Len(Sent) = first + lastPos)'
    <3>1. ~lost => Len(Sent) = first + lastPos
      BY <1>1 DEF Place
    <3>2. lastPos \in Nat
      BY PlainParts
    <3>3. ~lost => Len(Sent) + 1 = first + (lastPos + 1)
      BY <3>1, <3>2
    <3> QED
      BY <1>3, <1>8, <3>3
  <2> QED
    BY <1>1, <1>3, <1>4, <1>9, <2>1, <2>2, <2>4, <2>5 DEF Place
<1>11. Fixed'
  <2>1. Behind' /\ ClosedGone'
    BY <1>2, <1>3, <1>4, <1>6, <1>9, PlainParts DEF Fixed, Behind, ClosedGone
  <2>2. Polled' /\ OpensNew'
    BY <1>2, <1>3, <1>4, <1>9 DEF Fixed, Polled, OpensNew
  <2>3. LeavesNone'
    BY <1>3, <1>5 DEF LeavesNone
  <2> QED
    BY <2>1, <2>2, <2>3 DEF Fixed
<1> QED
  BY <1>10, <1>11 DEF PlainInv, Fixed

\* A file is read to its end, unless Stop comes first: its handle is never stale.
LEMMA EndPlain ==
  ASSUME TailType, PlainInv, Plain, EndOfFile \/ StopReading
  PROVE  PlainInv'
<1> USE DEF callerVars
<1>1. PICK first \in Nat : Place(first)
  BY PlainParts
<1>2. Fixed
  BY PlainParts
<1>3. /\ UNCHANGED <<handle, lastPos, lastInode, stat, stop>> /\ Sent' = Sent /\ pc.at = "read"
      /\ AfterRead /\ UNCHANGED writerVars
  BY DEF EndOfFile, StopReading, Sent
<1>4. UNCHANGED <<files, path, line>> /\ Size(lastInode)' = Size(lastInode)
  BY <1>3 DEF writerVars, Size
<1>5. handle = lastInode /\ handle # NoFile
  BY <1>2, <1>3, PlainParts DEF Fixed, Polled
<1>6. ~lost' => ~lost /\ lastPos = Size(lastInode)
  <2>1. StopReading => lost'
    BY DEF StopReading
  <2>2. EndOfFile => lost' = lost /\ ~(lastPos < Size(lastInode))
    BY <1>5 DEF EndOfFile, Unread
  <2> QED
    BY <1>2, <2>1, <2>2, PlainParts DEF Fixed, Behind
<1>7. pc.then = "grown" => ~(lastPos = stat.pos /\ stat.size > lastPos /\ Size(handle) <= lastPos)
  BY <1>2, <1>3, <1>5, PlainParts DEF Fixed, Polled
<1>8. /\ pc'.at = "open" \/ pc'.at = "wait"
      /\ pc'.at = "open" => pc.then = "old"
      /\ lastSize' \in {lastSize, lastPos}
  BY <1>3, <1>7 DEF AfterRead, At
<1>9. Place(first)'
  BY <1>1, <1>3, <1>4, <1>6, PlaceKept
<1>10. Fixed'
  <2>1. Behind' /\ ClosedGone'
    BY <1>2, <1>3, <1>4, <1>5, <1>8, PlainParts DEF Fixed, Behind, ClosedGone
  <2>2. Polled' /\ OpensNew'
    BY <1>2, <1>3, <1>4, <1>8 DEF Fixed, Polled, OpensNew
  <2>3. LeavesNone'
    BY <1>3, <1>4, <1>5, <1>6 DEF LeavesNone
  <2> QED
    BY <2>1, <2>2, <2>3 DEF Fixed
<1> QED
  BY <1>9, <1>10 DEF PlainInv, Fixed

\* The caller reads and stops.
LEMMA CallerPlain ==
  ASSUME TailType, PlainInv, Plain, Receive \/ Stop \/ StopEnds
  PROVE  PlainInv'
<1>1. PICK first \in Nat : Place(first)
  BY PlainParts
<1>2. Fixed
  BY PlainParts
<1>3. UNCHANGED <<lastSize, lastPos, lastInode, pc, stat, lost>> /\ UNCHANGED writerVars
  BY DEF Receive, Stop, StopEnds, tailVars
<1>4. UNCHANGED <<files, path, line>> /\ Size(lastInode)' = Size(lastInode)
  BY <1>3 DEF writerVars, Size
<1>5. Sent' = Sent
  <2>1. Stop \/ StopEnds => Sent' = Sent
    BY DEF Stop, StopEnds, Sent
  <2> QED
    BY <2>1, ReceiveFacts
<1>6. Place(first)'
  BY <1>1, <1>3, <1>4, <1>5, PlaceKept
<1>7. CASE handle' = handle /\ stop # "closed" /\ stop' # "closed"
  <2>1. Behind' /\ ClosedGone' /\ OpensNew' /\ LeavesNone'
    BY <1>2, <1>3, <1>4, <1>7 DEF Fixed, Behind, ClosedGone, OpensNew, LeavesNone
  <2>2. Polled'
    BY <1>2, <1>3, <1>4, <1>7 DEF Fixed, Polled
  <2> QED
    BY <1>6, <2>1, <2>2 DEF PlainInv, Fixed
<1>8. CASE stop' = "closed" /\ pc.at = "done"
  <2>1. Behind' /\ ClosedGone' /\ OpensNew' /\ LeavesNone'
    BY <1>2, <1>3, <1>4, <1>8 DEF Fixed, Behind, ClosedGone, OpensNew, LeavesNone
  <2>2. Polled'
    BY <1>3, <1>8 DEF Polled
  <2> QED
    BY <1>6, <2>1, <2>2 DEF PlainInv, Fixed
<1> QED
  BY <1>7, <1>8 DEF Receive, Stop, StopEnds, tailVars

LEMMA StepPlainInv ==
  ASSUME TailType, PlainInv, [Next]_vars
  PROVE  (Plain' => Plain) /\ PlainInv'
<1>1. Plain' => Plain
  <2>1. UNCHANGED <<split, truncated>> => (Plain' => Plain)
    BY DEF Plain
  <2>2. Writer => (Plain' => Plain)
    <3>1. WriteLine \/ Rename \/ Create => UNCHANGED <<split, truncated>>
      BY DEF WriteLine, Rename, Create
    <3>2. split \in Nat /\ truncated \in Nat
      BY DEF TailType, WriterType
    <3>3. WritePart => split' = split + 1
      BY DEF WritePart
    <3>4. Truncate => truncated' = truncated + 1
      BY DEF Truncate
    <3> QED
      BY <2>1, <3>1, <3>2, <3>3, <3>4 DEF Plain, Writer
  <2>3. Poll \/ EndRun \/ Tailing \/ StopReading \/ Receive \/ Stop \/ StopEnds => UNCHANGED <<split, truncated>>
    BY DEF Poll, EndRun, Tailing, StopReading, Receive, Stop, StopEnds, Inspect, Boundary, Open, Reopen,
           ReadPart, SendLine, EndOfFile, writerVars
  <2>4. UNCHANGED vars => UNCHANGED <<split, truncated>>
    BY DEF vars
  <2> QED
    BY <2>1, <2>2, <2>3, <2>4 DEF Next
<1>2. CASE Plain' /\ UNCHANGED vars
  <2>1. PICK first \in Nat : Place(first)
    BY <1>1, <1>2, PlainParts
  <2>2. Fixed
    BY <1>1, <1>2, PlainParts
  <2>3. UNCHANGED <<files, path, line, lastInode, lastPos, lastSize, handle, stop, pc, stat, lost>> /\ Sent' = Sent
    BY <1>2 DEF vars, Sent
  <2>4. Place(first)' /\ Fixed'
    BY <2>1, <2>2, <2>3, PlaceKept, KeepsFixed
  <2> QED
    BY <1>1, <2>4 DEF PlainInv, Fixed
<1>3. CASE Plain' /\ Next
  BY <1>1, <1>3, WritePlain, PollPlain, InspectPlain, BoundaryPlain, OpenPlain, ReadPlain,
     EndPlain, CallerPlain
  DEF Next, Tailing
<1>4. CASE ~Plain'
  BY <1>4 DEF PlainInv
<1> QED
  BY <1>1, <1>2, <1>3, <1>4

\* What is sent next comes after all that was sent, and right after the last if
\* nothing was lost.
LEMMA SendNext ==
  ASSUME TailType, PlainInv, Plain, SendLine
  PROVE  /\ DOMAIN Sent = 1..Len(Sent) /\ Len(Sent) \in Nat /\ Len(Sent') = Len(Sent) + 1
         /\ DOMAIN Sent' = 1..Len(Sent) + 1
         /\ \A i \in DOMAIN Sent : Sent'[i] = Sent[i]
         /\ \A i \in DOMAIN Sent : Sent[i].line < Sent'[Len(Sent) + 1].line
         /\ ~lost => Sent'[Len(Sent) + 1].line = Len(Sent) + 1
<1>1. PICK first \in Nat : Place(first)
  BY PlainParts
<1>2. Unread /\ handle # NoFile
  BY PlainParts DEF SendLine, Fixed, Polled
<1>3. Part = [line |-> first + (lastPos + 1), end |-> TRUE]
  BY <1>1, <1>2, NextLine
<1>4. /\ Sent \in Seq(SentLines)
      /\ DOMAIN Sent = 1..Len(Sent) /\ Len(Sent) \in Nat /\ Len(Sent') = Len(Sent) + 1
      /\ DOMAIN Sent' = 1..Len(Sent) + 1
      /\ \A i \in DOMAIN Sent : Sent'[i] = Sent[i]
      /\ Sent'[Len(Sent) + 1].line = Part.line
  BY SendFacts
<1>5. Part.line = first + (lastPos + 1)
  BY <1>3
<1>6. ASSUME NEW i \in DOMAIN Sent PROVE Sent[i].line < first + (lastPos + 1)
  <2>1. Sent[i].line <= first + lastPos
    BY <1>1 DEF Place
  <2>2. Sent[i] \in SentLines
    BY <1>4
  <2>3. Sent[i].line \in Nat
    BY <2>2 DEF SentLines
  <2> QED
    BY <2>1, <2>3, PlainParts
<1>7. ~lost => Len(Sent) + 1 = first + (lastPos + 1)
  <2>1. ~lost => Len(Sent) = first + lastPos
    BY <1>1 DEF Place
  <2>2. lastPos \in Nat
    BY PlainParts
  <2> QED
    BY <2>1, <2>2
<1> QED
  BY <1>4, <1>5, <1>6, <1>7

LEMMA StepOrder ==
  ASSUME TailType, PlainInv, SentInOrder, NoneLeftOut, [Next]_vars
  PROVE  SentInOrder' /\ NoneLeftOut'
<1>1. (Plain' => Plain) /\ (~lost' => ~lost)
  <2>1. Writer => (~lost' => ~lost)
    BY DEF Writer, WriteLine, WritePart, Rename, Create, Truncate
  <2>2. Poll \/ EndRun \/ Tailing \/ StopReading \/ Receive \/ Stop \/ StopEnds => (~lost' => ~lost)
    BY DEF Poll, EndRun, Tailing, StopReading, Receive, Stop, StopEnds, Inspect, Boundary, Open, Reopen,
           ReadPart, SendLine, EndOfFile, FailPoll
  <2>3. UNCHANGED vars => lost' = lost
    BY DEF vars
  <2> QED
    BY <2>1, <2>2, <2>3, StepPlainInv DEF Next
<1>2. CASE Sent' = Sent
  BY <1>1, <1>2 DEF SentInOrder, NoneLeftOut, Plain
<1>3. CASE SendLine /\ Plain
  <2>1. /\ DOMAIN Sent = 1..Len(Sent) /\ Len(Sent) \in Nat /\ Len(Sent') = Len(Sent) + 1
        /\ DOMAIN Sent' = 1..Len(Sent) + 1
        /\ \A i \in DOMAIN Sent : Sent'[i] = Sent[i]
        /\ \A i \in DOMAIN Sent : Sent[i].line < Sent'[Len(Sent) + 1].line
        /\ ~lost => Sent'[Len(Sent) + 1].line = Len(Sent) + 1
    BY <1>3, SendNext
  <2>2. SentInOrder'
    <3>1. ASSUME NEW i \in 1..Len(Sent) PROVE Sent'[i].line < Sent'[i + 1].line
      <4>1. CASE i = Len(Sent)
        BY <2>1, <4>1
      <4>2. CASE i # Len(Sent)
        <5>0. i \in Nat /\ i >= 1 /\ i < Len(Sent)
          <6>1. Len(Sent) \in Nat
            BY <2>1
          <6> QED
            BY <3>1, <4>2, <6>1
        <5>1. i \in 1..Len(Sent) - 1 /\ i \in DOMAIN Sent /\ i + 1 \in DOMAIN Sent
          BY <2>1, <5>0
        <5>2. Sent[i].line < Sent[i + 1].line
          BY <1>3, <5>1 DEF SentInOrder, Plain
        <5> QED
          BY <2>1, <5>1, <5>2
      <4> QED
        BY <4>1, <4>2
    <3>2. Len(Sent') - 1 = Len(Sent)
      BY <2>1
    <3> QED
      BY <3>1, <3>2 DEF SentInOrder
  <2>3. NoneLeftOut'
    <3>1. ASSUME ~lost', NEW i \in DOMAIN Sent' PROVE Sent'[i].line = i
      <4>1. i \in DOMAIN Sent \/ i = Len(Sent) + 1
        BY <2>1
      <4>2. i \in DOMAIN Sent => Sent[i].line = i
        BY <1>1, <1>3, <3>1 DEF NoneLeftOut, Plain
      <4> QED
        BY <1>1, <2>1, <3>1, <4>1, <4>2
    <3> QED
      BY <3>1 DEF NoneLeftOut
  <2> QED
    BY <2>2, <2>3
<1>4. CASE ~Plain
  BY <1>1, <1>4 DEF SentInOrder, NoneLeftOut, Plain
<1> QED
  BY <1>2, <1>3, <1>4, SentStep

LEMMA InitTailInv == Init => TailInv
<1> SUFFICES ASSUME Init PROVE TailInv
  OBVIOUS
<1>1. TailType
  BY InitTailType
<1>2. Sent = <<>> /\ DOMAIN Sent = {} /\ Len(Sent) = 0
  BY DEF Init, Sent
<1>3. Size(1) = 0 /\ files[1] = <<>> /\ DOMAIN files[1] = {}
  BY MaxTroubleNat DEF Init, Size
<1>4. Fixed
  BY <1>3 DEF Init, Fixed, Behind, ClosedGone, Polled, OpensNew, LeavesNone, NoFile
<1>5. Place(0)
  BY <1>2, <1>3 DEF Init, Place, Numbered, FirstOfPath, NoFile
<1>6. PlainInv
  BY <1>4, <1>5 DEF PlainInv, Fixed
<1>7. WholeInv
  BY <1>3 DEF Init, WholeInv, NoFile
<1>8. SentInOrder /\ NoneLeftOut /\ SentWhole
  BY <1>2 DEF SentInOrder, NoneLeftOut, SentWhole
<1> QED
  BY <1>1, <1>6, <1>7, <1>8 DEF TailInv

LEMMA StepTailInv == TailInv /\ [Next]_vars => TailInv'
BY StepTailType, StepPlainInv, StepWholeInv, StepOrder, StepSentWhole DEF TailInv

LEMMA TailInvariant == Spec => []TailInv
BY InitTailInv, StepTailInv, PTL DEF Spec, Safety
-----------------------------------------------------------------------------
(* The theorems *)

\* As long as no file was truncated and no line was written in two parts,
\* checkAndRead sends no line twice and none before an earlier one, through any
\* number of rotations and failed polls.
THEOREM SentInOrderAlways == Spec => []SentInOrder
<1>1. TailInv => SentInOrder
  BY DEF TailInv
<1> QED
  BY <1>1, TailInvariant, PTL

\* As long as no file was truncated, no line was written in two parts and no file
\* was closed with lines unread (by Stop, a failed poll or a second rotation
\* between polls), what checkAndRead sent are the first lines, none left out.
THEOREM NoneLeftOutAlways == Spec => []NoneLeftOut
<1>1. TailInv => NoneLeftOut
  BY DEF TailInv
<1> QED
  BY <1>1, TailInvariant, PTL

\* As long as the file at the path is the first one and was not truncated, readLines
\* sends no rest of a line whose beginning an earlier poll has read
\* (hasLineBoundaryAt).  Nothing is said once there was a rotation.
THEOREM SentWholeAlways == Spec => []SentWhole
<1>1. TailInv => SentWhole
  BY DEF TailInv
<1> QED
  BY <1>1, TailInvariant, PTL
=============================================================================
