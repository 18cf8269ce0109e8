---------------------------- MODULE MCWebConsole ----------------------------
(* Instances of WebConsole small enough for TLC: every console has a topic  *)
(* of its own, and one callback for all, the method Send.                   *)
EXTENDS WebConsole, TLC

OwnTopic == [h \in Subs |-> h]
Serial == [h \in Subs |-> "serial"]
SendMethod == [h \in Subs |-> "Send"]
\* equal logs, then an event that is no log
LogThenOther == [e \in Events |-> IF e[2] = MaxEvents THEN Other ELSE "a"]
=============================================================================
