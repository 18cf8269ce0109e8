----------------------------- MODULE AppendLog -----------------------------
(***************************************************************************)
(* What the append workers promise a writer that holds a reference: a row  *)
(* whose Append returned is accepted once, and the rows accepted for a     *)
(* table reach its appender once each, in the order of acceptance.         *)
(***************************************************************************)
EXTENDS Naturals, Sequences

CONSTANTS Tables, Clients

VARIABLES
  pending,  \* rows accepted and not yet handed to the appender, per table
  log,      \* rows handed to the appender, per table
  count     \* rows accepted from each client

vars == <<pending, log, count>>

Init ==
  /\ pending = [t \in Tables |-> <<>>]
  /\ log = [t \in Tables |-> <<>>]
  /\ count = [c \in Clients |-> 0]

Accept(c, t) ==
  /\ count' = [count EXCEPT ![c] = @ + 1]
  /\ pending' = [pending EXCEPT ![t] = Append(@, <<c, count[c] + 1>>)]
  /\ UNCHANGED log

Store(t) ==
  /\ pending[t] # <<>>
  /\ log' = [log EXCEPT ![t] = Append(@, Head(pending[t]))]
  /\ pending' = [pending EXCEPT ![t] = Tail(@)]
  /\ UNCHANGED count

Next == \E t \in Tables : Store(t) \/ \E c \in Clients : Accept(c, t)

Spec == Init /\ [][Next]_vars
FairSpec == Spec /\ \A t \in Tables : WF_vars(Store(t))
============================================================================
