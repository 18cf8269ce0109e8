----------------------------- MODULE MCEventBus -----------------------------
(* Instances of EventBus small enough for TLC: one topic.   *)
EXTENDS EventBus, TLC

CONSTANTS t, h1, h2, h3

OneTopic == [h \in Subs |-> t]
Distinct == [h \in Subs |-> h]
Mixed == (h1 :> "serial") @@ (h2 :> "async") @@ (h3 :> "sync")
=============================================================================
