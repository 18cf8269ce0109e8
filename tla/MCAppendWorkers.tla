-------------------------- MODULE MCAppendWorkers --------------------------
(* Instances of AppendWorkers small enough for TLC.                         *)
EXTENDS AppendWorkers
============================================================================
