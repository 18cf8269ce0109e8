-------------------------- MODULE MCTaskPipeline --------------------------
(* A script of a source and two maps over a few rows: every combination of maps. *)
EXTENDS TaskPipeline

AllKinds == {"map", "take", "flat", "group"}
=============================================================================
