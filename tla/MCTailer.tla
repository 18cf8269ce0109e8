------------------------------ MODULE MCTailer ------------------------------
(* Instances of Tailer small enough for TLC.                                *)
EXTENDS Tailer
=============================================================================
