----------------------------- MODULE MCSchedules -----------------------------
(* Instances of Schedules: two management requests and two tasks of timers *)
(* at a time.                                                              *)
EXTENDS Schedules, TLC

CONSTANTS a1, a2, j1, j2

\* which of the two it is makes no difference
Interchangeable == Permutations({a1, a2}) \cup Permutations({j1, j2})
=============================================================================
