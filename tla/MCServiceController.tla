------------------------ MODULE MCServiceController ------------------------
(* Instances of ServiceController small enough for TLC.                     *)
EXTENDS ServiceController, TLC

Interchangeable == Permutations(Procs)

RouteRequests == {"proxy"} \X Procs

\* handles are kept by process: one of the two asks
CONSTANT FileClient
FileRequest == {<<"file", FileClient>>}
============================================================================
