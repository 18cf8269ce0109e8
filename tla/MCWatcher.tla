------------------------------ MODULE MCWatcher ------------------------------
(* Instances of Watcher small enough for TLC.                                *)
EXTENDS Watcher, TLC

CONSTANT g1

\* a tag named twice, its tasks overlap; the channel has room
TagWatch == [isTag |-> TRUE, names |-> <<g1, g1>>, parallelism |-> 2, chanSize |-> 3, maxRowNum |-> 1]
\* a log table, more rows between ticks than are reported at once
LogWatch == [isTag |-> FALSE, names |-> <<>>, parallelism |-> 1, chanSize |-> 1, maxRowNum |-> 1]

Both == {TagWatch, LogWatch}
OnlyLog == {LogWatch}
=============================================================================
