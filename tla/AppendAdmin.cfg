\* forced stops: StopAppendWorker, FlushAppendWorkers, StopAppendWorkers
SPECIFICATION FairSpec
CONSTANTS
  Tables = {t1}
  Clients = {c1}
  Workers = {w1, w2}
  QueueCap = 1
  MaxRows = 3
  Endless = {c1}
  AdminOps = {"control", "flush", "shutdown"}
  None = None
INVARIANTS OneAppenderPerTable RowsInOrder
PROPERTIES StopReturns
CHECK_DEADLOCK FALSE
