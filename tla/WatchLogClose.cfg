\* a log table, closed right after a tick
SPECIFICATION Spec
CONSTANTS
  g1 = g1
  Watches <- OnlyLog
  Log = Log
  MaxTagTime = 1
  MaxLogRows = 3
  MaxWrites = 0
  MaxFails = 0
  MaxTagTasks = 1
  MaxLogTasks = 1
INVARIANTS NoSendAfterClose
CHECK_DEADLOCK FALSE
