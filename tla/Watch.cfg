SPECIFICATION FairSpec
CONSTANTS
  g1 = g1
  Watches <- Both
  Log = Log
  MaxTagTime = 2
  MaxLogRows = 4
  MaxWrites = 2
  MaxFails = 1
  MaxTagTasks = 3
  MaxLogTasks = 2
INVARIANTS TagTasksEndFirst ReportedOnce NoGap
PROPERTIES NewerReported CloseReturns
\* after Close nothing is left to do
CHECK_DEADLOCK FALSE
