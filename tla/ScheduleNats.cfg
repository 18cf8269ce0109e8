SPECIFICATION SchedSpec
CONSTANTS
  a1 = a1
  a2 = a2
  j1 = j1
  j2 = j2
  NoOne = NoOne
  Runner = Runner
  Admins = {a1}
  Jobs = {}
  Types = {"NATS"}
  MaxEntry = 1
  MaxFeed = 1
  MaxRequest = 1
  MaxOutage = 0
  Removable = FALSE
PROPERTY FailedTaskStops
\* a task that fails may be the last thing that happens
CHECK_DEADLOCK FALSE
