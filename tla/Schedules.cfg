SPECIFICATION SchedSafety
CONSTANTS
  a1 = a1
  a2 = a2
  j1 = j1
  j2 = j2
  NoOne = NoOne
  Runner = Runner
  Admins = {a1, a2}
  Jobs = {j1, j2}
  Types = {"TIMER", "NATS"}
  MaxEntry = 3
  MaxFeed = 2
  MaxRequest = 2
  MaxOutage = 1
  Removable = TRUE
INVARIANTS RunsIffRunning StoppedIsSilent SignalAnswered
\* all requests may be used up, or wait for each other as "blockable" says
CHECK_DEADLOCK FALSE
SYMMETRY Interchangeable
