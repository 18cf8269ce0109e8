\* the server in service: only the idle check stops workers
SPECIFICATION FairSpec
CONSTANTS
  Tables = {t1}
  Clients = {c1, c2}
  Workers = {w1, w2}
  QueueCap = 2
  MaxRows = 2
  Endless = {c1}
  AdminOps = {}
  None = None
INVARIANTS TypeOK RefCountExact HeldIsServed NoRowStranded
PROPERTIES ImplementsAppendLog IdleReaped
CHECK_DEADLOCK FALSE
