\* services follow the config directory: edits, Read, Update, Reload
SPECIFICATION Spec
CONSTANTS
  Names = {n1}
  Configs = {off, run}
  Enabled = {run}
  Bad = Bad
  Procs = {p1, p2}
  Ops = {"edit", "reread"}
  Rpcs <- RouteRequests
  FileClient = None
  None = None
SYMMETRY Interchangeable
INVARIANTS NoOrphan RouteFreed
CHECK_DEADLOCK FALSE
