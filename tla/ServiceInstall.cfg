\* two services installed and uninstalled by RPC, and the shutdown
SPECIFICATION FairSpec
CONSTANTS
  Names = {n1, n2}
  Configs = {run}
  Enabled = {run}
  Bad = Bad
  Procs = {p1, p2}
  Ops = {"install", "shutdown"}
  Rpcs <- FileRequest
  FileClient = p1
  None = None
PROPERTIES ShutdownLeavesNone OperationsEnd DeathNoticed
CHECK_DEADLOCK FALSE
