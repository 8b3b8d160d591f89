SPECIFICATION FairSpec
CONSTANTS
  Conns = {c1, c2}
  Procs = {p, q}
  First = p
  None = None
  MaxClients = 1
  MaxRequestId = 2
  MaxCalls = 1
  CanStop = TRUE
INVARIANTS
  WorkerOwnsConnection
PROPERTIES
  SignalStops
  ScalarCallsReturn
CHECK_DEADLOCK FALSE
