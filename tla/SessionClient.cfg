SPECIFICATION Spec
CONSTANTS
  Conns = {c1, c2}
  Procs = {p, q}
  First = p
  None = None
  MaxClients = 2
  MaxRequestId = 2
  MaxCalls = 2
  CanStop = FALSE
SYMMETRY Symmetry
INVARIANTS
  AnswerIsMine
  ServedAsCaller
PROPERTIES
  RefusedOnlyWhenFull
CHECK_DEADLOCK FALSE
