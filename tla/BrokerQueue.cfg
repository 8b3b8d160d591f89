SPECIFICATION Spec
CONSTANTS
  MaxSets = 1
  MaxPerSet = 2
  MaxValue = 1
  MaxUndoEntries = 1
  MaxGeneration = 2
  MaxWaitCount = 3
  Conns = {c1, c2, c3}
  Pids = {1, 2, 3, 4}
  MaxWatchers = 1
  Requests <- MCRequests
  FirstStore <- MCFirstStore
  FirstAlive <- MCFirstAlive
  CanFork = TRUE
SYMMETRY Symmetry
CONSTRAINT Scenarios
CHECK_DEADLOCK FALSE
INVARIANTS QueueIsWaiters WaitCounts NoLostWakeup
PROPERTIES ServedInOrder RemovedSetServesNobody
