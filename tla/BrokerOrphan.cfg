SPECIFICATION MonitorFairSpec
CONSTANTS
  MaxSets = 1
  MaxPerSet = 1
  MaxValue = 1
  MaxUndoEntries = 2
  MaxGeneration = 2
  MaxWaitCount = 2
  Conns = {c1, c2}
  Pids = {1, 2, 3}
  MaxWatchers = 1
  Requests <- OrphanRequests
  FirstStore <- MCFirstStore
  FirstAlive = {{1, 2}}
  CanFork = TRUE
CHECK_DEADLOCK FALSE
PROPERTIES ExitRestores
