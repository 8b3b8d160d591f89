SPECIFICATION FairSpec
CONSTANTS
  MaxSets = 1
  MaxPerSet = 2
  MaxValue = 1
  MaxUndoEntries = 2
  MaxGeneration = 2
  MaxWaitCount = 2
  Conns = {c1, c2}
  Pids = {1}
  MaxWatchers = 1
  Requests <- LiveRequests
  FirstStore <- MCFirstStore
  FirstAlive = {{1}}
  CanFork = FALSE
CHECK_DEADLOCK FALSE
PROPERTIES WaitersEnd HeadProgresses
