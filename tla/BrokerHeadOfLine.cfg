SPECIFICATION FairSpec
CONSTANTS
  MaxSets = 1
  MaxPerSet = 2
  MaxValue = 1
  MaxUndoEntries = 2
  MaxGeneration = 2
  MaxWaitCount = 3
  Conns = {c1, c2, c3}
  Pids = {1}
  MaxWatchers = 1
  Requests <- HeadRequests
  FirstStore <- MCFirstStore
  FirstAlive = {{1}}
  CanFork = FALSE
CHECK_DEADLOCK FALSE
PROPERTIES AnyWaiterProgresses
