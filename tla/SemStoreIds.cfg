SPECIFICATION HistorySpec
CONSTANTS
  MaxSets = 2
  MaxPerSet = 1
  MaxValue = 1
  MaxUndoEntries = 1
  MaxGeneration = 3
  MaxWaitCount = 1
  Pids = {1}
  Whos <- MCWhos
  GetCalls <- MCGetCalls
  OpLists = {}
  NewValues = {}
  Metas <- MCMetas
  CountDeltas <- MCCountDeltas
  Keys = {0, 1}
  Sizes = {0, 1, 2}
  MaxStep = 1
  Pairs = FALSE
INVARIANTS UniqueKeys StaleIdsRejected
