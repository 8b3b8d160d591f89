SPECIFICATION HistorySpec
CONSTANTS
  MaxSets = 1
  MaxPerSet = 2
  MaxValue = 1
  MaxUndoEntries = 2
  MaxGeneration = 1
  MaxWaitCount = 1
  Pids = {1, 2}
  Whos <- MCWho
  GetCalls <- MCGetCalls
  OpLists <- MCOpLists
  NewValues = {1, 2}
  Metas = {}
  CountDeltas = {}
  Keys = {0}
  Sizes = {2}
  MaxStep = 1
  Pairs = TRUE
INVARIANTS UndoSound UndoBalance
PROPERTIES AllOrNothing ExitSettles
