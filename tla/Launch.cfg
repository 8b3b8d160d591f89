SPECIFICATION MCSpec
CONSTANTS
  Scripts = {s1, s2}
  Pids = {d1, d2, d3}
  None = None
  OneAtATime = TRUE
  CanCrash = TRUE
  Files <- MCFiles
  Real <- MCReal
  Absolute <- MCAbsolute
  Under <- MCUnder
  Candidates <- MCCandidates
  Loaders = {"/host/ld.so"}
  Missing = {"/lib/ld-linux-aarch64.so.1"}
  Shims = {"shim"}
  Requested <- MCRequested
  Arguments <- MCArguments
  FirstEnvs <- MCFirstEnvs
  Edits <- MCEdits
  MaxLaunches = 3
  IntMax = 7
  Word = 16
  HeaderSize = 1
  EntrySize = 2
  MaxEntries = 3
  Capacity = 4
  Headers <- MCHeaders
  Segments <- MCSegments
  Sizes = {0, 1, 4, 6, 7}
  PathMax = 6
  SizeMax = 15
  Settings <- MCSettings
  Paths <- MCPaths
  Flags <- MCFlags
  Threads = {1, 2}
  MaxShimSets = 2
  MaxShimSems = 2
  Short = 3
  MaxSetval = 1
  ShimKeys = {0, 1}
  ShimValues = {0, 1, 2}
  ShimLists <- MCShimLists
  Bytes = {0, 1, 2}
  Zero = 0
INVARIANTS
  OneService
  ProgramIsItself
  RightFileRuns
  PreloadsArrive
  VectorsFit
  ReadsInside
  RewrittenPathFits
  SleepersBlocked
  MemoryStaysWhole
PROPERTIES
  OneViewOfProc
  TakesWhatIsThere
CHECK_DEADLOCK FALSE
