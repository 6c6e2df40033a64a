CONSTANTS
  p1 = p1
  p2 = p2
  noPid = noPid
  counter1 = counter1
  histogram2 = histogram2
  gauge1 = gauge1
  counterX = counterX
  noFile = noFile
  Pids = {p1, p2}
  NoPid = noPid
  NoFile = noFile
  Files = {counter1, counterX, gauge1, histogram2}
  Rank <- MCRank
  PidOf <- MCPidOf
  ScanLimit = 2
  DeleteLimit = 2
  PidReuse = FALSE
SPECIFICATION GcFairSpec
INVARIANTS
  GcTypeOK
  OneSweeper
  NoOrphans
PROPERTIES
  DeletesOnlyDead
  ImplementsCollector
  DeadFilesCollected
CHECK_DEADLOCK FALSE
