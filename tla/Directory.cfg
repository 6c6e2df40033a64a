CONSTANTS
  counter1 = counter1
  livesum2 = livesum2
  noPid = noPid
  Numerals = {"7", "12"}
  Value <- MCValue
  MaxPid = 99
  NotAPid = noPid
  Pids = {7, 12}
  NoPid = noPid
  Files = {counter1, livesum2}
  NoFile = noPid
  Stem <- MCStem
  Rank <- MCRank
  PidOf <- MCPidOf
  PidReuse = TRUE
  Readers = {"exporter", "aggregation"}
  MaxValue = 1
  MaxSeries <- MCMaxSeries
SPECIFICATION DirFairSpec
INVARIANTS
  DirTypeOK
  SteadyFilesShown
  FaultsExplained
PROPERTIES
  CountersFallByCollection
  LiveSumConverges
