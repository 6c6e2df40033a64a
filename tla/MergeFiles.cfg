CONSTANTS
  Paths <- MCPaths
  Metrics <- MCMetrics
  Params <- MCParams
  ValueIn <- MCValueIn
SPECIFICATION MergeSpec
INVARIANTS
  MergeTypeOK
  MergesToReference
  OneHeaderPerFamily
  FaultsAreReported
CHECK_DEADLOCK FALSE
