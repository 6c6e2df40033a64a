CONSTANTS
  a = a
  b = b
  c = c
  long = long
  none = none
  Keys <- MCKeys
  EmptyKey = none
  KeyLens <- MCKeyLens
  Increments = {1}
  SetValues = {0}
  OldFiles <- MCOldFiles
  MaxDoublings = 3
  MaxValue = 2
  MaxU32 = 100
  PageSize = 32
SPECIFICATION StoreFairSpec
INVARIANTS
  TypeOK
  FileWellFormed
  IndexMatchesFile
  AlwaysReopens
  ValuesAligned
PROPERTIES
  EntriesNeverMove
  ImplementsMetricMap
  WorkerReturns
