CONSTANTS
  a = a
  c = c
  none = none
  Keys <- MCKeys
  EmptyKey = none
  KeyLens <- MCKeyLens
  Increments = {1}
  SetValues = {}
  OldFiles <- MCOldFiles
  MaxDoublings = 3
  MaxValue = 2
  MaxU32 = 100
  PageSize = 16
  LoadsOrdered = TRUE
SPECIFICATION ScrapeSpec
INVARIANTS
  HealthyFileNotSkipped
