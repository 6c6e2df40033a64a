CONSTANTS
  t1 = t1
  t2 = t2
  p1 = p1
  p2 = p2
  Threads = {t1, t2}
  Spellings = {p1, p2}
  Kinds = {"counter", "gauge", "histogram"}
  Amounts = {1, 2}
  Buckets = {1}
  KeyLens <- MCKeyLens
  MaxRequests = 3
  MaxU32 = 160
  PageSize = 32
SPECIFICATION ExtSpec
SYMMETRY MCSymmetry
INVARIANTS
  ExtTypeOK
  IncrementsAddUp
  ObservationsBracketed
  GaugeIncIsIncrement
  LaggingStoreHasSibling
