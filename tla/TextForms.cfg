CONSTANTS
  Numerals = {"7", "9999999999"}
  Value <- MCValue
  MaxPid = 99
  NotAPid = NotAPid
  Words = {"counter", "gauge", "all", "web", "7", "9999999999"}
  Endings <- MCEndings
  MaxParts = 4
  NameRank <- MCNameRank
  LabelValues <- MCLabelValues
SPECIFICATION TextSpec
INVARIANTS
  ParsersAgree
  WorkersToldApart
  LabelsReadBack
  OneTextPerSeries
CHECK_DEADLOCK FALSE
