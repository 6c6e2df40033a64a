---------------------------- MODULE MCDirectory ------------------------------
(***************************************************************************)
(* An instance of Directory for TLC: a worker with a counter, whose file   *)
(* gets another series, and one with a gauge of livesum.                   *)
(***************************************************************************)
EXTENDS Directory

CONSTANTS counter1, livesum2, noPid

MCValue == [w \in Numerals |-> IF w = "7" THEN 7 ELSE 12]

MCStem == [f \in Files |->
  CASE f = counter1 -> FileOf("counter", "all", <<Part("7", <<>>)>>)
    [] f = livesum2 -> FileOf("gauge", "livesum", <<Part("12", <<>>)>>)]

MCRank == [f \in Files |-> IF f = counter1 THEN 1 ELSE 2]

MCMaxSeries == [f \in Files |-> IF f = counter1 THEN 2 ELSE 1]

MCPidOf == [f \in Files |-> ExtractNumericPid(MCStem[f])]

=============================================================================
