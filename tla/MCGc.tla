--------------------------------- MODULE MCGc ---------------------------------
(***************************************************************************)
(* Instances of Gc for TLC: two workers, one of them with a counter and a  *)
(* gauge file, and a file with a name that holds no pid, so that a sweep   *)
(* looks at fewer files than there are, and wraps around.                  *)
(***************************************************************************)
EXTENDS Gc

CONSTANTS p1, p2, noPid, counter1, counterX, gauge1, histogram2, noFile

\* counter_<p1>.db < counter_x.db < gauge_all_<p1>.db < histogram_<p2>.db
MCOrder == SelectSeq(<<counter1, counterX, gauge1, histogram2>>, LAMBDA f : f \in Files)
MCRank  == [f \in Files |-> CHOOSE i \in 1..Len(MCOrder) : MCOrder[i] = f]

MCPidOf ==
  [f \in Files |-> CASE f \in {counter1, gauge1} -> p1
                     [] f = histogram2 -> p2
                     [] OTHER -> noPid]

=============================================================================
