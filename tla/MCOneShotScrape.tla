--------------------------- MODULE MCOneShotScrape ---------------------------
(***************************************************************************)
(* Instances of OneShotScrape for TLC: entries of 24, 32 and 40 bytes in   *)
(* pages of 32: the file grows by one doubling or two, and may shrink.     *)
(***************************************************************************)
EXTENDS OneShotScrape

CONSTANTS a, b, c, none

MCKeys    == {a, b, c}

MCKeyLens ==
  [k \in AllKeys |->
     CASE k = a -> [family |-> 1, sample |-> 1, labels |-> 2]
       [] k = b -> [family |-> 2, sample |-> 2, labels |-> 1]
       [] k = c -> [family |-> 2, sample |-> 2, labels |-> 9]
       [] OTHER -> NoLens]

MCOldFiles == {[len |-> 0, used |-> 0, version |-> 0],
               [len |-> 40, used |-> 80, version |-> 1]}

=============================================================================
