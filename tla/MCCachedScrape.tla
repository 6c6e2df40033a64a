--------------------------- MODULE MCCachedScrape ----------------------------
(***************************************************************************)
(* Instances of CachedScrape for TLC: entries of 24 and 40 bytes in pages  *)
(* of 16, so that the file grows by one doubling or two; to 32 bytes, full *)
(* with the entry of 24, to 64 for that of 40, and to 128 for both.  If    *)
(* the growth to 64 fails at the mapping, that to 32 shrinks the file.     *)
(***************************************************************************)
EXTENDS CachedScrape

CONSTANTS a, c, none

MCKeys == {a, c}

MCKeyLens ==
  [k \in AllKeys |->
     CASE k = a -> [family |-> 1, sample |-> 1, labels |-> 2]
       [] k = c -> [family |-> 2, sample |-> 2, labels |-> 9]
       [] OTHER -> NoLens]

MCOldFiles == {[len |-> 0, used |-> 0, version |-> 0],
               [len |-> 40, used |-> 80, version |-> 1]}

=============================================================================
