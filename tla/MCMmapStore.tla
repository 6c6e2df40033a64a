----------------------------- MODULE MCMmapStore -----------------------------
(***************************************************************************)
(* Instances of MmapStore for TLC.  Entries of 24, 32 and 40 bytes in      *)
(* pages of 32: files grow by one doubling or two, a growth that failed is *)
(* followed by a smaller one that shrinks the file, and the third entry    *)
(* passes MaxU32.                                                          *)
(***************************************************************************)
EXTENDS MmapStore

CONSTANTS a, b, c, long, none

MCKeys == {a, b, c, long}

MCKeyLens ==
  [k \in AllKeys |->
     CASE k = a    -> [family |-> 1, sample |-> 1, labels |-> 2]
       [] k = b    -> [family |-> 2, sample |-> 2, labels |-> 1]
       [] k = c    -> [family |-> 2, sample |-> 2, labels |-> 9]
       [] k = long -> [family |-> 1, sample |-> 1, labels |-> MaxU32 + 1]
       [] OTHER    -> NoLens]

\* Nothing; the zeros of opening_old_version_reinitializes_file; a file of
\* version 1 whose `used` reaches beyond its end.
MCOldFiles ==
  {[len |-> 0, used |-> 0, version |-> 0],
   [len |-> 16, used |-> 0, version |-> 0],
   [len |-> 40, used |-> 80, version |-> 1]}

=============================================================================
