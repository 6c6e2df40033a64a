----------------------------- MODULE MCExtension -----------------------------
(***************************************************************************)
(* Instances of Extension for TLC, in pages of 32 bytes: the second entry  *)
(* of a histogram, of 56 bytes, grows the file by two doublings, the first *)
(* of a gauge by one or two; observations within the one finite bucket     *)
(* and above it.  Nothing tells the threads apart, nor the spellings.      *)
(***************************************************************************)
EXTENDS Extension, TLC

CONSTANTS t1, t2, p1, p2

MCKeyLens ==
  [k \in Keys |-> [family |-> 1, sample |-> 1,
                   labels |-> CASE k = CountKey  -> 34
                                [] k = Series(1) -> 10
                                [] k = Series(2) -> 42
                                [] OTHER         -> 2]]

MCSymmetry == Permutations(Threads) \cup Permutations(Spellings)

=============================================================================
