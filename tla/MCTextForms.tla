----------------------------- MODULE MCTextForms -----------------------------
(***************************************************************************)
(* An instance of TextForms for TLC: names of up to four parts over words  *)
(* that matter to some parser, and three labels with and without the       *)
(* characters that must be escaped in their values.                        *)
(***************************************************************************)
EXTENDS TextForms

\* The other numeral is too large for an i32.
MCValue == [w \in Numerals |-> IF w = "7" THEN 7 ELSE MaxPid + 1]

MCEndings == {<<>>, <<0>>, <<3, 0>>}

MCNameRank == [a |-> 1, b |-> 2, pid |-> 3, z |-> 4]

MCLabelValues ==
  {<<>>} \cup {<<ch>> : ch \in {Newline, Backslash, Quote, "n", "}"}}
    \cup {<<Backslash, "n">>, <<Backslash, Backslash>>, <<Quote, "}">>}

=============================================================================
