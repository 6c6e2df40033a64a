------------------------------ MODULE FileNames ------------------------------
(***************************************************************************)
(* The names of metric files, and what the three parts of the program that *)
(* see only names make of them: the one-shot aggregation and the exporter  *)
(* (parse_file_params, the same in both), the collector                    *)
(* (extract_numeric_pid), and the library that chooses the names.          *)
(*                                                                         *)
(* The stem of a name is split at "_".  A part is a word and the numbers   *)
(* that follow it, each after a "-": web-1-0 is the word web with the      *)
(* numbers 1 and 0.  A word is a model value, or a number if it is all     *)
(* digits; it ends in no "-" and digits itself.                            *)
(***************************************************************************)
EXTENDS Naturals, Sequences, SequencesExt

CONSTANTS
  Numerals,   \* the words that are all digits
  Value,      \* their values (12 and 012 have the same)
  MaxPid,     \* i32::MAX
  NotAPid     \* None

MetricTypes == {"counter", "gauge", "histogram", "summary"}
Modes       == {"min", "max", "livesum", "all", "liveall"}

Part(word, numbers) == [word |-> word, numbers |-> numbers]

\* Mutant of StripFileSuffixNumber: every "-digits" goes.
StripFileSuffixNumbers(part) == Part(part.word, <<>>)

\* The last "-digits" of a part goes, if there is one.
StripFileSuffixNumber(part) ==
  IF part.numbers = <<>> THEN part ELSE Part(part.word, Front(part.numbers))

Plain(part, words) == part.numbers = <<>> /\ part.word \in words

From(seq, i) == SubSeq(seq, i, Len(seq))

-----------------------------------------------------------------------------
(* parse_file_params *)

StrippedParts(stem) == [i \in DOMAIN stem |-> StripFileSuffixNumber(stem[i])]

\* Otherwise the name is an error.
Parses(stem) ==
  LET parts == StrippedParts(stem) IN
  /\ Plain(parts[1], MetricTypes)
  /\ parts[1].word = "gauge" => Len(parts) >= 3 /\ Plain(parts[2], Modes)

ParseFileParams(stem) ==
  LET parts == StrippedParts(stem) IN
  IF parts[1].word = "gauge"
  THEN [type |-> "gauge", mode |-> parts[2].word, pid |-> From(parts, 3)]
  ELSE [type |-> parts[1].word, mode |-> "all", pid |-> <<>>]

-----------------------------------------------------------------------------
(* extract_numeric_pid *)

\* The first part of the pid, 0 if the name has no metric type or too few parts.
PidStart(stem) ==
  CASE Plain(stem[1], {"gauge"}) /\ Len(stem) >= 3 -> 3
    [] Plain(stem[1], MetricTypes \ {"gauge"}) /\ Len(stem) >= 2 -> 2
    [] OTHER -> 0

\* Mutant of PidParts: the first part of the pid is taken for all of it.
PidPartsFirst(stem) ==
  IF PidStart(stem) = 0 THEN <<>> ELSE <<stem[PidStart(stem)]>>

PidParts(stem) == IF PidStart(stem) = 0 THEN <<>> ELSE From(stem, PidStart(stem))

\* The parts are joined again before the suffix goes, so more than one leaves a "_".
ExtractNumericPid(stem) ==
  IF Len(PidParts(stem)) # 1 THEN NotAPid ELSE
    LET part == StripFileSuffixNumber(PidParts(stem)[1]) IN
    IF Plain(part, Numerals) /\ Value[part.word] \in 1..MaxPid
    THEN Value[part.word]
    ELSE NotAPid

-----------------------------------------------------------------------------
(* PrometheusMmapRegistry: the file of a worker *)

\* The "-0" becomes the last number of the last part of the worker id.
Suffixed(id, n) ==
  Append(Front(id), Part(Last(id).word, Append(Last(id).numbers, n)))

FileOf(type, mode, id) ==
  <<Part(type, <<>>)>>
    \o (IF type = "gauge" THEN <<Part(mode, <<>>)>> ELSE <<>>)
    \o Suffixed(id, 0)

=============================================================================
