------------------------------ MODULE TextForms ------------------------------
(***************************************************************************)
(* The texts that the parts of the program agree on, built step by step: a *)
(* sequence of parts, taken for the stem of a file name or for the id of a *)
(* worker (getmypid(), or what the user chose), and a list of labels.      *)
(***************************************************************************)
EXTENDS FileNames, Labels

CONSTANTS
  Words,       \* the words of names
  Endings,     \* the numbers that may follow a word
  MaxParts,    \* bound on the parts of a name
  LabelValues  \* values of labels

ASSUME TextAssumption ==
  /\ Endings \subseteq Seq(Nat)
  /\ \A value \in LabelValues : value \in Seq(Range(value))

VARIABLES
  parts,
  labels

textVars == <<parts, labels>>

AddPart ==
  /\ labels = <<>>
  /\ Len(parts) < MaxParts
  /\ \E word \in Words, numbers \in Endings : parts' = Append(parts, Part(word, numbers))
  /\ UNCHANGED labels

\* A label name comes once, as a key of a PHP array does, and is not "pid".
AddLabel ==
  /\ parts = <<>>
  /\ \E name \in DOMAIN NameRank \ {"pid"}, value \in LabelValues :
       /\ \A i \in DOMAIN labels : labels[i].name # name
       /\ labels' = Append(labels, [name |-> name, value |-> value])
  /\ UNCHANGED parts

TextInit == parts = <<>> /\ labels = <<>>
TextNext == AddPart \/ AddLabel
TextSpec == TextInit /\ [][TextNext]_textVars

-----------------------------------------------------------------------------
(* Properties *)

\* The collector takes a gauge file for that of the very worker whose pid the two
\* scrapes print in the pid label of its samples, although they strip the suffix
\* from every part of the name and it from the parts joined.
ParsersAgree ==
  parts # <<>> /\ ExtractNumericPid(parts) # NotAPid /\ Parses(parts) =>
    LET params == ParseFileParams(parts) IN
    params.type = "gauge" =>
      /\ Len(params.pid) = 1
      /\ Plain(params.pid[1], Numerals)
      /\ Value[params.pid[1].word] = ExtractNumericPid(parts)

\* A file that the library makes for a worker is read as what it was made for, and is
\* collected if and only if the worker goes by its pid.  If no part of its id but the
\* last ends in a number, the pid label of its gauges is that id, so no two such
\* workers hide each other's.
PidIn(id) ==
  IF Len(id) = 1 /\ Plain(id[1], Numerals) /\ Value[id[1].word] \in 1..MaxPid
  THEN Value[id[1].word] ELSE NotAPid

WorkersToldApart ==
  parts # <<>> =>
    \A type \in MetricTypes, mode \in Modes :
      type = "gauge" \/ mode = "all" =>
        LET stem   == FileOf(type, mode, parts)
            params == ParseFileParams(stem)
        IN
        /\ Parses(stem)
        /\ params.type = type /\ params.mode = mode
        /\ ExtractNumericPid(stem) = PidIn(parts)
        /\ type = "gauge" /\ (\A i \in 1..(Len(parts) - 1) : parts[i].numbers = <<>>) =>
             params.pid = parts

\* Labels read back as they were, whatever their values hold, and so do those with the
\* pid of a worker: two series never share a text, and no value breaks a sample.
LabelsReadBack ==
  /\ ReadsAs(EncodeLabels(labels), Range(labels))
  /\ \A pid \in LabelValues :
       ReadsAs(AppendPid(EncodeLabels(labels), pid),
               Range(labels) \cup {[name |-> "pid", value |-> pid]})

\* Nor does one series ever have two texts, in whatever order its labels are given.
OneTextPerSeries ==
  \A order \in [DOMAIN labels -> DOMAIN labels] :
    Range(order) = DOMAIN labels =>
      EncodeLabels([i \in DOMAIN labels |-> labels[order[i]]]) = EncodeLabels(labels)

=============================================================================
