-------------------------------- MODULE Labels --------------------------------
(***************************************************************************)
(* The text of the labels of a series (src/src/metric_key.rs), and the     *)
(* label by which the renderers tell the gauges of workers apart           *)
(* (append_sample).  A text is a sequence of characters; a name is one     *)
(* character, none of those below.                                         *)
(***************************************************************************)
EXTENDS Integers, SequencesExt

CONSTANT NameRank   \* the order of label names

ASSUME NameAssumption ==
  /\ NameRank \in [DOMAIN NameRank -> Nat]
  /\ \A a, b \in DOMAIN NameRank : NameRank[a] = NameRank[b] => a = b
  /\ "pid" \in DOMAIN NameRank

Newline   == "newline"
Backslash == "\\"
Quote     == "\""

-----------------------------------------------------------------------------
(* encode_labels *)

\* Mutant of Escape: a backslash stays as it is.
EscapeQuotesOnly(ch) ==
  CASE ch = Newline -> <<Backslash, "n">>
    [] ch = Quote   -> <<Backslash, ch>>
    [] OTHER        -> <<ch>>

Escape(ch) ==
  CASE ch = Newline              -> <<Backslash, "n">>
    [] ch \in {Backslash, Quote} -> <<Backslash, ch>>
    [] OTHER                     -> <<ch>>

EscapeLabelValue(value) == FlattenSeq([i \in DOMAIN value |-> Escape(value[i])])

\* Mutant of SortLabels: the labels come as they are given.
SortLabelsNot(labels) == labels

\* sort_by, of labels with different names.
SortLabels(labels) ==
  LET ascends(order) ==
        \A i, j \in DOMAIN labels :
          i < j => NameRank[labels[order[i]].name] < NameRank[labels[order[j]].name]
      order == CHOOSE order \in [DOMAIN labels -> DOMAIN labels] : ascends(order)
  IN  [i \in DOMAIN labels |-> labels[order[i]]]

LabelText(label) == <<label.name, "=", Quote>> \o EscapeLabelValue(label.value) \o <<Quote>>

EncodeLabels(labels) ==
  IF labels = <<>> THEN <<>> ELSE
    LET sorted == SortLabels(labels) IN
    <<"{">>
      \o FlattenSeq([i \in DOMAIN sorted |->
           (IF i > 1 THEN <<",">> ELSE <<>>) \o LabelText(sorted[i])])
      \o <<"}">>

-----------------------------------------------------------------------------
(* append_sample *)

\* Mutant of AppendPid: there are always labels before.
AppendPidAfterComma(labels, pid) ==
  (IF labels # <<>> THEN Front(labels) ELSE <<>>)
    \o <<",", "pid", "=", Quote>> \o EscapeLabelValue(pid) \o <<Quote, "}">>

AppendPid(labels, pid) ==
  LET head == IF labels # <<>> /\ Last(labels) = "}" THEN Front(labels) ELSE labels
      open == IF head # labels /\ "{" \in Range(head) THEN "," ELSE "{"
  IN head \o <<open, "pid", "=", Quote>> \o EscapeLabelValue(pid) \o <<Quote, "}">>

-----------------------------------------------------------------------------
(* Prometheus, which reads the text back: one character at a time, in a     *)
(* state that says what it expects, with the name and value read so far.    *)

ReadFrom == [at |-> "start", name |-> "", value |-> <<>>, labels |-> {}]

Read(r, ch) ==
  CASE r.at = "start" /\ ch = "{"                          -> [r EXCEPT !.at = "name"]
    [] r.at = "name" /\ ch \in DOMAIN NameRank             -> [r EXCEPT !.at = "=", !.name = ch]
    [] r.at = "=" /\ ch = "="                              -> [r EXCEPT !.at = "open"]
    [] r.at = "open" /\ ch = Quote           -> [r EXCEPT !.at = "value", !.value = <<>>]
    [] r.at = "value" /\ ch = Backslash                    -> [r EXCEPT !.at = "escaped"]
    [] r.at = "value" /\ ch = Quote ->
         [r EXCEPT !.at = "label", !.labels = @ \cup {[name |-> r.name, value |-> r.value]}]
    [] r.at = "value" /\ ch \notin {Newline, Quote, Backslash} ->
         [r EXCEPT !.value = Append(@, ch)]
    [] r.at = "escaped" /\ ch \in {"n", Quote, Backslash} ->
         [r EXCEPT !.at = "value", !.value = Append(@, IF ch = "n" THEN Newline ELSE ch)]
    [] r.at = "label" /\ ch = ","                          -> [r EXCEPT !.at = "name"]
    [] r.at = "label" /\ ch = "}"                          -> [r EXCEPT !.at = "end"]
    [] OTHER                                               -> [r EXCEPT !.at = "error"]

Reading(from, text) ==
  LET r[i \in 0..Len(text)] == IF i = 0 THEN from ELSE Read(r[i - 1], text[i])
  IN  r[Len(text)]

ReadsAs(text, labels) ==
  LET r == Reading(ReadFrom, text) IN
  r.labels = labels /\ r.at \in {"start", "end"}

=============================================================================
