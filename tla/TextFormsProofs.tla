--------------------------- MODULE TextFormsProofs ---------------------------
(***************************************************************************)
(* Proofs about TextForms: what the parts of the program make of the name  *)
(* of a file, for names of any length and any words, and what Prometheus   *)
(* reads in the text of labels, for any number of them and any values.     *)
(***************************************************************************)
EXTENDS TextForms, SumsProofs, TLAPS

-----------------------------------------------------------------------------
(* Names of files *)

\* The parts that are written with some words; those of a name that the library makes
\* have words of its own too.
PartsOf(words) == [word : words, numbers : Seq(Nat)]
PartType == PartsOf(Words)
StemType == PartsOf(Words \cup MetricTypes \cup Modes)

PartsOK == parts \in Seq(PartType)

\* The name of a file that the user or the library chose is made of such parts.
LEMMA PartsHold == TextSpec => []PartsOK
<1>1. TextInit => PartsOK
  BY DEF TextInit, PartsOK
<1>2. PartsOK /\ [TextNext]_textVars => PartsOK'
  <2> SUFFICES ASSUME PartsOK, [TextNext]_textVars PROVE PartsOK'
    OBVIOUS
  <2>1. CASE AddPart
    <3>1. PICK word \in Words, numbers \in Endings : parts' = Append(parts, Part(word, numbers))
      BY <2>1 DEF AddPart
    <3>2. Part(word, numbers) \in PartType
      BY TextAssumption DEF Part, PartType, PartsOf
    <3>3. QED
      BY <3>1, <3>2 DEF PartsOK
  <2>2. CASE AddLabel \/ UNCHANGED textVars
    BY <2>2 DEF AddLabel, textVars, PartsOK
  <2>3. QED
    BY <2>1, <2>2 DEF TextNext
<1>3. QED
  BY <1>1, <1>2, PTL DEF TextSpec

\* The beginning of a sequence, and its end.
LEMMA FrontFacts ==
  ASSUME NEW S, NEW seq \in Seq(S), seq # <<>>
  PROVE  /\ Front(seq) \in Seq(S) /\ Len(Front(seq)) = Len(seq) - 1
         /\ \A i \in 1..(Len(seq) - 1) : Front(seq)[i] = seq[i]
<1> DEFINE n == Len(seq) - 1
<1>1. Len(seq) \in Nat /\ Len(seq) # 0 /\ n \in Nat /\ n <= Len(seq)
  OBVIOUS
<1>2. Front(seq) = SubSeq(seq, 1, n)
  BY DEF Front
<1>3. \A i \in 1..n : seq[i] \in S
  BY <1>1
<1> HIDE DEF n
<1>4. SubSeq(seq, 1, n) = [i \in 1..n |-> seq[i]]
  BY <1>1
<1>5. /\ [i \in 1..n |-> seq[i]] \in Seq(S) /\ Len([i \in 1..n |-> seq[i]]) = n
      /\ \A i \in 1..n : [j \in 1..n |-> seq[j]][i] = seq[i]
  BY <1>1, <1>3
<1>6. QED
  BY <1>2, <1>4, <1>5 DEF n

\* The end of a sequence from its i-th member on.
LEMMA FromFacts ==
  ASSUME NEW S, NEW seq \in Seq(S), NEW i \in 1..Len(seq)
  PROVE  /\ From(seq, i) \in Seq(S) /\ Len(From(seq, i)) = Len(seq) - i + 1
         /\ \A j \in 1..(Len(seq) - i + 1) : From(seq, i)[j] = seq[i + j - 1]
         /\ From(seq, i)[1] = seq[i]
<1>1. /\ From(seq, i) \in Seq(S) /\ Len(From(seq, i)) = Len(seq) - i + 1
      /\ \A j \in 1..(Len(seq) - i + 1) : From(seq, i)[j] = seq[i + j - 1]
  BY DEF From
<1>2. 1 \in 1..(Len(seq) - i + 1) /\ i + 1 - 1 = i
  OBVIOUS
<1>3. From(seq, i)[1] = seq[i]
  BY <1>1, <1>2
<1>4. QED
  BY <1>1, <1>3

\* The parts keep their places and their words when the suffixes go.
LEMMA StrippedFacts ==
  ASSUME NEW words, NEW stem \in Seq(PartsOf(words))
  PROVE  /\ StrippedParts(stem) \in Seq(PartsOf(words))
         /\ Len(StrippedParts(stem)) = Len(stem)
         /\ \A i \in DOMAIN stem :
              /\ StrippedParts(stem)[i] = StripFileSuffixNumber(stem[i])
              /\ StrippedParts(stem)[i].word = stem[i].word
              /\ stem[i].numbers = <<>> => StrippedParts(stem)[i] = stem[i]
<1> DEFINE Parts == PartsOf(words)
<1>1. ASSUME NEW part \in Parts
      PROVE  /\ StripFileSuffixNumber(part) \in Parts
             /\ StripFileSuffixNumber(part).word = part.word
             /\ part.numbers = <<>> => StripFileSuffixNumber(part) = part
  <2>1. part.word \in words /\ part.numbers \in Seq(Nat)
    BY DEF PartsOf
  <2>2. part.numbers # <<>> => Front(part.numbers) \in Seq(Nat)
    BY <2>1 DEF Front
  <2>3. QED
    BY <2>1, <2>2 DEF StripFileSuffixNumber, Part, PartsOf
<1>2. /\ StrippedParts(stem) = [i \in 1..Len(stem) |-> StripFileSuffixNumber(stem[i])]
      /\ \A i \in 1..Len(stem) : stem[i] \in Parts
      /\ DOMAIN stem = 1..Len(stem) /\ Len(stem) \in Nat
  BY DEF StrippedParts
<1> HIDE DEF Parts
<1>3. QED
  BY <1>1, <1>2 DEF Parts

\* If the collector takes a gauge file for that of a process, so do the aggregation and
\* the exporter: the one strips the suffix from the parts of the pid joined, the others
\* from every part of the name.
THEOREM CollectorAgrees == TextSpec => []ParsersAgree
<1>1. PartsOK => ParsersAgree
  <2> DEFINE params == ParseFileParams(parts)
             stripped == StrippedParts(parts)
  <2> SUFFICES ASSUME PartsOK, parts # <<>>, ExtractNumericPid(parts) # NotAPid,
                      Parses(parts), params.type = "gauge"
               PROVE  /\ Len(params.pid) = 1
                      /\ Plain(params.pid[1], Numerals)
                      /\ Value[params.pid[1].word] = ExtractNumericPid(parts)
    BY DEF ParsersAgree
  <2>1. parts \in Seq(PartType) /\ Len(parts) \in Nat /\ 1 \in DOMAIN parts
    BY DEF PartsOK
  <2>2. /\ stripped \in Seq(PartType) /\ Len(stripped) = Len(parts)
        /\ \A i \in DOMAIN parts : /\ stripped[i] = StripFileSuffixNumber(parts[i])
                                  /\ stripped[i].word = parts[i].word
    BY <2>1, StrippedFacts DEF PartType
  <2>3. stripped[1].word = "gauge" /\ params.pid = From(stripped, 3) /\ Len(parts) >= 3
    BY <2>2 DEF ParseFileParams, Parses
  <2> HIDE DEF params, stripped
  <2>4. parts[1].word = "gauge"
    BY <2>1, <2>2, <2>3
  <2>5. Len(PidParts(parts)) = 1
    BY DEF ExtractNumericPid
  <2>6. PidStart(parts) = 3
    <3>1. PidStart(parts) # 0
      BY <2>5 DEF PidParts
    <3>2. QED
      BY <2>4, <3>1 DEF PidStart, Plain
  <2>7. PidParts(parts) = From(parts, 3)
    BY <2>6 DEF PidParts
  <2>8. Len(parts) = 3 /\ PidParts(parts)[1] = parts[3]
    <3>1. 3 \in 1..Len(parts)
      BY <2>1, <2>3
    <3>2. Len(From(parts, 3)) = Len(parts) - 3 + 1 /\ From(parts, 3)[1] = parts[3]
      BY <2>1, <3>1, FromFacts
    <3>3. Len(From(parts, 3)) = 1 /\ PidParts(parts)[1] = From(parts, 3)[1]
      BY <2>5, <2>7
    <3>4. Len(parts) \in Nat
      BY <2>1
    <3>5. Len(parts) - 3 + 1 = 1
      BY <3>2, <3>3
    <3>6. Len(parts) = 3
      BY <3>4, <3>5
    <3>7. QED
      BY <3>2, <3>3, <3>6
  <2>9. Len(params.pid) = 1 /\ params.pid[1] = StripFileSuffixNumber(parts[3])
    <3>1. 3 \in 1..Len(stripped) /\ 3 \in DOMAIN parts
      BY <2>1, <2>2, <2>8
    <3>2. Len(From(stripped, 3)) = 1 /\ From(stripped, 3)[1] = stripped[3]
      <4>1. /\ Len(From(stripped, 3)) = Len(stripped) - 3 + 1
            /\ From(stripped, 3)[1] = stripped[3]
        BY <2>2, <3>1, FromFacts
      <4>2. Len(stripped) = 3
        BY <2>2, <2>8
      <4>3. QED
        BY <4>1, <4>2
    <3>3. QED
      BY <2>2, <2>3, <3>1, <3>2
  <2>10. /\ Plain(StripFileSuffixNumber(parts[3]), Numerals)
         /\ ExtractNumericPid(parts) = Value[StripFileSuffixNumber(parts[3]).word]
    BY <2>5, <2>8 DEF ExtractNumericPid
  <2>11. QED
    BY <2>9, <2>10
<1>2. QED
  BY <1>1, PartsHold, PTL

\* The parts of the name that the library makes.
LEMMA SuffixedFacts ==
  ASSUME NEW id \in Seq(PartType), id # <<>>
  PROVE  /\ Suffixed(id, 0) \in Seq(PartType) /\ Len(Suffixed(id, 0)) = Len(id)
         /\ Len(id) \in Nat \ {0}
         /\ \A i \in 1..(Len(id) - 1) : Suffixed(id, 0)[i] = id[i]
         /\ StripFileSuffixNumber(Suffixed(id, 0)[Len(id)]) = id[Len(id)]
<1> DEFINE n == Len(id)
           last == id[n]
           more == Append(last.numbers, 0)
           part == Part(last.word, more)
<1>1. n \in Nat \ {0} /\ last \in PartType
  OBVIOUS
<1>2. /\ last.word \in Words /\ last.numbers \in Seq(Nat)
      /\ last = Part(last.word, last.numbers)
  BY <1>1 DEF PartType, PartsOf, Part
<1>3. more \in Seq(Nat) /\ more # <<>> /\ Front(more) = last.numbers
  <2> DEFINE numbers == last.numbers
  <2>1. numbers \in Seq(Nat)
    BY <1>2
  <2> HIDE DEF numbers
  <2> DEFINE k == Len(numbers)
             front == Front(Append(numbers, 0))
  <2>2. /\ Append(numbers, 0) \in Seq(Nat) /\ Append(numbers, 0) # <<>>
        /\ Len(Append(numbers, 0)) - 1 = k
        /\ \A i \in 1..k : Append(numbers, 0)[i] = numbers[i]
    BY <2>1
  <2>3. front \in Seq(Nat) /\ Len(front) = k /\ \A i \in 1..k : front[i] = numbers[i]
    BY <2>2, FrontFacts
  <2> HIDE DEF front
  <2>4. front = [i \in 1..k |-> front[i]] /\ numbers = [i \in 1..k |-> numbers[i]]
    BY <2>1, <2>3
  <2>5. front = numbers
    BY <2>3, <2>4
  <2>6. QED
    BY <2>2, <2>5 DEF numbers, front
<1>4. part \in PartType
  BY <1>2, <1>3 DEF PartType, PartsOf, Part
<1>5. StripFileSuffixNumber(part) = last
  BY <1>2, <1>3 DEF StripFileSuffixNumber, Part
<1>6. Suffixed(id, 0) = Append(Front(id), part)
  BY DEF Suffixed, Last
<1>7. /\ Front(id) \in Seq(PartType) /\ Len(Front(id)) = n - 1
      /\ \A i \in 1..(n - 1) : Front(id)[i] = id[i]
  BY <1>1, FrontFacts
<1> HIDE DEF part
<1>8. /\ Suffixed(id, 0) \in Seq(PartType) /\ Len(Suffixed(id, 0)) = n
      /\ Suffixed(id, 0)[n] = part
      /\ \A i \in 1..(n - 1) : Suffixed(id, 0)[i] = id[i]
  <2> DEFINE front == Front(id)
             k     == n - 1
  <2>1. front \in Seq(PartType) /\ Len(front) = k /\ k \in Nat
        /\ \A i \in 1..k : front[i] = id[i]
    BY <1>1, <1>7
  <2> HIDE DEF front, k, n
  <2>2. /\ Append(front, part) \in Seq(PartType) /\ Len(Append(front, part)) = k + 1
        /\ Append(front, part)[k + 1] = part
        /\ \A i \in 1..k : Append(front, part)[i] = front[i]
    BY <1>4, <2>1
  <2>3. k + 1 = n
    BY <1>1 DEF k
  <2>4. Suffixed(id, 0) = Append(front, part)
    BY <1>6 DEF front
  <2> HIDE DEF part
  <2>5. \A i \in 1..k : Suffixed(id, 0)[i] = id[i]
    BY <2>1, <2>2, <2>4
  <2>6. QED
    BY <2>2, <2>3, <2>4, <2>5 DEF k
<1>9. QED
  BY <1>1, <1>5, <1>8

\* Two sequences, one after the other.
LEMMA ConcatFacts ==
  ASSUME NEW S, NEW one \in Seq(S), NEW other \in Seq(S)
  PROVE  /\ one \o other \in Seq(S) /\ Len(one \o other) = Len(one) + Len(other)
         /\ \A i \in 1..Len(one) : (one \o other)[i] = one[i]
         /\ \A i \in 1..Len(other) : (one \o other)[Len(one) + i] = other[i]
OBVIOUS

\* Where the pid begins in the name of a file of a type.
First(type) == IF type = "gauge" THEN 3 ELSE 2

\* The name of a file is the type, the mode of a gauge, and the parts of the worker id.
LEMMA FileOfFacts ==
  ASSUME NEW id \in Seq(PartType), id # <<>>, NEW type \in MetricTypes, NEW mode \in Modes
  PROVE  /\ FileOf(type, mode, id) \in Seq(StemType)
         /\ Len(FileOf(type, mode, id)) = Len(id) + First(type) - 1
         /\ FileOf(type, mode, id)[1] = Part(type, <<>>)
         /\ type = "gauge" => FileOf(type, mode, id)[2] = Part(mode, <<>>)
         /\ \A j \in 1..Len(id) :
              FileOf(type, mode, id)[First(type) + j - 1] = Suffixed(id, 0)[j]
<1> DEFINE t == Part(type, <<>>)
           m == Part(mode, <<>>)
           s == Suffixed(id, 0)
<1>1. t \in StemType /\ m \in StemType
  BY DEF StemType, PartsOf, Part
<1>2. s \in Seq(StemType) /\ Len(s) = Len(id) /\ Len(id) \in Nat
  <2>1. PartType \subseteq StemType
    BY DEF PartType, StemType, PartsOf
  <2>2. s \in Seq(PartType) /\ Len(s) = Len(id) /\ Len(id) \in Nat
    BY SuffixedFacts
  <2> HIDE DEF s
  <2>3. QED
    BY <2>1, <2>2
<1>3. FileOf(type, mode, id) = <<t>> \o (IF type = "gauge" THEN <<m>> ELSE <<>>) \o s
  BY DEF FileOf
<1> HIDE DEF s, t, m
<1>4. CASE type = "gauge"
  <2> DEFINE head == <<t>> \o <<m>>
             f == head \o s
  <2>1. head \in Seq(StemType) /\ Len(head) = 2 /\ head[1] = t /\ head[2] = m
    BY <1>1
  <2>2. FileOf(type, mode, id) = f /\ First(type) = 3
    BY <1>3, <1>4 DEF First
  <2> HIDE DEF head
  <2>3. /\ f \in Seq(StemType) /\ Len(f) = Len(id) + 2 /\ f[1] = t /\ f[2] = m
        /\ \A j \in 1..Len(id) : f[2 + j] = s[j]
    <3>1. head \in Seq(StemType) /\ s \in Seq(StemType)
      BY <1>2, <2>1
    <3>2. /\ f \in Seq(StemType) /\ Len(f) = Len(head) + Len(s)
          /\ \A i \in 1..Len(head) : f[i] = head[i]
          /\ \A j \in 1..Len(s) : f[Len(head) + j] = s[j]
      BY <3>1, ConcatFacts
    <3> HIDE DEF f
    <3>3. QED
      BY <1>2, <2>1, <3>2
  <2> HIDE DEF f
  <2>4. \A j \in 1..Len(id) : f[3 + j - 1] = s[j]
    BY <1>2, <2>3
  <2>5. QED
    BY <1>2, <2>3, <2>2, <2>4 DEF s, t, m
<1>5. CASE type # "gauge"
  <2> DEFINE head == <<t>> \o <<>>
             f == head \o s
  <2>1. head \in Seq(StemType) /\ Len(head) = 1 /\ head[1] = t
    BY <1>1
  <2>2. FileOf(type, mode, id) = f /\ First(type) = 2
    BY <1>3, <1>5 DEF First
  <2> HIDE DEF head
  <2>3. /\ f \in Seq(StemType) /\ Len(f) = Len(id) + 1 /\ f[1] = t
        /\ \A j \in 1..Len(id) : f[1 + j] = s[j]
    <3>1. head \in Seq(StemType) /\ s \in Seq(StemType)
      BY <1>2, <2>1
    <3>2. /\ f \in Seq(StemType) /\ Len(f) = Len(head) + Len(s)
          /\ \A i \in 1..Len(head) : f[i] = head[i]
          /\ \A j \in 1..Len(s) : f[Len(head) + j] = s[j]
      BY <3>1, ConcatFacts
    <3> HIDE DEF f
    <3>3. QED
      BY <1>2, <2>1, <3>2
  <2> HIDE DEF f
  <2>4. \A j \in 1..Len(id) : f[2 + j - 1] = s[j]
    BY <1>2, <2>3
  <2>5. QED
    BY <1>2, <1>5, <2>3, <2>2, <2>4 DEF s, t
<1>6. QED
  BY <1>4, <1>5

\* A file that the library makes is read as what it was made for, and is collected if and
\* only if the id of its worker is a pid; the pid label of a gauge is the id of the worker
\* if no part of it but the last ends in a number.
THEOREM NamesAreRead == TextSpec => []WorkersToldApart
<1>1. PartsOK => WorkersToldApart
  <2> SUFFICES ASSUME PartsOK, parts # <<>>, NEW type \in MetricTypes, NEW mode \in Modes,
                      type = "gauge" \/ mode = "all"
               PROVE  LET stem == FileOf(type, mode, parts)
                          params == ParseFileParams(stem)
                      IN  /\ Parses(stem)
                          /\ params.type = type /\ params.mode = mode
                          /\ ExtractNumericPid(stem) = PidIn(parts)
                          /\ type = "gauge"
                             /\ (\A i \in 1..(Len(parts) - 1) : parts[i].numbers = <<>>) =>
                               params.pid = parts
    BY DEF WorkersToldApart
  <2> DEFINE stem == FileOf(type, mode, parts)
             params == ParseFileParams(stem)
             stripped == StrippedParts(stem)
             first == First(type)
             made == Suffixed(parts, 0)
             n == Len(parts)
  <2>1. parts \in Seq(PartType) /\ n \in Nat \ {0} /\ DOMAIN parts = 1..n
    BY DEF PartsOK
  <2>2. /\ stem \in Seq(StemType) /\ Len(stem) = n + first - 1
        /\ stem[1] = Part(type, <<>>) /\ (type = "gauge" => stem[2] = Part(mode, <<>>))
        /\ \A j \in 1..n : stem[first + j - 1] = made[j]
    BY <2>1, FileOfFacts
  <2>3. /\ stripped \in Seq(StemType) /\ Len(stripped) = Len(stem)
        /\ \A i \in DOMAIN stem :
             /\ stripped[i] = StripFileSuffixNumber(stem[i])
             /\ stem[i].numbers = <<>> => stripped[i] = stem[i]
    BY <2>2, StrippedFacts DEF StemType
  <2>4. /\ \A i \in 1..(n - 1) : made[i] = parts[i]
        /\ StripFileSuffixNumber(made[n]) = parts[n]
        /\ made \in Seq(PartType) /\ Len(made) = n
    BY <2>1, SuffixedFacts
  <2>5. first \in {2, 3} /\ (first = 3 <=> type = "gauge")
    BY DEF First
  <2> HIDE DEF stem, stripped, made, n, first
  <2>6. stripped[1] = Part(type, <<>>) /\ (type = "gauge" => stripped[2] = Part(mode, <<>>))
    BY <2>1, <2>2, <2>3, <2>5 DEF Part
  <2>7. Parses(stem)
    BY <2>1, <2>2, <2>3, <2>5, <2>6 DEF Parses, Plain, Part, stripped
  <2>8. /\ params.type = type /\ params.mode = mode
        /\ type = "gauge" => params.pid = From(stripped, 3)
    BY <2>6 DEF ParseFileParams, Part, stripped
  <2>9. ExtractNumericPid(stem) = PidIn(parts)
    <3>1. PidStart(stem) = first
      BY <2>1, <2>2, <2>5 DEF PidStart, Plain, Part
    <3>2. PidParts(stem) = From(stem, first)
      BY <2>5, <3>1 DEF PidParts
    <3>3. Len(PidParts(stem)) = n /\ PidParts(stem)[1] = made[1]
      <4>1. first \in 1..Len(stem) /\ 1 \in 1..n /\ first + 1 - 1 = first
        BY <2>1, <2>2, <2>5
      <4>2. Len(From(stem, first)) = Len(stem) - first + 1 /\ From(stem, first)[1] = stem[first]
        BY <2>2, <4>1, FromFacts
      <4>3. Len(stem) - first + 1 = n
        BY <2>1, <2>2, <2>5
      <4>4. stem[first] = made[1]
        BY <2>2, <4>1
      <4>5. QED
        BY <3>2, <4>2, <4>3, <4>4
    <3>4. n = 1 => StripFileSuffixNumber(PidParts(stem)[1]) = parts[1]
      BY <2>4, <3>3
    <3>5. QED
      BY <3>3, <3>4 DEF ExtractNumericPid, PidIn, n
  <2>10. ASSUME type = "gauge", \A i \in 1..(n - 1) : parts[i].numbers = <<>>
         PROVE  params.pid = parts
    <3>1. params.pid = From(stripped, 3) /\ first = 3
      BY <2>5, <2>8, <2>10
    <3>2. /\ From(stripped, 3) \in Seq(StemType) /\ Len(From(stripped, 3)) = n
          /\ \A j \in 1..n : From(stripped, 3)[j] = stripped[3 + j - 1]
      <4>1. 3 \in 1..Len(stripped) /\ Len(stripped) - 3 + 1 = n
        BY <2>1, <2>2, <2>3, <3>1
      <4>2. QED
        BY <2>3, <4>1, FromFacts
    <3>3. ASSUME NEW j \in 1..n PROVE From(stripped, 3)[j] = parts[j]
      <4>1. 3 + j - 1 \in DOMAIN stem /\ stem[3 + j - 1] = made[j]
        BY <2>1, <2>2, <3>1
      <4>2. From(stripped, 3)[j] = StripFileSuffixNumber(made[j])
        BY <2>3, <3>2, <4>1
      <4>3. CASE j = n
        BY <2>4, <4>2, <4>3
      <4>4. CASE j # n
        <5>1. j \in 1..(n - 1)
          BY <2>1, <4>4
        <5>2. made[j] = parts[j] /\ parts[j].numbers = <<>>
          BY <2>4, <2>10, <5>1
        <5>3. QED
          BY <4>2, <5>2 DEF StripFileSuffixNumber
      <4>5. QED
        BY <4>3, <4>4
    <3>4. From(stripped, 3) = parts
      <4>1. parts \in Seq(PartType) /\ Len(parts) = n
        BY <2>1 DEF n
      <4> DEFINE end == From(stripped, 3)
      <4>2. end \in Seq(StemType) /\ Len(end) = n /\ \A j \in 1..n : end[j] = parts[j]
        BY <3>2, <3>3
      <4> HIDE DEF end
      <4>3. end = [j \in 1..n |-> end[j]] /\ parts = [j \in 1..n |-> parts[j]]
        BY <4>1, <4>2
      <4>4. end = parts
        BY <4>2, <4>3
      <4>5. QED
        BY <4>4 DEF end
    <3>5. QED
      BY <3>1, <3>4
  <2>11. QED
    BY <2>7, <2>8, <2>9, <2>10 DEF stem, n
<1>2. QED
  BY <1>1, PartsHold, PTL

-----------------------------------------------------------------------------
(* The reader *)

\* A state of the reader.
State(at, name, value, seen) ==
  [at |-> at, name |-> name, value |-> value, labels |-> seen]

Fields == {"at", "name", "value", "labels"}

\* The fields of a state,
LEMMA StateFacts ==
  \A at, n, v, seen :
    /\ State(at, n, v, seen).at = at /\ State(at, n, v, seen).name = n
    /\ State(at, n, v, seen).value = v /\ State(at, n, v, seen).labels = seen
    /\ DOMAIN State(at, n, v, seen) = Fields
    /\ State(at, n, v, seen) = [f \in Fields |-> State(at, n, v, seen)[f]]
BY DEF State, Fields

\* which make it out.
LEMMA StateIs ==
  ASSUME NEW at, NEW n, NEW v, NEW seen,
         NEW r, r = [f \in Fields |-> r[f]],
         r.at = at, r.name = n, r.value = v, r.labels = seen
  PROVE  r = State(at, n, v, seen)
<1> DEFINE q == State(at, n, v, seen)
<1>1. /\ q.at = at /\ q.name = n /\ q.value = v /\ q.labels = seen
      /\ q = [f \in Fields |-> q[f]]
  BY StateFacts
<1> HIDE DEF q
<1>2. \A f \in Fields : r[f] = q[f]
  BY <1>1 DEF Fields
<1>3. r = q
  BY <1>1, <1>2
<1>4. QED
  BY <1>3 DEF q

\* What the reader does with each character: a brace begins a list.
LEMMA ReadStart ==
  ASSUME NEW n, NEW v, NEW seen
  PROVE  Read(State("start", n, v, seen), "{") = State("name", n, v, seen)
<1> DEFINE r == State("start", n, v, seen)
           q == Read(r, "{")
<1>1. /\ DOMAIN r = Fields
      /\ r.at = "start" /\ r.name = n /\ r.value = v /\ r.labels = seen
  BY StateFacts
<1> HIDE DEF r
<1>2. q = [r EXCEPT !.at = "name"]
  BY <1>1 DEF Read
<1>3. /\ q = [f \in Fields |-> q[f]]
      /\ q.at = "name" /\ q.name = n /\ q.value = v /\ q.labels = seen
  BY <1>1, <1>2 DEF Fields
<1> HIDE DEF q
<1>4. q = State("name", n, v, seen)
  BY <1>3, StateIs
<1>5. QED
  BY <1>4 DEF r, q

\* A name.
LEMMA ReadName ==
  ASSUME NEW n, NEW v, NEW seen, NEW ch \in DOMAIN NameRank
  PROVE  Read(State("name", n, v, seen), ch) = State("=", ch, v, seen)
<1> DEFINE r == State("name", n, v, seen)
           q == Read(r, ch)
<1>1. /\ DOMAIN r = Fields
      /\ r.at = "name" /\ r.name = n /\ r.value = v /\ r.labels = seen
  BY StateFacts
<1> HIDE DEF r
<1>2. q = [r EXCEPT !.at = "=", !.name = ch]
  BY <1>1 DEF Read
<1>3. /\ q = [f \in Fields |-> q[f]]
      /\ q.at = "=" /\ q.name = ch /\ q.value = v /\ q.labels = seen
  BY <1>1, <1>2 DEF Fields
<1> HIDE DEF q
<1>4. q = State("=", ch, v, seen)
  BY <1>3, StateIs
<1>5. QED
  BY <1>4 DEF r, q

\* What stands between a name and its value.
LEMMA ReadEquals ==
  ASSUME NEW n, NEW v, NEW seen
  PROVE  Read(State("=", n, v, seen), "=") = State("open", n, v, seen)
<1> DEFINE r == State("=", n, v, seen)
           q == Read(r, "=")
<1>1. /\ DOMAIN r = Fields
      /\ r.at = "=" /\ r.name = n /\ r.value = v /\ r.labels = seen
  BY StateFacts
<1> HIDE DEF r
<1>2. q = [r EXCEPT !.at = "open"]
  BY <1>1 DEF Read
<1>3. /\ q = [f \in Fields |-> q[f]]
      /\ q.at = "open" /\ q.name = n /\ q.value = v /\ q.labels = seen
  BY <1>1, <1>2 DEF Fields
<1> HIDE DEF q
<1>4. q = State("open", n, v, seen)
  BY <1>3, StateIs
<1>5. QED
  BY <1>4 DEF r, q

\* A quote begins a value.
LEMMA ReadOpen ==
  ASSUME NEW n, NEW v, NEW seen
  PROVE  Read(State("open", n, v, seen), Quote) = State("value", n, <<>>, seen)
<1> DEFINE r == State("open", n, v, seen)
           q == Read(r, Quote)
<1>1. /\ DOMAIN r = Fields
      /\ r.at = "open" /\ r.name = n /\ r.value = v /\ r.labels = seen
  BY StateFacts
<1> HIDE DEF r
<1>2. q = [r EXCEPT !.at = "value", !.value = <<>>]
  BY <1>1 DEF Read
<1>3. /\ q = [f \in Fields |-> q[f]]
      /\ q.at = "value" /\ q.name = n /\ q.value = <<>> /\ q.labels = seen
  BY <1>1, <1>2 DEF Fields
<1> HIDE DEF q
<1>4. q = State("value", n, <<>>, seen)
  BY <1>3, StateIs
<1>5. QED
  BY <1>4 DEF r, q

\* And ends it, and with it a label.
LEMMA ReadClose ==
  ASSUME NEW n, NEW v, NEW seen
  PROVE  Read(State("value", n, v, seen), Quote)
           = State("label", n, v, seen \cup {[name |-> n, value |-> v]})
<1> DEFINE r == State("value", n, v, seen)
           q == Read(r, Quote)
           more == seen \cup {[name |-> n, value |-> v]}
<1>1. /\ DOMAIN r = Fields
      /\ r.at = "value" /\ r.name = n /\ r.value = v /\ r.labels = seen
  BY StateFacts
<1> HIDE DEF r
<1>2. q = [r EXCEPT !.at = "label", !.labels = more]
  <2>1. /\ Newline # Quote /\ Newline # Backslash /\ Quote # Backslash
        /\ "n" # Quote /\ "n" # Backslash
    BY DEF Newline, Quote, Backslash
  <2>2. QED
    BY <1>1, <2>1 DEF Read
<1>3. /\ q = [f \in Fields |-> q[f]]
      /\ q.at = "label" /\ q.name = n /\ q.value = v /\ q.labels = more
  BY <1>1, <1>2 DEF Fields
<1> HIDE DEF q, more
<1>4. q = State("label", n, v, more)
  BY <1>3, StateIs
<1>5. QED
  BY <1>4 DEF r, q, more

\* A backslash says that the next character is not what it seems.
LEMMA ReadBackslash ==
  ASSUME NEW n, NEW v, NEW seen
  PROVE  Read(State("value", n, v, seen), Backslash) = State("escaped", n, v, seen)
<1> DEFINE r == State("value", n, v, seen)
           q == Read(r, Backslash)
<1>1. /\ DOMAIN r = Fields
      /\ r.at = "value" /\ r.name = n /\ r.value = v /\ r.labels = seen
  BY StateFacts
<1> HIDE DEF r
<1>2. q = [r EXCEPT !.at = "escaped"]
  <2>1. /\ Newline # Quote /\ Newline # Backslash /\ Quote # Backslash
        /\ "n" # Quote /\ "n" # Backslash
    BY DEF Newline, Quote, Backslash
  <2>2. QED
    BY <1>1, <2>1 DEF Read
<1>3. /\ q = [f \in Fields |-> q[f]]
      /\ q.at = "escaped" /\ q.name = n /\ q.value = v /\ q.labels = seen
  BY <1>1, <1>2 DEF Fields
<1> HIDE DEF q
<1>4. q = State("escaped", n, v, seen)
  BY <1>3, StateIs
<1>5. QED
  BY <1>4 DEF r, q

\* Most characters of a value stand for themselves.
LEMMA ReadPlain ==
  ASSUME NEW n, NEW v, NEW seen, NEW ch, ch \notin {Newline, Quote, Backslash}
  PROVE  Read(State("value", n, v, seen), ch) = State("value", n, Append(v, ch), seen)
<1> DEFINE r == State("value", n, v, seen)
           q == Read(r, ch)
           w == Append(v, ch)
<1>1. /\ DOMAIN r = Fields
      /\ r.at = "value" /\ r.name = n /\ r.value = v /\ r.labels = seen
  BY StateFacts
<1> HIDE DEF r
<1>2. q = [r EXCEPT !.value = Append(v, ch)]
  BY <1>1 DEF Read
<1>3. /\ q = [f \in Fields |-> q[f]]
      /\ q.at = "value" /\ q.name = n /\ q.value = w /\ q.labels = seen
  BY <1>1, <1>2 DEF Fields
<1> HIDE DEF q, w
<1>4. q = State("value", n, w, seen)
  BY <1>3, StateIs
<1>5. QED
  BY <1>4 DEF r, q, w

\* A newline is written as an n.
LEMMA ReadNewline ==
  ASSUME NEW n, NEW v, NEW seen
  PROVE  Read(State("escaped", n, v, seen), "n")
           = State("value", n, Append(v, Newline), seen)
<1> DEFINE r == State("escaped", n, v, seen)
           q == Read(r, "n")
           w == Append(v, Newline)
<1>1. /\ DOMAIN r = Fields
      /\ r.at = "escaped" /\ r.name = n /\ r.value = v /\ r.labels = seen
  BY StateFacts
<1> HIDE DEF r
<1>2. q = [r EXCEPT !.at = "value", !.value = Append(v, Newline)]
  <2>1. /\ Newline # Quote /\ Newline # Backslash /\ Quote # Backslash
        /\ "n" # Quote /\ "n" # Backslash
    BY DEF Newline, Quote, Backslash
  <2>2. QED
    BY <1>1, <2>1 DEF Read
<1>3. /\ q = [f \in Fields |-> q[f]]
      /\ q.at = "value" /\ q.name = n /\ q.value = w /\ q.labels = seen
  BY <1>1, <1>2 DEF Fields
<1> HIDE DEF q, w
<1>4. q = State("value", n, w, seen)
  BY <1>3, StateIs
<1>5. QED
  BY <1>4 DEF r, q, w

\* A backslash and a quote as themselves.
LEMMA ReadEscaped ==
  ASSUME NEW n, NEW v, NEW seen, NEW ch \in {Backslash, Quote}
  PROVE  Read(State("escaped", n, v, seen), ch) = State("value", n, Append(v, ch), seen)
<1> DEFINE r == State("escaped", n, v, seen)
           q == Read(r, ch)
           w == Append(v, ch)
<1>1. /\ DOMAIN r = Fields
      /\ r.at = "escaped" /\ r.name = n /\ r.value = v /\ r.labels = seen
  BY StateFacts
<1> HIDE DEF r
<1>2. q = [r EXCEPT !.at = "value", !.value = Append(v, ch)]
  <2>1. /\ Newline # Quote /\ Newline # Backslash /\ Quote # Backslash
        /\ "n" # Quote /\ "n" # Backslash
    BY DEF Newline, Quote, Backslash
  <2>2. QED
    BY <1>1, <2>1 DEF Read
<1>3. /\ q = [f \in Fields |-> q[f]]
      /\ q.at = "value" /\ q.name = n /\ q.value = w /\ q.labels = seen
  BY <1>1, <1>2 DEF Fields
<1> HIDE DEF q, w
<1>4. q = State("value", n, w, seen)
  BY <1>3, StateIs
<1>5. QED
  BY <1>4 DEF r, q, w

\* One more label.
LEMMA ReadComma ==
  ASSUME NEW n, NEW v, NEW seen
  PROVE  Read(State("label", n, v, seen), ",") = State("name", n, v, seen)
<1> DEFINE r == State("label", n, v, seen)
           q == Read(r, ",")
<1>1. /\ DOMAIN r = Fields
      /\ r.at = "label" /\ r.name = n /\ r.value = v /\ r.labels = seen
  BY StateFacts
<1> HIDE DEF r
<1>2. q = [r EXCEPT !.at = "name"]
  BY <1>1 DEF Read
<1>3. /\ q = [f \in Fields |-> q[f]]
      /\ q.at = "name" /\ q.name = n /\ q.value = v /\ q.labels = seen
  BY <1>1, <1>2 DEF Fields
<1> HIDE DEF q
<1>4. q = State("name", n, v, seen)
  BY <1>3, StateIs
<1>5. QED
  BY <1>4 DEF r, q

\* The end of the list.
LEMMA ReadEnd ==
  ASSUME NEW n, NEW v, NEW seen
  PROVE  Read(State("label", n, v, seen), "}") = State("end", n, v, seen)
<1> DEFINE r == State("label", n, v, seen)
           q == Read(r, "}")
<1>1. /\ DOMAIN r = Fields
      /\ r.at = "label" /\ r.name = n /\ r.value = v /\ r.labels = seen
  BY StateFacts
<1> HIDE DEF r
<1>2. q = [r EXCEPT !.at = "end"]
  BY <1>1 DEF Read
<1>3. /\ q = [f \in Fields |-> q[f]]
      /\ q.at = "end" /\ q.name = n /\ q.value = v /\ q.labels = seen
  BY <1>1, <1>2 DEF Fields
<1> HIDE DEF q
<1>4. q = State("end", n, v, seen)
  BY <1>3, StateIs
<1>5. QED
  BY <1>4 DEF r, q

-----------------------------------------------------------------------------
(* Reading a text *)

\* The states of the reader after each number of characters.
IsReading(r, from, text) ==
  r = [i \in 0..Len(text) |-> IF i = 0 THEN from ELSE Read(r[i - 1], text[i])]

\* They begin with the first and take a character with each step.
Steps(r, from, text) ==
  /\ r[0] = from
  /\ \A i \in 1..Len(text) : r[i] = Read(r[i - 1], text[i])

\* The recursion of Reading, read off its solution.
LEMMA ReadingSteps ==
  ASSUME NEW r, NEW from, NEW text, Len(text) \in Nat, IsReading(r, from, text)
  PROVE  Steps(r, from, text)
<1> DEFINE n == Len(text)
           step(i) == Read(r[i - 1], text[i])
<1>1. r = [i \in 0..n |-> IF i = 0 THEN from ELSE step(i)]
  BY DEF IsReading
<1>2. \A i \in 0..n : r[i] = IF i = 0 THEN from ELSE step(i)
  <2> HIDE DEF step, n
  <2>1. QED
    BY <1>1
<1>3. QED
  BY <1>2 DEF Steps

\* And the other way round, for a function on the numbers of characters.
LEMMA StepsAreReading ==
  ASSUME NEW r, NEW from, NEW text, Len(text) \in Nat,
         r = [i \in 0..Len(text) |-> r[i]], Steps(r, from, text)
  PROVE  IsReading(r, from, text)
<1> DEFINE n == Len(text)
           step(i) == Read(r[i - 1], text[i])
<1>1. \A i \in 0..n : r[i] = IF i = 0 THEN from ELSE step(i)
  <2>1. n \in Nat /\ r[0] = from /\ \A i \in 1..n : r[i] = step(i)
    BY DEF Steps
  <2> HIDE DEF step, n
  <2>2. QED
    BY <2>1
<1>2. r = [i \in 0..n |-> IF i = 0 THEN from ELSE step(i)]
  <2>1. r = [i \in 0..n |-> r[i]]
    OBVIOUS
  <2> HIDE DEF step, n
  <2>2. QED
    BY <1>1, <2>1
<1>3. QED
  BY <1>2 DEF IsReading

\* The recursion has a solution.
LEMMA ReadingExists ==
  ASSUME NEW S, NEW from
  PROVE  \A text \in Seq(S) : \E r : IsReading(r, from, text)
<1> DEFINE B == {n \in Nat : \E text \in Seq(S) :
                              Len(text) = n /\ ~ \E r : IsReading(r, from, text)}
<1>1. ASSUME B # {} PROVE FALSE
  <2>1. PICK n \in B : \A m \in B : n <= m
    <3>1. B \subseteq Nat
      OBVIOUS
    <3> HIDE DEF B
    <3>2. QED
      BY <1>1, <3>1, SmallestNumber
  <2>2. PICK text \in Seq(S) : Len(text) = n /\ ~ \E r : IsReading(r, from, text)
    BY <2>1
  <2>3. CASE n = 0
    <3> DEFINE r == [i \in 0..0 |-> from]
    <3>1. r[0] = from /\ Len(text) = 0 /\ r = [i \in 0..Len(text) |-> r[i]]
      <4>1. \A i \in 0..0 : r[i] = from
        OBVIOUS
      <4>2. r = [i \in 0..0 |-> r[i]]
        OBVIOUS
      <4> HIDE DEF r
      <4>3. 0 \in 0..0
        OBVIOUS
      <4>4. QED
        BY <2>2, <2>3, <4>1, <4>2, <4>3
    <3>2. Steps(r, from, text)
      BY <3>1 DEF Steps
    <3>3. IsReading(r, from, text)
      BY <3>1, <3>2, StepsAreReading
    <3>4. QED
      BY <2>2, <3>3
  <2>4. CASE n # 0
    <3> DEFINE m == n - 1
               front == SubSeq(text, 1, m)
    <3>1. n \in Nat /\ m \in Nat /\ m \notin B /\ m + 1 = n
      BY <2>1, <2>4
    <3>2. front \in Seq(S) /\ Len(front) = m /\ \A i \in 1..m : front[i] = text[i]
      BY <2>2, <3>1
    <3>3. PICK r : IsReading(r, from, front)
      BY <3>1, <3>2
    <3>4. r[0] = from /\ \A i \in 1..m : r[i] = Read(r[i - 1], text[i])
      <4> HIDE DEF front, m
      <4>1. Steps(r, from, front)
        BY <3>1, <3>2, <3>3, ReadingSteps
      <4>2. QED
        BY <3>2, <4>1 DEF Steps
    <3> HIDE DEF front, m
    <3> DEFINE end == Read(r[m], text[n])
               new == [i \in 0..n |-> IF i = n THEN end ELSE r[i]]
    <3>5. /\ new = [i \in 0..n |-> new[i]]
          /\ new[n] = end /\ \A i \in 0..m : new[i] = r[i]
      BY <3>1
    <3> HIDE DEF new
    <3>6. \A i \in 1..n : new[i] = Read(new[i - 1], text[i])
      <4>1. SUFFICES ASSUME NEW i \in 1..n PROVE new[i] = Read(new[i - 1], text[i])
        OBVIOUS
      <4>2. i - 1 \in 0..m /\ new[i - 1] = r[i - 1]
        BY <3>1, <3>5
      <4>3. CASE i = n
        BY <3>1, <3>5, <4>2, <4>3
      <4>4. CASE i # n
        <5>1. i \in 1..m /\ i \in 0..m
          BY <3>1, <4>4
        <5>2. QED
          BY <3>4, <3>5, <4>2, <5>1
      <4>5. QED
        BY <4>3, <4>4
    <3>7. Steps(new, from, text)
      <4>1. 0 \in 0..m
        BY <3>1
      <4>2. QED
        BY <2>2, <3>4, <3>5, <3>6, <4>1 DEF Steps
    <3>8. IsReading(new, from, text)
      BY <2>2, <3>1, <3>5, <3>7, StepsAreReading
    <3>9. QED
      BY <2>2, <3>8
  <2>5. QED
    BY <2>3, <2>4
<1>2. QED
  BY <1>1

\* Reading takes it, and it is the only one.
LEMMA ReadingIs ==
  ASSUME NEW S, NEW text \in Seq(S), NEW from, NEW r, Steps(r, from, text)
  PROVE  Reading(from, text) = r[Len(text)]
<1> DEFINE n == Len(text)
           q == CHOOSE q : IsReading(q, from, text)
<1>1. IsReading(q, from, text) /\ n \in Nat
  BY ReadingExists
<1>2. Reading(from, text) = q[n]
  BY DEF Reading, IsReading
<1>3. Steps(q, from, text)
  BY <1>1, ReadingSteps
<1> HIDE DEF q
<1> DEFINE B == {i \in 0..n : q[i] # r[i]}
<1>4. ASSUME B # {} PROVE FALSE
  <2>1. PICK i \in B : \A j \in B : i <= j
    <3>1. B \subseteq Nat
      BY <1>1
    <3> HIDE DEF B
    <3>2. QED
      BY <1>4, <3>1, SmallestNumber
  <2>2. q[0] = r[0]
    BY <1>3 DEF Steps
  <2>3. i \in 1..n /\ i - 1 \in 0..n /\ i - 1 \notin B
    BY <1>1, <2>1, <2>2
  <2>4. q[i - 1] = r[i - 1]
    BY <2>3
  <2>5. QED
    BY <1>3, <2>1, <2>3, <2>4 DEF Steps
<1>5. n \in 0..n
  BY <1>1
<1>6. QED
  BY <1>2, <1>4, <1>5

\* There are states of the reader for each text.
LEMMA ReadingHas ==
  ASSUME NEW S, NEW text \in Seq(S), NEW from
  PROVE  \E r : Steps(r, from, text) /\ Reading(from, text) = r[Len(text)]
<1>1. PICK r : IsReading(r, from, text)
  BY ReadingExists
<1>2. Steps(r, from, text)
  BY <1>1, ReadingSteps
<1>3. QED
  BY <1>2, ReadingIs

\* A text is read to its end, whatever comes behind.
LEMMA ReadingConcat ==
  ASSUME NEW S, NEW s \in Seq(S), NEW t \in Seq(S), NEW from
  PROVE  Reading(from, s \o t) = Reading(Reading(from, s), t)
<1> DEFINE n == Len(s)
           m == Len(t)
           both == s \o t
<1>1. PICK q : Steps(q, from, s) /\ Reading(from, s) = q[n]
  BY ReadingHas
<1>2. PICK r : Steps(r, q[n], t) /\ Reading(q[n], t) = r[m]
  BY ReadingHas
<1>3. /\ n \in Nat /\ m \in Nat /\ both \in Seq(S) /\ Len(both) = n + m
      /\ \A i \in 1..n : both[i] = s[i]
      /\ \A i \in 1..m : both[n + i] = t[i]
  OBVIOUS
<1>4. /\ q[0] = from /\ \A i \in 1..n : q[i] = Read(q[i - 1], s[i])
      /\ r[0] = q[n] /\ \A i \in 1..m : r[i] = Read(r[i - 1], t[i])
  BY <1>1, <1>2 DEF Steps
<1> HIDE DEF n, m, both
<1> DEFINE new == [i \in 0..(n + m) |-> IF i <= n THEN q[i] ELSE r[i - n]]
<1>5. /\ \A i \in 0..n : new[i] = q[i]
      /\ \A i \in 0..m : new[n + i] = r[i]
  <2>1. ASSUME NEW i \in 0..n PROVE new[i] = q[i]
    BY <1>3
  <2>2. ASSUME NEW i \in 0..m PROVE new[n + i] = r[i]
    <3>1. n + i \in 0..(n + m) /\ (n + i) - n = i
      BY <1>3
    <3>2. CASE i = 0
      <4>1. new[n + i] = q[n]
        BY <1>3, <3>2
      <4>2. QED
        BY <1>4, <3>2, <4>1
    <3>3. CASE i # 0
      BY <1>3, <3>1, <3>3
    <3>4. QED
      BY <3>2, <3>3
  <2>3. QED
    BY <2>1, <2>2
<1> HIDE DEF new
<1>6. ASSUME NEW i \in 1..(n + m) PROVE new[i] = Read(new[i - 1], both[i])
  <2>1. CASE i <= n
    <3>1. i \in 1..n /\ i \in 0..n /\ i - 1 \in 0..n
      BY <1>3, <2>1
    <3>2. QED
      BY <1>3, <1>4, <1>5, <3>1
  <2>2. CASE ~(i <= n)
    <3> DEFINE j == i - n
    <3>1. j \in 1..m /\ j \in 0..m /\ j - 1 \in 0..m /\ i = n + j /\ i - 1 = n + (j - 1)
      BY <1>3, <2>2
    <3> HIDE DEF j
    <3>2. new[i] = r[j] /\ new[i - 1] = r[j - 1] /\ both[i] = t[j]
      BY <1>3, <1>5, <3>1
    <3>3. QED
      BY <1>4, <3>1, <3>2
  <2>3. QED
    BY <2>1, <2>2
<1>7. new[0] = from /\ new[n + m] = r[m]
  <2>1. 0 \in 0..n /\ m \in 0..m
    BY <1>3
  <2>2. QED
    BY <1>4, <1>5, <2>1
<1>8. Steps(new, from, both)
  BY <1>3, <1>6, <1>7 DEF Steps
<1>9. Reading(from, both) = r[m]
  <2>1. both \in Seq(S) /\ Len(both) = n + m
    BY <1>3
  <2>2. Reading(from, both) = new[Len(both)]
    BY <1>8, <2>1, ReadingIs
  <2>3. QED
    BY <1>7, <2>1, <2>2
<1>10. QED
  BY <1>1, <1>2, <1>9 DEF both, m

\* Nothing leaves the reader as it is.
LEMMA ReadingNothing == \A from : Reading(from, <<>>) = from
<1>1. TAKE from
<1>2. <<>> \in Seq({}) /\ Len(<<>>) = 0
  OBVIOUS
<1>3. PICK q : Steps(q, from, <<>>) /\ Reading(from, <<>>) = q[Len(<<>>)]
  BY <1>2, ReadingHas
<1>4. QED
  BY <1>2, <1>3 DEF Steps

\* One character is one step.
LEMMA ReadingOne ==
  ASSUME NEW from, NEW S, NEW ch \in S
  PROVE  Reading(from, <<ch>>) = Read(from, ch)
<1> DEFINE text == <<ch>>
<1>1. text \in Seq(S) /\ Len(text) = 1 /\ text[1] = ch
  OBVIOUS
<1> HIDE DEF text
<1>2. PICK r : Steps(r, from, text) /\ Reading(from, text) = r[Len(text)]
  BY <1>1, ReadingHas
<1>3. 1 \in 1..1 /\ 1 - 1 = 0
  OBVIOUS
<1>4. QED
  BY <1>1, <1>2, <1>3 DEF Steps, text

\* Texts of one, two and four characters.
LEMMA ShortTexts ==
  ASSUME NEW S, NEW a \in S, NEW b \in S, NEW c \in S, NEW d \in S
  PROVE  <<a>> \in Seq(S) /\ <<a, b>> \in Seq(S) /\ <<a, b, c, d>> \in Seq(S)
<1>1. <<a>> \in Seq(S)
  OBVIOUS
<1>2. <<a, b>> \in Seq(S)
  OBVIOUS
<1>3. <<a, b, c, d>> \in Seq(S)
  OBVIOUS
<1>4. QED
  BY <1>1, <1>2, <1>3

\* Nothing before a text.
LEMMA EmptyConcat == ASSUME NEW S, NEW text \in Seq(S) PROVE <<>> \o text = text
OBVIOUS

\* Two are two.
LEMMA ReadingTwo ==
  ASSUME NEW from, NEW S, NEW a \in S, NEW b \in S
  PROVE  Reading(from, <<a, b>>) = Read(Read(from, a), b)
<1> DEFINE text == <<a, b>>
<1>1. text \in Seq(S) /\ Len(text) = 2 /\ text[1] = a /\ text[2] = b
  OBVIOUS
<1> HIDE DEF text
<1>2. PICK r : Steps(r, from, text) /\ Reading(from, text) = r[Len(text)]
  BY <1>1, ReadingHas
<1>3. 1 \in 1..2 /\ 1 - 1 = 0 /\ 2 \in 1..2 /\ 2 - 1 = 1
  OBVIOUS
<1>4. r[0] = from /\ r[1] = Read(r[0], a) /\ r[2] = Read(r[1], b)
  BY <1>1, <1>2, <1>3 DEF Steps
<1>5. QED
  BY <1>1, <1>2, <1>4 DEF text

\* Three are three.
LEMMA ReadingThree ==
  ASSUME NEW from, NEW S, NEW a \in S, NEW b \in S, NEW c \in S
  PROVE  Reading(from, <<a, b, c>>) = Read(Read(Read(from, a), b), c)
<1> DEFINE text == <<a, b, c>>
<1>1. text \in Seq(S) /\ Len(text) = 3 /\ text[1] = a /\ text[2] = b /\ text[3] = c
  OBVIOUS
<1> HIDE DEF text
<1>2. PICK r : Steps(r, from, text) /\ Reading(from, text) = r[Len(text)]
  BY <1>1, ReadingHas
<1>3. 1 \in 1..3 /\ 1 - 1 = 0 /\ 2 \in 1..3 /\ 2 - 1 = 1 /\ 3 \in 1..3 /\ 3 - 1 = 2
  OBVIOUS
<1>4. r[0] = from /\ r[1] = Read(r[0], a) /\ r[2] = Read(r[1], b) /\ r[3] = Read(r[2], c)
  BY <1>1, <1>2, <1>3 DEF Steps
<1>5. QED
  BY <1>1, <1>2, <1>4 DEF text

\* Four are four.
LEMMA ReadingFour ==
  ASSUME NEW from, NEW S, NEW a \in S, NEW b \in S, NEW c \in S, NEW d \in S
  PROVE  Reading(from, <<a, b, c, d>>) = Read(Read(Read(Read(from, a), b), c), d)
<1> DEFINE text == <<a, b, c, d>>
<1>1. /\ text \in Seq(S) /\ Len(text) = 4
      /\ text[1] = a /\ text[2] = b /\ text[3] = c /\ text[4] = d
  OBVIOUS
<1> HIDE DEF text
<1>2. PICK r : Steps(r, from, text) /\ Reading(from, text) = r[Len(text)]
  BY <1>1, ReadingHas
<1>3. /\ 1 \in 1..4 /\ 1 - 1 = 0 /\ 2 \in 1..4 /\ 2 - 1 = 1
      /\ 3 \in 1..4 /\ 3 - 1 = 2 /\ 4 \in 1..4 /\ 4 - 1 = 3
  OBVIOUS
<1>4. /\ r[0] = from /\ r[1] = Read(r[0], a) /\ r[2] = Read(r[1], b)
      /\ r[3] = Read(r[2], c) /\ r[4] = Read(r[3], d)
  BY <1>1, <1>2, <1>3 DEF Steps
<1>5. QED
  BY <1>1, <1>2, <1>4 DEF text

-----------------------------------------------------------------------------
(* Texts put together *)

\* The text after each number of pieces.
IsFlat(f, seqs) ==
  f = [i \in 1..Len(seqs) |-> IF i = 1 THEN seqs[i] ELSE f[i - 1] \o seqs[i]]

\* It begins with the first piece and takes one more with each step.
Pieces(f, seqs) ==
  /\ f[1] = seqs[1]
  /\ \A i \in 2..Len(seqs) : f[i] = f[i - 1] \o seqs[i]

\* The recursion of FlattenSeq, read off its solution.
LEMMA FlatPieces ==
  ASSUME NEW f, NEW seqs, Len(seqs) \in Nat \ {0}, IsFlat(f, seqs)
  PROVE  Pieces(f, seqs)
<1> DEFINE n == Len(seqs)
           step(i) == f[i - 1] \o seqs[i]
<1>1. f = [i \in 1..n |-> IF i = 1 THEN seqs[i] ELSE step(i)]
  BY DEF IsFlat
<1>2. \A i \in 1..n : f[i] = IF i = 1 THEN seqs[i] ELSE step(i)
  <2> HIDE DEF step, n
  <2>1. QED
    BY <1>1
<1>3. 1 \in 1..n /\ \A i \in 2..n : i \in 1..n /\ i # 1
  OBVIOUS
<1>4. f[1] = seqs[1] /\ \A i \in 2..n : f[i] = step(i)
  <2> HIDE DEF step, n
  <2>1. QED
    BY <1>2, <1>3
<1>5. QED
  BY <1>4 DEF Pieces

\* And the other way round.
LEMMA PiecesAreFlat ==
  ASSUME NEW f, NEW seqs, Len(seqs) \in Nat \ {0},
         f = [i \in 1..Len(seqs) |-> f[i]], Pieces(f, seqs)
  PROVE  IsFlat(f, seqs)
<1> DEFINE n == Len(seqs)
           step(i) == f[i - 1] \o seqs[i]
<1>1. \A i \in 1..n : f[i] = IF i = 1 THEN seqs[i] ELSE step(i)
  <2>1. f[1] = seqs[1] /\ \A i \in 2..n : f[i] = step(i)
    BY DEF Pieces
  <2>2. \A i \in 1..n : i = 1 \/ i \in 2..n
    OBVIOUS
  <2>3. \A i \in 2..n : i # 1
    OBVIOUS
  <2> HIDE DEF step, n
  <2>4. QED
    BY <2>1, <2>2, <2>3
<1>2. f = [i \in 1..n |-> IF i = 1 THEN seqs[i] ELSE step(i)]
  <2>1. f = [i \in 1..n |-> f[i]]
    OBVIOUS
  <2> HIDE DEF step, n
  <2>2. QED
    BY <1>1, <2>1
<1>3. QED
  BY <1>2 DEF IsFlat

\* The recursion has a solution.
LEMMA FlatExists ==
  ASSUME NEW S
  PROVE  \A seqs \in Seq(S) : Len(seqs) # 0 => \E f : IsFlat(f, seqs)
<1> DEFINE B == {n \in Nat : n # 0 /\ \E seqs \in Seq(S) :
                              Len(seqs) = n /\ ~ \E f : IsFlat(f, seqs)}
<1>1. ASSUME B # {} PROVE FALSE
  <2>1. PICK n \in B : \A m \in B : n <= m
    <3>1. B \subseteq Nat
      OBVIOUS
    <3> HIDE DEF B
    <3>2. QED
      BY <1>1, <3>1, SmallestNumber
  <2>2. PICK seqs \in Seq(S) : Len(seqs) = n /\ ~ \E f : IsFlat(f, seqs)
    BY <2>1
  <2>3. CASE n = 1
    <3> DEFINE f == [i \in 1..1 |-> seqs[i]]
    <3>1. f[1] = seqs[1] /\ f = [i \in 1..1 |-> f[i]]
      OBVIOUS
    <3> HIDE DEF f
    <3>2. Pieces(f, seqs)
      BY <2>2, <2>3, <3>1 DEF Pieces
    <3>3. IsFlat(f, seqs)
      BY <2>2, <2>3, <3>1, <3>2, PiecesAreFlat
    <3>4. QED
      BY <2>2, <3>3
  <2>4. CASE n # 1
    <3> DEFINE m == n - 1
               front == SubSeq(seqs, 1, m)
    <3>1. n \in Nat /\ m \in Nat /\ m \in Nat \ {0} /\ m \notin B /\ m + 1 = n
      BY <2>1, <2>4
    <3>2. front \in Seq(S) /\ Len(front) = m /\ \A i \in 1..m : front[i] = seqs[i]
      BY <2>2, <3>1
    <3>3. PICK f : IsFlat(f, front)
      BY <3>1, <3>2
    <3>4. f[1] = seqs[1] /\ \A i \in 2..m : f[i] = f[i - 1] \o seqs[i]
      <4> HIDE DEF front, m
      <4>1. Pieces(f, front)
        BY <3>1, <3>2, <3>3, FlatPieces
      <4>2. 1 \in 1..m /\ \A i \in 2..m : i \in 1..m
        BY <3>1
      <4>3. QED
        BY <3>2, <4>1, <4>2 DEF Pieces
    <3> HIDE DEF front, m
    <3> DEFINE end == f[m] \o seqs[n]
               new == [i \in 1..n |-> IF i = n THEN end ELSE f[i]]
    <3>5. /\ new = [i \in 1..n |-> new[i]]
          /\ new[n] = end /\ \A i \in 1..m : new[i] = f[i]
      <4>1. n \in 1..n /\ \A i \in 1..m : i \in 1..n /\ i # n
        BY <3>1
      <4> HIDE DEF end
      <4>2. QED
        BY <4>1
    <3> HIDE DEF new
    <3>6. \A i \in 2..n : new[i] = new[i - 1] \o seqs[i]
      <4>1. SUFFICES ASSUME NEW i \in 2..n PROVE new[i] = new[i - 1] \o seqs[i]
        OBVIOUS
      <4>2. i - 1 \in 1..m
        BY <3>1
      <4>3. new[i - 1] = f[i - 1]
        BY <3>5, <4>2
      <4>4. CASE i = n
        <5>1. i - 1 = m
          BY <3>1, <4>4
        <5>2. QED
          BY <3>5, <4>3, <4>4, <5>1
      <4>5. CASE i # n
        <5>1. i \in 2..m /\ i \in 1..m
          BY <3>1, <4>5
        <5>2. QED
          BY <3>4, <3>5, <4>3, <5>1
      <4>6. QED
        BY <4>4, <4>5
    <3>7. Pieces(new, seqs)
      <4>1. 1 \in 1..m
        BY <3>1
      <4>2. QED
        BY <2>2, <3>4, <3>5, <3>6, <4>1 DEF Pieces
    <3>8. IsFlat(new, seqs)
      BY <2>2, <3>1, <3>5, <3>7, PiecesAreFlat
    <3>9. QED
      BY <2>2, <3>8
  <2>5. QED
    BY <2>3, <2>4
<1>2. QED
  BY <1>1

\* FlattenSeq takes one.
LEMMA FlattenHas ==
  ASSUME NEW S, NEW seqs \in Seq(S), Len(seqs) # 0
  PROVE  \E f : Pieces(f, seqs) /\ FlattenSeq(seqs) = f[Len(seqs)]
<1> DEFINE n == Len(seqs)
           f == CHOOSE f : IsFlat(f, seqs)
<1>1. IsFlat(f, seqs)
  BY FlatExists
<1>2. FlattenSeq(seqs) = f[n]
  BY DEF FlattenSeq, IsFlat
<1>3. n \in Nat \ {0}
  OBVIOUS
<1> HIDE DEF f
<1>4. QED
  BY <1>1, <1>2, <1>3, FlatPieces

\* Texts put together are read one after the other: if each takes the reader from one
\* state to the next, all of them take it from the first to the last.
LEMMA FlattenReads ==
  ASSUME NEW S, NEW seqs \in Seq(Seq(S)), NEW q,
         \A i \in 1..Len(seqs) : Reading(q[i - 1], seqs[i]) = q[i]
  PROVE  FlattenSeq(seqs) \in Seq(S) /\ Reading(q[0], FlattenSeq(seqs)) = q[Len(seqs)]
<1> DEFINE n == Len(seqs)
<1>1. n \in Nat /\ \A i \in 1..n : seqs[i] \in Seq(S)
  OBVIOUS
<1>2. CASE n = 0
  <2>1. seqs = <<>> /\ FlattenSeq(seqs) = seqs
    BY <1>2 DEF FlattenSeq
  <2>2. Reading(q[0], <<>>) = q[0]
    BY ReadingNothing
  <2>3. <<>> \in Seq(S)
    OBVIOUS
  <2>4. QED
    BY <1>2, <2>1, <2>2, <2>3
<1>3. CASE n # 0
  <2>1. PICK f : Pieces(f, seqs) /\ FlattenSeq(seqs) = f[n]
    BY <1>3, FlattenHas
  <2> DEFINE B == {i \in 1..n : ~(f[i] \in Seq(S) /\ Reading(q[0], f[i]) = q[i])}
  <2>2. ASSUME B # {} PROVE FALSE
    <3>1. PICK i \in B : \A j \in B : i <= j
      <4>1. B \subseteq Nat
        BY <1>1
      <4> HIDE DEF B
      <4>2. QED
        BY <2>2, <4>1, SmallestNumber
    <3>2. CASE i = 1
      <4>1. f[1] = seqs[1] /\ 1 \in 1..n /\ 1 - 1 = 0
        BY <1>1, <1>3, <2>1 DEF Pieces
      <4>2. QED
        BY <1>1, <3>1, <3>2, <4>1
    <3>3. CASE i # 1
      <4>1. i \in 2..n /\ i - 1 \in 1..n /\ i - 1 \notin B
        BY <1>1, <3>1, <3>3
      <4>2. f[i - 1] \in Seq(S) /\ Reading(q[0], f[i - 1]) = q[i - 1]
        BY <4>1
      <4>3. f[i] = f[i - 1] \o seqs[i] /\ seqs[i] \in Seq(S)
        BY <1>1, <2>1, <3>1, <4>1 DEF Pieces
      <4>4. f[i] \in Seq(S)
        BY <4>2, <4>3
      <4>5. Reading(q[0], f[i]) = q[i]
        BY <3>1, <4>2, <4>3, ReadingConcat
      <4>6. QED
        BY <3>1, <4>4, <4>5
    <3>4. QED
      BY <3>2, <3>3
  <2>3. n \in 1..n
    BY <1>1, <1>3
  <2>4. QED
    BY <2>1, <2>2, <2>3
<1>4. QED
  BY <1>2, <1>3

-----------------------------------------------------------------------------
(* Labels read back *)

\* Characters of which labels are made.
Charset(S) ==
  /\ DOMAIN NameRank \subseteq S
  /\ "{" \in S /\ "}" \in S /\ "," \in S /\ "=" \in S /\ "n" \in S
  /\ Newline \in S /\ Backslash \in S /\ Quote \in S
  /\ LabelValues \subseteq Seq(S)

\* A character of a value is read as it was before it was escaped.
LEMMA EscapeStep ==
  ASSUME NEW S, Charset(S), NEW ch \in S, NEW n, NEW w, NEW seen
  PROVE  /\ Escape(ch) \in Seq(S)
         /\ Reading(State("value", n, w, seen), Escape(ch)) = State("value", n, Append(w, ch), seen)
<1> DEFINE r == State("value", n, w, seen)
           q == State("escaped", n, w, seen)
<1>1. Newline # Quote /\ Newline # Backslash /\ Quote # Backslash
  BY DEF Newline, Quote, Backslash
<1>2. "n" \in S /\ Backslash \in S
  BY DEF Charset
<1>3. CASE ch = Newline
  <2>1. Escape(ch) = <<Backslash, "n">>
    BY <1>1, <1>3 DEF Escape
  <2>2. Read(r, Backslash) = q
    BY ReadBackslash
  <2>3. Read(q, "n") = State("value", n, Append(w, ch), seen)
    BY <1>3, ReadNewline
  <2> HIDE DEF r, q
  <2>4. Reading(r, <<Backslash, "n">>) = Read(Read(r, Backslash), "n")
    BY <1>2, ReadingTwo
  <2>5. <<Backslash, "n">> \in Seq(S)
    BY <1>2
  <2>6. QED
    BY <2>1, <2>2, <2>3, <2>4, <2>5 DEF r
<1>4. CASE ch \in {Backslash, Quote}
  <2>1. Escape(ch) = <<Backslash, ch>>
    BY <1>1, <1>4 DEF Escape
  <2>2. Read(r, Backslash) = q
    BY ReadBackslash
  <2>3. Read(q, ch) = State("value", n, Append(w, ch), seen)
    BY <1>4, ReadEscaped
  <2> HIDE DEF r, q
  <2>4. Reading(r, <<Backslash, ch>>) = Read(Read(r, Backslash), ch)
    BY <1>2, ReadingTwo
  <2>5. <<Backslash, ch>> \in Seq(S)
    BY <1>2
  <2>6. QED
    BY <2>1, <2>2, <2>3, <2>4, <2>5 DEF r
<1>5. CASE ch \notin {Newline, Backslash, Quote}
  <2>1. Escape(ch) = <<ch>>
    BY <1>5 DEF Escape
  <2>2. Read(r, ch) = State("value", n, Append(w, ch), seen)
    BY <1>5, ReadPlain
  <2> HIDE DEF r
  <2>3. Reading(r, <<ch>>) = Read(r, ch)
    BY ReadingOne
  <2>4. QED
    BY <2>1, <2>2, <2>3 DEF r
<1>6. QED
  BY <1>3, <1>4, <1>5

\* The front of a sequence, one element longer.
LEMMA PrefixFacts ==
  ASSUME NEW S, NEW seq \in Seq(S)
  PROVE  /\ SubSeq(seq, 1, 0) = <<>> /\ SubSeq(seq, 1, Len(seq)) = seq
         /\ \A i \in 1..Len(seq) : Append(SubSeq(seq, 1, i - 1), seq[i]) = SubSeq(seq, 1, i)
OBVIOUS

\* And so is a value.
LEMMA EscapeReads ==
  ASSUME NEW S, Charset(S), NEW value \in Seq(S), NEW n, NEW seen
  PROVE  /\ EscapeLabelValue(value) \in Seq(S)
         /\ Reading(State("value", n, <<>>, seen), EscapeLabelValue(value))
              = State("value", n, value, seen)
<1> DEFINE k == Len(value)
           esc(i) == Escape(value[i])
           seqs == [i \in DOMAIN value |-> esc(i)]
           at(i) == State("value", n, SubSeq(value, 1, i), seen)
           q == [i \in 0..k |-> at(i)]
<1>1. k \in Nat /\ DOMAIN value = 1..k /\ \A i \in 1..k : value[i] \in S
  OBVIOUS
<1>2. ASSUME NEW i \in 1..k PROVE esc(i) \in Seq(S) /\ Reading(at(i - 1), esc(i)) = at(i)
  <2>1. value[i] \in S
    BY <1>1
  <2>2. Append(SubSeq(value, 1, i - 1), value[i]) = SubSeq(value, 1, i)
    BY PrefixFacts
  <2>3. /\ esc(i) \in Seq(S)
        /\ Reading(at(i - 1), esc(i))
             = State("value", n, Append(SubSeq(value, 1, i - 1), value[i]), seen)
    BY <2>1, EscapeStep
  <2>4. QED
    BY <2>2, <2>3
<1>3. at(0) = State("value", n, <<>>, seen) /\ at(k) = State("value", n, value, seen)
  BY PrefixFacts
<1>4. EscapeLabelValue(value) = FlattenSeq(seqs)
  BY DEF EscapeLabelValue
<1> HIDE DEF esc, at, k
<1>5. /\ seqs \in Seq(Seq(S)) /\ Len(seqs) = k
      /\ \A i \in 1..k : seqs[i] = esc(i)
  BY <1>1, <1>2
<1>6. /\ \A i \in 1..k : q[i - 1] = at(i - 1) /\ q[i] = at(i)
      /\ q[0] = at(0) /\ q[k] = at(k)
  <2>1. \A i \in 0..k : q[i] = at(i)
    OBVIOUS
  <2>2. 0 \in 0..k /\ k \in 0..k /\ \A i \in 1..k : i \in 0..k /\ i - 1 \in 0..k
    BY <1>1
  <2> HIDE DEF q
  <2>3. QED
    BY <2>1, <2>2
<1> HIDE DEF seqs, q
<1>7. \A i \in 1..Len(seqs) : Reading(q[i - 1], seqs[i]) = q[i]
  BY <1>2, <1>5, <1>6
<1>8. FlattenSeq(seqs) \in Seq(S) /\ Reading(q[0], FlattenSeq(seqs)) = q[Len(seqs)]
  BY <1>5, <1>7, FlattenReads
<1>9. QED
  BY <1>3, <1>4, <1>5, <1>6, <1>8

\* A name, a value and what stands around them are read as the label.
LEMMA LabelReads ==
  ASSUME NEW S, Charset(S), NEW name \in DOMAIN NameRank, NEW value \in Seq(S),
         NEW n, NEW v, NEW seen
  PROVE  LET text == <<name, "=", Quote>> \o EscapeLabelValue(value) \o <<Quote>> IN
         /\ text \in Seq(S)
         /\ Reading(State("name", n, v, seen), text)
              = State("label", name, value, seen \cup {[name |-> name, value |-> value]})
<1> DEFINE from == State("name", n, v, seen)
           open == State("value", name, <<>>, seen)
           full == State("value", name, value, seen)
           head == <<name, "=", Quote>>
           esc  == EscapeLabelValue(value)
<1>1. name \in S /\ "=" \in S /\ Quote \in S
  BY DEF Charset
<1>2. Reading(from, head) = open
  <2>1. Reading(from, head) = Read(Read(Read(from, name), "="), Quote)
    <3> HIDE DEF from
    <3>1. QED
      BY <1>1, ReadingThree
  <2>2. Read(from, name) = State("=", name, v, seen)
    BY ReadName
  <2>3. Read(State("=", name, v, seen), "=") = State("open", name, v, seen)
    BY ReadEquals
  <2>4. Read(State("open", name, v, seen), Quote) = open
    BY ReadOpen
  <2>5. QED
    BY <2>1, <2>2, <2>3, <2>4
<1>3. esc \in Seq(S) /\ Reading(open, esc) = full
  BY EscapeReads
<1>4. Reading(full, <<Quote>>)
        = State("label", name, value, seen \cup {[name |-> name, value |-> value]})
  <2>1. Reading(full, <<Quote>>) = Read(full, Quote)
    <3> HIDE DEF full
    <3>1. QED
      BY <1>1, ReadingOne
  <2>2. Read(full, Quote)
          = State("label", name, value, seen \cup {[name |-> name, value |-> value]})
    BY ReadClose
  <2>3. QED
    BY <2>1, <2>2
<1>5. head \in Seq(S) /\ <<Quote>> \in Seq(S)
  BY <1>1
<1> HIDE DEF from, open, full, head, esc
<1>6. head \o esc \in Seq(S) /\ (head \o esc) \o <<Quote>> \in Seq(S)
  BY <1>3, <1>5
<1>7. Reading(from, head \o esc) = full
  BY <1>2, <1>3, <1>5, ReadingConcat
<1>8. Reading(from, (head \o esc) \o <<Quote>>) = Reading(full, <<Quote>>)
  BY <1>5, <1>6, <1>7, ReadingConcat
<1>9. QED
  BY <1>4, <1>6, <1>8 DEF from, head, esc

-----------------------------------------------------------------------------
(* The order of labels *)

LabelType == [name : DOMAIN NameRank, value : LabelValues]

\* A list that names no label twice.
Distinct(list) ==
  /\ list \in Seq(LabelType)
  /\ \A i, j \in DOMAIN list : list[i].name = list[j].name => i = j

RankOf(label) == NameRank[label.name]

\* Its labels, in this order, ascend.
Ascends(list, order) ==
  \A i, j \in DOMAIN list : i < j => RankOf(list[order[i]]) < RankOf(list[order[j]])

\* A list, its labels and their ranks.
LEMMA ListFacts ==
  ASSUME NEW list, Distinct(list)
  PROVE  /\ Len(list) \in Nat /\ DOMAIN list = 1..Len(list)
         /\ \A i \in 1..Len(list) :
              /\ list[i] \in LabelType /\ list[i].name \in DOMAIN NameRank
              /\ list[i].value \in LabelValues /\ RankOf(list[i]) \in Nat
              /\ list[i] = [name |-> list[i].name, value |-> list[i].value]
         /\ \A i, j \in 1..Len(list) : RankOf(list[i]) = RankOf(list[j]) => i = j
<1>1. list \in Seq(LabelType)
  BY DEF Distinct
<1>2. Len(list) \in Nat /\ DOMAIN list = 1..Len(list)
  BY <1>1
<1>3. \A i \in 1..Len(list) : list[i] \in LabelType
  BY <1>1
<1>4. \A label \in LabelType :
        /\ label.name \in DOMAIN NameRank /\ label.value \in LabelValues
        /\ label = [name |-> label.name, value |-> label.value]
  BY DEF LabelType
<1>5. \A i \in 1..Len(list) : RankOf(list[i]) \in Nat
  BY <1>3, <1>4, NameAssumption DEF RankOf
<1>6. ASSUME NEW i \in 1..Len(list), NEW j \in 1..Len(list), RankOf(list[i]) = RankOf(list[j])
      PROVE  i = j
  <2>1. list[i].name = list[j].name
    BY <1>3, <1>4, <1>6, NameAssumption DEF RankOf
  <2>2. QED
    BY <1>2, <2>1 DEF Distinct
<1>7. QED
  BY <1>2, <1>3, <1>4, <1>5, <1>6

\* Every list has an order in which it ascends: first the label of the smallest rank.
LEMMA OrderExists ==
  ASSUME NEW list, Distinct(list)
  PROVE  \E order \in [DOMAIN list -> DOMAIN list] : Ascends(list, order)
<1> DEFINE n == Len(list)
           rank == [i \in 1..n |-> RankOf(list[i])]
           R == {rank[i] : i \in 1..n}
           below(i) == {x \in R : x <= rank[i]}
<1>1. n \in Nat /\ DOMAIN list = 1..n
  BY ListFacts
<1>2. rank \in [1..n -> Nat] /\ \A i, j \in 1..n : rank[i] = rank[j] => i = j
  BY ListFacts
<1>3. \A i \in 1..n : rank[i] = RankOf(list[i])
  OBVIOUS
<1> HIDE DEF rank
<1>4. R \subseteq Nat
  BY <1>2
<1>5. IsFiniteSet(R) /\ Cardinality(R) = n
  <2>1. IsFiniteSet(1..n) /\ Cardinality(1..n) = n
    <3> HIDE DEF n
    <3>1. n \in Nat
      BY <1>1
    <3>2. QED
      BY <3>1, FS_Interval
  <2>2. rank \in Surjection(1..n, R) /\ rank \in Injection(1..n, R)
    <3>1. rank \in [1..n -> R]
      BY <1>2
    <3>2. QED
      BY <1>2, <3>1 DEF Surjection, Injection, IsInjective
  <2>3. QED
    BY <2>1, <2>2, FS_Surjection
<1>6. \A k \in 1..n : \E i \in 1..n : Cardinality(below(i)) = k
  <2> HIDE DEF R
  <2>1. ASSUME NEW k \in 1..n PROVE \E b \in R : Cardinality({x \in R : x <= b}) = k
    BY <1>4, <1>5, NthSmallest
  <2>2. QED
    BY <2>1 DEF R
<1>7. ASSUME NEW i \in 1..n, NEW j \in 1..n, rank[j] <= rank[i]
      PROVE  Cardinality(below(j)) <= Cardinality(below(i))
  <2>1. below(j) \subseteq below(i)
    BY <1>2, <1>4, <1>7
  <2>2. IsFiniteSet(below(i))
    BY <1>5, FS_Subset
  <2> HIDE DEF below
  <2>3. QED
    BY <2>1, <2>2, FS_Subset
<1> DEFINE at(k) == CHOOSE i \in 1..n : Cardinality(below(i)) = k
           order == [k \in 1..n |-> at(k)]
<1> HIDE DEF below
<1>8. \A k \in 1..n : at(k) \in 1..n /\ Cardinality(below(at(k))) = k
  BY <1>6
<1> HIDE DEF at
<1>9. order \in [1..n -> 1..n] /\ \A k \in 1..n : order[k] = at(k)
  BY <1>8
<1> HIDE DEF order
<1>10. ASSUME NEW j \in 1..n, NEW k \in 1..n, j < k
       PROVE  rank[order[j]] < rank[order[k]]
  <2>1. order[j] \in 1..n /\ order[k] \in 1..n
    BY <1>9
  <2>2. Cardinality(below(order[j])) = j /\ Cardinality(below(order[k])) = k
    BY <1>8, <1>9
  <2>3. ~(rank[order[k]] <= rank[order[j]])
    BY <1>7, <1>10, <2>1, <2>2
  <2>4. rank[order[j]] \in Nat /\ rank[order[k]] \in Nat
    BY <1>2, <2>1
  <2>5. QED
    BY <2>3, <2>4
<1>11. Ascends(list, order)
  BY <1>1, <1>3, <1>9, <1>10 DEF Ascends
<1>12. QED
  BY <1>1, <1>9, <1>11

\* A list that is sorted: its ranks ascend.
Sorted(list) == \A i, j \in 1..Len(list) : i < j => RankOf(list[i]) < RankOf(list[j])

\* SortLabels gives the same labels, sorted.
LEMMA SortFacts ==
  ASSUME NEW list, Distinct(list)
  PROVE  /\ SortLabels(list) \in Seq(LabelType) /\ Len(SortLabels(list)) = Len(list)
         /\ Range(SortLabels(list)) = Range(list)
         /\ Sorted(SortLabels(list))
<1> DEFINE n == Len(list)
           order == CHOOSE order \in [DOMAIN list -> DOMAIN list] : Ascends(list, order)
           sorted == [i \in DOMAIN list |-> list[order[i]]]
<1>1. order \in [DOMAIN list -> DOMAIN list] /\ Ascends(list, order)
  BY OrderExists
<1>2. SortLabels(list) = sorted
  BY DEF SortLabels, Ascends, RankOf
<1> HIDE DEF order
<1>3. n \in Nat /\ DOMAIN list = 1..n /\ \A i \in 1..n : list[i] \in LabelType /\ RankOf(list[i]) \in Nat
  BY ListFacts
<1>4. order \in [1..n -> 1..n]
  BY <1>1, <1>3
<1>5. \A i, j \in 1..n : i < j => RankOf(list[order[i]]) < RankOf(list[order[j]])
  BY <1>1, <1>3 DEF Ascends
<1>6. \A i \in 1..n : order[i] \in 1..n /\ RankOf(list[order[i]]) \in Nat
  BY <1>3, <1>4
<1> HIDE DEF n
<1>7. sorted \in Seq(LabelType) /\ Len(sorted) = n /\ \A i \in 1..n : sorted[i] = list[order[i]]
  BY <1>3, <1>4
<1> HIDE DEF sorted
<1>8. order \in Surjection(1..n, 1..n)
  <2>1. ASSUME NEW i \in 1..n, NEW j \in 1..n, order[i] = order[j] PROVE i = j
    <3>1. ~(i < j) /\ ~(j < i)
      BY <1>5, <1>6, <2>1
    <3>2. QED
      BY <1>3, <3>1
  <2>2. order \in Injection(1..n, 1..n)
    BY <1>4, <2>1 DEF Injection, IsInjective
  <2>3. IsFiniteSet(1..n)
    BY <1>3, FS_Interval
  <2>4. QED
    BY <2>2, <2>3, FS_Injection
<1>9. Range(sorted) = Range(list)
  <2>1. DOMAIN sorted = 1..n
    BY <1>3, <1>7
  <2>2. \A i \in 1..n : \E j \in 1..n : order[j] = i
    BY <1>8 DEF Surjection
  <2>3. \A i \in 1..n : list[i] \in Range(sorted)
    BY <1>7, <2>1, <2>2 DEF Range
  <2>4. \A i \in 1..n : sorted[i] \in Range(list)
    BY <1>3, <1>6, <1>7 DEF Range
  <2>5. QED
    BY <1>3, <2>1, <2>3, <2>4 DEF Range
<1>10. Sorted(sorted)
  BY <1>5, <1>7 DEF Sorted
<1>11. QED
  BY <1>2, <1>7, <1>9, <1>10 DEF n

\* Of two sorted lists of the same labels, neither can be first to have a label of a
\* smaller rank than the other.
LEMMA SortedNotAfter ==
  ASSUME NEW a, a \in Seq(LabelType), NEW b, b \in Seq(LabelType),
         Sorted(a), Sorted(b), Range(a) = Range(b), Len(a) = Len(b),
         NEW i \in 1..Len(a), \A j \in 1..Len(a) : j < i => a[j] = b[j]
  PROVE  a[i] # b[i] => RankOf(b[i]) < RankOf(a[i])
<1>1. SUFFICES ASSUME a[i] # b[i] PROVE RankOf(b[i]) < RankOf(a[i])
  OBVIOUS
<1> DEFINE n == Len(a)
<1>2. n \in Nat /\ DOMAIN a = 1..n /\ DOMAIN b = 1..n
  OBVIOUS
<1>3. PICK j \in 1..n : b[j] = a[i]
  BY <1>2 DEF Range
<1>4. \A k \in 1..n : RankOf(a[k]) \in Nat
  <2>1. \A k \in 1..n : a[k] \in LabelType
    OBVIOUS
  <2>2. \A label \in LabelType : RankOf(label) \in Nat
    BY NameAssumption DEF LabelType, RankOf
  <2>3. QED
    BY <2>1, <2>2
<1>5. j # i
  BY <1>1, <1>3
<1>6. ~(j < i)
  <2>1. ASSUME j < i PROVE FALSE
    <3>1. a[j] = a[i]
      BY <1>3, <2>1
    <3>2. RankOf(a[j]) < RankOf(a[i])
      BY <2>1 DEF Sorted
    <3>3. QED
      BY <1>4, <3>1, <3>2
  <2>2. QED
    BY <2>1
<1>7. i < j
  BY <1>2, <1>5, <1>6
<1>8. RankOf(b[i]) < RankOf(b[j])
  BY <1>7 DEF Sorted
<1>9. QED
  BY <1>3, <1>8

\* So there is one sorted list of some labels.
LEMMA SortedOnce ==
  ASSUME NEW a, a \in Seq(LabelType), NEW b, b \in Seq(LabelType),
         Sorted(a), Sorted(b), Range(a) = Range(b), Len(a) = Len(b)
  PROVE  a = b
<1> DEFINE n == Len(a)
           B == {i \in 1..n : a[i] # b[i]}
<1>1. ASSUME B # {} PROVE FALSE
  <2>1. PICK i \in B : \A j \in B : i <= j
    <3>1. B \subseteq Nat
      OBVIOUS
    <3> HIDE DEF B
    <3>2. QED
      BY <1>1, <3>1, SmallestNumber
  <2>2. i \in 1..n /\ a[i] # b[i] /\ \A j \in 1..n : j < i => a[j] = b[j]
    BY <2>1
  <2>3. RankOf(b[i]) < RankOf(a[i])
    BY <2>2, SortedNotAfter
  <2>4. RankOf(a[i]) < RankOf(b[i])
    BY <2>2, SortedNotAfter
  <2>5. RankOf(a[i]) \in Nat /\ RankOf(b[i]) \in Nat
    <3>1. a[i] \in LabelType /\ b[i] \in LabelType
      BY <2>2
    <3>2. \A label \in LabelType : RankOf(label) \in Nat
      BY NameAssumption DEF LabelType, RankOf
    <3>3. QED
      BY <3>1, <3>2
  <2>6. QED
    BY <2>3, <2>4, <2>5
<1>2. a = [i \in 1..n |-> a[i]] /\ b = [i \in 1..n |-> b[i]]
  OBVIOUS
<1>3. QED
  BY <1>1, <1>2

-----------------------------------------------------------------------------
(* The texts of series *)

\* The reader at its start.
LEMMA StartIs == ReadFrom = State("start", "", <<>>, {})
BY DEF ReadFrom, State

\* One label of a sorted list, after those before it.
LEMMA PieceReads ==
  ASSUME NEW S, Charset(S),
         NEW sorted, sorted \in Seq(LabelType), NEW i \in 1..Len(sorted)
  PROVE  LET state(k) == IF k = 0 THEN State("name", "", <<>>, {})
                         ELSE State("label", sorted[k].name, sorted[k].value,
                                    {sorted[j] : j \in 1..k})
             piece == (IF i > 1 THEN <<",">> ELSE <<>>) \o LabelText(sorted[i])
         IN  piece \in Seq(S) /\ Reading(state(i - 1), piece) = state(i)
<1> DEFINE state(k) == IF k = 0 THEN State("name", "", <<>>, {})
                       ELSE State("label", sorted[k].name, sorted[k].value,
                                  {sorted[j] : j \in 1..k})
           label == sorted[i]
           text  == LabelText(label)
           before == {sorted[j] : j \in 1..(i - 1)}
           upto   == {sorted[j] : j \in 1..i}
           piece == (IF i > 1 THEN <<",">> ELSE <<>>) \o text
<1>1. label \in LabelType
  OBVIOUS
<1>2. /\ label.name \in DOMAIN NameRank /\ label.value \in Seq(S)
      /\ [name |-> label.name, value |-> label.value] = label
  BY <1>1 DEF LabelType, Charset
<1>3. text \in Seq(S) /\ \A n, v, seen :
        Reading(State("name", n, v, seen), text)
          = State("label", label.name, label.value, seen \cup {label})
  <2> HIDE DEF label
  <2>1. ASSUME NEW n, NEW v, NEW seen
        PROVE  /\ text \in Seq(S)
               /\ Reading(State("name", n, v, seen), text)
                    = State("label", label.name, label.value,
                            seen \cup {[name |-> label.name, value |-> label.value]})
    BY <1>2, LabelReads DEF LabelText
  <2>2. QED
    BY <1>2, <2>1
<1>4. upto = before \cup {label}
  <2>1. i \in Nat /\ \A j \in 1..i : j \in 1..(i - 1) \/ j = i
    OBVIOUS
  <2>2. \A j \in 1..(i - 1) : j \in 1..i
    OBVIOUS
  <2>3. i \in 1..i
    OBVIOUS
  <2>4. QED
    BY <2>1, <2>2, <2>3
<1>5. state(i) = State("label", label.name, label.value, upto)
  <2>1. i # 0
    OBVIOUS
  <2> DEFINE none == State("name", "", <<>>, {})
             some == State("label", label.name, label.value, upto)
  <2>2. state(i) = IF i = 0 THEN none ELSE some
    OBVIOUS
  <2> HIDE DEF none, some, state
  <2>3. state(i) = some
    BY <2>1, <2>2
  <2>4. QED
    BY <2>3 DEF some
<1>6. CASE i = 1
  <2>1. state(i - 1) = State("name", "", <<>>, {})
    BY <1>6
  <2>2. before = {}
    BY <1>6
  <2> HIDE DEF state, label, text, before, upto
  <2>3. piece = text
    <3>1. piece = <<>> \o text
      BY <1>6
    <3>2. text \in Seq(S)
      BY <1>3
    <3> HIDE DEF piece
    <3>3. QED
      BY <3>1, <3>2, EmptyConcat
  <2>4. Reading(state(i - 1), text) = State("label", label.name, label.value, {} \cup {label})
    <3>1. Reading(State("name", "", <<>>, {}), text)
            = State("label", label.name, label.value, {} \cup {label})
      BY <1>3
    <3>2. QED
      BY <2>1, <3>1
  <2>5. {} \cup {label} = upto
    BY <1>4, <2>2
  <2>6. QED
    BY <1>3, <1>5, <2>3, <2>4, <2>5 DEF state, label, text, upto
<1>7. CASE i # 1
  <2> DEFINE last == sorted[i - 1]
  <2>1. state(i - 1) = State("label", last.name, last.value, before)
    BY <1>7
  <2>2. "," \in S
    BY DEF Charset
  <2> DEFINE comma == <<",">>
  <2>3. piece = comma \o text
    <3>1. i > 1
      BY <1>7
    <3> HIDE DEF text
    <3>2. QED
      BY <3>1
  <2>4. comma \in Seq(S)
    BY <2>2, ShortTexts
  <2> HIDE DEF state, label, text, before, upto, last, piece, comma
  <2>5. text \in Seq(S)
    BY <1>3
  <2>6. Reading(state(i - 1), comma) = State("name", last.name, last.value, before)
    <3>1. Reading(state(i - 1), comma) = Read(state(i - 1), ",")
      BY <2>2, ReadingOne DEF comma
    <3>2. Read(State("label", last.name, last.value, before), ",")
            = State("name", last.name, last.value, before)
      BY ReadComma
    <3>3. QED
      BY <2>1, <3>1, <3>2
  <2>7. Reading(state(i - 1), comma \o text) = Reading(Reading(state(i - 1), comma), text)
    BY <2>4, <2>5, ReadingConcat
  <2>8. Reading(State("name", last.name, last.value, before), text)
          = State("label", label.name, label.value, before \cup {label})
    BY <1>3
  <2>9. Reading(state(i - 1), piece) = state(i)
    BY <1>4, <1>5, <2>3, <2>6, <2>7, <2>8
  <2>10. piece \in Seq(S)
    BY <2>3, <2>4, <2>5
  <2>11. QED
    BY <2>9, <2>10 DEF state, piece, text, label
<1>8. QED
  BY <1>6, <1>7

\* All of them: within the braces, the reader has taken the labels and no others.
LEMMA EncodeReads ==
  ASSUME NEW S, Charset(S),
         NEW list, Distinct(list), list # <<>>
  PROVE  \E body \in Seq(S) :
           /\ EncodeLabels(list) = (<<"{">> \o body) \o <<"}">>
           /\ \E n, v : Reading(ReadFrom, <<"{">> \o body) = State("label", n, v, Range(list))
<1> DEFINE sorted == SortLabels(list)
           k == Len(sorted)
           state(i) == IF i = 0 THEN State("name", "", <<>>, {})
                       ELSE State("label", sorted[i].name, sorted[i].value,
                                  {sorted[j] : j \in 1..i})
           piece(i) == (IF i > 1 THEN <<",">> ELSE <<>>) \o LabelText(sorted[i])
           seqs == [i \in 1..k |-> piece(i)]
           q == [i \in 0..k |-> state(i)]
           body == FlattenSeq(seqs)
<1>1. sorted \in Seq(LabelType) /\ k = Len(list) /\ Range(sorted) = Range(list)
  BY SortFacts
<1>2. k \in Nat /\ k # 0 /\ DOMAIN sorted = 1..k
  <2>1. Len(list) # 0 /\ Len(list) \in Nat
    BY DEF Distinct
  <2>2. QED
    BY <1>1, <2>1
<1>3. EncodeLabels(list) = (<<"{">> \o body) \o <<"}">>
  BY <1>2 DEF EncodeLabels
<1> HIDE DEF sorted
<1>4. \A i \in 1..k : piece(i) \in Seq(S) /\ Reading(state(i - 1), piece(i)) = state(i)
  BY <1>1, PieceReads
<1>5. state(0) = State("name", "", <<>>, {})
  OBVIOUS
<1>6. state(k) = State("label", sorted[k].name, sorted[k].value, Range(list))
  <2>1. {sorted[j] : j \in 1..k} = Range(list)
    BY <1>1, <1>2 DEF Range
  <2>2. QED
    BY <1>2, <2>1
<1> HIDE DEF piece, state, k
<1>7. seqs \in Seq(Seq(S)) /\ Len(seqs) = k /\ \A i \in 1..k : seqs[i] = piece(i)
  BY <1>2, <1>4
<1>8. /\ \A i \in 1..k : q[i - 1] = state(i - 1) /\ q[i] = state(i)
      /\ q[0] = state(0) /\ q[k] = state(k)
  <2>1. \A i \in 0..k : q[i] = state(i)
    OBVIOUS
  <2>2. 0 \in 0..k /\ k \in 0..k /\ \A i \in 1..k : i \in 0..k /\ i - 1 \in 0..k
    BY <1>2
  <2> HIDE DEF q
  <2>3. QED
    BY <2>1, <2>2
<1> HIDE DEF seqs, q
<1>9. \A i \in 1..Len(seqs) : Reading(q[i - 1], seqs[i]) = q[i]
  BY <1>4, <1>7, <1>8
<1>10. body \in Seq(S) /\ Reading(q[0], body) = q[Len(seqs)]
  BY <1>7, <1>9, FlattenReads
<1>11. "{" \in S /\ <<"{">> \in Seq(S)
  <2>1. "{" \in S
    BY DEF Charset
  <2>2. QED
    BY <2>1, ShortTexts
<1>12. Reading(ReadFrom, <<"{">>) = state(0)
  <2>1. Read(ReadFrom, "{") = State("name", "", <<>>, {})
    BY StartIs, ReadStart
  <2>2. Reading(ReadFrom, <<"{">>) = Read(ReadFrom, "{")
    BY <1>11, ReadingOne
  <2>3. QED
    BY <1>5, <2>1, <2>2
<1> HIDE DEF body
<1>13. Reading(ReadFrom, <<"{">> \o body) = Reading(Reading(ReadFrom, <<"{">>), body)
  BY <1>10, <1>11, ReadingConcat
<1>14. Reading(ReadFrom, <<"{">> \o body)
         = State("label", sorted[k].name, sorted[k].value, Range(list))
  BY <1>6, <1>7, <1>8, <1>10, <1>12, <1>13
<1>15. QED
  BY <1>3, <1>10, <1>14

\* A text with the pid label at its end.
PidLine(front, open, pid) ==
  front \o <<open, "pid", "=", Quote>> \o EscapeLabelValue(pid) \o <<Quote, "}">>

\* The pid label, after an opening brace or a comma.
LEMMA PidReads ==
  ASSUME NEW S, Charset(S), NEW pid \in Seq(S), NEW front \in Seq(S), NEW open \in S,
         NEW n, NEW v, NEW seen,
         Read(Reading(ReadFrom, front), open) = State("name", n, v, seen)
  PROVE  Reading(ReadFrom, PidLine(front, open, pid))
           = State("end", "pid", pid, seen \cup {[name |-> "pid", value |-> pid]})
<1> DEFINE from == Reading(ReadFrom, front)
           a    == <<open, "pid", "=", Quote>>
           esc  == EscapeLabelValue(pid)
           c    == <<Quote, "}">>
           void == State("value", "pid", <<>>, seen)
           full == State("value", "pid", pid, seen)
           more == seen \cup {[name |-> "pid", value |-> pid]}
<1>1. "pid" \in DOMAIN NameRank
  BY NameAssumption
<1>2. "pid" \in S /\ "=" \in S /\ "}" \in S /\ Quote \in S
  BY <1>1 DEF Charset
<1>3. Reading(from, a) = void
  <2> HIDE DEF from
  <2>1. Reading(from, a) = Read(Read(Read(Read(from, open), "pid"), "="), Quote)
    <3> DEFINE name == "pid"
               equals == "="
    <3>1. name \in S /\ equals \in S /\ Quote \in S
      BY <1>2
    <3> HIDE DEF name, equals
    <3>2. Reading(from, <<open, name, equals, Quote>>)
            = Read(Read(Read(Read(from, open), name), equals), Quote)
      BY <3>1, ReadingFour
    <3>3. QED
      BY <3>2 DEF name, equals
  <2>2. Read(from, open) = State("name", n, v, seen)
    BY DEF from
  <2>3. Read(State("name", n, v, seen), "pid") = State("=", "pid", v, seen)
    BY <1>1, ReadName
  <2>4. Read(State("=", "pid", v, seen), "=") = State("open", "pid", v, seen)
    BY ReadEquals
  <2>5. Read(State("open", "pid", v, seen), Quote) = void
    BY ReadOpen
  <2>6. QED
    BY <2>1, <2>2, <2>3, <2>4, <2>5
<1>4. esc \in Seq(S) /\ Reading(void, esc) = full
  BY EscapeReads
<1>5. Reading(full, c) = State("end", "pid", pid, more)
  <2>1. Read(full, Quote) = State("label", "pid", pid, more)
    BY ReadClose
  <2>2. Read(State("label", "pid", pid, more), "}") = State("end", "pid", pid, more)
    BY ReadEnd
  <2> DEFINE end == "}"
  <2>3. end \in S /\ Quote \in S
    BY <1>2
  <2> HIDE DEF full, end
  <2>4. Reading(full, <<Quote, end>>) = Read(Read(full, Quote), end)
    BY <2>3, ReadingTwo
  <2>5. QED
    BY <2>1, <2>2, <2>4 DEF end
<1>6. a \in Seq(S)
  BY <1>2, ShortTexts
<1>7. c \in Seq(S)
  BY <1>2, ShortTexts
<1> HIDE DEF from, a, esc, c, void, full, more
<1>8. front \o a \in Seq(S) /\ (front \o a) \o esc \in Seq(S)
  BY <1>4, <1>6
<1>9. Reading(ReadFrom, front \o a) = void
  BY <1>3, <1>6, ReadingConcat DEF from
<1>10. Reading(ReadFrom, (front \o a) \o esc) = full
  BY <1>4, <1>8, <1>9, ReadingConcat
<1>11. Reading(ReadFrom, ((front \o a) \o esc) \o c) = State("end", "pid", pid, more)
  BY <1>5, <1>7, <1>8, <1>10, ReadingConcat
<1>12. QED
  BY <1>11 DEF a, esc, c, more, PidLine

\* The text before the pid label ends where a name may come.
Opens(front, open, seen) ==
  \E n, v : Read(Reading(ReadFrom, front), open) = State("name", n, v, seen)

\* The labels, and the pid label.
Added(seen, pid) == seen \cup {[name |-> "pid", value |-> pid]}

\* What a text with the pid label at its end reads as.
LEMMA PidReadsAs ==
  ASSUME NEW S, Charset(S), NEW pid \in Seq(S), NEW front \in Seq(S), NEW open \in S,
         NEW seen, Opens(front, open, seen)
  PROVE  ReadsAs(PidLine(front, open, pid), Added(seen, pid))
<1>1. PICK n, v : Read(Reading(ReadFrom, front), open) = State("name", n, v, seen)
  BY DEF Opens
<1> DEFINE line == PidLine(front, open, pid)
<1> DEFINE more == seen \cup {[name |-> "pid", value |-> pid]}
<1>2. Reading(ReadFrom, line) = State("end", "pid", pid, more)
  BY <1>1, PidReads
<1>3. State("end", "pid", pid, more).labels = more /\ State("end", "pid", pid, more).at = "end"
  BY StateFacts
<1> DEFINE r == State("end", "pid", pid, more)
<1> HIDE DEF line, more, r
<1>4. Reading(ReadFrom, line) = r /\ r.labels = more /\ r.at = "end"
  BY <1>2, <1>3 DEF r
<1>5. ReadsAs(line, more)
  BY <1>4 DEF ReadsAs
<1>6. QED
  BY <1>5 DEF line, more, Added

\* With no other label,
LEMMA PidAlone ==
  ASSUME NEW S, Charset(S), NEW pid \in Seq(S)
  PROVE  ReadsAs(AppendPid(<<>>, pid), Added({}, pid))
<1> DEFINE open == "{"
           empty == <<>>
           none == {}
<1>1. AppendPid(empty, pid) = PidLine(empty, open, pid)
  BY DEF AppendPid, PidLine
<1>2. Reading(ReadFrom, empty) = State("start", "", empty, none)
  BY ReadingNothing, StartIs
<1>3. Read(Reading(ReadFrom, empty), open) = State("name", "", empty, none)
  BY <1>2, ReadStart
<1>4. empty \in Seq(S)
  OBVIOUS
<1>5. open \in S
  BY DEF Charset
<1>6. Opens(empty, open, none)
  BY <1>3 DEF Opens
<1> HIDE DEF open, empty, none
<1>7. ReadsAs(PidLine(empty, open, pid), Added(none, pid))
  BY <1>4, <1>5, <1>6, PidReadsAs
<1>8. QED
  BY <1>1, <1>7 DEF none, empty

\* and after others.
LEMMA PidAfterLabels ==
  ASSUME NEW S, Charset(S), NEW pid \in Seq(S), NEW front \in Seq(S), NEW text,
         text # <<>> /\ Last(text) = "}" /\ Front(text) = front /\ front # text,
         "{" \in Range(front),
         NEW n, NEW v, NEW seen, Reading(ReadFrom, front) = State("label", n, v, seen)
  PROVE  ReadsAs(AppendPid(text, pid), Added(seen, pid))
<1> DEFINE open == ","
<1>1. AppendPid(text, pid) = PidLine(front, open, pid)
  BY DEF AppendPid, PidLine
<1>2. Read(Reading(ReadFrom, front), open) = State("name", n, v, seen)
  BY ReadComma
<1>3. open \in S
  BY DEF Charset
<1>4. Opens(front, open, seen)
  BY <1>2 DEF Opens
<1> HIDE DEF open
<1>5. ReadsAs(PidLine(front, open, pid), Added(seen, pid))
  BY <1>3, <1>4, PidReadsAs
<1>6. QED
  BY <1>1, <1>5

-----------------------------------------------------------------------------
(* The theorems *)

\* The labels that were chosen are a list without repetition.
LabelsOK == Distinct(labels)

\* AddLabel adds none of a name that is there.
LEMMA LabelsHold == TextSpec => []LabelsOK
<1>1. TextInit => LabelsOK
  BY DEF TextInit, LabelsOK, Distinct
<1>2. LabelsOK /\ [TextNext]_textVars => LabelsOK'
  <2> SUFFICES ASSUME LabelsOK, [TextNext]_textVars PROVE LabelsOK'
    OBVIOUS
  <2>1. CASE AddLabel
    <3>1. PICK name \in DOMAIN NameRank, value \in LabelValues :
            /\ \A i \in DOMAIN labels : labels[i].name # name
            /\ labels' = Append(labels, [name |-> name, value |-> value])
      BY <2>1 DEF AddLabel
    <3> DEFINE label == [name |-> name, value |-> value]
               n == Len(labels)
    <3>2. label \in LabelType /\ label.name = name
      BY DEF LabelType
    <3>3. labels \in Seq(LabelType) /\ n \in Nat /\ DOMAIN labels = 1..n
      BY DEF LabelsOK, Distinct
    <3> HIDE DEF label
    <3>4. labels' = Append(labels, label)
      BY <3>1 DEF label
    <3>5. /\ labels' \in Seq(LabelType) /\ DOMAIN labels' = 1..(n + 1)
          /\ labels'[n + 1] = label /\ \A i \in 1..n : labels'[i] = labels[i]
      BY <3>2, <3>3, <3>4
    <3>6. \A i \in 1..(n + 1) : i \in 1..n \/ i = n + 1
      BY <3>3
    <3>7. \A i, j \in 1..n : labels[i].name = labels[j].name => i = j
      BY <3>3 DEF LabelsOK, Distinct
    <3>8. \A i \in 1..n : labels[i].name # label.name
      BY <3>1, <3>2, <3>3
    <3> HIDE DEF n
    <3>9. \A i, j \in 1..(n + 1) : labels'[i].name = labels'[j].name => i = j
      BY <3>5, <3>6, <3>7, <3>8
    <3>10. QED
      BY <3>5, <3>9 DEF LabelsOK, Distinct
  <2>2. CASE AddPart \/ UNCHANGED textVars
    <3>1. labels' = labels
      BY <2>2 DEF AddPart, textVars
    <3>2. QED
      BY <3>1 DEF LabelsOK, Distinct
  <2>3. QED
    BY <2>1, <2>2 DEF TextNext
<1>3. QED
  BY <1>1, <1>2, PTL DEF TextSpec

Chars ==
  DOMAIN NameRank \cup {"{", "}", ",", "=", "n", Newline, Backslash, Quote}
    \cup UNION {Range(value) : value \in LabelValues}

\* Names, values and what stands around them are made of such characters.
LEMMA CharsFacts == Charset(Chars)
<1>1. LabelValues \subseteq Seq(Chars)
  <2>1. SUFFICES ASSUME NEW value \in LabelValues PROVE value \in Seq(Chars)
    OBVIOUS
  <2>2. value \in Seq(Range(value))
    BY TextAssumption
  <2>3. Range(value) \subseteq Chars
    BY DEF Chars
  <2> DEFINE S == Range(value)
  <2> HIDE DEF S
  <2>4. value \in Seq(S) /\ S \subseteq Chars
    BY <2>2, <2>3 DEF S
  <2>5. QED
    BY <2>4
<1>2. DOMAIN NameRank \subseteq Chars
  BY DEF Chars
<1>3. /\ "{" \in Chars /\ "}" \in Chars /\ "," \in Chars /\ "=" \in Chars /\ "n" \in Chars
      /\ Newline \in Chars /\ Backslash \in Chars /\ Quote \in Chars
  BY DEF Chars
<1>4. QED
  BY <1>1, <1>2, <1>3 DEF Charset

\* A text begins with what comes before the rest of it.
LEMMA HeadFacts ==
  ASSUME NEW S, NEW x \in Seq(S), NEW y \in Seq(S), Len(x) = 1
  PROVE  x \o y \in Seq(S) /\ (x \o y)[1] = x[1] /\ 1 \in DOMAIN (x \o y)
<1>1. /\ x \o y \in Seq(S) /\ Len(x \o y) = Len(x) + Len(y)
      /\ \A i \in 1..Len(x) : (x \o y)[i] = x[i]
  BY ConcatFacts
<1>2. Len(y) \in Nat
  OBVIOUS
<1> DEFINE z == x \o y
<1> HIDE DEF z
<1>3. z \in Seq(S) /\ Len(z) = 1 + Len(y) /\ z[1] = x[1]
  BY <1>1, <1>2 DEF z
<1>4. 1 \in DOMAIN z
  BY <1>2, <1>3
<1>5. QED
  BY <1>3, <1>4 DEF z

\* A text with a character more has it at its end, and the text before it.
LEMMA LastFacts ==
  ASSUME NEW S, NEW front \in Seq(S), NEW ch \in S
  PROVE  LET text == front \o <<ch>> IN
         /\ text # <<>> /\ Last(text) = ch /\ Front(text) = front /\ Front(text) # text
<1> DEFINE text == front \o <<ch>>
           n == Len(front)
<1>1. n \in Nat /\ Len(front) = n /\ front = [i \in 1..n |-> front[i]]
  OBVIOUS
<1>2. /\ text \in Seq(S) /\ Len(text) = n + 1 /\ text[n + 1] = ch
      /\ \A i \in 1..n : text[i] = front[i]
  OBVIOUS
<1> HIDE DEF text, n
<1>3. text # <<>> /\ Last(text) = ch
  BY <1>1, <1>2 DEF Last
<1>4. Front(text) = SubSeq(text, 1, n)
  BY <1>1, <1>2 DEF Front
<1>5. SubSeq(text, 1, n) = [i \in 1..n |-> text[i]]
  BY <1>1, <1>2
<1>6. Front(text) = front
  BY <1>1, <1>2, <1>4, <1>5
<1>7. Len(front) # Len(text)
  BY <1>1, <1>2
<1>8. Front(text) # text
  BY <1>6, <1>7
<1>9. QED
  BY <1>3, <1>6, <1>8 DEF text

\* The text of any labels reads back, whatever their values hold, as those labels, and
\* with the pid label of a worker as them and it: encode_labels and append_sample write
\* no text of two series.
THEOREM LabelsAreRead == TextSpec => []LabelsReadBack
<1>1. LabelsOK => LabelsReadBack
  <2>1. SUFFICES ASSUME LabelsOK PROVE LabelsReadBack
    OBVIOUS
  <2> DEFINE S == Chars
             text == EncodeLabels(labels)
             Read1 == ReadsAs(text, Range(labels))
             Read2(pid) == ReadsAs(AppendPid(text, pid),
                                   Range(labels) \cup {[name |-> "pid", value |-> pid]})
  <2>2. Charset(S)
    BY CharsFacts
  <2>3. \A pid \in LabelValues : pid \in Seq(S)
    BY <2>2 DEF Charset
  <2>4. "{" \in S /\ "}" \in S /\ "," \in S
    BY <2>2 DEF Charset
  <2> HIDE DEF S
  <2>5. CASE labels = <<>>
    <3>1. text = <<>> /\ Range(labels) = {}
      BY <2>5 DEF EncodeLabels, Range
    <3>2. Reading(ReadFrom, <<>>) = State("start", "", <<>>, {})
      BY ReadingNothing, StartIs
    <3>3. Read1
      <4> DEFINE r == State("start", "", <<>>, {})
      <4>1. r.labels = {} /\ r.at = "start"
        BY DEF State
      <4> HIDE DEF r, text
      <4>2. Reading(ReadFrom, text) = r
        BY <3>1, <3>2 DEF r
      <4>3. QED
        BY <3>1, <4>1, <4>2 DEF ReadsAs
    <3>4. ASSUME NEW pid \in LabelValues PROVE Read2(pid)
      <4>1. pid \in Seq(S)
        BY <2>3
      <4>2. ReadsAs(AppendPid(<<>>, pid), Added({}, pid))
        BY <2>2, <4>1, PidAlone
      <4>3. QED
        BY <3>1, <4>2 DEF Added
    <3>5. QED
      BY <3>3, <3>4 DEF LabelsReadBack
  <2>6. CASE labels # <<>>
    <3>1. PICK body \in Seq(S) :
            /\ text = (<<"{">> \o body) \o <<"}">>
            /\ \E n, v : Reading(ReadFrom, <<"{">> \o body) = State("label", n, v, Range(labels))
      BY <2>1, <2>2, <2>6, EncodeReads DEF LabelsOK
    <3>2. PICK n, v : Reading(ReadFrom, <<"{">> \o body) = State("label", n, v, Range(labels))
      BY <3>1
    <3> DEFINE front == <<"{">> \o body
    <3>3. front \in Seq(S) /\ "{" \in Range(front)
      <4> DEFINE brace == "{"
                 first == <<brace>>
      <4>1. brace \in S /\ front = first \o body
        BY <2>4
      <4> HIDE DEF brace, front
      <4>2. first \in Seq(S) /\ Len(first) = 1 /\ first[1] = brace
        BY <4>1
      <4> HIDE DEF first
      <4>3. front \in Seq(S) /\ front[1] = brace /\ 1 \in DOMAIN front
        BY <4>1, <4>2, HeadFacts
      <4>4. QED
        BY <4>3 DEF Range, brace
    <3> HIDE DEF front, text
    <3>4. text = front \o <<"}">> /\ Reading(ReadFrom, front) = State("label", n, v, Range(labels))
      BY <3>1, <3>2 DEF front
    <3>5. Read1
      <4>1. Reading(ReadFrom, text) = Reading(Reading(ReadFrom, front), <<"}">>)
        BY <2>4, <3>3, <3>4, ShortTexts, ReadingConcat
      <4>2. \A r : Reading(r, <<"}">>) = Read(r, "}")
        BY <2>4, ReadingOne
      <4>3. Read(State("label", n, v, Range(labels)), "}") = State("end", n, v, Range(labels))
        BY ReadEnd
      <4>4. Reading(ReadFrom, text) = State("end", n, v, Range(labels))
        BY <3>4, <4>1, <4>2, <4>3
      <4>5. QED
        BY <4>4, StateFacts DEF ReadsAs
    <3>6. ASSUME NEW pid \in LabelValues PROVE Read2(pid)
      <4>1. text # <<>> /\ Last(text) = "}" /\ Front(text) = front /\ front # text
        BY <2>4, <3>3, <3>4, LastFacts
      <4>2. pid \in Seq(S)
        BY <2>3
      <4> DEFINE seen == Range(labels)
      <4> HIDE DEF seen
      <4>3. Reading(ReadFrom, front) = State("label", n, v, seen)
        BY <3>4 DEF seen
      <4>4. ReadsAs(AppendPid(text, pid), Added(seen, pid))
        BY <2>2, <3>3, <4>1, <4>2, <4>3, PidAfterLabels
      <4>5. QED
        BY <4>4 DEF Added, seen
    <3>7. QED
      BY <3>5, <3>6 DEF LabelsReadBack, text
  <2>7. QED
    BY <2>5, <2>6
<1>2. QED
  BY <1>1, LabelsHold, PTL

\* And no series has two texts, in whatever order the labels come: encode_labels sorts
\* them by names that differ.
THEOREM SeriesHaveOneText == TextSpec => []OneTextPerSeries
<1>1. LabelsOK => OneTextPerSeries
  <2>1. SUFFICES ASSUME LabelsOK, NEW order \in [DOMAIN labels -> DOMAIN labels],
                        Range(order) = DOMAIN labels
                 PROVE  EncodeLabels([i \in DOMAIN labels |-> labels[order[i]]])
                          = EncodeLabels(labels)
    BY DEF OneTextPerSeries
  <2> DEFINE n == Len(labels)
             other == [i \in DOMAIN labels |-> labels[order[i]]]
  <2>2. labels \in Seq(LabelType) /\ n \in Nat /\ DOMAIN labels = 1..n
    BY <2>1 DEF LabelsOK, Distinct
  <2>3. /\ \A i, j \in 1..n : labels[i].name = labels[j].name => i = j
        /\ \A i \in 1..n : labels[i] \in LabelType
    BY <2>1, <2>2 DEF LabelsOK, Distinct
  <2>4. order \in [1..n -> 1..n] /\ Range(order) = 1..n
    BY <2>1, <2>2
  <2>5. \A i \in 1..n : order[i] \in 1..n
    BY <2>4
  <2>6. other \in Seq(LabelType) /\ Len(other) = n /\ \A i \in 1..n : other[i] = labels[order[i]]
    <3> HIDE DEF n
    <3>1. QED
      BY <2>2, <2>3, <2>5
  <2> HIDE DEF other, n
  <2>7. DOMAIN other = 1..n
    BY <2>2, <2>6
  <2>8. \A i, j \in 1..n : order[i] = order[j] => i = j
    <3>1. \A i \in 1..n : \E j \in 1..n : order[j] = i
      BY <2>4 DEF Range
    <3>2. order \in Surjection(1..n, 1..n)
      BY <2>4, <3>1 DEF Surjection
    <3>3. IsFiniteSet(1..n)
      BY <2>2, FS_Interval
    <3>4. order \in Injection(1..n, 1..n)
      BY <3>2, <3>3, FS_Surjection
    <3>5. QED
      BY <2>4, <3>4 DEF Injection, IsInjective
  <2>9. Distinct(other)
    <3>1. ASSUME NEW i \in 1..n, NEW j \in 1..n, other[i].name = other[j].name PROVE i = j
      <4>1. other[i] = labels[order[i]] /\ other[j] = labels[order[j]]
        BY <2>6
      <4>2. order[i] = order[j]
        BY <2>3, <2>5, <3>1, <4>1
      <4>3. QED
        BY <2>8, <4>2
    <3>2. QED
      BY <2>6, <2>7, <3>1 DEF Distinct
  <2>10. Range(other) = Range(labels)
    <3>1. \A i \in 1..n : \E j \in 1..n : order[j] = i
      BY <2>4 DEF Range
    <3>2. ASSUME NEW i \in 1..n PROVE labels[i] \in Range(other)
      <4>1. PICK j \in 1..n : order[j] = i
        BY <3>1
      <4>2. other[j] = labels[i] /\ j \in DOMAIN other
        BY <2>6, <2>7, <4>1
      <4>3. QED
        BY <4>2 DEF Range
    <3>3. \A i \in 1..n : other[i] \in Range(labels)
      BY <2>2, <2>5, <2>6 DEF Range
    <3>4. QED
      BY <2>2, <2>7, <3>2, <3>3 DEF Range
  <2>11. SortLabels(other) = SortLabels(labels)
    <3> DEFINE a == SortLabels(other)
               b == SortLabels(labels)
    <3>1. a \in Seq(LabelType) /\ Sorted(a) /\ Range(a) = Range(other) /\ Len(a) = Len(other)
      BY <2>9, SortFacts
    <3>2. b \in Seq(LabelType) /\ Sorted(b) /\ Range(b) = Range(labels) /\ Len(b) = Len(labels)
      BY <2>1, SortFacts DEF LabelsOK
    <3> HIDE DEF a, b
    <3>3. Range(a) = Range(b) /\ Len(a) = Len(b)
      BY <2>6, <2>10, <3>1, <3>2 DEF n
    <3>4. a = b
      BY <3>1, <3>2, <3>3, SortedOnce
    <3>5. QED
      BY <3>4 DEF a, b
  <2>12. other = <<>> <=> labels = <<>>
    BY <2>2, <2>6 DEF n
  <2>13. EncodeLabels(other) = EncodeLabels(labels)
    BY <2>11, <2>12 DEF EncodeLabels
  <2>14. QED
    BY <2>13 DEF other
<1>2. QED
  BY <1>1, LabelsHold, PTL

=============================================================================
