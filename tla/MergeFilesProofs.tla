--------------------------- MODULE MergeFilesProofs ----------------------------
(***************************************************************************)
(* Proofs about MergeFiles, for any finite directory: in whatever order    *)
(* its files are read, the faults of single files are counted, each once,  *)
(* and the text shows the values of the others, family by family.          *)
(***************************************************************************)
EXTENDS MergeFiles, SumsProofs

\* The faulty files are finitely many, and so are those of them that were met.
LEMMA FaultyFacts ==
  ASSUME dir \in [Paths -> Entries]
  PROVE  /\ DOMAIN dir = Paths /\ Faulty \subseteq Paths
         /\ \A S \in SUBSET Paths :
              /\ IsFiniteSet(S) /\ Cardinality(S) \in Nat
              /\ Cardinality(S) <= Cardinality(Paths)
         /\ Cardinality(Paths) \in Nat
<1>1. DOMAIN dir = Paths /\ Faulty \subseteq Paths
  BY DEF Faulty
<1>2. IsFiniteSet(Paths)
  BY MergeAssumption
<1>3. QED
  BY <1>1, <1>2, FS_Subset, FS_CardinalityType

\* The series of a file have a metric, and no pid or that of a file.
LEMMA IncomingKeys ==
  ASSUME dir \in [Paths -> Entries], NEW p \in Paths, dir[p].state = "ok"
  PROVE  Incoming(p) \subseteq [metric : Metrics, pid : {NoPid} \cup {q.pid : q \in Params}]
<1>1. dir[p] \in [state : {"ok"}, params : Params, metrics : (SUBSET Metrics) \ {{}}]
  BY DEF Entries, Faults
<1>2. dir[p].params \in Params /\ dir[p].metrics \subseteq Metrics
  BY <1>1
<1>3. QED
  BY <1>2 DEF Incoming, EntryKey

\* Before discovery.
LEMMA InitMergeInv == MergeInit => MergeInv
<1> SUFFICES ASSUME MergeInit PROVE MergeInv
  OBVIOUS
<1>1. 0 \in 0..Cardinality(DOMAIN dir)
  BY FaultyFacts DEF MergeInit
<1>2. MergeTypeOK
  BY <1>1 DEF MergeInit, MergeTypeOK, Phases
<1>3. FaultsCounted /\ FaultsAreReported
  BY DEF MergeInit, FaultsCounted, FaultsAreReported
<1>4. QED
  BY <1>2, <1>3 DEF MergeInit, MergeInv

\* The names that do not parse are the first faults.
LEMMA DiscoverKeeps ==
  ASSUME MergeInv, Discover
  PROVE  MergeInv'
<1> DEFINE bad == Holding("bad_name")
<1>1. /\ todo' = DOMAIN dir \ bad /\ errors' = Cardinality(bad) /\ phase' = "merge"
      /\ UNCHANGED <<reader, dir, merged, out>>
  BY DEF Discover
<1>2. bad \subseteq Paths /\ Faulty' \ todo' = bad
  BY <1>1 DEF MergeInv, Holding, Faulty, Faults
<1>3. errors' \in 0..Cardinality(DOMAIN dir')
  BY <1>1, <1>2, FaultyFacts DEF MergeInv
<1>4. MergeTypeOK'
  BY <1>1, <1>3 DEF MergeInv, MergeTypeOK, Phases
<1>5. FaultsCounted' /\ FaultsAreReported'
  BY <1>1, <1>2 DEF FaultsCounted, FaultsAreReported
<1>6. QED
  BY <1>1, <1>4, <1>5 DEF MergeInv

\* A file that is read or passed over counts for nothing, one that cannot be read for
\* one.
LEMMA FileKeeps ==
  ASSUME MergeInv, NEW p \in todo, MergeFile(p) \/ PassFile(p) \/ SkipFile(p)
  PROVE  MergeInv'
<1> USE DEF MergeInv
<1>1. /\ phase = "merge" /\ p \in todo /\ todo' = todo \ {p}
      /\ UNCHANGED <<reader, dir, phase, out>>
  BY DEF MergeFile, PassFile, SkipFile, NextFile
<1>2. p \in Paths /\ todo \subseteq Paths /\ Faulty' = Faulty
  BY <1>1, FaultyFacts DEF MergeTypeOK, Faulty
<1>3. errors' = Cardinality(Faulty' \ todo')
  <2>1. CASE p \in Faulty
    <3>1. errors' = errors + 1
      BY <2>1 DEF MergeFile, PassFile, SkipFile, Faulty, Faults
    <3>2. Faulty' \ todo' = (Faulty \ todo) \cup {p} /\ p \notin Faulty \ todo
      BY <1>1, <1>2, <2>1
    <3>3. IsFiniteSet(Faulty \ todo)
      BY FaultyFacts
    <3>4. QED
      BY <1>1, <3>1, <3>2, <3>3, FS_AddElement DEF FaultsCounted
  <2>2. CASE p \notin Faulty
    <3>1. errors' = errors
      BY <1>2, <2>2, FaultyFacts DEF MergeFile, PassFile, SkipFile, Faulty, Faults
    <3>2. Faulty' \ todo' = Faulty \ todo
      BY <1>1, <1>2, <2>2
    <3>3. QED
      BY <1>1, <3>1, <3>2 DEF FaultsCounted
  <2>3. QED
    BY <2>1, <2>2
<1>4. errors' \in 0..Cardinality(DOMAIN dir')
  BY <1>1, <1>2, <1>3, FaultyFacts
<1>5. DOMAIN merged' \subseteq [metric : Metrics, pid : {NoPid} \cup {q.pid : q \in Params}]
  <2>1. CASE MergeFile(p)
    <3>1. DOMAIN merged' = DOMAIN merged \cup Incoming(p)
          /\ dir[p].state = "ok"
      BY <2>1 DEF MergeFile
    <3>2. QED
      BY <1>2, <3>1, IncomingKeys DEF MergeTypeOK
  <2>2. CASE PassFile(p) \/ SkipFile(p)
    BY <2>2 DEF PassFile, SkipFile, MergeTypeOK
  <2>3. QED
    BY <2>1, <2>2
<1>6. MergeTypeOK'
  BY <1>1, <1>4, <1>5 DEF MergeTypeOK
<1>7. FaultsCounted' /\ FaultsAreReported'
  BY <1>1, <1>3 DEF FaultsCounted, FaultsAreReported
<1>8. QED
  BY <1>1, <1>6, <1>7

\* The scrape ends, with all files read or at the first fault.
LEMMA EndKeeps ==
  ASSUME MergeInv, Finish \/ Fail
  PROVE  MergeInv'
<1> USE DEF MergeInv
<1>1. UNCHANGED <<reader, dir, todo, merged, errors>> /\ Faulty' = Faulty
  BY DEF Finish, Fail, Faulty
<1>2. CASE Finish
  <2>1. phase = "merge" /\ todo = {} /\ phase' = "done"
    BY <1>2 DEF Finish
  <2>2. Faulty \ todo = Faulty
    BY <2>1
  <2>3. QED
    BY <1>1, <2>1, <2>2 DEF MergeTypeOK, Phases, FaultsCounted, FaultsAreReported
<1>3. CASE Fail
  <2>1. phase' = "failed" /\ Faulty # {}
    BY <1>3 DEF Fail, Holding, Faulty, Faults
  <2>2. QED
    BY <1>1, <2>1 DEF MergeTypeOK, Phases, FaultsCounted, FaultsAreReported
<1>4. QED
  BY <1>2, <1>3

\* Every step of a scrape.
LEMMA StepMergeInv == MergeInv /\ [MergeNext]_mergeVars => MergeInv'
<1> SUFFICES ASSUME MergeInv, [MergeNext]_mergeVars PROVE MergeInv'
  OBVIOUS
<1>1. CASE UNCHANGED mergeVars
  BY <1>1 DEF mergeVars, MergeInv, MergeTypeOK, FaultsCounted, FaultsAreReported, Faulty
<1>2. CASE MergeNext
  BY <1>2, DiscoverKeeps, FileKeeps, EndKeeps DEF MergeNext
<1>3. QED
  BY <1>1, <1>2

-----------------------------------------------------------------------------
(* The order of the rows *)

\* The series are finitely many, of numbers for family, sample and pid.
LEMMA KeyFacts ==
  ASSUME MergeTypeOK, NEW key \in DOMAIN merged
  PROVE  /\ key.metric.family \in Nat /\ key.metric.sample \in Nat /\ key.pid \in Nat
         /\ key = [metric |-> [family |-> key.metric.family, sample |-> key.metric.sample],
                   pid |-> key.pid]
<1>1. key \in [metric : Metrics, pid : {NoPid} \cup {q.pid : q \in Params}]
  BY DEF MergeTypeOK
<1>2. \A q \in Params : q.pid \in Nat
  BY MergeAssumption DEF NoPid
<1>3. key.metric \in [family : Nat, sample : Nat] /\ key.pid \in Nat
  BY <1>1, <1>2, MergeAssumption DEF NoPid
<1>4. key = [metric |-> key.metric, pid |-> key.pid]
  BY <1>1
<1>5. key.metric = [family |-> key.metric.family, sample |-> key.metric.sample]
  BY <1>3
<1>6. QED
  BY <1>3, <1>4, <1>5

\* compare_keys is a total order, by families first.
LEMMA KeyOrder ==
  ASSUME MergeTypeOK, NEW a \in DOMAIN merged, NEW b \in DOMAIN merged
  PROVE  /\ ~KeyLess(a, a)
         /\ a # b => KeyLess(a, b) \/ KeyLess(b, a)
         /\ KeyLess(a, b) => a.metric.family <= b.metric.family
         /\ \A c \in DOMAIN merged : KeyLess(a, b) /\ KeyLess(b, c) => KeyLess(a, c)
<1>1. \A k \in DOMAIN merged :
        k.metric.family \in Nat /\ k.metric.sample \in Nat /\ k.pid \in Nat
  BY KeyFacts
<1>2. ~KeyLess(a, a) /\ (KeyLess(a, b) => a.metric.family <= b.metric.family)
  BY <1>1 DEF KeyLess
<1>3. \A c \in DOMAIN merged : KeyLess(a, b) /\ KeyLess(b, c) => KeyLess(a, c)
  BY <1>1 DEF KeyLess
<1>4. ASSUME a # b, ~KeyLess(a, b), ~KeyLess(b, a) PROVE FALSE
  <2>1. /\ a.metric.family = b.metric.family /\ a.metric.sample = b.metric.sample
        /\ a.pid = b.pid
    BY <1>1, <1>4 DEF KeyLess
  <2>2. a = [metric |-> [family |-> a.metric.family, sample |-> a.metric.sample], pid |-> a.pid]
    BY KeyFacts
  <2>3. b = [metric |-> [family |-> b.metric.family, sample |-> b.metric.sample], pid |-> b.pid]
    BY KeyFacts
  <2>4. QED
    BY <1>4, <2>1, <2>2, <2>3
<1>5. QED
  BY <1>2, <1>3, <1>4

\* The keys before one in the order, and how many they are.
Before(key) == {k \in DOMAIN merged : KeyLess(k, key)}
Rank(key)   == Cardinality(Before(key))

\* The rank follows the order.
LEMMA RankFacts ==
  ASSUME MergeTypeOK, IsFiniteSet(DOMAIN merged),
         NEW a \in DOMAIN merged, NEW b \in DOMAIN merged
  PROVE  /\ Rank(a) \in Nat /\ Rank(a) < Cardinality(DOMAIN merged)
         /\ KeyLess(a, b) => Rank(a) < Rank(b)
<1>1. IsFiniteSet(Before(b)) /\ Cardinality(Before(b)) \in Nat
  BY FS_Subset, FS_CardinalityType DEF Before
<1>2. IsFiniteSet(Before(a)) /\ Cardinality(Before(a)) \in Nat
  BY FS_Subset, FS_CardinalityType DEF Before
<1>3. Before(a) \in SUBSET DOMAIN merged /\ Before(a) # DOMAIN merged
  BY KeyOrder DEF Before
<1>4. Cardinality(DOMAIN merged) \in Nat
  BY FS_CardinalityType
<1>5. Rank(a) < Cardinality(DOMAIN merged)
  BY <1>2, <1>3, <1>4, FS_Subset DEF Rank
<1>6. ASSUME KeyLess(a, b) PROVE Rank(a) < Rank(b)
  <2>1. Before(a) \in SUBSET Before(b)
    BY <1>6, KeyOrder DEF Before
  <2>2. a \in Before(b) /\ a \notin Before(a)
    BY <1>6, KeyOrder DEF Before
  <2>3. QED
    BY <1>1, <1>2, <2>1, <2>2, FS_Subset DEF Rank
<1>7. QED
  BY <1>2, <1>5, <1>6 DEF Rank

\* The rows are the keys, each once, in their order.
LEMMA RowFacts ==
  ASSUME MergeTypeOK, IsFiniteSet(DOMAIN merged)
  PROVE  /\ Cardinality(DOMAIN merged) \in Nat
         /\ Rows \in [1..Cardinality(DOMAIN merged) -> DOMAIN merged]
         /\ \A key \in DOMAIN merged : \E i \in 1..Cardinality(DOMAIN merged) : Rows[i] = key
         /\ \A i, j \in 1..Cardinality(DOMAIN merged) :
              i <= j => Rows[i].metric.family <= Rows[j].metric.family
<1> DEFINE K    == DOMAIN merged
           n    == Cardinality(K)
           rank == [key \in K |-> Rank(key) + 1]
<1>1. n \in Nat
  BY FS_CardinalityType
<1>2. rank \in [K -> 1..n]
  BY <1>1, RankFacts
<1>3. ASSUME NEW a \in K, NEW b \in K, Rank(a) = Rank(b) PROVE a = b
  <2>1. /\ Rank(a) \in Nat /\ Rank(b) \in Nat
        /\ KeyLess(a, b) => Rank(a) < Rank(b)
        /\ KeyLess(b, a) => Rank(b) < Rank(a)
    BY RankFacts
  <2>2. ~KeyLess(a, b) /\ ~KeyLess(b, a)
    BY <1>3, <2>1
  <2>3. QED
    BY <2>2, KeyOrder
<1>4. rank \in Injection(K, 1..n)
  <2>1. \A key \in K : Rank(key) \in Nat
    BY RankFacts
  <2>2. \A a, b \in K : rank[a] = rank[b] => a = b
    BY <1>3, <2>1
  <2>3. QED
    BY <1>2, <2>2 DEF Injection, IsInjective
<1>5. rank \in Surjection(K, 1..n)
  <2>1. IsFiniteSet(1..n) /\ Cardinality(1..n) = n
    BY <1>1, FS_Interval
  <2>2. QED
    BY <1>4, <2>1, FS_Injection
<1>6. ASSUME NEW i \in 1..n
      PROVE  /\ Rows[i] \in K /\ Rank(Rows[i]) = i - 1
             /\ \A key \in K : Rank(key) = i - 1 => key = Rows[i]
  <2>1. PICK key \in K : rank[key] = i
    BY <1>5 DEF Surjection
  <2>2. Rank(key) = i - 1
    BY <2>1, RankFacts
  <2>3. Rows[i] = CHOOSE k \in K : Rank(k) = i - 1
    BY DEF Rows, Rank, Before
  <2>4. QED
    BY <1>3, <2>2, <2>3
<1>7. Rows \in [1..n -> K]
  <2> DEFINE row(i) == CHOOSE key \in K : Cardinality({k \in K : KeyLess(k, key)}) = i - 1
  <2>1. Rows = [i \in 1..n |-> row(i)]
    BY DEF Rows
  <2> HIDE DEF row
  <2>2. DOMAIN Rows = 1..n /\ Rows = [i \in 1..n |-> Rows[i]]
    BY <2>1
  <2>3. QED
    BY <1>6, <2>2
<1>8. ASSUME NEW key \in K PROVE \E i \in 1..n : Rows[i] = key
  <2>1. Rank(key) \in Nat /\ Rank(key) + 1 \in 1..n
    BY <1>1, RankFacts
  <2>2. QED
    BY <1>6, <2>1
<1>9. ASSUME NEW i \in 1..n, NEW j \in 1..n, i <= j
      PROVE  Rows[i].metric.family <= Rows[j].metric.family
  <2>1. Rows[i] \in K /\ Rows[j] \in K /\ Rank(Rows[i]) = i - 1 /\ Rank(Rows[j]) = j - 1
    BY <1>6
  <2>2. ~KeyLess(Rows[j], Rows[i])
    BY <1>9, <2>1, RankFacts
  <2>3. Rows[i].metric.family \in Nat
    BY <2>1, KeyFacts
  <2>4. Rows[i] = Rows[j] \/ KeyLess(Rows[i], Rows[j])
    BY <2>1, <2>2, KeyOrder
  <2>5. KeyLess(Rows[i], Rows[j]) => Rows[i].metric.family <= Rows[j].metric.family
    BY <2>1, KeyOrder
  <2>6. QED
    BY <2>3, <2>4, <2>5
<1>10. QED
  BY <1>1, <1>7, <1>8, <1>9

-----------------------------------------------------------------------------
(* The text *)

\* The text after each number of rows.
IsText(t, n) == t = [i \in 0..n |-> IF i = 0 THEN <<>> ELSE AddRow(t[i - 1], Rows[i])]

\* The recursion of Render has a solution.
LEMMA TextExists == \A n \in Nat : \E t : IsText(t, n)
<1> DEFINE B == {n \in Nat : ~ \E t : IsText(t, n)}
<1>1. ASSUME B # {} PROVE FALSE
  <2>1. PICK n \in B : \A m \in B : n <= m
    <3>1. B \subseteq Nat
      OBVIOUS
    <3> HIDE DEF B
    <3>2. QED
      BY <1>1, <3>1, SmallestNumber
  <2>2. CASE n = 0
    <3> DEFINE t == [i \in 0..0 |-> <<>>]
    <3>1. t = [i \in 0..0 |-> IF i = 0 THEN <<>> ELSE AddRow(t[i - 1], Rows[i])]
      OBVIOUS
    <3>2. IsText(t, 0)
      BY <3>1 DEF IsText
    <3>3. QED
      BY <2>2, <3>2
  <2>3. CASE n # 0
    <3>1. n \in Nat /\ n - 1 \in Nat /\ n - 1 \notin B
      BY <2>1, <2>3
    <3>2. PICK t : IsText(t, n - 1)
      BY <3>1
    <3> DEFINE step(u, i) == AddRow(u[i - 1], Rows[i])
               m == n - 1
               new == [i \in 0..n |-> IF i = n THEN step(t, n) ELSE t[i]]
    <3>3. t = [i \in 0..m |-> IF i = 0 THEN <<>> ELSE step(t, i)]
      BY <3>2 DEF IsText
    <3>4. \A i \in 0..m : t[i] = IF i = 0 THEN <<>> ELSE step(t, i)
      <4> HIDE DEF step
      <4>1. QED
        BY <3>3
    <3>5. \A i \in 1..n : new[i - 1] = t[i - 1]
      BY <3>1
    <3>6. \A i \in 1..n : step(new, i) = step(t, i)
      BY <3>5
    <3>7. new = [i \in 0..n |-> IF i = 0 THEN <<>> ELSE step(new, i)]
      <4> HIDE DEF step
      <4>1. \A i \in 0..n : i = n \/ i \in 0..m
        BY <3>1
      <4>2. \A i \in 0..n : new[i] = IF i = 0 THEN <<>> ELSE step(t, i)
        BY <2>3, <3>4, <4>1
      <4>3. \A i \in 0..n : i = 0 \/ i \in 1..n
        BY <3>1
      <4>4. \A i \in 0..n : new[i] = IF i = 0 THEN <<>> ELSE step(new, i)
        BY <3>6, <4>2, <4>3
      <4>5. new = [i \in 0..n |-> new[i]]
        OBVIOUS
      <4> HIDE DEF new
      <4>6. QED
        BY <4>4, <4>5
    <3>8. IsText(new, n)
      BY <3>7 DEF IsText
    <3>9. QED
      BY <3>8
  <2>4. QED
    BY <2>2, <2>3
<1>2. QED
  BY <1>1

\* Render takes one.
LEMMA RenderIs ==
  ASSUME Cardinality(DOMAIN merged) \in Nat
  PROVE  \E t : IsText(t, Cardinality(DOMAIN merged)) /\ Render = t[Cardinality(DOMAIN merged)]
<1> DEFINE n == Cardinality(DOMAIN merged)
           t == CHOOSE t : IsText(t, n)
<1>1. IsText(t, n)
  BY TextExists
<1>2. Render = t[n]
  BY DEF Render, IsText
<1>3. QED
  BY <1>1, <1>2

\* The i-th text begins with nothing and takes a row with each step.
LEMMA TextSteps ==
  ASSUME NEW n \in Nat, NEW t, IsText(t, n)
  PROVE  t[0] = <<>> /\ \A i \in 1..n : t[i] = AddRow(t[i - 1], Rows[i])
<1> DEFINE step(i) == AddRow(t[i - 1], Rows[i])
<1>1. t = [i \in 0..n |-> IF i = 0 THEN <<>> ELSE step(i)]
  BY DEF IsText
<1>2. \A i \in 0..n : t[i] = IF i = 0 THEN <<>> ELSE step(i)
  <2> HIDE DEF step
  <2>1. QED
    BY <1>1
<1>3. QED
  BY <1>2

\* Line h of a text is the one header of the family of line j, and no other family
\* comes between the two.
HeaderOf(text, h, j) ==
  /\ text[h].kind = "TYPE"
  /\ \A l \in DOMAIN text :
       /\ text[l].family = text[j].family => l >= h
       /\ text[l].family = text[j].family /\ text[l].kind = "TYPE" => l = h
       /\ l \in h..j => text[l].family = text[j].family

\* A text that has the first i rows, the last of them at its end.
Lines == {Header(key) : key \in DOMAIN merged} \cup {Sample(key) : key \in DOMAIN merged}

TextOK(text, i) ==
  /\ text \in Seq(Lines)
  /\ \A j \in DOMAIN text :
       \E h \in 1..i : text[j] = Header(Rows[h]) \/ text[j] = Sample(Rows[h])
  /\ \A h \in 1..i : \E j \in DOMAIN text : text[j] = Sample(Rows[h])
  /\ i > 0 => text # <<>> /\ text[Len(text)] = Sample(Rows[i])
  /\ \A j \in DOMAIN text : \E h \in 1..j : HeaderOf(text, h, j)

\* The fields of a line.
LEMMA LineFacts ==
  \A key : /\ Header(key).kind = "TYPE" /\ Header(key).family = key.metric.family
           /\ Header(key).type = merged[key].metric_type
           /\ Sample(key).kind = "sample" /\ Sample(key).family = key.metric.family
           /\ Sample(key).key = key /\ Sample(key).value = merged[key].value
BY DEF Header, Sample

\* A line at the end of a text.
LEMMA AppendFacts ==
  ASSUME NEW S, NEW text \in Seq(S), NEW line \in S
  PROVE  /\ Append(text, line) \in Seq(S) /\ Len(text) \in Nat
         /\ Len(Append(text, line)) = Len(text) + 1
         /\ Append(text, line)[Len(text) + 1] = line
         /\ \A j \in 1..Len(text) : Append(text, line)[j] = text[j]
         /\ DOMAIN text = 1..Len(text) /\ DOMAIN Append(text, line) = 1..(Len(text) + 1)
         /\ Append(text, line) # <<>>
OBVIOUS

\* A header holds for a line also after a sample of whichever family was added, if the
\* family is that of the last line or has no line yet.
LEMMA HeaderStays ==
  ASSUME NEW text \in Seq(Lines), NEW line \in Lines,
         NEW j \in 1..Len(text), NEW h \in 1..j, HeaderOf(text, h, j),
         line.family = text[j].family => line.kind # "TYPE"
  PROVE  HeaderOf(Append(text, line), h, j)
<1> DEFINE n == Len(text)
           new == Append(text, line)
<1>1. /\ n \in Nat /\ new[n + 1] = line /\ DOMAIN text = 1..n /\ DOMAIN new = 1..(n + 1)
      /\ \A l \in 1..n : new[l] = text[l]
  BY AppendFacts
<1> HIDE DEF n, new
<1>2. j \in 1..n /\ h \in 1..n /\ j \in Nat /\ h \in Nat /\ h <= j /\ j <= n
  BY <1>1 DEF n
<1>3. new[h] = text[h] /\ new[j] = text[j]
  BY <1>1, <1>2
<1>4. ASSUME NEW l \in 1..n
      PROVE  /\ new[l].family = new[j].family => l >= h
             /\ new[l].family = new[j].family /\ new[l].kind = "TYPE" => l = h
             /\ l \in h..j => new[l].family = new[j].family
  BY <1>1, <1>3, <1>4 DEF HeaderOf
<1>5. /\ new[n + 1].family = new[j].family => n + 1 >= h
      /\ new[n + 1].family = new[j].family /\ new[n + 1].kind = "TYPE" => n + 1 = h
      /\ n + 1 \in h..j => new[n + 1].family = new[j].family
  BY <1>1, <1>2, <1>3
<1>6. \A l \in 1..(n + 1) : l \in 1..n \/ l = n + 1
  BY <1>1
<1>7. new[h].kind = "TYPE"
  BY <1>3 DEF HeaderOf
<1>8. QED
  BY <1>1, <1>4, <1>5, <1>6, <1>7 DEF HeaderOf, new

\* The header of the last line is that of a sample of its family behind it.
LEMMA HeaderOfSample ==
  ASSUME NEW text \in Seq(Lines), NEW line \in Lines, text # <<>>,
         NEW h \in 1..Len(text), HeaderOf(text, h, Len(text)),
         line.family = text[Len(text)].family, line.kind # "TYPE"
  PROVE  HeaderOf(Append(text, line), h, Len(text) + 1)
<1> DEFINE n == Len(text)
           new == Append(text, line)
<1>1. /\ n \in Nat /\ new[n + 1] = line /\ DOMAIN text = 1..n /\ DOMAIN new = 1..(n + 1)
      /\ \A l \in 1..n : new[l] = text[l]
  BY AppendFacts
<1> HIDE DEF n, new
<1>2. h \in 1..n /\ h \in Nat /\ h <= n /\ n \in 1..n
  BY <1>1 DEF n
<1>3. new[h] = text[h] /\ new[n + 1].family = text[n].family /\ new[n + 1].kind # "TYPE"
  BY <1>1, <1>2 DEF n
<1>4. ASSUME NEW l \in 1..n
      PROVE  /\ new[l].family = new[n + 1].family => l >= h
             /\ new[l].family = new[n + 1].family /\ new[l].kind = "TYPE" => l = h
             /\ l \in h..(n + 1) => new[l].family = new[n + 1].family
  <2>1. new[l] = text[l] /\ l \in DOMAIN text /\ (l \in h..(n + 1) => l \in h..n)
    BY <1>1, <1>2, <1>4
  <2>2. HeaderOf(text, h, n)
    BY DEF n
  <2>3. QED
    BY <1>3, <2>1, <2>2 DEF HeaderOf
<1>5. \A l \in 1..(n + 1) : l \in 1..n \/ l = n + 1
  BY <1>1
<1>6. new[h].kind = "TYPE"
  BY <1>3 DEF HeaderOf
<1>7. n + 1 >= h /\ ~(new[n + 1].family = new[n + 1].family /\ new[n + 1].kind = "TYPE")
  BY <1>2, <1>3
<1>8. HeaderOf(new, h, n + 1)
  BY <1>1, <1>4, <1>5, <1>6, <1>7 DEF HeaderOf
<1>9. QED
  BY <1>8 DEF new, n

\* A header of a family that no line has is its own.
LEMMA HeaderOfHeader ==
  ASSUME NEW text \in Seq(Lines), NEW line \in Lines,
         line.kind = "TYPE", \A j \in DOMAIN text : text[j].family # line.family
  PROVE  HeaderOf(Append(text, line), Len(text) + 1, Len(text) + 1)
<1> DEFINE n == Len(text)
           new == Append(text, line)
<1>1. /\ n \in Nat /\ new[n + 1] = line /\ DOMAIN text = 1..n /\ DOMAIN new = 1..(n + 1)
      /\ \A l \in 1..n : new[l] = text[l]
  BY AppendFacts
<1> HIDE DEF n, new
<1>2. \A l \in 1..n : new[l].family # new[n + 1].family
  BY <1>1
<1>3. \A l \in 1..(n + 1) : l \in 1..n \/ l = n + 1
  BY <1>1
<1>4. \A l \in (n + 1)..(n + 1) : l = n + 1
  BY <1>1
<1>5. n + 1 >= n + 1
  BY <1>1
<1>6. HeaderOf(new, n + 1, n + 1)
  BY <1>1, <1>2, <1>3, <1>4, <1>5 DEF HeaderOf
<1>7. QED
  BY <1>6 DEF new, n

\* The lines of a text are of the rows 1 to i, and have their headers.
Headed(text, i) ==
  /\ text \in Seq(Lines)
  /\ \A j \in DOMAIN text :
       \E h \in 1..i : text[j] = Header(Rows[h]) \/ text[j] = Sample(Rows[h])
  /\ \A j \in DOMAIN text : \E h \in 1..j : HeaderOf(text, h, j)

\* The text in front of a row ends with a line of its family.
LEMMA HeaderFirst ==
  ASSUME MergeTypeOK, IsFiniteSet(DOMAIN merged),
         NEW i \in 1..Cardinality(DOMAIN merged), NEW text, TextOK(text, i - 1),
         text = <<>> \/ text[Len(text)].family # Rows[i].metric.family
  PROVE  LET new == Append(text, Header(Rows[i])) IN
         /\ Headed(new, i) /\ new # <<>>
         /\ new[Len(new)].family = Rows[i].metric.family
         /\ \A j \in DOMAIN text : j \in DOMAIN new /\ new[j] = text[j]
<1> DEFINE key  == Rows[i]
           line == Header(key)
           new  == Append(text, line)
           n    == Len(text)
<1>1. key \in DOMAIN merged /\ line \in Lines /\ line.kind = "TYPE"
      /\ line.family = key.metric.family /\ i \in Nat /\ i - 1 \in Nat /\ i \in 1..i
  <2>1. i \in Nat /\ i - 1 \in Nat /\ i \in 1..i /\ key \in DOMAIN merged
    BY RowFacts
  <2> HIDE DEF key
  <2>2. line.kind = "TYPE" /\ line.family = key.metric.family
    BY LineFacts
  <2>3. line \in Lines
    BY <2>1 DEF Lines
  <2>4. QED
    BY <2>1, <2>2, <2>3
<1>2. /\ text \in Seq(Lines)
      /\ \A j \in DOMAIN text : \E h \in 1..(i - 1) : text[j] = Header(Rows[h]) \/ text[j] = Sample(Rows[h])
      /\ i - 1 > 0 => text # <<>> /\ text[n] = Sample(Rows[i - 1])
      /\ \A j \in DOMAIN text : \E h \in 1..j : HeaderOf(text, h, j)
  BY DEF TextOK
<1>3. /\ new \in Seq(Lines) /\ n \in Nat /\ Len(new) = n + 1 /\ new[n + 1] = line
      /\ DOMAIN text = 1..n /\ DOMAIN new = 1..(n + 1) /\ new # <<>>
      /\ \A j \in 1..n : new[j] = text[j]
  BY <1>1, <1>2, AppendFacts
<1>4. ASSUME NEW j \in DOMAIN text PROVE text[j].family # key.metric.family
  <2>1. PICK h \in 1..(i - 1) : text[j] = Header(Rows[h]) \/ text[j] = Sample(Rows[h])
    BY <1>2
  <2>2. text[j].family = Rows[h].metric.family
    BY <2>1, LineFacts
  <2>3. h \in 1..Cardinality(DOMAIN merged) /\ i - 1 \in 1..Cardinality(DOMAIN merged)
        /\ h <= i - 1 /\ i - 1 <= i /\ i - 1 > 0
    BY <1>1, RowFacts
  <2>4. text # <<>> /\ text[n].family = Rows[i - 1].metric.family
    BY <1>2, <2>3, LineFacts
  <2>5. /\ Rows[h].metric.family <= Rows[i - 1].metric.family
        /\ Rows[i - 1].metric.family <= key.metric.family
    BY <2>3, RowFacts
  <2>6. /\ Rows[h].metric.family \in Nat /\ Rows[i - 1].metric.family \in Nat
        /\ key.metric.family \in Nat
    BY <2>3, RowFacts, KeyFacts
  <2>7. Rows[i - 1].metric.family # key.metric.family
    BY <2>4
  <2>8. QED
    BY <2>2, <2>5, <2>6, <2>7
<1> HIDE DEF key, line, new, n
<1>5. ASSUME NEW j \in 1..(n + 1) PROVE \E h \in 1..j : HeaderOf(new, h, j)
  <2>1. CASE j \in 1..n
    <3>1. PICK h \in 1..j : HeaderOf(text, h, j)
      BY <1>2, <1>3, <2>1
    <3>2. j \in 1..Len(text) /\ (line.family = text[j].family => line.kind # "TYPE")
      BY <1>1, <1>3, <1>4, <2>1 DEF n
    <3>3. HeaderOf(Append(text, line), h, j)
      BY <1>1, <1>2, <3>1, <3>2, HeaderStays
    <3>4. QED
      BY <3>3 DEF new
  <2>2. CASE j = n + 1
    <3>1. HeaderOf(Append(text, line), Len(text) + 1, Len(text) + 1)
      BY <1>1, <1>2, <1>4, HeaderOfHeader
    <3>2. j \in 1..j
      BY <1>3, <2>2
    <3>3. QED
      BY <2>2, <3>1, <3>2 DEF new, n
  <2>3. QED
    BY <1>3, <2>1, <2>2
<1>6. ASSUME NEW j \in 1..(n + 1)
      PROVE  \E h \in 1..i : new[j] = Header(Rows[h]) \/ new[j] = Sample(Rows[h])
  <2>1. CASE j \in 1..n
    <3>1. PICK h \in 1..(i - 1) : text[j] = Header(Rows[h]) \/ text[j] = Sample(Rows[h])
      BY <1>2, <1>3, <2>1
    <3>2. h \in 1..i /\ new[j] = text[j]
      BY <1>1, <1>3, <2>1
    <3>3. QED
      BY <3>1, <3>2
  <2>2. CASE j = n + 1
    BY <1>1, <1>3, <2>2 DEF line, key
  <2>3. QED
    BY <1>3, <2>1, <2>2
<1>7. Headed(new, i)
  BY <1>3, <1>5, <1>6 DEF Headed
<1>8. new[Len(new)].family = key.metric.family
  BY <1>1, <1>3
<1>9. \A j \in DOMAIN text : j \in DOMAIN new /\ new[j] = text[j]
  BY <1>3
<1>10. QED
  BY <1>3, <1>7, <1>8, <1>9 DEF new, line, key

\* Behind a line of its family, a row needs no header.
LEMMA SampleNext ==
  ASSUME NEW i \in Nat \ {0}, Rows[i] \in DOMAIN merged,
         NEW text, Headed(text, i), text # <<>>,
         text[Len(text)].family = Rows[i].metric.family,
         \A h \in 1..(i - 1) : \E j \in DOMAIN text : text[j] = Sample(Rows[h])
  PROVE  TextOK(Append(text, Sample(Rows[i])), i)
<1> DEFINE line == Sample(Rows[i])
           new  == Append(text, line)
           n    == Len(text)
<1>1. line \in Lines /\ line.kind # "TYPE" /\ line.family = text[Len(text)].family
  BY LineFacts DEF Lines
<1>2. /\ text \in Seq(Lines)
      /\ \A j \in DOMAIN text : \E h \in 1..i : text[j] = Header(Rows[h]) \/ text[j] = Sample(Rows[h])
      /\ \A j \in DOMAIN text : \E h \in 1..j : HeaderOf(text, h, j)
  BY DEF Headed
<1>3. /\ new \in Seq(Lines) /\ n \in Nat /\ Len(new) = n + 1 /\ new[n + 1] = line
      /\ DOMAIN text = 1..n /\ DOMAIN new = 1..(n + 1) /\ new # <<>>
      /\ \A j \in 1..n : new[j] = text[j]
  BY <1>1, <1>2, AppendFacts
<1>4. n \in 1..n
  BY <1>2
<1>5. i \in 1..i
  OBVIOUS
<1>6. line = Sample(Rows[i])
  OBVIOUS
<1> HIDE DEF line, new, n
<1>7. ASSUME NEW j \in 1..(n + 1) PROVE \E h \in 1..j : HeaderOf(new, h, j)
  <2>1. CASE j \in 1..n
    <3>1. PICK h \in 1..j : HeaderOf(text, h, j)
      BY <1>2, <1>3, <2>1
    <3>2. j \in 1..Len(text)
      BY <2>1 DEF n
    <3>3. HeaderOf(Append(text, line), h, j)
      BY <1>1, <1>2, <3>1, <3>2, HeaderStays
    <3>4. QED
      BY <3>3 DEF new
  <2>2. CASE j = n + 1
    <3>1. PICK h \in 1..n : HeaderOf(text, h, n)
      BY <1>2, <1>3, <1>4
    <3>2. HeaderOf(Append(text, line), h, Len(text) + 1)
      BY <1>1, <1>2, <3>1, HeaderOfSample DEF n
    <3>3. h \in 1..j
      BY <1>3, <2>2
    <3>4. QED
      BY <2>2, <3>2, <3>3 DEF new, n
  <2>3. QED
    BY <1>3, <2>1, <2>2
<1>8. ASSUME NEW j \in 1..(n + 1)
      PROVE  \E h \in 1..i : new[j] = Header(Rows[h]) \/ new[j] = Sample(Rows[h])
  <2>1. CASE j \in 1..n
    BY <1>2, <1>3, <2>1
  <2>2. CASE j = n + 1
    BY <1>3, <1>5, <1>6, <2>2
  <2>3. QED
    BY <1>3, <2>1, <2>2
<1>9. ASSUME NEW h \in 1..i PROVE \E j \in DOMAIN new : new[j] = Sample(Rows[h])
  <2>1. CASE h = i
    <3>1. n + 1 \in DOMAIN new
      BY <1>3
    <3>2. QED
      BY <1>3, <1>6, <2>1, <3>1
  <2>2. CASE h # i
    <3>1. h \in 1..(i - 1)
      BY <2>2
    <3>2. PICK j \in DOMAIN text : text[j] = Sample(Rows[h])
      BY <3>1
    <3>3. j \in DOMAIN new /\ new[j] = text[j]
      BY <1>3
    <3>4. QED
      BY <3>2, <3>3
  <2>3. QED
    BY <2>1, <2>2
<1>10. new # <<>> /\ new[Len(new)] = Sample(Rows[i])
  BY <1>3, <1>6
<1>11. TextOK(new, i)
  BY <1>3, <1>7, <1>8, <1>9, <1>10 DEF TextOK
<1>12. QED
  BY <1>11 DEF new, line

\* A row more.
LEMMA AddRowOK ==
  ASSUME MergeTypeOK, IsFiniteSet(DOMAIN merged),
         NEW i \in 1..Cardinality(DOMAIN merged), NEW text, TextOK(text, i - 1)
  PROVE  TextOK(AddRow(text, Rows[i]), i)
<1>1. i \in Nat \ {0} /\ Rows[i] \in DOMAIN merged /\ i - 1 \in Nat
  BY RowFacts
<1>2. CASE text # <<>> /\ text[Len(text)].family = Rows[i].metric.family
  <2>1. Headed(text, i)
    <3>1. \A h \in 1..(i - 1) : h \in 1..i
      BY <1>1
    <3>2. QED
      BY <3>1 DEF Headed, TextOK
  <2>2. \A h \in 1..(i - 1) : \E j \in DOMAIN text : text[j] = Sample(Rows[h])
    BY DEF TextOK
  <2>3. TextOK(Append(text, Sample(Rows[i])), i)
    BY <1>1, <1>2, <2>1, <2>2, SampleNext
  <2>4. QED
    BY <1>2, <2>3 DEF AddRow
<1>3. CASE ~(text # <<>> /\ text[Len(text)].family = Rows[i].metric.family)
  <2> DEFINE new == Append(text, Header(Rows[i]))
  <2>1. /\ Headed(new, i) /\ new # <<>> /\ new[Len(new)].family = Rows[i].metric.family
        /\ \A j \in DOMAIN text : j \in DOMAIN new /\ new[j] = text[j]
    BY <1>3, HeaderFirst
  <2> HIDE DEF new
  <2>2. \A h \in 1..(i - 1) : \E j \in DOMAIN new : new[j] = Sample(Rows[h])
    BY <2>1 DEF TextOK
  <2>3. TextOK(Append(new, Sample(Rows[i])), i)
    BY <1>1, <2>1, <2>2, SampleNext
  <2>4. QED
    BY <1>3, <2>3 DEF AddRow, new
<1>4. QED
  BY <1>2, <1>3

\* The text of a scrape has all rows.
LEMMA RenderOK ==
  ASSUME MergeTypeOK, IsFiniteSet(DOMAIN merged)
  PROVE  TextOK(Render, Cardinality(DOMAIN merged))
<1> DEFINE n == Cardinality(DOMAIN merged)
<1>1. n \in Nat
  BY RowFacts
<1>2. PICK t : IsText(t, n) /\ Render = t[n]
  BY <1>1, RenderIs
<1>3. t[0] = <<>> /\ \A i \in 1..n : t[i] = AddRow(t[i - 1], Rows[i])
  BY <1>1, <1>2, TextSteps
<1> DEFINE B == {i \in 0..n : ~TextOK(t[i], i)}
<1>4. ASSUME B # {} PROVE FALSE
  <2>1. PICK i \in B : \A m \in B : i <= m
    <3>1. B \subseteq Nat
      BY <1>1
    <3> HIDE DEF B
    <3>2. QED
      BY <1>4, <3>1, SmallestNumber
  <2>2. i # 0
    <3>1. /\ <<>> \in Seq(Lines) /\ DOMAIN <<>> = {} /\ 1..0 = {} /\ ~(0 > 0)
      OBVIOUS
    <3>2. TextOK(<<>>, 0)
      BY <3>1 DEF TextOK
    <3>3. QED
      BY <1>3, <2>1, <3>2
  <2>3. i \in 1..n /\ i - 1 \in 0..n /\ i - 1 < i
    BY <1>1, <2>1, <2>2
  <2>4. TextOK(t[i - 1], i - 1)
    BY <2>1, <2>3
  <2>5. TextOK(t[i], i)
    BY <1>3, <2>3, <2>4, AddRowOK
  <2>6. QED
    BY <2>1, <2>5
<1>5. TextOK(t[n], n)
  BY <1>1, <1>4
<1>6. QED
  BY <1>2, <1>5

-----------------------------------------------------------------------------
(* The values of the series *)

\* A file that was read, and the series it adds to.
LEMMA OkFacts ==
  ASSUME dir \in [Paths -> Entries], NEW p \in Holding("ok")
  PROVE  /\ p \in Paths /\ dir[p].state = "ok" /\ ValueIn[p] \in Int
         /\ dir[p].params \in Params /\ dir[p].metrics \subseteq Metrics
         /\ dir[p].metrics # {}
<1>1. p \in Paths /\ dir[p].state = "ok"
  BY DEF Holding
<1>2. dir[p] \in [state : {"ok"}, params : Params, metrics : (SUBSET Metrics) \ {{}}]
  BY <1>1 DEF Entries, Faults
<1>3. ValueIn[p] \in Int
  BY <1>1, MergeAssumption
<1>4. dir[p].params \in Params /\ dir[p].metrics \in (SUBSET Metrics) \ {{}}
  BY <1>2
<1> DEFINE metrics == dir[p].metrics
<1>5. metrics \in (SUBSET Metrics) \ {{}}
  BY <1>4
<1> HIDE DEF metrics
<1>6. metrics \subseteq Metrics /\ metrics # {}
  BY <1>5
<1>7. dir[p].metrics \subseteq Metrics /\ dir[p].metrics # {}
  BY <1>6 DEF metrics
<1>8. QED
  BY <1>1, <1>3, <1>4, <1>7

\* The parameters of a file: what is not summed up, least or greatest is told apart by
\* its pid.
LEMMA ParamsFacts ==
  ASSUME NEW params \in Params
  PROVE  /\ Adds(params) => params.mode \notin {"min", "max"}
         /\ ~Adds(params) => (params.mode \in {"min", "max"} <=> ~PidSignificant(params))
BY MergeAssumption DEF Adds, PidSignificant

\* The contributors of a series are the files that have it.
LEMMA ContributorFacts ==
  ASSUME NEW p, NEW key
  PROVE  p \in Contributors(key) <=> p \in Holding("ok") /\ key \in Incoming(p)
<1>1. ASSUME p \in Contributors(key) PROVE p \in Holding("ok") /\ key \in Incoming(p)
  BY <1>1 DEF Contributors, Incoming
<1>2. ASSUME p \in Holding("ok"), key \in Incoming(p) PROVE p \in Contributors(key)
  <2>1. PICK m \in dir[p].metrics : key = EntryKey(p, m)
    BY <1>2 DEF Incoming
  <2>2. key.metric = m
    BY <2>1 DEF EntryKey
  <2>3. QED
    BY <1>2, <2>1, <2>2 DEF Contributors
<1>3. QED
  BY <1>1, <1>2

\* The series are finitely many.
LEMMA MergedFinite ==
  ASSUME dir \in [Paths -> Entries], DOMAIN merged = UNION {Incoming(p) : p \in FilesRead}
  PROVE  IsFiniteSet(DOMAIN merged)
<1>1. ASSUME NEW p \in FilesRead PROVE IsFiniteSet(Incoming(p))
  <2>1. dir[p].metrics \in SUBSET Metrics
    BY OkFacts DEF FilesRead
  <2>2. IsFiniteSet(dir[p].metrics)
    BY <2>1, MergeAssumption, FS_Subset
  <2>3. [m \in dir[p].metrics |-> EntryKey(p, m)] \in Surjection(dir[p].metrics, Incoming(p))
    BY DEF Surjection, Incoming
  <2>4. QED
    BY <2>2, <2>3, FS_Surjection
<1>2. FilesRead \in SUBSET Paths
  BY OkFacts DEF FilesRead
<1>3. IsFiniteSet(FilesRead)
  BY <1>2, MergeAssumption, FS_Subset
<1>4. [p \in FilesRead |-> Incoming(p)]
        \in Surjection(FilesRead, {Incoming(p) : p \in FilesRead})
  BY DEF Surjection
<1>5. IsFiniteSet({Incoming(p) : p \in FilesRead})
  BY <1>3, <1>4, FS_Surjection
<1>6. QED
  BY <1>1, <1>5, FS_UNION

\* The lesser and the greater of two.
LEMMA TwoFacts ==
  ASSUME NEW a \in Int, NEW b \in Int
  PROVE  /\ Min({a, b}) = IF a <= b THEN a ELSE b
         /\ Max({a, b}) = IF a <= b THEN b ELSE a
BY DEF Min, Max

\* The least, the greatest and the only one of a set.
LEMMA ExtremeFacts ==
  ASSUME NEW S, S \subseteq Int, NEW v \in S
  PROVE  /\ (\A w \in S : v <= w) => Min(S) = v
         /\ (\A w \in S : v >= w) => Max(S) = v
<1>1. ASSUME \A w \in S : v <= w PROVE Min(S) = v
  <2>1. Min(S) \in S /\ \A w \in S : Min(S) <= w
    BY <1>1 DEF Min
  <2> DEFINE m == Min(S)
  <2>2. m \in Int /\ v \in Int /\ m <= v /\ v <= m
    BY <1>1, <2>1
  <2> HIDE DEF m
  <2>3. m = v
    BY <2>2
  <2>4. QED
    BY <2>3 DEF m
<1>2. ASSUME \A w \in S : v >= w PROVE Max(S) = v
  <2>1. Max(S) \in S /\ \A w \in S : Max(S) >= w
    BY <1>2 DEF Max
  <2> DEFINE m == Max(S)
  <2>2. m \in Int /\ v \in Int /\ m >= v /\ v >= m
    BY <1>2, <2>1
  <2> HIDE DEF m
  <2>3. m = v
    BY <2>2
  <2>4. QED
    BY <2>3 DEF m
<1>3. QED
  BY <1>1, <1>2

\* The values of finitely many files add up.
LEMMA FilesSum ==
  ASSUME dir \in [Paths -> Entries], NEW files \in SUBSET Holding("ok"),
         NEW p \in Holding("ok"), p \notin files
  PROVE  /\ Total(ValueIn, files) \in Int
         /\ Total(ValueIn, files \cup {p}) = Total(ValueIn, files) + ValueIn[p]
         /\ Total(ValueIn, {p}) = ValueIn[p]
         /\ IsFiniteSet(files \cup {p})
<1>1. files \cup {p} \in SUBSET Paths /\ \A q \in files \cup {p} : ValueIn[q] \in Int
  BY OkFacts
<1>2. IsFiniteSet(files) /\ IsFiniteSet(files \cup {p}) /\ IsFiniteSet({})
  BY <1>1, MergeAssumption, FS_Subset, FS_EmptySet
<1>3. Total(ValueIn, files) \in Int
  BY <1>1, <1>2, TotalInt
<1>4. Total(ValueIn, files \cup {p}) = ValueIn[p] + Total(ValueIn, files)
  BY <1>1, <1>2, TotalAdd
<1>5. Total(ValueIn, {p}) = ValueIn[p]
  <2>1. Total(ValueIn, {} \cup {p}) = ValueIn[p] + Total(ValueIn, {})
    BY <1>1, <1>2, TotalAdd
  <2>2. {} \cup {p} = {p} /\ Total(ValueIn, {}) = 0 /\ ValueIn[p] \in Int
    BY <1>1, TotalEmpty
  <2>3. QED
    BY <2>1, <2>2
<1>6. QED
  BY <1>1, <1>2, <1>3, <1>4, <1>5

\* The first file of a series.
LEMMA FirstFile ==
  ASSUME dir \in [Paths -> Entries], NEW p \in Holding("ok")
  PROVE  Accounted(Meta(p), {p})
<1>1. /\ Meta(p) = [mode |-> dir[p].params.mode, metric_type |-> dir[p].params.metric_type,
                    value |-> Meta(p).value]
      /\ Meta(p).value = ValueIn[p]
  BY DEF Meta
<1>2. ValueIn[p] \in Int /\ Total(ValueIn, {p}) = ValueIn[p]
  <2>1. {} \in SUBSET Holding("ok") /\ p \notin {}
    OBVIOUS
  <2>2. Total(ValueIn, {p}) = ValueIn[p]
    BY <2>1, FilesSum
  <2>3. QED
    BY <2>2, OkFacts
<1>3. AccountsFor(ValueIn[p], {p}, dir[p].params)
  BY <1>2 DEF AccountsFor
<1>4. QED
  BY <1>1, <1>2, <1>3 DEF Accounted

\* What merge_meta leaves: the kind of the series, and a number.
LEMMA MergeMetaFacts ==
  ASSUME dir \in [Paths -> Entries], NEW p \in Holding("ok"), NEW entry, NEW q,
         entry = [mode |-> dir[q].params.mode, metric_type |-> dir[q].params.metric_type,
                  value |-> entry.value],
         entry.value \in Int
  PROVE  LET new == MergeMeta(entry, Meta(p)) IN
         /\ new = [mode |-> dir[q].params.mode, metric_type |-> dir[q].params.metric_type,
                   value |-> new.value]
         /\ new.value \in Int
         /\ new.value =
              IF Adds(dir[p].params) THEN entry.value + ValueIn[p]
              ELSE IF dir[p].params.mode = "min"
              THEN IF entry.value <= ValueIn[p] THEN entry.value ELSE ValueIn[p]
              ELSE IF dir[p].params.mode = "max"
              THEN IF entry.value <= ValueIn[p] THEN ValueIn[p] ELSE entry.value
              ELSE ValueIn[p]
<1> DEFINE params == dir[p].params
           value == IF Adds(params) THEN entry.value + ValueIn[p]
                    ELSE IF params.mode = "min"
                    THEN IF entry.value <= ValueIn[p] THEN entry.value ELSE ValueIn[p]
                    ELSE IF params.mode = "max"
                    THEN IF entry.value <= ValueIn[p] THEN ValueIn[p] ELSE entry.value
                    ELSE ValueIn[p]
           merge == CASE params.metric_type # "gauge" \/ params.mode = "livesum" ->
                           entry.value + ValueIn[p]
                      [] params.mode = "min" -> Min({entry.value, ValueIn[p]})
                      [] params.mode = "max" -> Max({entry.value, ValueIn[p]})
                      [] OTHER -> ValueIn[p]
<1>1. ValueIn[p] \in Int /\ params \in Params
  BY OkFacts
<1>2. params.metric_type # "gauge" => params.mode = "all"
  BY <1>1, MergeAssumption
<1>3. merge = value
  BY <1>1, <1>2, TwoFacts DEF Adds
<1>4. value \in Int
  BY <1>1
<1>5. MergeMeta(entry, Meta(p)) = [entry EXCEPT !.value = merge]
  BY DEF MergeMeta, Meta
<1> HIDE DEF merge, value
<1>6. MergeMeta(entry, Meta(p)) = [mode |-> dir[q].params.mode,
                                   metric_type |-> dir[q].params.metric_type, value |-> value]
  BY <1>3, <1>5
<1>7. QED
  BY <1>4, <1>6 DEF value

\* One more file of a series.
LEMMA NextFileOf ==
  ASSUME dir \in [Paths -> Entries], NEW files \in SUBSET Holding("ok"), NEW entry,
         Accounted(entry, files), NEW p \in Holding("ok"), p \notin files
  PROVE  Accounted(MergeMeta(entry, Meta(p)), files \cup {p})
<1> DEFINE new == MergeMeta(entry, Meta(p))
           all == files \cup {p}
<1>1. PICK q \in files :
        /\ entry = [mode |-> dir[q].params.mode, metric_type |-> dir[q].params.metric_type,
                    value |-> entry.value]
        /\ entry.value \in Int
        /\ Unambiguous(files) => AccountsFor(entry.value, files, dir[q].params)
  BY DEF Accounted
<1>2. /\ new = [mode |-> dir[q].params.mode, metric_type |-> dir[q].params.metric_type,
                value |-> new.value]
      /\ new.value \in Int
      /\ new.value =
           IF Adds(dir[p].params) THEN entry.value + ValueIn[p]
           ELSE IF dir[p].params.mode = "min"
           THEN IF entry.value <= ValueIn[p] THEN entry.value ELSE ValueIn[p]
           ELSE IF dir[p].params.mode = "max"
           THEN IF entry.value <= ValueIn[p] THEN ValueIn[p] ELSE entry.value
           ELSE ValueIn[p]
  BY <1>1, MergeMetaFacts
<1>3. ASSUME Unambiguous(all) PROVE AccountsFor(new.value, all, dir[q].params)
  <2>1. /\ dir[q].params.metric_type = dir[p].params.metric_type
        /\ dir[q].params.mode = dir[p].params.mode
        /\ Adds(dir[q].params) <=> Adds(dir[p].params)
    BY <1>3 DEF Unambiguous, Meta, Adds
  <2>2. \A r \in all : ~PidSignificant(dir[r].params)
    <3>1. Cardinality(all) # 1
      <4>1. IsFiniteSet(all) /\ q \in all /\ p \in all /\ q # p
        BY <1>1, FilesSum
      <4>2. QED
        BY <4>1, FS_Singleton
    <3>2. QED
      BY <1>3, <3>1 DEF Unambiguous
  <2>3. Unambiguous(files)
    BY <1>3, <2>2 DEF Unambiguous
  <2>4. AccountsFor(entry.value, files, dir[q].params)
    BY <1>1, <2>3
  <2>5. dir[p].params \in Params /\ ValueIn[p] \in Int /\ \A r \in files : ValueIn[r] \in Int
    BY OkFacts
  <2>6. CASE Adds(dir[p].params)
    <3>1. Total(ValueIn, all) = Total(ValueIn, files) + ValueIn[p]
      BY FilesSum
    <3>2. new.value = entry.value + ValueIn[p] /\ entry.value = Total(ValueIn, files)
      BY <1>2, <2>1, <2>4, <2>6 DEF AccountsFor
    <3>3. QED
      BY <2>1, <2>6, <3>1, <3>2 DEF AccountsFor
  <2>7. CASE ~Adds(dir[p].params)
    <3>1. dir[p].params.mode \in {"min", "max"}
      BY <2>2, <2>5, <2>7, ParamsFacts
    <3>2. \E r \in files : entry.value = ValueIn[r]
      BY <2>1, <2>4, <2>7 DEF AccountsFor
    <3>3. CASE dir[p].params.mode = "min"
      <4>1. \A r \in files : entry.value <= ValueIn[r]
        BY <2>1, <2>4, <2>7, <3>3 DEF AccountsFor
      <4>2. new.value = IF entry.value <= ValueIn[p] THEN entry.value ELSE ValueIn[p]
        BY <1>2, <2>7, <3>3
      <4>3. \A r \in all : new.value <= ValueIn[r]
        BY <1>1, <2>5, <4>1, <4>2
      <4>4. \E r \in all : new.value = ValueIn[r]
        BY <3>2, <4>2
      <4>5. QED
        BY <2>1, <2>7, <3>3, <4>3, <4>4 DEF AccountsFor
    <3>4. CASE dir[p].params.mode = "max"
      <4>1. \A r \in files : entry.value >= ValueIn[r]
        BY <2>1, <2>4, <2>7, <3>4 DEF AccountsFor
      <4>2. new.value = IF entry.value <= ValueIn[p] THEN ValueIn[p] ELSE entry.value
        BY <1>2, <2>7, <3>4
      <4>3. \A r \in all : new.value >= ValueIn[r]
        BY <1>1, <2>5, <4>1, <4>2
      <4>4. \E r \in all : new.value = ValueIn[r]
        BY <3>2, <4>2
      <4>5. QED
        BY <2>1, <2>7, <3>4, <4>3, <4>4 DEF AccountsFor
    <3>5. QED
      BY <3>1, <3>3, <3>4
  <2>8. QED
    BY <2>6, <2>7
<1>4. q \in all
  BY <1>1
<1> HIDE DEF new, all
<1>5. Accounted(new, all)
  BY <1>2, <1>3, <1>4 DEF Accounted
<1>6. QED
  BY <1>5 DEF new, all

\* What accounts for the files of a series is the reference.
LEMMA CombinedIs ==
  ASSUME dir \in [Paths -> Entries], NEW files \in SUBSET Holding("ok"), NEW entry,
         Accounted(entry, files), Unambiguous(files), NEW p \in files
  PROVE  entry.value = Combined(files, dir[p].params)
<1> DEFINE v == entry.value
           values == {ValueIn[r] : r \in files}
           params == dir[p].params
<1>1. PICK q \in files : v \in Int /\ AccountsFor(v, files, dir[q].params)
  BY DEF Accounted
<1>2. /\ dir[q].params.metric_type = params.metric_type /\ dir[q].params.mode = params.mode
      /\ Adds(dir[q].params) <=> Adds(params)
  BY DEF Unambiguous, Meta, Adds
<1>3. values \subseteq Int /\ params \in Params
  BY OkFacts
<1> HIDE DEF values, v, params
<1>4. CASE Adds(params)
  <2>1. v = Total(ValueIn, files)
    BY <1>1, <1>2, <1>4 DEF AccountsFor
  <2>2. params.mode \notin {"min", "max"}
    BY <1>3, <1>4, ParamsFacts
  <2>3. Combined(files, params) = Total(ValueIn, files)
    BY <1>4, <2>2 DEF Combined
  <2>4. QED
    BY <2>1, <2>3 DEF params, v
<1>5. CASE ~Adds(params)
  <2>1. v \in values
    BY <1>1, <1>2, <1>5 DEF AccountsFor, values
  <2>2. CASE params.mode = "min"
    <3>1. \A w \in values : v <= w
      BY <1>1, <1>2, <1>5, <2>2 DEF AccountsFor, values
    <3>2. Min(values) = v
      BY <1>3, <2>1, <3>1, ExtremeFacts
    <3>3. Combined(files, params) = Min(values)
      BY <1>5, <2>2 DEF Combined, values
    <3>4. QED
      BY <3>2, <3>3 DEF v, params
  <2>3. CASE params.mode = "max"
    <3>1. \A w \in values : v >= w
      BY <1>1, <1>2, <1>5, <2>3 DEF AccountsFor, values
    <3>2. Max(values) = v
      BY <1>3, <2>1, <3>1, ExtremeFacts
    <3>3. Combined(files, params) = Max(values)
      BY <1>5, <2>3 DEF Combined, values
    <3>4. QED
      BY <3>2, <3>3 DEF v, params
  <2>4. CASE params.mode \notin {"min", "max"}
    <3>1. PidSignificant(params)
      BY <1>3, <1>5, <2>4, ParamsFacts
    <3>2. Cardinality(files) = 1
      BY <3>1 DEF Unambiguous, params
    <3>3. files \in SUBSET Paths
      BY OkFacts
    <3>4. IsFiniteSet(files)
      BY <3>3, MergeAssumption, FS_Subset
    <3>5. \E x : files = {x}
      BY <3>2, <3>4, FS_Singleton
    <3>6. values = {v}
      BY <2>1, <3>5 DEF values
    <3>7. Combined(files, params) = CHOOSE w \in values : TRUE
      BY <1>5, <2>4 DEF Combined, values
    <3>8. (CHOOSE w \in {v} : TRUE) = v
      OBVIOUS
    <3>9. QED
      BY <3>6, <3>7, <3>8 DEF v, params
  <2>5. QED
    BY <2>2, <2>3, <2>4
<1>6. QED
  BY <1>4, <1>5

-----------------------------------------------------------------------------
(* What is merged is what was read *)

\* The directory stays as it is, and so does all that is said of its files alone.
LEMMA FilesStay ==
  ASSUME UNCHANGED dir
  PROVE  /\ \A state : Holding(state)' = Holding(state)
         /\ \A p : Incoming(p)' = Incoming(p)
         /\ \A key : Contributors(key)' = Contributors(key)
         /\ \A entry, files : Accounted(entry, files)' <=> Accounted(entry, files)
<1>1. \A state : Holding(state)' = Holding(state)
  BY DEF Holding
<1>2. \A p, m : EntryKey(p, m)' = EntryKey(p, m)
  BY DEF EntryKey
<1>3. \A p : Incoming(p)' = Incoming(p)
  BY <1>2 DEF Incoming
<1>4. \A key : Contributors(key)' = Contributors(key)
  BY <1>1, <1>2 DEF Contributors
<1>5. \A files : Unambiguous(files)' <=> Unambiguous(files)
  BY DEF Unambiguous, Meta
<1>6. \A entry, files : Accounted(entry, files)' <=> Accounted(entry, files)
  BY <1>5 DEF Accounted
<1>7. QED
  BY <1>1, <1>3, <1>4, <1>6

\* Before the first file.
LEMMA DiscoverMerges ==
  ASSUME MergeInv, MergedSoFar, Discover
  PROVE  MergedSoFar'
<1>1. /\ phase = "discover" /\ phase' = "merge" /\ merged' = merged /\ UNCHANGED dir
      /\ todo' = DOMAIN dir \ Holding("bad_name")
  BY DEF Discover
<1>2. DOMAIN merged' = {}
  BY <1>1 DEF MergedSoFar
<1>3. FilesRead' = {}
  <2>1. FilesRead' = Holding("ok") \ todo'
    BY <1>1, FilesStay DEF FilesRead
  <2>2. QED
    BY <1>1, <2>1 DEF Holding
<1>4. UNION {Incoming(p)' : p \in FilesRead'} = {}
  BY <1>3
<1>5. QED
  BY <1>1, <1>2, <1>4 DEF MergedSoFar

\* A file that has no series to add.
LEMMA OtherFileMerges ==
  ASSUME MergeInv, MergedSoFar, NEW p \in todo, PassFile(p) \/ SkipFile(p)
  PROVE  MergedSoFar'
<1>1. /\ phase = "merge" /\ phase' = "merge" /\ merged' = merged /\ UNCHANGED dir
      /\ todo' = todo \ {p} /\ dir[p].state # "ok"
  BY DEF PassFile, SkipFile, NextFile
<1>2. FilesRead' = FilesRead
  <2>1. FilesRead' = Holding("ok") \ todo'
    BY <1>1, FilesStay DEF FilesRead
  <2>2. p \notin Holding("ok")
    BY <1>1 DEF Holding
  <2>3. QED
    BY <1>1, <2>1, <2>2 DEF FilesRead
<1>3. /\ DOMAIN merged = UNION {Incoming(q) : q \in FilesRead}
      /\ \A key \in DOMAIN merged : Accounted(merged[key], Contributors(key) \cap FilesRead)
  BY <1>1 DEF MergedSoFar
<1>4. UNION {Incoming(q)' : q \in FilesRead'} = UNION {Incoming(q) : q \in FilesRead}
  BY <1>1, <1>2, FilesStay
<1>5. ASSUME NEW key \in DOMAIN merged'
      PROVE  Accounted(merged[key], Contributors(key) \cap FilesRead)'
  <2>1. /\ key \in DOMAIN merged /\ merged'[key] = merged[key]
        /\ Contributors(key)' \cap FilesRead' = Contributors(key) \cap FilesRead
    BY <1>1, <1>2, FilesStay
  <2>2. QED
    BY <1>1, <1>3, <2>1, FilesStay
<1>6. QED
  BY <1>1, <1>3, <1>4, <1>5 DEF MergedSoFar

\* A file adds its value to the series that it has, and to no other.
LEMMA FileMerges ==
  ASSUME MergeInv, MergedSoFar, NEW p \in todo, MergeFile(p)
  PROVE  MergedSoFar'
<1>1. /\ phase = "merge" /\ phase' = "merge" /\ UNCHANGED dir /\ todo' = todo \ {p}
      /\ dir[p].state = "ok" /\ dir \in [Paths -> Entries] /\ p \in DOMAIN dir
  BY DEF MergeFile, NextFile, MergeInv, MergeTypeOK
<1>2. p \in Holding("ok") /\ p \notin FilesRead /\ FilesRead' = FilesRead \cup {p}
      /\ FilesRead \in SUBSET Holding("ok")
  <2>1. FilesRead' = Holding("ok") \ todo'
    BY <1>1, FilesStay DEF FilesRead
  <2>2. p \in Holding("ok")
    BY <1>1 DEF Holding
  <2>3. QED
    BY <1>1, <2>1, <2>2 DEF FilesRead
<1>3. /\ DOMAIN merged = UNION {Incoming(q) : q \in FilesRead}
      /\ \A key \in DOMAIN merged : Accounted(merged[key], Contributors(key) \cap FilesRead)
  BY <1>1 DEF MergedSoFar
<1>4. /\ DOMAIN merged' = DOMAIN merged \cup Incoming(p)
      /\ \A key \in DOMAIN merged' :
           /\ key \notin Incoming(p) => merged'[key] = merged[key]
           /\ key \in Incoming(p) /\ key \notin DOMAIN merged => merged'[key] = Meta(p)
           /\ key \in Incoming(p) /\ key \in DOMAIN merged =>
                merged'[key] = MergeMeta(merged[key], Meta(p))
  <2> DEFINE entry(key) == IF key \notin Incoming(p) THEN merged[key]
                           ELSE IF key \notin DOMAIN merged THEN Meta(p)
                           ELSE MergeMeta(merged[key], Meta(p))
  <2>1. merged' = [key \in DOMAIN merged \cup Incoming(p) |-> entry(key)]
    BY DEF MergeFile
  <2>2. DOMAIN merged' = DOMAIN merged \cup Incoming(p)
        /\ \A key \in DOMAIN merged' : merged'[key] = entry(key)
    <3> HIDE DEF entry
    <3>1. QED
      BY <2>1
  <2>3. QED
    BY <2>2
<1>5. DOMAIN merged' = UNION {Incoming(q) : q \in FilesRead}'
  <2>1. UNION {Incoming(q) : q \in FilesRead}' = UNION {Incoming(q) : q \in FilesRead \cup {p}}
    BY <1>1, <1>2, FilesStay
  <2>2. UNION {Incoming(q) : q \in FilesRead \cup {p}}
          = (UNION {Incoming(q) : q \in FilesRead}) \cup Incoming(p)
    OBVIOUS
  <2>3. QED
    BY <1>3, <1>4, <2>1, <2>2
<1>6. ASSUME NEW key \in DOMAIN merged'
      PROVE  Accounted(merged[key], Contributors(key) \cap FilesRead)'
  <2> DEFINE files == Contributors(key) \cap FilesRead
             new   == Contributors(key) \cap (FilesRead \cup {p})
  <2>1. Contributors(key)' \cap FilesRead' = new
    BY <1>1, <1>2, FilesStay
  <2>2. Accounted(merged'[key], new)
    <3>1. CASE key \notin Incoming(p)
      <4>1. new = files /\ key \in DOMAIN merged /\ merged'[key] = merged[key]
        BY <1>4, <3>1, ContributorFacts
      <4>2. QED
        BY <1>3, <4>1
    <3>2. CASE key \in Incoming(p) /\ key \notin DOMAIN merged
      <4>1. files = {}
        BY <1>3, <3>2, ContributorFacts
      <4>2. new = {p} /\ merged'[key] = Meta(p)
        BY <1>2, <1>4, <3>2, <4>1, ContributorFacts
      <4>3. QED
        BY <1>1, <1>2, <4>2, FirstFile
    <3>3. CASE key \in Incoming(p) /\ key \in DOMAIN merged
      <4>1. new = files \cup {p} /\ merged'[key] = MergeMeta(merged[key], Meta(p))
        BY <1>2, <1>4, <3>3, ContributorFacts
      <4>2. files \in SUBSET Holding("ok") /\ p \notin files
        BY <1>2
      <4>3. Accounted(merged[key], files)
        BY <1>3, <3>3
      <4> HIDE DEF files, new
      <4>4. Accounted(MergeMeta(merged[key], Meta(p)), files \cup {p})
        BY <1>1, <1>2, <4>2, <4>3, NextFileOf
      <4>5. QED
        BY <4>1, <4>4
    <3>4. QED
      BY <3>1, <3>2, <3>3
  <2>3. QED
    BY <1>1, <2>1, <2>2, FilesStay
<1>7. QED
  BY <1>1, <1>5, <1>6 DEF MergedSoFar

-----------------------------------------------------------------------------
(* What is shown is what was merged *)

\* The samples of the text are the series of the files, with the values of the reference.
LEMMA SamplesShown ==
  ASSUME MergeInv, MergedSoFar, phase = "merge", todo = {}
  PROVE  /\ {Render[i].key : i \in {j \in DOMAIN Render : Render[j].kind = "sample"}}
              = UNION {Incoming(p) : p \in Holding("ok")}
         /\ \A i \in DOMAIN Render :
              Render[i].kind = "sample" /\ Unambiguous(Contributors(Render[i].key)) =>
                \A p \in Contributors(Render[i].key) :
                  Render[i].value = Combined(Contributors(Render[i].key), dir[p].params)
<1> DEFINE n     == Cardinality(DOMAIN merged)
           shown == {i \in DOMAIN Render : Render[i].kind = "sample"}
<1>1. /\ dir \in [Paths -> Entries] /\ MergeTypeOK /\ FilesRead = Holding("ok")
      /\ DOMAIN merged = UNION {Incoming(p) : p \in FilesRead}
      /\ \A key \in DOMAIN merged : Accounted(merged[key], Contributors(key) \cap FilesRead)
  BY DEF MergeInv, MergedSoFar, FilesRead
<1>2. IsFiniteSet(DOMAIN merged)
  BY <1>1, MergedFinite
<1>3. TextOK(Render, n)
  BY <1>1, <1>2, RenderOK
<1>4. \A h \in 1..n : Rows[h] \in DOMAIN merged
  BY <1>1, <1>2, RowFacts
<1>5. \A key \in DOMAIN merged : \E h \in 1..n : Rows[h] = key
  BY <1>1, <1>2, RowFacts
<1> HIDE DEF n
<1>6. ASSUME NEW i \in shown
      PROVE  /\ Render[i].key \in DOMAIN merged
             /\ Render[i].value = merged[Render[i].key].value
  <2>1. PICK h \in 1..n : Render[i] = Header(Rows[h]) \/ Render[i] = Sample(Rows[h])
    BY <1>3 DEF TextOK
  <2> DEFINE key == Rows[h]
  <2>2. key \in DOMAIN merged /\ Render[i].kind = "sample"
    BY <1>4
  <2>3. Render[i] = Header(key) \/ Render[i] = Sample(key)
    BY <2>1
  <2> HIDE DEF key
  <2>4. Render[i] = Sample(key)
    BY <2>2, <2>3, LineFacts
  <2>5. Render[i].key = key /\ Render[i].value = merged[key].value
    BY <2>4, LineFacts
  <2>6. QED
    BY <2>2, <2>5
<1>7. ASSUME NEW key \in DOMAIN merged PROVE \E i \in shown : Render[i].key = key
  <2>1. PICK h \in 1..n : Rows[h] = key
    BY <1>5
  <2>2. PICK i \in DOMAIN Render : Render[i] = Sample(Rows[h])
    BY <1>3 DEF TextOK
  <2>3. Render[i] = Sample(key)
    BY <2>1, <2>2
  <2>4. Render[i].kind = "sample" /\ Render[i].key = key
    BY <2>3, LineFacts
  <2>5. QED
    BY <2>4
<1>8. {Render[i].key : i \in shown} = DOMAIN merged
  BY <1>6, <1>7
<1>9. ASSUME NEW i \in shown, Unambiguous(Contributors(Render[i].key)),
             NEW p \in Contributors(Render[i].key)
      PROVE  Render[i].value = Combined(Contributors(Render[i].key), dir[p].params)
  <2> DEFINE key   == Render[i].key
             files == Contributors(key)
  <2>1. key \in DOMAIN merged /\ Render[i].value = merged[key].value
    BY <1>6
  <2>2. files \in SUBSET Holding("ok") /\ files \cap FilesRead = files
    BY <1>1, ContributorFacts
  <2> HIDE DEF key
  <2>3. Accounted(merged[key], files)
    BY <1>1, <2>1, <2>2
  <2>4. Unambiguous(files) /\ p \in files
    BY <1>9 DEF key
  <2> HIDE DEF files
  <2>5. merged[key].value = Combined(files, dir[p].params)
    BY <1>1, <2>2, <2>3, <2>4, CombinedIs
  <2>6. QED
    BY <2>1, <2>5 DEF files, key
<1>10. QED
  BY <1>1, <1>8, <1>9

\* Every line of the text has its header, with the type of a file that has the family.
LEMMA HeadersShown ==
  ASSUME MergeInv, MergedSoFar, phase = "merge", todo = {}
  PROVE  \A i \in DOMAIN Render :
           \E h \in 1..i :
             /\ HeaderOf(Render, h, i)
             /\ \E p \in Holding("ok") :
                  /\ Render[h].type = dir[p].params.metric_type
                  /\ \E m \in dir[p].metrics : m.family = Render[h].family
<1> DEFINE n == Cardinality(DOMAIN merged)
<1>1. /\ dir \in [Paths -> Entries] /\ MergeTypeOK
      /\ DOMAIN merged = UNION {Incoming(p) : p \in FilesRead}
      /\ \A key \in DOMAIN merged : Accounted(merged[key], Contributors(key) \cap FilesRead)
  BY DEF MergeInv, MergedSoFar
<1>2. IsFiniteSet(DOMAIN merged)
  BY <1>1, MergedFinite
<1>3. TextOK(Render, n)
  BY <1>1, <1>2, RenderOK
<1>4. \A h \in 1..n : Rows[h] \in DOMAIN merged
  BY <1>1, <1>2, RowFacts
<1> HIDE DEF n
<1>5. SUFFICES ASSUME NEW i \in DOMAIN Render
      PROVE  \E h \in 1..i :
             /\ HeaderOf(Render, h, i)
             /\ \E p \in Holding("ok") :
                  /\ Render[h].type = dir[p].params.metric_type
                  /\ \E m \in dir[p].metrics : m.family = Render[h].family
  OBVIOUS
<1>6. PICK h \in 1..i : HeaderOf(Render, h, i)
  BY <1>3 DEF TextOK
<1>7. h \in DOMAIN Render
  <2>1. Render \in Seq(Lines)
    BY <1>3 DEF TextOK
  <2>2. DOMAIN Render = 1..Len(Render) /\ Len(Render) \in Nat
    BY <2>1
  <2>3. QED
    BY <2>2
<1>8. PICK r \in 1..n : Render[h] = Header(Rows[r]) \/ Render[h] = Sample(Rows[r])
  BY <1>3, <1>7 DEF TextOK
<1> DEFINE key == Rows[r]
<1>9. Render[h] = Header(key)
  BY <1>6, <1>8, LineFacts DEF HeaderOf
<1>10. key \in DOMAIN merged
  BY <1>4
<1> HIDE DEF key
<1>11. PICK p \in Contributors(key) \cap FilesRead :
         merged[key] = [mode |-> dir[p].params.mode, metric_type |-> dir[p].params.metric_type,
                        value |-> merged[key].value]
  BY <1>1, <1>10 DEF Accounted
<1>12. /\ p \in Holding("ok") /\ key.metric \in dir[p].metrics
       /\ merged[key].metric_type = dir[p].params.metric_type
  BY <1>11 DEF Contributors
<1>13. Render[h].type = dir[p].params.metric_type /\ key.metric.family = Render[h].family
  BY <1>9, <1>12, LineFacts
<1>14. QED
  BY <1>6, <1>12, <1>13

\* The end of a scrape shows the reference under its headers.
LEMMA FinishShows ==
  ASSUME MergeInv, MergedSoFar, Finish
  PROVE  MergesToReference' /\ OneHeaderPerFamily'
<1>1. phase = "merge" /\ todo = {} /\ out' = Render /\ UNCHANGED dir
  BY DEF Finish
<1> DEFINE text == Render
<1>2. /\ {text[i].key : i \in {j \in DOMAIN text : text[j].kind = "sample"}}
           = UNION {Incoming(p) : p \in Holding("ok")}
      /\ \A i \in DOMAIN text :
           text[i].kind = "sample" /\ Unambiguous(Contributors(text[i].key)) =>
             \A p \in Contributors(text[i].key) :
               text[i].value = Combined(Contributors(text[i].key), dir[p].params)
  BY <1>1, SamplesShown
<1>3. \A i \in DOMAIN text :
        \E h \in 1..i :
          /\ HeaderOf(text, h, i)
          /\ \E p \in Holding("ok") :
               /\ text[h].type = dir[p].params.metric_type
               /\ \E m \in dir[p].metrics : m.family = text[h].family
  BY <1>1, HeadersShown
<1>4. out' = text
  BY <1>1
<1> HIDE DEF text
<1>5. MergesToReference'
  BY <1>1, <1>2, <1>4, FilesStay DEF MergesToReference, Unambiguous, Meta
<1>6. OneHeaderPerFamily'
  BY <1>1, <1>3, <1>4, FilesStay DEF OneHeaderPerFamily, HeaderOf
<1>7. QED
  BY <1>5, <1>6

\* Before the first step nothing is merged or shown.
LEMMA InitResultInv == MergeInit => ResultInv
BY InitMergeInv DEF MergeInit, ResultInv, MergedSoFar, MergesToReference, OneHeaderPerFamily

\* Every step of a scrape.
LEMMA StepResultInv == ResultInv /\ [MergeNext]_mergeVars => ResultInv'
<1> SUFFICES ASSUME ResultInv, [MergeNext]_mergeVars PROVE ResultInv'
  OBVIOUS
<1>1. MergeInv /\ MergeInv' /\ MergedSoFar /\ MergesToReference /\ OneHeaderPerFamily
  BY StepMergeInv DEF ResultInv
<1>2. CASE Discover
  <2>1. phase' = "merge"
    BY <1>2 DEF Discover
  <2>2. MergedSoFar'
    BY <1>1, <1>2, DiscoverMerges
  <2>3. QED
    BY <1>1, <2>1, <2>2 DEF ResultInv, MergesToReference, OneHeaderPerFamily
<1>3. ASSUME NEW p \in todo, MergeFile(p) \/ PassFile(p) \/ SkipFile(p) PROVE ResultInv'
  <2>1. phase' = "merge"
    BY <1>3 DEF MergeFile, PassFile, SkipFile, NextFile
  <2>2. MergedSoFar'
    BY <1>1, <1>3, FileMerges, OtherFileMerges
  <2>3. QED
    BY <1>1, <2>1, <2>2 DEF ResultInv, MergesToReference, OneHeaderPerFamily
<1>4. CASE Fail
  <2>1. phase' = "failed"
    BY <1>4 DEF Fail
  <2>2. QED
    BY <1>1, <2>1 DEF ResultInv, MergedSoFar, MergesToReference, OneHeaderPerFamily
<1>5. CASE Finish
  <2>1. phase' = "done"
    BY <1>5 DEF Finish
  <2>2. MergesToReference' /\ OneHeaderPerFamily'
    BY <1>1, <1>5, FinishShows
  <2>3. QED
    BY <1>1, <2>1, <2>2 DEF ResultInv, MergedSoFar
<1>6. CASE UNCHANGED mergeVars
  <2>1. UNCHANGED <<dir, phase, todo, merged, out>>
    BY <1>6 DEF mergeVars
  <2>2. FilesRead' = FilesRead
    BY <2>1, FilesStay DEF FilesRead
  <2>3. MergedSoFar'
    <3>1. UNION {Incoming(p) : p \in FilesRead}' = UNION {Incoming(p) : p \in FilesRead}
      BY <2>1, <2>2, FilesStay
    <3>2. ASSUME phase = "merge", NEW key \in DOMAIN merged'
          PROVE  Accounted(merged[key], Contributors(key) \cap FilesRead)'
      <4>1. key \in DOMAIN merged /\ merged'[key] = merged[key]
            /\ Contributors(key)' \cap FilesRead' = Contributors(key) \cap FilesRead
        BY <2>1, <2>2, FilesStay
      <4>2. QED
        BY <1>1, <2>1, <3>2, <4>1, FilesStay DEF MergedSoFar
    <3>3. QED
      BY <1>1, <2>1, <3>1, <3>2 DEF MergedSoFar
  <2>4. MergesToReference'
    BY <1>1, <2>1, FilesStay DEF MergesToReference, Unambiguous, Meta
  <2>5. OneHeaderPerFamily'
    BY <1>1, <2>1, FilesStay DEF OneHeaderPerFamily
  <2>6. QED
    BY <1>1, <2>3, <2>4, <2>5 DEF ResultInv
<1>7. QED
  BY <1>2, <1>3, <1>4, <1>5, <1>6 DEF MergeNext

-----------------------------------------------------------------------------
(* The theorems *)

\* What a scrape has counted at any time.
THEOREM MergeInvariance == MergeSpec => []MergeInv
BY InitMergeInv, StepMergeInv, PTL DEF MergeSpec

\* Type correctness of a scrape: no more errors than files.
THEOREM MergeTypeCorrect == MergeSpec => []MergeTypeOK
BY MergeInvariance, PTL DEF MergeInv

\* The exporter reports each faulty file of a directory once; the aggregation fails
\* only at a fault.
THEOREM FaultsReported == MergeSpec => []FaultsAreReported
BY MergeInvariance, PTL DEF MergeInv

\* What a scrape has merged at any time, and what it shows in the end.
THEOREM ResultInvariance == MergeSpec => []ResultInv
BY InitResultInv, StepResultInv, PTL DEF MergeSpec

\* For any finite directory and any order of its files, what is shown is the reference:
\* every series with the sum, least, greatest or only one of its values.
THEOREM MergeCorrect == MergeSpec => []MergesToReference
BY ResultInvariance, PTL DEF ResultInv

\* The samples of a family stand together under the one header of their family.
THEOREM HeadersCorrect == MergeSpec => []OneHeaderPerFamily
BY ResultInvariance, PTL DEF ResultInv

=============================================================================
