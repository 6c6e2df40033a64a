---------------------------- MODULE DirectoryProofs ----------------------------
(***************************************************************************)
(* Proofs about Directory, for any workers, files, names and readers: what *)
(* a scrape shows of a directory that changes under it, what it may leave  *)
(* out, and when a merged counter falls.                                   *)
(***************************************************************************)
EXTENDS Directory, TLAPS

\* The kinds of files, and the bounds of the values.
LEMMA KindFacts ==
  /\ Counters \subseteq Files /\ LiveSums \subseteq Files
  /\ MaxValue \in Nat /\ MaxValue >= 1 /\ 0 \in 0..MaxValue /\ 1 \in 0..MaxValue
  /\ Nothing \in [Files -> 0..MaxValue] /\ \A f \in Files : Nothing[f] = 0
<1>1. MaxValue \in Nat /\ MaxValue >= 1
  BY BoundsAssumption
<1>2. 0 \in 0..MaxValue /\ 1 \in 0..MaxValue
  BY <1>1
<1>3. QED
  BY <1>1, <1>2 DEF Counters, LiveSums, Nothing

\* Before any scrape; the directory may hold files.
LEMMA InitDirInv == DirInit => DirInv
<1> SUFFICES ASSUME DirInit PROVE DirInv
  OBVIOUS
<1> USE KindFacts DEF DirInit, CollectorInit
<1>1. DirTypeOK
  <2>1. /\ value \in [Files -> 0..MaxValue] /\ size \in [Files -> Nat]
        /\ \A f \in Files \ dir : value[f] = 0 /\ size[f] = 0
    OBVIOUS
  <2>2. QED
    BY <2>1, BoundsAssumption DEF DirTypeOK
<1>2. Nothing \in [Files -> Nat] /\ \A f \in Files : value[f] \in {0, 1} /\ size[f] = value[f]
  BY DEF Nothing
<1>3. DirWellFormed
  BY <1>1, <1>2 DEF DirWellFormed
<1>4. ReaderSteps /\ LengthTaken /\ LookUp /\ ReadSoFar /\ FaultsExplained
  BY BoundsAssumption DEF ReaderSteps, LengthTaken, LookUp, ReadSoFar, FaultsExplained
<1>5. ValuesRise
  BY <1>2 DEF ValuesRise
<1>6. QED
  BY <1>3, <1>4, <1>5 DEF DirInv

-----------------------------------------------------------------------------
(* Workers and the collector *)

\* Steps that only add files to the directory.
LEMMA DirectoryGrows ==
  ASSUME DirInv, UNCHANGED <<fileVars, scrapeVars, historyVars>>, DirTypeOK', dir \subseteq dir',
         \A f \in Files : mapped'[f] = "linked" => f \in dir'
  PROVE  DirInv'
<1> USE DEF DirInv, fileVars, scrapeVars, historyVars
<1>1. DirWellFormed'
  BY DEF DirWellFormed
<1>2. ReaderSteps' /\ LengthTaken' /\ FaultsExplained'
  BY DEF ReaderSteps, LengthTaken, FaultsExplained, Grew
<1>3. LookUp'
  BY DEF LookUp
<1>4. ReadSoFar'
  BY DEF ReadSoFar, Pending
<1>5. ValuesRise'
  BY DEF ValuesRise
<1>6. QED
  BY <1>1, <1>2, <1>3, <1>4, <1>5

\* A worker is forked, dies, or opens its file; the collector finds a file dead or
\* leaves it.
LEMMA OthersKeepDirInv ==
  ASSUME DirInv,
         \/ \E p \in Pids : StartWorker(p) \/ ExitWorker(p)
         \/ \E f \in Files : OpenStore(f) \/ FindDeadFile(f)
         \/ LeaveFile
  PROVE  DirInv'
<1> USE DEF DirInv, DirWellFormed
<1>1. ASSUME NEW p \in Pids, StartWorker(p) PROVE DirInv'
  <2>1. UNCHANGED <<fileVars, scrapeVars, historyVars, dir, mapped, found>>
        /\ alive' = alive \cup {p} /\ born' = born \cup {p}
    BY <1>1 DEF StartWorker, Begin
  <2>2. DirTypeOK'
    BY <2>1 DEF DirTypeOK, fileVars, scrapeVars, historyVars
  <2>3. QED
    BY <2>1, <2>2, DirectoryGrows
<1>2. ASSUME NEW p \in Pids, ExitWorker(p) PROVE DirInv'
  <2>1. /\ UNCHANGED <<fileVars, scrapeVars, historyVars, born, dir>>
        /\ alive' = alive \ {p} /\ found' \in {found, {}}
        /\ mapped' = [f \in Files |-> IF PidOf[f] = p THEN "none" ELSE mapped[f]]
    BY <1>2 DEF ExitWorker, Die
  <2>2. mapped' \in [Files -> {"none", "linked", "orphan"}]
        /\ \A f \in Files : mapped'[f] = "linked" => f \in dir'
    BY <2>1 DEF DirTypeOK
  <2>3. DirTypeOK'
    BY <2>1, <2>2 DEF DirTypeOK, fileVars, scrapeVars, historyVars
  <2>4. QED
    BY <2>1, <2>2, <2>3, DirectoryGrows
<1>3. ASSUME NEW f \in Files, OpenStore(f) PROVE DirInv'
  <2>1. /\ UNCHANGED <<fileVars, scrapeVars, historyVars, alive, born, found>>
        /\ mapped' = [mapped EXCEPT ![f] = "linked"] /\ dir' = dir \cup {f}
    BY <1>3 DEF OpenStore, Link
  <2>2. mapped' \in [Files -> {"none", "linked", "orphan"}]
        /\ \A g \in Files : mapped'[g] = "linked" => g \in dir'
    BY <2>1 DEF DirTypeOK
  <2>3. DirTypeOK'
    BY <2>1, <2>2 DEF DirTypeOK, fileVars, scrapeVars, historyVars
  <2>4. QED
    BY <2>1, <2>2, <2>3, DirectoryGrows
<1>4. ASSUME LeaveFile \/ \E f \in Files : FindDeadFile(f) PROVE DirInv'
  <2>1. /\ UNCHANGED <<fileVars, scrapeVars, historyVars, alive, born, dir, mapped>>
        /\ found' \subseteq Files
    BY <1>4 DEF LeaveFile, FindDeadFile, LeaveAlone, FindDead
  <2>2. DirTypeOK'
    BY <2>1 DEF DirTypeOK, fileVars, scrapeVars, historyVars
  <2>3. QED
    BY <2>1, <2>2, DirectoryGrows
<1>5. QED
  BY <1>1, <1>2, <1>3, <1>4

\* A file takes up entries, and the value of its series rises.
LEMMA FileGrows ==
  ASSUME DirInv, UNCHANGED <<collectorVars, scrapeVars, historyVars>>,
         NEW f \in dir, value' \in [Files -> 0..MaxValue], size' \in [Files -> Nat],
         \A g \in Files : /\ value[g] <= value'[g] /\ size[g] <= size'[g]
                          /\ g # f => value'[g] = value[g] /\ size'[g] = size[g],
         \A g \in LiveSums : value'[g] <= 1
  PROVE  DirInv'
<1> USE KindFacts DEF DirInv, DirWellFormed
<1>1. DirTypeOK'
  BY DEF DirTypeOK, collectorVars, scrapeVars, historyVars
<1>2. DirWellFormed'
  BY <1>1 DEF collectorVars, historyVars
<1>3. ReaderSteps' /\ LengthTaken' /\ LookUp'
  BY DEF ReaderSteps, LengthTaken, LookUp, collectorVars, scrapeVars, historyVars
<1>4. ASSUME NEW g \in Files, NEW n \in Int PROVE n <= value[g] => n <= value'[g]
  BY DEF DirTypeOK
<1>5. ASSUME NEW g \in Files PROVE /\ sizeAtStart[g] <= size[g] => sizeAtStart[g] <= size'[g]
                                   /\ sizeAtStart[g] < size[g] => sizeAtStart[g] < size'[g]
  <2>1. sizeAtStart[g] \in Nat /\ size[g] \in Nat /\ size'[g] \in Nat /\ size[g] <= size'[g]
    BY DEF DirTypeOK
  <2>2. QED
    BY <2>1
<1>6. FaultsExplained'
  BY <1>5 DEF FaultsExplained, Grew, DirTypeOK, scrapeVars, historyVars
<1>7. ReadSoFar'
  BY <1>4 DEF ReadSoFar, Pending, DirTypeOK, scrapeVars, historyVars
<1>8. ValuesRise'
  BY <1>4, <1>5 DEF ValuesRise, DirTypeOK, scrapeVars, historyVars
<1>9. QED
  BY <1>2, <1>3, <1>6, <1>7, <1>8

\* A worker makes the series of its file, or makes it larger.
LEMMA WriteKeepsDirInv ==
  ASSUME DirInv, NEW f \in Files, WriteStore(f)
  PROVE  DirInv'
<1> USE KindFacts
<1> DEFINE new == IF f \in Counters THEN value[f] + 1 ELSE 1
<1>1. /\ UNCHANGED <<collectorVars, scrapeVars, historyVars>> /\ mapped[f] = "linked"
      /\ value' = [value EXCEPT ![f] = new] /\ new <= MaxValue
      /\ size' = [size EXCEPT ![f] = @ + 1] \/ size' = size
  BY DEF WriteStore, Grow
<1>2. /\ value \in [Files -> 0..MaxValue] /\ size \in [Files -> Nat] /\ f \in dir
      /\ \A g \in LiveSums : value[g] <= 1
  BY <1>1 DEF DirInv, DirWellFormed, DirTypeOK
<1>3. new \in 0..MaxValue /\ value[f] <= new /\ (f \in LiveSums => new = 1)
  BY <1>1, <1>2 DEF LiveSums
<1> HIDE DEF new
<1>4. /\ value' \in [Files -> 0..MaxValue] /\ \A g \in LiveSums : value'[g] <= 1
      /\ \A g \in Files : value[g] <= value'[g] /\ (g # f => value'[g] = value[g])
  BY <1>1, <1>2, <1>3
<1>5. /\ size' \in [Files -> Nat]
      /\ \A g \in Files : size[g] <= size'[g] /\ (g # f => size'[g] = size[g])
  BY <1>1, <1>2
<1>6. QED
  BY <1>1, <1>2, <1>4, <1>5, FileGrows

\* It adds another series to its file.
LEMMA AddKeepsDirInv ==
  ASSUME DirInv, NEW f \in Files, AddSeries(f)
  PROVE  DirInv'
<1>1. /\ UNCHANGED <<collectorVars, value, scrapeVars, historyVars>> /\ mapped[f] = "linked"
      /\ size' = [size EXCEPT ![f] = @ + 1]
  BY DEF AddSeries, Grow
<1>2. /\ value \in [Files -> 0..MaxValue] /\ size \in [Files -> Nat] /\ f \in dir
      /\ \A g \in LiveSums : value[g] <= 1
  BY <1>1 DEF DirInv, DirWellFormed, DirTypeOK
<1>3. /\ size' \in [Files -> Nat] /\ MaxValue \in Nat
      /\ \A g \in Files : size[g] <= size'[g] /\ (g # f => size'[g] = size[g])
  BY <1>1, <1>2, KindFacts
<1>4. \A g \in Files : value[g] <= value'[g] /\ value'[g] = value[g]
  BY <1>1, <1>2, <1>3
<1>5. QED
  BY <1>1, <1>2, <1>3, <1>4, FileGrows

\* A file is unlinked; whoever has it open keeps an inode without a name.
LEMMA CollectKeepsDirInv ==
  ASSUME DirInv, NEW f \in Files, CollectFile(f)
  PROVE  DirInv'
<1> USE KindFacts DEF DirInv, DirWellFormed
<1>1. /\ UNCHANGED <<alive, born, reader, spc, todo, listed, cur, curSize, acc, faults, result>>
      /\ dir' = dir \ {f} /\ found' = {}
      /\ mapped' = [mapped EXCEPT ![f] = IF @ = "linked" THEN "orphan" ELSE @]
      /\ value' = [value EXCEPT ![f] = 0]
      /\ size' = [size EXCEPT ![f] = 0]
      /\ cache' = [cache EXCEPT ![f] = IF @ = "linked" THEN "unlinked" ELSE @]
      /\ gone' = (IF spc = "idle" THEN {} ELSE gone \cup {f})
      /\ lost' = lost \cup ({f} \cap Counters)
      /\ atStart' = [atStart EXCEPT ![f] = 0]
      /\ sizeAtStart' = [sizeAtStart EXCEPT ![f] = 0]
  BY DEF CollectFile, Collect
<1>2. /\ mapped' \in [Files -> {"none", "linked", "orphan"}]
      /\ cache' \in [Files -> {"none", "linked", "unlinked"}]
      /\ mapped'[f] # "linked" /\ cache'[f] # "linked"
      /\ \A g \in Files \ {f} : mapped'[g] = mapped[g] /\ cache'[g] = cache[g]
  BY <1>1 DEF DirTypeOK
<1>3. /\ value' \in [Files -> 0..MaxValue] /\ atStart' \in [Files -> 0..MaxValue]
      /\ value'[f] = 0 /\ atStart'[f] = 0
      /\ \A g \in Files \ {f} : value'[g] = value[g] /\ atStart'[g] = atStart[g]
  BY <1>1 DEF DirTypeOK
<1>4. /\ size' \in [Files -> Nat] /\ sizeAtStart' \in [Files -> Nat]
      /\ size'[f] = 0 /\ sizeAtStart'[f] = 0
      /\ \A g \in Files \ {f} : size'[g] = size[g] /\ sizeAtStart'[g] = sizeAtStart[g]
  BY <1>1 DEF DirTypeOK
<1>5. DirTypeOK'
  BY <1>1, <1>2, <1>3, <1>4 DEF DirTypeOK
<1>6. DirWellFormed'
  BY <1>1, <1>2, <1>3, <1>4, <1>5
<1>7. ReaderSteps'
  BY <1>1 DEF ReaderSteps
<1>8. spc # "idle" => gone' = gone \cup {f}
  BY <1>1
<1>9. LengthTaken'
  <2>1. cur \in Files => spc # "idle"
    BY BoundsAssumption DEF DirTypeOK
  <2>2. QED
    BY <1>1, <1>2, <1>4, <1>8, <2>1 DEF LengthTaken
<1>10. FaultsExplained'
  <2>1. spc = "idle" => faults = {}
    BY DEF DirTypeOK
  <2>2. \A g \in faults \ {f} : Grew(g)' <=> Grew(g)
    BY <1>4 DEF Grew, DirTypeOK
  <2>3. QED
    BY <1>1, <1>8, <2>1, <2>2 DEF FaultsExplained
<1>11. LookUp'
  BY <1>1, <1>2, <1>3, <1>8 DEF LookUp
<1>12. ReadSoFar'
  BY <1>1, <1>2, <1>3, <1>8 DEF ReadSoFar, Pending, DirTypeOK
<1>13. ValuesRise'
  BY <1>1, <1>3, <1>4 DEF ValuesRise
<1>14. QED
  BY <1>6, <1>7, <1>9, <1>10, <1>11, <1>12, <1>13

-----------------------------------------------------------------------------
(* The reader *)

\* A step of a reader changes nothing of the directory.
LEMMA ReaderStepKeeps ==
  ASSUME DirInv, UNCHANGED <<othersVars, result>>, spc # "idle", spc' # "idle", DirTypeOK'
  PROVE  DirWellFormed' /\ ValuesRise'
<1>1. DirWellFormed'
  BY DEF DirInv, DirWellFormed, othersVars, collectorVars, fileVars, historyVars
<1>2. ValuesRise'
  BY DEF DirInv, ValuesRise, othersVars, fileVars, historyVars
<1>3. QED
  BY <1>1, <1>2

\* The directory is listed.
LEMMA StartKeepsDirInv ==
  ASSUME DirInv, StartScrape
  PROVE  DirInv'
<1> USE KindFacts DEF DirInv
<1>1. /\ spc = "idle" /\ todo' = dir /\ listed' = dir /\ atStart' = value /\ sizeAtStart' = size
      /\ spc' = (IF reader = "exporter" THEN "refresh" ELSE "copy")
      /\ UNCHANGED <<alive, born, dir, mapped, found, value, size, reader, cache, cur, curSize,
                     acc, faults, result, gone, lost>>
  BY DEF StartScrape, collectorVars, fileVars
<1>2. /\ acc = Nothing /\ faults = {} /\ gone = {} /\ cur = NoFile /\ dir \subseteq Files
      /\ \A g \in Files \ dir : value[g] = 0
      /\ value \in [Files -> 0..MaxValue] /\ size \in [Files -> Nat]
  BY <1>1, BoundsAssumption DEF DirWellFormed, DirTypeOK
<1>3. DirTypeOK'
  BY <1>1, <1>2 DEF DirWellFormed, DirTypeOK
<1>4. DirWellFormed'
  BY <1>1, <1>2, <1>3 DEF DirWellFormed
<1>5. ReaderSteps' /\ LengthTaken' /\ LookUp' /\ FaultsExplained'
  BY <1>1, <1>2, BoundsAssumption DEF ReaderSteps, LengthTaken, LookUp, FaultsExplained
<1>6. ReadSoFar'
  BY <1>1, <1>2, BoundsAssumption DEF ReadSoFar, Pending, ReaderSteps
<1>7. ValuesRise'
  BY <1>1, <1>2 DEF ValuesRise
<1>8. QED
  BY <1>4, <1>5, <1>6, <1>7

\* Between two files, the exporter is at none.
LEMMA AtNoFile ==
  ASSUME DirInv
  PROVE  /\ spc \notin {"open", "load"} => cur = NoFile /\ cur \notin Files /\ Pending = todo
         /\ spc \in {"open", "load"} => cur \in Files /\ cur # NoFile /\ cur \notin todo
                                        /\ reader = "exporter"
<1>1. cur \in Files \cup {NoFile} /\ (cur # NoFile <=> spc \in {"open", "load"}) /\ todo \subseteq Files
  BY DEF DirInv, DirWellFormed, DirTypeOK
<1>2. cur \notin todo /\ (spc \in {"open", "load"} => reader = "exporter")
  BY DEF DirInv, ReaderSteps
<1>3. QED
  BY <1>1, <1>2, BoundsAssumption DEF Pending

\* The exporter finds a cached file to be that of the name.
LEMMA RefreshKeepsDirInv ==
  ASSUME DirInv, NEW f \in Files, RefreshFile(f)
  PROVE  DirInv'
<1> USE DEF DirInv
<1>1. /\ spc = "refresh" /\ f \in todo /\ todo' = todo \ {f} /\ cache[f] = "linked"
      /\ UNCHANGED <<othersVars, spc, listed, cache, cur, curSize, acc, faults, result>>
  BY DEF RefreshFile, First, SameFile
<1>2. cur = NoFile /\ cur \notin Files
  BY <1>1, AtNoFile
<1>3. DirTypeOK'
  BY <1>1 DEF DirWellFormed, DirTypeOK, othersVars, collectorVars, fileVars, historyVars
<1>4. DirWellFormed' /\ ValuesRise'
  BY <1>1, <1>3, ReaderStepKeeps
<1>5. ReaderSteps' /\ LengthTaken' /\ ReadSoFar'
  BY <1>1, <1>2 DEF ReaderSteps, LengthTaken, ReadSoFar, othersVars
<1>6. LookUp'
  BY <1>1 DEF LookUp, othersVars, collectorVars, historyVars
<1>7. FaultsExplained'
  BY <1>1 DEF FaultsExplained, Grew, othersVars, fileVars, historyVars
<1>8. QED
  BY <1>4, <1>5, <1>6, <1>7

\* It opens any other: the length of the file that is there is taken.
LEMMA OpenKeepsDirInv ==
  ASSUME DirInv, NEW f \in Files, OpenFile(f)
  PROVE  DirInv'
<1> USE DEF DirInv
<1>1. /\ spc = "refresh" /\ f \in todo /\ f \in dir /\ todo' = todo \ {f} /\ spc' = "open"
      /\ cur' = f /\ curSize' = size[f] /\ cache' = [cache EXCEPT ![f] = "linked"]
      /\ UNCHANGED <<othersVars, listed, acc, faults, result>>
  BY DEF OpenFile, First, TakeLength
<1>2. f # NoFile /\ size[f] \in Nat /\ sizeAtStart[f] <= size[f]
  BY BoundsAssumption DEF DirWellFormed, DirTypeOK, ValuesRise
<1>3. /\ cache' \in [Files -> {"none", "linked", "unlinked"}]
      /\ cache'[f] = "linked" /\ \A g \in Files \ {f} : cache'[g] = cache[g]
  BY <1>1 DEF DirWellFormed, DirTypeOK
<1>4. DirTypeOK'
  BY <1>1, <1>2, <1>3 DEF DirWellFormed, DirTypeOK, othersVars, collectorVars, fileVars, historyVars
<1>5. DirWellFormed' /\ ValuesRise'
  BY <1>1, <1>4, ReaderStepKeeps
<1>6. ReaderSteps' /\ ReadSoFar'
  BY <1>1 DEF ReaderSteps, ReadSoFar, othersVars
<1>7. LengthTaken'
  BY <1>1, <1>2, <1>3 DEF LengthTaken, othersVars, historyVars
<1>8. LookUp'
  BY <1>1, <1>3 DEF LookUp, othersVars, collectorVars, historyVars
<1>9. FaultsExplained'
  BY <1>1 DEF FaultsExplained, Grew, othersVars, fileVars, historyVars
<1>10. QED
  BY <1>5, <1>6, <1>7, <1>8, <1>9

\* A file that is not there any more was unlinked since the begin.
LEMMA RefreshFailsKeepsDirInv ==
  ASSUME DirInv, NEW f \in Files, RefreshFails(f)
  PROVE  DirInv'
<1> USE DEF DirInv
<1>1. /\ spc = "refresh" /\ f \in todo /\ f \notin dir /\ todo' = todo \ {f}
      /\ faults' = faults \cup {f} /\ cache' = [cache EXCEPT ![f] = "none"]
      /\ UNCHANGED <<othersVars, spc, listed, cur, curSize, acc, result>>
  BY DEF RefreshFails, First, LeaveOut
<1>2. f \in gone /\ cur = NoFile /\ cur \notin Files
  BY <1>1, AtNoFile DEF LookUp
<1>3. /\ cache' \in [Files -> {"none", "linked", "unlinked"}]
      /\ cache'[f] = "none" /\ \A g \in Files \ {f} : cache'[g] = cache[g]
  BY <1>1 DEF DirWellFormed, DirTypeOK
<1>4. DirTypeOK'
  BY <1>1, <1>3 DEF DirWellFormed, DirTypeOK, othersVars, collectorVars, fileVars, historyVars
<1>5. DirWellFormed' /\ ValuesRise'
  BY <1>1, <1>4, ReaderStepKeeps
<1>6. ReaderSteps' /\ LengthTaken' /\ ReadSoFar'
  BY <1>1, <1>2 DEF ReaderSteps, LengthTaken, ReadSoFar, othersVars
<1>7. LookUp'
  BY <1>1, <1>2, <1>3 DEF LookUp, othersVars, collectorVars, historyVars
<1>8. FaultsExplained'
  BY <1>1, <1>2 DEF FaultsExplained, Grew, othersVars, fileVars, historyVars
<1>9. QED
  BY <1>5, <1>6, <1>7, <1>8

\* The file that was opened is parsed.
LEMMA OpenDoneKeepsDirInv ==
  ASSUME DirInv, OpenDone
  PROVE  DirInv'
<1> USE DEF DirInv
<1>1. /\ spc = "open" /\ cur' = NoFile /\ curSize' = 0 /\ spc' = "refresh"
      /\ UNCHANGED <<othersVars, todo, listed, cache, acc, faults, result>>
  BY DEF OpenDone, Release
<1>2. DirTypeOK'
  BY <1>1 DEF DirWellFormed, DirTypeOK, othersVars, collectorVars, fileVars, historyVars
<1>3. DirWellFormed' /\ ValuesRise'
  BY <1>1, <1>2, ReaderStepKeeps
<1>4. cur' \notin Files /\ cur' \notin todo'
  BY <1>1, BoundsAssumption DEF DirWellFormed, DirTypeOK
<1>5. ReaderSteps' /\ LengthTaken' /\ ReadSoFar'
  BY <1>1, <1>4 DEF ReaderSteps, LengthTaken, ReadSoFar, othersVars
<1>6. LookUp'
  BY <1>1 DEF LookUp, othersVars, collectorVars, historyVars
<1>7. FaultsExplained'
  BY <1>1 DEF FaultsExplained, Grew, othersVars, fileVars, historyVars
<1>8. QED
  BY <1>3, <1>5, <1>6, <1>7

\* A file that holds more than when its length was taken, and was not unlinked, has grown
\* since the begin.
LEMMA OutgrownFacts ==
  ASSUME DirInv, spc \in {"open", "load"}, Outgrown
  PROVE  cur \in gone \/ (reader = "exporter" /\ Grew(cur))
<1>1. cur \in Files /\ reader = "exporter"
  BY AtNoFile
<1>2. cur \notin gone => sizeAtStart[cur] <= curSize /\ curSize < size[cur]
  BY <1>1 DEF DirInv, LengthTaken, Outgrown
<1>3. sizeAtStart[cur] \in Nat /\ curSize \in Nat /\ size[cur] \in Nat
  BY <1>1 DEF DirInv, DirWellFormed, DirTypeOK
<1>4. QED
  BY <1>1, <1>2, <1>3 DEF Grew

\* A file that outgrew its length is left out, when it is opened or when it is read.
LEMMA LeaveOutKeepsDirInv ==
  ASSUME DirInv, OpenFails \/ LoadFails
  PROVE  DirInv'
<1> USE DEF DirInv
<1>1. /\ spc \in {"open", "load"} /\ faults' = faults \cup {cur} /\ cur' = NoFile /\ curSize' = 0
      /\ spc = "open" => spc' = "refresh"
      /\ spc = "load" => spc' = "read"
      /\ cache' = [cache EXCEPT ![cur] = "none"]
      /\ UNCHANGED <<othersVars, todo, listed, acc, result>>
  BY DEF OpenFails, LoadFails, LeaveOut, Release
<1>2. cur \in Files /\ cur # NoFile /\ reader = "exporter" /\ cur \notin todo
  BY <1>1, AtNoFile
<1>3. Pending' = Pending \ {cur} /\ cur \in Pending /\ cur' \notin Files /\ cur' \notin todo'
  BY <1>1, <1>2, BoundsAssumption DEF Pending, DirWellFormed, DirTypeOK
<1>4. /\ cache' \in [Files -> {"none", "linked", "unlinked"}]
      /\ cache'[cur] = "none" /\ \A g \in Files \ {cur} : cache'[g] = cache[g]
  BY <1>1, <1>2 DEF DirWellFormed, DirTypeOK
<1>5. DirTypeOK'
  BY <1>1, <1>2, <1>4
     DEF DirWellFormed, DirTypeOK, othersVars, collectorVars, fileVars, historyVars
<1>6. DirWellFormed' /\ ValuesRise'
  BY <1>1, <1>5, ReaderStepKeeps
<1>7. ReaderSteps' /\ LengthTaken'
  BY <1>1, <1>2, <1>3 DEF ReaderSteps, LengthTaken, othersVars
<1>8. LookUp'
  BY <1>1, <1>2, <1>4 DEF LookUp, othersVars, collectorVars, historyVars
<1>9. cur \in gone \/ (reader = "exporter" /\ Grew(cur))
  BY <1>1, OutgrownFacts DEF OpenFails, LoadFails
<1>10. FaultsExplained'
  BY <1>1, <1>9 DEF FaultsExplained, Grew, othersVars, fileVars, historyVars
<1>11. ReadSoFar'
  <2>1. UNCHANGED <<gone, atStart, value, reader, acc>>
    BY <1>1 DEF othersVars, fileVars, historyVars
  <2>2. spc = "load" /\ cur \notin gone => acc[cur] = 0
    BY <1>1, <1>2, <1>3 DEF ReadSoFar
  <2>3. QED
    BY <1>1, <1>2, <1>3, <1>4, <2>1, <2>2 DEF ReadSoFar
<1>12. QED
  BY <1>6, <1>7, <1>8, <1>10, <1>11

\* It forgets the files it did not find in the listing.
LEMMA RetainKeepsDirInv ==
  ASSUME DirInv, RetainSeen
  PROVE  DirInv'
<1> USE KindFacts DEF DirInv
<1>1. /\ spc = "refresh" /\ todo = {} /\ listed' = {} /\ spc' = "read"
      /\ cache' = [f \in Files |-> IF f \in listed THEN cache[f] ELSE "none"]
      /\ todo' = {f \in Files : cache'[f] # "none"}
      /\ UNCHANGED <<othersVars, cur, curSize, acc, faults, result>>
  BY DEF RetainSeen
<1>2. cache' \in [Files -> {"none", "linked", "unlinked"}] /\ cur = NoFile /\ cur \notin Files
      /\ \A f \in Files \ dir : cache'[f] # "linked"
  BY <1>1, AtNoFile DEF DirWellFormed, DirTypeOK
<1>3. DirTypeOK'
  BY <1>1, <1>2 DEF DirWellFormed, DirTypeOK, othersVars, collectorVars, fileVars, historyVars
<1>4. DirWellFormed' /\ ValuesRise'
  BY <1>1, <1>3, ReaderStepKeeps
<1>5. ReaderSteps' /\ LengthTaken' /\ LookUp' /\ FaultsExplained'
  BY <1>1, <1>2
     DEF ReaderSteps, LengthTaken, LookUp, FaultsExplained, Grew, othersVars, fileVars, historyVars
<1>6. acc = Nothing /\ Pending' = todo'
  BY <1>1, <1>2 DEF LookUp, Pending
<1>7. \A f \in Files \ gone :
        /\ f \in todo' => cache'[f] = "linked"
        /\ f \notin todo' \cup faults => atStart[f] = 0
  BY <1>1 DEF LookUp
<1>8. \A f \in Files : value[f] \in 0..MaxValue
  BY DEF DirWellFormed, DirTypeOK
<1>9. UNCHANGED <<gone, atStart, value, reader>>
  BY <1>1 DEF othersVars, fileVars, historyVars
<1>10. ReadSoFar'
  BY <1>1, <1>6, <1>7, <1>8, <1>9 DEF ReadSoFar
<1>11. QED
  BY <1>4, <1>5, <1>10

\* The value of a file that was not unlinked is taken over, whoever reads it.
LEMMA TakeValue ==
  ASSUME DirInv, DirTypeOK', UNCHANGED <<othersVars, result>>,
         spc \in {"load", "copy"}, spc' \in {"read", "copy"}, reader = "exporter" <=> spc' = "read",
         NEW f \in Pending, f \in Files, NEW v \in 0..MaxValue,
         acc' = [acc EXCEPT ![f] = v], f \notin gone => v = value[f],
         Pending' = Pending \ {f}, cur' \notin todo', cur' \notin Files, UNCHANGED <<cache, faults>>,
         spc' = "copy" => spc = "copy" /\ todo' \subseteq todo
  PROVE  DirInv'
<1> USE DEF DirInv
<1>1. DirWellFormed' /\ ValuesRise'
  BY ReaderStepKeeps
<1>2. ReaderSteps' /\ LengthTaken' /\ FaultsExplained'
  BY DEF ReaderSteps, LengthTaken, FaultsExplained, Grew, othersVars, fileVars, historyVars
<1>3. LookUp'
  BY DEF LookUp, othersVars, collectorVars, historyVars
<1>4. acc \in [Files -> 0..MaxValue] /\ value \in [Files -> 0..MaxValue]
      /\ atStart \in [Files -> 0..MaxValue] /\ MaxValue \in Nat
  BY KindFacts DEF DirWellFormed, DirTypeOK
<1>5. /\ acc'[f] = v /\ \A g \in Files \ {f} : acc'[g] = acc[g]
      /\ atStart[f] <= value[f] /\ value[f] <= value[f]
  BY <1>4 DEF ValuesRise
<1>6. UNCHANGED <<gone, atStart, value, reader>>
  BY DEF othersVars, fileVars, historyVars
<1>7. ReadSoFar'
  BY <1>4, <1>5, <1>6 DEF ReadSoFar
<1>8. QED
  BY <1>1, <1>2, <1>3, <1>7

\* The exporter comes to a file that it has a map of: its length is taken.
LEMMA VisitKeepsDirInv ==
  ASSUME DirInv, NEW f \in Files, VisitFile(f)
  PROVE  DirInv'
<1> USE DEF DirInv
<1>1. /\ spc = "read" /\ f \in todo /\ todo' = todo \ {f}
      /\ cur' = f /\ curSize' = size[f] /\ spc' = "load"
      /\ UNCHANGED <<othersVars, listed, cache, acc, faults, result>>
  BY DEF VisitFile, TakeLength
<1>2. cur = NoFile /\ f # NoFile /\ Pending = todo /\ todo \subseteq Files
  BY <1>1, AtNoFile, BoundsAssumption DEF DirWellFormed, DirTypeOK
<1>3. Pending' = Pending /\ f \in Pending
  BY <1>1, <1>2 DEF Pending
<1>4. size[f] \in Nat /\ sizeAtStart[f] <= size[f]
  BY DEF DirWellFormed, DirTypeOK, ValuesRise
<1>5. DirTypeOK'
  BY <1>1, <1>2, <1>4 DEF DirWellFormed, DirTypeOK, othersVars, collectorVars, fileVars, historyVars
<1>6. DirWellFormed' /\ ValuesRise'
  BY <1>1, <1>5, ReaderStepKeeps
<1>7. ReaderSteps' /\ LookUp' /\ FaultsExplained'
  BY <1>1 DEF ReaderSteps, LookUp, FaultsExplained, Grew, othersVars, fileVars, historyVars
<1>8. f \notin gone => cache[f] = "linked"
  BY <1>1, <1>3 DEF ReadSoFar, ReaderSteps
<1>9. LengthTaken'
  BY <1>1, <1>4, <1>8 DEF LengthTaken, othersVars, historyVars
<1>10. ReadSoFar'
  BY <1>1, <1>3 DEF ReadSoFar, othersVars, fileVars, historyVars
<1>11. QED
  BY <1>6, <1>7, <1>9, <1>10

\* It reads the file: what the name leads to, unless it was unlinked; then it holds what
\* it holds.
LEMMA LoadKeepsDirInv ==
  ASSUME DirInv, LoadFile
  PROVE  DirInv'
<1>1. PICK v \in ValuesIn(cur) :
        /\ spc = "load" /\ acc' = [acc EXCEPT ![cur] = v]
        /\ cur' = NoFile /\ curSize' = 0 /\ spc' = "read"
        /\ UNCHANGED <<othersVars, todo, listed, cache, faults, result>>
  BY DEF LoadFile, Release
<1>2. cur \in Files /\ cur # NoFile /\ cur \notin todo /\ reader = "exporter" /\ todo \subseteq Files
  BY <1>1, AtNoFile DEF DirInv, DirWellFormed, DirTypeOK
<1>3. cur \in Pending /\ Pending' = Pending \ {cur} /\ cur' \notin todo' /\ cur' \notin Files
  BY <1>1, <1>2, BoundsAssumption DEF Pending
<1>4. cur \notin gone => cache[cur] = "linked"
  BY <1>2 DEF DirInv, LengthTaken
<1>5. value[cur] \in 0..MaxValue
  BY <1>2 DEF DirInv, DirWellFormed, DirTypeOK
<1>6. v \in 0..MaxValue /\ (cur \notin gone => v = value[cur])
  BY <1>1, <1>4, <1>5 DEF ValuesIn
<1>7. DirTypeOK'
  BY <1>1, <1>2, <1>6
     DEF DirInv, DirWellFormed, DirTypeOK, othersVars, collectorVars, fileVars, historyVars
<1>8. QED
  BY <1>1, <1>2, <1>3, <1>6, <1>7, TakeValue

\* The aggregation reads a file.
LEMMA CopyKeepsDirInv ==
  ASSUME DirInv, NEW f \in Files, CopyFile(f)
  PROVE  DirInv'
<1>1. /\ spc = "copy" /\ f \in todo /\ todo' = todo \ {f} /\ acc' = [acc EXCEPT ![f] = value[f]]
      /\ UNCHANGED <<othersVars, spc, listed, cache, cur, curSize, faults, result>>
  BY DEF CopyFile, First
<1>2. cur = NoFile /\ cur \notin Files /\ Pending = todo
  BY <1>1, AtNoFile
<1>3. f \in Pending /\ Pending' = Pending \ {f} /\ cur' \notin todo' /\ cur' \notin Files
      /\ reader # "exporter"
  BY <1>1, <1>2 DEF Pending, DirInv, ReaderSteps
<1>4. value[f] \in 0..MaxValue
  BY DEF DirInv, DirWellFormed, DirTypeOK
<1>5. DirTypeOK'
  BY <1>1, <1>4
     DEF DirInv, DirWellFormed, DirTypeOK, othersVars, collectorVars, fileVars, historyVars
<1>6. QED
  BY <1>1, <1>3, <1>4, <1>5, TakeValue

\* The aggregation meets a file that was unlinked, and fails.
LEMMA CopyFailsKeepsDirInv ==
  ASSUME DirInv, NEW f \in Files, CopyFails(f)
  PROVE  DirInv'
<1> USE DEF DirInv
<1>1. /\ spc = "copy" /\ f \in todo /\ f \notin dir
      /\ faults' = {f} /\ todo' = {} /\ spc' = "failed"
      /\ UNCHANGED <<othersVars, listed, cache, cur, curSize, acc, result>>
  BY DEF CopyFails, First
<1>2. f \in gone /\ cur \notin Files
  BY <1>1, AtNoFile DEF LookUp
<1>3. DirTypeOK'
  BY <1>1 DEF DirWellFormed, DirTypeOK, othersVars, collectorVars, fileVars, historyVars
<1>4. DirWellFormed' /\ ValuesRise'
  BY <1>1, <1>3, ReaderStepKeeps
<1>5. ReaderSteps' /\ LengthTaken' /\ LookUp' /\ ReadSoFar' /\ FaultsExplained'
  BY <1>1, <1>2 DEF ReaderSteps, LengthTaken, LookUp, ReadSoFar, FaultsExplained,
     othersVars, historyVars
<1>6. QED
  BY <1>4, <1>5

-----------------------------------------------------------------------------
(* The end of a scrape *)

\* Of every file that was not unlinked and is not a fault, no less was read than it had
\* when the scrape began, and no more than it has.
LEMMA MergedFacts ==
  ASSUME DirInv, Merged
  PROVE  /\ Pending = {}
         /\ \A f \in Files \ gone :
              /\ f \notin faults => atStart[f] <= acc[f]
              /\ acc[f] <= value[f]
              /\ reader = "exporter" /\ acc[f] > 0 => cache[f] = "linked"
<1>1. spc \in {"read", "copy"} /\ todo = {}
  BY DEF Merged
<1>2. Pending = {}
  BY <1>1, AtNoFile
<1>3. QED
  BY <1>1, <1>2 DEF DirInv, ReadSoFar

\* The samples are rendered.
LEMMA FinishKeepsDirInv ==
  ASSUME DirInv, Finish
  PROVE  DirInv'
<1> USE KindFacts DEF DirInv
<1>1. /\ Merged /\ todo = {} /\ spc \in {"read", "copy"} /\ result' = acc /\ lost' = gone \cap Counters
      /\ spc' = "idle" /\ listed' = {} /\ acc' = Nothing /\ faults' = {}
      /\ atStart' = Nothing /\ sizeAtStart' = Nothing /\ gone' = {}
      /\ UNCHANGED <<alive, born, dir, mapped, found, value, size, reader, todo, cache, cur, curSize>>
  BY DEF Finish, EndScrape, Merged, collectorVars, fileVars
<1>2. DirTypeOK'
  BY <1>1 DEF DirWellFormed, DirTypeOK
<1>3. Nothing \in [Files -> Nat]
  BY DEF Nothing
<1>4. DirWellFormed'
  BY <1>1, <1>2, <1>3 DEF DirWellFormed
<1>5. ReaderSteps' /\ LookUp' /\ ReadSoFar' /\ FaultsExplained'
  BY <1>1 DEF ReaderSteps, LookUp, ReadSoFar, FaultsExplained
<1>6. LengthTaken'
  BY <1>1, AtNoFile DEF LengthTaken
<1>7. \A f \in Files \ gone : acc[f] <= value[f]
  BY <1>1, MergedFacts
<1>8. \A f \in Files : value[f] >= 0 /\ size[f] >= 0
  BY DEF DirWellFormed, DirTypeOK
<1>9. ValuesRise'
  BY <1>1, <1>7, <1>8 DEF ValuesRise
<1>10. QED
  BY <1>4, <1>5, <1>6, <1>9

\* The aggregation throws.
LEMMA ThrowKeepsDirInv ==
  ASSUME DirInv, Throw
  PROVE  DirInv'
<1> USE KindFacts DEF DirInv
<1>1. /\ spc = "failed" /\ todo = {} /\ UNCHANGED <<result, lost>>
      /\ spc' = "idle" /\ listed' = {} /\ acc' = Nothing /\ faults' = {}
      /\ atStart' = Nothing /\ sizeAtStart' = Nothing /\ gone' = {}
      /\ UNCHANGED <<alive, born, dir, mapped, found, value, size, reader, todo, cache, cur, curSize>>
  BY DEF Throw, EndScrape, collectorVars, fileVars, ReaderSteps
<1>2. DirTypeOK'
  BY <1>1 DEF DirWellFormed, DirTypeOK
<1>3. Nothing \in [Files -> Nat]
  BY DEF Nothing
<1>4. DirWellFormed'
  BY <1>1, <1>2, <1>3 DEF DirWellFormed
<1>5. ReaderSteps' /\ LookUp' /\ ReadSoFar' /\ FaultsExplained'
  BY <1>1 DEF ReaderSteps, LookUp, ReadSoFar, FaultsExplained
<1>6. LengthTaken'
  BY <1>1, AtNoFile DEF LengthTaken
<1>7. \A f \in Files : value[f] >= 0 /\ size[f] >= 0
  BY DEF DirWellFormed, DirTypeOK
<1>8. ValuesRise'
  BY <1>1, <1>7 DEF ValuesRise
<1>9. QED
  BY <1>4, <1>5, <1>6, <1>8

-----------------------------------------------------------------------------
(* The theorems *)

\* Every step of anyone.
LEMMA StepDirInv == DirInv /\ [DirNext]_dirVars => DirInv'
<1> SUFFICES ASSUME DirInv, [DirNext]_dirVars PROVE DirInv'
  OBVIOUS
<1>1. CASE UNCHANGED dirVars
  BY <1>1 DEF dirVars, collectorVars, fileVars, scrapeVars, historyVars, DirInv, DirWellFormed,
     DirTypeOK, ReaderSteps, LengthTaken, LookUp, ReadSoFar, Pending, ValuesRise, FaultsExplained,
     Grew
<1>2. CASE ScrapeStep
  BY <1>2, RefreshKeepsDirInv, OpenKeepsDirInv, RefreshFailsKeepsDirInv, VisitKeepsDirInv,
     CopyKeepsDirInv, CopyFailsKeepsDirInv, OpenDoneKeepsDirInv, LeaveOutKeepsDirInv,
     RetainKeepsDirInv, LoadKeepsDirInv, FinishKeepsDirInv, ThrowKeepsDirInv DEF ScrapeStep
<1>3. CASE DirNext /\ ~ScrapeStep
  BY <1>3, OthersKeepDirInv, AddKeepsDirInv, WriteKeepsDirInv, CollectKeepsDirInv,
     StartKeepsDirInv DEF DirNext, CollectorStep
<1>4. QED
  BY <1>1, <1>2, <1>3

\* What holds of the directory, its workers and its reader at any time.
THEOREM DirInvariance == DirSpec => []DirInv
BY InitDirInv, StepDirInv, PTL DEF DirSpec

\* Type correctness; between two scrapes nothing is kept but the maps and the result.
THEOREM DirTypeCorrect == DirSpec => []DirTypeOK
BY DirInvariance, PTL DEF DirInv, DirWellFormed

\* Both readers show every file that is not unlinked meanwhile, and not left out because
\* it grew, from the file that its name leads to.
THEOREM SteadyShown == DirSpec => []SteadyFilesShown
<1>1. DirInv => SteadyFilesShown
  BY MergedFacts DEF SteadyFilesShown
<1>2. QED
  BY <1>1, DirInvariance, PTL

\* Only a file that was unlinked meanwhile makes an aggregation fail; the exporter leaves
\* out such a file, or one that grew meanwhile, and no other.
THEOREM FaultsHaveReasons == DirSpec => []FaultsExplained
BY DirInvariance, PTL DEF DirInv

\* A merged counter falls only by a file that the collector took away, or that the
\* exporter left out because it grew: neither the cache, nor a file made anew under its
\* name, makes it fall.
THEOREM CountersFallOnlyByCollection == DirSpec => CountersFallByCollection
<1>1. ASSUME DirInv, [DirNext]_dirVars
      PROVE  [\A f \in Counters :
                result'[f] < result[f] =>
                  \/ f \in lost
                  \/ reader = "exporter" /\ f \in faults /\ Grew(f)]_dirVars
  <2> SUFFICES ASSUME NEW f \in Counters, f \notin lost, result'[f] < result[f]
               PROVE  reader = "exporter" /\ f \in faults /\ Grew(f)
    OBVIOUS
  <2>1. f \in Files /\ result[f] \in Nat
    BY <1>1, KindFacts DEF DirInv, DirWellFormed, DirTypeOK
  <2>2. result' # result
    BY <2>1
  <2>3. result' = result \/ Finish
    <3>1. CASE UNCHANGED dirVars
      BY <3>1 DEF dirVars, scrapeVars
    <3>2. CASE ScrapeStep
      BY <3>2 DEF ScrapeStep, RefreshFile, OpenFile, RefreshFails, VisitFile, CopyFile, CopyFails,
         OpenDone, OpenFails, RetainSeen, LoadFile, LoadFails, Throw
    <3>3. CASE DirNext /\ ~ScrapeStep
      BY <3>3 DEF DirNext, StartWorker, ExitWorker, OpenStore, AddSeries, WriteStore, FindDeadFile,
         CollectorStep, LeaveFile, CollectFile, StartScrape, scrapeVars
    <3>4. QED
      BY <1>1, <3>1, <3>2, <3>3
  <2>4. Merged /\ result' = acc /\ spc # "idle"
    BY <2>2, <2>3 DEF Finish, Merged
  <2>5. f \notin gone /\ result[f] <= atStart[f]
    BY <1>1, <2>4 DEF DirInv, DirWellFormed, DirTypeOK, ValuesRise
  <2>6. f \notin faults => atStart[f] <= acc[f]
    BY <1>1, <2>1, <2>4, <2>5, MergedFacts
  <2>7. acc[f] \in Nat /\ atStart[f] \in Nat
    BY <1>1, <2>1, KindFacts DEF DirInv, DirWellFormed, DirTypeOK
  <2>8. f \in faults
    BY <2>1, <2>4, <2>5, <2>6, <2>7
  <2>9. QED
    BY <1>1, <2>5, <2>8 DEF DirInv, FaultsExplained
<1>2. QED
  BY <1>1, DirInvariance, PTL DEF DirSpec, CountersFallByCollection

=============================================================================
