------------------------------ MODULE Directory ------------------------------
(***************************************************************************)
(* A metrics directory while everything that shares it is at work: workers *)
(* that create, reopen and write files and die, the collector that unlinks *)
(* files (as Collector, which Gc implements), and the one that scrapes:    *)
(* the exporter, with the maps that it keeps from scrape to scrape, or     *)
(* calls of the one-shot aggregation.                                      *)
(*                                                                         *)
(* Of the series of a file, the first is looked at: a counter, or the gauge*)
(* of mode livesum by which workers report to be alive.  Of the others it  *)
(* matters how many there are: each makes the file grow.  What happens     *)
(* within one file is in MmapStore, CachedScrape and OneShotScrape; here   *)
(* the exporter takes the length of a file in one step and loads its       *)
(* `used` and its values in another.                                       *)
(*                                                                         *)
(* Of inodes it matters only whether what a worker (mapped) or the         *)
(* exporter (cache) has open for a name is what the name leads to.  It     *)
(* keeps that inode from being given to another file.  An unlinked inode   *)
(* may hold anything: its worker may still write to it.                    *)
(***************************************************************************)
EXTENDS Collector, FileNames

CONSTANTS
  Stem,      \* the stem of the name of a file
  Rank,      \* the order of the names
  NoFile,
  Readers,   \* the kinds of readers, of "exporter" and "aggregation"
  MaxValue,  \* bound on the values
  MaxSeries  \* bounds on the numbers of series

ParamsOf(f) == ParseFileParams(Stem[f])
Counters    == {f \in Files : ParamsOf(f).type = "counter"}
LiveSums    == Files \ Counters

ASSUME DirectoryAssumption ==
  /\ \A f \in Files : Parses(Stem[f])
  /\ \A f \in LiveSums : ParamsOf(f).type = "gauge" /\ ParamsOf(f).mode = "livesum"
  /\ PidOf = [f \in Files |-> ExtractNumericPid(Stem[f])]
  /\ NoPid = NotAPid
ASSUME BoundsAssumption ==
  MaxValue \in Nat \ {0} /\ MaxSeries \in [Files -> Nat] /\ NoFile \notin Files

VARIABLES
  value,    \* the value of the series of a linked file, 0 before there is one
  size,     \* the number of all its series
  \* the reader
  reader,   \* which one it is
  spc,      \* where it is
  todo,     \* the discovered files it has not come to yet
  listed,   \* the discovered files
  cache,    \* self.files of the exporter: whether it has a map for a name: none, linked or unlinked
  cur,      \* the file whose length the exporter has taken
  curSize,  \* the number of series it had then
  acc,      \* the values read so far
  faults,   \* the files skipped; for the aggregation, the file it failed at
  result,   \* the values that the last scrape showed
  \* history
  atStart,  \* the values of the files when the scrape under way began
  sizeAtStart, \* and the numbers of their series
  gone,     \* the files unlinked since then
  lost      \* the counters unlinked since the scrape began that gave the result

fileVars    == <<value, size>>
scrapeVars  == <<reader, spc, todo, listed, cache, cur, curSize, acc, faults, result>>
historyVars == <<atStart, sizeAtStart, gone, lost>>
othersVars  == <<collectorVars, fileVars, historyVars, reader>>
dirVars     == <<collectorVars, fileVars, scrapeVars, historyVars>>

Nothing == [f \in Files |-> 0]

-----------------------------------------------------------------------------
(* Workers and the collector *)

StartWorker(p) == Begin(p) /\ UNCHANGED <<fileVars, scrapeVars, historyVars>>

ExitWorker(p) == Die(p) /\ UNCHANGED <<fileVars, scrapeVars, historyVars>>

\* Mutant of OpenStore: the file is initialised anew.
OpenStoreAnew(f) ==
  /\ Link(f)
  /\ value' = [value EXCEPT ![f] = 0]
  /\ size' = [size EXCEPT ![f] = 0]
  /\ UNCHANGED <<scrapeVars, historyVars>>

\* MmapMetricStore::open; a file that is there keeps its series.
OpenStore(f) == Link(f) /\ UNCHANGED <<fileVars, scrapeVars, historyVars>>

\* The file grows by an entry.
Grow(f) ==
  /\ size[f] < MaxSeries[f]
  /\ size' = [size EXCEPT ![f] = @ + 1]

\* record() of another metric or label set.
AddSeries(f) ==
  /\ mapped[f] = "linked"
  /\ value[f] > 0
  /\ Grow(f)
  /\ UNCHANGED <<collectorVars, value, scrapeVars, historyVars>>

\* Counter::inc, or the set(1.0) of requestStart(); the first one appends the entry.
WriteStore(f) ==
  LET new == IF f \in Counters THEN value[f] + 1 ELSE 1 IN
  /\ mapped[f] = "linked"
  /\ new <= MaxValue
  /\ value' = [value EXCEPT ![f] = new]
  /\ IF value[f] = 0 THEN Grow(f) ELSE UNCHANGED size
  /\ UNCHANGED <<collectorVars, scrapeVars, historyVars>>

FindDeadFile(f) == FindDead(f) /\ UNCHANGED <<fileVars, scrapeVars, historyVars>>

LeaveFile == LeaveAlone /\ UNCHANGED <<fileVars, scrapeVars, historyVars>>

CollectFile(f) ==
  /\ Collect(f)
  /\ value' = [value EXCEPT ![f] = 0]
  /\ size' = [size EXCEPT ![f] = 0]
  /\ cache' = [cache EXCEPT ![f] = IF @ = "linked" THEN "unlinked" ELSE @]
  /\ gone' = IF spc = "idle" THEN {} ELSE gone \cup {f}
  /\ lost' = lost \cup ({f} \cap Counters)
  /\ atStart' = [atStart EXCEPT ![f] = 0]
  /\ sizeAtStart' = [sizeAtStart EXCEPT ![f] = 0]
  /\ UNCHANGED <<reader, spc, todo, listed, cur, curSize, acc, faults, result>>

-----------------------------------------------------------------------------
(* A scrape *)

\* The handler of /metrics locks the exporter and calls render(), a worker calls
\* prometheus_mmap_render_dir: the directory is listed.
StartScrape ==
  /\ spc = "idle"
  /\ spc' = IF reader = "exporter" THEN "refresh" ELSE "copy"
  /\ todo' = dir
  /\ listed' = dir
  /\ atStart' = value
  /\ sizeAtStart' = size
  /\ UNCHANGED <<collectorVars, fileVars, reader, cache, cur, curSize, acc, faults,
                 result, gone, lost>>

\* The discovered files come in the order of their names.
First(f) == f \in todo /\ \A h \in todo : Rank[f] <= Rank[h]

\* Mutant of SameFile: a file is known by its name.
SameName(f) == cache[f] # "none"

\* The identity of the cached file is that of the file of the name.
SameFile(f) == cache[f] = "linked"

\* A cached file of the same identity stays; its mapping is brought up to the length
\* of the file (refresh_map_if_needed), and nothing of it is read yet.
RefreshFile(f) ==
  /\ spc = "refresh"
  /\ First(f)
  /\ f \in dir
  /\ SameFile(f)
  /\ todo' = todo \ {f}
  /\ UNCHANGED <<othersVars, spc, listed, cache, cur, curSize, acc, faults, result>>

\* fstat of a file, by refresh_map_if_needed.
TakeLength(f) ==
  /\ todo' = todo \ {f}
  /\ cur' = f
  /\ curSize' = size[f]

\* Any other file is opened: CachedFile::open, up to the load of `used` in
\* refresh_entries.  (A replaced file is looked up twice, for its metadata and to open
\* it; it is the inode found last that counts, or that there is none.)
OpenFile(f) ==
  /\ spc = "refresh"
  /\ First(f)
  /\ f \in dir
  /\ ~SameFile(f)
  /\ TakeLength(f)
  /\ cache' = [cache EXCEPT ![f] = "linked"]
  /\ spc' = "open"
  /\ UNCHANGED <<othersVars, listed, acc, faults, result>>

LeaveOut(f) ==
  /\ faults' = faults \cup {f}
  /\ cache' = [cache EXCEPT ![f] = "none"]

\* Mutant of RefreshFails: a file that was replaced is an error.
RefreshFailsReplaced(f) ==
  /\ spc = "refresh"
  /\ First(f)
  /\ f \notin dir \/ cache[f] = "unlinked"
  /\ todo' = todo \ {f}
  /\ LeaveOut(f)
  /\ UNCHANGED <<othersVars, spc, listed, cur, curSize, acc, result>>

\* A file that is not there any more is an error.
RefreshFails(f) ==
  /\ spc = "refresh"
  /\ First(f)
  /\ f \notin dir
  /\ todo' = todo \ {f}
  /\ LeaveOut(f)
  /\ UNCHANGED <<othersVars, spc, listed, cur, curSize, acc, result>>

Release == cur' = NoFile /\ curSize' = 0

\* `used` is within the length that was taken.
OpenDone ==
  /\ spc = "open"
  /\ Release
  /\ spc' = "refresh"
  /\ UNCHANGED <<othersVars, todo, listed, cache, acc, faults, result>>

\* The file at hand holds more series than when its length was taken, so that `used`
\* may be beyond it.
Outgrown == cache[cur] = "linked" => curSize < size[cur]

\* InvalidUsed: the file is left out and forgotten.
OpenFails ==
  /\ spc = "open"
  /\ Outgrown
  /\ LeaveOut(cur)
  /\ Release
  /\ spc' = "refresh"
  /\ UNCHANGED <<othersVars, todo, listed, acc, result>>

\* Mutant of RetainSeen: the maps of files that are gone stay.
RetainAll ==
  /\ spc = "refresh"
  /\ todo = {}
  /\ todo' = {f \in Files : cache[f] # "none"}
  /\ listed' = {}
  /\ spc' = "read"
  /\ UNCHANGED <<othersVars, cache, cur, curSize, acc, faults, result>>

\* self.files.retain, and on to the loop of render().
RetainSeen ==
  /\ spc = "refresh"
  /\ todo = {}
  /\ cache' = [f \in Files |-> IF f \in listed THEN cache[f] ELSE "none"]
  /\ todo' = {f \in Files : cache'[f] # "none"}
  /\ listed' = {}
  /\ spc' = "read"
  /\ UNCHANGED <<othersVars, cur, curSize, acc, faults, result>>

ValuesIn(f) == IF cache[f] = "linked" THEN {value[f]} ELSE 0..MaxValue

\* The loop of render(), in the order of a HashMap: refresh_entries takes the length
\* of the file.
VisitFile(f) ==
  /\ spc = "read"
  /\ f \in todo
  /\ TakeLength(f)
  /\ spc' = "load"
  /\ UNCHANGED <<othersVars, listed, cache, acc, faults, result>>

\* `used` is within it: the entries are parsed and the values loaded.
LoadFile ==
  /\ spc = "load"
  /\ \E v \in ValuesIn(cur) : acc' = [acc EXCEPT ![cur] = v]
  /\ Release
  /\ spc' = "read"
  /\ UNCHANGED <<othersVars, todo, listed, cache, faults, result>>

\* InvalidUsed, here or by the current_used() of render(): the file is left out and
\* forgotten.
LoadFails ==
  /\ spc = "load"
  /\ Outgrown
  /\ LeaveOut(cur)
  /\ Release
  /\ spc' = "read"
  /\ UNCHANGED <<othersVars, todo, listed, acc, result>>

\* read_file of the aggregation.
CopyFile(f) ==
  /\ spc = "copy"
  /\ First(f)
  /\ f \in dir
  /\ todo' = todo \ {f}
  /\ acc' = [acc EXCEPT ![f] = value[f]]
  /\ UNCHANGED <<othersVars, spc, listed, cache, cur, curSize, faults, result>>

\* The file is not there any more: the call fails.
CopyFails(f) ==
  /\ spc = "copy"
  /\ First(f)
  /\ f \notin dir
  /\ faults' = {f}
  /\ todo' = {}
  /\ spc' = "failed"
  /\ UNCHANGED <<othersVars, listed, cache, cur, curSize, acc, result>>

Merged == spc \in {"read", "copy"} /\ todo = {}

\* Mutant of EndScrape: the next scrape merges into the samples of this one.
EndScrapeMerging ==
  /\ spc' = "idle"
  /\ listed' = {}
  /\ faults' = {}
  /\ atStart' = Nothing /\ sizeAtStart' = Nothing
  /\ gone' = {}
  /\ UNCHANGED <<collectorVars, fileVars, reader, todo, cache, cur, curSize, acc>>

EndScrape ==
  /\ spc' = "idle"
  /\ listed' = {}
  /\ acc' = Nothing
  /\ faults' = {}
  /\ atStart' = Nothing /\ sizeAtStart' = Nothing
  /\ gone' = {}
  /\ UNCHANGED <<collectorVars, fileVars, reader, todo, cache, cur, curSize>>

\* render() of the merged samples.
Finish ==
  /\ Merged
  /\ result' = acc
  /\ lost' = gone \cap Counters
  /\ EndScrape

\* The caller gets an exception.
Throw ==
  /\ spc = "failed"
  /\ EndScrape
  /\ UNCHANGED <<result, lost>>

-----------------------------------------------------------------------------

\* The directory may hold the files of workers that ran before.
DirInit ==
  /\ CollectorInit
  /\ value = [f \in Files |-> IF f \in dir THEN 1 ELSE 0]
  /\ size = value
  /\ reader \in Readers
  /\ spc = "idle"
  /\ todo = {} /\ listed = {}
  /\ cache = [f \in Files |-> "none"]
  /\ cur = NoFile /\ curSize = 0
  /\ acc = Nothing /\ faults = {} /\ result = Nothing
  /\ atStart = Nothing /\ sizeAtStart = Nothing /\ gone = {} /\ lost = {}

ScrapeStep ==
  \/ \E f \in Files : RefreshFile(f) \/ OpenFile(f) \/ RefreshFails(f) \/ VisitFile(f)
  \/ \E f \in Files : CopyFile(f) \/ CopyFails(f)
  \/ OpenDone \/ OpenFails \/ RetainSeen \/ LoadFile \/ LoadFails
  \/ Finish \/ Throw

CollectorStep == LeaveFile \/ \E f \in Files : CollectFile(f)

DirNext ==
  \/ \E p \in Pids : StartWorker(p) \/ ExitWorker(p)
  \/ \E f \in Files : OpenStore(f) \/ AddSeries(f) \/ WriteStore(f) \/ FindDeadFile(f)
  \/ CollectorStep
  \/ StartScrape
  \/ ScrapeStep

DirSpec == DirInit /\ [][DirNext]_dirVars

\* What the collector achieves for the files of the dead while it is called
\* (DeadFilesCollected of Gc).
DeadFilesGo ==
  \A f \in LiveSums :
    <>[](alive # {} /\ PidOf[f] \in Pids \ alive) => <>[](f \notin dir)

\* Scrapes run on and are asked for again and again; the collector does its work.
DirFairSpec == DirSpec /\ WF_dirVars(StartScrape \/ ScrapeStep) /\ DeadFilesGo

-----------------------------------------------------------------------------
(* Properties *)

DirTypeOK ==
  /\ alive \subseteq born /\ born \subseteq Pids
  /\ dir \subseteq Files
  /\ mapped \in [Files -> {"none", "linked", "orphan"}]
  /\ value \in [Files -> 0..MaxValue]
  /\ size \in [Files -> Nat] /\ curSize \in Nat
  /\ spc \in {"idle", "refresh", "open", "read", "load", "copy", "failed"}
  /\ todo \subseteq Files /\ listed \subseteq Files
  /\ cache \in [Files -> {"none", "linked", "unlinked"}]
  /\ \A f \in Files \ dir : cache[f] # "linked" /\ value[f] = 0 /\ size[f] = 0
  /\ cur \in Files \cup {NoFile} /\ (cur # NoFile <=> spc \in {"open", "load"})
  /\ acc \in [Files -> 0..MaxValue] /\ result \in [Files -> 0..MaxValue]
  /\ faults \subseteq Files /\ found \subseteq Files
  /\ spc = "idle" => todo = {} /\ listed = {} /\ acc = Nothing /\ faults = {} /\ gone = {}
  /\ spc # "idle" => gone \cap Counters \subseteq lost /\ lost \subseteq Counters

\* A scrape shows every file that had its series when the scrape began, was not
\* unlinked since and did not grow in the middle of it (then it is a fault), with a
\* value of the file that is there now, however often the name was unlinked and made
\* again before (README.md:77: "replaced").
SteadyFilesShown ==
  Merged =>
    \A f \in Files \ gone :
      /\ f \notin faults => atStart[f] <= acc[f]
      /\ acc[f] <= value[f]
      /\ reader = "exporter" /\ acc[f] > 0 => cache[f] = "linked"

\* What a scrape reports as a fault, or fails for, is a file that was unlinked after
\* the scrape began, or, for the exporter, one to which a series was added since: a
\* file that stays as it is, is never left out, whether it is new to the exporter,
\* cached, or was replaced.
Grew(f) == sizeAtStart[f] < size[f]

FaultsExplained ==
  \A f \in faults : f \in gone \/ (reader = "exporter" /\ Grew(f))

\* A merged counter goes backwards from one scrape to the next only by the share of
\* a file that was collected meanwhile, or that the exporter left out because it grew
\* during that scrape.
CountersFallByCollection ==
  [][\A f \in Counters :
       result'[f] < result[f] =>
         \/ f \in lost
         \/ reader = "exporter" /\ f \in faults /\ Grew(f)]_dirVars

\* php_workers_alive: once workers no longer come and go and none of them has lost
\* its file, scrapes report those that are alive and no other for good, although
\* neither reader knows of pids: the collector takes the dead ones' files away.
LiveSumConverges ==
  /\ <>[][UNCHANGED alive]_alive
  /\ <>[](alive # {} /\ \A f \in LiveSums : mapped[f] # "orphan")
  => <>[](\A f \in LiveSums : result[f] = IF PidOf[f] \in alive THEN value[f] ELSE 0)

-----------------------------------------------------------------------------
(* The inductive invariant *)

\* A store that is linked is that of the name; the gauge of a worker is 0 or 1.
DirWellFormed ==
  /\ DirTypeOK
  /\ atStart \in [Files -> 0..MaxValue] /\ sizeAtStart \in [Files -> Nat]
  /\ gone \subseteq Files /\ lost \subseteq Counters
  /\ \A f \in Files : mapped[f] = "linked" => f \in dir
  /\ \A f \in LiveSums : value[f] <= 1

\* Each reader has its own steps, and comes to a file once.
ReaderSteps ==
  /\ spc \in {"refresh", "open", "read", "load"} => reader = "exporter"
  /\ spc \in {"copy", "failed"} => reader # "exporter"
  /\ spc = "failed" => todo = {}
  /\ cur \notin todo

\* The length of the file at hand was taken since the scrape began, of the file that
\* its name leads to, unless it was unlinked.
LengthTaken ==
  cur \in Files \ gone => cache[cur] = "linked" /\ sizeAtStart[cur] <= curSize

\* The files that the reader has still to read.
Pending == todo \cup {f \in Files : f = cur}

\* Until the files are looked up, those that had a series at the begin are listed, and
\* what is not there any more was unlinked meanwhile; of the others, those that were
\* looked up have the map of what the name leads to, or are left out.
LookUp ==
  /\ spc \in {"refresh", "open", "copy"} => todo \subseteq dir \cup gone
  /\ spc \in {"refresh", "open"} =>
       /\ acc = Nothing
       /\ \A f \in Files \ gone :
            IF f \in listed
            THEN f \in todo \/ cache[f] = "linked" \/ (f \in faults /\ cache[f] = "none")
            ELSE atStart[f] = 0

\* Of a file that was not unlinked meanwhile, the reader reads what the name leads to,
\* and once.
ReadSoFar ==
  spc \in {"read", "load", "copy"} =>
    \A f \in Files \ gone :
      /\ f \in Pending => acc[f] = 0 /\ (reader = "exporter" => cache[f] = "linked")
      /\ f \notin Pending \cup faults => atStart[f] <= acc[f]
      /\ acc[f] <= value[f]
      /\ reader = "exporter" /\ acc[f] > 0 => cache[f] = "linked"

\* No file has less than at the begin, unless it was made anew; a counter is never
\* less than in the last result, unless it was unlinked since.
ValuesRise ==
  /\ \A f \in Files : atStart[f] <= value[f] /\ sizeAtStart[f] <= size[f]
  /\ \A f \in Counters \ lost :
       result[f] <= value[f] /\ (spc # "idle" => result[f] <= atStart[f])

DirInv ==
  /\ DirWellFormed
  /\ ReaderSteps
  /\ LengthTaken
  /\ LookUp
  /\ ReadSoFar
  /\ ValuesRise
  /\ FaultsExplained

=============================================================================
