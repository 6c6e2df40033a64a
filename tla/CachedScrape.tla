----------------------------- MODULE CachedScrape -----------------------------
(***************************************************************************)
(* CachedDirExporter (src/src/exporter.rs) scraping the file of one live   *)
(* worker: a read-only mapping and a list of parsed entries are kept from  *)
(* one scrape to the next, and the worker appends, updates, grows its      *)
(* file, dies and restarts at any point in between.                        *)
(*                                                                         *)
(* The exporter holds its mutex for a whole render(), so scrapes follow    *)
(* one another.  A step is one system call or one load from the mapping.   *)
(* The samples of one key add up, as those of a counter do.                *)
(***************************************************************************)
EXTENDS MmapStore, Sequences

CONSTANT LoadsOrdered  \* the loads of the exporter take effect in program order

ASSUME LoadsOrderedAssumption == LoadsOrdered \in BOOLEAN

VARIABLES
  epc,
  stage,       \* who called refresh_map_if_needed: refresh, open or render
  cached,      \* the file is in self.files
  emapLen,     \* CachedFile.map.len()
  active,      \* CachedFile.active
  parsedUsed,  \* CachedFile.parsed_used
  entries,     \* CachedFile.entries
  eused,       \* the local `used`
  epos,        \* the local `pos`, or the index of the next entry to read
  shown,       \* merged: the samples collected
  outcome,     \* of the last scrape: "error" counts in file_errors
  oldHeads,    \* with loads out of order: heads when the scrape mapped the file
  before       \* history: the series of the file when the scrape began

scrapeVars == <<epc, stage, cached, emapLen, active, parsedUsed, entries, eused,
                epos, shown, outcome, oldHeads, before>>
scrapeAll  == <<storeVars, scrapeVars>>

Stages   == {"refresh", "open", "render"}
ReadPcs  == {"parse", "values"}
ScrapePcs == {"idle", "open", "map", "version", "used", "parse", "used2", "values"}

\* Leaving refresh_entries: open() is followed by the render loop, which calls it
\* again; there an inactive file is passed over.
AfterEntries(isActive) ==
  /\ stage' = "render"
  /\ cached' = TRUE
  /\ epc' = CASE stage = "open" -> "map"
              [] stage = "render" /\ isActive -> "used2"
              [] OTHER -> "idle"
  /\ outcome' = IF stage = "render" /\ ~isActive THEN "ok" ELSE outcome

Forget == entries' = <<>> /\ parsedUsed' = HEADER_SIZE

\* record_file_error, and the file leaves self.files.
FileError ==
  /\ epc' = "idle"
  /\ cached' = FALSE
  /\ outcome' = "error"
  /\ UNCHANGED stage

\* discover_metric_files finds the file; get_mut finds it in the cache or not.
StartScrape ==
  /\ epc = "idle"
  /\ epc' = IF cached THEN "map" ELSE "open"
  /\ stage' = IF cached THEN "refresh" ELSE "open"
  /\ shown' = Nothing
  /\ outcome' = "none"
  /\ before' = KvBar
  /\ UNCHANGED <<cached, emapLen, active, parsedUsed, entries, eused, epos, oldHeads>>

\* CachedFile::open, up to refresh_entries: fstat and mmap (mmap does not look at
\* the length of the file, so that the two are one step).
OpenFile ==
  /\ epc = "open"
  /\ epc' = "map"
  /\ emapLen' = fileLen
  /\ active' = FALSE
  /\ Forget
  /\ UNCHANGED <<stage, cached, eused, epos, shown, outcome, oldHeads, before>>

\* Mutant of RefreshMap: entries are cleared, parsed_used is not.
RefreshMapKeepsParsed ==
  /\ epc = "map"
  /\ emapLen' = fileLen
  /\ entries' = IF fileLen # emapLen THEN <<>> ELSE entries
  /\ IF stage = "refresh"
     THEN epc' = "map" /\ stage' = "render"
     ELSE epc' = "version" /\ UNCHANGED stage
  /\ oldHeads' = Nothing
  /\ UNCHANGED <<cached, active, parsedUsed, eused, epos, shown, outcome, before>>

RefreshMap ==
  /\ epc = "map"
  /\ emapLen' = fileLen
  /\ IF fileLen # emapLen THEN Forget ELSE UNCHANGED <<entries, parsedUsed>>
  /\ IF stage = "refresh"
     THEN epc' = "map" /\ stage' = "render"
     ELSE epc' = "version" /\ UNCHANGED stage
  /\ oldHeads' = IF LoadsOrdered THEN Nothing ELSE heads
  /\ UNCHANGED <<cached, active, eused, epos, shown, outcome, before>>

\* Mutant of ReadVersion: a file that was inactive when opened stays so.
ReadVersionOnce ==
  LET known == /\ emapLen >= HEADER_SIZE /\ version = FILE_FORMAT_VERSION
               /\ active \/ stage = "open"
  IN
  /\ epc = "version"
  /\ active' = known
  /\ IF known
     THEN epc' = "used" /\ UNCHANGED <<stage, cached, outcome, entries, parsedUsed>>
     ELSE AfterEntries(FALSE) /\ Forget
  /\ UNCHANGED <<emapLen, eused, epos, shown, oldHeads, before>>

ReadVersion ==
  LET known == emapLen >= HEADER_SIZE /\ version = FILE_FORMAT_VERSION IN
  /\ epc = "version"
  /\ active' = known
  /\ IF known
     THEN epc' = "used" /\ UNCHANGED <<stage, cached, outcome, entries, parsedUsed>>
     ELSE AfterEntries(FALSE) /\ Forget
  /\ UNCHANGED <<emapLen, eused, epos, shown, oldHeads, before>>

\* Mutant of UsedFits: no check against the mapping.
UsedUnchecked == TRUE

\* current_used() succeeds.
UsedFits == Used <= emapLen

ReadUsed ==
  /\ epc = "used"
  /\ UsedFits
  /\ eused' = Used
  /\ IF Used < parsedUsed THEN Forget ELSE UNCHANGED <<entries, parsedUsed>>
  /\ epos' = parsedUsed'
  /\ epc' = "parse"
  /\ UNCHANGED <<stage, cached, emapLen, active, shown, outcome, oldHeads, before>>

UsedError ==
  /\ epc \in {"used", "used2"}
  /\ ~UsedFits
  /\ FileError
  /\ UNCHANGED <<emapLen, active, parsedUsed, entries, eused, epos, shown, oldHeads, before>>

\* The key that the length fields and text at an offset are decoded to.  Loads
\* that may be reordered may have been done before that of `used`.
HeadsSeen(o) ==
  {HeadAt(o)} \cup
  (IF LoadsOrdered THEN {} ELSE {IF o \in DOMAIN oldHeads THEN oldHeads[o] ELSE EmptyKey})

ParseEntry ==
  \E key \in HeadsSeen(epos) :
    /\ epc = "parse"
    /\ MoreEntries(epos, eused)
    /\ epos + TotalLen(key) <= eused
    /\ entries' = Append(entries, [metric |-> key, value_offset |-> epos + ValueOffset(key)])
    /\ epos' = epos + TotalLen(key)
    /\ UNCHANGED <<epc, stage, cached, emapLen, active, parsedUsed, eused, shown, outcome,
                   oldHeads, before>>

\* Mutant of ParseDone: parsed_used is not set.
ParseDoneUnrecorded ==
  \E key \in HeadsSeen(epos) :
    /\ epc = "parse"
    /\ MoreEntries(epos, eused) => epos + TotalLen(key) > eused
    /\ AfterEntries(active)
    /\ UNCHANGED <<emapLen, active, parsedUsed, entries, eused, epos, shown, oldHeads, before>>

\* The loop ends at `used`, or breaks at an entry that does not fit.
ParseDone ==
  \E key \in HeadsSeen(epos) :
    /\ epc = "parse"
    /\ MoreEntries(epos, eused) => epos + TotalLen(key) > eused
    /\ parsedUsed' = epos
    /\ AfterEntries(active)
    /\ UNCHANGED <<emapLen, active, entries, eused, epos, shown, oldHeads, before>>

ReadUsedAgain ==
  /\ epc = "used2"
  /\ UsedFits
  /\ eused' = Used
  /\ epos' = 1
  /\ epc' = "values"
  /\ UNCHANGED <<stage, cached, emapLen, active, parsedUsed, entries, shown, outcome,
                 oldHeads, before>>

ReadValue ==
  LET entry == entries[epos]
      key   == entry.metric
      value == ValueAt(entry.value_offset)
  IN
  /\ epc = "values"
  /\ epos <= Len(entries)
  /\ shown' = IF entry.value_offset + VALUE_SIZE > eused THEN shown
              ELSE Put(shown, key, value + (IF key \in DOMAIN shown THEN shown[key] ELSE 0))
  /\ epos' = epos + 1
  /\ UNCHANGED <<epc, stage, cached, emapLen, active, parsedUsed, entries, eused, outcome,
                 oldHeads, before>>

FinishScrape ==
  /\ epc = "values"
  /\ epos > Len(entries)
  /\ epc' = "idle"
  /\ outcome' = "ok"
  /\ UNCHANGED <<stage, cached, emapLen, active, parsedUsed, entries, eused, epos, shown,
                 oldHeads, before>>

-----------------------------------------------------------------------------

ScrapeInit ==
  /\ StoreInit
  /\ epc = "idle"
  /\ stage = "refresh"
  /\ cached = FALSE
  /\ emapLen = 0
  /\ active = FALSE
  /\ parsedUsed = HEADER_SIZE
  /\ entries = <<>>
  /\ eused = HEADER_SIZE
  /\ epos = HEADER_SIZE
  /\ shown = Nothing
  /\ outcome = "none"
  /\ oldHeads = Nothing
  /\ before = Nothing

ScrapeStep ==
  \/ OpenFile
  \/ RefreshMap
  \/ ReadVersion
  \/ ReadUsed
  \/ UsedError
  \/ ParseEntry
  \/ ParseDone
  \/ ReadUsedAgain
  \/ ReadValue
  \/ FinishScrape

ScrapeNext ==
  \/ StoreNext /\ UNCHANGED scrapeVars
  \/ (StartScrape \/ ScrapeStep) /\ UNCHANGED storeVars

ScrapeSpec == ScrapeInit /\ [][ScrapeNext]_scrapeAll

\* A render() that began runs on.
ScrapeFairness == WF_scrapeAll(ScrapeStep /\ UNCHANGED storeVars)

\* Prometheus asks again and again.
ScrapeForeverSpec ==
  /\ ScrapeSpec
  /\ ScrapeFairness
  /\ WF_scrapeAll(StartScrape /\ UNCHANGED storeVars)

-----------------------------------------------------------------------------
(* Properties *)

ScrapeTypeOK ==
  /\ TypeOK
  /\ epc \in ScrapePcs
  /\ stage \in Stages
  /\ cached \in BOOLEAN /\ active \in BOOLEAN
  /\ emapLen \in Nat /\ parsedUsed \in Nat /\ eused \in Nat /\ epos \in Nat
  /\ entries \in Seq([metric : AllKeys, value_offset : Nat])
  /\ DOMAIN shown \subseteq AllKeys /\ shown \in [DOMAIN shown -> Int]
  /\ outcome \in {"none", "ok", "error"}
  /\ oldHeads \in [DOMAIN oldHeads -> AllKeys]
  /\ DOMAIN before \subseteq Keys /\ before \in [DOMAIN before -> Int]

\* The entries of the cache are those of the file up to the point where parsing
\* stopped, each once and in order, however much the worker appended, and however
\* often it died, since they were parsed.
ParsedTo == IF epc = "parse" THEN epos ELSE parsedUsed

Parsed == {o \in Published : o < ParsedTo}

EntryOf(o) == [metric |-> heads[o], value_offset |-> Cell(o)]

CacheHolds ==
  /\ Len(entries) = Cardinality(Parsed)
  /\ {entries[i] : i \in 1..Len(entries)} = {EntryOf(o) : o \in Parsed}
  /\ \A i, j \in 1..Len(entries) :
       i < j => entries[i].value_offset < entries[j].value_offset

CacheMatchesFile ==
  cached \/ epc \notin {"idle", "open"} => CacheHolds

\* No load of the exporter is beyond the end of the file (SIGBUS) or of its
\* mapping (a panic), even though a worker whose mapping failed may shrink the
\* file later.
LoadsWithinFile == epc \in ReadPcs => eused <= fileLen /\ eused <= emapLen

\* A scrape that ends without an error shows every series the file had when it
\* began, and no other than those it has by now, with a value the counter had
\* reached in between: so a counter never goes backwards between two scrapes.
\* (Of counters that only incremented.)
CounterSamplesAreCurrent ==
  outcome = "ok" =>
    /\ DOMAIN before \subseteq DOMAIN shown
    /\ DOMAIN shown \subseteq DOMAIN KvBar
    /\ \A k \in DOMAIN shown : MM!ValueIn(before, k) <= shown[k] /\ shown[k] <= KvBar[k]

\* A healthy file is not counted in prometheus_mmap_exporter_file_errors.
HealthyFileNotSkipped == outcome # "error"

\* It is, but only in a scrape during which a series was added to it.
SkippedOnlyIfGrown == outcome = "error" => DOMAIN before # DOMAIN KvBar

\* What a reader decodes below `used` are the bytes of published entries.
ReadersSeePublishedBytes ==
  epc = "parse" =>
    \A i \in 1..Len(entries) :
      \E o \in Published : entries[i] = EntryOf(o)

\* Once a series is in the file, some later scrape shows it: no scrape runs on for
\* ever, whatever the worker does meanwhile, and neither a file error nor a stale
\* cache keeps the series out for good.
SeriesGetsShown ==
  \A k \in Keys : (k \in DOMAIN KvBar) ~> (outcome = "ok" /\ k \in DOMAIN shown)

-----------------------------------------------------------------------------
(* The inductive invariants *)

\* A scrape past its look at the version reads a file that is initialised and stays
\* so; the `used` it loaded is behind that of the file.
ReadsLive ==
  /\ epc \in {"used", "used2"} \cup ReadPcs => Live
  /\ epc \in ReadPcs => eused <= usedHdr /\ eused <= emapLen
  /\ epc = "values" => epos >= 1

LoadInv == IInv /\ ScrapeTypeOK /\ ReadsLive

\* Parsing stands at the start of an entry or at the end of the last, and goes on to
\* such an offset; nothing is kept of a file that is not initialised.
ParsedOnBoundary ==
  /\ ~Live => entries = <<>> /\ parsedUsed = HEADER_SIZE
  /\ Live => OnBoundary(ParsedTo)
  /\ epc = "parse" => OnBoundary(eused)

CacheInv ==
  /\ LoadInv
  /\ ParsedOnBoundary
  /\ CacheHolds

\* The series of the entries that start below an offset.
SeriesBelow(o) == {heads[p] : p \in {q \in Published : q < o}}

\* What a scrape knows of the series there were when it began: a file that was too
\* short for a header had none; a `used` loaded since has them all below it; so have
\* the entries, once the cache of a render is parsed up to that `used`.
BeforeInReach ==
  /\ epc = "version" /\ emapLen < HEADER_SIZE => DOMAIN before = {}
  /\ epc \in {"used", "parse"} => active
  /\ epc = "parse" => DOMAIN before \subseteq SeriesBelow(eused)
  /\ epc \in {"used2", "values"} => DOMAIN before \subseteq SeriesBelow(parsedUsed)
  /\ epc = "values" => parsedUsed <= eused

\* Of counters: the samples are those of the entries read so far, each with a value
\* between the one at the begin and the one now.
ShownCurrent ==
  /\ NonNegative /\ GrownTo(before, KvBar)
  /\ epc \notin {"idle", "values"} => DOMAIN shown = {}
  /\ epc = "values" => DOMAIN shown = {entries[i].metric : i \in 1..(epos - 1)}
  /\ \A k \in DOMAIN shown :
       k \in DOMAIN KvBar /\ MM!ValueIn(before, k) <= shown[k] /\ shown[k] <= KvBar[k]
  /\ outcome = "ok" => epc = "idle" /\ DOMAIN before \subseteq DOMAIN shown

SampleInv == CacheInv /\ BeforeInReach /\ ShownCurrent

\* As long as no series was added since the begin, `used` fits the mapping.
FitsUnlessGrown ==
  /\ DOMAIN before \subseteq DOMAIN KvBar
  /\ epc \in {"used", "parse", "used2"} => HEADER_SIZE <= emapLen
  /\ epc \in {"version", "used", "parse", "used2"} /\ DOMAIN before = DOMAIN KvBar =>
       (Live /\ HEADER_SIZE <= emapLen => usedHdr <= emapLen)

SkipInv == LoadInv /\ FitsUnlessGrown /\ SkippedOnlyIfGrown

=============================================================================
