----------------------------- MODULE ScrapeProofs -----------------------------
(***************************************************************************)
(* Proofs about CachedScrape and OneShotScrape, for every value of their   *)
(* constants: what the two readers of a file may rely on while its worker  *)
(* goes on, and that what they then show was true of its counters.         *)
(***************************************************************************)
EXTENDS CachedScrape, OneShotScrape, MmapStoreProofs, FiniteSetTheorems, SequenceTheorems

-----------------------------------------------------------------------------
(* The exporter: no load beyond the end of the file *)

\* A cache without entries.
LEMMA EmptyCache == <<>> \in Seq([metric : AllKeys, value_offset : Nat]) /\ Len(<<>>) = 0
BY EmptySeq

\* Clearing the cache keeps its type.
LEMMA ForgetType ==
  ASSUME ScrapeTypeOK, Forget \/ UNCHANGED <<entries, parsedUsed>>
  PROVE  entries' \in Seq([metric : AllKeys, value_offset : Nat]) /\ parsedUsed' \in Nat
<1>1. CASE Forget
  BY <1>1, EmptyCache DEF Forget, HEADER_SIZE
<1>2. CASE UNCHANGED <<entries, parsedUsed>>
  BY <1>2 DEF ScrapeTypeOK
<1>3. QED
  BY <1>1, <1>2

\* Before the first scrape.
LEMMA InitLoadInv == ScrapeInit => LoadInv
<1> SUFFICES ASSUME ScrapeInit PROVE LoadInv
  OBVIOUS
<1>1. IInv
  BY InitIInv DEF ScrapeInit
<1>2. ScrapeTypeOK
  BY <1>1, EmptyCache DEF ScrapeInit, ScrapeTypeOK, IInv, ScrapePcs, Stages, HEADER_SIZE, Nothing
<1>3. ReadsLive
  BY DEF ScrapeInit, ReadsLive, ReadPcs
<1>4. QED
  BY <1>1, <1>2, <1>3 DEF LoadInv

\* The worker goes on while the exporter is anywhere in a scrape.
LEMMA StoreKeepsLoadInv ==
  ASSUME LoadInv, [StoreNext]_storeVars, UNCHANGED scrapeVars
  PROVE  LoadInv'
<1>1. IInv'
  BY StepIInv DEF LoadInv
<1>2. ScrapeTypeOK'
  BY <1>1 DEF LoadInv, IInv, ScrapeTypeOK, scrapeVars
<1>3. ASSUME epc \in {"used", "used2"} \cup ReadPcs
      PROVE  Live' /\ usedHdr <= usedHdr'
  BY <1>3, UsedNeverFalls DEF LoadInv, ReadsLive
<1>4. usedHdr \in Nat /\ usedHdr' \in Nat /\ eused \in Nat
  BY <1>1 DEF LoadInv, IInv, TypeOK, ScrapeTypeOK
<1>5. ReadsLive'
  BY <1>3, <1>4 DEF LoadInv, ReadsLive, scrapeVars
<1>6. QED
  BY <1>1, <1>2, <1>5 DEF LoadInv

\* Leaving refresh_entries keeps the types and starts no load.
LEMMA AfterEntriesFacts ==
  ASSUME ScrapeTypeOK, NEW b \in BOOLEAN, AfterEntries(b)
  PROVE  /\ epc' \in {"map", "used2", "idle"} /\ (epc' = "used2" => b)
         /\ stage' \in Stages /\ cached' \in BOOLEAN /\ outcome' \in {"none", "ok", "error"}
BY DEF ScrapeTypeOK, AfterEntries, Stages

\* What is decoded at an offset is a key.
LEMMA HeadsSeenType ==
  ASSUME LoadInv, NEW o, NEW key \in HeadsSeen(o)
  PROVE  key \in AllKeys /\ TotalLen(key) \in Nat /\ ValueOffset(key) \in Nat
<1>1. key \in AllKeys
  BY DEF LoadInv, IInv, TypeOK, ScrapeTypeOK, HeadsSeen, HeadAt, AllKeys
<1>2. QED
  BY <1>1, KeyFacts

\* Every step of a scrape keeps it within the file.
LEMMA ScrapeKeepsLoadInv ==
  ASSUME LoadInv, StartScrape \/ ScrapeStep, UNCHANGED storeVars
  PROVE  LoadInv'
<1>1. IInv' /\ TypeOK' /\ Live' = Live /\ usedHdr' = usedHdr
  BY StutterKeepsIInv DEF LoadInv, IInv, storeVars, Live
<1>2. Live => Used = usedHdr /\ usedHdr \in Nat
  BY LiveFacts DEF LoadInv
<1> USE DEF LoadInv, ReadsLive, ReadPcs
<1>3. CASE StartScrape
  <2>1. ScrapeTypeOK'
    BY <1>1, <1>3, KvBarType DEF StartScrape, ScrapeTypeOK, ScrapePcs, Stages, Nothing
  <2>2. QED
    BY <1>1, <1>3, <2>1 DEF StartScrape
<1>4. CASE OpenFile
  <2>1. ScrapeTypeOK'
    BY <1>1, <1>4, EmptyCache DEF OpenFile, Forget, ScrapeTypeOK, ScrapePcs, HEADER_SIZE, TypeOK
  <2>2. QED
    BY <1>1, <1>4, <2>1 DEF OpenFile
<1>5. CASE RefreshMap
  <2>1. oldHeads' \in [DOMAIN oldHeads' -> AllKeys]
    BY <1>5 DEF RefreshMap, IInv, TypeOK, Nothing, AllKeys
  <2>2. entries' \in Seq([metric : AllKeys, value_offset : Nat]) /\ parsedUsed' \in Nat
    BY <1>5, ForgetType DEF RefreshMap
  <2>3. ScrapeTypeOK'
    BY <1>1, <1>5, <2>1, <2>2 DEF RefreshMap, ScrapeTypeOK, ScrapePcs, Stages, TypeOK
  <2>4. QED
    BY <1>1, <1>5, <2>3 DEF RefreshMap
<1>6. CASE ReadVersion
  <2>1. active' \in BOOLEAN /\ (active' => Live)
    BY <1>6 DEF ReadVersion, Live
  <2>2. CASE active'
    <3>1. ScrapeTypeOK'
      BY <1>1, <1>6, <2>1, <2>2 DEF ReadVersion, ScrapeTypeOK, ScrapePcs
    <3>2. QED
      BY <1>1, <1>6, <2>1, <2>2, <3>1 DEF ReadVersion
  <2>3. CASE ~active'
    <3>1. AfterEntries(FALSE) /\ Forget
      BY <1>6, <2>3 DEF ReadVersion
    <3>2. /\ epc' \in {"map", "idle"} /\ stage' \in Stages
          /\ cached' \in BOOLEAN /\ outcome' \in {"none", "ok", "error"}
      BY <3>1, AfterEntriesFacts
    <3>3. ScrapeTypeOK'
      BY <1>1, <1>6, <2>1, <3>1, <3>2, EmptyCache
         DEF ReadVersion, ScrapeTypeOK, Forget, ScrapePcs, HEADER_SIZE
    <3>4. QED
      BY <1>1, <3>2, <3>3
  <2>4. QED
    BY <2>2, <2>3
<1>7. CASE ReadUsed
  <2>1. Live /\ Used = usedHdr /\ usedHdr <= emapLen
    BY <1>2, <1>7 DEF ReadUsed, UsedFits
  <2>2. entries' \in Seq([metric : AllKeys, value_offset : Nat]) /\ parsedUsed' \in Nat
    BY <1>7, ForgetType DEF ReadUsed
  <2>3. ScrapeTypeOK'
    BY <1>1, <1>2, <1>7, <2>1, <2>2 DEF ReadUsed, ScrapeTypeOK, ScrapePcs
  <2>4. QED
    BY <1>1, <1>2, <1>7, <2>1, <2>3 DEF ReadUsed
<1>8. CASE UsedError
  <2>1. ScrapeTypeOK'
    BY <1>1, <1>8 DEF UsedError, FileError, ScrapeTypeOK, ScrapePcs
  <2>2. QED
    BY <1>1, <1>8, <2>1 DEF UsedError, FileError
<1>9. CASE ParseEntry
  <2>1. PICK key \in HeadsSeen(epos) :
          /\ epc = "parse"
          /\ entries' = Append(entries, [metric |-> key, value_offset |-> epos + ValueOffset(key)])
          /\ epos' = epos + TotalLen(key)
          /\ UNCHANGED <<epc, stage, cached, emapLen, active, parsedUsed, eused, shown, outcome,
                         oldHeads, before>>
    BY <1>9 DEF ParseEntry
  <2>2. key \in AllKeys /\ TotalLen(key) \in Nat /\ ValueOffset(key) \in Nat
    BY HeadsSeenType
  <2>3. [metric |-> key, value_offset |-> epos + ValueOffset(key)]
          \in [metric : AllKeys, value_offset : Nat]
    BY <2>2 DEF ScrapeTypeOK
  <2>4. entries' \in Seq([metric : AllKeys, value_offset : Nat])
    BY <2>1, <2>3 DEF ScrapeTypeOK
  <2>5. ScrapeTypeOK'
    BY <1>1, <2>1, <2>2, <2>4 DEF ScrapeTypeOK
  <2>6. QED
    BY <1>1, <2>1, <2>5
<1>10. CASE ParseDone
  <2>1. /\ Live /\ parsedUsed' = epos /\ AfterEntries(active)
        /\ UNCHANGED <<emapLen, active, entries, eused, epos, shown, oldHeads, before>>
    BY <1>10 DEF ParseDone
  <2>2. /\ epc' \in {"map", "used2", "idle"} /\ stage' \in Stages
        /\ cached' \in BOOLEAN /\ outcome' \in {"none", "ok", "error"}
    BY <2>1, AfterEntriesFacts DEF ScrapeTypeOK
  <2>3. ScrapeTypeOK'
    BY <1>1, <2>1, <2>2 DEF ScrapeTypeOK, ScrapePcs
  <2>4. QED
    BY <1>1, <2>1, <2>2, <2>3
<1>11. CASE ReadUsedAgain
  <2>1. Live /\ Used = usedHdr /\ usedHdr <= emapLen
    BY <1>2, <1>11 DEF ReadUsedAgain, UsedFits
  <2>2. ScrapeTypeOK'
    BY <1>1, <1>2, <1>11, <2>1 DEF ReadUsedAgain, ScrapeTypeOK, ScrapePcs
  <2>3. QED
    BY <1>1, <1>2, <1>11, <2>1, <2>2 DEF ReadUsedAgain
<1>12. CASE ReadValue
  <2>1. epc = "values" /\ epos \in 1..Len(entries)
    BY <1>12 DEF ReadValue, ScrapeTypeOK
  <2>2. entries[epos] \in [metric : AllKeys, value_offset : Nat]
    BY <2>1, ElementOfSeq DEF ScrapeTypeOK
  <2>3. ValueAt(entries[epos].value_offset) \in Int
    BY DEF IInv, TypeOK, ValueAt
  <2>4. DOMAIN shown' \subseteq AllKeys /\ shown' \in [DOMAIN shown' -> Int]
    BY <1>12, <2>2, <2>3 DEF ReadValue, ScrapeTypeOK, Put
  <2>5. ScrapeTypeOK'
    BY <1>1, <1>12, <2>4 DEF ReadValue, ScrapeTypeOK
  <2>6. QED
    BY <1>1, <1>12, <2>1, <2>5 DEF ReadValue
<1>13. CASE FinishScrape
  <2>1. ScrapeTypeOK'
    BY <1>1, <1>13 DEF FinishScrape, ScrapeTypeOK, ScrapePcs
  <2>2. QED
    BY <1>1, <1>13, <2>1 DEF FinishScrape
<1>14. QED
  BY <1>3, <1>4, <1>5, <1>6, <1>7, <1>8, <1>9, <1>10, <1>11, <1>12, <1>13 DEF ScrapeStep

\* Every step of either process.
LEMMA StepLoadInv == LoadInv /\ [ScrapeNext]_scrapeAll => LoadInv'
<1> SUFFICES ASSUME LoadInv, [ScrapeNext]_scrapeAll PROVE LoadInv'
  OBVIOUS
<1>1. \/ [StoreNext]_storeVars /\ UNCHANGED scrapeVars
      \/ (StartScrape \/ ScrapeStep) /\ UNCHANGED storeVars
  BY DEF ScrapeNext, scrapeAll
<1>2. QED
  BY <1>1, StoreKeepsLoadInv, ScrapeKeepsLoadInv

\* What the loads of a scrape rely on: a file that is initialised stays so, and its
\* `used` never falls.
THEOREM LoadInvariance == ScrapeSpec => []LoadInv
BY InitLoadInv, StepLoadInv, PTL DEF ScrapeSpec

\* Type correctness of a scrape, next to a worker at work.
THEOREM ScrapeTypeCorrect == ScrapeSpec => []ScrapeTypeOK
BY LoadInvariance, PTL DEF LoadInv

\* No load of the exporter is beyond the end of the file or of its mapping, with its
\* loads in any order.
THEOREM LoadsStayWithinFile == ScrapeSpec => []LoadsWithinFile
<1>1. LoadInv => LoadsWithinFile
  <2> SUFFICES ASSUME LoadInv, epc \in ReadPcs PROVE eused <= fileLen /\ eused <= emapLen
    BY DEF LoadsWithinFile
  <2>1. Live /\ eused <= usedHdr /\ eused <= emapLen
    BY DEF LoadInv, ReadsLive
  <2>2. usedHdr <= fileLen /\ usedHdr \in Nat /\ fileLen \in Nat /\ eused \in Nat
    BY <2>1 DEF LoadInv, IInv, FileWellFormed, TypeOK, ScrapeTypeOK
  <2>3. QED
    BY <2>1, <2>2
<1>2. QED
  BY <1>1, LoadInvariance, PTL

-----------------------------------------------------------------------------
(* The exporter: the cache is a prefix of the file *)

\* Without entries parsed, the empty cache is right.
LEMMA EmptyHolds ==
  /\ entries = <<>> /\ Parsed = {} => CacheHolds
  /\ entries' = <<>> /\ Parsed' = {} => CacheHolds'
<1>1. Cardinality({}) = 0 /\ Len(<<>>) = 0 /\ 1..0 = {}
  BY EmptyCache, FS_EmptySet
<1>2. ASSUME entries = <<>>, Parsed = {} PROVE CacheHolds
  <2>1. Len(entries) = 0 /\ 1..Len(entries) = {} /\ Cardinality(Parsed) = 0
    BY <1>1, <1>2
  <2>2. QED
    BY <1>2, <2>1 DEF CacheHolds
<1>3. ASSUME entries' = <<>>, Parsed' = {} PROVE CacheHolds'
  <2>1. Len(entries') = 0 /\ 1..Len(entries') = {} /\ Cardinality(Parsed') = 0
    BY <1>1, <1>3
  <2>2. QED
    BY <1>3, <2>1 DEF CacheHolds
<1>4. QED
  BY <1>2, <1>3

\* A cache that stays is right for as long as the entries it was parsed from stay.
LEMMA CacheStays ==
  ASSUME CacheHolds, entries' = entries, Parsed' = Parsed,
         \A o \in Parsed : EntryOf(o)' = EntryOf(o)
  PROVE  CacheHolds'
BY DEF CacheHolds

\* Nothing lies below the header.
LEMMA NothingBelowHeader ==
  ASSUME IInv, ParsedTo = HEADER_SIZE
  PROVE  Parsed = {}
<1>1. CASE Live
  BY <1>1, LiveFacts DEF Parsed
<1>2. CASE ~Live
  BY <1>2 DEF Parsed, Published
<1>3. QED
  BY <1>1, <1>2

\* Before the first scrape.
LEMMA InitCacheInv == ScrapeInit => CacheInv
<1> SUFFICES ASSUME ScrapeInit PROVE CacheInv
  OBVIOUS
<1>1. LoadInv
  BY InitLoadInv
<1>2. ~Live
  BY OldFilesAssumption DEF ScrapeInit, StoreInit, Live
<1>3. entries = <<>> /\ parsedUsed = HEADER_SIZE /\ ParsedTo = HEADER_SIZE /\ epc = "idle"
  BY DEF ScrapeInit, ParsedTo
<1>4. CacheHolds
  BY <1>1, <1>3, NothingBelowHeader, EmptyHolds DEF LoadInv
<1>5. QED
  BY <1>1, <1>2, <1>3, <1>4 DEF CacheInv, ParsedOnBoundary

\* The worker goes on: what it adds lies at or behind where parsing stands.
LEMMA StoreKeepsCacheInv ==
  ASSUME CacheInv, [StoreNext]_storeVars, UNCHANGED scrapeVars
  PROVE  CacheInv'
<1> USE DEF CacheInv, ParsedOnBoundary
<1>1. LoadInv' /\ IInv
  BY StoreKeepsLoadInv DEF LoadInv
<1>2. /\ ParsedTo' = ParsedTo /\ ParsedTo \in Nat /\ entries' = entries
      /\ epc' = epc /\ eused' = eused /\ parsedUsed' = parsedUsed
      /\ (epc = "parse" => Live)
  BY DEF LoadInv, ReadsLive, ReadPcs, ScrapeTypeOK, ParsedTo, scrapeVars
<1>3. \A o \in Published : o \in Published' /\ EntryOf(o)' = EntryOf(o)
  BY <1>1, StepMovesNothing DEF EntryOf, Cell
<1>4. CASE Published' = Published /\ Live' = Live /\ (Live => usedHdr' = usedHdr)
  <2>1. Parsed' = Parsed
    BY <1>2, <1>4 DEF Parsed
  <2>2. CacheHolds'
    BY <1>2, <1>3, <2>1, CacheStays DEF Parsed
  <2>3. QED
    BY <1>1, <1>2, <1>4, <2>2 DEF OnBoundary
<1>5. CASE /\ Live /\ Live'
           /\ Published' = Published \cup {usedHdr} /\ usedHdr < usedHdr'
  <2>1. usedHdr \in Nat /\ ParsedTo <= usedHdr
    BY <1>1, <1>2, <1>5 DEF OnBoundary, Published, IInv, TypeOK
  <2>2. Parsed' = Parsed
    BY <1>2, <1>5, <2>1 DEF Parsed
  <2>3. CacheHolds'
    BY <1>2, <1>3, <2>2, CacheStays DEF Parsed
  <2>4. \A o : OnBoundary(o) => OnBoundary(o)'
    BY <1>5 DEF OnBoundary
  <2>5. QED
    BY <1>1, <1>2, <1>5, <2>3, <2>4
<1>6. CASE ~Live /\ Live' /\ Published' = {} /\ usedHdr' = HEADER_SIZE
  <2>1. entries' = <<>> /\ Parsed' = {} /\ ParsedTo' = HEADER_SIZE /\ epc' # "parse"
    BY <1>2, <1>6 DEF Parsed, ParsedTo
  <2>2. CacheHolds'
    BY <2>1, EmptyHolds
  <2>3. OnBoundary(ParsedTo)'
    BY <1>6, <2>1 DEF OnBoundary
  <2>4. QED
    BY <1>1, <1>6, <2>1, <2>2, <2>3
<1>7. QED
  BY <1>1, <1>4, <1>5, <1>6, FileGrows

\* A step of a scrape that leaves the cache, and where parsing stands, as they are.
LEMMA ScrapeLeavesCache ==
  ASSUME CacheInv, UNCHANGED storeVars, LoadInv', entries' = entries, ParsedTo' = ParsedTo,
         ~Live => parsedUsed' = parsedUsed, epc' = "parse" => OnBoundary(eused')
  PROVE  CacheInv'
<1>1. /\ Published' = Published /\ (Live' <=> Live) /\ Parsed' = Parsed
      /\ \A o : EntryOf(o)' = EntryOf(o)
      /\ usedHdr' = usedHdr
  BY DEF storeVars, Published, Live, Parsed, EntryOf, Cell
<1>2. CacheHolds'
  BY <1>1, CacheStays DEF CacheInv
<1>3. QED
  BY <1>1, <1>2 DEF CacheInv, ParsedOnBoundary, OnBoundary

\* One that clears the cache.
LEMMA ScrapeClearsCache ==
  ASSUME CacheInv, UNCHANGED storeVars, LoadInv', Forget, ParsedTo' = HEADER_SIZE,
         epc' = "parse" => OnBoundary(eused')
  PROVE  CacheInv'
<1>1. /\ Published' = Published /\ (Live' <=> Live) /\ usedHdr' = usedHdr
  BY DEF storeVars, Published, Live
<1>2. Live => OnBoundary(HEADER_SIZE) /\ {o \in Published : o < HEADER_SIZE} = {}
  BY LiveFacts DEF CacheInv, LoadInv
<1>3. Parsed' = {}
  BY <1>1, <1>2 DEF Parsed, Published
<1>4. entries' = <<>> /\ parsedUsed' = HEADER_SIZE
  BY DEF Forget
<1>5. CacheHolds'
  BY <1>3, <1>4, EmptyHolds
<1>6. QED
  BY <1>1, <1>2, <1>4, <1>5 DEF CacheInv, ParsedOnBoundary, OnBoundary

\* Parsing takes over the entry that it stands at, which ends within `used`.
LEMMA ParseAddsEntry ==
  ASSUME LoadsOrdered, CacheInv, ParseEntry, UNCHANGED storeVars
  PROVE  /\ epos \in Published /\ epc' = "parse" /\ epos' = EntryEnd(epos)
         /\ eused' = eused
         /\ entries' = Append(entries, EntryOf(epos))
         /\ Parsed' = Parsed \cup {epos} /\ epos \notin Parsed
<1> USE DEF CacheInv
<1>1. IInv /\ epc = "parse" /\ Live /\ epos \in Nat /\ eused \in Nat /\ usedHdr \in Nat
      /\ eused <= usedHdr /\ ParsedTo = epos /\ MoreEntries(epos, eused)
  BY DEF ParseEntry, LoadInv, IInv, TypeOK, ScrapeTypeOK, ReadsLive, ReadPcs, ParsedTo
<1>2. epos \in Published
  BY <1>1 DEF ParsedOnBoundary, OnBoundary, MoreEntries, LENGTH_FIELDS_SIZE
<1>3. HeadsSeen(epos) = {heads[epos]}
  BY <1>1, <1>2, EntryFacts DEF HeadsSeen
<1>4. /\ epc' = "parse" /\ epos' = EntryEnd(epos) /\ entries' = Append(entries, EntryOf(epos))
      /\ eused' = eused
  BY <1>3, <1>1 DEF ParseEntry, EntryEnd, EntryOf, Cell
<1>5. \A o \in Published : o \in Nat /\ (o < EntryEnd(epos) <=> o < epos \/ o = epos)
  <2>1. \A o \in Published : o \in Nat /\ (o > epos => EntryEnd(epos) <= o)
    BY <1>1, <1>2, EntryFacts
  <2>2. EntryEnd(epos) \in Nat /\ epos < EntryEnd(epos)
    BY <1>1, <1>2, EntryFacts
  <2>3. QED
    BY <1>1, <2>1, <2>2
<1>6. ParsedTo' = EntryEnd(epos) /\ Published' = Published
  BY <1>4 DEF ParsedTo, storeVars, Published, Live
<1>7. Parsed = {o \in Published : o < epos} /\ Parsed' = {o \in Published : o < EntryEnd(epos)}
  BY <1>1, <1>6 DEF Parsed
<1>8. Parsed' = Parsed \cup {epos}
  BY <1>2, <1>5, <1>7, Zenon
<1>9. epos \notin Parsed
  BY <1>1, <1>7
<1>10. QED
  BY <1>2, <1>4, <1>8, <1>9

\* The cache with the entry that parsing took over.
LEMMA ParseKeepsCacheInv ==
  ASSUME LoadsOrdered, CacheInv, ParseEntry, UNCHANGED storeVars, LoadInv'
  PROVE  CacheInv'
<1> DEFINE n == Len(entries)
<1>1. /\ epos \in Published /\ epc' = "parse" /\ epos' = EntryEnd(epos)
      /\ eused' = eused
      /\ entries' = Append(entries, EntryOf(epos))
      /\ Parsed' = Parsed \cup {epos} /\ epos \notin Parsed
  BY ParseAddsEntry
<1>2. IInv /\ Live /\ epc = "parse" /\ epos \in Nat /\ ParsedTo = epos
  BY DEF CacheInv, LoadInv, ReadsLive, ReadPcs, ScrapeTypeOK, ParseEntry, ParsedTo
<1>3. /\ Published' = Published /\ Live' /\ usedHdr' = usedHdr
      /\ \A o : EntryOf(o)' = EntryOf(o)
  BY <1>2 DEF storeVars, Published, Live, EntryOf, Cell
<1>4. ParsedOnBoundary'
  <2>1. OnBoundary(EntryEnd(epos)) /\ OnBoundary(eused)
    BY <1>1, <1>2, EntryFacts DEF CacheInv, ParsedOnBoundary
  <2>2. ParsedTo' = EntryEnd(epos)
    BY <1>1 DEF ParsedTo
  <2>3. QED
    BY <1>1, <1>3, <2>1, <2>2 DEF ParsedOnBoundary, OnBoundary
<1>5. /\ entries \in Seq([metric : AllKeys, value_offset : Nat])
      /\ EntryOf(epos) \in [metric : AllKeys, value_offset : Nat]
  BY <1>1, <1>2, EntryFacts DEF CacheInv, LoadInv, ScrapeTypeOK, EntryOf
<1>6. /\ n \in Nat /\ Len(entries') = n + 1
      /\ \A i \in 1..n : entries'[i] = entries[i]
      /\ entries'[n + 1] = EntryOf(epos)
  BY <1>1, <1>5, AppendProperties, LenProperties
<1>7. /\ n = Cardinality(Parsed)
      /\ {entries[i] : i \in 1..n} = {EntryOf(o) : o \in Parsed}
      /\ \A i, j \in 1..n : i < j => entries[i].value_offset < entries[j].value_offset
  BY DEF CacheInv, CacheHolds
<1>8. \A o \in Parsed : EntryOf(o).value_offset < Cell(epos)
  <2> SUFFICES ASSUME NEW o \in Parsed PROVE Cell(o) < Cell(epos)
    BY DEF EntryOf
  <2>1. o \in Published /\ o < epos
    BY <1>2 DEF Parsed
  <2>2. Cell(o) \in Nat /\ Cell(epos) \in Nat /\ epos < Cell(epos)
        /\ EntryEnd(o) = Cell(o) + 8 /\ EntryEnd(o) <= epos
    BY <1>1, <1>2, <2>1, EntryFacts
  <2>3. QED
    BY <1>2, <2>2
<1>9. Len(entries') = Cardinality(Parsed')
  <2>1. IsFiniteSet(Parsed)
    <3>1. Parsed \in SUBSET (0..epos)
      BY <1>2, EntryFacts DEF Parsed
    <3>2. IsFiniteSet(0..epos)
      BY <1>2, FS_Interval
    <3>3. QED
      BY <3>1, <3>2, FS_Subset
  <2>2. Cardinality(Parsed \cup {epos}) = Cardinality(Parsed) + 1
    BY <1>1, <2>1, FS_AddElement
  <2>3. QED
    BY <1>1, <1>6, <1>7, <2>2
<1> HIDE DEF n
<1>10. {entries'[i] : i \in 1..Len(entries')} = {EntryOf(o) : o \in Parsed} \cup {EntryOf(epos)}
  <2>1. 1..(n + 1) = (1..n) \cup {n + 1}
    BY <1>6
  <2>2. {entries'[i] : i \in 1..(n + 1)} = {entries'[i] : i \in 1..n} \cup {entries'[n + 1]}
    BY <2>1
  <2>3. {entries'[i] : i \in 1..n} = {entries[i] : i \in 1..n}
    BY <1>6
  <2>4. QED
    BY <1>6, <1>7, <2>2, <2>3
<1>11. {EntryOf(o) : o \in Parsed}' = {EntryOf(o) : o \in Parsed} \cup {EntryOf(epos)}
  BY <1>1, <1>3
<1>12. ASSUME NEW i \in 1..(n + 1), NEW j \in 1..(n + 1), i < j
       PROVE  entries'[i].value_offset < entries'[j].value_offset
  <2>1. i \in 1..n /\ (j \in 1..n \/ j = n + 1)
    BY <1>6, <1>12
  <2>2. CASE j \in 1..n
    BY <1>6, <1>7, <1>12, <2>1, <2>2
  <2>3. CASE j = n + 1
    <3>1. PICK o \in Parsed : entries[i] = EntryOf(o)
      BY <1>7, <2>1
    <3>2. entries'[j].value_offset = Cell(epos)
      BY <1>6, <2>3 DEF EntryOf
    <3>3. QED
      BY <1>6, <1>8, <2>1, <3>1, <3>2
  <2>4. QED
    BY <2>1, <2>2, <2>3
<1>13. CacheHolds'
  BY <1>6, <1>9, <1>10, <1>11, <1>12 DEF CacheHolds
<1>14. QED
  BY <1>4, <1>13 DEF CacheInv

\* Every step of a scrape whose loads take effect in order.
LEMMA ScrapeKeepsCacheInv ==
  ASSUME LoadsOrdered, CacheInv, StartScrape \/ ScrapeStep, UNCHANGED storeVars
  PROVE  CacheInv'
<1>1. LoadInv' /\ IInv
  BY ScrapeKeepsLoadInv DEF CacheInv, LoadInv
<1> USE DEF ParsedTo
<1>2. CASE StartScrape
  BY <1>1, <1>2, ScrapeLeavesCache DEF StartScrape
<1>3. CASE OpenFile
  BY <1>1, <1>3, ScrapeClearsCache DEF OpenFile, Forget
<1>4. CASE RefreshMap
  <2>1. epc = "map" /\ epc' \in {"map", "version"}
    BY <1>4 DEF RefreshMap
  <2>2. CASE Forget
    BY <1>1, <2>1, <2>2, ScrapeClearsCache DEF Forget
  <2>3. CASE UNCHANGED <<entries, parsedUsed>>
    BY <1>1, <2>1, <2>3, ScrapeLeavesCache
  <2>4. QED
    BY <1>4, <2>2, <2>3 DEF RefreshMap
<1>5. CASE ReadVersion
  <2>1. epc = "version" /\ epc' \in {"used", "map", "idle"}
    BY <1>5 DEF ReadVersion, AfterEntries
  <2>2. CASE Forget
    BY <1>1, <2>1, <2>2, ScrapeClearsCache DEF Forget
  <2>3. CASE UNCHANGED <<entries, parsedUsed>>
    BY <1>1, <2>1, <2>3, ScrapeLeavesCache
  <2>4. QED
    BY <1>5, <2>2, <2>3 DEF ReadVersion
<1>6. CASE ReadUsed
  <2>1. epc = "used" /\ epc' = "parse" /\ Live /\ eused' = Used /\ epos' = parsedUsed'
    BY <1>6 DEF ReadUsed, CacheInv, LoadInv, ReadsLive
  <2>2. OnBoundary(eused')
    BY <1>1, <2>1, LiveFacts
  <2>3. CASE Forget
    BY <1>1, <2>1, <2>2, <2>3, ScrapeClearsCache DEF Forget
  <2>4. CASE UNCHANGED <<entries, parsedUsed>>
    BY <1>1, <2>1, <2>2, <2>4, ScrapeLeavesCache
  <2>5. QED
    BY <1>6, <2>3, <2>4 DEF ReadUsed
<1>7. CASE UsedError
  BY <1>1, <1>7, ScrapeLeavesCache DEF UsedError, FileError
<1>8. CASE ParseEntry
  BY <1>1, <1>8, ParseKeepsCacheInv
<1>9. CASE ParseDone
  <2>1. /\ epc = "parse" /\ Live /\ parsedUsed' = epos /\ entries' = entries
        /\ epc' \in {"map", "used2", "idle"}
    BY <1>9 DEF ParseDone, AfterEntries, CacheInv, LoadInv, ReadsLive, ReadPcs
  <2>2. QED
    BY <1>1, <2>1, ScrapeLeavesCache
<1>10. CASE ReadUsedAgain
  BY <1>1, <1>10, ScrapeLeavesCache DEF ReadUsedAgain
<1>11. CASE ReadValue
  BY <1>1, <1>11, ScrapeLeavesCache DEF ReadValue
<1>12. CASE FinishScrape
  BY <1>1, <1>12, ScrapeLeavesCache DEF FinishScrape
<1>13. QED
  BY <1>2, <1>3, <1>4, <1>5, <1>6, <1>7, <1>8, <1>9, <1>10, <1>11, <1>12 DEF ScrapeStep

\* Every step preserves it.
LEMMA StepCacheInv == LoadsOrdered /\ CacheInv /\ [ScrapeNext]_scrapeAll => CacheInv'
<1> SUFFICES ASSUME LoadsOrdered, CacheInv, [ScrapeNext]_scrapeAll PROVE CacheInv'
  OBVIOUS
<1>1. \/ [StoreNext]_storeVars /\ UNCHANGED scrapeVars
      \/ (StartScrape \/ ScrapeStep) /\ UNCHANGED storeVars
  BY DEF ScrapeNext, scrapeAll
<1>2. QED
  BY <1>1, StoreKeepsCacheInv, ScrapeKeepsCacheInv

\* What the exporter keeps from scrape to scrape is the file up to where it parsed,
\* while the worker appends, grows and shrinks the file, dies and comes back.
THEOREM CacheCorrect == LoadsOrdered /\ ScrapeSpec => []CacheMatchesFile
<1> SUFFICES ASSUME LoadsOrdered PROVE ScrapeSpec => []CacheMatchesFile
  OBVIOUS
<1>1. CacheInv /\ [ScrapeNext]_scrapeAll => CacheInv'
  BY StepCacheInv
<1>2. CacheInv => CacheMatchesFile
  BY DEF CacheInv, CacheMatchesFile
<1>3. QED
  BY InitCacheInv, <1>1, <1>2, PTL DEF ScrapeSpec

\* What is decoded below `used` are the bytes of published entries, in a reader whose
\* loads take effect in order: the Acquire that the code leaves out is all it lacks.
THEOREM PublishedBytesSeen == LoadsOrdered /\ ScrapeSpec => []ReadersSeePublishedBytes
<1> SUFFICES ASSUME LoadsOrdered PROVE ScrapeSpec => []ReadersSeePublishedBytes
  OBVIOUS
<1>1. CacheInv /\ [ScrapeNext]_scrapeAll => CacheInv'
  BY StepCacheInv
<1>2. CacheInv => ReadersSeePublishedBytes
  <2>1. SUFFICES ASSUME CacheInv, NEW i \in 1..Len(entries)
                 PROVE  \E o \in Published : entries[i] = EntryOf(o)
    BY DEF ReadersSeePublishedBytes
  <2>2. entries[i] \in {EntryOf(o) : o \in Parsed}
    BY <2>1 DEF CacheInv, CacheHolds
  <2>3. Parsed \subseteq Published
    BY DEF Parsed
  <2>4. QED
    BY <2>2, <2>3
<1>3. QED
  BY InitCacheInv, <1>1, <1>2, PTL DEF ScrapeSpec

-----------------------------------------------------------------------------
(* The exporter: when it skips a healthy file *)

\* A step of the worker adds a series, or leaves those there are and `used`; a file that
\* is initialised has none.
LEMMA SeriesGrow ==
  ASSUME IInv, [StoreNext]_storeVars
  PROVE  \/ DOMAIN KvBar' = DOMAIN KvBar /\ Live' = Live /\ (Live => usedHdr' = usedHdr)
         \/ DOMAIN KvBar \subseteq DOMAIN KvBar' /\ DOMAIN KvBar # DOMAIN KvBar'
         \/ DOMAIN KvBar' = DOMAIN KvBar /\ usedHdr' = HEADER_SIZE
<1>1. /\ DOMAIN KvBar = {heads[o] : o \in Published}
      /\ DOMAIN KvBar' = {heads'[o] : o \in Published'}
  BY DEF KvBar
<1>2. \A o \in Published : o \in Published' /\ heads'[o] = heads[o]
  BY StepMovesNothing
<1>3. CASE Published' = Published /\ Live' = Live /\ (Live => usedHdr' = usedHdr)
  <2>1. DOMAIN KvBar' = DOMAIN KvBar
    BY <1>1, <1>2, <1>3
  <2>2. QED
    BY <1>3, <2>1
<1>4. CASE /\ Live /\ Live'
           /\ Published' = Published \cup {usedHdr} /\ usedHdr < usedHdr'
  <2>1. usedHdr \in Published' /\ usedHdr \notin Published
    <3>1. usedHdr \in Nat
      BY DEF IInv, TypeOK
    <3>2. QED
      BY <1>4, <3>1 DEF Published
  <2>2. IInv'
    BY StepIInv
  <2>3. \A o \in Published : heads'[o] # heads'[usedHdr]
    <3>1. \A o \in Published : o \in Published' /\ o < usedHdr
      BY <1>2 DEF Published
    <3>2. \A o, p \in Published' : o < p => heads'[o] # heads'[p]
      BY <1>4, <2>2 DEF IInv, FileWellFormed
    <3>3. QED
      BY <2>1, <3>1, <3>2
  <2>4. heads'[usedHdr] \in DOMAIN KvBar' /\ heads'[usedHdr] \notin DOMAIN KvBar
    BY <1>1, <1>2, <2>1, <2>3
  <2>5. DOMAIN KvBar \subseteq DOMAIN KvBar'
    BY <1>1, <1>2
  <2>6. QED
    BY <2>4, <2>5
<1>5. CASE ~Live /\ Live' /\ Published' = {} /\ usedHdr' = HEADER_SIZE
  <2>1. Published = {}
    BY <1>5 DEF Published
  <2>2. DOMAIN KvBar' = DOMAIN KvBar
    BY <1>1, <1>5, <2>1
  <2>3. QED
    BY <1>5, <2>2
<1>6. QED
  BY <1>3, <1>4, <1>5, FileGrows

\* Before the first scrape.
LEMMA InitSkipInv == ScrapeInit => SkipInv
<1> SUFFICES ASSUME ScrapeInit PROVE SkipInv
  OBVIOUS
<1>1. LoadInv
  BY InitLoadInv
<1>2. DOMAIN before = {} /\ epc = "idle" /\ outcome = "none"
  BY DEF ScrapeInit, Nothing
<1>3. QED
  BY <1>1, <1>2 DEF SkipInv, FitsUnlessGrown, SkippedOnlyIfGrown

\* The worker goes on.
LEMMA StoreKeepsSkipInv ==
  ASSUME SkipInv, [StoreNext]_storeVars, UNCHANGED scrapeVars
  PROVE  SkipInv'
<1>1. IInv /\ LoadInv'
  BY StoreKeepsLoadInv DEF SkipInv, LoadInv
<1>2. before' = before /\ epc' = epc /\ emapLen' = emapLen /\ outcome' = outcome
  BY DEF scrapeVars
<1>3. CASE DOMAIN KvBar' = DOMAIN KvBar /\ Live' = Live /\ (Live => usedHdr' = usedHdr)
  BY <1>1, <1>2, <1>3 DEF SkipInv, FitsUnlessGrown, SkippedOnlyIfGrown
<1>4. CASE DOMAIN KvBar \subseteq DOMAIN KvBar' /\ DOMAIN KvBar # DOMAIN KvBar'
  <2>1. DOMAIN before \subseteq DOMAIN KvBar' /\ DOMAIN before # DOMAIN KvBar'
    BY <1>4 DEF SkipInv, FitsUnlessGrown
  <2>2. QED
    BY <1>1, <1>2, <2>1 DEF SkipInv, FitsUnlessGrown, SkippedOnlyIfGrown
<1>5. CASE DOMAIN KvBar' = DOMAIN KvBar /\ usedHdr' = HEADER_SIZE
  BY <1>1, <1>2, <1>5 DEF SkipInv, FitsUnlessGrown, SkippedOnlyIfGrown
<1>6. QED
  BY <1>1, <1>3, <1>4, <1>5, SeriesGrow

\* Every step of a scrape: it maps a file to the end, where `used` is at that moment.
LEMMA ScrapeKeepsSkipInv ==
  ASSUME SkipInv, StartScrape \/ ScrapeStep, UNCHANGED storeVars
  PROVE  SkipInv'
<1>1. IInv /\ LoadInv' /\ LoadInv
  BY ScrapeKeepsLoadInv DEF SkipInv, LoadInv
<1>2. KvBar' = KvBar /\ Live' = Live /\ usedHdr' = usedHdr /\ fileLen' = fileLen
  BY DEF storeVars, KvBar, Published, Live, ValueAt, Cell
<1>3. Live => usedHdr <= fileLen /\ Used = usedHdr
  BY <1>1, LiveFacts
<1> USE DEF SkipInv, FitsUnlessGrown, SkippedOnlyIfGrown
<1>4. CASE StartScrape
  BY <1>1, <1>2, <1>4 DEF StartScrape
<1>5. CASE OpenFile
  BY <1>1, <1>2, <1>5 DEF OpenFile
<1>6. CASE RefreshMap
  BY <1>1, <1>2, <1>3, <1>6 DEF RefreshMap
<1>7. CASE ReadVersion
  <2>1. /\ before' = before /\ emapLen' = emapLen /\ epc = "version"
        /\ outcome' = "error" => outcome = "error"
        /\ epc' \in {"used", "map", "idle"} /\ (epc' = "used" => HEADER_SIZE <= emapLen)
    BY <1>7 DEF ReadVersion, AfterEntries, HEADER_SIZE
  <2>2. QED
    BY <1>1, <1>2, <2>1
<1>8. CASE ReadUsed
  BY <1>1, <1>2, <1>8 DEF ReadUsed
<1>9. CASE UsedError
  <2>1. epc \in {"used", "used2"} /\ ~(Used <= emapLen) /\ before' = before /\ epc' = "idle"
    BY <1>9 DEF UsedError, UsedFits, FileError
  <2>2. Live
    BY <1>1, <2>1 DEF LoadInv, ReadsLive
  <2>3. DOMAIN before # DOMAIN KvBar
    BY <1>3, <2>1, <2>2
  <2>4. QED
    BY <1>1, <1>2, <2>1, <2>3
<1>10. CASE ParseEntry
  BY <1>1, <1>2, <1>10 DEF ParseEntry
<1>11. CASE ParseDone
  <2>1. /\ before' = before /\ emapLen' = emapLen /\ epc = "parse"
        /\ outcome' = "error" => outcome = "error"
        /\ epc' \in {"map", "used2", "idle"}
    BY <1>11 DEF ParseDone, AfterEntries
  <2>2. QED
    BY <1>1, <1>2, <2>1
<1>12. CASE ReadUsedAgain
  BY <1>1, <1>2, <1>12 DEF ReadUsedAgain
<1>13. CASE ReadValue
  BY <1>1, <1>2, <1>13 DEF ReadValue
<1>14. CASE FinishScrape
  BY <1>1, <1>2, <1>14 DEF FinishScrape
<1>15. QED
  BY <1>4, <1>5, <1>6, <1>7, <1>8, <1>9, <1>10, <1>11, <1>12, <1>13, <1>14 DEF ScrapeStep

\* A file without a fault is left out of a scrape only if a series was added to it while
\* the scrape was under way: the length is taken first and `used` loaded after it, and
\* nothing else can part the two.
THEOREM SkipsAreOfGrowth == ScrapeSpec => []SkippedOnlyIfGrown
<1>1. SkipInv /\ [ScrapeNext]_scrapeAll => SkipInv'
  <2> SUFFICES ASSUME SkipInv, [ScrapeNext]_scrapeAll PROVE SkipInv'
    OBVIOUS
  <2>1. \/ [StoreNext]_storeVars /\ UNCHANGED scrapeVars
        \/ (StartScrape \/ ScrapeStep) /\ UNCHANGED storeVars
    BY DEF ScrapeNext, scrapeAll
  <2>2. QED
    BY <2>1, StoreKeepsSkipInv, ScrapeKeepsSkipInv
<1>2. SkipInv => SkippedOnlyIfGrown
  BY DEF SkipInv
<1>3. QED
  BY InitSkipInv, <1>1, <1>2, PTL DEF ScrapeSpec

-----------------------------------------------------------------------------
(* The exporter: the samples are those of the counters *)

\* Before the first scrape.
LEMMA InitSampleInv == ScrapeInit => SampleInv
<1> SUFFICES ASSUME ScrapeInit PROVE SampleInv
  OBVIOUS
<1>1. Published = {} /\ DOMAIN before = {} /\ DOMAIN shown = {} /\ epc = "idle" /\ outcome = "none"
  BY DEF ScrapeInit, StoreInit, Nothing, Published
<1>2. DOMAIN KvBar = {}
  BY <1>1 DEF KvBar
<1>3. QED
  BY <1>1, <1>2, InitCacheInv DEF SampleInv, BeforeInReach, ShownCurrent, NonNegative, GrownTo

\* The worker goes on: no series that is within reach of the scrape gets out of it,
\* and no counter gets smaller.
LEMMA StoreKeepsSamples ==
  ASSUME CountersOnly, SampleInv, IInv', KvIs, KvIs', [StoreNext]_storeVars,
         UNCHANGED scrapeVars
  PROVE  BeforeInReach' /\ ShownCurrent'
<1> USE DEF SampleInv
<1>1. IInv /\ ScrapeTypeOK
  BY DEF CacheInv, LoadInv
<1>2. GrownTo(KvBar, KvBar') /\ NonNegative'
  BY <1>1, CountersGrow DEF ShownCurrent
<1>3. \A k \in DOMAIN KvBar : KvBar[k] \in Int
  BY <1>1, KvBarType
<1>4. GrownTo(before, KvBar')
  BY <1>1, <1>2, <1>3 DEF ShownCurrent, GrownTo, NonNegative, ScrapeTypeOK
<1>5. \A o \in Published : o \in Published' /\ heads'[o] = heads[o]
  BY <1>1, StepMovesNothing
<1>6. SeriesBelow(eused) \subseteq SeriesBelow(eused)'
      /\ SeriesBelow(parsedUsed) \subseteq SeriesBelow(parsedUsed)'
  BY <1>5 DEF SeriesBelow, scrapeVars
<1>7. BeforeInReach'
  BY <1>6 DEF BeforeInReach, scrapeVars
<1>8. ASSUME NEW k \in DOMAIN shown'
      PROVE  /\ k \in DOMAIN KvBar'
             /\ MM!ValueIn(before', k) <= shown'[k] /\ shown'[k] <= KvBar'[k]
  <2>1. shown' = shown /\ before' = before /\ k \in DOMAIN shown
    BY <1>8 DEF scrapeVars
  <2>2. k \in DOMAIN KvBar /\ MM!ValueIn(before, k) <= shown[k] /\ shown[k] <= KvBar[k]
    BY <2>1 DEF ShownCurrent
  <2>3. k \in DOMAIN KvBar' /\ KvBar[k] <= KvBar'[k] /\ KvBar'[k] \in Int
    BY <1>2, <2>2 DEF GrownTo, NonNegative
  <2>4. shown[k] \in Int /\ KvBar[k] \in Int
    BY <1>1, <1>3, <2>1, <2>2 DEF ScrapeTypeOK
  <2>5. QED
    BY <2>1, <2>2, <2>3, <2>4 DEF MM!ValueIn
<1>9. UNCHANGED <<epc, entries, epos, shown, outcome, before>>
  BY DEF scrapeVars
<1>10. QED
  BY <1>2, <1>4, <1>7, <1>8, <1>9 DEF ShownCurrent, GrownTo

\* Parsing ends where the `used` it read ends, with every series below that.
LEMMA ParseReachesUsed ==
  ASSUME LoadsOrdered, SampleInv, ParseDone
  PROVE  DOMAIN before \subseteq SeriesBelow(epos)
<1> USE DEF SampleInv, CacheInv, LoadInv
<1>1. /\ IInv /\ epc = "parse" /\ Live /\ OnBoundary(epos) /\ OnBoundary(eused)
      /\ epos \in Nat /\ eused \in Nat /\ usedHdr \in Nat /\ eused <= usedHdr
  BY DEF ParseDone, IInv, TypeOK, ScrapeTypeOK, ReadsLive, ReadPcs, ParsedOnBoundary, ParsedTo
<1>2. ~(epos < eused)
  <2> SUFFICES ASSUME epos < eused PROVE FALSE
    OBVIOUS
  <2>1. epos \in Published
    BY <1>1 DEF OnBoundary
  <2>2. /\ Cell(epos) \in Nat /\ EntryEnd(epos) = Cell(epos) + 8
        /\ HeadAt(epos) = heads[epos] /\ heads[epos] \in AllKeys
        /\ OnBoundary(EntryEnd(epos))
        /\ \A p \in Published : p \in Nat /\ (epos < p => EntryEnd(epos) <= p)
    BY <1>1, <2>1, EntryFacts
  <2>3. EntryEnd(epos) <= eused
    <3>1. EntryEnd(epos) <= usedHdr
      BY <1>1, <2>2 DEF OnBoundary, Published
    <3>2. QED
      BY <1>1, <2>2, <3>1 DEF OnBoundary
  <2>4. Cell(epos) >= epos + 12
    BY <1>1, <2>2, KeyFacts DEF Cell
  <2>5. MoreEntries(epos, eused)
    BY <1>1, <2>2, <2>3, <2>4 DEF MoreEntries, LENGTH_FIELDS_SIZE
  <2>6. HeadsSeen(epos) = {heads[epos]}
    BY <2>2 DEF HeadsSeen
  <2>7. EntryEnd(epos) > eused
    BY <2>5, <2>6 DEF ParseDone, EntryEnd
  <2>8. QED
    BY <1>1, <2>2, <2>3, <2>7
<1>3. \A o \in Published : o \in Nat /\ (o < eused => o < epos)
  BY <1>1, <1>2, EntryFacts
<1>4. SeriesBelow(eused) \subseteq SeriesBelow(epos)
  BY <1>3 DEF SeriesBelow
<1>5. QED
  BY <1>1, <1>4 DEF BeforeInReach

\* The next sample is that of a counter that was not read before, with its value now.
LEMMA NextSample ==
  ASSUME SampleInv, KvIs, ReadValue
  PROVE  LET key == entries[epos].metric
         IN /\ key \in DOMAIN KvBar /\ key \notin DOMAIN shown
            /\ shown' = Put(shown, key, KvBar[key])
<1> USE DEF SampleInv, CacheInv, LoadInv
<1> DEFINE key == entries[epos].metric
<1>1. /\ IInv /\ epc = "values" /\ Live /\ epos \in 1..Len(entries)
      /\ parsedUsed \in Nat /\ eused \in Nat /\ parsedUsed <= eused
      /\ OnBoundary(parsedUsed) /\ ParsedTo = parsedUsed /\ usedHdr \in Nat
  <2>1. epc = "values" /\ epos <= Len(entries)
    BY DEF ReadValue
  <2>2. IInv /\ Live /\ ParsedTo = parsedUsed /\ OnBoundary(parsedUsed) /\ parsedUsed <= eused
    BY <2>1 DEF ReadsLive, ReadPcs, ParsedOnBoundary, ParsedTo, BeforeInReach
  <2>3. /\ parsedUsed \in Nat /\ eused \in Nat /\ usedHdr \in Nat /\ epos \in Nat /\ epos >= 1
        /\ Len(entries) \in Nat
    BY <2>1, LenProperties DEF IInv, TypeOK, ScrapeTypeOK, ReadsLive
  <2>4. QED
    BY <2>1, <2>2, <2>3
<1>2. PICK o \in Parsed : entries[epos] = EntryOf(o)
  BY <1>1 DEF CacheHolds
<1>3. o \in Published /\ o < parsedUsed /\ key = heads[o] /\ entries[epos].value_offset = Cell(o)
  BY <1>1, <1>2 DEF Parsed, EntryOf
<1>4. key \in DOMAIN KvBar /\ ValueAt(Cell(o)) = KvBar[key]
  BY <1>3 DEF KvIs
<1>5. ~(entries[epos].value_offset + VALUE_SIZE > eused)
  <2>1. /\ Cell(o) \in Nat /\ EntryEnd(o) = Cell(o) + 8 /\ o \in Nat
        /\ OnBoundary(EntryEnd(o)) /\ \A p \in Published : o < p => EntryEnd(o) <= p
    BY <1>1, <1>3, EntryFacts
  <2>2. EntryEnd(o) <= usedHdr
    BY <1>1, <2>1 DEF OnBoundary, Published
  <2>3. EntryEnd(o) <= parsedUsed
    BY <1>1, <1>3, <2>1, <2>2 DEF OnBoundary
  <2>4. QED
    BY <1>1, <1>3, <2>1, <2>3 DEF VALUE_SIZE
<1>6. key \notin DOMAIN shown
  <2> SUFFICES ASSUME NEW i \in 1..(epos - 1), entries[i].metric = key PROVE FALSE
    BY <1>1 DEF ShownCurrent
  <2>1. i \in 1..Len(entries) /\ i < epos
    BY <1>1 DEF ScrapeTypeOK
  <2>2. PICK p \in Parsed : entries[i] = EntryOf(p)
    BY <2>1 DEF CacheHolds
  <2>3. p \in Published /\ heads[p] = heads[o] /\ entries[i].value_offset = Cell(p)
    BY <1>3, <2>2 DEF Parsed, EntryOf
  <2>4. Cell(p) < Cell(o)
    BY <1>1, <1>3, <2>1, <2>3 DEF CacheHolds
  <2>5. p \in Nat /\ o \in Nat /\ Cell(o) \in Nat
    BY <1>1, <1>3, <2>3, EntryFacts
  <2>6. p = o
    BY <1>1, <1>3, <2>3, <2>5 DEF IInv, FileWellFormed
  <2>7. QED
    BY <2>4, <2>5, <2>6
<1>7. KvBar[key] \in Int
  BY <1>1, <1>4, KvBarType
<1>8. shown' = Put(shown, key, KvBar[key])
  BY <1>3, <1>4, <1>5, <1>6, <1>7 DEF ReadValue
<1>9. QED
  BY <1>4, <1>6, <1>8

\* Every step of a scrape whose loads take effect in order.
LEMMA ScrapeKeepsSamples ==
  ASSUME LoadsOrdered, SampleInv, KvIs, StartScrape \/ ScrapeStep, UNCHANGED storeVars
  PROVE  BeforeInReach' /\ ShownCurrent'
<1> USE DEF SampleInv
<1>1. /\ KvBar' = KvBar /\ Published' = Published /\ heads' = heads /\ NonNegative'
      /\ IInv /\ ScrapeTypeOK
  BY SameKv DEF ShownCurrent, CacheInv, LoadInv
<1>2. \A k \in DOMAIN KvBar : KvBar[k] \in Nat
  BY DEF ShownCurrent, NonNegative
<1>3. DOMAIN before \subseteq {heads[o] : o \in Published}
  BY DEF ShownCurrent, GrownTo, KvIs
<1>4. ~Live => DOMAIN before = {}
  BY <1>3 DEF Published
<1>5. \A o : SeriesBelow(o)' = SeriesBelow(o')
  BY <1>1 DEF SeriesBelow
<1>6. Live => Used = usedHdr /\ HEADER_SIZE <= fileLen /\ DOMAIN before \subseteq SeriesBelow(usedHdr)
  <2>1. ASSUME Live PROVE Used = usedHdr /\ HEADER_SIZE <= fileLen
    BY <1>1, <2>1, LiveFacts DEF IInv, TypeOK, HEADER_SIZE
  <2>2. Published \subseteq {q \in Published : q < usedHdr}
    BY DEF Published
  <2>3. QED
    BY <1>3, <2>1, <2>2 DEF SeriesBelow
<1>7. outcome = "ok" => epc = "idle"
  BY DEF ShownCurrent
<1>8. ASSUME UNCHANGED <<shown, before>>, epc' \notin {"values"}, epc \notin {"idle", "values"},
             outcome' = "ok" => epc' = "idle" /\ DOMAIN before = {}
      PROVE  ShownCurrent'
  BY <1>1, <1>8 DEF ShownCurrent
<1>9. CASE StartScrape
  <2>1. /\ DOMAIN shown' = {} /\ before' = KvBar /\ outcome' = "none" /\ epc' \in {"map", "open"}
    BY <1>9 DEF StartScrape, Nothing
  <2>2. QED
    BY <1>1, <1>2, <2>1 DEF BeforeInReach, ShownCurrent, GrownTo
<1>10. CASE OpenFile
  BY <1>7, <1>8, <1>10 DEF OpenFile, BeforeInReach
<1>11. CASE RefreshMap
  <2>1. emapLen' < HEADER_SIZE => DOMAIN before = {}
    BY <1>1, <1>4, <1>6, <1>11 DEF RefreshMap, IInv, TypeOK, HEADER_SIZE
  <2>2. QED
    BY <1>7, <1>8, <1>11, <2>1 DEF RefreshMap, BeforeInReach
<1>12. CASE ReadVersion
  <2>1. UNCHANGED <<emapLen, shown, before>> /\ epc = "version"
    BY <1>12 DEF ReadVersion
  <2>2. CASE emapLen >= HEADER_SIZE /\ Live
    BY <1>7, <1>8, <1>12, <2>1, <2>2 DEF ReadVersion, BeforeInReach, Live
  <2>3. CASE ~(emapLen >= HEADER_SIZE /\ Live)
    <3>1. DOMAIN before = {}
      BY <1>1, <1>4, <2>1, <2>3 DEF BeforeInReach, ScrapeTypeOK, HEADER_SIZE
    <3>2. AfterEntries(FALSE)
      BY <1>12, <2>3 DEF ReadVersion, Live
    <3>3. epc' \in {"map", "idle"} /\ (outcome' = "ok" => epc' = "idle")
      BY <1>7, <2>1, <3>2 DEF AfterEntries
    <3>4. QED
      BY <1>8, <2>1, <3>1, <3>3 DEF BeforeInReach
  <2>4. QED
    BY <2>2, <2>3
<1>13. CASE ReadUsed
  <2>1. Live /\ epc = "used" /\ epc' = "parse" /\ eused' = usedHdr
        /\ UNCHANGED <<active, shown, before, outcome>>
    BY <1>6, <1>13 DEF ReadUsed, CacheInv, LoadInv, ReadsLive
  <2>2. SeriesBelow(eused)' = SeriesBelow(usedHdr)
    BY <1>5, <2>1
  <2>3. QED
    BY <1>6, <1>7, <1>8, <2>1, <2>2 DEF BeforeInReach
<1>14. CASE UsedError
  BY <1>8, <1>14 DEF UsedError, FileError, BeforeInReach
<1>15. CASE ParseEntry
  <2>1. epc = "parse" /\ UNCHANGED <<epc, active, eused, shown, outcome, before>>
    BY <1>15 DEF ParseEntry
  <2>2. SeriesBelow(eused)' = SeriesBelow(eused)
    BY <1>5, <2>1
  <2>3. QED
    BY <1>7, <1>8, <2>1, <2>2 DEF BeforeInReach
<1>16. CASE ParseDone
  <2>1. /\ epc = "parse" /\ active /\ parsedUsed' = epos /\ AfterEntries(active)
        /\ UNCHANGED <<emapLen, active, shown, before>>
    BY <1>16 DEF ParseDone, BeforeInReach
  <2>2. epc' \in {"map", "used2", "idle"} /\ outcome' # "ok"
    BY <1>7, <2>1 DEF AfterEntries
  <2>3. SeriesBelow(parsedUsed)' = SeriesBelow(epos)
    BY <1>5, <2>1
  <2>4. DOMAIN before \subseteq SeriesBelow(epos)
    BY <1>16, ParseReachesUsed
  <2>5. QED
    BY <1>8, <2>1, <2>2, <2>3, <2>4 DEF BeforeInReach
<1>17. CASE ReadUsedAgain
  <2>1. /\ epc = "used2" /\ Live /\ epc' = "values" /\ eused' = usedHdr /\ epos' = 1
        /\ UNCHANGED <<active, parsedUsed, shown, entries, outcome, before>>
    BY <1>6, <1>17 DEF ReadUsedAgain, CacheInv, LoadInv, ReadsLive
  <2>2. SeriesBelow(parsedUsed)' = SeriesBelow(parsedUsed)
    BY <1>5, <2>1
  <2>3. parsedUsed <= usedHdr
    BY <1>1, <2>1 DEF CacheInv, ParsedOnBoundary, ParsedTo, OnBoundary, Published, IInv, TypeOK
  <2>4. BeforeInReach'
    BY <2>1, <2>2, <2>3 DEF BeforeInReach
  <2>5. DOMAIN shown' = {} /\ {entries[i].metric : i \in 1..(1 - 1)} = {}
    BY <2>1 DEF ShownCurrent
  <2>6. QED
    BY <1>1, <1>7, <2>1, <2>4, <2>5 DEF ShownCurrent
<1>18. CASE ReadValue
  <2> DEFINE key == entries[epos].metric
  <2>1. key \in DOMAIN KvBar /\ key \notin DOMAIN shown /\ shown' = Put(shown, key, KvBar[key])
    BY <1>18, NextSample
  <2>2. /\ epc = "values" /\ epos' = epos + 1 /\ epos \in Nat /\ epos >= 1
        /\ UNCHANGED <<epc, emapLen, active, parsedUsed, entries, eused, outcome, before>>
    BY <1>1, <1>18 DEF ReadValue, CacheInv, LoadInv, ReadsLive, ScrapeTypeOK
  <2> HIDE DEF key
  <2>3. /\ DOMAIN shown' = DOMAIN shown \cup {key} /\ shown'[key] = KvBar[key]
        /\ \A k \in DOMAIN shown : shown'[k] = shown[k]
    BY <2>1 DEF Put
  <2>4. DOMAIN shown' = {entries[i].metric : i \in 1..epos}
    <3>1. 1..epos = (1..(epos - 1)) \cup {epos}
      BY <2>2
    <3>2. {entries[i].metric : i \in 1..epos} = {entries[i].metric : i \in 1..(epos - 1)} \cup {key}
      BY <3>1 DEF key
    <3>3. QED
      BY <2>2, <2>3, <3>2 DEF ShownCurrent
  <2>5. MM!ValueIn(before, key) <= KvBar[key] /\ KvBar[key] <= KvBar[key]
    BY <1>2, <2>1 DEF MM!ValueIn, ShownCurrent, GrownTo
  <2>6. \A k \in DOMAIN shown' : /\ k \in DOMAIN KvBar'
                                 /\ MM!ValueIn(before', k) <= shown'[k] /\ shown'[k] <= KvBar'[k]
    BY <1>1, <2>1, <2>2, <2>3, <2>5 DEF ShownCurrent
  <2>7. SeriesBelow(parsedUsed)' = SeriesBelow(parsedUsed)
    BY <1>5, <2>2
  <2>8. BeforeInReach'
    BY <2>2, <2>7 DEF BeforeInReach
  <2>9. (epos + 1) - 1 = epos
    BY <2>2
  <2>10. QED
    BY <1>1, <1>7, <2>2, <2>4, <2>6, <2>8, <2>9 DEF ShownCurrent
<1>19. CASE FinishScrape
  <2>1. /\ epc = "values" /\ epc' = "idle" /\ epos > Len(entries)
        /\ UNCHANGED <<emapLen, active, parsedUsed, entries, eused, epos, shown, before>>
    BY <1>19 DEF FinishScrape
  <2>2. Len(entries) \in Nat /\ epos \in Nat
    BY <1>1, LenProperties DEF ScrapeTypeOK
  <2>3. {entries[i].metric : i \in 1..Len(entries)} \subseteq DOMAIN shown
    BY <2>1, <2>2 DEF ShownCurrent
  <2>4. SeriesBelow(parsedUsed) \subseteq {entries[i].metric : i \in 1..Len(entries)}
    <3>1. Parsed = {q \in Published : q < parsedUsed}
      BY <2>1 DEF Parsed, ParsedTo
    <3>2. SUFFICES ASSUME NEW o \in Parsed
                   PROVE  heads[o] \in {entries[i].metric : i \in 1..Len(entries)}
      BY <3>1 DEF SeriesBelow
    <3>3. PICK i \in 1..Len(entries) : entries[i] = EntryOf(o)
      BY DEF CacheInv, CacheHolds
    <3>4. heads[o] = entries[i].metric
      BY <3>3 DEF EntryOf
    <3>5. QED
      BY <3>4
  <2>5. DOMAIN before \subseteq DOMAIN shown
    BY <2>1, <2>3, <2>4 DEF BeforeInReach
  <2>6. QED
    BY <1>1, <2>1, <2>5 DEF BeforeInReach, ShownCurrent
<1>20. QED
  BY <1>9, <1>10, <1>11, <1>12, <1>13, <1>14, <1>15, <1>16, <1>17, <1>18, <1>19 DEF ScrapeStep

\* Every step of either process.
LEMMA StepSampleInv ==
  LoadsOrdered /\ CountersOnly /\ SampleInv /\ KvIs /\ KvIs' /\ [ScrapeNext]_scrapeAll
    => SampleInv'
<1> SUFFICES ASSUME LoadsOrdered, CountersOnly, SampleInv, KvIs, KvIs', [ScrapeNext]_scrapeAll
             PROVE  SampleInv'
  OBVIOUS
<1>1. CacheInv' /\ IInv'
  BY StepCacheInv DEF SampleInv, CacheInv, LoadInv
<1>2. \/ [StoreNext]_storeVars /\ UNCHANGED scrapeVars
      \/ (StartScrape \/ ScrapeStep) /\ UNCHANGED storeVars
  BY DEF ScrapeNext, scrapeAll
<1>3. BeforeInReach' /\ ShownCurrent'
  BY <1>1, <1>2, StoreKeepsSamples, ScrapeKeepsSamples
<1>4. QED
  BY <1>1, <1>3 DEF SampleInv

\* Of counters, a scrape that ends without an error shows every series the file had
\* when it began, no other than it has by now, and values between those two, from
\* whatever was cached before: a counter never goes backwards from scrape to scrape.
THEOREM SamplesCurrent ==
  LoadsOrdered /\ CountersOnly /\ ScrapeSpec => []CounterSamplesAreCurrent
<1> SUFFICES ASSUME LoadsOrdered, CountersOnly
             PROVE  ScrapeSpec => []CounterSamplesAreCurrent
  OBVIOUS
<1>1. SampleInv /\ KvIs /\ KvIs' /\ [ScrapeNext]_scrapeAll => SampleInv'
  BY StepSampleInv
<1>2. LoadInv => KvIs
  BY KvFacts DEF LoadInv
<1>3. SampleInv => CounterSamplesAreCurrent
  BY DEF SampleInv, ShownCurrent, CounterSamplesAreCurrent
<1>4. QED
  BY InitSampleInv, LoadInvariance, <1>1, <1>2, <1>3, PTL DEF ScrapeSpec

-----------------------------------------------------------------------------
(* The aggregation: a live file is readable *)

\* A process that has not aggregated yet has copied nothing.
LEMMA InitCopyInv == AggInit => CopyInv
<1> SUFFICES ASSUME AggInit PROVE CopyInv
  OBVIOUS
<1>1. IInv
  BY InitIInv DEF AggInit
<1>2. AggTypeOK
  BY <1>1 DEF AggInit, AggTypeOK, IInv, AggPcs, HEADER_SIZE, Nothing
<1>3. CopyOnBoundary /\ LiveFileIsReadable
  BY DEF AggInit, CopyOnBoundary, LiveFileIsReadable, Readable, FILE_FORMAT_VERSION
<1>4. QED
  BY <1>1, <1>2, <1>3 DEF CopyInv

\* The worker goes on: the offsets of the copy stay on boundaries, within `used`.
LEMMA StoreKeepsCopyInv ==
  ASSUME CopyInv, [StoreNext]_storeVars, UNCHANGED aggVars
  PROVE  CopyInv'
<1> USE DEF CopyInv
<1>1. IInv'
  BY StepIInv
<1>2. AggTypeOK' /\ LiveFileIsReadable'
  BY <1>1 DEF IInv, AggTypeOK, LiveFileIsReadable, aggVars
<1>3. ASSUME Readable
      PROVE  /\ Live' /\ OnBoundary(copyPos)' /\ OnBoundary(hdrUsed)' /\ hdrUsed <= usedHdr'
  <2>1. Live /\ OnBoundary(copyPos) /\ OnBoundary(hdrUsed) /\ hdrUsed <= usedHdr
    BY <1>3 DEF CopyOnBoundary
  <2>2. Live' /\ usedHdr <= usedHdr'
    BY <2>1, UsedNeverFalls
  <2>3. hdrUsed \in Nat /\ usedHdr \in Nat /\ usedHdr' \in Nat
    BY <1>1 DEF AggTypeOK, IInv, TypeOK
  <2>4. copyPos' = copyPos /\ hdrUsed' = hdrUsed
    BY DEF aggVars
  <2>5. OnBoundary(copyPos)' /\ OnBoundary(hdrUsed)'
    BY <2>1, <2>4, BoundaryStays DEF OnBoundary
  <2>6. QED
    BY <2>1, <2>2, <2>3, <2>5
<1>4. CopyOnBoundary'
  BY <1>3 DEF CopyOnBoundary, Readable, aggVars
<1>5. QED
  BY <1>1, <1>2, <1>4

\* Short of the `used` that was copied, the parser is at an entry that ends within it.
LEMMA ParserAtEntry ==
  ASSUME CopyInv, Readable, copyPos # hdrUsed
  PROVE  /\ copyPos \in Published /\ HeadAt(copyPos) = heads[copyPos] /\ heads[copyPos] \in Keys
         /\ EntryEnd(copyPos) \in Nat
         /\ copyPos + TotalLen(HeadAt(copyPos)) = EntryEnd(copyPos)
         /\ copyPos + ValueOffset(HeadAt(copyPos)) = Cell(copyPos)
         /\ OnBoundary(EntryEnd(copyPos)) /\ EntryEnd(copyPos) <= hdrUsed
         /\ MoreEntries(copyPos, hdrUsed)
<1> USE DEF CopyInv
<1>1. /\ IInv /\ OnBoundary(copyPos) /\ OnBoundary(hdrUsed)
      /\ copyPos <= hdrUsed /\ hdrUsed <= usedHdr
      /\ copyPos \in Nat /\ hdrUsed \in Nat /\ usedHdr \in Nat
  BY DEF CopyOnBoundary, AggTypeOK, IInv, TypeOK
<1>2. copyPos \in Published /\ copyPos < hdrUsed
  BY <1>1 DEF OnBoundary
<1>3. /\ Cell(copyPos) \in Nat /\ EntryEnd(copyPos) = Cell(copyPos) + 8
      /\ HeadAt(copyPos) = heads[copyPos] /\ heads[copyPos] \in AllKeys
      /\ OnBoundary(EntryEnd(copyPos))
      /\ \A p \in Published : copyPos < p => EntryEnd(copyPos) <= p
  BY <1>1, <1>2, EntryFacts
<1>4. heads[copyPos] \in Keys
  BY <1>2 DEF IInv, TypeOK, Published
<1>5. EntryEnd(copyPos) <= hdrUsed
  <2>1. EntryEnd(copyPos) <= usedHdr
    BY <1>1, <1>3 DEF OnBoundary, Published
  <2>2. QED
    BY <1>1, <1>2, <1>3, <2>1 DEF OnBoundary
<1>6. Cell(copyPos) >= copyPos + 12
  BY <1>1, <1>3, KeyFacts DEF Cell
<1>7. MoreEntries(copyPos, hdrUsed)
  BY <1>1, <1>3, <1>5, <1>6 DEF MoreEntries, LENGTH_FIELDS_SIZE
<1>8. QED
  BY <1>2, <1>3, <1>4, <1>5, <1>7 DEF EntryEnd, Cell

\* Every step of an aggregation.
LEMMA AggKeepsCopyInv ==
  ASSUME CopyInv, AggStep, UNCHANGED storeVars
  PROVE  CopyInv'
<1> USE DEF CopyInv
<1>1. /\ IInv' /\ TypeOK' /\ (Live' <=> Live) /\ usedHdr' = usedHdr
      /\ \A o : OnBoundary(o)' <=> OnBoundary(o)
  BY StutterKeepsIInv DEF IInv, storeVars, Live, OnBoundary, Published
<1>2. Live => Used = usedHdr /\ usedHdr \in Nat /\ usedHdr <= fileLen /\ HEADER_SIZE <= usedHdr
              /\ OnBoundary(HEADER_SIZE) /\ OnBoundary(usedHdr)
  BY LiveFacts
<1>3. CASE StartAggregate
  <2>1. AggTypeOK'
    BY <1>1, <1>3, KvBarType DEF StartAggregate, AggTypeOK, AggPcs, HEADER_SIZE, Nothing
  <2>2. CopyOnBoundary' /\ LiveFileIsReadable'
    BY <1>3 DEF StartAggregate, CopyOnBoundary, LiveFileIsReadable, Readable, FILE_FORMAT_VERSION
  <2>3. QED
    BY <1>1, <2>1, <2>2
<1>4. CASE CopyHeader
  <2>1. Used \in Nat
    BY DEF Used, IInv, TypeOK, HEADER_SIZE
  <2>2. AggTypeOK'
    BY <1>1, <1>4, <2>1 DEF CopyHeader, AggTypeOK, AggPcs, IInv, TypeOK
  <2>3. ~Readable /\ copyPos = HEADER_SIZE
    BY <1>4 DEF CopyHeader, CopyOnBoundary, Readable, FILE_FORMAT_VERSION
  <2>4. CASE Readable'
    <3>1. Live /\ hdrUsed' = usedHdr
      BY <1>2, <1>4, <2>3, <2>4 DEF CopyHeader, Readable, Live
    <3>2. CopyOnBoundary'
      BY <1>1, <1>2, <1>4, <2>3, <2>4, <3>1
         DEF CopyHeader, CopyOnBoundary, OnBoundary
    <3>3. QED
      BY <1>1, <1>4, <2>2, <3>2 DEF CopyHeader, LiveFileIsReadable
  <2>5. CASE ~Readable'
    BY <1>1, <1>4, <2>2, <2>3, <2>5 DEF CopyHeader, CopyOnBoundary, LiveFileIsReadable
  <2>6. QED
    BY <2>4, <2>5
<1>5. CASE CopyEntry
  <2>1. Readable /\ copyPos # hdrUsed /\ apc = "entries"
    BY <1>5 DEF CopyEntry, Readable, MoreEntries, LENGTH_FIELDS_SIZE, AggTypeOK
  <2>2. /\ HeadAt(copyPos) \in Keys /\ copyPos' = EntryEnd(copyPos) /\ EntryEnd(copyPos) \in Nat
        /\ OnBoundary(EntryEnd(copyPos)) /\ EntryEnd(copyPos) <= hdrUsed
    BY <1>5, <2>1, ParserAtEntry DEF CopyEntry
  <2>3. \A off : ValueAt(off) \in Int
    BY DEF IInv, TypeOK, ValueAt
  <2>4. DOMAIN copied' \subseteq Keys /\ copied' \in [DOMAIN copied' -> Int]
    BY <1>5, <2>2, <2>3 DEF CopyEntry, Put, AggTypeOK
  <2>5. AggTypeOK'
    BY <1>1, <1>5, <2>2, <2>4 DEF CopyEntry, AggTypeOK
  <2>6. CopyOnBoundary'
    BY <1>1, <1>5, <2>1, <2>2 DEF CopyEntry, CopyOnBoundary, Readable, OnBoundary
  <2>7. QED
    BY <1>1, <1>5, <2>5, <2>6 DEF CopyEntry, LiveFileIsReadable
<1>6. CASE CopyRest
  <2>1. Readable => copyPos = hdrUsed
    <3>1. SUFFICES ASSUME Readable, copyPos # hdrUsed PROVE FALSE
      OBVIOUS
    <3>2. /\ MoreEntries(copyPos, hdrUsed)
          /\ copyPos + TotalLen(HeadAt(copyPos)) = EntryEnd(copyPos)
          /\ EntryEnd(copyPos) <= hdrUsed /\ EntryEnd(copyPos) \in Nat /\ hdrUsed \in Nat
      BY <3>1, ParserAtEntry DEF AggTypeOK
    <3>3. QED
      BY <1>6, <3>1, <3>2 DEF CopyRest, Readable
  <2>2. AggTypeOK'
    BY <1>1, <1>6 DEF CopyRest, AggTypeOK, AggPcs
  <2>3. QED
    BY <1>1, <1>6, <2>1, <2>2
       DEF CopyRest, CopyOnBoundary, Readable, OnBoundary, LiveFileIsReadable
<1>7. CASE EndOfFile
  <2>1. Readable => ~(hdrUsed > fileLen) /\ copyPos = hdrUsed
    <3>1. SUFFICES ASSUME Readable PROVE ~(hdrUsed > fileLen) /\ copyPos = hdrUsed
      OBVIOUS
    <3>2. Live /\ hdrUsed <= usedHdr /\ copyPos = hdrUsed
      BY <1>7, <3>1 DEF EndOfFile, CopyOnBoundary
    <3>3. hdrUsed \in Nat /\ fileLen \in Nat
      BY DEF AggTypeOK, IInv, TypeOK
    <3>4. QED
      BY <1>2, <3>2, <3>3
  <2>2. apc' = "idle" /\ result' = "ok"
        /\ UNCHANGED <<copied, copyPos, hdrUsed, hdrVersion, atBegin>>
    BY <1>7, <2>1 DEF EndOfFile, Readable
  <2>3. AggTypeOK'
    BY <1>1, <2>2 DEF AggTypeOK, AggPcs
  <2>4. CopyOnBoundary'
    BY <1>1, <1>7, <2>1, <2>2 DEF EndOfFile, CopyOnBoundary, Readable, OnBoundary
  <2>5. QED
    BY <1>1, <2>2, <2>3, <2>4 DEF LiveFileIsReadable
<1>8. QED
  BY <1>3, <1>4, <1>5, <1>6, <1>7 DEF AggStep

\* Every step of either process.
LEMMA StepCopyInv == CopyInv /\ [AggNext]_aggAll => CopyInv'
<1> SUFFICES ASSUME CopyInv, [AggNext]_aggAll PROVE CopyInv'
  OBVIOUS
<1>1. \/ [StoreNext]_storeVars /\ UNCHANGED aggVars
      \/ AggStep /\ UNCHANGED storeVars
  BY DEF AggNext, aggAll
<1>2. QED
  BY <1>1, StoreKeepsCopyInv, AggKeepsCopyInv

\* What the parser of a copy relies on, while the worker writes the file that is
\* copied.
THEOREM CopyInvariance == AggSpec => []CopyInv
BY InitCopyInv, StepCopyInv, PTL DEF AggSpec

\* Type correctness of an aggregation, next to a worker at work.
THEOREM AggTypeCorrect == AggSpec => []AggTypeOK
BY CopyInvariance, PTL DEF CopyInv

\* Whatever the worker does to its file while it is copied, the copy is never refused.
THEOREM AlwaysReadable == AggSpec => []LiveFileIsReadable
BY CopyInvariance, PTL DEF CopyInv

-----------------------------------------------------------------------------
(* The aggregation: what is shown was true of the counters *)

\* Nothing is copied of a file without entries.
LEMMA InitCopyCurrent == AggInit => CopyCurrent
<1> SUFFICES ASSUME AggInit PROVE CopyCurrent
  OBVIOUS
<1>1. Published = {} /\ DOMAIN atBegin = {} /\ DOMAIN copied = {}
  BY DEF AggInit, StoreInit, Nothing, Published
<1>2. DOMAIN KvBar = {}
  BY <1>1 DEF KvBar
<1>3. QED
  BY <1>1, <1>2 DEF CopyCurrent, NonNegative, GrownTo, Copied

\* The worker goes on: no counter that was copied, or was there at the begin, gets
\* smaller, and new entries lie behind the copied `used`.
LEMMA StoreKeepsCopyCurrent ==
  ASSUME CountersOnly, AggInv, IInv', KvIs, KvIs', [StoreNext]_storeVars, UNCHANGED aggVars
  PROVE  CopyCurrent'
<1> USE DEF AggInv, CopyInv
<1>1. GrownTo(KvBar, KvBar') /\ NonNegative'
  BY CountersGrow DEF CopyCurrent
<1>2. \A k \in DOMAIN KvBar : KvBar[k] \in Int
  BY KvBarType
<1>3. GrownTo(atBegin, KvBar')
  BY <1>1, <1>2 DEF CopyCurrent, GrownTo, NonNegative, AggTypeOK
<1>4. \A o \in Published : o \in Published' /\ heads'[o] = heads[o]
  BY StepMovesNothing
<1>5. Copied' = Copied
  <2>1. Live => copyPos <= usedHdr
    BY LiveFacts DEF CopyOnBoundary, AggTypeOK, IInv, TypeOK
  <2>2. copyPos' = copyPos /\ copyPos \in Nat /\ (~Live => Published = {})
    BY DEF aggVars, AggTypeOK, Published
  <2>3. CASE Published' = Published
    BY <2>2, <2>3 DEF Copied
  <2>4. CASE Live /\ Published' = Published \cup {usedHdr}
    BY <2>1, <2>2, <2>4 DEF Copied, IInv, TypeOK
  <2>5. CASE ~Live /\ Published' = {}
    BY <2>2, <2>5 DEF Copied
  <2>6. QED
    BY <2>3, <2>4, <2>5, FileGrows
<1>6. DOMAIN copied' = {heads'[o] : o \in Copied'}
  BY <1>4, <1>5 DEF CopyCurrent, Copied, aggVars
<1>7. ASSUME NEW k \in DOMAIN copied'
      PROVE  /\ k \in DOMAIN KvBar'
             /\ MM!ValueIn(atBegin', k) <= copied'[k] /\ copied'[k] <= KvBar'[k]
  <2>1. /\ copied' = copied /\ atBegin' = atBegin /\ k \in DOMAIN copied
    BY <1>7 DEF aggVars
  <2>2. k \in DOMAIN KvBar /\ MM!ValueIn(atBegin, k) <= copied[k] /\ copied[k] <= KvBar[k]
    BY <2>1 DEF CopyCurrent
  <2>3. k \in DOMAIN KvBar' /\ KvBar[k] <= KvBar'[k] /\ KvBar'[k] \in Int
    BY <1>1, <2>2 DEF GrownTo, NonNegative
  <2>4. copied[k] \in Int /\ KvBar[k] \in Int
    BY <1>2, <2>1, <2>2 DEF AggTypeOK
  <2>5. QED
    BY <2>1, <2>2, <2>3, <2>4 DEF MM!ValueIn
<1>8. InCopy \subseteq InCopy'
  BY <1>4 DEF InCopy, aggVars
<1>9. QED
  BY <1>1, <1>3, <1>6, <1>7, <1>8 DEF CopyCurrent, Readable, aggVars, GrownTo

\* Every step of an aggregation.
LEMMA AggKeepsCopyCurrent ==
  ASSUME AggInv, CopyInv', KvIs, AggStep, UNCHANGED storeVars
  PROVE  CopyCurrent'
<1> USE DEF AggInv, CopyInv
<1>1. KvBar' = KvBar /\ Published' = Published /\ heads' = heads /\ NonNegative'
  BY SameKv DEF CopyCurrent
<1>2. \A k \in DOMAIN KvBar : KvBar[k] \in Nat
  BY DEF CopyCurrent, NonNegative
<1>3. CASE StartAggregate
  <2>1. /\ DOMAIN copied' = {} /\ copyPos' = HEADER_SIZE /\ atBegin' = KvBar /\ apc' = "header"
    BY <1>3 DEF StartAggregate, Nothing
  <2>2. Copied' = {}
    <3>1. CASE Live
      BY <1>1, <2>1, <3>1, LiveFacts DEF Copied
    <3>2. CASE ~Live
      BY <1>1, <3>2 DEF Copied, Published
    <3>3. QED
      BY <3>1, <3>2
  <2>3. QED
    BY <1>1, <1>2, <2>1, <2>2 DEF CopyCurrent, GrownTo
<1>4. CASE CopyHeader
  <2>1. /\ copied' = copied /\ copyPos' = copyPos /\ atBegin' = atBegin /\ apc' = "entries"
    BY <1>4 DEF CopyHeader
  <2>2. Copied' = Copied
    BY <1>1, <2>1 DEF Copied
  <2>3. DOMAIN atBegin \subseteq {heads[o] : o \in Published}
    BY DEF CopyCurrent, GrownTo, KvIs
  <2>4. CASE Readable'
    <3>1. Live /\ hdrUsed' = usedHdr
      BY <1>4, <2>4, LiveFacts DEF CopyHeader, CopyOnBoundary, Readable, Live, FILE_FORMAT_VERSION
    <3>2. Published = {p \in Published : p < hdrUsed'}
      BY <3>1 DEF Published
    <3>3. InCopy' = {heads[o] : o \in Published}
      BY <1>1, <3>2 DEF InCopy
    <3>4. QED
      BY <1>1, <2>1, <2>2, <2>3, <2>4, <3>3 DEF CopyCurrent
  <2>5. CASE ~Readable'
    <3>1. ~Live
      <4>1. SUFFICES ASSUME Live PROVE Readable'
        BY <2>5
      <4>2. fileLen \in Nat /\ HEADER_SIZE <= fileLen
        BY <4>1, LiveFacts DEF IInv, TypeOK, HEADER_SIZE
      <4>3. ~(fileLen < HEADER_SIZE)
        BY <4>2 DEF HEADER_SIZE
      <4>4. QED
        BY <1>4, <4>1, <4>3 DEF CopyHeader, Readable, Live
    <3>2. DOMAIN atBegin = {}
      BY <2>3, <3>1 DEF Published
    <3>3. QED
      BY <1>1, <2>1, <2>2, <2>5, <3>2 DEF CopyCurrent
  <2>6. QED
    BY <2>4, <2>5
<1>5. CASE CopyEntry
  <2> DEFINE key == heads[copyPos]
  <2>1. Readable /\ copyPos # hdrUsed /\ apc = "entries"
    BY <1>5 DEF CopyEntry, Readable, MoreEntries, LENGTH_FIELDS_SIZE, AggTypeOK
  <2>2. /\ copyPos \in Published /\ HeadAt(copyPos) = key /\ copyPos' = EntryEnd(copyPos)
        /\ copyPos + ValueOffset(key) = Cell(copyPos)
    BY <1>5, <2>1, ParserAtEntry DEF CopyEntry
  <2>3. /\ copyPos \in Nat /\ EntryEnd(copyPos) \in Nat /\ copyPos < EntryEnd(copyPos)
        /\ \A p \in Published : p \in Nat /\ (copyPos < p => EntryEnd(copyPos) <= p)
    BY <2>2, EntryFacts
  <2>4. Copied' = Copied \cup {copyPos}
    <3>1. \A o \in Published : o < EntryEnd(copyPos) <=> o < copyPos \/ o = copyPos
      BY <2>3
    <3>2. Copied' = {o \in Published : o < EntryEnd(copyPos)}
      BY <1>1, <2>2 DEF Copied
    <3>3. QED
      BY <2>2, <3>1, <3>2, Zenon DEF Copied
  <2>5. key \notin DOMAIN copied
    <3>1. \A o \in Copied : heads[o] # key
      BY <2>2, EntryFacts DEF Copied, IInv, FileWellFormed
    <3>2. QED
      BY <3>1 DEF CopyCurrent
  <2>6. key \in DOMAIN KvBar /\ ValueAt(Cell(copyPos)) = KvBar[key]
    BY <2>2 DEF KvIs
  <2>7. copied' = Put(copied, key, KvBar[key])
    BY <1>2, <1>5, <2>2, <2>5, <2>6 DEF CopyEntry
  <2> HIDE DEF key
  <2>8. /\ DOMAIN copied' = DOMAIN copied \cup {key} /\ copied'[key] = KvBar[key]
        /\ \A k \in DOMAIN copied : copied'[k] = copied[k]
    BY <2>5, <2>7 DEF Put
  <2>9. DOMAIN copied' = {heads'[o] : o \in Copied'}
    BY <1>1, <2>4, <2>8 DEF CopyCurrent, key
  <2>10. MM!ValueIn(atBegin, key) <= KvBar[key] /\ KvBar[key] <= KvBar[key]
    BY <1>2, <2>6 DEF MM!ValueIn, CopyCurrent, GrownTo
  <2>11. UNCHANGED <<apc, hdrUsed, hdrVersion, atBegin>>
    BY <1>5 DEF CopyEntry
  <2>12. \A k \in DOMAIN copied' : /\ k \in DOMAIN KvBar'
                                   /\ MM!ValueIn(atBegin', k) <= copied'[k]
                                   /\ copied'[k] <= KvBar'[k]
    BY <1>1, <2>6, <2>8, <2>10, <2>11 DEF CopyCurrent
  <2>13. InCopy' = InCopy
    BY <1>1, <2>11 DEF InCopy
  <2>14. QED
    BY <1>1, <2>9, <2>11, <2>12, <2>13 DEF CopyCurrent, Readable
<1>6. CASE CopyRest \/ EndOfFile
  <2>1. /\ UNCHANGED <<copied, copyPos, hdrUsed, hdrVersion, atBegin>>
        /\ apc # "header" /\ apc' # "header"
    BY <1>6 DEF CopyRest, EndOfFile
  <2>2. Copied' = Copied /\ InCopy' = InCopy
    BY <1>1, <2>1 DEF Copied, InCopy
  <2>3. QED
    BY <1>1, <2>1, <2>2 DEF CopyCurrent, Readable
<1>7. QED
  BY <1>3, <1>4, <1>5, <1>6 DEF AggStep

\* Every step of either process.
LEMMA StepAggInv ==
  CountersOnly /\ AggInv /\ KvIs /\ KvIs' /\ [AggNext]_aggAll => AggInv'
<1> SUFFICES ASSUME CountersOnly, AggInv, KvIs, KvIs', [AggNext]_aggAll PROVE AggInv'
  OBVIOUS
<1>1. CopyInv' /\ IInv'
  BY StepCopyInv DEF AggInv, CopyInv
<1>2. \/ [StoreNext]_storeVars /\ UNCHANGED aggVars
      \/ AggStep /\ UNCHANGED storeVars
  BY DEF AggNext, aggAll
<1>3. CopyCurrent'
  BY <1>1, <1>2, StoreKeepsCopyCurrent, AggKeepsCopyCurrent
<1>4. QED
  BY <1>1, <1>3 DEF AggInv

\* Of counters, an aggregation shows what was true at some moment while it ran: every
\* series there was when it began, no other than there are at its end, and values
\* between those two.
THEOREM AggregateCurrent == CountersOnly /\ AggSpec => []AggregateIsCurrent
<1> SUFFICES ASSUME CountersOnly PROVE AggSpec => []AggregateIsCurrent
  OBVIOUS
<1>1. AggInit => AggInv
  BY InitCopyInv, InitCopyCurrent DEF AggInv
<1>2. AggInv /\ KvIs /\ KvIs' /\ [AggNext]_aggAll => AggInv'
  BY StepAggInv
<1>3. CopyInv => KvIs
  BY KvFacts DEF CopyInv
<1>4. AggInv => AggregateIsCurrent
  <2> SUFFICES ASSUME AggInv, result = "ok"
               PROVE  /\ DOMAIN atBegin \subseteq DOMAIN copied
                      /\ DOMAIN copied \subseteq DOMAIN KvBar
                      /\ \A k \in DOMAIN copied :
                           MM!ValueIn(atBegin, k) <= copied[k] /\ copied[k] <= KvBar[k]
    BY DEF AggregateIsCurrent
  <2>1. apc # "header" /\ (Readable => copyPos = hdrUsed)
    BY DEF AggInv, CopyInv, CopyOnBoundary
  <2>2. DOMAIN atBegin \subseteq DOMAIN copied
    BY <2>1 DEF AggInv, CopyCurrent, InCopy, Copied
  <2>3. QED
    BY <2>2 DEF AggInv, CopyCurrent
<1>5. QED
  BY CopyInvariance, <1>1, <1>2, <1>3, <1>4, PTL DEF AggSpec

===============================================================================
