# A TLA+ verification of prometheus-client-php-mmap

The program keeps Prometheus metrics of PHP workers in memory-mapped files: one
worker writes each file, and other processes read, merge and delete the files
with no lock shared with their writer. What is hard about it is that a file is
read, copied, grown, re-opened and unlinked by different processes at any
moment, and that the writer may die between any two stores. These modules model
that, at the grain of one store, load or system call.

Paths below are relative to the repository (`src/` is its Rust code).

## The system

| Component | State | Operations | Hard behaviour | What makes it correct |
|---|---|---|---|---|
| Entry layout, `src/raw_entry.rs` | none | lengths, padding, encode, decode | limits, alignment | values aligned to 8, lengths consistent between writer and readers |
| Metric store, `src/mmap_file.rs` | the file (`used`, version, entries); mapping, `positions` | open, rebuild_index, get, increment, set, flush | death at any store, growth that fails half way, restart on what is left | the file stays well formed and can be opened; index = file; a crash-safe map |
| Cached exporter, `src/exporter.rs` | per file: mapping, inode, `parsed_used`, `entries`, `active` | render: discover, refresh, parse, read, merge, print | a cache kept while the file grows, shrinks, is initialised or replaced | cache = prefix of the file; complete, current, monotone samples; errors heal |
| One-shot aggregation, `src/aggregate.rs` | none between calls | discover, copy, parse, merge, print | a copy that is no snapshot | never fails on a live file; samples are current |
| Collector, `src/gc.rs` | `.gc.lock`, `.gc.cursor` | gc_metric_files | several sweepers, deaths, reuse of pids, limits | one sweep at a time; only files of dead workers; all of them in the end |
| Merge and rendering, `aggregate.rs`, `exporter.rs` | none | merge_meta, row order, text | order of merging | the same result for every order |
| Directory, `aggregate.rs`, `exporter.rs`, `gc.rs` | file names, inodes | discover, refresh, copy, unlink | files that come, go and come back under a scrape | steady files shown; errors explained; counters fall only by a file collected or left out as it grew; dead gauges disappear |
| File names, three parsers | none | parse_file_params, extract_numeric_pid, the library's names | one suffix stripped in two ways | the parsers agree on whose file it is |
| Labels, `src/metric_key.rs` | none | encode_labels, append_sample | escaping | one text per series, one series per text |
| Store cache, `src/php_ext.rs` | path -> store | with_cached_store | two spellings of one path | no increment lost; a map lags only behind a sibling |
| PHP library, `examples/lib.php` | none | Counter, Gauge, Histogram | get-then-set, several calls per observation, exceptions between them | increments add up; observations bracketed by a scrape |
| HTTP exporter, `src/bin/` | a mutex around the exporter | /metrics, /healthz | - | scrapes follow one another |

Interactions: a worker and the readers share only the bytes of the file, through
`MAP_SHARED` mappings or `read`, and its length, through `fstat`. The collector
shares the directory with all of them. Workers share `.gc.lock` (an `flock`,
dropped by the kernel with the process) and `.gc.cursor`.

## The modules

- `EntryLayout`: the arithmetic of an entry, over the lengths of its fields.
- `MetricMap`: the abstract specification. A store is a map from series to
  values; a call takes effect at one instant, or fails without effect, or is cut
  short by the death of its worker before or after the effect.
- `MmapStore`: the file and its worker. State of the file: `fileLen`,
  `usedHdr`, `version`, and its bytes as `heads` (offset -> the entry whose
  length fields and text start there) and `vals` (offset -> f64). State of the
  worker: `mapLen`, `positions`, the locals of the operation under way. `Open` is
  `with_file` up to the branch on the version; `InitFill`, `InitUsed`,
  `InitVersion` are `initialize_empty_file`; `RebuildEntry` and `RebuildDone` the
  loop of `rebuild_index`; `UpdateExisting` the first half of `upsert`;
  `HasRoom`/`Grow`/`GrowError`, `Remap`/`RemapError` are `ensure_capacity`, its loop of
  doublings in one step (`Grown`; `NewLen` of `Extension` says where that loop ends);
  `SaveKey`, `SaveValue` are `RawEntry::save`; `Publish` the store of `used`;
  `Return` `positions.insert` and the return; `Get` is `get`; `Crash` can happen
  at every step.
- `CachedScrape` (extends `MmapStore`): `CachedDirExporter::render` on that file.
  `RefreshMap` is `refresh_map_if_needed`, called up to twice per scrape
  (`stage` says from where), then one step per load: version, `used`, each entry,
  `used` again, each value.
- `OneShotScrape` (extends `MmapStore`): the copy of the file by `read_to_end`,
  low offsets first, and the parser's verdict on the copy.
- `MergeFiles`: a whole scrape at the grain of files: discovery, the faults of single
  files, `merge_meta`, the sorted rows with their `TYPE` lines, in the path order of
  the aggregation or in any order, as the exporter's `HashMap` gives. Every
  combination of three files is an initial state; the result is compared with a
  reference that sums, or takes the least or greatest, over sets.
- `Gc`: workers, their files and `gc_metric_files`, one step per system call. The write
  of the cursor may fail, or be cut short by the death of the worker, and leave the old
  cursor or an empty one (`WriteCursorFails`, `ExitWorker`).
- `Collector`: the abstract collector. One file at a time is found to belong to a
  dead worker, then unlinked or left alone; no lock, cursor or limits. `Gc`
  implements it with `Found`, the file that some sweep is about to remove.
- `Directory` (extends `Collector`, `FileNames`): a directory with its workers, the
  collector, and one reader: the exporter with its `HashMap` of files, or calls of the
  aggregation (`CopyFile`, `CopyFails`). A name may be unlinked and made anew at any
  moment, so the exporter may hold the map of an inode without a name. A file has a
  `value`, that of its first series, and a `size`, the number of its series, which any
  series added later raises (`AddSeries`). The exporter keeps a cached file of the same
  identity (`RefreshFile`), opens any other (`OpenFile`), or finds none
  (`RefreshFails`); forgets what was not listed (`RetainSeen`); then comes to its files
  in any order (`VisitFile`). Both when it opens a file and when it comes to one, it
  takes the length in one step and loads `used` in the next: there it goes on
  (`OpenDone`, `LoadFile`), or leaves out a file that grew in between (`OpenFails`,
  `LoadFails`), whether or not the file had its series before.
- `FileNames`: `parse_file_params` (the same code in the two readers),
  `extract_numeric_pid`, and the names that `examples/lib.php` makes.
- `Labels`: `encode_labels` and the pid label of `append_sample`, character by
  character, for what they do is the point; and a reader of the exposition format.
- `TextForms`: builds names and lists of labels step by step for TLC and states what
  must hold of each.
- `Extension`: one file, the stores that a process caches for the spellings of its
  path, threads whose requests are several calls of a store each (`CallsOf` gives
  those of `Counter::inc`, `Gauge::inc`, `Histogram::observe`), exceptions and
  deaths between them, and a scrape that reads entry after entry.
- `Sums`: the sum of a function over a finite set, for `MergeFiles` and `Extension`.
- `MmapStoreProofs`, `ScrapeProofs` (of `CachedScrape` and `OneShotScrape`),
  `GcProofs`, `DirectoryProofs`, `MergeFilesProofs`, `ExtensionProofs`,
  `TextFormsProofs`: theorems about these modules. `SumsProofs`: induction by a
  smallest counterexample, and sums.
- `MC*`: instances for TLC. An operator whose comment calls it a mutant is a
  plausible slip in the definition that follows it; replacing one by the other
  breaks the property that `PROJECT.json` pairs it with. Nothing uses it otherwise.

## Abstractions

- Text is its length; a key is a model value with three lengths. `heads` keeps
  entries only at the offsets where they were written. All scans start at 8 and
  move by `total_len`, and `FileWellFormed` and `CacheMatchesFile` say that they
  stay on such offsets; an offset in fresh space decodes as twelve zero bytes do,
  to `EmptyKey`.
- An f64 is an integer. Rounding, NaN and infinities are left out.
- Stores and loads of 4 bytes (`used`, version) and of an aligned value are
  atomic: 64-bit targets, as `README.md` of the repository restricts itself to.
- `fill(0)` is one step: until its end the version is not 2, and every party
  treats such a file alike.
- `file.metadata()` and the `mmap` after it are one step. `mmap` does not look at
  the length of the file, so a change in between is like one right after.
- The page cache is the file. `flush()` therefore changes nothing, and a power
  loss is not modelled.
- In `MmapStore` and the scrapes, loads and stores take effect in program order,
  as on x86-64. `CachedScrape` with `LoadsOrdered = FALSE` drops this for the
  loads of entries by the exporter.
- Samples of one key add up, as for counters, in the scrapes of one file;
  `MergeFiles` has all metric types and modes.
- The directory listing of the collector is one step.
- An inode is what a worker or a reader has open for a name: it is linked to that
  name or not. An inode that is open is not given to another file. What an unlinked
  one holds may change in any way, so its values are read as any number.
- In `Directory` the value of one series of a file is followed and the others are
  counted; what happens within a file is in the modules above. The steps of
  `MmapMetricStore::open` and of a write are `OpenStore`, `WriteStore` and `AddSeries`.
  A file that grew since its length was taken may be left out and need not be: the new
  entry may still fit the pages that there were. The values of a file are loaded in one
  step (`CachedScrape` has one step for each).
- In `Extension` a call of a store is one step: the mutex of the store cache is held
  for all of it, and only one process writes the file. A death inside a call is in
  `MmapStore`.
- A counter or gauge in `Extension` has one series for each amount, so that two
  series of a file are written in turn. The sign of an amount is left out.
- A part of a file name is a word and the numbers after it. A word is a model value or
  a numeral with its value; how digits are put together is left out.

## The runs

| Run | Question | Bounds | Result |
|---|---|---|---|
| `store` | Does the file stay well formed, indexed and a metric map through deaths, growth and failure? Does every open and call end? | 4 keys of 24, 32, 40 bytes and one too long; pages of 32 bytes, `MaxU32` 100, values to 2, three files to start from | 27,401 states, holds |
| `cached_scrape` | Is the exporter's cache right, what it shows current, and is every series shown in the end? | 2 keys of 24 and 40 bytes, pages of 16, values to 2, two files to start from | 156,977 states, holds |
| `cached_scrape_skip` | Is a healthy file never an error? | the same | violated |
| `cached_scrape_weak` | Are entries below `used` seen complete with unordered loads? | the same | violated |
| `one_shot_scrape` | Is a copy of a live file readable and current? | 3 keys | 240,253 states, holds |
| `merge` | Is the merge independent of the order, grouped, and complete up to reported faults? | 3 paths of 9 kinds each (6 kinds of metric files, another version, two faults), 3 metrics in 2 families | 1,623,812 states, holds |
| `gc` | One sweep at a time, only files of the dead, all of them in the end? Does it implement `Collector`? | 2 workers, 4 files, scan limit 2, delete limit 2 | 20,470 states, holds |
| `gc_reuse` | Only files of the dead also when pids come back? | 3 files | violated |
| `gc_cursor` | Does a sweep go on where the last one stopped? | 4 files | violated |
| `directory` | Do both readers show the files that stay, explain the ones they leave out, and agree with who is alive in the end? | a counter file and a livesum file of two workers, pids that come back, values to 1, the counter file with up to 2 series | 831,771 states, holds |
| `text` | Do the parsers agree, and do labels read back? | names of up to 4 parts of 6 words with 3 endings; up to 3 labels with 8 values | 116,038 states, holds |
| `client` | Do increments add up, and what does a scrape see of an observation half made? | 2 threads, 2 spellings, 3 requests of 2 amounts, one finite bucket; `MaxU32` 160 | 323,936 states (up to symmetry), holds |

Why these bounds. With pages of 32 bytes an entry of 24 fills the first page
exactly, one of 32 needs one doubling and one of 40 two; after a mapping that
failed, a shorter entry shrinks the file again; the third entry passes `MaxU32`,
so `Publish` fails after the entry was written; values up to 2 let an increment
follow another and a read. The key that is too long meets `check_field_len`.
The files to start from are no file, a file of zeros shorter than a page, and one
of version 1 whose `used` lies beyond its end. For the exporter, two keys are
enough for the file to grow twice (the longer one first) and to grow between any two
loads of one scrape. There the pages have 16 bytes, so that an entry of 40 asks for 64
and one of 24 for 32: when the mapping of the larger growth fails and the worker adds
the shorter entry next, the file is cut from 64 to 32 bytes under an exporter that has
mapped 64 and is at its loads. (Pages of 32 and these two keys never shrink it.) The
aggregation, whose copy tears at any offset, keeps three. In
the collector the limits are smaller than the directory, so that sweeps wrap
around and need the cursor, and two workers are enough for one to sweep the files
of the other and die in the middle. In `directory` two files are enough for one to
go while the other is read, and a name goes and comes back any number of times. The
counter file takes a second series, so that it grows with a share to lose, at any step
of a scrape; the livesum file has one in the library and grows by it. More
files or values take TLC past what a run should last. In `text` four parts are the
type, the mode, and a pid of two parts, the shortest for which joining before or
after stripping could differ; three labels have a first, a middle and a last one. In
`client` the second entry of a histogram grows the file by two doublings while the
other spelling has it mapped shorter; three requests let two threads overlap and a
third come after, and the last entries pass `MaxU32`. `MaxDoublings`, `MaxValue`, `MaxSeries`,
`MaxRequests` and `MaxParts` bound the instances; the first, of `MmapStore` and the
scrapes alone, never cuts a growth that the lengths above can ask for. `client` takes
threads and spellings up to symmetry:
no constant, property or initial state tells two of them apart, and it checks no
liveness.

`Gc` has states without successor when pids are not reused (all workers gone),
`MergeFiles` ends with its scrape and `TextForms` with the longest name or list, so
their configurations do not check deadlock; all others do.

Fairness. `store` (`StoreFairSpec`): weak fairness of the steps inside an open and
inside an upsert, one thread running straight-line code; a worker need not call
anything, nor be restarted. `cached_scrape` (`ScrapeForeverSpec`): weak fairness of a
render under way and of its next begin, as Prometheus scrapes periodically; none for
the worker. `gc` (`GcFairSpec`): weak fairness of a sweep under way and of the clock;
strong fairness of getting the lock, of listing, of looking at a file and of removing
it, for each worker: each can fail or be cut short, but not every time.
`DeadFilesCollected` also takes two premises. Sweeps go on, as nobody sweeps once no
worker is left. And only finitely many of them leave no cursor, because their worker
dies before it is written or because the write fails, which the code ignores
(`gc.rs:113`): every such sweep lets the next one start where it did, so that sweeps
cut short for ever may look at the same first file for ever (TLC shows it without the
premise). Nothing in the code keeps this from happening; it is an assumption about the
deaths of workers and the disk. The run checks this with deaths that are final (two
workers, so at most one death in a sweep leaves a sweeper) and failed writes at any
sweep. `directory` (`DirFairSpec`): the same of scrapes; of the collector only what
`DeadFilesCollected` says that it achieves (`DeadFilesGo`): the file of a worker that is
dead for good, while one is alive, is gone for good in the end. `LiveSumConverges`
takes as premises that workers stop coming and going, that one is left to sweep, and
that none has lost its file.

## What the runs found

1. `cached_scrape_skip`: the exporter takes the length of a file and then loads
   `used`. When the worker grows the file and publishes in between, the scrape
   drops all samples of that healthy file and counts an error, against the promise
   about `file_errors`. Of a file that stays linked nothing else makes it do so
   (`SkippedOnlyIfGrown`; `FaultsExplained` over a whole directory), and some later
   scrape shows the file (`SeriesGetsShown`). Until then its share is missing from the
   merged counters, which therefore fall without a collection and come back:
   `CountersFallByCollection` names it as the second of the two causes.
2. `cached_scrape_weak`: the Release fence of the writer has no counterpart in the
   readers, so on a weakly ordered CPU it does not give what the documentation
   claims for it. With ordered loads it does (`PublishedBytesSeen`).
3. `gc_reuse`: between the liveness check and the unlink a pid may come back. Its
   worker then counts into an unlinked file for as long as it lives. (The
   repository lists PID reuse among its TODOs.)
4. `gc_cursor`: the cursor is a file name, looked up in the next listing. When the
   last file of a sweep is deleted, as it is whenever the delete limit ends the
   sweep, the next sweep starts at the first file again. While files keep dying at
   the front of the order, the back waits.

## What is proved

For every set of keys, assignment of lengths, page size, `MaxU32`, set of
increments and values, and set of files found (the assumptions in `EntryLayout`
and `MmapStore`: lengths are naturals, the page size positive, values integers, files
found not of version 2), TLAPS checks that the specification of the store implies
(`MmapStoreProofs`)

- `TypeOK`, `FileWellFormed`, `IndexMatchesFile`, `AlwaysReopens`, `ValuesAligned`,
- `EntriesNeverMove`,
- `ImplementsMetricMap`, the refinement.

`FileWellFormed` alone is not inductive. That the published entries still tile
the file after `Publish` needs that the new entry starts at `used`, has its key
and value in place, is new to the file, and ends within the map (`AppendAtUsed`);
that it is new needs the index to be complete (`IndexMatchesFile`), which needs
that `rebuild_index` walked entry to entry (`RebuildOnBoundary`) within the map
(`MapWithinFile`); that nothing is cut off by a growth that shrinks the file needs
`used <= mapLen`. `IInv` is the conjunction, and the proof has a lemma per action. The
refinement adds that the value to be returned is the one stored (`ReturnsStored`), and
maps the store of the value, or of `used`, to the effect of the call.

For every finite set of files, assignment of pids to their names, set of pids and
limits of a sweep, the specification of the collector implies (`GcProofs`)

- `GcTypeOK` and `OneSweeper`, also when pids are reused,
- `NoOrphans` and `DeletesOnlyDead`, when they are not (`PidReuse = FALSE`; run
  `gc_reuse` shows that they need this).

The argument, in `GcInv`: a worker sweeps if and only if it holds the lock
(`LockHeld`), which alone makes sweeps exclude one another. A file that is there,
or that a sweep has listed, belongs to a pid that was given to a worker
(`OwnersKnown`), so one found dead was born before and, without reuse, is dead for
good (`CandidatesDead`); only the living have files open (`MappedByLiving`), so the
file that is unlinked, some steps after the check, is nobody's. `WithinLimits`
keeps the count of deletions below its limit while a sweep may still delete.

The collector also implements `Collector`, with or without reuse of pids: every step of
a sweep is a step of the abstract collector or none, since a sweep has a candidate only
while it holds the lock, and one found dead is found when no other is (`OneSweeper` and
the conjuncts of `GcInv` behind it). This lets `Directory` put `Collector` for `Gc`.

For the exporter on a file in the hands of a worker, again for every value of the
constants (`ScrapeProofs`):

- `ScrapeTypeOK` and `LoadsWithinFile`, with ordered or unordered loads: no load of a
  scrape is beyond the end of the file, which would be a SIGBUS of the exporter.
  `LoadInv` adds to `IInv` that a scrape past its look at the version has seen a file
  that is initialised and stays so, and that the `used` it loaded is at most that of
  the file now, which never falls: each step of the worker keeps `used` or moves it up
  (`UsedNeverFalls`), and `FileWellFormed` has `used` within the file, also while the
  file shrinks.
- `CacheMatchesFile`, if loads are ordered (`LoadsOrdered`): parsing stands at the
  start of an entry or at `used` (`ParsedOnBoundary`), and what a worker adds starts at
  `used` (`FileGrows`), so that no entry ever appears behind the point where parsing
  stands; those before it never move.
  From the same, `ReadersSeePublishedBytes`, which `cached_scrape_weak` refutes for
  unordered loads.
- `SkippedOnlyIfGrown`, with loads in any order: a file is mapped to its end, where
  `used` then is, and `used` moves only when a series is added (`SeriesGrow`), so as
  long as none was added since the begin `used` fits the mapping (`FitsUnlessGrown`).
  It is in no run's list of properties: a theorem only.
- `CounterSamplesAreCurrent`, if loads are ordered and the worker has counters only
  that never fall (`CountersOnly`). `BeforeInReach` follows the series there were at
  the begin through the scrape: below the `used` that was loaded, then below the point
  where parsing ended, which is at no less than that `used` (`ParseReachesUsed`), so
  that the loop over the entries meets them all; no value is beyond the second `used`.
  `ShownCurrent` has the samples taken so far between the values at the begin and
  those now: every step of the store is one of `MetricMap`, of which only the effect of
  a call changes the map, and that of a counter makes nothing smaller (`CountersGrow`).

For the aggregation (`ScrapeProofs`): `AggTypeOK` and `LiveFileIsReadable`,
and `AggregateIsCurrent` for `CountersOnly`. The `used` that was copied is one the file
had, hence on a boundary of entries ever since (`CopyOnBoundary`); the parser walks from
boundary to boundary up to it, and the file is never shorter than it when its end is
met. `CopyCurrent` does for the samples what `ShownCurrent` does above.

For any files, workers, ranks, bounds and kinds of readers, with or without reuse of
pids, the directory implies `DirTypeOK`, `SteadyFilesShown`, `FaultsExplained` and
`CountersFallByCollection` (`DirectoryProofs`; assumed are the names of `ParamsOf` and
that a value may be 1). `DirInv` follows a scrape: until a file is looked up, it is in
the directory or was unlinked since the begin; once it was, its map is of what the name
leads to, or it was left out and has no map, unless it was unlinked (`LookUp`), so what
is read of it is what it holds (`ReadSoFar`). Of the file at hand the length was taken
since the begin (`LengthTaken`), and a file that stays linked has no fewer series than
at the begin (`ValuesRise`): one that holds more than the length that was taken has
grown since the begin (`OutgrownFacts`), and stays one that has. A counter that was not
unlinked is never below the last result or its value at the begin (`ValuesRise`), so the
next result is no less unless the file is a fault.

For any finite set of metrics and finite directory, with integers for values
(`MergeFilesProofs`):

- `MergeTypeOK` and `FaultsAreReported`: what was counted is the number of the faulty
  files behind the reader (`FaultsCounted`), whatever the order.
- `MergesToReference`, from `ResultInv`: at any time the value merged for a series
  accounts for those files that have it and were read (`MergedSoFar`); `merge_meta` takes
  one file more into that account, as a sum, a least, a greatest or an only one does.
- `OneHeaderPerFamily`: the rows are the series in the order of `compare_keys`, each
  once, since the number of series before one is its place (`RankFacts`, `RowFacts`). A
  family therefore has one stretch of rows, and the text that grows by a row at a time
  has its header in front of the first of them and no other (`HeaderFirst`,
  `SampleNext`).

For any number of threads, spellings, requests and amounts and any kinds of files, with
any exceptions and deaths between calls (`ExtensionProofs`; amounts are naturals, so
nothing is said of a counter that is given less than nothing):

- `ExtTypeOK`: the index of every open store leads to entries of its keys, at their
  offsets, within a file that has room for them.
- `IncrementsAddUp`: a call that returns adds its amount to one entry of its key
  or adds an entry with it, so the sum over the entries follows (`AddUp`).
- `ObservationsBracketed`: for each series, what was applied and what the requests
  under way still owe lie between what the requests done are worth and what those begun
  are worth (`Accounts`). A scrape under way has seen, with what is still ahead of it, no
  more than what is applied now, and, with what it has yet to read, no less than
  what was applied at its begin (`ScrapeOK`): an entry that is changed or added moves
  both by what the call applies, or not at all if the scrape is past it.
- `GaugeIncIsIncrement`: while requests do not overlap and one spelling is in use,
  the set of a request under way follows the get of the value that is still there
  (`GaugeOK`).
- `LaggingStoreHasSibling`: with one spelling the map of its store is the file
  (`PathsOK`), since a store that grows the file maps it anew; so a store that lags
  behind has a sibling under another spelling. The doublings of `NewLen` reach every
  length, as no length is more than two to its power (`PowerOfTwo`, `NewLenFacts`).

The conjuncts need one another: that sums change as said needs the types, above all
that an index leads to one entry of the key; that a gauge's set undoes nothing needs
the store it goes through to be the file.

For names of any number of parts and any words, and lists of any number of labels
(`TextFormsProofs`):

- `ParsersAgree`: the readers strip the suffix of the last part and join; the collector
  looks at what the first parts give it; on a gauge file both come to one pid.
- `WorkersToldApart`: both readers find type, mode and pid in the name that the library
  makes, and two ids that differ there differ in their labels.
- `LabelsReadBack`: the reader's state is followed through the text. From
  within a value, the escape of a character takes it to the value with that character
  more (`EscapeStep`), so an escaped value leaves it in the quoted value with
  that value read (`EscapeReads`); a label adds itself to the labels read (`LabelReads`);
  the commas and braces do the rest (`PieceReads`, `EncodeReads`), and so does the pid
  label behind them or alone (`PidReads`).
- `OneTextPerSeries`: labels with names that differ have one ascending order
  (`OrderExists`, `SortedOnce`), which `encode_labels` finds in whatever order they come.

Assumed is that label names have different ranks (they are compared as bytes), that
`pid` is one of them and that a value is a finite text.

What a fold or a recursive function computes for every input is proved by a smallest
counterexample: the finite sets, or the numbers, for which the claim fails have a least
one, as their orders are well founded (`SmallestSet`, `SmallestNumber`), and the step
from its predecessor refutes it. The same argument shows first that the recursion has
a solution (`TextExists`, `ReadingExists`, `FlatExists`).

Every safety invariant and every action property of a passing run is thus a theorem.
Only model-checked: the liveness properties (`WorkerReturns`, `SeriesGetsShown`,
`DeadFilesCollected`, `LiveSumConverges`), as fairness and ENABLED are out of the
provers' reach.

## Not modelled, and why

- Durability: which pages survive a power loss, with and without `flush()`. The code
  handles none of it (there is no checksum, and `open` only checks `version` and
  `used`), so a model would have any subset of the pages as its outcome and nothing
  of the code to check against.
- Gauges of mode `all` whose names differ only in the numeric suffix share a pid:
  `MergesToReference` excludes them, and the exporter shows the value of whichever
  its `HashMap` yields last. The same goes for worker ids in which a part before the
  last ends in a number, which `WorkersToldApart` excludes.
- A label named `pid` that a user chooses, which the renderers would print twice.
- `%.15g` of bucket bounds and of values, NaN, infinities, rounding.
- `Gauge::set` and `Gauge::dec` in `Extension`: one call each of the store, in `MetricMap`.
- Errors of `read_dir` and of `metadata` other than a file that is gone: they end a scrape
  or a sweep as the modelled failures do.
- The HTTP server, its arguments and its mutex (which only makes scrapes follow one
  another, as `Directory` and `CachedScrape` have it), logging, error texts and
  benchmarks: they keep no state the properties are about.

## The plan

1. Gauges of all modes in the files of `Directory`, with `MergeFiles` for its `Finish`.
2. With them, a theorem that the result of a scrape of a directory that changes is the
   reference over some set of files, each as it was at some moment of the scrape.
