------------------------------ MODULE MergeFiles ------------------------------
(***************************************************************************)
(* From the files of a directory to the text of a scrape, a file at a      *)
(* time, as aggregate_dir_to_prometheus_text (src/src/aggregate.rs) and    *)
(* CachedDirExporter::render (src/src/exporter.rs) do it.  The one reads   *)
(* the files in the order of their paths and gives up at the first fault;  *)
(* the other in the order of a HashMap, and counts the faults.             *)
(*                                                                         *)
(* Names compare as numbers do: paths, families, and the sample name of a  *)
(* metric with its labels.  A file holds a metric once (FileWellFormed of  *)
(* MmapStore).                                                             *)
(***************************************************************************)
EXTENDS Sums, SequencesExt

CONSTANTS
  Paths,
  Metrics,  \* StoredMetricKeys: a family, and the sample with its labels
  Params,   \* FileParams of the names that parse
  ValueIn   \* the value that a file has for its metrics

NoPid == 0

ASSUME MergeAssumption ==
  /\ Paths \subseteq Nat /\ IsFiniteSet(Paths)
  /\ Metrics \subseteq [family : Nat, sample : Nat] /\ IsFiniteSet(Metrics)
  /\ Params \subseteq [metric_type : {"counter", "histogram", "summary"},
                       mode : {"all"}, pid : {NoPid}]
                      \cup [metric_type : {"gauge"}, pid : Nat \ {NoPid},
                            mode : {"min", "max", "livesum", "all", "liveall"}]
  /\ ValueIn \in [Paths -> Int]

Faults == {"bad_name", "unreadable"}

\* What a path leads to: a file of the current version and its metrics, one of
\* another version, or a fault.
Entries ==
  [state : {"ok"}, params : Params, metrics : (SUBSET Metrics) \ {{}}]
  \cup [state : {"old_version"} \cup Faults]

VARIABLES
  reader,  \* aggregate or exporter
  dir,     \* what the paths lead to
  phase,
  todo,    \* the files to read
  merged,  \* EntryKey -> EntryMeta
  errors,  \* file_errors
  out      \* the lines

mergeVars == <<reader, dir, phase, todo, merged, errors, out>>

Phases == {"discover", "merge", "done", "failed"}

Holding(state) == {p \in DOMAIN dir : dir[p].state = state}

-----------------------------------------------------------------------------
(* Keys and rows *)

\* is_pid_significant.
PidSignificant(params) ==
  params.metric_type = "gauge" /\ params.mode \notin {"min", "max", "livesum"}

EntryKey(p, metric) ==
  [metric |-> metric,
   pid |-> IF PidSignificant(dir[p].params) THEN dir[p].params.pid ELSE NoPid]

\* The series of a file.
Incoming(p) == {EntryKey(p, m) : m \in dir[p].metrics}

Meta(p) ==
  [mode |-> dir[p].params.mode, metric_type |-> dir[p].params.metric_type,
   value |-> ValueIn[p]]

\* Mutant of MergeMeta: the last gauge wins.
MergeMetaLast(current, incoming) ==
  [current EXCEPT !.value =
     IF incoming.metric_type # "gauge" THEN @ + incoming.value ELSE incoming.value]

MergeMeta(current, incoming) ==
  [current EXCEPT !.value =
     CASE incoming.metric_type # "gauge" \/ incoming.mode = "livesum" -> @ + incoming.value
       [] incoming.mode = "min" -> Min({@, incoming.value})
       [] incoming.mode = "max" -> Max({@, incoming.value})
       [] OTHER -> incoming.value]

\* Mutant of KeyLess: samples are compared before families.
KeyLessBySample(a, b) ==
  \/ a.metric.sample < b.metric.sample
  \/ /\ a.metric.sample = b.metric.sample
     /\ \/ a.metric.family < b.metric.family
        \/ a.metric.family = b.metric.family /\ a.pid < b.pid

\* compare_keys.
KeyLess(a, b) ==
  \/ a.metric.family < b.metric.family
  \/ /\ a.metric.family = b.metric.family
     /\ \/ a.metric.sample < b.metric.sample
        \/ a.metric.sample = b.metric.sample /\ a.pid < b.pid

Header(key) ==
  [kind |-> "TYPE", family |-> key.metric.family, type |-> merged[key].metric_type]
Sample(key) ==
  [kind |-> "sample", family |-> key.metric.family, key |-> key,
   value |-> merged[key].value]

\* The keys in their order.
Rows ==
  LET before(key) == {k \in DOMAIN merged : KeyLess(k, key)}
  IN  [i \in 1..Cardinality(DOMAIN merged) |->
         CHOOSE key \in DOMAIN merged : Cardinality(before(key)) = i - 1]

\* One more row, after the TYPE line of its family if that is not the one before.
AddRow(text, key) ==
  Append(IF text # <<>> /\ text[Len(text)].family = key.metric.family
         THEN text ELSE Append(text, Header(key)),
         Sample(key))

Render ==
  LET text[i \in 0..Cardinality(DOMAIN merged)] ==
        IF i = 0 THEN <<>> ELSE AddRow(text[i - 1], Rows[i])
  IN  text[Cardinality(DOMAIN merged)]

-----------------------------------------------------------------------------
(* A scrape *)

MergeInit ==
  /\ reader \in {"aggregate", "exporter"}
  /\ dir \in [Paths -> Entries]
  /\ phase = "discover"
  /\ todo = {}
  /\ merged = [k \in {} |-> 0]
  /\ errors = 0
  /\ out = <<>>

\* discover_metric_files.
Discover ==
  /\ phase = "discover"
  /\ reader = "exporter" \/ Holding("bad_name") = {}
  /\ todo' = DOMAIN dir \ Holding("bad_name")
  /\ errors' = Cardinality(Holding("bad_name"))
  /\ phase' = "merge"
  /\ UNCHANGED <<reader, dir, merged, out>>

\* The next file in the order of paths, or any.
NextFile(p) ==
  /\ phase = "merge"
  /\ p \in todo
  /\ reader = "aggregate" => p = Min(todo)

MergeFile(p) ==
  /\ NextFile(p)
  /\ dir[p].state = "ok"
  /\ merged' = [k \in DOMAIN merged \cup Incoming(p) |->
                  IF k \notin Incoming(p) THEN merged[k]
                  ELSE IF k \notin DOMAIN merged THEN Meta(p)
                  ELSE MergeMeta(merged[k], Meta(p))]
  /\ todo' = todo \ {p}
  /\ UNCHANGED <<reader, dir, phase, errors, out>>

\* A file of another version is passed over by both.
PassFile(p) ==
  /\ NextFile(p)
  /\ dir[p].state = "old_version"
  /\ todo' = todo \ {p}
  /\ UNCHANGED <<reader, dir, phase, merged, errors, out>>

\* Mutant of SkipFile: the fault is not counted.
SkipFileSilently(p) ==
  /\ NextFile(p)
  /\ reader = "exporter"
  /\ dir[p].state = "unreadable"
  /\ todo' = todo \ {p}
  /\ UNCHANGED <<reader, dir, phase, merged, errors, out>>

\* Mutant of SkipFile: the file is tried again.
SkipFileLater(p) ==
  /\ NextFile(p)
  /\ reader = "exporter"
  /\ dir[p].state = "unreadable"
  /\ errors' = errors + 1
  /\ UNCHANGED <<reader, dir, phase, todo, merged, out>>

\* record_file_error.
SkipFile(p) ==
  /\ NextFile(p)
  /\ reader = "exporter"
  /\ dir[p].state = "unreadable"
  /\ todo' = todo \ {p}
  /\ errors' = errors + 1
  /\ UNCHANGED <<reader, dir, phase, merged, out>>

\* The error of the one file is that of the aggregation.
Fail ==
  /\ reader = "aggregate"
  /\ \/ phase = "discover" /\ Holding("bad_name") # {}
     \/ \E p \in Holding("unreadable") : NextFile(p)
  /\ phase' = "failed"
  /\ UNCHANGED <<reader, dir, todo, merged, errors, out>>

Finish ==
  /\ phase = "merge"
  /\ todo = {}
  /\ out' = Render
  /\ phase' = "done"
  /\ UNCHANGED <<reader, dir, todo, merged, errors>>

MergeNext ==
  \/ Discover
  \/ \E p \in todo : MergeFile(p) \/ PassFile(p) \/ SkipFile(p)
  \/ Fail
  \/ Finish

MergeSpec == MergeInit /\ [][MergeNext]_mergeVars

-----------------------------------------------------------------------------
(* Properties *)

MergeTypeOK ==
  /\ phase \in Phases
  /\ todo \subseteq DOMAIN dir
  /\ errors \in 0..Cardinality(DOMAIN dir)
  /\ DOMAIN merged \subseteq [metric : Metrics, pid : {NoPid} \cup {q.pid : q \in Params}]

Contributors(key) ==
  {p \in Holding("ok") : key.metric \in dir[p].metrics /\ EntryKey(p, key.metric) = key}

\* A series that adds up over the files; the others take one of their values.
Adds(params) == params.metric_type # "gauge" \/ params.mode = "livesum"

\* The reference: what a series is over all the files that have it.
Combined(files, params) ==
  LET values == {ValueIn[p] : p \in files} IN
  CASE Adds(params) -> Total(ValueIn, files)
    [] params.mode = "min" -> Min(values)
    [] params.mode = "max" -> Max(values)
    [] OTHER -> CHOOSE v \in values : TRUE

\* The files agree on what the series is, and one pid has one value.
Unambiguous(files) ==
  /\ \A p, q \in files : Meta(p).metric_type = Meta(q).metric_type /\ Meta(p).mode = Meta(q).mode
  /\ (\E p \in files : PidSignificant(dir[p].params)) => Cardinality(files) = 1

\* In whichever order the files are read, every series comes out as the sum, least,
\* greatest or only one of its values, each file counted once, and no series is
\* missing or made up.  (Where the files agree on its type and mode, and one file
\* has the pid: gauges of mode "all" of two files that share a pid are what the
\* last one says.)
MergesToReference ==
  phase = "done" =>
    /\ {out[i].key : i \in {j \in DOMAIN out : out[j].kind = "sample"}} =
         UNION {Incoming(p) : p \in Holding("ok")}
    /\ \A i \in DOMAIN out :
         LET files == Contributors(out[i].key) IN
         out[i].kind = "sample" /\ Unambiguous(files) =>
           \A p \in files : out[i].value = Combined(files, dir[p].params)

\* The samples of a family stand together after one TYPE line, as the exposition
\* format demands, which gives the type of one of its files.
OneHeaderPerFamily ==
  phase = "done" =>
    \A i \in DOMAIN out :
      \E h \in 1..i :
        /\ out[h].kind = "TYPE"
        /\ \A j \in DOMAIN out :
             /\ out[j].family = out[i].family => j >= h
             /\ out[j].family = out[i].family /\ out[j].kind = "TYPE" => j = h
             /\ j \in h..i => out[j].family = out[i].family
        /\ \E p \in Holding("ok") :
             /\ out[h].type = dir[p].params.metric_type
             /\ \E m \in dir[p].metrics : m.family = out[h].family

Faulty == {p \in DOMAIN dir : dir[p].state \in Faults}

\* A fault of one file is counted by the exporter, which shows the others
\* (src/README.md:91); the aggregation fails, and only then.
FaultsAreReported ==
  /\ phase = "done" => errors = Cardinality(Faulty)
  /\ phase = "failed" => Faulty # {}

-----------------------------------------------------------------------------
(* The inductive invariant *)

\* Every fault is counted once: a bad name at discovery, an unreadable file when the
\* reader comes to it.
FaultsCounted ==
  /\ phase \in {"merge", "done"} => errors = Cardinality(Faulty \ todo)
  /\ phase = "done" => todo = {}
  /\ phase = "discover" => errors = 0

\* What is merged is of the files that were read, and all of them: every series is the
\* sum, the least, the greatest or the only one of their values.
FilesRead == Holding("ok") \ todo

AccountsFor(value, files, params) ==
  IF Adds(params)
  THEN value = Total(ValueIn, files)
  ELSE /\ \E p \in files : value = ValueIn[p]
       /\ params.mode = "min" => \A p \in files : value <= ValueIn[p]
       /\ params.mode = "max" => \A p \in files : value >= ValueIn[p]

Accounted(entry, files) ==
  \E p \in files :
    /\ entry = [mode |-> dir[p].params.mode, metric_type |-> dir[p].params.metric_type,
                value |-> entry.value]
    /\ entry.value \in Int
    /\ Unambiguous(files) => AccountsFor(entry.value, files, dir[p].params)

MergedSoFar ==
  /\ phase = "discover" => DOMAIN merged = {}
  /\ phase = "merge" =>
       /\ DOMAIN merged = UNION {Incoming(p) : p \in FilesRead}
       /\ \A key \in DOMAIN merged : Accounted(merged[key], Contributors(key) \cap FilesRead)

MergeInv ==
  /\ dir \in [Paths -> Entries]
  /\ MergeTypeOK
  /\ FaultsCounted
  /\ FaultsAreReported

ResultInv ==
  /\ MergeInv
  /\ MergedSoFar
  /\ MergesToReference
  /\ OneHeaderPerFamily

=============================================================================
