---------------------------------- MODULE Gc ----------------------------------
(***************************************************************************)
(* gc_metric_files (src/src/gc.rs): workers that share a metrics directory *)
(* sweep it for the files of dead workers, one sweep at a time under an    *)
(* flock, with a cursor from which the next sweep goes on.                 *)
(*                                                                         *)
(* A worker opens its files (and keeps them mapped), writes to them, calls *)
(* the collector and dies at any point, also in the middle of a sweep.     *)
(* The kernel gives its pid to a new worker if PidReuse is TRUE.           *)
(*                                                                         *)
(* A listing is one step: what a listing spread over time may see of a     *)
(* file that comes or goes meanwhile, it may see of one that goes after or *)
(* came before.  Names that are no UTF-8 are left out.                     *)
(***************************************************************************)
EXTENDS Integers, FiniteSets, Sequences, Functions

CONSTANTS
  Pids,        \* the pids of workers
  NoPid,
  Files,       \* the names of metric files
  Rank,        \* their order
  NoFile,
  PidOf,       \* extract_numeric_pid of a name, NoPid if there is none
  ScanLimit,   \* scan_limit.max(1)
  DeleteLimit, \* delete_limit.max(1)
  PidReuse     \* a pid may come back

ASSUME GcAssumption ==
  /\ NoPid \notin Pids
  /\ NoFile \notin Files
  /\ IsFiniteSet(Files)
  /\ Rank \in Bijection(Files, 1..Cardinality(Files))
  /\ PidOf \in [Files -> Pids \cup {NoPid}]
  /\ ScanLimit \in Nat \ {0} /\ DeleteLimit \in Nat \ {0}
  /\ PidReuse \in BOOLEAN

VARIABLES
  alive,   \* the pids of running workers
  born,    \* the pids that were ever given to a worker
  dir,     \* the *.db files of the directory
  aged,    \* those whose mtime is older than dead_grace_sec
  mapped,  \* the store that the worker of a file has open: none, linked or orphan
  lock,    \* who holds the flock of .gc.lock
  cursor,  \* the content of .gc.cursor
  g        \* the locals of gc_metric_files, per worker

gcVars == <<alive, born, dir, aged, mapped, lock, cursor, g>>

Idle == [pc |-> "idle", files |-> <<>>, start |-> 0, processed |-> 0,
         deleted |-> 0, current |-> NoFile, lastSeen |-> NoFile]

GcPcs == {"idle", "list", "scan", "age", "remove", "cursor"}

Sweeping(p) == g[p].pc # "idle"

\* The sweep has a file to write to the cursor.
Writing(p) == g[p].pc = "cursor" /\ g[p].lastSeen # NoFile

-----------------------------------------------------------------------------
(* Workers *)

StartWorker(p) ==
  /\ p \notin alive
  /\ PidReuse \/ p \notin born
  /\ alive' = alive \cup {p}
  /\ born' = born \cup {p}
  /\ UNCHANGED <<dir, aged, mapped, lock, cursor, g>>

\* The kernel closes the files of a dead process and so drops its flock.  The
\* cursor is truncated before it is written.
ExitWorker(p) ==
  /\ p \in alive
  /\ alive' = alive \ {p}
  /\ mapped' = [f \in Files |-> IF PidOf[f] = p THEN "none" ELSE mapped[f]]
  /\ lock' = IF lock = p THEN NoPid ELSE lock
  /\ cursor' \in {cursor} \cup (IF Writing(p) THEN {NoFile} ELSE {})
  /\ g' = [g EXCEPT ![p] = Idle]
  /\ UNCHANGED <<born, dir, aged>>

\* MmapMetricStore::open; a file that is there keeps its mtime.
OpenStore(f) ==
  /\ PidOf[f] \in alive
  /\ g[PidOf[f]].pc = "idle"
  /\ mapped[f] = "none"
  /\ mapped' = [mapped EXCEPT ![f] = "linked"]
  /\ dir' = dir \cup {f}
  /\ UNCHANGED <<alive, born, aged, lock, cursor, g>>

WriteStore(f) ==
  /\ mapped[f] = "linked"
  /\ g[PidOf[f]].pc = "idle"
  /\ aged' = aged \ {f}
  /\ UNCHANGED <<alive, born, dir, mapped, lock, cursor, g>>

TimePasses(f) ==
  /\ f \in dir
  /\ aged' = aged \cup {f}
  /\ UNCHANGED <<alive, born, dir, mapped, lock, cursor, g>>

-----------------------------------------------------------------------------
(* gc_metric_files *)

\* Mutant of TryLock: the outcome of flock is ignored.
TryLockIgnored(p) ==
  /\ p \in alive
  /\ g[p].pc = "idle"
  /\ lock' = p
  /\ g' = [g EXCEPT ![p].pc = "list"]
  /\ UNCHANGED <<alive, born, dir, aged, mapped, cursor>>

TryLock(p) ==
  /\ p \in alive
  /\ g[p].pc = "idle"
  /\ lock = NoPid
  /\ lock' = p
  /\ g' = [g EXCEPT ![p].pc = "list"]
  /\ UNCHANGED <<alive, born, dir, aged, mapped, cursor>>

\* The files of the directory, sorted.
Listings ==
  {files \in [1..Cardinality(dir) -> dir] :
     \A i, j \in DOMAIN files : i < j => Rank[files[i]] < Rank[files[j]]}

\* The index of the file after that of the cursor, both from 0.
StartIdx(files) ==
  IF \E i \in DOMAIN files : files[i] = cursor
  THEN (CHOOSE i \in DOMAIN files : files[i] = cursor) % Len(files)
  ELSE 0

\* Mutant of List: every sweep starts at the first file.
ListFromFirst(p) ==
  /\ g[p].pc = "list"
  /\ dir # {}
  /\ \E files \in Listings : g' = [g EXCEPT ![p].pc = "scan", ![p].files = files]
  /\ UNCHANGED <<alive, born, dir, aged, mapped, lock, cursor>>

List(p) ==
  /\ g[p].pc = "list"
  /\ dir # {}
  /\ \E files \in Listings :
       g' = [g EXCEPT ![p].pc = "scan", ![p].files = files, ![p].start = StartIdx(files)]
  /\ UNCHANGED <<alive, born, dir, aged, mapped, lock, cursor>>

\* There are no files, or read_dir fails: the call returns, which drops the guard.
ListNone(p) ==
  /\ g[p].pc = "list"
  /\ g' = [g EXCEPT ![p] = Idle]
  /\ lock' = NoPid
  /\ UNCHANGED <<alive, born, dir, aged, mapped, cursor>>

\* Mutant of MoreFiles: one file beyond the scan limit.
MoreFilesInclusive(p) == g[p].processed <= ScanLimit /\ g[p].processed < Len(g[p].files)

MoreFiles(p) == g[p].processed < ScanLimit /\ g[p].processed < Len(g[p].files)

\* Mutant of Scan: no is_pid_alive.
ScanAnyPid(p) ==
  LET files == g[p].files
      file  == files[((g[p].start + g[p].processed) % Len(files)) + 1]
  IN
  /\ g[p].pc = "scan"
  /\ MoreFiles(p)
  /\ g' = [g EXCEPT ![p].processed = @ + 1, ![p].lastSeen = file,
                    ![p].current = IF PidOf[file] = NoPid THEN NoFile ELSE file,
                    ![p].pc = IF PidOf[file] = NoPid THEN "scan" ELSE "age"]
  /\ UNCHANGED <<alive, born, dir, aged, mapped, lock, cursor>>

\* The next file, up to is_pid_alive.
Scan(p) ==
  LET files == g[p].files
      file  == files[((g[p].start + g[p].processed) % Len(files)) + 1]
      dead  == PidOf[file] \in Pids \ alive
  IN
  /\ g[p].pc = "scan"
  /\ MoreFiles(p)
  /\ g' = [g EXCEPT ![p].processed = @ + 1, ![p].lastSeen = file,
                    ![p].current = IF dead THEN file ELSE NoFile,
                    ![p].pc = IF dead THEN "age" ELSE "scan"]
  /\ UNCHANGED <<alive, born, dir, aged, mapped, lock, cursor>>

\* The scan limit is reached, every file has been looked at, or the time is up.
ScanEnds(p) ==
  /\ g[p].pc = "scan"
  /\ g' = [g EXCEPT ![p].pc = "cursor"]
  /\ UNCHANGED <<alive, born, dir, aged, mapped, lock, cursor>>

CheckAge(p) ==
  /\ g[p].pc = "age"
  /\ g' = [g EXCEPT ![p].pc = IF g[p].current \in dir \cap aged THEN "remove" ELSE "scan"]
  /\ UNCHANGED <<alive, born, dir, aged, mapped, lock, cursor>>

\* A store that has the file open goes on with the unlinked inode.
RemoveFile(p) ==
  LET f == g[p].current IN
  /\ g[p].pc = "remove"
  /\ f \in dir
  /\ dir' = dir \ {f}
  /\ aged' = aged \ {f}
  /\ mapped' = [mapped EXCEPT ![f] = IF @ = "linked" THEN "orphan" ELSE @]
  /\ g' = [g EXCEPT ![p].deleted = @ + 1,
                    ![p].pc = IF g[p].deleted + 1 >= DeleteLimit THEN "cursor" ELSE "scan"]
  /\ UNCHANGED <<alive, born, lock, cursor>>

RemoveFails(p) ==
  /\ g[p].pc = "remove"
  /\ g' = [g EXCEPT ![p].pc = "scan"]
  /\ UNCHANGED <<alive, born, dir, aged, mapped, lock, cursor>>

\* The write of .gc.cursor, and the guard goes out of scope.
WriteCursor(p) ==
  /\ g[p].pc = "cursor"
  /\ cursor' = IF g[p].lastSeen = NoFile THEN cursor ELSE g[p].lastSeen
  /\ lock' = NoPid
  /\ g' = [g EXCEPT ![p] = Idle]
  /\ UNCHANGED <<alive, born, dir, aged, mapped>>

\* The outcome of the write is ignored: a cursor that cannot be opened stays, one
\* that is truncated and not written names no file.
WriteCursorFails(p) ==
  /\ Writing(p)
  /\ cursor' \in {cursor, NoFile}
  /\ lock' = NoPid
  /\ g' = [g EXCEPT ![p] = Idle]
  /\ UNCHANGED <<alive, born, dir, aged, mapped>>

-----------------------------------------------------------------------------

\* The directory may hold the files of workers that ran before.
GcInit ==
  /\ alive = {}
  /\ dir \in SUBSET Files
  /\ born = {p \in Pids : \E f \in dir : PidOf[f] = p}
  /\ aged \in SUBSET dir
  /\ mapped = [f \in Files |-> "none"]
  /\ lock = NoPid
  /\ cursor = NoFile
  /\ g = [p \in Pids |-> Idle]

WorkerStep ==
  \/ \E p \in Pids : StartWorker(p) \/ ExitWorker(p)
  \/ \E f \in Files : OpenStore(f) \/ WriteStore(f) \/ TimePasses(f)

GcStep(p) ==
  \/ List(p) \/ ListNone(p)
  \/ Scan(p) \/ ScanEnds(p)
  \/ CheckAge(p) \/ RemoveFile(p) \/ RemoveFails(p)
  \/ WriteCursor(p) \/ WriteCursorFails(p)

GcNext == WorkerStep \/ \E p \in Pids : TryLock(p) \/ GcStep(p)

GcSpec == GcInit /\ [][GcNext]_gcVars

\* Sweeps run on and workers call them again and again; they do not always run
\* out of time before they look at a file (the budget is at least 1 ms), nor fail
\* to list the directory or to remove a file every time.  The clock does not stop.
GcFairSpec ==
  /\ GcSpec
  /\ \A p \in Pids :
       /\ WF_gcVars(GcStep(p)) /\ SF_gcVars(TryLock(p))
       /\ SF_gcVars(List(p)) /\ SF_gcVars(Scan(p)) /\ SF_gcVars(RemoveFile(p))
  /\ \A f \in Files : WF_gcVars(TimePasses(f))

-----------------------------------------------------------------------------
(* Properties *)

GcTypeOK ==
  /\ alive \subseteq born /\ born \subseteq Pids
  /\ dir \subseteq Files /\ aged \subseteq dir
  /\ mapped \in [Files -> {"none", "linked", "orphan"}]
  /\ lock \in Pids \cup {NoPid}
  /\ cursor \in Files \cup {NoFile}
  /\ g \in [Pids -> [pc : GcPcs, files : Seq(Files), start : Nat,
                     processed : 0..ScanLimit, deleted : 0..DeleteLimit,
                     current : Files \cup {NoFile}, lastSeen : Files \cup {NoFile}]]

\* Only one process runs GC work at a time (src/README.md:113), and none that died
\* keeps the others out.
OneSweeper ==
  /\ \A p, q \in Pids : g[p].pc # "idle" /\ g[q].pc # "idle" => p = q
  /\ lock \in {NoPid} \cup {p \in alive : g[p].pc # "idle"}

\* The collector deletes only files with numeric pid names whose process is not
\* alive (src/README.md:115).
DeletesOnlyDead ==
  [][\A f \in dir : f \notin dir' => PidOf[f] \in Pids \ alive]_gcVars

\* No worker writes to a file that the collector has unlinked under it, where no
\* scrape would ever find its metrics again.
NoOrphans == \A f \in Files : mapped[f] # "orphan"

\* A sweep goes on where the last one stopped: no listed file lies between the
\* cursor and the file it starts with ("advances a cursor file to amortize
\* directory scanning across calls", src/README.md:114).
Distance(c, f) == (Rank[f] - Rank[c] - 1) % Cardinality(Files)

ResumesAtCursor ==
  \A p \in Pids :
    g[p].pc = "scan" /\ g[p].processed = 0 /\ cursor # NoFile =>
      \A i \in 1..Len(g[p].files) :
        Distance(cursor, g[p].files[g[p].start + 1]) <= Distance(cursor, g[p].files[i])

\* The files of a worker that is gone for good are all collected in the end, however
\* small the limits and however often the deadline cuts a sweep short, so long as
\* sweeps go on and no more than finitely many of them leave no cursor behind, for
\* the death of their worker or a failed write.  (If that went on, every sweep could
\* look at the same files and none come to the last.)
Gone(f) == PidOf[f] \in Pids \ alive

LeavesNoCursor(p) ==
  \/ Sweeping(p) /\ p \notin alive'
  \/ Writing(p) /\ ~Sweeping(p)' /\ cursor' # g[p].lastSeen

DeadFilesCollected ==
  \A f \in Files :
    /\ <>[]Gone(f)
    /\ []<>(\E p \in Pids : g[p].pc = "scan")
    /\ <>[][\A p \in Pids : ~LeavesNoCursor(p)]_gcVars
    => <>[](f \notin dir)

\* To the files and the workers, the collector is one that finds a single file at a
\* time to be dead and then unlinks it or not: no crash in the middle of a sweep, no
\* second sweeper and no cursor lets it remove a file on an older finding.
Found == {g[p].current : p \in {q \in Pids : g[q].pc \in {"age", "remove"}}}

C == INSTANCE Collector WITH found <- Found

ImplementsCollector == C!CollectorSpec

-----------------------------------------------------------------------------
(* The inductive invariant *)

\* A sweep and the lock go together.
LockHeld ==
  /\ \A p \in Pids : Sweeping(p) => lock = p
  /\ lock # NoPid => lock \in alive /\ Sweeping(lock)

WithinLimits ==
  \A p \in Pids : g[p].pc # "cursor" => g[p].deleted < DeleteLimit

\* A worker whose file is there, or was listed, was there: without reuse it is
\* alive or dead for good.
OwnersKnown ==
  /\ \A f \in dir : PidOf[f] \in Pids => PidOf[f] \in born
  /\ \A p \in Pids : \A i \in DOMAIN g[p].files :
       PidOf[g[p].files[i]] \in Pids => PidOf[g[p].files[i]] \in born

\* What the sweep found dead stays dead.
CandidatesDead ==
  \A p \in Pids : g[p].pc \in {"age", "remove"} => PidOf[g[p].current] \in born \ alive

CandidatesListed ==
  \A p \in Pids : g[p].pc \in {"age", "remove"} => g[p].current \in Files

MappedByLiving ==
  \A f \in Files : mapped[f] # "none" => PidOf[f] \in alive

GcInv ==
  /\ GcTypeOK
  /\ LockHeld
  /\ WithinLimits
  /\ CandidatesListed
  /\ MappedByLiving
  /\ ~PidReuse => OwnersKnown /\ CandidatesDead /\ NoOrphans

=============================================================================
