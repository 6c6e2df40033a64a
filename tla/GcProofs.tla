------------------------------- MODULE GcProofs -------------------------------
(***************************************************************************)
(* The collector sweeps alone and, while no pid is used twice, takes no    *)
(* file from a worker: for any number of workers and files, any limits and *)
(* any interleaving, deaths in the middle of a sweep included.  And what   *)
(* it does to the directory is what Collector says, whatever the lock, the *)
(* cursor and the limits do, and whether pids are reused or not.           *)
(***************************************************************************)
EXTENDS Gc, TLAPS, FiniteSetTheorems

\* The locals of one call.
Locals == [pc : GcPcs, files : Seq(Files), start : Nat,
           processed : 0..ScanLimit, deleted : 0..DeleteLimit,
           current : Files \cup {NoFile}, lastSeen : Files \cup {NoFile}]

\* A call that has not begun, or has returned, is well typed.
LEMMA IdleType == Idle \in Locals
<1>1. <<>> \in Seq(Files)
  OBVIOUS
<1>2. QED
  BY <1>1, GcAssumption DEF Idle, Locals, GcPcs

\* A listing is a sequence of files of the directory, and the sweep starts within it.
LEMMA ListingFacts ==
  ASSUME dir \subseteq Files, dir # {}, NEW files \in Listings
  PROVE  /\ files \in Seq(Files)
         /\ \A i \in DOMAIN files : files[i] \in dir
         /\ StartIdx(files) \in Nat
<1>1. Cardinality(dir) \in Nat \ {0}
  BY GcAssumption, FS_Subset, FS_CardinalityType, FS_EmptySet
<1>2. files \in [1..Cardinality(dir) -> dir]
  BY DEF Listings
<1>3. files \in Seq(Files) /\ DOMAIN files = 1..Cardinality(dir) /\ Len(files) = Cardinality(dir)
  BY <1>1, <1>2
<1>4. StartIdx(files) \in Nat
  <2>1. CASE \E i \in DOMAIN files : files[i] = cursor
    <3> DEFINE at == CHOOSE i \in DOMAIN files : files[i] = cursor
    <3>1. at \in 1..Cardinality(dir)
      BY <2>1, <1>3
    <3>2. StartIdx(files) = at % Len(files)
      BY <2>1 DEF StartIdx
    <3> HIDE DEF at
    <3>3. QED
      BY <3>1, <3>2, <1>1, <1>3
  <2>2. CASE ~ \E i \in DOMAIN files : files[i] = cursor
    BY <2>2 DEF StartIdx
  <2>3. QED
    BY <2>1, <2>2
<1>5. QED
  BY <1>2, <1>3, <1>4

\* Nothing runs yet, and the files are those of earlier workers.
THEOREM GcInitInv == GcInit => GcInv
<1> SUFFICES ASSUME GcInit PROVE GcInv
  OBVIOUS
<1>1. GcTypeOK
  <2>1. g \in [Pids -> Locals]
    BY IdleType DEF GcInit
  <2>2. QED
    BY <2>1, GcAssumption DEF GcInit, GcTypeOK, Locals
<1>2. \A p \in Pids : g[p] = Idle
  BY DEF GcInit
<1>3. LockHeld /\ WithinLimits /\ CandidatesListed /\ CandidatesDead
  BY <1>2, GcAssumption DEF GcInit, LockHeld, Sweeping, WithinLimits, CandidatesListed,
    CandidatesDead, Idle
<1>4. MappedByLiving /\ NoOrphans
  BY DEF GcInit, MappedByLiving, NoOrphans
<1>5. OwnersKnown
  <2>1. \A p \in Pids : DOMAIN g[p].files = {}
    BY <1>2 DEF Idle
  <2>2. QED
    BY <2>1 DEF OwnersKnown, GcInit
<1>6. QED
  BY <1>1, <1>3, <1>4, <1>5 DEF GcInv

-----------------------------------------------------------------------------
(* Workers *)

\* A new worker has a pid that no file, listing or candidate can be of, unless
\* pids are reused.
LEMMA StartWorkerKeeps == ASSUME NEW p \in Pids PROVE GcInv /\ StartWorker(p) => GcInv'
<1> SUFFICES ASSUME GcInv, StartWorker(p) PROVE GcInv'
  OBVIOUS
<1> USE DEF GcInv, StartWorker
<1>1. GcTypeOK'
  BY DEF GcTypeOK
<1>2. LockHeld' /\ WithinLimits' /\ CandidatesListed'
  BY DEF LockHeld, Sweeping, WithinLimits, CandidatesListed
<1>3. MappedByLiving'
  BY DEF MappedByLiving
<1>4. ~PidReuse => OwnersKnown' /\ CandidatesDead' /\ NoOrphans'
  <2> SUFFICES ASSUME ~PidReuse PROVE OwnersKnown' /\ CandidatesDead' /\ NoOrphans'
    OBVIOUS
  <2>1. OwnersKnown'
    BY DEF OwnersKnown
  <2>2. CandidatesDead'
    BY DEF CandidatesDead
  <2>3. NoOrphans'
    BY DEF NoOrphans
  <2>4. QED
    BY <2>1, <2>2, <2>3
<1>5. QED
  BY <1>1, <1>2, <1>3, <1>4

\* A dying worker drops its lock, its locals and its mappings at once.
LEMMA ExitWorkerKeeps == ASSUME NEW p \in Pids PROVE GcInv /\ ExitWorker(p) => GcInv'
<1> SUFFICES ASSUME GcInv, ExitWorker(p) PROVE GcInv'
  OBVIOUS
<1> USE DEF GcInv
<1>0. g \in [Pids -> Locals]
  BY DEF GcTypeOK, Locals
<1>1. g' \in [Pids -> Locals] /\ g'[p] = Idle /\ \A q \in Pids \ {p} : g'[q] = g[q]
  BY <1>0, IdleType DEF ExitWorker
<1>2. GcTypeOK'
  <2>1. mapped' \in [Files -> {"none", "linked", "orphan"}]
    BY DEF ExitWorker, GcTypeOK
  <2>2. cursor' \in Files \cup {NoFile} /\ lock' \in Pids \cup {NoPid}
    BY GcAssumption DEF ExitWorker, GcTypeOK
  <2>3. QED
    BY <1>1, <2>1, <2>2 DEF ExitWorker, GcTypeOK, Locals
<1>3. LockHeld'
  BY <1>1, GcAssumption DEF ExitWorker, LockHeld, Sweeping, Idle, GcTypeOK
<1>4. WithinLimits' /\ CandidatesListed'
  BY <1>1, GcAssumption DEF WithinLimits, CandidatesListed, Idle
<1>5. MappedByLiving'
  BY DEF ExitWorker, MappedByLiving, GcTypeOK
<1>6. ~PidReuse => OwnersKnown' /\ CandidatesDead' /\ NoOrphans'
  <2> SUFFICES ASSUME ~PidReuse PROVE OwnersKnown' /\ CandidatesDead' /\ NoOrphans'
    OBVIOUS
  <2>1. OwnersKnown'
    <3>1. DOMAIN Idle.files = {}
      BY DEF Idle
    <3>2. QED
      BY <1>1, <3>1 DEF OwnersKnown, ExitWorker
  <2>2. CandidatesDead'
    BY <1>1 DEF CandidatesDead, ExitWorker, Idle
  <2>3. NoOrphans'
    BY DEF NoOrphans, ExitWorker, GcTypeOK
  <2>4. QED
    BY <2>1, <2>2, <2>3
<1>7. QED
  BY <1>2, <1>3, <1>4, <1>5, <1>6

\* Opening, writing and ageing a file concern no sweep.
LEMMA FileStepKeeps ==
  ASSUME NEW f \in Files
  PROVE  GcInv /\ (OpenStore(f) \/ WriteStore(f) \/ TimePasses(f)) => GcInv'
<1> SUFFICES ASSUME GcInv, OpenStore(f) \/ WriteStore(f) \/ TimePasses(f) PROVE GcInv'
  OBVIOUS
<1> USE DEF GcInv, OpenStore, WriteStore, TimePasses
<1>1. GcTypeOK'
  BY DEF GcTypeOK
<1>2. LockHeld' /\ WithinLimits' /\ CandidatesListed'
  BY DEF LockHeld, Sweeping, WithinLimits, CandidatesListed
<1>3. MappedByLiving'
  BY DEF MappedByLiving, GcTypeOK
<1>4. ~PidReuse => OwnersKnown' /\ CandidatesDead' /\ NoOrphans'
  <2> SUFFICES ASSUME ~PidReuse PROVE OwnersKnown' /\ CandidatesDead' /\ NoOrphans'
    OBVIOUS
  <2>1. OwnersKnown'
    BY DEF OwnersKnown, GcTypeOK
  <2>2. CandidatesDead'
    BY DEF CandidatesDead
  <2>3. NoOrphans'
    BY DEF NoOrphans, GcTypeOK
  <2>4. QED
    BY <2>1, <2>2, <2>3
<1>5. QED
  BY <1>1, <1>2, <1>3, <1>4

-----------------------------------------------------------------------------
(* Sweeps *)

\* A sweep that gets the lock is the only one, and has deleted nothing.
LEMMA TryLockKeeps == ASSUME NEW p \in Pids PROVE GcInv /\ TryLock(p) => GcInv'
<1> SUFFICES ASSUME GcInv, TryLock(p) PROVE GcInv'
  OBVIOUS
<1> USE DEF GcInv, TryLock
<1>0. g \in [Pids -> Locals]
  BY DEF GcTypeOK, Locals
<1>1. g' \in [Pids -> Locals] /\ g'[p] = [g[p] EXCEPT !.pc = "list"]
      /\ \A q \in Pids \ {p} : g'[q] = g[q]
  BY <1>0 DEF Locals, GcPcs
<1>2. g'[p].pc = "list" /\ g'[p].files = g[p].files
  BY <1>0, <1>1 DEF Locals
<1>3. GcTypeOK'
  BY <1>1 DEF GcTypeOK, Locals
<1>4. LockHeld' /\ WithinLimits' /\ CandidatesListed' /\ MappedByLiving'
  BY <1>1, <1>2, GcAssumption DEF LockHeld, Sweeping, WithinLimits, CandidatesListed, MappedByLiving
<1>5. ~PidReuse => OwnersKnown' /\ CandidatesDead' /\ NoOrphans'
  BY <1>1, <1>2 DEF OwnersKnown, CandidatesDead, NoOrphans
<1>6. QED
  BY <1>3, <1>4, <1>5

\* A sweep that goes on with other locals, and has still to delete what it may.
LEMMA SweepGoesOn ==
  ASSUME NEW p \in Pids, NEW r \in Locals, GcInv, Sweeping(p),
         g' = [g EXCEPT ![p] = r], UNCHANGED <<alive, born, dir, aged, mapped, lock, cursor>>,
         r.pc # "idle",
         r.pc # "cursor" => r.deleted < DeleteLimit,
         r.pc \in {"age", "remove"} =>
           r.current \in Files /\ (~PidReuse => PidOf[r.current] \in born \ alive),
         ~PidReuse => \A i \in DOMAIN r.files : PidOf[r.files[i]] \in Pids => PidOf[r.files[i]] \in born
  PROVE  GcInv'
<1> USE DEF GcInv
<1>0. g \in [Pids -> Locals]
  BY DEF GcTypeOK, Locals
<1>1. g' \in [Pids -> Locals] /\ g'[p] = r /\ \A q \in Pids \ {p} : g'[q] = g[q]
  BY <1>0
<1>2. GcTypeOK'
  BY <1>1 DEF GcTypeOK, Locals
<1>3. LockHeld' /\ WithinLimits' /\ CandidatesListed' /\ MappedByLiving'
  BY <1>1 DEF LockHeld, Sweeping, WithinLimits, CandidatesListed, MappedByLiving, GcTypeOK
<1>4. ~PidReuse => OwnersKnown' /\ CandidatesDead' /\ NoOrphans'
  BY <1>1 DEF OwnersKnown, CandidatesDead, NoOrphans
<1>5. QED
  BY <1>2, <1>3, <1>4

\* A sweep that returns, and so unlocks, whatever it leaves in the cursor.
LEMMA SweepReturns ==
  ASSUME NEW p \in Pids, GcInv, Sweeping(p), g' = [g EXCEPT ![p] = Idle], lock' = NoPid,
         UNCHANGED <<alive, born, dir, aged, mapped>>, cursor' \in Files \cup {NoFile}
  PROVE  GcInv'
<1> USE DEF GcInv
<1>0. g \in [Pids -> Locals]
  BY DEF GcTypeOK, Locals
<1>1. g' \in [Pids -> Locals] /\ g'[p] = Idle /\ \A q \in Pids \ {p} : g'[q] = g[q]
  BY <1>0, IdleType
<1>2. GcTypeOK'
  BY <1>1 DEF GcTypeOK, Locals
<1>3. LockHeld' /\ WithinLimits' /\ CandidatesListed' /\ MappedByLiving'
  BY <1>1, GcAssumption DEF LockHeld, Sweeping, WithinLimits, CandidatesListed, MappedByLiving,
    Idle
<1>4. ~PidReuse => OwnersKnown' /\ CandidatesDead' /\ NoOrphans'
  <2>1. DOMAIN Idle.files = {}
    BY DEF Idle
  <2>2. QED
    BY <1>1, <2>1 DEF OwnersKnown, CandidatesDead, NoOrphans, Idle
<1>5. QED
  BY <1>2, <1>3, <1>4

\* The listing holds files of known owners.
LEMMA ListKeeps == ASSUME NEW p \in Pids PROVE GcInv /\ List(p) => GcInv'
<1> SUFFICES ASSUME GcInv, List(p) PROVE GcInv'
  OBVIOUS
<1>0. g[p] \in Locals /\ dir \subseteq Files /\ g[p].pc = "list" /\ dir # {}
  BY DEF GcInv, GcTypeOK, Locals, List
<1>1. PICK files \in Listings :
        g' = [g EXCEPT ![p].pc = "scan", ![p].files = files, ![p].start = StartIdx(files)]
  BY DEF List
<1>2. files \in Seq(Files) /\ StartIdx(files) \in Nat /\ \A i \in DOMAIN files : files[i] \in dir
  BY <1>0, ListingFacts
<1> DEFINE r == [g[p] EXCEPT !.pc = "scan", !.files = files, !.start = StartIdx(files)]
<1>3. r \in Locals /\ r.pc = "scan" /\ r.files = files /\ r.deleted = g[p].deleted
  BY <1>0, <1>2 DEF Locals, GcPcs
<1>4. g' = [g EXCEPT ![p] = r]
  BY <1>1, <1>0 DEF GcInv, GcTypeOK
<1>5. r.deleted < DeleteLimit
  BY <1>0, <1>3 DEF GcInv, WithinLimits
<1>6. ~PidReuse => \A i \in DOMAIN r.files : PidOf[r.files[i]] \in Pids => PidOf[r.files[i]] \in born
  BY <1>2, <1>3 DEF GcInv, OwnersKnown
<1>7. Sweeping(p) /\ UNCHANGED <<alive, born, dir, aged, mapped, lock, cursor>>
  BY <1>0 DEF Sweeping, List
<1> HIDE DEF r
<1>8. QED
  BY <1>3, <1>4, <1>5, <1>6, <1>7, SweepGoesOn

\* The call returns early.
LEMMA ListNoneKeeps == ASSUME NEW p \in Pids PROVE GcInv /\ ListNone(p) => GcInv'
BY SweepReturns DEF ListNone, Sweeping, GcInv, GcTypeOK

\* The call returns after a sweep.
LEMMA WriteCursorKeeps == ASSUME NEW p \in Pids PROVE GcInv /\ WriteCursor(p) => GcInv'
<1> SUFFICES ASSUME GcInv, WriteCursor(p) PROVE GcInv'
  OBVIOUS
<1>1. cursor' \in Files \cup {NoFile}
  BY DEF WriteCursor, GcInv, GcTypeOK
<1>2. QED
  BY <1>1, SweepReturns DEF WriteCursor, Sweeping

\* Or after one whose cursor could not be written.
LEMMA WriteCursorFailsKeeps ==
  ASSUME NEW p \in Pids PROVE GcInv /\ WriteCursorFails(p) => GcInv'
<1> SUFFICES ASSUME GcInv, WriteCursorFails(p) PROVE GcInv'
  OBVIOUS
<1>1. cursor' \in Files \cup {NoFile} /\ Sweeping(p)
  BY DEF WriteCursorFails, Writing, Sweeping, GcInv, GcTypeOK
<1>2. QED
  BY <1>1, SweepReturns DEF WriteCursorFails

\* The next file: a candidate has a pid that was a worker's and is dead.
LEMMA ScanKeeps == ASSUME NEW p \in Pids PROVE GcInv /\ Scan(p) => GcInv'
<1> SUFFICES ASSUME GcInv, Scan(p) PROVE GcInv'
  OBVIOUS
<1>0. g[p] \in Locals /\ g[p].pc = "scan" /\ g \in [Pids -> Locals]
  BY DEF GcInv, GcTypeOK, Locals, Scan
<1> DEFINE files == g[p].files
           at == ((g[p].start + g[p].processed) % Len(files)) + 1
           file == files[at]
           dead == PidOf[file] \in Pids \ alive
           r == [g[p] EXCEPT !.processed = @ + 1, !.lastSeen = file,
                             !.current = IF dead THEN file ELSE NoFile,
                             !.pc = IF dead THEN "age" ELSE "scan"]
<1>1. /\ files \in Seq(Files) /\ g[p].start \in Nat /\ g[p].processed \in Nat
      /\ g[p].processed < Len(files) /\ g[p].processed < ScanLimit
  BY <1>0, GcAssumption DEF Scan, MoreFiles, Locals
<1>2. at \in DOMAIN files /\ file \in Files
  <2>1. Len(files) \in Nat /\ Len(files) > 0 /\ DOMAIN files = 1..Len(files)
    BY <1>1
  <2>2. (g[p].start + g[p].processed) % Len(files) \in 0..(Len(files) - 1)
    BY <1>1, <2>1, SMT
  <2>3. at \in DOMAIN files
    BY <2>1, <2>2
  <2>4. QED
    BY <1>1, <2>3
<1>3. g' = [g EXCEPT ![p] = r]
  BY <1>0 DEF Scan
<1>4. ~PidReuse /\ dead => PidOf[file] \in born \ alive
  BY <1>2 DEF GcInv, OwnersKnown
<1>5. g[p].processed + 1 \in 0..ScanLimit
  BY <1>1, GcAssumption
<1> HIDE DEF files, at, file, dead
<1>6. r \in Locals /\ r.deleted = g[p].deleted /\ r.files = files
      /\ r.pc = (IF dead THEN "age" ELSE "scan") /\ r.current = (IF dead THEN file ELSE NoFile)
  BY <1>0, <1>2, <1>5 DEF Locals, GcPcs, files
<1>7. r.deleted < DeleteLimit
  BY <1>0, <1>6 DEF GcInv, WithinLimits
<1>8. ~PidReuse => \A i \in DOMAIN r.files : PidOf[r.files[i]] \in Pids => PidOf[r.files[i]] \in born
  BY <1>6 DEF GcInv, OwnersKnown, files
<1>9. Sweeping(p) /\ UNCHANGED <<alive, born, dir, aged, mapped, lock, cursor>>
  BY <1>0 DEF Sweeping, Scan
<1> HIDE DEF r
<1>10. QED
  BY <1>2, <1>3, <1>4, <1>6, <1>7, <1>8, <1>9, SweepGoesOn

\* The end of the scan, the check of the age and a removal that fails only move on.
LEMMA MoveOnKeeps ==
  ASSUME NEW p \in Pids PROVE GcInv /\ (ScanEnds(p) \/ CheckAge(p) \/ RemoveFails(p)) => GcInv'
<1> SUFFICES ASSUME GcInv, ScanEnds(p) \/ CheckAge(p) \/ RemoveFails(p) PROVE GcInv'
  OBVIOUS
<1>0. g[p] \in Locals /\ g \in [Pids -> Locals] /\ g[p].pc \in {"scan", "age", "remove"}
  BY DEF GcInv, GcTypeOK, Locals, ScanEnds, CheckAge, RemoveFails
<1>1. PICK pc \in {"scan", "remove", "cursor"} :
        /\ g' = [g EXCEPT ![p].pc = pc]
        /\ pc = "remove" => g[p].pc = "age"
  BY DEF ScanEnds, CheckAge, RemoveFails
<1> DEFINE r == [g[p] EXCEPT !.pc = pc]
<1>2. r \in Locals /\ r.pc = pc /\ r.deleted = g[p].deleted /\ r.files = g[p].files
      /\ r.current = g[p].current
  BY <1>0 DEF Locals, GcPcs
<1>3. g' = [g EXCEPT ![p] = r]
  BY <1>0, <1>1
<1>4. r.deleted < DeleteLimit
  BY <1>0, <1>2 DEF GcInv, WithinLimits
<1>5. pc = "remove" => r.current \in Files /\ (~PidReuse => PidOf[r.current] \in born \ alive)
  BY <1>1, <1>2 DEF GcInv, CandidatesListed, CandidatesDead
<1>6. ~PidReuse => \A i \in DOMAIN r.files : PidOf[r.files[i]] \in Pids => PidOf[r.files[i]] \in born
  BY <1>2 DEF GcInv, OwnersKnown
<1>7. Sweeping(p) /\ UNCHANGED <<alive, born, dir, aged, mapped, lock, cursor>>
  BY <1>0 DEF Sweeping, ScanEnds, CheckAge, RemoveFails
<1> HIDE DEF r
<1>8. QED
  BY <1>1, <1>2, <1>3, <1>4, <1>5, <1>6, <1>7, SweepGoesOn

\* The file removed is nobody's, unless pids are reused.
LEMMA RemoveFileKeeps == ASSUME NEW p \in Pids PROVE GcInv /\ RemoveFile(p) => GcInv'
<1> SUFFICES ASSUME GcInv, RemoveFile(p) PROVE GcInv'
  OBVIOUS
<1>0. g[p] \in Locals /\ g \in [Pids -> Locals] /\ g[p].pc = "remove"
  BY DEF GcInv, GcTypeOK, Locals, RemoveFile
<1> DEFINE f == g[p].current
           r == [g[p] EXCEPT !.deleted = @ + 1,
                             !.pc = IF g[p].deleted + 1 >= DeleteLimit THEN "cursor" ELSE "scan"]
<1>1. f \in Files /\ g[p].deleted \in Nat /\ g[p].deleted < DeleteLimit
  BY <1>0 DEF GcInv, CandidatesListed, WithinLimits, Locals
<1>2. r \in Locals /\ r.files = g[p].files /\ r.pc \in {"cursor", "scan"}
      /\ (r.pc # "cursor" => r.deleted < DeleteLimit)
  <2>1. g[p].deleted + 1 \in 0..DeleteLimit
    BY <1>1, GcAssumption
  <2>2. r.pc \in {"cursor", "scan"} /\ r.deleted = g[p].deleted + 1 /\ r.files = g[p].files
    BY <1>0 DEF Locals
  <2>3. r \in Locals
    BY <1>0, <2>1, <2>2 DEF Locals, GcPcs
  <2>4. ASSUME r.pc # "cursor" PROVE r.deleted < DeleteLimit
    <3>1. ~(g[p].deleted + 1 >= DeleteLimit)
      BY <1>0, <2>4 DEF Locals
    <3>2. QED
      BY <1>1, <2>2, <3>1, GcAssumption
  <2>5. QED
    BY <2>2, <2>3, <2>4
<1>3. g' \in [Pids -> Locals] /\ g'[p] = r /\ \A q \in Pids \ {p} : g'[q] = g[q]
  BY <1>0, <1>2 DEF RemoveFile
<1> HIDE DEF r
<1>4. GcTypeOK'
  <2>1. dir' \subseteq Files /\ aged' \subseteq dir'
    BY DEF RemoveFile, GcInv, GcTypeOK
  <2>2. mapped' \in [Files -> {"none", "linked", "orphan"}]
    BY DEF RemoveFile, GcInv, GcTypeOK
  <2>3. QED
    BY <1>3, <2>1, <2>2 DEF RemoveFile, GcInv, GcTypeOK, Locals
<1>5. LockHeld' /\ WithinLimits' /\ CandidatesListed'
  BY <1>0, <1>2, <1>3 DEF RemoveFile, GcInv, LockHeld, Sweeping, WithinLimits, CandidatesListed,
    GcTypeOK
<1>6. MappedByLiving'
  BY DEF RemoveFile, GcInv, MappedByLiving, GcTypeOK
<1>7. ~PidReuse => OwnersKnown' /\ CandidatesDead' /\ NoOrphans'
  <2> SUFFICES ASSUME ~PidReuse PROVE OwnersKnown' /\ CandidatesDead' /\ NoOrphans'
    OBVIOUS
  <2>1. OwnersKnown'
    BY <1>2, <1>3 DEF RemoveFile, GcInv, OwnersKnown
  <2>2. CandidatesDead'
    BY <1>2, <1>3 DEF RemoveFile, GcInv, CandidatesDead
  <2>3. mapped[f] = "none"
    BY <1>0, <1>1 DEF GcInv, CandidatesDead, MappedByLiving
  <2>4. NoOrphans'
    BY <1>1, <2>3 DEF RemoveFile, GcInv, NoOrphans, GcTypeOK
  <2>5. QED
    BY <2>1, <2>2, <2>4
<1>8. QED
  BY <1>4, <1>5, <1>6, <1>7 DEF GcInv

-----------------------------------------------------------------------------
(* Theorems *)

\* Every step of a worker or a sweep preserves the invariant.
THEOREM StepGcInv == GcInv /\ [GcNext]_gcVars => GcInv'
<1> SUFFICES ASSUME GcInv, [GcNext]_gcVars PROVE GcInv'
  OBVIOUS
<1>1. CASE UNCHANGED gcVars
  <2>1. GcTypeOK'
    BY <1>1 DEF gcVars, GcInv, GcTypeOK
  <2>2. LockHeld' /\ WithinLimits' /\ CandidatesListed' /\ MappedByLiving'
    BY <1>1 DEF gcVars, GcInv, LockHeld, Sweeping, WithinLimits, CandidatesListed, MappedByLiving
  <2>3. ~PidReuse => OwnersKnown' /\ CandidatesDead' /\ NoOrphans'
    BY <1>1 DEF gcVars, GcInv, OwnersKnown, CandidatesDead, NoOrphans
  <2>4. QED
    BY <2>1, <2>2, <2>3 DEF GcInv
<1>2. ASSUME NEW p \in Pids, StartWorker(p) \/ ExitWorker(p) PROVE GcInv'
  BY <1>2, StartWorkerKeeps, ExitWorkerKeeps
<1>3. ASSUME NEW f \in Files, OpenStore(f) \/ WriteStore(f) \/ TimePasses(f) PROVE GcInv'
  BY <1>3, FileStepKeeps
<1>4. ASSUME NEW p \in Pids, TryLock(p) \/ GcStep(p) PROVE GcInv'
  BY <1>4, TryLockKeeps, ListKeeps, ListNoneKeeps, ScanKeeps, MoveOnKeeps, RemoveFileKeeps,
    WriteCursorKeeps, WriteCursorFailsKeeps DEF GcStep
<1>5. QED
  BY <1>1, <1>2, <1>3, <1>4 DEF GcNext, WorkerStep

\* The invariant holds throughout, whether pids are reused or not.
THEOREM GcInvariance == GcSpec => []GcInv
BY GcInitInv, StepGcInv, PTL DEF GcSpec

\* No two processes sweep at a time, and the lock of a dead one is free, for any
\* number of workers and also when pids are reused.
THEOREM SweepsAlone == GcSpec => []OneSweeper
<1>1. GcInv => OneSweeper
  BY DEF GcInv, LockHeld, Sweeping, OneSweeper, GcTypeOK
<1>2. QED
  BY <1>1, GcInvariance, PTL

\* The limits of a call and the types of its locals are kept.
THEOREM GcTypeCorrect == GcSpec => []GcTypeOK
<1>1. GcInv => GcTypeOK
  BY DEF GcInv
<1>2. QED
  BY <1>1, GcInvariance, PTL

\* While no pid is used twice, no worker loses the file it writes to.
THEOREM NothingOrphaned == PidReuse = FALSE => (GcSpec => []NoOrphans)
<1> SUFFICES ASSUME PidReuse = FALSE PROVE GcSpec => []NoOrphans
  OBVIOUS
<1>1. GcInv => NoOrphans
  BY DEF GcInv
<1>2. QED
  BY <1>1, GcInvariance, PTL

\* While no pid is used twice, only the files of the dead are deleted, although a
\* file is unlinked some steps after its owner was found dead.
THEOREM OnlyDeadDeleted == PidReuse = FALSE => (GcSpec => DeletesOnlyDead)
<1> SUFFICES ASSUME PidReuse = FALSE PROVE GcSpec => DeletesOnlyDead
  OBVIOUS
<1>1. GcInv /\ [GcNext]_gcVars => [\A f \in dir : f \notin dir' => PidOf[f] \in Pids \ alive]_gcVars
  <2> SUFFICES ASSUME GcInv, GcNext, NEW f \in dir, f \notin dir'
               PROVE  PidOf[f] \in Pids \ alive
    BY Zenon
  <2>1. \A e \in Files : OpenStore(e) \/ WriteStore(e) \/ TimePasses(e) => f \in dir'
    BY DEF OpenStore, WriteStore, TimePasses
  <2>2. \A p \in Pids : StartWorker(p) \/ ExitWorker(p) \/ TryLock(p) => f \in dir'
    BY DEF StartWorker, ExitWorker, TryLock
  <2>3. \A p \in Pids : GcStep(p) => RemoveFile(p)
    BY DEF GcStep, List, ListNone, Scan, ScanEnds, CheckAge, RemoveFails, WriteCursor,
       WriteCursorFails
  <2>4. PICK p \in Pids : RemoveFile(p)
    BY <2>1, <2>2, <2>3 DEF GcNext, WorkerStep
  <2>5. g[p].pc = "remove" /\ f = g[p].current
    BY <2>4 DEF RemoveFile
  <2>6. PidOf[f] \in born \ alive
    BY <2>5 DEF GcInv, CandidatesDead
  <2>7. QED
    BY <2>6 DEF GcInv, GcTypeOK
<1>2. QED
  BY <1>1, GcInvariance, PTL DEF GcSpec, DeletesOnlyDead

-----------------------------------------------------------------------------
(* gc_metric_files implements Collector *)

\* The candidate of a sweep, if it has one.
Candidate(p) == IF g[p].pc \in {"age", "remove"} THEN {g[p].current} ELSE {}

\* What is found is the candidate of the one that sweeps.
FoundIs ==
  /\ \A p \in Pids : Sweeping(p) => Found = Candidate(p)
  /\ lock = NoPid => Found = {}

\* As sweeps exclude one another, there is a single candidate.
LEMMA FoundFacts == GcInv => FoundIs
<1> SUFFICES ASSUME GcInv PROVE FoundIs
  OBVIOUS
<1>1. ASSUME NEW p \in Pids, Sweeping(p) PROVE Found = Candidate(p)
  <2>1. \A q \in Pids : g[q].pc \in {"age", "remove"} => q = p
    BY <1>1 DEF GcInv, LockHeld, Sweeping
  <2>2. QED
    BY <1>1, <2>1 DEF Found, Candidate
<1>2. ASSUME lock = NoPid PROVE Found = {}
  <2>1. \A q \in Pids : g[q].pc = "idle"
    BY <1>2, GcAssumption DEF GcInv, LockHeld, Sweeping
  <2>2. QED
    BY <2>1 DEF Found
<1>3. QED
  BY <1>1, <1>2 DEF FoundIs

\* A sweep is of a living worker.
LEMMA SweeperLives == ASSUME GcInv, NEW p \in Pids, Sweeping(p) PROVE alive # {}
<1>1. lock = p
  BY DEF GcInv, LockHeld
<1>2. lock \in alive
  BY <1>1, GcAssumption DEF GcInv, LockHeld
<1>3. QED
  BY <1>2

\* No worker has begun.
LEMMA GcInitRefines == GcInit => C!CollectorInit
<1> SUFFICES ASSUME GcInit PROVE C!CollectorInit
  OBVIOUS
<1>1. Found = {}
  BY DEF Found, GcInit, Idle
<1>2. QED
  BY <1>1 DEF GcInit, C!CollectorInit

\* The birth of a worker concerns no sweep.
LEMMA StartRefines == ASSUME NEW p \in Pids, StartWorker(p) PROVE C!Begin(p)
<1>1. Found' = Found
  BY DEF StartWorker, Found
<1>2. QED
  BY <1>1 DEF StartWorker, C!Begin

\* The candidate of a sweeper that dies is forgotten; another death concerns no sweep.
LEMMA ExitRefines ==
  ASSUME GcInv, FoundIs', NEW p \in Pids, ExitWorker(p)
  PROVE  C!Die(p)
<1>1. CASE Sweeping(p)
  <2>1. lock = p
    BY <1>1 DEF GcInv, LockHeld
  <2>2. Found' = {}
    BY <2>1 DEF ExitWorker, FoundIs
  <2>3. QED
    BY <2>2 DEF ExitWorker, C!Die
<1>2. CASE ~Sweeping(p)
  <2>1. g[p].pc = "idle"
    BY <1>2 DEF Sweeping
  <2>2. g'[p].pc = "idle" /\ \A q \in Pids \ {p} : g'[q] = g[q]
    BY DEF ExitWorker, GcInv, GcTypeOK, Idle
  <2>3. Found' = Found
    BY <2>1, <2>2 DEF Found
  <2>4. QED
    BY <2>3 DEF ExitWorker, C!Die
<1>3. QED
  BY <1>1, <1>2

\* Opening a store links its file; a write or the clock changes nothing here.
LEMMA FileStepRefines ==
  ASSUME NEW f \in Files, OpenStore(f) \/ WriteStore(f) \/ TimePasses(f)
  PROVE  C!Link(f) \/ UNCHANGED C!collectorVars
<1>1. Found' = Found
  BY DEF OpenStore, WriteStore, TimePasses, Found
<1>2. CASE OpenStore(f)
  BY <1>1, <1>2 DEF OpenStore, C!Link
<1>3. CASE WriteStore(f) \/ TimePasses(f)
  BY <1>1, <1>3 DEF WriteStore, TimePasses, C!collectorVars
<1>4. QED
  BY <1>2, <1>3

\* The steps of a sweep that has no candidate, before or after.
LEMMA IdleStepRefines ==
  ASSUME GcInv, FoundIs, FoundIs', NEW p \in Pids,
         TryLock(p) \/ List(p) \/ ListNone(p) \/ ScanEnds(p)
         \/ WriteCursor(p) \/ WriteCursorFails(p)
  PROVE  UNCHANGED C!collectorVars
<1>1. CASE TryLock(p)
  <2>1. Found = {}
    BY <1>1 DEF TryLock, FoundIs
  <2>2. g'[p].pc = "list"
    BY <1>1 DEF TryLock, GcInv, GcTypeOK
  <2>3. Found' = {}
    BY <2>2 DEF FoundIs, Sweeping, Candidate
  <2>4. QED
    BY <1>1, <2>1, <2>3 DEF TryLock, C!collectorVars
<1>2. CASE List(p) \/ ScanEnds(p)
  <2>1. Found = {}
    BY <1>2 DEF List, ScanEnds, FoundIs, Sweeping, Candidate
  <2>2. g'[p].pc \in {"scan", "cursor"}
    <3>1. g \in [Pids -> Locals]
      BY DEF GcInv, GcTypeOK, Locals
    <3>2. CASE List(p)
      <4>1. PICK files \in Listings : g' = [g EXCEPT ![p].pc = "scan", ![p].files = files,
                                                     ![p].start = StartIdx(files)]
        BY <3>2 DEF List
      <4>2. g'[p].pc = "scan"
        BY <3>1, <4>1 DEF Locals
      <4>3. QED
        BY <4>2
    <3>3. CASE ScanEnds(p)
      BY <3>1, <3>3 DEF ScanEnds, Locals
    <3>4. QED
      BY <1>2, <3>2, <3>3
  <2>3. Found' = {}
    BY <2>2 DEF FoundIs, Sweeping, Candidate
  <2>4. QED
    BY <1>2, <2>1, <2>3 DEF List, ScanEnds, C!collectorVars
<1>3. CASE ListNone(p) \/ WriteCursor(p) \/ WriteCursorFails(p)
  <2>1. Found = {}
    BY <1>3 DEF ListNone, WriteCursor, WriteCursorFails, Writing, FoundIs, Sweeping, Candidate
  <2>2. Found' = {}
    BY <1>3 DEF ListNone, WriteCursor, WriteCursorFails, FoundIs
  <2>3. QED
    BY <1>3, <2>1, <2>2 DEF ListNone, WriteCursor, WriteCursorFails, C!collectorVars
<1>4. QED
  BY <1>1, <1>2, <1>3

\* A file that was looked at is one found dead, or is passed over.
LEMMA ScanRefines ==
  ASSUME GcInv, FoundIs, FoundIs', NEW p \in Pids, Scan(p)
  PROVE  (\E f \in Files : C!FindDead(f)) \/ UNCHANGED C!collectorVars
<1> DEFINE at   == ((g[p].start + g[p].processed) % Len(g[p].files)) + 1
           file == g[p].files[at]
<1>1. g \in [Pids -> Locals]
  BY DEF GcInv, GcTypeOK, Locals
<1>2. alive # {} /\ Found = {}
  BY SweeperLives DEF Scan, FoundIs, Sweeping, Candidate
<1>3. CASE PidOf[file] \in Pids \ alive
  <2>1. at \in 1..Len(g[p].files)
    <3>1. g[p].start \in Nat /\ g[p].processed \in Nat /\ Len(g[p].files) \in Nat
      BY <1>1, GcAssumption DEF Locals
    <3>2. g[p].processed < Len(g[p].files)
      BY DEF Scan, MoreFiles
    <3> DEFINE n == Len(g[p].files)
               k == g[p].start + g[p].processed
    <3>3. n \in Nat \ {0} /\ k \in Nat
      BY <3>1, <3>2
    <3>4. k % n \in 0..(n - 1)
      <4> HIDE DEF n, k
      <4>1. QED
        BY <3>3
    <3>5. QED
      BY <3>3, <3>4
  <2>2. file \in Files
    BY <1>1, <2>1 DEF Locals
  <2>3. g'[p].pc = "age" /\ g'[p].current = file
    BY <1>1, <1>3 DEF Scan, Locals
  <2>4. Found' = {file}
    BY <2>3 DEF FoundIs, Sweeping, Candidate
  <2>5. QED
    BY <1>2, <1>3, <2>2, <2>4 DEF Scan, C!FindDead
<1>4. CASE PidOf[file] \notin Pids \ alive
  <2>1. g'[p].pc = "scan"
    BY <1>1, <1>4 DEF Scan, Locals
  <2>2. Found' = {}
    BY <2>1 DEF FoundIs, Sweeping, Candidate
  <2>3. QED
    BY <1>2, <2>2 DEF Scan, C!collectorVars
<1>5. QED
  BY <1>3, <1>4

\* A candidate that is too young, or that cannot be removed, is left alone.
LEMMA PassRefines ==
  ASSUME GcInv, FoundIs, FoundIs', NEW p \in Pids, CheckAge(p) \/ RemoveFails(p)
  PROVE  C!LeaveAlone \/ UNCHANGED C!collectorVars
<1>1. Found = {g[p].current}
  BY DEF CheckAge, RemoveFails, FoundIs, Sweeping, Candidate
<1>2. g'[p].pc \in {"scan", "remove"} /\ g'[p].current = g[p].current
  BY DEF CheckAge, RemoveFails, GcInv, GcTypeOK
<1>3. Found' = {} \/ Found' = Found
  BY <1>1, <1>2 DEF FoundIs, Sweeping, Candidate
<1>4. QED
  BY <1>3 DEF CheckAge, RemoveFails, C!LeaveAlone, C!collectorVars

\* What is unlinked is what was found.
LEMMA RemoveRefines ==
  ASSUME GcInv, FoundIs, FoundIs', NEW p \in Pids, RemoveFile(p)
  PROVE  \E f \in Files : C!Collect(f)
<1>1. g[p].current \in Files /\ Found = {g[p].current}
  BY DEF RemoveFile, GcInv, CandidatesListed, FoundIs, Sweeping, Candidate
<1>2. g'[p].pc \in {"scan", "cursor"}
  BY DEF RemoveFile, GcInv, GcTypeOK
<1>3. Found' = {}
  BY <1>2 DEF FoundIs, Sweeping, Candidate
<1>4. alive # {}
  BY SweeperLives DEF RemoveFile, Sweeping
<1>5. QED
  BY <1>1, <1>3, <1>4 DEF RemoveFile, C!Collect

\* Every step of a worker or a sweep is a step of the collector, or concerns none of
\* its variables.
LEMMA GcStepRefines ==
  ASSUME GcInv, FoundIs, FoundIs', [GcNext]_gcVars
  PROVE  [C!CollectorNext]_(C!collectorVars)
<1>1. CASE UNCHANGED gcVars
  BY <1>1 DEF gcVars, C!collectorVars, Found
<1>2. CASE \E p \in Pids : StartWorker(p) \/ ExitWorker(p)
  BY <1>2, StartRefines, ExitRefines DEF C!CollectorNext
<1>3. CASE \E f \in Files : OpenStore(f) \/ WriteStore(f) \/ TimePasses(f)
  BY <1>3, FileStepRefines DEF C!CollectorNext
<1>4. ASSUME NEW p \in Pids, TryLock(p) \/ GcStep(p)
      PROVE  [C!CollectorNext]_(C!collectorVars)
  BY <1>4, IdleStepRefines, ScanRefines, PassRefines, RemoveRefines
     DEF GcStep, C!CollectorNext
<1>5. QED
  BY <1>1, <1>2, <1>3, <1>4 DEF GcNext, WorkerStep

\* The collector implements Collector, also when pids are reused.
THEOREM CollectorRefinement == GcSpec => ImplementsCollector
<1>1. GcSpec => []GcInv
  BY GcInvariance
<1>2. GcInv => FoundIs
  BY FoundFacts
<1>3. GcInit => C!CollectorInit
  BY GcInitRefines
<1>4. GcInv /\ FoundIs /\ FoundIs' /\ [GcNext]_gcVars => [C!CollectorNext]_(C!collectorVars)
  BY GcStepRefines
<1>5. QED
  BY <1>1, <1>2, <1>3, <1>4, PTL DEF GcSpec, ImplementsCollector, C!CollectorSpec

=============================================================================
