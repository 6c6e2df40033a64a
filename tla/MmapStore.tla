------------------------------ MODULE MmapStore ------------------------------
(***************************************************************************)
(* MmapMetricStore (src/src/mmap_file.rs): the metric file of one worker   *)
(* and the worker that writes it through a shared mapping, with the death  *)
(* and restart of the worker at any step.                                  *)
(*                                                                         *)
(* A step is one store or system call that another process, or the next    *)
(* incarnation of the worker, can tell from the ones before and after it.  *)
(* The bytes of the file are abstracted to its header and two functions on *)
(* byte offsets: heads, the lengths and text of the entry that starts at   *)
(* an offset, and vals, the f64 at an offset.  Offsets that were never     *)
(* written hold the zeros of set_len.  Writing a range overwrites whatever *)
(* heads and values were in it.                                            *)
(*                                                                         *)
(* The mapping is MAP_SHARED: a store is in the file at once for every     *)
(* other process, and survives the worker (not the machine).               *)
(***************************************************************************)
EXTENDS EntryLayout, FiniteSets, Functions

CONSTANTS
  Keys,          \* the StoredMetricKeys a worker writes
  EmptyKey,      \* what twelve zero bytes decode to: ("", "", "")
  KeyLens,       \* the lengths of the three fields of a key
  Increments,    \* arguments of increment()
  SetValues,     \* arguments of set()
  OldFiles,      \* headers of the files a worker may find at its path
  MaxDoublings,  \* bound on the doublings of ensure_capacity
  MaxValue       \* bound on the values stored

AllKeys == Keys \cup {EmptyKey}

Updates == [kind : {"inc"}, arg : Increments] \cup [kind : {"set"}, arg : SetValues]

ASSUME KeysAssumption ==
  /\ KeyLens \in [AllKeys -> Lens]
  /\ KeyLens[EmptyKey] = NoLens
ASSUME UpdatesAssumption ==
  Increments \subseteq Int /\ SetValues \subseteq Int /\ MaxValue \in Int

\* A path holds nothing yet (a length below the header), or a file of another
\* format version, whose `used` and body may be anything.
ASSUME OldFilesAssumption ==
  /\ OldFiles \subseteq [len : Nat, used : Nat, version : Nat \ {FILE_FORMAT_VERSION}]
  /\ \A f \in OldFiles : f.len < HEADER_SIZE => f.used = 0 /\ f.version = 0

VARIABLES
  \* the file
  fileLen,    \* its length
  usedHdr,    \* bytes 0..4
  version,    \* bytes 4..8
  heads,      \* start offset of an entry -> its key
  vals,       \* value offset of an entry -> its value
  \* the worker
  pc,
  mapLen,     \* self.map.len()
  positions,  \* self.positions: key -> value offset
  pos,        \* the scan position of rebuild_index
  op,         \* the upsert in progress: its arguments, the value it computed
  start,      \* where that upsert appends
  ret         \* what the last call returned

fileVars   == <<fileLen, usedHdr, version, heads, vals>>
workerVars == <<pc, mapLen, positions, pos, op, start, ret>>
storeVars  == <<fileLen, usedHdr, version, heads, vals,
                pc, mapLen, positions, pos, op, start, ret>>

NoOp  == [key |-> EmptyKey, f |-> [kind |-> "set", arg |-> 0], value |-> 0]
NoRet == [status |-> "none", value |-> 0]

Ok(v)  == [status |-> "ok", value |-> v]
Err(e) == [status |-> e, value |-> 0]

ValueOffset(k) == CalcValueOffset(KeyLens[k])
TotalLen(k)    == CalcTotalLen(KeyLens[k])

Apply(f, v) == IF f.kind = "inc" THEN v + f.arg ELSE f.arg

Nothing == [o \in {} |-> 0]

\* f after the bytes lo..hi-1 were written over.
Overwrite(f, lo, hi) == Restrict(f, {o \in DOMAIN f : o < lo \/ hi <= o})

\* f after the file was cut at len (set_len to a smaller length).
Cut(f, len) == Restrict(f, {o \in DOMAIN f : o < len})

Put(f, o, v) == [x \in DOMAIN f \cup {o} |-> IF x = o THEN v ELSE f[x]]

Used == IF usedHdr = 0 THEN HEADER_SIZE ELSE usedHdr

UsedInvalid == Used > mapLen

\* What RawEntry::from_slice decodes at an offset.
HeadAt(o) == IF o \in DOMAIN heads THEN heads[o] ELSE EmptyKey
ValueAt(o) == IF o \in DOMAIN vals THEN vals[o] ELSE 0

InMap(off) == off + VALUE_SIZE <= mapLen

-----------------------------------------------------------------------------
(* open: with_file, then rebuild_index *)

OpenPcs   == {"fill", "init_used", "init_version", "rebuild"}
AppendPcs == {"remap", "save_key", "save_value", "publish"}
UpsertPcs == {"upsert", "return"} \cup AppendPcs
Pcs       == {"down", "open_failed", "idle"} \cup OpenPcs \cup UpsertPcs

SetLen(len) ==
  /\ fileLen' = len
  /\ heads' = Cut(heads, len)
  /\ vals' = Cut(vals, len)

\* Mutant of Open: every file is initialised.
OpenAndInit ==
  /\ pc \in {"down", "open_failed"}
  /\ fileLen' = IF fileLen < HEADER_SIZE THEN PageAligned(HEADER_SIZE) ELSE fileLen
  /\ mapLen' = fileLen'
  /\ pc' = "fill"
  /\ positions' = Nothing
  /\ pos' = HEADER_SIZE
  /\ UNCHANGED <<usedHdr, version, heads, vals, op, start, ret>>

Open ==
  /\ pc \in {"down", "open_failed"}
  /\ fileLen' = IF fileLen < HEADER_SIZE THEN PageAligned(HEADER_SIZE) ELSE fileLen
  /\ mapLen' = fileLen'
  /\ usedHdr' = IF version = FILE_FORMAT_VERSION /\ usedHdr = 0
                THEN HEADER_SIZE ELSE usedHdr
  /\ pc' = IF version = FILE_FORMAT_VERSION THEN "rebuild" ELSE "fill"
  /\ positions' = Nothing
  /\ pos' = HEADER_SIZE
  /\ UNCHANGED <<version, heads, vals, op, start, ret>>

\* initialize_empty_file: fill(0), then `used`, then the version.  A worker that
\* dies within fill(0) leaves a version that is not FILE_FORMAT_VERSION, like one
\* that dies before it.
InitFill ==
  /\ pc = "fill"
  /\ usedHdr' = 0
  /\ version' = 0
  /\ heads' = Nothing
  /\ vals' = Nothing
  /\ pc' = "init_used"
  /\ UNCHANGED <<fileLen, mapLen, positions, pos, op, start, ret>>

\* Mutant of InitUsed: `used` covers the whole file.
InitUsedAll ==
  /\ pc = "init_used"
  /\ usedHdr' = mapLen
  /\ pc' = "init_version"
  /\ UNCHANGED <<fileLen, version, heads, vals, mapLen, positions, pos, op, start, ret>>

InitUsed ==
  /\ pc = "init_used"
  /\ usedHdr' = HEADER_SIZE
  /\ pc' = "init_version"
  /\ UNCHANGED <<fileLen, version, heads, vals, mapLen, positions, pos, op, start, ret>>

InitVersion ==
  /\ pc = "init_version"
  /\ version' = FILE_FORMAT_VERSION
  /\ pc' = "rebuild"
  /\ UNCHANGED <<fileLen, usedHdr, heads, vals, mapLen, positions, pos, op, start, ret>>

\* One iteration of the loop of rebuild_index, or its exit.
RebuildDone ==
  /\ pc = "rebuild"
  /\ ~UsedInvalid
  /\ ~MoreEntries(pos, Used)
  /\ pc' = "idle"
  /\ pos' = HEADER_SIZE
  /\ UNCHANGED <<fileVars, mapLen, positions, op, start, ret>>

\* Mutant of RebuildEntry: the loop does not advance.
RebuildEntryStays ==
  /\ pc = "rebuild"
  /\ MoreEntries(pos, Used)
  /\ positions' = Put(positions, HeadAt(pos), pos + ValueOffset(HeadAt(pos)))
  /\ UNCHANGED <<fileVars, pc, mapLen, pos, op, start, ret>>

RebuildEntry ==
  LET key  == HeadAt(pos)
      next == pos + TotalLen(key)
      bad  == UsedInvalid \/ next > Used
  IN
  /\ pc = "rebuild"
  /\ UsedInvalid \/ MoreEntries(pos, Used)
  /\ pc' = IF bad THEN "open_failed" ELSE pc
  /\ positions' = IF bad THEN positions ELSE Put(positions, key, pos + ValueOffset(key))
  /\ pos' = IF bad THEN pos ELSE next
  /\ UNCHANGED <<fileVars, mapLen, op, start, ret>>

-----------------------------------------------------------------------------
(* increment and set: upsert; get *)

Current(k) == IF k \in DOMAIN positions THEN ValueAt(positions[k]) ELSE 0

Finish(outcome) ==
  /\ pc' = "idle"
  /\ op' = NoOp
  /\ start' = 0
  /\ ret' = outcome

BeginUpsert(k, f) ==
  /\ pc = "idle"
  /\ Apply(f, Current(k)) <= MaxValue
  /\ pc' = "upsert"
  /\ op' = [key |-> k, f |-> f, value |-> 0]
  /\ ret' = NoRet
  /\ UNCHANGED <<fileVars, mapLen, positions, pos, start>>

\* The key is indexed: load_value, f, save_value.
UpdateExisting ==
  LET off   == positions[op.key]
      value == Apply(op.f, ValueAt(off))
  IN
  /\ pc = "upsert"
  /\ op.key \in DOMAIN positions
  /\ IF InMap(off)
     THEN /\ vals' = Put(vals, off, value)
          /\ op' = [op EXCEPT !.value = value]
          /\ pc' = "return"
          /\ UNCHANGED <<start, ret>>
     ELSE Finish(Err("OutOfBounds")) /\ UNCHANGED vals
  /\ UNCHANGED <<fileLen, usedHdr, version, heads, mapLen, positions, pos>>

Appending == pc = "upsert" /\ op.key \notin DOMAIN positions

Appendable == ~UsedInvalid /\ FieldLensOk(KeyLens[op.key])

Reject ==
  /\ Appending
  /\ ~Appendable
  /\ Finish(Err(IF UsedInvalid THEN "InvalidUsed" ELSE "KeyTooLong"))
  /\ UNCHANGED <<fileVars, mapLen, positions, pos>>

Needed == Used + TotalLen(op.key)

\* Mutant of HasRoom: the value is left out of the length needed.
HasRoomValueless ==
  /\ Appending
  /\ Appendable
  /\ mapLen >= Needed - VALUE_SIZE
  /\ pc' = "save_key"
  /\ start' = Used
  /\ UNCHANGED <<fileVars, mapLen, positions, pos, op, ret>>

HasRoom ==
  /\ Appending
  /\ Appendable
  /\ mapLen >= Needed
  /\ pc' = "save_key"
  /\ start' = Used
  /\ UNCHANGED <<fileVars, mapLen, positions, pos, op, ret>>

\* Where the doubling loop of ensure_capacity stops: the first of base, 2*base,
\* 4*base, ... that is no less than needed.
Grown(base, needed) ==
  {n \in base..(2 * needed) :
     /\ n >= needed
     /\ n = base \/ n < 2 * needed
     /\ \E i \in 0..MaxDoublings : n = base * 2^i}

Grow ==
  /\ Appending
  /\ Appendable
  /\ mapLen < Needed
  /\ \E n \in Grown(mapLen, Needed) : SetLen(PageAligned(n))
  /\ pc' = "remap"
  /\ start' = Used
  /\ UNCHANGED <<usedHdr, version, mapLen, positions, pos, op, ret>>

\* flush or set_len fails (the disk is full, a limit is reached).
GrowError ==
  /\ Appending
  /\ Appendable
  /\ mapLen < Needed
  /\ Finish(Err("Io"))
  /\ UNCHANGED <<fileVars, mapLen, positions, pos>>

Remap ==
  /\ pc = "remap"
  /\ mapLen' = fileLen
  /\ pc' = "save_key"
  /\ UNCHANGED <<fileVars, positions, pos, op, start, ret>>

\* The new mapping fails: the file keeps its new length, the store its old map.
RemapError ==
  /\ pc = "remap"
  /\ Finish(Err("Io"))
  /\ UNCHANGED <<fileVars, mapLen, positions, pos>>

\* Mutant of SaveKey: `used` is written before the value.
SaveKeyPublishing ==
  LET end == start + ValueOffset(op.key) IN
  /\ pc = "save_key"
  /\ heads' = Put(Overwrite(heads, start, end), start, op.key)
  /\ vals' = Overwrite(vals, start, end)
  /\ usedHdr' = start + TotalLen(op.key)
  /\ pc' = "save_value"
  /\ UNCHANGED <<fileLen, version, mapLen, positions, pos, op, start, ret>>

\* RawEntry::save, up to the value.
SaveKey ==
  LET end == start + ValueOffset(op.key) IN
  /\ pc = "save_key"
  /\ heads' = Put(Overwrite(heads, start, end), start, op.key)
  /\ vals' = Overwrite(vals, start, end)
  /\ pc' = "save_value"
  /\ UNCHANGED <<fileLen, usedHdr, version, mapLen, positions, pos, op, start, ret>>

SaveValue ==
  LET off   == start + ValueOffset(op.key)
      value == Apply(op.f, 0)
  IN
  /\ pc = "save_value"
  /\ heads' = Overwrite(heads, off, off + VALUE_SIZE)
  /\ vals' = Put(vals, off, value)
  /\ op' = [op EXCEPT !.value = value]
  /\ pc' = "publish"
  /\ UNCHANGED <<fileLen, usedHdr, version, mapLen, positions, pos, start, ret>>

\* write_used_header, after the release fence.
Publish ==
  LET newUsed == start + TotalLen(op.key) IN
  /\ pc = "publish"
  /\ IF newUsed <= MaxU32
     THEN /\ usedHdr' = newUsed
          /\ pc' = "return"
          /\ UNCHANGED <<op, start, ret>>
     ELSE Finish(Err("Overflow")) /\ UNCHANGED usedHdr
  /\ UNCHANGED <<fileLen, version, heads, vals, mapLen, positions, pos>>

\* Mutant of Return: no positions.insert.
ReturnUnindexed ==
  /\ pc = "return"
  /\ Finish(Ok(op.value))
  /\ UNCHANGED <<fileVars, positions, mapLen, pos>>

\* positions.insert, if the entry is new, and the return to the caller.
Return ==
  /\ pc = "return"
  /\ positions' = IF op.key \in DOMAIN positions THEN positions
                  ELSE Put(positions, op.key, start + ValueOffset(op.key))
  /\ Finish(Ok(op.value))
  /\ UNCHANGED <<fileVars, mapLen, pos>>

GetResult(k) ==
  IF UsedInvalid THEN Err("InvalidUsed")
  ELSE IF k \notin DOMAIN positions THEN Ok(0)
  ELSE IF positions[k] + VALUE_SIZE > Used \/ ~InMap(positions[k]) THEN Err("OutOfBounds")
  ELSE Ok(ValueAt(positions[k]))

Get(k) ==
  /\ pc = "idle"
  /\ ret' = GetResult(k)
  /\ UNCHANGED <<fileVars, pc, mapLen, positions, pos, op, start>>

\* The worker exits or is killed: its memory goes, the page cache stays.
Crash ==
  /\ pc # "down"
  /\ pc' = "down"
  /\ mapLen' = 0
  /\ positions' = Nothing
  /\ pos' = HEADER_SIZE
  /\ op' = NoOp
  /\ start' = 0
  /\ ret' = NoRet
  /\ UNCHANGED fileVars

-----------------------------------------------------------------------------

StoreInit ==
  /\ \E f \in OldFiles : fileLen = f.len /\ usedHdr = f.used /\ version = f.version
  /\ heads = Nothing
  /\ vals = Nothing
  /\ pc = "down"
  /\ mapLen = 0
  /\ positions = Nothing
  /\ pos = HEADER_SIZE
  /\ op = NoOp
  /\ start = 0
  /\ ret = NoRet

OpenStep == InitFill \/ InitUsed \/ InitVersion \/ RebuildEntry \/ RebuildDone

UpsertStep ==
  \/ UpdateExisting
  \/ Reject
  \/ HasRoom
  \/ Grow
  \/ GrowError
  \/ Remap
  \/ RemapError
  \/ SaveKey
  \/ SaveValue
  \/ Publish
  \/ Return

StoreNext ==
  \/ Open
  \/ OpenStep
  \/ \E k \in Keys, f \in Updates : BeginUpsert(k, f)
  \/ UpsertStep
  \/ \E k \in Keys : Get(k)
  \/ Crash

StoreSpec == StoreInit /\ [][StoreNext]_storeVars

\* An open or an upsert that began runs on: the worker is one thread that
\* executes straight-line code.  Nothing says that it calls again, or that a
\* dead worker is replaced.
StoreFairSpec == StoreSpec /\ WF_storeVars(OpenStep) /\ WF_storeVars(UpsertStep)

-----------------------------------------------------------------------------
(* Properties *)

\* The series of the file, as any process that maps it afresh would find them.
Live      == version = FILE_FORMAT_VERSION
Published == {o \in DOMAIN heads : Live /\ o < usedHdr}
Cell(o)   == o + ValueOffset(heads[o])
EntryEnd(o) == o + TotalLen(heads[o])

\* positions is the index of the entries at the offsets of P.
Indexes(P) ==
  /\ DOMAIN positions = {heads[o] : o \in P}
  /\ \A o \in P : positions[heads[o]] = Cell(o)

Mapped == pc \notin {"down", "open_failed"}
Ready  == pc = "idle" \/ pc \in UpsertPcs

\* A new entry is published and not yet in positions.
JustPublished == pc = "return" /\ op.key \notin DOMAIN positions

TypeOK ==
  /\ fileLen \in Nat /\ usedHdr \in Nat /\ version \in Nat
  /\ DOMAIN heads \subseteq Nat /\ heads \in [DOMAIN heads -> Keys]
  /\ DOMAIN vals \subseteq Nat /\ vals \in [DOMAIN vals -> Int]
  /\ pc \in Pcs
  /\ mapLen \in Nat
  /\ DOMAIN positions \subseteq Keys /\ positions \in [DOMAIN positions -> Nat]
  /\ pos \in Nat
  /\ op \in [key : AllKeys, f : Updates \cup {NoOp.f}, value : Int]
  /\ start \in Nat
  /\ ret \in [status : {"none", "ok", "KeyTooLong", "Overflow", "Io",
                        "InvalidUsed", "OutOfBounds"},
              value : Int]

\* Whatever crashes, failed growths and rejected appends came before, `used`
\* stays within the file and the entries below it tile it without gap or
\* overlap, one per series: what rebuild_index and every reader take for granted
\* when they walk the file from HEADER_SIZE by total_len.
FileWellFormed ==
  Live =>
    /\ HEADER_SIZE <= usedHdr /\ usedHdr <= fileLen
    /\ usedHdr = HEADER_SIZE \/ HEADER_SIZE \in Published
    /\ \A o \in Published :
         /\ HEADER_SIZE <= o
         /\ EntryEnd(o) = usedHdr \/ EntryEnd(o) \in Published
         /\ Cell(o) \in DOMAIN vals
         /\ \A p \in Published : o < p => EntryEnd(o) <= p /\ heads[o] # heads[p]

\* A worker that has opened the file indexes all of its entries and nothing
\* else, except between the publication of a new entry and positions.insert.
IndexMatchesFile ==
  Ready => Indexes(IF JustPublished THEN Published \ {start} ELSE Published)

\* The file of a worker that died at any point can be opened again: rebuild_index
\* never fails on what its predecessors left.
AlwaysReopens == pc # "open_failed"

\* Every value lies at a multiple of 8, so that the 8 bytes another process loads
\* never come from two different stores (the padding of raw_entry.rs).
ValuesAligned == \A off \in DOMAIN vals : off % 8 = 0

\* No step moves, renames or withdraws a published entry: the exporter keeps value
\* offsets from one scrape to the next and resumes parsing where it stopped.
EntriesNeverMove ==
  [][\A o \in Published : o \in Published' /\ heads'[o] = heads[o]]_storeVars

\* The file and its worker are a metric map: a call has its effect at one instant
\* (the store of a value or of `used`), a call that dies has it or not, a call
\* that fails has none and fails only for the reasons of Errors.
KvBar ==
  [k \in {heads[o] : o \in Published} |->
     LET o == CHOOSE o \in Published : heads[o] = k IN ValueAt(Cell(o))]

CallBar ==
  IF pc \notin UpsertPcs THEN [state |-> "none"]
  ELSE [state |-> IF pc = "return" THEN "done" ELSE "invoked",
        key |-> op.key, f |-> op.f]

MM == INSTANCE MetricMap
        WITH Errors <- {"KeyTooLong", "Overflow", "Io"},
             kv <- KvBar, call <- CallBar, ret <- ret

ImplementsMetricMap == MM!Spec

\* An open or a call that began ends, unless the worker dies first.
WorkerReturns == (pc \notin {"idle", "down"}) ~> (pc \in {"idle", "down"})

\* A worker with counters only, none of which is ever decremented or set; and what
\* its file then comes to: every series stays, and none gets smaller.
CountersOnly == SetValues = {} /\ Increments \subseteq Nat

GrownTo(m, n) == \A k \in DOMAIN m : k \in DOMAIN n /\ m[k] <= n[k]

NonNegative == \A k \in DOMAIN KvBar : KvBar[k] \in Nat

-----------------------------------------------------------------------------
(* The inductive invariant *)

UsedAligned == Live => usedHdr % 8 = 0

MapWithinFile ==
  /\ Mapped => HEADER_SIZE <= mapLen /\ mapLen <= fileLen
  /\ pc = "rebuild" \/ Ready => Live /\ usedHdr <= mapLen

Initialising ==
  /\ pc \in {"fill", "init_used", "init_version"} =>
       ~Live /\ pos = HEADER_SIZE /\ positions = Nothing
  /\ pc \in {"init_used", "init_version"} => heads = Nothing
  /\ pc = "init_version" => usedHdr = HEADER_SIZE

\* The start of an entry, or the end of the last.
OnBoundary(o) == o = usedHdr \/ o \in Published

\* rebuild_index stands at the start of an entry or at the end of the last.
RebuildOnBoundary ==
  pc = "rebuild" =>
    /\ pos = usedHdr \/ pos \in Published
    /\ Indexes({o \in Published : o < pos})

AppendAtUsed ==
  /\ pc \in UpsertPcs => op.key \in Keys /\ op.f \in Updates
  /\ pc \in AppendPcs =>
       /\ op.key \notin DOMAIN positions
       /\ start = usedHdr
       /\ start + TotalLen(op.key) <= (IF pc = "remap" THEN fileLen ELSE mapLen)
  /\ pc \in {"save_value", "publish"} =>
       /\ start \in DOMAIN heads /\ heads[start] = op.key
       /\ \A o \in DOMAIN heads :
            ~(start < o /\ o < start + (IF pc = "publish" THEN TotalLen(op.key)
                                       ELSE ValueOffset(op.key)))
  /\ pc = "publish" =>
       /\ start + ValueOffset(op.key) \in DOMAIN vals
       /\ vals[start + ValueOffset(op.key)] = op.value
       /\ op.value = Apply(op.f, 0)

\* What `return` has to hand over is what the file holds.
ReturnsStored ==
  pc = "return" =>
    \E o \in Published :
      /\ heads[o] = op.key
      /\ vals[Cell(o)] = op.value
      /\ JustPublished => o = start

IInv ==
  /\ TypeOK
  /\ FileWellFormed
  /\ IndexMatchesFile
  /\ AlwaysReopens
  /\ ValuesAligned
  /\ UsedAligned
  /\ MapWithinFile
  /\ Initialising
  /\ RebuildOnBoundary
  /\ AppendAtUsed
  /\ ReturnsStored

=============================================================================
