--------------------------- MODULE MmapStoreProofs ---------------------------
(***************************************************************************)
(* Proofs about MmapStore, for every value of its constants: the layout of *)
(* an entry, the inductive invariant, what every step keeps, and that the  *)
(* steps of the worker and its file are those of the abstract map.         *)
(***************************************************************************)
EXTENDS MmapStore, TLAPS

-----------------------------------------------------------------------------
(* The layout of an entry *)

\* The value of an entry lies behind its length fields, at a multiple of 8 from
\* the start of the entry, whatever the lengths of its fields.
LEMMA LayoutFacts ==
  ASSUME NEW lens \in Lens
  PROVE  /\ CalcValueOffset(lens) \in Nat
         /\ CalcValueOffset(lens) >= LENGTH_FIELDS_SIZE
         /\ CalcValueOffset(lens) % 8 = 0
         /\ CalcTotalLen(lens) = CalcValueOffset(lens) + 8
<1> DEFINE n == LENGTH_FIELDS_SIZE + BodyLen(lens)
<1>1. n \in Nat /\ n >= LENGTH_FIELDS_SIZE
  BY DEF Lens, BodyLen, LENGTH_FIELDS_SIZE
<1>2. CalcValueOffset(lens) = n + ((8 - (n % 8)) % 8)
  BY DEF CalcValueOffset, PaddingLen
<1> HIDE DEF n
<1>3. QED
  BY <1>1, <1>2 DEF CalcTotalLen, VALUE_SIZE, LENGTH_FIELDS_SIZE

\* The layout of a key of the store: its value follows its text, at a multiple of 8
\* from the start of an entry that begins at one.
LEMMA KeyFacts ==
  ASSUME NEW k \in AllKeys
  PROVE  /\ ValueOffset(k) \in Nat /\ ValueOffset(k) >= 12 /\ ValueOffset(k) % 8 = 0
         /\ TotalLen(k) \in Nat /\ TotalLen(k) = ValueOffset(k) + 8
BY KeysAssumption, LayoutFacts DEF ValueOffset, TotalLen, LENGTH_FIELDS_SIZE

\* Page rounding never makes a length smaller, nor a positive one zero.
LEMMA PageAlignedFacts ==
  ASSUME NEW n \in Nat
  PROVE  PageAligned(n) \in Nat /\ PageAligned(n) >= n
<1>1. n % PageSize \in 0..(PageSize - 1)
  BY PageSizeAssumption, SMT
<1>2. QED
  BY <1>1, PageSizeAssumption DEF PageAligned

\* The closures of increment and set compute integers.
LEMMA ApplyType ==
  ASSUME NEW f \in Updates, NEW v \in Int
  PROVE  Apply(f, v) \in Int
<1>1. f.arg \in Int
  <2>1. CASE f \in [kind : {"inc"}, arg : Increments]
    BY <2>1, UpdatesAssumption
  <2>2. CASE f \in [kind : {"set"}, arg : SetValues]
    BY <2>2, UpdatesAssumption
  <2>3. QED
    BY <2>1, <2>2 DEF Updates
<1>2. QED
  BY <1>1 DEF Apply

-----------------------------------------------------------------------------
(* The inductive invariant *)

\* A file that nobody has opened yet, and no worker.
THEOREM InitIInv == StoreInit => IInv
<1> SUFFICES ASSUME StoreInit PROVE IInv
  OBVIOUS
<1> USE DEF StoreInit, Nothing, NoOp, NoRet, Live, Published, Mapped, Ready, UpsertPcs, AppendPcs
<1>1. TypeOK
  BY OldFilesAssumption DEF TypeOK, Pcs, AllKeys, HEADER_SIZE, OpenPcs, Updates, FILE_FORMAT_VERSION
<1>2. ~Live
  BY OldFilesAssumption
<1>3. FileWellFormed /\ UsedAligned /\ MapWithinFile /\ Initialising
  BY <1>2 DEF FileWellFormed, UsedAligned, MapWithinFile, Initialising
<1>4. IndexMatchesFile /\ AlwaysReopens /\ RebuildOnBoundary /\ AppendAtUsed /\ ReturnsStored
  BY DEF IndexMatchesFile, AlwaysReopens, RebuildOnBoundary, AppendAtUsed, ReturnsStored
<1>5. ValuesAligned
  BY DEF ValuesAligned
<1>6. QED
  BY <1>1, <1>3, <1>4, <1>5 DEF IInv

\* What a step that leaves the file alone keeps.
LEMMA SameFile ==
  ASSUME IInv, UNCHANGED fileVars
  PROVE  /\ FileWellFormed' /\ ValuesAligned' /\ UsedAligned'
         /\ Live' = Live /\ Published' = Published
         /\ \A o : Cell(o)' = Cell(o)
         /\ \A P : positions' = positions => (Indexes(P)' <=> Indexes(P))
BY DEF IInv, fileVars, FileWellFormed, ValuesAligned, UsedAligned, Live, Published,
       Cell, EntryEnd, Indexes

\* The death of the worker loses its memory and leaves the file as it is.
LEMMA CrashKeepsIInv == IInv /\ Crash => IInv'
<1> SUFFICES ASSUME IInv, Crash PROVE IInv'
  OBVIOUS
<1>1. FileWellFormed' /\ ValuesAligned' /\ UsedAligned'
  BY SameFile DEF Crash
<1>2. TypeOK'
  BY DEF IInv, TypeOK, Crash, fileVars, Nothing, NoOp, NoRet, HEADER_SIZE, Pcs, AllKeys
<1>3. pc' = "down" /\ positions' = Nothing
  BY DEF Crash
<1>4. QED
  BY <1>1, <1>2, <1>3 DEF IInv, IndexMatchesFile, AlwaysReopens, MapWithinFile, Initialising,
     RebuildOnBoundary, AppendAtUsed, ReturnsStored, Mapped, Ready, UpsertPcs, AppendPcs

\* A read changes nothing but the result.
LEMMA GetKeepsIInv == ASSUME NEW k \in Keys PROVE IInv /\ Get(k) => IInv'
<1> SUFFICES ASSUME IInv, Get(k) PROVE IInv'
  OBVIOUS
<1> USE DEF Get
<1>1. FileWellFormed' /\ ValuesAligned' /\ UsedAligned' /\ Published' = Published
  BY SameFile
<1>2. GetResult(k) \in [status : {"none", "ok", "KeyTooLong", "Overflow", "Io",
                                  "InvalidUsed", "OutOfBounds"}, value : Int]
  BY DEF IInv, TypeOK, GetResult, Err, Ok, ValueAt
<1>3. TypeOK'
  BY <1>2 DEF IInv, TypeOK, fileVars
<1>4. QED
  BY <1>1, <1>3, SameFile DEF IInv, IndexMatchesFile, AlwaysReopens, MapWithinFile, Initialising,
     RebuildOnBoundary, AppendAtUsed, ReturnsStored, Mapped, Ready, UpsertPcs, AppendPcs, JustPublished, fileVars, Live

\* with_file: a file shorter than its header grows, one of this version goes to
\* rebuild_index with `used` as it is, any other is initialised.
LEMMA OpenKeepsIInv == IInv /\ Open => IInv'
<1> SUFFICES ASSUME IInv, Open PROVE IInv'
  OBVIOUS
<1> USE DEF Open
<1>1. fileLen' \in Nat /\ fileLen' >= fileLen /\ fileLen' >= HEADER_SIZE
  BY PageAlignedFacts DEF IInv, TypeOK, HEADER_SIZE
<1>2. Live' = Live /\ Published' = Published /\ usedHdr' \in Nat /\ (Live => usedHdr' = usedHdr)
  BY DEF IInv, TypeOK, FileWellFormed, Live, Published, HEADER_SIZE
<1>3. TypeOK'
  BY <1>1, <1>2 DEF IInv, TypeOK, Nothing, HEADER_SIZE, Pcs, OpenPcs
<1>4. FileWellFormed'
  BY <1>1, <1>2 DEF IInv, TypeOK, FileWellFormed, Cell, EntryEnd, Live
<1>5. ValuesAligned' /\ UsedAligned'
  BY <1>2 DEF IInv, ValuesAligned, UsedAligned
<1>6. RebuildOnBoundary'
  <2> SUFFICES ASSUME pc' = "rebuild"
               PROVE  /\ pos' = usedHdr' \/ pos' \in Published'
                      /\ Indexes({o \in Published : o < pos})'
    BY DEF RebuildOnBoundary
  <2>1. Live /\ FileWellFormed
    BY DEF Live, IInv
  <2>2. \A o \in Published : ~(o < HEADER_SIZE)
    BY <2>1 DEF FileWellFormed, IInv, TypeOK, HEADER_SIZE, Published
  <2>3. {o \in Published' : o < pos'} = {}
    BY <1>2, <2>2
  <2>4. pos' = usedHdr' \/ pos' \in Published'
    BY <1>2, <2>1 DEF FileWellFormed
  <2>5. QED
    BY <2>3, <2>4 DEF Indexes, Nothing
<1>7. MapWithinFile'
  BY <1>1, <1>2 DEF IInv, TypeOK, MapWithinFile, FileWellFormed, Mapped, Ready, UpsertPcs, AppendPcs, Live
<1>8. Initialising'
  BY <1>2 DEF Initialising, Live
<1>9. QED
  BY <1>3, <1>4, <1>5, <1>6, <1>7, <1>8 DEF IInv, IndexMatchesFile, AlwaysReopens,
     AppendAtUsed, ReturnsStored, Mapped, Ready, UpsertPcs, AppendPcs

\* fill(0) takes a file that was not of this version, and leaves it so.
LEMMA InitFillKeepsIInv == IInv /\ InitFill => IInv'
<1> SUFFICES ASSUME IInv, InitFill PROVE IInv'
  OBVIOUS
<1> USE DEF InitFill, IInv
<1>1. TypeOK'
  BY DEF TypeOK, Nothing, Pcs, OpenPcs
<1>2. ~Live'
  BY DEF Live, FILE_FORMAT_VERSION
<1>3. Initialising'
  BY <1>2 DEF Initialising
<1>4. FileWellFormed' /\ UsedAligned' /\ ValuesAligned'
  BY <1>2 DEF FileWellFormed, UsedAligned, ValuesAligned, Nothing
<1>5. QED
  BY <1>1, <1>3, <1>4 DEF IndexMatchesFile, AlwaysReopens, MapWithinFile, Mapped, 
     RebuildOnBoundary, AppendAtUsed, ReturnsStored, Ready, UpsertPcs, AppendPcs

\* `used` is written while the file is still of no version.
LEMMA InitUsedKeepsIInv == IInv /\ InitUsed => IInv'
<1> SUFFICES ASSUME IInv, InitUsed PROVE IInv'
  OBVIOUS
<1> USE DEF InitUsed, IInv
<1>1. TypeOK'
  BY DEF TypeOK, Pcs, OpenPcs, HEADER_SIZE
<1>2. ~Live /\ ~Live'
  BY DEF Live, Initialising
<1>3. QED
  BY <1>1, <1>2 DEF FileWellFormed, UsedAligned, ValuesAligned, IndexMatchesFile, AlwaysReopens, MapWithinFile, Initialising, Mapped,
     RebuildOnBoundary, AppendAtUsed, ReturnsStored, Ready, UpsertPcs, AppendPcs

\* The version makes an empty file of this format, ready for rebuild_index.
LEMMA InitVersionKeepsIInv == IInv /\ InitVersion => IInv'
<1> SUFFICES ASSUME IInv, InitVersion PROVE IInv'
  OBVIOUS
<1> USE DEF InitVersion, IInv
<1>1. TypeOK'
  BY DEF TypeOK, Pcs, OpenPcs, FILE_FORMAT_VERSION

<1>2. ~Live /\ Live' /\ heads = Nothing /\ usedHdr = HEADER_SIZE
  BY DEF Live, Initialising
<1>3. Published' = {}
  BY <1>2 DEF Published, Nothing
<1>4. FileWellFormed' /\ UsedAligned' /\ ValuesAligned'
  BY <1>2, <1>3 DEF FileWellFormed, UsedAligned, ValuesAligned, MapWithinFile, Mapped, TypeOK, HEADER_SIZE
<1>5. pos = HEADER_SIZE /\ positions = Nothing
  BY DEF Initialising
<1>6. RebuildOnBoundary'
  BY <1>2, <1>3, <1>5 DEF RebuildOnBoundary, Indexes, Nothing
<1>7. QED
  BY <1>1, <1>2, <1>4, <1>6 DEF IndexMatchesFile, AlwaysReopens, MapWithinFile, Initialising, Mapped,
     AppendAtUsed, ReturnsStored, Ready, UpsertPcs, AppendPcs

\* The loop of rebuild_index ends at `used`, with all entries indexed.
LEMMA RebuildDoneKeepsIInv == IInv /\ RebuildDone => IInv'
<1> SUFFICES ASSUME IInv, RebuildDone PROVE IInv'
  OBVIOUS
<1> USE DEF RebuildDone, IInv
<1>1. TypeOK'
  BY DEF TypeOK, Pcs, OpenPcs, HEADER_SIZE, fileVars
<1>2. FileWellFormed' /\ ValuesAligned' /\ UsedAligned' /\ Published' = Published
  BY SameFile
<1>3. Live /\ usedHdr \in Nat /\ HEADER_SIZE <= usedHdr /\ Used = usedHdr
  BY DEF MapWithinFile, FileWellFormed, Used, TypeOK, HEADER_SIZE
<1>4. pos = usedHdr
  <2>1. ASSUME pos \in Published PROVE FALSE
    <3>1. EntryEnd(pos) = usedHdr \/ EntryEnd(pos) \in Published
      BY <2>1, <1>3 DEF FileWellFormed
    <3>2. EntryEnd(pos) <= usedHdr
      BY <3>1, <2>1, <1>3 DEF Published, TypeOK
    <3>3. heads[pos] \in AllKeys /\ pos \in Nat
      BY <2>1 DEF Published, TypeOK, AllKeys
    <3>4. QED
      BY <3>2, <3>3, <1>3, KeyFacts DEF EntryEnd, MoreEntries, LENGTH_FIELDS_SIZE
  <2>2. QED
    BY <2>1 DEF RebuildOnBoundary
<1>5. {o \in Published : o < pos} = Published
  BY <1>4, <1>3 DEF Published
<1>6. Indexes(Published)'
  BY <1>5, <1>2, SameFile DEF RebuildOnBoundary
<1>7. IndexMatchesFile'
  BY <1>6, <1>2 DEF IndexMatchesFile, JustPublished
<1>8. QED
  BY <1>1, <1>2, <1>7, SameFile DEF AlwaysReopens, MapWithinFile, Initialising, Mapped, 
     RebuildOnBoundary, AppendAtUsed, ReturnsStored, Ready, UpsertPcs, AppendPcs, fileVars, Live

\* An entry at the scan position of rebuild_index ends within `used`.
LEMMA ScanFindsEntry ==
  ASSUME IInv, pc = "rebuild", UsedInvalid \/ MoreEntries(pos, Used)
  PROVE  /\ Used = usedHdr /\ ~UsedInvalid
         /\ pos \in Published /\ HeadAt(pos) = heads[pos]
         /\ EntryEnd(pos) <= usedHdr
<1> USE DEF IInv
<1>1. Live /\ Used = usedHdr /\ ~UsedInvalid
  BY DEF MapWithinFile, FileWellFormed, Used, UsedInvalid, TypeOK, HEADER_SIZE
<1>2. pos \in Published
  BY <1>1 DEF RebuildOnBoundary, MoreEntries, LENGTH_FIELDS_SIZE, TypeOK
<1>3. EntryEnd(pos) <= usedHdr
  BY <1>1, <1>2 DEF FileWellFormed, Published, TypeOK
<1>4. QED
  BY <1>1, <1>2, <1>3 DEF HeadAt, Published

\* An iteration of rebuild_index finds an entry, never fails, and indexes it.
LEMMA RebuildEntryKeepsIInv == IInv /\ RebuildEntry => IInv'
<1> SUFFICES ASSUME IInv, RebuildEntry PROVE IInv'
  OBVIOUS
<1> DEFINE key == heads[pos]
<1> USE DEF IInv
<1>1. FileWellFormed' /\ ValuesAligned' /\ UsedAligned' /\ Published' = Published /\ Live' = Live
  BY SameFile DEF RebuildEntry
<1>2. /\ Used = usedHdr /\ ~UsedInvalid /\ pos \in Published /\ HeadAt(pos) = key
      /\ EntryEnd(pos) <= usedHdr
  BY ScanFindsEntry DEF RebuildEntry
<1>3. /\ key \in Keys /\ pos \in Nat /\ usedHdr \in Nat
      /\ Cell(pos) \in Nat /\ EntryEnd(pos) = Cell(pos) + 8 /\ pos < Cell(pos)
  BY <1>2, KeyFacts DEF Published, TypeOK, AllKeys, Cell, EntryEnd
<1>4. pc' = "rebuild" /\ pos' = EntryEnd(pos) /\ positions' = Put(positions, key, Cell(pos))
  <2>1. pos + TotalLen(key) = EntryEnd(pos) /\ ~(EntryEnd(pos) > Used)
    BY <1>2, <1>3 DEF EntryEnd
  <2>2. QED
    BY <1>2, <2>1 DEF RebuildEntry, Cell
<1>5. TypeOK'
  BY <1>4, <1>3 DEF RebuildEntry, TypeOK, Put, fileVars
<1>6. {o \in Published : o < EntryEnd(pos)} = {o \in Published : o < pos} \cup {pos}
  <2>1. Live /\ Published \subseteq Nat
    BY DEF MapWithinFile, RebuildEntry, Published, TypeOK
  <2>2. \A o \in Published : o > pos => EntryEnd(pos) <= o
    BY <1>2, <2>1 DEF FileWellFormed
  <2>3. \A o \in Published : o < EntryEnd(pos) <=> o < pos \/ o = pos
    BY <2>1, <2>2, <1>3
  <2>4. QED
    BY <2>3, <1>2, Zenon
<1>7. Indexes({o \in Published : o < pos})
  BY DEF RebuildOnBoundary, RebuildEntry
<1>8. \A o \in Published : o < pos => heads[o] # key
  BY <1>2 DEF FileWellFormed, MapWithinFile, RebuildEntry
<1>9. RebuildOnBoundary'
  <2> DEFINE P == {o \in Published : o < pos}
  <2>1. {o \in Published' : o < pos'} = P \cup {pos}
    BY <1>1, <1>4, <1>6, Zenon
  <2>2. pos' = usedHdr' \/ pos' \in Published'
    BY <1>2, <1>4, <1>1 DEF RebuildEntry, fileVars, FileWellFormed, MapWithinFile
  <2>3. \A o \in P : heads[o] # key
    BY <1>8
  <2>4. \A o : Cell(o)' = Cell(o) /\ heads' = heads
    BY SameFile DEF RebuildEntry, fileVars
  <2> HIDE DEF P
  <2>5. DOMAIN positions' = {heads[o] : o \in P \cup {pos}}
    BY <1>4, <1>7 DEF Indexes, Put, P
  <2>6. \A o \in P \cup {pos} : positions'[heads[o]] = Cell(o)
    BY <1>4, <1>7, <2>3, <2>5 DEF Indexes, Put, P
  <2>7. QED
    BY <2>1, <2>2, <2>4, <2>5, <2>6, <1>4 DEF RebuildOnBoundary, Indexes
<1>10. QED
  BY <1>1, <1>4, <1>5, <1>9 DEF IndexMatchesFile, AlwaysReopens, MapWithinFile, Initialising, Mapped,
     AppendAtUsed, ReturnsStored, Ready, UpsertPcs, AppendPcs, RebuildEntry, fileVars

\* A call that begins has its key and closure, and nothing else yet.
LEMMA BeginUpsertKeepsIInv ==
  ASSUME NEW k \in Keys, NEW f \in Updates
  PROVE  IInv /\ BeginUpsert(k, f) => IInv'
<1> SUFFICES ASSUME IInv, BeginUpsert(k, f) PROVE IInv'
  OBVIOUS
<1> USE DEF BeginUpsert, IInv
<1>1. FileWellFormed' /\ ValuesAligned' /\ UsedAligned' /\ Published' = Published /\ Live' = Live
  BY SameFile
<1>2. op' = [key |-> k, f |-> f, value |-> 0] /\ pc' = "upsert" /\ ret' = NoRet
  OBVIOUS
<1>3. op' \in [key : AllKeys, f : Updates \cup {NoOp.f}, value : Int]
  BY <1>2 DEF AllKeys
<1>4. TypeOK'
  BY <1>2, <1>3 DEF TypeOK, Pcs, UpsertPcs, NoRet, fileVars
<1>5. IndexMatchesFile'
  BY <1>1, SameFile DEF IndexMatchesFile, Ready, JustPublished
<1>6. QED
  BY <1>1, <1>2, <1>4, <1>5 DEF AlwaysReopens, MapWithinFile, Initialising, Mapped,
     RebuildOnBoundary, AppendAtUsed, ReturnsStored, Ready, UpsertPcs, AppendPcs, fileVars

\* The calls that fail leave everything as it was but ret (and the length of the
\* file, if the new mapping is what failed).
LEMMA FailureKeepsIInv ==
  ASSUME IInv, NEW e \in {"KeyTooLong", "Overflow", "Io", "InvalidUsed", "OutOfBounds"},
         pc \in {"upsert"} \cup AppendPcs,
         Finish(Err(e)), UNCHANGED <<fileVars, mapLen, positions, pos>>
  PROVE  IInv'
<1> USE DEF Finish, IInv
<1>1. FileWellFormed' /\ ValuesAligned' /\ UsedAligned' /\ Published' = Published /\ Live' = Live
  BY SameFile
<1>2. op' = NoOp /\ pc' = "idle" /\ start' = 0 /\ ret' = [status |-> e, value |-> 0]
  BY DEF Err
<1>3. op' \in [key : AllKeys, f : Updates \cup {NoOp.f}, value : Int]
  BY <1>2 DEF AllKeys, NoOp
<1>4. TypeOK'
  BY <1>2, <1>3 DEF TypeOK, Pcs, fileVars
<1>5. Indexes(Published)
  BY DEF IndexMatchesFile, Ready, JustPublished, AppendPcs, UpsertPcs
<1>6. IndexMatchesFile'
  BY <1>1, <1>2, <1>5, SameFile DEF IndexMatchesFile, JustPublished
<1>7. QED
  BY <1>1, <1>2, <1>4, <1>6 DEF AlwaysReopens, MapWithinFile, Initialising, Mapped,
     RebuildOnBoundary, AppendAtUsed, ReturnsStored, Ready, UpsertPcs, AppendPcs, fileVars

\* A call that fails leaves the file as it is.
LEMMA RejectKeepsIInv == IInv /\ (Reject \/ GrowError \/ RemapError) => IInv'
BY FailureKeepsIInv DEF Reject, Appending, GrowError, RemapError, AppendPcs

\* What a step that leaves the published entries alone keeps.
LEMMA SamePublished ==
  ASSUME IInv, Live, Live', usedHdr' = usedHdr, usedHdr <= fileLen',
         \A o : o \in DOMAIN heads' /\ o < usedHdr <=> o \in Published,
         \A o \in Published : heads'[o] = heads[o],
         \A o \in Published : Cell(o) \in DOMAIN vals'
  PROVE  /\ FileWellFormed' /\ UsedAligned' /\ Published' = Published
         /\ \A o \in Published : Cell(o)' = Cell(o)
         /\ positions' = positions => (Indexes(Published)' <=> Indexes(Published))
<1>1. Published' = Published
  BY DEF Published
<1>2. \A o \in Published : Cell(o)' = Cell(o) /\ EntryEnd(o)' = EntryEnd(o)
  BY DEF Cell, EntryEnd
<1>3. FileWellFormed'
  BY <1>1, <1>2 DEF IInv, FileWellFormed
<1>4. UsedAligned'
  BY DEF IInv, UsedAligned
<1>5. ASSUME positions' = positions
      PROVE  Indexes(Published)' <=> Indexes(Published)
  <2>1. {heads'[o] : o \in Published} = {heads[o] : o \in Published}
    OBVIOUS
  <2>2. QED
    BY <1>1, <1>2, <1>5, <2>1 DEF Indexes
<1>6. QED
  BY <1>1, <1>2, <1>3, <1>4, <1>5

\* The update of an indexed key stores a value in the cell of its entry.
LEMMA UpdateExistingKeepsIInv == IInv /\ UpdateExisting => IInv'
<1> SUFFICES ASSUME IInv, UpdateExisting PROVE IInv'
  OBVIOUS
<1> DEFINE off == positions[op.key]
           value == Apply(op.f, ValueAt(off))
<1> USE DEF IInv
<1>1. /\ pc = "upsert" /\ op.key \in DOMAIN positions /\ op.f \in Updates
      /\ UNCHANGED <<fileLen, usedHdr, version, heads, mapLen, positions, pos>>
  BY DEF UpdateExisting, AppendAtUsed, UpsertPcs
<1>2. Live /\ Indexes(Published) /\ usedHdr <= mapLen /\ usedHdr <= fileLen
  BY <1>1 DEF IndexMatchesFile, JustPublished, MapWithinFile, FileWellFormed, Ready, UpsertPcs
<1>3. PICK o \in Published : heads[o] = op.key /\ off = Cell(o)
  BY <1>1, <1>2 DEF Indexes
<1>4. Cell(o) \in DOMAIN vals /\ EntryEnd(o) <= usedHdr /\ EntryEnd(o) = Cell(o) + 8
  <2>1. o \in Nat /\ heads[o] \in AllKeys
    BY DEF Published, TypeOK, AllKeys
  <2>2. EntryEnd(o) = usedHdr \/ EntryEnd(o) \in Published
    BY <1>2 DEF FileWellFormed
  <2>3. QED
    BY <1>2, <2>1, <2>2, KeyFacts DEF FileWellFormed, Published, TypeOK, Cell, EntryEnd
<1>5. InMap(off)
  BY <1>2, <1>3, <1>4 DEF InMap, VALUE_SIZE, TypeOK
<1>6. /\ vals' = Put(vals, off, value) /\ op' = [op EXCEPT !.value = value]
      /\ pc' = "return" /\ UNCHANGED <<start, ret>>
  BY <1>5 DEF UpdateExisting
<1>7. value \in Int
  BY <1>1, <1>3, <1>4, ApplyType DEF ValueAt, TypeOK
<1>8. DOMAIN vals' = DOMAIN vals /\ vals' \in [DOMAIN vals -> Int] /\ vals'[Cell(o)] = value
  BY <1>3, <1>4, <1>6, <1>7 DEF Put, TypeOK
<1>9. /\ op' \in [key : AllKeys, f : Updates \cup {NoOp.f}, value : Int]
      /\ op'.key = op.key /\ op'.f = op.f /\ op'.value = value
  BY <1>6, <1>7 DEF TypeOK
<1>10. TypeOK'
  BY <1>1, <1>6, <1>8, <1>9 DEF TypeOK, Pcs, UpsertPcs
<1>11. /\ FileWellFormed' /\ UsedAligned' /\ Published' = Published /\ Cell(o)' = Cell(o)
       /\ Indexes(Published)'
  BY <1>1, <1>2, <1>8, SamePublished DEF FileWellFormed, Published, Live
<1>12. ValuesAligned'
  BY <1>8 DEF ValuesAligned
<1>13. IndexMatchesFile' /\ ReturnsStored'
  BY <1>1, <1>3, <1>6, <1>8, <1>9, <1>11 DEF IndexMatchesFile, ReturnsStored, JustPublished
<1>14. QED
  BY <1>1, <1>6, <1>9, <1>10, <1>11, <1>12, <1>13 DEF AlwaysReopens, MapWithinFile, Initialising, Mapped,
     RebuildOnBoundary, AppendAtUsed, Ready, UpsertPcs, AppendPcs, Live

\* What an append starts from.
LEMMA AppendStart ==
  ASSUME IInv, Appending, Appendable
  PROVE  /\ Live /\ Used = usedHdr /\ usedHdr <= mapLen /\ Needed = usedHdr + TotalLen(op.key)
         /\ op.key \in Keys /\ op.f \in Updates /\ Indexes(Published)
         /\ TotalLen(op.key) \in Nat /\ Needed \in Nat
<1> USE DEF IInv, Appending
<1>1. Live /\ Used = usedHdr /\ usedHdr <= mapLen /\ op.key \in Keys /\ op.f \in Updates
  BY DEF MapWithinFile, FileWellFormed, Used, TypeOK, HEADER_SIZE, Ready, UpsertPcs, AppendAtUsed
<1>2. Indexes(Published)
  BY DEF IndexMatchesFile, Ready, JustPublished, UpsertPcs
<1>3. TotalLen(op.key) \in Nat
  BY <1>1, KeyFacts DEF AllKeys
<1>4. QED
  BY <1>1, <1>2, <1>3 DEF Needed, TypeOK

\* An append that fits the mapping goes to `used`.
LEMMA HasRoomKeepsIInv == IInv /\ HasRoom => IInv'
<1> SUFFICES ASSUME IInv, HasRoom PROVE IInv'
  OBVIOUS
<1> USE DEF HasRoom, IInv
<1>1. FileWellFormed' /\ ValuesAligned' /\ UsedAligned' /\ Published' = Published /\ Live' = Live
  BY SameFile
<1>2. /\ Used = usedHdr /\ Needed = usedHdr + TotalLen(op.key)
      /\ op.key \in Keys /\ op.f \in Updates /\ Indexes(Published) /\ Live
  BY AppendStart
<1>3. TypeOK'
  BY <1>2 DEF TypeOK, Pcs, UpsertPcs, AppendPcs, fileVars
<1>4. IndexMatchesFile'
  BY <1>1, <1>2, SameFile DEF IndexMatchesFile, JustPublished
<1>5. AppendAtUsed'
  BY <1>2 DEF AppendAtUsed, Appending, fileVars
<1>6. QED
  BY <1>1, <1>3, <1>4, <1>5 DEF AlwaysReopens, MapWithinFile, Initialising, Mapped, Appending,
     RebuildOnBoundary, ReturnsStored, Ready, UpsertPcs, AppendPcs, fileVars

\* ensure_capacity makes room for the entry and cuts nothing below `used`, even where
\* it shrinks a file whose last growth was not mapped.
LEMMA GrowKeepsIInv == IInv /\ Grow => IInv'
<1> SUFFICES ASSUME IInv, Grow PROVE IInv'
  OBVIOUS
<1> USE DEF IInv
<1>1. /\ Used = usedHdr /\ Needed = usedHdr + TotalLen(op.key) /\ usedHdr <= mapLen /\ Needed \in Nat
      /\ op.key \in Keys /\ op.f \in Updates /\ Indexes(Published) /\ Live /\ TotalLen(op.key) \in Nat
  BY AppendStart DEF Grow
<1>2. PICK n \in Grown(mapLen, Needed) : SetLen(PageAligned(n))
  BY DEF Grow
<1>3. n \in Nat /\ n >= Needed
  BY <1>1, <1>2 DEF Grown, TypeOK
<1>4. fileLen' \in Nat /\ fileLen' >= Needed /\ fileLen' >= mapLen
  BY <1>1, <1>2, <1>3, PageAlignedFacts DEF SetLen, Grow, TypeOK
<1>5. /\ DOMAIN heads' = {o \in DOMAIN heads : o < fileLen'} /\ DOMAIN vals' = {o \in DOMAIN vals : o < fileLen'}
      /\ \A o \in DOMAIN heads' : heads'[o] = heads[o]
      /\ \A o \in DOMAIN vals' : vals'[o] = vals[o]
      /\ heads' \in [DOMAIN heads' -> Keys] /\ vals' \in [DOMAIN vals' -> Int]
  BY <1>2 DEF SetLen, Cut, Restrict, TypeOK
<1>6. \A o \in Published : Cell(o) \in DOMAIN vals'
  <2> SUFFICES ASSUME NEW o \in Published PROVE Cell(o) \in DOMAIN vals'
    OBVIOUS
  <2>1. Cell(o) \in DOMAIN vals /\ (EntryEnd(o) = usedHdr \/ EntryEnd(o) \in Published)
    BY <1>1 DEF FileWellFormed
  <2>2. EntryEnd(o) = Cell(o) + 8 /\ Cell(o) \in Nat
    BY KeyFacts DEF EntryEnd, Cell, Published, TypeOK, AllKeys
  <2>3. QED
    BY <1>1, <1>4, <1>5, <2>1, <2>2 DEF Published, TypeOK
<1>7. /\ FileWellFormed' /\ UsedAligned' /\ Published' = Published
      /\ Indexes(Published)' /\ Live'
  BY <1>1, <1>4, <1>5, <1>6, SamePublished DEF Grow, Published, Live, TypeOK
<1>8. ValuesAligned'
  BY <1>5 DEF ValuesAligned
<1>9. TypeOK'
  BY <1>1, <1>4, <1>5 DEF Grow, TypeOK, Pcs, UpsertPcs, AppendPcs
<1>10. IndexMatchesFile'
  BY <1>7 DEF IndexMatchesFile, JustPublished, Grow
<1>11. AppendAtUsed'
  BY <1>1, <1>4 DEF AppendAtUsed, Appending, Grow
<1>12. MapWithinFile'
  BY <1>1, <1>4, <1>7 DEF MapWithinFile, Mapped, Grow, Appending, TypeOK
<1>13. QED
  BY <1>7, <1>8, <1>9, <1>10, <1>11, <1>12 DEF AlwaysReopens, Initialising, Grow,
     RebuildOnBoundary, ReturnsStored

\* The new mapping is as long as the file and so has room for the entry.
LEMMA RemapKeepsIInv == IInv /\ Remap => IInv'
<1> SUFFICES ASSUME IInv, Remap PROVE IInv'
  OBVIOUS
<1> USE DEF Remap, IInv
<1>1. FileWellFormed' /\ ValuesAligned' /\ UsedAligned' /\ Published' = Published /\ Live' = Live
  BY SameFile
<1>2. TypeOK'
  BY DEF TypeOK, Pcs, UpsertPcs, AppendPcs, fileVars
<1>3. IndexMatchesFile'
  BY <1>1, SameFile DEF IndexMatchesFile, JustPublished, Ready, UpsertPcs, AppendPcs
<1>4. AppendAtUsed'
  BY DEF AppendAtUsed, UpsertPcs, AppendPcs, fileVars
<1>5. MapWithinFile'
  BY <1>1 DEF MapWithinFile, FileWellFormed, Mapped, Ready, UpsertPcs, AppendPcs, TypeOK, HEADER_SIZE, fileVars
<1>6. QED
  BY <1>1, <1>2, <1>3, <1>4, <1>5 DEF AlwaysReopens, Initialising, RebuildOnBoundary, ReturnsStored

\* Where the steps of an append stand once there is room.
LEMMA AppendPlace ==
  ASSUME IInv, pc \in {"save_key", "save_value", "publish"}
  PROVE  /\ Live /\ start = usedHdr /\ start \in Nat /\ start % 8 = 0
         /\ op.key \in Keys /\ op.f \in Updates
         /\ op.key \notin DOMAIN positions /\ Indexes(Published)
         /\ ValueOffset(op.key) \in Nat /\ ValueOffset(op.key) >= 12 /\ ValueOffset(op.key) % 8 = 0
         /\ TotalLen(op.key) = ValueOffset(op.key) + 8
         /\ start + TotalLen(op.key) <= mapLen /\ mapLen <= fileLen
         /\ \A o \in Published : Cell(o) \in DOMAIN vals /\ Cell(o) \in Nat
                                 /\ o \in Nat /\ EntryEnd(o) = Cell(o) + 8 /\ EntryEnd(o) <= start
<1> USE DEF IInv
<1>1. Live /\ op.key \in Keys /\ op.f \in Updates /\ op.key \notin DOMAIN positions /\ start = usedHdr
  BY DEF MapWithinFile, Ready, AppendAtUsed, UpsertPcs, AppendPcs
<1>2. start + TotalLen(op.key) <= mapLen /\ mapLen <= fileLen
  BY DEF AppendAtUsed, MapWithinFile, Mapped, AppendPcs
<1>3. Indexes(Published)
  BY DEF IndexMatchesFile, Ready, JustPublished, UpsertPcs, AppendPcs
<1>4. start \in Nat /\ start % 8 = 0
  BY <1>1 DEF TypeOK, UsedAligned
<1>5. ASSUME NEW o \in Published
      PROVE  /\ Cell(o) \in DOMAIN vals /\ Cell(o) \in Nat
             /\ o \in Nat /\ EntryEnd(o) = Cell(o) + 8 /\ EntryEnd(o) <= start
  <2>1. o \in Nat /\ heads[o] \in AllKeys
    BY DEF Published, TypeOK, AllKeys
  <2>2. Cell(o) \in Nat /\ EntryEnd(o) = Cell(o) + 8
    BY <2>1, KeyFacts DEF EntryEnd, Cell
  <2>3. Cell(o) \in DOMAIN vals /\ (EntryEnd(o) = usedHdr \/ EntryEnd(o) \in Published)
    BY <1>1 DEF FileWellFormed
  <2>4. QED
    BY <1>1, <1>4, <2>1, <2>2, <2>3 DEF Published
<1>6. QED
  BY <1>1, <1>2, <1>3, <1>4, <1>5, KeyFacts DEF AllKeys

\* The text of a new entry is written beyond `used`, over no published entry.
LEMMA SaveKeyKeepsIInv == IInv /\ SaveKey => IInv'
<1> SUFFICES ASSUME IInv, SaveKey PROVE IInv'
  OBVIOUS
<1> DEFINE end == start + ValueOffset(op.key)
<1> USE DEF IInv
<1>1. /\ pc = "save_key" /\ pc' = "save_value"
      /\ heads' = Put(Overwrite(heads, start, end), start, op.key)
      /\ vals' = Overwrite(vals, start, end)
      /\ UNCHANGED <<fileLen, usedHdr, version, mapLen, positions, pos, op, start, ret>>
  BY DEF SaveKey
<1>2. /\ Live /\ start = usedHdr /\ start \in Nat /\ op.key \in Keys /\ op.f \in Updates
      /\ Indexes(Published) /\ end \in Nat /\ start < end
      /\ \A o \in Published : Cell(o) \in DOMAIN vals /\ Cell(o) \in Nat
                              /\ EntryEnd(o) = Cell(o) + 8 /\ EntryEnd(o) <= start
  BY <1>1, AppendPlace
<1>3. /\ DOMAIN heads' = {o \in DOMAIN heads : o < start \/ end <= o} \cup {start}
      /\ heads'[start] = op.key
      /\ \A o \in DOMAIN heads' \ {start} : heads'[o] = heads[o]
      /\ heads' \in [DOMAIN heads' -> Keys]
  BY <1>1, <1>2 DEF Put, Overwrite, Restrict, TypeOK
<1>4. /\ DOMAIN vals' = {o \in DOMAIN vals : o < start \/ end <= o}
      /\ vals' \in [DOMAIN vals' -> Int]
  BY <1>1 DEF Overwrite, Restrict, TypeOK
<1>5. TypeOK'
  BY <1>1, <1>2, <1>3, <1>4 DEF TypeOK, Pcs, UpsertPcs, AppendPcs
<1>6. /\ FileWellFormed' /\ UsedAligned' /\ Published' = Published
      /\ Indexes(Published)' /\ Live'
  <2>1. \A o : o \in DOMAIN heads' /\ o < usedHdr <=> o \in Published
    BY <1>2, <1>3 DEF Published, TypeOK
  <2>2. \A o \in Published : heads'[o] = heads[o]
    BY <1>2, <1>3, <2>1
  <2>3. \A o \in Published : Cell(o) \in DOMAIN vals'
    BY <1>2, <1>4
  <2>4. Live' /\ usedHdr <= fileLen'
    BY <1>1, <1>2 DEF Live, FileWellFormed
  <2>5. QED
    BY <1>1, <1>2, <2>1, <2>2, <2>3, <2>4, SamePublished
<1>7. ValuesAligned'
  BY <1>4 DEF ValuesAligned
<1>8. AppendAtUsed'
  BY <1>1, <1>2, <1>3 DEF AppendAtUsed, UpsertPcs, AppendPcs, TypeOK
<1>9. QED
  BY <1>1, <1>5, <1>6, <1>7, <1>8 DEF IndexMatchesFile, JustPublished, AlwaysReopens,
     MapWithinFile, Mapped, Ready, UpsertPcs, AppendPcs, Initialising, RebuildOnBoundary, ReturnsStored

\* So is its value.
LEMMA SaveValueKeepsIInv == IInv /\ SaveValue => IInv'
<1> SUFFICES ASSUME IInv, SaveValue PROVE IInv'
  OBVIOUS
<1> DEFINE off == start + ValueOffset(op.key)
           value == Apply(op.f, 0)
<1> USE DEF IInv
<1>1. /\ pc = "save_value" /\ pc' = "publish"
      /\ heads' = Overwrite(heads, off, off + 8)
      /\ vals' = Put(vals, off, value)
      /\ op' = [op EXCEPT !.value = value]
      /\ UNCHANGED <<fileLen, usedHdr, version, mapLen, positions, pos, start, ret>>
  BY DEF SaveValue, VALUE_SIZE
<1>2. /\ Live /\ start = usedHdr /\ start \in Nat /\ start % 8 = 0
      /\ op.key \in Keys /\ op.f \in Updates
      /\ Indexes(Published) /\ off \in Nat /\ start < off /\ off % 8 = 0
      /\ TotalLen(op.key) = ValueOffset(op.key) + 8 /\ ValueOffset(op.key) \in Nat
      /\ \A o \in Published : Cell(o) \in DOMAIN vals /\ Cell(o) \in Nat
                              /\ EntryEnd(o) = Cell(o) + 8 /\ EntryEnd(o) <= start
  BY <1>1, AppendPlace
<1>3. /\ DOMAIN heads' = {o \in DOMAIN heads : o < off \/ off + 8 <= o}
      /\ \A o \in DOMAIN heads' : heads'[o] = heads[o]
      /\ heads' \in [DOMAIN heads' -> Keys]
  BY <1>1, <1>2 DEF Overwrite, Restrict, TypeOK
<1>4. value \in Int
  BY <1>2, ApplyType
<1>5. /\ DOMAIN vals' = DOMAIN vals \cup {off} /\ vals'[off] = value
      /\ vals' \in [DOMAIN vals' -> Int]
  BY <1>1, <1>4 DEF Put, TypeOK
<1>6. /\ op' \in [key : AllKeys, f : Updates \cup {NoOp.f}, value : Int]
      /\ op'.key = op.key /\ op'.f = op.f /\ op'.value = value
  BY <1>1, <1>4 DEF TypeOK
<1>7. TypeOK'
  BY <1>1, <1>2, <1>3, <1>5, <1>6 DEF TypeOK, Pcs, UpsertPcs, AppendPcs
<1>8. /\ FileWellFormed' /\ UsedAligned' /\ Published' = Published
      /\ Indexes(Published)' /\ Live'
  <2>1. \A o : o \in DOMAIN heads' /\ o < usedHdr <=> o \in Published
    BY <1>2, <1>3 DEF Published, TypeOK
  <2>2. \A o \in Published : heads'[o] = heads[o]
    BY <1>2, <1>3, <2>1
  <2>3. \A o \in Published : Cell(o) \in DOMAIN vals'
    BY <1>2, <1>5
  <2>4. Live' /\ usedHdr <= fileLen'
    BY <1>1, <1>2 DEF Live, FileWellFormed
  <2>5. QED
    BY <1>1, <1>2, <2>1, <2>2, <2>3, <2>4, SamePublished
<1>9. ValuesAligned'
  BY <1>2, <1>5 DEF ValuesAligned
<1>10. AppendAtUsed'
  <2>1. /\ start \in DOMAIN heads /\ heads[start] = op.key
        /\ \A o \in DOMAIN heads : ~(start < o /\ o < off)
    BY <1>1 DEF AppendAtUsed
  <2>2. \A o \in DOMAIN heads' : ~(start < o /\ o < start + TotalLen(op.key))
    BY <1>2, <1>3, <2>1 DEF TypeOK
  <2>3. QED
    BY <1>1, <1>2, <1>3, <1>5, <1>6, <2>1, <2>2 DEF AppendAtUsed, UpsertPcs, AppendPcs
<1>11. QED
  BY <1>1, <1>6, <1>7, <1>8, <1>9, <1>10 DEF IndexMatchesFile, JustPublished, AlwaysReopens,
     MapWithinFile, Mapped, Ready, UpsertPcs, AppendPcs, Initialising, RebuildOnBoundary, ReturnsStored

\* The store of `used` publishes the entry at start and nothing else.
LEMMA PublishAddsEntry ==
  ASSUME IInv, Publish, start + TotalLen(op.key) <= MaxU32
  PROVE  /\ Published' = Published \cup {start} /\ start \notin Published
         /\ heads[start] = op.key /\ vals[Cell(start)] = op.value
         /\ op.value = Apply(op.f, 0)
         /\ EntryEnd(start) = usedHdr' /\ Cell(start) \in DOMAIN vals
         /\ Live' /\ \A o : Cell(o)' = Cell(o) /\ EntryEnd(o)' = EntryEnd(o)
         /\ \A o \in Published : heads[o] # op.key
<1> USE DEF IInv, Publish
<1>1. /\ Live /\ start = usedHdr /\ start \in Nat /\ op.key \notin DOMAIN positions
      /\ Indexes(Published)
      /\ TotalLen(op.key) = ValueOffset(op.key) + 8 /\ ValueOffset(op.key) \in Nat
  BY AppendPlace
<1>2. /\ start \in DOMAIN heads /\ heads[start] = op.key
      /\ \A o \in DOMAIN heads : ~(start < o /\ o < start + TotalLen(op.key))
      /\ start + ValueOffset(op.key) \in DOMAIN vals
      /\ vals[start + ValueOffset(op.key)] = op.value
      /\ op.value = Apply(op.f, 0)
  BY DEF AppendAtUsed
<1>3. /\ usedHdr' = start + TotalLen(op.key)
      /\ UNCHANGED <<fileLen, version, heads, vals>>
  OBVIOUS
<1>4. Live' /\ \A o : Cell(o)' = Cell(o) /\ EntryEnd(o)' = EntryEnd(o)
  BY <1>1, <1>3 DEF Live, Cell, EntryEnd
<1>5. \A o \in DOMAIN heads : o < usedHdr' <=> o < usedHdr \/ o = start
  BY <1>1, <1>2, <1>3 DEF TypeOK
<1>6. Published' = Published \cup {start} /\ start \notin Published
  BY <1>1, <1>2, <1>3, <1>4, <1>5 DEF Published
<1>7. \A o \in Published : heads[o] # op.key
  BY <1>1 DEF Indexes
<1>8. QED
  BY <1>2, <1>3, <1>4, <1>6, <1>7 DEF Cell, EntryEnd

\* The new `used` takes in exactly the entry that was written, or, if it does not fit
\* a u32, stays.
LEMMA PublishKeepsIInv == IInv /\ Publish => IInv'
<1> SUFFICES ASSUME IInv, Publish PROVE IInv'
  OBVIOUS
<1> USE DEF IInv
<1>1. CASE ~(start + TotalLen(op.key) <= MaxU32)
  BY <1>1, FailureKeepsIInv DEF Publish, AppendPcs, fileVars
<1>2. CASE start + TotalLen(op.key) <= MaxU32
  <2>1. /\ pc = "publish" /\ pc' = "return" /\ usedHdr' = start + TotalLen(op.key)
        /\ UNCHANGED <<fileLen, version, heads, vals, mapLen, positions, pos, op, start, ret>>
    BY <1>2 DEF Publish
  <2>2. /\ Live /\ start = usedHdr /\ start \in Nat /\ start % 8 = 0 /\ op.key \in Keys /\ op.f \in Updates
        /\ op.key \notin DOMAIN positions /\ Indexes(Published)
        /\ TotalLen(op.key) = ValueOffset(op.key) + 8
        /\ ValueOffset(op.key) \in Nat /\ ValueOffset(op.key) % 8 = 0
        /\ start + TotalLen(op.key) <= mapLen /\ mapLen <= fileLen
        /\ \A o \in Published : /\ o \in Nat /\ Cell(o) \in DOMAIN vals
                                /\ Cell(o) \in Nat /\ EntryEnd(o) = Cell(o) + 8 /\ EntryEnd(o) <= start
    BY <2>1, AppendPlace
  <2>3. /\ Published' = Published \cup {start} /\ start \notin Published
        /\ heads[start] = op.key /\ vals[Cell(start)] = op.value
        /\ EntryEnd(start) = usedHdr' /\ Cell(start) \in DOMAIN vals
        /\ Live' /\ \A o : Cell(o)' = Cell(o) /\ EntryEnd(o)' = EntryEnd(o)
        /\ \A o \in Published : heads[o] # op.key
    BY <1>2, PublishAddsEntry
  <2>4. TypeOK'
    BY <2>1, <2>2 DEF TypeOK, Pcs, UpsertPcs
  <2>5. FileWellFormed'
    <3>1. HEADER_SIZE <= usedHdr' /\ usedHdr' <= fileLen'
      BY <2>1, <2>2 DEF FileWellFormed, TypeOK, HEADER_SIZE
    <3>2. usedHdr' = HEADER_SIZE \/ HEADER_SIZE \in Published'
      BY <2>2, <2>3 DEF FileWellFormed
    <3>3. \A o \in Published' :
            /\ HEADER_SIZE <= o /\ Cell(o)' \in DOMAIN vals'
            /\ EntryEnd(o)' = usedHdr' \/ EntryEnd(o)' \in Published'
      BY <2>1, <2>2, <2>3 DEF FileWellFormed
    <3>4. \A o, p \in Published' : o < p => EntryEnd(o)' <= p /\ heads'[o] # heads'[p]
      <4> SUFFICES ASSUME NEW o \in Published', NEW p \in Published', o < p
                   PROVE  EntryEnd(o) <= p /\ heads[o] # heads[p]
        BY <2>1, <2>3
      <4>1. o # start
        BY <2>2, <2>3 DEF Published
      <4>2. CASE p = start
        BY <4>1, <4>2, <2>2, <2>3
      <4>3. CASE p # start
        BY <4>1, <4>3, <2>2, <2>3 DEF FileWellFormed
      <4>4. QED
        BY <4>2, <4>3
    <3>5. QED
      BY <3>1, <3>2, <3>3, <3>4 DEF FileWellFormed
  <2>6. ValuesAligned' /\ UsedAligned'
    BY <2>1, <2>2 DEF ValuesAligned, UsedAligned
  <2>7. IndexMatchesFile'
    <3>1. Published' \ {start'} = Published
      BY <2>1, <2>3
    <3>2. QED
      BY <2>1, <2>2, <3>1 DEF IndexMatchesFile, JustPublished, Indexes, Cell
  <2>8. ReturnsStored'
    BY <2>1, <2>2, <2>3 DEF ReturnsStored, JustPublished
  <2>9. AppendAtUsed' /\ MapWithinFile'
    BY <2>1, <2>2, <2>3 DEF AppendAtUsed, MapWithinFile, Mapped, Ready, UpsertPcs, AppendPcs
  <2>10. QED
    BY <2>1, <2>4, <2>5, <2>6, <2>7, <2>8, <2>9 DEF AlwaysReopens, Initialising, RebuildOnBoundary
<1>3. QED
  BY <1>1, <1>2

\* positions.insert indexes the entry just published.
LEMMA ReturnKeepsIInv == IInv /\ Return => IInv'
<1> SUFFICES ASSUME IInv, Return PROVE IInv'
  OBVIOUS
<1> USE DEF IInv
<1>1. FileWellFormed' /\ ValuesAligned' /\ UsedAligned' /\ Published' = Published /\ Live' = Live
  BY SameFile DEF Return
<1>2. /\ op' = NoOp /\ pc' = "idle" /\ start' = 0 /\ ret' = [status |-> "ok", value |-> op.value]
      /\ UNCHANGED <<fileVars, mapLen, pos>> /\ pc = "return" /\ op.key \in Keys
  BY DEF Return, Finish, Ok, AppendAtUsed, UpsertPcs
<1>3. PICK o \in Published : /\ heads[o] = op.key /\ vals[Cell(o)] = op.value
                             /\ JustPublished => o = start
  BY <1>2 DEF ReturnsStored
<1>4. Indexes(Published)'
  <2>1. CASE op.key \in DOMAIN positions
    <3>1. positions' = positions /\ Indexes(Published)
      BY <1>2, <2>1 DEF Return, IndexMatchesFile, JustPublished, Ready, UpsertPcs
    <3>2. QED
      BY <1>1, <1>2, <3>1, SameFile
  <2>2. CASE op.key \notin DOMAIN positions
    <3>1. o = start /\ Indexes(Published \ {start})
      BY <1>2, <1>3, <2>2 DEF IndexMatchesFile, JustPublished, Ready, UpsertPcs
    <3>2. positions' = Put(positions, op.key, Cell(start))
      BY <1>3, <2>2, <3>1 DEF Return, Cell
    <3>3. DOMAIN positions' = {heads[p] : p \in Published}
      BY <1>3, <3>1, <3>2 DEF Put, Indexes
    <3>4. \A p \in Published : positions'[heads[p]] = Cell(p)
      BY <1>3, <2>2, <3>1, <3>2, <3>3 DEF Put, Indexes
    <3>5. QED
      BY <1>1, <1>2, <3>3, <3>4, SameFile DEF Indexes, fileVars
  <2>3. QED
    BY <2>1, <2>2
<1>5. TypeOK'
  <2>1. op' \in [key : AllKeys, f : Updates \cup {NoOp.f}, value : Int]
    BY <1>2 DEF AllKeys, NoOp
  <2>2. DOMAIN positions' \subseteq Keys /\ positions' \in [DOMAIN positions' -> Nat]
    <3>1. start + ValueOffset(op.key) \in Nat
      BY <1>2, KeyFacts DEF AllKeys, TypeOK
    <3>2. QED
      BY <1>2, <3>1 DEF Return, Put, TypeOK
  <2>3. QED
    BY <1>2, <2>1, <2>2 DEF TypeOK, Pcs, fileVars
<1>6. QED
  BY <1>1, <1>2, <1>4, <1>5 DEF IndexMatchesFile, JustPublished, AlwaysReopens, MapWithinFile,
     Initialising, Mapped, RebuildOnBoundary, AppendAtUsed, ReturnsStored, Ready, UpsertPcs,
     AppendPcs, fileVars

\* Steps that change nothing.
LEMMA StutterKeepsIInv == IInv /\ UNCHANGED storeVars => IInv'
<1> SUFFICES ASSUME IInv, UNCHANGED storeVars PROVE IInv'
  OBVIOUS
<1>1. FileWellFormed' /\ ValuesAligned' /\ UsedAligned'
  BY SameFile DEF storeVars, fileVars
<1>2. TypeOK' /\ IndexMatchesFile' /\ AlwaysReopens' /\ MapWithinFile' /\ Initialising'
  BY DEF IInv, storeVars, TypeOK, IndexMatchesFile, AlwaysReopens, MapWithinFile, Initialising,
     Mapped, Ready, JustPublished, Indexes, Published, Live, Cell
<1>3. RebuildOnBoundary' /\ AppendAtUsed' /\ ReturnsStored'
  BY DEF IInv, storeVars, RebuildOnBoundary, AppendAtUsed, ReturnsStored, JustPublished,
     Indexes, Published, Live, Cell
<1>4. QED
  BY <1>1, <1>2, <1>3 DEF IInv

\* Every step of the store preserves the inductive invariant.
THEOREM StepIInv == IInv /\ [StoreNext]_storeVars => IInv'
<1> SUFFICES ASSUME IInv, [StoreNext]_storeVars PROVE IInv'
  OBVIOUS
<1>1. CASE Open
  BY <1>1, OpenKeepsIInv
<1>2. CASE OpenStep
  BY <1>2, InitFillKeepsIInv, InitUsedKeepsIInv, InitVersionKeepsIInv,
     RebuildEntryKeepsIInv, RebuildDoneKeepsIInv DEF OpenStep
<1>3. CASE \E k \in Keys, f \in Updates : BeginUpsert(k, f)
  BY <1>3, BeginUpsertKeepsIInv
<1>4. CASE UpsertStep
  BY <1>4, UpdateExistingKeepsIInv, RejectKeepsIInv, HasRoomKeepsIInv, GrowKeepsIInv,
     RemapKeepsIInv, SaveKeyKeepsIInv, SaveValueKeepsIInv, PublishKeepsIInv, ReturnKeepsIInv
     DEF UpsertStep
<1>5. CASE \E k \in Keys : Get(k)
  BY <1>5, GetKeepsIInv
<1>6. CASE Crash
  BY <1>6, CrashKeepsIInv
<1>7. CASE UNCHANGED storeVars
  BY <1>7, StutterKeepsIInv
<1>8. QED
  BY <1>1, <1>2, <1>3, <1>4, <1>5, <1>6, <1>7 DEF StoreNext

\* The inductive invariant holds in every reachable state, for every set of keys,
\* every layout, page size and u32 bound, and every file found at the path.
THEOREM Invariance == StoreSpec => []IInv
BY InitIInv, StepIInv, PTL DEF StoreSpec

-----------------------------------------------------------------------------
(* The properties of the runs *)

\* Type correctness.
THEOREM TypeCorrect == StoreSpec => []TypeOK
BY Invariance, PTL DEF IInv

\* `used` stays within the file and the published entries tile it.
THEOREM WellFormed == StoreSpec => []FileWellFormed
BY Invariance, PTL DEF IInv

\* The index of an open store is that of the file.
THEOREM IndexCorrect == StoreSpec => []IndexMatchesFile
BY Invariance, PTL DEF IInv

\* rebuild_index never fails on the file of a worker that died.
THEOREM Reopenable == StoreSpec => []AlwaysReopens
BY Invariance, PTL DEF IInv

\* Every value is stored at a multiple of 8.
THEOREM Aligned == StoreSpec => []ValuesAligned
BY Invariance, PTL DEF IInv

\* No step moves, renames or withdraws a published entry.
LEMMA StepMovesNothing ==
  IInv /\ [StoreNext]_storeVars =>
    \A o \in Published : o \in Published' /\ heads'[o] = heads[o]
<1> SUFFICES ASSUME IInv, [StoreNext]_storeVars, NEW x \in Published
             PROVE  x \in Published' /\ heads'[x] = heads[x]
  OBVIOUS
<1>1. CASE UNCHANGED fileVars
  BY <1>1 DEF fileVars, Published, Live
<1>2. CASE Open
  BY <1>2 DEF Open, Published, IInv, FileWellFormed, HEADER_SIZE, Live
<1>3. CASE InitFill \/ InitUsed \/ InitVersion
  BY <1>3 DEF InitFill, InitUsed, InitVersion, IInv, Initialising, Published
<1>4. CASE UpdateExisting
  BY <1>4 DEF UpdateExisting, Published, Live
<1>5. CASE Grow
  <2>1. /\ usedHdr <= mapLen /\ Needed \in Nat /\ mapLen < Needed
    BY <1>5, AppendStart DEF Grow
  <2>2. PICK n \in Grown(mapLen, Needed) : SetLen(PageAligned(n))
    BY <1>5 DEF Grow
  <2>3. fileLen' \in Nat /\ fileLen' >= Needed
    BY <2>1, <2>2, PageAlignedFacts DEF Grown, SetLen, IInv, TypeOK
  <2>4. QED
    BY <1>5, <2>1, <2>2, <2>3 DEF Grow, SetLen, Cut, Restrict, Published, Live, IInv, TypeOK
<1>6. CASE SaveKey
  <2>1. pc = "save_key" /\ start = usedHdr /\ start \in Nat
    BY <1>6, AppendPlace DEF SaveKey
  <2>2. QED
    BY <1>6, <2>1 DEF SaveKey, Put, Overwrite, Restrict, Published, Live, IInv, TypeOK
<1>7. CASE SaveValue
  <2>1. /\ pc = "save_value" /\ start = usedHdr /\ start \in Nat
        /\ ValueOffset(op.key) \in Nat
    BY <1>7, AppendPlace DEF SaveValue
  <2>2. QED
    BY <1>7, <2>1 DEF SaveValue, Overwrite, Restrict, Published, Live, IInv, TypeOK
<1>8. CASE Publish
  BY <1>8, PublishAddsEntry DEF Publish, fileVars, Published, Live
<1>9. QED
  BY <1>1, <1>2, <1>3, <1>4, <1>5, <1>6, <1>7, <1>8
     DEF StoreNext, OpenStep, UpsertStep, BeginUpsert, Get, Crash, RebuildEntry, RebuildDone,
         Reject, HasRoom, GrowError, Remap, RemapError, Return, storeVars, fileVars

\* The offsets a reader has learnt stay valid, and mean the same series.
THEOREM NeverMove == StoreSpec => EntriesNeverMove
<1>1. StoreSpec => [][IInv /\ IInv' /\ [StoreNext]_storeVars]_storeVars
  BY Invariance, PTL DEF StoreSpec
<1>2. QED
  BY <1>1, StepMovesNothing, PTL DEF EntriesNeverMove

-----------------------------------------------------------------------------
(* What a reader may rely on between two steps of the worker *)

\* Whatever step the worker takes, the file keeps its entries, or gets one more at
\* `used`, which then moves up, or becomes an empty file of this version.
LEMMA FileGrows ==
  ASSUME IInv, [StoreNext]_storeVars
  PROVE  \/ Published' = Published /\ Live' = Live /\ (Live => usedHdr' = usedHdr)
         \/ /\ Live /\ Live'
            /\ Published' = Published \cup {usedHdr} /\ usedHdr < usedHdr'
         \/ ~Live /\ Live' /\ Published' = {} /\ usedHdr' = HEADER_SIZE
<1>1. CASE UNCHANGED fileVars
  BY <1>1, SameFile DEF fileVars
<1>2. CASE Open
  BY <1>2 DEF Open, Published, IInv, TypeOK, FileWellFormed, HEADER_SIZE, Live
<1>3. CASE InitFill \/ InitUsed
  <2>1. ~Live /\ ~Live'
    <3>1. CASE InitFill
      BY <3>1 DEF InitFill, IInv, Initialising, Live, FILE_FORMAT_VERSION
    <3>2. CASE InitUsed
      BY <3>2 DEF InitUsed, IInv, Initialising, Live
    <3>3. QED
      BY <1>3, <3>1, <3>2
  <2>2. QED
    BY <2>1 DEF Published, Live
<1>4. CASE InitVersion
  BY <1>4 DEF InitVersion, IInv, Initialising, Live, Published, Nothing
<1>5. CASE UpdateExisting
  BY <1>5 DEF UpdateExisting, Published, Live
<1>6. CASE Grow
  <2>1. /\ usedHdr <= mapLen /\ Needed \in Nat /\ mapLen < Needed
    BY <1>6, AppendStart DEF Grow
  <2>2. PICK n \in Grown(mapLen, Needed) : SetLen(PageAligned(n))
    BY <1>6 DEF Grow
  <2>3. fileLen' \in Nat /\ fileLen' >= Needed
    BY <2>1, <2>2, PageAlignedFacts DEF Grown, SetLen, IInv, TypeOK
  <2>4. QED
    BY <1>6, <2>1, <2>2, <2>3 DEF Grow, SetLen, Cut, Restrict, Published, Live, IInv, TypeOK
<1>7. CASE SaveKey
  <2>1. pc = "save_key" /\ start = usedHdr /\ start \in Nat
    BY <1>7, AppendPlace DEF SaveKey
  <2>2. QED
    BY <1>7, <2>1 DEF SaveKey, Put, Overwrite, Restrict, Published, Live, IInv, TypeOK
<1>8. CASE SaveValue
  <2>1. /\ pc = "save_value" /\ start = usedHdr /\ start \in Nat
        /\ ValueOffset(op.key) \in Nat
    BY <1>8, AppendPlace DEF SaveValue
  <2>2. QED
    BY <1>8, <2>1 DEF SaveValue, Overwrite, Restrict, Published, Live, IInv, TypeOK
<1>9. CASE Publish
  <2>1. CASE start + TotalLen(op.key) <= MaxU32
    <3>1. /\ Live /\ start = usedHdr /\ start \in Nat
          /\ TotalLen(op.key) = ValueOffset(op.key) + 8 /\ ValueOffset(op.key) \in Nat
      BY <1>9, AppendPlace DEF Publish
    <3>2. Published' = Published \cup {start} /\ Live'
      BY <1>9, <2>1, PublishAddsEntry
    <3>3. usedHdr' = start + TotalLen(op.key)
      BY <1>9, <2>1 DEF Publish
    <3>4. QED
      BY <3>1, <3>2, <3>3
  <2>2. CASE ~(start + TotalLen(op.key) <= MaxU32)
    BY <1>9, <2>2 DEF Publish, Published, Live
  <2>3. QED
    BY <2>1, <2>2
<1>10. \/ UNCHANGED fileVars \/ Open \/ InitFill \/ InitUsed \/ InitVersion
      \/ UpdateExisting \/ Grow \/ SaveKey \/ SaveValue \/ Publish
  BY DEF StoreNext, OpenStep, UpsertStep, BeginUpsert, Get, Crash, RebuildEntry, RebuildDone,
         Reject, HasRoom, GrowError, Remap, RemapError, Return, storeVars, fileVars
<1>11. QED
  BY <1>1, <1>2, <1>3, <1>4, <1>5, <1>6, <1>7, <1>8, <1>9, <1>10

\* An initialised file stays so, and its `used` never falls.
LEMMA UsedNeverFalls ==
  ASSUME IInv, [StoreNext]_storeVars, Live
  PROVE  Live' /\ usedHdr <= usedHdr'
<1>1. usedHdr \in Nat /\ usedHdr' \in Nat
  BY StepIInv DEF IInv, TypeOK
<1>2. QED
  BY <1>1, FileGrows DEF Live

\* An offset between entries stays one.
LEMMA BoundaryStays ==
  ASSUME IInv, [StoreNext]_storeVars, Live, NEW o, OnBoundary(o)
  PROVE  OnBoundary(o)'
BY FileGrows DEF OnBoundary, Live

\* What a reader finds in an initialised file.
LEMMA LiveFacts ==
  ASSUME IInv, Live
  PROVE  /\ usedHdr \in Nat /\ HEADER_SIZE <= usedHdr /\ usedHdr <= fileLen /\ Used = usedHdr
         /\ OnBoundary(HEADER_SIZE) /\ OnBoundary(usedHdr)
         /\ {o \in Published : o < HEADER_SIZE} = {}
<1>1. usedHdr \in Nat /\ HEADER_SIZE <= usedHdr /\ usedHdr <= fileLen
  BY DEF IInv, TypeOK, FileWellFormed
<1>2. \A o \in Published : o \in Nat /\ HEADER_SIZE <= o
  BY DEF IInv, FileWellFormed, TypeOK, Published
<1>3. QED
  BY <1>1, <1>2 DEF Used, OnBoundary, IInv, FileWellFormed, HEADER_SIZE

\* An entry of the file: where its value is, where it ends, and that it is on a boundary.
LEMMA EntryFacts ==
  ASSUME IInv, NEW o \in Published
  PROVE  /\ Live /\ o \in Nat /\ o < usedHdr /\ heads[o] \in AllKeys /\ HeadAt(o) = heads[o]
         /\ Cell(o) \in Nat /\ EntryEnd(o) = Cell(o) + 8 /\ o < Cell(o)
         /\ OnBoundary(EntryEnd(o))
         /\ \A p \in Published : o < p => EntryEnd(o) <= p
<1>1. Live /\ o \in Nat /\ o \in DOMAIN heads /\ o < usedHdr /\ heads[o] \in AllKeys
  BY DEF Published, IInv, TypeOK, AllKeys
<1>2. Cell(o) \in Nat /\ EntryEnd(o) = Cell(o) + 8 /\ o < Cell(o)
  BY <1>1, KeyFacts DEF Cell, EntryEnd
<1>3. OnBoundary(EntryEnd(o)) /\ \A p \in Published : o < p => EntryEnd(o) <= p
  BY <1>1 DEF IInv, FileWellFormed, OnBoundary
<1>4. QED
  BY <1>1, <1>2, <1>3 DEF HeadAt

\* The series of the file and their values.
LEMMA KvBarType ==
  ASSUME IInv
  PROVE  DOMAIN KvBar \subseteq Keys /\ KvBar \in [DOMAIN KvBar -> Int]
<1>1. \A o \in Published : heads[o] \in Keys
  BY DEF IInv, TypeOK, Published
<1>2. \A off : ValueAt(off) \in Int
  BY DEF IInv, TypeOK, ValueAt
<1>3. QED
  BY <1>1, <1>2 DEF KvBar

-----------------------------------------------------------------------------
(* MmapStore implements MetricMap *)

\* The abstract map, read off the published entries.
KvIs ==
  /\ DOMAIN KvBar = {heads[o] : o \in Published}
  /\ \A o \in Published : KvBar[heads[o]] = ValueAt(Cell(o))
  /\ KvBar = [k \in DOMAIN KvBar |-> KvBar[k]]

\* One series, one entry: so the choice in KvBar is no choice.
LEMMA KvFacts == IInv => KvIs
<1> SUFFICES ASSUME IInv PROVE KvIs
  OBVIOUS
<1>1. \A o, p \in Published : heads[o] = heads[p] => o = p
  <2>1. Live \/ Published = {}
    BY DEF Published
  <2>2. QED
    BY <2>1 DEF IInv, FileWellFormed, Published, TypeOK
<1>2. ASSUME NEW o \in Published
      PROVE  (CHOOSE p \in Published : heads[p] = heads[o]) = o
  BY <1>1
<1>3. QED
  BY <1>2 DEF KvIs, KvBar

\* The stored map depends on the published entries and their values alone.
LEMMA KvUnchanged ==
  ASSUME KvIs, KvIs', Published' = Published,
         \A o \in Published : heads'[o] = heads[o] /\ ValueAt(Cell(o))' = ValueAt(Cell(o))
  PROVE  KvBar' = KvBar
<1>1. DOMAIN KvBar' = DOMAIN KvBar
  BY DEF KvIs
<1>2. \A k \in DOMAIN KvBar : KvBar'[k] = KvBar[k]
  BY DEF KvIs
<1>3. QED
  BY <1>1, <1>2 DEF KvIs

\* What the index says is what the abstract map says.
LEMMA ReadsKv ==
  ASSUME IInv, KvIs, pc \in {"idle", "upsert"}, NEW k \in Keys
  PROVE  /\ Current(k) = MM!ValueIn(KvBar, k)
         /\ GetResult(k) = [status |-> "ok", value |-> MM!ValueIn(KvBar, k)]
<1> USE DEF IInv
<1>1. Live /\ Indexes(Published) /\ usedHdr <= mapLen /\ Used = usedHdr /\ ~UsedInvalid
  BY DEF MapWithinFile, Ready, UpsertPcs, IndexMatchesFile, JustPublished, FileWellFormed, Used,
         UsedInvalid, TypeOK, HEADER_SIZE
<1>2. DOMAIN positions = DOMAIN KvBar
  BY <1>1 DEF Indexes, KvIs
<1>3. ASSUME k \in DOMAIN positions
      PROVE  /\ ValueAt(positions[k]) = KvBar[k]
             /\ positions[k] + 8 <= usedHdr /\ positions[k] + 8 <= mapLen
  <2>1. PICK o \in Published : heads[o] = k /\ positions[k] = Cell(o)
    BY <1>1, <1>3 DEF Indexes
  <2>2. Cell(o) \in Nat /\ EntryEnd(o) = Cell(o) + 8
    BY KeyFacts DEF Cell, EntryEnd, Published, TypeOK, AllKeys
  <2>3. EntryEnd(o) <= usedHdr
    BY <1>1, <2>2 DEF FileWellFormed, Published, TypeOK
  <2>4. QED
    BY <1>1, <2>1, <2>2, <2>3 DEF KvIs, TypeOK
<1>4. Current(k) = MM!ValueIn(KvBar, k)
  BY <1>2, <1>3 DEF Current, MM!ValueIn
<1>5. GetResult(k) = [status |-> "ok", value |-> MM!ValueIn(KvBar, k)]
  BY <1>1, <1>2, <1>3 DEF GetResult, MM!ValueIn, Ok, InMap, VALUE_SIZE, TypeOK
<1>6. QED
  BY <1>4, <1>5

-----------------------------------------------------------------------------
(* Steps *)

\* No series and no call is where MetricMap starts.
LEMMA InitRefines == StoreInit => MM!Init
<1> SUFFICES ASSUME StoreInit PROVE MM!Init
  OBVIOUS
<1>1. Published = {}
  BY DEF StoreInit, Nothing, Published
<1>2. KvBar = [k \in {} |-> 0]
  BY <1>1 DEF KvBar
<1>3. CallBar = MM!NoCall
  BY DEF StoreInit, CallBar, UpsertPcs, AppendPcs, MM!NoCall
<1>4. QED
  BY <1>2, <1>3 DEF MM!Init, MM!NoRet, StoreInit, NoRet

\* A step that keeps the published entries and their values, and is inside one
\* call or outside all, is invisible.
LEMMA Invisible ==
  ASSUME KvIs, KvIs', Published' = Published,
         \A o \in Published : heads'[o] = heads[o] /\ ValueAt(Cell(o))' = ValueAt(Cell(o)),
         ret' = ret, CallBar' = CallBar
  PROVE  UNCHANGED MM!vars
BY KvUnchanged DEF MM!vars

\* No step of open, of rebuild_index included, changes the stored map.
LEMMA OpenRefines ==
  ASSUME IInv, KvIs, KvIs', Open \/ OpenStep
  PROVE  UNCHANGED MM!vars
<1>1. ret' = ret /\ CallBar' = CallBar
  BY DEF Open, OpenStep, InitFill, InitUsed, InitVersion, RebuildEntry, RebuildDone,
         CallBar, UpsertPcs, AppendPcs
<1>2. CASE Open
  <2>1. Published' = Published
    BY <1>2 DEF Open, IInv, FileWellFormed, Published, Live, HEADER_SIZE
  <2>2. QED
    BY <1>1, <1>2, <2>1, Invisible DEF Open, ValueAt, Cell
<1>3. CASE InitFill \/ InitUsed \/ InitVersion
  <2>1. Published = {} /\ Published' = {}
    BY <1>3 DEF InitFill, InitUsed, InitVersion, IInv, Initialising, Published, Nothing, Live
  <2>2. QED
    BY <1>1, <2>1, Invisible
<1>4. CASE RebuildEntry \/ RebuildDone
  <2>1. UNCHANGED fileVars
    BY <1>4 DEF RebuildEntry, RebuildDone
  <2>2. QED
    BY <1>1, <2>1, Invisible DEF fileVars, Published, Live, ValueAt, Cell
<1>5. QED
  BY <1>2, <1>3, <1>4 DEF OpenStep

\* The begin of a call invokes it.
LEMMA BeginRefines ==
  ASSUME IInv, KvIs, KvIs', NEW k \in Keys, NEW f \in Updates, BeginUpsert(k, f)
  PROVE  MM!Invoke(k, f)
<1> USE DEF BeginUpsert
<1>1. CallBar = MM!NoCall /\ CallBar' = [state |-> "invoked", key |-> k, f |-> f]
  BY DEF CallBar, MM!NoCall, UpsertPcs, AppendPcs
<1>2. MM!Apply(f, MM!ValueIn(KvBar, k)) <= MaxValue
  BY ReadsKv DEF MM!Apply, Apply
<1>3. KvBar' = KvBar
  BY KvUnchanged DEF fileVars, Published, Live, ValueAt, Cell
<1>4. QED
  BY <1>1, <1>2, <1>3 DEF MM!Invoke, NoRet, MM!NoRet

\* The store of the new value of an indexed key is the effect of the call.
LEMMA UpdateRefines ==
  ASSUME IInv, KvIs, KvIs', UpdateExisting
  PROVE  MM!Effect
<1> DEFINE off == positions[op.key]
           value == Apply(op.f, ValueAt(off))
<1>1. pc = "upsert" /\ op.key \in DOMAIN positions /\ op.key \in Keys
  BY DEF UpdateExisting, IInv, AppendAtUsed, UpsertPcs
<1>2. GetResult(op.key).status = "ok" /\ ValueAt(off) = MM!ValueIn(KvBar, op.key)
  BY <1>1, ReadsKv DEF Current
<1>3. InMap(off)
  BY <1>1, <1>2 DEF GetResult, Err
<1>4. /\ vals' = Put(vals, off, value) /\ op' = [op EXCEPT !.value = value]
      /\ pc' = "return" /\ UNCHANGED <<fileLen, usedHdr, version, heads, ret>>
  BY <1>3 DEF UpdateExisting
<1>5. Live /\ Indexes(Published)
  BY <1>1 DEF IInv, IndexMatchesFile, JustPublished, MapWithinFile, Ready, UpsertPcs
<1>6. PICK o \in Published : heads[o] = op.key /\ off = Cell(o)
  BY <1>1, <1>5 DEF Indexes
<1>7. Published' = Published /\ \A p : Cell(p)' = Cell(p)
  BY <1>4 DEF Published, Live, Cell
<1>8. ValueAt(Cell(o))' = value
  BY <1>4, <1>6, <1>7 DEF ValueAt, Put
<1>9. ASSUME NEW p \in Published, p # o
      PROVE  heads[p] # op.key /\ ValueAt(Cell(p))' = ValueAt(Cell(p))
  <2>1. o \in Nat /\ p \in Nat /\ heads[o] \in AllKeys /\ heads[p] \in AllKeys
    BY DEF IInv, TypeOK, Published, AllKeys
  <2>2. /\ Cell(o) \in Nat /\ EntryEnd(o) = Cell(o) + 8 /\ o < Cell(o)
        /\ Cell(p) \in Nat /\ EntryEnd(p) = Cell(p) + 8 /\ p < Cell(p)
    BY <2>1, KeyFacts DEF Cell, EntryEnd
  <2>3. heads[p] # heads[o] /\ Cell(p) # Cell(o)
    BY <1>5, <1>9, <2>1, <2>2 DEF IInv, FileWellFormed
  <2>4. QED
    BY <1>4, <1>6, <1>7, <2>3 DEF ValueAt, Put
<1>10. DOMAIN KvBar' = DOMAIN KvBar /\ op.key \in DOMAIN KvBar
  BY <1>4, <1>6, <1>7 DEF KvIs
<1>11. \A k \in DOMAIN KvBar : KvBar'[k] = IF k = op.key THEN value ELSE KvBar[k]
  BY <1>4, <1>6, <1>7, <1>8, <1>9 DEF KvIs
<1>12. KvBar' = [k \in DOMAIN KvBar \cup {op.key} |->
                   IF k = op.key THEN MM!Apply(op.f, MM!ValueIn(KvBar, k)) ELSE KvBar[k]]
  <2>1. value = MM!Apply(op.f, MM!ValueIn(KvBar, op.key))
    BY <1>2 DEF MM!Apply, Apply
  <2>2. DOMAIN KvBar \cup {op.key} = DOMAIN KvBar
    BY <1>10
  <2>3. KvBar' = [k \in DOMAIN KvBar |-> KvBar'[k]]
    BY <1>10 DEF KvIs
  <2>4. QED
    BY <1>11, <2>1, <2>2, <2>3
<1>13. op'.key = op.key /\ op'.f = op.f
  BY <1>4 DEF IInv, TypeOK
<1>14. /\ CallBar = [state |-> "invoked", key |-> op.key, f |-> op.f]
       /\ CallBar' = [state |-> "done", key |-> op.key, f |-> op.f]
  BY <1>1, <1>4, <1>13 DEF CallBar, UpsertPcs
<1>15. QED
  BY <1>4, <1>12, <1>14 DEF MM!Effect

\* A call that fails and leaves the file as it is returns an error.
LEMMA FailureRefines ==
  ASSUME IInv, KvIs, KvIs', NEW e \in {"KeyTooLong", "Overflow", "Io"},
         pc \in {"upsert"} \cup AppendPcs, Finish(Err(e)), UNCHANGED fileVars
  PROVE  MM!ReturnError
<1>1. KvBar' = KvBar
  BY KvUnchanged DEF fileVars, Published, Live, ValueAt, Cell
<1>2. CallBar.state = "invoked" /\ CallBar' = MM!NoCall
  BY DEF Finish, CallBar, MM!NoCall, UpsertPcs, AppendPcs
<1>3. ret' = [status |-> e, value |-> 0]
  BY DEF Finish, Err
<1>4. QED
  BY <1>1, <1>2, <1>3 DEF MM!ReturnError

\* The failures before and during growth are errors without effect.
LEMMA RejectRefines ==
  ASSUME IInv, KvIs, KvIs', Reject \/ GrowError \/ RemapError
  PROVE  MM!ReturnError
<1>1. CASE Reject
  <2>1. ~UsedInvalid
    BY <1>1 DEF Reject, Appending, IInv, MapWithinFile, FileWellFormed, Ready, UpsertPcs, Used,
                UsedInvalid, TypeOK, HEADER_SIZE
  <2>2. QED
    BY <1>1, <2>1, FailureRefines DEF Reject, Appending
<1>2. CASE GrowError \/ RemapError
  BY <1>2, FailureRefines DEF GrowError, RemapError, Appending, AppendPcs
<1>3. QED
  BY <1>1, <1>2

\* The steps of an append before the store of `used`.
LEMMA AppendRefines ==
  ASSUME IInv, IInv', KvIs, KvIs', HasRoom \/ Grow \/ Remap \/ SaveKey \/ SaveValue
  PROVE  UNCHANGED MM!vars
<1>1. ret' = ret /\ CallBar' = CallBar /\ version' = version /\ usedHdr' = usedHdr
  <2>1. /\ ret' = ret /\ version' = version /\ usedHdr' = usedHdr
        /\ pc \in UpsertPcs \ {"return"} /\ pc' \in UpsertPcs \ {"return"}
    BY DEF HasRoom, Grow, Remap, SaveKey, SaveValue, Appending, UpsertPcs, AppendPcs, fileVars
  <2>2. op'.key = op.key /\ op'.f = op.f
    BY DEF HasRoom, Grow, Remap, SaveKey, SaveValue, IInv, TypeOK
  <2>3. QED
    BY <2>1, <2>2 DEF CallBar
<1>2. Published \subseteq Published' /\ \A o \in Published : heads'[o] = heads[o]
  <2>1. [StoreNext]_storeVars
    BY DEF StoreNext, UpsertStep
  <2>2. QED
    BY <2>1, StepMovesNothing
<1>3. CASE HasRoom \/ Remap
  BY <1>1, <1>3, Invisible DEF HasRoom, Remap, fileVars, Published, Live, ValueAt, Cell
<1>4. CASE Grow
  <2>1. Published' \subseteq Published /\ \A o \in DOMAIN vals' : vals'[o] = vals[o]
    BY <1>4, <1>1 DEF Grow, SetLen, Cut, Restrict, Published, Live
  <2>2. \A o \in Published : Cell(o)' = Cell(o) /\ Cell(o) \in DOMAIN vals /\ Cell(o) \in DOMAIN vals'
    BY <1>2 DEF IInv, FileWellFormed, Published, Cell
  <2>3. \A o \in Published : ValueAt(Cell(o))' = ValueAt(Cell(o))
    <3>1. DOMAIN vals' \subseteq DOMAIN vals
      BY <1>4 DEF Grow, SetLen, Cut, Restrict
    <3>2. QED
      BY <2>1, <2>2, <3>1 DEF ValueAt
  <2>4. QED
    BY <1>1, <1>2, <2>1, <2>3, Invisible
<1>5. CASE SaveKey \/ SaveValue
  <2>1. /\ start = usedHdr /\ start \in Nat
        /\ ValueOffset(op.key) \in Nat /\ Live
        /\ \A o \in Published : Cell(o) \in DOMAIN vals /\ Cell(o) \in Nat /\ Cell(o) < start
    BY <1>5, AppendPlace DEF SaveKey, SaveValue
  <2>2. Published' \subseteq Published
    BY <1>5, <1>1, <2>1 DEF SaveKey, SaveValue, Put, Overwrite, Restrict, Published, Live, IInv, TypeOK
  <2>3. \A o \in Published : Cell(o) \in DOMAIN vals' /\ vals'[Cell(o)] = vals[Cell(o)]
    BY <1>5, <2>1 DEF SaveKey, SaveValue, Put, Overwrite, Restrict
  <2>4. \A o \in Published : ValueAt(Cell(o))' = ValueAt(Cell(o))
    BY <1>2, <2>1, <2>3 DEF ValueAt, Cell
  <2>5. QED
    BY <1>1, <1>2, <2>2, <2>4, Invisible
<1>6. QED
  BY <1>3, <1>4, <1>5

\* Writing `used` is the effect of a call that appends, and a `used` beyond u32 its
\* error.
LEMMA PublishRefines ==
  ASSUME IInv, KvIs, KvIs', Publish
  PROVE  MM!Effect \/ MM!ReturnError
<1>1. CASE ~(start + TotalLen(op.key) <= MaxU32)
  BY <1>1, FailureRefines DEF Publish, AppendPcs, fileVars
<1>2. CASE start + TotalLen(op.key) <= MaxU32
  <2>1. /\ pc = "publish" /\ pc' = "return"
        /\ UNCHANGED <<fileLen, version, heads, vals, op, ret>>
    BY <1>2 DEF Publish
  <2>2. /\ Published' = Published \cup {start} /\ start \notin Published
        /\ heads[start] = op.key /\ vals[Cell(start)] = op.value
        /\ op.value = Apply(op.f, 0) /\ Cell(start) \in DOMAIN vals
        /\ \A o : Cell(o)' = Cell(o)
        /\ \A o \in Published : heads[o] # op.key
    BY <1>2, PublishAddsEntry
  <2>3. \A o : ValueAt(Cell(o))' = ValueAt(Cell(o))
    BY <2>1, <2>2 DEF ValueAt
  <2>4. DOMAIN KvBar' = DOMAIN KvBar \cup {op.key} /\ op.key \notin DOMAIN KvBar
    BY <2>1, <2>2 DEF KvIs
  <2>5. KvBar'[op.key] = Apply(op.f, 0)
    BY <2>1, <2>2, <2>3 DEF KvIs, ValueAt
  <2>6. \A k \in DOMAIN KvBar : KvBar'[k] = KvBar[k]
    BY <2>1, <2>2, <2>3 DEF KvIs
  <2>7. KvBar' = [k \in DOMAIN KvBar \cup {op.key} |->
                    IF k = op.key THEN MM!Apply(op.f, MM!ValueIn(KvBar, k)) ELSE KvBar[k]]
    BY <2>4, <2>5, <2>6 DEF KvIs, MM!Apply, Apply, MM!ValueIn
  <2>8. /\ CallBar = [state |-> "invoked", key |-> op.key, f |-> op.f]
        /\ CallBar' = [state |-> "done", key |-> op.key, f |-> op.f]
    BY <2>1 DEF CallBar, UpsertPcs, AppendPcs
  <2>9. QED
    BY <2>1, <2>7, <2>8 DEF MM!Effect
<1>3. QED
  BY <1>1, <1>2

\* The value returned is the one stored.
LEMMA ReturnRefines ==
  ASSUME IInv, KvIs, KvIs', Return
  PROVE  MM!ReturnValue
<1>1. PICK o \in Published : heads[o] = op.key /\ vals[Cell(o)] = op.value
  BY DEF Return, IInv, ReturnsStored
<1>2. Live /\ Cell(o) \in DOMAIN vals
  BY DEF IInv, FileWellFormed, Published
<1>3. KvBar[op.key] = op.value
  BY <1>1, <1>2 DEF KvIs, ValueAt
<1>4. KvBar' = KvBar
  BY KvUnchanged DEF Return, fileVars, Published, Live, ValueAt, Cell
<1>5. CallBar.state = "done" /\ CallBar.key = op.key /\ CallBar' = MM!NoCall
  BY DEF Return, Finish, CallBar, MM!NoCall, UpsertPcs, AppendPcs
<1>6. QED
  BY <1>3, <1>4, <1>5 DEF MM!ReturnValue, Return, Finish, Ok

\* get reads the stored value, and 0 for a series that is not stored.
LEMMA GetRefines ==
  ASSUME IInv, KvIs, KvIs', NEW k \in Keys, Get(k)
  PROVE  MM!Read(k)
<1>1. KvBar' = KvBar
  BY KvUnchanged DEF Get, fileVars, Published, Live, ValueAt, Cell
<1>2. CallBar = MM!NoCall /\ CallBar' = CallBar
  BY DEF Get, CallBar, MM!NoCall, UpsertPcs, AppendPcs
<1>3. QED
  BY <1>1, <1>2, ReadsKv DEF MM!Read, Get

\* The death of the worker aborts its call and keeps the stored map.
LEMMA CrashRefines ==
  ASSUME IInv, KvIs, KvIs', Crash
  PROVE  MM!Abort
<1>1. KvBar' = KvBar
  BY KvUnchanged DEF Crash, fileVars, Published, Live, ValueAt, Cell
<1>2. CallBar' = MM!NoCall
  BY DEF Crash, CallBar, MM!NoCall, UpsertPcs, AppendPcs
<1>3. QED
  BY <1>1, <1>2 DEF MM!Abort, Crash, NoRet, MM!NoRet

\* Every step of the store is a step of the map, or leaves it as it is.
LEMMA StepRefines ==
  ASSUME IInv, IInv', KvIs, KvIs', [StoreNext]_storeVars
  PROVE  [MM!Next]_(MM!vars)
<1>1. CASE Open \/ OpenStep
  BY <1>1, OpenRefines
<1>2. CASE \E k \in Keys, f \in Updates : BeginUpsert(k, f)
  BY <1>2, BeginRefines DEF MM!Next
<1>3. CASE UpsertStep
  BY <1>3, UpdateRefines, RejectRefines, AppendRefines, PublishRefines, ReturnRefines
     DEF UpsertStep, MM!Next
<1>4. CASE \E k \in Keys : Get(k)
  BY <1>4, GetRefines DEF MM!Next
<1>5. CASE Crash
  BY <1>5, CrashRefines DEF MM!Next
<1>6. CASE UNCHANGED storeVars
  BY <1>6 DEF storeVars, MM!vars, KvBar, CallBar, Published, Live, ValueAt, Cell
<1>7. QED
  BY <1>1, <1>2, <1>3, <1>4, <1>5, <1>6 DEF StoreNext

\* The worker and its file implement the metric map.
THEOREM Refinement == StoreSpec => ImplementsMetricMap
<1>1. StoreSpec => []IInv
  BY Invariance
<1>2. IInv => KvIs
  BY KvFacts
<1>3. StoreInit => MM!Init
  BY InitRefines
<1>4. IInv /\ IInv' /\ KvIs /\ KvIs' /\ [StoreNext]_storeVars => [MM!Next]_(MM!vars)
  BY StepRefines
<1>5. QED
  BY <1>1, <1>2, <1>3, <1>4, PTL DEF StoreSpec, ImplementsMetricMap, MM!Spec

-----------------------------------------------------------------------------
(* Counters *)

\* The closure of an increment by no less than 0.
LEMMA CounterApply ==
  ASSUME CountersOnly, NEW f \in Updates, NEW v \in Int
  PROVE  MM!Apply(f, v) \in Int /\ v <= MM!Apply(f, v)
<1>1. f.kind = "inc" /\ f.arg \in Nat
  <2>1. [kind : {"set"}, arg : SetValues] = {}
    BY DEF CountersOnly
  <2>2. f \in [kind : {"inc"}, arg : Increments]
    BY <2>1 DEF Updates
  <2>3. QED
    BY <2>2 DEF CountersOnly
<1>2. QED
  BY <1>1 DEF MM!Apply

\* In the file of a worker with counters only, no step loses a series or makes its
\* value smaller: every step is one of the metric map, and of those only the effect
\* of a call changes the map.
LEMMA CountersGrow ==
  ASSUME CountersOnly, IInv, IInv', KvIs, KvIs', NonNegative, [StoreNext]_storeVars
  PROVE  GrownTo(KvBar, KvBar') /\ NonNegative'
<1>1. KvBar \in [DOMAIN KvBar -> Int]
  BY KvBarType
<1>2. KvBar' = KvBar \/ MM!Effect
  BY StepRefines DEF MM!Next, MM!vars, MM!Invoke, MM!ReturnValue, MM!ReturnError,
     MM!Read, MM!Abort
<1>3. CASE KvBar' = KvBar
  BY <1>1, <1>3 DEF GrownTo, NonNegative
<1>4. CASE MM!Effect
  <2>1. /\ CallBar.state = "invoked"
        /\ KvBar' = [k \in DOMAIN KvBar \cup {CallBar.key} |->
                       IF k = CallBar.key THEN MM!Apply(CallBar.f, MM!ValueIn(KvBar, k))
                       ELSE KvBar[k]]
    BY <1>4 DEF MM!Effect
  <2>2. CallBar.f \in Updates
    BY <2>1 DEF CallBar, IInv, AppendAtUsed
  <2>3. \A k : MM!ValueIn(KvBar, k) \in Int /\ MM!ValueIn(KvBar, k) >= 0
    BY <1>1 DEF MM!ValueIn, NonNegative
  <2>4. \A k : LET v == MM!Apply(CallBar.f, MM!ValueIn(KvBar, k))
               IN v \in Int /\ MM!ValueIn(KvBar, k) <= v
    BY <2>2, <2>3, CounterApply
  <2>5. ASSUME NEW k \in DOMAIN KvBar PROVE k \in DOMAIN KvBar' /\ KvBar[k] <= KvBar'[k]
    BY <1>1, <2>1, <2>4 DEF MM!ValueIn
  <2>6. ASSUME NEW k \in DOMAIN KvBar' PROVE KvBar'[k] \in Nat
    <3>1. CASE k = CallBar.key
      BY <2>1, <2>3, <2>4, <3>1
    <3>2. CASE k # CallBar.key
      BY <2>1, <3>2 DEF NonNegative
    <3>3. QED
      BY <3>1, <3>2
  <2>7. QED
    BY <2>5, <2>6 DEF GrownTo, NonNegative
<1>5. QED
  BY <1>2, <1>3, <1>4

\* The series of a file that is left alone.
LEMMA SameKv ==
  ASSUME UNCHANGED storeVars
  PROVE  /\ KvBar' = KvBar /\ Published' = Published /\ heads' = heads
         /\ (NonNegative' <=> NonNegative)
BY DEF storeVars, KvBar, Published, Live, ValueAt, Cell, NonNegative

=============================================================================
