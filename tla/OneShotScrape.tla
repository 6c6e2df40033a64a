----------------------------- MODULE OneShotScrape -----------------------------
(***************************************************************************)
(* aggregate_dir_to_prometheus_text (src/src/aggregate.rs) on the file of  *)
(* one live worker: the file is copied into a buffer and parsed there.     *)
(*                                                                         *)
(* read_to_end copies from low offsets to high ones, until it meets the    *)
(* end of the file; the worker goes on writing meanwhile.  The 8 bytes of  *)
(* the header, and those of a value, are copied at once.  Of the copy only *)
(* what the parser looks at is kept: the header, the length, and the       *)
(* entries that it walks through.                                          *)
(***************************************************************************)
EXTENDS MmapStore

VARIABLES
  apc,
  copied,    \* the entries copied so far, as the samples they parse to
  copyPos,   \* how far the copy got, on the path of the parser
  hdrUsed,   \* `used` and version as copied
  hdrVersion,
  result,    \* of the last aggregation
  atBegin    \* history: the series of the file when the aggregation began

aggVars == <<apc, copied, copyPos, hdrUsed, hdrVersion, result, atBegin>>
aggAll  == <<storeVars, aggVars>>

AggPcs == {"idle", "header", "entries", "end"}

\* discover_metric_files finds the file and read_file opens it.
StartAggregate ==
  /\ apc = "idle"
  /\ apc' = "header"
  /\ copied' = Nothing
  /\ copyPos' = HEADER_SIZE
  /\ hdrUsed' = HEADER_SIZE
  /\ hdrVersion' = 0
  /\ result' = "none"
  /\ atBegin' = KvBar

\* A file shorter than its header reads as one of no known version.
CopyHeader ==
  /\ apc = "header"
  /\ IF fileLen < HEADER_SIZE
     THEN UNCHANGED <<hdrUsed, hdrVersion>>
     ELSE hdrUsed' = Used /\ hdrVersion' = version
  /\ apc' = "entries"
  /\ UNCHANGED <<copied, copyPos, result, atBegin>>

\* from_slice fits within `used`: the entry becomes a sample.  The samples of one
\* key add up, as those of a counter do.
CopyEntry ==
  LET key   == HeadAt(copyPos)
      next  == copyPos + TotalLen(key)
      value == ValueAt(copyPos + ValueOffset(key))
  IN
  /\ apc = "entries"
  /\ hdrVersion = FILE_FORMAT_VERSION
  /\ MoreEntries(copyPos, hdrUsed)
  /\ next <= hdrUsed
  /\ copied' = Put(copied, key, value + (IF key \in DOMAIN copied THEN copied[key] ELSE 0))
  /\ copyPos' = next
  /\ UNCHANGED <<apc, hdrUsed, hdrVersion, result, atBegin>>

\* Mutant of CopyRest: the last entry is taken for one that does not fit.
CopyRestEarly ==
  /\ apc = "entries"
  /\ \/ hdrVersion # FILE_FORMAT_VERSION
     \/ ~MoreEntries(copyPos, hdrUsed)
     \/ copyPos + TotalLen(HeadAt(copyPos)) >= hdrUsed
  /\ apc' = "end"
  /\ UNCHANGED <<copied, copyPos, hdrUsed, hdrVersion, result, atBegin>>

\* Nothing further is looked at: the version is unknown, `used` is reached, or an
\* entry does not fit.
CopyRest ==
  /\ apc = "entries"
  /\ \/ hdrVersion # FILE_FORMAT_VERSION
     \/ ~MoreEntries(copyPos, hdrUsed)
     \/ copyPos + TotalLen(HeadAt(copyPos)) > hdrUsed
  /\ apc' = "end"
  /\ UNCHANGED <<copied, copyPos, hdrUsed, hdrVersion, result, atBegin>>

\* Mutant of EndOfFile: a file that is exactly full is refused.
EndOfFileStrict ==
  /\ apc = "end"
  /\ apc' = "idle"
  /\ result' = IF hdrVersion = FILE_FORMAT_VERSION /\ hdrUsed >= fileLen
               THEN "InvalidUsed" ELSE "ok"
  /\ UNCHANGED <<copied, copyPos, hdrUsed, hdrVersion, atBegin>>

\* The copy meets the end of the file, and bytes.len() is known.
EndOfFile ==
  /\ apc = "end"
  /\ apc' = "idle"
  /\ result' = IF hdrVersion = FILE_FORMAT_VERSION /\ hdrUsed > fileLen
               THEN "InvalidUsed" ELSE "ok"
  /\ UNCHANGED <<copied, copyPos, hdrUsed, hdrVersion, atBegin>>

-----------------------------------------------------------------------------

AggInit ==
  /\ StoreInit
  /\ apc = "idle"
  /\ copied = Nothing
  /\ copyPos = HEADER_SIZE
  /\ hdrUsed = HEADER_SIZE
  /\ hdrVersion = 0
  /\ result = "none"
  /\ atBegin = Nothing

AggStep == StartAggregate \/ CopyHeader \/ CopyEntry \/ CopyRest \/ EndOfFile

AggNext ==
  \/ StoreNext /\ UNCHANGED aggVars
  \/ AggStep /\ UNCHANGED storeVars

AggSpec == AggInit /\ [][AggNext]_aggAll

-----------------------------------------------------------------------------
(* Properties *)

AggTypeOK ==
  /\ TypeOK
  /\ apc \in AggPcs
  /\ DOMAIN copied \subseteq Keys /\ copied \in [DOMAIN copied -> Int]
  /\ copyPos \in Nat /\ hdrUsed \in Nat /\ hdrVersion \in Nat
  /\ result \in {"none", "ok", "InvalidUsed"}
  /\ DOMAIN atBegin \subseteq Keys /\ atBegin \in [DOMAIN atBegin -> Int]

\* A worker that appends, grows its file, dies or restarts while it is being
\* copied never makes the aggregation of the whole directory fail.
LiveFileIsReadable == result # "InvalidUsed"

\* What the aggregation shows was true of the file while it was copied: every
\* series present when it began, none that is not there by its end, each with a
\* value its counter had in between.  (Of counters that only incremented.)
AggregateIsCurrent ==
  result = "ok" =>
    /\ DOMAIN atBegin \subseteq DOMAIN copied
    /\ DOMAIN copied \subseteq DOMAIN KvBar
    /\ \A k \in DOMAIN copied : MM!ValueIn(atBegin, k) <= copied[k] /\ copied[k] <= KvBar[k]

-----------------------------------------------------------------------------
(* The inductive invariants *)

Readable == hdrVersion = FILE_FORMAT_VERSION

\* The header that was copied is one that the file had, the parser is at the start of
\* an entry or at the end of the last one it looks at, and it stops at that end only.
CopyOnBoundary ==
  /\ apc = "header" => hdrVersion = 0
  /\ ~Readable => copyPos = HEADER_SIZE
  /\ Readable =>
       /\ Live
       /\ OnBoundary(copyPos) /\ OnBoundary(hdrUsed)
       /\ copyPos <= hdrUsed /\ hdrUsed <= usedHdr
       /\ (apc = "end" \/ result = "ok" => copyPos = hdrUsed)
  /\ result = "ok" => apc = "idle"

CopyInv == IInv /\ AggTypeOK /\ CopyOnBoundary /\ LiveFileIsReadable

Copied == {o \in Published : o < copyPos}

InCopy == {heads[o] : o \in {p \in Published : p < hdrUsed}}

\* Of counters: the samples are those of the entries passed, with values between those
\* at the begin and those now; the header was copied after the begin.
CopyCurrent ==
  /\ NonNegative /\ GrownTo(atBegin, KvBar)
  /\ DOMAIN copied = {heads[o] : o \in Copied}
  /\ \A k \in DOMAIN copied :
       k \in DOMAIN KvBar /\ MM!ValueIn(atBegin, k) <= copied[k] /\ copied[k] <= KvBar[k]
  /\ apc # "header" => DOMAIN atBegin \subseteq (IF Readable THEN InCopy ELSE {})

AggInv == CopyInv /\ CopyCurrent

=============================================================================
