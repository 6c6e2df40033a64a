----------------------------- MODULE EntryLayout -----------------------------
(***************************************************************************)
(* The arithmetic of the versioned entry structure (src/src/raw_entry.rs,  *)
(* and the page rounding of src/src/mmap_file.rs).                         *)
(*                                                                         *)
(* An entry is [u32 family_len][u32 sample_len][u32 labels_len][family]    *)
(* [sample][labels][space padding][f64 value].  The three text fields      *)
(* matter to the file only through their lengths, so a layout is a record  *)
(* of lengths.                                                             *)
(*                                                                         *)
(* usize is taken as 64 bits wide, the target the README supports: three   *)
(* lengths that passed check_field_len sum to less than 2^34, so no        *)
(* checked_add of raw_entry.rs can fail and the Overflow branches behind   *)
(* them are left out.  u32 keeps its width: MaxU32 is u32::MAX, scaled     *)
(* down by the configurations.                                             *)
(***************************************************************************)
EXTENDS Integers

CONSTANTS
  MaxU32,    \* u32::MAX, the largest field length and the largest `used`
  PageSize   \* page_size::get()

ASSUME MaxU32Assumption   == MaxU32 \in Nat
ASSUME PageSizeAssumption == PageSize \in Nat \ {0}

HEADER_SIZE         == 8
FILE_FORMAT_VERSION == 2
LENGTH_FIELDS_SIZE  == 12
VALUE_SIZE          == 8

Lens == [family : Nat, sample : Nat, labels : Nat]

NoLens == [family |-> 0, sample |-> 0, labels |-> 0]

BodyLen(lens) == lens.family + lens.sample + lens.labels

\* check_field_len applied to the three fields: otherwise KeyTooLong.
FieldLensOk(lens) ==
  /\ lens.family <= MaxU32
  /\ lens.sample <= MaxU32
  /\ lens.labels <= MaxU32

\* Mutant of PaddingLen: the entry is not padded.
PaddingLenNone(lens) == 0

PaddingLen(lens) == (8 - ((LENGTH_FIELDS_SIZE + BodyLen(lens)) % 8)) % 8

CalcValueOffset(lens) == LENGTH_FIELDS_SIZE + BodyLen(lens) + PaddingLen(lens)

CalcTotalLen(lens) == CalcValueOffset(lens) + VALUE_SIZE

\* Mutant of MoreEntries: off by one entry head.
MoreEntriesAtEnd(pos, used) == pos <= used

\* The loop condition `pos + 12 <= used` shared by the three scans of a file.
MoreEntries(pos, used) == pos + LENGTH_FIELDS_SIZE <= used

PageAligned(min) ==
  IF min % PageSize = 0 THEN min ELSE min + (PageSize - (min % PageSize))

=============================================================================
