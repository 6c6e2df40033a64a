------------------------------ MODULE Extension ------------------------------
(***************************************************************************)
(* The metric objects of the PHP library (examples/lib.php) over the       *)
(* stores that the extension keeps for a process (src/src/php_ext.rs).     *)
(*                                                                         *)
(* A request of a PHP thread makes several calls of a store, and an        *)
(* exception ends it.  Each call opens the store of its path if there is   *)
(* none yet, under the mutex of the cache, so calls are atomic; their      *)
(* inside is in MmapStore.  The cache goes by the spelling of the path:    *)
(* two spellings of one file are two stores, each with a map and an index  *)
(* of its own.  Meanwhile a scrape reads the entries one by one.           *)
(***************************************************************************)
EXTENDS EntryLayout, Sums, Sequences, FiniteSets, Functions

CONSTANTS
  Threads,
  Spellings,    \* of the path of the one file
  Kinds,        \* what the file is for, of "counter", "gauge", "histogram"
  Amounts,      \* what is observed, or the gauge or counter is incremented by
  Buckets,      \* the finite bounds of the histogram
  KeyLens,      \* the lengths of the fields of each key
  MaxRequests   \* bound on the requests

\* The series of the one label set of a histogram.  A counter or gauge has several
\* label sets: each amount is for a series of its own.
SumKey    == <<"sum">>
CountKey  == <<"count">>
InfKey    == <<"+Inf">>
Series(v) == <<"series", v>>
Keys      == {SumKey, CountKey, InfKey} \cup {<<"le", b>> : b \in Buckets}
               \cup {Series(v) : v \in Amounts}

ASSUME ExtensionAssumption ==
  /\ Kinds \subseteq {"counter", "gauge", "histogram"}
  /\ Amounts \subseteq Nat /\ Buckets \subseteq Nat /\ MaxRequests \in Nat
  /\ IsFiniteSet(Threads) /\ IsFiniteSet(Amounts) /\ IsFiniteSet(Buckets)
  /\ KeyLens \in [Keys -> Lens]

VARIABLES
  kind,      \* what the file is for
  fileLen,   \* its length
  cells,     \* its entries: key, offset of the value, value
  stores,    \* STORE_CACHE
  requests,  \* the request of each thread, with the calls it has still to make
  scrape,    \* a scrape under way
  \* history
  begun,     \* the requests begun, by amount
  done,      \* those that came to their end
  applied,   \* the sum of the increments that returned, by key
  paths,     \* the spellings that requests came with
  overlap    \* two requests were under way at a time

extVars == <<kind, fileLen, cells, stores, requests, scrape, begun, done, applied, paths, overlap>>

Closed   == [open |-> FALSE, mapLen |-> 0, index |-> <<>>]
NoScrape == [under_way |-> FALSE]
NoCalls  == [calls |-> <<>>]

Used == IF cells = <<>> THEN HEADER_SIZE ELSE cells[Len(cells)].at + VALUE_SIZE

-----------------------------------------------------------------------------
(* Counter::inc, Gauge::inc, Histogram::observe *)

Inc(k, by) == [op |-> "increment", key |-> k, by |-> by]

\* The buckets from the lowest that holds the amount on, in their order.
BucketCalls(v) ==
  LET bounds == {b \in Buckets : v <= b} IN
  [i \in 1..Cardinality(bounds) |->
     Inc(<<"le", CHOOSE b \in bounds : Cardinality({x \in bounds : x <= b}) = i>>, 1)]

\* Mutant of CallsOf: Gauge::inc sets what it is to add.
CallsOfBlind(v) ==
  CASE kind = "gauge"     -> <<[op |-> "set", key |-> Series(v), by |-> v]>>
    [] kind = "counter"   -> <<Inc(Series(v), v)>>
    [] kind = "histogram" ->
         <<Inc(SumKey, v), Inc(CountKey, 1)>> \o BucketCalls(v) \o <<Inc(InfKey, 1)>>

\* The set of Gauge::inc adds to what its get returned.
CallsOf(v) ==
  CASE kind = "counter"   -> <<Inc(Series(v), v)>>
    [] kind = "gauge"     -> <<[op |-> "get", key |-> Series(v), by |-> 0],
                               [op |-> "set", key |-> Series(v), by |-> v]>>
    [] kind = "histogram" ->
         <<Inc(SumKey, v), Inc(CountKey, 1)>> \o BucketCalls(v) \o <<Inc(InfKey, 1)>>

Busy(t) == requests[t].calls # <<>>

Begin(t, path, v) ==
  /\ ~Busy(t)
  /\ Total(begun, Amounts) < MaxRequests
  /\ requests' = [requests EXCEPT ![t] =
       [calls |-> CallsOf(v), path |-> path, amount |-> v, got |-> 0]]
  /\ begun' = [begun EXCEPT ![v] = @ + 1]
  /\ paths' = paths \cup {path}
  /\ overlap' = (overlap \/ \E u \in Threads : Busy(u))
  /\ UNCHANGED <<kind, fileLen, cells, stores, scrape, done, applied>>

-----------------------------------------------------------------------------
(* with_cached_store, then get or upsert *)

Path(t) == requests[t].path
Call(t) == Head(requests[t].calls)

\* rebuild_index: of several entries of a key, the last.
IndexOf(entries) ==
  [k \in {entries[i].key : i \in DOMAIN entries} |->
     CHOOSE i \in DOMAIN entries :
       entries[i].key = k /\ \A j \in DOMAIN entries : entries[j].key = k => j <= i]

LenOpened == IF fileLen = 0 THEN PageAligned(HEADER_SIZE) ELSE fileLen

\* The store of the path, opened if it was not, and the length of the file then.
Store(path) ==
  IF stores[path].open THEN stores[path]
  ELSE [open |-> TRUE, mapLen |-> LenOpened, index |-> IndexOf(cells)]

LenWith(path) == IF stores[path].open THEN fileLen ELSE LenOpened

\* Mutant of Throws: the exception is caught and the next call made.
ThrowsOn(t) ==
  /\ requests' = [requests EXCEPT ![t] =
       IF Len(@.calls) = 1 THEN NoCalls ELSE [@ EXCEPT !.calls = Tail(@)]]
  /\ done' = IF Len(requests[t].calls) = 1
             THEN [done EXCEPT ![requests[t].amount] = @ + 1] ELSE done

Throws(t) == requests' = [requests EXCEPT ![t] = NoCalls] /\ UNCHANGED done

Returns(t, v) ==
  LET r == requests[t] IN
  IF Len(r.calls) = 1
  THEN /\ requests' = [requests EXCEPT ![t] = NoCalls]
       /\ done' = [done EXCEPT ![r.amount] = @ + 1]
  ELSE /\ requests' = [requests EXCEPT ![t] = [r EXCEPT !.calls = Tail(@), !.got = v]]
       /\ UNCHANGED done

Reads(t) == Busy(t) /\ Call(t).op = "get"

\* get looks at `used` before anything else.
Get(t) ==
  LET store == Store(Path(t))
      k     == Call(t).key
  IN
  /\ Reads(t)
  /\ stores' = [stores EXCEPT ![Path(t)] = store]
  /\ fileLen' = LenWith(Path(t))
  /\ IF Used > store.mapLen THEN Throws(t)
     ELSE Returns(t, IF k \in DOMAIN store.index THEN cells[store.index[k]].value ELSE 0)
  /\ UNCHANGED <<kind, cells, scrape, begun, applied, paths, overlap>>

Writes(t) == Busy(t) /\ Call(t).op \in {"increment", "set"}

\* The closure handed to upsert.
Apply(t, v) == IF Call(t).op = "set" THEN requests[t].got + Call(t).by ELSE v + Call(t).by

Counted(t) == applied' = [applied EXCEPT ![Call(t).key] = @ + Call(t).by]

\* Mutant of Update: the value of the entry is not looked at.
UpdateBlindly(t) ==
  LET store == Store(Path(t))
      i     == store.index[Call(t).key]
  IN
  /\ Writes(t)
  /\ Call(t).key \in DOMAIN store.index
  /\ stores' = [stores EXCEPT ![Path(t)] = store]
  /\ fileLen' = LenWith(Path(t))
  /\ cells' = [cells EXCEPT ![i].value = Apply(t, 0)]
  /\ Counted(t)
  /\ Returns(t, cells'[i].value)
  /\ UNCHANGED <<kind, scrape, begun, paths, overlap>>

Update(t) ==
  LET store == Store(Path(t))
      i     == store.index[Call(t).key]
  IN
  /\ Writes(t)
  /\ Call(t).key \in DOMAIN store.index
  /\ stores' = [stores EXCEPT ![Path(t)] = store]
  /\ fileLen' = LenWith(Path(t))
  /\ cells' = [cells EXCEPT ![i].value = Apply(t, @)]
  /\ Counted(t)
  /\ Returns(t, cells'[i].value)
  /\ UNCHANGED <<kind, scrape, begun, paths, overlap>>

Appends(t) == Writes(t) /\ Call(t).key \notin DOMAIN Store(Path(t)).index

\* The other store has published beyond the end of this one's map, which nothing
\* ever extends again.
InvalidUsed(t) ==
  /\ Appends(t)
  /\ Used > Store(Path(t)).mapLen
  /\ stores' = [stores EXCEPT ![Path(t)] = Store(Path(t))]
  /\ fileLen' = LenWith(Path(t))
  /\ Throws(t)
  /\ UNCHANGED <<kind, cells, scrape, begun, applied, paths, overlap>>

Needed(t) == Used + CalcTotalLen(KeyLens[Call(t).key])

\* Mutant of NewLen: the length is doubled once.
NewLenTwice(len, needed) == PageAligned(2 * len)

\* ensure_capacity: the length is doubled until there is room.
Doublings(len, needed) ==
  CHOOSE i \in 0..needed : needed <= len * 2^i /\ \A j \in 0..(i - 1) : len * 2^j < needed

NewLen(len, needed) == PageAligned(len * 2^Doublings(len, needed))

Grows(t) == Appends(t) /\ Used <= Store(Path(t)).mapLen /\ Store(Path(t)).mapLen < Needed(t)

\* set_len fails, or the new mapping does and leaves the file as long as it is.
GrowFails(t) ==
  LET store == Store(Path(t)) IN
  /\ Grows(t)
  /\ fileLen' \in {LenWith(Path(t)), NewLen(store.mapLen, Needed(t))}
  /\ stores' = [stores EXCEPT ![Path(t)] = store]
  /\ Throws(t)
  /\ UNCHANGED <<kind, cells, scrape, begun, applied, paths, overlap>>

\* The new entry.  Its end must fit a u32, or write_used_header fails after all.
AddEntry(t, store, len) ==
  LET k      == Call(t).key
      at     == Used + CalcValueOffset(KeyLens[k])
      value  == Apply(t, 0)
      number == Len(cells) + 1
  IN
  /\ fileLen' = len
  /\ IF Needed(t) <= MaxU32
     THEN /\ cells' = Append(cells, [key |-> k, at |-> at, value |-> value])
          /\ stores' = [stores EXCEPT ![Path(t)] =
               [store EXCEPT !.index = [x \in DOMAIN @ \cup {k} |->
                                          IF x = k THEN number ELSE @[x]]]]
          /\ Counted(t)
          /\ Returns(t, value)
     ELSE /\ stores' = [stores EXCEPT ![Path(t)] = store]
          /\ Throws(t)
          /\ UNCHANGED <<cells, applied>>

HasRoom(t) ==
  LET store == Store(Path(t)) IN
  /\ Appends(t)
  /\ Needed(t) <= store.mapLen
  /\ Needed(t) <= LenWith(Path(t))
  /\ AddEntry(t, store, LenWith(Path(t)))
  /\ UNCHANGED <<kind, scrape, begun, paths, overlap>>

\* Mutant of Grow: the file is mapped no further than before.
GrowUnmapped(t) ==
  LET store == Store(Path(t))
      len   == NewLen(store.mapLen, Needed(t))
  IN
  /\ Grows(t)
  /\ AddEntry(t, store, len)
  /\ UNCHANGED <<kind, scrape, begun, paths, overlap>>

Grow(t) ==
  LET store == Store(Path(t))
      len   == NewLen(store.mapLen, Needed(t))
  IN
  /\ Grows(t)
  /\ AddEntry(t, [store EXCEPT !.mapLen = len], len)
  /\ UNCHANGED <<kind, scrape, begun, paths, overlap>>

\* The process ends: its requests and its stores are gone.
Exit ==
  /\ stores' = [path \in Spellings |-> Closed]
  /\ requests' = [t \in Threads |-> NoCalls]
  /\ UNCHANGED <<kind, fileLen, cells, scrape, begun, done, applied, paths, overlap>>

\* The map reaches beyond the end of the file, which the other store has cut: the
\* entry is written where there is no page (SIGBUS).
Sigbus(t) ==
  /\ Appends(t)
  /\ Needed(t) <= Store(Path(t)).mapLen
  /\ LenWith(Path(t)) < Needed(t)
  /\ Exit

-----------------------------------------------------------------------------
(* A scrape *)

StartScrape ==
  /\ ~scrape.under_way
  /\ scrape' = [under_way |-> TRUE, next |-> 1, last |-> Len(cells), before |-> done,
                seen |-> [k \in Keys |-> 0]]
  /\ UNCHANGED <<kind, fileLen, cells, stores, requests, begun, done, applied, paths, overlap>>

\* Entries of one key are merged: added, or for the gauge the last one taken.
ReadEntry ==
  LET cell == cells[scrape.next] IN
  /\ scrape.under_way
  /\ scrape.next <= scrape.last
  /\ scrape' = [scrape EXCEPT !.next = @ + 1,
       !.seen[cell.key] = IF kind = "gauge" THEN cell.value ELSE @ + cell.value]
  /\ UNCHANGED <<kind, fileLen, cells, stores, requests, begun, done, applied, paths, overlap>>

EndScrape ==
  /\ scrape.under_way
  /\ scrape.next > scrape.last
  /\ scrape' = NoScrape
  /\ UNCHANGED <<kind, fileLen, cells, stores, requests, begun, done, applied, paths, overlap>>

-----------------------------------------------------------------------------

ExtInit ==
  /\ kind \in Kinds
  /\ fileLen = 0
  /\ cells = <<>>
  /\ stores = [path \in Spellings |-> Closed]
  /\ requests = [t \in Threads |-> NoCalls]
  /\ scrape = NoScrape
  /\ begun = [v \in Amounts |-> 0]
  /\ done = [v \in Amounts |-> 0]
  /\ applied = [k \in Keys |-> 0]
  /\ paths = {}
  /\ overlap = FALSE

CallStep(t) ==
  \/ Get(t) \/ Update(t) \/ InvalidUsed(t)
  \/ HasRoom(t) \/ Grow(t) \/ GrowFails(t) \/ Sigbus(t)

ExtNext ==
  \/ \E t \in Threads, path \in Spellings, v \in Amounts : Begin(t, path, v)
  \/ \E t \in Threads : CallStep(t)
  \/ Exit
  \/ StartScrape \/ ReadEntry \/ EndScrape

ExtSpec == ExtInit /\ [][ExtNext]_extVars

-----------------------------------------------------------------------------
(* Properties *)

ExtTypeOK ==
  /\ kind \in Kinds /\ fileLen \in Nat
  /\ cells \in Seq([key : Keys, at : Nat, value : Nat])
  /\ \A path \in Spellings :
       /\ stores[path].open \in BOOLEAN /\ stores[path].mapLen \in Nat
       /\ DOMAIN stores[path].index \subseteq Keys
       /\ \A k \in DOMAIN stores[path].index :
            /\ stores[path].index[k] \in DOMAIN cells
            /\ cells[stores[path].index[k]].key = k
  /\ cells # <<>> => Used <= fileLen
  /\ \A v \in Amounts : done[v] \in 0..begun[v] /\ begun[v] \in 0..MaxRequests
  /\ applied \in [Keys -> Nat]

\* No increment that returned is lost or counted twice, whatever the spellings it came
\* through, the exceptions and the deaths between: the entries of a key add up to it.
IncrementsAddUp ==
  kind # "gauge" =>
    \A k \in Keys :
      applied[k] = Total([i \in DOMAIN cells |-> cells[i].value],
                         {i \in DOMAIN cells : cells[i].key = k})

\* A histogram is written series by series, also while it is scraped, and an exception
\* or a death may leave an observation half written; but every series of it has all
\* observations that came to their end before the scrape began, and none that had not
\* begun at its end.  So _count and the +Inf bucket differ by no more than those that
\* were cut short or under way.
PartOf(k, v) ==
  LET calls == CallsOf(v) IN
  Total([i \in DOMAIN calls |-> calls[i].by], {i \in DOMAIN calls : calls[i].key = k})

ObservationsBracketed ==
  scrape.under_way /\ scrape.next > scrape.last /\ kind # "gauge" =>
    \A k \in Keys :
      /\ Total([v \in Amounts |-> scrape.before[v] * PartOf(k, v)], Amounts) <= scrape.seen[k]
      /\ scrape.seen[k] <= Total([v \in Amounts |-> begun[v] * PartOf(k, v)], Amounts)

\* Gauge::inc, a get and then a set, is an increment so long as requests come one after
\* the other and with one spelling, whatever exceptions and deaths there were.
GaugeIncIsIncrement ==
  kind = "gauge" /\ ~overlap /\ Cardinality(paths) <= 1 =>
    \A k \in Keys :
      applied[k] = IF k \in DOMAIN IndexOf(cells) THEN cells[IndexOf(cells)[k]].value ELSE 0

\* The map of a store lags behind the file only if the process has the file open a
\* second time: with one spelling no request fails with InvalidUsed, or dies of SIGBUS.
LaggingStoreHasSibling ==
  \A path \in Spellings :
    stores[path].open /\ (Used > stores[path].mapLen \/ stores[path].mapLen > fileLen) =>
      Cardinality(paths) > 1

=============================================================================
