--------------------------- MODULE ExtensionProofs ---------------------------
(***************************************************************************)
(* Proofs about Extension, for any threads, spellings, amounts, buckets    *)
(* and lengths of keys.                                                    *)
(***************************************************************************)
EXTENDS Extension, SumsProofs

-----------------------------------------------------------------------------
(* ensure_capacity *)

\* 2^n, the number of subsets of a set of n elements, is no less than n.
LEMMA PowerOfTwo == \A n \in Nat : 2^n \in Nat /\ n <= 2^n
<1>1. TAKE n \in Nat
<1>2. IsFiniteSet(1..n) /\ Cardinality(1..n) = n
  BY FS_Interval
<1>3. IsFiniteSet(SUBSET (1..n)) /\ Cardinality(SUBSET (1..n)) = 2^n
  BY <1>2, FS_SUBSET
<1>4. [i \in 1..n |-> {i}] \in Injection(1..n, SUBSET (1..n))
  BY DEF Injection, IsInjective
<1>5. Cardinality(1..n) <= Cardinality(SUBSET (1..n))
  BY <1>3, <1>4, FS_Injection
<1>6. QED
  BY <1>2, <1>3, <1>5, FS_CardinalityType

\* The loop stops, and there is room then.
LEMMA NewLenFacts ==
  ASSUME NEW len \in Nat \ {0}, NEW needed \in Nat
  PROVE  NewLen(len, needed) \in Nat /\ needed <= NewLen(len, needed)
<1> DEFINE B == {i \in Nat : needed <= len * 2^i}
           d == Doublings(len, needed)
<1>1. needed \in B
  <2> DEFINE p == 2^needed
  <2>1. p \in Nat /\ needed <= p
    BY PowerOfTwo
  <2> HIDE DEF p
  <2>2. needed <= len * p
    BY <2>1
  <2>3. QED
    BY <2>2 DEF p
<1>2. PICK i \in B : \A j \in B : i <= j
  <2>1. B \subseteq Nat
    OBVIOUS
  <2> HIDE DEF B
  <2>2. QED
    BY <1>1, <2>1, SmallestNumber
<1>3. \A j \in 0..(i - 1) : len * 2^j < needed
  <2> SUFFICES ASSUME NEW j \in 0..(i - 1) PROVE len * 2^j < needed
    OBVIOUS
  <2> DEFINE p == 2^j
  <2>1. p \in Nat
    BY PowerOfTwo
  <2>2. ~(needed <= len * p)
    BY <1>2
  <2> HIDE DEF p
  <2>3. len * p < needed
    BY <2>1, <2>2
  <2>4. QED
    BY <2>3 DEF p
<1>4. i \in 0..needed /\ needed <= len * 2^i
  BY <1>1, <1>2
<1>5. d \in 0..needed /\ needed <= len * 2^d
  BY <1>3, <1>4 DEF Doublings
<1> DEFINE p == 2^d
<1>6. p \in Nat
  BY <1>5, PowerOfTwo
<1> HIDE DEF p
<1>7. len * p \in Nat /\ needed <= len * p
  BY <1>5, <1>6 DEF p
<1>8. \A n \in Nat : PageAligned(n) \in Nat /\ n <= PageAligned(n)
  BY PageSizeAssumption DEF PageAligned
<1>9. QED
  BY <1>7, <1>8 DEF NewLen, p

-----------------------------------------------------------------------------
(* The inductive invariant *)

CellType == [key : Keys, at : Nat, value : Nat]
CallType == [op : {"get", "set", "increment"}, key : Keys, by : Nat]

\* What the calls for a key come to.
CallSum(calls, k) ==
  Total([i \in DOMAIN calls |-> calls[i].by], {i \in DOMAIN calls : calls[i].key = k})

\* What a request, or none, still owes to a key; what all of it is worth; and one for
\* a request that is under way with the amount.
Owes(r, k)  == CallSum(r.calls, k)
Worth(r, k) == IF r.calls = <<>> THEN 0 ELSE PartOf(k, r.amount)
With(r, v)  == IF r.calls # <<>> /\ r.amount = v THEN 1 ELSE 0

\* Over all requests.
OwesAll(k)  == Total([t \in Threads |-> Owes(requests[t], k)], Threads)
WorthAll(k) == Total([t \in Threads |-> Worth(requests[t], k)], Threads)
WithAll(v)  == Total([t \in Threads |-> With(requests[t], v)], Threads)

FileOK ==
  /\ kind \in Kinds /\ cells \in Seq(CellType)
  /\ fileLen \in Nat /\ (fileLen = 0 \/ HEADER_SIZE <= fileLen)
  /\ cells # <<>> => Used <= fileLen

IndexOK(index, entries) ==
  /\ DOMAIN index \subseteq Keys
  /\ \A k \in DOMAIN index : index[k] \in DOMAIN entries /\ entries[index[k]].key = k

StoreOK(store, entries) ==
  /\ store.open \in BOOLEAN /\ store.mapLen \in Nat
  /\ store = [open |-> store.open, mapLen |-> store.mapLen, index |-> store.index]
  /\ IndexOK(store.index, entries)
  /\ store.open => HEADER_SIZE <= store.mapLen

StoresOK ==
  /\ stores = [path \in Spellings |-> stores[path]]
  /\ \A path \in Spellings : StoreOK(stores[path], cells)

\* A request owes no more than it is worth, and that of a gauge has its get and its set
\* to make, or its set.
RequestOK(r) ==
  \/ r = NoCalls
  \/ /\ r \in [calls : Seq(CallType), path : Spellings, amount : Amounts, got : Nat]
     /\ r.calls # <<>>
     /\ kind # "gauge" =>
          /\ \A i \in DOMAIN r.calls : r.calls[i].op = "increment"
          /\ \A k \in Keys : Owes(r, k) <= PartOf(k, r.amount)
     /\ kind = "gauge" => r.calls \in {CallsOf(r.amount), Tail(CallsOf(r.amount))}

RequestsOK ==
  /\ requests = [t \in Threads |-> requests[t]]
  /\ \A t \in Threads : RequestOK(requests[t])

CountsOK ==
  /\ begun \in [Amounts -> Nat] /\ done \in [Amounts -> Nat] /\ applied \in [Keys -> Nat]
  /\ Total(begun, Amounts) <= MaxRequests
  /\ \A v \in Amounts :
       done[v] + WithAll(v) <= begun[v]

\* The values of the entries of a key, of those at some positions.
SumAt(entries, k, P) ==
  Total([i \in DOMAIN entries |-> entries[i].value],
        {i \in DOMAIN entries : entries[i].key = k} \cap P)

\* They add up to what was applied.
AddUp == kind # "gauge" => \A k \in Keys : applied[k] = SumAt(cells, k, Nat)

\* All that requests begun or done are worth to a key.
WorthOf(counts, k) == Total([v \in Amounts |-> counts[v] * PartOf(k, v)], Amounts)

\* What was applied to a key is what those begun are worth, but for what is owed and
\* what was cut short; it is no less than what those that are done are worth, and what
\* those under way have paid.
Accounts ==
  kind # "gauge" =>
    \A k \in Keys :
      /\ applied[k] + OwesAll(k) <= WorthOf(begun, k)
      /\ WorthOf(done, k) + WorthAll(k) <= applied[k] + OwesAll(k)

\* A scrape will have seen what was applied when it began, and never more than is.
Ahead  == {i \in Nat : scrape.next <= i}
ToRead == {i \in Nat : scrape.next <= i /\ i <= scrape.last}
ScrapeOK ==
  scrape.under_way \in BOOLEAN /\
  (scrape.under_way =>
    /\ scrape = [under_way |-> TRUE, next |-> scrape.next, last |-> scrape.last,
                 before |-> scrape.before, seen |-> scrape.seen]
    /\ scrape.next \in Nat \ {0} /\ scrape.last \in 0..Len(cells)
    /\ scrape.before \in [Amounts -> Nat] /\ scrape.seen \in [Keys -> Nat]
    /\ kind # "gauge" =>
         \A k \in Keys :
           /\ WorthOf(scrape.before, k) <= scrape.seen[k] + SumAt(cells, k, ToRead)
           /\ scrape.seen[k] + SumAt(cells, k, Ahead) <= applied[k])

\* With one spelling the index and the map of the store are up to date.
OneSpelling == \A p, q \in paths : p = q
Current(path) ==
  /\ stores[path].index = IndexOf(cells)
  /\ Used <= stores[path].mapLen /\ stores[path].mapLen <= fileLen

PathsOK ==
  /\ paths \subseteq Spellings /\ IsFiniteSet(paths)
  /\ \A t \in Threads : Busy(t) => requests[t].path \in paths
  /\ \A path \in Spellings : stores[path].open => path \in paths
  /\ OneSpelling => \A path \in Spellings : stores[path].open => Current(path)

\* The value that a store which is up to date has for a key.
ValueOf(k) == IF k \in DOMAIN IndexOf(cells) THEN cells[IndexOf(cells)[k]].value ELSE 0

\* Without overlap and with one spelling, what a get returned is what the set finds.
GaugeOK ==
  /\ overlap \in BOOLEAN
  /\ ~overlap => \A t, u \in Threads : Busy(t) /\ Busy(u) => t = u
  /\ kind = "gauge" /\ ~overlap /\ OneSpelling =>
       /\ \A k \in Keys : applied[k] = ValueOf(k)
       /\ \A t \in Threads :
            Busy(t) /\ Len(requests[t].calls) = 1 =>
              requests[t].got = ValueOf(Series(requests[t].amount))

TypeInv == FileOK /\ StoresOK /\ RequestsOK /\ CountsOK
ExtInv  == TypeInv /\ AddUp /\ Accounts /\ ScrapeOK /\ PathsOK /\ GaugeOK

-----------------------------------------------------------------------------
(* The calls of a request *)

\* The observation of an amount goes to buckets of the histogram, one by one.
LEMMA BucketCallsType ==
  ASSUME NEW v \in Amounts
  PROVE  /\ BucketCalls(v) \in Seq(CallType)
         /\ \A i \in DOMAIN BucketCalls(v) : BucketCalls(v)[i].op = "increment"
<1> DEFINE bounds == {b \in Buckets : v <= b}
           n == Cardinality(bounds)
           Nth(i) == CHOOSE b \in bounds : Cardinality({x \in bounds : x <= b}) = i
<1>1. IsFiniteSet(bounds) /\ bounds \subseteq Nat
  BY FS_Subset, ExtensionAssumption
<1>2. n \in Nat
  BY <1>1, FS_CardinalityType
<1>3. \A i \in 1..n : \E b \in bounds : Cardinality({x \in bounds : x <= b}) = i
  <2> HIDE DEF bounds
  <2>1. QED
    BY <1>1, NthSmallest
<1>4. \A i \in 1..n : Nth(i) \in bounds
  BY <1>3
<1>5. \A i \in 1..n : Inc(<<"le", Nth(i)>>, 1) \in CallType
  BY <1>4 DEF Inc, CallType, Keys
<1>6. BucketCalls(v) = [i \in 1..n |-> Inc(<<"le", Nth(i)>>, 1)]
  BY DEF BucketCalls
<1> HIDE DEF Nth, n, bounds
<1>7. BucketCalls(v) \in Seq(CallType)
  BY <1>2, <1>5, <1>6
<1>8. \A i \in 1..n : BucketCalls(v)[i].op = "increment"
  BY <1>6 DEF Inc
<1>9. DOMAIN BucketCalls(v) = 1..n
  BY <1>6
<1>10. QED
  BY <1>7, <1>8, <1>9

\* A request has calls to make; a gauge a get and a set, the others increments only.
LEMMA CallsOfType ==
  ASSUME kind \in Kinds, NEW v \in Amounts
  PROVE  /\ CallsOf(v) \in Seq(CallType) /\ CallsOf(v) # <<>>
         /\ kind # "gauge" => \A i \in DOMAIN CallsOf(v) : CallsOf(v)[i].op = "increment"
<1>1. v \in Nat /\ Series(v) \in Keys /\ SumKey \in Keys /\ CountKey \in Keys /\ InfKey \in Keys
  BY ExtensionAssumption DEF Keys
<1>2. CASE kind = "counter"
  <2>1. CallsOf(v) = <<Inc(Series(v), v)>>
    BY <1>2 DEF CallsOf
  <2>2. Inc(Series(v), v) \in CallType /\ Inc(Series(v), v).op = "increment"
    BY <1>1 DEF Inc, CallType
  <2> HIDE DEF Inc
  <2>3. QED
    BY <2>1, <2>2
<1>3. CASE kind = "gauge"
  <2> DEFINE g == [op |-> "get", key |-> Series(v), by |-> 0]
             u == [op |-> "set", key |-> Series(v), by |-> v]
  <2>1. CallsOf(v) = <<g, u>>
    BY <1>3 DEF CallsOf
  <2>2. g \in CallType /\ u \in CallType
    BY <1>1 DEF CallType
  <2> HIDE DEF g, u
  <2>3. QED
    BY <1>3, <2>1, <2>2
<1>4. CASE kind = "histogram"
  <2> DEFINE s == Inc(SumKey, v)
             c == Inc(CountKey, 1)
             e == Inc(InfKey, 1)
             b == BucketCalls(v)
  <2>1. CallsOf(v) = <<s, c>> \o b \o <<e>>
    BY <1>4 DEF CallsOf
  <2>2. \A x \in {s, c, e} : x \in CallType /\ x.op = "increment"
    BY <1>1 DEF Inc, CallType
  <2>3. b \in Seq(CallType) /\ \A i \in DOMAIN b : b[i].op = "increment"
    BY BucketCallsType
  <2> HIDE DEF s, c, e, b
  <2> DEFINE a == <<s, c>> \o b
  <2>4. a \in Seq(CallType) /\ \A i \in DOMAIN a : a[i].op = "increment"
    BY <2>2, <2>3
  <2>5. CallsOf(v) = a \o <<e>>
    BY <2>1
  <2> HIDE DEF a
  <2>6. QED
    BY <2>2, <2>4, <2>5
<1>5. QED
  BY <1>2, <1>3, <1>4, ExtensionAssumption

\* What a call is worth is a number, and so is what an entry has.
LEMMA ByIsNat ==
  ASSUME NEW calls \in Seq(CallType), NEW i \in DOMAIN calls
  PROVE  calls[i].by \in Nat
<1>1. calls[i] \in CallType
  OBVIOUS
<1>2. QED
  BY <1>1 DEF CallType

\* An entry is a record of its key, its offset and its value.
LEMMA CellIs ==
  ASSUME NEW entries \in Seq(CellType), NEW i \in DOMAIN entries
  PROVE  /\ entries[i].key \in Keys /\ entries[i].at \in Nat /\ entries[i].value \in Nat
         /\ entries[i] = [key |-> entries[i].key, at |-> entries[i].at,
                          value |-> entries[i].value]
<1>1. entries[i] \in CellType
  OBVIOUS
<1>2. QED
  BY <1>1 DEF CellType

\* What is owed is a number, nothing if no call is left.
LEMMA CallSumNat ==
  ASSUME NEW calls \in Seq(CallType), NEW k
  PROVE  CallSum(calls, k) \in Nat /\ (calls = <<>> => CallSum(calls, k) = 0)
<1> DEFINE f == [i \in DOMAIN calls |-> calls[i].by]
           S == {i \in DOMAIN calls : calls[i].key = k}
<1>1. IsFiniteSet(S)
  BY FS_Interval, FS_Subset
<1>2. \A i \in S : f[i] \in Nat
  BY ByIsNat
<1>3. calls = <<>> => S = {}
  OBVIOUS
<1>4. CallSum(calls, k) = Total(f, S)
  BY DEF CallSum
<1> HIDE DEF f, S
<1>5. QED
  BY <1>1, <1>2, <1>3, <1>4, TotalNat, TotalEmpty

\* With the first call, what that one was worth is owed no more.
LEMMA CallSumTail ==
  ASSUME NEW calls \in Seq(CallType), calls # <<>>, NEW k
  PROVE  CallSum(calls, k) = (IF Head(calls).key = k THEN Head(calls).by ELSE 0)
                               + CallSum(Tail(calls), k)
<1> DEFINE f == [i \in DOMAIN calls |-> calls[i].by]
           S == {i \in DOMAIN calls : calls[i].key = k}
           g == [i \in DOMAIN Tail(calls) |-> Tail(calls)[i].by]
           R == {i \in DOMAIN Tail(calls) : Tail(calls)[i].key = k}
<1>1. IsFiniteSet(S) /\ IsFiniteSet(R) /\ IsFiniteSet(S \ {1})
  <2>1. Tail(calls) \in Seq(CallType)
    OBVIOUS
  <2>2. IsFiniteSet(DOMAIN calls) /\ IsFiniteSet(DOMAIN Tail(calls))
    BY <2>1, FS_Interval
  <2>3. QED
    BY <2>2, FS_Subset
<1>2. \A i \in S : f[i] \in Nat
  BY ByIsNat
<1>3. \A i \in R : i \in Int /\ g[i] \in Nat /\ f[i + 1] = g[i]
  <2> SUFFICES ASSUME NEW i \in R PROVE i \in Int /\ g[i] \in Nat /\ f[i + 1] = g[i]
    OBVIOUS
  <2>1. i \in DOMAIN Tail(calls) /\ i + 1 \in DOMAIN calls /\ Tail(calls)[i] = calls[i + 1]
    OBVIOUS
  <2>2. g[i] = calls[i + 1].by /\ f[i + 1] = calls[i + 1].by /\ i \in Int
    BY <2>1
  <2>3. QED
    BY <2>1, <2>2, ByIsNat
<1>4. {i + 1 : i \in R} = S \ {1}
  <2>1. \A i \in R : i + 1 \in S \ {1}
    OBVIOUS
  <2>2. \A j \in S \ {1} : j - 1 \in R /\ j = (j - 1) + 1
    OBVIOUS
  <2> HIDE DEF R, S
  <2>3. QED
    BY <2>1, <2>2
<1>5. Total(f, S \ {1}) = Total(g, R)
  <2> HIDE DEF f, g, R, S
  <2>1. Total(f, {i + 1 : i \in R}) = Total(g, R)
    BY <1>1, <1>3, TotalShifted
  <2>2. QED
    BY <1>4, <2>1, Zenon
<1>6. CallSum(calls, k) = Total(f, S) /\ CallSum(Tail(calls), k) = Total(g, R)
  BY DEF CallSum
<1>7. Total(g, R) \in Nat
  <2> HIDE DEF f, g, R, S
  <2>1. QED
    BY <1>1, <1>3, TotalNat
<1>8. CASE Head(calls).key = k
  <2>1. 1 \in S /\ f[1] = Head(calls).by
    BY <1>8
  <2> HIDE DEF f, g, R, S
  <2>2. Total(f, S) = f[1] + Total(f, S \ {1})
    BY <1>1, <1>2, <2>1, TotalOut
  <2>3. QED
    BY <1>5, <1>6, <1>8, <2>1, <2>2
<1>9. CASE Head(calls).key # k
  <2>1. S \ {1} = S
    BY <1>9
  <2> HIDE DEF f, g, R, S
  <2>2. Total(f, S) = Total(g, R)
    BY <1>5, <2>1
  <2>3. QED
    BY <1>6, <1>7, <1>9, <2>2
<1>10. QED
  BY <1>8, <1>9

-----------------------------------------------------------------------------
(* The index of a store *)

\* The index leads to the last entry of every key.
LEMMA IndexOfFacts ==
  ASSUME NEW entries \in Seq(CellType)
  PROVE  /\ DOMAIN IndexOf(entries) = {entries[i].key : i \in DOMAIN entries}
         /\ \A k \in DOMAIN IndexOf(entries) :
              /\ IndexOf(entries)[k] \in DOMAIN entries
              /\ entries[IndexOf(entries)[k]].key = k
              /\ \A j \in DOMAIN entries : entries[j].key = k => j <= IndexOf(entries)[k]
<1> DEFINE D == {entries[i].key : i \in DOMAIN entries}
           Last(k, i) == /\ entries[i].key = k
                         /\ \A j \in DOMAIN entries : entries[j].key = k => j <= i
<1>1. ASSUME NEW k \in D PROVE \E i \in DOMAIN entries : Last(k, i)
  <2> DEFINE S == {i \in DOMAIN entries : entries[i].key = k}
  <2>1. IsFiniteSet(S)
    BY FS_Interval, FS_Subset
  <2>2. S # {} /\ S \subseteq Nat
    BY <1>1
  <2>3. PICK m \in S : \A n \in S : n <= m
    <3> HIDE DEF S
    <3>1. QED
      BY <2>1, <2>2, GreatestNumber
  <2>4. QED
    BY <2>3
<1>2. IndexOf(entries) = [k \in D |-> CHOOSE i \in DOMAIN entries : Last(k, i)]
  BY DEF IndexOf
<1> HIDE DEF Last, D
<1>3. \A k \in D : IndexOf(entries)[k] \in DOMAIN entries /\ Last(k, IndexOf(entries)[k])
  BY <1>1, <1>2
<1>4. DOMAIN IndexOf(entries) = D
  BY <1>2
<1>5. QED
  BY <1>3, <1>4 DEF Last, D

\* There is one such function.
LEMMA IndexOfIs ==
  ASSUME NEW entries \in Seq(CellType), NEW f, f = [k \in DOMAIN f |-> f[k]],
         DOMAIN f = {entries[i].key : i \in DOMAIN entries},
         \A k \in DOMAIN f :
           /\ f[k] \in DOMAIN entries
           /\ entries[f[k]].key = k
           /\ \A j \in DOMAIN entries : entries[j].key = k => j <= f[k]
  PROVE  IndexOf(entries) = f
<1> DEFINE g == IndexOf(entries)
<1>1. g = [k \in DOMAIN g |-> g[k]]
  BY DEF IndexOf
<1>2. DOMAIN g = DOMAIN f
  BY IndexOfFacts
<1>3. ASSUME NEW k \in DOMAIN f PROVE g[k] = f[k]
  <2>1. g[k] \in DOMAIN entries /\ entries[g[k]].key = k
    BY <1>2, IndexOfFacts
  <2>2. f[k] <= g[k]
    BY <1>2, IndexOfFacts
  <2>3. g[k] <= f[k]
    BY <2>1
  <2>4. f[k] \in Nat /\ g[k] \in Nat
    BY <2>1
  <2>5. QED
    BY <2>2, <2>3, <2>4
<1> HIDE DEF g
<1>4. [k \in DOMAIN f |-> g[k]] = [k \in DOMAIN f |-> f[k]]
  BY <1>3
<1>5. g = f
  BY <1>1, <1>2, <1>4
<1>6. QED
  BY <1>5 DEF g

\* A new entry is what the index leads to for its key.
LEMMA IndexOfAppend ==
  ASSUME NEW entries \in Seq(CellType), NEW e \in CellType
  PROVE  IndexOf(Append(entries, e)) =
           [x \in DOMAIN IndexOf(entries) \cup {e.key} |->
              IF x = e.key THEN Len(entries) + 1 ELSE IndexOf(entries)[x]]
<1> DEFINE more == Append(entries, e)
           n == Len(entries) + 1
           g == IndexOf(entries)
           f == [x \in DOMAIN g \cup {e.key} |-> IF x = e.key THEN n ELSE g[x]]
<1>1. /\ more \in Seq(CellType) /\ DOMAIN more = DOMAIN entries \cup {n} /\ more[n] = e
      /\ n \in Nat /\ \A i \in DOMAIN entries : more[i] = entries[i] /\ i <= n
  OBVIOUS
<1> HIDE DEF more, n
<1>2. {more[i].key : i \in DOMAIN more} = {entries[i].key : i \in DOMAIN entries} \cup {e.key}
  BY <1>1
<1>3. DOMAIN f = {more[i].key : i \in DOMAIN more}
  BY <1>2, IndexOfFacts
<1>4. ASSUME NEW k \in DOMAIN f
      PROVE  /\ f[k] \in DOMAIN more /\ more[f[k]].key = k
             /\ \A j \in DOMAIN more : more[j].key = k => j <= f[k]
  <2>1. CASE k = e.key
    BY <1>1, <2>1
  <2>2. CASE k # e.key
    <3>1. f[k] = g[k] /\ k \in DOMAIN g
      BY <2>2
    <3>2. /\ g[k] \in DOMAIN entries /\ entries[g[k]].key = k
          /\ \A j \in DOMAIN entries : entries[j].key = k => j <= g[k]
      BY <3>1, IndexOfFacts
    <3> HIDE DEF f, g
    <3>3. QED
      BY <1>1, <2>2, <3>1, <3>2
  <2>3. QED
    BY <2>1, <2>2
<1>5. f = [k \in DOMAIN f |-> f[k]]
  OBVIOUS
<1> HIDE DEF f
<1>6. IndexOf(more) = f
  BY <1>1, <1>3, <1>4, <1>5, IndexOfIs
<1>7. QED
  BY <1>6 DEF f, more, n

\* Values do not matter to it.
LEMMA IndexOfUpdate ==
  ASSUME NEW entries \in Seq(CellType), NEW i \in DOMAIN entries, NEW n \in Nat
  PROVE  /\ [entries EXCEPT ![i].value = n] \in Seq(CellType)
         /\ IndexOf([entries EXCEPT ![i].value = n]) = IndexOf(entries)
<1> DEFINE changed == [entries EXCEPT ![i].value = n]
           g == IndexOf(entries)
<1>1. changed \in Seq(CellType) /\ DOMAIN changed = DOMAIN entries
  <2>1. \A j \in DOMAIN entries : changed[j] \in CellType
    <3>1. changed[i] = [key |-> entries[i].key, at |-> entries[i].at, value |-> n]
      <4>1. changed[i] = [entries[i] EXCEPT !.value = n]
        OBVIOUS
      <4>2. entries[i] = [key |-> entries[i].key, at |-> entries[i].at,
                          value |-> entries[i].value]
        BY CellIs
      <4>3. QED
        BY <4>1, <4>2
    <3>2. changed[i] \in CellType
      BY <3>1, CellIs DEF CellType
    <3>3. \A j \in DOMAIN entries : j # i => changed[j] = entries[j]
      OBVIOUS
    <3>4. QED
      BY <3>2, <3>3
  <2>2. changed = [j \in 1..Len(entries) |-> changed[j]] /\ Len(entries) \in Nat
    OBVIOUS
  <2>3. DOMAIN entries = 1..Len(entries)
    OBVIOUS
  <2> HIDE DEF changed
  <2>4. QED
    BY <2>1, <2>2, <2>3
<1>2. \A j \in DOMAIN entries : changed[j].key = entries[j].key
  BY CellIs
<1> HIDE DEF changed
<1>3. {changed[j].key : j \in DOMAIN changed} = {entries[j].key : j \in DOMAIN entries}
  BY <1>1, <1>2
<1>4. DOMAIN g = {changed[j].key : j \in DOMAIN changed} /\ g = [k \in DOMAIN g |-> g[k]]
  <2>1. g = [k \in DOMAIN g |-> g[k]]
    BY DEF IndexOf
  <2>2. QED
    BY <1>3, <2>1, IndexOfFacts
<1>5. \A k \in DOMAIN g :
        /\ g[k] \in DOMAIN changed /\ changed[g[k]].key = k
        /\ \A j \in DOMAIN changed : changed[j].key = k => j <= g[k]
  BY <1>1, <1>2, IndexOfFacts
<1> HIDE DEF g
<1>6. IndexOf(changed) = g
  BY <1>1, <1>4, <1>5, IndexOfIs
<1>7. QED
  BY <1>1, <1>6 DEF changed, g

-----------------------------------------------------------------------------
(* What a call finds and leaves *)

\* The offsets of an entry are numbers.
LEMMA EntryFacts ==
  ASSUME NEW k \in Keys
  PROVE  /\ CalcValueOffset(KeyLens[k]) \in Nat
         /\ CalcTotalLen(KeyLens[k]) = CalcValueOffset(KeyLens[k]) + VALUE_SIZE
<1>1. KeyLens[k] \in Lens
  BY ExtensionAssumption
<1>2. BodyLen(KeyLens[k]) \in Nat
  BY <1>1 DEF Lens, BodyLen
<1>3. PaddingLen(KeyLens[k]) \in Nat
  BY <1>2 DEF PaddingLen, LENGTH_FIELDS_SIZE
<1>4. QED
  BY <1>2, <1>3 DEF CalcValueOffset, CalcTotalLen, LENGTH_FIELDS_SIZE

\* `used` is no less than the header.
LEMMA UsedFacts == FileOK => Used \in Nat /\ HEADER_SIZE <= Used
<1> SUFFICES ASSUME FileOK PROVE Used \in Nat /\ HEADER_SIZE <= Used
  OBVIOUS
<1>1. CASE cells = <<>>
  BY <1>1 DEF Used, HEADER_SIZE
<1>2. CASE cells # <<>>
  <2>1. Len(cells) \in DOMAIN cells
    BY <1>2 DEF FileOK
  <2>2. cells[Len(cells)].at \in Nat
    BY <2>1, CellIs DEF FileOK
  <2>3. QED
    BY <1>2, <2>2 DEF Used, HEADER_SIZE, VALUE_SIZE
<1>3. QED
  BY <1>1, <1>2

\* The store of a call is open and fits the file, which is not cut by opening it.
LEMMA StoreFacts ==
  ASSUME FileOK, StoresOK, NEW path \in Spellings
  PROVE  /\ StoreOK(Store(path), cells) /\ Store(path).open
         /\ LenWith(path) \in Nat /\ fileLen <= LenWith(path)
         /\ LenWith(path) = 0 \/ HEADER_SIZE <= LenWith(path)
<1>1. LenOpened \in Nat /\ HEADER_SIZE <= LenOpened /\ fileLen <= LenOpened
  BY PageSizeAssumption DEF FileOK, LenOpened, PageAligned, HEADER_SIZE
<1>2. CASE stores[path].open
  BY <1>2 DEF Store, LenWith, StoresOK, FileOK
<1>3. CASE ~stores[path].open
  <2>1. IndexOK(IndexOf(cells), cells)
    <3>1. cells \in Seq(CellType)
      BY DEF FileOK
    <3>2. \A i \in DOMAIN cells : cells[i].key \in Keys
      BY <3>1, CellIs
    <3>3. QED
      BY <3>1, <3>2, IndexOfFacts DEF IndexOK
  <2>2. Store(path) = [open |-> TRUE, mapLen |-> LenOpened, index |-> IndexOf(cells)]
    BY <1>3 DEF Store
  <2>3. LenWith(path) = LenOpened
    BY <1>3 DEF LenWith
  <2>4. QED
    BY <1>1, <2>1, <2>2, <2>3 DEF StoreOK
<1>4. QED
  BY <1>2, <1>3

\* A request that is under way.
LEMMA BusyFacts ==
  ASSUME RequestsOK, NEW t \in Threads, Busy(t)
  PROVE  /\ requests[t].calls \in Seq(CallType) /\ requests[t].calls # <<>>
         /\ Path(t) \in Spellings /\ requests[t].amount \in Amounts /\ requests[t].got \in Nat
         /\ requests[t] = [calls |-> requests[t].calls, path |-> requests[t].path,
                           amount |-> requests[t].amount, got |-> requests[t].got]
         /\ Call(t) = Head(requests[t].calls) /\ Call(t) = requests[t].calls[1]
         /\ Call(t) \in CallType /\ Call(t).key \in Keys /\ Call(t).by \in Nat
         /\ \A v \in Nat : Apply(t, v) \in Nat
<1>1. requests[t] \in [calls : Seq(CallType), path : Spellings, amount : Amounts, got : Nat]
  BY DEF RequestsOK, RequestOK, Busy, NoCalls
<1>2. requests[t].calls # <<>>
  BY DEF Busy
<1>3. /\ requests[t].calls \in Seq(CallType) /\ requests[t].path \in Spellings
      /\ requests[t].amount \in Amounts /\ requests[t].got \in Nat
      /\ requests[t] = [calls |-> requests[t].calls, path |-> requests[t].path,
                        amount |-> requests[t].amount, got |-> requests[t].got]
  BY <1>1
<1>4. Call(t) = Head(requests[t].calls) /\ Call(t) = requests[t].calls[1]
  BY DEF Call
<1>5. Call(t) \in CallType
  BY <1>2, <1>3, <1>4
<1>6. Call(t).key \in Keys /\ Call(t).by \in Nat
  BY <1>5 DEF CallType
<1>7. \A v \in Nat : Apply(t, v) \in Nat
  BY <1>3, <1>6 DEF Apply
<1>8. QED
  BY <1>2, <1>3, <1>4, <1>5, <1>6, <1>7 DEF Path

\* What a call that takes effect does to the entries.
Updated(t) ==
  \E i \in DOMAIN cells :
    /\ Call(t).key \in DOMAIN Store(Path(t)).index /\ i = Store(Path(t)).index[Call(t).key]
    /\ cells[i].key = Call(t).key
    /\ cells' = [cells EXCEPT ![i].value = Apply(t, cells[i].value)]

NewCell(t) == [key |-> Call(t).key, at |-> Used + CalcValueOffset(KeyLens[Call(t).key]),
               value |-> Apply(t, 0)]
Added(t) == Call(t).key \notin DOMAIN Store(Path(t)).index /\ cells' = Append(cells, NewCell(t))

\* The entries stay where they are, with their keys.
Extends(more, entries) ==
  /\ more \in Seq(CellType)
  /\ \A i \in DOMAIN entries : i \in DOMAIN more /\ more[i].key = entries[i].key

\* An index for some entries is one for more.
LEMMA StoreExtends ==
  ASSUME NEW store, NEW entries, NEW more, StoreOK(store, entries), Extends(more, entries)
  PROVE  StoreOK(store, more)
BY DEF StoreOK, IndexOK, Extends

\* The new entry is of the type of entries.
LEMMA NewCellType ==
  ASSUME FileOK, RequestsOK, NEW t \in Threads, Busy(t)
  PROVE  NewCell(t) \in CellType
<1>1. Used \in Nat
  BY UsedFacts
<1>2. Call(t).key \in Keys /\ Apply(t, 0) \in Nat
  BY BusyFacts
<1>3. CalcValueOffset(KeyLens[Call(t).key]) \in Nat
  BY <1>2, EntryFacts
<1>4. QED
  BY <1>1, <1>2, <1>3 DEF NewCell, CellType

\* An entry that is changed or added leaves the others; `used` moves with a new one only.
LEMMA UpdatedFacts ==
  ASSUME FileOK, RequestsOK, NEW t \in Threads, Busy(t), Updated(t)
  PROVE  Extends(cells', cells) /\ Used' = Used /\ cells # <<>> /\ Len(cells') = Len(cells)
<1>1. PICK i \in DOMAIN cells : cells' = [cells EXCEPT ![i].value = Apply(t, cells[i].value)]
  BY DEF Updated
<1> DEFINE n == Apply(t, cells[i].value)
<1>2. cells \in Seq(CellType)
  BY DEF FileOK
<1>3. n \in Nat
  <2>1. cells[i].value \in Nat
    BY <1>2, CellIs
  <2>2. QED
    BY <2>1, BusyFacts
<1>4. cells' \in Seq(CellType)
  BY <1>1, <1>2, <1>3, IndexOfUpdate
<1>5. DOMAIN cells' = DOMAIN cells /\ Len(cells') = Len(cells)
  BY <1>1, <1>2, <1>4
<1> HIDE DEF n
<1>6. \A j \in DOMAIN cells : cells'[j].key = cells[j].key /\ cells'[j].at = cells[j].at
  <2> SUFFICES ASSUME NEW j \in DOMAIN cells
               PROVE  cells'[j].key = cells[j].key /\ cells'[j].at = cells[j].at
    OBVIOUS
  <2>1. cells[j] = [key |-> cells[j].key, at |-> cells[j].at, value |-> cells[j].value]
    BY <1>2, CellIs
  <2>2. cells'[j] = IF j = i THEN [cells[j] EXCEPT !.value = n] ELSE cells[j]
    BY <1>1 DEF n
  <2>3. QED
    BY <2>1, <2>2
<1>7. cells # <<>> /\ cells' # <<>> /\ Len(cells) \in DOMAIN cells
  BY <1>2, <1>4, <1>5
<1>8. Used' = Used
  BY <1>5, <1>6, <1>7 DEF Used
<1>9. QED
  BY <1>4, <1>5, <1>6, <1>7, <1>8 DEF Extends

\* A new entry comes last, after all there were, and is the only change.
LEMMA AddedFacts ==
  ASSUME FileOK, RequestsOK, NEW t \in Threads, Busy(t), Added(t)
  PROVE  /\ Extends(cells', cells) /\ cells' # <<>> /\ Len(cells') = Len(cells) + 1
         /\ DOMAIN cells' = DOMAIN cells \cup {Len(cells) + 1} /\ Len(cells) + 1 \notin DOMAIN cells
         /\ cells'[Len(cells) + 1] = NewCell(t) /\ \A i \in DOMAIN cells : cells'[i] = cells[i]
         /\ Used' = Needed(t)
<1> DEFINE c == NewCell(t)
           n == Len(cells) + 1
<1>1. c \in CellType
  BY NewCellType
<1>2. cells \in Seq(CellType) /\ cells' = Append(cells, c)
  BY DEF FileOK, Added
<1> HIDE DEF c
<1>3. /\ cells' \in Seq(CellType) /\ cells' # <<>> /\ Len(cells') = n
      /\ DOMAIN cells' = DOMAIN cells \cup {n} /\ n \notin DOMAIN cells
      /\ cells'[n] = c /\ \A i \in DOMAIN cells : cells'[i] = cells[i]
  BY <1>1, <1>2
<1>4. Used' = cells'[n].at + VALUE_SIZE
  BY <1>3 DEF Used
<1>5. Used' = c.at + VALUE_SIZE
  BY <1>3, <1>4
<1>6. c.at = Used + CalcValueOffset(KeyLens[Call(t).key])
  BY DEF c, NewCell
<1>7. CalcTotalLen(KeyLens[Call(t).key]) = CalcValueOffset(KeyLens[Call(t).key]) + VALUE_SIZE
  BY BusyFacts, EntryFacts
<1>8. CalcValueOffset(KeyLens[Call(t).key]) \in Nat /\ Used \in Nat
  BY BusyFacts, EntryFacts, UsedFacts
<1>9. Used' = Needed(t)
  BY <1>5, <1>6, <1>7, <1>8 DEF Needed, VALUE_SIZE
<1>10. QED
  BY <1>3, <1>9 DEF Extends, c

\* What the file and the stores are after a call.
LEMMA StoresAfter ==
  ASSUME StoresOK, NEW path \in Spellings, NEW store,
         Extends(cells', cells), StoreOK(store, cells'),
         stores' = [stores EXCEPT ![path] = store]
  PROVE  StoresOK'
<1>1. stores' = [p \in Spellings |-> IF p = path THEN store ELSE stores[p]]
  BY DEF StoresOK
<1>2. \A p \in Spellings : StoreOK(stores[p], cells')
  BY StoreExtends DEF StoresOK
<1>3. \A p \in Spellings : StoreOK(stores'[p], cells')
  BY <1>1, <1>2
<1>4. stores' = [p \in Spellings |-> stores'[p]]
  BY <1>1
<1>5. QED
  BY <1>3, <1>4 DEF StoresOK

\* A call takes effect and returns, or it leaves the entries alone: a get returns, the
\* rest throws.
Effect(t)   == /\ Writes(t) /\ Counted(t) /\ (Updated(t) \/ Added(t))
               /\ \E v \in Nat : Returns(t, v)
NoEffect(t) == /\ UNCHANGED <<cells, applied>>
               /\ Throws(t) \/ (Reads(t) /\ \E v \in Nat : Returns(t, v))

CallOK(t) ==
  /\ FileOK' /\ StoresOK' /\ UNCHANGED <<kind, scrape, begun, paths, overlap>>
  /\ Effect(t) \/ NoEffect(t)

\* The file and the stores when no entry is touched.
LEMMA UntouchedFile ==
  ASSUME FileOK, StoresOK, UNCHANGED <<kind, cells>>, NEW path \in Spellings,
         fileLen' \in Nat, fileLen' = 0 \/ HEADER_SIZE <= fileLen',
         cells # <<>> => Used <= fileLen',
         stores' = [stores EXCEPT ![path] = Store(path)]
  PROVE  FileOK' /\ StoresOK'
<1>1. Extends(cells', cells)
  BY DEF FileOK, Extends
<1>2. StoreOK(Store(path), cells')
  BY StoreFacts
<1>3. StoresOK'
  BY <1>1, <1>2, StoresAfter
<1>4. Used' = Used
  BY DEF Used
<1>5. FileOK'
  BY <1>4 DEF FileOK
<1>6. QED
  BY <1>3, <1>5

\* A call that adds an entry to a file with room for it leaves file and stores in order.
LEMMA AddEntryOK ==
  ASSUME TypeInv, NEW t \in Threads, Appends(t), NEW store, NEW len \in Nat,
         StoreOK(store, cells), store.index = Store(Path(t)).index,
         Needed(t) <= len, AddEntry(t, store, len),
         UNCHANGED <<kind, scrape, begun, paths, overlap>>
  PROVE  CallOK(t)
<1> DEFINE k == Call(t).key
           n == Len(cells) + 1
           new == [store EXCEPT !.index = [x \in DOMAIN @ \cup {k} |-> IF x = k THEN n ELSE @[x]]]
<1>1. FileOK /\ StoresOK /\ RequestsOK /\ Busy(t) /\ Writes(t) /\ k \notin DOMAIN store.index
  BY DEF TypeInv, Appends, Writes
<1>2. Path(t) \in Spellings /\ k \in Keys
  BY <1>1, BusyFacts
<1>3. HEADER_SIZE <= len /\ Used <= len
  <2>1. Used \in Nat /\ HEADER_SIZE <= Used
    BY <1>1, UsedFacts
  <2>2. Needed(t) = Used + CalcValueOffset(KeyLens[k]) + VALUE_SIZE
    BY <1>2, <2>1, EntryFacts DEF Needed, VALUE_SIZE
  <2>3. CalcValueOffset(KeyLens[k]) \in Nat
    BY <1>2, EntryFacts
  <2>4. QED
    BY <2>1, <2>2, <2>3 DEF HEADER_SIZE, VALUE_SIZE
<1>4. fileLen' = len
  BY DEF AddEntry
<1>5. CASE Needed(t) <= MaxU32
  <2>1. /\ cells' = Append(cells, NewCell(t))
        /\ stores' = [stores EXCEPT ![Path(t)] = new]
        /\ Counted(t) /\ Returns(t, Apply(t, 0))
    BY <1>5 DEF AddEntry, NewCell
  <2>2. Added(t)
    BY <1>1, <2>1 DEF Added
  <2>3. /\ Extends(cells', cells) /\ cells' # <<>> /\ n \in DOMAIN cells'
        /\ cells'[n] = NewCell(t) /\ Used' = Needed(t)
    BY <1>1, <2>2, AddedFacts
  <2>4. StoreOK(new, cells')
    <3>1. StoreOK(store, cells')
      BY <2>3, StoreExtends
    <3>2. new = [open |-> store.open, mapLen |-> store.mapLen,
                 index |-> [x \in DOMAIN store.index \cup {k} |->
                              IF x = k THEN n ELSE store.index[x]]]
      BY <3>1 DEF StoreOK
    <3>3. cells'[n].key = k
      BY <2>3 DEF NewCell
    <3> HIDE DEF new, n, k
    <3>4. QED
      BY <1>2, <2>3, <3>1, <3>2, <3>3 DEF StoreOK, IndexOK
  <2>5. StoresOK'
    <3> HIDE DEF new
    <3>1. QED
      BY <1>1, <1>2, <2>1, <2>3, <2>4, StoresAfter
  <2>6. FileOK'
    BY <1>1, <1>3, <1>4, <2>3 DEF FileOK, Extends
  <2>7. Apply(t, 0) \in Nat
    BY <1>1, BusyFacts
  <2>8. QED
    BY <1>1, <2>1, <2>2, <2>5, <2>6, <2>7 DEF CallOK, Effect
<1>6. CASE ~(Needed(t) <= MaxU32)
  <2>1. /\ stores' = [stores EXCEPT ![Path(t)] = store] /\ Throws(t)
        /\ UNCHANGED <<cells, applied>>
    BY <1>6 DEF AddEntry
  <2>2. Extends(cells', cells) /\ StoreOK(store, cells')
    BY <1>1, <2>1 DEF FileOK, Extends
  <2>3. StoresOK'
    BY <1>1, <1>2, <2>1, <2>2, StoresAfter
  <2>4. Used' = Used
    BY <2>1 DEF Used
  <2>5. FileOK'
    BY <1>1, <1>3, <1>4, <2>1, <2>4 DEF FileOK
  <2>6. QED
    BY <2>1, <2>3, <2>5 DEF CallOK, NoEffect
<1>7. QED
  BY <1>5, <1>6

\* Every call but the one that dies of SIGBUS.
LEMMA CallIsOK ==
  ASSUME TypeInv, NEW t \in Threads,
         Get(t) \/ Update(t) \/ InvalidUsed(t) \/ HasRoom(t) \/ Grow(t) \/ GrowFails(t)
  PROVE  CallOK(t)
<1> DEFINE store == Store(Path(t))
           k == Call(t).key
<1>1. FileOK /\ StoresOK /\ RequestsOK /\ Busy(t)
  BY DEF TypeInv, Get, Update, InvalidUsed, HasRoom, Grow, GrowFails, Appends, Reads, Writes, Grows
<1>2. Path(t) \in Spellings /\ k \in Keys
  BY <1>1, BusyFacts
<1>3. /\ StoreOK(store, cells) /\ store.open
      /\ LenWith(Path(t)) \in Nat /\ fileLen <= LenWith(Path(t))
      /\ LenWith(Path(t)) = 0 \/ HEADER_SIZE <= LenWith(Path(t))
  BY <1>1, <1>2, StoreFacts
<1>4. Used \in Nat /\ HEADER_SIZE <= Used
  BY <1>1, UsedFacts
<1>5. fileLen \in Nat /\ (cells # <<>> => Used <= LenWith(Path(t)))
  BY <1>1, <1>3, <1>4 DEF FileOK
<1>6. Needed(t) \in Nat /\ Used <= Needed(t)
  BY <1>2, <1>4, EntryFacts DEF Needed, VALUE_SIZE
<1>7. cells \in Seq(CellType)
  BY <1>1 DEF FileOK
<1>8. ASSUME Get(t) PROVE CallOK(t)
  <2>1. k \in DOMAIN store.index => cells[store.index[k]].value \in Nat
    BY <1>3, <1>7, CellIs DEF StoreOK, IndexOK
  <2>2. FileOK' /\ StoresOK'
    <3>1. fileLen' = LenWith(Path(t)) /\ UNCHANGED <<kind, cells>>
          /\ stores' = [stores EXCEPT ![Path(t)] = Store(Path(t))]
      BY <1>8 DEF Get
    <3>2. QED
      BY <1>1, <1>2, <1>3, <1>5, <3>1, UntouchedFile
  <2>3. Throws(t) \/ \E v \in Nat : Returns(t, v)
    <3>1. CASE k \in DOMAIN store.index
      BY <1>8, <2>1, <3>1 DEF Get
    <3>2. CASE k \notin DOMAIN store.index
      BY <1>8, <3>2 DEF Get
    <3>3. QED
      BY <3>1, <3>2
  <2>4. Reads(t) /\ UNCHANGED <<kind, cells, scrape, begun, applied, paths, overlap>>
    BY <1>8 DEF Get
  <2>5. QED
    BY <2>2, <2>3, <2>4 DEF CallOK, NoEffect
<1>9. ASSUME Update(t) PROVE CallOK(t)
  <2> DEFINE i == store.index[k]
             n == Apply(t, cells[i].value)
  <2>1. k \in DOMAIN store.index /\ i \in DOMAIN cells /\ cells[i].key = k
    BY <1>3, <1>9 DEF Update, StoreOK, IndexOK
  <2>2. cells' = [cells EXCEPT ![i].value = n]
    BY <1>9 DEF Update
  <2>3. Updated(t)
    BY <2>1, <2>2 DEF Updated
  <2>4. Extends(cells', cells) /\ Used' = Used /\ cells # <<>>
    BY <1>1, <2>3, UpdatedFacts
  <2>5. stores' = [stores EXCEPT ![Path(t)] = store] /\ fileLen' = LenWith(Path(t))
    BY <1>9 DEF Update
  <2>6. StoresOK'
    BY <1>1, <1>2, <1>3, <2>4, <2>5, StoreExtends, StoresAfter
  <2>7. UNCHANGED <<kind, scrape, begun, paths, overlap>> /\ Writes(t) /\ Counted(t)
    BY <1>9 DEF Update
  <2>8. FileOK'
    BY <1>1, <1>3, <1>5, <2>4, <2>5, <2>7 DEF FileOK, Extends
  <2>9. n \in Nat
    BY <1>1, <1>7, <2>1, CellIs, BusyFacts
  <2>10. Returns(t, n)
    <3>1. cells'[i].value = n
      <4>1. cells[i] = [key |-> cells[i].key, at |-> cells[i].at, value |-> cells[i].value]
        BY <1>7, <2>1, CellIs
      <4> HIDE DEF n
      <4>2. cells'[i] = [cells[i] EXCEPT !.value = n]
        BY <2>1, <2>2, <1>7
      <4>3. QED
        BY <4>1, <4>2
    <3>2. Returns(t, cells'[i].value)
      BY <1>9 DEF Update
    <3>3. QED
      BY <3>1, <3>2
  <2>11. QED
    BY <2>3, <2>6, <2>7, <2>8, <2>9, <2>10 DEF CallOK, Effect
<1>10. ASSUME InvalidUsed(t) PROVE CallOK(t)
  <2>1. fileLen' = LenWith(Path(t)) /\ UNCHANGED <<kind, cells>>
        /\ stores' = [stores EXCEPT ![Path(t)] = Store(Path(t))]
    BY <1>10 DEF InvalidUsed
  <2>2. FileOK' /\ StoresOK'
    BY <1>1, <1>2, <1>3, <1>5, <2>1, UntouchedFile
  <2>3. QED
    BY <1>10, <2>2 DEF InvalidUsed, CallOK, NoEffect
<1>11. ASSUME HasRoom(t) PROVE CallOK(t)
  <2>1. /\ Appends(t) /\ Needed(t) <= LenWith(Path(t)) /\ AddEntry(t, store, LenWith(Path(t)))
        /\ UNCHANGED <<kind, scrape, begun, paths, overlap>>
    BY <1>11 DEF HasRoom
  <2> HIDE DEF store
  <2>2. QED
    BY <1>3, <2>1, AddEntryOK DEF store
<1>12. ASSUME Grows(t)
       PROVE  /\ NewLen(store.mapLen, Needed(t)) \in Nat
              /\ Needed(t) <= NewLen(store.mapLen, Needed(t))
  <2>1. store.mapLen \in Nat \ {0}
    BY <1>3 DEF StoreOK, HEADER_SIZE
  <2>2. QED
    BY <1>6, <2>1, NewLenFacts
<1>13. ASSUME Grow(t) PROVE CallOK(t)
  <2> DEFINE len == NewLen(store.mapLen, Needed(t))
             grown == [store EXCEPT !.mapLen = len]
  <2>1. Grows(t) /\ AddEntry(t, grown, len) /\ UNCHANGED <<kind, scrape, begun, paths, overlap>>
    BY <1>13 DEF Grow
  <2>2. len \in Nat /\ Needed(t) <= len
    BY <1>12, <2>1
  <2>3. grown = [open |-> store.open, mapLen |-> len, index |-> store.index]
    <3>1. store = [open |-> store.open, mapLen |-> store.mapLen, index |-> store.index]
      BY <1>3 DEF StoreOK
    <3> HIDE DEF store, len
    <3>2. QED
      BY <3>1
  <2>4. HEADER_SIZE <= len
    BY <1>4, <1>6, <2>2 DEF HEADER_SIZE
  <2> HIDE DEF len, grown
  <2>5. StoreOK(grown, cells) /\ grown.index = store.index
    BY <1>3, <2>2, <2>3, <2>4 DEF StoreOK
  <2>6. Appends(t)
    BY <2>1 DEF Grows
  <2>7. QED
    BY <2>1, <2>2, <2>5, <2>6, AddEntryOK
<1>14. ASSUME GrowFails(t) PROVE CallOK(t)
  <2> DEFINE len == NewLen(store.mapLen, Needed(t))
  <2>1. /\ Grows(t) /\ fileLen' \in {LenWith(Path(t)), len}
        /\ stores' = [stores EXCEPT ![Path(t)] = Store(Path(t))] /\ Throws(t)
        /\ UNCHANGED <<kind, cells, scrape, begun, applied, paths, overlap>>
    BY <1>14 DEF GrowFails
  <2>2. len \in Nat /\ Needed(t) <= len
    BY <1>12, <2>1
  <2> HIDE DEF len
  <2>3. /\ fileLen' \in Nat /\ (fileLen' = 0 \/ HEADER_SIZE <= fileLen')
        /\ cells # <<>> => Used <= fileLen'
    BY <1>3, <1>4, <1>5, <1>6, <2>1, <2>2 DEF HEADER_SIZE
  <2>4. FileOK' /\ StoresOK'
    BY <1>1, <1>2, <2>1, <2>3, UntouchedFile
  <2>5. QED
    BY <2>1, <2>4 DEF CallOK, NoEffect
<1>15. QED
  BY <1>8, <1>9, <1>10, <1>11, <1>13, <1>14

-----------------------------------------------------------------------------
(* What is owed *)

\* What the requests of an amount are worth depends on the kind of the file alone.
LEMMA KindKept ==
  ASSUME kind' = kind
  PROVE  /\ \A v : CallsOf(v)' = CallsOf(v)
         /\ \A k, v : PartOf(k, v)' = PartOf(k, v)
         /\ \A k, r : Owes(r, k)' = Owes(r, k) /\ Worth(r, k)' = Worth(r, k)
         /\ \A r : RequestOK(r)' <=> RequestOK(r)
         /\ \A f, k : WorthOf(f, k)' = WorthOf(f, k)
<1>1. \A v : CallsOf(v)' = CallsOf(v)
  BY DEF CallsOf
<1>2. \A k, v : PartOf(k, v)' = PartOf(k, v)
  BY <1>1 DEF PartOf
<1>3. \A k, r : Owes(r, k)' = Owes(r, k) /\ Worth(r, k)' = Worth(r, k)
  BY <1>2 DEF Owes, Worth
<1>4. \A r : RequestOK(r)' <=> RequestOK(r)
  BY <1>1, <1>2, <1>3 DEF RequestOK
<1>5. \A f, k : WorthOf(f, k)' = WorthOf(f, k)
  BY <1>2 DEF WorthOf
<1>6. QED
  BY <1>1, <1>2, <1>3, <1>4, <1>5

\* What an amount is worth to a series is the sum over its calls, a number.
LEMMA PartOfNat ==
  ASSUME kind \in Kinds, NEW v \in Amounts, NEW k
  PROVE  PartOf(k, v) \in Nat /\ PartOf(k, v) = CallSum(CallsOf(v), k)
<1>1. PartOf(k, v) = CallSum(CallsOf(v), k)
  BY DEF PartOf, CallSum
<1>2. QED
  BY <1>1, CallsOfType, CallSumNat

\* A request owes something between nothing and what it is worth.
LEMMA RequestFacts ==
  ASSUME kind \in Kinds, NEW r, RequestOK(r)
  PROVE  /\ \A k \in Keys : /\ Owes(r, k) \in Nat /\ Worth(r, k) \in Nat
                            /\ kind # "gauge" => Owes(r, k) <= Worth(r, k)
         /\ \A v \in Amounts : With(r, v) \in {0, 1}
<1>1. CASE r = NoCalls
  <2>1. r.calls = <<>> /\ <<>> \in Seq(CallType)
    BY <1>1 DEF NoCalls
  <2>2. \A k \in Keys : Owes(r, k) = 0 /\ Worth(r, k) = 0
    BY <2>1, CallSumNat DEF Owes, Worth
  <2>3. QED
    BY <2>2 DEF With
<1>2. CASE r # NoCalls
  <2>1. r.calls \in Seq(CallType) /\ r.calls # <<>> /\ r.amount \in Amounts
    BY <1>2 DEF RequestOK
  <2>2. \A k \in Keys : Owes(r, k) \in Nat
    BY <2>1, CallSumNat DEF Owes
  <2>3. \A k \in Keys : Worth(r, k) = PartOf(k, r.amount) /\ PartOf(k, r.amount) \in Nat
    BY <2>1, PartOfNat DEF Worth
  <2>4. kind # "gauge" => \A k \in Keys : Owes(r, k) <= PartOf(k, r.amount)
    BY <1>2 DEF RequestOK
  <2>5. QED
    BY <2>2, <2>3, <2>4 DEF With
<1>3. QED
  BY <1>1, <1>2

\* The sums over all requests are numbers, and no request owes more than it is worth.
LEMMA SumsAreNat ==
  ASSUME kind \in Kinds, RequestsOK
  PROVE  /\ \A k \in Keys : /\ OwesAll(k) \in Nat /\ WorthAll(k) \in Nat
                            /\ kind # "gauge" => OwesAll(k) <= WorthAll(k)
         /\ \A v \in Amounts : WithAll(v) \in Nat
<1>1. IsFiniteSet(Threads)
  BY ExtensionAssumption
<1>2. ASSUME NEW k \in Keys
      PROVE  /\ OwesAll(k) \in Nat /\ WorthAll(k) \in Nat
             /\ kind # "gauge" => OwesAll(k) <= WorthAll(k)
  <2> DEFINE f == [t \in Threads |-> Owes(requests[t], k)]
             g == [t \in Threads |-> Worth(requests[t], k)]
  <2>1. \A t \in Threads : /\ f[t] \in Nat /\ g[t] \in Nat
                           /\ kind # "gauge" => f[t] <= g[t]
    BY RequestFacts DEF RequestsOK
  <2>2. OwesAll(k) = Total(f, Threads) /\ WorthAll(k) = Total(g, Threads)
    BY DEF OwesAll, WorthAll
  <2> HIDE DEF f, g
  <2>3. Total(f, Threads) \in Nat /\ Total(g, Threads) \in Nat
    BY <1>1, <2>1, TotalNat
  <2>4. kind # "gauge" => Total(f, Threads) <= Total(g, Threads)
    BY <1>1, <2>1, TotalGreater
  <2>5. QED
    BY <2>2, <2>3, <2>4
<1>3. ASSUME NEW v \in Amounts PROVE WithAll(v) \in Nat
  <2> DEFINE f == [t \in Threads |-> With(requests[t], v)]
  <2>1. \A t \in Threads : f[t] \in Nat
    BY DEF With
  <2>2. WithAll(v) = Total(f, Threads)
    BY DEF WithAll
  <2> HIDE DEF f
  <2>3. QED
    BY <1>1, <2>1, <2>2, TotalNat
<1>4. QED
  BY <1>2, <1>3

\* Another request for a thread changes the sums by the difference.
LEMMA SumsChange ==
  ASSUME kind \in Kinds, kind' = kind, RequestsOK, NEW t \in Threads, NEW r, RequestOK(r),
         requests' = [requests EXCEPT ![t] = r]
  PROVE  /\ RequestsOK'
         /\ \A k \in Keys :
              /\ OwesAll(k)' = OwesAll(k) - Owes(requests[t], k) + Owes(r, k)
              /\ WorthAll(k)' = WorthAll(k) - Worth(requests[t], k) + Worth(r, k)
         /\ \A v \in Amounts : WithAll(v)' = WithAll(v) - With(requests[t], v) + With(r, v)
<1>1. IsFiniteSet(Threads)
  BY ExtensionAssumption
<1>2. /\ requests'[t] = r /\ \A u \in Threads \ {t} : requests'[u] = requests[u]
      /\ requests' = [u \in Threads |-> requests'[u]]
  BY DEF RequestsOK
<1>3. \A u \in Threads : RequestOK(requests[u]) /\ RequestOK(requests'[u])
  BY <1>2 DEF RequestsOK
<1>4. RequestsOK'
  BY <1>2, <1>3, KindKept DEF RequestsOK
<1>5. ASSUME NEW k \in Keys
      PROVE  OwesAll(k)' = OwesAll(k) - Owes(requests[t], k) + Owes(r, k)
  <2> DEFINE f == [u \in Threads |-> Owes(requests[u], k)]
             g == [u \in Threads |-> Owes(requests'[u], k)]
  <2>1. \A u \in Threads : f[u] \in Nat /\ g[u] \in Nat
    BY <1>3, RequestFacts
  <2>2. \A u \in Threads \ {t} : f[u] = g[u]
    BY <1>2
  <2>3. OwesAll(k) = Total(f, Threads) /\ OwesAll(k)' = Total(g, Threads)
    BY KindKept DEF OwesAll
  <2>4. f[t] = Owes(requests[t], k) /\ g[t] = Owes(r, k)
    BY <1>2
  <2> HIDE DEF f, g
  <2>5. Total(g, Threads) = Total(f, Threads) - f[t] + g[t]
    BY <1>1, <2>1, <2>2, TotalChange
  <2>6. QED
    BY <2>3, <2>4, <2>5
<1>6. ASSUME NEW k \in Keys
      PROVE  WorthAll(k)' = WorthAll(k) - Worth(requests[t], k) + Worth(r, k)
  <2> DEFINE f == [u \in Threads |-> Worth(requests[u], k)]
             g == [u \in Threads |-> Worth(requests'[u], k)]
  <2>1. \A u \in Threads : f[u] \in Nat /\ g[u] \in Nat
    BY <1>3, RequestFacts
  <2>2. \A u \in Threads \ {t} : f[u] = g[u]
    BY <1>2
  <2>3. WorthAll(k) = Total(f, Threads) /\ WorthAll(k)' = Total(g, Threads)
    BY KindKept DEF WorthAll
  <2>4. f[t] = Worth(requests[t], k) /\ g[t] = Worth(r, k)
    BY <1>2
  <2> HIDE DEF f, g
  <2>5. Total(g, Threads) = Total(f, Threads) - f[t] + g[t]
    BY <1>1, <2>1, <2>2, TotalChange
  <2>6. QED
    BY <2>3, <2>4, <2>5
<1>7. ASSUME NEW v \in Amounts
      PROVE  WithAll(v)' = WithAll(v) - With(requests[t], v) + With(r, v)
  <2> DEFINE f == [u \in Threads |-> With(requests[u], v)]
             g == [u \in Threads |-> With(requests'[u], v)]
  <2>1. \A u \in Threads : f[u] \in Nat /\ g[u] \in Nat
    BY DEF With
  <2>2. \A u \in Threads \ {t} : f[u] = g[u]
    BY <1>2
  <2>3. WithAll(v) = Total(f, Threads) /\ WithAll(v)' = Total(g, Threads)
    BY DEF WithAll, With
  <2>4. f[t] = With(requests[t], v) /\ g[t] = With(r, v)
    BY <1>2
  <2> HIDE DEF f, g
  <2>5. Total(g, Threads) = Total(f, Threads) - f[t] + g[t]
    BY <1>1, <2>1, <2>2, TotalChange
  <2>6. QED
    BY <2>3, <2>4, <2>5
<1>8. QED
  BY <1>4, <1>5, <1>6, <1>7

-----------------------------------------------------------------------------
(* A call returns or throws *)

\* What the call that returned was worth to a key.
Paid(t, k) == IF Call(t).key = k THEN Call(t).by ELSE 0

\* What becomes of the request of a call that returned.
AfterReturn(t, v) ==
  IF Len(requests[t].calls) = 1 THEN NoCalls
  ELSE [calls |-> Tail(requests[t].calls), path |-> requests[t].path,
        amount |-> requests[t].amount, got |-> v]

\* The calls that are left.
LEMMA TailFacts ==
  ASSUME NEW s \in Seq(CallType), s # <<>>
  PROVE  /\ Tail(s) \in Seq(CallType) /\ Len(s) \in Nat /\ Len(Tail(s)) = Len(s) - 1
         /\ Tail(s) = <<>> <=> Len(s) = 1
         /\ \A i \in DOMAIN Tail(s) : i + 1 \in DOMAIN s /\ Tail(s)[i] = s[i + 1]
<1>1. Tail(s) \in Seq(CallType) /\ Len(s) \in Nat /\ Len(Tail(s)) = Len(s) - 1
  OBVIOUS
<1>2. \A q \in Seq(CallType) : (q = <<>>) <=> (Len(q) = 0)
  OBVIOUS
<1>3. (Tail(s) = <<>>) <=> (Len(s) = 1)
  <2>1. (Tail(s) = <<>>) <=> (Len(Tail(s)) = 0)
    BY <1>1, <1>2
  <2>2. QED
    BY <1>1, <2>1
<1>4. \A i \in DOMAIN Tail(s) : i + 1 \in DOMAIN s /\ Tail(s)[i] = s[i + 1]
  OBVIOUS
<1>5. QED
  BY <1>1, <1>3, <1>4

\* It owes what it did, less what was paid, and has its set still to make if it is of a
\* gauge.
LEMMA ReturnFacts ==
  ASSUME kind \in Kinds, RequestsOK, NEW t \in Threads, Busy(t), NEW v \in Nat, Returns(t, v)
  PROVE  /\ RequestOK(AfterReturn(t, v))
         /\ requests' = [requests EXCEPT ![t] = AfterReturn(t, v)]
         /\ \A k \in Keys : Owes(requests[t], k) = Paid(t, k) + Owes(AfterReturn(t, v), k)
         /\ \/ /\ AfterReturn(t, v) = NoCalls
               /\ done' = [done EXCEPT ![requests[t].amount] = @ + 1]
            \/ /\ AfterReturn(t, v).calls # <<>>
               /\ AfterReturn(t, v).amount = requests[t].amount /\ done' = done
<1> DEFINE r == requests[t]
           c == requests[t].calls
           rest == [calls |-> Tail(c), path |-> r.path, amount |-> r.amount, got |-> v]
<1>1. /\ c \in Seq(CallType) /\ c # <<>> /\ r.path \in Spellings /\ r.amount \in Amounts
      /\ r = [calls |-> c, path |-> r.path, amount |-> r.amount, got |-> r.got]
      /\ Call(t) = Head(c) /\ Call(t).by \in Nat
  BY BusyFacts DEF Path
<1>2. ASSUME NEW k PROVE CallSum(c, k) = Paid(t, k) + CallSum(Tail(c), k)
  BY <1>1, CallSumTail DEF Paid
<1>3. /\ Tail(c) \in Seq(CallType) /\ (Tail(c) = <<>> <=> Len(c) = 1)
      /\ Len(c) \in Nat /\ Len(Tail(c)) = Len(c) - 1
      /\ \A i \in DOMAIN Tail(c) : i + 1 \in DOMAIN c /\ Tail(c)[i] = c[i + 1]
  BY <1>1, TailFacts
<1>4. RequestOK(r) /\ r # NoCalls
  BY <1>1 DEF RequestsOK, NoCalls
<1>5. CASE Len(c) = 1
  <2>1. AfterReturn(t, v) = NoCalls
    BY <1>5 DEF AfterReturn
  <2>2. Tail(c) = <<>>
    BY <1>3, <1>5
  <2>3. \A k : Owes(r, k) = Paid(t, k) + Owes(NoCalls, k)
    BY <1>2, <2>2 DEF Owes, NoCalls
  <2>4. requests' = [requests EXCEPT ![t] = NoCalls] /\ done' = [done EXCEPT ![r.amount] = @ + 1]
    BY <1>5 DEF Returns
  <2>5. QED
    BY <2>1, <2>3, <2>4 DEF RequestOK
<1>6. CASE Len(c) # 1
  <2>1. AfterReturn(t, v) = rest
    BY <1>6 DEF AfterReturn
  <2>2. Tail(c) # <<>>
    BY <1>3, <1>6
  <2>3. requests' = [requests EXCEPT ![t] = rest] /\ done' = done
    <3>1. requests' = [requests EXCEPT ![t] = [r EXCEPT !.calls = Tail(@), !.got = v]]
          /\ done' = done
      BY <1>6 DEF Returns
    <3>2. r.calls = c /\ r = [calls |-> c, path |-> r.path, amount |-> r.amount, got |-> r.got]
      BY <1>1
    <3>3. [r EXCEPT !.calls = Tail(@), !.got = v] = rest
      <4> DEFINE q == Tail(c)
      <4>1. rest = [calls |-> q, path |-> r.path, amount |-> r.amount, got |-> v]
        OBVIOUS
      <4> HIDE DEF r, c, q, rest
      <4> DEFINE w == [r EXCEPT !.calls = q]
      <4>2. w = [calls |-> q, path |-> r.path, amount |-> r.amount, got |-> r.got]
        BY <3>2
      <4>3. [w EXCEPT !.got = v] = rest
        <5> HIDE DEF w
        <5>1. QED
          BY <4>1, <4>2
      <4>4. QED
        BY <3>2, <4>3 DEF q
    <3>4. QED
      BY <3>1, <3>3
  <2>4. \A k : Owes(r, k) = Paid(t, k) + Owes(rest, k)
    BY <1>2 DEF Owes
  <2>5. RequestOK(rest)
    <3>1. rest \in [calls : Seq(CallType), path : Spellings, amount : Amounts, got : Nat]
      BY <1>1, <1>3
    <3>2. ASSUME kind # "gauge"
          PROVE  /\ \A i \in DOMAIN Tail(c) : Tail(c)[i].op = "increment"
                 /\ \A k \in Keys : Owes(rest, k) <= PartOf(k, r.amount)
      <4>1. /\ \A i \in DOMAIN c : c[i].op = "increment"
            /\ \A k \in Keys : Owes(r, k) <= PartOf(k, r.amount)
        BY <1>4, <3>2 DEF RequestOK
      <4>2. \A i \in DOMAIN Tail(c) : Tail(c)[i].op = "increment"
        BY <1>3, <4>1
      <4>3. ASSUME NEW k \in Keys PROVE Owes(rest, k) <= PartOf(k, r.amount)
        <5>1. Owes(rest, k) \in Nat
          BY <1>3, CallSumNat DEF Owes
        <5>2. Paid(t, k) \in Nat
          BY <1>1 DEF Paid
        <5>3. PartOf(k, r.amount) \in Nat
          BY <1>1, PartOfNat
        <5> HIDE DEF rest, r
        <5>4. QED
          BY <2>4, <4>1, <5>1, <5>2, <5>3
      <4>4. QED
        BY <4>2, <4>3
    <3>3. ASSUME kind = "gauge" PROVE Tail(c) = Tail(CallsOf(r.amount))
      <4>1. Len(CallsOf(r.amount)) = 2 /\ Len(Tail(CallsOf(r.amount))) = 1
        BY <3>3 DEF CallsOf
      <4>2. c \in {CallsOf(r.amount), Tail(CallsOf(r.amount))}
        BY <1>4, <3>3 DEF RequestOK
      <4>3. QED
        BY <1>6, <4>1, <4>2
    <3>4. QED
      BY <2>2, <3>1, <3>2, <3>3 DEF RequestOK
  <2>6. rest.calls # <<>> /\ rest.amount = r.amount
    BY <2>2
  <2> HIDE DEF rest
  <2>7. QED
    BY <2>1, <2>3, <2>4, <2>5, <2>6
<1>7. QED
  BY <1>5, <1>6

\* No calls, nothing owed.
LEMMA NoCallsFacts ==
  /\ RequestOK(NoCalls)
  /\ \A k : Owes(NoCalls, k) = 0 /\ Worth(NoCalls, k) = 0
  /\ \A v : With(NoCalls, v) = 0
<1>1. NoCalls.calls = <<>> /\ <<>> \in Seq(CallType)
  BY DEF NoCalls
<1>2. \A k : CallSum(<<>>, k) = 0
  BY <1>1, CallSumNat
<1>3. QED
  BY <1>1, <1>2 DEF RequestOK, Owes, Worth, With

\* One more request of an amount is worth what its calls come to.
LEMMA OneMoreIsWorth ==
  ASSUME kind \in Kinds, NEW counts \in [Amounts -> Nat], NEW v \in Amounts, NEW k
  PROVE  /\ WorthOf(counts, k) \in Nat
         /\ WorthOf([counts EXCEPT ![v] = @ + 1], k) = WorthOf(counts, k) + PartOf(k, v)
<1> DEFINE more == [counts EXCEPT ![v] = @ + 1]
           f == [a \in Amounts |-> counts[a] * PartOf(k, a)]
           g == [a \in Amounts |-> more[a] * PartOf(k, a)]
<1>1. IsFiniteSet(Amounts)
  BY ExtensionAssumption
<1>2. \A a \in Amounts : PartOf(k, a) \in Nat
  BY PartOfNat
<1>3. /\ \A a \in Amounts : counts[a] \in Nat /\ more[a] \in Nat
      /\ \A a \in Amounts \ {v} : more[a] = counts[a]
      /\ more[v] = counts[v] + 1
  OBVIOUS
<1>4. \A m, n \in Nat : m * n \in Nat /\ (m + 1) * n = m * n + n
  OBVIOUS
<1> HIDE DEF more
<1>5. \A a \in Amounts : f[a] \in Nat /\ g[a] \in Nat
  BY <1>2, <1>3, <1>4
<1>6. \A a \in Amounts \ {v} : f[a] = g[a]
  BY <1>3
<1>7. g[v] = f[v] + PartOf(k, v)
  BY <1>2, <1>3, <1>4
<1>8. WorthOf(counts, k) = Total(f, Amounts) /\ WorthOf(more, k) = Total(g, Amounts)
  BY DEF WorthOf
<1>9. PartOf(k, v) \in Nat
  BY <1>2
<1> HIDE DEF f, g
<1>10. Total(g, Amounts) = Total(f, Amounts) - f[v] + g[v] /\ Total(f, Amounts) \in Nat
  BY <1>1, <1>5, <1>6, TotalChange, TotalNat
<1>11. f[v] \in Nat
  BY <1>5
<1>12. QED
  BY <1>7, <1>8, <1>9, <1>10, <1>11 DEF more

\* A request that returns goes on, or is done: what it was worth moves from those under
\* way to those done.
LEMMA ReturnSums ==
  ASSUME TypeInv, kind' = kind, NEW t \in Threads, Busy(t), NEW v \in Nat, Returns(t, v)
  PROVE  /\ RequestsOK' /\ done' \in [Amounts -> Nat]
         /\ \A a \in Amounts : done'[a] + WithAll(a)' = done[a] + WithAll(a)
         /\ \A k \in Keys :
              /\ OwesAll(k) = Paid(t, k) + OwesAll(k)'
              /\ WorthOf(done', k) + WorthAll(k)' = WorthOf(done, k) + WorthAll(k)
<1> DEFINE r == AfterReturn(t, v)
           a == requests[t].amount
<1>1. kind \in Kinds /\ RequestsOK /\ done \in [Amounts -> Nat]
  BY DEF TypeInv, FileOK, CountsOK
<1>2. /\ RequestOK(r) /\ requests' = [requests EXCEPT ![t] = r]
      /\ \A k \in Keys : Owes(requests[t], k) = Paid(t, k) + Owes(r, k)
      /\ \/ r = NoCalls /\ done' = [done EXCEPT ![a] = @ + 1]
         \/ r.calls # <<>> /\ r.amount = a /\ done' = done
  BY <1>1, ReturnFacts
<1>3. /\ RequestsOK'
      /\ \A k \in Keys :
           /\ OwesAll(k)' = OwesAll(k) - Owes(requests[t], k) + Owes(r, k)
           /\ WorthAll(k)' = WorthAll(k) - Worth(requests[t], k) + Worth(r, k)
      /\ \A b \in Amounts : WithAll(b)' = WithAll(b) - With(requests[t], b) + With(r, b)
  BY <1>1, <1>2, SumsChange
<1>4. /\ a \in Amounts /\ Call(t).by \in Nat
      /\ \A k : Worth(requests[t], k) = PartOf(k, a)
      /\ \A b : With(requests[t], b) = IF b = a THEN 1 ELSE 0
  BY <1>1, BusyFacts DEF Worth, With
<1>5. /\ \A k \in Keys : OwesAll(k) \in Nat /\ WorthAll(k) \in Nat
      /\ \A b \in Amounts : WithAll(b) \in Nat
  BY <1>1, SumsAreNat
<1>6. RequestOK(requests[t])
  BY <1>1 DEF RequestsOK
<1>7. \A k \in Keys : Owes(r, k) \in Nat /\ Owes(requests[t], k) \in Nat
  BY <1>1, <1>2, <1>6, RequestFacts
<1>8. \A k : WorthOf(done, k) \in Nat /\ PartOf(k, a) \in Nat
  BY <1>1, <1>4, OneMoreIsWorth, PartOfNat
<1>9. \A k \in Keys : Paid(t, k) \in Nat
  BY <1>4 DEF Paid
<1> HIDE DEF r, a
<1>10. \A k \in Keys : OwesAll(k) = Paid(t, k) + OwesAll(k)'
  <2> SUFFICES ASSUME NEW k \in Keys PROVE OwesAll(k) = Paid(t, k) + OwesAll(k)'
    OBVIOUS
  <2>1. /\ OwesAll(k)' = OwesAll(k) - Owes(requests[t], k) + Owes(r, k)
        /\ Owes(requests[t], k) = Paid(t, k) + Owes(r, k)
        /\ OwesAll(k) \in Nat /\ Paid(t, k) \in Nat /\ Owes(r, k) \in Nat
    BY <1>2, <1>3, <1>5, <1>7, <1>9
  <2>2. QED
    BY <2>1
<1>11. CASE r = NoCalls /\ done' = [done EXCEPT ![a] = @ + 1]
  <2>1. ASSUME NEW k \in Keys
        PROVE  WorthOf(done', k) + WorthAll(k)' = WorthOf(done, k) + WorthAll(k)
    <3>1. WorthOf(done', k) = WorthOf(done, k) + PartOf(k, a)
      BY <1>1, <1>4, <1>11, OneMoreIsWorth
    <3>2. WorthAll(k)' = WorthAll(k) - PartOf(k, a)
      BY <1>3, <1>4, <1>5, <1>8, <1>11, NoCallsFacts
    <3>3. QED
      BY <1>5, <1>8, <3>1, <3>2
  <2>2. ASSUME NEW b \in Amounts PROVE done'[b] + WithAll(b)' = done[b] + WithAll(b)
    <3>1. done'[b] = IF b = a THEN done[b] + 1 ELSE done[b]
      BY <1>1, <1>11
    <3>2. WithAll(b)' = WithAll(b) - (IF b = a THEN 1 ELSE 0)
      BY <1>3, <1>4, <1>5, <1>11, NoCallsFacts
    <3>3. done[b] \in Nat /\ WithAll(b) \in Nat
      BY <1>1, <1>5
    <3>4. QED
      BY <3>1, <3>2, <3>3
  <2>3. done' \in [Amounts -> Nat]
    BY <1>1, <1>4, <1>11
  <2>4. QED
    BY <1>3, <1>10, <2>1, <2>2, <2>3
<1>12. CASE r.calls # <<>> /\ r.amount = a /\ done' = done
  <2>1. \A k : Worth(r, k) = PartOf(k, a)
    BY <1>12 DEF Worth
  <2>2. \A b : With(r, b) = IF b = a THEN 1 ELSE 0
    BY <1>12 DEF With
  <2>3. \A k \in Keys : WorthAll(k)' = WorthAll(k)
    BY <1>3, <1>4, <1>5, <1>8, <2>1
  <2>4. \A b \in Amounts : WithAll(b)' = WithAll(b)
    BY <1>3, <1>4, <1>5, <2>2
  <2>5. QED
    BY <1>1, <1>3, <1>10, <1>12, <2>3, <2>4
<1>13. QED
  BY <1>2, <1>11, <1>12

\* A request that is cut short owes nothing more, and is worth nothing.
LEMMA ThrowSums ==
  ASSUME TypeInv, kind' = kind, NEW t \in Threads, Busy(t), Throws(t)
  PROVE  /\ RequestsOK' /\ done' = done
         /\ \A a \in Amounts : WithAll(a)' <= WithAll(a)
         /\ \A k \in Keys :
              /\ OwesAll(k)' = OwesAll(k) - Owes(requests[t], k)
              /\ WorthAll(k)' = WorthAll(k) - Worth(requests[t], k)
<1>1. kind \in Kinds /\ RequestsOK
  BY DEF TypeInv, FileOK
<1>2. requests' = [requests EXCEPT ![t] = NoCalls] /\ done' = done
  BY DEF Throws
<1>3. RequestOK(requests[t])
  BY <1>1 DEF RequestsOK
<1>4. /\ RequestsOK'
      /\ \A k \in Keys :
           /\ OwesAll(k)' = OwesAll(k) - Owes(requests[t], k) + Owes(NoCalls, k)
           /\ WorthAll(k)' = WorthAll(k) - Worth(requests[t], k) + Worth(NoCalls, k)
      /\ \A b \in Amounts : WithAll(b)' = WithAll(b) - With(requests[t], b) + With(NoCalls, b)
  BY <1>1, <1>2, NoCallsFacts, SumsChange
<1>5. /\ \A k \in Keys : OwesAll(k) \in Nat /\ WorthAll(k) \in Nat
      /\ \A b \in Amounts : WithAll(b) \in Nat
  BY <1>1, SumsAreNat
<1>6. /\ \A k \in Keys : Owes(requests[t], k) \in Nat /\ Worth(requests[t], k) \in Nat
      /\ \A b \in Amounts : With(requests[t], b) \in {0, 1}
  BY <1>1, <1>3, RequestFacts
<1>7. \A b \in Amounts : WithAll(b)' <= WithAll(b)
  BY <1>4, <1>5, <1>6, NoCallsFacts
<1>8. \A k \in Keys : /\ OwesAll(k)' = OwesAll(k) - Owes(requests[t], k)
                      /\ WorthAll(k)' = WorthAll(k) - Worth(requests[t], k)
  BY <1>4, <1>5, <1>6, NoCallsFacts
<1>9. QED
  BY <1>2, <1>4, <1>7, <1>8

\* A request that begins owes what it is worth.
LEMMA BeginSums ==
  ASSUME TypeInv, NEW t \in Threads, NEW path \in Spellings, NEW v \in Amounts,
         Begin(t, path, v)
  PROVE  /\ RequestsOK' /\ CountsOK'
         /\ \A k \in Keys :
              /\ OwesAll(k)' = OwesAll(k) + PartOf(k, v)
              /\ WorthAll(k)' = WorthAll(k) + PartOf(k, v)
              /\ WorthOf(begun', k) = WorthOf(begun, k) + PartOf(k, v)
<1> DEFINE r == [calls |-> CallsOf(v), path |-> path, amount |-> v, got |-> 0]
<1>1. kind \in Kinds /\ RequestsOK /\ CountsOK /\ requests[t].calls = <<>>
  BY DEF TypeInv, FileOK, Begin, Busy
<1>2. /\ requests' = [requests EXCEPT ![t] = r] /\ begun' = [begun EXCEPT ![v] = @ + 1]
      /\ kind' = kind /\ done' = done /\ applied' = applied
      /\ Total(begun, Amounts) < MaxRequests
  BY DEF Begin
<1>3. CallsOf(v) \in Seq(CallType) /\ CallsOf(v) # <<>>
  BY <1>1, CallsOfType
<1>4. \A k : Owes(r, k) = PartOf(k, v) /\ Worth(r, k) = PartOf(k, v) /\ PartOf(k, v) \in Nat
  BY <1>1, <1>3, PartOfNat DEF Owes, Worth
<1>5. \A b : With(r, b) = IF b = v THEN 1 ELSE 0
  BY <1>3 DEF With
<1>6. RequestOK(r)
  <2>1. r \in [calls : Seq(CallType), path : Spellings, amount : Amounts, got : Nat]
    BY <1>3
  <2>2. kind # "gauge" => \A i \in DOMAIN r.calls : r.calls[i].op = "increment"
    BY <1>1, CallsOfType
  <2>3. \A k : Owes(r, k) <= PartOf(k, v)
    BY <1>4
  <2>4. r.calls = CallsOf(v) /\ r.amount = v
    OBVIOUS
  <2> HIDE DEF r
  <2>5. QED
    BY <1>3, <2>1, <2>2, <2>3, <2>4 DEF RequestOK
<1>7. requests[t] = NoCalls
  BY <1>1 DEF RequestsOK, RequestOK
<1> HIDE DEF r
<1>8. /\ RequestsOK'
      /\ \A k \in Keys :
           /\ OwesAll(k)' = OwesAll(k) - Owes(requests[t], k) + Owes(r, k)
           /\ WorthAll(k)' = WorthAll(k) - Worth(requests[t], k) + Worth(r, k)
      /\ \A b \in Amounts : WithAll(b)' = WithAll(b) - With(requests[t], b) + With(r, b)
  BY <1>1, <1>2, <1>6, SumsChange
<1>9. /\ \A k \in Keys : OwesAll(k) \in Nat /\ WorthAll(k) \in Nat
      /\ \A b \in Amounts : WithAll(b) \in Nat
  BY <1>1, SumsAreNat
<1>10. \A k \in Keys : /\ OwesAll(k)' = OwesAll(k) + PartOf(k, v)
                       /\ WorthAll(k)' = WorthAll(k) + PartOf(k, v)
  BY <1>4, <1>7, <1>8, <1>9, NoCallsFacts
<1>11. \A b \in Amounts : WithAll(b)' = WithAll(b) + (IF b = v THEN 1 ELSE 0)
  BY <1>5, <1>7, <1>8, <1>9, NoCallsFacts
<1>12. begun \in [Amounts -> Nat] /\ begun' \in [Amounts -> Nat] /\ begun'[v] = begun[v] + 1
  BY <1>1, <1>2 DEF CountsOK
<1>13. \A k : WorthOf(begun', k) = WorthOf(begun, k) + PartOf(k, v)
  BY <1>1, <1>2, <1>12, OneMoreIsWorth
<1>14. Total(begun', Amounts) <= MaxRequests
  <2>1. IsFiniteSet(Amounts) /\ MaxRequests \in Nat
    BY ExtensionAssumption
  <2>2. \A b \in Amounts : begun[b] \in Nat /\ begun'[b] \in Nat
    BY <1>12
  <2>3. \A b \in Amounts \ {v} : begun[b] = begun'[b]
    BY <1>2, <1>12
  <2>4. Total(begun', Amounts) = Total(begun, Amounts) - begun[v] + begun'[v]
    BY <2>1, <2>2, <2>3, TotalChange
  <2>5. Total(begun, Amounts) \in Nat
    BY <2>1, <2>2, TotalNat
  <2>6. QED
    BY <1>2, <1>12, <2>1, <2>2, <2>4, <2>5
<1>15. CountsOK'
  <2>1. \A b \in Amounts : done[b] \in Nat /\ done[b] + WithAll(b) <= begun[b]
    BY <1>1 DEF CountsOK
  <2>2. \A b \in Amounts : begun'[b] = begun[b] + (IF b = v THEN 1 ELSE 0)
    BY <1>2, <1>12
  <2>3. \A b \in Amounts : done[b] + WithAll(b)' <= begun'[b]
    <3> SUFFICES ASSUME NEW b \in Amounts PROVE done[b] + WithAll(b)' <= begun'[b]
      OBVIOUS
    <3>1. begun[b] \in Nat /\ WithAll(b) \in Nat
      BY <1>9, <1>12
    <3>2. QED
      BY <1>11, <2>1, <2>2, <3>1
  <2>4. QED
    BY <1>1, <1>2, <1>12, <1>14, <2>3 DEF CountsOK
<1>16. QED
  BY <1>8, <1>10, <1>13, <1>15

\* After the process has ended no request is under way.
LEMMA ExitSums ==
  ASSUME kind \in Kinds, kind' = kind, requests' = [t \in Threads |-> NoCalls]
  PROVE  /\ RequestsOK'
         /\ \A k \in Keys : OwesAll(k)' = 0 /\ WorthAll(k)' = 0
         /\ \A v \in Amounts : WithAll(v)' = 0
<1>1. IsFiniteSet(Threads)
  BY ExtensionAssumption
<1>2. \A t \in Threads : requests'[t] = NoCalls
  OBVIOUS
<1>3. RequestsOK'
  BY <1>2 DEF RequestsOK, RequestOK
<1>4. ASSUME NEW k \in Keys PROVE OwesAll(k)' = 0 /\ WorthAll(k)' = 0
  <2> DEFINE f == [t \in Threads |-> Owes(requests'[t], k)]
             g == [t \in Threads |-> Worth(requests'[t], k)]
  <2>1. \A t \in Threads : f[t] = 0 /\ g[t] = 0
    BY <1>2, NoCallsFacts
  <2>2. OwesAll(k)' = Total(f, Threads) /\ WorthAll(k)' = Total(g, Threads)
    BY KindKept DEF OwesAll, WorthAll
  <2> HIDE DEF f, g
  <2>3. QED
    BY <1>1, <2>1, <2>2, TotalZero
<1>5. ASSUME NEW v \in Amounts PROVE WithAll(v)' = 0
  <2> DEFINE f == [t \in Threads |-> With(requests'[t], v)]
  <2>1. \A t \in Threads : f[t] = 0
    BY <1>2, NoCallsFacts
  <2>2. WithAll(v)' = Total(f, Threads)
    BY DEF WithAll, With
  <2> HIDE DEF f
  <2>3. QED
    BY <1>1, <2>1, <2>2, TotalZero
<1>6. QED
  BY <1>3, <1>4, <1>5

-----------------------------------------------------------------------------
(* The types *)

\* What a call does to the counts.
LEMMA CallCounts ==
  ASSUME TypeInv, NEW t \in Threads, Busy(t), CallOK(t)
  PROVE  RequestsOK' /\ CountsOK'
<1>1. kind' = kind /\ begun' = begun /\ RequestsOK /\ CountsOK
  BY DEF TypeInv, CallOK
<1>2. \A a \in Amounts : done[a] \in Nat /\ begun[a] \in Nat /\ done[a] + WithAll(a) <= begun[a]
  BY <1>1 DEF CountsOK
<1>3. \A a \in Amounts : WithAll(a) \in Nat /\ WithAll(a)' \in Nat
  <2>1. kind \in Kinds /\ kind' \in Kinds
    BY <1>1 DEF TypeInv, FileOK
  <2>2. \A a \in Amounts : WithAll(a)' \in Nat
    <3>1. \A a \in Amounts : \A u \in Threads : With(requests'[u], a) \in Nat
      BY DEF With
    <3>2. IsFiniteSet(Threads)
      BY ExtensionAssumption
    <3> SUFFICES ASSUME NEW a \in Amounts PROVE WithAll(a)' \in Nat
      OBVIOUS
    <3> DEFINE f == [u \in Threads |-> With(requests'[u], a)]
    <3>3. \A u \in Threads : f[u] \in Nat
      BY <3>1
    <3>4. WithAll(a)' = Total(f, Threads)
      BY DEF WithAll, With
    <3> HIDE DEF f
    <3>5. QED
      BY <3>2, <3>3, <3>4, TotalNat
  <2>3. QED
    BY <1>1, <2>1, <2>2, SumsAreNat
<1>4. applied' \in [Keys -> Nat]
  <2>1. applied \in [Keys -> Nat]
    BY <1>1 DEF CountsOK
  <2>2. ASSUME Counted(t) PROVE applied' \in [Keys -> Nat]
    <3>1. Call(t).key \in Keys /\ Call(t).by \in Nat
      BY <1>1, BusyFacts
    <3>2. QED
      BY <2>1, <2>2, <3>1 DEF Counted
  <2>3. QED
    BY <2>1, <2>2 DEF CallOK, Effect, NoEffect
<1>5. CASE \E v \in Nat : Returns(t, v)
  <2>1. /\ RequestsOK' /\ done' \in [Amounts -> Nat]
        /\ \A a \in Amounts : done'[a] + WithAll(a)' = done[a] + WithAll(a)
    BY <1>1, <1>5, ReturnSums
  <2>2. \A a \in Amounts : done'[a] + WithAll(a)' <= begun[a]
    BY <1>2, <2>1
  <2>3. QED
    BY <1>1, <1>4, <2>1, <2>2 DEF CountsOK
<1>6. CASE Throws(t)
  <2>1. RequestsOK' /\ done' = done /\ \A a \in Amounts : WithAll(a)' <= WithAll(a)
    BY <1>1, <1>6, ThrowSums
  <2>2. \A a \in Amounts : done[a] + WithAll(a)' <= begun[a]
    BY <1>2, <1>3, <2>1
  <2>3. QED
    BY <1>1, <1>4, <2>1, <2>2 DEF CountsOK
<1>7. QED
  BY <1>5, <1>6 DEF CallOK, Effect, NoEffect

\* Nothing of it is in a scrape.
LEMMA TypeUnchanged ==
  ASSUME TypeInv, UNCHANGED <<kind, fileLen, cells, stores, requests, begun, done, applied>>
  PROVE  TypeInv'
<1>1. FileOK' /\ StoresOK'
  BY DEF TypeInv, FileOK, StoresOK, Used
<1>2. RequestsOK'
  BY KindKept DEF TypeInv, RequestsOK
<1>3. CountsOK'
  BY DEF TypeInv, CountsOK, WithAll, With
<1>4. QED
  BY <1>1, <1>2, <1>3 DEF TypeInv

\* The end of the process.
LEMMA TypeExit ==
  ASSUME TypeInv, Exit
  PROVE  TypeInv'
<1>1. /\ UNCHANGED <<kind, fileLen, cells, begun, done, applied>>
      /\ stores' = [path \in Spellings |-> Closed]
      /\ requests' = [t \in Threads |-> NoCalls]
  BY DEF Exit
<1>2. FileOK /\ CountsOK /\ RequestsOK
  BY DEF TypeInv
<1>3. FileOK'
  BY <1>1, <1>2 DEF FileOK, Used
<1>4. StoreOK(Closed, cells')
  BY DEF StoreOK, Closed, IndexOK
<1>5. StoresOK'
  <2>1. \A path \in Spellings : stores'[path] = Closed
    BY <1>1
  <2>2. stores' = [path \in Spellings |-> stores'[path]]
    BY <1>1
  <2>3. QED
    BY <1>4, <2>1, <2>2 DEF StoresOK
<1>6. RequestsOK' /\ \A v \in Amounts : WithAll(v)' = 0
  BY <1>1, <1>2, ExitSums DEF FileOK
<1>7. \A v \in Amounts : done[v] + 0 <= begun[v]
  <2>1. \A v \in Amounts : WithAll(v) \in Nat
    BY <1>2, SumsAreNat DEF FileOK
  <2>2. \A v \in Amounts : done[v] \in Nat /\ begun[v] \in Nat /\ done[v] + WithAll(v) <= begun[v]
    BY <1>2 DEF CountsOK
  <2>3. QED
    BY <2>1, <2>2
<1>8. CountsOK'
  BY <1>1, <1>2, <1>6, <1>7 DEF CountsOK
<1>9. QED
  BY <1>3, <1>5, <1>6, <1>8 DEF TypeInv

\* A step of a call that does not die of SIGBUS.
LEMMA CallStepOK ==
  ASSUME TypeInv, NEW t \in Threads, CallStep(t), ~Sigbus(t)
  PROVE  CallOK(t) /\ Busy(t)
<1>1. CallOK(t)
  BY CallIsOK DEF CallStep
<1>2. Busy(t)
  BY DEF CallStep, Get, Update, InvalidUsed, HasRoom, Grow, GrowFails, Appends, Reads,
         Writes, Grows
<1>3. QED
  BY <1>1, <1>2

\* The types hold at first,
LEMMA TypeInit == ExtInit => TypeInv
<1> SUFFICES ASSUME ExtInit PROVE TypeInv
  OBVIOUS
<1>1. /\ kind \in Kinds /\ fileLen = 0 /\ cells = <<>>
      /\ stores = [path \in Spellings |-> Closed] /\ requests = [t \in Threads |-> NoCalls]
      /\ begun = [v \in Amounts |-> 0] /\ done = [v \in Amounts |-> 0]
      /\ applied = [k \in Keys |-> 0]
  BY DEF ExtInit
<1>2. FileOK
  BY <1>1 DEF FileOK
<1>3. StoresOK
  <2>1. StoreOK(Closed, cells)
    BY DEF StoreOK, Closed, IndexOK
  <2>2. QED
    BY <1>1, <2>1 DEF StoresOK
<1>4. RequestsOK
  BY <1>1 DEF RequestsOK, RequestOK
<1>5. \A v \in Amounts : WithAll(v) = 0
  <2> SUFFICES ASSUME NEW v \in Amounts PROVE WithAll(v) = 0
    OBVIOUS
  <2> DEFINE f == [t \in Threads |-> With(requests[t], v)]
  <2>1. \A t \in Threads : f[t] = 0
    BY <1>1, NoCallsFacts
  <2>2. WithAll(v) = Total(f, Threads) /\ IsFiniteSet(Threads)
    BY ExtensionAssumption DEF WithAll
  <2> HIDE DEF f
  <2>3. QED
    BY <2>1, <2>2, TotalZero
<1>6. Total(begun, Amounts) = 0
  BY <1>1, TotalZero, ExtensionAssumption
<1>7. CountsOK
  BY <1>1, <1>5, <1>6, ExtensionAssumption DEF CountsOK
<1>8. QED
  BY <1>2, <1>3, <1>4, <1>7 DEF TypeInv

\* and no step breaks them.
LEMMA TypeStep == TypeInv /\ [ExtNext]_extVars => TypeInv'
<1> SUFFICES ASSUME TypeInv, [ExtNext]_extVars PROVE TypeInv'
  OBVIOUS
<1>1. ASSUME NEW t \in Threads, NEW path \in Spellings, NEW v \in Amounts, Begin(t, path, v)
      PROVE  TypeInv'
  <2>1. RequestsOK' /\ CountsOK'
    BY <1>1, BeginSums
  <2>2. FileOK' /\ StoresOK'
    BY <1>1 DEF TypeInv, FileOK, StoresOK, Used, Begin
  <2>3. QED
    BY <2>1, <2>2 DEF TypeInv
<1>2. ASSUME NEW t \in Threads, CallStep(t) PROVE TypeInv'
  <2>1. CASE Sigbus(t)
    BY <2>1, TypeExit DEF Sigbus
  <2>2. CASE ~Sigbus(t)
    <3>1. CallOK(t) /\ Busy(t)
      BY <1>2, <2>2, CallStepOK
    <3>2. QED
      BY <3>1, CallCounts DEF TypeInv, CallOK
  <2>3. QED
    BY <2>1, <2>2
<1>3. CASE Exit
  BY <1>3, TypeExit
<1>4. CASE StartScrape \/ ReadEntry \/ EndScrape
  BY <1>4, TypeUnchanged DEF StartScrape, ReadEntry, EndScrape
<1>5. CASE UNCHANGED extVars
  BY <1>5, TypeUnchanged DEF extVars
<1>6. QED
  BY <1>1, <1>2, <1>3, <1>4, <1>5 DEF ExtNext

\* The types of the state: the index of every store leads to entries of its keys, the
\* file has room for its entries, and no more requests are done than were begun.
THEOREM ExtTypesHold == ExtSpec => []ExtTypeOK
<1>1. TypeInv => ExtTypeOK
  <2> SUFFICES ASSUME TypeInv PROVE ExtTypeOK
    OBVIOUS
  <2>1. kind \in Kinds /\ fileLen \in Nat /\ (cells # <<>> => Used <= fileLen)
    BY DEF TypeInv, FileOK
  <2>2. cells \in Seq([key : Keys, at : Nat, value : Nat])
    BY DEF TypeInv, FileOK, CellType
  <2>3. \A path \in Spellings :
          /\ stores[path].open \in BOOLEAN /\ stores[path].mapLen \in Nat
          /\ DOMAIN stores[path].index \subseteq Keys
          /\ \A k \in DOMAIN stores[path].index :
               /\ stores[path].index[k] \in DOMAIN cells
               /\ cells[stores[path].index[k]].key = k
    BY DEF TypeInv, StoresOK, StoreOK, IndexOK
  <2>4. ASSUME NEW v \in Amounts PROVE done[v] \in 0..begun[v] /\ begun[v] \in 0..MaxRequests
    <3>1. /\ \A a \in Amounts : begun[a] \in Nat
          /\ Total(begun, Amounts) <= MaxRequests /\ MaxRequests \in Nat
          /\ done[v] \in Nat /\ done[v] + WithAll(v) <= begun[v]
      BY ExtensionAssumption DEF TypeInv, CountsOK
    <3>2. IsFiniteSet(Amounts) /\ IsFiniteSet(Amounts \ {v})
      BY ExtensionAssumption, FS_Subset
    <3>3. Total(begun, Amounts) = begun[v] + Total(begun, Amounts \ {v})
      BY <3>1, <3>2, TotalOut
    <3>4. Total(begun, Amounts \ {v}) \in Nat
      BY <3>1, <3>2, TotalNat
    <3>5. WithAll(v) \in Nat
      BY SumsAreNat DEF TypeInv, FileOK
    <3>6. QED
      BY <3>1, <3>3, <3>4, <3>5
  <2>5. applied \in [Keys -> Nat]
    BY DEF TypeInv, CountsOK
  <2>6. QED
    BY <2>1, <2>2, <2>3, <2>4, <2>5 DEF ExtTypeOK
<1>2. QED
  BY <1>1, TypeInit, TypeStep, PTL DEF ExtSpec

-----------------------------------------------------------------------------
(* What the entries add up to *)

\* Of a counter or a histogram every call is an increment.
LEMMA OnlyIncrements ==
  ASSUME RequestsOK, kind # "gauge", NEW t \in Threads, Busy(t)
  PROVE  Call(t).op = "increment" /\ ~Reads(t) /\ \A v : Apply(t, v) = v + Call(t).by
<1>1. RequestOK(requests[t]) /\ requests[t] # NoCalls
  BY DEF RequestsOK, Busy, NoCalls
<1>2. 1 \in DOMAIN requests[t].calls /\ Call(t) = requests[t].calls[1]
  <2>1. /\ requests[t].calls \in Seq(CallType) /\ requests[t].calls # <<>>
        /\ Call(t) = requests[t].calls[1]
    BY BusyFacts
  <2> DEFINE c == requests[t].calls
  <2> HIDE DEF c
  <2>2. c \in Seq(CallType) /\ c # <<>> => 1 \in DOMAIN c
    OBVIOUS
  <2>3. QED
    BY <2>1, <2>2 DEF c
<1>3. Call(t).op = "increment"
  BY <1>1, <1>2 DEF RequestOK
<1>4. QED
  BY <1>3 DEF Reads, Apply

\* The entries of a key are finitely many, and their values numbers.
LEMMA EntriesFacts ==
  ASSUME NEW c \in Seq(CellType), NEW k, NEW P
  PROVE  /\ IsFiniteSet({i \in DOMAIN c : c[i].key = k} \cap P)
         /\ \A i \in DOMAIN c : [j \in DOMAIN c |-> c[j].value][i] \in Nat
<1>1. IsFiniteSet(DOMAIN c)
  BY FS_Interval
<1>2. IsFiniteSet({i \in DOMAIN c : c[i].key = k} \cap P)
  BY <1>1, FS_Subset
<1>3. \A i \in DOMAIN c : c[i].value \in Nat
  BY CellIs
<1>4. QED
  BY <1>2, <1>3

\* An increment adds no more than it is worth to those at some positions, and all of it
\* to all of them.
LEMMA EffectSums ==
  ASSUME TypeInv, kind # "gauge", NEW t \in Threads, Busy(t), Updated(t) \/ Added(t),
         NEW k \in Keys, NEW P
  PROVE  /\ SumAt(cells, k, P) \in Nat /\ SumAt(cells', k, P) \in Nat
         /\ SumAt(cells, k, P) <= SumAt(cells', k, P)
         /\ SumAt(cells', k, P) <= SumAt(cells, k, P) + Paid(t, k)
         /\ Nat \subseteq P => SumAt(cells', k, P) = SumAt(cells, k, P) + Paid(t, k)
<1> DEFINE f == [i \in DOMAIN cells |-> cells[i].value]
           g == [i \in DOMAIN cells' |-> cells'[i].value]
           S == {i \in DOMAIN cells : cells[i].key = k} \cap P
           R == {i \in DOMAIN cells' : cells'[i].key = k} \cap P
           by == Call(t).by
<1>1. FileOK /\ RequestsOK /\ cells \in Seq(CellType)
  BY DEF TypeInv, FileOK
<1>2. cells' \in Seq(CellType)
  BY <1>1, UpdatedFacts, AddedFacts DEF Extends
<1>3. /\ IsFiniteSet(S) /\ IsFiniteSet(R)
      /\ \A i \in DOMAIN cells : f[i] \in Nat
      /\ \A i \in DOMAIN cells' : g[i] \in Nat
  BY <1>1, <1>2, EntriesFacts
<1>4. SumAt(cells, k, P) = Total(f, S) /\ SumAt(cells', k, P) = Total(g, R)
  BY DEF SumAt
<1>5. by \in Nat /\ \A v : Apply(t, v) = v + by
  BY <1>1, BusyFacts, OnlyIncrements
<1>6. Total(f, S) \in Nat /\ Total(g, R) \in Nat
  <2>1. (\A i \in S : f[i] \in Nat) /\ (\A i \in R : g[i] \in Nat)
    BY <1>3
  <2> HIDE DEF f, g, S, R
  <2>2. QED
    BY <1>3, <2>1, TotalNat
<1>7. SUFFICES /\ Total(f, S) <= Total(g, R)
               /\ Total(g, R) <= Total(f, S) + Paid(t, k)
               /\ Nat \subseteq P => Total(g, R) = Total(f, S) + Paid(t, k)
  BY <1>4, <1>6
<1>8. CASE Updated(t)
  <2>1. PICK i \in DOMAIN cells :
          /\ cells[i].key = Call(t).key
          /\ cells' = [cells EXCEPT ![i].value = Apply(t, cells[i].value)]
    BY <1>8 DEF Updated
  <2>2. DOMAIN cells' = DOMAIN cells
    BY <2>1
  <2>3. \A j \in DOMAIN cells \ {i} : cells'[j] = cells[j]
    BY <2>1
  <2>4. cells'[i].key = cells[i].key
    BY <1>1, <1>8, UpdatedFacts DEF Extends
  <2>5. R = S
    BY <2>2, <2>3, <2>4
  <2>6. cells'[i].value = cells[i].value + by
    <3> DEFINE n == Apply(t, cells[i].value)
    <3>1. cells[i] = [key |-> cells[i].key, at |-> cells[i].at, value |-> cells[i].value]
      BY <1>1, CellIs
    <3> HIDE DEF n
    <3>2. cells'[i] = [cells[i] EXCEPT !.value = n]
      BY <1>1, <2>1 DEF n
    <3>3. cells'[i].value = n
      BY <3>1, <3>2
    <3>4. QED
      BY <1>5, <3>3 DEF n
  <2>7. /\ \A j \in DOMAIN cells \ {i} : g[j] = f[j]
        /\ g[i] = f[i] + by /\ f[i] \in Nat
    BY <1>3, <2>2, <2>3, <2>6
  <2>8. CASE i \in S
    <3>1. Paid(t, k) = by
      BY <2>1, <2>8 DEF Paid
    <3>2. (\A j \in S : f[j] \in Nat /\ g[j] \in Nat) /\ \A j \in S \ {i} : f[j] = g[j]
      BY <1>3, <2>5, <2>7
    <3> HIDE DEF f, g, S, R, by
    <3>3. Total(g, S) = Total(f, S) - f[i] + g[i]
      BY <1>3, <2>8, <3>2, TotalChange
    <3>4. QED
      BY <1>5, <1>6, <2>5, <2>7, <3>1, <3>3
  <2>9. CASE i \notin S
    <3>1. \A j \in S : f[j] = g[j]
      BY <2>7, <2>9
    <3>2. Nat \subseteq P => Paid(t, k) = 0
      <4>1. i \in Nat
        BY <1>1
      <4>2. QED
        BY <2>1, <2>9, <4>1 DEF Paid
    <3>3. Paid(t, k) \in Nat
      BY <1>5 DEF Paid
    <3> HIDE DEF f, g, S, R, by
    <3>4. Total(g, R) = Total(f, S)
      BY <1>3, <2>5, <3>1, TotalEqual
    <3>5. QED
      BY <1>6, <3>2, <3>3, <3>4
  <2>10. QED
    BY <2>8, <2>9
<1>9. CASE Added(t)
  <2> DEFINE n == Len(cells) + 1
  <2>1. /\ DOMAIN cells' = DOMAIN cells \cup {n} /\ n \notin DOMAIN cells
        /\ cells'[n] = NewCell(t) /\ \A i \in DOMAIN cells : cells'[i] = cells[i]
    BY <1>1, <1>9, AddedFacts
  <2>2. n \in Nat
    BY <1>1
  <2>3. NewCell(t).key = Call(t).key /\ NewCell(t).value = by
    BY <1>5 DEF NewCell
  <2>4. g[n] = by /\ n \notin S /\ \A i \in S : f[i] = g[i]
    BY <2>1, <2>3
  <2>5. R = IF Call(t).key = k /\ n \in P THEN S \cup {n} ELSE S
    BY <2>1, <2>3
  <2>6. Paid(t, k) \in Nat
    BY <1>5 DEF Paid
  <2>7. Total(g, S) = Total(f, S)
    <3> HIDE DEF f, g, S
    <3>1. QED
      BY <1>3, <2>4, TotalEqual
  <2>8. CASE Call(t).key = k /\ n \in P
    <3>1. \A j \in S \cup {n} : g[j] \in Nat
      BY <1>3, <2>1
    <3>2. Paid(t, k) = by
      BY <2>8 DEF Paid
    <3> HIDE DEF f, g, S, R, by, n
    <3>3. Total(g, S \cup {n}) = g[n] + Total(g, S)
      BY <1>3, <2>4, <3>1, TotalAdd
    <3>4. QED
      BY <1>5, <1>6, <2>4, <2>5, <2>7, <2>8, <3>2, <3>3
  <2>9. CASE ~(Call(t).key = k /\ n \in P)
    <3>1. Nat \subseteq P => Paid(t, k) = 0
      BY <2>2, <2>9 DEF Paid
    <3> HIDE DEF f, g, S, R, by, n
    <3>2. QED
      BY <1>6, <2>5, <2>6, <2>7, <2>9, <3>1
  <2>10. QED
    BY <2>8, <2>9
<1>10. QED
  BY <1>8, <1>9

\* The value of one entry taken out of the sum.
LEMMA SumAtOut ==
  ASSUME NEW c \in Seq(CellType), NEW n \in DOMAIN c, NEW k, NEW P, n \in P
  PROVE  /\ SumAt(c, k, P \ {n}) \in Nat
         /\ c[n].value \in Nat
         /\ c[n].key = k => SumAt(c, k, P) = c[n].value + SumAt(c, k, P \ {n})
         /\ c[n].key # k => SumAt(c, k, P) = SumAt(c, k, P \ {n})
<1> DEFINE f == [i \in DOMAIN c |-> c[i].value]
           S == {i \in DOMAIN c : c[i].key = k} \cap P
           R == {i \in DOMAIN c : c[i].key = k} \cap (P \ {n})
<1>1. IsFiniteSet(S) /\ IsFiniteSet(R) /\ \A i \in DOMAIN c : f[i] \in Nat
  BY EntriesFacts
<1>2. SumAt(c, k, P) = Total(f, S) /\ SumAt(c, k, P \ {n}) = Total(f, R)
  BY DEF SumAt
<1>3. (\A i \in S : f[i] \in Nat) /\ (\A i \in R : f[i] \in Nat) /\ f[n] = c[n].value
  BY <1>1
<1>4. Total(f, R) \in Nat
  <2> HIDE DEF f, S, R
  <2>1. QED
    BY <1>1, <1>3, TotalNat
<1>5. CASE c[n].key = k
  <2>1. n \in S /\ R = S \ {n}
    BY <1>5
  <2> HIDE DEF f, S, R
  <2>2. Total(f, S) = f[n] + Total(f, S \ {n})
    BY <1>1, <1>3, <2>1, TotalOut
  <2>3. QED
    BY <1>1, <1>2, <1>3, <1>4, <1>5, <2>1, <2>2
<1>6. CASE c[n].key # k
  <2>1. R = S
    BY <1>6
  <2> HIDE DEF f, S, R
  <2>2. QED
    BY <1>1, <1>2, <1>3, <1>4, <1>6, <2>1
<1>7. QED
  BY <1>5, <1>6

\* Only positions in the file count.
LEMMA SumAtSame ==
  ASSUME NEW c \in Seq(CellType), NEW k, NEW P, NEW Q, \A i \in DOMAIN c : i \in P <=> i \in Q
  PROVE  SumAt(c, k, P) = SumAt(c, k, Q) /\ SumAt(c, k, P) \in Nat
<1> DEFINE f == [i \in DOMAIN c |-> c[i].value]
           S == {i \in DOMAIN c : c[i].key = k} \cap P
<1>1. S = {i \in DOMAIN c : c[i].key = k} \cap Q
  OBVIOUS
<1>2. SumAt(c, k, P) = Total(f, S) /\ SumAt(c, k, Q) = Total(f, S)
  BY <1>1 DEF SumAt
<1>3. IsFiniteSet(S) /\ \A i \in S : f[i] \in Nat
  BY EntriesFacts
<1> HIDE DEF f, S
<1>4. Total(f, S) \in Nat
  BY <1>3, TotalNat
<1>5. QED
  BY <1>2, <1>4

\* What a call applies to every key.
LEMMA CallApplies ==
  ASSUME TypeInv, NEW t \in Threads, Busy(t), Counted(t)
  PROVE  /\ \A k \in Keys : applied'[k] = applied[k] + Paid(t, k)
         /\ \A k \in Keys : applied[k] \in Nat /\ Paid(t, k) \in Nat
<1>1. RequestsOK /\ applied \in [Keys -> Nat]
  BY DEF TypeInv, CountsOK
<1>2. Call(t).key \in Keys /\ Call(t).by \in Nat
  BY <1>1, BusyFacts
<1>3. applied' = [applied EXCEPT ![Call(t).key] = @ + Call(t).by]
  BY DEF Counted
<1>4. QED
  BY <1>1, <1>2, <1>3 DEF Paid

\* An increment that returns is in the entries, and a call that throws is not.
LEMMA AddUpStep == TypeInv /\ AddUp /\ [ExtNext]_extVars => AddUp'
<1> SUFFICES ASSUME TypeInv, AddUp, [ExtNext]_extVars, kind' # "gauge"
             PROVE  \A k \in Keys : applied'[k] = SumAt(cells', k, Nat)
  BY DEF AddUp
<1>1. UNCHANGED <<kind, cells, applied>> => \A k \in Keys : applied'[k] = SumAt(cells', k, Nat)
  BY DEF AddUp
<1>2. ASSUME NEW t \in Threads, CallStep(t)
      PROVE  \A k \in Keys : applied'[k] = SumAt(cells', k, Nat)
  <2>1. CASE Sigbus(t)
    BY <1>1, <2>1 DEF Sigbus, Exit
  <2>2. CASE ~Sigbus(t)
    <3>1. CallOK(t) /\ Busy(t)
      BY <1>2, <2>2, CallStepOK
    <3>2. kind' = kind /\ RequestsOK
      BY <3>1 DEF CallOK, TypeInv
    <3>3. CASE NoEffect(t)
      BY <1>1, <3>2, <3>3 DEF NoEffect
    <3>4. CASE Effect(t)
      <4>1. Counted(t) /\ (Updated(t) \/ Added(t))
        BY <3>4 DEF Effect
      <4> TAKE k \in Keys
      <4>2. SumAt(cells', k, Nat) = SumAt(cells, k, Nat) + Paid(t, k)
        BY <3>1, <3>2, <4>1, EffectSums
      <4>3. applied'[k] = applied[k] + Paid(t, k)
        BY <3>1, <4>1, CallApplies
      <4>4. applied[k] = SumAt(cells, k, Nat)
        BY <3>2 DEF AddUp
      <4>5. QED
        BY <4>2, <4>3, <4>4
    <3>5. QED
      BY <3>1, <3>3, <3>4 DEF CallOK
  <2>3. QED
    BY <2>1, <2>2
<1>3. QED
  BY <1>1, <1>2 DEF ExtNext, Begin, Exit, StartScrape, ReadEntry, EndScrape, extVars

\* No increment that returned is lost or counted twice: whatever spellings the calls came
\* through, and whatever exceptions and deaths there were, the entries of a key add up to
\* what was applied to it.
THEOREM IncrementsAreKept == ExtSpec => []IncrementsAddUp
<1>1. ExtInit => AddUp
  <2> SUFFICES ASSUME ExtInit PROVE \A k \in Keys : applied[k] = SumAt(cells, k, Nat)
    BY DEF AddUp
  <2>1. cells = <<>> /\ applied = [k \in Keys |-> 0]
    BY DEF ExtInit
  <2>2. \A k : SumAt(<<>>, k, Nat) = 0
    <3>1. \A k : {i \in DOMAIN <<>> : <<>>[i].key = k} \cap Nat = {}
      OBVIOUS
    <3>2. QED
      BY <3>1, TotalEmpty DEF SumAt
  <2>3. QED
    BY <2>1, <2>2
<1>2. TypeInv /\ AddUp => IncrementsAddUp
  <2> SUFFICES ASSUME TypeInv, AddUp, kind # "gauge", NEW k \in Keys
               PROVE  applied[k] = Total([i \in DOMAIN cells |-> cells[i].value],
                                         {i \in DOMAIN cells : cells[i].key = k})
    BY DEF IncrementsAddUp
  <2>1. DOMAIN cells \subseteq Nat
    BY DEF TypeInv, FileOK
  <2>2. {i \in DOMAIN cells : cells[i].key = k} \cap Nat = {i \in DOMAIN cells : cells[i].key = k}
    BY <2>1
  <2>3. QED
    BY <2>2 DEF AddUp, SumAt
<1>3. QED
  BY <1>1, <1>2, TypeInit, TypeStep, AddUpStep, PTL DEF ExtSpec

-----------------------------------------------------------------------------
(* The accounts, and what a scrape sees *)

\* What requests are worth is a number.
LEMMA WorthOfNat ==
  ASSUME kind \in Kinds, NEW counts \in [Amounts -> Nat], NEW k
  PROVE  WorthOf(counts, k) \in Nat
<1> DEFINE f == [v \in Amounts |-> counts[v] * PartOf(k, v)]
<1>1. \A v \in Amounts : counts[v] \in Nat /\ PartOf(k, v) \in Nat
  BY PartOfNat
<1>2. \A m, n \in Nat : m * n \in Nat
  OBVIOUS
<1>3. \A v \in Amounts : f[v] \in Nat
  BY <1>1, <1>2
<1>4. WorthOf(counts, k) = Total(f, Amounts) /\ IsFiniteSet(Amounts)
  BY ExtensionAssumption DEF WorthOf
<1> HIDE DEF f
<1>5. QED
  BY <1>3, <1>4, TotalNat

\* Also after a step.
LEMMA OwesAllNext ==
  ASSUME kind' = kind, kind \in Kinds, RequestsOK', NEW k \in Keys
  PROVE  OwesAll(k)' \in Nat
<1> DEFINE f == [t \in Threads |-> Owes(requests'[t], k)]
<1>1. \A t \in Threads : RequestOK(requests'[t])
  BY KindKept DEF RequestsOK
<1>2. \A t \in Threads : f[t] \in Nat
  BY <1>1, RequestFacts
<1>3. OwesAll(k)' = Total(f, Threads) /\ IsFiniteSet(Threads)
  BY KindKept, ExtensionAssumption DEF OwesAll
<1> HIDE DEF f
<1>4. QED
  BY <1>2, <1>3, TotalNat

\* A call moves what it is worth from what is owed to what was applied; a request that is
\* cut short owes no more than it is worth.
LEMMA AccountsStep == TypeInv /\ Accounts /\ [ExtNext]_extVars => Accounts'
<1> SUFFICES ASSUME TypeInv, Accounts, [ExtNext]_extVars, kind' # "gauge", NEW k \in Keys
             PROVE  /\ applied'[k] + OwesAll(k)' <= WorthOf(begun, k)'
                    /\ WorthOf(done, k)' + WorthAll(k)' <= applied'[k] + OwesAll(k)'
  BY DEF Accounts
<1>1. kind' = kind
  BY DEF ExtNext, Begin, CallStep, Get, Update, InvalidUsed, HasRoom, Grow, GrowFails, Sigbus,
         Exit, StartScrape, ReadEntry, EndScrape, extVars
<1>2. /\ RequestsOK /\ CountsOK /\ kind \in Kinds
      /\ begun \in [Amounts -> Nat] /\ done \in [Amounts -> Nat] /\ applied \in [Keys -> Nat]
  BY DEF TypeInv, CountsOK, FileOK
<1>3. /\ OwesAll(k) \in Nat /\ WorthAll(k) \in Nat /\ OwesAll(k) <= WorthAll(k)
      /\ applied[k] \in Nat
  BY <1>1, <1>2, SumsAreNat
<1>4. WorthOf(begun, k) \in Nat /\ WorthOf(done, k) \in Nat
  <2>1. ASSUME NEW f \in [Amounts -> Nat] PROVE WorthOf(f, k) \in Nat
    BY <1>2, WorthOfNat
  <2>2. QED
    BY <1>2, <2>1
<1>5. /\ applied[k] + OwesAll(k) <= WorthOf(begun, k)
      /\ WorthOf(done, k) + WorthAll(k) <= applied[k] + OwesAll(k)
  BY <1>1 DEF Accounts
<1>6. WorthOf(begun, k)' = WorthOf(begun', k) /\ WorthOf(done, k)' = WorthOf(done', k)
  BY <1>1, KindKept DEF WorthOf
<1>7. ASSUME UNCHANGED <<requests, begun, done, applied>>
      PROVE  OwesAll(k)' = OwesAll(k) /\ WorthAll(k)' = WorthAll(k)
  BY <1>1, <1>7, KindKept DEF OwesAll, WorthAll
<1>8. CASE UNCHANGED <<requests, begun, done, applied>>
  BY <1>5, <1>6, <1>7, <1>8
<1>9. ASSUME NEW t \in Threads, NEW path \in Spellings, NEW v \in Amounts, Begin(t, path, v)
      PROVE  /\ applied'[k] + OwesAll(k)' <= WorthOf(begun', k)
             /\ WorthOf(done', k) + WorthAll(k)' <= applied'[k] + OwesAll(k)'
  <2>1. /\ OwesAll(k)' = OwesAll(k) + PartOf(k, v)
        /\ WorthAll(k)' = WorthAll(k) + PartOf(k, v)
        /\ WorthOf(begun', k) = WorthOf(begun, k) + PartOf(k, v)
    BY <1>9, BeginSums
  <2>2. PartOf(k, v) \in Nat
    BY <1>2, PartOfNat
  <2>3. done' = done /\ applied' = applied
    BY <1>9 DEF Begin
  <2>4. QED
    BY <1>3, <1>4, <1>5, <2>1, <2>2, <2>3
<1>10. CASE Exit
  <2>1. OwesAll(k)' = 0 /\ WorthAll(k)' = 0
    BY <1>2, <1>10, ExitSums DEF Exit
  <2>2. begun' = begun /\ done' = done /\ applied' = applied
    BY <1>10 DEF Exit
  <2>3. QED
    BY <1>3, <1>4, <1>5, <1>6, <2>1, <2>2
<1>11. ASSUME NEW t \in Threads, CallStep(t), ~Sigbus(t)
       PROVE  /\ applied'[k] + OwesAll(k)' <= WorthOf(begun', k)
              /\ WorthOf(done', k) + WorthAll(k)' <= applied'[k] + OwesAll(k)'
  <2>1. CallOK(t) /\ Busy(t) /\ begun' = begun
    BY <1>11, CallStepOK DEF CallOK
  <2>2. CASE Effect(t)
    <3>1. applied'[k] = applied[k] + Paid(t, k) /\ Paid(t, k) \in Nat
      BY <2>1, <2>2, CallApplies DEF Effect
    <3>2. /\ OwesAll(k) = Paid(t, k) + OwesAll(k)'
          /\ WorthOf(done', k) + WorthAll(k)' = WorthOf(done, k) + WorthAll(k)
      BY <1>1, <2>1, <2>2, ReturnSums DEF Effect
    <3>3. OwesAll(k)' \in Int
      <4>1. RequestsOK'
        BY <2>1, CallCounts
      <4>2. QED
        BY <1>1, <1>2, <4>1, OwesAllNext
    <3>4. applied'[k] + OwesAll(k)' = applied[k] + OwesAll(k)
      BY <1>3, <3>1, <3>2, <3>3
    <3>5. QED
      BY <1>5, <2>1, <3>2, <3>4
  <2>3. CASE NoEffect(t)
    <3>1. Throws(t) /\ applied' = applied
      BY <1>1, <1>2, <2>1, <2>3, OnlyIncrements DEF NoEffect
    <3>2. /\ done' = done
          /\ OwesAll(k)' = OwesAll(k) - Owes(requests[t], k)
          /\ WorthAll(k)' = WorthAll(k) - Worth(requests[t], k)
      BY <1>1, <2>1, <3>1, ThrowSums
    <3>3. /\ Owes(requests[t], k) \in Nat /\ Worth(requests[t], k) \in Nat
          /\ Owes(requests[t], k) <= Worth(requests[t], k)
      BY <1>1, <1>2, RequestFacts DEF RequestsOK
    <3>4. QED
      BY <1>3, <1>4, <1>5, <2>1, <3>1, <3>2, <3>3
  <2>4. QED
    BY <2>1, <2>2, <2>3 DEF CallOK
<1>12. ASSUME NEW t \in Threads, Sigbus(t) PROVE Exit
  BY <1>12 DEF Sigbus
<1>13. StartScrape \/ ReadEntry \/ EndScrape \/ UNCHANGED extVars
         => UNCHANGED <<requests, begun, done, applied>>
  BY DEF StartScrape, ReadEntry, EndScrape, extVars
<1>14. QED
  BY <1>6, <1>8, <1>9, <1>10, <1>11, <1>12, <1>13 DEF ExtNext

\* The counts of a scrape under way.
LEMMA ScrapeFacts ==
  ASSUME kind \in Kinds, ScrapeOK, scrape.under_way
  PROVE  /\ scrape = [under_way |-> TRUE, next |-> scrape.next, last |-> scrape.last,
                      before |-> scrape.before, seen |-> scrape.seen]
         /\ scrape.next \in Nat \ {0} /\ scrape.last \in 0..Len(cells)
         /\ scrape.before \in [Amounts -> Nat] /\ scrape.seen \in [Keys -> Nat]
         /\ \A k : WorthOf(scrape.before, k) \in Nat
         /\ \A k \in Keys : scrape.seen[k] \in Nat
         /\ kind # "gauge" => \A k \in Keys :
              /\ WorthOf(scrape.before, k) <= scrape.seen[k] + SumAt(cells, k, ToRead)
              /\ scrape.seen[k] + SumAt(cells, k, Ahead) <= applied[k]
<1>1. scrape.before \in [Amounts -> Nat] /\ scrape.seen \in [Keys -> Nat]
  BY DEF ScrapeOK
<1>2. \A k : WorthOf(scrape.before, k) \in Nat
  BY <1>1, WorthOfNat
<1>3. QED
  BY <1>1, <1>2 DEF ScrapeOK

\* While requests go on, what a scrape has still to read only grows, by no more than what
\* is applied.
LEMMA CallKeepsScrape ==
  ASSUME TypeInv, ScrapeOK, NEW t \in Threads, Busy(t), CallOK(t), Effect(t)
  PROVE  ScrapeOK'
<1>1. FileOK /\ RequestsOK /\ kind \in Kinds /\ cells \in Seq(CellType)
  BY DEF TypeInv, FileOK
<1>2. kind' = kind /\ scrape' = scrape /\ Counted(t) /\ (Updated(t) \/ Added(t))
  BY DEF CallOK, Effect
<1>3. Ahead' = Ahead /\ ToRead' = ToRead
  BY <1>2 DEF Ahead, ToRead
<1>4. CASE ~scrape.under_way
  BY <1>2, <1>4 DEF ScrapeOK
<1>5. CASE scrape.under_way
  <2>1. scrape.last \in 0..Len(cells')
    <3>1. Len(cells') = Len(cells) \/ Len(cells') = Len(cells) + 1
      BY <1>1, <1>2, UpdatedFacts, AddedFacts
    <3>2. Len(cells) \in Nat /\ scrape.last \in 0..Len(cells)
      BY <1>1, <1>5, ScrapeFacts
    <3>3. QED
      BY <3>1, <3>2
  <2>2. ASSUME kind # "gauge", NEW k \in Keys
        PROVE  /\ WorthOf(scrape.before, k) <= scrape.seen[k] + SumAt(cells', k, ToRead)
               /\ scrape.seen[k] + SumAt(cells', k, Ahead) <= applied'[k]
    <3>1. /\ WorthOf(scrape.before, k) <= scrape.seen[k] + SumAt(cells, k, ToRead)
          /\ scrape.seen[k] + SumAt(cells, k, Ahead) <= applied[k]
          /\ WorthOf(scrape.before, k) \in Nat /\ scrape.seen[k] \in Nat
      BY <1>1, <1>5, <2>2, ScrapeFacts
    <3>2. applied'[k] = applied[k] + Paid(t, k) /\ applied[k] \in Nat /\ Paid(t, k) \in Nat
      BY <1>2, CallApplies
    <3>3. /\ SumAt(cells, k, ToRead) <= SumAt(cells', k, ToRead)
          /\ SumAt(cells, k, ToRead) \in Nat /\ SumAt(cells', k, ToRead) \in Nat
      BY <1>2, <2>2, EffectSums
    <3>4. /\ SumAt(cells', k, Ahead) <= SumAt(cells, k, Ahead) + Paid(t, k)
          /\ SumAt(cells, k, Ahead) \in Nat /\ SumAt(cells', k, Ahead) \in Nat
      BY <1>2, <2>2, EffectSums
    <3>5. QED
      BY <3>1, <3>2, <3>3, <3>4
  <2>3. \A k : WorthOf(scrape.before, k)' = WorthOf(scrape.before, k)
    BY <1>2, KindKept DEF WorthOf
  <2>4. QED
    BY <1>1, <1>2, <1>3, <1>5, <2>1, <2>2, <2>3, ScrapeFacts DEF ScrapeOK
<1>6. QED
  BY <1>4, <1>5 DEF ScrapeOK

\* A scrape begins with all of the entries to read.
LEMMA StartScrapeOK ==
  ASSUME TypeInv, AddUp, Accounts, StartScrape
  PROVE  ScrapeOK'
<1>1. /\ scrape' = [under_way |-> TRUE, next |-> 1, last |-> Len(cells), before |-> done,
                    seen |-> [k \in Keys |-> 0]]
      /\ kind' = kind /\ cells' = cells /\ applied' = applied
  BY DEF StartScrape
<1>2. /\ kind \in Kinds /\ cells \in Seq(CellType) /\ RequestsOK
      /\ done \in [Amounts -> Nat] /\ applied \in [Keys -> Nat]
  BY DEF TypeInv, FileOK, CountsOK
<1>3. /\ scrape'.under_way = TRUE /\ scrape'.next = 1 /\ scrape'.last = Len(cells)
      /\ scrape'.before = done /\ scrape'.seen = [k \in Keys |-> 0]
  BY <1>1
<1>4. ToRead' = {i \in Nat : 1 <= i /\ i <= Len(cells)} /\ Ahead' = {i \in Nat : 1 <= i}
  BY <1>3 DEF ToRead, Ahead
<1>5. ASSUME kind # "gauge", NEW k \in Keys
      PROVE  /\ WorthOf(done, k) <= SumAt(cells, k, ToRead')
             /\ SumAt(cells, k, Ahead') <= applied[k]
  <2>1. \A i \in DOMAIN cells : i \in Nat /\ i \in ToRead' /\ i \in Ahead'
    BY <1>2, <1>4
  <2>2. SumAt(cells, k, ToRead') = SumAt(cells, k, Nat) /\ SumAt(cells, k, Ahead') = SumAt(cells, k, Nat)
    BY <1>2, <2>1, SumAtSame
  <2>3. applied[k] = SumAt(cells, k, Nat)
    BY <1>5 DEF AddUp
  <2>4. WorthOf(done, k) + WorthAll(k) <= applied[k] + OwesAll(k)
    BY <1>5 DEF Accounts
  <2>5. OwesAll(k) \in Nat /\ WorthAll(k) \in Nat /\ OwesAll(k) <= WorthAll(k)
    BY <1>2, <1>5, SumsAreNat
  <2>6. WorthOf(done, k) \in Nat /\ applied[k] \in Nat
    BY <1>2, WorthOfNat
  <2>7. WorthOf(done, k) <= applied[k]
    BY <2>4, <2>5, <2>6
  <2>8. QED
    BY <2>2, <2>3, <2>6, <2>7
<1>6. \A k : WorthOf(scrape.before, k)' = WorthOf(done, k)
  BY <1>1, <1>3, KindKept DEF WorthOf
<1>7. \A k \in Keys : kind # "gauge" =>
        /\ WorthOf(scrape.before, k)' <= scrape'.seen[k] + SumAt(cells', k, ToRead')
        /\ scrape'.seen[k] + SumAt(cells', k, Ahead') <= applied'[k]
  <2> SUFFICES ASSUME NEW k \in Keys, kind # "gauge"
               PROVE /\ WorthOf(scrape.before, k)' <= scrape'.seen[k] + SumAt(cells', k, ToRead')
                     /\ scrape'.seen[k] + SumAt(cells', k, Ahead') <= applied'[k]
    OBVIOUS
  <2>1. scrape'.seen[k] = 0 /\ cells' = cells /\ applied' = applied
    BY <1>1, <1>3
  <2>2. SumAt(cells, k, ToRead') \in Nat /\ SumAt(cells, k, Ahead') \in Nat
    BY <1>2, SumAtSame
  <2>3. QED
    BY <1>5, <1>6, <2>1, <2>2
<1>8. Len(cells) \in Nat /\ [k \in Keys |-> 0] \in [Keys -> Nat]
  BY <1>2
<1>9. scrape' = [under_way |-> TRUE, next |-> scrape'.next, last |-> scrape'.last,
                 before |-> scrape'.before, seen |-> scrape'.seen]
  BY <1>1, <1>3
<1>10. QED
  BY <1>1, <1>2, <1>3, <1>7, <1>8, <1>9 DEF ScrapeOK

\* Reading an entry moves its value from what is still to be read to what was seen.
LEMMA ReadEntryOK ==
  ASSUME TypeInv, ScrapeOK, ReadEntry
  PROVE  ScrapeOK'
<1> DEFINE n == scrape.next
           cell == cells[n]
           x == IF kind = "gauge" THEN cell.value ELSE scrape.seen[cell.key] + cell.value
           seen == [scrape.seen EXCEPT ![cell.key] = x]
<1>1. kind \in Kinds /\ cells \in Seq(CellType) /\ applied \in [Keys -> Nat]
  BY DEF TypeInv, FileOK, CountsOK
<1>2. scrape.under_way /\ scrape.next <= scrape.last /\ UNCHANGED <<kind, cells, applied>>
  BY DEF ReadEntry
<1>3. /\ scrape = [under_way |-> TRUE, next |-> scrape.next, last |-> scrape.last,
                   before |-> scrape.before, seen |-> scrape.seen]
      /\ scrape.next \in Nat \ {0} /\ scrape.last \in 0..Len(cells)
      /\ scrape.before \in [Amounts -> Nat] /\ scrape.seen \in [Keys -> Nat]
      /\ \A k : WorthOf(scrape.before, k) \in Nat
      /\ kind # "gauge" => \A k \in Keys :
           /\ WorthOf(scrape.before, k) <= scrape.seen[k] + SumAt(cells, k, ToRead)
           /\ scrape.seen[k] + SumAt(cells, k, Ahead) <= applied[k]
  BY <1>1, <1>2, ScrapeFacts
<1>4. n \in DOMAIN cells /\ n \in Nat /\ Len(cells) \in Nat
  BY <1>1, <1>2, <1>3
<1>5. cell.key \in Keys /\ cell.value \in Nat
  BY <1>1, <1>4, CellIs
<1>6. scrape' = [under_way |-> TRUE, next |-> n + 1, last |-> scrape.last,
                 before |-> scrape.before, seen |-> seen]
  <2>1. scrape' = [scrape EXCEPT !.next = n + 1, !.seen[cell.key] = x]
    BY DEF ReadEntry
  <2> DEFINE on == scrape.under_way
             old == scrape.next
             last == scrape.last
             before == scrape.before
             had == scrape.seen
             m == n + 1
             s == [scrape EXCEPT !.next = m]
  <2>2. scrape' = [s EXCEPT !.seen[cell.key] = x]
    BY <2>1
  <2>3. s = [under_way |-> on, next |-> m, last |-> last, before |-> before, seen |-> had]
    <3>1. scrape = [under_way |-> on, next |-> old, last |-> last, before |-> before,
                    seen |-> had]
      BY <1>3
    <3> HIDE DEF on, old, last, before, had, n
    <3>2. QED
      BY <3>1
  <2>4. [s EXCEPT !.seen[cell.key] = x] = [s EXCEPT !.seen = seen]
    <3>1. s.seen = had
      <4> HIDE DEF s
      <4>1. QED
        BY <2>3
    <3> HIDE DEF s, cell, x
    <3>2. [s EXCEPT !.seen[cell.key] = x] = [s EXCEPT !.seen = [s.seen EXCEPT ![cell.key] = x]]
      OBVIOUS
    <3>3. QED
      BY <3>1, <3>2
  <2>5. [s EXCEPT !.seen = seen] =
          [under_way |-> on, next |-> m, last |-> last, before |-> before, seen |-> seen]
    <3> HIDE DEF s, seen, on, last, before, had, m
    <3>1. QED
      BY <2>3
  <2>6. on = TRUE
    BY <1>3
  <2> HIDE DEF s, seen, x, cell
  <2>7. QED
    BY <2>2, <2>4, <2>5, <2>6
<1> HIDE DEF seen
<1>7. /\ scrape'.under_way = TRUE /\ scrape'.next = n + 1 /\ scrape'.last = scrape.last
      /\ scrape'.before = scrape.before /\ scrape'.seen = seen
  BY <1>6
<1>8. scrape' = [under_way |-> TRUE, next |-> scrape'.next, last |-> scrape'.last,
                 before |-> scrape'.before, seen |-> scrape'.seen]
  BY <1>6, <1>7
<1>9. seen \in [Keys -> Nat]
  <2>1. scrape.seen[cell.key] \in Nat
    BY <1>3, <1>5
  <2>2. x \in Nat
    BY <1>5, <2>1
  <2> HIDE DEF x, cell
  <2>3. QED
    BY <1>3, <2>2 DEF seen
<1>10. ToRead' = ToRead \ {n} /\ n \in ToRead /\ Ahead' = Ahead \ {n} /\ n \in Ahead
  BY <1>2, <1>3, <1>4, <1>7 DEF ToRead, Ahead
<1>11. ASSUME kind # "gauge", NEW k \in Keys
       PROVE  /\ WorthOf(scrape.before, k) <= seen[k] + SumAt(cells, k, ToRead')
              /\ seen[k] + SumAt(cells, k, Ahead') <= applied[k]
  <2> DEFINE d == IF cell.key = k THEN cell.value ELSE 0
  <2>1. seen[k] = scrape.seen[k] + d /\ scrape.seen[k] \in Nat /\ d \in Nat
    <3>1. scrape.seen[k] \in Nat
      BY <1>3
    <3>2. CASE cell.key = k
      <4>1. seen[k] = scrape.seen[k] + cell.value
        BY <1>3, <1>11, <3>2 DEF seen
      <4>2. QED
        BY <1>5, <3>1, <3>2, <4>1
    <3>3. CASE cell.key # k
      <4>1. seen[k] = scrape.seen[k]
        BY <1>3, <3>3 DEF seen
      <4>2. QED
        BY <3>1, <3>3, <4>1
    <3>4. QED
      BY <3>2, <3>3
  <2>2. ASSUME NEW P, n \in P
        PROVE  SumAt(cells, k, P) = d + SumAt(cells, k, P \ {n}) /\ SumAt(cells, k, P \ {n}) \in Nat
    <3> HIDE DEF n
    <3>1. cells \in Seq(CellType) /\ n \in DOMAIN cells /\ n \in P
      BY <1>1, <1>4, <2>2
    <3>2. /\ SumAt(cells, k, P \ {n}) \in Nat
          /\ cell.key = k => SumAt(cells, k, P) = cell.value + SumAt(cells, k, P \ {n})
          /\ cell.key # k => SumAt(cells, k, P) = SumAt(cells, k, P \ {n})
      BY <3>1, SumAtOut
    <3>3. QED
      BY <3>2
  <2>3. /\ SumAt(cells, k, ToRead) = d + SumAt(cells, k, ToRead')
        /\ SumAt(cells, k, Ahead) = d + SumAt(cells, k, Ahead')
        /\ SumAt(cells, k, ToRead') \in Nat /\ SumAt(cells, k, Ahead') \in Nat
    <3> HIDE DEF d, n
    <3>1. QED
      BY <1>10, <2>2
  <2>4. /\ WorthOf(scrape.before, k) <= scrape.seen[k] + SumAt(cells, k, ToRead)
        /\ scrape.seen[k] + SumAt(cells, k, Ahead) <= applied[k]
        /\ WorthOf(scrape.before, k) \in Nat /\ applied[k] \in Nat
    BY <1>1, <1>3, <1>11
  <2> HIDE DEF d
  <2>5. QED
    BY <2>1, <2>3, <2>4
<1>12. \A k : WorthOf(scrape.before, k)' = WorthOf(scrape.before, k)
  BY <1>2, <1>7, KindKept DEF WorthOf
<1>13. n + 1 \in Nat \ {0}
  BY <1>4
<1>14. QED
  BY <1>2, <1>3, <1>7, <1>8, <1>9, <1>11, <1>12, <1>13 DEF ScrapeOK

\* Every step keeps what a scrape has seen between what was applied when it began and
\* what is applied now.
LEMMA ScrapeStep ==
  TypeInv /\ AddUp /\ Accounts /\ ScrapeOK /\ [ExtNext]_extVars => ScrapeOK'
<1> SUFFICES ASSUME TypeInv, AddUp, Accounts, ScrapeOK, [ExtNext]_extVars PROVE ScrapeOK'
  OBVIOUS
<1>1. UNCHANGED <<kind, cells, applied, scrape>> => ScrapeOK'
  BY KindKept DEF ScrapeOK, WorthOf, Ahead, ToRead
<1>2. ASSUME NEW t \in Threads, CallStep(t), ~Sigbus(t) PROVE ScrapeOK'
  <2>1. CallOK(t) /\ Busy(t)
    BY <1>2, CallStepOK
  <2>2. CASE Effect(t)
    BY <2>1, <2>2, CallKeepsScrape
  <2>3. CASE NoEffect(t)
    BY <1>1, <2>1, <2>3 DEF CallOK, NoEffect
  <2>4. QED
    BY <2>1, <2>2, <2>3 DEF CallOK
<1>3. CASE StartScrape
  BY <1>3, StartScrapeOK
<1>4. CASE ReadEntry
  BY <1>4, ReadEntryOK
<1>5. CASE EndScrape
  BY <1>5 DEF EndScrape, NoScrape, ScrapeOK
<1>6. QED
  BY <1>1, <1>2, <1>3, <1>4, <1>5 DEF ExtNext, Begin, Exit, Sigbus, extVars

\* At first nothing was begun, applied or owed.
LEMMA CountsInit == ExtInit => AddUp /\ Accounts /\ ScrapeOK
<1> SUFFICES ASSUME ExtInit PROVE AddUp /\ Accounts /\ ScrapeOK
  OBVIOUS
<1>1. /\ cells = <<>> /\ applied = [k \in Keys |-> 0] /\ scrape = NoScrape
      /\ begun = [v \in Amounts |-> 0] /\ done = [v \in Amounts |-> 0]
      /\ requests = [t \in Threads |-> NoCalls] /\ kind \in Kinds
  BY DEF ExtInit
<1>2. \A k : SumAt(<<>>, k, Nat) = 0
  <2>1. \A k : {i \in DOMAIN <<>> : <<>>[i].key = k} \cap Nat = {}
    OBVIOUS
  <2>2. QED
    BY <2>1, TotalEmpty DEF SumAt
<1>3. AddUp
  BY <1>1, <1>2 DEF AddUp
<1>4. ASSUME NEW k \in Keys
      PROVE  OwesAll(k) = 0 /\ WorthAll(k) = 0 /\ WorthOf(begun, k) = 0 /\ WorthOf(done, k) = 0
  <2> DEFINE f == [t \in Threads |-> Owes(requests[t], k)]
             g == [t \in Threads |-> Worth(requests[t], k)]
             h == [v \in Amounts |-> begun[v] * PartOf(k, v)]
  <2>1. \A t \in Threads : f[t] = 0 /\ g[t] = 0
    BY <1>1, NoCallsFacts
  <2>2. \A v \in Amounts : h[v] = 0
    <3>1. \A v \in Amounts : PartOf(k, v) \in Nat /\ begun[v] = 0
      BY <1>1, PartOfNat
    <3>2. \A m \in Nat : 0 * m = 0
      OBVIOUS
    <3>3. QED
      BY <3>1, <3>2
  <2>3. /\ OwesAll(k) = Total(f, Threads) /\ WorthAll(k) = Total(g, Threads)
        /\ WorthOf(begun, k) = Total(h, Amounts) /\ WorthOf(done, k) = Total(h, Amounts)
    BY <1>1 DEF OwesAll, WorthAll, WorthOf
  <2>4. IsFiniteSet(Threads) /\ IsFiniteSet(Amounts)
    BY ExtensionAssumption
  <2> HIDE DEF f, g, h
  <2>5. QED
    BY <2>1, <2>2, <2>3, <2>4, TotalZero
<1>5. Accounts
  BY <1>1, <1>4 DEF Accounts
<1>6. ScrapeOK
  BY <1>1 DEF ScrapeOK, NoScrape
<1>7. QED
  BY <1>3, <1>5, <1>6

\* A scrape of a counter or a histogram sees in every series all observations that were
\* done before it began, and none that was not begun at its end: however requests and
\* scrape interleave, and whatever exceptions and deaths cut observations short.
THEOREM ScrapesSeeObservations == ExtSpec => []ObservationsBracketed
<1> DEFINE Inv == TypeInv /\ AddUp /\ Accounts /\ ScrapeOK
<1>1. Inv => ObservationsBracketed
  <2> SUFFICES ASSUME TypeInv, Accounts, ScrapeOK, scrape.under_way,
                      scrape.next > scrape.last, kind # "gauge", NEW k \in Keys
               PROVE  /\ WorthOf(scrape.before, k) <= scrape.seen[k]
                      /\ scrape.seen[k] <= WorthOf(begun, k)
    BY DEF ObservationsBracketed, WorthOf
  <2>1. /\ kind \in Kinds /\ cells \in Seq(CellType) /\ RequestsOK
        /\ begun \in [Amounts -> Nat] /\ applied \in [Keys -> Nat]
    BY DEF TypeInv, FileOK, CountsOK
  <2>2. /\ scrape.next \in Nat /\ scrape.last \in Nat
        /\ WorthOf(scrape.before, k) \in Nat /\ scrape.seen[k] \in Nat
        /\ WorthOf(scrape.before, k) <= scrape.seen[k] + SumAt(cells, k, ToRead)
        /\ scrape.seen[k] + SumAt(cells, k, Ahead) <= applied[k]
    BY <2>1, ScrapeFacts
  <2>3. SumAt(cells, k, ToRead) = 0
    <3>1. ToRead = {}
      BY <2>2 DEF ToRead
    <3>2. {i \in DOMAIN cells : cells[i].key = k} \cap ToRead = {}
      BY <3>1
    <3>3. QED
      BY <3>2, TotalEmpty DEF SumAt
  <2>4. SumAt(cells, k, Ahead) \in Nat
    BY <2>1, SumAtSame
  <2>5. applied[k] + OwesAll(k) <= WorthOf(begun, k)
    BY DEF Accounts
  <2>6. OwesAll(k) \in Nat /\ applied[k] \in Nat /\ WorthOf(begun, k) \in Nat
    BY <2>1, SumsAreNat, WorthOfNat
  <2>7. QED
    BY <2>2, <2>3, <2>4, <2>5, <2>6
<1>2. ExtInit => Inv
  BY TypeInit, CountsInit
<1>3. Inv /\ [ExtNext]_extVars => Inv'
  BY TypeStep, AddUpStep, AccountsStep, ScrapeStep
<1>4. QED
  BY <1>1, <1>2, <1>3, PTL DEF ExtSpec

-----------------------------------------------------------------------------
(* One spelling *)

\* After a call no other request is under way than before, and that with its path.
LEMMA RequestsAfterCall ==
  ASSUME TypeInv, NEW t \in Threads, Busy(t), CallOK(t), NEW u \in Threads, Busy(u)'
  PROVE  /\ Busy(u)
         /\ requests'[u].path = requests[u].path
         /\ u # t => requests'[u] = requests[u]
<1>1. RequestsOK /\ kind \in Kinds
  BY DEF TypeInv, FileOK
<1>2. requests'[u].calls # <<>>
  BY DEF Busy
<1>3. CASE Throws(t)
  <2>1. requests' = [requests EXCEPT ![t] = NoCalls]
    BY <1>3 DEF Throws
  <2>2. u # t /\ requests'[u] = requests[u]
    BY <1>1, <1>2, <2>1 DEF RequestsOK, NoCalls
  <2>3. QED
    BY <1>2, <2>2 DEF Busy
<1>4. ASSUME NEW v \in Nat, Returns(t, v)
      PROVE  /\ Busy(u)
             /\ requests'[u].path = requests[u].path
             /\ u # t => requests'[u] = requests[u]
  <2>1. requests' = [requests EXCEPT ![t] = AfterReturn(t, v)]
    BY <1>1, <1>4, ReturnFacts
  <2>2. u # t => requests'[u] = requests[u]
    BY <1>1, <2>1 DEF RequestsOK
  <2>3. ASSUME u = t PROVE requests'[u].path = requests[u].path
    <3>1. requests'[t] = AfterReturn(t, v)
      BY <1>1, <2>1 DEF RequestsOK
    <3>2. AfterReturn(t, v) # NoCalls
      BY <1>2, <2>3, <3>1 DEF NoCalls
    <3>3. AfterReturn(t, v).path = requests[t].path
      BY <3>2 DEF AfterReturn
    <3>4. QED
      BY <2>3, <3>1, <3>3
  <2>4. QED
    BY <1>2, <2>2, <2>3 DEF Busy
<1>5. QED
  BY <1>3, <1>4 DEF CallOK, Effect, NoEffect

\* The store of a call is up to date if there is no other spelling.
LEMMA CurrentStore ==
  ASSUME TypeInv, PathsOK, OneSpelling, NEW path \in Spellings
  PROVE  /\ Store(path).index = IndexOf(cells)
         /\ Used <= Store(path).mapLen
         /\ Store(path).mapLen <= LenWith(path)
<1>1. FileOK /\ StoresOK
  BY DEF TypeInv
<1>2. CASE stores[path].open
  <2>1. Current(path)
    BY <1>2 DEF PathsOK
  <2>2. Store(path) = stores[path] /\ LenWith(path) = fileLen
    BY <1>2 DEF Store, LenWith
  <2>3. QED
    BY <2>1, <2>2 DEF Current
<1>3. CASE ~stores[path].open
  <2>1. Store(path) = [open |-> TRUE, mapLen |-> LenOpened, index |-> IndexOf(cells)]
        /\ LenWith(path) = LenOpened
    BY <1>3 DEF Store, LenWith
  <2>2. LenOpened \in Nat /\ HEADER_SIZE <= LenOpened /\ fileLen <= LenOpened
    BY <1>1, PageSizeAssumption DEF FileOK, LenOpened, PageAligned, HEADER_SIZE
  <2>3. Used \in Nat /\ fileLen \in Nat /\ (cells # <<>> => Used <= fileLen)
    BY <1>1, UsedFacts DEF FileOK
  <2>4. Used <= LenOpened
    <3>1. CASE cells = <<>>
      BY <2>2, <3>1 DEF Used
    <3>2. CASE cells # <<>>
      BY <2>2, <2>3, <3>2
    <3>3. QED
      BY <3>1, <3>2
  <2>5. QED
    BY <2>1, <2>2, <2>4
<1>4. QED
  BY <1>2, <1>3

\* The new entry is in the index of the store that added it.
LEMMA AddEntryLeaves ==
  ASSUME TypeInv, NEW t \in Threads, Appends(t), NEW store, NEW len \in Nat,
         StoreOK(store, cells), store.index = IndexOf(cells),
         Used <= store.mapLen, Needed(t) <= store.mapLen, store.mapLen <= len,
         store.index = Store(Path(t)).index, AddEntry(t, store, len)
  PROVE  \E new : /\ stores' = [stores EXCEPT ![Path(t)] = new]
                  /\ new.index = IndexOf(cells')
                  /\ Used' <= new.mapLen
                  /\ new.mapLen <= fileLen'
<1> DEFINE k == Call(t).key
           n == Len(cells) + 1
           new == [store EXCEPT !.index = [x \in DOMAIN @ \cup {k} |-> IF x = k THEN n ELSE @[x]]]
<1>1. FileOK /\ RequestsOK /\ Busy(t) /\ cells \in Seq(CellType)
  BY DEF TypeInv, FileOK, Appends, Writes
<1>2. fileLen' = len
  BY DEF AddEntry
<1>3. CASE Needed(t) <= MaxU32
  <2>1. cells' = Append(cells, NewCell(t)) /\ stores' = [stores EXCEPT ![Path(t)] = new]
    BY <1>3 DEF AddEntry, NewCell
  <2>2. Added(t)
    BY <2>1 DEF Added, Appends
  <2>3. Used' = Needed(t)
    BY <1>1, <2>2, AddedFacts
  <2>4. NewCell(t) \in CellType /\ NewCell(t).key = k
    BY <1>1, NewCellType DEF NewCell
  <2>5. IndexOf(cells') = [x \in DOMAIN store.index \cup {k} |-> IF x = k THEN n ELSE store.index[x]]
    <3> DEFINE c == NewCell(t)
               g == IndexOf(cells)
    <3>1. IndexOf(cells') = [x \in DOMAIN g \cup {c.key} |-> IF x = c.key THEN n ELSE g[x]]
      <4> HIDE DEF c
      <4>1. IndexOf(Append(cells, c)) =
              [x \in DOMAIN g \cup {c.key} |-> IF x = c.key THEN n ELSE g[x]]
        BY <1>1, <2>4, IndexOfAppend DEF c
      <4>2. QED
        BY <2>1, <4>1 DEF c
    <3>2. g = store.index /\ c.key = k
      BY <2>4
    <3> HIDE DEF c, g, k, n
    <3>3. QED
      BY <3>1, <3>2
  <2>6. store = [open |-> store.open, mapLen |-> store.mapLen, index |-> store.index]
    BY DEF StoreOK
  <2>7. new = [open |-> store.open, mapLen |-> store.mapLen, index |-> IndexOf(cells')]
    <3> DEFINE is == store.open
               maps == store.mapLen
               was == store.index
               now == [x \in DOMAIN was \cup {k} |-> IF x = k THEN n ELSE was[x]]
    <3>1. new = [store EXCEPT !.index = now]
      OBVIOUS
    <3>2. store = [open |-> is, mapLen |-> maps, index |-> was]
      BY <2>6
    <3> HIDE DEF now, is, maps, was, new
    <3>3. new = [open |-> is, mapLen |-> maps, index |-> now]
      BY <3>1, <3>2
    <3>4. now = IndexOf(cells')
      BY <2>5 DEF now, was
    <3>5. QED
      BY <3>3, <3>4 DEF is, maps
  <2> HIDE DEF new
  <2>8. new.index = IndexOf(cells') /\ new.mapLen = store.mapLen
    BY <2>7
  <2>9. QED
    BY <1>2, <2>1, <2>3, <2>8
<1>4. CASE ~(Needed(t) <= MaxU32)
  <2>1. stores' = [stores EXCEPT ![Path(t)] = store] /\ cells' = cells
    BY <1>4 DEF AddEntry
  <2>2. Used' = Used
    BY <2>1 DEF Used
  <2>3. QED
    BY <1>2, <2>1, <2>2
<1>5. QED
  BY <1>3, <1>4

\* A call changes the store of its path only,
LEMMA CallStores ==
  ASSUME NEW t \in Threads,
         Get(t) \/ Update(t) \/ InvalidUsed(t) \/ HasRoom(t) \/ Grow(t) \/ GrowFails(t)
  PROVE  \E new : stores' = [stores EXCEPT ![Path(t)] = new]
BY DEF Get, Update, InvalidUsed, HasRoom, Grow, GrowFails, AddEntry

\* and leaves it up to date.
LEMMA CallLeavesCurrent ==
  ASSUME TypeInv, PathsOK, OneSpelling, NEW t \in Threads,
         Get(t) \/ Update(t) \/ InvalidUsed(t) \/ HasRoom(t) \/ Grow(t) \/ GrowFails(t)
  PROVE  \E new : /\ stores' = [stores EXCEPT ![Path(t)] = new]
                  /\ new.index = IndexOf(cells')
                  /\ Used' <= new.mapLen
                  /\ new.mapLen <= fileLen'
<1> DEFINE store == Store(Path(t))
           len == LenWith(Path(t))
           Goal == \E new : /\ stores' = [stores EXCEPT ![Path(t)] = new]
                            /\ new.index = IndexOf(cells')
                            /\ Used' <= new.mapLen
                            /\ new.mapLen <= fileLen'
<1>1. FileOK /\ StoresOK /\ RequestsOK /\ Busy(t) /\ cells \in Seq(CellType)
  BY DEF TypeInv, FileOK, Get, Update, InvalidUsed, HasRoom, Grow, GrowFails, Appends, Reads,
         Writes, Grows
<1>2. Path(t) \in Spellings /\ Call(t).key \in Keys
  BY <1>1, BusyFacts
<1>3. StoreOK(store, cells) /\ len \in Nat /\ store.mapLen \in Nat /\ Used \in Nat
  BY <1>1, <1>2, StoreFacts, UsedFacts DEF StoreOK
<1>4. store.index = IndexOf(cells) /\ Used <= store.mapLen /\ store.mapLen <= len
  BY <1>2, CurrentStore
<1>5. Needed(t) \in Nat /\ Used <= Needed(t)
  BY <1>2, <1>3, EntryFacts DEF Needed, VALUE_SIZE
<1>6. ASSUME cells' = cells, stores' = [stores EXCEPT ![Path(t)] = store],
             store.mapLen <= fileLen'
      PROVE  Goal
  <2>1. Used' = Used
    BY <1>6 DEF Used
  <2>2. QED
    BY <1>4, <1>6, <2>1
<1>7. CASE Get(t) \/ InvalidUsed(t)
  BY <1>4, <1>6, <1>7 DEF Get, InvalidUsed
<1>8. CASE Update(t)
  <2>1. /\ stores' = [stores EXCEPT ![Path(t)] = store] /\ fileLen' = len
        /\ Call(t).key \in DOMAIN store.index
    BY <1>8 DEF Update
  <2> DEFINE i == store.index[Call(t).key]
             n == Apply(t, cells[i].value)
  <2>2. i \in DOMAIN cells /\ cells[i].key = Call(t).key
    BY <1>3, <2>1 DEF StoreOK, IndexOK
  <2>3. n \in Nat
    BY <1>1, <2>2, CellIs, BusyFacts
  <2>4. cells' = [cells EXCEPT ![i].value = n]
    BY <1>8 DEF Update
  <2>5. IndexOf(cells') = IndexOf(cells)
    <3> HIDE DEF n, i
    <3>1. QED
      BY <1>1, <2>2, <2>3, <2>4, IndexOfUpdate
  <2>6. Used' = Used
    BY <1>1, <2>1, <2>2, <2>4, UpdatedFacts DEF Updated
  <2>7. QED
    BY <1>4, <2>1, <2>5, <2>6
<1>9. CASE HasRoom(t)
  <2>1. Appends(t) /\ Needed(t) <= store.mapLen /\ AddEntry(t, store, len)
    BY <1>9 DEF HasRoom
  <2> HIDE DEF store, len
  <2>2. QED
    BY <1>3, <1>4, <2>1, AddEntryLeaves DEF store
<1>10. ASSUME Grows(t)
       PROVE  /\ NewLen(store.mapLen, Needed(t)) \in Nat
              /\ Needed(t) <= NewLen(store.mapLen, Needed(t))
              /\ store.mapLen < Needed(t) /\ Appends(t)
  <2>1. store.mapLen \in Nat \ {0} /\ store.mapLen < Needed(t) /\ Appends(t)
    BY <1>3, <1>4, <1>10, UsedFacts, <1>1 DEF Grows, HEADER_SIZE
  <2>2. QED
    BY <1>5, <2>1, NewLenFacts
<1>11. CASE Grow(t)
  <2> DEFINE more == NewLen(store.mapLen, Needed(t))
             grown == [store EXCEPT !.mapLen = more]
  <2>1. Grows(t) /\ AddEntry(t, grown, more)
    BY <1>11 DEF Grow
  <2>2. more \in Nat /\ Needed(t) <= more /\ Appends(t) /\ Used <= more
    BY <1>3, <1>5, <1>10, <2>1
  <2>3. grown = [open |-> store.open, mapLen |-> more, index |-> store.index]
    <3>1. store = [open |-> store.open, mapLen |-> store.mapLen, index |-> store.index]
      BY <1>3 DEF StoreOK
    <3> HIDE DEF store, more
    <3>2. QED
      BY <3>1
  <2>4. HEADER_SIZE <= more
    <3>1. HEADER_SIZE <= Used
      BY <1>1, UsedFacts
    <3>2. QED
      BY <1>3, <2>2, <3>1 DEF HEADER_SIZE
  <2> HIDE DEF more, grown
  <2>5. StoreOK(grown, cells) /\ grown.index = store.index /\ grown.mapLen = more
    BY <1>3, <2>2, <2>3, <2>4 DEF StoreOK
  <2> HIDE DEF store
  <2>6. QED
    BY <1>4, <2>1, <2>2, <2>5, AddEntryLeaves DEF store
<1>12. CASE GrowFails(t)
  <2> DEFINE more == NewLen(store.mapLen, Needed(t))
  <2>1. /\ Grows(t) /\ fileLen' \in {len, more} /\ cells' = cells
        /\ stores' = [stores EXCEPT ![Path(t)] = store]
    BY <1>12 DEF GrowFails
  <2>2. more \in Nat /\ Needed(t) <= more /\ store.mapLen < Needed(t)
    BY <1>10, <2>1
  <2> HIDE DEF more
  <2>3. store.mapLen <= fileLen'
    BY <1>3, <1>4, <1>5, <2>1, <2>2
  <2>4. QED
    BY <1>6, <2>1, <2>3
<1>13. QED
  BY <1>7, <1>8, <1>9, <1>11, <1>12

\* One path at most is one spelling.
LEMMA OneSpellingIs ==
  ASSUME IsFiniteSet(paths), ~(Cardinality(paths) > 1)
  PROVE  OneSpelling
<1>1. SUFFICES ASSUME NEW p \in paths, NEW q \in paths, p # q PROVE FALSE
  BY DEF OneSpelling
<1>2. IsFiniteSet({p}) /\ Cardinality({p}) = 1
  BY FS_Singleton
<1>3. IsFiniteSet({p} \cup {q}) /\ Cardinality({p} \cup {q}) = 2
  <2>1. q \notin {p}
    BY <1>1
  <2>2. IsFiniteSet({p} \cup {q}) /\ Cardinality({p} \cup {q}) = Cardinality({p}) + 1
    <3> DEFINE single == {p}
    <3>1. IsFiniteSet(single) /\ q \notin single
      BY <1>2, <2>1
    <3> HIDE DEF single
    <3>2. IsFiniteSet(single \cup {q}) /\ Cardinality(single \cup {q}) = Cardinality(single) + 1
      BY <3>1, FS_AddElement
    <3>3. QED
      BY <3>2 DEF single
  <2>3. QED
    BY <1>2, <2>2
<1>4. {p} \cup {q} \subseteq paths
  OBVIOUS
<1>5. Cardinality({p} \cup {q}) <= Cardinality(paths) /\ Cardinality(paths) \in Nat
  BY <1>4, FS_Subset, FS_CardinalityType
<1>6. QED
  BY <1>3, <1>5

\* At first no path was used and no store is open.
LEMMA PathsInit == ExtInit => PathsOK
<1>1. ExtInit => \A path \in Spellings : ~stores[path].open
  BY DEF ExtInit, Closed
<1>2. ExtInit => \A t \in Threads : ~Busy(t)
  BY DEF ExtInit, Busy, NoCalls
<1>3. ExtInit => paths = {} /\ IsFiniteSet(paths)
  BY FS_EmptySet DEF ExtInit
<1>4. QED
  BY <1>1, <1>2, <1>3 DEF PathsOK

\* Paths and stores go together, and with one spelling every step leaves its store up to
\* date.
LEMMA PathsStep == TypeInv /\ PathsOK /\ [ExtNext]_extVars => PathsOK'
<1> SUFFICES ASSUME TypeInv, PathsOK, [ExtNext]_extVars PROVE PathsOK'
  OBVIOUS
<1>1. FileOK /\ StoresOK /\ RequestsOK /\ stores = [path \in Spellings |-> stores[path]]
  BY DEF TypeInv, StoresOK
<1>2. ASSUME UNCHANGED <<fileLen, cells, stores, requests, paths>> PROVE PathsOK'
  BY <1>2 DEF PathsOK, OneSpelling, Current, Used, Busy
<1>3. ASSUME NEW t \in Threads, NEW path \in Spellings, NEW v \in Amounts, Begin(t, path, v)
      PROVE  PathsOK'
  <2>1. /\ paths' = paths \cup {path} /\ UNCHANGED <<fileLen, cells, stores>>
        /\ requests' = [requests EXCEPT ![t] =
             [calls |-> CallsOf(v), path |-> path, amount |-> v, got |-> 0]]
    BY <1>3 DEF Begin
  <2>2. paths' \subseteq Spellings /\ IsFiniteSet(paths')
    BY <2>1, FS_AddElement DEF PathsOK
  <2>3. \A u \in Threads : Busy(u)' => requests'[u].path \in paths'
    BY <1>1, <2>1 DEF PathsOK, RequestsOK, Busy
  <2>4. OneSpelling' => OneSpelling
    BY <2>1 DEF OneSpelling
  <2>5. \A p \in Spellings : Current(p)' <=> Current(p)
    BY <2>1 DEF Current, Used
  <2>6. QED
    BY <2>1, <2>2, <2>3, <2>4, <2>5 DEF PathsOK
<1>4. CASE Exit
  <2>1. /\ stores' = [path \in Spellings |-> Closed] /\ paths' = paths
        /\ requests' = [t \in Threads |-> NoCalls]
    BY <1>4 DEF Exit
  <2>2. \A path \in Spellings : stores'[path].open = FALSE
    BY <2>1 DEF Closed
  <2>3. \A t \in Threads : ~Busy(t)'
    BY <2>1 DEF Busy, NoCalls
  <2>4. QED
    BY <2>1, <2>2, <2>3 DEF PathsOK
<1>5. ASSUME NEW t \in Threads, CallStep(t), ~Sigbus(t) PROVE PathsOK'
  <2>1. /\ CallOK(t) /\ Busy(t) /\ paths' = paths
        /\ Get(t) \/ Update(t) \/ InvalidUsed(t) \/ HasRoom(t) \/ Grow(t) \/ GrowFails(t)
    BY <1>5, CallStepOK DEF CallOK, CallStep
  <2> DEFINE path == Path(t)
  <2>2. path \in Spellings /\ path \in paths
    BY <1>1, <2>1, BusyFacts DEF PathsOK, Path
  <2>3. \A u \in Threads : Busy(u)' => requests'[u].path \in paths
    BY <2>1, RequestsAfterCall DEF PathsOK
  <2>4. PICK new : stores' = [stores EXCEPT ![path] = new]
    BY <2>1, CallStores
  <2> HIDE DEF path
  <2>5. /\ stores'[path] = new
        /\ \A p \in Spellings \ {path} : stores'[p] = stores[p]
    BY <1>1, <2>2, <2>4
  <2>6. \A p \in Spellings : stores'[p].open => p \in paths
    BY <2>2, <2>5 DEF PathsOK
  <2>7. ASSUME OneSpelling, NEW p \in Spellings, stores'[p].open
        PROVE  /\ stores'[p].index = IndexOf(cells')
               /\ Used' <= stores'[p].mapLen
               /\ stores'[p].mapLen <= fileLen'
    <3>1. p = path
      BY <2>2, <2>6, <2>7 DEF OneSpelling
    <3>2. PICK cur : /\ stores' = [stores EXCEPT ![path] = cur]
                     /\ cur.index = IndexOf(cells')
                     /\ Used' <= cur.mapLen
                     /\ cur.mapLen <= fileLen'
      BY <2>1, <2>7, CallLeavesCurrent DEF path
    <3>3. stores'[path] = cur
      BY <1>1, <2>2, <3>2
    <3>4. QED
      BY <3>1, <3>2, <3>3
  <2>8. OneSpelling' => \A p \in Spellings : stores'[p].open => Current(p)'
    BY <2>1, <2>7 DEF OneSpelling, Current
  <2>9. QED
    BY <2>1, <2>3, <2>6, <2>8 DEF PathsOK
<1>6. QED
  BY <1>2, <1>3, <1>4, <1>5 DEF ExtNext, Sigbus, StartScrape, ReadEntry, EndScrape, extVars

\* A process that came with one spelling of a file has one store of it, and the map of
\* that is never short of what is published in the file, nor longer than the file:
\* whatever requests threw and whatever growth failed, InvalidUsed and SIGBUS take a
\* second store.
THEOREM LaggingTakesSibling == ExtSpec => []LaggingStoreHasSibling
<1>1. TypeInv /\ PathsOK => LaggingStoreHasSibling
  <2> SUFFICES ASSUME TypeInv, PathsOK, NEW path \in Spellings, stores[path].open,
                      Used > stores[path].mapLen \/ stores[path].mapLen > fileLen,
                      ~(Cardinality(paths) > 1)
               PROVE  FALSE
    BY DEF LaggingStoreHasSibling
  <2>1. Current(path)
    BY OneSpellingIs DEF PathsOK
  <2>2. Used \in Nat /\ stores[path].mapLen \in Nat /\ fileLen \in Nat
    BY UsedFacts DEF TypeInv, FileOK, StoresOK, StoreOK
  <2>3. QED
    BY <2>1, <2>2 DEF Current
<1>2. QED
  BY <1>1, TypeInit, TypeStep, PathsInit, PathsStep, PTL DEF ExtSpec

-----------------------------------------------------------------------------
(* Gauge::inc *)

\* A request of a gauge has its get to make, and then its set, both of its series.
LEMMA GaugeCalls ==
  ASSUME RequestsOK, kind = "gauge", NEW t \in Threads, Busy(t)
  PROVE  /\ Call(t).key = Series(requests[t].amount)
         /\ Call(t).op = "get" \/ Call(t).op = "set"
         /\ Call(t).op = "set" => Len(requests[t].calls) = 1
         /\ Call(t).op = "get" => Len(requests[t].calls) = 2
<1> DEFINE v == requests[t].amount
           c == requests[t].calls
           get == [op |-> "get", key |-> Series(v), by |-> 0]
           set == [op |-> "set", key |-> Series(v), by |-> v]
<1>1. RequestOK(requests[t]) /\ requests[t] # NoCalls
  BY DEF RequestsOK, Busy, NoCalls
<1>2. c \in {CallsOf(v), Tail(CallsOf(v))}
  BY <1>1 DEF RequestOK
<1>3. CallsOf(v) = <<get, set>>
  BY DEF CallsOf
<1>4. Call(t) = c[1]
  BY BusyFacts
<1>5. /\ get.op = "get" /\ get.key = Series(v)
      /\ set.op = "set" /\ set.key = Series(v)
  OBVIOUS
<1> HIDE DEF get, set
<1>6. CASE c = <<get, set>>
  <2>1. c[1] = get /\ Len(c) = 2
    BY <1>6
  <2>2. QED
    BY <1>4, <1>5, <2>1
<1>7. CASE c = <<set>>
  <2>1. c[1] = set /\ Len(c) = 1
    BY <1>7
  <2>2. QED
    BY <1>4, <1>5, <2>1
<1>8. Tail(<<get, set>>) = <<set>>
  OBVIOUS
<1>9. QED
  BY <1>2, <1>3, <1>6, <1>7, <1>8

\* A call that takes effect applies its closure to the value of its key, if its store is
\* up to date, and leaves the values of the other keys.
LEMMA EffectSetsValue ==
  ASSUME TypeInv, NEW t \in Threads, Busy(t), Updated(t) \/ Added(t),
         Store(Path(t)).index = IndexOf(cells), NEW k \in Keys
  PROVE  ValueOf(k)' = IF k = Call(t).key THEN Apply(t, ValueOf(k)) ELSE ValueOf(k)
<1> DEFINE key == Call(t).key
           g == IndexOf(cells)
           h == IndexOf(cells')
<1>1. FileOK /\ RequestsOK /\ cells \in Seq(CellType)
  BY DEF TypeInv, FileOK
<1>2. /\ DOMAIN g = {cells[i].key : i \in DOMAIN cells}
      /\ \A x \in DOMAIN g : g[x] \in DOMAIN cells /\ cells[g[x]].key = x
  BY <1>1, IndexOfFacts
<1>3. /\ ValueOf(k) = IF k \in DOMAIN g THEN cells[g[k]].value ELSE 0
      /\ ValueOf(k)' = IF k \in DOMAIN h THEN cells'[h[k]].value ELSE 0
  BY DEF ValueOf
<1>4. CASE Updated(t)
  <2>1. PICK i \in DOMAIN cells : /\ key \in DOMAIN g /\ i = g[key]
                                  /\ cells' = [cells EXCEPT ![i].value = Apply(t, cells[i].value)]
    BY <1>4 DEF Updated
  <2> DEFINE n == Apply(t, cells[i].value)
  <2>2. n \in Nat
    BY <1>1, CellIs, BusyFacts
  <2>3. cells' = [cells EXCEPT ![i].value = n]
    BY <2>1
  <2>4. h = g
    <3> HIDE DEF n
    <3>1. QED
      BY <1>1, <2>2, <2>3, IndexOfUpdate
  <2>5. cells[i] = [key |-> cells[i].key, at |-> cells[i].at, value |-> cells[i].value]
    BY <1>1, CellIs
  <2> HIDE DEF n
  <2>6. \A j \in DOMAIN cells : cells'[j] = IF j = i THEN [cells[i] EXCEPT !.value = n] ELSE cells[j]
    BY <1>1, <2>3
  <2>7. \A j \in DOMAIN cells : cells'[j].value = IF j = i THEN n ELSE cells[j].value
    BY <2>5, <2>6
  <2> HIDE DEF g, h, key
  <2>8. CASE k = key
    <3>1. ValueOf(k) = cells[i].value
      BY <1>3, <2>1, <2>8
    <3>2. ValueOf(k)' = n
      BY <1>3, <2>1, <2>4, <2>7, <2>8
    <3>3. QED
      BY <2>8, <3>1, <3>2 DEF n, key
  <2>9. CASE k # key
    <3>1. k \in DOMAIN g => g[k] \in DOMAIN cells /\ g[k] # i
      BY <1>2, <2>1, <2>9
    <3>2. ValueOf(k)' = ValueOf(k)
      BY <1>3, <2>4, <2>7, <3>1
    <3>3. QED
      BY <2>9, <3>2 DEF key
  <2>10. QED
    BY <2>8, <2>9
<1>5. CASE Added(t)
  <2> DEFINE c == NewCell(t)
             n == Len(cells) + 1
  <2>1. key \notin DOMAIN g /\ cells' = Append(cells, c)
    BY <1>5 DEF Added
  <2>2. /\ c \in CellType /\ cells'[n] = c /\ \A i \in DOMAIN cells : cells'[i] = cells[i]
    BY <1>1, <1>5, NewCellType, AddedFacts
  <2>3. c.key = key /\ c.value = Apply(t, 0)
    BY DEF NewCell
  <2>4. h = [x \in DOMAIN g \cup {key} |-> IF x = key THEN n ELSE g[x]]
    <3> HIDE DEF c
    <3>1. IndexOf(Append(cells, c)) =
            [x \in DOMAIN g \cup {c.key} |-> IF x = c.key THEN n ELSE g[x]]
      BY <1>1, <2>2, IndexOfAppend
    <3>2. QED
      BY <2>1, <2>3, <3>1
  <2> HIDE DEF g, h, key, n, c
  <2>5. CASE k = key
    <3>1. ValueOf(k) = 0
      BY <1>3, <2>1, <2>5
    <3>2. ValueOf(k)' = Apply(t, 0)
      BY <1>3, <2>2, <2>3, <2>4, <2>5
    <3>3. QED
      BY <2>5, <3>1, <3>2 DEF key
  <2>6. CASE k # key
    <3>1. ValueOf(k)' = ValueOf(k)
      BY <1>2, <1>3, <2>2, <2>4, <2>6
    <3>2. QED
      BY <2>6, <3>1 DEF key
  <2>7. QED
    BY <2>5, <2>6
<1>6. QED
  BY <1>4, <1>5

\* Every step keeps what was applied to a gauge equal to its value, and what the get of a
\* request returned what its set will find.
LEMMA GaugeStep == TypeInv /\ PathsOK /\ GaugeOK /\ [ExtNext]_extVars => GaugeOK'
<1> SUFFICES ASSUME TypeInv, PathsOK, GaugeOK, [ExtNext]_extVars PROVE GaugeOK'
  OBVIOUS
<1>1. FileOK /\ StoresOK /\ RequestsOK /\ CountsOK /\ applied \in [Keys -> Nat]
  BY DEF TypeInv, CountsOK
<1>2. ASSUME UNCHANGED <<kind, cells, applied>> PROVE \A k : ValueOf(k)' = ValueOf(k)
  BY <1>2 DEF ValueOf
<1>3. ASSUME UNCHANGED <<kind, cells, requests, applied, paths, overlap>> PROVE GaugeOK'
  BY <1>2, <1>3 DEF GaugeOK, Busy, OneSpelling
<1>4. ASSUME NEW t \in Threads, NEW path \in Spellings, NEW v \in Amounts, Begin(t, path, v)
      PROVE  GaugeOK'
  <2> DEFINE r == [calls |-> CallsOf(v), path |-> path, amount |-> v, got |-> 0]
  <2>1. /\ requests' = [requests EXCEPT ![t] = r] /\ paths' = paths \cup {path}
        /\ overlap' = (overlap \/ \E u \in Threads : Busy(u))
        /\ UNCHANGED <<kind, cells, applied>>
    BY <1>4 DEF Begin
  <2>2. requests'[t] = r /\ \A u \in Threads \ {t} : requests'[u] = requests[u]
    BY <1>1, <2>1 DEF RequestsOK
  <2>3. overlap' \in BOOLEAN
    BY <2>1
  <2>4. ~overlap' => ~overlap /\ \A u \in Threads : Busy(u)' => u = t
    BY <2>1, <2>2 DEF Busy, GaugeOK
  <2>5. OneSpelling' => OneSpelling
    BY <2>1 DEF OneSpelling
  <2>6. kind = "gauge" => Len(requests'[t].calls) # 1
    BY <2>2 DEF CallsOf
  <2>7. kind = "gauge" /\ ~overlap' /\ OneSpelling' =>
          \A k \in Keys : applied'[k] = ValueOf(k)'
    BY <1>2, <2>1, <2>4, <2>5 DEF GaugeOK
  <2>8. QED
    BY <2>1, <2>3, <2>4, <2>6, <2>7 DEF GaugeOK
<1>5. CASE Exit
  <2>1. /\ requests' = [t \in Threads |-> NoCalls]
        /\ UNCHANGED <<kind, cells, applied, paths, overlap>>
    BY <1>5 DEF Exit
  <2>2. \A t \in Threads : ~Busy(t)'
    BY <2>1 DEF Busy, NoCalls
  <2>3. QED
    BY <1>2, <2>1, <2>2 DEF GaugeOK, OneSpelling
<1>6. ASSUME NEW t \in Threads, CallStep(t), ~Sigbus(t) PROVE GaugeOK'
  <2>1. /\ CallOK(t) /\ Busy(t) /\ UNCHANGED <<kind, paths, overlap>>
        /\ Get(t) \/ Update(t) \/ InvalidUsed(t) \/ HasRoom(t) \/ Grow(t) \/ GrowFails(t)
    BY <1>6, CallStepOK DEF CallOK, CallStep
  <2>2. overlap' \in BOOLEAN /\ (~overlap' => \A u, w \in Threads : Busy(u)' /\ Busy(w)' => u = w)
    BY <2>1, RequestsAfterCall DEF GaugeOK
  <2>3. OneSpelling' => OneSpelling
    BY <2>1 DEF OneSpelling
  <2>4. ASSUME kind = "gauge", ~overlap, OneSpelling
        PROVE  /\ \A k \in Keys : applied'[k] = ValueOf(k)'
               /\ \A u \in Threads :
                    Busy(u)' /\ Len(requests'[u].calls) = 1 =>
                      requests'[u].got = ValueOf(Series(requests[u].amount))'
    <3> DEFINE amount == requests[t].amount
               key == Call(t).key
    <3>1. /\ \A k \in Keys : applied[k] = ValueOf(k)
          /\ Len(requests[t].calls) = 1 => requests[t].got = ValueOf(Series(amount))
      BY <2>1, <2>4 DEF GaugeOK
    <3>2. /\ key = Series(amount) /\ (Call(t).op = "get" \/ Call(t).op = "set")
          /\ Call(t).op = "set" => Len(requests[t].calls) = 1
          /\ Call(t).op = "get" => Len(requests[t].calls) = 2
      BY <1>1, <2>1, <2>4, GaugeCalls
    <3>3. \A u \in Threads : Busy(u)' => u = t
      BY <2>1, <2>4, RequestsAfterCall DEF GaugeOK
    <3>4. key \in Keys /\ Path(t) \in Spellings /\ Call(t).by \in Nat
      BY <1>1, <2>1, BusyFacts
    <3>5. Store(Path(t)).index = IndexOf(cells)
      BY <2>4, <3>4, CurrentStore
    <3>6. CASE Effect(t)
      <4>1. Call(t).op = "set" /\ Len(requests[t].calls) = 1
        BY <3>2, <3>6 DEF Effect, Writes
      <4>2. \A x : Apply(t, x) = ValueOf(key) + Call(t).by
        BY <3>1, <3>2, <4>1 DEF Apply
      <4>3. applied' = [applied EXCEPT ![key] = @ + Call(t).by]
        BY <3>6 DEF Effect, Counted
      <4>4. \A k \in Keys : ValueOf(k)' = IF k = key THEN Apply(t, ValueOf(k)) ELSE ValueOf(k)
        BY <2>1, <3>5, <3>6, EffectSetsValue DEF Effect
      <4>5. \A k \in Keys : applied'[k] = ValueOf(k)'
        <5> HIDE DEF key
        <5>1. QED
          BY <1>1, <3>1, <3>4, <4>2, <4>3, <4>4
      <4>6. ~Busy(t)'
        <5>1. requests' = [requests EXCEPT ![t] = NoCalls]
          BY <3>6, <4>1 DEF Effect, Returns
        <5>2. requests'[t] = NoCalls
          BY <1>1, <5>1 DEF RequestsOK
        <5>3. QED
          BY <5>2 DEF Busy, NoCalls
      <4>7. QED
        BY <3>3, <4>5, <4>6
    <3>7. CASE NoEffect(t)
      <4>1. UNCHANGED <<kind, cells, applied>>
        BY <2>1, <3>7 DEF NoEffect
      <4>2. \A k : ValueOf(k)' = ValueOf(k)
        BY <1>2, <4>1
      <4>3. CASE Throws(t)
        <5>1. requests' = [requests EXCEPT ![t] = NoCalls]
          BY <4>3 DEF Throws
        <5>2. requests'[t] = NoCalls
          BY <1>1, <5>1 DEF RequestsOK
        <5>3. ~Busy(t)'
          BY <5>2 DEF Busy, NoCalls
        <5>4. QED
          BY <3>1, <3>3, <4>1, <4>2, <5>3
      <4>4. CASE ~Throws(t)
        <5>1. Reads(t)
          BY <3>7, <4>4 DEF NoEffect
        <5>2. Get(t)
          BY <2>1, <5>1 DEF Reads, Update, InvalidUsed, HasRoom, Grow, GrowFails, Grows,
             Appends, Writes
        <5>3. Returns(t, ValueOf(key))
          BY <3>5, <4>4, <5>2 DEF Get, ValueOf
        <5>4. ValueOf(key) \in Nat
          BY <1>1, <3>1, <3>4
        <5>5. requests' = [requests EXCEPT ![t] = AfterReturn(t, ValueOf(key))]
          BY <1>1, <2>1, <5>3, <5>4, ReturnFacts DEF FileOK
        <5>6. requests'[t] = AfterReturn(t, ValueOf(key))
          BY <1>1, <5>5 DEF RequestsOK
        <5>7. Len(requests[t].calls) = 2
          BY <3>2, <5>1 DEF Reads
        <5>8. requests'[t].got = ValueOf(key) /\ requests'[t].amount = amount
          BY <5>6, <5>7 DEF AfterReturn
        <5>9. \A k \in Keys : applied'[k] = ValueOf(k)'
          BY <3>1, <4>1, <4>2
        <5>10. requests'[t].got = ValueOf(Series(requests[t].amount))'
          <6>1. ValueOf(Series(requests[t].amount))' = ValueOf(Series(requests'[t].amount))
            BY <4>1 DEF ValueOf
          <6>2. QED
            BY <3>2, <5>8, <6>1
        <5>11. QED
          BY <3>3, <5>9, <5>10
      <4>5. QED
        BY <4>3, <4>4
    <3>8. QED
      BY <2>1, <3>6, <3>7 DEF CallOK
  <2>5. QED
    BY <2>1, <2>2, <2>3, <2>4 DEF GaugeOK
<1>7. QED
  BY <1>3, <1>4, <1>5, <1>6 DEF ExtNext, Sigbus, StartScrape, ReadEntry, EndScrape, extVars

\* Gauge::inc is a get and then a set, and nothing holds the two together: but so long as
\* requests come one after the other and with one spelling, the gauge is the sum of the
\* increments that returned, whatever exceptions and deaths there were between.
THEOREM GaugeIncIsKept == ExtSpec => []GaugeIncIsIncrement
<1>1. ExtInit => GaugeOK
  <2>1. ExtInit => overlap = FALSE /\ \A t \in Threads : ~Busy(t)
    BY DEF ExtInit, Busy, NoCalls
  <2>2. ExtInit => \A k \in Keys : applied[k] = ValueOf(k)
    <3> SUFFICES ASSUME ExtInit, NEW k \in Keys PROVE applied[k] = ValueOf(k)
      OBVIOUS
    <3>1. cells = <<>> /\ applied[k] = 0
      BY DEF ExtInit
    <3>2. cells \in Seq(CellType)
      BY <3>1
    <3>3. DOMAIN cells = {}
      BY <3>1
    <3>4. DOMAIN IndexOf(cells) = {cells[i].key : i \in DOMAIN cells}
      BY <3>2, IndexOfFacts
    <3>5. k \notin DOMAIN IndexOf(cells)
      BY <3>3, <3>4
    <3>6. QED
      BY <3>1, <3>5 DEF ValueOf
  <2>3. QED
    BY <2>1, <2>2 DEF GaugeOK
<1>2. PathsOK /\ GaugeOK => GaugeIncIsIncrement
  <2> SUFFICES ASSUME PathsOK, GaugeOK, kind = "gauge", ~overlap, Cardinality(paths) <= 1
               PROVE  \A k \in Keys : applied[k] = ValueOf(k)
    BY DEF GaugeIncIsIncrement, ValueOf
  <2>1. IsFiniteSet(paths) /\ ~(Cardinality(paths) > 1)
    BY FS_CardinalityType DEF PathsOK
  <2>2. OneSpelling
    BY <2>1, OneSpellingIs
  <2>3. QED
    BY <2>2 DEF GaugeOK
<1>3. QED
  BY <1>1, <1>2, TypeInit, TypeStep, PathsInit, PathsStep, GaugeStep, PTL DEF ExtSpec

=============================================================================
