------------------------------ MODULE SumsProofs ------------------------------
(***************************************************************************)
(* Facts about sums over finite sets, and the induction that proofs about  *)
(* data need.  The theorems of induction take an operator, which no prover *)
(* here can be given; a smallest counterexample is a set and serves as     *)
(* well.                                                                   *)
(***************************************************************************)
EXTENDS Sums, FiniteSetTheorems, TLAPS

-----------------------------------------------------------------------------
(* Smallest counterexamples *)

\* Induction over finite sets, as a smallest counterexample: among the subsets of a
\* finite set, some one in a collection has none of the others within it.
LEMMA SmallestSet ==
  ASSUME NEW S, IsFiniteSet(S), NEW B \in SUBSET SUBSET S, B # {}
  PROVE  \E s \in B : \A r \in B : r \subseteq s => r = s
<1>1. IsWellFoundedOn(StrictSubsetOrdering(S), SUBSET S)
  BY FS_StrictSubsetOrderingWellFounded, FS_FiniteSubsetsOfFinite
<1>2. PICK s \in B : \A r \in B : <<r, s>> \notin StrictSubsetOrdering(S)
  BY <1>1, WFMin
<1>3. \A r \in B : r \subseteq s => r = s
  BY <1>2 DEF StrictSubsetOrdering
<1>4. QED
  BY <1>3

\* Of a set of natural numbers one is the smallest.
LEMMA SmallestNumber ==
  ASSUME NEW B, B \subseteq Nat, B # {}
  PROVE  \E n \in B : \A m \in B : n <= m
<1>1. PICK n \in B : \A m \in B : <<m, n>> \notin OpToRel(<, Nat)
  BY NatLessThanWellFounded, WFMin
<1>2. \A m \in B : ~(m < n)
  BY <1>1 DEF OpToRel
<1>3. QED
  BY <1>2

\* Of a finite set of numbers one is the greatest.
LEMMA GreatestNumber ==
  ASSUME NEW S, IsFiniteSet(S), S # {}
  PROVE  S \subseteq Int => \E m \in S : \A n \in S : n <= m
<1> DEFINE HasGreatest(T) == \E m \in T : \A n \in T : n <= m
           B == {T \in SUBSET S : T # {} /\ ~HasGreatest(T)}
<1>1. SUFFICES ASSUME S \subseteq Int PROVE HasGreatest(S)
  OBVIOUS
<1>2. ASSUME B # {} PROVE FALSE
  <2>1. PICK T \in B : \A R \in B : R \subseteq T => R = T
    <3>1. B \in SUBSET SUBSET S
      OBVIOUS
    <3> HIDE DEF B
    <3>2. QED
      BY <1>2, <3>1, SmallestSet
  <2>2. PICK x \in T : TRUE
    OBVIOUS
  <2>3. CASE T \ {x} = {}
    <3>1. \A n \in T : n <= x
      BY <1>1, <2>3
    <3>2. QED
      BY <3>1
  <2>4. CASE T \ {x} # {}
    <3>1. PICK m \in T \ {x} : \A n \in T \ {x} : n <= m
      <4>1. T \ {x} \notin B
        BY <2>1, <2>2
      <4>2. QED
        BY <2>4, <4>1
    <3>2. m \in Int /\ x \in Int /\ \A n \in T : n \in Int
      BY <1>1
    <3>3. CASE m <= x
      <4>1. \A n \in T : n <= x
        BY <3>1, <3>2, <3>3
      <4>2. QED
        BY <4>1
    <3>4. CASE ~(m <= x)
      <4>1. \A n \in T : n <= m
        BY <3>1, <3>2, <3>4
      <4>2. QED
        BY <3>1, <4>1
    <3>5. QED
      BY <3>3, <3>4
  <2>5. QED
    BY <2>3, <2>4
<1>3. HasGreatest(S) \/ S \in B
  OBVIOUS
<1>4. QED
  BY <1>1, <1>2, <1>3

\* A finite set of numbers has an i-th smallest element.
LEMMA NthSmallest ==
  ASSUME NEW S, IsFiniteSet(S)
  PROVE  S \subseteq Nat =>
           \A i \in 1..Cardinality(S) : \E b \in S : Cardinality({x \in S : x <= b}) = i
<1> DEFINE Nth(T, i) == \E b \in T : Cardinality({x \in T : x <= b}) = i
           B == {T \in SUBSET S : \E i \in 1..Cardinality(T) : ~Nth(T, i)}
<1>1. SUFFICES ASSUME S \subseteq Nat PROVE \A i \in 1..Cardinality(S) : Nth(S, i)
  OBVIOUS
<1>2. ASSUME B # {} PROVE FALSE
  <2>1. PICK T \in B : \A R \in B : R \subseteq T => R = T
    <3>1. B \in SUBSET SUBSET S
      OBVIOUS
    <3> HIDE DEF B
    <3>2. QED
      BY <1>2, <3>1, SmallestSet
  <2>2. PICK i \in 1..Cardinality(T) : ~Nth(T, i)
    OBVIOUS
  <2>3. IsFiniteSet(T) /\ Cardinality(T) \in Nat
    BY FS_Subset, FS_CardinalityType
  <2>4. T # {}
    BY <2>2, <2>3, FS_EmptySet
  <2>5. PICK m \in T : \A n \in T : n <= m
    <3>1. T \subseteq Int
      BY <1>1
    <3>2. QED
      BY <2>3, <2>4, <3>1, GreatestNumber
  <2> DEFINE R == T \ {m}
  <2>6. {x \in T : x <= m} = T
    BY <2>5
  <2>7. i # Cardinality(T)
    BY <2>2, <2>6
  <2>8. Cardinality(R) = Cardinality(T) - 1
    BY <2>3, FS_RemoveElement
  <2>9. i \in 1..Cardinality(R)
    BY <2>2, <2>3, <2>7, <2>8
  <2>10. PICK b \in R : Cardinality({x \in R : x <= b}) = i
    BY <2>1, <2>9
  <2>11. {x \in R : x <= b} = {x \in T : x <= b}
    <3>1. ~(m <= b)
      BY <1>1, <2>5
    <3>2. QED
      BY <3>1
  <2>12. QED
    BY <2>2, <2>10, <2>11
<1>3. S \in B \/ \A i \in 1..Cardinality(S) : Nth(S, i)
  OBVIOUS
<1>4. QED
  BY <1>1, <1>2, <1>3

-----------------------------------------------------------------------------
(* Sums *)

\* The element a sum begins with.
Some(S) == CHOOSE x \in S : TRUE

\* g gives the sum of f over every subset of S, as the recursion of the fold defines it.
IsSum(g, f, S) ==
  g = [s \in SUBSET S |-> IF s = {} THEN 0 ELSE f[Some(s)] + g[s \ {Some(s)}]]

\* A sum begins with an element of the set.
LEMMA SomeIn == \A S : S # {} => Some(S) \in S
BY DEF Some

\* g is a function on the subsets.
LEMMA SumForm ==
  ASSUME NEW f, NEW S, NEW g, IsSum(g, f, S)
  PROVE  g = [s \in SUBSET S |-> g[s]]
BY DEF IsSum

\* The recursion, read off the function.
LEMMA SumValues ==
  ASSUME NEW f, NEW S, NEW g, IsSum(g, f, S)
  PROVE  /\ g[{}] = 0
         /\ \A s \in SUBSET S : s # {} => g[s] = f[Some(s)] + g[s \ {Some(s)}]
<1> DEFINE v(s) == IF s = {} THEN 0 ELSE f[Some(s)] + g[s \ {Some(s)}]
<1>1. g = [s \in SUBSET S |-> v(s)]
  BY DEF IsSum
<1>2. \A s \in SUBSET S : g[s] = v(s)
  <2> HIDE DEF v
  <2>1. QED
    BY <1>1
<1>3. QED
  BY <1>2

\* There is one such function at most.
LEMMA SumUnique ==
  ASSUME NEW f, NEW S, IsFiniteSet(S), NEW g, NEW h, IsSum(g, f, S), IsSum(h, f, S)
  PROVE  g = h
<1> DEFINE B == {s \in SUBSET S : g[s] # h[s]}
<1>1. ASSUME B # {} PROVE FALSE
  <2>1. PICK s \in B : \A r \in B : r \subseteq s => r = s
    <3>1. B \in SUBSET SUBSET S
      OBVIOUS
    <3> HIDE DEF B
    <3>2. QED
      BY <1>1, <3>1, SmallestSet
  <2>2. s # {}
    BY SumValues
  <2>3. Some(s) \in s
    BY <2>2, SomeIn
  <2>4. s \ {Some(s)} \notin B
    BY <2>1, <2>3
  <2>5. g[s \ {Some(s)}] = h[s \ {Some(s)}]
    BY <2>4
  <2>6. g[s] = f[Some(s)] + g[s \ {Some(s)}]
    BY <2>2, SumValues
  <2>7. h[s] = f[Some(s)] + h[s \ {Some(s)}]
    BY <2>2, SumValues
  <2>8. QED
    BY <2>5, <2>6, <2>7
<1>2. \A s \in SUBSET S : g[s] = h[s]
  BY <1>1
<1>3. [s \in SUBSET S |-> g[s]] = [s \in SUBSET S |-> h[s]]
  BY <1>2
<1>4. g = [s \in SUBSET S |-> g[s]] /\ h = [s \in SUBSET S |-> h[s]]
  BY SumForm
<1>5. QED
  BY <1>3, <1>4, Zenon

\* Whatever obeys the recursion is it.
LEMMA RestrictionIsSum ==
  ASSUME NEW f, NEW S, NEW v,
         v[{}] = 0,
         \A s \in SUBSET S : s # {} => v[s] = f[Some(s)] + v[s \ {Some(s)}]
  PROVE  IsSum([s \in SUBSET S |-> v[s]], f, S)
<1> DEFINE g == [s \in SUBSET S |-> v[s]]
<1>1. \A s \in SUBSET S : v[s] = IF s = {} THEN 0 ELSE f[Some(s)] + g[s \ {Some(s)}]
  OBVIOUS
<1>2. g = [s \in SUBSET S |-> IF s = {} THEN 0 ELSE f[Some(s)] + g[s \ {Some(s)}]]
  BY <1>1
<1>3. QED
  BY <1>2 DEF IsSum

\* The function for a set holds those for its subsets.
LEMMA SumRestricts ==
  ASSUME NEW f, NEW S, NEW T, T \subseteq S, NEW g, IsSum(g, f, S)
  PROVE  IsSum([s \in SUBSET T |-> g[s]], f, T)
<1>1. g[{}] = 0
  BY SumValues
<1>2. \A s \in SUBSET T : s # {} => g[s] = f[Some(s)] + g[s \ {Some(s)}]
  BY SumValues
<1>3. QED
  BY <1>1, <1>2, RestrictionIsSum

\* There is such a function for every finite set.
LEMMA SumExists ==
  ASSUME NEW f, NEW S, IsFiniteSet(S)
  PROVE  \E g : IsSum(g, f, S)
<1> DEFINE B == {T \in SUBSET S : ~ \E g : IsSum(g, f, T)}
           G(T) == CHOOSE g : IsSum(g, f, T)
<1>1. ASSUME B # {} PROVE FALSE
  <2>1. PICK T \in B : \A R \in B : R \subseteq T => R = T
    <3>1. B \in SUBSET SUBSET S
      OBVIOUS
    <3> HIDE DEF B
    <3>2. QED
      BY <1>1, <3>1, SmallestSet
  <2> DEFINE g == [s \in SUBSET T |-> IF s = {} THEN 0
                     ELSE f[Some(s)] + G(s \ {Some(s)})[s \ {Some(s)}]]
  <2>2. \A R \in SUBSET T : R # T => IsSum(G(R), f, R)
    BY <2>1
  <2>3. \A R \in SUBSET T : IsFiniteSet(R)
    BY FS_Subset
  <2>4. ASSUME NEW s \in SUBSET T, s # T PROVE g[s] = G(s)[s]
    <3>1. CASE s = {}
      BY <3>1, <2>2, <2>4, SumValues
    <3>2. CASE s # {}
      <4> DEFINE r == s \ {Some(s)}
      <4>1. Some(s) \in s
        BY <3>2, SomeIn
      <4>2. IsSum(G(s), f, s) /\ IsSum(G(r), f, r)
        BY <2>2, <2>4, <4>1
      <4>3. IsSum([q \in SUBSET r |-> G(s)[q]], f, r)
        BY <4>2, SumRestricts, Zenon
      <4>4. G(r) = [q \in SUBSET r |-> G(s)[q]]
        BY <4>2, <4>3, <2>3, SumUnique
      <4>5. G(r)[r] = G(s)[r]
        BY <4>4
      <4>6. G(s)[s] = f[Some(s)] + G(s)[r]
        BY <4>2, <3>2, SumValues
      <4>7. QED
        BY <4>5, <4>6, <3>2
    <3>3. QED
      BY <3>1, <3>2
  <2>5. ASSUME NEW s \in SUBSET T, s # {}
        PROVE g[s] = f[Some(s)] + g[s \ {Some(s)}]
    <3>1. Some(s) \in s
      BY <2>5, SomeIn
    <3>2. g[s \ {Some(s)}] = G(s \ {Some(s)})[s \ {Some(s)}]
      BY <3>1, <2>4
    <3>3. QED
      BY <3>2, <2>5
  <2>6. IsSum(g, f, T)
    <3>1. g[{}] = 0
      OBVIOUS
    <3>2. g = [s \in SUBSET T |-> g[s]]
      OBVIOUS
    <3> HIDE DEF g
    <3>3. IsSum([s \in SUBSET T |-> g[s]], f, T)
      BY <3>1, <2>5, RestrictionIsSum
    <3>4. QED
      BY <3>2, <3>3, Zenon
  <2>7. QED
    BY <2>6
<1>2. QED
  BY <1>1

\* The fold chooses such a function.
LEMMA TotalIs ==
  ASSUME NEW f, NEW S, \E g : IsSum(g, f, S)
  PROVE  \E g : IsSum(g, f, S) /\ Total(f, S) = g[S]
<1> DEFINE h == CHOOSE g : IsSum(g, f, S)
<1>1. IsSum(h, f, S) OBVIOUS
<1>2. Total(f, S) = h[S]
  BY DEF Total, MapThenFoldSet, IsSum, Some
<1>3. QED
  BY <1>1, <1>2

\* Nothing adds up to nothing.
LEMMA TotalEmpty == \A f : Total(f, {}) = 0
<1>1. TAKE f
<1>2. PICK g : IsSum(g, f, {}) /\ Total(f, {}) = g[{}]
  BY TotalIs, SumExists, FS_EmptySet
<1>3. QED
  BY <1>2, SumValues

\* The element the sum begins with, taken out.
LEMMA TotalSome ==
  ASSUME NEW f, NEW S, IsFiniteSet(S), S # {}
  PROVE  Total(f, S) = f[Some(S)] + Total(f, S \ {Some(S)})
<1> DEFINE R == S \ {Some(S)}
<1>1. IsFiniteSet(R)
  BY FS_Subset
<1>2. PICK g : IsSum(g, f, S) /\ Total(f, S) = g[S]
  BY TotalIs, SumExists
<1>3. PICK h : IsSum(h, f, R) /\ Total(f, R) = h[R]
  BY TotalIs, SumExists, <1>1
<1>4. IsSum([q \in SUBSET R |-> g[q]], f, R)
  BY <1>2, SumRestricts, Zenon
<1>5. h = [q \in SUBSET R |-> g[q]]
  BY <1>1, <1>3, <1>4, SumUnique
<1>6. g[S] = f[Some(S)] + g[R]
  BY <1>2, SumValues
<1>7. QED
  BY <1>2, <1>3, <1>5, <1>6

\* A sum of integers is one.
LEMMA TotalInt ==
  ASSUME NEW S, IsFiniteSet(S), NEW f, \A x \in S : f[x] \in Int
  PROVE  Total(f, S) \in Int
<1> DEFINE B == {T \in SUBSET S : Total(f, T) \notin Int}
<1>1. ASSUME B # {} PROVE FALSE
  <2>1. PICK T \in B : \A R \in B : R \subseteq T => R = T
    <3>1. B \in SUBSET SUBSET S
      OBVIOUS
    <3> HIDE DEF B
    <3>2. QED
      BY <1>1, <3>1, SmallestSet
  <2>2. T # {}
    BY TotalEmpty
  <2>3. Some(T) \in T
    BY <2>2, SomeIn
  <2>4. Total(f, T \ {Some(T)}) \in Int
    BY <2>1, <2>3
  <2>5. IsFiniteSet(T)
    BY FS_Subset
  <2>6. Total(f, T) = f[Some(T)] + Total(f, T \ {Some(T)})
    BY <2>2, <2>5, TotalSome
  <2>7. QED
    BY <2>3, <2>4, <2>6
<1>2. QED
  BY <1>1

\* A sum of natural numbers is one.
LEMMA TotalNat ==
  ASSUME NEW S, IsFiniteSet(S), NEW f, \A x \in S : f[x] \in Nat
  PROVE  Total(f, S) \in Nat
<1> DEFINE B == {T \in SUBSET S : Total(f, T) \notin Nat}
<1>1. ASSUME B # {} PROVE FALSE
  <2>1. PICK T \in B : \A R \in B : R \subseteq T => R = T
    <3>1. B \in SUBSET SUBSET S
      OBVIOUS
    <3> HIDE DEF B
    <3>2. QED
      BY <1>1, <3>1, SmallestSet
  <2>2. T # {}
    BY TotalEmpty
  <2>3. Some(T) \in T
    BY <2>2, SomeIn
  <2>4. Total(f, T \ {Some(T)}) \in Nat
    BY <2>1, <2>3
  <2>5. IsFiniteSet(T)
    BY FS_Subset
  <2>6. Total(f, T) = f[Some(T)] + Total(f, T \ {Some(T)})
    BY <2>2, <2>5, TotalSome
  <2>7. QED
    BY <2>3, <2>4, <2>6
<1>2. QED
  BY <1>1

\* Zeroes add up to nothing.
LEMMA TotalZero ==
  ASSUME NEW S, IsFiniteSet(S), NEW f, \A x \in S : f[x] = 0
  PROVE  Total(f, S) = 0
<1> DEFINE B == {T \in SUBSET S : Total(f, T) # 0}
<1>1. ASSUME B # {} PROVE FALSE
  <2>1. PICK T \in B : \A R \in B : R \subseteq T => R = T
    <3>1. B \in SUBSET SUBSET S
      OBVIOUS
    <3> HIDE DEF B
    <3>2. QED
      BY <1>1, <3>1, SmallestSet
  <2>2. T # {} /\ IsFiniteSet(T)
    BY TotalEmpty, FS_Subset
  <2>3. Some(T) \in T
    BY <2>2, SomeIn
  <2>4. Total(f, T \ {Some(T)}) = 0
    BY <2>1, <2>3
  <2>5. Total(f, T) = f[Some(T)] + Total(f, T \ {Some(T)})
    BY <2>2, TotalSome
  <2>6. QED
    BY <2>3, <2>4, <2>5
<1>2. QED
  BY <1>1

\* Any element may be the first: the sum does not depend on the order.
THEOREM TotalOut ==
  ASSUME NEW S, IsFiniteSet(S), NEW f, \A x \in S : f[x] \in Int, NEW x \in S
  PROVE  Total(f, S) = f[x] + Total(f, S \ {x})
<1> DEFINE Wrong(T, z) == Total(f, T) # f[z] + Total(f, T \ {z})
           B == {T \in SUBSET S : \E z \in T : Wrong(T, z)}
<1>1. ASSUME B # {} PROVE FALSE
  <2>1. PICK T \in B : \A R \in B : R \subseteq T => R = T
    <3>1. B \in SUBSET SUBSET S
      OBVIOUS
    <3> HIDE DEF B
    <3>2. QED
      BY <1>1, <3>1, SmallestSet
  <2>2. PICK z \in T : Wrong(T, z)
    OBVIOUS
  <2> DEFINE y == Some(T)
  <2>3. y \in T
    BY <2>2, SomeIn
  <2>4. IsFiniteSet(T) /\ \A R \in SUBSET T : IsFiniteSet(R) /\ Total(f, R) \in Int
    BY FS_Subset, TotalInt
  <2>5. Total(f, T) = f[y] + Total(f, T \ {y})
    BY <2>3, <2>4, TotalSome
  <2>6. y # z
    BY <2>2, <2>5
  <2>7. \A R \in SUBSET T : R # T => \A v \in R : ~Wrong(R, v)
    BY <2>1
  <2>8. Total(f, T \ {y}) = f[z] + Total(f, (T \ {y}) \ {z})
    <3>1. z \in T \ {y} /\ T \ {y} \in SUBSET T /\ T \ {y} # T
      BY <2>3, <2>6
    <3>2. QED
      BY <3>1, <2>7
  <2>9. Total(f, T \ {z}) = f[y] + Total(f, (T \ {z}) \ {y})
    <3>1. y \in T \ {z} /\ T \ {z} \in SUBSET T /\ T \ {z} # T
      BY <2>3, <2>6
    <3>2. QED
      BY <3>1, <2>7
  <2>10. (T \ {y}) \ {z} = (T \ {z}) \ {y}
    OBVIOUS
  <2>11. f[y] \in Int /\ f[z] \in Int /\ Total(f, (T \ {z}) \ {y}) \in Int
    BY <2>3, <2>4
  <2>12. Total(f, T) = f[z] + Total(f, T \ {z})
    <3> DEFINE rest  == Total(f, (T \ {z}) \ {y})
               withZ == Total(f, T \ {y})
               withY == Total(f, T \ {z})
    <3>1. withZ = f[z] + rest /\ withY = f[y] + rest /\ Total(f, T) = f[y] + withZ
      BY <2>5, <2>8, <2>9, <2>10
    <3>2. rest \in Int /\ f[y] \in Int /\ f[z] \in Int
      BY <2>11
    <3> HIDE DEF y, rest, withZ, withY
    <3>3. Total(f, T) = f[z] + withY
      BY <3>1, <3>2
    <3>4. QED
      BY <3>3 DEF withY
  <2>13. QED
    BY <2>2, <2>12
<1>2. QED
  BY <1>1

\* Only the values on the set matter.
LEMMA TotalEqual ==
  ASSUME NEW S, IsFiniteSet(S), NEW f, NEW g, \A x \in S : f[x] = g[x]
  PROVE  Total(f, S) = Total(g, S)
<1> DEFINE B == {T \in SUBSET S : Total(f, T) # Total(g, T)}
<1>1. ASSUME B # {} PROVE FALSE
  <2>1. PICK T \in B : \A R \in B : R \subseteq T => R = T
    <3>1. B \in SUBSET SUBSET S
      OBVIOUS
    <3> HIDE DEF B
    <3>2. QED
      BY <1>1, <3>1, SmallestSet
  <2>2. T # {}
    BY TotalEmpty
  <2>3. Some(T) \in T
    BY <2>2, SomeIn
  <2>4. Total(f, T \ {Some(T)}) = Total(g, T \ {Some(T)})
    BY <2>1, <2>3
  <2>5. IsFiniteSet(T)
    BY FS_Subset
  <2>6. /\ Total(f, T) = f[Some(T)] + Total(f, T \ {Some(T)})
        /\ Total(g, T) = g[Some(T)] + Total(g, T \ {Some(T)})
    BY <2>2, <2>5, TotalSome
  <2>7. QED
    BY <2>3, <2>4, <2>6
<1>2. QED
  BY <1>1

\* One more element.
LEMMA TotalAdd ==
  ASSUME NEW S, IsFiniteSet(S), NEW x, x \notin S,
         NEW f, \A y \in S \cup {x} : f[y] \in Int
  PROVE  Total(f, S \cup {x}) = f[x] + Total(f, S)
<1>1. IsFiniteSet(S \cup {x})
  BY FS_AddElement
<1>2. (S \cup {x}) \ {x} = S
  OBVIOUS
<1>3. Total(f, S \cup {x}) = f[x] + Total(f, (S \cup {x}) \ {x})
  BY <1>1, TotalOut
<1>4. QED
  BY <1>2, <1>3

\* One value changed.
LEMMA TotalChange ==
  ASSUME NEW S, IsFiniteSet(S), NEW x \in S,
         NEW f, NEW g, \A y \in S : f[y] \in Int /\ g[y] \in Int,
         \A y \in S \ {x} : f[y] = g[y]
  PROVE  Total(g, S) = Total(f, S) - f[x] + g[x]
<1>1. IsFiniteSet(S \ {x})
  BY FS_Subset
<1>2. Total(f, S \ {x}) = Total(g, S \ {x})
  BY <1>1, TotalEqual
<1>3. Total(f, S \ {x}) \in Int
  BY <1>1, TotalInt
<1>4. Total(f, S) = f[x] + Total(f, S \ {x}) /\ Total(g, S) = g[x] + Total(g, S \ {x})
  BY TotalOut
<1>5. QED
  BY <1>2, <1>3, <1>4

\* Greater values add up to more.
LEMMA TotalGreater ==
  ASSUME NEW S, IsFiniteSet(S),
         NEW f, NEW g, \A x \in S : f[x] \in Nat /\ g[x] \in Nat /\ f[x] <= g[x]
  PROVE  Total(f, S) <= Total(g, S)
<1> DEFINE B == {T \in SUBSET S : ~(Total(f, T) <= Total(g, T))}
<1>1. ASSUME B # {} PROVE FALSE
  <2>1. PICK T \in B : \A R \in B : R \subseteq T => R = T
    <3>1. B \in SUBSET SUBSET S
      OBVIOUS
    <3> HIDE DEF B
    <3>2. QED
      BY <1>1, <3>1, SmallestSet
  <2>2. T # {}
    BY TotalEmpty
  <2>3. Some(T) \in T
    BY <2>2, SomeIn
  <2>4. Total(f, T \ {Some(T)}) <= Total(g, T \ {Some(T)})
    BY <2>1, <2>3
  <2>5. IsFiniteSet(T) /\ IsFiniteSet(T \ {Some(T)})
    BY FS_Subset
  <2>6. /\ Total(f, T) = f[Some(T)] + Total(f, T \ {Some(T)})
        /\ Total(g, T) = g[Some(T)] + Total(g, T \ {Some(T)})
    BY <2>2, <2>5, TotalSome
  <2>7. Total(f, T \ {Some(T)}) \in Nat /\ Total(g, T \ {Some(T)}) \in Nat
    BY <2>5, TotalNat
  <2>8. f[Some(T)] \in Nat /\ g[Some(T)] \in Nat /\ f[Some(T)] <= g[Some(T)]
    BY <2>3
  <2>9. Total(f, T) <= Total(g, T)
    BY <2>4, <2>6, <2>7, <2>8
  <2>10. QED
    BY <2>9
<1>2. QED
  BY <1>1

\* A sum does not depend on where the indices begin.
LEMMA TotalShifted ==
  ASSUME NEW S, IsFiniteSet(S), NEW f, NEW g
  PROVE  (\A x \in S : x \in Int /\ f[x] \in Nat /\ g[x + 1] = f[x]) =>
           Total(g, {x + 1 : x \in S}) = Total(f, S)
<1>1. SUFFICES ASSUME \A x \in S : x \in Int /\ f[x] \in Nat /\ g[x + 1] = f[x]
               PROVE  Total(g, {x + 1 : x \in S}) = Total(f, S)
  OBVIOUS
<1> DEFINE Next1(T) == {x + 1 : x \in T}
           B == {T \in SUBSET S : Total(g, Next1(T)) # Total(f, T)}
<1>2. ASSUME NEW T \in SUBSET S, IsFiniteSet(T) PROVE IsFiniteSet(Next1(T))
  <2>1. [x \in T |-> x + 1] \in Surjection(T, Next1(T))
    BY DEF Surjection
  <2>2. QED
    BY <1>2, <2>1, FS_Surjection
<1>3. ASSUME B # {} PROVE FALSE
  <2>1. PICK T \in B : \A R \in B : R \subseteq T => R = T
    <3>1. B \in SUBSET SUBSET S
      OBVIOUS
    <3> HIDE DEF B
    <3>2. QED
      BY <1>3, <3>1, SmallestSet
  <2>2. T # {}
    <3>1. Next1({}) = {} /\ Total(f, {}) = 0 /\ Total(g, {}) = 0
      BY TotalEmpty
    <3>2. {} \notin B
      BY <3>1
    <3>3. QED
      BY <3>2
  <2> DEFINE x == Some(T)
             R == T \ {x}
  <2>3. x \in T
    BY <2>2, SomeIn
  <2>4. Total(g, Next1(R)) = Total(f, R)
    BY <2>1, <2>3
  <2>5. IsFiniteSet(T) /\ IsFiniteSet(Next1(T))
    BY <1>2, FS_Subset
  <2>6. Total(f, T) = f[x] + Total(f, R)
    BY <1>1, <2>2, <2>5, TotalSome
  <2>7. Total(g, Next1(T)) = g[x + 1] + Total(g, Next1(R))
    <3>1. \A y \in Next1(T) : g[y] \in Nat
      BY <1>1
    <3>2. x + 1 \in Next1(T)
      BY <2>3
    <3>3. Next1(T) \ {x + 1} = Next1(R)
      <4>1. x \in Int /\ \A y \in T : y \in Int
        BY <1>1, <2>3
      <4> HIDE DEF x
      <4>2. \A y \in T : y + 1 = x + 1 => y = x
        BY <4>1
      <4>3. QED
        BY <2>3, <4>2
    <3> HIDE DEF x, Next1
    <3>4. Total(g, Next1(T)) = g[x + 1] + Total(g, Next1(T) \ {x + 1})
      BY <2>5, <3>1, <3>2, TotalOut
    <3>5. QED
      BY <3>3, <3>4, Zenon
  <2>8. g[x + 1] = f[x]
    BY <1>1, <2>3
  <2>9. Total(g, Next1(T)) = Total(f, T)
    BY <2>4, <2>6, <2>7, <2>8, Zenon
  <2>10. QED
    BY <2>9
<1>4. QED
  BY <1>3

===============================================================================
