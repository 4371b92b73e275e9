---------------------------- MODULE OrdersProofs -----------------------------
(***************************************************************************)
(* Every finite set has one sequence in a total order: an element's place   *)
(* is the number of elements that are not behind it.  What follows for      *)
(* lists of numbers, and for what a filter leaves of a list.                *)
(***************************************************************************)
EXTENDS Orders, FiniteSetTheorems, FunctionTheorems, SequenceTheorems, TLAPS

\* The order is total and strict on S.
TotalOrder(S, before) ==
    /\ \A x \in S : <<x, x>> \notin before
    /\ \A x, y, z \in S : <<x, y>> \in before /\ <<y, z>> \in before => <<x, z>> \in before
    /\ \A x, y \in S : x # y => <<x, y>> \in before \/ <<y, x>> \in before

\* The elements of S up to x.
UpTo(S, before, x) == {y \in S : y = x \/ <<y, x>> \in before}

\* In order, and nothing is missing.
InOrder(q, S, before) ==
    /\ q \in [1 .. Cardinality(S) -> S]
    /\ \A i, j \in DOMAIN q : i < j => <<q[i], q[j]>> \in before

LEMMA UpToGrows ==
    ASSUME NEW S, IsFiniteSet(S), NEW before, TotalOrder(S, before), NEW x \in S, NEW y \in S,
           <<x, y>> \in before
    PROVE  Cardinality(UpTo(S, before, x)) < Cardinality(UpTo(S, before, y))
<1>1. UpTo(S, before, x) \subseteq UpTo(S, before, y) /\ UpTo(S, before, y) \subseteq S
  BY DEF UpTo, TotalOrder
<1>2. y \in UpTo(S, before, y) /\ y \notin UpTo(S, before, x)
  BY DEF UpTo, TotalOrder
<1>3. IsFiniteSet(UpTo(S, before, y))
  BY <1>1, FS_Subset
<1>4. /\ Cardinality(UpTo(S, before, x)) <= Cardinality(UpTo(S, before, y))
      /\ Cardinality(UpTo(S, before, x)) # Cardinality(UpTo(S, before, y))
      /\ IsFiniteSet(UpTo(S, before, x))
  BY <1>1, <1>2, <1>3, FS_Subset
<1> QED
  BY <1>3, <1>4, FS_CardinalityType

LEMMA PlaceOf ==
    ASSUME NEW S, IsFiniteSet(S), NEW before, TotalOrder(S, before), NEW x \in S
    PROVE  Cardinality(UpTo(S, before, x)) \in 1 .. Cardinality(S)
<1>1. UpTo(S, before, x) \subseteq S /\ x \in UpTo(S, before, x)
  BY DEF UpTo
<1>2. IsFiniteSet(UpTo(S, before, x)) /\ Cardinality(UpTo(S, before, x)) <= Cardinality(S)
  BY <1>1, FS_Subset
<1>3. Cardinality(UpTo(S, before, x)) # 0
  BY <1>1, <1>2, FS_EmptySet
<1> QED
  BY <1>2, <1>3, FS_CardinalityType

\* Every place has an element.
LEMMA EveryPlaceTaken ==
    ASSUME NEW S, IsFiniteSet(S), NEW before, TotalOrder(S, before), NEW i \in 1 .. Cardinality(S)
    PROVE  \E x \in S : Cardinality(UpTo(S, before, x)) = i
<1> SUFFICES ASSUME \A x \in S : Cardinality(UpTo(S, before, x)) # i PROVE FALSE
  OBVIOUS
<1> DEFINE n == Cardinality(S)
           f == [x \in S |-> Cardinality(UpTo(S, before, x))]
           T == (1 .. n) \ {i}
<1>1. n \in Nat
  BY FS_CardinalityType
<1>2. IsFiniteSet(T) /\ Cardinality(T) < n
  <2>1. IsFiniteSet(1 .. n) /\ Cardinality(1 .. n) = IF 1 > n THEN 0 ELSE n - 1 + 1
    BY <1>1, FS_Interval
  <2>2. Cardinality(1 .. n) = n
    BY <1>1, <2>1
  <2>3. IsFiniteSet(T) /\ Cardinality(T) = Cardinality(1 .. n) - 1
    <3>1. i \in 1 .. n
      OBVIOUS
    <3> HIDE DEF n
    <3> QED
      BY <2>1, <3>1, FS_RemoveElement
  <2> QED
    BY <1>1, <2>2, <2>3
<1>3. f \in [S -> T]
  BY PlaceOf
<1>4. PICK x, y \in S : x # y /\ f[x] = f[y]
  <2> HIDE DEF f, T, n
  <2> QED
    BY <1>2, <1>3, FS_PigeonHole DEF n
<1>5. <<x, y>> \in before \/ <<y, x>> \in before
  BY <1>4 DEF TotalOrder
<1>6. /\ Cardinality(UpTo(S, before, x)) \in Nat /\ Cardinality(UpTo(S, before, y)) \in Nat
      /\ Cardinality(UpTo(S, before, x)) = Cardinality(UpTo(S, before, y))
  BY <1>4, PlaceOf
<1> QED
  BY <1>5, <1>6, UpToGrows

LEMMA SortedInOrder ==
    ASSUME NEW S, IsFiniteSet(S), NEW before, TotalOrder(S, before)
    PROVE  InOrder(Sorted(S, before), S, before)
<1> DEFINE q == [i \in 1 .. Cardinality(S) |-> CHOOSE x \in S : Cardinality(UpTo(S, before, x)) = i]
<1>1. \A i \in 1 .. Cardinality(S) : q[i] \in S /\ Cardinality(UpTo(S, before, q[i])) = i
  BY EveryPlaceTaken
<1>2. q \in [1 .. Cardinality(S) -> S]
  BY <1>1
<1>3. ASSUME NEW i \in DOMAIN q, NEW j \in DOMAIN q, i < j PROVE <<q[i], q[j]>> \in before
  <2>1. q[i] \in S /\ q[j] \in S /\ Cardinality(UpTo(S, before, q[i])) = i
        /\ Cardinality(UpTo(S, before, q[j])) = j
    BY <1>1
  <2>2. q[i] # q[j]
    BY <1>3, <2>1
  <2>3. CASE <<q[j], q[i]>> \in before
    BY <1>3, <2>1, <2>3, UpToGrows
  <2> QED
    BY <2>1, <2>2, <2>3 DEF TotalOrder
<1>4. \E p \in [1 .. Cardinality(S) -> S] : \A i, j \in DOMAIN p : i < j => <<p[i], p[j]>> \in before
  BY <1>2, <1>3
<1> QED
  BY <1>4 DEF Sorted, InOrder

\* A sequence in order has every element once, each at its place.
LEMMA InOrderPlaces ==
    ASSUME NEW S, IsFiniteSet(S), NEW before, TotalOrder(S, before), NEW q, InOrder(q, S, before)
    PROVE  /\ \A i, j \in DOMAIN q : i # j => q[i] # q[j]
           /\ \A x \in S : \E i \in DOMAIN q : q[i] = x
           /\ \A i \in DOMAIN q : Cardinality(UpTo(S, before, q[i])) = i
<1> DEFINE n == Cardinality(S)
<1>0. n \in Nat /\ DOMAIN q = 1 .. n /\ q \in [1 .. n -> S]
  BY FS_CardinalityType DEF InOrder
<1>1. \A i, j \in DOMAIN q : i # j => q[i] # q[j]
  <2> SUFFICES ASSUME NEW i \in 1 .. n, NEW j \in 1 .. n, i # j PROVE q[i] # q[j]
    BY <1>0
  <2>1. CASE i < j
    BY <1>0, <2>1 DEF InOrder, TotalOrder
  <2>2. CASE j < i
    BY <1>0, <2>2 DEF InOrder, TotalOrder
  <2> QED
    BY <2>1, <2>2
<1>2. IsFiniteSet(1 .. n) /\ Cardinality(1 .. n) = n
  <2>1. IsFiniteSet(1 .. n) /\ Cardinality(1 .. n) = IF 1 > n THEN 0 ELSE n - 1 + 1
    BY <1>0, FS_Interval
  <2> QED
    BY <1>0, <2>1
<1>3. q \in Injection(1 .. n, S)
  BY <1>0, <1>1, Fun_IsInj
<1>4. q \in Surjection(1 .. n, S)
  BY <1>2, <1>3, FS_Injection
<1>5. \A x \in S : \E i \in DOMAIN q : q[i] = x
  BY <1>0, <1>4, Fun_SurjectionProperties
<1>6. ASSUME NEW i \in DOMAIN q PROVE Cardinality(UpTo(S, before, q[i])) = i
  <2> DEFINE U == UpTo(S, before, q[i])
             r == [j \in 1 .. i |-> q[j]]
  <2>0. i \in 1 .. n /\ i \in Nat
    BY <1>0
  <2>1. \A j \in 1 .. i : j \in 1 .. n /\ q[j] \in U
    <3> SUFFICES ASSUME NEW j \in 1 .. i PROVE j \in 1 .. n /\ q[j] \in U
      OBVIOUS
    <3>1. j \in 1 .. n /\ (j = i \/ j < i)
      BY <1>0, <2>0
    <3> QED
      BY <1>0, <2>0, <3>1 DEF UpTo, InOrder
  <2>2. r \in Injection(1 .. i, U)
    <3>1. r \in [1 .. i -> U] /\ \A j, k \in 1 .. i : j # k => r[j] # r[k]
      BY <1>0, <1>1, <2>1
    <3> QED
      BY <3>1, Fun_IsInj
  <2>3. ASSUME NEW x \in U PROVE \E j \in 1 .. i : r[j] = x
    <3>1. x \in S /\ (x = q[i] \/ <<x, q[i]>> \in before)
      BY DEF UpTo
    <3>2. PICK j \in 1 .. n : q[j] = x
      BY <1>0, <1>5, <3>1
    <3>3. ~(i < j)
      BY <1>0, <2>0, <3>1, <3>2 DEF InOrder, TotalOrder
    <3>4. j \in 1 .. i
      BY <2>0, <3>3
    <3> QED
      BY <3>2, <3>4
  <2>4. r \in Surjection(1 .. i, U)
    <3>1. r \in [1 .. i -> U]
      BY <2>1
    <3> QED
      BY <2>3, <3>1, Fun_IsSurj
  <2>5. IsFiniteSet(1 .. i) /\ Cardinality(1 .. i) = i
    <3>1. IsFiniteSet(1 .. i) /\ Cardinality(1 .. i) = IF 1 > i THEN 0 ELSE i - 1 + 1
      BY <2>0, FS_Interval
    <3> QED
      BY <2>0, <3>1
  <2> HIDE DEF U, r
  <2>6. Cardinality(U) = Cardinality(1 .. i)
    BY <2>2, <2>4, <2>5, FS_Surjection
  <2> QED
    BY <2>5, <2>6 DEF U
<1> QED
  BY <1>1, <1>5, <1>6

LEMMA SameFunction ==
    ASSUME NEW D, NEW T, NEW f \in [D -> T], NEW g \in [D -> T], \A i \in D : f[i] = g[i]
    PROVE  f = g
OBVIOUS

\* There is only one.
LEMMA SortedIsTheOne ==
    ASSUME NEW S, IsFiniteSet(S), NEW before, TotalOrder(S, before), NEW q, InOrder(q, S, before)
    PROVE  q = Sorted(S, before)
<1> DEFINE p == Sorted(S, before)
<1>1. InOrder(p, S, before)
  BY SortedInOrder
<1> HIDE DEF p
<1>2. p \in [1 .. Cardinality(S) -> S] /\ q \in [1 .. Cardinality(S) -> S]
  BY <1>1 DEF InOrder
<1>3. ASSUME NEW i \in 1 .. Cardinality(S) PROVE p[i] = q[i]
  <2>0. i \in DOMAIN p /\ i \in DOMAIN q
    BY <1>2
  <2>1. Cardinality(UpTo(S, before, p[i])) = i /\ Cardinality(UpTo(S, before, q[i])) = i
    BY <1>1, <2>0, InOrderPlaces
  <2>2. p[i] \in S /\ q[i] \in S /\ i \in Nat
    BY <1>2
  <2>3. CASE <<p[i], q[i]>> \in before
    BY <2>1, <2>2, <2>3, UpToGrows
  <2>4. CASE <<q[i], p[i]>> \in before
    BY <2>1, <2>2, <2>4, UpToGrows
  <2> QED
    BY <2>2, <2>3, <2>4 DEF TotalOrder
<1>4. p = q
  <2> DEFINE D == 1 .. Cardinality(S)
  <2>1. p \in [D -> S] /\ q \in [D -> S] /\ \A i \in D : p[i] = q[i]
    BY <1>2, <1>3
  <2> HIDE DEF D
  <2> QED
    BY <2>1, SameFunction
<1> QED
  BY <1>4 DEF p

\* Of numbers.
LEMMA NumbersOrdered ==
    ASSUME NEW S \in SUBSET Nat
    PROVE  TotalOrder(S, {p \in S \X S : p[1] > p[2]}) /\ TotalOrder(S, {p \in S \X S : p[1] < p[2]})
BY DEF TotalOrder

\* The largest first.
LEMMA DescendingOrder ==
    ASSUME NEW S \in SUBSET Nat, IsFiniteSet(S)
    PROVE  /\ Cardinality(S) \in Nat /\ Descending(S) \in [1 .. Cardinality(S) -> S]
           /\ Descending(S) \in Seq(S) /\ Len(Descending(S)) = Cardinality(S)
           /\ \A i, j \in 1 .. Cardinality(S) : i < j => Descending(S)[i] > Descending(S)[j]
           /\ \A x \in S : \E i \in 1 .. Cardinality(S) : Descending(S)[i] = x
<1> DEFINE before == {p \in S \X S : p[1] > p[2]}
           q == Descending(S)
<1>1. TotalOrder(S, before)
  BY NumbersOrdered
<1>2. InOrder(q, S, before) /\ \A x \in S : \E i \in DOMAIN q : q[i] = x
  <2>1. q = Sorted(S, before)
    BY DEF Descending
  <2> HIDE DEF q, before
  <2> QED
    BY <1>1, <2>1, SortedInOrder, InOrderPlaces
<1>3. Cardinality(S) \in Nat /\ q \in [1 .. Cardinality(S) -> S]
  BY <1>2, FS_CardinalityType DEF InOrder
<1>4. \A i, j \in 1 .. Cardinality(S) : i < j => q[i] > q[j]
  BY <1>2, <1>3 DEF InOrder
<1>5. q \in Seq(S) /\ Len(q) = Cardinality(S)
  BY <1>3, SeqDef
<1> QED
  BY <1>2, <1>3, <1>4, <1>5

LEMMA DescendingIsTheOne ==
    ASSUME NEW S \in SUBSET Nat, IsFiniteSet(S), NEW q \in [1 .. Cardinality(S) -> S],
           \A i, j \in 1 .. Cardinality(S) : i < j => q[i] > q[j]
    PROVE  q = Descending(S)
<1> DEFINE before == {p \in S \X S : p[1] > p[2]}
<1>1. TotalOrder(S, before)
  BY NumbersOrdered
<1>2. InOrder(q, S, before)
  BY DEF InOrder
<1>3. q = Sorted(S, before)
  <2> HIDE DEF before
  <2> QED
    BY <1>1, <1>2, SortedIsTheOne
<1> QED
  BY <1>3 DEF Descending

\* The smallest first.
LEMMA AscendingOrder ==
    ASSUME NEW S \in SUBSET Nat, IsFiniteSet(S)
    PROVE  /\ Cardinality(S) \in Nat /\ Ascending(S) \in [1 .. Cardinality(S) -> S]
           /\ \A i, j \in 1 .. Cardinality(S) : i < j => Ascending(S)[i] < Ascending(S)[j]
           /\ \A x \in S : \E i \in 1 .. Cardinality(S) : Ascending(S)[i] = x
<1> DEFINE before == {p \in S \X S : p[1] < p[2]}
           q == Ascending(S)
<1>1. TotalOrder(S, before)
  BY NumbersOrdered
<1>2. InOrder(q, S, before) /\ \A x \in S : \E i \in DOMAIN q : q[i] = x
  <2>1. q = Sorted(S, before)
    BY DEF Ascending
  <2> HIDE DEF q, before
  <2> QED
    BY <1>1, <2>1, SortedInOrder, InOrderPlaces
<1>3. Cardinality(S) \in Nat /\ q \in [1 .. Cardinality(S) -> S]
  BY <1>2, FS_CardinalityType DEF InOrder
<1>4. \A i, j \in 1 .. Cardinality(S) : i < j => q[i] < q[j]
  BY <1>2, <1>3 DEF InOrder
<1> QED
  BY <1>2, <1>3, <1>4

LEMMA IntervalSize ==
    ASSUME NEW n \in Nat
    PROVE  IsFiniteSet(1 .. n) /\ Cardinality(1 .. n) = n
<1>1. 1 \in Int /\ n \in Int
  OBVIOUS
<1>2. IsFiniteSet(1 .. n) /\ Cardinality(1 .. n) = IF 1 > n THEN 0 ELSE n - 1 + 1
  BY <1>1, FS_Interval
<1>3. (IF 1 > n THEN 0 ELSE n - 1 + 1) = n
  OBVIOUS
<1> QED
  BY <1>2, <1>3

\* What a filter leaves: the elements at the places, in their order.
LEMMA PlacesLeft ==
    ASSUME NEW S, NEW q \in Seq(S), NEW I \in SUBSET (1 .. Len(q))
    PROVE  /\ IsFiniteSet(I) /\ Cardinality(I) \in Nat /\ Cardinality(I) <= Len(q)
           /\ Places(q, I) \in Seq(S) /\ Len(Places(q, I)) = Cardinality(I)
           /\ \A k \in 1 .. Cardinality(I) : Ascending(I)[k] \in I /\ Places(q, I)[k] = q[Ascending(I)[k]]
           /\ \A k, l \in 1 .. Cardinality(I) : k < l => Ascending(I)[k] < Ascending(I)[l]
           /\ \A i \in I : \E k \in 1 .. Cardinality(I) : Ascending(I)[k] = i
<1>0. Len(q) \in Nat /\ DOMAIN q = 1 .. Len(q) /\ q \in [1 .. Len(q) -> S]
  BY LenProperties
<1>1. IsFiniteSet(1 .. Len(q)) /\ Cardinality(1 .. Len(q)) = Len(q)
  BY <1>0, IntervalSize
<1>2. IsFiniteSet(I) /\ Cardinality(I) <= Len(q) /\ I \in SUBSET Nat
  <2>1. IsFiniteSet(I) /\ Cardinality(I) <= Cardinality(1 .. Len(q))
    BY <1>1, FS_Subset
  <2> QED
    BY <1>1, <2>1
<1> DEFINE a == Ascending(I)
           n == Cardinality(I)
<1>3. /\ n \in Nat /\ a \in [1 .. n -> I]
      /\ \A k, l \in 1 .. n : k < l => a[k] < a[l]
      /\ \A i \in I : \E k \in 1 .. n : a[k] = i
  BY <1>2, AscendingOrder
<1>4. Places(q, I) = [k \in 1 .. n |-> q[a[k]]]
  BY DEF Places
<1> HIDE DEF a, n
<1>5. Places(q, I) \in [1 .. n -> S]
  BY <1>0, <1>3, <1>4
<1>6. Places(q, I) \in Seq(S) /\ Len(Places(q, I)) = n
  BY <1>3, <1>5, SeqDef
<1>7. \A k \in 1 .. n : a[k] \in I /\ Places(q, I)[k] = q[a[k]]
  BY <1>3, <1>4
<1> QED
  BY <1>2, <1>3, <1>6, <1>7 DEF a, n

\* The least element of a set.
LEMMA LeastOf ==
    ASSUME NEW S \in SUBSET Nat, IsFiniteSet(S), S # {}
    PROVE  \E m \in S : \A x \in S : m <= x
<1> DEFINE n == Cardinality(S)
           a == Ascending(S)
<1>1. /\ n \in Nat /\ a \in [1 .. n -> S]
      /\ \A i, j \in 1 .. n : i < j => a[i] < a[j]
      /\ \A x \in S : \E i \in 1 .. n : a[i] = x
  BY AscendingOrder
<1> HIDE DEF n, a
<1>2. 1 \in 1 .. n
  <2>1. PICK x \in S, i \in 1 .. n : a[i] = x
    BY <1>1
  <2> QED
    BY <1>1, <2>1
<1>3. ASSUME NEW x \in S PROVE a[1] <= x
  <2>1. PICK i \in 1 .. n : a[i] = x
    BY <1>1
  <2>2. i = 1 \/ 1 < i
    BY <1>1
  <2>3. a[1] \in Nat /\ x \in Nat
    BY <1>1, <1>2
  <2>4. 1 < i => a[1] < a[i]
    BY <1>1, <1>2
  <2> QED
    BY <2>1, <2>2, <2>3, <2>4
<1>4. a[1] \in S
  BY <1>1, <1>2
<1> QED
  BY <1>3, <1>4

\* A part of a sequence.
LEMMA PartOf ==
    ASSUME NEW S, NEW q, NEW m \in Int, NEW n \in Int, \A i \in m .. n : q[i] \in S
    PROVE  /\ SubSeq(q, m, n) \in Seq(S)
           /\ Len(SubSeq(q, m, n)) = IF m <= n THEN n - m + 1 ELSE 0
           /\ \A i \in 1 .. n - m + 1 : SubSeq(q, m, n)[i] = q[m + i - 1]
BY SubSeqProperties

LEMMA PartFrom ==
    ASSUME NEW S, NEW q \in Seq(S), NEW first \in Nat \ {0}, NEW m \in Nat, m <= Len(q)
    PROVE  /\ SubSeq(q, first, m) \in Seq(S)
           /\ Len(SubSeq(q, first, m)) = IF first <= m THEN m - first + 1 ELSE 0
           /\ \A i \in 1 .. m - first + 1 : SubSeq(q, first, m)[i] = q[first + i - 1]
<1>1. \A i \in 1 .. Len(q) : q[i] \in S
  BY ElementOfSeq
<1>2. \A i \in first .. m : i \in 1 .. Len(q)
  BY LenProperties
<1>3. \A i \in first .. m : q[i] \in S
  BY <1>1, <1>2
<1>4. first \in Int /\ m \in Int
  OBVIOUS
<1> QED
  BY <1>3, <1>4, PartOf

=============================================================================
