---------------------- MODULE CriterionGuardrailProofs ----------------------
(***************************************************************************)
(* Proofs about CriterionGuardrail, for any trees of files, any samples,   *)
(* any thresholds and any rounding that is like that of f64: the walk's    *)
(* order does not matter, the median of the code is the median by          *)
(* counting, and the exit code says what the computed deltas say, which no *)
(* rounding turns against a candidate that is not slower or for one that   *)
(* is twice as slow.                                                       *)
(***************************************************************************)
EXTENDS CriterionGuardrail, FiniteSetTheorems, FunctionTheorems,
        WellFoundedInduction, TLAPS

-----------------------------------------------------------------------------
(* Floats.                                                                  *)

\* Where the floats are.
LEMMA Places ==
  /\ Inf \in Int /\ Inf > 0 /\ NaN \in Int /\ NaN > Inf
  /\ One \in Int /\ One > 0 /\ One \div 2 \in Int /\ 2 * (One \div 2) = One
  /\ \A x \in Finite : x \in Int /\ -Inf < x /\ x < Inf /\ ~IsNaN(x) /\ ~IsInfinite(x)
  /\ 0 \in Finite /\ ~IsNaN(0)
  /\ ~IsNaN(Inf) /\ ~IsNaN(-Inf) /\ IsInfinite(Inf) /\ IsInfinite(-Inf)
<1>1. /\ Finite \subseteq Int /\ Inf \in Int
      /\ {0, One, One \div 2} \subseteq Finite
      /\ One > 0 /\ One % 2 = 0
      /\ \A x \in Finite : -x \in Finite /\ x < Inf
  BY FloatAssumption
<1>2. Inf > 0
  BY <1>1
<1>3. \A x \in Finite : x \in Int /\ -Inf < x /\ x < Inf
  <2> SUFFICES ASSUME NEW x \in Finite
               PROVE  x \in Int /\ -Inf < x /\ x < Inf
    OBVIOUS
  <2>1. -x \in Finite /\ -x < Inf /\ x < Inf /\ x \in Int
    BY <1>1
  <2>2. QED
    BY <1>1, <2>1
<1>4. One \in Int /\ 2 * (One \div 2) = One
  <2>1. One \in Int /\ One % 2 = 0
    BY <1>1
  <2>2. QED
    BY <2>1
<1>5. NaN \in Int /\ NaN > Inf
  BY <1>1 DEF NaN
<1>6. \A x \in Finite : ~IsNaN(x) /\ ~IsInfinite(x)
  BY <1>1, <1>3, <1>5 DEF IsNaN, IsInfinite
<1>7. ~IsNaN(Inf) /\ ~IsNaN(-Inf) /\ IsInfinite(Inf) /\ IsInfinite(-Inf)
  BY <1>1, <1>2, <1>5 DEF IsNaN, IsInfinite
<1>8. QED
  BY <1>1, <1>2, <1>3, <1>4, <1>5, <1>6, <1>7

LEMMA FloatsAreNumbers == \A x \in Float : x \in Int /\ -x \in Float
BY Places, FloatAssumption DEF Float

LEMMA FloatCases ==
  ASSUME NEW x \in Float
  PROVE  IsNaN(x) \/ x = Inf \/ x = -Inf \/ x \in Finite
BY DEF Float, IsNaN

\* What rounding returns, keeps and preserves.
LEMMA RoundType ==
  ASSUME RoundsLikeF64(Int), NEW n \in Int, NEW d \in Int, d > 0
  PROVE  Round(n, d) \in Finite \cup {Inf, -Inf} /\ Round(n, d) \in Float /\ Round(n, d) \in Int
BY Places DEF RoundsLikeF64, Float

\* A fraction that is at least an f64 is rounded to no less.
LEMMA RoundAtLeast ==
  ASSUME RoundsLikeF64(Int), NEW n \in Int, NEW d \in Int, d > 0, NEW k \in Finite,
         k * d <= n
  PROVE  k <= Round(n, d)
<1>1. k \in Int /\ 1 \in Int /\ k * d <= n * 1
  BY Places
<1>2. Round(k, 1) <= Round(n, d)
  BY <1>1 DEF RoundsLikeF64
<1>3. QED
  BY <1>2 DEF RoundsLikeF64

LEMMA RoundAtMost ==
  ASSUME RoundsLikeF64(Int), NEW n \in Int, NEW d \in Int, d > 0, NEW k \in Finite,
         n <= k * d
  PROVE  Round(n, d) <= k
<1>1. k \in Int /\ 1 \in Int /\ n * 1 <= k * d
  BY Places
<1>2. Round(n, d) <= Round(k, 1)
  BY <1>1 DEF RoundsLikeF64
<1>3. QED
  BY <1>2 DEF RoundsLikeF64

\* What is not known to be at most zero.
LEMMA NotAtMostZero ==
  ASSUME NEW x \in Float, ~(x \preceq 0)
  PROVE  x \in Int /\ (x > 0 \/ IsNaN(x))
<1>1. x \in Int
  BY FloatsAreNumbers
<1>2. ~IsNaN(x) => ~(x <= 0)
  BY Places DEF \preceq
<1>3. QED
  BY <1>1, <1>2

LEMMA DifferenceType ==
  ASSUME RoundsLikeF64(Int), NEW x \in Float, NEW y \in Float
  PROVE  x (-) y \in Float
<1>1. CASE IsNaN(x) \/ IsNaN(y) \/ IsInfinite(x) \/ IsInfinite(y)
  BY <1>1, FloatsAreNumbers DEF (-), Float, IsInfinite
<1>2. CASE ~(IsNaN(x) \/ IsNaN(y) \/ IsInfinite(x) \/ IsInfinite(y))
  <2>1. x (-) y = Round(x - y, 1)
    BY <1>2 DEF (-)
  <2>2. x - y \in Int
    BY FloatsAreNumbers
  <2>3. QED
    BY <2>1, <2>2, RoundType
<1>3. QED
  BY <1>1, <1>2

LEMMA QuotientType ==
  ASSUME RoundsLikeF64(Int), NEW x \in Float, NEW y \in Int, y > 0 \/ IsNaN(y)
  PROVE  x (/) y \in Float
<1>1. CASE IsNaN(x) \/ IsNaN(y) \/ IsInfinite(x) \/ y = 0 \/ y = Inf
  BY <1>1, FloatAssumption DEF (/), Float
<1>2. CASE ~(IsNaN(x) \/ IsNaN(y) \/ IsInfinite(x) \/ y = 0 \/ y = Inf)
  <2>1. x (/) y = Round(x * One, y)
    BY <1>2 DEF (/)
  <2>2. x * One \in Int /\ y > 0
    BY <1>2, FloatsAreNumbers, Places
  <2>3. QED
    BY <2>1, <2>2, RoundType
<1>3. QED
  BY <1>1, <1>2

-----------------------------------------------------------------------------
(* Sorting.                                                                 *)

\* The function that puts values in ascending order, as Sorted chooses one.
Ascending(values, p) ==
  \A i, j \in DOMAIN values : i < j => values[p[i]] <= values[p[j]]

\* Every set of numbers that is not empty has a least one.
LEMMA LeastNumber ==
  ASSUME NEW T \in SUBSET Nat, T # {}
  PROVE  \E x \in T : \A y \in T : x <= y
<1>1. PICK x \in T : \A y \in T : ~ (<<y, x>> \in OpToRel(<, Nat))
  BY WFMin, NatLessThanWellFounded
<1>2. ASSUME NEW y \in T
      PROVE  x <= y
  <2>1. <<y, x>> \in Nat \X Nat
    OBVIOUS
  <2>2. ~(y < x)
    BY <1>1, <2>1 DEF OpToRel
  <2>3. QED
    BY <2>2
<1>3. QED
  BY <1>2

\* A value takes its place among values that are in order.
LEMMA InsertOne ==
  ASSUME NEW n \in Nat, NEW values \in [1..(n + 1) -> Int],
         NEW p \in Bijection(1..n, 1..n),
         \A i, j \in 1..n : i < j => values[p[i]] <= values[p[j]]
  PROVE  \E q \in Bijection(1..(n + 1), 1..(n + 1)) : Ascending(values, q)
<1> DEFINE Above == {k \in 1..n : ~(values[p[k]] <= values[n + 1])} \cup {n + 1}
<1>0. Above \in SUBSET Nat /\ Above # {}
  OBVIOUS
<1>1. PICK k \in Above : \A l \in Above : k <= l
  <2> HIDE DEF Above
  <2>1. QED
    BY <1>0, LeastNumber
<1>2. /\ k \in 1..(n + 1)
      /\ \A i \in 1..n : i < k => values[p[i]] <= values[n + 1]
      /\ k <= n => ~(values[p[k]] <= values[n + 1])
  BY <1>1
<1> HIDE DEF Above
<1>3. /\ p \in [1..n -> 1..n]
      /\ \A a, b \in 1..n : p[a] = p[b] => a = b
      /\ \A t \in 1..n : \E s \in 1..n : p[s] = t
  BY DEF Bijection, Injection, Surjection, IsInjective
<1> DEFINE old(i) == IF i < k THEN i ELSE i - 1
           q == [i \in 1..(n + 1) |-> IF i = k THEN n + 1 ELSE p[old(i)]]
<1>4. /\ q[k] = n + 1
      /\ \A i \in (1..(n + 1)) \ {k} : old(i) \in 1..n /\ q[i] = p[old(i)] /\ q[i] \in 1..n
  <2>1. \A i \in (1..(n + 1)) \ {k} : old(i) \in 1..n
    BY <1>2
  <2> HIDE DEF old
  <2>2. QED
    BY <1>2, <1>3, <2>1
<1>5. q \in [1..(n + 1) -> 1..(n + 1)]
  <2>1. ASSUME NEW i \in 1..(n + 1)
        PROVE  (IF i = k THEN n + 1 ELSE p[old(i)]) \in 1..(n + 1)
    BY <1>4
  <2>2. QED
    BY <2>1
<1> HIDE DEF q
<1>6. ASSUME NEW a \in 1..(n + 1), NEW b \in 1..(n + 1), q[a] = q[b]
      PROVE  a = b
  <2>1. ~(n + 1 \in 1..n)
    OBVIOUS
  <2>2. CASE a = k \/ b = k
    BY <1>4, <1>6, <2>1, <2>2
  <2>3. CASE a # k /\ b # k
    <3>1. old(a) = old(b)
      <4> HIDE DEF old
      <4>1. QED
        BY <1>3, <1>4, <1>6, <2>3
    <3>2. QED
      BY <1>2, <2>3, <3>1
  <2>4. QED
    BY <2>2, <2>3
<1>7. ASSUME NEW t \in 1..(n + 1)
      PROVE  \E i \in 1..(n + 1) : q[i] = t
  <2>1. CASE t = n + 1
    BY <1>2, <1>4, <2>1
  <2>2. CASE t \in 1..n
    <3>1. PICK s \in 1..n : p[s] = t
      BY <1>3, <2>2
    <3>2. CASE s < k
      <4>1. s \in (1..(n + 1)) \ {k} /\ old(s) = s
        BY <3>2
      <4>2. QED
        BY <1>4, <3>1, <4>1
    <3>3. CASE k <= s
      <4>1. s + 1 \in (1..(n + 1)) \ {k} /\ old(s + 1) = s
        BY <1>2, <3>3
      <4>2. QED
        BY <1>4, <3>1, <4>1
    <3>4. QED
      BY <1>2, <3>2, <3>3
  <2>3. QED
    BY <2>1, <2>2
<1>8. q \in Bijection(1..(n + 1), 1..(n + 1))
  BY <1>5, <1>6, <1>7 DEF Bijection, Injection, Surjection, IsInjective
<1>9. ASSUME NEW i \in 1..(n + 1), NEW j \in 1..(n + 1), i < j
      PROVE  values[q[i]] <= values[q[j]]
  <2>1. CASE i # k /\ j # k
    <3>1. /\ old(i) \in 1..n /\ old(j) \in 1..n /\ old(i) < old(j)
          /\ q[i] = p[old(i)] /\ q[j] = p[old(j)]
      BY <1>2, <1>4, <1>9, <2>1
    <3> HIDE DEF old
    <3>2. QED
      BY <3>1
  <2>2. CASE j = k
    <3>1. i \in (1..(n + 1)) \ {k} /\ old(i) = i /\ i \in 1..n /\ i < k
      BY <1>2, <1>9, <2>2
    <3>2. q[i] = p[i] /\ q[j] = n + 1
      BY <1>4, <2>2, <3>1
    <3>3. QED
      BY <1>2, <3>1, <3>2
  <2>3. CASE i = k
    <3>1. /\ j \in (1..(n + 1)) \ {k} /\ old(j) = j - 1 /\ j - 1 \in 1..n
          /\ k \in 1..n /\ k <= j - 1
      BY <1>2, <1>9, <2>3
    <3>2. q[i] = n + 1 /\ q[j] = p[j - 1]
      BY <1>4, <2>3, <3>1
    <3>3. /\ values[n + 1] \in Int
          /\ values[p[k]] \in Int
          /\ values[p[j - 1]] \in Int
      <4>1. p[k] \in 1..n /\ p[j - 1] \in 1..n
        BY <1>3, <3>1
      <4>2. p[k] \in 1..(n + 1) /\ p[j - 1] \in 1..(n + 1) /\ n + 1 \in 1..(n + 1)
        BY <4>1
      <4>3. QED
        BY <4>2
    <3>4. values[n + 1] <= values[p[k]]
      BY <1>2, <3>1, <3>3
    <3>5. k = j - 1 \/ values[p[k]] <= values[p[j - 1]]
      BY <3>1
    <3>6. values[n + 1] <= values[p[j - 1]]
      BY <3>3, <3>4, <3>5
    <3>7. QED
      BY <3>2, <3>6
  <2>4. QED
    BY <2>1, <2>2, <2>3
<1>10. QED
  BY <1>8, <1>9 DEF Ascending

Sortable(n) ==
  \A values \in [1..n -> Int] :
    \E p \in Bijection(1..n, 1..n) : Ascending(values, p)

\* Whatever the values, some order is ascending, so the one Sorted chooses is: a least
\* length for which there were none would be one more than a length without.
LEMMA OrderExists == \A n \in Nat : Sortable(n)
<1> DEFINE Unsortable == {n \in Nat : ~Sortable(n)}
<1> SUFFICES ASSUME Unsortable # {}
             PROVE  FALSE
  OBVIOUS
<1>1. PICK n \in Unsortable : \A m \in Unsortable : n <= m
  BY LeastNumber
<1>2. CASE n = 0
  <2>1. 1..0 = {}
    OBVIOUS
  <2>2. [i \in {} |-> i] \in Bijection({}, {})
    BY DEF Bijection, Injection, Surjection, IsInjective
  <2>3. Sortable(0)
    BY <2>1, <2>2 DEF Sortable, Ascending
  <2>4. QED
    BY <1>2, <2>3
<1>3. CASE n # 0
  <2> DEFINE m == n - 1
  <2>1. m \in Nat /\ n = m + 1 /\ Sortable(m)
    BY <1>1, <1>3
  <2> HIDE DEF m
  <2>2. ASSUME NEW values \in [1..(m + 1) -> Int]
        PROVE  \E q \in Bijection(1..(m + 1), 1..(m + 1)) : Ascending(values, q)
    <3> DEFINE first == [i \in 1..m |-> values[i]]
    <3>1. first \in [1..m -> Int]
      BY <2>1
    <3>2. PICK p \in Bijection(1..m, 1..m) : Ascending(first, p)
      BY <2>1, <3>1 DEF Sortable
    <3>3. p \in [1..m -> 1..m]
      BY Fun_BijectionProperties
    <3>4. \A i, j \in 1..m : i < j => values[p[i]] <= values[p[j]]
      BY <3>2, <3>3 DEF Ascending
    <3>5. QED
      BY <2>1, <3>4, InsertOne
  <2>3. Sortable(n)
    BY <2>1, <2>2 DEF Sortable
  <2>4. QED
    BY <1>1, <2>3
<1>4. QED
  BY <1>2, <1>3

\* What Sorted returns: the values in an ascending order.
LEMMA SortedValues ==
  ASSUME NEW n \in Nat, NEW values \in [1..n -> Int]
  PROVE  /\ Sorted(values) \in [1..n -> Int]
         /\ \E p \in Bijection(1..n, 1..n) :
              /\ \A i \in 1..n : Sorted(values)[i] = values[p[i]]
              /\ \A i, j \in 1..n : i < j => values[p[i]] <= values[p[j]]
<1> DEFINE order == CHOOSE p \in Bijection(DOMAIN values, DOMAIN values) :
                      \A i, j \in DOMAIN values : i < j => values[p[i]] <= values[p[j]]
<1>1. DOMAIN values = 1..n
  OBVIOUS
<1>2. \E p \in Bijection(DOMAIN values, DOMAIN values) :
        \A i, j \in DOMAIN values : i < j => values[p[i]] <= values[p[j]]
  BY <1>1, OrderExists DEF Sortable, Ascending
<1>3. /\ order \in Bijection(DOMAIN values, DOMAIN values)
      /\ \A i, j \in DOMAIN values : i < j => values[order[i]] <= values[order[j]]
  BY <1>2
<1>4. Sorted(values) = [i \in DOMAIN values |-> values[order[i]]]
  BY DEF Sorted
<1> HIDE DEF order
<1>5. order \in [1..n -> 1..n]
  BY <1>1, <1>3, Fun_BijectionProperties
<1>6. QED
  BY <1>1, <1>3, <1>4, <1>5

-----------------------------------------------------------------------------
(* The median.                                                              *)

\* The first k places of an order hold k values.
LEMMA FirstPlaces ==
  ASSUME NEW n \in Nat, NEW p \in Bijection(1..n, 1..n), NEW k \in 0..n
  PROVE  /\ IsFiniteSet({p[l] : l \in 1..k})
         /\ Cardinality({p[l] : l \in 1..k}) = k
<1> DEFINE T == {p[l] : l \in 1..k}
           f == [l \in 1..k |-> p[l]]
<1>1. \A a, b \in 1..k : p[a] = p[b] => a = b
  BY DEF Bijection, Injection, Surjection, IsInjective
<1>2. f \in Surjection(1..k, T) /\ f \in Injection(1..k, T)
  BY <1>1 DEF Injection, Surjection, IsInjective
<1>3. IsFiniteSet(1..k) /\ Cardinality(1..k) = k
  BY FS_Interval
<1> HIDE DEF T, f
<1>4. IsFiniteSet(T) /\ Cardinality(T) = k
  BY <1>2, <1>3, FS_Surjection
<1>5. QED
  BY <1>4 DEF T

\* The samples that Smallest counts.
Below(value, i) == {j \in DOMAIN value : value[j] < value[i]}
UpTo(value, i) == {j \in DOMAIN value : value[j] <= value[i]}

IsSmallest(value, i, k) ==
  Cardinality(Below(value, i)) < k /\ k <= Cardinality(UpTo(value, i))

LEMMA CountsAreFinite ==
  ASSUME NEW n \in Nat, NEW value, DOMAIN value = 1..n, NEW i
  PROVE  /\ IsFiniteSet(Below(value, i)) /\ Cardinality(Below(value, i)) \in Nat
         /\ IsFiniteSet(UpTo(value, i)) /\ Cardinality(UpTo(value, i)) \in Nat
<1>1. IsFiniteSet(1..n)
  BY FS_Interval
<1>2. Below(value, i) \in SUBSET (1..n) /\ UpTo(value, i) \in SUBSET (1..n)
  BY DEF Below, UpTo
<1>3. QED
  BY <1>1, <1>2, FS_Subset, FS_CardinalityType

\* The value in place k of the ascending order is a k-th smallest.
LEMMA PlaceIsSmallest ==
  ASSUME NEW n \in Nat, NEW value \in [1..n -> Int],
         NEW p \in Bijection(1..n, 1..n),
         \A i, j \in 1..n : i < j => value[p[i]] <= value[p[j]],
         NEW k \in 1..n
  PROVE  p[k] \in 1..n /\ IsSmallest(value, p[k], k)
<1>1. /\ p \in [1..n -> 1..n]
      /\ \A t \in 1..n : \E s \in 1..n : p[s] = t
  BY DEF Bijection, Injection, Surjection, IsInjective
<1>2. \A l \in 1..n : value[p[l]] \in Int
  BY <1>1
<1>3. ASSUME NEW i \in 1..n, NEW j \in 1..n, i <= j
      PROVE  value[p[i]] <= value[p[j]]
  BY <1>2, <1>3
<1>4. Cardinality(Below(value, p[k])) < k
  <2> DEFINE T == {p[l] : l \in 1..(k - 1)}
  <2>1. IsFiniteSet(T) /\ Cardinality(T) = k - 1
    <3>1. k - 1 \in 0..n
      OBVIOUS
    <3>2. QED
      BY <3>1, FirstPlaces
  <2>2. ASSUME NEW j \in Below(value, p[k])
        PROVE  j \in T
    <3>1. PICK l \in 1..n : p[l] = j
      BY <1>1 DEF Below
    <3>2. ~(k <= l)
      <4>1. value[p[l]] < value[p[k]]
        BY <2>2, <3>1 DEF Below
      <4>2. k <= l => value[p[k]] <= value[p[l]]
        BY <1>3
      <4>3. value[p[l]] \in Int /\ value[p[k]] \in Int
        BY <1>2
      <4>4. QED
        BY <4>1, <4>2, <4>3
    <3>3. QED
      BY <3>1, <3>2
  <2> HIDE DEF T
  <2>3. Cardinality(Below(value, p[k])) <= Cardinality(T)
    BY <2>1, <2>2, FS_Subset
  <2>4. QED
    BY <2>1, <2>3, CountsAreFinite
<1>5. k <= Cardinality(UpTo(value, p[k]))
  <2> DEFINE T == {p[l] : l \in 1..k}
  <2>0. k \in 0..n
    OBVIOUS
  <2>1. IsFiniteSet(T) /\ Cardinality(T) = k
    BY <2>0, FirstPlaces
  <2>2. \A l \in 1..k : p[l] \in 1..n /\ value[p[l]] <= value[p[k]]
    <3> SUFFICES ASSUME NEW l \in 1..k
                 PROVE  p[l] \in 1..n /\ value[p[l]] <= value[p[k]]
      OBVIOUS
    <3>1. l \in 1..n /\ l <= k
      OBVIOUS
    <3>2. QED
      BY <1>1, <1>3, <3>1
  <2>3. T \in SUBSET UpTo(value, p[k])
    BY <2>2 DEF UpTo
  <2> HIDE DEF T
  <2>4. /\ IsFiniteSet(UpTo(value, p[k]))
        /\ Cardinality(UpTo(value, p[k])) \in Nat
    <3>1. DOMAIN value = 1..n
      OBVIOUS
    <3>2. QED
      BY <3>1, CountsAreFinite
  <2>5. Cardinality(T) <= Cardinality(UpTo(value, p[k]))
    BY <2>3, <2>4, FS_Subset
  <2>6. QED
    BY <2>1, <2>5
<1>6. QED
  BY <1>1, <1>4, <1>5 DEF IsSmallest

\* Of two k-th smallest values neither is greater.
LEMMA SmallestIsUnique ==
  ASSUME NEW n \in Nat, NEW value \in [1..n -> Int], NEW k \in Nat,
         NEW i \in 1..n, NEW j \in 1..n,
         IsSmallest(value, i, k), IsSmallest(value, j, k)
  PROVE  value[i] <= value[j]
<1> SUFFICES ASSUME ~(value[i] <= value[j])
             PROVE  FALSE
  OBVIOUS
<1>1. ASSUME NEW l \in UpTo(value, j)
      PROVE  l \in Below(value, i)
  <2>1. l \in 1..n /\ value[l] <= value[j]
    BY DEF UpTo
  <2>2. ~(value[i] <= value[l])
    BY <2>1
  <2>3. QED
    BY <2>1, <2>2 DEF Below
<1>2. Cardinality(UpTo(value, j)) <= Cardinality(Below(value, i))
  BY <1>1, CountsAreFinite, FS_Subset
<1>3. QED
  BY <1>2, CountsAreFinite DEF IsSmallest

\* Counting finds what sorting puts in place k.
LEMMA SmallestIsSorted ==
  ASSUME NEW samples, NEW n \in Nat, DOMAIN samples = 1..n,
         Ratios(samples) \in [1..n -> Int], NEW k \in 1..n
  PROVE  Smallest(samples, k) = Sorted(Ratios(samples))[k]
<1> DEFINE value == Ratios(samples)
           i == CHOOSE x \in DOMAIN samples : IsSmallest(value, x, k)
<1>1. PICK p \in Bijection(1..n, 1..n) :
        /\ \A a \in 1..n : Sorted(value)[a] = value[p[a]]
        /\ \A a, b \in 1..n : a < b => value[p[a]] <= value[p[b]]
  BY SortedValues
<1>2. Smallest(samples, k) = value[i]
  <2>1. DOMAIN value = DOMAIN samples
    OBVIOUS
  <2> HIDE DEF value
  <2>2. QED
    BY <2>1 DEF Smallest, IsSmallest, Below, UpTo, value
<1> HIDE DEF value
<1>3. value \in [1..n -> Int] /\ Sorted(value)[k] = value[p[k]]
  BY <1>1 DEF value
<1>4. p[k] \in 1..n /\ IsSmallest(value, p[k], k)
  BY <1>1, <1>3, PlaceIsSmallest
<1>5. i \in 1..n /\ IsSmallest(value, i, k)
  BY <1>4
<1> HIDE DEF i
<1>6. value[i] <= value[p[k]] /\ value[p[k]] <= value[i]
  <2> DEFINE j == p[k]
  <2>1. j \in 1..n /\ IsSmallest(value, j, k) /\ k \in Nat
    BY <1>4
  <2> HIDE DEF j
  <2>2. value[i] <= value[j]
    BY <1>3, <1>5, <2>1, SmallestIsUnique
  <2>3. value[j] <= value[i]
    BY <1>3, <1>5, <2>1, SmallestIsUnique
  <2>4. QED
    BY <2>2, <2>3 DEF j
<1>7. value[i] = value[p[k]]
  BY <1>3, <1>4, <1>5, <1>6
<1>8. QED
  BY <1>2, <1>3, <1>7 DEF value

\* A file that parses gives floats.
LEMMA RatiosAreFloats ==
  ASSUME RoundsLikeF64(Int),
         NEW samples, samples = Malformed \/ samples \in Seq(Sample), Parses(samples)
  PROVE  /\ Len(samples) \in Nat /\ Len(samples) > 0
         /\ DOMAIN samples = 1..Len(samples)
         /\ Ratios(samples) \in [1..Len(samples) -> Float]
<1>1. samples \in Seq(Sample) /\ samples # << >>
  BY DEF Parses
<1>2. /\ Len(samples) \in Nat /\ Len(samples) > 0
      /\ DOMAIN samples = 1..Len(samples)
      /\ \A i \in 1..Len(samples) : samples[i] \in Sample
  BY <1>1
<1>3. ASSUME NEW i \in 1..Len(samples)
      PROVE  LET ratio == samples[i].measured_value (/) samples[i].iteration_count
             IN  (IF IsNaN(ratio) THEN samples[i].nan ELSE ratio) \in Float
  <2> DEFINE m == samples[i].measured_value
             n == samples[i].iteration_count
  <2>1. m \in Float /\ n \in Float /\ samples[i].nan \in Float /\ ~(n \preceq 0)
    BY <1>2 DEF Parses, Sample, Float
  <2> HIDE DEF m, n
  <2>2. n \in Int /\ (n > 0 \/ IsNaN(n))
    BY <2>1, NotAtMostZero
  <2>3. m (/) n \in Float
    BY <2>1, <2>2, QuotientType
  <2>4. QED
    BY <2>1, <2>3 DEF m, n
<1>4. QED
  BY <1>2, <1>3 DEF Ratios

\* The median found by counting is the median of the code, found by sorting.
LEMMA MedianIsByCounting ==
  ASSUME RoundsLikeF64(Int),
         NEW samples, samples = Malformed \/ samples \in Seq(Sample), Parses(samples)
  PROVE  /\ MedianByCounting(samples) = MedianNsPerIter(samples)
         /\ MedianNsPerIter(samples) \in Float
<1> DEFINE n == Len(samples)
           half == n \div 2
           sorted == Sorted(Ratios(samples))
<1>1. /\ n \in Nat /\ n > 0 /\ DOMAIN samples = 1..n
      /\ Ratios(samples) \in [1..n -> Float]
  BY RatiosAreFloats
<1>2. Ratios(samples) \in [1..n -> Int]
  BY <1>1, FloatsAreNumbers
<1>3. /\ sorted \in [1..n -> Float]
      /\ \A k \in 1..n : Smallest(samples, k) = sorted[k]
  <2>1. \A k \in 1..n : Smallest(samples, k) = sorted[k]
    BY <1>1, <1>2, SmallestIsSorted
  <2>2. PICK p \in Bijection(1..n, 1..n) : \A k \in 1..n : sorted[k] = Ratios(samples)[p[k]]
    BY <1>1, <1>2, SortedValues
  <2>3. sorted \in [1..n -> Int] /\ p \in [1..n -> 1..n]
    BY <1>1, <1>2, SortedValues, Fun_BijectionProperties
  <2> HIDE DEF sorted, n
  <2>4. \A k \in 1..n : sorted[k] \in Float
    BY <1>1, <2>2, <2>3
  <2>5. sorted \in [1..n -> Float]
    BY <2>3, <2>4
  <2>6. QED
    BY <2>1, <2>5
<1>4. Len(sorted) = n
  BY <1>1, <1>3
<1>5. /\ half + 1 \in 1..n
      /\ n % 2 = 1 => (n + 1) \div 2 = half + 1
      /\ n % 2 # 1 => half \in 1..n
  BY <1>1
<1>6. MedianNsPerIter(samples) =
        IF n % 2 = 1 THEN sorted[half + 1]
                     ELSE (sorted[half] (+) sorted[half + 1]) (/) (2 * One)
  <2> HIDE DEF sorted, n
  <2>1. QED
    BY <1>4 DEF MedianNsPerIter, Median, sorted
<1>7. MedianByCounting(samples) =
        IF n % 2 = 1 THEN Smallest(samples, (n + 1) \div 2)
                     ELSE (Smallest(samples, half) (+) Smallest(samples, half + 1)) (/) (2 * One)
  BY DEF MedianByCounting
<1> HIDE DEF n, half, sorted
<1>8. CASE n % 2 = 1
  BY <1>3, <1>5, <1>6, <1>7, <1>8
<1>9. CASE n % 2 # 1
  <2>1. MedianByCounting(samples) = MedianNsPerIter(samples)
    BY <1>3, <1>5, <1>6, <1>7, <1>9
  <2>2. sorted[half] \in Float /\ sorted[half + 1] \in Float
    BY <1>3, <1>5, <1>9
  <2>3. sorted[half] (+) sorted[half + 1] \in Float
    BY <2>2, FloatsAreNumbers, DifferenceType DEF (+)
  <2>4. 2 * One \in Int /\ 2 * One > 0
    BY Places
  <2>5. MedianNsPerIter(samples) \in Float
    BY <1>6, <1>9, <2>3, <2>4, QuotientType
  <2>6. QED
    BY <2>1, <2>5
<1>10. QED
  BY <1>8, <1>9

-----------------------------------------------------------------------------
(* Deltas.                                                                  *)

\* A change that is not positive makes a delta that is not.
LEMMA LittleShare ==
  ASSUME RoundsLikeF64(Int), NEW x \in Finite \cup {-Inf}, x <= 0, NEW y \in Finite, y > 0
  PROVE  Percent(x (/) y) \in Finite \cup {-Inf} /\ Percent(x (/) y) <= 0
<1>1. CASE x = -Inf
  <2>1. x (/) y = -Inf
    BY <1>1, Places DEF (/)
  <2>2. QED
    BY <2>1, Places DEF Percent
<1>2. CASE x \in Finite
  <2> DEFINE r == Round(x * One, y)
  <2>1. /\ x \in Int /\ y \in Int /\ One \in Int /\ One > 0 /\ 0 \in Finite
        /\ x (/) y = r
    BY <1>2, Places, FloatAssumption DEF (/)
  <2>2. x * One \in Int /\ x * One <= 0 * y
    BY <2>1
  <2>3. r <= 0 /\ r \in Finite \cup {Inf, -Inf}
    BY <2>1, <2>2, RoundAtMost, RoundType
  <2> HIDE DEF r
  <2>4. r \in Finite \cup {-Inf}
    BY <2>3, Places
  <2>5. CASE r = -Inf
    BY <2>1, <2>5, Places DEF Percent
  <2>6. CASE r \in Finite
    <3>1. r \in Int /\ 100 * r \in Int /\ 100 * r <= 0 * 1
      BY <2>3, <2>6, Places
    <3>2. Percent(r) = Round(100 * r, 1)
      BY <2>6, Places DEF Percent
    <3>3. Percent(r) <= 0 /\ Percent(r) \in Finite \cup {Inf, -Inf}
      BY <2>1, <3>1, <3>2, RoundAtMost, RoundType
    <3>4. QED
      BY <2>1, <3>3, Places
  <2>7. QED
    BY <2>4, <2>5, <2>6
<1>3. QED
  BY <1>1, <1>2

\* A change of at least the k-th part of a time makes a delta of at least 100 k percent.
LEMMA LargeShare ==
  ASSUME RoundsLikeF64(Int), NEW x \in Finite \cup {Inf}, NEW y \in Finite, y > 0,
         NEW k \in Finite, x \in Finite => k * y <= x * One,
         NEW p \in Finite, p <= 100 * k
  PROVE  Percent(x (/) y) \in Finite \cup {Inf} /\ p <= Percent(x (/) y)
<1>1. CASE x = Inf
  <2>1. x (/) y = Inf
    BY <1>1, Places DEF (/)
  <2>2. QED
    BY <2>1, Places DEF Percent
<1>2. CASE x \in Finite
  <2> DEFINE r == Round(x * One, y)
  <2>1. /\ x \in Int /\ y \in Int /\ One \in Int /\ k \in Int /\ p \in Int
        /\ x (/) y = r
    BY <1>2, Places DEF (/)
  <2>2. x * One \in Int
    BY <2>1
  <2>3. k <= r /\ r \in Finite \cup {Inf, -Inf}
    BY <1>2, <2>1, <2>2, RoundAtLeast, RoundType
  <2> HIDE DEF r
  <2>4. r \in Finite \cup {Inf}
    BY <2>3, Places
  <2>5. CASE r = Inf
    BY <2>1, <2>5, Places DEF Percent
  <2>6. CASE r \in Finite
    <3>1. r \in Int /\ 100 * r \in Int /\ p * 1 <= 100 * r
      BY <2>1, <2>3, <2>6, Places
    <3>2. Percent(r) = Round(100 * r, 1)
      BY <2>6, Places DEF Percent
    <3>3. p <= Percent(r) /\ Percent(r) \in Finite \cup {Inf, -Inf}
      BY <2>1, <3>1, <3>2, RoundAtLeast, RoundType
    <3>4. QED
      BY <2>1, <3>3, Places
  <2>7. QED
    BY <2>4, <2>5, <2>6
<1>3. QED
  BY <1>1, <1>2

Ops(time) == NanosPerSecond (/) time

LEMMA FiniteTimes ==
  ASSUME RoundsLikeF64(Int), NEW y \in Finite, y > 0
  PROVE  /\ Ops(y) = Round(NanosPerSecond * One, y)
         /\ Ops(y) \in Finite \cup {Inf} /\ Ops(y) \in Int /\ 1 <= Ops(y)
         /\ NanosPerSecond * One \in Int
<1>1. /\ y \in Int /\ NanosPerSecond \in Finite /\ 1 \in Finite
      /\ NanosPerSecond \in Int /\ One \in Int
      /\ y <= NanosPerSecond * One
  BY Places, FloatAssumption
<1>2. Ops(y) = Round(NanosPerSecond * One, y)
  BY <1>1, Places DEF Ops, (/)
<1>3. NanosPerSecond * One \in Int /\ 1 * y <= NanosPerSecond * One
  BY <1>1
<1>4. 1 <= Ops(y) /\ Ops(y) \in Finite \cup {Inf, -Inf}
  BY <1>1, <1>2, <1>3, RoundAtLeast, RoundType
<1>5. QED
  BY <1>2, <1>3, <1>4, Places

\* Which times have a delta.
LEMMA PositiveTime ==
  ASSUME NEW b \in Float, ~(b \preceq 0), ~IsNaN(b), b # Inf
  PROVE  b \in Finite /\ b \in Int /\ b > 0
<1>1. b \in Int /\ b > 0
  BY NotAtMostZero
<1>2. QED
  BY <1>1, FloatCases, Places

\* A candidate that is not slower is within every threshold that is not negative.
LEMMA NotSlowerIsWithin ==
  ASSUME RoundsLikeF64(Int), NEW kind, NEW b \in Float, NEW c \in Float, NEW t \in Float,
         0 \preceq t, HasDelta(kind, b, c), c <= b,
         ~IsNaN(b), ~IsNaN(c), b # Inf,
         kind = "throughput" => Ops(b) # Inf
  PROVE  DeltaPct(kind, b, c) \preceq t
<1>1. b \in Finite /\ b \in Int /\ b > 0
  BY PositiveTime DEF HasDelta
<1>2. t \in Int /\ 0 <= t /\ ~IsNaN(t) /\ c \in Int
  BY FloatsAreNumbers DEF \preceq
<1>3. SUFFICES DeltaPct(kind, b, c) \in Finite \cup {-Inf} /\ DeltaPct(kind, b, c) <= 0
  BY <1>2, Places DEF \preceq
<1>4. CASE kind = "throughput"
  <2>1. c \in Finite /\ c > 0
    <3>1. c # Inf
      BY <1>1, <1>2, Places
    <3>2. QED
      BY <1>4, <3>1, PositiveTime DEF HasDelta
  <2>2. DeltaPct(kind, b, c) = Percent((Ops(b) (-) Ops(c)) (/) Ops(b))
    BY <1>4 DEF DeltaPct, Ops
  <2>3. /\ Ops(b) \in Finite /\ Ops(b) \in Int /\ Ops(b) > 0
        /\ Ops(c) \in Finite \cup {Inf} /\ Ops(c) \in Int
    BY <1>1, <1>4, <2>1, FiniteTimes, Places
  <2>4. Ops(b) <= Ops(c)
    <3> DEFINE N == NanosPerSecond * One
    <3>1. Ops(b) = Round(N, b) /\ Ops(c) = Round(N, c) /\ N \in Int
      BY <1>1, <2>1, FiniteTimes
    <3>2. N * c <= N * b
      <4>1. N >= 0
        BY <1>1, FloatAssumption, Places
      <4> HIDE DEF N
      <4>2. QED
        BY <1>1, <1>2, <3>1, <4>1
    <3> HIDE DEF N
    <3>3. QED
      BY <1>1, <1>2, <2>1, <3>1, <3>2 DEF RoundsLikeF64
  <2> DEFINE x == Ops(b) (-) Ops(c)
  <2>5. x \in Finite \cup {-Inf} /\ x <= 0
    <3>1. CASE Ops(c) = Inf
      <4>1. x = -Inf
        BY <2>3, <3>1, Places DEF (-)
      <4>2. QED
        BY <4>1, Places
    <3>2. CASE Ops(c) \in Finite
      <4>1. x = Round(Ops(b) - Ops(c), 1)
        BY <2>3, <3>2, Places DEF (-)
      <4>2. Ops(b) - Ops(c) \in Int /\ Ops(b) - Ops(c) <= 0 * 1 /\ 0 \in Finite
        BY <2>3, <2>4, FloatAssumption
      <4>3. x <= 0 /\ x \in Finite \cup {Inf, -Inf}
        BY <4>1, <4>2, RoundAtMost, RoundType
      <4>4. QED
        BY <4>3, Places
    <3>3. QED
      BY <2>3, <3>1, <3>2
  <2> HIDE DEF x
  <2>6. Percent(x (/) Ops(b)) \in Finite \cup {-Inf} /\ Percent(x (/) Ops(b)) <= 0
    BY <2>3, <2>5, LittleShare
  <2>7. QED
    BY <2>2, <2>6 DEF x
<1>5. CASE kind # "throughput"
  <2>1. DeltaPct(kind, b, c) = Percent((c (-) b) (/) b)
    BY <1>5 DEF DeltaPct
  <2> DEFINE x == c (-) b
  <2>2. x \in Finite \cup {-Inf} /\ x <= 0
    <3>1. c # Inf
      BY <1>1, <1>2, Places
    <3>2. CASE c = -Inf
      <4>1. x = -Inf
        BY <1>1, <3>2, Places DEF (-)
      <4>2. QED
        BY <4>1, Places
    <3>3. CASE c \in Finite
      <4>1. x = Round(c - b, 1)
        BY <1>1, <3>3, Places DEF (-)
      <4>2. c - b \in Int /\ c - b <= 0 * 1 /\ 0 \in Finite
        BY <1>1, <1>2, FloatAssumption
      <4>3. x <= 0 /\ x \in Finite \cup {Inf, -Inf}
        BY <4>1, <4>2, RoundAtMost, RoundType
      <4>4. QED
        BY <4>3, Places
    <3>4. QED
      BY <3>1, <3>2, <3>3, FloatCases
  <2> HIDE DEF x
  <2>3. Percent(x (/) b) \in Finite \cup {-Inf} /\ Percent(x (/) b) <= 0
    BY <1>1, <2>2, LittleShare
  <2>4. QED
    BY <2>1, <2>3 DEF x
<1>6. QED
  BY <1>4, <1>5

\* A delta that is no number is within no threshold.
LEMMA NaNIsBeyond ==
  ASSUME NEW kind, NEW b, NEW c, NEW t, IsNaN(b) \/ IsNaN(c)
  PROVE  ~(DeltaPct(kind, b, c) \preceq t)
<1>0. IsNaN(NaN)
  BY DEF IsNaN
<1>1. DeltaPct(kind, b, c) = NaN
  <2>1. CASE kind = "throughput"
    <3>1. DeltaPct(kind, b, c) = Percent((Ops(b) (-) Ops(c)) (/) Ops(b))
      BY <2>1 DEF DeltaPct, Ops
    <3>2. (IsNaN(b) => Ops(b) = NaN) /\ (IsNaN(c) => Ops(c) = NaN)
      BY DEF Ops, (/)
    <3>3. Ops(b) (-) Ops(c) = NaN
      BY <1>0, <3>2 DEF (-)
    <3>4. (Ops(b) (-) Ops(c)) (/) Ops(b) = NaN
      BY <1>0, <3>3 DEF (/)
    <3>5. QED
      BY <1>0, <3>1, <3>4 DEF Percent
  <2>2. CASE kind # "throughput"
    <3>1. DeltaPct(kind, b, c) = Percent((c (-) b) (/) b)
      BY <2>2 DEF DeltaPct
    <3>2. c (-) b = NaN
      BY DEF (-)
    <3>3. (c (-) b) (/) b = NaN
      BY <1>0, <3>2 DEF (/)
    <3>4. QED
      BY <1>0, <3>1, <3>3 DEF Percent
  <2>3. QED
    BY <2>1, <2>2
<1>2. QED
  BY <1>0, <1>1 DEF \preceq

Doubled(kind) == IF kind = "throughput" THEN 50 * One ELSE 100 * One

\* A candidate that takes twice the time is beyond a threshold below the delta of that.
LEMMA DoubledIsBeyond ==
  ASSUME RoundsLikeF64(Int), NEW kind, NEW b \in Float, NEW c \in Float, NEW t \in Float,
         HasDelta(kind, b, c), t < Doubled(kind), 2 * b <= c, ~IsNaN(b), ~IsNaN(c)
  PROVE  ~(DeltaPct(kind, b, c) \preceq t)
<1>1. /\ b \in Int /\ c \in Int /\ t \in Int
      /\ One \in Finite /\ One \div 2 \in Finite /\ 50 * One \in Finite /\ 100 * One \in Finite
      /\ One \in Int /\ One > 0 /\ One \div 2 \in Int /\ 2 * (One \div 2) = One
  BY FloatsAreNumbers, Places, FloatAssumption
<1>2. b > 0 /\ c <= Inf
  <2>1. b > 0
    BY NotAtMostZero DEF HasDelta
  <2>2. c <= Inf
    BY <1>1, FloatCases, Places
  <2>3. QED
    BY <2>1, <2>2
<1>3. b # Inf
  BY <1>1, <1>2, Places
<1>4. b \in Finite
  BY <1>3, PositiveTime DEF HasDelta
<1>5. c \in Finite \cup {Inf}
  BY <1>1, <1>2, FloatCases, Places
<1>6. CASE kind = "throughput" /\ Ops(b) = Inf
  <2>1. DeltaPct(kind, b, c) = Percent((Inf (-) Ops(c)) (/) Inf)
    BY <1>6 DEF DeltaPct, Ops
  <2>2. Inf (-) Ops(c) \in {NaN, Inf}
    BY Places DEF (-)
  <2>3. (Inf (-) Ops(c)) (/) Inf = NaN /\ IsNaN(NaN)
    BY <2>2, Places DEF (/), IsNaN
  <2>4. QED
    BY <2>1, <2>3 DEF Percent, \preceq
<1>7. CASE kind = "throughput" /\ Ops(b) # Inf
  <2> DEFINE N == NanosPerSecond * One
             h == Round(N, 2 * b)
             x == Ops(b) (-) Ops(c)
  <2>1. /\ Ops(b) = Round(N, b) /\ Ops(b) \in Finite /\ Ops(b) \in Int /\ 1 <= Ops(b)
        /\ N \in Int
    BY <1>2, <1>4, <1>7, FiniteTimes
  <2>2. Ops(b) = 2 * h
    BY <1>2, <1>4, <1>7, <2>1 DEF RoundsLikeF64
  <2>3. 2 * b \in Int /\ 2 * b > 0 /\ N >= 1
    BY <1>1, <1>2, <1>4, FloatAssumption
  <2> HIDE DEF N, h
  <2>4. h \in Finite /\ h \in Int /\ h > 0
    <3>1. h \in Finite \cup {Inf, -Inf} /\ h \in Int
      BY <2>1, <2>3, RoundType DEF h
    <3>2. h > 0 /\ h <= Ops(b)
      BY <2>1, <2>2, <3>1
    <3>3. QED
      BY <2>1, <3>1, <3>2, Places
  <2>5. Ops(c) \in Finite /\ Ops(c) \in Int /\ Ops(c) <= h
    <3>1. CASE c = Inf
      <4>1. NanosPerSecond \in Finite
        BY FloatAssumption
      <4>2. Ops(c) = 0
        BY <3>1, <4>1, Places DEF Ops, (/)
      <4>3. QED
        BY <2>4, <4>2, FloatAssumption
    <3>2. CASE c \in Finite
      <4>1. c > 0
        BY <1>1, <1>2
      <4>2. Ops(c) = Round(N, c) /\ Ops(c) \in Finite \cup {Inf} /\ Ops(c) \in Int
        BY <3>2, <4>1, FiniteTimes DEF N
      <4>3. N * (2 * b) <= N * c
        BY <1>1, <2>1, <2>3
      <4>4. Round(N, c) <= Round(N, 2 * b)
        BY <1>1, <2>1, <2>3, <4>1, <4>3 DEF RoundsLikeF64
      <4>5. Ops(c) <= h
        BY <4>2, <4>4 DEF h
      <4>6. QED
        BY <2>4, <4>2, <4>5, Places
    <3>3. QED
      BY <1>5, <3>1, <3>2
  <2>6. h <= x /\ x \in Finite \cup {Inf}
    <3>1. x = Round(Ops(b) - Ops(c), 1)
      BY <2>1, <2>5, Places DEF (-)
    <3>2. Ops(b) - Ops(c) \in Int /\ h * 1 <= Ops(b) - Ops(c)
      BY <2>1, <2>2, <2>4, <2>5
    <3>3. h <= x /\ x \in Finite \cup {Inf, -Inf}
      BY <2>4, <3>1, <3>2, RoundAtLeast, RoundType
    <3>4. QED
      BY <2>4, <3>3, Places
  <2> HIDE DEF x
  <2>7. ASSUME x \in Finite
        PROVE  (One \div 2) * Ops(b) <= x * One
    <3> DEFINE k == One \div 2
    <3>1. x \in Int
      BY <2>7, Places
    <3> HIDE DEF k
    <3>2. k \in Int /\ k >= 0 /\ 2 * k = One
      BY <1>1 DEF k
    <3>3. k * (2 * h) = h * (2 * k)
      BY <2>4, <3>2
    <3>4. h * One <= x * One
      BY <1>1, <2>4, <2>6, <3>1
    <3>5. QED
      BY <2>2, <3>2, <3>3, <3>4 DEF k
  <2>8. 50 * One <= 100 * (One \div 2)
    BY <1>1
  <2>9. Percent(x (/) Ops(b)) \in Finite \cup {Inf} /\ 50 * One <= Percent(x (/) Ops(b))
    BY <1>1, <2>1, <2>6, <2>7, <2>8, LargeShare
  <2>10. DeltaPct(kind, b, c) = Percent(x (/) Ops(b))
    BY <1>7 DEF DeltaPct, Ops, x
  <2>11. t < 50 * One
    BY <1>7 DEF Doubled
  <2>12. QED
    <3>1. DeltaPct(kind, b, c) \in Int /\ 50 * One <= DeltaPct(kind, b, c)
      BY <2>9, <2>10, Places
    <3>2. ~(DeltaPct(kind, b, c) <= t)
      BY <1>1, <2>11, <3>1
    <3>3. QED
      BY <3>2 DEF \preceq
<1>8. CASE kind # "throughput"
  <2> DEFINE x == c (-) b
  <2>1. x \in Finite \cup {Inf} /\ b <= x
    <3>1. CASE c = Inf
      <4>1. x = Inf
        BY <1>4, <3>1, Places DEF (-)
      <4>2. QED
        BY <1>4, <4>1, Places
    <3>2. CASE c \in Finite
      <4>1. x = Round(c - b, 1)
        BY <1>4, <3>2, Places DEF (-)
      <4>2. c - b \in Int /\ b * 1 <= c - b
        BY <1>1
      <4>3. b <= x /\ x \in Finite \cup {Inf, -Inf}
        BY <1>4, <4>1, <4>2, RoundAtLeast, RoundType
      <4>4. QED
        BY <1>4, <4>3, Places
    <3>3. QED
      BY <1>5, <3>1, <3>2
  <2> HIDE DEF x
  <2>2. ASSUME x \in Finite
        PROVE  One * b <= x * One
    <3>1. x \in Int
      BY <2>2, Places
    <3>2. QED
      BY <1>1, <2>1, <3>1
  <2>3. Percent(x (/) b) \in Finite \cup {Inf} /\ 100 * One <= Percent(x (/) b)
    BY <1>1, <1>2, <1>4, <2>1, <2>2, LargeShare
  <2>4. DeltaPct(kind, b, c) = Percent(x (/) b)
    BY <1>8 DEF DeltaPct, x
  <2>5. t < 100 * One
    BY <1>8 DEF Doubled
  <2>6. QED
    <3>1. DeltaPct(kind, b, c) \in Int /\ 100 * One <= DeltaPct(kind, b, c)
      BY <2>3, <2>4, Places
    <3>2. ~(DeltaPct(kind, b, c) <= t)
      BY <1>1, <2>5, <3>1
    <3>3. QED
      BY <3>2 DEF \preceq
<1>9. QED
  BY <1>6, <1>7, <1>8

-----------------------------------------------------------------------------
(* The walks.                                                               *)

FilesOf(name) == {f \in tree : f.name = name}

\* The files of a name that its walk has met.
Met(name) ==
  IF walking = name THEN visited
  ELSE IF walking = "done" \/ name = "baseline" THEN FilesOf(name) ELSE {}

\* What is kept of the files met: one file of each benchmark, in the older layout only
\* while no direct one was met.
KeepsDirect(found, met) ==
  /\ DOMAIN found = {f.id : f \in met}
  /\ \A id \in DOMAIN found :
       /\ found[id] \in met
       /\ found[id].id = id
       /\ found[id].direct \/ \A g \in met : g.id = id => ~g.direct

WalkInv ==
  /\ tree \in Trees
  /\ walking \in Names \cup {"done"}
  /\ visited \subseteq Named
  /\ DOMAIN discovered = Names
  /\ \A name \in Names : KeepsDirect(discovered[name], Met(name))

LEMMA WalkInvInit == GuardrailInit => WalkInv
BY DEF GuardrailInit, WalkInv, KeepsDirect, Met, FilesOf, Named, Names

\* Keep takes a file into what is kept.
LEMMA KeepKeepsDirect ==
  ASSUME NEW met, NEW found, NEW file, KeepsDirect(found, met)
  PROVE  KeepsDirect(Keep(file, found), met \cup {file})
<1>1. CASE file.id \notin DOMAIN found \/ (file.direct /\ ~found[file.id].direct)
  <2>1. /\ DOMAIN Keep(file, found) = DOMAIN found \cup {file.id}
        /\ Keep(file, found)[file.id] = file
        /\ \A id \in DOMAIN found \ {file.id} : Keep(file, found)[id] = found[id]
    BY <1>1 DEF Keep
  <2>2. file.direct \/ \A g \in met \cup {file} : g.id = file.id => ~g.direct
    BY <1>1 DEF KeepsDirect
  <2>3. QED
    BY <2>1, <2>2 DEF KeepsDirect
<1>2. CASE ~(file.id \notin DOMAIN found \/ (file.direct /\ ~found[file.id].direct))
  <2>1. Keep(file, found) = found
    BY <1>2 DEF Keep
  <2>2. file.id \in DOMAIN found /\ (file.direct => found[file.id].direct)
    BY <1>2
  <2>3. QED
    BY <2>1, <2>2 DEF KeepsDirect
<1>3. QED
  BY <1>1, <1>2

LEMMA WalkInvNext == WalkInv /\ [GuardrailNext]_guardrailVars => WalkInv'
<1> SUFFICES ASSUME WalkInv, [GuardrailNext]_guardrailVars
             PROVE  WalkInv'
  OBVIOUS
<1>1. ASSUME NEW file \in tree, Visit(file)
      PROVE  WalkInv'
  <2>1. /\ walking \in Names /\ file \in Named
        /\ UNCHANGED <<tree, walking>>
        /\ visited' = visited \cup {file}
        /\ DOMAIN discovered' = Names
        /\ discovered'[walking] = Keep(file, discovered[walking])
        /\ \A name \in Names \ {walking} : discovered'[name] = discovered[name]
    BY <1>1 DEF Visit, WalkInv
  <2>2. \A name \in Names : Met(name)' = IF name = walking THEN Met(name) \cup {file} ELSE Met(name)
    BY <2>1 DEF Met, FilesOf
  <2>3. KeepsDirect(discovered'[walking], Met(walking) \cup {file})
    BY <2>1, KeepKeepsDirect DEF WalkInv
  <2>4. \A name \in Names : KeepsDirect(discovered'[name], Met(name)')
    BY <2>1, <2>2, <2>3 DEF WalkInv
  <2>5. QED
    BY <2>1, <2>4 DEF WalkInv, Named, KeepsDirect
<1>2. CASE WalkEnds
  <2>1. /\ walking \in Names /\ visited = Named
        /\ walking' = IF walking = "baseline" THEN "candidate" ELSE "done"
        /\ visited' = {}
        /\ UNCHANGED <<tree, discovered>>
    BY <1>2 DEF WalkEnds
  <2>2. \A name \in Names : Met(name)' = Met(name)
    BY <2>1 DEF Met, FilesOf, Named, Names
  <2>3. \A name \in Names : KeepsDirect(discovered'[name], Met(name)')
    BY <2>1, <2>2 DEF WalkInv
  <2>4. QED
    BY <2>1, <2>3 DEF WalkInv, Names, KeepsDirect
<1>3. CASE UNCHANGED <<tree, walking, visited, discovered>>
  BY <1>3 DEF WalkInv, KeepsDirect, Met, FilesOf, Named
<1>4. QED
  BY <1>1, <1>2, <1>3
     DEF GuardrailNext, guardrailVars, MissingIds, Evaluate, Verdict, InputOutputFails

LEMMA WalkInvHolds == GuardrailSpec => []WalkInv
BY WalkInvInit, WalkInvNext, PTL DEF GuardrailSpec

\* When both walks are over, what is kept of a benchmark is the file chosen for it.
LEMMA KeptIsChosen ==
  ASSUME WalkInv, walking = "done", NEW name \in Names, NEW id
  PROVE  /\ id \in DOMAIN discovered[name] <=> Files(name, id) # {}
         /\ id \in DOMAIN discovered[name] => discovered[name][id] = Chosen(name, id)
<1>1. Met(name) = FilesOf(name)
  BY DEF Met, Names
<1>2. /\ DOMAIN discovered[name] = {f.id : f \in FilesOf(name)}
      /\ \A x \in DOMAIN discovered[name] :
           /\ discovered[name][x] \in FilesOf(name)
           /\ discovered[name][x].id = x
           /\ discovered[name][x].direct \/ \A g \in FilesOf(name) : g.id = x => ~g.direct
  BY <1>1 DEF WalkInv, KeepsDirect
<1>3. id \in DOMAIN discovered[name] <=> Files(name, id) # {}
  BY <1>2 DEF FilesOf, Files
<1>4. ASSUME id \in DOMAIN discovered[name]
      PROVE  discovered[name][id] = Chosen(name, id)
  <2> DEFINE kept == discovered[name][id]
             chosen == Chosen(name, id)
  <2>1. kept \in Files(name, id) /\ (kept.direct \/ \A g \in Files(name, id) : ~g.direct)
    BY <1>2, <1>4 DEF FilesOf, Files
  <2>2. chosen \in Files(name, id) /\ (chosen.direct \/ \A g \in Files(name, id) : ~g.direct)
    <3>1. \E f \in Files(name, id) : f.direct \/ \A g \in Files(name, id) : ~g.direct
      BY <2>1
    <3>2. QED
      BY <3>1 DEF Chosen
  <2> HIDE DEF kept, chosen
  <2>3. kept.direct <=> chosen.direct
    BY <2>1, <2>2
  <2>4. /\ kept \in tree /\ chosen \in tree /\ tree \in Trees
        /\ kept.id = chosen.id /\ kept.name = chosen.name
    BY <2>1, <2>2 DEF Files, WalkInv
  <2>5. kept.direct \in BOOLEAN /\ chosen.direct \in BOOLEAN
    BY <2>4, TreesAssumption DEF IsFile
  <2>6. kept.direct = chosen.direct
    BY <2>3, <2>5
  <2>7. QED
    BY <2>4, <2>6, TreesAssumption DEF kept, chosen
<1>5. QED
  BY <1>3, <1>4

\* Whatever order the walks meet the files in, every benchmark on disk is found and is
\* measured by its direct file wherever there is one.
THEOREM DirectLayoutAlwaysWins == GuardrailSpec => []DirectLayoutWins
<1>1. WalkInv => DirectLayoutWins
  BY KeptIsChosen DEF DirectLayoutWins
<1>2. QED
  BY <1>1, WalkInvHolds, PTL

-----------------------------------------------------------------------------
(* The evaluation.                                                          *)

Total == Len(RequiredBenchmarkIds)

LEMMA RequiredIds ==
  /\ Total = 6
  /\ Required = {RequiredBenchmarkIds[i] : i \in 1..Total}
<1>1. Len(RequiredBenchmarkIds) = 6 /\ DOMAIN RequiredBenchmarkIds = 1..6
  BY DEF RequiredBenchmarkIds
<1>2. QED
  BY <1>1 DEF Total, Required

MedianOf(name, id) == MedianNsPerIter(discovered[name][id].samples)

\* The samples kept for a benchmark give two medians and a delta.
Judged(id) ==
  /\ \A name \in Names : Parses(discovered[name][id].samples)
  /\ HasDelta(MetricKind(id), MedianOf("baseline", id), MedianOf("candidate", id))

Beyond(id) == ~WithinThreshold(id, MedianOf("baseline", id), MedianOf("candidate", id))

\* The benchmarks evaluated so far were all judged, and the failures are those among them
\* that are beyond their thresholds.
EvaluationInv ==
  /\ evaluated \in 0..Total
  /\ evaluated > 0 => walking = "done" /\ ~IdsMissing
  /\ \A i \in 1..evaluated : Judged(RequiredBenchmarkIds[i])
  /\ failures = {id \in {RequiredBenchmarkIds[i] : i \in 1..evaluated} : Beyond(id)}

\* Why the program ended as it did.
ExitInv ==
  /\ exit_code = 0 => evaluated = Total /\ failures = {}
  /\ exit_code = 2 => evaluated = Total /\ failures # {}
  /\ exit_code = 1 =>
       \/ io_failed
       \/ walking = "done" /\ (IdsMissing \/ \E id \in Required : ~Judged(id))

LEMMA EvaluationInvInit == GuardrailInit => EvaluationInv /\ ExitInv
BY RequiredIds DEF GuardrailInit, EvaluationInv, ExitInv

\* What one turn of the evaluation does, said of the medians.
LEMMA EvaluateTurn ==
  ASSUME Evaluate, evaluated \in 0..Total
  PROVE  LET id == RequiredBenchmarkIds[evaluated + 1]
         IN  /\ walking = "done" /\ ~IdsMissing /\ evaluated < Total /\ exit_code = -1
             /\ UNCHANGED <<tree, walking, visited, discovered, io_failed>>
             /\ Judged(id) =>
                  /\ evaluated' = evaluated + 1
                  /\ failures' = IF Beyond(id) THEN failures \cup {id} ELSE failures
                  /\ UNCHANGED exit_code
             /\ ~Judged(id) => exit_code' = 1 /\ UNCHANGED <<evaluated, failures>>
<1> DEFINE id == RequiredBenchmarkIds[evaluated + 1]
           samples == [n \in Names |-> discovered[n][id].samples]
           median == [n \in Names |-> MedianNsPerIter(samples[n])]
<1>1. /\ median["baseline"] = MedianOf("baseline", id)
      /\ median["candidate"] = MedianOf("candidate", id)
      /\ \A n \in Names : samples[n] = discovered[n][id].samples
  BY DEF MedianOf, Names
<1>2. /\ Running /\ walking = "done" /\ ~IdsMissing
      /\ evaluated < Len(RequiredBenchmarkIds)
      /\ IF /\ \A n \in Names : Parses(samples[n])
            /\ HasDelta(MetricKind(id), median["baseline"], median["candidate"])
           THEN /\ evaluated' = evaluated + 1
                /\ failures' = IF WithinThreshold(id, median["baseline"], median["candidate"])
                                 THEN failures ELSE failures \cup {id}
                /\ UNCHANGED exit_code
           ELSE Exit(1) /\ UNCHANGED <<evaluated, failures>>
      /\ UNCHANGED <<tree, walking, visited, discovered, io_failed>>
  BY DEF Evaluate
<1> HIDE DEF id, samples, median
<1>3. Judged(id) <=> /\ \A n \in Names : Parses(samples[n])
                     /\ HasDelta(MetricKind(id), median["baseline"], median["candidate"])
  BY <1>1 DEF Judged
<1>4. Beyond(id) <=> ~WithinThreshold(id, median["baseline"], median["candidate"])
  BY <1>1 DEF Beyond
<1>5. /\ Judged(id) =>
           /\ evaluated' = evaluated + 1
           /\ failures' = IF Beyond(id) THEN failures \cup {id} ELSE failures
           /\ UNCHANGED exit_code
      /\ ~Judged(id) => exit_code' = 1 /\ UNCHANGED <<evaluated, failures>>
  BY <1>2, <1>3, <1>4 DEF Exit
<1>6. QED
  BY <1>2, <1>5 DEF id, Total, Running

LEMMA EvaluationInvNext ==
  EvaluationInv /\ ExitInv /\ [GuardrailNext]_guardrailVars => EvaluationInv' /\ ExitInv'
<1> SUFFICES ASSUME EvaluationInv, ExitInv, [GuardrailNext]_guardrailVars
             PROVE  EvaluationInv' /\ ExitInv'
  OBVIOUS
<1>0. Total \in Nat /\ Total > 0
  BY RequiredIds
\* Only the walks change what is discovered, and they are over before the evaluation.
<1>1. CASE (\E file \in tree : Visit(file)) \/ WalkEnds
  <2>1. /\ walking \in Names /\ exit_code = -1
        /\ UNCHANGED <<evaluated, failures, exit_code>>
    BY <1>1 DEF Visit, WalkEnds, Running
  <2>2. evaluated = 0
    BY <1>0, <2>1 DEF EvaluationInv, Names
  <2>3. EvaluationInv'
    BY <2>1, <2>2 DEF EvaluationInv, Total
  <2>4. ExitInv'
    BY <2>1 DEF ExitInv
  <2>5. QED
    BY <2>3, <2>4
<1>2. CASE Evaluate
  <2> DEFINE id == RequiredBenchmarkIds[evaluated + 1]
  <2>1. /\ walking = "done" /\ ~IdsMissing /\ evaluated < Total /\ exit_code = -1
        /\ UNCHANGED <<walking, discovered, io_failed>>
        /\ Judged(id) =>
             /\ evaluated' = evaluated + 1
             /\ failures' = IF Beyond(id) THEN failures \cup {id} ELSE failures
             /\ UNCHANGED exit_code
        /\ ~Judged(id) => exit_code' = 1 /\ UNCHANGED <<evaluated, failures>>
    BY <1>2, EvaluateTurn DEF EvaluationInv
  <2>2. /\ IdsMissing' <=> IdsMissing
        /\ \A x : Judged(x)' <=> Judged(x)
        /\ \A x : Beyond(x)' <=> Beyond(x)
        /\ Total' = Total
    BY <2>1 DEF IdsMissing, Judged, Beyond, MedianOf, Total
  <2>3. CASE Judged(id)
    <3>1. evaluated + 1 \in 0..Total /\ 1..(evaluated + 1) = 1..evaluated \cup {evaluated + 1}
      BY <1>0, <2>1 DEF EvaluationInv
    <3>2. \A i \in 1..(evaluated + 1) : Judged(RequiredBenchmarkIds[i])
      BY <2>3, <3>1 DEF EvaluationInv
    <3>3. failures' = {x \in {RequiredBenchmarkIds[i] : i \in 1..(evaluated + 1)} : Beyond(x)}
      <4>1. {RequiredBenchmarkIds[i] : i \in 1..(evaluated + 1)}
              = {RequiredBenchmarkIds[i] : i \in 1..evaluated} \cup {id}
        BY <3>1
      <4> HIDE DEF id
      <4>2. QED
        BY <2>1, <2>3, <4>1 DEF EvaluationInv
    <3>4. EvaluationInv'
      BY <2>1, <2>2, <2>3, <3>1, <3>2, <3>3 DEF EvaluationInv
    <3>5. ExitInv'
      BY <2>1, <2>3 DEF ExitInv
    <3>6. QED
      BY <3>4, <3>5
  <2>4. CASE ~Judged(id)
    <3>1. id \in Required
      BY <1>0, <2>1, RequiredIds DEF EvaluationInv
    <3>2. ExitInv'
      BY <2>1, <2>2, <2>4, <3>1 DEF ExitInv
    <3>3. EvaluationInv'
      BY <2>1, <2>2, <2>4 DEF EvaluationInv
    <3>4. QED
      BY <3>2, <3>3
  <2>5. QED
    BY <2>3, <2>4
<1>3. CASE MissingIds \/ Verdict \/ InputOutputFails \/ UNCHANGED guardrailVars
  <2>1. UNCHANGED <<walking, discovered, evaluated, failures>>
    BY <1>3 DEF MissingIds, Verdict, InputOutputFails, guardrailVars
  <2>2. /\ IdsMissing' <=> IdsMissing
        /\ \A x : Judged(x)' <=> Judged(x)
        /\ \A x : Beyond(x)' <=> Beyond(x)
        /\ Total' = Total
    BY <2>1 DEF IdsMissing, Judged, Beyond, MedianOf, Total
  <2>3. EvaluationInv'
    BY <2>1, <2>2 DEF EvaluationInv
  <2>4. CASE MissingIds
    BY <2>3, <2>1, <2>2, <2>4 DEF MissingIds, Exit, ExitInv
  <2>5. CASE Verdict
    BY <2>3, <2>1, <2>2, <2>5 DEF Verdict, Exit, ExitInv, Total
  <2>6. CASE InputOutputFails
    BY <2>3, <2>6 DEF InputOutputFails, Exit, ExitInv
  <2>7. CASE UNCHANGED guardrailVars
    BY <2>3, <2>2, <2>7 DEF guardrailVars, ExitInv
  <2>8. QED
    BY <1>3, <2>4, <2>5, <2>6, <2>7
<1>4. QED
  BY <1>1, <1>2, <1>3 DEF GuardrailNext

LEMMA EvaluationInvHolds == GuardrailSpec => [](EvaluationInv /\ ExitInv)
BY EvaluationInvInit, EvaluationInvNext, PTL DEF GuardrailSpec

-----------------------------------------------------------------------------
(* The verdict.                                                             *)

\* What the verdict's reader knows of a benchmark: two chosen files that parse, and
\* their times.
NoDelta(id) ==
  \/ Time("baseline", id) \preceq 0
  \/ MetricKind(id) = "throughput" /\ Time("candidate", id) \preceq 0

\* A file of a tree has samples or is malformed.
LEMMA ChosenSamples ==
  ASSUME tree \in Trees, NEW name, NEW id, Files(name, id) # {}
  PROVE  \/ Chosen(name, id).samples = Malformed
         \/ Chosen(name, id).samples \in Seq(Sample)
<1>1. PICK g \in Files(name, id) : g.direct \/ \A h \in Files(name, id) : ~h.direct
  OBVIOUS
<1>2. Chosen(name, id) \in Files(name, id)
  BY <1>1 DEF Chosen
<1>3. QED
  BY <1>2, TreesAssumption DEF Files, IsFile

LEMMA ThresholdType ==
  ASSUME NEW id
  PROVE  Threshold(id) \in Float
BY ThresholdsAssumption DEF Threshold, MetricKind

\* A measured benchmark has two times.
LEMMA TimeType ==
  ASSUME RoundsLikeF64(Int), tree \in Trees, NEW name, NEW id, Measured(name, id)
  PROVE  Time(name, id) \in Float /\ MedianNsPerIter(Chosen(name, id).samples) = Time(name, id)
BY ChosenSamples, MedianIsByCounting DEF Measured, Time

\* When no benchmark is missing, a benchmark the loop judges is measured, has a delta and
\* is beyond its threshold just when Exceeds says so; one it does not judge is not
\* measured, or its times give no delta.
LEMMA JudgedIsMeasured ==
  ASSUME RoundsLikeF64(Int), WalkInv, walking = "done", ~IdsMissing, NEW id \in Required
  PROVE  /\ Judged(id) => /\ \A name \in Names : Measured(name, id)
                          /\ ~NoDelta(id)
                          /\ Beyond(id) <=> Exceeds(id)
         /\ ~Judged(id) => (\E name \in Names : ~Measured(name, id)) \/ NoDelta(id)
<1>1. ASSUME NEW name \in Names
      PROVE  /\ discovered[name][id].samples = Chosen(name, id).samples
             /\ Measured(name, id) <=> Parses(Chosen(name, id).samples)
             /\ Measured(name, id) => MedianOf(name, id) = Time(name, id)
  <2>1. id \in DOMAIN discovered[name]
    BY DEF IdsMissing
  <2>2. Files(name, id) # {} /\ discovered[name][id] = Chosen(name, id)
    BY <2>1, KeptIsChosen
  <2>3. QED
    BY <2>2, TimeType DEF WalkInv, Measured, MedianOf
<1>2. (\A name \in Names : Parses(discovered[name][id].samples))
        <=> \A name \in Names : Measured(name, id)
  BY <1>1
<1>3. SUFFICES ASSUME \A name \in Names : Measured(name, id)
               PROVE  /\ Judged(id) => ~NoDelta(id) /\ (Beyond(id) <=> Exceeds(id))
                      /\ ~Judged(id) => NoDelta(id)
  BY <1>2 DEF Judged
<1>4. /\ MedianOf("baseline", id) = Time("baseline", id)
      /\ MedianOf("candidate", id) = Time("candidate", id)
  BY <1>1, <1>3 DEF Names
<1>5. Judged(id) <=> ~NoDelta(id)
  BY <1>2, <1>3, <1>4 DEF Judged, HasDelta, NoDelta
<1>6. Beyond(id) <=> Exceeds(id)
  BY <1>4 DEF Beyond, WithinThreshold, Exceeds, Threshold
<1>7. QED
  BY <1>5, <1>6

\* What a whole evaluation knows.
LEMMA EvaluationIsComplete ==
  ASSUME RoundsLikeF64(Int), WalkInv, EvaluationInv, evaluated = Total
  PROVE  /\ Complete
         /\ failures = {id \in Required : Exceeds(id)}
         /\ \A id \in Required : /\ ~NoDelta(id)
                                 /\ Time("baseline", id) \in Float
                                 /\ Time("candidate", id) \in Float
<1>1. /\ walking = "done" /\ ~IdsMissing
      /\ \A id \in Required : Judged(id)
      /\ failures = {id \in Required : Beyond(id)}
  BY RequiredIds DEF EvaluationInv
<1>2. Complete
  BY <1>1, JudgedIsMeasured DEF Complete
<1>3. QED
  BY <1>1, <1>2, JudgedIsMeasured, TimeType DEF Complete, Names, WalkInv

\* Whatever the samples, the thresholds and the precision, the exit code is right: 0 and 2
\* are verdicts on files that all parse, 2 lists exactly the benchmarks that are not within
\* their thresholds, a candidate that is not slower is not among them, 0 lets pass no time
\* that is no number and no doubled one, and 1 is left to data that cannot be judged and to
\* input and output.
THEOREM VerdictIsAlwaysRight == RoundsLikeF64(Int) => (GuardrailSpec => []VerdictIsRight)
<1> SUFFICES ASSUME RoundsLikeF64(Int)
             PROVE  GuardrailSpec => []VerdictIsRight
  OBVIOUS
<1>1. WalkInv /\ EvaluationInv /\ ExitInv => VerdictIsRight
  <2> SUFFICES ASSUME WalkInv, EvaluationInv, ExitInv
               PROVE  VerdictIsRight
    OBVIOUS
  <2>1. ASSUME evaluated = Total
        PROVE  /\ Complete
               /\ failures = {id \in Required : Exceeds(id)}
    BY <2>1, EvaluationIsComplete
  <2>2. PassIsWithinThresholds
    BY <2>1 DEF PassIsWithinThresholds, ExitInv
  <2>3. BreachIsReported
    BY <2>1 DEF BreachIsReported, ExitInv
  <2>4. ErrorIsNoVerdict
    <3> SUFFICES ASSUME exit_code = 1, ~io_failed, Complete
                 PROVE  \E id \in Required : NoDelta(id)
      BY DEF ErrorIsNoVerdict, NoDelta
    <3>1. walking = "done" /\ (IdsMissing \/ \E id \in Required : ~Judged(id))
      BY DEF ExitInv
    <3>2. ~IdsMissing
      BY <3>1, KeptIsChosen DEF Complete, Measured, IdsMissing
    <3>3. QED
      BY <3>1, <3>2, JudgedIsMeasured DEF Complete
  <2>5. ASSUME evaluated = Total, NEW id \in Required
        PROVE  /\ Time("baseline", id) \in Float /\ Time("candidate", id) \in Float
               /\ Threshold(id) \in Float
               /\ HasDelta(MetricKind(id), Time("baseline", id), Time("candidate", id))
    BY <2>5, EvaluationIsComplete, ThresholdType DEF NoDelta, HasDelta
  <2>6. NoFalseAlarm
    <3> SUFFICES ASSUME exit_code = 2, NEW id \in failures, 0 \preceq Threshold(id)
                 PROVE  LET b == Time("baseline", id)
                            c == Time("candidate", id)
                        IN  \/ b < c \/ IsNaN(b) \/ IsNaN(c) \/ b = Inf
                            \/ MetricKind(id) = "throughput" /\ NanosPerSecond (/) b = Inf
      BY DEF NoFalseAlarm
    <3> DEFINE b == Time("baseline", id)
               c == Time("candidate", id)
               kind == MetricKind(id)
               t == Threshold(id)
    <3>1. evaluated = Total
      BY DEF ExitInv
    <3>2. id \in Required /\ Exceeds(id)
      BY <2>1, <3>1
    <3>3. ~(DeltaPct(kind, b, c) \preceq t)
      BY <3>2 DEF Exceeds
    <3>4. b \in Float /\ c \in Float /\ t \in Float /\ HasDelta(kind, b, c) /\ 0 \preceq t
      BY <2>5, <3>1, <3>2
    <3> HIDE DEF b, c, kind, t
    <3>5. c \in Int /\ b \in Int
      BY <3>4, FloatsAreNumbers
    <3>6. \/ b < c \/ IsNaN(b) \/ IsNaN(c) \/ b = Inf
          \/ kind = "throughput" /\ Ops(b) = Inf
      BY <3>3, <3>4, <3>5, NotSlowerIsWithin
    <3>7. QED
      BY <3>6 DEF Ops, b, c, kind
  <2>7. NoDoublingPasses
    <3> SUFFICES ASSUME exit_code = 0, NEW id \in Required
                 PROVE  LET b == Time("baseline", id)
                            c == Time("candidate", id)
                        IN  /\ ~IsNaN(b) /\ ~IsNaN(c)
                            /\ Threshold(id) < Doubled(MetricKind(id)) => c < 2 * b
      BY DEF NoDoublingPasses, Doubled
    <3> DEFINE b == Time("baseline", id)
               c == Time("candidate", id)
               kind == MetricKind(id)
               t == Threshold(id)
    <3>1. evaluated = Total /\ failures = {}
      BY DEF ExitInv
    <3>2. DeltaPct(kind, b, c) \preceq t
      BY <2>1, <3>1 DEF Exceeds
    <3>3. b \in Float /\ c \in Float /\ t \in Float /\ HasDelta(kind, b, c)
      BY <2>5, <3>1
    <3> HIDE DEF b, c, kind, t
    <3>4. ~IsNaN(b) /\ ~IsNaN(c)
      BY <3>2, NaNIsBeyond
    <3>5. c \in Int /\ b \in Int
      BY <3>3, FloatsAreNumbers
    <3>6. t < Doubled(kind) => c < 2 * b
      BY <3>2, <3>3, <3>4, <3>5, DoubledIsBeyond
    <3>7. QED
      BY <3>4, <3>6 DEF b, c, kind, t
  <2>8. QED
    BY <2>2, <2>3, <2>4, <2>6, <2>7 DEF VerdictIsRight
<1>2. QED
  BY <1>1, WalkInvHolds, EvaluationInvHolds, PTL

=============================================================================
