--------------------------- MODULE ResultsProofs ---------------------------
(***************************************************************************)
(* What Compute does with any finite slice of samples: the sorted slice    *)
(* exists and is in order, a percentile is one of the samples, and its     *)
(* place among them is the one it is named for.                            *)
(***************************************************************************)
EXTENDS Results, Basics

\* A slice of samples that is not empty.
Slice(ns) ==
    /\ IsFiniteSet(DOMAIN ns)
    /\ DOMAIN ns # {}
    /\ ns \in [DOMAIN ns -> Int]

Values(ns)    == {ns[i] : i \in DOMAIN ns}
AtMost(ns, v) == {i \in DOMAIN ns : ns[i] <= v}
Below(ns, v)  == {i \in DOMAIN ns : ns[i] < v}
Above(ns, v)  == {i \in DOMAIN ns : ns[i] > v}
Number(ns)    == Cardinality(DOMAIN ns)
-----------------------------------------------------------------------------
LEMMA SliceFinite ==
    ASSUME NEW ns, Slice(ns)
    PROVE  /\ Number(ns) \in Nat \ {0}
           /\ IsFiniteSet(Values(ns)) /\ Values(ns) \in SUBSET Int
           /\ \A T \in SUBSET DOMAIN ns :
                 /\ IsFiniteSet(T) /\ Cardinality(T) \in 0 .. Number(ns)
                 /\ IsFiniteSet({ns[i] : i \in T})
<1>1. Number(ns) \in Nat \ {0}
  BY FS_CardinalityType, FS_EmptySet DEF Slice, Number
<1>2. ASSUME NEW T \in SUBSET DOMAIN ns
      PROVE  /\ IsFiniteSet(T) /\ Cardinality(T) \in 0 .. Number(ns)
             /\ IsFiniteSet({ns[i] : i \in T})
  <2>1. IsFiniteSet(T) /\ Cardinality(T) <= Number(ns) /\ Cardinality(T) \in Nat
    BY FS_Subset, FS_CardinalityType DEF Slice, Number
  <2> DEFINE f == [i \in T |-> ns[i]]
             Image == {ns[i] : i \in T}
  <2>2. f \in Surjection(T, Image)
    BY DEF Surjection
  <2>3. IsFiniteSet(Image)
    <3> HIDE DEF f, Image
    <3> QED
      BY <2>1, <2>2, FS_Surjection
  <2> QED
    BY <1>1, <2>1, <2>3
<1>3. Values(ns) \in SUBSET Int
  BY DEF Values, Slice
<1> QED
  BY <1>1, <1>2, <1>3 DEF Values

LEMMA Counts ==
    ASSUME NEW ns, Slice(ns), NEW v
    PROVE  Cardinality(AtMost(ns, v)) \in Nat /\ Cardinality(Below(ns, v)) \in Nat
<1>1. IsFiniteSet(AtMost(ns, v)) /\ IsFiniteSet(Below(ns, v))
  BY FS_Subset DEF Slice, AtMost, Below
<1> QED
  BY <1>1, FS_CardinalityType

\* The place k of the sorted slice holds the least of the values that more
\* than k samples do not exceed; there are such values for every place.
LEMMA SortedPlace ==
    ASSUME NEW ns, Slice(ns), NEW k \in 0 .. Number(ns) - 1
    PROVE  LET s == SortedNs(ns)[k] IN
           /\ s \in Values(ns)
           /\ Cardinality(AtMost(ns, s)) > k
           /\ \A v \in Values(ns) : Cardinality(AtMost(ns, v)) > k => s <= v
<1> DEFINE C == {v \in Values(ns) : Cardinality(AtMost(ns, v)) > k}
<1>1. SortedNs(ns)[k] = Min(C)
  BY DEF SortedNs, Values, AtMost, Number
<1>2. IsFiniteSet(C) /\ C \in SUBSET Int
  BY SliceFinite, FS_Subset
<1>3. C # {}
  <2>1. Values(ns) # {}
    BY DEF Values, Slice
  <2>2. PICK m \in Values(ns) : \A v \in Values(ns) : m >= v
    BY <2>1, SliceFinite, GreatestInteger
  <2>3. AtMost(ns, m) = DOMAIN ns
    BY <2>2 DEF AtMost, Values
  <2>4. Cardinality(AtMost(ns, m)) > k
    BY <2>3, SliceFinite DEF Number
  <2> QED
    BY <2>4
<1>4. \E m \in C : \A v \in C : m <= v
  <2> HIDE DEF C
  <2> QED
    BY <1>2, <1>3, LeastInteger
<1>5. Min(C) \in C /\ \A v \in C : Min(C) <= v
  <2> HIDE DEF C
  <2> QED
    BY <1>4 DEF Min
<1> QED
  BY <1>1, <1>5

\* The sorted slice is in order.
LEMMA SortedInOrder ==
    ASSUME NEW ns, Slice(ns),
           NEW k \in 0 .. Number(ns) - 1, NEW l \in 0 .. Number(ns) - 1, k <= l
    PROVE  SortedNs(ns)[k] <= SortedNs(ns)[l]
<1> DEFINE s(p) == SortedNs(ns)[p]
<1>1. s(l) \in Values(ns) /\ Cardinality(AtMost(ns, s(l))) > l
  BY SortedPlace
<1>2. \A v \in Values(ns) : Cardinality(AtMost(ns, v)) > k => s(k) <= v
  BY SortedPlace
<1>3. Cardinality(AtMost(ns, s(l))) \in Nat /\ k \in Nat /\ l \in Nat
  BY Counts, SliceFinite
<1> HIDE DEF s
<1>4. Cardinality(AtMost(ns, s(l))) > k
  BY <1>1, <1>3
<1> QED
  BY <1>1, <1>2, <1>4 DEF s

\* At most k samples are less than the one at place k, and at most as many
\* greater than it as there are places after k.
LEMMA SortedRank ==
    ASSUME NEW ns, Slice(ns), NEW k \in 0 .. Number(ns) - 1
    PROVE  LET s == SortedNs(ns)[k] IN
           /\ Cardinality(Below(ns, s)) <= k
           /\ Cardinality(Above(ns, s)) <= Number(ns) - 1 - k
<1> DEFINE s == SortedNs(ns)[k]
<1>1. /\ s \in Values(ns) /\ Cardinality(AtMost(ns, s)) > k
      /\ \A v \in Values(ns) : Cardinality(AtMost(ns, v)) > k => s <= v
  BY SortedPlace
<1> HIDE DEF s
<1>2. s \in Int /\ k \in Nat /\ \A i \in DOMAIN ns : ns[i] \in Int
  BY <1>1, SliceFinite DEF Slice
<1>3. Cardinality(Below(ns, s)) <= k
  <2>1. CASE Below(ns, s) = {}
    BY <1>2, <2>1, FS_EmptySet
  <2>2. CASE Below(ns, s) # {}
    <3> DEFINE less == {ns[i] : i \in Below(ns, s)}
    <3>1. Below(ns, s) \in SUBSET DOMAIN ns
      BY DEF Below
    <3>2. IsFiniteSet(less)
      BY <3>1, SliceFinite
    <3>3. less # {} /\ less \in SUBSET Int /\ less \in SUBSET Values(ns)
      BY <1>2, <2>2, <3>1 DEF Values
    <3>4. \A v \in less : v < s
      BY DEF Below
    <3>5. PICK v \in less : \A u \in less : v >= u
      <4> HIDE DEF less
      <4> QED
        BY <3>2, <3>3, GreatestInteger
    <3>6. AtMost(ns, v) = Below(ns, s)
      <4>1. v \in Int /\ v < s
        BY <3>3, <3>4, <3>5
      <4>2. ASSUME NEW i \in Below(ns, s)
            PROVE  i \in AtMost(ns, v)
        <5>1. i \in DOMAIN ns /\ ns[i] \in less /\ ns[i] \in Int
          BY <1>2, <3>1
        <5> QED
          BY <3>5, <4>1, <5>1 DEF AtMost
      <4>3. ASSUME NEW i \in AtMost(ns, v)
            PROVE  i \in Below(ns, s)
        BY <1>2, <4>1, <4>3 DEF AtMost, Below
      <4> QED
        BY <4>2, <4>3
    <3>7. v \in Values(ns) /\ v \in Int /\ ~(s <= v)
      <4> HIDE DEF less
      <4> QED
        BY <1>2, <3>3, <3>4, <3>5
    <3>8. ~(Cardinality(AtMost(ns, v)) > k)
      BY <1>1, <3>7
    <3>9. Cardinality(Below(ns, s)) \in Nat
      BY Counts
    <3> QED
      BY <1>2, <3>6, <3>8, <3>9
  <2> QED
    BY <2>1, <2>2
<1>4. Cardinality(Above(ns, s)) <= Number(ns) - 1 - k
  <2>1. Above(ns, s) = DOMAIN ns \ AtMost(ns, s)
    BY <1>2 DEF Above, AtMost
  <2>2. AtMost(ns, s) = DOMAIN ns \cap AtMost(ns, s)
    BY DEF AtMost
  <2>3. Cardinality(Above(ns, s)) = Number(ns) - Cardinality(AtMost(ns, s))
    BY <2>1, <2>2, FS_Difference DEF Slice, Number
  <2>4. Number(ns) \in Nat /\ Cardinality(AtMost(ns, s)) \in Nat
    BY Counts, SliceFinite
  <2> QED
    BY <1>1, <1>2, <2>3, <2>4
<1> QED
  BY <1>3, <1>4 DEF s

\* percentile's index is a place of the slice, and no lower for a higher
\* percentile.
LEMMA PercentilePlace ==
    ASSUME NEW len \in Nat \ {0}, NEW p \in 0 .. 100, NEW q \in p .. 100
    PROVE  /\ PercentileIndex(len, p) \in 0 .. len - 1
           /\ PercentileIndex(len, p) <= PercentileIndex(len, q)
           /\ 100 * PercentileIndex(len, p) <= p * (len - 1)
           /\ p * (len - 1) < 100 * PercentileIndex(len, p) + 100
<1> DEFINE a == (len - 1) * p
           b == (len - 1) * q
<1>1. a \in Nat /\ b \in Nat /\ a <= b /\ a <= (len - 1) * 100 /\ a = p * (len - 1)
  <2>1. len - 1 \in Nat /\ p \in Int /\ q \in Int /\ p <= q /\ p <= 100 /\ p \in Nat /\ q \in Nat
    OBVIOUS
  <2> QED
    BY <2>1, TimesMonotonic
<1>2. PercentileIndex(len, p) = a \div 100 /\ PercentileIndex(len, q) = b \div 100
  BY DEF PercentileIndex
<1> HIDE DEF a, b
<1>3. 100 * (a \div 100) <= a /\ a < 100 * (a \div 100) + 100 /\ a \div 100 \in Nat
  BY <1>1
<1>4. 100 * (b \div 100) <= b /\ b < 100 * (b \div 100) + 100 /\ b \div 100 \in Nat
  BY <1>1
<1> QED
  BY <1>1, <1>2, <1>3, <1>4

\* A percentile of a slice is one of its samples.
LEMMA PercentileValue ==
    ASSUME NEW ns, Slice(ns), NEW p \in 0 .. 100
    PROVE  /\ Percentile(ns, p) = SortedNs(ns)[PercentileIndex(Number(ns), p)]
           /\ PercentileIndex(Number(ns), p) \in 0 .. Number(ns) - 1
           /\ Percentile(ns, p) \in Values(ns)
<1>1. Number(ns) \in Nat \ {0} /\ p \in p .. 100
  BY SliceFinite
<1>2. Percentile(ns, p) = SortedNs(ns)[PercentileIndex(Number(ns), p)]
  BY <1>1 DEF Percentile, Number
<1>3. PercentileIndex(Number(ns), p) \in 0 .. Number(ns) - 1
  BY <1>1, PercentilePlace
<1> QED
  BY <1>2, <1>3, SortedPlace

\* A higher percentile is no less than a lower one.
LEMMA PercentilesOrdered ==
    ASSUME NEW ns, Slice(ns), NEW p \in 0 .. 100, NEW q \in p .. 100
    PROVE  Percentile(ns, p) <= Percentile(ns, q)
<1>1. PercentileIndex(Number(ns), p) <= PercentileIndex(Number(ns), q)
  BY SliceFinite, PercentilePlace
<1>2. q \in 0 .. 100
  OBVIOUS
<1> QED
  BY <1>1, <1>2, PercentileValue, SortedInOrder

\* What the rest of the program may rely on in the statistics of a run whose
\* iterations all took some time: the median is no more than the P99, and
\* zero stands for a run without samples, for the median and the P99 alike.
THEOREM ResultsPlausible ==
    ASSUME NEW ns, IsFiniteSet(DOMAIN ns), ns \in [DOMAIN ns -> Nat \ {0}]
    PROVE  LET stats == Compute(ns) IN
           /\ stats.median <= stats.p99
           /\ stats.median = 0 <=> DOMAIN ns = {}
           /\ stats.p99 = 0 <=> DOMAIN ns = {}
<1>1. PICK median, p99 : median = Percentile(ns, 50) /\ p99 = Percentile(ns, 99)
  OBVIOUS
<1>2. Compute(ns).median = median /\ Compute(ns).p99 = p99
  BY <1>1 DEF Compute
<1>3. CASE DOMAIN ns = {}
  <2>1. median = 0 /\ p99 = 0
    BY <1>1, <1>3, FS_EmptySet DEF Percentile
  <2> QED
    BY <1>2, <1>3, <2>1
<1>4. CASE DOMAIN ns # {}
  <2>1. Slice(ns)
    BY <1>4 DEF Slice
  <2>2. Values(ns) \in SUBSET (Nat \ {0})
    BY DEF Values
  <2>3. median \in Nat \ {0} /\ p99 \in Nat \ {0}
    BY <1>1, <2>1, <2>2, PercentileValue
  <2>4. median <= p99
    BY <1>1, <2>1, PercentilesOrdered
  <2> QED
    BY <1>2, <1>4, <2>3, <2>4
<1> QED
  BY <1>3, <1>4
=============================================================================
