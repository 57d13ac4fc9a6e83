--------------------------- MODULE SortingProofs ---------------------------
(***************************************************************************)
(* Quicksort sorts arrays of any length, whatever their elements and the   *)
(* cutoff: it stays within the array, keeps its elements, and recurs to a  *)
(* logarithmic depth only.                                                 *)
(***************************************************************************)
EXTENDS Sorting, Basics, SequenceTheorems, TLAPS

\* b is a with its elements in l .. h in another order.
Shuffled(a, b, l, h) ==
    /\ DOMAIN b = DOMAIN a
    /\ \A k \in DOMAIN a : k \notin l .. h => b[k] = a[k]
    /\ \A k \in l .. h : \E m \in l .. h : b[k] = a[m]
    /\ \A v \in Value : Count(b, v) = Count(a, v)

\* What the lemmas about arrays are about.
Array(a, len) == len \in Nat \ {0} /\ a \in [0 .. len - 1 -> Value]

Within(l, h, len) == l \in 0 .. len - 1 /\ h \in 0 .. len - 1 /\ l <= h
-----------------------------------------------------------------------------
(* Lemmas about the operators on arrays.                                   *)

\* Going through the indices in another order meets each value as often.
LEMMA PermutationCounts ==
    ASSUME NEW len \in Nat, NEW a, DOMAIN a = 0 .. len - 1,
           NEW b, DOMAIN b = 0 .. len - 1,
           NEW pi \in Bijection(0 .. len - 1, 0 .. len - 1),
           \A k \in 0 .. len - 1 : b[k] = a[pi[k]],
           NEW v
    PROVE  Count(b, v) = Count(a, v)
<1> DEFINE S == {k \in 0 .. len - 1 : b[k] = v}
           T == {k \in 0 .. len - 1 : a[k] = v}
           f == [k \in S |-> pi[k]]
<1>1. IsFiniteSet(S)
  <2>1. IsFiniteSet(0 .. len - 1) /\ S \in SUBSET (0 .. len - 1)
    BY FS_Interval
  <2> QED
    BY <2>1, FS_Subset
<1>2. /\ pi \in [0 .. len - 1 -> 0 .. len - 1]
      /\ \A x, y \in 0 .. len - 1 : pi[x] = pi[y] => x = y
      /\ \A y \in 0 .. len - 1 : \E x \in 0 .. len - 1 : pi[x] = y
  BY DEF Bijection, Injection, Surjection, IsInjective
<1>3. f \in Bijection(S, T)
  <2>1. f \in [S -> T]
    BY <1>2
  <2>2. \A x, y \in S : f[x] = f[y] => x = y
    BY <1>2
  <2>3. \A y \in T : \E x \in S : f[x] = y
    <3> TAKE y \in T
    <3>1. PICK x \in 0 .. len - 1 : pi[x] = y
      BY <1>2
    <3> QED
      BY <3>1
  <2> HIDE DEF f, S, T
  <2> QED
    BY <2>1, <2>2, <2>3 DEF Bijection, Injection, Surjection, IsInjective
<1>4. ExistsBijection(S, T)
  BY <1>3 DEF ExistsBijection
<1>5. Cardinality(T) = Cardinality(S)
  BY <1>1, <1>4, FS_Bijection
<1> QED
  BY <1>5 DEF Count

LEMMA SwapShuffles ==
    ASSUME NEW len, NEW a, Array(a, len), NEW l, NEW h, Within(l, h, len),
           NEW x \in l .. h, NEW y \in l .. h
    PROVE  /\ Array(Swap(a, x, y), len)
           /\ Shuffled(a, Swap(a, x, y), l, h)
<1> DEFINE b == Swap(a, x, y)
           D == 0 .. len - 1
           pi == [k \in D |-> IF k = x THEN y ELSE IF k = y THEN x ELSE k]
<1>1. l .. h \subseteq D /\ x \in D /\ y \in D
  BY DEF Within, Array
<1>2. Array(b, len) /\ DOMAIN b = D /\ DOMAIN a = D
  BY <1>1 DEF Array, Swap
<1>3. \A k \in D : b[k] = IF k = x THEN a[y] ELSE IF k = y THEN a[x] ELSE a[k]
  BY <1>1 DEF Array, Swap
<1>4. pi \in Bijection(D, D)
  <2>1. pi \in [D -> D]
    BY <1>1
  <2>2. \A k, m \in D : pi[k] = pi[m] => k = m
    BY <1>1
  <2>3. \A m \in D : \E k \in D : pi[k] = m
    BY <1>1
  <2> HIDE DEF D, pi
  <2> QED
    BY <2>1, <2>2, <2>3 DEF Bijection, Injection, Surjection, IsInjective
<1>5. \A k \in D : b[k] = a[pi[k]]
  BY <1>1, <1>3
<1>6. \A v \in Value : Count(b, v) = Count(a, v)
  <2> HIDE DEF b, pi
  <2> QED
    BY <1>2, <1>4, <1>5, PermutationCounts DEF Array
<1>7. \A k \in DOMAIN a : k \notin l .. h => b[k] = a[k]
  BY <1>2, <1>3
<1>8. \A k \in l .. h : \E m \in l .. h : b[k] = a[m]
  BY <1>1, <1>3
<1> QED
  BY <1>2, <1>3, <1>6, <1>7, <1>8 DEF Shuffled

LEMMA ShuffledTwice ==
    ASSUME NEW a, NEW b, NEW c, NEW l, NEW h,
           Shuffled(a, b, l, h), Shuffled(b, c, l, h)
    PROVE  Shuffled(a, c, l, h)
BY DEF Shuffled

LEMMA SwapUnlessOrderedShuffles ==
    ASSUME NEW len, NEW a, Array(a, len), NEW l, NEW h, Within(l, h, len),
           NEW x \in l .. h, NEW y \in l .. h
    PROVE  /\ Array(SwapUnlessOrdered(a, x, y), len)
           /\ Shuffled(a, SwapUnlessOrdered(a, x, y), l, h)
<1>1. CASE a[x] > a[y]
  BY <1>1, SwapShuffles DEF SwapUnlessOrdered
<1>2. CASE ~(a[x] > a[y])
  <2>1. Shuffled(a, a, l, h)
    BY DEF Shuffled
  <2> QED
    BY <1>2, <2>1 DEF SwapUnlessOrdered
<1> QED
  BY <1>1, <1>2

LEMMA PivotLastShuffles ==
    ASSUME NEW len, NEW a, Array(a, len), NEW l, NEW h, Within(l, h, len)
    PROVE  Array(PivotLast(a, l, h), len) /\ Shuffled(a, PivotLast(a, l, h), l, h)
<1> DEFINE m  == Middle(l, h)
           a1 == SwapUnlessOrdered(a, l, m)
           a2 == SwapUnlessOrdered(a1, l, h)
           a3 == SwapUnlessOrdered(a2, m, h)
           a4 == Swap(a3, m, h)
<1>1. l \in l .. h /\ h \in l .. h /\ m \in l .. h
  BY DEF Within, Middle
<1> HIDE DEF m
<1>2. Array(a1, len) /\ Shuffled(a, a1, l, h)
  BY <1>1, SwapUnlessOrderedShuffles
<1> HIDE DEF a1
<1>3. Array(a2, len) /\ Shuffled(a1, a2, l, h)
  BY <1>1, <1>2, SwapUnlessOrderedShuffles
<1> HIDE DEF a2
<1>4. Array(a3, len) /\ Shuffled(a2, a3, l, h)
  BY <1>1, <1>3, SwapUnlessOrderedShuffles
<1> HIDE DEF a3
<1>5. Array(a4, len) /\ Shuffled(a3, a4, l, h)
  BY <1>1, <1>4, SwapShuffles
<1>6. Shuffled(a, a4, l, h)
  BY <1>2, <1>3, <1>4, <1>5, ShuffledTwice
<1>7. PivotLast(a, l, h) = a4
  BY DEF PivotLast, MedianOfThree, a1, a2, a3, m
<1> QED
  BY <1>5, <1>6, <1>7

\* What is greater than a[at] just below it is an interval, which moves up by
\* one; insertion sort's body puts a[at] where it begins.
LEMMA InsertedPlace ==
    ASSUME NEW len, NEW a, Array(a, len), NEW l, NEW h, Within(l, h, len),
           NEW at \in l .. h
    PROVE  \E place \in l .. at :
              /\ \A k \in place .. at - 1 : a[k] > a[at]
              /\ place > l => a[place - 1] <= a[at]
              /\ Inserted(a, l, at) =
                    [k \in DOMAIN a |->
                        IF k = place THEN a[at]
                        ELSE IF k > place /\ k <= at THEN a[k - 1] ELSE a[k]]
<1> DEFINE Above == {k \in l .. at - 1 : \A m \in k .. at - 1 : a[m] > a[at]}
           S == Above \cup {at}
<1>1. l \in Nat /\ at \in Nat /\ \A k \in l .. at : a[k] \in Int
  <2>1. l .. at \subseteq 0 .. len - 1 /\ l \in Nat /\ at \in Nat
    BY DEF Array, Within
  <2> QED
    BY <2>1, SortingAssumption DEF Array
<1>2. S \in SUBSET Nat /\ S # {}
  BY <1>1
<1>3. PICK place \in S : \A k \in S : place <= k
  BY <1>2, LeastNatural
<1>4. place \in l .. at /\ \A k \in place .. at - 1 : a[k] > a[at]
  BY <1>1, <1>3
<1>5. Above = place .. at - 1
  <2>1. \A k \in Above : k \in place .. at - 1
    BY <1>1, <1>3
  <2>2. \A k \in place .. at - 1 : k \in Above
    BY <1>1, <1>4
  <2> QED
    BY <2>1, <2>2
<1>6. at - Cardinality(Above) = place
  <2> HIDE DEF Above
  <2>1. at - 1 \in Int /\ place \in Int /\ place <= at
    BY <1>1, <1>4
  <2>2. Cardinality(place .. at - 1) = IF place > at - 1 THEN 0 ELSE at - 1 - place + 1
    BY ONLY <2>1, FS_Interval
  <2> QED
    BY <1>1, <1>5, <2>1, <2>2
<1>7. place > l => a[place - 1] <= a[at]
  <2> SUFFICES ASSUME place > l, ~(a[place - 1] <= a[at])
               PROVE  FALSE
    OBVIOUS
  <2>1. a[place - 1] > a[at]
    BY <1>1, <1>4
  <2>2. \A m \in place - 1 .. at - 1 : a[m] > a[at]
    BY <1>1, <1>4, <2>1
  <2>3. place - 1 \in Above
    BY <1>1, <1>4, <2>2
  <2> QED
    BY <1>1, <1>3, <1>4, <2>3
<1>8. Inserted(a, l, at) =
         [k \in DOMAIN a |->
             IF k = place THEN a[at]
             ELSE IF k > place /\ k <= at THEN a[k - 1] ELSE a[k]]
  <2>1. Inserted(a, l, at) =
           [k \in DOMAIN a |->
               CASE k = at - Cardinality(Above) -> a[at]
                 [] k > at - Cardinality(Above) /\ k <= at -> a[k - 1]
                 [] OTHER -> a[k]]
    BY DEF Inserted
  <2> HIDE DEF Above, S
  <2>2. \A k \in DOMAIN a : k \in Int
    BY DEF Array
  <2> QED
    BY <1>1, <1>4, <1>6, <2>1, <2>2
<1> QED
  BY <1>4, <1>7, <1>8

LEMMA InsertedShuffles ==
    ASSUME NEW len, NEW a, Array(a, len), NEW l, NEW h, Within(l, h, len),
           NEW at \in l .. h
    PROVE  /\ Array(Inserted(a, l, at), len)
           /\ Shuffled(a, Inserted(a, l, at), l, h)
           /\ (\A x, y \in l .. at - 1 : x < y => a[x] <= a[y])
                 => \A x, y \in l .. at :
                       x < y => Inserted(a, l, at)[x] <= Inserted(a, l, at)[y]
<1> DEFINE b == Inserted(a, l, at)
           D == 0 .. len - 1
<1>1. PICK place \in l .. at :
         /\ \A k \in place .. at - 1 : a[k] > a[at]
         /\ place > l => a[place - 1] <= a[at]
         /\ b = [k \in DOMAIN a |->
                    IF k = place THEN a[at]
                    ELSE IF k > place /\ k <= at THEN a[k - 1] ELSE a[k]]
  BY InsertedPlace
<1> HIDE DEF b
<1>2. /\ l .. h \subseteq D /\ at \in D /\ place \in D /\ l \in Nat /\ h \in Nat
      /\ len \in Nat /\ DOMAIN a = D
  BY DEF Array, Within
<1> DEFINE pi == [k \in D |-> IF k = place THEN at
                              ELSE IF k > place /\ k <= at THEN k - 1 ELSE k]
<1>3. pi \in Bijection(D, D)
  <2>1. pi \in [D -> D]
    BY <1>2
  <2>2. \A k, m \in D : pi[k] = pi[m] => k = m
    BY <1>2
  <2>3. \A m \in D : \E k \in D : pi[k] = m
    <3> TAKE m \in D
    <3>1. CASE m = at
      BY <1>2, <3>1
    <3>2. CASE m \in place .. at - 1
      <4>1. m + 1 \in D /\ pi[m + 1] = m
        BY <1>2, <3>2
      <4> QED
        BY <4>1
    <3>3. CASE m # at /\ m \notin place .. at - 1
      BY <1>2, <3>3
    <3> QED
      BY <3>1, <3>2, <3>3
  <2> HIDE DEF D, pi
  <2> QED
    BY <2>1, <2>2, <2>3 DEF Bijection, Injection, Surjection, IsInjective
<1>4. DOMAIN b = D /\ \A k \in D : b[k] = a[pi[k]]
  BY <1>1, <1>2
<1>5. Array(b, len)
  <2>1. pi \in [D -> D]
    BY <1>3 DEF Bijection, Injection
  <2>2. b = [k \in D |-> b[k]]
    BY <1>1, <1>2
  <2> HIDE DEF pi
  <2> QED
    BY <1>4, <2>1, <2>2 DEF Array
<1>6. \A v \in Value : Count(b, v) = Count(a, v)
  <2> HIDE DEF pi
  <2> QED
    BY <1>2, <1>3, <1>4, PermutationCounts
<1>7. Shuffled(a, b, l, h)
  <2>1. \A k \in D : k \notin l .. h => b[k] = a[k]
    BY <1>1, <1>2
  <2>2. \A k \in l .. h : \E m \in l .. h : b[k] = a[m]
    <3> TAKE k \in l .. h
    <3>1. k \in D /\ pi[k] \in l .. h
      BY <1>2
    <3> QED
      BY <1>4, <3>1
  <2> QED
    BY <1>2, <1>4, <1>6, <2>1, <2>2 DEF Shuffled
<1>8. ASSUME \A x, y \in l .. at - 1 : x < y => a[x] <= a[y],
             NEW x \in l .. at, NEW y \in l .. at, x < y
      PROVE  b[x] <= b[y]
  <2>1. \A k \in D : a[k] \in Int
    BY SortingAssumption DEF Array
  <2>2. \A k \in l .. place - 1 : a[k] <= a[at]
    <3> TAKE k \in l .. place - 1
    <3>1. k <= place - 1 /\ place - 1 \in l .. at - 1 /\ k \in l .. at - 1
      BY <1>2
    <3>2. a[k] <= a[place - 1]
      BY <1>2, <1>8, <2>1, <3>1
    <3> QED
      BY <1>1, <1>2, <2>1, <3>1, <3>2
  <2>3. x \in D /\ y \in D
    BY <1>2
  <2>4. CASE y < place
    BY <1>1, <1>2, <1>8, <2>3, <2>4
  <2>5. CASE y = place
    <3>1. b[y] = a[at] /\ b[x] = a[x] /\ x \in l .. place - 1
      BY <1>1, <1>2, <1>8, <2>3, <2>5
    <3> QED
      BY <2>2, <3>1
  <2>6. CASE y > place
    <3>1. b[y] = a[y - 1] /\ y - 1 \in place .. at - 1
      BY <1>1, <1>2, <2>3, <2>6
    <3>2. CASE x < place
      <4>1. b[x] = a[x] /\ x \in l .. at - 1 /\ y - 1 \in l .. at - 1 /\ x < y - 1
        BY <1>1, <1>2, <2>3, <2>6, <3>2
      <4> QED
        BY <1>8, <3>1, <4>1
    <3>3. CASE x = place
      <4>1. b[x] = a[at] /\ a[y - 1] > a[at] /\ a[at] \in Int /\ a[y - 1] \in Int
        BY <1>1, <1>2, <2>1, <2>3, <3>1, <3>3
      <4> QED
        BY <3>1, <4>1
    <3>4. CASE x > place
      <4>1. b[x] = a[x - 1] /\ x - 1 \in l .. at - 1 /\ y - 1 \in l .. at - 1 /\ x - 1 < y - 1
        BY <1>1, <1>2, <1>8, <2>3, <2>6, <3>4
      <4> QED
        BY <1>8, <3>1, <4>1
    <3> QED
      BY <1>2, <3>2, <3>3, <3>4
  <2> QED
    BY <1>2, <2>4, <2>5, <2>6
<1> QED
  BY <1>5, <1>7, <1>8 DEF b
-----------------------------------------------------------------------------
(* The inductive invariant: where the calls are, and what is in order.     *)

Frame == {f \in Int \X Int : f[1] \in 0 .. n /\ f[2] \in -1 .. n - 1 /\ f[1] <= f[2] + 1}

\* The ranges of all calls are inside the array, and i and j inside that of
\* the current one.
Control ==
    /\ pc \in {"loop", "scan", "insert", "done"}
    /\ n \in 1 .. MaxLen
    /\ Array(arr, n)
    /\ stack \in Seq(Frame)
    /\ <<lo, hi>> \in Frame
    /\ j \in 0 .. n
    /\ pc \in {"loop", "done"} => i = 0
    /\ pc = "scan" => lo < hi /\ lo <= j /\ j <= hi /\ i \in lo - 1 .. j - 1
    /\ pc = "insert" => i \in lo + 1 .. n + 1 /\ (i <= hi + 1 \/ i = lo + 1)

Disjoint(r, s) == \A k \in Int : ~(k \in r[1] .. r[2] /\ k \in s[1] .. s[2])

\* No index belongs to two pending ranges.
Apart ==
    /\ \A x, y \in 1 .. Len(stack) : x # y => Disjoint(stack[x], stack[y])
    /\ \A x \in 1 .. Len(stack) : Disjoint(stack[x], <<lo, hi>>)

\* Two elements are in order, unless they are in one pending range.
Together(x, y) ==
    \/ x \in lo .. hi /\ y \in lo .. hi
    \/ \E k \in 1 .. Len(stack) :
          x \in stack[k][1] .. stack[k][2] /\ y \in stack[k][1] .. stack[k][2]

OrderedApart ==
    \A x, y \in 0 .. n - 1 : x < y => arr[x] <= arr[y] \/ Together(x, y)

\* The loop invariants of partition and of insertionSort.
Partitioned ==
    pc = "scan" => /\ \A k \in lo .. i : arr[k] <= arr[hi]
                   /\ \A k \in i + 1 .. j - 1 : arr[k] >= arr[hi]

PrefixSorted ==
    pc = "insert" => \A x, y \in lo .. i - 1 : x < y /\ y <= hi => arr[x] <= arr[y]

IInv ==
    /\ Control
    /\ Apart
    /\ OrderedApart
    /\ Partitioned
    /\ PrefixSorted
    /\ SortedAtEnd
-----------------------------------------------------------------------------
LEMMA ArrayLength ==
    ASSUME NEW len \in Nat, NEW a, DOMAIN a = 0 .. len - 1
    PROVE  Cardinality(DOMAIN a) = len
<1>1. Cardinality(0 .. len - 1) = IF 0 > len - 1 THEN 0 ELSE len - 1 - 0 + 1
  BY FS_Interval
<1> QED
  BY <1>1

LEMMA IInvInit == Init => IInv
<1> SUFFICES ASSUME Init PROVE IInv
  OBVIOUS
<1>1. PICK len \in 1 .. MaxLen : arr \in [0 .. len - 1 -> Value]
  BY DEF Init
<1>2. n = len /\ len \in Nat \ {0}
  BY <1>1, ArrayLength, SortingAssumption DEF n
<1>3. pc = "loop" /\ lo = 0 /\ hi = n - 1 /\ i = 0 /\ j = 0 /\ stack = <<>>
  BY DEF Init
<1>4. Control
  BY <1>1, <1>2, <1>3 DEF Control, Array, Frame
<1>5. Apart /\ OrderedApart
  BY <1>2, <1>3 DEF Apart, OrderedApart, Together
<1>6. Partitioned /\ PrefixSorted /\ SortedAtEnd
  BY <1>3 DEF Partitioned, PrefixSorted, SortedAtEnd
<1> QED
  BY <1>4, <1>5, <1>6 DEF IInv

\* Shuffling the elements of the current range leaves in order what belongs to
\* no range together.
OrderedAfter(b) ==
    \A x, y \in 0 .. n - 1 : x < y => b[x] <= b[y] \/ Together(x, y)

LEMMA ShuffleKeepsOrder ==
    ASSUME Control, Apart, OrderedApart, NEW b, Shuffled(arr, b, lo, hi)
    PROVE  OrderedAfter(b)
<1>1. n \in Nat /\ lo \in Int /\ hi \in Int /\ DOMAIN arr = 0 .. n - 1
  BY DEF Control, Array, Frame
<1>2. \A k \in lo .. hi : k \in 0 .. n - 1
  BY DEF Control, Frame
<1>3. \A p, q \in 0 .. n - 1 : p < q => arr[p] <= arr[q] \/ Together(p, q)
  BY DEF OrderedApart
<1> SUFFICES ASSUME NEW x \in 0 .. n - 1, NEW y \in 0 .. n - 1, x < y, ~Together(x, y)
             PROVE  b[x] <= b[y]
  BY DEF OrderedAfter
<1>4. CASE x \in lo .. hi
  <2>1. y \notin lo .. hi /\ y > hi
    BY <1>1, <1>4 DEF Together
  <2>2. PICK m \in lo .. hi : b[x] = arr[m]
    BY <1>4 DEF Shuffled
  <2>3. ~Together(m, y)
    BY <1>1, <1>4, <2>1, <2>2 DEF Together, Apart, Disjoint
  <2>4. m \in 0 .. n - 1 /\ m < y
    BY <1>1, <1>2, <2>1, <2>2
  <2>5. arr[m] <= arr[y] /\ b[y] = arr[y]
    BY <1>1, <1>3, <2>1, <2>3, <2>4 DEF Shuffled
  <2> QED
    BY <2>2, <2>5
<1>5. CASE y \in lo .. hi
  <2>1. x \notin lo .. hi /\ x < lo
    BY <1>1, <1>5 DEF Together
  <2>2. PICK m \in lo .. hi : b[y] = arr[m]
    BY <1>5 DEF Shuffled
  <2>3. ~Together(x, m)
    BY <1>1, <1>5, <2>1, <2>2 DEF Together, Apart, Disjoint
  <2>4. m \in 0 .. n - 1 /\ x < m
    BY <1>1, <1>2, <2>1, <2>2
  <2>5. arr[x] <= arr[m] /\ b[x] = arr[x]
    BY <1>1, <1>3, <2>1, <2>3, <2>4 DEF Shuffled
  <2> QED
    BY <2>2, <2>5
<1>6. CASE x \notin lo .. hi /\ y \notin lo .. hi
  BY <1>1, <1>3, <1>6 DEF Shuffled
<1> QED
  BY <1>4, <1>5, <1>6

LEMMA ShuffleInside ==
    ASSUME Control, Apart, OrderedApart,
           Shuffled(arr, arr', lo, hi), UNCHANGED <<lo, hi, stack>>
    PROVE  n' = n /\ Apart' /\ OrderedApart'
<1>1. n' = n
  BY DEF Shuffled, n
<1>2. Apart'
  BY DEF Apart, Disjoint
<1>3. OrderedAfter(arr')
  BY ShuffleKeepsOrder
<1>4. OrderedApart'
  BY <1>1, <1>3 DEF OrderedAfter, OrderedApart, Together
<1> QED
  BY <1>1, <1>2, <1>4

LEMMA RangeInside ==
    ASSUME Control, lo <= hi
    PROVE  Within(lo, hi, n) /\ DOMAIN arr = 0 .. n - 1 /\ lo \in lo .. hi /\ hi \in lo .. hi
BY DEF Control, Within, Frame, Array

LEMMA ChoosePivotStep == IInv /\ ChoosePivot => IInv'
<1> SUFFICES ASSUME IInv, ChoosePivot PROVE IInv'
  OBVIOUS
<1> USE DEF IInv
<1>1. /\ pc = "loop" /\ pc' = "scan" /\ hi - lo > InsertionCutoff
      /\ arr' = PivotLast(arr, lo, hi) /\ i' = lo - 1 /\ j' = lo
      /\ UNCHANGED <<lo, hi, stack>>
  BY DEF ChoosePivot
<1>2. lo < hi /\ lo \in Int /\ hi \in Int
  BY <1>1, SortingAssumption DEF Control, Frame
<1>3. Array(arr', n) /\ Shuffled(arr, arr', lo, hi)
  BY <1>1, <1>2, RangeInside, PivotLastShuffles DEF Control
<1>4. n' = n /\ Apart' /\ OrderedApart'
  BY <1>1, <1>3, ShuffleInside
<1>5. Control'
  BY <1>1, <1>2, <1>3, <1>4 DEF Control, Frame
<1>6. Partitioned' /\ PrefixSorted' /\ SortedAtEnd'
  BY <1>1, <1>2 DEF Partitioned, PrefixSorted, SortedAtEnd
<1> QED
  BY <1>4, <1>5, <1>6

LEMMA ScanStep == IInv /\ Scan => IInv'
<1> SUFFICES ASSUME IInv, Scan PROVE IInv'
  OBVIOUS
<1> USE DEF IInv
<1>1. pc = "scan" /\ pc' = "scan" /\ j < hi /\ j' = j + 1 /\ UNCHANGED <<lo, hi, stack>>
  BY DEF Scan, ScanEnd
<1>2. /\ lo < hi /\ lo \in Nat /\ hi \in 0 .. n - 1 /\ j \in lo .. hi - 1 /\ i \in lo - 1 .. j - 1
      /\ n \in Nat
  BY <1>1 DEF Control, Frame
<1>3. /\ \A k \in 0 .. n - 1 : arr[k] \in Int
      /\ \A k \in lo .. i : arr[k] <= arr[hi]
      /\ \A k \in i + 1 .. j - 1 : arr[k] >= arr[hi]
  BY <1>1, SortingAssumption DEF Control, Array, Partitioned
<1>4. Within(lo, hi, n) /\ DOMAIN arr = 0 .. n - 1
  BY <1>2, RangeInside
<1>5. PrefixSorted' /\ SortedAtEnd'
  BY <1>1 DEF PrefixSorted, SortedAtEnd
<1>6. CASE arr[j] <= arr[hi] /\ i' = i + 1 /\ arr' = Swap(arr, i + 1, j)
  <2>1. i + 1 \in lo .. hi /\ j \in lo .. hi
    BY <1>2
  <2>2. /\ Array(arr', n) /\ Shuffled(arr, arr', lo, hi)
        /\ \A k \in 0 .. n - 1 :
              arr'[k] = IF k = i + 1 THEN arr[j] ELSE IF k = j THEN arr[i + 1] ELSE arr[k]
    <3>1. Array(arr, n)
      BY DEF Control
    <3>2. Array(arr', n) /\ Shuffled(arr, arr', lo, hi)
      BY <1>4, <1>6, <2>1, <3>1, SwapShuffles
    <3> QED
      BY <1>2, <1>4, <1>6, <2>1, <3>2 DEF Swap
  <2>3. n' = n /\ Apart' /\ OrderedApart'
    BY <1>1, <2>2, ShuffleInside
  <2>4. Control'
    BY <1>1, <1>2, <1>6, <2>2, <2>3 DEF Control, Frame
  <2>5. Partitioned'
    <3>1. arr'[hi] = arr[hi]
      BY <1>2, <2>2
    <3>2. ASSUME NEW k \in lo .. i + 1
          PROVE  arr'[k] <= arr'[hi]
      BY <1>2, <1>3, <1>6, <2>2, <3>1
    <3>3. ASSUME NEW k \in i + 2 .. j
          PROVE  arr'[k] >= arr'[hi]
      <4>1. k \in 0 .. n - 1 /\ k # i + 1 /\ i + 1 \in i + 1 .. j - 1
        BY <1>2
      <4>2. CASE k = j
        BY <1>2, <1>3, <2>2, <3>1, <4>1, <4>2
      <4>3. CASE k # j
        BY <1>2, <1>3, <2>2, <3>1, <4>1, <4>3
      <4> QED
        BY <4>2, <4>3
    <3> QED
      BY <1>1, <1>2, <1>6, <3>2, <3>3 DEF Partitioned
  <2> QED
    BY <1>5, <2>3, <2>4, <2>5
<1>7. CASE arr[j] > arr[hi] /\ UNCHANGED <<i, arr>>
  <2>1. n' = n /\ Apart' /\ OrderedApart'
    BY <1>1, <1>7 DEF n, Apart, OrderedApart, Together
  <2>2. Control'
    BY <1>1, <1>2, <1>7, <2>1 DEF Control, Frame
  <2>3. Partitioned'
    <3>1. \A k \in i + 1 .. j : arr[k] >= arr[hi]
      BY <1>2, <1>3, <1>7
    <3> QED
      BY <1>1, <1>2, <1>3, <1>7, <3>1 DEF Partitioned
  <2> QED
    BY <1>5, <2>1, <2>2, <2>3
<1> QED
  BY <1>6, <1>7 DEF Scan

\* The two parts of a range and the pivot between them.
LEMMA PartsOrdered ==
    ASSUME IInv, pc = "scan", j = hi, arr' = Swap(arr, i + 1, hi)
    PROVE  /\ i + 1 \in lo .. hi
           /\ \A k \in lo .. i : arr'[k] <= arr'[i + 1]
           /\ \A k \in i + 2 .. hi : arr'[i + 1] <= arr'[k]
           /\ Array(arr', n) /\ Shuffled(arr, arr', lo, hi)
<1> USE DEF IInv
<1>1. /\ lo < hi /\ lo \in Nat /\ hi \in 0 .. n - 1 /\ i \in lo - 1 .. hi - 1 /\ n \in Nat
  BY DEF Control, Frame
<1>2. /\ \A k \in 0 .. n - 1 : arr[k] \in Int
      /\ \A k \in lo .. i : arr[k] <= arr[hi]
      /\ \A k \in i + 1 .. hi - 1 : arr[k] >= arr[hi]
  BY SortingAssumption DEF Control, Array, Partitioned
<1>3. Within(lo, hi, n) /\ DOMAIN arr = 0 .. n - 1 /\ Array(arr, n)
  BY <1>1, RangeInside DEF Control
<1>4. i + 1 \in lo .. hi /\ hi \in lo .. hi
  BY <1>1
<1> HIDE DEF IInv
<1>5. /\ Array(arr', n) /\ Shuffled(arr, arr', lo, hi)
      /\ \A k \in 0 .. n - 1 :
            arr'[k] = IF k = i + 1 THEN arr[hi] ELSE IF k = hi THEN arr[i + 1] ELSE arr[k]
  <2>1. Array(arr', n) /\ Shuffled(arr, arr', lo, hi)
    BY <1>3, <1>4, SwapShuffles
  <2> QED
    BY <1>1, <1>3, <1>4, <2>1 DEF Swap
<1>6. arr'[i + 1] = arr[hi]
  BY <1>1, <1>5
<1>7. ASSUME NEW k \in lo .. i
      PROVE  arr'[k] <= arr'[i + 1]
  BY <1>1, <1>2, <1>5, <1>6
<1>8. ASSUME NEW k \in i + 2 .. hi
      PROVE  arr'[i + 1] <= arr'[k]
  <2>1. k \in 0 .. n - 1 /\ i + 1 \in i + 1 .. hi - 1 /\ hi \in 0 .. n - 1
    BY <1>1
  <2>2. CASE k = hi
    BY <1>1, <1>2, <1>5, <1>6, <2>1, <2>2
  <2>3. CASE k # hi
    BY <1>1, <1>2, <1>5, <1>6, <2>1, <2>3
  <2> QED
    BY <2>2, <2>3
<1> QED
  BY <1>4, <1>5, <1>7, <1>8

LEMMA SplitStep == IInv /\ Split => IInv'
<1> SUFFICES ASSUME IInv, Split PROVE IInv'
  OBVIOUS
<1> DEFINE p     == i + 1
           left  == <<lo, p - 1>>
           right == <<p + 1, hi>>
<1>1. PICK first \in {left, right}, later \in {left, right} :
         /\ first # later
         /\ lo' = first[1] /\ hi' = first[2] /\ stack' = Append(stack, later)
  <2>1. left # right
    BY DEF IInv, Control, Frame, Split
  <2> QED
    BY <2>1 DEF Split, LeftPart, RightPart
<1>2. /\ pc = "scan" /\ pc' = "loop" /\ j >= hi /\ arr' = Swap(arr, p, hi) /\ i' = 0 /\ j' = 0
  BY DEF Split, ScanEnd
<1>3. /\ lo < hi /\ lo \in Nat /\ hi \in 0 .. n - 1 /\ j = hi /\ i \in lo - 1 .. j - 1
      /\ n \in Nat \ {0} /\ stack \in Seq(Frame) /\ Array(arr, n)
  BY <1>2 DEF IInv, Control, Frame
<1>4. /\ p \in lo .. hi
      /\ \A k \in lo .. p - 1 : arr'[k] <= arr'[p]
      /\ \A k \in p + 1 .. hi : arr'[p] <= arr'[k]
      /\ Array(arr', n) /\ Shuffled(arr, arr', lo, hi)
  BY <1>2, <1>3, PartsOrdered
<1>5. n' = n
  BY <1>4 DEF Shuffled, n
<1>6. left \in Frame /\ right \in Frame
  BY <1>3, <1>4 DEF Frame
<1>7. /\ stack' \in Seq(Frame)
      /\ Len(stack') = Len(stack) + 1
      /\ \A k \in 1 .. Len(stack) : stack'[k] = stack[k]
      /\ stack'[Len(stack) + 1] = later
  <2>1. stack \in Seq(Frame) /\ later \in Frame
    BY <1>1, <1>3, <1>6
  <2> QED
    BY <1>1, <2>1, AppendProperties
<1>8. Control'
  <2>1. Frame' = Frame
    BY <1>5 DEF Frame
  <2>2. <<lo', hi'>> \in Frame
    BY <1>1, <1>6
  <2> QED
    BY <1>2, <1>3, <1>4, <1>5, <1>7, <2>1, <2>2 DEF IInv, Control
<1>9. \A r \in {left, right}, k \in Int : k \in r[1] .. r[2] => k \in lo .. hi
  BY <1>3, <1>4
<1>10. Disjoint(left, right) /\ Disjoint(right, left)
  BY <1>3, <1>4 DEF Disjoint
<1> HIDE DEF left, right
<1>11. Len(stack) \in Nat
  BY <1>3
<1>12. Apart'
  <2>1. \A x \in 1 .. Len(stack), r \in {left, right} : Disjoint(stack[x], r) /\ Disjoint(r, stack[x])
    BY <1>9 DEF IInv, Apart, Disjoint
  <2>2. Disjoint(later, first)
    BY <1>1, <1>10
  <2>3. \A x, y \in 1 .. Len(stack') : x # y => Disjoint(stack'[x], stack'[y])
    BY <1>1, <1>7, <1>11, <2>1 DEF IInv, Apart
  <2>4. <<lo', hi'>> = first
    BY <1>1 DEF left, right
  <2>5. \A x \in 1 .. Len(stack') : Disjoint(stack'[x], <<lo', hi'>>)
    BY <1>1, <1>7, <1>11, <2>1, <2>2, <2>4
  <2> QED
    BY <2>3, <2>5 DEF Apart
<1>13. OrderedApart'
  <2> SUFFICES ASSUME NEW x \in 0 .. n - 1, NEW y \in 0 .. n - 1, x < y, ~Together(x, y)'
               PROVE  arr'[x] <= arr'[y]
    BY <1>5 DEF OrderedApart
  <2>1. ~(x \in left[1] .. left[2] /\ y \in left[1] .. left[2])
    BY <1>1, <1>7, <1>11 DEF Together
  <2>2. ~(x \in right[1] .. right[2] /\ y \in right[1] .. right[2])
    BY <1>1, <1>7, <1>11 DEF Together
  <2>3. CASE x \in lo .. hi /\ y \in lo .. hi
    <3>1. \/ x \in lo .. p - 1 /\ y = p
          \/ x = p /\ y \in p + 1 .. hi
          \/ x \in lo .. p - 1 /\ y \in p + 1 .. hi
      BY <1>3, <1>4, <2>1, <2>2, <2>3 DEF left, right
    <3>2. \A k \in 0 .. n - 1 : arr'[k] \in Int
      BY <1>4, SortingAssumption DEF Array
    <3> QED
      BY <1>3, <1>4, <3>1, <3>2
  <2>4. CASE ~(x \in lo .. hi /\ y \in lo .. hi)
    <3>1. ~Together(x, y)
      BY <1>7, <1>11, <2>4 DEF Together
    <3>2. OrderedAfter(arr')
      BY <1>3, <1>4, ShuffleKeepsOrder DEF IInv
    <3> QED
      BY <3>1, <3>2 DEF OrderedAfter
  <2> QED
    BY <2>3, <2>4
<1>14. Partitioned' /\ PrefixSorted' /\ SortedAtEnd'
  BY <1>2 DEF Partitioned, PrefixSorted, SortedAtEnd
<1> QED
  BY <1>8, <1>12, <1>13, <1>14 DEF IInv

LEMMA InsertionStep == IInv /\ (StartInsertion \/ Insert) => IInv'
<1> SUFFICES ASSUME IInv, StartInsertion \/ Insert PROVE IInv'
  OBVIOUS
<1> USE DEF IInv
<1>1. CASE StartInsertion
  <2>1. pc = "loop" /\ pc' = "insert" /\ i' = lo + 1 /\ UNCHANGED <<arr, lo, hi, j, stack>>
    BY <1>1 DEF StartInsertion
  <2>2. n' = n /\ Apart' /\ OrderedApart'
    BY <2>1 DEF n, Apart, OrderedApart, Together
  <2>3. Control'
    BY <2>1, <2>2 DEF Control, Frame
  <2>4. lo \in Int
    BY DEF Control, Frame
  <2> QED
    BY <2>1, <2>2, <2>3, <2>4 DEF Partitioned, PrefixSorted, SortedAtEnd
<1>2. CASE Insert
  <2>1. /\ pc = "insert" /\ pc' = "insert" /\ i <= hi /\ i' = i + 1
        /\ arr' = Inserted(arr, lo, i) /\ UNCHANGED <<lo, hi, j, stack>>
    BY <1>2 DEF Insert
  <2>2. lo \in Nat /\ hi \in 0 .. n - 1 /\ i \in lo + 1 .. hi /\ n \in Nat
    BY <2>1 DEF Control, Frame
  <2>3. Array(arr, n) /\ Within(lo, hi, n) /\ i \in lo .. hi
    BY <2>2, RangeInside DEF Control
  <2>4. \A x, y \in lo .. i - 1 : x < y => arr[x] <= arr[y]
    BY <2>1, <2>2 DEF PrefixSorted
  <2>5. /\ Array(arr', n) /\ Shuffled(arr, arr', lo, hi)
        /\ \A x, y \in lo .. i : x < y => arr'[x] <= arr'[y]
    BY <2>1, <2>3, <2>4, InsertedShuffles
  <2>6. n' = n /\ Apart' /\ OrderedApart'
    BY <2>1, <2>5, ShuffleInside
  <2>7. Control'
    BY <2>1, <2>2, <2>5, <2>6 DEF Control, Frame
  <2> QED
    BY <2>1, <2>2, <2>5, <2>6, <2>7 DEF Partitioned, PrefixSorted, SortedAtEnd
<1> QED
  BY <1>1, <1>2

\* A range that insertion sort is through with is sorted, and need not be
\* pending any more.
\* A stack without its last range.
LEMMA Popped ==
    ASSUME NEW S, NEW s \in Seq(S), Len(s) \in Nat \ {0}
    PROVE  LET rest == SubSeq(s, 1, Len(s) - 1) IN
              /\ rest \in Seq(S) /\ Len(rest) = Len(s) - 1
              /\ \A k \in 1 .. Len(s) - 1 : rest[k] = s[k]
<1> DEFINE last == Len(s) - 1
<1>1. \A k \in 1 .. last : s[k] \in S
  BY ElementOfSeq
<1>2. last \in Nat /\ 1 \in Int /\ last \in Int
  OBVIOUS
<1> HIDE DEF last
<1>3. /\ SubSeq(s, 1, last) \in Seq(S)
      /\ Len(SubSeq(s, 1, last)) = IF 1 <= last THEN last - 1 + 1 ELSE 0
      /\ \A k \in 1 .. last - 1 + 1 : SubSeq(s, 1, last)[k] = s[1 + k - 1]
  BY ONLY <1>1, <1>2, SubSeqProperties
<1>4. \A k \in 1 .. last : SubSeq(s, 1, last)[k] = s[k]
  BY <1>2, <1>3
<1>5. Len(SubSeq(s, 1, last)) = last
  BY <1>2, <1>3
<1> QED
  BY <1>3, <1>4, <1>5 DEF last

LEMMA ReturnStep == IInv /\ (Return \/ Finish) => IInv'
<1> SUFFICES ASSUME IInv, Return \/ Finish PROVE IInv'
  OBVIOUS
<1> USE DEF IInv
<1>1. pc = "insert" /\ i > hi /\ i' = 0 /\ UNCHANGED <<arr, j>> /\ n' = n
  BY DEF Return, Finish, n
<1>2. n \in Nat /\ lo \in Int /\ hi \in Int /\ i \in Int
  BY <1>1 DEF Control, Frame
<1>3. \A x, y \in lo .. hi : x < y => arr[x] <= arr[y]
  BY <1>1, <1>2 DEF PrefixSorted
<1>4. ASSUME NEW x \in 0 .. n - 1, NEW y \in 0 .. n - 1, x < y, ~(arr[x] <= arr[y])
      PROVE  \E k \in 1 .. Len(stack) :
                x \in stack[k][1] .. stack[k][2] /\ y \in stack[k][1] .. stack[k][2]
  BY <1>3, <1>4 DEF OrderedApart, Together
<1>5. CASE Return
  <2>1. /\ pc' = "loop" /\ stack # <<>>
        /\ lo' = stack[Len(stack)][1] /\ hi' = stack[Len(stack)][2]
        /\ stack' = SubSeq(stack, 1, Len(stack) - 1)
    BY <1>5 DEF Return
  <2>2. stack \in Seq(Frame) /\ Len(stack) \in Nat \ {0}
    BY <2>1, EmptySeq DEF Control
  <2>3. /\ stack' \in Seq(Frame) /\ Len(stack') = Len(stack) - 1
        /\ \A k \in 1 .. Len(stack) - 1 : stack'[k] = stack[k]
    BY <2>1, <2>2, Popped
  <2>4. stack[Len(stack)] \in Frame
    BY <2>2, ElementOfSeq
  <2>5. <<lo', hi'>> = stack[Len(stack)]
    BY <2>1, <2>4 DEF Frame
  <2>6. Control'
    <3>1. Frame' = Frame
      BY <1>1 DEF Frame
    <3> QED
      BY <1>1, <2>1, <2>3, <2>4, <2>5, <3>1 DEF Control
  <2>7. Apart'
    <3>1. \A x, y \in 1 .. Len(stack) : x # y => Disjoint(stack[x], stack[y])
      BY DEF Apart
    <3>2. \A x \in 1 .. Len(stack') : x \in 1 .. Len(stack) - 1 /\ x # Len(stack)
      BY <2>2, <2>3
    <3>3. Len(stack) \in 1 .. Len(stack)
      BY <2>2
    <3>4. \A x, y \in 1 .. Len(stack') : x # y => Disjoint(stack'[x], stack'[y])
      BY <2>2, <2>3, <3>1, <3>2
    <3>5. \A x \in 1 .. Len(stack') : Disjoint(stack'[x], stack[Len(stack)])
      BY <2>2, <2>3, <3>1, <3>2, <3>3
    <3> QED
      BY <2>5, <3>4, <3>5 DEF Apart
  <2>8. OrderedApart'
    <3> SUFFICES ASSUME NEW x \in 0 .. n - 1, NEW y \in 0 .. n - 1, x < y, ~(arr[x] <= arr[y])
                 PROVE  Together(x, y)'
      BY <1>1 DEF OrderedApart
    <3>1. PICK k \in 1 .. Len(stack) :
             x \in stack[k][1] .. stack[k][2] /\ y \in stack[k][1] .. stack[k][2]
      BY <1>4
    <3>2. CASE k = Len(stack)
      BY <2>1, <3>1, <3>2 DEF Together
    <3>3. CASE k \in 1 .. Len(stack) - 1
      BY <2>3, <3>1, <3>3 DEF Together
    <3> QED
      BY <2>2, <3>2, <3>3
  <2> QED
    BY <2>1, <2>6, <2>7, <2>8 DEF Partitioned, PrefixSorted, SortedAtEnd
<1>6. CASE Finish
  <2>1. pc' = "done" /\ stack = <<>> /\ UNCHANGED <<lo, hi, stack>>
    BY <1>6 DEF Finish
  <2>2. Apart' /\ OrderedApart'
    BY <1>1, <2>1 DEF Apart, OrderedApart, Together
  <2>3. Control'
    BY <1>1, <2>1 DEF Control, Frame
  <2>4. \A x, y \in 0 .. n - 1 : x < y => arr[x] <= arr[y]
    <3>1. Len(stack) = 0
      BY <2>1, EmptySeq
    <3> QED
      BY <1>4, <3>1
  <2>5. SortedAtEnd'
    BY <1>1, <1>2, <2>4 DEF SortedAtEnd
  <2> QED
    BY <2>1, <2>2, <2>3, <2>5 DEF Partitioned, PrefixSorted
<1> QED
  BY <1>5, <1>6

LEMMA IInvStep == IInv /\ [Next]_vars => IInv'
<1>1. IInv /\ UNCHANGED vars => IInv'
  BY DEF vars, IInv, Control, Apart, OrderedApart, Together, Partitioned, PrefixSorted,
         SortedAtEnd, Frame, n
<1> QED
  BY <1>1, ChoosePivotStep, ScanStep, SplitStep, InsertionStep, ReturnStep
     DEF Next, Step, Terminated

LEMMA Invariance == Spec => []IInv
<1> QED
  BY IInvInit, IInvStep, PTL DEF Spec
-----------------------------------------------------------------------------
(* What follows from it.                                                   *)

\* No index leaves the array, in no loop and in no range.
THEOREM SortingTypeOK == Spec => []TypeOK
<1>1. IInv => TypeOK
  <2> SUFFICES ASSUME IInv PROVE TypeOK
    OBVIOUS
  <2>1. Control /\ n \in Nat
    BY DEF IInv, Control
  <2>2. arr \in [0 .. n - 1 -> Value] /\ lo \in 0 .. n /\ hi \in -1 .. n - 1
    BY <2>1 DEF Control, Array, Frame
  <2>3. i \in -1 .. n + 1
    BY <2>1, <2>2 DEF Control
  <2>4. \A range \in Pending : range \in (0 .. n) \X (-1 .. n - 1)
    <3>1. \A k \in 1 .. Len(stack) : stack[k] \in Frame
      BY <2>1, ElementOfSeq DEF Control
    <3> QED
      BY <2>1, <3>1 DEF Pending, Frame, Control
  <2> QED
    BY <2>1, <2>2, <2>3, <2>4 DEF TypeOK, Control
<1> QED
  BY <1>1, Invariance, PTL

\* When quicksort returns, the array is sorted.
THEOREM SortingSorts == Spec => []SortedAtEnd
<1>1. IInv => SortedAtEnd
  BY DEF IInv
<1> QED
  BY <1>1, Invariance, PTL

\* Pending ranges keep apart: nothing that is still to move has to leave the
\* range it is in.
THEOREM SortingSeparated == Spec => []Separated
<1>1. IInv => Separated
  <2> SUFFICES ASSUME IInv, NEW range \in Pending,
                      NEW in \in range[1] .. range[2], NEW out \in DOMAIN arr
               PROVE  /\ out < range[1] => arr[out] <= arr[in]
                      /\ out > range[2] => arr[out] >= arr[in]
    BY DEF Separated
  <2>1. /\ n \in Nat /\ DOMAIN arr = 0 .. n - 1 /\ \A k \in 0 .. n - 1 : arr[k] \in Int
        /\ <<lo, hi>> \in Frame
    BY SortingAssumption DEF IInv, Control, Array
  <2>2. \A k \in 1 .. Len(stack) : stack[k] \in Frame
    BY ElementOfSeq DEF IInv, Control
  <2>3. range \in Frame
    BY <2>1, <2>2 DEF Pending
  <2>4. in \in 0 .. n - 1 /\ range[1] \in Int /\ range[2] \in Int
    BY <2>1, <2>3 DEF Frame
  <2>5. ASSUME NEW k \in Int, k \notin range[1] .. range[2]
        PROVE  ~Together(in, k) /\ ~Together(k, in)
    <3>1. CASE range = <<lo, hi>>
      BY <2>4, <2>5, <3>1 DEF IInv, Apart, Disjoint, Together
    <3>2. CASE range # <<lo, hi>>
      <4>1. PICK x \in 1 .. Len(stack) : range = stack[x]
        BY <3>2 DEF Pending
      <4>2. in \notin lo .. hi
        BY <2>4, <4>1 DEF IInv, Apart, Disjoint
      <4>3. \A y \in 1 .. Len(stack) : in \in stack[y][1] .. stack[y][2] => y = x
        BY <2>4, <4>1 DEF IInv, Apart, Disjoint
      <4> QED
        BY <2>5, <4>1, <4>2, <4>3 DEF Together
    <3> QED
      BY <3>1, <3>2
  <2> QED
    BY <2>1, <2>4, <2>5 DEF IInv, OrderedApart
<1> QED
  BY <1>1, Invariance, PTL

\* The array keeps its elements, each as often as before, in every step.
THEOREM SortingPermutes == Spec => Permutes
<1>1. ASSUME IInv, [Next]_vars
      PROVE  DOMAIN arr' = DOMAIN arr /\ \A v \in Value : Count(arr', v) = Count(arr, v)
  <2>1. CASE UNCHANGED arr
    BY <2>1 DEF Count
  <2>2. ASSUME lo <= hi, Shuffled(arr, arr', lo, hi)
        PROVE  DOMAIN arr' = DOMAIN arr /\ \A v \in Value : Count(arr', v) = Count(arr, v)
    BY <2>2 DEF Shuffled
  <2>3. Control /\ n \in Nat /\ <<lo, hi>> \in Frame /\ Array(arr, n)
    BY <1>1 DEF IInv, Control
  <2>4. CASE ChoosePivot
    <3>1. lo <= hi
      BY <2>3, <2>4, SortingAssumption DEF ChoosePivot, Frame
    <3>2. Shuffled(arr, arr', lo, hi)
      BY <2>3, <2>4, <3>1, RangeInside, PivotLastShuffles DEF ChoosePivot
    <3> QED
      BY <2>2, <3>1, <3>2
  <2>5. CASE Scan
    <3>1. lo <= hi /\ j \in lo .. hi /\ i + 1 \in lo .. hi
      BY <2>3, <2>5 DEF Scan, ScanEnd, Control, Frame
    <3>2. Within(lo, hi, n)
      BY <2>3, <3>1, RangeInside
    <3>3. Shuffled(arr, Swap(arr, i + 1, j), lo, hi)
      BY <2>3, <3>1, <3>2, SwapShuffles
    <3> QED
      BY <2>1, <2>2, <2>5, <3>1, <3>3 DEF Scan
  <2>6. CASE Split
    <3>1. pc = "scan" /\ arr' = Swap(arr, i + 1, hi) /\ lo < hi /\ j = hi /\ lo <= hi
      BY <2>3, <2>6 DEF Split, ScanEnd, Control, Frame
    <3>2. Shuffled(arr, arr', lo, hi)
      BY <1>1, <3>1, PartsOrdered
    <3> QED
      BY <2>2, <3>1, <3>2
  <2>7. CASE Insert
    <3>1. lo <= hi /\ i \in lo .. hi
      BY <2>3, <2>7 DEF Insert, Control, Frame
    <3>2. Within(lo, hi, n)
      BY <2>3, <3>1, RangeInside
    <3>3. Shuffled(arr, arr', lo, hi)
      BY <2>3, <2>7, <3>1, <3>2, InsertedShuffles DEF Insert
    <3> QED
      BY <2>2, <3>1, <3>3
  <2>8. CASE StartInsertion \/ Return \/ Finish \/ Terminated \/ UNCHANGED vars
    BY <2>1, <2>8 DEF StartInsertion, Return, Finish, Terminated, vars
  <2> QED
    BY <1>1, <2>4, <2>5, <2>6, <2>7, <2>8 DEF Next, Step
<1>2. IInv /\ [Next]_vars =>
         [DOMAIN arr' = DOMAIN arr /\ \A v \in Value : Count(arr', v) = Count(arr, v)]_vars
  BY <1>1
<1> QED
  BY <1>2, Invariance, PTL DEF Spec, Permutes
-----------------------------------------------------------------------------
(* The depth of the recursion.                                             *)

LEMMA PowerUnfolds ==
    PowerOfTwo = [k \in Nat |-> IF k = 0 THEN 1 ELSE 2 * PowerOfTwo[k - 1]]
<1> DEFINE Table(m) == {h \in [0 .. m -> Nat] :
                           h[0] = 1 /\ \A k \in 1 .. m : h[k] = 2 * h[k - 1]}
<1>1. \A m \in Nat : Table(m) # {}
  <2> DEFINE Bad == {m \in Nat : Table(m) = {}}
  <2> SUFFICES ASSUME Bad # {}
               PROVE  FALSE
    OBVIOUS
  <2>1. PICK m \in Bad : \A k \in Bad : m <= k
    BY LeastNatural
  <2>2. CASE m = 0
    <3>1. [k \in 0 .. 0 |-> 1] \in Table(0)
      OBVIOUS
    <3> QED
      BY <2>1, <2>2, <3>1
  <2>3. CASE m > 0
    <3>1. m - 1 \in Nat /\ m - 1 \notin Bad
      <4>1. m \in Nat /\ m - 1 < m
        BY <2>1
      <4> HIDE DEF Table
      <4> QED
        BY <2>1, <2>3, <4>1
    <3>2. PICK h \in Table(m - 1) : TRUE
      BY <3>1
    <3> DEFINE g == [k \in 0 .. m |-> IF k = m THEN 2 * h[m - 1] ELSE h[k]]
    <3>3. g \in Table(m)
      <4>1. h \in [0 .. m - 1 -> Nat] /\ h[0] = 1 /\ \A k \in 1 .. m - 1 : h[k] = 2 * h[k - 1]
        BY <3>2
      <4>2. m \in Nat /\ m - 1 \in 0 .. m - 1 /\ 0 \in 0 .. m - 1
        BY <2>1, <2>3
      <4>3. 2 * h[m - 1] \in Nat
        BY <4>1, <4>2
      <4>4. g \in [0 .. m -> Nat] /\ g[0] = 1
        BY <4>1, <4>2, <4>3
      <4>5. ASSUME NEW k \in 1 .. m
            PROVE  g[k] = 2 * g[k - 1]
        <5>1. CASE k = m
          BY <4>1, <4>2, <5>1
        <5>2. CASE k # m
          <6>1. k \in 1 .. m - 1 /\ k \in 0 .. m /\ k - 1 \in 0 .. m /\ k - 1 # m
            BY <4>2, <5>2
          <6>2. g[k] = h[k] /\ g[k - 1] = h[k - 1]
            BY <5>2, <6>1
          <6> QED
            BY <4>1, <6>1, <6>2
        <5> QED
          BY <5>1, <5>2
      <4> HIDE DEF g
      <4> QED
        BY <4>4, <4>5
    <3> HIDE DEF Table, g
    <3> QED
      BY <2>1, <3>3
  <2> QED
    BY <2>1, <2>2, <2>3
<1>2. ASSUME NEW m \in Nat, NEW p \in Nat, m <= p, NEW h \in Table(m), NEW g \in Table(p),
             NEW k \in 0 .. m
      PROVE  h[k] = g[k]
  <2> DEFINE Bad == {x \in 0 .. m : h[x] # g[x]}
  <2> SUFFICES ASSUME Bad # {}
               PROVE  FALSE
    OBVIOUS
  <2>1. Bad \in SUBSET Nat
    OBVIOUS
  <2>2. PICK x \in Bad : \A y \in Bad : x <= y
    BY <2>1, LeastNatural
  <2>3. x # 0 /\ x - 1 \in 0 .. m /\ x - 1 \notin Bad
    <3>1. x \in Nat /\ x <= m /\ h[0] = 1 /\ g[0] = 1 /\ h[x] # g[x]
      BY <1>2, <2>2
    <3>2. x # 0
      BY <3>1
    <3>3. x - 1 \in 0 .. m /\ x - 1 < x
      BY <3>1, <3>2
    <3> HIDE DEF Table
    <3> QED
      BY <2>2, <3>1, <3>2, <3>3
  <2>4. h[x] = 2 * h[x - 1] /\ g[x] = 2 * g[x - 1]
    BY <1>2, <2>2, <2>3
  <2> QED
    BY <2>2, <2>3, <2>4
<1> DEFINE first(m) == CHOOSE h : h \in Table(m)
           f == [m \in Nat |-> first(m)[m]]
<1>3. \A m \in Nat : first(m) \in Table(m)
  BY <1>1
<1>4. ASSUME NEW m \in Nat
      PROVE  f[m] = IF m = 0 THEN 1 ELSE 2 * f[m - 1]
  <2>1. CASE m = 0
    BY <1>3, <2>1
  <2>2. CASE m # 0
    <3>1. m - 1 \in Nat /\ m \in 1 .. m /\ m - 1 \in 0 .. m - 1
      BY <2>2
    <3>2. first(m)[m] = 2 * first(m)[m - 1]
      BY <1>3, <3>1
    <3>3. first(m - 1)[m - 1] = first(m)[m - 1]
      <4> HIDE DEF Table, first
      <4> QED
        BY <1>2, <1>3, <3>1
    <3>4. f[m] = first(m)[m] /\ f[m - 1] = first(m - 1)[m - 1]
      <4> HIDE DEF first
      <4> QED
        BY <3>1
    <3> HIDE DEF f, first, Table
    <3> QED
      BY <2>2, <3>2, <3>3, <3>4
  <2> QED
    <3> HIDE DEF f
    <3> QED
      BY <2>1, <2>2
<1>5. f = [k \in Nat |-> IF k = 0 THEN 1 ELSE 2 * f[k - 1]]
  <2> HIDE DEF f, first, Table
  <2>1. f = [m \in Nat |-> f[m]]
    BY DEF f
  <2> QED
    BY <1>4, <2>1
<1> HIDE DEF f
<1> QED
  BY <1>5 DEF PowerOfTwo

LEMMA PowerType == PowerOfTwo \in [Nat -> Nat]
<1> DEFINE Bad == {m \in Nat : PowerOfTwo[m] \notin Nat}
<1>1. Bad = {}
  <2> SUFFICES ASSUME Bad # {}
               PROVE  FALSE
    OBVIOUS
  <2>1. PICK m \in Bad : \A k \in Bad : m <= k
    BY LeastNatural
  <2>2. PowerOfTwo[m] = IF m = 0 THEN 1 ELSE 2 * PowerOfTwo[m - 1]
    BY PowerUnfolds
  <2>3. CASE m = 0
    BY <2>1, <2>2, <2>3
  <2>4. CASE m # 0
    <3>1. m - 1 \in Nat /\ PowerOfTwo[m - 1] \in Nat
      BY <2>1, <2>4
    <3> QED
      BY <2>1, <2>2, <2>4, <3>1
  <2> QED
    BY <2>3, <2>4
<1> QED
  BY <1>1, PowerUnfolds

\* The range that a caller at depth k goes on with, and the current one, each
\* have their share of the array.
Shares ==
    /\ PowerOfTwo[Len(stack)] * (Size(<<lo, hi>>) + 1) <= n + 1
    /\ \A k \in 1 .. Len(stack) : PowerOfTwo[k - 1] * (Size(stack[k]) + 1) <= n + 1

LEMMA SharesInit == Init => Shares
<1> SUFFICES ASSUME Init PROVE Shares
  OBVIOUS
<1>1. IInv /\ stack = <<>> /\ lo = 0 /\ hi = n - 1
  BY IInvInit DEF Init
<1>2. n \in Nat /\ Len(stack) = 0
  BY <1>1 DEF IInv, Control
<1>3. PowerOfTwo[0] = 1
  BY PowerUnfolds
<1> QED
  BY <1>1, <1>2, <1>3 DEF Shares, Size

\* The smaller part has at most half of what its range had; what is left for
\* later has no more than all of it.
LEMMA SharesSplit == IInv /\ Shares /\ Split => Shares'
<1> SUFFICES ASSUME IInv, Shares, Split PROVE Shares'
  OBVIOUS
<1> DEFINE p     == i + 1
           left  == <<lo, p - 1>>
           right == <<p + 1, hi>>
           first == IF RecurseLeft(left, right) THEN left ELSE right
           later == IF RecurseLeft(left, right) THEN right ELSE left
           d     == Len(stack)
<1>1. lo' = first[1] /\ hi' = first[2] /\ stack' = Append(stack, later) /\ arr' = Swap(arr, p, hi)
  BY DEF Split, LeftPart, RightPart
<1>2. /\ lo \in Int /\ hi \in Int /\ lo < hi /\ i \in lo - 1 .. hi - 1 /\ n \in Nat
      /\ stack \in Seq(Frame) /\ d \in Nat
  BY DEF IInv, Control, Frame, Split, ScanEnd
<1>3. n' = n
  BY <1>1 DEF Swap, n
<1>4. /\ left \in Int \X Int /\ right \in Int \X Int
      /\ Size(left) = i + 1 - lo /\ Size(right) = hi - i - 1 /\ Size(<<lo, hi>>) = hi - lo + 1
  BY <1>2 DEF Size
<1>5. /\ 2 * (Size(first) + 1) <= Size(<<lo, hi>>) + 1
      /\ Size(later) + 1 <= Size(<<lo, hi>>) + 1
      /\ Size(first) \in Int /\ Size(later) \in Int /\ Size(<<lo, hi>>) \in Int
  BY <1>2, <1>4 DEF RecurseLeft
<1>6. /\ left \in Frame /\ right \in Frame
  BY <1>2 DEF IInv, Control, Frame
<1>7. /\ first \in Frame /\ later \in Frame /\ <<lo', hi'>> = first
  BY <1>1, <1>6 DEF Frame
<1> HIDE DEF first, later, left, right, p
<1>8. /\ Len(stack') = d + 1
      /\ \A k \in 1 .. d : stack'[k] = stack[k]
      /\ stack'[d + 1] = later
  BY <1>1, <1>2, <1>7, AppendProperties
<1>9. PowerOfTwo[d] \in Nat /\ PowerOfTwo[d + 1] = 2 * PowerOfTwo[d]
  BY <1>2, PowerUnfolds, PowerType
<1> HIDE DEF d
<1>10. PowerOfTwo[d] * (Size(<<lo, hi>>) + 1) <= n + 1
  BY DEF Shares, d
<1>11. PowerOfTwo[d + 1] * (Size(first) + 1) <= n + 1
  <2> DEFINE a == 2 * (Size(first) + 1)
             b == Size(<<lo, hi>>) + 1
  <2>1. a \in Int /\ b \in Int /\ a <= b
    BY <1>5
  <2>2. PowerOfTwo[d] * a <= PowerOfTwo[d] * b
    <3> HIDE DEF a, b
    <3> QED
      BY <1>9, <2>1, TimesMonotonic
  <2>3. PowerOfTwo[d + 1] * (Size(first) + 1) = PowerOfTwo[d] * a
    BY <1>5, <1>9
  <2>4. PowerOfTwo[d] * a <= n + 1
    <3>1. PowerOfTwo[d] * b <= n + 1
      BY <1>10
    <3> HIDE DEF a, b
    <3>2. PowerOfTwo[d] * a \in Int /\ PowerOfTwo[d] * b \in Int
      BY <1>9, <2>1
    <3> QED
      BY <1>2, <2>2, <3>1, <3>2
  <2> QED
    BY <2>3, <2>4
<1>12. PowerOfTwo[d] * (Size(later) + 1) <= n + 1
  <2> DEFINE a == Size(later) + 1
             b == Size(<<lo, hi>>) + 1
  <2>1. a \in Int /\ b \in Int /\ a <= b
    BY <1>5
  <2>2. PowerOfTwo[d] * a <= PowerOfTwo[d] * b
    <3> HIDE DEF a, b
    <3> QED
      BY <1>9, <2>1, TimesMonotonic
  <2> QED
    BY <1>2, <1>5, <1>9, <1>10, <2>2
<1>13. ASSUME NEW k \in 1 .. d + 1
       PROVE  PowerOfTwo[k - 1] * (Size(stack'[k]) + 1) <= n + 1
  <2>1. CASE k = d + 1
    BY <1>2, <1>8, <1>12, <2>1 DEF d
  <2>2. CASE k # d + 1
    <3>1. k \in 1 .. d
      BY <1>2, <2>2
    <3> QED
      BY <1>8, <3>1 DEF Shares, d
  <2> QED
    BY <2>1, <2>2
<1> QED
  BY <1>3, <1>7, <1>8, <1>11, <1>13 DEF Shares

LEMMA SharesReturn == IInv /\ Shares /\ Return => Shares'
<1> SUFFICES ASSUME IInv, Shares, Return PROVE Shares'
  OBVIOUS
<1> DEFINE d == Len(stack)
<1>1. /\ stack # <<>> /\ n' = n
      /\ lo' = stack[d][1] /\ hi' = stack[d][2]
      /\ stack' = SubSeq(stack, 1, d - 1)
  BY DEF Return, n
<1>2. stack \in Seq(Frame) /\ d \in Nat \ {0}
  BY <1>1, EmptySeq DEF IInv, Control
<1>3. Len(stack') = d - 1 /\ \A k \in 1 .. d - 1 : stack'[k] = stack[k]
  BY <1>1, <1>2, Popped
<1>4. stack[d] \in Frame
  BY <1>2, ElementOfSeq
<1>5. <<lo', hi'>> = stack[d]
  BY <1>1, <1>4 DEF Frame
<1>6. \A k \in 1 .. d : PowerOfTwo[k - 1] * (Size(stack[k]) + 1) <= n + 1
  BY DEF Shares
<1> HIDE DEF d
<1>7. PowerOfTwo[Len(stack')] * (Size(<<lo', hi'>>) + 1) <= n + 1
  BY <1>2, <1>3, <1>5, <1>6
<1>8. \A k \in 1 .. Len(stack') : PowerOfTwo[k - 1] * (Size(stack'[k]) + 1) <= n + 1
  <2> TAKE k \in 1 .. Len(stack')
  <2>1. k \in 1 .. d - 1 /\ k \in 1 .. d
    BY <1>2, <1>3
  <2> QED
    BY <1>3, <1>6, <2>1
<1> QED
  BY <1>1, <1>7, <1>8 DEF Shares

\* However the pivots fall, the calls that wait at one time are no more than
\* the logarithm of the array's length.
THEOREM SortingDepthLogarithmic == Spec => []DepthLogarithmic
<1>1. IInv /\ Shares /\ [Next]_vars => Shares'
  <2> SUFFICES ASSUME IInv, Shares, [Next]_vars PROVE Shares'
    OBVIOUS
  <2>1. CASE ChoosePivot
    <3>1. lo \in 0 .. n - 1 /\ hi \in 0 .. n - 1 /\ lo <= hi /\ Array(arr, n)
      BY <2>1, SortingAssumption DEF ChoosePivot, IInv, Control, Frame
    <3>2. DOMAIN arr' = DOMAIN arr
      BY <2>1 DEF ChoosePivot, PivotLast, MedianOfThree, SwapUnlessOrdered, Swap
    <3> QED
      BY <2>1, <3>2 DEF ChoosePivot, Shares, n
  <2>2. CASE Scan
    <3>1. DOMAIN arr' = DOMAIN arr
      BY <2>2 DEF Scan, Swap
    <3> QED
      BY <2>2, <3>1 DEF Scan, Shares, n
  <2>3. CASE Split
    BY <2>3, SharesSplit
  <2>4. CASE Insert
    <3>1. DOMAIN arr' = DOMAIN arr
      BY <2>4 DEF Insert, Inserted
    <3> QED
      BY <2>4, <3>1 DEF Insert, Shares, n
  <2>5. CASE Return
    BY <2>5, SharesReturn
  <2>6. CASE StartInsertion \/ Finish \/ Terminated \/ UNCHANGED vars
    BY <2>6 DEF StartInsertion, Finish, Terminated, vars, Shares, n
  <2> QED
    BY <2>1, <2>2, <2>3, <2>4, <2>5, <2>6 DEF Next, Step
<1>2. Shares => DepthLogarithmic
  BY DEF Shares, DepthLogarithmic
<1> QED
  BY <1>1, <1>2, SharesInit, Invariance, PTL DEF Spec
=============================================================================
