------------------------------- MODULE Basics -------------------------------
(***************************************************************************)
(* What the proofs need to know about numbers, sums and slices.  A set of  *)
(* natural numbers that is not empty has a least element: taken of the set *)
(* of those that lack a property, this is induction, for any property that *)
(* can be written down as a set.                                           *)
(***************************************************************************)
EXTENDS Integers, Functions, Collections, FiniteSetTheorems, TLAPS

\* A set of natural numbers that is not empty has a least element.
LEMMA LeastNatural ==
    ASSUME NEW S \in SUBSET Nat, S # {}
    PROVE  \E m \in S : \A k \in S : m <= k
<1> DEFINE R == {x \in Nat \X Nat : x[1] < x[2]}
<1>1. IsWellFoundedOn(R, Nat)
  BY NatLessThanWellFounded DEF OpToRel
<1>2. PICK m \in S : \A k \in S : <<k, m>> \notin R
  BY ONLY <1>1, WFMin, S \in SUBSET Nat, S # {}
<1>3. ASSUME NEW k \in S
      PROVE  m <= k
  <2>1. k \in Nat /\ m \in Nat /\ <<k, m>> \notin R
    BY <1>2
  <2>2. ~(k < m)
    BY <2>1
  <2> QED
    BY <2>1, <2>2
<1> QED
  BY <1>3

\* A finite set of integers that is not empty has a least element...
LEMMA LeastInteger ==
    ASSUME NEW S \in SUBSET Int, IsFiniteSet(S), S # {}
    PROVE  \E m \in S : \A k \in S : m <= k
<1> DEFINE Below(m) == {k \in S : k <= m}
           Sizes    == {Cardinality(Below(m)) : m \in S}
<1>1. \A m \in S : IsFiniteSet(Below(m)) /\ Cardinality(Below(m)) \in Nat
  BY FS_Subset, FS_CardinalityType
<1>2. Sizes \in SUBSET Nat /\ Sizes # {}
  BY <1>1
<1>3. PICK size \in Sizes : \A other \in Sizes : size <= other
  BY <1>2, LeastNatural
<1>4. PICK m \in S : size = Cardinality(Below(m))
  BY DEF Sizes
<1>5. ASSUME NEW k \in S, ~(m <= k)
      PROVE  FALSE
  <2>1. Below(k) \in SUBSET Below(m) /\ m \in Below(m) /\ m \notin Below(k)
    <3>1. m \in Int /\ k \in Int /\ k < m /\ S \in SUBSET Int
      BY <1>5
    <3>2. ASSUME NEW x \in Below(k)
          PROVE  x \in Below(m)
      <4>1. x \in S /\ x \in Int /\ x <= k
        OBVIOUS
      <4> QED
        BY <3>1, <4>1
    <3>3. m \in Below(m) /\ m \notin Below(k)
      BY <3>1
    <3> HIDE DEF Below
    <3> QED
      BY <3>2, <3>3
  <2>2. Below(k) # Below(m)
    BY <2>1
  <2>3. Cardinality(Below(k)) <= Cardinality(Below(m)) /\ Cardinality(Below(k)) # Cardinality(Below(m))
    <3> HIDE DEF Below
    <3> QED
      BY <1>1, <2>1, <2>2, FS_Subset
  <2>4. Cardinality(Below(m)) <= Cardinality(Below(k))
    BY <1>3, <1>4, <1>5
  <2> QED
    <3> HIDE DEF Below
    <3> QED
      BY <1>1, <2>3, <2>4
<1> HIDE DEF Below
<1> QED
  BY <1>5

\* ... and a greatest one.
LEMMA GreatestInteger ==
    ASSUME NEW S \in SUBSET Int, IsFiniteSet(S), S # {}
    PROVE  \E m \in S : \A k \in S : m >= k
<1> DEFINE T == {-k : k \in S}
           f == [k \in S |-> -k]
<1>1. f \in Surjection(S, T)
  BY DEF Surjection
<1>2. IsFiniteSet(T) /\ T \in SUBSET Int /\ T # {}
  <2>1. IsFiniteSet(T)
    <3> HIDE DEF f, T
    <3> QED
      BY <1>1, FS_Surjection
  <2>2. T # {}
    OBVIOUS
  <2>3. ASSUME NEW t \in T
        PROVE  t \in Int
    <3>1. PICK k \in S : t = -k
      OBVIOUS
    <3>2. k \in Int
      OBVIOUS
    <3> QED
      BY <3>1, <3>2
  <2> HIDE DEF T
  <2> QED
    BY <2>1, <2>2, <2>3
<1>3. PICK t \in T : \A k \in T : t <= k
  BY <1>2, LeastInteger
<1>4. PICK m \in S : t = -m
  OBVIOUS
<1>5. ASSUME NEW k \in S
      PROVE  m >= k
  BY <1>3, <1>4
<1> QED
  BY <1>5

\* Multiplication with a natural number is monotonic.
LEMMA TimesMonotonic ==
    ASSUME NEW p \in Nat, NEW a \in Int, NEW b \in Int, a <= b
    PROVE  p * a <= p * b
OBVIOUS
-----------------------------------------------------------------------------
(* The sum of a function's values, which is defined by taking arguments    *)
(* out of its domain in some order.                                        *)

Some(s) == CHOOSE x \in s : TRUE

SumStep(f, sums) ==
    [s \in SUBSET DOMAIN f |-> IF s = {} THEN 0 ELSE f[Some(s)] + sums[s \ {Some(s)}]]

\* The sum over each part of the domain.
Sums(f) == CHOOSE sums : sums = SumStep(f, sums)

Summable(f) == IsFiniteSet(DOMAIN f) /\ f \in [DOMAIN f -> Int]

LEMMA SumIsPartial == ASSUME NEW f PROVE SumFunction(f) = Sums(f)[DOMAIN f]
BY DEF SumFunction, SumFunctionOnSet, FoldFunctionOnSet, MapThenFoldSet, Sums, SumStep, Some

LEMMA Parts ==
    ASSUME NEW S, IsFiniteSet(S), NEW s \in SUBSET S
    PROVE  /\ IsFiniteSet(s) /\ Cardinality(s) \in Nat /\ Cardinality(s) <= Cardinality(S)
           /\ \A x \in s : /\ s \ {x} \in SUBSET S
                           /\ Cardinality(s \ {x}) = Cardinality(s) - 1
           /\ s # {} => Some(s) \in s
<1>1. IsFiniteSet(s) /\ Cardinality(s) \in Nat /\ Cardinality(s) <= Cardinality(S)
  BY FS_Subset, FS_CardinalityType
<1>2. \A x \in s : Cardinality(s \ {x}) = Cardinality(s) - 1
  BY <1>1, FS_RemoveElement
<1> QED
  BY <1>1, <1>2 DEF Some

\* The sums over the parts exist.
LEMMA SumsUnfold ==
    ASSUME NEW f, Summable(f)
    PROVE  Sums(f) = SumStep(f, Sums(f))
<1> DEFINE S      == DOMAIN f
           Sub(m) == {s \in SUBSET S : Cardinality(s) <= m}
           Right(h, s) == h[s] = IF s = {} THEN 0 ELSE f[Some(s)] + h[s \ {Some(s)}]
           Table(m) == {h \in [Sub(m) -> Int] : \A s \in Sub(m) : Right(h, s)}
<1>1. IsFiniteSet(S) /\ f \in [S -> Int]
  BY DEF Summable
<1> HIDE DEF S
<1>2. Table(0) # {}
  <2> DEFINE h == [s \in Sub(0) |-> 0]
  <2>1. \A s \in Sub(0) : s = {}
    BY <1>1, Parts, FS_EmptySet
  <2>2. h \in Table(0)
    BY <2>1
  <2> QED
    BY <2>2
<1>3. ASSUME NEW m \in Nat, NEW h \in Table(m)
      PROVE  Table(m + 1) # {}
  <2> DEFINE g == [s \in Sub(m + 1) |-> IF s = {} THEN 0 ELSE f[Some(s)] + h[s \ {Some(s)}]]
  <2>1. h \in [Sub(m) -> Int] /\ \A s \in Sub(m) : Right(h, s)
    OBVIOUS
  <2>2. ASSUME NEW s \in Sub(m + 1), s # {}
        PROVE  Some(s) \in S /\ s \ {Some(s)} \in Sub(m)
    <3>1. s \in SUBSET S /\ Cardinality(s) <= m + 1
      OBVIOUS
    <3>2. Some(s) \in s /\ Cardinality(s \ {Some(s)}) = Cardinality(s) - 1 /\ Cardinality(s) \in Nat
      BY <1>1, <2>2, <3>1, Parts
    <3> QED
      BY <3>1, <3>2
  <2>3. Sub(m) \subseteq Sub(m + 1)
    <3>1. \A s \in SUBSET S : Cardinality(s) \in Nat
      BY <1>1, Parts
    <3> QED
      BY <3>1
  <2> HIDE DEF Sub
  <2>4. g \in [Sub(m + 1) -> Int]
    BY <1>1, <2>1, <2>2
  <2>5. \A s \in Sub(m) : g[s] = h[s]
    BY <2>1, <2>3
  <2>6. \A s \in Sub(m + 1) : Right(g, s)
    <3> TAKE s \in Sub(m + 1)
    <3>1. CASE s = {}
      BY <3>1
    <3>2. CASE s # {}
      <4>1. g[s] = f[Some(s)] + h[s \ {Some(s)}]
        BY <3>2
      <4>2. g[s \ {Some(s)}] = h[s \ {Some(s)}]
        <5> HIDE DEF g
        <5> QED
          BY <2>2, <2>5, <3>2
      <4> HIDE DEF g
      <4> QED
        BY <3>2, <4>1, <4>2
    <3> QED
      BY <3>1, <3>2
  <2>7. g \in Table(m + 1)
    <3> HIDE DEF g, Right
    <3> QED
      BY <2>4, <2>6
  <2> QED
    BY <2>7
<1>4. \A m \in Nat : Table(m) # {}
  <2> HIDE DEF Table
  <2> DEFINE Bad == {m \in Nat : Table(m) = {}}
  <2> SUFFICES ASSUME Bad # {}
               PROVE  FALSE
    OBVIOUS
  <2>1. PICK m \in Bad : \A k \in Bad : m <= k
    BY LeastNatural
  <2>2. m \in Nat /\ m # 0 /\ m - 1 \notin Bad
    BY <1>2, <2>1
  <2>3. m - 1 \in Nat /\ Table(m - 1) # {} /\ m - 1 + 1 = m
    BY <2>2
  <2> QED
    BY <1>3, <2>1, <2>3
<1>5. Cardinality(S) \in Nat /\ Sub(Cardinality(S)) = SUBSET S
  BY <1>1, Parts
<1>6. PICK h \in Table(Cardinality(S)) : TRUE
  BY <1>4, <1>5
<1>7. h = SumStep(f, h)
  <2>1. h \in [SUBSET S -> Int] /\ \A s \in SUBSET S : Right(h, s)
    BY <1>5, <1>6
  <2> QED
    BY <2>1 DEF SumStep, S
<1> QED
  BY <1>7 DEF Sums

LEMMA SumsOf ==
    ASSUME NEW f, Summable(f), NEW s \in SUBSET DOMAIN f
    PROVE  /\ s = {} => Sums(f)[s] = 0
           /\ s # {} => Sums(f)[s] = f[Some(s)] + Sums(f)[s \ {Some(s)}]
<1>1. Sums(f) = SumStep(f, Sums(f))
  BY SumsUnfold
<1>2. SumStep(f, Sums(f))[s] = IF s = {} THEN 0 ELSE f[Some(s)] + Sums(f)[s \ {Some(s)}]
  BY DEF SumStep
<1> QED
  BY <1>1, <1>2

LEMMA SumsType ==
    ASSUME NEW f, Summable(f), NEW s \in SUBSET DOMAIN f
    PROVE  Sums(f)[s] \in Int
<1> DEFINE S   == DOMAIN f
           Bad == {m \in Nat : \E u \in SUBSET S : Cardinality(u) = m /\ Sums(f)[u] \notin Int}
<1>1. IsFiniteSet(S) /\ f \in [S -> Int]
  BY DEF Summable
<1>2. Bad = {}
  <2> SUFFICES ASSUME Bad # {}
               PROVE  FALSE
    OBVIOUS
  <2>1. PICK m \in Bad : \A k \in Bad : m <= k
    BY LeastNatural
  <2>2. PICK u \in SUBSET S : Cardinality(u) = m /\ Sums(f)[u] \notin Int
    BY <2>1
  <2>3. u \in SUBSET DOMAIN f /\ u # {}
    <3>1. u \in SUBSET DOMAIN f
      OBVIOUS
    <3>2. u = {} => Sums(f)[u] = 0
      BY <3>1, SumsOf
    <3> QED
      BY <2>2, <3>1, <3>2
  <2>4. Some(u) \in u /\ u \ {Some(u)} \in SUBSET S /\ Cardinality(u \ {Some(u)}) = m - 1
    BY <1>1, <2>2, <2>3, Parts
  <2>5. m - 1 \in Nat
    BY <1>1, <2>4, Parts
  <2>6. m - 1 \notin Bad
    BY <2>1, <2>5
  <2>7. Sums(f)[u \ {Some(u)}] \in Int
    BY <2>4, <2>5, <2>6
  <2>8. f[Some(u)] \in Int
    BY <1>1, <2>4
  <2>9. Sums(f)[u] = f[Some(u)] + Sums(f)[u \ {Some(u)}]
    BY <2>3, SumsOf
  <2> QED
    BY <2>2, <2>7, <2>8, <2>9
<1>3. Cardinality(s) \in Nat
  BY <1>1, Parts
<1> QED
  BY <1>2, <1>3

\* It does not matter which argument is taken first.
LEMMA SumsAnyOrder ==
    ASSUME NEW f, Summable(f), NEW s \in SUBSET DOMAIN f, NEW x \in s
    PROVE  Sums(f)[s] = f[x] + Sums(f)[s \ {x}]
<1> DEFINE S   == DOMAIN f
           Off(u, y) == Sums(f)[u] # f[y] + Sums(f)[u \ {y}]
           Bad == {m \in Nat : \E u \in SUBSET S : \E y \in u : Cardinality(u) = m /\ Off(u, y)}
<1>1. IsFiniteSet(S) /\ f \in [S -> Int]
  BY DEF Summable
<1>2. Bad = {}
  <2> SUFFICES ASSUME Bad # {}
               PROVE  FALSE
    OBVIOUS
  <2>1. PICK m \in Bad : \A k \in Bad : m <= k
    BY LeastNatural
  <2>2. PICK u \in SUBSET S : \E y \in u : Cardinality(u) = m /\ Off(u, y)
    BY <2>1
  <2>3. PICK y \in u : Cardinality(u) = m /\ Off(u, y)
    BY <2>2
  <2> DEFINE c == Some(u)
  <2>4. c \in u /\ Sums(f)[u] = f[c] + Sums(f)[u \ {c}]
    BY <1>1, <2>2, SumsOf, Parts
  <2>5. y # c
    BY <2>3, <2>4
  <2>6. /\ u \ {c} \in SUBSET S /\ Cardinality(u \ {c}) = m - 1
        /\ u \ {y} \in SUBSET S /\ Cardinality(u \ {y}) = m - 1
        /\ m - 1 \in Nat
    BY <1>1, <2>2, <2>4, Parts
  <2>7. m - 1 \notin Bad
    <3>1. m \in Nat /\ m - 1 < m
      BY <2>1
    <3> HIDE DEF Bad
    <3> QED
      BY <2>1, <2>6, <3>1
  <2> HIDE DEF c
  <2>8. Sums(f)[u \ {c}] = f[y] + Sums(f)[(u \ {c}) \ {y}]
    BY <2>3, <2>5, <2>6, <2>7
  <2>9. Sums(f)[u \ {y}] = f[c] + Sums(f)[(u \ {y}) \ {c}]
    BY <2>4, <2>5, <2>6, <2>7
  <2>10. (u \ {c}) \ {y} = (u \ {y}) \ {c}
    OBVIOUS
  <2>11. f[y] \in Int /\ f[c] \in Int /\ Sums(f)[(u \ {y}) \ {c}] \in Int
    <3>1. y \in S /\ c \in S /\ (u \ {y}) \ {c} \in SUBSET S
      BY <2>4
    <3> QED
      BY <1>1, <3>1, SumsType
  <2> DEFINE both == Sums(f)[(u \ {y}) \ {c}]
  <2>12. Sums(f)[u] = f[c] + (f[y] + both) /\ Sums(f)[u \ {y}] = f[c] + both /\ both \in Int
    BY <2>4, <2>8, <2>9, <2>10, <2>11
  <2> HIDE DEF both
  <2>13. Sums(f)[u] = f[y] + Sums(f)[u \ {y}]
    BY <2>11, <2>12
  <2> QED
    BY <2>3, <2>13
<1>3. Cardinality(s) \in Nat
  BY <1>1, Parts
<1> QED
  BY <1>2, <1>3

\* A sum over a part depends on the values there only.
LEMMA SumsAgree ==
    ASSUME NEW f, Summable(f), NEW g, Summable(g),
           NEW T \in SUBSET DOMAIN f, T \in SUBSET DOMAIN g, \A x \in T : f[x] = g[x]
    PROVE  Sums(f)[T] = Sums(g)[T]
<1> DEFINE Bad == {m \in Nat : \E u \in SUBSET T : Cardinality(u) = m /\ Sums(f)[u] # Sums(g)[u]}
<1>1. IsFiniteSet(T)
  BY FS_Subset DEF Summable
<1>2. Bad = {}
  <2> SUFFICES ASSUME Bad # {}
               PROVE  FALSE
    OBVIOUS
  <2>1. PICK m \in Bad : \A k \in Bad : m <= k
    BY LeastNatural
  <2>2. PICK u \in SUBSET T : Cardinality(u) = m /\ Sums(f)[u] # Sums(g)[u]
    BY <2>1
  <2>3. u \in SUBSET DOMAIN f /\ u \in SUBSET DOMAIN g
    OBVIOUS
  <2>4. u # {}
    BY <2>2, <2>3, SumsOf
  <2> DEFINE rest == u \ {Some(u)}
  <2>5. Some(u) \in u /\ rest \in SUBSET T /\ Cardinality(rest) = m - 1
    BY <1>1, <2>2, <2>4, Parts
  <2>6. m - 1 \in Nat
    BY <1>1, <2>5, Parts
  <2>7. Sums(f)[rest] = Sums(g)[rest]
    <3>1. m - 1 \notin Bad
      BY <2>1, <2>6
    <3> HIDE DEF rest
    <3> QED
      BY <2>5, <2>6, <3>1
  <2>8. f[Some(u)] = g[Some(u)]
    BY <2>5
  <2>9. /\ Sums(f)[u] = f[Some(u)] + Sums(f)[rest]
        /\ Sums(g)[u] = g[Some(u)] + Sums(g)[rest]
    BY <2>3, <2>4, SumsOf
  <2> QED
    BY <2>2, <2>7, <2>8, <2>9
<1>3. Cardinality(T) \in Nat
  BY <1>1, FS_CardinalityType
<1> QED
  BY <1>2, <1>3

LEMMA SumOfNone == ASSUME NEW f, DOMAIN f = {}, f \in [{} -> Int] PROVE SumFunction(f) = 0
BY SumIsPartial, SumsOf, FS_EmptySet DEF Summable

LEMMA SumType == ASSUME NEW f, Summable(f) PROVE SumFunction(f) \in Int
BY SumIsPartial, SumsType

\* Some argument may be taken out of the sum.
LEMMA SumTakenOut ==
    ASSUME NEW f, Summable(f), NEW x \in DOMAIN f, NEW g,
           DOMAIN g = DOMAIN f \ {x}, g = [y \in DOMAIN g |-> f[y]]
    PROVE  Summable(g) /\ SumFunction(f) = f[x] + SumFunction(g)
<1>1. Summable(g)
  <2>1. IsFiniteSet(DOMAIN g)
    BY FS_RemoveElement DEF Summable
  <2>2. g \in [DOMAIN g -> Int]
    BY DEF Summable
  <2> QED
    BY <2>1, <2>2 DEF Summable
<1>2. Sums(f)[DOMAIN g] = Sums(g)[DOMAIN g]
  BY <1>1, SumsAgree
<1>3. Sums(f)[DOMAIN f] = f[x] + Sums(f)[DOMAIN f \ {x}]
  BY SumsAnyOrder
<1> QED
  BY <1>1, <1>2, <1>3, SumIsPartial

\* The sum of equal values.
LEMMA SumOfEqual ==
    ASSUME NEW f, Summable(f), NEW v \in Int, \A x \in DOMAIN f : f[x] = v
    PROVE  SumFunction(f) = Cardinality(DOMAIN f) * v
<1> DEFINE S   == DOMAIN f
           Bad == {m \in Nat : \E u \in SUBSET S : Cardinality(u) = m /\ Sums(f)[u] # m * v}
<1>1. IsFiniteSet(S) /\ f \in [S -> Int]
  BY DEF Summable
<1>2. Bad = {}
  <2> SUFFICES ASSUME Bad # {}
               PROVE  FALSE
    OBVIOUS
  <2>1. PICK m \in Bad : \A k \in Bad : m <= k
    BY LeastNatural
  <2>2. PICK u \in SUBSET S : Cardinality(u) = m /\ Sums(f)[u] # m * v
    BY <2>1
  <2>3. u # {}
    <3>1. ASSUME u = {}
          PROVE  FALSE
      <4>1. m = 0 /\ Sums(f)[u] = 0
        BY <2>2, <3>1, FS_EmptySet, SumsOf
      <4> QED
        BY <2>2, <4>1
    <3> QED
      BY <3>1
  <2> DEFINE rest == u \ {Some(u)}
  <2>4. Some(u) \in u /\ rest \in SUBSET S /\ Cardinality(rest) = m - 1
    BY <1>1, <2>2, <2>3, Parts
  <2>5. m - 1 \in Nat /\ m \in Nat
    BY <1>1, <2>1, <2>4, Parts
  <2>6. Sums(f)[rest] = (m - 1) * v
    <3>1. m - 1 \notin Bad
      BY <2>1, <2>5
    <3> HIDE DEF rest
    <3> QED
      BY <2>4, <2>5, <3>1
  <2>7. f[Some(u)] = v
    BY <2>4
  <2>8. Sums(f)[u] = v + (m - 1) * v
    BY <2>2, <2>3, <2>6, <2>7, SumsOf
  <2> QED
    BY <2>2, <2>5, <2>8
<1>3. Cardinality(S) \in Nat
  BY <1>1, Parts
<1> QED
  BY <1>2, <1>3, SumIsPartial

\* A sum of natural numbers is one.
LEMMA SumOfNaturals ==
    ASSUME NEW f, Summable(f), f \in [DOMAIN f -> Nat]
    PROVE  SumFunction(f) \in Nat
<1> DEFINE S   == DOMAIN f
           Bad == {m \in Nat : \E u \in SUBSET S : Cardinality(u) = m /\ Sums(f)[u] \notin Nat}
<1>1. IsFiniteSet(S) /\ f \in [S -> Nat]
  BY DEF Summable
<1>2. Bad = {}
  <2> SUFFICES ASSUME Bad # {}
               PROVE  FALSE
    OBVIOUS
  <2>1. PICK m \in Bad : \A k \in Bad : m <= k
    BY LeastNatural
  <2>2. PICK u \in SUBSET S : Cardinality(u) = m /\ Sums(f)[u] \notin Nat
    BY <2>1
  <2>3. u \in SUBSET DOMAIN f /\ u # {}
    <3>1. u \in SUBSET DOMAIN f
      OBVIOUS
    <3>2. u = {} => Sums(f)[u] = 0
      BY <3>1, SumsOf
    <3> QED
      BY <2>2, <3>1, <3>2
  <2>4. Some(u) \in u /\ u \ {Some(u)} \in SUBSET S /\ Cardinality(u \ {Some(u)}) = m - 1
    BY <1>1, <2>2, <2>3, Parts
  <2>5. m - 1 \in Nat
    BY <1>1, <2>4, Parts
  <2>6. m - 1 \notin Bad
    BY <2>1, <2>5
  <2>7. Sums(f)[u \ {Some(u)}] \in Nat
    BY <2>4, <2>5, <2>6
  <2>8. f[Some(u)] \in Nat
    BY <1>1, <2>4
  <2>9. Sums(f)[u] = f[Some(u)] + Sums(f)[u \ {Some(u)}]
    BY <2>3, SumsOf
  <2> QED
    BY <2>2, <2>7, <2>8, <2>9
<1>3. Cardinality(S) \in Nat
  BY <1>1, Parts
<1> QED
  BY <1>2, <1>3, SumIsPartial
-----------------------------------------------------------------------------
(* The elements of a slice that are in a set.                              *)

UpTo(P, p) == {q \in P : q <= p}

\* How many elements of a finite set are up to one of them tells the element,
\* and every number of them occurs.
LEMMA Ranks ==
    ASSUME NEW P \in SUBSET Int, IsFiniteSet(P)
    PROVE  /\ Cardinality(P) \in Nat
           /\ \A p \in P : Cardinality(UpTo(P, p)) \in 1 .. Cardinality(P)
           /\ \A p, q \in P : p < q => Cardinality(UpTo(P, p)) < Cardinality(UpTo(P, q))
           /\ \A k \in 1 .. Cardinality(P) : \E p \in P : Cardinality(UpTo(P, p)) = k
<1> DEFINE N == Cardinality(P)
           rank == [p \in P |-> Cardinality(UpTo(P, p))]
<1>1. N \in Nat
  BY FS_CardinalityType
<1>2. ASSUME NEW p \in P
      PROVE  /\ IsFiniteSet(UpTo(P, p)) /\ p \in UpTo(P, p)
             /\ Cardinality(UpTo(P, p)) \in 1 .. N
  <2>1. UpTo(P, p) \in SUBSET P /\ p \in UpTo(P, p)
    BY DEF UpTo
  <2>2. IsFiniteSet(UpTo(P, p)) /\ Cardinality(UpTo(P, p)) <= N
    BY <2>1, FS_Subset
  <2>3. Cardinality(UpTo(P, p)) \in Nat /\ Cardinality(UpTo(P, p)) # 0
    BY <2>1, <2>2, FS_CardinalityType, FS_EmptySet
  <2> QED
    BY <1>1, <2>1, <2>2, <2>3
<1>3. ASSUME NEW p \in P, NEW q \in P, p < q
      PROVE  Cardinality(UpTo(P, p)) < Cardinality(UpTo(P, q))
  <2>1. UpTo(P, p) \in SUBSET UpTo(P, q) /\ q \notin UpTo(P, p)
    <3>1. p \in Int /\ q \in Int /\ p < q
      BY <1>3
    <3>2. ASSUME NEW x \in UpTo(P, p)
          PROVE  x \in UpTo(P, q)
      <4>1. x \in P /\ x \in Int /\ x <= p
        BY DEF UpTo
      <4> QED
        BY <3>1, <4>1 DEF UpTo
    <3>3. q \notin UpTo(P, p)
      BY <3>1 DEF UpTo
    <3> QED
      BY <3>2, <3>3
  <2>2. Cardinality(UpTo(P, p)) <= Cardinality(UpTo(P, q)) /\ Cardinality(UpTo(P, p)) # Cardinality(UpTo(P, q))
    BY <1>2, <2>1, FS_Subset
  <2> QED
    BY <1>1, <1>2, <2>2
<1>4. rank \in Injection(P, 1 .. N)
  <2>1. rank \in [P -> 1 .. N]
    BY <1>2
  <2>2. \A p, q \in P : rank[p] = rank[q] => p = q
    <3> SUFFICES ASSUME NEW p \in P, NEW q \in P, p # q
                 PROVE  rank[p] # rank[q]
      OBVIOUS
    <3>1. CASE p < q
      BY <1>1, <1>2, <1>3, <3>1
    <3>2. CASE q < p
      BY <1>1, <1>2, <1>3, <3>2
    <3> QED
      BY <3>1, <3>2
  <2> HIDE DEF rank
  <2> QED
    BY <2>1, <2>2 DEF Injection, IsInjective
<1>5. IsFiniteSet(1 .. N) /\ Cardinality(1 .. N) = N
  BY <1>1, FS_Interval
<1>6. rank \in Surjection(P, 1 .. N)
  <2> HIDE DEF rank, N
  <2> QED
    BY <1>4, <1>5, FS_Injection DEF N
<1>7. \A k \in 1 .. N : \E p \in P : rank[p] = k
  <2> HIDE DEF rank
  <2> QED
    BY <1>6 DEF Surjection
<1> QED
  BY <1>1, <1>2, <1>3, <1>7

Members(slice, set) == {p \in DOMAIN slice : slice[p] \in set}

\* at[k] is where the k-th element taken comes from.
TakenFrom(at, slice, set) ==
    LET N == Cardinality(Members(slice, set)) IN
    /\ at \in [1 .. N -> Members(slice, set)]
    /\ Filtered(slice, set) = [k \in 1 .. N |-> slice[at[k]]]
    /\ \A j, k \in 1 .. N : j < k => at[j] < at[k]
    /\ \A p \in Members(slice, set) : \E k \in 1 .. N : at[k] = p
    /\ \A k \in 1 .. N : Cardinality(UpTo(Members(slice, set), at[k])) = k

\* Filtered takes each element in the set once, and keeps their order.
LEMMA FilteredPlaces ==
    ASSUME NEW n \in Nat, NEW slice, DOMAIN slice = 1 .. n, NEW set
    PROVE  /\ Cardinality(Members(slice, set)) \in Nat
           /\ \E at : TakenFrom(at, slice, set)
<1> DEFINE P  == Members(slice, set)
           N  == Cardinality(P)
           at == [k \in 1 .. N |-> CHOOSE p \in P : Cardinality(UpTo(P, p)) = k]
<1>1. P \in SUBSET Int /\ IsFiniteSet(P)
  <2>1. IsFiniteSet(1 .. n) /\ P \in SUBSET (1 .. n)
    BY FS_Interval DEF Members
  <2> QED
    BY <2>1, FS_Subset
<1>2. Filtered(slice, set) = [k \in 1 .. N |-> slice[at[k]]]
  BY DEF Filtered, Members, UpTo
<1> HIDE DEF P
<1>3. /\ N \in Nat
      /\ \A p \in P : Cardinality(UpTo(P, p)) \in 1 .. N
      /\ \A p, q \in P : p < q => Cardinality(UpTo(P, p)) < Cardinality(UpTo(P, q))
      /\ \A k \in 1 .. N : \E p \in P : Cardinality(UpTo(P, p)) = k
  BY <1>1, Ranks
<1> HIDE DEF N
<1>4. \A k \in 1 .. N : at[k] \in P /\ Cardinality(UpTo(P, at[k])) = k
  BY <1>3
<1>5. at \in [1 .. N -> P]
  BY <1>4
<1> HIDE DEF at
<1>6. ASSUME NEW j \in 1 .. N, NEW k \in 1 .. N, j < k
      PROVE  at[j] < at[k]
  <2>1. at[j] \in Int /\ at[k] \in Int /\ at[j] # at[k]
    <3>1. at[j] \in P /\ at[k] \in P
      BY <1>4
    <3>2. j # k /\ Cardinality(UpTo(P, at[j])) = j /\ Cardinality(UpTo(P, at[k])) = k
      BY <1>3, <1>4, <1>6
    <3> QED
      BY <1>1, <3>1, <3>2
  <2>2. ~(at[k] < at[j])
    BY <1>3, <1>4, <1>6
  <2> QED
    BY <2>1, <2>2
<1>7. ASSUME NEW p \in P
      PROVE  \E k \in 1 .. N : at[k] = p
  <2> DEFINE k == Cardinality(UpTo(P, p))
  <2>1. k \in 1 .. N
    BY <1>3
  <2>2. at[k] \in P /\ Cardinality(UpTo(P, at[k])) = k
    BY <1>4, <2>1
  <2>3. ~(at[k] < p) /\ ~(p < at[k])
    BY <1>3, <2>1, <2>2
  <2>4. at[k] \in Int /\ p \in Int
    BY <1>1, <2>2
  <2> QED
    BY <2>1, <2>3, <2>4
<1> QED
  BY <1>2, <1>3, <1>4, <1>5, <1>6, <1>7 DEF TakenFrom, P, N

\* Where all are in the set, all are taken.
LEMMA FilteredAll ==
    ASSUME NEW n \in Nat, NEW slice, DOMAIN slice = 1 .. n, slice = [k \in 1 .. n |-> slice[k]],
           NEW set, \A k \in 1 .. n : slice[k] \in set
    PROVE  Filtered(slice, set) = slice
<1> DEFINE f == Filtered(slice, set)
<1>1. Members(slice, set) = 1 .. n
  BY DEF Members
<1>2. \A p \in 0 .. n : Cardinality(1 .. p) = p
  BY FS_Interval
<1>3. Cardinality(1 .. n) = n
  BY <1>2
<1>4. \A p \in 1 .. n : UpTo(1 .. n, p) = 1 .. p /\ p \in 0 .. n
  BY DEF UpTo
<1>5. PICK at : TakenFrom(at, slice, set)
  BY FilteredPlaces
<1>6. /\ at \in [1 .. n -> 1 .. n] /\ f = [k \in 1 .. n |-> slice[at[k]]]
      /\ \A k \in 1 .. n : Cardinality(UpTo(1 .. n, at[k])) = k
  BY <1>1, <1>3, <1>5 DEF TakenFrom
<1>7. \A k \in 1 .. n : at[k] = k
  BY <1>2, <1>4, <1>6
<1> QED
  BY <1>6, <1>7
=============================================================================
