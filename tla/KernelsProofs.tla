--------------------------- MODULE KernelsProofs ---------------------------
(***************************************************************************)
(* What the benchmarks compute, for any size and any number of Runs on one *)
(* instance.                                                               *)
(***************************************************************************)
EXTENDS Kernels, Basics, SequenceTheorems

\* The kernel, and a result that is there outside of a Run only.
Common ==
    /\ kernel.name \in DOMAIN Sizes /\ kernel.n \in Sizes[kernel.name]
    /\ kernel.n \in Nat \ {0}
    /\ runs \in 0 .. MaxRuns
    /\ pc # "idle" => result = <<>>
-----------------------------------------------------------------------------
(* primes                                                                  *)

PrimesInv(n) ==
    /\ pc \in {"idle", "mark"}
    /\ inst \in [n : {n}, sieve : SUBSET (4 .. n), i : 0 .. n + 1]
    /\ pc = "mark" => inst.i >= 2
    /\ Primes!Sieved
    /\ pc = "idle" => result \in {<<>>, <<Primes!Right(n)>>}

LEMMA Divisor ==
    ASSUME NEW m \in Nat, NEW d \in Nat \ {0}
    PROVE  m % d = 0 <=> \E q \in Nat : m = d * q
<1>1. ASSUME m % d = 0
      PROVE  \E q \in Nat : m = d * q
  <2>1. m = d * (m \div d) + (m % d) /\ m \div d \in Nat
    OBVIOUS
  <2>2. m = d * (m \div d)
    BY <1>1, <2>1
  <2> QED
    BY <2>1, <2>2
<1>2. ASSUME NEW q \in Nat, m = d * q
      PROVE  m % d = 0
  BY <1>2
<1> QED
  BY <1>1, <1>2

LEMMA DividesTransitive ==
    ASSUME NEW m \in Nat, NEW i \in Nat \ {0}, NEW d \in Nat \ {0}, m % i = 0, i % d = 0
    PROVE  m % d = 0
<1>1. PICK p \in Nat : m = i * p
  BY Divisor
<1>2. PICK q \in Nat : i = d * q
  BY Divisor
<1>3. m = d * (q * p) /\ q * p \in Nat
  BY <1>1, <1>2
<1> QED
  BY <1>3, Divisor

\* What one round of the outer loop marks: the multiples of i from its square
\* on, which is nothing new if i has a divisor itself.
LEMMA MarkStep ==
    ASSUME NEW n \in Nat \ {0}, PrimesInv(n), Primes!Mark
    PROVE  PrimesInv(n)'
<1> DEFINE i == inst.i
           Divided(m, below) == \E d \in 2 .. below - 1 : d * d <= m /\ m % d = 0
           marked == IF i \in inst.sieve THEN inst.sieve ELSE inst.sieve \cup Primes!Multiples(i, n)
<1>0. inst \in [n : {n}, sieve : SUBSET (4 .. n), i : 0 .. n + 1] /\ i >= 2
  BY DEF PrimesInv, Primes!Mark
<1>1. /\ pc = "mark" /\ pc' = pc /\ result' = result
      /\ i \in Nat /\ i >= 2 /\ i * i <= n
      /\ inst.sieve = {m \in 4 .. n : Divided(m, i)}
      /\ inst'.sieve = marked
      /\ inst'.i = i + 1 /\ inst'.n = n
      /\ inst' \in [n : {n}, sieve : SUBSET (4 .. n), i : 0 .. n + 1]
  <2>1. pc = "mark" /\ pc' = pc /\ result' = result /\ i * i <= n
    BY <1>0 DEF Primes!Mark, Primes!UpToRoot
  <2>2. inst.sieve = {m \in 4 .. n : Divided(m, i)}
    BY <1>0, <2>1 DEF PrimesInv, Primes!Sieved
  <2>3. inst' = [inst EXCEPT !.i = i + 1, !.sieve = marked]
    BY <1>0 DEF Primes!Mark
  <2>4. marked \in SUBSET (4 .. n) /\ i \in Nat /\ i + 1 \in 0 .. n + 1
    <3>1. i \in Nat /\ i * 2 <= i * i /\ i * i >= 4
      BY <1>0, TimesMonotonic
    <3>2. i <= n
      BY <2>1, <3>1
    <3>3. Primes!Multiples(i, n) \in SUBSET (4 .. n)
      BY <3>1 DEF Primes!Multiples
    <3> QED
      BY <1>0, <3>1, <3>2, <3>3
  <2> HIDE DEF marked, i, Divided
  <2>5. inst' = [n |-> n, sieve |-> marked, i |-> i + 1]
    BY <1>0, <2>3
  <2> QED
    BY <2>1, <2>2, <2>4, <2>5, <1>0 DEF i
<1>2. Primes!Multiples(i, n) = {m \in 4 .. n : i * i <= m /\ m % i = 0}
  <2>1. i * i >= 4 /\ i * i \in Nat
    <3>1. i \in Nat /\ i >= 2
      BY <1>1
    <3> HIDE DEF i
    <3>2. i * 2 <= i * i
      BY <3>1, TimesMonotonic
    <3> QED
      BY <3>1, <3>2
  <2> QED
    BY <2>1 DEF Primes!Multiples
<1> HIDE DEF i
<1>3. ASSUME NEW m \in 4 .. n
      PROVE  Divided(m, i + 1) <=> Divided(m, i) \/ (i * i <= m /\ m % i = 0)
  <2>1. \A d \in 2 .. i + 1 - 1 : d \in 2 .. i - 1 \/ d = i
    BY <1>1
  <2>2. i \in 2 .. i + 1 - 1 /\ \A d \in 2 .. i - 1 : d \in 2 .. i + 1 - 1
    BY <1>1
  <2> QED
    BY <2>1, <2>2
<1>4. ASSUME i \in inst.sieve, NEW m \in 4 .. n, i * i <= m, m % i = 0
      PROVE  Divided(m, i)
  <2>1. PICK d \in 2 .. i - 1 : d * d <= i /\ i % d = 0
    BY <1>1, <1>4
  <2>2. m % d = 0
    <3>1. m \in Nat /\ d \in Nat \ {0} /\ i \in Nat \ {0}
      BY <1>1
    <3> QED
      BY <1>4, <2>1, <3>1, DividesTransitive
  <2>3. d * d <= m
    BY <1>1, <1>4, <2>1
  <2> QED
    BY <2>1, <2>2, <2>3
<1>5. inst'.sieve = {m \in 4 .. n : Divided(m, i + 1)}
  <2> HIDE DEF Divided
  <2>1. CASE i \in inst.sieve
    BY <1>1, <1>3, <1>4, <2>1
  <2>2. CASE i \notin inst.sieve
    BY <1>1, <1>2, <1>3, <2>2
  <2> QED
    BY <2>1, <2>2
<1>6. Primes!Sieved'
  BY <1>1, <1>5 DEF Primes!Sieved
<1> QED
  BY <1>1, <1>6 DEF PrimesInv

\* Past the root of n, the numbers left over are the primes.
LEMMA CountStep ==
    ASSUME NEW n \in Nat \ {0}, PrimesInv(n), Primes!Count
    PROVE  PrimesInv(n)' /\ result' = <<Primes!Right(n)>>
<1> DEFINE i == inst.i
<1>1. /\ pc = "mark" /\ pc' = "idle" /\ inst' = inst
      /\ i \in Nat /\ i >= 2 /\ ~(i * i <= n)
      /\ inst.sieve = {m \in 4 .. n : \E d \in 2 .. i - 1 : d * d <= m /\ m % d = 0}
      /\ inst.n = n /\ result' = <<Primes!Cardinality(2 .. n \ inst.sieve)>>
  <2>1. inst \in [n : {n}, sieve : SUBSET (4 .. n), i : 0 .. n + 1] /\ i >= 2 /\ pc = "mark"
    BY DEF PrimesInv, Primes!Count
  <2>2. /\ pc' = "idle" /\ inst' = inst /\ ~(i * i <= n)
        /\ result' = <<Primes!Cardinality(2 .. n \ inst.sieve)>>
    BY <2>1 DEF Primes!Count, Primes!UpToRoot
  <2>3. inst.sieve = {m \in 4 .. n : \E d \in 2 .. i - 1 : d * d <= m /\ m % d = 0}
    BY <2>1 DEF PrimesInv, Primes!Sieved
  <2> QED
    BY <2>1, <2>2, <2>3
<1> HIDE DEF i
<1>2. ASSUME NEW p \in 2 .. n, NEW d \in 2 .. i - 1, d * d <= p, p % d = 0
      PROVE  d \in 2 .. p - 1
  BY <1>1, <1>2
<1>3. ASSUME NEW p \in 2 .. n, NEW d \in 2 .. p - 1, p % d = 0
      PROVE  p \in inst.sieve
  <2>1. PICK q \in Nat : p = d * q
    <3>1. p \in Nat /\ d \in Nat \ {0}
      OBVIOUS
    <3> QED
      BY <1>3, <3>1, Divisor
  <2>2. q >= 2
    BY <2>1
  <2>3. p % q = 0
    <3>1. p = q * d /\ d \in Nat /\ p \in Nat /\ q \in Nat \ {0}
      BY <2>1, <2>2
    <3> QED
      BY <3>1, Divisor
  <2>4. p >= 4
    BY <2>1, <2>2
  <2>5. ASSUME NEW e \in Nat, e >= 2, e * e <= p, p % e = 0
        PROVE  p \in inst.sieve
    <3>1. e < i
      <4>1. e * e < i * i
        BY <1>1, <2>5
      <4> QED
        BY <1>1, <2>5, <4>1
    <3>2. p \in 4 .. n /\ e \in 2 .. i - 1
      BY <1>1, <2>4, <2>5, <3>1
    <3> QED
      BY <1>1, <2>5, <3>2
  <2>6. CASE d <= q
    <3>1. d * d <= p
      BY <2>1, <2>6
    <3> QED
      BY <1>3, <2>5, <3>1
  <2>7. CASE q <= d
    <3>1. q * q <= p
      BY <2>1, <2>7
    <3> QED
      BY <2>2, <2>3, <2>5, <3>1
  <2> QED
    BY <2>6, <2>7
<1>4. 2 .. n \ inst.sieve = {p \in 2 .. n : \A d \in 2 .. p - 1 : p % d # 0}
  <2>1. ASSUME NEW p \in inst.sieve, p \in 2 .. n
        PROVE  \E d \in 2 .. p - 1 : p % d = 0
    BY <1>1, <1>2, <2>1
  <2> QED
    BY <1>3, <2>1
<1>5. result' = <<Primes!Right(n)>>
  BY <1>1, <1>4 DEF Primes!Right
<1>6. inst \in [n : {n}, sieve : SUBSET (4 .. n), i : 0 .. n + 1]
  BY DEF PrimesInv
<1> QED
  BY <1>1, <1>5, <1>6 DEF PrimesInv, Primes!Sieved

LEMMA PrimesBegin ==
    ASSUME NEW n \in Nat \ {0}, PrimesInv(n), Primes!Begin
    PROVE  PrimesInv(n)'
<1>1. /\ pc' = "mark" /\ inst' \in [n : {n}, sieve : {{}}, i : {2}] /\ 2 \in 0 .. n + 1
  <2>1. inst' = [inst EXCEPT !.sieve = {}, !.i = 2] /\ pc' = "mark"
    BY DEF Primes!Begin
  <2>2. inst \in [n : {n}, sieve : SUBSET (4 .. n), i : 0 .. n + 1]
    BY DEF PrimesInv
  <2>3. 2 \in 0 .. n + 1
    OBVIOUS
  <2> QED
    BY <2>1, <2>2, <2>3
<1>2. {m \in 4 .. n : \E d \in 2 .. 1 : d * d <= m /\ m % d = 0} = {}
  OBVIOUS
<1> QED
  BY <1>1, <1>2 DEF PrimesInv, Primes!Sieved
-----------------------------------------------------------------------------
(* matrix                                                                  *)

MatrixInv(n) ==
    /\ pc \in {"idle", "rows"}
    /\ inst \in [n : {n}, c : [Matrix!Cells(n) -> Int], i : 0 .. n, k : 0 .. n - 1]
    /\ Matrix!Multiplied
    /\ pc = "idle" => result \in {<<>>, <<Matrix!Right(n)>>}

\* The rows and columns of a cell.
LEMMA Cell ==
    ASSUME NEW n \in Nat \ {0}, NEW x \in Matrix!Cells(n)
    PROVE  x \in Nat /\ x \div n \in 0 .. n - 1 /\ x % n \in 0 .. n - 1
<1>1. x \in Nat /\ x < n * n
  BY DEF Matrix!Cells
<1>2. x % n \in 0 .. n - 1 /\ x \div n \in Nat
  BY <1>1
<1>3. x \div n <= n - 1
  BY <1>1
<1> QED
  BY <1>1, <1>2, <1>3

LEMMA CellAt ==
    ASSUME NEW n \in Nat \ {0}, NEW r \in 0 .. n - 1, NEW s \in 0 .. n - 1
    PROVE  r * n + s \in Matrix!Cells(n)
<1>1. n * r <= n * (n - 1)
  BY TimesMonotonic
<1>2. r * n = n * r /\ n * (n - 1) = n * n - n /\ n * r \in Nat
  OBVIOUS
<1> QED
  BY <1>1, <1>2 DEF Matrix!Cells

Term(n, x, k) == Matrix!A(n)[(x \div n) * n + k] * Matrix!B(n)[k * n + (x % n)]

LEMMA TermType ==
    ASSUME NEW n \in Nat \ {0}, NEW x \in Matrix!Cells(n), NEW k \in 0 .. n - 1
    PROVE  Term(n, x, k) \in Int
<1> DEFINE y == (x \div n) * n + k
           z == k * n + (x % n)
<1>1. y \in Matrix!Cells(n) /\ z \in Matrix!Cells(n)
  BY Cell, CellAt
<1> HIDE DEF y, z
<1>2. y \in Nat /\ z \in Nat
  BY <1>1, Cell
<1>3. Matrix!A(n)[y] \in Int /\ Matrix!B(n)[z] \in Int
  BY <1>1, <1>2 DEF Matrix!A, Matrix!B, Matrix!Filled
<1>4. Matrix!A(n)[y] * Matrix!B(n)[z] \in Int
  BY <1>3
<1> QED
  BY <1>4 DEF Term, y, z

LEMMA MatrixSum == ASSUME NEW f PROVE Matrix!SumFunction(f) = SumFunction(f)
BY DEF SumFunction, SumFunctionOnSet, FoldFunctionOnSet, MapThenFoldSet,
       Matrix!SumFunction, Matrix!SumFunctionOnSet, Matrix!FoldFunctionOnSet, Matrix!MapThenFoldSet

\* A dot product of one more term.
LEMMA DotGrows ==
    ASSUME NEW n \in Nat \ {0}, NEW x \in Matrix!Cells(n)
    PROVE  /\ Matrix!Dot(n, x, 0) = 0
           /\ \A m \in 0 .. n - 1 : Matrix!Dot(n, x, m + 1) = Matrix!Dot(n, x, m) + Term(n, x, m)
<1> DEFINE f(m) == [k \in 0 .. m - 1 |-> Term(n, x, k)]
<1>1. \A m \in 0 .. n : Matrix!Dot(n, x, m) = SumFunction(f(m))
  BY MatrixSum DEF Matrix!Dot, Term
<1>2. \A m \in 0 .. n : Summable(f(m))
  <2> TAKE m \in 0 .. n
  <2>1. IsFiniteSet(0 .. m - 1)
    BY FS_Interval
  <2>2. \A k \in 0 .. m - 1 : Term(n, x, k) \in Int
    BY TermType
  <2> QED
    BY <2>1, <2>2 DEF Summable
<1>3. Matrix!Dot(n, x, 0) = 0
  <2>1. 0 .. 0 - 1 = {}
    OBVIOUS
  <2>2. DOMAIN f(0) = {} /\ f(0) \in [{} -> Int]
    BY <2>1
  <2>3. SumFunction(f(0)) = 0
    BY <2>2, SumOfNone
  <2>4. 0 \in 0 .. n
    OBVIOUS
  <2> HIDE DEF f
  <2> QED
    BY <1>1, <2>3, <2>4
<1>4. ASSUME NEW m \in 0 .. n - 1
      PROVE  Matrix!Dot(n, x, m + 1) = Matrix!Dot(n, x, m) + Term(n, x, m)
  <2>1. m \in 0 .. n /\ m + 1 \in 0 .. n /\ 0 .. m + 1 - 1 = (0 .. m - 1) \cup {m} /\ m \notin 0 .. m - 1
    OBVIOUS
  <2>2. m \in DOMAIN f(m + 1) /\ f(m + 1)[m] = Term(n, x, m)
    BY <2>1
  <2>3. DOMAIN f(m) = DOMAIN f(m + 1) \ {m} /\ f(m) = [k \in DOMAIN f(m) |-> f(m + 1)[k]]
    BY <2>1
  <2>4. Summable(f(m)) /\ Summable(f(m + 1))
    BY <1>2, <2>1
  <2>5. Matrix!Dot(n, x, m + 1) = SumFunction(f(m + 1)) /\ Matrix!Dot(n, x, m) = SumFunction(f(m))
    BY <1>1, <2>1
  <2> DEFINE more == f(m + 1)
             less == f(m)
  <2>6. SumFunction(f(m + 1)) = f(m + 1)[m] + SumFunction(f(m))
    <3>1. /\ Summable(more) /\ m \in DOMAIN more
          /\ DOMAIN less = DOMAIN more \ {m} /\ less = [k \in DOMAIN less |-> more[k]]
      BY <2>2, <2>3, <2>4
    <3> HIDE DEF more, less
    <3>2. SumFunction(more) = more[m] + SumFunction(less)
      BY <3>1, SumTakenOut
    <3> QED
      BY <3>2 DEF more, less
  <2> HIDE DEF f
  <2>7. SumFunction(f(m)) \in Int /\ Term(n, x, m) \in Int
    BY <2>4, SumType, TermType
  <2> QED
    BY <2>2, <2>5, <2>6, <2>7
<1> QED
  BY <1>3, <1>4

\* One term is added in every cell of row i; after the last one the next row
\* is up.
LEMMA AddRowStep ==
    ASSUME NEW n \in Nat \ {0}, MatrixInv(n), Matrix!AddRow
    PROVE  MatrixInv(n)'
<1> DEFINE i == inst.i
           k == inst.k
           c == [x \in Matrix!Cells(n) |->
                    IF x \div n = i THEN inst.c[x] + Term(n, x, k) ELSE inst.c[x]]
           i2 == IF k + 1 < n THEN i ELSE i + 1
           k2 == (k + 1) % n
<1>1. /\ inst \in [n : {n}, c : [Matrix!Cells(n) -> Int], i : 0 .. n, k : 0 .. n - 1]
      /\ pc = "rows" /\ pc' = pc /\ i < n
      /\ \A x \in Matrix!Cells(n) :
            inst.c[x] = CASE x \div n < i -> Matrix!Dot(n, x, n)
                          [] x \div n = i -> Matrix!Dot(n, x, k)
                          [] x \div n > i -> 0
  BY DEF MatrixInv, Matrix!AddRow, Matrix!Multiplied
<1>2. /\ i \in 0 .. n - 1 /\ k \in 0 .. n - 1
      /\ i2 \in 0 .. n /\ k2 \in 0 .. n - 1
      /\ IF k + 1 < n THEN k2 = k + 1 ELSE k2 = 0 /\ k + 1 = n
  <2>1. i \in 0 .. n - 1 /\ k \in 0 .. n - 1
    BY <1>1
  <2>2. IF k + 1 < n THEN k2 = k + 1 ELSE k2 = 0 /\ k + 1 = n
    BY <2>1
  <2> QED
    BY <2>1, <2>2
<1>3. c \in [Matrix!Cells(n) -> Int]
  BY <1>1, <1>2, TermType
<1>4. inst' = [n |-> n, c |-> c, i |-> i2, k |-> k2]
  <2>1. inst.n = n
    BY <1>1
  <2>2. inst' = [inst EXCEPT !.c = c, !.i = i2, !.k = k2]
    BY <2>1 DEF Matrix!AddRow, Term
  <2> HIDE DEF c, i2, k2
  <2> QED
    BY <1>1, <2>2
<1> HIDE DEF i, k, i2, k2
<1>5. ASSUME NEW x \in Matrix!Cells(n)
      PROVE  c[x] = CASE x \div n < i2 -> Matrix!Dot(n, x, n)
                      [] x \div n = i2 -> Matrix!Dot(n, x, k2)
                      [] x \div n > i2 -> 0
  <2>1. x \div n \in Int /\ i2 \in Int /\ i \in Int /\ k \in Int
    BY <1>2, Cell
  <2>2. c[x] = IF x \div n = i THEN inst.c[x] + Term(n, x, k) ELSE inst.c[x]
    OBVIOUS
  <2>3. /\ Matrix!Dot(n, x, k + 1) = Matrix!Dot(n, x, k) + Term(n, x, k)
        /\ Matrix!Dot(n, x, 0) = 0
    BY <1>2, DotGrows
  <2> HIDE DEF c
  <2>4. CASE x \div n = i
    <3>1. c[x] = Matrix!Dot(n, x, k + 1)
      BY <1>1, <2>1, <2>2, <2>3, <2>4
    <3>2. CASE k + 1 < n
      BY <1>2, <2>1, <2>4, <3>1, <3>2 DEF i2
    <3>3. CASE ~(k + 1 < n)
      BY <1>2, <2>1, <2>4, <3>1, <3>3 DEF i2
    <3> QED
      BY <3>2, <3>3
  <2>5. CASE x \div n < i
    <3>1. c[x] = Matrix!Dot(n, x, n) /\ x \div n < i2
      BY <1>1, <2>1, <2>2, <2>5 DEF i2
    <3> QED
      BY <2>1, <3>1
  <2>6. CASE x \div n > i
    <3>1. c[x] = 0
      BY <1>1, <2>1, <2>2, <2>6
    <3>2. CASE x \div n = i2
      BY <1>2, <2>1, <2>3, <2>6, <3>1, <3>2 DEF i2
    <3>3. CASE x \div n # i2
      <4>1. x \div n > i2
        BY <2>1, <2>6, <3>3 DEF i2
      <4> QED
        BY <2>1, <3>1, <4>1
    <3> QED
      BY <3>2, <3>3
  <2> QED
    BY <2>1, <2>4, <2>5, <2>6
<1> HIDE DEF c
<1>6. Matrix!Multiplied'
  BY <1>4, <1>5 DEF Matrix!Multiplied
<1> QED
  BY <1>1, <1>2, <1>3, <1>4, <1>6 DEF MatrixInv

\* After the last row the scratch holds the product.
LEMMA MatrixReturn ==
    ASSUME NEW n \in Nat \ {0}, MatrixInv(n), Matrix!Return
    PROVE  MatrixInv(n)' /\ result' = <<Matrix!Right(n)>>
<1>1. /\ inst \in [n : {n}, c : [Matrix!Cells(n) -> Int], i : 0 .. n, k : 0 .. n - 1]
      /\ inst.i >= n /\ pc' = "idle" /\ inst' = inst /\ result' = <<inst.c>>
      /\ \A x \in Matrix!Cells(n) :
            inst.c[x] = CASE x \div n < inst.i -> Matrix!Dot(n, x, n)
                          [] x \div n = inst.i -> Matrix!Dot(n, x, inst.k)
                          [] x \div n > inst.i -> 0
  BY DEF MatrixInv, Matrix!Return, Matrix!Multiplied
<1>2. \A x \in Matrix!Cells(n) : inst.c[x] = Matrix!Dot(n, x, n)
  <2> TAKE x \in Matrix!Cells(n)
  <2>1. x \div n \in 0 .. n - 1 /\ inst.i = n
    BY <1>1, Cell
  <2>2. x \div n < inst.i
    BY <2>1
  <2> QED
    BY <1>1, <2>1, <2>2
<1>3. inst.c = Matrix!Right(n)
  BY <1>1, <1>2 DEF Matrix!Right
<1> QED
  BY <1>1, <1>3 DEF MatrixInv, Matrix!Multiplied

LEMMA MatrixBegin ==
    ASSUME NEW n \in Nat \ {0}, MatrixInv(n), Matrix!Begin
    PROVE  MatrixInv(n)'
<1>1. pc' = "rows" /\ inst' = [n |-> n, c |-> Matrix!Zero(n), i |-> 0, k |-> 0]
  BY DEF MatrixInv, Matrix!Begin, Matrix!Cleared
<1>2. \A x \in Matrix!Cells(n) : x \div n \in 0 .. n - 1 /\ Matrix!Dot(n, x, 0) = 0
  BY Cell, DotGrows
<1>3. Matrix!Multiplied'
  <2> SUFFICES ASSUME NEW x \in Matrix!Cells(n)
               PROVE  0 = CASE x \div n < 0 -> Matrix!Dot(n, x, n)
                            [] x \div n = 0 -> Matrix!Dot(n, x, 0)
                            [] x \div n > 0 -> 0
    BY <1>1 DEF Matrix!Multiplied, Matrix!Zero
  <2>1. x \div n = 0 \/ x \div n > 0
    BY <1>2
  <2> QED
    BY <1>2, <2>1
<1> QED
  BY <1>1, <1>3 DEF MatrixInv, Matrix!Zero
-----------------------------------------------------------------------------
(* json                                                                    *)

Users(n) == {Json!NoUser} \cup {Json!User(k - 1) : k \in 1 .. n}

\* The slots in use hold the users decoded so far; a slot that is not in use
\* holds what a Run before left there.
JsonInv(n) ==
    /\ pc \in {"idle", "decode", "encode"}
    /\ inst = [n |-> n, slots |-> inst.slots, len |-> inst.len, out |-> inst.out]
    /\ inst.slots \in [1 .. n -> Users(n)]
    /\ \A k \in 1 .. n : inst.slots[k] \in {Json!NoUser, Json!User(k - 1)}
    /\ inst.len \in 0 .. n
    /\ inst.out \in {<<>>, Json!Payload(n)}
    /\ pc # "idle" => \A k \in 1 .. inst.len : inst.slots[k] = Json!User(k - 1)
    /\ pc = "encode" => inst.len = n /\ inst.out = Json!Payload(n)
    /\ pc = "idle" => result \in {<<>>, <<Json!Right(n)>>}

\* A slot that was used before decodes to what a fresh one does.
LEMMA JsonDecoded ==
    ASSUME NEW i \in Nat, NEW old \in {Json!NoUser, Json!User(i)}
    PROVE  Json!Decoded(old, Json!User(i)) = Json!User(i)
<1> DEFINE new == Json!User(i).meta
<1>1. new = [role |-> i % 5, region |-> i % 4]
  BY DEF Json!User
<1>2. DOMAIN old.meta \in SUBSET DOMAIN new
  <2>1. CASE old = Json!NoUser
    BY <2>1 DEF Json!NoUser
  <2>2. CASE old = Json!User(i)
    BY <2>2
  <2> QED
    BY <2>1, <2>2
<1>3. Json!Stored(old.meta, new) = new
  <2>1. new = [key \in DOMAIN new |-> new[key]]
    BY <1>1
  <2>2. DOMAIN old.meta \cup DOMAIN new = DOMAIN new
    BY <1>2
  <2> HIDE DEF new
  <2> QED
    BY <2>1, <2>2 DEF Json!Stored
<1>4. Json!Decoded(old, Json!User(i)) = [id |-> Json!User(i).id, meta |-> new, addrs |-> Json!User(i).addrs]
  BY <1>3 DEF Json!Decoded
<1> QED
  BY <1>4 DEF Json!User

LEMMA JsonBegin ==
    ASSUME NEW n \in Nat \ {0}, JsonInv(n), Json!Begin
    PROVE  JsonInv(n)'
<1>1. /\ pc' = "decode"
      /\ inst' = [n |-> n, slots |-> inst.slots, len |-> 0, out |-> inst.out]
  BY DEF JsonInv, Json!Begin
<1> QED
  BY <1>1 DEF JsonInv

LEMMA JsonDecodeOne ==
    ASSUME NEW n \in Nat \ {0}, JsonInv(n), Json!DecodeOne
    PROVE  JsonInv(n)'
<1> DEFINE k == inst.len + 1
           slots == [inst.slots EXCEPT ![k] = Json!User(k - 1)]
<1>1. /\ inst = [n |-> n, slots |-> inst.slots, len |-> inst.len, out |-> inst.out]
      /\ inst.slots \in [1 .. n -> Users(n)] /\ inst.len \in 0 .. n
      /\ \A j \in 1 .. n : inst.slots[j] \in {Json!NoUser, Json!User(j - 1)}
  BY DEF JsonInv
<1>2. pc = "decode" /\ pc' = pc /\ k \in 1 .. n /\ k - 1 \in Nat /\ inst.n = n
  BY <1>1 DEF Json!DecodeOne
<1>3. Json!Payload(n)[k] = Json!User(k - 1)
  BY <1>2 DEF Json!Payload
<1>4. Json!Decoded(inst.slots[k], Json!User(k - 1)) = Json!User(k - 1)
  BY <1>1, <1>2, JsonDecoded
<1>5. inst' = [inst EXCEPT !.len = k, !.slots = slots]
  <2>1. inst' = [inst EXCEPT !.len = k, !.slots[k] = Json!User(k - 1)]
    BY <1>2, <1>3, <1>4 DEF Json!DecodeOne
  <2> HIDE DEF k
  <2> QED
    BY <1>1, <2>1
<1>6. inst' = [n |-> n, slots |-> slots, len |-> k, out |-> inst.out]
  <2> HIDE DEF slots, k
  <2>1. PICK a, b, c : inst = [n |-> n, slots |-> a, len |-> b, out |-> c]
    BY <1>1
  <2>2. inst' = [n |-> n, slots |-> slots, len |-> k, out |-> c]
    BY <1>5, <2>1
  <2> QED
    BY <2>1, <2>2
<1>7. /\ slots \in [1 .. n -> Users(n)]
      /\ \A j \in 1 .. n : slots[j] = IF j = k THEN Json!User(k - 1) ELSE inst.slots[j]
  BY <1>1, <1>2 DEF Users
<1>8. \A j \in 1 .. k : slots[j] = Json!User(j - 1)
  BY <1>1, <1>2, <1>7 DEF JsonInv
<1> HIDE DEF slots, k
<1> QED
  BY <1>1, <1>2, <1>6, <1>7, <1>8 DEF JsonInv

LEMMA JsonEncode ==
    ASSUME NEW n \in Nat \ {0}, JsonInv(n), Json!Encode
    PROVE  JsonInv(n)'
<1>1. /\ inst = [n |-> n, slots |-> inst.slots, len |-> inst.len, out |-> inst.out]
      /\ inst.slots \in [1 .. n -> Users(n)] /\ inst.len = n
      /\ \A j \in 1 .. n : inst.slots[j] = Json!User(j - 1)
      /\ pc' = "encode"
  BY DEF JsonInv, Json!Encode
<1>2. inst' = [inst EXCEPT !.out = <<>> \o SubSeq(inst.slots, 1, n)]
  BY <1>1 DEF Json!Encode, Json!Reset
<1>3. inst.slots \in Seq(Users(n)) /\ Len(inst.slots) = n
  BY <1>1
<1>4. <<>> \o SubSeq(inst.slots, 1, n) = inst.slots
  BY <1>3, SubSeqFull, ConcatEmptySeq
<1>5. inst.slots = Json!Payload(n)
  BY <1>1 DEF Json!Payload
<1>6. inst' = [n |-> n, slots |-> inst.slots, len |-> n, out |-> Json!Payload(n)]
  BY <1>1, <1>2, <1>4, <1>5
<1> QED
  BY <1>1, <1>6 DEF JsonInv

LEMMA JsonReturn ==
    ASSUME NEW n \in Nat \ {0}, JsonInv(n), Json!Return
    PROVE  JsonInv(n)' /\ result' = <<Json!Right(n)>>
<1>1. /\ pc' = "idle" /\ inst' = inst /\ pc = "encode"
      /\ inst.len = n /\ inst.out = Json!Payload(n) /\ inst.slots[n] = Json!User(n - 1)
  BY DEF JsonInv, Json!Return
<1>2. inst.slots[inst.len].id = n /\ inst.len # 0
  BY <1>1 DEF Json!User
<1>3. result' = <<Json!Right(n)>>
  BY <1>1, <1>2 DEF Json!Return, Json!Right
<1> QED
  BY <1>1, <1>3 DEF JsonInv
-----------------------------------------------------------------------------
(* php_like                                                                *)

LEMMA PhpFiltered ==
    ASSUME NEW s, NEW S
    PROVE  PhpLike!Filtered(s, S) = Filtered(s, S)
<1> DEFINE P    == {p \in DOMAIN s : s[p] \in S}
           U(p) == {q \in P : q <= p}
<1>1. \A T : PhpLike!Cardinality(T) = Cardinality(T)
  BY DEF Cardinality, PhpLike!Cardinality
<1>2. Filtered(s, S) = [k \in 1 .. Cardinality(P) |-> s[CHOOSE p \in P : Cardinality(U(p)) = k]]
  BY DEF Filtered
<1>3. PhpLike!Filtered(s, S) = [k \in 1 .. PhpLike!Cardinality(P) |->
            s[CHOOSE p \in P : PhpLike!Cardinality(U(p)) = k]]
  BY DEF PhpLike!Filtered
<1> HIDE DEF P, U
<1>4. \A k : (CHOOSE p \in P : PhpLike!Cardinality(U(p)) = k)
             = (CHOOSE p \in P : Cardinality(U(p)) = k)
  BY <1>1, Zenon
<1> QED
  BY <1>1, <1>2, <1>3, <1>4

LEMMA PhpKeys ==
    /\ PhpLike!Keys \in Seq(PhpLike!Range(PhpLike!Keys)) /\ Len(PhpLike!Keys) = 14
    /\ DOMAIN PhpLike!Keys = 1 .. 14
    /\ PhpLike!Keys = [k \in 1 .. 14 |-> PhpLike!Keys[k]]
    /\ PhpLike!Range(PhpLike!Keys) = {PhpLike!Keys[k] : k \in 1 .. 14}
<1> DEFINE keys == PhpLike!Keys
<1>1. DOMAIN keys = 1 .. 14 /\ Len(keys) = 14
  BY DEF PhpLike!Keys
<1>2. keys = [k \in 1 .. 14 |-> keys[k]]
  BY DEF PhpLike!Keys
<1> HIDE DEF keys
<1>3. PhpLike!Range(keys) = {keys[k] : k \in 1 .. 14}
  BY <1>1 DEF PhpLike!Range
<1>4. keys \in [1 .. 14 -> PhpLike!Range(keys)]
  <2>1. \A k \in 1 .. 14 : keys[k] \in PhpLike!Range(keys)
    BY <1>3
  <2> QED
    BY <1>2, <2>1
<1>5. keys \in Seq(PhpLike!Range(keys))
  <2>1. 14 \in Nat
    OBVIOUS
  <2> QED
    BY <1>4, <2>1, SeqDef
<1> QED
  BY <1>1, <1>2, <1>3, <1>5 DEF keys

\* Wherever the visit of a map with all of the keys starts, every key comes.
LEMMA PhpSorted ==
    ASSUME NEW map, DOMAIN map = PhpLike!Range(PhpLike!Keys), NEW visit \in PhpLike!Visits(map)
    PROVE  PhpLike!SortedKeys(visit) = PhpLike!Keys
<1> DEFINE keys == PhpLike!Keys
           all  == PhpLike!Range(keys)
<1>1. /\ keys \in Seq(all) /\ Len(keys) = 14 /\ DOMAIN keys = 1 .. 14
      /\ keys = [k \in 1 .. 14 |-> keys[k]]
      /\ all = {keys[k] : k \in 1 .. 14}
  BY PhpKeys
<1>2. PICK k \in 0 .. 13 : visit = PhpLike!Filtered(SubSeq(keys, k + 1, 14) \o SubSeq(keys, 1, k), all)
  <2>1. DOMAIN map = all /\ Len(keys) - 1 = 13 /\ Len(keys) = 14
    BY <1>1
  <2>2. visit \in {PhpLike!Filtered(SubSeq(keys, k + 1, Len(keys)) \o SubSeq(keys, 1, k), DOMAIN map) :
                      k \in 0 .. Len(keys) - 1}
    BY DEF PhpLike!Visits
  <2> HIDE DEF keys, all
  <2> QED
    BY <2>1, <2>2
<1> HIDE DEF keys, all
<1> DEFINE head == SubSeq(keys, k + 1, 14)
           tail == SubSeq(keys, 1, k)
           turned == head \o tail
<1>3. /\ head \in Seq(all) /\ Len(head) = 14 - k
      /\ \A p \in 1 .. 14 - k : head[p] = keys[k + p]
      /\ tail \in Seq(all) /\ Len(tail) = k
      /\ \A p \in 1 .. k : tail[p] = keys[p]
  <2>1. /\ k + 1 \in Int /\ 14 \in Int /\ 1 \in Int /\ k \in Int
        /\ \A p \in k + 1 .. 14 : keys[p] \in all
        /\ \A p \in 1 .. k : keys[p] \in all
    BY <1>1
  <2>2. /\ head \in Seq(all) /\ Len(head) = IF k + 1 <= 14 THEN 14 - (k + 1) + 1 ELSE 0
        /\ \A p \in 1 .. 14 - (k + 1) + 1 : head[p] = keys[k + 1 + p - 1]
    BY <2>1, SubSeqProperties
  <2>3. /\ tail \in Seq(all) /\ Len(tail) = IF 1 <= k THEN k - 1 + 1 ELSE 0
        /\ \A p \in 1 .. k - 1 + 1 : tail[p] = keys[1 + p - 1]
    BY <2>1, SubSeqProperties
  <2> HIDE DEF head, tail
  <2>4. /\ k + 1 <= 14 /\ 14 - (k + 1) + 1 = 14 - k
        /\ \A p \in Int : k + 1 + p - 1 = k + p /\ 1 + p - 1 = p
        /\ k - 1 + 1 = k /\ (~(1 <= k) => k = 0)
    OBVIOUS
  <2>5. Len(head) = 14 - k /\ \A p \in 1 .. 14 - k : head[p] = keys[k + p]
    <3>1. Len(head) = 14 - k
      BY <2>2, <2>4
    <3>2. \A p \in 1 .. 14 - k : p \in Int /\ head[p] = keys[k + 1 + p - 1]
      BY <2>2, <2>4
    <3> QED
      BY <2>4, <3>1, <3>2
  <2>6. Len(tail) = k /\ \A p \in 1 .. k : tail[p] = keys[p]
    <3>1. Len(tail) = k
      BY <2>3, <2>4
    <3>2. \A p \in 1 .. k : p \in Int /\ tail[p] = keys[1 + p - 1]
      BY <2>3, <2>4
    <3> QED
      BY <2>4, <3>1, <3>2
  <2> QED
    BY <2>2, <2>3, <2>5, <2>6
<1> HIDE DEF head, tail
<1>4. /\ DOMAIN turned = 1 .. 14 /\ turned = [p \in 1 .. 14 |-> turned[p]]
      /\ \A p \in 1 .. 14 - k : p \in 1 .. 14 /\ turned[p] = keys[k + p]
      /\ \A p \in 1 .. k : 14 - k + p \in 1 .. 14 /\ turned[14 - k + p] = keys[p]
  <2>1. /\ turned \in Seq(all) /\ Len(turned) = Len(head) + Len(tail)
        /\ \A p \in 1 .. Len(head) + Len(tail) :
              turned[p] = IF p <= Len(head) THEN head[p] ELSE tail[p - Len(head)]
    BY <1>3, ConcatProperties
  <2> HIDE DEF turned
  <2>2. Len(head) + Len(tail) = 14
    BY <1>3
  <2>3. DOMAIN turned = 1 .. 14 /\ turned = [p \in 1 .. 14 |-> turned[p]]
    <3>1. turned \in [1 .. 14 -> all]
      BY <2>1, <2>2, LenProperties
    <3> QED
      BY <3>1
  <2>4. ASSUME NEW p \in 1 .. 14 - k
        PROVE  p \in 1 .. 14 /\ turned[p] = keys[k + p]
    <3>1. p \in 1 .. 14 /\ p <= Len(head)
      BY <1>3
    <3>2. turned[p] = head[p]
      BY <2>1, <2>2, <3>1
    <3> QED
      BY <1>3, <3>1, <3>2
  <2>5. ASSUME NEW p \in 1 .. k
        PROVE  14 - k + p \in 1 .. 14 /\ turned[14 - k + p] = keys[p]
    <3> DEFINE j == 14 - k + p
    <3>1. j \in 1 .. 14 /\ ~(j <= Len(head)) /\ j - Len(head) = p
      BY <1>3
    <3> HIDE DEF j
    <3>2. turned[j] = tail[j - Len(head)]
      BY <2>1, <2>2, <3>1
    <3>3. turned[j] = keys[p]
      BY <1>3, <3>1, <3>2
    <3> QED
      BY <3>1, <3>3 DEF j
  <2> QED
    BY <2>3, <2>4, <2>5
<1> HIDE DEF turned
<1>5. \A q \in 1 .. 14 : \E p \in 1 .. 14 : turned[p] = keys[q]
  <2> TAKE q \in 1 .. 14
  <2>1. CASE q <= k
    <3>1. q \in 1 .. k
      BY <2>1
    <3> QED
      BY <1>4, <3>1
  <2>2. CASE ~(q <= k)
    <3>1. PICK p \in 1 .. 14 - k : k + p = q
      <4>1. q - k \in 1 .. 14 - k /\ k + (q - k) = q
        BY <2>2
      <4> QED
        BY <4>1
    <3> QED
      BY <1>4, <3>1
  <2> QED
    BY <2>1, <2>2
<1>6. \A p \in 1 .. 14 : turned[p] \in all
  <2> TAKE p \in 1 .. 14
  <2>1. CASE p <= 14 - k
    <3>1. p \in 1 .. 14 - k /\ k + p \in 1 .. 14
      BY <2>1
    <3> QED
      BY <1>1, <1>4, <3>1
  <2>2. CASE ~(p <= 14 - k)
    <3>1. PICK q \in 1 .. k : 14 - k + q = p
      <4>1. p - (14 - k) \in 1 .. k /\ 14 - k + (p - (14 - k)) = p
        BY <2>2
      <4> QED
        BY <4>1
    <3>2. turned[p] = keys[q] /\ q \in 1 .. 14
      BY <1>4, <3>1
    <3> QED
      BY <1>1, <3>2
  <2> QED
    BY <2>1, <2>2
<1>7. visit = turned
  <2>1. visit = Filtered(turned, all)
    BY <1>2, PhpFiltered DEF turned, head, tail
  <2>2. Filtered(turned, all) = turned
    <3>1. 14 \in Nat
      OBVIOUS
    <3> QED
      BY <1>4, <1>6, <3>1, FilteredAll
  <2> QED
    BY <2>1, <2>2
<1>8. \A q \in 1 .. 14 : keys[q] \in PhpLike!Range(visit)
  <2>1. PhpLike!Range(visit) = {turned[p] : p \in 1 .. 14}
    BY <1>4, <1>7 DEF PhpLike!Range
  <2> QED
    BY <1>5, <2>1
<1>9. Filtered(keys, PhpLike!Range(visit)) = keys
  <2>1. 14 \in Nat
    OBVIOUS
  <2> QED
    BY <1>1, <1>8, <2>1, FilteredAll
<1>10. PhpLike!SortedKeys(visit) = Filtered(keys, PhpLike!Range(visit))
  BY PhpFiltered DEF PhpLike!SortedKeys, keys
<1> QED
  BY <1>9, <1>10 DEF keys

PhpInstance(n, i, dec, scratch, keyBuf, htmlBuf, respHdrs, jsonBuf, mac, h) ==
    [n |-> n, i |-> i, dec |-> dec, scratch |-> scratch, keyBuf |-> keyBuf,
     htmlBuf |-> htmlBuf, respHdrs |-> respHdrs, jsonBuf |-> jsonBuf, mac |-> mac, h |-> h]

\* The maps and buffers hold no more than what one request puts there.
PhpMaps(scratch, respHdrs) ==
    /\ DOMAIN scratch \subseteq PhpLike!Range(PhpLike!Keys)
    /\ DOMAIN respHdrs \subseteq {"sig", "locale", "user"}

PhpBuffers(keyBuf, htmlBuf, jsonBuf, mac) ==
    /\ keyBuf \in {<<>>, PhpLike!Keys}
    /\ Len(htmlBuf) <= 1 /\ Len(jsonBuf) <= 1 /\ Len(mac) <= 2

PhpShape(n) ==
    \E i, dec, scratch, keyBuf, htmlBuf, respHdrs, jsonBuf, mac, h :
        /\ inst = PhpInstance(n, i, dec, scratch, keyBuf, htmlBuf, respHdrs, jsonBuf, mac, h)
        /\ PhpMaps(scratch, respHdrs)
        /\ PhpBuffers(keyBuf, htmlBuf, jsonBuf, mac)

\* What the scratch holds is the request's own once it was parsed, and what
\* goes into the checksum is right for the requests answered.
PhpInv(n) ==
    /\ pc \in {"idle", "parse", "render", "respond"}
    /\ PhpShape(n)
    /\ inst.i \in 0 .. n
    /\ inst.h = [k \in 1 .. inst.i |-> PhpLike!Right(n)[k]]
    /\ pc \in {"render", "respond"} =>
          LET r == PhpLike!Request(inst.i) IN
          inst.i < n /\ inst.dec = r /\ inst.scratch = PhpLike!Assoc(r)
    /\ pc = "respond" =>
          LET r == PhpLike!Request(inst.i) IN
          /\ inst.mac = <<r.token, r>>
          /\ inst.htmlBuf = <<PhpLike!Page(r, PhpLike!Keys, PhpLike!Assoc(r))>>
    /\ pc = "idle" => result \in {<<>>, <<PhpLike!Right(n)>>}

\* A reset map holds what is stored into it, and nothing else.
LEMMA PhpStored ==
    ASSUME NEW map, NEW old, map = [key \in DOMAIN map |-> map[key]]
    PROVE  PhpLike!Stored(PhpLike!Reset(old), map) = map
<1>1. PhpLike!Reset(old) = <<>>
  BY DEF PhpLike!Reset, PhpLike!Blank
<1>2. DOMAIN <<>> \cup DOMAIN map = DOMAIN map
  OBVIOUS
<1>3. PhpLike!Stored(<<>>, map) = [key \in DOMAIN map |-> map[key]]
  BY <1>2 DEF PhpLike!Stored
<1> QED
  BY <1>1, <1>3

LEMMA PhpBegin ==
    ASSUME NEW n \in Nat \ {0}, PhpInv(n), PhpLike!Begin
    PROVE  PhpInv(n)'
<1>1. PICK i0, dec, scratch, keyBuf, htmlBuf, respHdrs, jsonBuf, mac, h0 :
         /\ inst = PhpInstance(n, i0, dec, scratch, keyBuf, htmlBuf, respHdrs, jsonBuf, mac, h0)
         /\ PhpMaps(scratch, respHdrs)
         /\ PhpBuffers(keyBuf, htmlBuf, jsonBuf, mac)
  BY DEF PhpInv, PhpShape
<1>2. inst' = PhpInstance(n, 0, dec, scratch, keyBuf, htmlBuf, respHdrs, jsonBuf, <<>>, <<>>)
  <2>1. inst' = [inst EXCEPT !.i = 0, !.h = <<>>, !.mac = <<>>]
    BY DEF PhpLike!Begin, PhpLike!FreshHash
  <2> QED
    BY <1>1, <2>1 DEF PhpInstance
<1>3. inst'.i = 0 /\ inst'.h = <<>>
  BY <1>2 DEF PhpInstance
<1>4. <<>> = [k \in 1 .. 0 |-> PhpLike!Right(n)[k]]
  OBVIOUS
<1> QED
  <2>1. PhpShape(n)'
    <3>1. PhpBuffers(keyBuf, htmlBuf, jsonBuf, <<>>)
      BY <1>1 DEF PhpBuffers
    <3> QED
      BY <1>1, <1>2, <3>1 DEF PhpShape
  <2>2. pc' = "parse" /\ 0 \in 0 .. n
    BY DEF PhpLike!Begin
  <2> QED
    BY <1>3, <1>4, <2>1, <2>2 DEF PhpInv

LEMMA PhpParse ==
    ASSUME NEW n \in Nat \ {0}, PhpInv(n), PhpLike!Parse
    PROVE  PhpInv(n)'
<1> DEFINE r == PhpLike!Request(inst.i)
<1>1. PICK i0, dec, scratch, keyBuf, htmlBuf, respHdrs, jsonBuf, mac, h0 :
         /\ inst = PhpInstance(n, i0, dec, scratch, keyBuf, htmlBuf, respHdrs, jsonBuf, mac, h0)
         /\ PhpMaps(scratch, respHdrs)
         /\ PhpBuffers(keyBuf, htmlBuf, jsonBuf, mac)
  BY DEF PhpInv, PhpShape
<1>2. pc = "parse" /\ pc' = "render" /\ inst.i < n
  BY <1>1 DEF PhpLike!Parse, PhpInstance
<1>3. PhpLike!Stored(PhpLike!Reset(inst.scratch), PhpLike!Assoc(r)) = PhpLike!Assoc(r)
  <2>1. PhpLike!Assoc(r) = [key \in DOMAIN PhpLike!Assoc(r) |-> PhpLike!Assoc(r)[key]]
    BY DEF PhpLike!Assoc
  <2> QED
    BY <2>1, PhpStored
<1>4. inst' = PhpInstance(n, inst.i, r, PhpLike!Assoc(r), keyBuf, htmlBuf, respHdrs, jsonBuf, mac, inst.h)
  <2>1. inst' = [inst EXCEPT !.dec = r, !.scratch = PhpLike!Assoc(r)]
    BY <1>3 DEF PhpLike!Parse
  <2> HIDE DEF r
  <2> QED
    BY <1>1, <2>1 DEF PhpInstance
<1>5. inst'.i = inst.i /\ inst'.h = inst.h /\ inst'.dec = r /\ inst'.scratch = PhpLike!Assoc(r)
  BY <1>4 DEF PhpInstance
<1>6. inst.i \in 0 .. n /\ inst.h = [k \in 1 .. inst.i |-> PhpLike!Right(n)[k]]
  BY DEF PhpInv
<1> QED
  <2>1. PhpShape(n)'
    <3>1. PhpMaps(PhpLike!Assoc(r), respHdrs)
      BY <1>1 DEF PhpMaps, PhpLike!Assoc
    <3> HIDE DEF r
    <3> QED
      BY <1>1, <1>4, <3>1 DEF PhpShape
  <2> QED
    BY <1>2, <1>5, <1>6, <2>1 DEF PhpInv

LEMMA PhpRender ==
    ASSUME NEW n \in Nat \ {0}, PhpInv(n), PhpLike!Render
    PROVE  PhpInv(n)'
<1> DEFINE r    == PhpLike!Request(inst.i)
           page == PhpLike!Page(r, PhpLike!Keys, PhpLike!Assoc(r))
<1>1. PICK i0, dec, scratch, keyBuf, htmlBuf, respHdrs, jsonBuf, mac, h0 :
         /\ inst = PhpInstance(n, i0, dec, scratch, keyBuf, htmlBuf, respHdrs, jsonBuf, mac, h0)
         /\ PhpMaps(scratch, respHdrs)
         /\ PhpBuffers(keyBuf, htmlBuf, jsonBuf, mac)
  BY DEF PhpInv, PhpShape
<1>2. /\ pc = "render" /\ pc' = "respond"
      /\ inst.i < n /\ inst.dec = r /\ inst.scratch = PhpLike!Assoc(r)
      /\ inst.i \in 0 .. n /\ inst.h = [k \in 1 .. inst.i |-> PhpLike!Right(n)[k]]
  BY DEF PhpLike!Render, PhpInv
<1>3. PICK visit \in PhpLike!Visits(inst.scratch) :
         LET keys == PhpLike!SortedKeys(visit) IN
         inst' = [inst EXCEPT
                     !.mac = PhpLike!Reset(@) \o <<inst.dec.token, PhpLike!Request(inst.i)>>,
                     !.keyBuf = keys,
                     !.htmlBuf = PhpLike!Reset(@) \o <<PhpLike!Page(inst.dec, keys, inst.scratch)>>]
  BY Zenon DEF PhpLike!Render
<1>4. PhpLike!SortedKeys(visit) = PhpLike!Keys
  <2>1. DOMAIN PhpLike!Assoc(r) = PhpLike!Range(PhpLike!Keys)
    BY DEF PhpLike!Assoc
  <2> QED
    BY <1>2, <1>3, <2>1, PhpSorted
<1>5. /\ PhpLike!Reset(inst.mac) \o <<inst.dec.token, r>> = <<r.token, r>>
      /\ PhpLike!Reset(inst.htmlBuf)
            \o <<PhpLike!Page(inst.dec, PhpLike!SortedKeys(visit), inst.scratch)>> = <<page>>
  <2>1. PhpLike!Reset(inst.mac) = <<>> /\ PhpLike!Reset(inst.htmlBuf) = <<>>
    BY DEF PhpLike!Reset, PhpLike!Blank
  <2>2. PhpLike!Page(inst.dec, PhpLike!SortedKeys(visit), inst.scratch) = page
    BY <1>2, <1>4
  <2> HIDE DEF r, page
  <2>3. <<r.token, r>> \in Seq({r.token, r}) /\ <<page>> \in Seq({page})
    OBVIOUS
  <2>4. <<>> \o <<r.token, r>> = <<r.token, r>> /\ <<>> \o <<page>> = <<page>>
    BY <2>3, ConcatEmptySeq
  <2> QED
    BY <1>2, <2>1, <2>2, <2>4
<1>6. inst' = PhpInstance(n, inst.i, inst.dec, inst.scratch, PhpLike!Keys, <<page>>, respHdrs, jsonBuf,
                          <<r.token, r>>, inst.h)
  <2>1. inst' = [inst EXCEPT !.mac = <<r.token, r>>, !.keyBuf = PhpLike!Keys, !.htmlBuf = <<page>>]
    BY <1>3, <1>4, <1>5
  <2> HIDE DEF r, page
  <2>2. inst.dec = dec /\ inst.scratch = scratch
    BY <1>1 DEF PhpInstance
  <2> QED
    BY <1>1, <2>1, <2>2 DEF PhpInstance
<1>7. /\ inst'.i = inst.i /\ inst'.h = inst.h /\ inst'.dec = inst.dec /\ inst'.scratch = inst.scratch
      /\ inst'.mac = <<r.token, r>> /\ inst'.htmlBuf = <<page>>
  <2> HIDE DEF r, page
  <2> QED
    BY <1>6 DEF PhpInstance
<1> QED
  <2>1. PhpShape(n)'
    <3> HIDE DEF r, page
    <3>1. PhpBuffers(PhpLike!Keys, <<page>>, jsonBuf, <<r.token, r>>)
      BY <1>1 DEF PhpBuffers
    <3>2. PhpMaps(inst.scratch, respHdrs)
      BY <1>1 DEF PhpInstance
    <3> QED
      BY <1>6, <3>1, <3>2 DEF PhpShape
  <2> QED
    BY <1>2, <1>7, <2>1 DEF PhpInv

\* A function of the first numbers, taken one further.
LEMMA AppendNext ==
    ASSUME NEW right, NEW i \in Nat
    PROVE  Append([k \in 1 .. i |-> right[k]], right[i + 1]) = [k \in 1 .. i + 1 |-> right[k]]
<1> DEFINE S == {right[k] : k \in 1 .. i + 1}
           h == [k \in 1 .. i |-> right[k]]
           e == right[i + 1]
<1>1. h \in Seq(S) /\ Len(h) = i /\ e \in S
  <2>1. h \in [1 .. i -> S] /\ e \in S
    OBVIOUS
  <2> HIDE DEF h, S, e
  <2> QED
    BY <2>1
<1>2. \A k \in 1 .. i + 1 : right[k] = IF k = i + 1 THEN e ELSE h[k]
  OBVIOUS
<1> HIDE DEF h, S, e
<1>3. /\ Append(h, e) \in Seq(S) /\ Len(Append(h, e)) = i + 1
      /\ \A k \in 1 .. i + 1 : Append(h, e)[k] = IF k = i + 1 THEN e ELSE h[k]
  BY <1>1
<1>4. Append(h, e) \in [1 .. i + 1 -> S]
  BY <1>3, LenProperties
<1>5. Append(h, e) = [k \in 1 .. i + 1 |-> right[k]]
  BY <1>2, <1>3, <1>4
<1> QED
  BY <1>5 DEF h, e

\* What the request with index i puts into the checksum.
PhpShare(i) ==
    LET r    == PhpLike!Request(i)
        sig  == <<r.token, r>>
        html == <<PhpLike!Page(r, PhpLike!Keys, PhpLike!Assoc(r))>>
    IN  <<html, <<PhpLike!Response(r, html, PhpLike!Headers(r, sig), PhpLike!Assoc(r))>>, sig>>

LEMMA PhpShares ==
    ASSUME NEW n \in Nat, NEW i \in 0 .. n - 1
    PROVE  PhpLike!Right(n)[i + 1] = PhpShare(i)
<1>1. PhpLike!Right(n) = [k \in 1 .. n |-> PhpShare(k - 1)]
  BY DEF PhpLike!Right, PhpShare
<1>2. i + 1 \in 1 .. n /\ i + 1 - 1 = i
  OBVIOUS
<1> QED
  BY <1>1, <1>2

LEMMA PhpRespond ==
    ASSUME NEW n \in Nat \ {0}, PhpInv(n), PhpLike!Respond
    PROVE  PhpInv(n)'
<1> DEFINE i       == inst.i
           r       == PhpLike!Request(i)
           sig     == <<r.token, r>>
           html    == <<PhpLike!Page(r, PhpLike!Keys, PhpLike!Assoc(r))>>
           headers == PhpLike!Headers(r, sig)
           json    == <<PhpLike!Response(r, html, headers, PhpLike!Assoc(r))>>
           right   == PhpLike!Right(n)
           h       == inst.h
<1>1. PICK i0, dec, scratch, keyBuf, htmlBuf, respHdrs, jsonBuf, mac, h0 :
         /\ inst = PhpInstance(n, i0, dec, scratch, keyBuf, htmlBuf, respHdrs, jsonBuf, mac, h0)
         /\ PhpMaps(scratch, respHdrs)
         /\ PhpBuffers(keyBuf, htmlBuf, jsonBuf, mac)
  BY DEF PhpInv, PhpShape
<1>2. /\ pc = "respond" /\ pc' = "parse"
      /\ i < n /\ inst.dec = r /\ inst.scratch = PhpLike!Assoc(r)
      /\ i \in 0 .. n /\ h = [k \in 1 .. i |-> right[k]]
      /\ inst.mac = sig /\ inst.htmlBuf = html
  BY DEF PhpLike!Respond, PhpInv
<1>3. PhpLike!Stored(PhpLike!Reset(inst.respHdrs), PhpLike!Headers(inst.dec, inst.mac)) = headers
  <2>1. headers = [key \in DOMAIN headers |-> headers[key]]
    BY DEF PhpLike!Headers
  <2>2. PhpLike!Headers(inst.dec, inst.mac) = headers
    BY <1>2
  <2> HIDE DEF headers
  <2> QED
    BY <2>1, <2>2, PhpStored
<1>4. PhpLike!Reset(inst.jsonBuf)
         \o <<PhpLike!Response(inst.dec, inst.htmlBuf, headers, inst.scratch)>> = json
  <2> DEFINE response == PhpLike!Response(r, html, headers, PhpLike!Assoc(r))
  <2>1. PhpLike!Response(inst.dec, inst.htmlBuf, headers, inst.scratch) = response
    BY <1>2
  <2>2. PhpLike!Reset(inst.jsonBuf) = <<>>
    BY DEF PhpLike!Reset, PhpLike!Blank
  <2> HIDE DEF response
  <2>3. <<response>> \in Seq({response})
    OBVIOUS
  <2>4. <<>> \o <<response>> = <<response>>
    BY <2>3, ConcatEmptySeq
  <2> QED
    BY <2>1, <2>2, <2>4 DEF response
<1>5. right[i + 1] = <<html, json, sig>>
  <2>1. i \in 0 .. n - 1
    BY <1>2
  <2> QED
    BY <2>1, PhpShares DEF PhpShare
<1>6. inst' = [inst EXCEPT !.respHdrs = headers, !.jsonBuf = json,
                           !.h = Append(h, right[i + 1]), !.i = i + 1]
  <2>1. inst' = [inst EXCEPT !.respHdrs = headers, !.jsonBuf = json,
                             !.h = Append(@, <<inst.htmlBuf, json, inst.mac>>), !.i = @ + 1]
    BY <1>3, <1>4 DEF PhpLike!Respond
  <2>2. <<inst.htmlBuf, json, inst.mac>> = right[i + 1]
    BY <1>2, <1>5
  <2> HIDE DEF headers, json, right
  <2> QED
    BY <2>1, <2>2
<1>10. PhpMaps(scratch, headers) /\ PhpBuffers(keyBuf, htmlBuf, json, mac)
  <2>1. DOMAIN headers \subseteq {"sig", "locale", "user"}
    BY DEF PhpLike!Headers
  <2>2. Len(json) = 1
    OBVIOUS
  <2> HIDE DEF headers, json
  <2> QED
    BY <1>1, <2>1, <2>2 DEF PhpMaps, PhpBuffers
<1> HIDE DEF headers, json, right
<1>7. Append(h, right[i + 1]) = [k \in 1 .. i + 1 |-> right[k]]
  <2>1. i \in Nat
    BY <1>2
  <2> QED
    BY <1>2, <2>1, AppendNext
<1>8. inst' = PhpInstance(n, i + 1, dec, scratch, keyBuf, htmlBuf, headers, json, mac,
                          [k \in 1 .. i + 1 |-> right[k]])
  <2> DEFINE new == [k \in 1 .. i + 1 |-> right[k]]
  <2>1. inst' = [inst EXCEPT !.respHdrs = headers, !.jsonBuf = json, !.h = new, !.i = i + 1]
    BY <1>6, <1>7
  <2> HIDE DEF new, i
  <2>2. inst' = PhpInstance(n, i + 1, dec, scratch, keyBuf, htmlBuf, headers, json, mac, new)
    BY <1>1, <2>1 DEF PhpInstance
  <2> QED
    BY <2>2 DEF new
<1>9. inst'.i = i + 1 /\ inst'.h = [k \in 1 .. i + 1 |-> right[k]] /\ i + 1 \in 0 .. n
  BY <1>2, <1>8 DEF PhpInstance
<1> QED
  <2>1. PhpShape(n)'
    <3> DEFINE new == [k \in 1 .. i + 1 |-> right[k]]
    <3>1. inst' = PhpInstance(n, i + 1, dec, scratch, keyBuf, htmlBuf, headers, json, mac, new)
      BY <1>8
    <3> HIDE DEF new, i
    <3> QED
      BY <1>10, <3>1 DEF PhpShape
  <2> QED
    BY <1>2, <1>9, <2>1 DEF PhpInv, right

LEMMA PhpReturn ==
    ASSUME NEW n \in Nat \ {0}, PhpInv(n), PhpLike!Return
    PROVE  PhpInv(n)' /\ result' = <<PhpLike!Right(n)>>
<1>1. /\ inst' = inst /\ pc' = "idle" /\ result' = <<inst.h>>
      /\ inst.h = [k \in 1 .. inst.i |-> PhpLike!Right(n)[k]]
  BY DEF PhpInv, PhpLike!Return
<1>2. inst.i = n
  <2>1. inst.n = n
    BY DEF PhpInv, PhpShape, PhpInstance
  <2> QED
    BY <2>1 DEF PhpInv, PhpLike!Return
<1>3. inst.h = PhpLike!Right(n)
  BY <1>1, <1>2 DEF PhpLike!Right
<1> QED
  BY <1>1, <1>3 DEF PhpInv, PhpShape
-----------------------------------------------------------------------------
(* apache_like                                                             *)

Weight(route) == 2 * Len(route[1]) + IF route[2] THEN 1 ELSE 0

Fit(k, p, S) == ApacheLike!Matches(ApacheLike!Routes[k], ApacheLike!Paths[p]) <=> k \in S

\* The routes that match path p.
Fitting(p, S) ==
    /\ Fit(1, p, S) /\ Fit(2, p, S) /\ Fit(3, p, S) /\ Fit(4, p, S) /\ Fit(5, p, S)
    /\ Fit(6, p, S) /\ Fit(7, p, S) /\ Fit(8, p, S) /\ Fit(9, p, S) /\ Fit(10, p, S)
    /\ Fit(11, p, S) /\ Fit(12, p, S) /\ Fit(13, p, S) /\ Fit(14, p, S) /\ Fit(15, p, S)
    /\ Fit(16, p, S) /\ Fit(17, p, S) /\ Fit(18, p, S) /\ Fit(19, p, S) /\ Fit(20, p, S)

Answered(p) ==
    ApacheLike!MatchRoute(ApacheLike!Paths[p]) = ApacheLike!MostSpecific(ApacheLike!Paths[p])

WeightOf(k) == Weight(ApacheLike!Routes[k])

LEMMA ApacheWeights ==
    /\ DOMAIN ApacheLike!Routes = 1 .. 20
    /\ WeightOf(1) = 3 /\ WeightOf(2) = 5 /\ WeightOf(3) = 5 /\ WeightOf(4) = 5 /\ WeightOf(5) = 5
    /\ WeightOf(6) = 5 /\ WeightOf(7) = 8 /\ WeightOf(8) = 8 /\ WeightOf(9) = 8 /\ WeightOf(10) = 6
    /\ WeightOf(11) = 6 /\ WeightOf(12) = 6 /\ WeightOf(13) = 6 /\ WeightOf(14) = 4 /\ WeightOf(15) = 4
    /\ WeightOf(16) = 4 /\ WeightOf(17) = 5 /\ WeightOf(18) = 5 /\ WeightOf(19) = 4 /\ WeightOf(20) = 2
BY DEF ApacheLike!Routes, Weight, WeightOf

\* What the order of the table has to give for a path: the first route that
\* matches is the most specific one.
LEMMA ApacheBest ==
    ASSUME NEW p, NEW S \in SUBSET (1 .. 20), Fitting(p, S), NEW f \in S,
           \A k \in S : k = f \/ (k > f /\ WeightOf(k) < WeightOf(f))
    PROVE  Answered(p)
<1> DEFINE R == ApacheLike!Routes
           path == ApacheLike!Paths[p]
           Fits == {k \in DOMAIN R : ApacheLike!Matches(R[k], path)}
           C == {route \in ApacheLike!Range(R) : ApacheLike!Matches(route, path)}
<1>1. /\ ApacheLike!MatchRoute(path) = R[ApacheLike!Min(Fits)]
      /\ ApacheLike!MostSpecific(path)
            = CHOOSE route \in C : \A other \in C : Weight(other) <= Weight(route)
  BY DEF ApacheLike!MatchRoute, ApacheLike!MostSpecific, Weight
<1>2. DOMAIN R = 1 .. 20 /\ \A k \in 1 .. 20 : WeightOf(k) \in Nat
  BY ApacheWeights
<1>3. \A k \in 1 .. 20 : ApacheLike!Matches(R[k], path) <=> k \in S
  BY DEF Fitting, Fit
<1>4. \A k \in 1 .. 20 : WeightOf(k) = Weight(R[k])
  BY DEF WeightOf
<1> HIDE DEF R, path
<1>5. Fits = S
  BY <1>2, <1>3
<1>6. ApacheLike!Min(S) = f
  <2>1. \A k \in S : f <= k /\ k \in Int
    OBVIOUS
  <2>2. \A k \in S : (\A j \in S : k =< j) => k = f
    BY <2>1
  <2>3. (CHOOSE k \in S : \A j \in S : k =< j) = f
    BY <2>1, <2>2
  <2> QED
    BY <2>3 DEF ApacheLike!Min
<1>7. /\ R[f] \in C /\ \A route \in C : Weight(route) \in Nat
      /\ \A route \in C : route = R[f] \/ Weight(route) < Weight(R[f])
  <2>1. ApacheLike!Range(R) = {R[k] : k \in 1 .. 20}
    BY <1>2 DEF ApacheLike!Range
  <2>2. C = {R[k] : k \in S}
    BY <1>3, <2>1
  <2> HIDE DEF C
  <2> QED
    BY <1>2, <1>4, <2>2
<1>8. R[f] = CHOOSE route \in C : \A other \in C : Weight(other) <= Weight(route)
  <2> HIDE DEF C
  <2>1. \A other \in C : Weight(other) <= Weight(R[f])
    BY <1>7
  <2>2. \A route \in C : (\A other \in C : Weight(other) <= Weight(route)) => route = R[f]
    BY <1>7
  <2> QED
    BY <1>7, <2>1, <2>2
<1>9. ApacheLike!MatchRoute(path) = R[f]
  BY <1>1, <1>5, <1>6
<1> QED
  BY <1>1, <1>8, <1>9 DEF path, Answered

\* Each path that is requested is answered by its most specific route: no
\* route of the table hides a better one.
LEMMA ApacheRouted == \A p \in 1 .. 18 : Answered(p)
<1>1. Answered(1)
  <2>1. Fitting(1, {1, 20})
    BY DEF Fitting, Fit, ApacheLike!Routes, ApacheLike!Paths, ApacheLike!Matches, ApacheLike!IsPrefix
  <2> QED
    BY <2>1, ApacheWeights, ApacheBest
<1>2. Answered(2)
  <2>1. Fitting(2, {2, 20})
    BY DEF Fitting, Fit, ApacheLike!Routes, ApacheLike!Paths, ApacheLike!Matches, ApacheLike!IsPrefix
  <2> QED
    BY <2>1, ApacheWeights, ApacheBest
<1>3. Answered(3)
  <2>1. Fitting(3, {3, 20})
    BY DEF Fitting, Fit, ApacheLike!Routes, ApacheLike!Paths, ApacheLike!Matches, ApacheLike!IsPrefix
  <2> QED
    BY <2>1, ApacheWeights, ApacheBest
<1>4. Answered(4)
  <2>1. Fitting(4, {4, 20})
    BY DEF Fitting, Fit, ApacheLike!Routes, ApacheLike!Paths, ApacheLike!Matches, ApacheLike!IsPrefix
  <2> QED
    BY <2>1, ApacheWeights, ApacheBest
<1>5. Answered(5)
  <2>1. Fitting(5, {5, 20})
    BY DEF Fitting, Fit, ApacheLike!Routes, ApacheLike!Paths, ApacheLike!Matches, ApacheLike!IsPrefix
  <2> QED
    BY <2>1, ApacheWeights, ApacheBest
<1>6. Answered(6)
  <2>1. Fitting(6, {7, 20})
    BY DEF Fitting, Fit, ApacheLike!Routes, ApacheLike!Paths, ApacheLike!Matches, ApacheLike!IsPrefix
  <2> QED
    BY <2>1, ApacheWeights, ApacheBest
<1>7. Answered(7)
  <2>1. Fitting(7, {8, 20})
    BY DEF Fitting, Fit, ApacheLike!Routes, ApacheLike!Paths, ApacheLike!Matches, ApacheLike!IsPrefix
  <2> QED
    BY <2>1, ApacheWeights, ApacheBest
<1>8. Answered(8)
  <2>1. Fitting(8, {9, 20})
    BY DEF Fitting, Fit, ApacheLike!Routes, ApacheLike!Paths, ApacheLike!Matches, ApacheLike!IsPrefix
  <2> QED
    BY <2>1, ApacheWeights, ApacheBest
<1>9. Answered(9)
  <2>1. Fitting(9, {10, 20})
    BY DEF Fitting, Fit, ApacheLike!Routes, ApacheLike!Paths, ApacheLike!Matches, ApacheLike!IsPrefix
  <2> QED
    BY <2>1, ApacheWeights, ApacheBest
<1>10. Answered(10)
  <2>1. Fitting(10, {11, 14, 20})
    BY DEF Fitting, Fit, ApacheLike!Routes, ApacheLike!Paths, ApacheLike!Matches, ApacheLike!IsPrefix
  <2> QED
    BY <2>1, ApacheWeights, ApacheBest
<1>11. Answered(11)
  <2>1. Fitting(11, {12, 14, 20})
    BY DEF Fitting, Fit, ApacheLike!Routes, ApacheLike!Paths, ApacheLike!Matches, ApacheLike!IsPrefix
  <2> QED
    BY <2>1, ApacheWeights, ApacheBest
<1>12. Answered(12)
  <2>1. Fitting(12, {13, 14, 20})
    BY DEF Fitting, Fit, ApacheLike!Routes, ApacheLike!Paths, ApacheLike!Matches, ApacheLike!IsPrefix
  <2> QED
    BY <2>1, ApacheWeights, ApacheBest
<1>13. Answered(13)
  <2>1. Fitting(13, {15, 20})
    BY DEF Fitting, Fit, ApacheLike!Routes, ApacheLike!Paths, ApacheLike!Matches, ApacheLike!IsPrefix
  <2> QED
    BY <2>1, ApacheWeights, ApacheBest
<1>14. Answered(14)
  <2>1. Fitting(14, {16, 20})
    BY DEF Fitting, Fit, ApacheLike!Routes, ApacheLike!Paths, ApacheLike!Matches, ApacheLike!IsPrefix
  <2> QED
    BY <2>1, ApacheWeights, ApacheBest
<1>15. Answered(15)
  <2>1. Fitting(15, {17, 20})
    BY DEF Fitting, Fit, ApacheLike!Routes, ApacheLike!Paths, ApacheLike!Matches, ApacheLike!IsPrefix
  <2> QED
    BY <2>1, ApacheWeights, ApacheBest
<1>16. Answered(16)
  <2>1. Fitting(16, {18, 20})
    BY DEF Fitting, Fit, ApacheLike!Routes, ApacheLike!Paths, ApacheLike!Matches, ApacheLike!IsPrefix
  <2> QED
    BY <2>1, ApacheWeights, ApacheBest
<1>17. Answered(17)
  <2>1. Fitting(17, {19, 20})
    BY DEF Fitting, Fit, ApacheLike!Routes, ApacheLike!Paths, ApacheLike!Matches, ApacheLike!IsPrefix
  <2> QED
    BY <2>1, ApacheWeights, ApacheBest
<1>18. Answered(18)
  <2>1. Fitting(18, {20})
    BY DEF Fitting, Fit, ApacheLike!Routes, ApacheLike!Paths, ApacheLike!Matches, ApacheLike!IsPrefix
  <2> QED
    BY <2>1, ApacheWeights, ApacheBest
<1> QED
  BY <1>1, <1>2, <1>3, <1>4, <1>5, <1>6, <1>7, <1>8, <1>9,
     <1>10, <1>11, <1>12, <1>13, <1>14, <1>15, <1>16, <1>17, <1>18

ApacheHeads(i) == ApacheLike!Request(i).headers
Names(i)  == [k \in 1 .. Len(ApacheHeads(i)) |-> ApacheLike!Canonical(ApacheHeads(i)[k].name)]
Values(i) == [k \in 1 .. Len(ApacheHeads(i)) |-> ApacheHeads(i)[k].value]

\* The headers that every request has, and the one of a POST.
LEMMA ApacheHeaders ==
    ASSUME NEW i \in Nat
    PROVE  /\ ApacheHeads(i) \in Seq({ApacheHeads(i)[k] : k \in 1 .. Len(ApacheHeads(i))})
           /\ Len(ApacheHeads(i)) \in {3, 4}
           /\ \A k \in 1 .. Len(ApacheHeads(i)) :
                 Names(i)[k] = <<"User-Agent", "canonical">> <=> k = 2
<1> DEFINE a == ApacheLike!Header("Host", "lower", i % 3)
           b == ApacheLike!Header("User-Agent", "upper", i % 4)
           c == ApacheLike!Header("X-Request-Id", "canonical", i)
           d == ApacheLike!Header("Content-Length", "canonical", 0)
           hs == ApacheHeads(i)
<1>1. hs = <<a, b, c>> \o <<>> \/ hs = <<a, b, c>> \o <<d>>
  BY DEF ApacheHeads, ApacheLike!Request
<1>2. /\ ApacheLike!Canonical(a.name) = <<"Host", "canonical">>
      /\ ApacheLike!Canonical(b.name) = <<"User-Agent", "canonical">>
      /\ ApacheLike!Canonical(c.name) = <<"X-Request-Id", "canonical">>
      /\ ApacheLike!Canonical(d.name) = <<"Content-Length", "canonical">>
  BY DEF ApacheLike!Header, ApacheLike!Canonical
<1> HIDE DEF a, b, c, d, hs
<1>3. /\ Len(hs) \in {3, 4} /\ hs \in Seq({a, b, c, d})
      /\ hs[1] = a /\ hs[2] = b /\ hs[3] = c /\ (Len(hs) = 4 => hs[4] = d)
  <2>1. <<a, b, c>> \in Seq({a, b, c, d}) /\ <<d>> \in Seq({a, b, c, d}) /\ <<>> \in Seq({a, b, c, d})
    OBVIOUS
  <2>2. CASE hs = <<a, b, c>> \o <<>>
    <3>1. hs = <<a, b, c>>
      BY <2>1, <2>2, ConcatEmptySeq
    <3> QED
      BY <2>1, <3>1
  <2>3. CASE hs = <<a, b, c>> \o <<d>>
    <3>1. /\ hs \in Seq({a, b, c, d}) /\ Len(hs) = Len(<<a, b, c>>) + Len(<<d>>)
          /\ \A k \in 1 .. Len(<<a, b, c>>) + Len(<<d>>) :
                hs[k] = IF k <= Len(<<a, b, c>>) THEN <<a, b, c>>[k] ELSE <<d>>[k - Len(<<a, b, c>>)]
      BY <2>1, <2>3, ConcatProperties
    <3>2. Len(<<a, b, c>>) = 3 /\ Len(<<d>>) = 1 /\ 4 - 3 = 1
      OBVIOUS
    <3>3. Len(hs) = 4 /\ hs[1] = <<a, b, c>>[1] /\ hs[2] = <<a, b, c>>[2] /\ hs[3] = <<a, b, c>>[3]
      BY <3>1, <3>2
    <3>4. hs[4] = <<d>>[1]
      BY <3>1, <3>2
    <3> QED
      BY <3>1, <3>3, <3>4
  <2> QED
    BY <1>1, <2>2, <2>3
<1>4. hs \in Seq({hs[k] : k \in 1 .. Len(hs)})
  <2> DEFINE S == {hs[k] : k \in 1 .. Len(hs)}
  <2>1. Len(hs) \in Nat /\ hs \in [1 .. Len(hs) -> {a, b, c, d}]
    BY <1>3, LenProperties
  <2>2. hs \in [1 .. Len(hs) -> S]
    BY <2>1
  <2> HIDE DEF S
  <2>3. hs \in Seq(S)
    BY <2>1, <2>2, SeqDef
  <2> QED
    BY <2>3 DEF S
<1>5. ASSUME NEW k \in 1 .. Len(hs)
      PROVE  ApacheLike!Canonical(hs[k].name) = <<"User-Agent", "canonical">> <=> k = 2
  <2>1. k = 1 \/ k = 2 \/ k = 3 \/ (k = 4 /\ Len(hs) = 4)
    <3>1. CASE Len(hs) = 3
      BY <3>1
    <3>2. CASE Len(hs) = 4
      BY <3>2
    <3> QED
      BY <1>3, <3>1, <3>2
  <2>2. /\ <<"Host", "canonical">> # <<"User-Agent", "canonical">>
        /\ <<"X-Request-Id", "canonical">> # <<"User-Agent", "canonical">>
        /\ <<"Content-Length", "canonical">> # <<"User-Agent", "canonical">>
    OBVIOUS
  <2>3. CASE k = 1
    BY <1>2, <1>3, <2>2, <2>3
  <2>4. CASE k = 2
    BY <1>2, <1>3, <2>4
  <2>5. CASE k = 3
    BY <1>2, <1>3, <2>2, <2>5
  <2>6. CASE k = 4 /\ Len(hs) = 4
    BY <1>2, <1>3, <2>2, <2>6
  <2> QED
    BY <2>1, <2>3, <2>4, <2>5, <2>6
<1>6. \A k \in 1 .. Len(hs) : Names(i)[k] = ApacheLike!Canonical(hs[k].name)
  BY DEF Names, hs
<1> QED
  BY <1>3, <1>4, <1>5, <1>6 DEF hs

\* What the request with index i puts into the checksum.
ApacheShare(i) ==
    LET r == ApacheLike!Request(i)  route == ApacheLike!MostSpecific(r.path) IN
    <<ApacheLike!Answer(r.proto, route), ApacheLike!LogLine(i, r, route, r.headers[2].value)>>

LEMMA ApacheShares ==
    ASSUME NEW n \in Nat, NEW i \in 0 .. n - 1
    PROVE  ApacheLike!Right(n)[i + 1] = ApacheShare(i)
<1>1. ApacheLike!Right(n) = [k \in 1 .. n |-> ApacheShare(k - 1)]
  BY DEF ApacheLike!Right, ApacheShare
<1>2. i + 1 \in 1 .. n /\ i + 1 - 1 = i
  OBVIOUS
<1> QED
  BY <1>1, <1>2

LEMMA ApacheRoutes ==
    ASSUME NEW i \in Nat
    PROVE  ApacheLike!MatchRoute(ApacheLike!Request(i).path)
              = ApacheLike!MostSpecific(ApacheLike!Request(i).path)
<1>1. ApacheLike!Request(i).path = ApacheLike!Paths[(i % Len(ApacheLike!Paths)) + 1]
  BY DEF ApacheLike!Request
<1>2. Len(ApacheLike!Paths) = 18
  BY DEF ApacheLike!Paths
<1>3. (i % 18) + 1 \in 1 .. 18
  OBVIOUS
<1> QED
  BY <1>1, <1>2, <1>3, ApacheRouted DEF Answered

ApacheInstance(n, i, pos, headerNames, headerValues, respBuf, logBuf, h) ==
    [n |-> n, i |-> i, pos |-> pos, headerNames |-> headerNames, headerValues |-> headerValues,
     respBuf |-> respBuf, logBuf |-> logBuf, h |-> h]

\* The slices hold the headers up to pos, the buffers one answer and one line.
ApacheSizes(pos, headerNames, headerValues, respBuf, logBuf) ==
    /\ pos \in 0 .. 4
    /\ Len(headerNames) = pos /\ Len(headerValues) = pos
    /\ Len(respBuf) <= 1 /\ Len(logBuf) <= 1

ApacheShape(n) ==
    \E i, pos, headerNames, headerValues, respBuf, logBuf, h :
        /\ inst = ApacheInstance(n, i, pos, headerNames, headerValues, respBuf, logBuf, h)
        /\ ApacheSizes(pos, headerNames, headerValues, respBuf, logBuf)

\* The headers at hand are those of the request up to pos, and what goes into
\* the checksum is right for the requests answered.
ApacheInv(n) ==
    /\ pc \in {"idle", "line", "headers"}
    /\ ApacheShape(n)
    /\ inst.i \in 0 .. n
    /\ inst.h = [k \in 1 .. inst.i |-> ApacheLike!Right(n)[k]]
    /\ pc = "headers" =>
          /\ inst.i < n /\ inst.pos \in 0 .. Len(ApacheHeads(inst.i))
          /\ inst.headerNames = [k \in 1 .. inst.pos |-> Names(inst.i)[k]]
          /\ inst.headerValues = [k \in 1 .. inst.pos |-> Values(inst.i)[k]]
    /\ pc = "idle" => result \in {<<>>, <<ApacheLike!Right(n)>>}

LEMMA ApacheBegin ==
    ASSUME NEW n \in Nat \ {0}, ApacheInv(n), ApacheLike!Begin
    PROVE  ApacheInv(n)'
<1>1. PICK i0, pos, headerNames, headerValues, respBuf, logBuf, h0 :
         /\ inst = ApacheInstance(n, i0, pos, headerNames, headerValues, respBuf, logBuf, h0)
         /\ ApacheSizes(pos, headerNames, headerValues, respBuf, logBuf)
  BY DEF ApacheInv, ApacheShape
<1>2. inst' = ApacheInstance(n, 0, pos, headerNames, headerValues, respBuf, logBuf, <<>>)
  BY <1>1 DEF ApacheInstance, ApacheLike!Begin
<1>3. inst'.i = 0 /\ inst'.h = <<>>
  BY <1>2 DEF ApacheInstance
<1>4. <<>> = [k \in 1 .. 0 |-> ApacheLike!Right(n)[k]]
  OBVIOUS
<1>5. ApacheShape(n)'
  BY <1>1, <1>2 DEF ApacheShape
<1>6. pc' = "line" /\ 0 \in 0 .. n
  BY DEF ApacheLike!Begin
<1> QED
  BY <1>3, <1>4, <1>5, <1>6 DEF ApacheInv

LEMMA ApacheParseLine ==
    ASSUME NEW n \in Nat \ {0}, ApacheInv(n), ApacheLike!ParseLine
    PROVE  ApacheInv(n)'
<1>1. PICK i0, pos, headerNames, headerValues, respBuf, logBuf, h0 :
         /\ inst = ApacheInstance(n, i0, pos, headerNames, headerValues, respBuf, logBuf, h0)
         /\ ApacheSizes(pos, headerNames, headerValues, respBuf, logBuf)
  BY DEF ApacheInv, ApacheShape
<1>2. inst' = ApacheInstance(n, i0, 0, <<>>, <<>>, respBuf, logBuf, h0)
  <2>1. inst' = [inst EXCEPT !.pos = 0, !.headerNames = <<>>, !.headerValues = <<>>]
    BY DEF ApacheLike!ParseLine, ApacheLike!NoHeaders
  <2> QED
    BY <1>1, <2>1 DEF ApacheInstance
<1>3. /\ inst'.i = inst.i /\ inst'.h = inst.h /\ inst'.pos = 0
      /\ inst'.headerNames = <<>> /\ inst'.headerValues = <<>>
  BY <1>1, <1>2 DEF ApacheInstance
<1>4. pc' = "headers" /\ inst.i < n
  <2>1. inst.n = n
    BY <1>1 DEF ApacheInstance
  <2> QED
    BY <2>1 DEF ApacheLike!ParseLine
<1>5. inst.i \in 0 .. n /\ inst.h = [k \in 1 .. inst.i |-> ApacheLike!Right(n)[k]]
  BY DEF ApacheInv
<1>6. 0 \in 0 .. Len(ApacheHeads(inst.i))
  BY <1>5, ApacheHeaders
<1>7. \A i : <<>> = [k \in 1 .. 0 |-> Names(i)[k]] /\ <<>> = [k \in 1 .. 0 |-> Values(i)[k]]
  OBVIOUS
<1>8. ApacheShape(n)'
  <2>1. ApacheSizes(0, <<>>, <<>>, respBuf, logBuf)
    BY <1>1 DEF ApacheSizes
  <2> QED
    BY <1>2, <2>1 DEF ApacheShape
<1> QED
  BY <1>3, <1>4, <1>5, <1>6, <1>7, <1>8 DEF ApacheInv

LEMMA ApacheParseHeader ==
    ASSUME NEW n \in Nat \ {0}, ApacheInv(n), ApacheLike!ParseHeader
    PROVE  ApacheInv(n)'
<1> DEFINE i    == inst.i
           next == inst.pos + 1
           names == [k \in 1 .. next |-> Names(i)[k]]
           values == [k \in 1 .. next |-> Values(i)[k]]
<1>1. PICK i0, pos, headerNames, headerValues, respBuf, logBuf, h0 :
         /\ inst = ApacheInstance(n, i0, pos, headerNames, headerValues, respBuf, logBuf, h0)
         /\ ApacheSizes(pos, headerNames, headerValues, respBuf, logBuf)
  BY DEF ApacheInv, ApacheShape
<1>2. /\ pc = "headers" /\ pc' = pc /\ i \in 0 .. n /\ i < n /\ inst.pos \in Nat
      /\ next \in 1 .. Len(ApacheHeads(i))
      /\ inst.headerNames = [k \in 1 .. inst.pos |-> Names(i)[k]]
      /\ inst.headerValues = [k \in 1 .. inst.pos |-> Values(i)[k]]
      /\ inst.h = [k \in 1 .. i |-> ApacheLike!Right(n)[k]]
  <2>1. pc = "headers" /\ pc' = pc /\ inst.pos < Len(ApacheHeads(i))
    BY DEF ApacheLike!ParseHeader, ApacheHeads
  <2>2. /\ i \in 0 .. n /\ i < n /\ inst.pos \in 0 .. Len(ApacheHeads(i))
        /\ inst.headerNames = [k \in 1 .. inst.pos |-> Names(i)[k]]
        /\ inst.headerValues = [k \in 1 .. inst.pos |-> Values(i)[k]]
        /\ inst.h = [k \in 1 .. i |-> ApacheLike!Right(n)[k]]
    BY <2>1 DEF ApacheInv
  <2>3. Len(ApacheHeads(i)) \in Nat
    BY <2>2, ApacheHeaders
  <2> QED
    BY <2>1, <2>2, <2>3
<1>3. /\ Names(i)[next] = ApacheLike!Canonical(ApacheLike!Request(i).headers[next].name)
      /\ Values(i)[next] = ApacheLike!Request(i).headers[next].value
  BY <1>2 DEF Names, Values, ApacheHeads
<1>4. /\ Append(inst.headerNames, Names(i)[next]) = names
      /\ Append(inst.headerValues, Values(i)[next]) = values
  BY <1>2, AppendNext
<1>5. inst' = [inst EXCEPT !.pos = next, !.headerNames = names, !.headerValues = values]
  BY <1>3, <1>4 DEF ApacheLike!ParseHeader
<1>6. inst' = ApacheInstance(n, i0, next, names, values, respBuf, logBuf, h0)
  <2> HIDE DEF next, names, values
  <2> QED
    BY <1>1, <1>5 DEF ApacheInstance
<1>7. /\ inst'.i = i /\ inst'.h = inst.h /\ inst'.pos = next
      /\ inst'.headerNames = names /\ inst'.headerValues = values
  <2> HIDE DEF next, names, values
  <2> QED
    BY <1>1, <1>6 DEF ApacheInstance
<1>8. ApacheShape(n)'
  <2>1. next \in 0 .. 4
    <3> HIDE DEF i
    <3>1. i \in Nat
      BY <1>2
    <3>2. Len(ApacheHeads(i)) \in {3, 4}
      BY <3>1, ApacheHeaders
    <3>3. next \in 1 .. 3 \/ next \in 1 .. 4
      BY ONLY <1>2, <3>2
    <3> QED
      BY <3>3
  <2>2. Len(names) = next /\ Len(values) = next
    BY <2>1
  <2> HIDE DEF next, names, values
  <2>3. ApacheSizes(next, names, values, respBuf, logBuf)
    BY <1>1, <2>1, <2>2 DEF ApacheSizes
  <2> QED
    BY <1>6, <2>3 DEF ApacheShape
<1>9. next \in 0 .. Len(ApacheHeads(i))
  BY <1>2
<1> QED
  BY <1>2, <1>7, <1>8, <1>9 DEF ApacheInv

\* With all of its headers, the request names its user agent second.
LEMMA ApacheLookup ==
    ASSUME NEW i \in Nat, NEW names, NEW values,
           names = [k \in 1 .. Len(ApacheHeads(i)) |-> Names(i)[k]],
           values = [k \in 1 .. Len(ApacheHeads(i)) |-> Values(i)[k]]
    PROVE  ApacheLike!LookupHeader(names, values, "User-Agent") = ApacheHeads(i)[2].value
<1> DEFINE Found == {k \in DOMAIN names : names[k] = <<"User-Agent", "canonical">>}
<1>1. 2 \in 1 .. Len(ApacheHeads(i))
  <2>1. Len(ApacheHeads(i)) \in {3, 4}
    BY ApacheHeaders
  <2>2. CASE Len(ApacheHeads(i)) = 3
    BY <2>2
  <2>3. CASE Len(ApacheHeads(i)) = 4
    BY <2>3
  <2> QED
    BY <2>1, <2>2, <2>3
<1>2. Found = {2}
  BY <1>1, ApacheHeaders
<1>3. ApacheLike!Min({2}) = 2
  <2>1. (CHOOSE x \in {2} : \A y \in {2} : x =< y) = 2
    OBVIOUS
  <2> QED
    BY <2>1 DEF ApacheLike!Min
<1>4. ApacheLike!LookupHeader(names, values, "User-Agent")
         = IF Found = {} THEN "" ELSE values[ApacheLike!Min(Found)]
  BY DEF ApacheLike!LookupHeader
<1> HIDE DEF Found
<1>5. ApacheLike!LookupHeader(names, values, "User-Agent") = values[2]
  <2>1. Found # {} /\ ApacheLike!Min(Found) = 2
    BY <1>2, <1>3
  <2> QED
    BY <1>4, <2>1, Zenon
<1>6. values[2] = ApacheHeads(i)[2].value
  BY <1>1 DEF Values
<1> QED
  BY <1>5, <1>6

LEMMA PairJoined ==
    ASSUME NEW x, NEW y
    PROVE  <<x>> \o <<y>> = <<x, y>>
<1> DEFINE s == <<x>> \o <<y>>
<1>1. <<x>> \in Seq({x, y}) /\ <<y>> \in Seq({x, y}) /\ Len(<<x>>) = 1 /\ Len(<<y>>) = 1
  OBVIOUS
<1>2. /\ s \in Seq({x, y}) /\ Len(s) = Len(<<x>>) + Len(<<y>>)
      /\ \A k \in 1 .. Len(<<x>>) + Len(<<y>>) :
            s[k] = IF k <= Len(<<x>>) THEN <<x>>[k] ELSE <<y>>[k - Len(<<x>>)]
  BY <1>1, ConcatProperties
<1> HIDE DEF s
<1>3. Len(s) = 2 /\ s[1] = x /\ s[2] = y
  BY <1>1, <1>2
<1>4. <<x, y>> \in Seq({x, y}) /\ Len(<<x, y>>) = 2 /\ <<x, y>>[1] = x /\ <<x, y>>[2] = y
  OBVIOUS
<1>5. s = <<x, y>>
  BY <1>2, <1>3, <1>4, SeqEqual
<1> QED
  BY <1>5 DEF s

LEMMA ApacheRespond ==
    ASSUME NEW n \in Nat \ {0}, ApacheInv(n), ApacheLike!Respond
    PROVE  ApacheInv(n)'
<1> DEFINE i      == inst.i
           r      == ApacheLike!Request(i)
           route  == ApacheLike!MatchRoute(r.path)
           ua     == ApacheLike!LookupHeader(inst.headerNames, inst.headerValues, "User-Agent")
           answer == ApacheLike!Answer(r.proto, route)
           line   == ApacheLike!LogLine(i, r, route, ua)
           right  == ApacheLike!Right(n)
           h      == [k \in 1 .. i + 1 |-> right[k]]
<1>1. PICK i0, pos, headerNames, headerValues, respBuf, logBuf, h0 :
         /\ inst = ApacheInstance(n, i0, pos, headerNames, headerValues, respBuf, logBuf, h0)
         /\ ApacheSizes(pos, headerNames, headerValues, respBuf, logBuf)
  BY DEF ApacheInv, ApacheShape
<1>2. /\ pc = "headers" /\ pc' = "line" /\ i \in 0 .. n - 1 /\ inst.pos = Len(ApacheHeads(i))
      /\ inst.headerNames = [k \in 1 .. inst.pos |-> Names(i)[k]]
      /\ inst.headerValues = [k \in 1 .. inst.pos |-> Values(i)[k]]
      /\ inst.h = [k \in 1 .. i |-> right[k]]
  <2>1. pc = "headers" /\ pc' = "line" /\ inst.pos = Len(ApacheHeads(i))
    BY DEF ApacheLike!Respond, ApacheHeads
  <2> QED
    BY <2>1 DEF ApacheInv
<1>3. ua = ApacheHeads(i)[2].value
  BY <1>2, ApacheLookup
<1>4. route = ApacheLike!MostSpecific(r.path)
  BY <1>2, ApacheRoutes
<1>5. right[i + 1] = <<answer, line>>
  <2>1. right[i + 1] = ApacheShare(i)
    BY <1>2, ApacheShares
  <2>2. ua = r.headers[2].value
    BY <1>3 DEF ApacheHeads
  <2> HIDE DEF ua, route
  <2> QED
    BY <1>4, <2>1, <2>2 DEF ApacheShare
<1>6. inst' = [inst EXCEPT !.respBuf = ApacheLike!Reset(@) \o <<answer>>,
                           !.logBuf = ApacheLike!Reset(@) \o <<line>>,
                           !.h = Append(@, (ApacheLike!Reset(inst.respBuf) \o <<answer>>)
                                              \o (ApacheLike!Reset(inst.logBuf) \o <<line>>)),
                           !.i = @ + 1]
  BY Zenon DEF ApacheLike!Respond
<1> HIDE DEF answer, line, right, route, ua
<1>7. /\ \A old : ApacheLike!Reset(old) = <<>>
      /\ <<>> \o <<answer>> = <<answer>> /\ <<>> \o <<line>> = <<line>>
      /\ <<answer>> \o <<line>> = <<answer, line>>
  <2>1. <<answer>> \in Seq({answer, line}) /\ <<line>> \in Seq({answer, line})
    OBVIOUS
  <2>2. <<>> \o <<answer>> = <<answer>> /\ <<>> \o <<line>> = <<line>>
    BY <2>1, ConcatEmptySeq
  <2>3. <<answer>> \o <<line>> = <<answer, line>>
    BY PairJoined
  <2> QED
    BY <2>2, <2>3 DEF ApacheLike!Reset
<1>8. Append(inst.h, right[i + 1]) = h
  <2>1. i \in Nat
    BY <1>2
  <2> QED
    BY <1>2, <2>1, AppendNext
<1>9. inst' = [inst EXCEPT !.respBuf = <<answer>>, !.logBuf = <<line>>, !.h = h, !.i = i + 1]
  <2> HIDE DEF h
  <2> QED
    BY <1>5, <1>6, <1>7, <1>8
<1>10. inst' = ApacheInstance(n, i + 1, pos, headerNames, headerValues, <<answer>>, <<line>>, h)
  <2> HIDE DEF i, h
  <2> QED
    BY <1>1, <1>9 DEF ApacheInstance
<1>11. inst'.i = i + 1 /\ inst'.h = h /\ i + 1 \in 0 .. n
  <2>1. i + 1 \in 0 .. n
    BY <1>2
  <2> HIDE DEF h
  <2> QED
    BY <1>10, <2>1 DEF ApacheInstance
<1>12. ApacheShape(n)'
  <2>1. ApacheSizes(pos, headerNames, headerValues, <<answer>>, <<line>>)
    BY <1>1 DEF ApacheSizes
  <2> HIDE DEF i, h
  <2> QED
    BY <1>10, <2>1 DEF ApacheShape
<1> QED
  BY <1>2, <1>11, <1>12 DEF ApacheInv, right

LEMMA ApacheReturn ==
    ASSUME NEW n \in Nat \ {0}, ApacheInv(n), ApacheLike!Return
    PROVE  ApacheInv(n)' /\ result' = <<ApacheLike!Right(n)>>
<1>1. /\ inst' = inst /\ pc' = "idle" /\ result' = <<inst.h>>
      /\ inst.h = [k \in 1 .. inst.i |-> ApacheLike!Right(n)[k]]
  BY DEF ApacheInv, ApacheLike!Return
<1>2. inst.i = n
  <2>1. inst.n = n
    BY DEF ApacheInv, ApacheShape, ApacheInstance
  <2> QED
    BY <2>1 DEF ApacheInv, ApacheLike!Return
<1>3. inst.h = ApacheLike!Right(n)
  BY <1>1, <1>2 DEF ApacheLike!Right
<1> QED
  BY <1>1, <1>3 DEF ApacheInv, ApacheShape
-----------------------------------------------------------------------------
(* All of them.                                                            *)

\* A step as Kernel sees it: Run begins, ends with this result, or goes on.
Moves(right) ==
    \/ pc = "idle" /\ pc' # "idle" /\ result' = <<>>
    \/ pc # "idle" /\ pc' = "idle" /\ result' = <<right>>
    \/ pc # "idle" /\ pc' # "idle" /\ result' = result

LEMMA PrimesStep ==
    ASSUME NEW n \in Nat \ {0}, PrimesInv(n), Primes!Next
    PROVE  PrimesInv(n)' /\ Moves(Primes!Right(n))
<1>1. CASE Primes!Begin
  BY <1>1, PrimesBegin DEF Primes!Begin, Moves
<1>2. CASE Primes!Mark
  BY <1>2, MarkStep DEF Primes!Mark, Moves
<1>3. CASE Primes!Count
  BY <1>3, CountStep DEF Primes!Count, Moves
<1> QED
  BY <1>1, <1>2, <1>3 DEF Primes!Next

LEMMA MatrixStep ==
    ASSUME NEW n \in Nat \ {0}, MatrixInv(n), Matrix!Next
    PROVE  MatrixInv(n)' /\ Moves(Matrix!Right(n))
<1>1. CASE Matrix!Begin
  BY <1>1, MatrixBegin DEF Matrix!Begin, Moves
<1>2. CASE Matrix!AddRow
  BY <1>2, AddRowStep DEF Matrix!AddRow, Moves
<1>3. CASE Matrix!Return
  BY <1>3, MatrixReturn DEF Matrix!Return, Moves
<1> QED
  BY <1>1, <1>2, <1>3 DEF Matrix!Next

LEMMA JsonStep ==
    ASSUME NEW n \in Nat \ {0}, JsonInv(n), Json!Next
    PROVE  JsonInv(n)' /\ Moves(Json!Right(n))
<1>1. CASE Json!Begin
  BY <1>1, JsonBegin DEF Json!Begin, Moves
<1>2. CASE Json!DecodeOne
  BY <1>2, JsonDecodeOne DEF Json!DecodeOne, Moves
<1>3. CASE Json!Encode
  BY <1>3, JsonEncode DEF Json!Encode, Moves
<1>4. CASE Json!Return
  BY <1>4, JsonReturn DEF Json!Return, Moves
<1> QED
  BY <1>1, <1>2, <1>3, <1>4 DEF Json!Next

LEMMA PhpStep ==
    ASSUME NEW n \in Nat \ {0}, PhpInv(n), PhpLike!Next
    PROVE  PhpInv(n)' /\ Moves(PhpLike!Right(n))
<1>1. CASE PhpLike!Begin
  BY <1>1, PhpBegin DEF PhpLike!Begin, Moves
<1>2. CASE PhpLike!Parse
  BY <1>2, PhpParse DEF PhpLike!Parse, Moves
<1>3. CASE PhpLike!Render
  <2>1. pc = "render" /\ pc' = "respond" /\ result' = result
    BY <1>3, Zenon DEF PhpLike!Render
  <2> QED
    BY <1>3, <2>1, PhpRender DEF Moves
<1>4. CASE PhpLike!Respond
  BY <1>4, PhpRespond DEF PhpLike!Respond, Moves
<1>5. CASE PhpLike!Return
  BY <1>5, PhpReturn DEF PhpLike!Return, Moves
<1> QED
  BY <1>1, <1>2, <1>3, <1>4, <1>5 DEF PhpLike!Next

LEMMA ApacheStep ==
    ASSUME NEW n \in Nat \ {0}, ApacheInv(n), ApacheLike!Next
    PROVE  ApacheInv(n)' /\ Moves(ApacheLike!Right(n))
<1>1. CASE ApacheLike!Begin
  BY <1>1, ApacheBegin DEF ApacheLike!Begin, Moves
<1>2. CASE ApacheLike!ParseLine
  BY <1>2, ApacheParseLine DEF ApacheLike!ParseLine, Moves
<1>3. CASE ApacheLike!ParseHeader
  BY <1>3, ApacheParseHeader DEF ApacheLike!ParseHeader, Moves
<1>4. CASE ApacheLike!Respond
  BY <1>4, ApacheRespond DEF ApacheLike!Respond, Moves
<1>5. CASE ApacheLike!Return
  BY <1>5, ApacheReturn DEF ApacheLike!Return, Moves
<1> QED
  BY <1>1, <1>2, <1>3, <1>4, <1>5 DEF ApacheLike!Next

\* The loop invariant of the benchmark at hand.
LoopInv(n) ==
    /\ kernel.name = "primes"      => PrimesInv(n)
    /\ kernel.name = "matrix"      => MatrixInv(n)
    /\ kernel.name = "json"        => JsonInv(n)
    /\ kernel.name = "php_like"    => PhpInv(n)
    /\ kernel.name = "apache_like" => ApacheInv(n)

\* The inductive invariant.
IInv == Common /\ \A n : n = kernel.n => LoopInv(n)

LEMMA KernelsInit == Init => IInv
<1> SUFFICES ASSUME Init PROVE IInv
  OBVIOUS
<1> PICK n : n = kernel.n
  OBVIOUS
<1>1. /\ kernel.name \in DOMAIN Sizes /\ n \in Sizes[kernel.name]
      /\ runs = 0 /\ pc = "idle" /\ result = <<>>
  BY DEF Init
<1>2. n \in Nat \ {0} /\ MaxRuns \in Nat
  BY <1>1, KernelsAssumption
<1>3. Common
  BY <1>1, <1>2 DEF Common
<1>4. ASSUME kernel.name = "primes"
      PROVE  PrimesInv(n)
  <2>1. inst = [n |-> n, sieve |-> {}, i |-> 0]
    BY <1>4 DEF Init, Primes!Setup
  <2> QED
    BY <1>1, <1>2, <2>1 DEF PrimesInv, Primes!Sieved
<1>5. ASSUME kernel.name = "matrix"
      PROVE  MatrixInv(n)
  <2>1. inst = [n |-> n, c |-> Matrix!Zero(n), i |-> 0, k |-> 0]
    BY <1>5 DEF Init, Matrix!Setup
  <2> QED
    BY <1>1, <1>2, <2>1 DEF MatrixInv, Matrix!Multiplied, Matrix!Zero
<1>6. ASSUME kernel.name = "json"
      PROVE  JsonInv(n)
  <2>1. inst = [n |-> n, slots |-> [k \in 1 .. n |-> Json!NoUser], len |-> 0, out |-> <<>>]
    BY <1>6 DEF Init, Json!Setup
  <2> QED
    BY <1>1, <1>2, <2>1 DEF JsonInv, Users
<1>7. ASSUME kernel.name = "php_like"
      PROVE  PhpInv(n)
  <2>0. inst = PhpLike!Setup(n)
    BY <1>7 DEF Init
  <2>1. inst = PhpInstance(n, 0, PhpLike!Blank, PhpLike!Blank, <<>>, <<>>, PhpLike!Blank,
                           <<>>, <<>>, <<>>)
    BY <2>0, Zenon DEF PhpLike!Setup, PhpInstance
  <2>2. inst.i = 0 /\ inst.h = <<>>
    BY <2>1 DEF PhpInstance
  <2>3. <<>> = [k \in 1 .. 0 |-> PhpLike!Right(n)[k]]
    OBVIOUS
  <2>4. PhpShape(n)
    <3>1. PhpMaps(PhpLike!Blank, PhpLike!Blank) /\ PhpBuffers(<<>>, <<>>, <<>>, <<>>)
      BY DEF PhpMaps, PhpBuffers, PhpLike!Blank
    <3> QED
      BY <2>1, <3>1 DEF PhpShape
  <2> QED
    BY <1>1, <1>2, <2>2, <2>3, <2>4 DEF PhpInv
<1>8. ASSUME kernel.name = "apache_like"
      PROVE  ApacheInv(n)
  <2>1. inst = ApacheInstance(n, 0, 0, <<>>, <<>>, <<>>, <<>>, <<>>)
    BY <1>8 DEF Init, ApacheLike!Setup, ApacheInstance
  <2>2. inst.i = 0 /\ inst.h = <<>>
    BY <2>1 DEF ApacheInstance
  <2>3. <<>> = [k \in 1 .. 0 |-> ApacheLike!Right(n)[k]]
    OBVIOUS
  <2>4. ApacheShape(n)
    <3>1. ApacheSizes(0, <<>>, <<>>, <<>>, <<>>)
      BY DEF ApacheSizes
    <3> QED
      BY <2>1, <3>1 DEF ApacheShape
  <2> QED
    BY <1>1, <1>2, <2>2, <2>3, <2>4 DEF ApacheInv
<1>9. LoopInv(n)
  BY <1>4, <1>5, <1>6, <1>7, <1>8 DEF LoopInv
<1> QED
  BY <1>3, <1>9 DEF IInv

LEMMA KernelsStep == IInv /\ Step => IInv' /\ kernel' = kernel /\ Moves(Right)
<1> SUFFICES ASSUME IInv, Step
             PROVE  IInv' /\ kernel' = kernel /\ Moves(Right)
  OBVIOUS
<1> PICK n : n = kernel.n
  OBVIOUS
<1>1. n \in Nat \ {0} /\ Common /\ LoopInv(n)
  BY DEF IInv, Common
<1>2. kernel' = kernel /\ runs' \in 0 .. MaxRuns
  <2>1. Counted
    BY DEF Step, RunPrimes, RunMatrix, RunJson, RunPhpLike, RunApacheLike
  <2> QED
    BY <1>1, <2>1, KernelsAssumption DEF Counted, Common
<1>3. ASSUME Moves(Right)
      PROVE  Common'
  BY <1>1, <1>2, <1>3 DEF Common, Moves
<1>4. ASSUME RunPrimes
      PROVE  LoopInv(n)' /\ Common' /\ Moves(Right)
  <2>1. PrimesInv(n)' /\ Moves(Primes!Right(n)) /\ kernel.name = "primes"
    BY <1>1, <1>4, PrimesStep DEF RunPrimes, LoopInv
  <2>2. Right = Primes!Right(n)
    BY <2>1 DEF Right
  <2>3. LoopInv(n)'
    BY <1>2, <2>1 DEF LoopInv
  <2> QED
    BY <1>3, <2>1, <2>2, <2>3
<1>5. ASSUME RunMatrix
      PROVE  LoopInv(n)' /\ Common' /\ Moves(Right)
  <2>1. MatrixInv(n)' /\ Moves(Matrix!Right(n)) /\ kernel.name = "matrix"
    BY <1>1, <1>5, MatrixStep DEF RunMatrix, LoopInv
  <2>2. Right = Matrix!Right(n)
    BY <2>1 DEF Right
  <2>3. LoopInv(n)'
    BY <1>2, <2>1 DEF LoopInv
  <2> QED
    BY <1>3, <2>1, <2>2, <2>3
<1>6. ASSUME RunJson
      PROVE  LoopInv(n)' /\ Common' /\ Moves(Right)
  <2>1. JsonInv(n)' /\ Moves(Json!Right(n)) /\ kernel.name = "json"
    BY <1>1, <1>6, JsonStep DEF RunJson, LoopInv
  <2>2. Right = Json!Right(n)
    BY <2>1 DEF Right
  <2>3. LoopInv(n)'
    BY <1>2, <2>1 DEF LoopInv
  <2> QED
    BY <1>3, <2>1, <2>2, <2>3
<1>7. ASSUME RunPhpLike
      PROVE  LoopInv(n)' /\ Common' /\ Moves(Right)
  <2>1. PhpInv(n)' /\ Moves(PhpLike!Right(n)) /\ kernel.name = "php_like"
    BY <1>1, <1>7, PhpStep DEF RunPhpLike, LoopInv
  <2>2. Right = PhpLike!Right(n)
    BY <2>1 DEF Right
  <2>3. LoopInv(n)'
    BY <1>2, <2>1 DEF LoopInv
  <2> QED
    BY <1>3, <2>1, <2>2, <2>3
<1>8. ASSUME RunApacheLike
      PROVE  LoopInv(n)' /\ Common' /\ Moves(Right)
  <2>1. ApacheInv(n)' /\ Moves(ApacheLike!Right(n)) /\ kernel.name = "apache_like"
    BY <1>1, <1>8, ApacheStep DEF RunApacheLike, LoopInv
  <2>2. Right = ApacheLike!Right(n)
    BY <2>1 DEF Right
  <2>3. LoopInv(n)'
    BY <1>2, <2>1 DEF LoopInv
  <2> QED
    BY <1>3, <2>1, <2>2, <2>3
<1>9. LoopInv(n)' /\ Common' /\ Moves(Right)
  BY <1>4, <1>5, <1>6, <1>7, <1>8 DEF Step
<1>10. IInv'
  BY <1>2, <1>9 DEF IInv
<1> QED
  BY <1>2, <1>9, <1>10

LEMMA KernelsStutter == IInv /\ UNCHANGED vars => IInv'
<1> SUFFICES ASSUME IInv, UNCHANGED vars PROVE IInv'
  OBVIOUS
<1>1. Common'
  BY DEF vars, IInv, Common
<1>2. ASSUME NEW n, n = kernel.n
      PROVE  LoopInv(n)'
  <2>1. LoopInv(n) /\ kernel' = kernel /\ pc' = pc /\ inst' = inst /\ result' = result
    BY <1>2 DEF IInv, vars
  <2>2. kernel.name = "primes" => PrimesInv(n)'
    BY <2>1 DEF LoopInv, PrimesInv, Primes!Sieved
  <2>3. kernel.name = "matrix" => MatrixInv(n)'
    BY <2>1 DEF LoopInv, MatrixInv, Matrix!Multiplied
  <2>4. kernel.name = "json" => JsonInv(n)'
    BY <2>1 DEF LoopInv, JsonInv
  <2>5. kernel.name = "php_like" => PhpInv(n)'
    BY <2>1 DEF LoopInv, PhpInv, PhpShape
  <2>6. kernel.name = "apache_like" => ApacheInv(n)'
    BY <2>1 DEF LoopInv, ApacheInv, ApacheShape
  <2> QED
    BY <2>1, <2>2, <2>3, <2>4, <2>5, <2>6 DEF LoopInv
<1>3. kernel' = kernel
  BY DEF vars
<1> QED
  BY <1>1, <1>2, <1>3 DEF IInv

LEMMA KernelsInvariance == Spec => []IInv
<1>1. IInv /\ [Next]_vars => IInv'
  BY KernelsStep, KernelsStutter DEF Next, Terminated
<1> QED
  BY <1>1, KernelsInit, PTL DEF Spec

\* The type invariant, for every size and any number of Runs: what a benchmark
\* keeps from Run to Run never grows beyond what one Run, or one request of it,
\* puts there.
THEOREM KernelsTypeOK == Spec => []TypeOK
<1>1. IInv => TypeOK
  <2> SUFFICES ASSUME IInv PROVE TypeOK
    OBVIOUS
  <2> PICK n : n = kernel.n
    OBVIOUS
  <2>1. Common /\ LoopInv(n) /\ kernel.name \in {"primes", "matrix", "json", "php_like", "apache_like"}
    BY KernelsAssumption DEF IInv, Common
  <2>2. Len(result) <= 1
    <3>1. PICK x : result \in {<<>>, <<x>>}
      <4>1. pc = "idle" => \E x : result \in {<<>>, <<x>>}
        BY <2>1 DEF LoopInv, PrimesInv, MatrixInv, JsonInv, PhpInv, ApacheInv
      <4> QED
        BY <2>1, <4>1 DEF Common
    <3>2. Len(<<>>) = 0 /\ Len(<<x>>) = 1
      OBVIOUS
    <3>3. Len(result) = 0 \/ Len(result) = 1
      BY <3>1, <3>2
    <3>4. 0 <= 1 /\ 1 <= 1
      OBVIOUS
    <3> QED
      BY <3>3, <3>4, Zenon
  <2>3. ASSUME kernel.name = "primes"
        PROVE  inst.n = n /\ Primes!TypeOK
    BY <2>1, <2>3 DEF LoopInv, PrimesInv, Primes!TypeOK
  <2>4. ASSUME kernel.name = "matrix"
        PROVE  inst.n = n /\ Matrix!TypeOK
    BY <2>1, <2>4 DEF LoopInv, MatrixInv, Matrix!TypeOK
  <2>5. ASSUME kernel.name = "json"
        PROVE  inst.n = n /\ Json!TypeOK
    BY <2>1, <2>5 DEF LoopInv, JsonInv, Json!TypeOK
  <2>6. ASSUME kernel.name = "php_like"
        PROVE  inst.n = n /\ PhpLike!TypeOK
    <3>1. PhpInv(n)
      BY <2>1, <2>6 DEF LoopInv
    <3>2. /\ inst.n = n /\ PhpMaps(inst.scratch, inst.respHdrs)
          /\ PhpBuffers(inst.keyBuf, inst.htmlBuf, inst.jsonBuf, inst.mac)
      BY <3>1 DEF PhpInv, PhpShape, PhpInstance
    <3>3. inst.i \in 0 .. n /\ Len(inst.h) = inst.i
      BY <3>1 DEF PhpInv
    <3>4. pc \in {"idle", "parse", "render", "respond"}
      BY <3>1 DEF PhpInv
    <3> QED
      BY <3>2, <3>3, <3>4 DEF PhpLike!TypeOK, PhpMaps, PhpBuffers
  <2>7. ASSUME kernel.name = "apache_like"
        PROVE  inst.n = n /\ ApacheLike!TypeOK
    <3>1. ApacheInv(n)
      BY <2>1, <2>7 DEF LoopInv
    <3>2. /\ inst.n = n
          /\ ApacheSizes(inst.pos, inst.headerNames, inst.headerValues, inst.respBuf, inst.logBuf)
      BY <3>1 DEF ApacheInv, ApacheShape, ApacheInstance
    <3>3. inst.i \in 0 .. n /\ Len(inst.h) = inst.i
      BY <3>1 DEF ApacheInv
    <3>4. pc \in {"idle", "line", "headers"}
      BY <3>1 DEF ApacheInv
    <3> QED
      BY <3>2, <3>3, <3>4 DEF ApacheLike!TypeOK, ApacheSizes
  <2>8. inst.n = n
    BY <2>1, <2>3, <2>4, <2>5, <2>6, <2>7
  <2> QED
    BY <2>1, <2>2, <2>3, <2>4, <2>5, <2>6, <2>7, <2>8 DEF TypeOK, Common
<1> QED
  BY <1>1, KernelsInvariance, PTL

\* Between two rounds of their loops, the reused arrays of primes and of the
\* matrix benchmarks hold what this Run has computed so far, for every size.
THEOREM KernelsPartialResults == Spec => []PartialResults
<1>1. IInv => PartialResults
  BY DEF IInv, LoopInv, PartialResults, PrimesInv, MatrixInv
<1> QED
  BY <1>1, KernelsInvariance, PTL

\* The headers that apache_like looks things up in are those of the request
\* it answers, however many requests came before.
THEOREM KernelsOwnHeaders == Spec => []OwnHeaders
<1>1. IInv => OwnHeaders
  <2> SUFFICES ASSUME IInv, kernel.name = "apache_like", pc = "headers"
               PROVE  LET own == SubSeq(ApacheLike!Request(inst.i).headers, 1, inst.pos) IN
                      /\ inst.headerNames = [k \in DOMAIN own |-> ApacheLike!Canonical(own[k].name)]
                      /\ inst.headerValues = [k \in DOMAIN own |-> own[k].value]
    BY DEF OwnHeaders, ApacheLike!OwnHeaders
  <2> DEFINE hs == ApacheHeads(inst.i)
             own == SubSeq(hs, 1, inst.pos)
             S == {hs[k] : k \in 1 .. Len(hs)}
  <2>1. /\ inst.i \in Nat /\ inst.pos \in 0 .. Len(hs)
        /\ inst.headerNames = [k \in 1 .. inst.pos |-> Names(inst.i)[k]]
        /\ inst.headerValues = [k \in 1 .. inst.pos |-> Values(inst.i)[k]]
    <3> PICK n : n = kernel.n
      OBVIOUS
    <3>1. ApacheInv(n) /\ n \in Nat
      BY DEF IInv, LoopInv, Common
    <3> QED
      BY <3>1 DEF ApacheInv
  <2>2. hs \in Seq(S) /\ Len(hs) \in Nat
    <3>1. hs \in Seq(S)
      BY <2>1, ApacheHeaders
    <3> HIDE DEF S, hs
    <3> QED
      BY <3>1, LenProperties
  <2>3. /\ \A k \in 1 .. Len(hs) : Names(inst.i)[k] = ApacheLike!Canonical(hs[k].name)
        /\ \A k \in 1 .. Len(hs) : Values(inst.i)[k] = hs[k].value
    BY DEF Names, Values
  <2> HIDE DEF hs, S
  <2>4. DOMAIN own = 1 .. inst.pos /\ \A k \in 1 .. inst.pos : own[k] = hs[k] /\ k \in 1 .. Len(hs)
    BY <2>1, <2>2
  <2> HIDE DEF own
  <2>5. /\ inst.headerNames = [k \in DOMAIN own |-> ApacheLike!Canonical(own[k].name)]
        /\ inst.headerValues = [k \in DOMAIN own |-> own[k].value]
    BY <2>1, <2>3, <2>4
  <2> QED
    BY <2>5 DEF own, hs, ApacheHeads
<1> QED
  BY <1>1, KernelsInvariance, PTL

\* Every benchmark implements Kernel: whatever a Run finds in the instance, and
\* whatever order a map is visited in, the result it returns is the right one.
THEOREM KernelsReturnRightResults == Spec => K!Safety
<1>1. Init => K!Init
  BY DEF Init, K!Init
<1>2. IInv /\ [Next]_vars => [K!Begin \/ K!End]_(K!vars)
  <2> SUFFICES ASSUME IInv, [Next]_vars
               PROVE  K!Begin \/ K!End \/ UNCHANGED K!vars
    OBVIOUS
  <2>1. CASE Step
    <3>1. kernel' = kernel /\ Moves(Right)
      BY <2>1, KernelsStep
    <3>2. Right' = Right
      BY <3>1 DEF Right
    <3> QED
      BY <3>1, <3>2 DEF Moves, K!Begin, K!End, K!vars
  <2>2. CASE UNCHANGED vars
    <3>1. Right' = Right
      BY <2>2 DEF Right, vars
    <3> QED
      BY <2>2, <3>1 DEF vars, K!vars
  <2> QED
    BY <2>1, <2>2 DEF Next, Terminated
<1> QED
  BY <1>1, <1>2, KernelsInvariance, PTL DEF Spec, K!Safety
=============================================================================
