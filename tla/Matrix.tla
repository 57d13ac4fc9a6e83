------------------------------- MODULE Matrix -------------------------------
(***************************************************************************)
(* The matrix benchmarks: c += a * b, row by row, into a reused array.     *)
(* matrix_float runs the same loops with other values, which are halves:   *)
(* their sums are exact in float64 too.                                    *)
(***************************************************************************)
EXTENDS Integers, Functions

VARIABLES
    pc,        \* "idle" outside of Run; "rows": at the loops over i and k
    inst,      \* the instance: n, c, and i and k
    result     \* c itself: Run returns the scratch array

vars == <<pc, inst, result>>

Cells(n) == 0 .. n * n - 1

\* fillIntMat
Filled(n, seed) == [x \in Cells(n) |-> (x % 7) + seed]

A(n) == Filled(n, 1)
B(n) == Filled(n, 2)

Zero(n) == [x \in Cells(n) |-> 0]

Setup(n) == [n |-> n, c |-> Zero(n), i |-> 0, k |-> 0]

\* Mutant: c is left as it is.
Kept(c, n) == c

\* clear(c)
Cleared(c, n) == Zero(n)

Begin ==
    /\ pc = "idle"
    /\ pc' = "rows"
    /\ inst' = [inst EXCEPT !.c = Cleared(@, inst.n), !.i = 0, !.k = 0]
    /\ result' = <<>>

\* The loop over j: row i gets row k of b, times an element of a.
AddRow ==
    LET n == inst.n  i == inst.i  k == inst.k IN
    /\ pc = "rows"
    /\ i < n
    /\ inst' = [inst EXCEPT
          !.c = [x \in Cells(n) |->
                    IF x \div n = i THEN @[x] + A(n)[i * n + k] * B(n)[k * n + (x % n)]
                                    ELSE @[x]],
          !.i = IF k + 1 < n THEN i ELSE i + 1,
          !.k = (k + 1) % n]
    /\ UNCHANGED <<pc, result>>

Return ==
    /\ pc = "rows"
    /\ inst.i >= inst.n
    /\ result' = <<inst.c>>
    /\ pc' = "idle"
    /\ inst' = inst

Next == Begin \/ AddRow \/ Return
-----------------------------------------------------------------------------
\* c stays one matrix of the size it was made with.
TypeOK ==
    /\ pc \in {"idle", "rows"}
    /\ inst.c \in [Cells(inst.n) -> Int]
    /\ inst.i \in 0 .. inst.n
    /\ inst.k \in 0 .. inst.n - 1

\* The first m terms of the dot product for a cell.
Dot(n, x, m) ==
    SumFunction([k \in 0 .. m - 1 |-> A(n)[(x \div n) * n + k] * B(n)[k * n + (x % n)]])

\* The product of the two matrices.
Right(n) == [x \in Cells(n) |-> Dot(n, x, n)]

\* At the loops, the rows above i are done, row i has k terms, and the rows
\* below are blank.
Multiplied ==
    pc = "rows" =>
        \A x \in Cells(inst.n) : LET row == x \div inst.n IN
            inst.c[x] = CASE row < inst.i -> Dot(inst.n, x, inst.n)
                          [] row = inst.i -> Dot(inst.n, x, inst.k)
                          [] row > inst.i -> 0
=============================================================================
