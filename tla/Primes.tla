------------------------------- MODULE Primes -------------------------------
(* The primes benchmark: a sieve of Eratosthenes in a reused array. *)
EXTENDS Integers, FiniteSets

VARIABLES
    pc,        \* "idle" outside of Run; "mark": at the outer loop's condition
    inst,      \* the instance: n, the set of marked indices, and i
    result

vars == <<pc, inst, result>>

Setup(n) == [n |-> n, sieve |-> {}, i |-> 0]

\* sieve is cleared.
Begin ==
    /\ pc = "idle"
    /\ pc' = "mark"
    /\ inst' = [inst EXCEPT !.sieve = {}, !.i = 2]
    /\ result' = <<>>

\* Mutant: the loop ends before the root of n.
BelowRoot(i, n) == i * i < n

UpToRoot(i, n) == i * i <= n

Multiples(i, n) == {j \in i * i .. n : j % i = 0}

\* One round of the outer loop; a Run with n < 2 has none and counts nothing.
Mark ==
    /\ pc = "mark"
    /\ UpToRoot(inst.i, inst.n)
    /\ inst' = [inst EXCEPT
                   !.i = @ + 1,
                   !.sieve = IF inst.i \in @ THEN @ ELSE @ \cup Multiples(inst.i, inst.n)]
    /\ UNCHANGED <<pc, result>>

Count ==
    /\ pc = "mark"
    /\ ~UpToRoot(inst.i, inst.n)
    /\ result' = <<Cardinality(2 .. inst.n \ inst.sieve)>>
    /\ pc' = "idle"
    /\ inst' = inst

Next == Begin \/ Mark \/ Count
-----------------------------------------------------------------------------
\* Only indices of the sieve are marked, and i ends soon after the root of n.
TypeOK ==
    /\ pc \in {"idle", "mark"}
    /\ inst.sieve \subseteq 4 .. inst.n
    /\ inst.i \in 0 .. inst.n + 1

\* The number of primes up to n.
Right(n) == Cardinality({p \in 2 .. n : \A d \in 2 .. p - 1 : p % d # 0})

\* At the outer loop, just the numbers with a divisor below i, no greater than
\* their root, are marked.
Sieved ==
    pc = "mark" =>
        inst.sieve = {m \in 4 .. inst.n :
                         \E d \in 2 .. inst.i - 1 : d * d <= m /\ m % d = 0}
=============================================================================
