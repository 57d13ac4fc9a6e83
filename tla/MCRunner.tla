------------------------------ MODULE MCRunner ------------------------------
(* Small instances of Runner for TLC. *)
EXTENDS Runner, TLC

\* The serial path, the parallel one, and a configuration left to its
\* defaults, in any order.
MCMixed ==
    {[duration |-> 2, warmup |-> 1, threads |-> 1],
     [duration |-> 2, warmup |-> 1, threads |-> 2],
     [duration |-> 0, warmup |-> -1, threads |-> 0]}

\* The same with three goroutines for a shorter time.
MCThree == MCMixed \cup {[duration |-> 1, warmup |-> 1, threads |-> 3]}

\* One call with two goroutines.
MCPair == {[duration |-> 2, warmup |-> 1, threads |-> 2]}

MCSymmetry == Permutations(Benchmarks)
=============================================================================
