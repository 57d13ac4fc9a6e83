----------------------------- MODULE MCResults -----------------------------
(***************************************************************************)
(* Compute over every slice that a few bursts of samples can build, a      *)
(* burst being a number of samples of the same latency, as an idle and a   *)
(* disturbed machine produce them.  Bursts make the slices long enough for *)
(* the percentiles to come apart: p95 and p99 first look at different      *)
(* places of a slice of 22 samples.                                        *)
(***************************************************************************)
EXTENDS Results, Sequences

CONSTANTS
    Latency,      \* the latencies, in nanoseconds
    BurstSize,    \* how many samples a burst has
    MaxBursts     \* bound: bursts

ASSUME BurstAssumption ==
    /\ Latency \subseteq Nat
    /\ BurstSize \subseteq Nat \ {0}
    /\ MaxBursts \in Nat

VARIABLES samples, bursts

vars == <<samples, bursts>>

Init ==
    /\ samples = <<>>
    /\ bursts = 0

Burst(ns, size) ==
    /\ bursts < MaxBursts
    /\ bursts' = bursts + 1
    /\ samples' = samples \o [i \in 1 .. size |-> ns]

Terminated ==
    /\ bursts = MaxBursts
    /\ UNCHANGED vars

Next ==
    \/ \E ns \in Latency, size \in BurstSize : Burst(ns, size)
    \/ Terminated

Spec == Init /\ [][Next]_vars
-----------------------------------------------------------------------------
Stats == Compute(samples)
Share == [median |-> 50, p95 |-> 95, p99 |-> 99]

\* percentile: at most the share it is named for, in whole samples of the
\* other ones, is faster than it, and what is slower is less than the rest and
\* one sample.
RankHonoured ==
    LET n == Len(samples) IN
    n > 0 => \A p \in DOMAIN Share :
        /\ 100 * Cardinality({i \in 1 .. n : samples[i] < Stats[p]}) <= Share[p] * (n - 1)
        /\ 100 * Cardinality({i \in 1 .. n : samples[i] > Stats[p]})
               < (100 - Share[p]) * (n - 1) + 100
=============================================================================
