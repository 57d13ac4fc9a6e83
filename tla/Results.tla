------------------------------ MODULE Results ------------------------------
(***************************************************************************)
(* The results package: the statistics computed from the latencies of a    *)
(* run.  A slice of samples is a function from a finite index set to its   *)
(* latencies in nanoseconds; which indices are used does not matter,       *)
(* because Compute sorts the values before it looks at any of them.        *)
(***************************************************************************)
EXTENDS Integers, FiniteSets, FiniteSetsExt

\* Mutant: the comparison is the wrong way round.
SortedDescending(ns) ==
    LET AtLeast(v) == {i \in DOMAIN ns : ns[i] >= v}
        Values     == {ns[i] : i \in DOMAIN ns}
    IN  [k \in 0 .. Cardinality(DOMAIN ns) - 1 |->
            Max({v \in Values : Cardinality(AtLeast(v)) > k})]

(***************************************************************************)
(* sort.Slice, by what it does: position k (counted from 0) of the sorted  *)
(* slice holds the least value that more than k samples do not exceed.     *)
(***************************************************************************)
SortedNs(ns) ==
    LET AtMost(v) == {i \in DOMAIN ns : ns[i] <= v}
        Values    == {ns[i] : i \in DOMAIN ns}
    IN  [k \in 0 .. Cardinality(DOMAIN ns) - 1 |->
            Min({v \in Values : Cardinality(AtMost(v)) > k})]

\* Mutant: the index is rounded up.
RoundedUpIndex(len, pct) == ((len - 1) * pct + 99) \div 100

\* int(float64(len(sorted)-1) * p), with p given in percent.
PercentileIndex(len, pct) == ((len - 1) * pct) \div 100

Percentile(ns, pct) ==
    LET sorted == SortedNs(ns)
        len    == Cardinality(DOMAIN ns)
    IN  IF len = 0 THEN 0 ELSE sorted[PercentileIndex(len, pct)]

Compute(ns) ==
    [median |-> Percentile(ns, 50),
     p95    |-> Percentile(ns, 95),
     p99    |-> Percentile(ns, 99)]
=============================================================================
