-------------------------- MODULE MCResultsProofs --------------------------
(***************************************************************************)
(* The percentiles of every slice that bursts of samples can build, for    *)
(* any latencies, burst sizes and number of bursts.                        *)
(***************************************************************************)
EXTENDS MCResults, ResultsProofs, SequenceTheorems

SamplesOK == samples \in Seq(Int)

LEMMA Samples == Spec => []SamplesOK
<1>1. Init => SamplesOK
  BY DEF Init, SamplesOK
<1>2. SamplesOK /\ [Next]_vars => SamplesOK'
  <2> SUFFICES ASSUME SamplesOK, [Next]_vars PROVE SamplesOK'
    OBVIOUS
  <2>1. ASSUME NEW ns \in Latency, NEW size \in BurstSize, Burst(ns, size)
        PROVE  SamplesOK'
    <3>1. ns \in Int /\ size \in Nat
      BY BurstAssumption
    <3>2. [i \in 1 .. size |-> ns] \in Seq(Int)
      BY <3>1
    <3> QED
      BY <2>1, <3>2 DEF Burst, SamplesOK
  <2>2. CASE UNCHANGED vars
    BY <2>2 DEF vars, SamplesOK
  <2> QED
    BY <2>1, <2>2 DEF Next, Terminated
<1> QED
  BY <1>1, <1>2, PTL DEF Spec

\* Each percentile stands at the rank it is named for: no more than its share
\* of the samples is faster, and what is slower is less than the rest of them
\* and one.
THEOREM ResultsRankHonoured == Spec => []RankHonoured
<1>1. SamplesOK => RankHonoured
  <2> SUFFICES ASSUME SamplesOK, Len(samples) > 0, NEW p \in DOMAIN Share
               PROVE  LET n == Len(samples) IN
                      /\ 100 * Cardinality({i \in 1 .. n : samples[i] < Stats[p]})
                            <= Share[p] * (n - 1)
                      /\ 100 * Cardinality({i \in 1 .. n : samples[i] > Stats[p]})
                            < (100 - Share[p]) * (n - 1) + 100
    BY DEF RankHonoured
  <2> DEFINE n == Len(samples)
             k == PercentileIndex(n, Share[p])
             s == Stats[p]
             less == Cardinality(Below(samples, s))
             more == Cardinality(Above(samples, s))
  <2>1. n \in Nat \ {0} /\ DOMAIN samples = 1 .. n /\ samples \in [1 .. n -> Int]
    BY DEF SamplesOK
  <2>2. Number(samples) = n /\ Slice(samples)
    <3>1. IsFiniteSet(1 .. n) /\ Cardinality(1 .. n) = n
      BY <2>1, FS_Interval
    <3> QED
      BY <2>1, <3>1 DEF Number, Slice
  <2>3. Share[p] \in 0 .. 100 /\ Stats[p] = Percentile(samples, Share[p])
    <3>1. p \in {"median", "p95", "p99"}
      BY DEF Share
    <3>2. CASE p = "median"
      BY <3>2 DEF Share, Stats, Compute
    <3>3. CASE p = "p95"
      BY <3>3 DEF Share, Stats, Compute
    <3>4. CASE p = "p99"
      BY <3>4 DEF Share, Stats, Compute
    <3> QED
      BY <3>1, <3>2, <3>3, <3>4
  <2>4. k \in 0 .. n - 1 /\ s = SortedNs(samples)[k]
    BY <2>2, <2>3, PercentileValue
  <2>5. less <= k /\ more <= n - 1 - k
    BY <2>2, <2>4, SortedRank
  <2>6. 100 * k <= Share[p] * (n - 1) /\ Share[p] * (n - 1) < 100 * k + 100
    <3>1. Share[p] \in Share[p] .. 100
      <4>1. \A x \in 0 .. 100 : x \in x .. 100
        OBVIOUS
      <4> QED
        BY <2>3, <4>1
    <3> HIDE DEF n
    <3> QED
      BY <2>1, <2>3, <3>1, PercentilePlace
  <2>7. less \in Nat /\ more \in Nat
    <3>1. Below(samples, s) \in SUBSET (1 .. n) /\ Above(samples, s) \in SUBSET (1 .. n)
      BY <2>1 DEF Below, Above
    <3>2. IsFiniteSet(1 .. n)
      BY <2>1, FS_Interval
    <3> QED
      BY <3>1, <3>2, FS_Subset, FS_CardinalityType
  <2>8. /\ {i \in 1 .. n : samples[i] < Stats[p]} = Below(samples, s)
        /\ {i \in 1 .. n : samples[i] > Stats[p]} = Above(samples, s)
    BY <2>1 DEF Below, Above
  <2> DEFINE share == Share[p]
             rest  == share * (n - 1)
  <2>9. share \in Int /\ n - 1 \in Int /\ rest \in Int /\ k \in Int
    <3>1. share \in Int
      <4>1. 0 .. 100 \subseteq Int
        OBVIOUS
      <4> QED
        BY <2>3, <4>1
    <3>2. n - 1 \in Int
      BY <2>1
    <3>3. k \in Int
      <4> HIDE DEF k
      <4> QED
        BY <2>4, <3>2
    <3> HIDE DEF n, share, k
    <3> QED
      BY <3>1, <3>2, <3>3
  <2>10. (100 - share) * (n - 1) = 100 * (n - 1) - rest
    <3> HIDE DEF n, share
    <3> QED
      BY <2>9
  <2>11. 100 * k <= rest /\ rest < 100 * k + 100
    BY <2>6
  <2>12. 100 * less <= rest /\ 100 * more < 100 * (n - 1) - rest + 100
    <3> HIDE DEF k, less, more, n, rest, share
    <3> QED
      BY <2>1, <2>5, <2>7, <2>9, <2>11
  <2>13. 100 * less <= rest /\ 100 * more < (100 - share) * (n - 1) + 100
    BY <2>10, <2>12
  <2> QED
    BY <2>8, <2>13
<1> QED
  BY <1>1, Samples, PTL
=============================================================================
