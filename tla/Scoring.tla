------------------------------ MODULE Scoring ------------------------------
(***************************************************************************)
(* The scoring package: measurements are normalised against a reference    *)
(* machine, averaged over four categories and weighted to a total.         *)
(*                                                                         *)
(* The code computes in float64; here a score is a whole number of parts   *)
(* of a point, fine enough for the mean of up to eight of them to be exact *)
(* where the measurements are simple multiples of the reference.           *)
(***************************************************************************)
EXTENDS Integers, Sequences, FiniteSets, FiniteSetsExt, Functions

CONSTANT Reference     \* references, by benchmark and mode: "st" or "mt"

Names == {"primes", "sorting", "matrix_int", "matrix_float",
          "hashing", "json", "php_like", "apache_like"}

Modes == {"st", "mt"}

Category == {"integer", "memory", "throughput", "latency"}

Point == 840           \* parts of a point: the least common multiple of 1 .. 8

\* One unit of throughput more or less shows in a mean of eight scores: the
\* highest reference of the code is 25294.70 per second, less than this in
\* units of a quarter.
MaxReference == (1000 * Point) \div 8

ASSUME ReferenceAssumption ==
    Reference \in [Names -> [Modes -> [ops : 1 .. MaxReference, p99 : Nat \ {0}]]]
-----------------------------------------------------------------------------
\* Mutant: one list of benchmarks is kept up to date, the other is not.
DriftedFor(c) ==
    CASE c = "integer"    -> {"primes", "sorting"}
      [] c = "memory"     -> {"matrix_int", "matrix_float", "hashing", "json"}
      [] c = "throughput" -> {"hashing", "json", "php_like", "apache_like"}
      [] c = "latency"    -> Names

\* The benchmarks of a category as the table shows them.
BenchmarksFor(c) ==
    CASE c = "integer"    -> {"primes", "sorting"}
      [] c = "memory"     -> {"matrix_int", "matrix_float", "hashing", "php_like",
                              "apache_like"}
      [] c = "throughput" -> {"hashing", "json", "php_like", "apache_like"}
      [] c = "latency"    -> Names

\* Mutant: json is left out, which is in one category only.
CollectedShort(c) ==
    CASE c = "integer"    -> {"primes", "sorting"}
      [] c = "memory"     -> {"matrix_int", "matrix_float", "hashing", "php_like",
                              "apache_like"}
      [] c = "throughput" -> {"hashing", "php_like", "apache_like"}

\* The benchmarks whose throughput computeMode collects for a category.
Collected(c) ==
    CASE c = "integer"    -> {"primes", "sorting"}
      [] c = "memory"     -> {"matrix_int", "matrix_float", "hashing", "php_like",
                              "apache_like"}
      [] c = "throughput" -> {"hashing", "json", "php_like", "apache_like"}

Profiles == {"default", "", "database", "batch"}

\* In percent.
WeightsFor(profile) ==
    CASE profile \in {"default", ""} ->
            [integer |-> 30, memory |-> 30, throughput |-> 25, latency |-> 15]
      [] profile = "database" ->
            [integer |-> 20, memory |-> 20, throughput |-> 35, latency |-> 25]
      [] profile = "batch" ->
            [integer |-> 40, memory |-> 20, throughput |-> 30, latency |-> 10]

\* Mutant: the deviation from the reference.
Deviation(measured, reference) ==
    ((measured - reference) * 1000 * Point) \div reference

Normalize(measured, reference) ==
    IF reference <= 0 THEN 0 ELSE (measured * 1000 * Point) \div reference

NormalizeLatency(measured, reference) ==
    IF measured <= 0 \/ reference <= 0 THEN 0
                                       ELSE (reference * 1000 * Point) \div measured

\* total, in percent of parts of a point.
Label(total) ==
    LET Below(points) == total < points * 100 * Point
    IN  CASE Below(500)  -> "Embedded / Low-Power"
          [] ~Below(500)  /\ Below(900)  -> "Entry Level"
          [] ~Below(900)  /\ Below(1100) -> "Referenz"
          [] ~Below(1100) /\ Below(2000) -> "Performance"
          [] ~Below(2000) /\ Below(4000) -> "High Performance"
          [] OTHER -> "Workstation / Server"

\* Mutant: those that were not run count as zero.
MeanOfAll(scores) == SumFunction(scores) \div Cardinality(Names)

\* scores: a function from the benchmarks that were run.
Mean(scores) ==
    IF DOMAIN scores = {} THEN 0
                          ELSE SumFunction(scores) \div Cardinality(DOMAIN scores)

\* A map from names to results: of two of one name the later one stays.
ByName(rs) ==
    [name \in {rs[k].name : k \in DOMAIN rs} |->
        rs[Max({k \in DOMAIN rs : rs[k].name = name})]]

\* computeMode: the scores of the categories, the total and its label.
ComputeMode(rs, mode, w) ==
    LET byName     == ByName(rs)
        Ran(names) == names \cap DOMAIN byName
        Ops(b)     == Normalize(byName[b].ops, Reference[b][mode].ops)
        Latency(b) == NormalizeLatency(byName[b].p99, Reference[b][mode].p99)
        scores == [c \in Category |->
                      IF c = "latency" THEN Mean([b \in Ran(Names) |-> Latency(b)])
                                       ELSE Mean([b \in Ran(Collected(c)) |-> Ops(b)])]
        total == SumFunction([c \in Category |-> scores[c] * w[c]])
    IN  [scores |-> scores, total |-> total, label |-> Label(total)]

\* Score, for a profile that WeightsFor knows.
Score(st, mt, profile) ==
    [st      |-> ComputeMode(st, "st", WeightsFor(profile)),
     mt      |-> ComputeMode(mt, "mt", WeightsFor(profile)),
     profile |-> IF profile = "" THEN "default" ELSE profile]
=============================================================================
