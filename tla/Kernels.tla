------------------------------ MODULE Kernels ------------------------------
(***************************************************************************)
(* The benchmarks as the harness uses them: one of the registry is set up  *)
(* with one of its sizes, and then run again and again on one instance,    *)
(* first by Setup itself where it computes what Verify expects, then for   *)
(* the warm-up and the measurement.  Each of them implements Kernel.       *)
(***************************************************************************)
EXTENDS Integers, Sequences

CONSTANTS
    Sizes,      \* for each benchmark, the values Setup is called with
    MaxRuns     \* bound: Runs on one instance

ASSUME KernelsAssumption ==
    /\ DOMAIN Sizes \subseteq {"primes", "matrix", "json", "php_like", "apache_like"}
    /\ \A name \in DOMAIN Sizes : Sizes[name] \subseteq Nat \ {0}
    /\ MaxRuns \in Nat

VARIABLES
    kernel,     \* the benchmark and its n
    runs,       \* Runs begun
    pc, inst, result

vars == <<kernel, runs, pc, inst, result>>

Primes     == INSTANCE Primes
Matrix     == INSTANCE Matrix
Json       == INSTANCE Json
PhpLike    == INSTANCE PhpLike
ApacheLike == INSTANCE ApacheLike

Init ==
    /\ kernel \in UNION {[name : {name}, n : Sizes[name]] : name \in DOMAIN Sizes}
    /\ runs = 0
    /\ pc = "idle"
    /\ inst = CASE kernel.name = "primes"      -> Primes!Setup(kernel.n)
                [] kernel.name = "matrix"      -> Matrix!Setup(kernel.n)
                [] kernel.name = "json"        -> Json!Setup(kernel.n)
                [] kernel.name = "php_like"    -> PhpLike!Setup(kernel.n)
                [] kernel.name = "apache_like" -> ApacheLike!Setup(kernel.n)
    /\ result = <<>>

\* Begin counts; every other step belongs to the Run begun last.
Counted ==
    /\ IF pc = "idle" THEN runs < MaxRuns /\ runs' = runs + 1 ELSE runs' = runs
    /\ kernel' = kernel

RunPrimes     == kernel.name = "primes"      /\ Counted /\ Primes!Next
RunMatrix     == kernel.name = "matrix"      /\ Counted /\ Matrix!Next
RunJson       == kernel.name = "json"        /\ Counted /\ Json!Next
RunPhpLike    == kernel.name = "php_like"    /\ Counted /\ PhpLike!Next
RunApacheLike == kernel.name = "apache_like" /\ Counted /\ ApacheLike!Next

Step == RunPrimes \/ RunMatrix \/ RunJson \/ RunPhpLike \/ RunApacheLike

Terminated == pc = "idle" /\ runs = MaxRuns /\ UNCHANGED vars

Next == Step \/ Terminated

Spec == Init /\ [][Next]_vars /\ WF_vars(Step)
-----------------------------------------------------------------------------
(* Properties.                                                             *)

\* The type invariant.  The arrays, maps, slices and buffers of an instance
\* keep to what one Run, or one request of it, puts there: however many Runs
\* there are, no kernel grows its scratch.
TypeOK ==
    /\ kernel.name \in DOMAIN Sizes /\ kernel.n \in Sizes[kernel.name]
    /\ runs \in 0 .. MaxRuns
    /\ Len(result) <= 1
    /\ inst.n = kernel.n
    /\ kernel.name = "primes"      => Primes!TypeOK
    /\ kernel.name = "matrix"      => Matrix!TypeOK
    /\ kernel.name = "json"        => Json!TypeOK
    /\ kernel.name = "php_like"    => PhpLike!TypeOK
    /\ kernel.name = "apache_like" => ApacheLike!TypeOK

\* What is right, by a definition that knows of no scratch, loop or buffer.
Right ==
    CASE kernel.name = "primes"      -> Primes!Right(kernel.n)
      [] kernel.name = "matrix"      -> Matrix!Right(kernel.n)
      [] kernel.name = "json"        -> Json!Right(kernel.n)
      [] kernel.name = "php_like"    -> PhpLike!Right(kernel.n)
      [] kernel.name = "apache_like" -> ApacheLike!Right(kernel.n)

K == INSTANCE Kernel WITH right <- Right, running <- pc # "idle"

\* Every Run ends and returns the right result, the first one on an instance
\* and every later one, whatever order a map is visited in.  Verify compares
\* php_like and apache_like only with a first Run of the same code.
ImplementsKernel == K!Spec

\* The headers that apache_like looks things up in are those of the request
\* it answers.
OwnHeaders == kernel.name = "apache_like" => ApacheLike!OwnHeaders

\* Between two rounds of their loops, the arrays that primes and the matrix
\* benchmarks reuse hold what this Run has computed so far, and nothing else.
PartialResults ==
    /\ kernel.name = "primes" => Primes!Sieved
    /\ kernel.name = "matrix" => Matrix!Multiplied
=============================================================================
