----------------------------- MODULE MCKernels -----------------------------
(* A small instance of Kernels for TLC. *)
EXTENDS Kernels

\* Squares of primes and their neighbours for the sieve; enough requests for
\* apache_like to see each path and each method.
MCSizes ==
    [name \in {"primes", "matrix", "json", "php_like", "apache_like"} |->
        CASE name = "primes"      -> 1 .. 30
          [] name = "matrix"      -> 1 .. 3
          [] name = "json"        -> {1, 4}
          [] name = "php_like"    -> {1, 3}
          [] name = "apache_like" -> {1, 18}]
=============================================================================
