------------------------------- MODULE Tally -------------------------------
(***************************************************************************)
(* What both concurrent parts of the program promise to their caller,      *)
(* stripped of goroutines and clocks: work is counted one unit at a time   *)
(* between the start of a call and its return, and the number handed back  *)
(* is exactly what was counted.  runner.Run counts iterations, stress.Run  *)
(* counts CPU batches and memory passes; Runner and Stress implement this  *)
(* module under the mappings they state.                                   *)
(***************************************************************************)
EXTENDS Naturals

VARIABLES
    open,      \* a call is in progress
    count,     \* units of work done so far in that call
    reported   \* the number the last finished call returned

vars == <<open, count, reported>>

Init ==
    /\ open = FALSE
    /\ count = 0
    /\ reported = 0

Open ==
    /\ ~open
    /\ open' = TRUE
    /\ count' = 0
    /\ reported' = 0

CountOne ==
    /\ open
    /\ count' = count + 1
    /\ UNCHANGED <<open, reported>>

\* The call returns: what it hands back is the count, nothing less or more.
Close ==
    /\ open
    /\ open' = FALSE
    /\ reported' = count
    /\ count' = 0

Next == Open \/ CountOne \/ Close

\* The safety half, for a caller that may be kept waiting for ever.
Safety == Init /\ [][Next]_vars

\* A call that is started returns.
Spec == Safety /\ WF_vars(Close)
=============================================================================
