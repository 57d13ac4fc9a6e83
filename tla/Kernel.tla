------------------------------- MODULE Kernel -------------------------------
(***************************************************************************)
(* What the harness relies on when it times a benchmark: a Run ends, and   *)
(* returns what it returned before, the right result for its input, with   *)
(* nothing left over from earlier Runs on the same instance.               *)
(***************************************************************************)

VARIABLES
    right,       \* the result of the input; it never changes
    running,
    result       \* <<>>, or the result of the last Run in a sequence of one

vars == <<right, running, result>>

Init == running = FALSE /\ result = <<>>

Begin ==
    /\ ~running
    /\ running' = TRUE
    /\ result' = <<>>
    /\ right' = right

End ==
    /\ running
    /\ running' = FALSE
    /\ result' = <<right>>
    /\ right' = right

Safety == Init /\ [][Begin \/ End]_vars

Spec == Safety /\ WF_vars(End)
=============================================================================
