------------------------------ MODULE Sorting ------------------------------
(***************************************************************************)
(* The sorting benchmark: quicksort of the scratch array, with the pivot   *)
(* taken as the median of three, recursion into the smaller part, a loop   *)
(* over the larger one, and insertion sort below a cutoff.                 *)
(*                                                                         *)
(* A call of quicksort is its range lo .. hi; a recursive call leaves the  *)
(* range its caller goes on with on the stack.                             *)
(***************************************************************************)
EXTENDS Integers, Sequences, FiniteSets

CONSTANTS
    MaxLen,             \* the greatest length of the array
    Value,              \* what it may be filled with
    InsertionCutoff

ASSUME SortingAssumption ==
    /\ MaxLen \in Nat \ {0}
    /\ Value \subseteq Int
    /\ InsertionCutoff \in Nat \ {0}

VARIABLES
    pc,       \* "loop": at the loop's condition; "scan": the loop over j of a
              \* partition; "insert": the loop over i of insertionSort; "done"
    arr,      \* the array, indexed from 0
    lo, hi,   \* the range of the current call
    i, j,
    stack     \* the ranges the callers go on with, the current one's last

vars == <<pc, arr, lo, hi, i, j, stack>>

n == Cardinality(DOMAIN arr)

Init ==
    /\ pc = "loop"
    /\ arr \in UNION {[0 .. len - 1 -> Value] : len \in 1 .. MaxLen}
    /\ lo = 0
    /\ hi = n - 1
    /\ i = 0
    /\ j = 0
    /\ stack = <<>>
-----------------------------------------------------------------------------
Swap(a, x, y) == [a EXCEPT ![x] = a[y], ![y] = a[x]]

SwapUnlessOrdered(a, x, y) == IF a[x] > a[y] THEN Swap(a, x, y) ELSE a

Middle(l, h) == l + (h - l) \div 2

\* medianOfThree: afterwards the median of the three is at Middle.
MedianOfThree(a, l, h) ==
    LET m == Middle(l, h)
    IN  SwapUnlessOrdered(SwapUnlessOrdered(SwapUnlessOrdered(a, l, m), l, h), m, h)

\* insertionSort's body: a[at] moves down to its place in l .. at.
Inserted(a, l, at) ==
    LET Above == {k \in l .. at - 1 : \A m \in k .. at - 1 : a[m] > a[at]}
        place == at - Cardinality(Above)
    IN  [k \in DOMAIN a |->
            CASE k = place -> a[at]
              [] k > place /\ k <= at -> a[k - 1]
              [] OTHER -> a[k]]

Size(range) == range[2] - range[1] + 1

\* Mutant: recursion into the left part, whichever it is.
LeftFirst(left, right) == TRUE

\* i-lo < hi-i: the left part is the smaller one.
RecurseLeft(left, right) == Size(left) < Size(right)

\* Mutants: the pivot stays in the left part, and the right part leaves its
\* first element out.
UpToPivot(l, p) == <<l, p>>
FarRight(p, h) == <<p + 2, h>>

LeftPart(l, p) == <<l, p - 1>>
RightPart(p, h) == <<p + 1, h>>

\* Mutant: the scan stops one too soon.
ScanShort(h) == h - 1

\* j < hi in the scan.
ScanEnd(h) == h

\* Mutant: the pivot's place is filled, and the pivot lost.
PivotLost(a, l, h) ==
    [MedianOfThree(a, l, h) EXCEPT ![Middle(l, h)] = a[h]]

\* a[p], a[hi] = a[hi], a[p]
PivotLast(a, l, h) == Swap(MedianOfThree(a, l, h), Middle(l, h), h)
-----------------------------------------------------------------------------
\* The range is long enough: the pivot is chosen and put last.
ChoosePivot ==
    /\ pc = "loop"
    /\ hi - lo > InsertionCutoff
    /\ arr' = PivotLast(arr, lo, hi)
    /\ i' = lo - 1
    /\ j' = lo
    /\ pc' = "scan"
    /\ UNCHANGED <<lo, hi, stack>>

\* One round of the partition's loop over j.
Scan ==
    /\ pc = "scan"
    /\ j < ScanEnd(hi)
    /\ j' = j + 1
    /\ \/ /\ arr[j] <= arr[hi]
          /\ i' = i + 1
          /\ arr' = Swap(arr, i + 1, j)
       \/ /\ arr[j] > arr[hi]
          /\ UNCHANGED <<i, arr>>
    /\ UNCHANGED <<pc, lo, hi, stack>>

\* The pivot goes between the parts; recursion into the smaller one.
Split ==
    LET p     == i + 1
        left  == LeftPart(lo, p)
        right == RightPart(p, hi)
        first == IF RecurseLeft(left, right) THEN left ELSE right
        later == IF RecurseLeft(left, right) THEN right ELSE left
    IN
    /\ pc = "scan"
    /\ j >= ScanEnd(hi)
    /\ arr' = Swap(arr, p, hi)
    /\ lo' = first[1]
    /\ hi' = first[2]
    /\ stack' = Append(stack, later)
    /\ i' = 0
    /\ j' = 0
    /\ pc' = "loop"

\* A short range is left to insertionSort.
StartInsertion ==
    /\ pc = "loop"
    /\ hi - lo <= InsertionCutoff
    /\ i' = lo + 1
    /\ pc' = "insert"
    /\ UNCHANGED <<arr, lo, hi, j, stack>>

Insert ==
    /\ pc = "insert"
    /\ i <= hi
    /\ arr' = Inserted(arr, lo, i)
    /\ i' = i + 1
    /\ UNCHANGED <<pc, lo, hi, j, stack>>

\* The call returns, and its caller goes round its loop with what is left.
Return ==
    LET frame == stack[Len(stack)] IN
    /\ pc = "insert"
    /\ i > hi
    /\ stack # <<>>
    /\ lo' = frame[1]
    /\ hi' = frame[2]
    /\ stack' = SubSeq(stack, 1, Len(stack) - 1)
    /\ i' = 0
    /\ pc' = "loop"
    /\ UNCHANGED <<arr, j>>

\* The outermost call returns.
Finish ==
    /\ pc = "insert"
    /\ i > hi
    /\ stack = <<>>
    /\ i' = 0
    /\ pc' = "done"
    /\ UNCHANGED <<arr, lo, hi, j, stack>>

Terminated == pc = "done" /\ UNCHANGED vars

Step == ChoosePivot \/ Scan \/ Split \/ StartInsertion \/ Insert \/ Return \/ Finish

Next == Step \/ Terminated

Spec == Init /\ [][Next]_vars

FairSpec == Spec /\ WF_vars(Step)
-----------------------------------------------------------------------------
(* Properties.                                                             *)

Pending == {stack[k] : k \in 1 .. Len(stack)} \cup {<<lo, hi>>}

\* The type invariant; with it, that no index leaves the array.
TypeOK ==
    /\ pc \in {"loop", "scan", "insert", "done"}
    /\ arr \in [0 .. n - 1 -> Value]
    /\ n \in 1 .. MaxLen
    /\ lo \in 0 .. n
    /\ hi \in -1 .. n - 1
    /\ i \in -1 .. n + 1
    /\ j \in 0 .. n
    /\ \A range \in Pending : range \in (0 .. n) \X (-1 .. n - 1)

\* What Verify asks for.
SortedAtEnd == pc = "done" => \A k \in 1 .. n - 1 : arr[k - 1] <= arr[k]

\* No element is lost or doubled on the way, which Verify does not ask.
Count(a, v) == Cardinality({k \in DOMAIN a : a[k] = v})

Permutes ==
    [][DOMAIN arr' = DOMAIN arr
          /\ \A v \in Value : Count(arr', v) = Count(arr, v)]_vars

\* Between two partitions, elements still to be sorted are in pending ranges,
\* which keep apart: what is left of a range is no greater, and what is right
\* of it no less, than anything in it.
Separated ==
    pc = "loop" =>
        \A range \in Pending :
            \A in \in range[1] .. range[2], out \in DOMAIN arr :
                /\ out < range[1] => arr[out] <= arr[in]
                /\ out > range[2] => arr[out] >= arr[in]

PowerOfTwo[k \in Nat] == IF k = 0 THEN 1 ELSE 2 * PowerOfTwo[k - 1]

\* Recursion goes into the smaller part: its depth is at most logarithmic,
\* whatever the pivots.
DepthLogarithmic == PowerOfTwo[Len(stack)] * (Size(<<lo, hi>>) + 1) <= n + 1

\* Quicksort ends.
Ends == <>(pc = "done")
=============================================================================
