---------------------------- MODULE Collections ----------------------------
(* What Go's maps and slices do, for the modules that use them. *)
EXTENDS Integers, Sequences, FiniteSets

\* A map with the entries of another one stored into it, over its own.
Stored(map, entries) ==
    [key \in DOMAIN map \cup DOMAIN entries |->
        IF key \in DOMAIN entries THEN entries[key] ELSE map[key]]

\* The elements of a slice that are in a set, appended in their order.
Filtered(slice, set) ==
    LET Places   == {p \in DOMAIN slice : slice[p] \in set}
        UpTo(p)  == {q \in Places : q <= p}
    IN  [k \in 1 .. Cardinality(Places) |->
            slice[CHOOSE p \in Places : Cardinality(UpTo(p)) = k]]
=============================================================================
