-------------------------------- MODULE Json --------------------------------
(***************************************************************************)
(* The json benchmark: documents are decoded into a slice that keeps its   *)
(* elements from one Run to the next, and encoded into a reused buffer.    *)
(***************************************************************************)
EXTENDS Integers, Sequences, Collections

VARIABLES
    pc,        \* "idle" outside of Run; "decode", "encode"
    inst,      \* the instance: n, the slots up to the slice's capacity, its
               \* length, and the buffer out
    result     \* the last user's ID, and what out holds

vars == <<pc, inst, result>>

\* buildJSONUsers, without the fields that hold a single value.
User(i) ==
    [id    |-> i + 1,
     meta  |-> [role |-> i % 5, region |-> i % 4],
     addrs |-> [k \in 1 .. 1 + (i % 3) |->
                  [street |-> ((i + k - 1) * 7) % 1000, zip |-> 10000 + i + k - 1]]]

Payload(n) == [k \in 1 .. n |-> User(k - 1)]

NoUser == [id |-> 0, meta |-> <<>>, addrs |-> <<>>]

Setup(n) == [n |-> n, slots |-> [k \in 1 .. n |-> NoUser], len |-> 0, out |-> <<>>]

\* json.Unmarshal into an element that was used before: fields are set, a map
\* keeps the entries the document does not have, a slice is cut to its length.
Decoded(old, doc) == [id |-> doc.id, meta |-> Stored(old.meta, doc.meta), addrs |-> doc.addrs]

\* Mutant: the documents are written behind those of the Run before.
KeptOut(out) == out

\* j.out.Reset()
Reset(out) == <<>>

Begin ==
    /\ pc = "idle"
    /\ pc' = "decode"
    /\ inst' = [inst EXCEPT !.len = 0]
    /\ result' = <<>>

DecodeOne ==
    LET k == inst.len + 1 IN
    /\ pc = "decode"
    /\ k <= inst.n
    /\ inst' = [inst EXCEPT !.len = k,
                            !.slots[k] = Decoded(@, Payload(inst.n)[k])]
    /\ UNCHANGED <<pc, result>>

\* out is reset and written; the payload is valid, so that neither the
\* decoder nor the encoder fails.
Encode ==
    /\ pc = "decode"
    /\ inst.len = inst.n
    /\ inst' = [inst EXCEPT !.out = Reset(@) \o SubSeq(inst.slots, 1, inst.len)]
    /\ pc' = "encode"
    /\ result' = result

Return ==
    /\ pc = "encode"
    /\ result' = <<[id |-> IF inst.len = 0 THEN 0 ELSE inst.slots[inst.len].id, out |-> inst.out]>>
    /\ pc' = "idle"
    /\ inst' = inst

Next == Begin \/ DecodeOne \/ Encode \/ Return
-----------------------------------------------------------------------------
\* A slot is empty or holds the user decoded there, with no entries and no
\* addresses but its own; out holds the documents of one Run at most.
TypeOK ==
    /\ pc \in {"idle", "decode", "encode"}
    /\ DOMAIN inst.slots = 1 .. inst.n
    /\ \A k \in 1 .. inst.n : inst.slots[k] \in {NoUser, User(k - 1)}
    /\ inst.len \in 0 .. inst.n
    /\ inst.out \in {<<>>, Payload(inst.n)}

\* Decoding and encoding leave the payload as it was.
Right(n) == [id |-> n, out |-> Payload(n)]
=============================================================================
