------------------------------ MODULE PhpLike ------------------------------
(***************************************************************************)
(* The php_like benchmark: each request is decoded, collected in a map,    *)
(* signed, rendered and encoded, in maps and buffers that are reused for   *)
(* every request of every Run.  A Run returns a checksum of everything     *)
(* that was rendered; here it is the sequence of what goes into it.        *)
(***************************************************************************)
EXTENDS Integers, Sequences, Functions, Collections

VARIABLES
    pc,        \* "idle" outside of Run; "parse", "render", "respond"
    inst,      \* the instance: n, dec, scratch, keyBuf, htmlBuf, respHdrs and
               \* jsonBuf; i, h and mac of the Run
    result

vars == <<pc, inst, result>>

\* A value is its kind and which one it is.
Nth(kind, i) == <<kind, i>>

Action(i) == Nth("action", i % 6)

\* buildPHPRequests; every request has the same fields.
Request(i) ==
    [user    |-> Nth("user", 1000 + i),
     action  |-> Action(i),
     path    |-> Nth("path", i % 6),
     locale  |-> Nth("locale", i % 5),
     token   |-> Nth("token", i),
     payload |-> [sku |-> Nth("SKU", i % 9999), campaign |-> Nth("camp", i % 17),
                  referrer |-> Nth("ref", i % 23), variant |-> Nth("v", i % 7)],
     tags    |-> <<Nth("web", 0), Action(i), Nth("seg", i % 11)>>,
     qty     |-> Nth("qty", 1 + (i % 5))]

Blank == <<>>

\* fnv.New64a()
FreshHash(old) == <<>>

\* Reset of a buffer or of the MAC, and the deletion of every key of a map.
Reset(old) == Blank

Setup(n) ==
    [n |-> n, i |-> 0, dec |-> Blank, scratch |-> Blank, keyBuf |-> <<>>, htmlBuf |-> <<>>,
     respHdrs |-> Blank, jsonBuf |-> <<>>, mac |-> <<>>, h |-> <<>>]

\* The keys a map of this kind can have, in lexical order.
Keys == <<"action", "action_upper", "campaign", "lang", "locale", "path", "qty",
          "referrer", "sku", "tag_0", "tag_1", "tag_2", "user", "variant">>

\* What a decoded request puts in the working map.
Assoc(r) ==
    [key \in Range(Keys) |->
        CASE key \in DOMAIN r.payload -> r.payload[key]
          [] key = "tag_0" -> r.tags[1]
          [] key = "tag_1" -> r.tags[2]
          [] key = "tag_2" -> r.tags[3]
          [] key = "lang"  -> Nth("language of", r.locale)
          [] key = "action_upper" -> Nth("OK", r.action)
          [] OTHER -> r[key]]

\* The order in which range visits the keys of a map starts anywhere.
Visits(map) ==
    {Filtered(SubSeq(Keys, k + 1, Len(Keys)) \o SubSeq(Keys, 1, k), DOMAIN map) :
        k \in 0 .. Len(Keys) - 1}

\* Mutant: the keys are rendered as they come.
AsVisited(visit) == visit

\* sort.Strings(p.keyBuf)
SortedKeys(visit) == Filtered(Keys, Range(visit))

Page(r, keys, map) ==
    [lang |-> r.locale, title |-> r.action, user |-> r.user, path |-> r.path,
     items |-> r.tags, rows |-> [k \in DOMAIN keys |-> <<keys[k], map[keys[k]]>>]]

Headers(r, sig) == [sig |-> sig, locale |-> r.locale, user |-> r.user]

Response(r, html, headers, echo) ==
    [user |-> r.user, action |-> r.action, path |-> r.path, html |-> html,
     headers |-> headers, echo |-> echo]
-----------------------------------------------------------------------------
Begin ==
    /\ pc = "idle"
    /\ pc' = "parse"
    /\ inst' = [inst EXCEPT !.i = 0, !.h = FreshHash(@), !.mac = <<>>]
    /\ result' = <<>>

\* Stages 1 and 2: every request of buildPHPRequests parses.
Parse ==
    LET r == Request(inst.i) IN
    /\ pc = "parse"
    /\ inst.i < inst.n
    /\ inst' = [inst EXCEPT !.dec = r, !.scratch = Stored(Reset(@), Assoc(r))]
    /\ pc' = "render"
    /\ result' = result

\* Stages 3 and 4: the signature is in mac, the page in htmlBuf.
Render ==
    /\ pc = "render"
    /\ \E visit \in Visits(inst.scratch) :
          LET keys == SortedKeys(visit) IN
          inst' = [inst EXCEPT
                      !.mac = Reset(@) \o <<inst.dec.token, Request(inst.i)>>,
                      !.keyBuf = keys,
                      !.htmlBuf = Reset(@) \o <<Page(inst.dec, keys, inst.scratch)>>]
    /\ pc' = "respond"
    /\ result' = result

\* Stages 5 and 6: the response in jsonBuf, and what goes into the checksum.
Respond ==
    LET headers == Stored(Reset(inst.respHdrs), Headers(inst.dec, inst.mac))
        json    == Reset(inst.jsonBuf) \o <<Response(inst.dec, inst.htmlBuf, headers, inst.scratch)>>
    IN
    /\ pc = "respond"
    /\ inst' = [inst EXCEPT
                   !.respHdrs = headers,
                   !.jsonBuf = json,
                   !.h = Append(@, <<inst.htmlBuf, json, inst.mac>>),
                   !.i = @ + 1]
    /\ pc' = "parse"
    /\ result' = result

Return ==
    /\ pc = "parse"
    /\ inst.i >= inst.n
    /\ result' = <<inst.h>>
    /\ pc' = "idle"
    /\ inst' = inst

Next == Begin \/ Parse \/ Render \/ Respond \/ Return
-----------------------------------------------------------------------------
\* The maps and buffers hold what one request puts there, and the checksum is
\* over one page, response and signature per request of this Run.
TypeOK ==
    /\ pc \in {"idle", "parse", "render", "respond"}
    /\ DOMAIN inst.scratch \subseteq Range(Keys)
    /\ inst.keyBuf \in {<<>>, Keys}
    /\ DOMAIN inst.respHdrs \subseteq {"sig", "locale", "user"}
    /\ Len(inst.htmlBuf) <= 1 /\ Len(inst.jsonBuf) <= 1 /\ Len(inst.mac) <= 2
    /\ inst.i \in 0 .. inst.n
    /\ Len(inst.h) = inst.i

\* What goes into the checksum: of each request what is its own, and rows in
\* lexical order.
Right(n) ==
    [k \in 1 .. n |->
        LET r    == Request(k - 1)
            sig  == <<r.token, r>>
            html == <<Page(r, Keys, Assoc(r))>>
        IN  <<html, <<Response(r, html, Headers(r, sig), Assoc(r))>>, sig>>]
=============================================================================
