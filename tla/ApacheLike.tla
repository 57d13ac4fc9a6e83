----------------------------- MODULE ApacheLike -----------------------------
(***************************************************************************)
(* The apache_like benchmark: each request is parsed, routed, answered and *)
(* logged, with slices and buffers that are reused for every request of    *)
(* every Run.  A Run returns a checksum of the answers and of the log;     *)
(* here it is the sequence of what goes into it.                           *)
(*                                                                         *)
(* A path or prefix is the sequence of its parts; no prefix of a route     *)
(* ends within a part of a path that is requested.                         *)
(***************************************************************************)
EXTENDS Integers, Sequences, FiniteSets, FiniteSetsExt, SequencesExt

VARIABLES
    pc,        \* "idle" outside of Run; "line", "headers"
    inst,      \* the instance: n, headerNames, headerValues, respBuf, logBuf;
               \* i, h and the position pos of the Run
    result

vars == <<pc, inst, result>>

Setup(n) ==
    [n |-> n, i |-> 0, pos |-> 0, headerNames |-> <<>>, headerValues |-> <<>>,
     respBuf |-> <<>>, logBuf |-> <<>>, h |-> <<>>]

\* defaultApacheRoutes: the prefix, whether the path has to be equal to it,
\* and the status; a route stands for its content.
Routes ==
    <<<<<<"/">>, TRUE, 200>>,
      <<<<"/", "index.html">>, TRUE, 200>>,
      <<<<"/", "about">>, TRUE, 200>>,
      <<<<"/", "contact">>, TRUE, 200>>,
      <<<<"/", "login">>, TRUE, 200>>,
      <<<<"/", "logout">>, TRUE, 302>>,
      <<<<"/", "api", "v1", "users">>, FALSE, 200>>,
      <<<<"/", "api", "v1", "orders">>, FALSE, 200>>,
      <<<<"/", "api", "v1", "products">>, FALSE, 200>>,
      <<<<"/", "api", "v2">>, FALSE, 200>>,
      <<<<"/", "static", "css">>, FALSE, 200>>,
      <<<<"/", "static", "js">>, FALSE, 200>>,
      <<<<"/", "static", "img">>, FALSE, 200>>,
      <<<<"/", "static">>, FALSE, 200>>,
      <<<<"/", "admin">>, FALSE, 403>>,
      <<<<"/", ".git">>, FALSE, 403>>,
      <<<<"/", "health">>, TRUE, 200>>,
      <<<<"/", "metrics">>, TRUE, 200>>,
      <<<<"/", "old">>, FALSE, 301>>,
      <<<<"/">>, FALSE, 404>>>>

Paths ==
    <<<<"/">>, <<"/", "index.html">>, <<"/", "about">>, <<"/", "contact">>, <<"/", "login">>,
      <<"/", "api", "v1", "users", "42">>, <<"/", "api", "v1", "orders", "recent">>,
      <<"/", "api", "v1", "products", "?cat=3">>, <<"/", "api", "v2", "status">>,
      <<"/", "static", "css", "main.css">>, <<"/", "static", "js", "app.js">>,
      <<"/", "static", "img", "logo.png">>, <<"/", "admin", "dashboard">>,
      <<"/", ".git", "config">>, <<"/", "health">>, <<"/", "metrics">>,
      <<"/", "old", "page">>, <<"/", "missing", "page">>>>

Methods == <<"GET", "GET", "GET", "POST", "HEAD">>

Header(name, spelling, value) == [name |-> <<name, spelling>>, value |-> value]

\* buildApacheRequests.  X-Request-Id stands for the headers nobody looks up.
Request(i) ==
    LET method == Methods[(i % Len(Methods)) + 1] IN
    [method  |-> method,
     path    |-> Paths[(i % Len(Paths)) + 1],
     proto   |-> "HTTP/1.1",
     headers |-> <<Header("Host", "lower", i % 3), Header("User-Agent", "upper", i % 4),
                   Header("X-Request-Id", "canonical", i)>>
                 \o IF method = "POST" THEN <<Header("Content-Length", "canonical", 0)>>
                                       ELSE <<>>]

\* The spelling of a name that parseHeaders stores.
Canonical(name) == <<name[1], "canonical">>

\* Mutant: headers are added to those of the request before.
KeptHeaders(old) == old

\* (*names)[:0]
NoHeaders(old) == <<>>

\* The value of the first header of a name, "" without any.
LookupHeader(names, values, want) ==
    LET Found == {k \in DOMAIN names : names[k] = <<want, "canonical">>}
    IN  IF Found = {} THEN "" ELSE values[Min(Found)]

Matches(route, path) == IF route[2] THEN route[1] = path ELSE IsPrefix(route[1], path)

\* The first route that matches; the last one matches every path.
MatchRoute(path) == Routes[Min({k \in DOMAIN Routes : Matches(Routes[k], path)})]

Answer(proto, route) == [proto |-> proto, route |-> route]

\* A line of the access log, with a byte of i and the seconds of a minute.
LogLine(i, r, route, ua) ==
    [host |-> i % 256, second |-> i % 60, method |-> r.method, path |-> r.path,
     proto |-> r.proto, status |-> route[3], ua |-> ua]

\* respBuf.Reset() and logBuf.Reset()
Reset(old) == <<>>
-----------------------------------------------------------------------------
Begin ==
    /\ pc = "idle"
    /\ pc' = "line"
    /\ inst' = [inst EXCEPT !.i = 0, !.h = <<>>]
    /\ result' = <<>>

\* parseRequestLine, and the first lines of parseHeaders: all the requests of
\* buildApacheRequests parse.
ParseLine ==
    /\ pc = "line"
    /\ inst.i < inst.n
    /\ inst' = [inst EXCEPT !.pos = 0, !.headerNames = NoHeaders(@), !.headerValues = NoHeaders(@)]
    /\ pc' = "headers"
    /\ result' = result

\* One header of parseHeaders, in canonical spelling.
ParseHeader ==
    LET headers == Request(inst.i).headers
        next    == inst.pos + 1
    IN
    /\ pc = "headers"
    /\ inst.pos < Len(headers)
    /\ inst' = [inst EXCEPT
                   !.pos = next,
                   !.headerNames = Append(@, Canonical(headers[next].name)),
                   !.headerValues = Append(@, headers[next].value)]
    /\ UNCHANGED <<pc, result>>

\* The empty line: the answer and its line in the log.
Respond ==
    LET r     == Request(inst.i)
        route == MatchRoute(r.path)
        ua    == LookupHeader(inst.headerNames, inst.headerValues, "User-Agent")
        resp  == Reset(inst.respBuf) \o <<Answer(r.proto, route)>>
        log   == Reset(inst.logBuf) \o <<LogLine(inst.i, r, route, ua)>>
    IN
    /\ pc = "headers"
    /\ inst.pos = Len(r.headers)
    /\ inst' = [inst EXCEPT !.respBuf = resp, !.logBuf = log,
                            !.h = Append(@, resp \o log), !.i = @ + 1]
    /\ pc' = "line"
    /\ result' = result

Return ==
    /\ pc = "line"
    /\ inst.i >= inst.n
    /\ result' = <<inst.h>>
    /\ pc' = "idle"
    /\ inst' = inst

Next == Begin \/ ParseLine \/ ParseHeader \/ Respond \/ Return
-----------------------------------------------------------------------------
\* The slices hold the headers of one request, up to pos, the buffers one
\* answer and one line, and the checksum is over one answer and one line per
\* request of this Run.
TypeOK ==
    /\ pc \in {"idle", "line", "headers"}
    /\ inst.pos \in 0 .. 4
    /\ Len(inst.headerNames) = inst.pos /\ Len(inst.headerValues) = inst.pos
    /\ Len(inst.respBuf) <= 1 /\ Len(inst.logBuf) <= 1
    /\ inst.i \in 0 .. inst.n
    /\ Len(inst.h) = inst.i

\* The route with the longest prefix; of two of one length, the exact one.
MostSpecific(path) ==
    LET Candidates == {route \in Range(Routes) : Matches(route, path)}
        Weight(route) == 2 * Len(route[1]) + IF route[2] THEN 1 ELSE 0
    IN  CHOOSE route \in Candidates : \A other \in Candidates : Weight(other) <= Weight(route)

\* Each request is answered by its most specific route, and logged with the
\* user agent that it names itself.
Right(n) ==
    [k \in 1 .. n |->
        LET r == Request(k - 1)  route == MostSpecific(r.path) IN
        <<Answer(r.proto, route), LogLine(k - 1, r, route, r.headers[2].value)>>]

\* The headers at hand are the request's own, in their order.
OwnHeaders ==
    pc = "headers" =>
        LET own == SubSeq(Request(inst.i).headers, 1, inst.pos) IN
        /\ inst.headerNames = [k \in DOMAIN own |-> Canonical(own[k].name)]
        /\ inst.headerValues = [k \in DOMAIN own |-> own[k].value]
=============================================================================
