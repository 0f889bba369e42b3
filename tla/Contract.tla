------------------------------ MODULE Contract ------------------------------
(***************************************************************************)
(* internal/contract: what a contract learns from a request, and which     *)
(* requests it then refuses, as operators on values.                       *)
(*                                                                         *)
(* A request is the part of it the package reads: its method, its media    *)
(* type (NoType when there is none), the names of its query parameters and *)
(* headers, and the size of its body.  A map[string]bool of the code,      *)
(* which only ever holds true, is the set of its keys.                     *)
(***************************************************************************)
EXTENDS Integers, FiniteSets

CONSTANTS
    Methods,      \* request methods
    ContentTypes, \* media types, as parseContentType returns them
    NoType,       \* no Content-Type header, or an empty media type
    Params,       \* names of query parameters, any bytes once unescaped
    PlainParams,  \* those that are valid UTF-8
    Replaced,     \* what encoding/json writes in place of any other name
    Headers,      \* canonical header names
    TypeHeader    \* "Content-Type"

ASSUME ParamAssumption ==
    PlainParams \subseteq Params /\ Replaced \in PlainParams
ASSUME TypeAssumption == NoType \notin ContentTypes /\ TypeHeader \in Headers

Request ==
    {r \in [method : Methods, ctype : ContentTypes \cup {NoType},
            params : SUBSET Params, headers : SUBSET Headers, body : Nat] :
        r.ctype # NoType => TypeHeader \in r.headers}

ContractType ==
    [samples : Nat, methods : SUBSET Methods, ctypes : SUBSET ContentTypes,
     params : SUBSET Params, headers : SUBSET Headers,
     observedMax : Nat, maxBody : Nat]

NewContract ==
    [samples |-> 0, methods |-> {}, ctypes |-> {}, params |-> {},
     headers |-> {}, observedMax |-> 0, maxBody |-> 0]

Greater(a, b) == IF a > b THEN a ELSE b

\* Contract.Observe.
Observed(c, r) ==
    [samples |-> c.samples + 1,
     methods |-> c.methods \cup {r.method},
     ctypes |-> c.ctypes \cup ({r.ctype} \ {NoType}),
     params |-> c.params \cup r.params,
     headers |-> c.headers \cup r.headers,
     observedMax |-> Greater(r.body, c.observedMax),
     maxBody |-> c.maxBody]

\* Contract.Finalize: the largest body seen, and a margin.
Finalized(c, margin) ==
    [c EXCEPT !.maxBody = c.observedMax + Greater(margin, 0)]

\* What Load reads of what Save wrote: JSON has no names but UTF-8 ones.
Reloaded(c) ==
    [c EXCEPT !.params = (c.params \cap PlainParams)
                           \cup {Replaced : p \in c.params \ PlainParams}]
-----------------------------------------------------------------------------
Levels == {"lenient", "moderate", "strict"}

Rank == [lenient |-> 1, moderate |-> 2, strict |-> 3]

AtLeast(level, target) == Rank[level] >= Rank[target]

\* Methods and media types: an empty list allows everything.
Unlisted(sent, allowed) == IF allowed = {} THEN {} ELSE sent \ allowed

Evaluate(c, r, level) ==
    {<<"method_unexpected", m>> : m \in Unlisted({r.method}, c.methods)}
    \cup
    {<<"content_type_unexpected", t>> :
        t \in Unlisted({r.ctype} \ {NoType}, c.ctypes)}
    \cup
    {<<"query_param_unexpected", p>> :
        p \in {p \in r.params \ c.params : AtLeast(level, "moderate")}}
    \cup
    {<<"header_unexpected", h>> :
        h \in {h \in r.headers \ c.headers : AtLeast(level, "strict")}}
    \cup
    {<<"body_size_exceeded", "body">> :
        b \in {b \in {r.body} : c.maxBody > 0 /\ b > c.maxBody}}
=============================================================================
