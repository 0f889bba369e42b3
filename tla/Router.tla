------------------------------- MODULE Router -------------------------------
(***************************************************************************)
(* internal/gateway/router.go: the order NewRouter gives the routes of a   *)
(* configuration, and the one Match finds for a request.                   *)
(*                                                                         *)
(* A host is its name and how it is written; AnyHost is the empty string.  *)
(* A path is a sequence of characters.  Routes are numbered from 1, where  *)
(* their IDs in the code, route-0 onwards, count from 0.                   *)
(***************************************************************************)
EXTENDS Integers, SequencesExt

CONSTANTS HostNames, AnyHost, \* names of hosts, and none
          Colons,             \* the names with colons, which are IPv6 addresses
          NoRoute             \* Match finds nothing

ASSUME RouterAssumption == NoRoute \notin Nat

\* A host in any spelling: letters in upper case, blanks around it, brackets, a
\* port.  What follows the colons of an address without brackets is no port.
HostText ==
    {host \in [name : HostNames \cup {AnyHost}, upper : BOOLEAN, blanks : BOOLEAN,
               bracketed : BOOLEAN, port : BOOLEAN] :
        host.name \in Colons /\ host.port => host.bracketed}

Lowered(host) == [host EXCEPT !.upper = FALSE]

\* net.SplitHostPort takes a port off, and brackets with it; without a port the
\* host stays as it is, in its brackets.
StripPort(host) ==
    IF host.port THEN [host EXCEPT !.port = FALSE, !.bracketed = FALSE] ELSE host

\* The Host of a Route: in lower case, and trimmed.
RouteHost(route) == [Lowered(route.host) EXCEPT !.blanks = FALSE]

\* What Match compares it with.
RequestHost(q) == Lowered(StripPort(q.host))

\* The digits of i - 1, of no more than two: the text after "route-".
IDText(i) == IF i <= 10 THEN <<i - 1>> ELSE <<(i - 1) \div 10, (i - 1) % 10>>

\* s < t, as Go compares strings.
TextLess(s, t) ==
    \/ IsStrictPrefix(s, t)
    \/ \E k \in 1..Len(s) :
          /\ k <= Len(t) /\ s[k] < t[k]
          /\ \A l \in 1..(k - 1) : s[l] = t[l]

\* Variant: the other way round.
ShorterFirst(routes, i, j) ==
    IF Len(routes[i].prefix) = Len(routes[j].prefix)
    THEN TextLess(IDText(i), IDText(j))
    ELSE Len(routes[i].prefix) < Len(routes[j].prefix)

\* NewRouter sorts the longer prefix first, and equal ones by the text of the ID.
Before(routes, i, j) ==
    IF Len(routes[i].prefix) = Len(routes[j].prefix)
    THEN TextLess(IDText(i), IDText(j))
    ELSE Len(routes[i].prefix) > Len(routes[j].prefix)

Fits(route, q) ==
    /\ route.host.name # AnyHost => RouteHost(route) = RequestHost(q)
    /\ IsPrefix(route.prefix, q.path)

\* Match: the first of the sorted routes that fits.
Match(routes, q) ==
    LET fitting == {i \in DOMAIN routes : Fits(routes[i], q)}
    IN  IF fitting = {} THEN NoRoute
        ELSE CHOOSE i \in fitting :
                \A j \in fitting \ {i} : Before(routes, i, j)
=============================================================================
