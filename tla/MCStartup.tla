----------------------------- MODULE MCStartup -----------------------------
(* Instances of Startup for TLC. *)
EXTENDS Startup, TLC

CONSTANTS site, other, six, pats, f1, f2, cert

Text(chars) == Mapped(chars, Chr)

Upper == ("X" :> "x") @@ ("Y" :> "y")

WellFormed == {Text(<<"x">>), Text(<<"/", "a">>), Text(<<"x", " ", "k">>)}

Named(name) ==
    [name |-> name, upper |-> FALSE, blanks |-> FALSE, bracketed |-> FALSE, port |-> FALSE]

Route(host, prefix, policy) ==
    [host |-> host, prefix |-> Text(prefix), upstream |-> "app", policy |-> policy]

Policy(mode, path) ==
    [mode |-> mode, threshold |-> 1, maxBody |-> 9, maxHeader |-> 9, timeout |-> 5,
     path |-> path, limited |-> FALSE, rps |-> 0, burst |-> 0]

Rule(id, part, transforms) ==
    [id |-> id, phase |-> part, score |-> 1, transforms |-> transforms,
     type |-> "regex", file |-> Unset, pattern |-> Text(<<"x">>), fold |-> FALSE]

\* A site of its own, in odd spelling, and two prefixes under any host; rules
\* for a query, a path, a header and, last, a body.
Base ==
    [version |-> 1, listen |-> ":8443", log |-> "log",
     tls |-> [enabled |-> FALSE, certFile |-> Unset, keyFile |-> Unset],
     metrics |-> [enabled |-> TRUE, listen |-> ":9095"],
     upstreams |-> <<[name |-> "app", url |-> "http://app"]>>,
     policies |-> ("api" :> Policy("enforce", f1)) @@ ("page" :> Policy("shadow", f1)),
     routes |-> <<Route(Named(AnyHost), <<"/">>, "page"),
                  Route([Named(site) EXCEPT !.upper = TRUE, !.blanks = TRUE], <<"/">>, "api"),
                  Route(Named(AnyHost), <<"/", "a">>, "api")>>,
     rules |-> <<[Rule("q", "query", {"lowercase", "html_entity"})
                    EXCEPT !.type = "aho", !.file = pats, !.score = 2],
                 [Rule("p", "request_line", {"normalize_path"})
                    EXCEPT !.pattern = Text(<<"/", "a">>)],
                 [Rule("h", "headers", {"lowercase"}) EXCEPT !.fold = TRUE],
                 Rule("b", "body", {})>>]

\* A rule whose pattern runs over from one field to the next.
Running ==
    [Base EXCEPT !.rules = <<[Rule("r", "body", {}) EXCEPT
                                !.pattern = Text(<<"x", " ", "k">>)]>>]

OnlyRunning == {Running}

\* Twelve routes; two of the prefix /a, the third and the eleventh.
Twelve ==
    [Base EXCEPT !.routes = [i \in 1..12 |->
        IF i \in {3, 11} THEN Route(Named(AnyHost), <<"/", "a">>, "api")
                         ELSE Route(Named(other), <<"/", "b">>, "page")]]

\* One thing wrong with each.
Broken ==
    {[Base EXCEPT !.routes[3].upstream = "nowhere"],
     [Base EXCEPT !.routes[1].policy = "none"],
     [Base EXCEPT !.rules[1].transforms = {"rot13"}],
     [Base EXCEPT !.rules[2].pattern = Text(<<"(">>)],
     [Base EXCEPT !.rules[3].phase = "response"],
     [Base EXCEPT !.rules[4].id = "q"],
     [Base EXCEPT !.tls = [enabled |-> TRUE, certFile |-> cert, keyFile |-> cert]]}

\* Everything wrong with one.
Worst ==
    [Base EXCEPT !.version = 2, !.listen = Unset, !.metrics.listen = Unset,
        !.tls = [enabled |-> TRUE, certFile |-> Unset, keyFile |-> cert],
        !.upstreams = <<[name |-> Unset, url |-> Unset]>> \o Base.upstreams \o Base.upstreams,
        !.policies = (Unset :> Policy("audit", Unset)) @@ ("page" :>
            [Policy("audit", Unset) EXCEPT !.threshold = -1, !.maxBody = 0,
                !.maxHeader = 0, !.timeout = 0, !.limited = TRUE]),
        !.rules[1].file = Unset, !.rules[2].id = Unset, !.rules[3].type = "glob",
        !.routes[1].prefix = <<>>]

\* One rule, and an IPv6 address for a host.
OneRule ==
    [Base EXCEPT !.routes[2] = Route(Named(six), <<"/", "b">>, "api"),
                 !.rules = <<Base.rules[1]>>]

Sound == {Base, Twelve, OneRule}

AllSources == Sound \cup Broken \cup {Worst}

Command(name, mode, path) == [name |-> name, mode |-> mode, path |-> path, usable |-> TRUE]

AllCommands ==
    {Command("run", Unset, Unset), Command("run", "shadow", Unset),
     Command("run", "audit", Unset), Command("learn", Unset, f2),
     Command("enforce", Unset, Unset), Command("validate", Unset, Unset),
     [Command("learn", Unset, Unset) EXCEPT !.usable = FALSE]}

RunOnly == {Command("run", Unset, Unset)}

\* A comment, a blank line and a pattern in mixed case.
Listed == Lines(<<Text(<<"#", "x">>), <<>>, Text(<<"X", "y">>)>>)

Disk(patterns, contract) ==
    (pats :> patterns) @@ (f1 :> contract) @@ (f2 :> Missing) @@ (cert :> Lines(<<>>))

\* A pattern that doubles its character, and one that a Scanner does not take.
Doubled == Lines(<<Text(<<"x", "x", "x">>)>>)

Overlong == Lines(<<Text(<<"x", "y", "x", "y">>)>>)

AllDisks ==
    {Disk(patterns, Contract) :
        patterns \in {Listed, Doubled, Overlong, Locked(Listed), Lines(<<>>), Missing}}
    \cup {Disk(Listed, contract) : contract \in {Directory, Locked(Contract)}}

AsListed == {Disk(Listed, Contract)}

LaterContents == {Missing, Contract, Lines(<<>>)}

\* With three of a character for a pattern, two of it are enough (aho.go:79-89).
Misled == {<<ReadPatterns(Doubled.lines), Text(<<"x", "x">>)>>}

Escaped(chars, code) == Mapped(chars, LAMBDA c : [char |-> c, code |-> code])

Get ==
    [host |-> Named(site), method |-> "GET", path |-> Text(<<"/", "a">>), query |-> <<>>,
     headers |-> <<>>, body |-> NoBody, chunked |-> FALSE]

Json(fields) == [json |-> TRUE, fields |-> fields, raw |-> Text(<<"{", "x">>)]

Queries ==
    {Text(<<"x", "y">>), Text(<<"X", "Y">>), Text(<<"x", "x">>), Escaped(<<"x", "y">>, <<"pct">>),
     Escaped(<<"X", "y">>, <<"pct", "pct">>), Escaped(<<"x", "y">>, <<"pct", "pct", "pct">>),
     Escaped(<<"x", "y">>, <<"pct", "html">>), Escaped(<<"x", "y">>, <<"html", "pct">>),
     Escaped(<<"x", "y">>, <<"pct">>) \o Text(<<"%">>), Text(<<"y">>)}

PathsSent ==
    {Text(<<"/", "b", "/", "c">>), Text(<<"/", "b", "/", ".", ".", "/", "a">>),
     Text(<<"/", ".", "/", "/", "b", "/">>),
     <<Slash>> \o Escaped(<<".", ".", "/", "b">>, <<"pct">>)
       \o <<Slash>> \o Escaped(<<".", ".">>, <<"pct", "pct">>)}

HeadersSent ==
    {("authorization" :> Text(<<"x">>)), ("authorization" :> Text(<<"y">>)),
     ("accept" :> Text(<<"x">>)) @@ ("authorization" :> Text(<<"y">>))}

BodiesSent ==
    {[NoBody EXCEPT !.raw = Text(<<"x">>)],
     Json(("k" :> Text(<<"x">>)) @@ ("j" :> Text(<<"y", " ", "x">>))),
     Json(("password" :> Text(<<"x">>)) @@ ("j" :> Text(<<"y">>))),
     Json(("password" :> Text(<<"y">>)) @@ ("j" :> Text(<<"y">>))),
     Json(("k" :> Text(<<"x">>)) @@ ("j" :> Text(<<"y">>))),
     Json(("k" :> <<>>)), Json(("k" :> Text(<<"x", "\n", " ">>)) @@ ("j" :> Text(<<" ", "y">>))),
     Json(("j" :> Text(<<"token=x", "y">>)))}

ChunkedBodies ==
    {[NoBody EXCEPT !.raw = Text(<<"x">>)], Json(("password" :> Text(<<"x">>))),
     Json(("k" :> Text(<<"x">>)) @@ ("j" :> Text(<<"y">>)))}

HostsSent ==
    {Named(other), [Named(site) EXCEPT !.upper = TRUE, !.port = TRUE]}

\* [::1], and [::1]:8443, which alone is the host ::1 of OneRule's second route.
AddressesSent ==
    {[Named(six) EXCEPT !.bracketed = TRUE],
     [Named(six) EXCEPT !.bracketed = TRUE, !.port = TRUE]}

AllRequests ==
    {[Get EXCEPT !.query = t] : t \in Queries}
    \cup {[Get EXCEPT !.path = t, !.host = Named(other)] : t \in PathsSent}
    \cup {[Get EXCEPT !.headers = v] : v \in HeadersSent}
    \cup {[Get EXCEPT !.body = b] : b \in BodiesSent}
    \cup {[Get EXCEPT !.host = v] : v \in HostsSent}
    \cup {[Get EXCEPT !.host = v, !.path = Text(<<"/", "b">>)] : v \in AddressesSent}
    \cup {[Get EXCEPT !.host = Named(other), !.path = <<Slash>>, !.body = b,
                      !.chunked = TRUE] : b \in ChunkedBodies}
=============================================================================
