----------------------------- MODULE MCGateway -----------------------------
(* Instances of Gateway for TLC. *)
EXTENDS Gateway, TLC

CONSTANTS get, post, json, search, u, host, ctype, ip, path, api, form, site, shop

Lax == [mode |-> "shadow", level |-> "strict", threshold |-> 2,
        maxHeader |-> 2, maxBody |-> 2, limited |-> FALSE,
        keyed |-> "ip", limit |-> [rps |-> 2, burst |-> 1]]

\* An enforcing and a learning route that share the bucket of an address, a
\* shadowing one without a limiter, and an enforcing one with a limit per path
\* and a threshold of 0.
MixedPolicies ==
    (api :> [Lax EXCEPT !.mode = "enforce", !.limited = TRUE])
    @@ (form :> [Lax EXCEPT !.mode = "learn", !.limited = TRUE])
    @@ (site :> Lax)
    @@ (shop :> [Lax EXCEPT !.mode = "enforce", !.limited = TRUE,
                            !.keyed = "ip_path", !.threshold = 0])

\* What an enforcing route has learned: plain GETs.
PlainContract ==
    [NewContract EXCEPT !.samples = 1, !.methods = {get}, !.headers = {host},
                        !.maxBody = 2]

AllPlain == [r \in Routes |-> PlainContract]

Plain == [method |-> get, ctype |-> NoType, params |-> {}, headers |-> {host},
          body |-> 1]
Posted == [method |-> post, ctype |-> json, params |-> {search},
           headers |-> {host, ctype}, body |-> 2]

Ask(route, seen) ==
    [route |-> route, ip |-> ip, path |-> path, header |-> 1, chunked |-> FALSE,
     score |-> 0, seen |-> seen]

\* To api: one that passes, one off the contract, one at the threshold.
\* To form: one at the threshold and of unknown length, one with large headers.
\* To site: one at the threshold, two with a large body, of unknown length or not.
\* And one to shop, and one for no route.
MixedTraffic ==
    {Ask(api, Plain), Ask(api, Posted), [Ask(api, Plain) EXCEPT !.score = 2],
     [Ask(form, Posted) EXCEPT !.chunked = TRUE, !.score = 2],
     [Ask(site, Posted) EXCEPT !.score = 2],
     [Ask(site, Posted) EXCEPT !.chunked = TRUE, !.seen.body = 3],
     [Ask(form, Posted) EXCEPT !.header = 3], Ask(shop, Plain),
     [Ask(site, Plain) EXCEPT !.seen.body = 3],
     Ask(NoRoute, Plain)}

HandlerSymmetry == Permutations(Handlers)
=============================================================================
