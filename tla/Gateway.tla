------------------------------ MODULE Gateway ------------------------------
(***************************************************************************)
(* internal/gateway/gateway.go's ServeHTTP: what becomes of each request,  *)
(* from its route to its line in the decision log and its count in the     *)
(* metrics, with handlers of several routes under way at once over one     *)
(* Limiter, one log and one set of counters.                               *)
(*                                                                         *)
(* The limiter is the module of its name and contracts are those of        *)
(* Contract; a handler's use of its contract is one step (ContractLearn    *)
(* takes it apart).  What happens between two accesses to shared state,    *)
(* or to the client or the upstream, is part of the step before it.        *)
(* httputil.ReverseProxy and the upstream are external.                    *)
(***************************************************************************)
EXTENDS Contract, Sequences, Bags

CONSTANTS
    Handlers,       \* handler goroutines
    Routes, NoRoute,
    PolicyOf,       \* the policy of each route
    Loaded,         \* the contract an enforcing route starts with
    BodyRules,      \* Gateway.bodyRules: some rule reads the body
    IPs, URLPaths,  \* client addresses and request paths
    Traffic,        \* the requests clients send
    UpstreamStatus, \* what the upstream answers
    LogMayFail,     \* writes to the decision log may fail
    None, NoKey,
    Unit, MaxRps, MaxBurst, MaxClock, \* as in Limiter
    MaxRequests     \* bound: requests

Modes == {"learn", "enforce", "shadow"}

KeyModes == {"ip", "ip_path"}

\* A policy that config.Validate accepts.
Policy ==
    [mode : Modes, level : Levels, threshold : Nat,
     maxHeader : Nat \ {0}, maxBody : Nat \ {0}, limited : BOOLEAN,
     keyed : KeyModes, limit : [rps : Nat \ {0}, burst : Nat \ {0}]]

\* What ServeHTTP reads of a request: its seen part is what Contract reads.
Incoming ==
    [route : Routes \cup {NoRoute}, ip : IPs, path : URLPaths,
     header : Nat, chunked : BOOLEAN, score : Nat, seen : Request]

ASSUME GatewayAssumption ==
    /\ PolicyOf \in [Routes -> Policy]
    /\ Loaded \in [Routes -> ContractType]
    /\ Traffic \subseteq Incoming
    /\ BodyRules \in BOOLEAN /\ LogMayFail \in BOOLEAN
    /\ NoRoute \notin Routes

Keys == IPs \cup (IPs \X URLPaths)

Limits == {PolicyOf[r].limit : r \in {r \in Routes : PolicyOf[r].limited}}

ASSUME LimiterAssumption ==
    /\ NoKey \notin Keys
    /\ Unit \in Nat \ {0}
    /\ MaxRps \in Nat /\ MaxBurst \in Nat /\ MaxClock \in Nat
    /\ \A l \in Limits : l.rps <= MaxRps /\ l.burst <= MaxBurst

VARIABLES
    at,        \* where in ServeHTTP each handler is
    streamed,  \* the body it did not read is still the client's to send
    number,    \* the request it serves, by its place in fate
    decision,  \* its Decision, and the reason it gives the metrics
    contracts, \* Gateway.contracts, by route
    log,       \* the decision log
    counters,  \* the metrics: bags of label values
    fate,      \* what clients sent, and what became of it
    clock, waiting, buckets,          \* the Limiter's
    credited, lastOk, grants, stamps  \* and its history

limiterVars == <<clock, waiting, buckets, credited, lastOk, grants, stamps>>

vars == <<at, streamed, number, decision, contracts, log, counters, fate, limiterVars>>

L == INSTANCE Limiter WITH Callers <- Handlers

Statuses == {403, 413, 429, 431, 502, 504} \cup UpstreamStatus

Actions == {"allow", "block", "shadow"}

Decision ==
    [action : Actions, status : Statuses \cup {0}, limited : BOOLEAN,
     reason : {"", "rule", "contract", "ratelimit"}]

NoDecision == [action |-> "allow", status |-> 0, limited |-> FALSE, reason |-> ""]

\* Who answered, and what: the gateway itself, or the proxy.
Reply == {"gateway", "proxy"} \X (Statuses \cup {404})

ASSUME ReplyAssumption == None \notin Reply

TypeOK ==
    /\ at \in [Handlers -> {"idle", "body", "stamp", "limiter", "checks",
                            "proxy", "upstream", "relay", "log", "count",
                            "reply"}]
    /\ streamed \in [Handlers -> BOOLEAN]
    /\ number \in [Handlers -> 0..Len(fate)]
    /\ decision \in [Handlers -> Decision]
    /\ contracts \in [Routes -> ContractType]
    /\ log \in Seq([number : DOMAIN fate, action : Actions, status : Statuses,
                    limited : BOOLEAN])
    /\ \A kind \in {"requests", "blocks", "hits"} : IsABag(counters[kind])
    /\ fate \in Seq([request : Traffic, forwarded : BOOLEAN,
                     reply : Reply \cup {None}])
    /\ L!TypeOK

Init ==
    /\ at = [h \in Handlers |-> "idle"]
    /\ streamed = [h \in Handlers |-> FALSE]
    /\ number = [h \in Handlers |-> 0]
    /\ decision = [h \in Handlers |-> NoDecision]
    /\ contracts = [r \in Routes |->
            IF PolicyOf[r].mode = "enforce" THEN Loaded[r] ELSE NewContract]
    /\ log = <<>>
    /\ counters = [requests |-> EmptyBag, blocks |-> EmptyBag, hits |-> EmptyBag]
    /\ fate = <<>>
    /\ L!Init
-----------------------------------------------------------------------------
Received(h) == fate[number[h]].request

RouteOf(h) == Received(h).route

PolicyFor(h) == PolicyOf[RouteOf(h)]

BlockStatus == 403

Step(h, from, to) == at[h] = from /\ at' = [at EXCEPT ![h] = to]

\* A block decides, is logged, is counted and only then answers the client.
Block(h, status, reason) ==
    /\ at' = [at EXCEPT ![h] = "log"]
    /\ decision' = [decision EXCEPT ![h] =
            [action |-> "block", status |-> status,
             limited |-> reason = "ratelimit", reason |-> reason]]

ExceedsHeaderLimit(q) == q.header > PolicyOf[q.route].maxHeader

\* Content-Length is -1 for a chunked body.
DeclaredTooLarge(q) == ~q.chunked /\ q.seen.body > PolicyOf[q.route].maxBody

Sent(q, reply) == Append(fate, [request |-> q, forwarded |-> FALSE, reply |-> reply])

\* resolveRoute finds nothing.
NotFound(q) ==
    /\ Len(fate) < MaxRequests /\ q.route = NoRoute
    /\ fate' = Sent(q, <<"gateway", 404>>)
    /\ UNCHANGED <<at, streamed, number, decision, contracts, log, counters,
                   limiterVars>>

Begin(h, q) ==
    /\ at[h] = "idle" /\ Len(fate) < MaxRequests /\ q.route # NoRoute
    /\ fate' = Sent(q, None)
    /\ number' = [number EXCEPT ![h] = Len(fate')]
    /\ streamed' = [streamed EXCEPT ![h] = FALSE]
    /\ CASE ExceedsHeaderLimit(q) -> Block(h, 431, "rule")
         [] ~ExceedsHeaderLimit(q) /\ DeclaredTooLarge(q) -> Block(h, 413, "rule")
         [] OTHER -> /\ at' = [at EXCEPT ![h] = "body"]
                     /\ decision' = [decision EXCEPT ![h] = NoDecision]
    /\ UNCHANGED <<contracts, log, counters, limiterVars>>

\* readBodyIfNeeded calls io.ReadAll.
ReadsBody(h) ==
    \/ Received(h).chunked
    \/ (BodyRules \/ PolicyFor(h).mode # "shadow") /\ Received(h).seen.body > 0

\* io.ReadAll stops short: the client is gone, or MaxBytesReader's limit is met.
BodyFails(h) ==
    /\ at[h] = "body" /\ ReadsBody(h)
    /\ Block(h, 413, "rule")
    /\ UNCHANGED <<streamed, number, contracts, log, counters, fate,
                   limiterVars>>

ReadBody(h) ==
    /\ at[h] = "body"
    /\ ReadsBody(h) => Received(h).seen.body <= PolicyFor(h).maxBody
    /\ at' = [at EXCEPT ![h] = IF PolicyFor(h).limited THEN "stamp" ELSE "checks"]
    /\ streamed' = [streamed EXCEPT ![h] =
            ~ReadsBody(h) /\ Received(h).seen.body > 0]
    /\ UNCHANGED <<number, decision, contracts, log, counters, fate, limiterVars>>

\* A body that is not read here streams through the proxy: the client sends
\* the rest of it, or is gone.  Nothing bounds when.
BodyIn(h) ==
    /\ streamed[h] /\ streamed' = [streamed EXCEPT ![h] = FALSE]
    /\ UNCHANGED <<at, number, decision, contracts, log, counters, fate,
                   limiterVars>>
-----------------------------------------------------------------------------
RatelimitKey(h) ==
    IF PolicyFor(h).keyed = "ip_path" THEN <<Received(h).ip, Received(h).path>>
                                ELSE Received(h).ip

\* Allow's arguments are evaluated ...
StampLimit(h) ==
    /\ Step(h, "stamp", "limiter")
    /\ L!Stamp(h, RatelimitKey(h), PolicyFor(h).limit)
    /\ UNCHANGED <<streamed, number, decision, contracts, log, counters, fate>>

\* Variant: the answer of Allow is not looked at.
AllowIgnored(h, call) ==
    /\ Step(h, "limiter", "checks") /\ UNCHANGED decision
    /\ L!Grant(call) \/ L!Deny(call)

\* ... and it is applied.
Allow(h, call) ==
    \/ /\ L!Grant(call)
       /\ Step(h, "limiter", "checks") /\ UNCHANGED decision
    \/ /\ L!Deny(call)
       /\ at[h] = "limiter" /\ Block(h, 429, "ratelimit")

AskLimiter(h) ==
    /\ \E call \in waiting : call.caller = h /\ Allow(h, call)
    /\ UNCHANGED <<streamed, number, contracts, log, counters, fate>>

\* Variant: the score has to exceed the threshold.
ExceedsThreshold(h) == Received(h).score > PolicyFor(h).threshold

ReachesThreshold(h) == Received(h).score >= PolicyFor(h).threshold

\* Variant: a learning policy blocks for its rules.
DecideActionLearning(h) ==
    CASE ~ReachesThreshold(h) -> "allow"
      [] ReachesThreshold(h) /\ PolicyFor(h).mode = "shadow" -> "shadow"
      [] ReachesThreshold(h) /\ PolicyFor(h).mode # "shadow" -> "block"

\* policy.DecideAction, when the contract has not decided.
DecideAction(h) ==
    CASE ~ReachesThreshold(h) -> "allow"
      [] ReachesThreshold(h) /\ PolicyFor(h).mode = "shadow" -> "shadow"
      [] ReachesThreshold(h) /\ PolicyFor(h).mode = "enforce" -> "block"
      [] ReachesThreshold(h) /\ PolicyFor(h).mode = "learn" -> "allow"

\* checkContract's answer: violations, of an enforcing policy alone.
Violations(h) ==
    IF PolicyFor(h).mode = "enforce"
    THEN Evaluate(contracts[RouteOf(h)], Received(h).seen, PolicyFor(h).level)
    ELSE {}

\* Rules, contract and decision: a contract's block goes before a rule's.
Checks(h) ==
    /\ at[h] = "checks"
    /\ contracts' = [contracts EXCEPT ![RouteOf(h)] =
            IF PolicyFor(h).mode = "learn" THEN Observed(@, Received(h).seen) ELSE @]
    /\ CASE Violations(h) # {} -> Block(h, BlockStatus, "contract")
         [] Violations(h) = {} /\ DecideAction(h) = "block" ->
                Block(h, BlockStatus, "rule")
         [] OTHER ->
                /\ at' = [at EXCEPT ![h] = "proxy"]
                /\ decision' = [decision EXCEPT ![h].action = DecideAction(h)]
    /\ UNCHANGED <<streamed, number, log, counters, fate, limiterVars>>
-----------------------------------------------------------------------------
\* The transport hands the request to the upstream.
Forward(h) ==
    /\ Step(h, "proxy", "upstream")
    /\ fate' = [fate EXCEPT ![number[h]].forwarded = TRUE]
    /\ UNCHANGED <<streamed, number, decision, contracts, log, counters,
                   limiterVars>>

Answer(h, by, status) ==
    fate' = [fate EXCEPT ![number[h]].reply = <<by, status>>]

\* Variant: the status goes past the statusRecorder.
RecordNothing(h, status) ==
    /\ Answer(h, "proxy", status)
    /\ UNCHANGED decision

\* WriteHeader of the statusRecorder.
Record(h, status) ==
    /\ Answer(h, "proxy", status)
    /\ decision' = [decision EXCEPT ![h].status = status]

\* Variant: the timeout ends the dialling only.
ProxyFailsDialling(h, status) ==
    /\ Step(h, "proxy", "log") /\ ~streamed[h]
    /\ Record(h, status)
    /\ UNCHANGED <<streamed, number, contracts, log, counters, limiterVars>>

\* The ErrorHandler: the timeout or the client ended the context, or the
\* upstream cannot be reached or gives no response.  The transport and
\* ReverseProxy close the request's body before ServeHTTP goes on, and that
\* waits for the client while the body streams.
ProxyFails(h, status) ==
    /\ Step(h, "proxy", "log") \/ Step(h, "upstream", "log")
    /\ ~streamed[h]
    /\ Record(h, status)
    /\ UNCHANGED <<streamed, number, contracts, log, counters, limiterVars>>

\* The response begins; the upstream need not wait for the request's body.
Relay(h, status) ==
    /\ Step(h, "upstream", "relay")
    /\ Record(h, status)
    /\ UNCHANGED <<streamed, number, contracts, log, counters, limiterVars>>

\* The response is copied and the request's body is closed.
Relayed(h) ==
    /\ Step(h, "relay", "log") /\ ~streamed[h]
    /\ UNCHANGED <<streamed, number, decision, contracts, log, counters, fate,
                   limiterVars>>

\* The body of the response cannot be copied to its end: ReverseProxy panics
\* with ErrAbortHandler, and ServeHTTP does not get to writeDecision.
Abort(h) ==
    /\ Step(h, "relay", "idle") /\ ~streamed[h]
    /\ UNCHANGED <<streamed, number, decision, contracts, log, counters, fate,
                   limiterVars>>
-----------------------------------------------------------------------------
\* writeDecision: the log, whose error is dropped ...
WriteLog(h) ==
    /\ Step(h, "log", "count")
    /\ LET d == decision[h]
       IN  \/ log' = Append(log, [number |-> number[h], action |-> d.action,
                                  status |-> d.status, limited |-> d.limited])
           \/ LogMayFail /\ UNCHANGED log
    /\ UNCHANGED <<streamed, number, decision, contracts, counters, fate,
                   limiterVars>>

\* Variant: the reason alone makes a block of it.
BlockReasonsGiven(d) == IF d.reason \in {"contract", "rule"} THEN {d.reason} ELSE {}

\* The labels klyr_blocks_total is incremented with.
BlockReasons(d) ==
    IF d.action = "block" \/ d.reason # ""
    THEN {IF d.reason = "" THEN "rule" ELSE d.reason} ELSE {}

\* ... and the metrics.  A proxied request has had its answer.
Count(h) ==
    /\ at[h] = "count"
    /\ LET d == decision[h]
           r == RouteOf(h)
       IN  counters' =
              [requests |-> counters.requests
                               (+) SetToBag({<<r, d.action, d.status>>}),
               blocks |-> counters.blocks
                             (+) SetToBag({<<r, b>> : b \in BlockReasons(d)}),
               hits |-> counters.hits
                           (+) SetToBag({s \in {r} : d.limited})]
    /\ at' = [at EXCEPT ![h] =
            IF decision[h].action = "block" THEN "reply" ELSE "idle"]
    /\ UNCHANGED <<streamed, number, decision, contracts, log, fate,
                   limiterVars>>

\* http.Error of a block.
Refuse(h) ==
    /\ Step(h, "reply", "idle")
    /\ Answer(h, "gateway", decision[h].status)
    /\ UNCHANGED <<streamed, number, decision, contracts, log, counters,
                   limiterVars>>

Tick ==
    /\ L!Tick
    /\ UNCHANGED <<at, streamed, number, decision, contracts, log, counters, fate>>

Serve(h) ==
    \/ ReadBody(h) \/ BodyFails(h) \/ StampLimit(h) \/ AskLimiter(h)
    \/ Checks(h) \/ Forward(h) \/ Relayed(h) \/ Abort(h)
    \/ \E status \in {502, 504} : ProxyFails(h, status)
    \/ \E status \in UpstreamStatus : Relay(h, status)
    \/ WriteLog(h) \/ Count(h) \/ Refuse(h)

Next ==
    \/ Tick
    \/ \E q \in Traffic : NotFound(q) \/ \E h \in Handlers : Begin(h, q)
    \/ \E h \in Handlers : Serve(h) \/ BodyIn(h)

(***************************************************************************)
(* A handler goroutine runs on, the mutex of the limiter is released, and  *)
(* the policy's timeout ends a request that waits for the upstream, unless *)
(* its body still streams from the client.  Nothing bounds the reading of  *)
(* a body, before the proxy or by it, or the copying of a response:        *)
(* run.go:77-81 gives the server a ReadHeaderTimeout only, and the context *)
(* of gateway.go:214 is the proxy's.                                       *)
(***************************************************************************)
Runs(h) ==
    \/ StampLimit(h) \/ AskLimiter(h) \/ Checks(h)
    \/ \E status \in {502, 504} : ProxyFails(h, status)
    \/ WriteLog(h) \/ Count(h) \/ Refuse(h)

Fairness == \A h \in Handlers : WF_vars(Runs(h))

Spec == Init /\ [][Next]_vars /\ Fairness
-----------------------------------------------------------------------------
Quiet == \A h \in Handlers : at[h] = "idle"

OnRoute(r) == {n \in DOMAIN fate : fate[n].request.route = r}

Proxied(n) == fate[n].reply # None /\ fate[n].reply[1] = "proxy"

Blocked(r) == {n \in OnRoute(r) : ~Proxied(n)}

(***************************************************************************)
(* The log tells what happened (docs/architecture.md:12): however handlers *)
(* interleave and whatever the upstream does, no request has two lines; a  *)
(* line that says block is of a request the upstream never saw and the     *)
(* gateway answered; any other is of a request the proxy answered; and the *)
(* status it gives is the one the client got.                              *)
(***************************************************************************)
Tells(line, f) ==
    /\ line.action = "block" => ~f.forwarded
    /\ f.reply # None =>
          f.reply = <<IF line.action = "block" THEN "gateway" ELSE "proxy",
                      line.status>>

LogTells ==
    \A i \in DOMAIN log :
        /\ Tells(log[i], fate[log[i].number])
        /\ \A j \in DOMAIN log : log[j].number = log[i].number => j = i

(***************************************************************************)
(* Nothing passes around a check: what the upstream gets is within the     *)
(* header and body limits of its route's policy, whether its length was    *)
(* declared or not and whether the body was read or streamed, and on an    *)
(* enforcing route it keeps to the contract and scores below the threshold *)
(* (docs/architecture.md:15-23).                                           *)
(***************************************************************************)
Mediated ==
    \A n \in DOMAIN fate : fate[n].forwarded =>
        LET q == fate[n].request
            p == PolicyOf[q.route]
        IN  /\ q.header <= p.maxHeader /\ q.seen.body <= p.maxBody
            /\ p.mode = "enforce" =>
                  /\ Evaluate(Loaded[q.route], q.seen, p.level) = {}
                  /\ q.score < p.threshold

KeyOf(q) ==
    IF PolicyOf[q.route].keyed = "ip_path" THEN <<q.ip, q.path>> ELSE q.ip

(***************************************************************************)
(* The limiter bounds what the upstream gets: over all routes and all      *)
(* handlers, the requests of a key that are forwarded stay within the      *)
(* largest burst of their policies and what the time credited to the       *)
(* bucket earns at the largest rate.                                       *)
(***************************************************************************)
ForwardedWithinLimit ==
    \A k \in Keys :
        LET passed == {n \in DOMAIN fate :
                          /\ fate[n].forwarded
                          /\ PolicyOf[fate[n].request.route].limited
                          /\ KeyOf(fate[n].request) = k}
        IN  Cardinality(passed) * Unit <= MaxBurst * Unit + MaxRps * credited[k]

(***************************************************************************)
(* A learning route learns from the requests it passed on to the proxy,    *)
(* those the upstream never answered included, and from no other: one that *)
(* a size limit or the rate limit refused leaves no trace in the contract  *)
(* (gateway.go:173-294).                                                   *)
(***************************************************************************)
LearnedProxied ==
    Quiet => \A r \in Routes : PolicyOf[r].mode = "learn" =>
        LET c == contracts[r]
            Q == {fate[n].request.seen : n \in OnRoute(r) \ Blocked(r)}
        IN  /\ c.samples = Cardinality(OnRoute(r) \ Blocked(r))
            /\ c.methods = {q.method : q \in Q}
            /\ c.ctypes = {q.ctype : q \in Q} \ {NoType}
            /\ c.params = UNION {q.params : q \in Q}
            /\ c.headers = UNION {q.headers : q \in Q}
            /\ \A q \in Q : q.body <= c.observedMax
            /\ c.observedMax \in {q.body : q \in Q} \cup {0}

Copies(label, bag) == IF label \in DOMAIN bag THEN bag[label] ELSE 0

Blocks(r) == Copies(<<r, "rule">>, counters.blocks)
                + Copies(<<r, "contract">>, counters.blocks)
                + Copies(<<r, "ratelimit">>, counters.blocks)

(***************************************************************************)
(* The counters add up once no request is under way: each refused request  *)
(* of a route is one block of one reason, each one the limiter refused is  *)
(* one hit, and a line of the log is never missing from the request        *)
(* counter of its labels, though the log, whose errors are dropped, may    *)
(* miss what was counted (gateway.go:314-323, metrics.go:76-110).          *)
(***************************************************************************)
CountersAddUp ==
    Quiet =>
        /\ \A r \in Routes :
              /\ Blocks(r) = Cardinality(Blocked(r))
              /\ Copies(r, counters.hits)
                    = Cardinality({n \in OnRoute(r) :
                                     fate[n].reply = <<"gateway", 429>>})
        /\ \A label \in Routes \X Actions \X Statuses :
              Cardinality({i \in DOMAIN log :
                  <<fate[log[i].number].request.route, log[i].action,
                    log[i].status>> = label}) <= Copies(label, counters.requests)

(***************************************************************************)
(* A request whose body is in is answered, or its answer has begun: the    *)
(* limiter lets every caller through and the policy's timeout covers the   *)
(* whole wait for the upstream (gateway.go:214, 268-270).  A body that     *)
(* streams (gateway.go:490) is in when the client has sent it, and no      *)
(* timeout stands in for that.                                             *)
(***************************************************************************)
AnsweredOnceRead ==
    \A h \in Handlers :
        at[h] \notin {"idle", "body"} /\ ~streamed[h] ~> at[h] \in {"idle", "relay"}
=============================================================================
