------------------------ MODULE GatewayAccountProofs ------------------------
(***************************************************************************)
(* Proofs about Gateway, continued: what learning routes have learned and  *)
(* what the counters hold, for every set of handlers, policies and         *)
(* requests.                                                               *)
(***************************************************************************)
EXTENDS GatewayProofs

-----------------------------------------------------------------------------
(***************************************************************************)
(* The accounts while requests are under way.  A request is held once it   *)
(* is on its way to the proxy, refused once its block has been counted,    *)
(* and a line is counted once its handler has passed Count.                *)
(***************************************************************************)
Held(n) ==
    \/ Proxied(n)
    \/ \E h \in Handlers : at[h] \in {"proxy", "upstream"} /\ number[h] = n

HeldOn(r) == {n \in OnRoute(r) : Held(n)}

Seen(N) == {fate[n].request.seen : n \in N}

Taught(c, Q, m) ==
    /\ c.samples = m
    /\ c.methods = {q.method : q \in Q}
    /\ c.ctypes = {q.ctype : q \in Q} \ {NoType}
    /\ c.params = UNION {q.params : q \in Q}
    /\ c.headers = UNION {q.headers : q \in Q}
    /\ \A q \in Q : q.body <= c.observedMax
    /\ c.observedMax \in {q.body : q \in Q} \cup {0}

Learned ==
    \A r \in Routes : PolicyOf[r].mode = "learn" =>
        Taught(contracts[r], Seen(HeldOn(r)), Cardinality(HeldOn(r)))

\* A request without a reply is one under way.
Open ==
    \A n \in DOMAIN fate :
        fate[n].reply = None => \E h \in Handlers : Busy(h) /\ number[h] = n

ByGateway(n) ==
    \/ fate[n].reply # None /\ fate[n].reply[1] = "gateway"
    \/ \E h \in Handlers : at[h] = "reply" /\ number[h] = n

RefusedOn(r) == {n \in OnRoute(r) : ByGateway(n)}

ByLimiter(n) ==
    \/ fate[n].reply = <<"gateway", 429>>
    \/ \E h \in Handlers :
          at[h] = "reply" /\ number[h] = n /\ decision[h].limited

LimitedOn(r) == {n \in OnRoute(r) : ByLimiter(n)}

LabelOf(i) ==
    <<fate[log[i].number].request.route, log[i].action, log[i].status>>

CountedLines(label) ==
    {i \in DOMAIN log :
        /\ LabelOf(i) = label
        /\ ~\E h \in Handlers : at[h] = "count" /\ number[h] = log[i].number}

Labels == Routes \X Actions \X Statuses

Tallied ==
    /\ \A r \in Routes :
          /\ Blocks(r) = Cardinality(RefusedOn(r))
          /\ Copies(r, counters.hits) = Cardinality(LimitedOn(r))
    /\ \A label \in Labels :
          Cardinality(CountedLines(label)) <= Copies(label, counters.requests)

Accounts == Open /\ Learned /\ Tallied

AccountInv == PipelineInv /\ Accounts
-----------------------------------------------------------------------------
(***************************************************************************)
(* Whether a request is held, refused or limited depends on its entry and  *)
(* on the one handler that serves it.                                      *)
(***************************************************************************)
Answers(f, who) == f.reply # None /\ f.reply[1] = who

IsHeld(s, f) == Answers(f, "proxy") \/ s \in {"proxy", "upstream"}

IsRefused(s, f) == Answers(f, "gateway") \/ s = "reply"

IsLimited(s, d, f) == f.reply = <<"gateway", 429>> \/ (s = "reply" /\ d.limited)

LEMMA OwnRequest ==
    ASSUME PipelineInv, NEW h \in Handlers, Busy(h)
    PROVE  LET n == number[h]
               f == fate[n]
           IN  /\ Held(n) <=> IsHeld(at[h], f)
               /\ ByGateway(n) <=> IsRefused(at[h], f)
               /\ ByLimiter(n) <=> IsLimited(at[h], decision[h], f)
<1>1. \A g \in Handlers : Busy(g) /\ number[g] = number[h] => g = h
  BY DEF PipelineInv, Alone
<1> QED
  BY <1>1 DEF Held, ByGateway, ByLimiter, IsHeld, IsRefused, IsLimited, Answers,
              Proxied, Busy

LEMMA MovedRequest ==
    ASSUME PipelineInv, NEW h \in Handlers,
           NEW s \in Stages, NEW d \in Decision, NEW f \in Entry,
           Moves(h, s, d, f), f.request = fate[number[h]].request
    PROVE  /\ \A r : OnRoute(r)' = OnRoute(r)
           /\ \A n \in DOMAIN fate : fate'[n].request = fate[n].request
           /\ \A n \in DOMAIN fate \ {number[h]} :
                 /\ Held(n)' <=> Held(n)
                 /\ ByGateway(n)' <=> ByGateway(n)
                 /\ ByLimiter(n)' <=> ByLimiter(n)
           /\ Held(number[h])' <=> IsHeld(s, f)
           /\ ByGateway(number[h])' <=> IsRefused(s, f)
           /\ ByLimiter(number[h])' <=> IsLimited(s, d, f)
<1>1. /\ number' = number /\ number[h] \in DOMAIN fate /\ DOMAIN fate' = DOMAIN fate
      /\ at'[h] = s /\ decision'[h] = d /\ fate'[number[h]] = f
      /\ \A g \in Handlers \ {h} : at'[g] = at[g] /\ decision'[g] = decision[g]
      /\ \A n \in DOMAIN fate \ {number[h]} : fate'[n] = fate[n]
      /\ Busy(h)
  BY Moved DEF Moves, PipelineInv
<1>2. \A g \in Handlers : Busy(g) /\ number[g] = number[h] => g = h
  BY <1>1 DEF PipelineInv, Alone
<1>3. \A n \in DOMAIN fate : fate'[n].request = fate[n].request
  BY <1>1
<1>4. \A r : OnRoute(r)' = OnRoute(r)
  BY <1>1, <1>3 DEF OnRoute
<1>5. ASSUME NEW n \in DOMAIN fate \ {number[h]}
      PROVE  /\ Held(n)' <=> Held(n)
             /\ ByGateway(n)' <=> ByGateway(n)
             /\ ByLimiter(n)' <=> ByLimiter(n)
  <2>1. \A g \in Handlers : number[g] = n => g # h
    BY <1>5
  <2> QED BY <1>1, <2>1 DEF Held, ByGateway, ByLimiter, Proxied
<1>6. \A g \in Handlers : number[g] = number[h] /\ g # h => at'[g] = "idle"
  BY <1>1, <1>2 DEF Busy
<1>7. PICK m : m = number[h]
  OBVIOUS
<1>8. /\ Held(m)' <=> IsHeld(s, f)
      /\ ByGateway(m)' <=> IsRefused(s, f)
      /\ ByLimiter(m)' <=> IsLimited(s, d, f)
  BY <1>1, <1>6, <1>7
  DEF Held, ByGateway, ByLimiter, IsHeld, IsRefused, IsLimited, Answers, Proxied
<1>9. /\ Held(number[h])' <=> Held(m)'
      /\ ByGateway(number[h])' <=> ByGateway(m)'
      /\ ByLimiter(number[h])' <=> ByLimiter(m)'
  BY <1>1, <1>7
<1> QED BY <1>3, <1>4, <1>5, <1>8, <1>9

LEMMA RouteFinite ==
    ASSUME PipelineInv, NEW r
    PROVE  /\ IsFiniteSet(HeldOn(r)) /\ Cardinality(HeldOn(r)) \in Nat
           /\ IsFiniteSet(RefusedOn(r)) /\ Cardinality(RefusedOn(r)) \in Nat
           /\ IsFiniteSet(LimitedOn(r)) /\ Cardinality(LimitedOn(r)) \in Nat
<1>1. DOMAIN fate = 1..Len(fate) /\ Len(fate) \in Nat
  BY DEF PipelineInv, Typed
<1>2. IsFiniteSet(DOMAIN fate)
  BY <1>1, FS_Interval
<1>3. /\ HeldOn(r) \in SUBSET (DOMAIN fate) /\ RefusedOn(r) \in SUBSET (DOMAIN fate)
      /\ LimitedOn(r) \in SUBSET (DOMAIN fate)
  BY DEF HeldOn, RefusedOn, LimitedOn, OnRoute
<1>4. IsFiniteSet(HeldOn(r)) /\ IsFiniteSet(RefusedOn(r)) /\ IsFiniteSet(LimitedOn(r))
  BY <1>2, <1>3, FS_Subset
<1> QED BY <1>4, FS_CardinalityType

LEMMA LinesFinite ==
    ASSUME PipelineInv, NEW label
    PROVE  /\ IsFiniteSet(CountedLines(label))
           /\ Cardinality(CountedLines(label)) \in Nat
<1>1. log \in Seq(Line)
  BY LineFacts DEF PipelineInv
<1>2. DOMAIN log = 1..Len(log) /\ Len(log) \in Nat
  BY <1>1
<1>3. IsFiniteSet(DOMAIN log)
  BY <1>2, FS_Interval
<1>4. CountedLines(label) \in SUBSET (DOMAIN log)
  BY DEF CountedLines
<1>5. IsFiniteSet(CountedLines(label))
  BY <1>3, <1>4, FS_Subset
<1> QED BY <1>5, FS_CardinalityType

\* A line belongs to a request, whose route stays what it was.
LEMMA SameLabels ==
    ASSUME PipelineInv, NEW h \in Handlers,
           NEW s \in Stages, NEW d \in Decision, NEW f \in Entry,
           Moves(h, s, d, f), f.request = fate[number[h]].request,
           log' = log \/ \E line \in Line : log' = Append(log, line)
    PROVE  /\ DOMAIN log \subseteq DOMAIN log'
           /\ \A i \in DOMAIN log : log'[i] = log[i] /\ LabelOf(i)' = LabelOf(i)
<1>1. /\ log \in Seq(Line) /\ \A i \in DOMAIN log : log[i].number \in DOMAIN fate
  BY LineFacts DEF PipelineInv
<1>2. DOMAIN log \subseteq DOMAIN log' /\ \A i \in DOMAIN log : log'[i] = log[i]
  BY <1>1
<1>3. \A n \in DOMAIN fate : fate'[n].request = fate[n].request
  BY MovedRequest
<1> QED BY <1>1, <1>2, <1>3 DEF LabelOf

LEMMA SteadyLines ==
    ASSUME PipelineInv, NEW h \in Handlers,
           NEW s \in Stages, NEW d \in Decision, NEW f \in Entry,
           Moves(h, s, d, f), f.request = fate[number[h]].request,
           at[h] # "count",
           \/ log' = log
           \/ s = "count" /\ \E line \in Line :
                 line.number = number[h] /\ log' = Append(log, line),
           NEW label
    PROVE  Cardinality(CountedLines(label)') <= Cardinality(CountedLines(label))
           /\ Cardinality(CountedLines(label)') \in Nat
<1>1. /\ DOMAIN log \subseteq DOMAIN log'
      /\ \A i \in DOMAIN log : log'[i] = log[i] /\ LabelOf(i)' = LabelOf(i)
  BY SameLabels
<1>2. /\ number' = number /\ at'[h] = s
      /\ \A g \in Handlers \ {h} : at'[g] = at[g]
  BY Moved DEF Moves, PipelineInv
<1>3. \A i \in DOMAIN log' : i \in DOMAIN log \/ (s = "count" /\ log'[i].number = number[h])
  <2>1. log \in Seq(Line)
    BY LineFacts DEF PipelineInv
  <2> QED BY <2>1
<1>4. CountedLines(label)' \subseteq CountedLines(label)
  <2> SUFFICES ASSUME NEW i \in DOMAIN log', LabelOf(i)' = label,
                      ~\E g \in Handlers :
                          at'[g] = "count" /\ number'[g] = log'[i].number
               PROVE  i \in CountedLines(label)
    BY DEF CountedLines
  <2>1. i \in DOMAIN log
    BY <1>2, <1>3
  <2>2. ~\E g \in Handlers : at[g] = "count" /\ number[g] = log[i].number
    BY <1>1, <1>2, <2>1
  <2> QED BY <1>1, <2>1, <2>2 DEF CountedLines
<1>5. /\ IsFiniteSet(CountedLines(label))
      /\ Cardinality(CountedLines(label)) \in Nat
  BY LinesFinite
<1>6. /\ IsFiniteSet(CountedLines(label)')
      /\ Cardinality(CountedLines(label)') <= Cardinality(CountedLines(label))
  BY <1>4, <1>5, FS_Subset
<1> QED BY <1>6, FS_CardinalityType

LEMMA OpenStep ==
    ASSUME PipelineInv, Open, NEW h \in Handlers,
           NEW s \in Stages, NEW d \in Decision, NEW f \in Entry,
           Moves(h, s, d, f), s = "idle" => f.reply # None
    PROVE  Open'
<1>1. /\ number' = number /\ number[h] \in DOMAIN fate /\ DOMAIN fate' = DOMAIN fate
      /\ at'[h] = s /\ fate'[number[h]] = f
      /\ \A g \in Handlers \ {h} : at'[g] = at[g]
      /\ \A n \in DOMAIN fate \ {number[h]} : fate'[n] = fate[n]
  BY Moved DEF Moves, PipelineInv
<1> SUFFICES ASSUME NEW n \in DOMAIN fate, fate'[n].reply = None
             PROVE  \E g \in Handlers : at'[g] # "idle" /\ number[g] = n
  BY <1>1 DEF Open, Busy
<1>2. CASE n = number[h]
  BY <1>1, <1>2
<1>3. CASE n # number[h]
  <2>1. PICK g \in Handlers : at[g] # "idle" /\ number[g] = n
    BY <1>1, <1>3 DEF Open, Busy
  <2> QED BY <1>1, <1>3, <2>1
<1> QED BY <1>2, <1>3

\* What a handler's step does to the accounts of a route, told from the one
\* request it serves.
LEMMA MovedAccounts ==
    ASSUME PipelineInv, NEW h \in Handlers,
           NEW s \in Stages, NEW d \in Decision, NEW f \in Entry,
           Moves(h, s, d, f), f.request = fate[number[h]].request, NEW r
    PROVE  LET n == number[h]
               e == fate[n]
           IN  /\ (IsHeld(s, f) <=> IsHeld(at[h], e)) \/ n \notin OnRoute(r) =>
                     HeldOn(r)' = HeldOn(r)
               /\ ~IsHeld(at[h], e) => n \notin HeldOn(r)
               /\ IsHeld(s, f) /\ n \in OnRoute(r) =>
                     HeldOn(r)' = HeldOn(r) \cup {n}
               /\ (IsRefused(s, f) <=> IsRefused(at[h], e)) \/ n \notin OnRoute(r) =>
                     RefusedOn(r)' = RefusedOn(r)
               /\ ~IsRefused(at[h], e) => n \notin RefusedOn(r)
               /\ IsRefused(s, f) /\ n \in OnRoute(r) =>
                     RefusedOn(r)' = RefusedOn(r) \cup {n}
               /\ \/ IsLimited(s, d, f) <=> IsLimited(at[h], decision[h], e)
                  \/ n \notin OnRoute(r)
                  => LimitedOn(r)' = LimitedOn(r)
               /\ ~IsLimited(at[h], decision[h], e) => n \notin LimitedOn(r)
               /\ IsLimited(s, d, f) /\ n \in OnRoute(r) =>
                     LimitedOn(r)' = LimitedOn(r) \cup {n}
<1>1. PICK n : n = number[h]
  OBVIOUS
<1>2. /\ OnRoute(r)' = OnRoute(r)
      /\ \A m \in DOMAIN fate \ {n} : /\ Held(m)' <=> Held(m)
                                      /\ ByGateway(m)' <=> ByGateway(m)
                                      /\ ByLimiter(m)' <=> ByLimiter(m)
  BY <1>1, MovedRequest
<1>3. /\ number' = number /\ Busy(h)
  BY DEF Moves
<1>4. /\ Held(n)' <=> IsHeld(s, f)
      /\ ByGateway(n)' <=> IsRefused(s, f)
      /\ ByLimiter(n)' <=> IsLimited(s, d, f)
  BY <1>1, <1>3, MovedRequest DEF Held, ByGateway, ByLimiter, Proxied
<1>5. /\ Held(n) <=> IsHeld(at[h], fate[n])
      /\ ByGateway(n) <=> IsRefused(at[h], fate[n])
      /\ ByLimiter(n) <=> IsLimited(at[h], decision[h], fate[n])
  BY <1>1, <1>3, OwnRequest
<1>6. OnRoute(r) \subseteq DOMAIN fate
  BY DEF OnRoute
<1>7. /\ HeldOn(r) = {m \in OnRoute(r) : Held(m)}
      /\ HeldOn(r)' = {m \in OnRoute(r) : Held(m)'}
      /\ RefusedOn(r) = {m \in OnRoute(r) : ByGateway(m)}
      /\ RefusedOn(r)' = {m \in OnRoute(r) : ByGateway(m)'}
      /\ LimitedOn(r) = {m \in OnRoute(r) : ByLimiter(m)}
      /\ LimitedOn(r)' = {m \in OnRoute(r) : ByLimiter(m)'}
  BY <1>2 DEF HeldOn, RefusedOn, LimitedOn
<1> QED BY <1>1, <1>2, <1>4, <1>5, <1>6, <1>7

LEMMA LearnedStep ==
    ASSUME PipelineInv, Learned, NEW h \in Handlers,
           NEW s \in Stages, NEW d \in Decision, NEW f \in Entry,
           Moves(h, s, d, f), f.request = fate[number[h]].request,
           \A r \in Routes : PolicyOf[r].mode = "learn" =>
               contracts'[r] = contracts[r] /\ HeldOn(r)' = HeldOn(r)
    PROVE  Learned'
<1> SUFFICES ASSUME NEW r \in Routes, PolicyOf[r].mode = "learn"
             PROVE  Taught(contracts'[r], Seen(HeldOn(r))', Cardinality(HeldOn(r)'))
  BY DEF Learned, Taught, Seen
<1>1. contracts'[r] = contracts[r] /\ HeldOn(r)' = HeldOn(r)
  OBVIOUS
<1>2. \A n \in DOMAIN fate : fate'[n].request = fate[n].request
  BY MovedRequest
<1>3. HeldOn(r) \in SUBSET (DOMAIN fate)
  BY DEF HeldOn, OnRoute
<1>4. Seen(HeldOn(r))' = Seen(HeldOn(r))
  BY <1>1, <1>2, <1>3 DEF Seen
<1>5. Taught(contracts[r], Seen(HeldOn(r)), Cardinality(HeldOn(r)))
  BY DEF Learned
<1> QED BY <1>1, <1>4, <1>5

LEMMA TalliedStep ==
    ASSUME PipelineInv, Tallied, NEW h \in Handlers,
           NEW s \in Stages, NEW d \in Decision, NEW f \in Entry,
           Moves(h, s, d, f), f.request = fate[number[h]].request,
           at[h] # "count", counters' = counters,
           IsRefused(s, f) <=> IsRefused(at[h], fate[number[h]]),
           IsLimited(s, d, f) <=> IsLimited(at[h], decision[h], fate[number[h]]),
           \/ log' = log
           \/ s = "count" /\ \E line \in Line :
                 line.number = number[h] /\ log' = Append(log, line)
    PROVE  Tallied'
<1>1. \A r : /\ RefusedOn(r)' = RefusedOn(r)
             /\ LimitedOn(r)' = LimitedOn(r)
  BY MovedAccounts
<1>2. ASSUME NEW r \in Routes
      PROVE  /\ Blocks(r)' = Cardinality(RefusedOn(r)')
             /\ Copies(r, counters'.hits) = Cardinality(LimitedOn(r)')
  <2>1. Blocks(r)' = Blocks(r)
    BY DEF Blocks
  <2> QED BY <1>1, <2>1 DEF Tallied
<1>3. ASSUME NEW label \in Labels
      PROVE  Cardinality(CountedLines(label)') <= Copies(label, counters'.requests)
  <2>1. /\ Cardinality(CountedLines(label)') <= Cardinality(CountedLines(label))
        /\ Cardinality(CountedLines(label)') \in Nat
    BY SteadyLines
  <2>2. Cardinality(CountedLines(label)) \in Nat
    BY LinesFinite
  <2>3. Cardinality(CountedLines(label)) <= Copies(label, counters.requests)
    BY DEF Tallied
  <2>4. Copies(label, counters.requests) \in Nat
    BY OneMoreCopy DEF PipelineInv, Typed
  <2> QED BY <2>1, <2>2, <2>3, <2>4
<1> QED BY <1>2, <1>3 DEF Tallied

\* A step that answers nobody, counts nothing and teaches no contract.
LEMMA SteadyStep ==
    ASSUME PipelineInv, Accounts, NEW h \in Handlers,
           NEW s \in Stages, NEW d \in Decision, NEW f \in Entry,
           Moves(h, s, d, f), f.request = fate[number[h]].request,
           at[h] # "count", s = "idle" => f.reply # None,
           \/ IsHeld(s, f) <=> IsHeld(at[h], fate[number[h]])
           \/ PolicyFor(h).mode # "learn",
           IsRefused(s, f) <=> IsRefused(at[h], fate[number[h]]),
           IsLimited(s, d, f) <=> IsLimited(at[h], decision[h], fate[number[h]]),
           \A r \in Routes : PolicyOf[r].mode = "learn" => contracts'[r] = contracts[r],
           counters' = counters,
           \/ log' = log
           \/ s = "count" /\ \E line \in Line :
                 line.number = number[h] /\ log' = Append(log, line)
    PROVE  Accounts'
<1>1. Open'
  BY OpenStep DEF Accounts
<1>2. Learned'
  <2>1. ASSUME NEW r \in Routes, PolicyOf[r].mode = "learn"
        PROVE  HeldOn(r)' = HeldOn(r)
    <3>1. \/ IsHeld(s, f) <=> IsHeld(at[h], fate[number[h]])
          \/ number[h] \notin OnRoute(r)
      BY <2>1 DEF OnRoute, PolicyFor, RouteOf, Received
    <3> QED BY <3>1, MovedAccounts
  <2> QED BY <2>1, LearnedStep DEF Accounts
<1>3. Tallied'
  BY TalliedStep DEF Accounts
<1> QED BY <1>1, <1>2, <1>3 DEF Accounts

\* What its condition says of a request.
LEMMA Conditions ==
    ASSUME NEW stage, NEW d, NEW f
    PROVE  /\ Checking(stage, d, f) =>
                 ~IsHeld(stage, f) /\ ~IsRefused(stage, f) /\ ~IsLimited(stage, d, f)
           /\ Passed(stage, d, f) \/ Relaying(stage, d, f) =>
                 IsHeld(stage, f) /\ ~IsRefused(stage, f) /\ ~IsLimited(stage, d, f)
           /\ Refused(stage, d, f) =>
                 /\ ~IsHeld(stage, f)
                 /\ IsRefused(stage, f) <=> stage = "reply"
                 /\ IsLimited(stage, d, f) <=> (stage = "reply" /\ d.limited)
<1>1. None # <<"gateway", 429>>
  BY ReplyAssumption DEF Reply, Statuses
<1>2. ASSUME Relaying(stage, d, f)
      PROVE  IsHeld(stage, f) /\ ~IsRefused(stage, f) /\ ~IsLimited(stage, d, f)
  <2>1. f.reply = <<"proxy", d.status>> /\ d.status \in Statuses /\ stage # "reply"
    BY <1>2 DEF Relaying
  <2>2. f.reply # None
    BY <2>1, ReplyAssumption DEF Reply
  <2> QED BY <2>1, <2>2 DEF IsHeld, IsRefused, IsLimited, Answers
<1> QED BY <1>1, <1>2
        DEF Checking, Passed, Refused, IsHeld, IsRefused, IsLimited, Answers

LEMMA ReadBodyAccounts ==
    ASSUME PipelineInv, Accounts, NEW h \in Handlers, ReadBody(h)
    PROVE  Accounts'
<1> DEFINE f == fate[number[h]]
           d == decision[h]
           s == IF PolicyFor(h).limited THEN "stamp" ELSE "checks"
<1>1. at[h] = "body" /\ Busy(h) /\ s \in {"stamp", "checks"} /\ s \in Stages
  BY DEF ReadBody, Busy, Stages
<1>2. f \in Entry /\ d \in Decision /\ Checking("body", d, f)
  BY <1>1, HandlerFacts DEF Consistent, Checking, Passed, Relaying, Refused
<1>3. Moves(h, s, d, f)
  BY <1>1, HandlerFacts DEF Moves, ReadBody
<1>4. /\ ~IsHeld(s, f) /\ ~IsRefused(s, f) /\ ~IsLimited(s, d, f)
      /\ ~IsHeld("body", f) /\ ~IsRefused("body", f) /\ ~IsLimited("body", d, f)
  BY <1>1, <1>2, Conditions DEF IsHeld, IsRefused, IsLimited
<1>5. f.request = fate[number[h]].request
      /\ UNCHANGED <<contracts, counters, log>>
  BY DEF ReadBody
<1> HIDE DEF s
<1> QED BY <1>1, <1>2, <1>3, <1>4, <1>5, SteadyStep

\* A block of a request that is being checked.
LEMMA BlockAccounts ==
    ASSUME PipelineInv, Accounts, NEW h \in Handlers,
           at[h] \in {"body", "limiter", "checks"},
           NEW status, NEW reason, Block(h, status, reason),
           \/ status \in {413, 431} /\ reason = "rule"
           \/ status = 429 /\ reason = "ratelimit"
           \/ status = 403 /\ reason \in {"rule", "contract"},
           UNCHANGED <<number, log, fate, counters>>,
           \A r \in Routes : PolicyOf[r].mode = "learn" => contracts'[r] = contracts[r]
    PROVE  Accounts'
<1> DEFINE f == fate[number[h]]
           d == Blocking(status, reason)
<1>1. Busy(h) /\ "log" \in Stages /\ at[h] # "count"
  BY DEF Busy, Stages
<1>2. f \in Entry /\ Checking(at[h], decision[h], f)
  BY <1>1, HandlerFacts DEF Consistent, Checking, Passed, Relaying, Refused
<1>3. Moves(h, "log", d, f)
  BY <1>1, HandlerFacts DEF Moves, Block, Blocking
<1>4. ~f.forwarded /\ f.reply = None
  BY <1>2 DEF Checking
<1>5. d \in Decision /\ Refused("log", d, f)
  BY <1>4, BlockFacts
<1>6. /\ ~IsHeld("log", f) /\ ~IsRefused("log", f) /\ ~IsLimited("log", d, f)
      /\ ~IsHeld(at[h], f) /\ ~IsRefused(at[h], f)
      /\ ~IsLimited(at[h], decision[h], f)
  BY <1>2, <1>5, Conditions
<1>7. f.request = fate[number[h]].request
  OBVIOUS
<1> HIDE DEF d
<1> QED BY <1>1, <1>2, <1>3, <1>5, <1>6, <1>7, SteadyStep

\* A step from one place to the next that leaves the request as it is.
LEMMA PassOnAccounts ==
    ASSUME PipelineInv, Accounts, NEW h \in Handlers, NEW s \in Stages,
           at' = [at EXCEPT ![h] = s],
           UNCHANGED <<number, decision, contracts, counters, fate>>,
           \/ at[h] \in {"stamp", "limiter"} /\ s \in {"limiter", "checks"}
           \/ at[h] = "relay" /\ s \in {"log", "idle"}
           \/ at[h] = "log" /\ s = "count",
           \/ log' = log
           \/ s = "count" /\ \E line \in Line :
                 line.number = number[h] /\ log' = Append(log, line)
    PROVE  Accounts'
<1> DEFINE f == fate[number[h]]
           d == decision[h]
<1>1. Busy(h) /\ at[h] # "count" /\ at[h] # "reply" /\ s # "reply"
  BY DEF Busy
<1>2. f \in Entry /\ d \in Decision /\ Moves(h, s, d, f) /\ Consistent(at[h], d, f)
  BY <1>1, HandlerFacts DEF Moves
<1>3. s = "idle" => f.reply # None
  <2>1. at[h] = "relay" => Relaying("relay", d, f)
    BY <1>2 DEF Consistent, Checking, Passed, Relaying, Refused
  <2>2. Relaying("relay", d, f) => f.reply \in Reply
    BY DEF Relaying, Reply
  <2> QED BY <2>1, <2>2, ReplyAssumption
<1>4. /\ IsHeld(s, f) <=> IsHeld(at[h], f)
      /\ IsRefused(s, f) <=> IsRefused(at[h], f)
      /\ IsLimited(s, d, f) <=> IsLimited(at[h], d, f)
  BY <1>1 DEF IsHeld, IsRefused, IsLimited
<1>5. /\ f.request = fate[number[h]].request
      /\ contracts' = contracts /\ counters' = counters
  OBVIOUS
<1> QED BY <1>1, <1>2, <1>3, <1>4, <1>5, SteadyStep

LEMMA ForwardAccounts ==
    ASSUME PipelineInv, Accounts, NEW h \in Handlers, Forward(h)
    PROVE  Accounts'
<1> DEFINE e == fate[number[h]]
           f == [e EXCEPT !.forwarded = TRUE]
           d == decision[h]
<1>1. at[h] = "proxy" /\ Busy(h) /\ "upstream" \in Stages
      /\ UNCHANGED <<number, decision, contracts, log, counters>>
  BY DEF Forward, Step, Busy, Stages
<1>2. e \in Entry /\ d \in Decision /\ Passed("proxy", d, e)
  BY <1>1, HandlerFacts DEF Consistent, Checking, Passed, Relaying, Refused
<1>3. Moves(h, "upstream", d, f)
  BY <1>1, HandlerFacts DEF Moves, Forward, Step
<1>4. f \in Entry /\ f.request = e.request /\ f.reply = e.reply
  BY <1>2 DEF Entry
<1>5. /\ IsHeld("upstream", f) <=> IsHeld("proxy", e)
      /\ IsRefused("upstream", f) <=> IsRefused("proxy", e)
      /\ IsLimited("upstream", d, f) <=> IsLimited("proxy", d, e)
  BY <1>4 DEF IsHeld, IsRefused, IsLimited, Answers
<1> HIDE DEF f
<1> QED BY <1>1, <1>2, <1>3, <1>4, <1>5, SteadyStep

\* The proxy answers, for the upstream or in its place.
LEMMA RecordAccounts ==
    ASSUME PipelineInv, Accounts, NEW h \in Handlers,
           at[h] \in {"proxy", "upstream"},
           NEW s \in {"relay", "log"}, Step(h, at[h], s),
           NEW status \in Statuses, Record(h, status),
           UNCHANGED <<number, contracts, log, counters>>
    PROVE  Accounts'
<1> DEFINE e == fate[number[h]]
           f == [e EXCEPT !.reply = <<"proxy", status>>]
           d == [decision[h] EXCEPT !.status = status]
<1>1. Busy(h) /\ s \in Stages /\ at[h] # "count" /\ s # "idle"
  BY DEF Busy, Stages
<1>2. e \in Entry /\ decision[h] \in Decision /\ Passed(at[h], decision[h], e)
  BY <1>1, HandlerFacts DEF Consistent, Checking, Passed, Relaying, Refused
<1>3. Moves(h, s, d, f)
  BY <1>1 DEF Moves, Record, Answer, Step
<1>4. f \in Entry /\ f.request = e.request /\ f.reply = <<"proxy", status>>
  <2>1. <<"proxy", status>> \in Reply
    BY DEF Reply
  <2> QED BY <1>2, <2>1 DEF Entry
<1>5. /\ d \in Decision /\ d.status = status /\ d.action = decision[h].action
      /\ d.limited = decision[h].limited /\ d.reason = decision[h].reason
  BY <1>2 DEF Decision
<1>6. Relaying(s, d, f)
  BY <1>2, <1>4, <1>5 DEF Passed, Relaying, Plainly
<1>7. /\ IsHeld(s, f) <=> IsHeld(at[h], e)
      /\ IsRefused(s, f) <=> IsRefused(at[h], e)
      /\ IsLimited(s, d, f) <=> IsLimited(at[h], decision[h], e)
  BY <1>2, <1>6, Conditions
<1> HIDE DEF f, d
<1> QED BY <1>1, <1>2, <1>3, <1>4, <1>5, <1>7, SteadyStep

LEMMA RefuseAccounts ==
    ASSUME PipelineInv, Accounts, NEW h \in Handlers, Refuse(h)
    PROVE  Accounts'
<1> DEFINE e == fate[number[h]]
           d == decision[h]
           f == [e EXCEPT !.reply = <<"gateway", d.status>>]
<1>1. at[h] = "reply" /\ Busy(h) /\ "idle" \in Stages
      /\ UNCHANGED <<number, decision, contracts, log, counters>>
  BY DEF Refuse, Step, Busy, Stages
<1>2. e \in Entry /\ d \in Decision /\ Refused("reply", d, e)
  BY <1>1, HandlerFacts DEF Consistent, Checking, Passed, Relaying, Refused
<1>3. Moves(h, "idle", d, f)
  BY <1>1, HandlerFacts DEF Moves, Refuse, Step, Answer
<1>4. <<"gateway", d.status>> \in Reply
  BY <1>2 DEF Refused, Reply, Statuses
<1>5. f \in Entry /\ f.request = e.request /\ f.reply = <<"gateway", d.status>>
  BY <1>2, <1>4 DEF Entry
<1>6. f.reply # None
  BY <1>4, <1>5, ReplyAssumption
<1>7. d.status = 429 <=> d.limited
  BY <1>2 DEF Refused
<1> HIDE DEF f
<1>8. /\ ~IsHeld("idle", f) /\ IsRefused("idle", f)
      /\ IsLimited("idle", d, f) <=> d.limited
  BY <1>5, <1>6, <1>7 DEF IsHeld, IsRefused, IsLimited, Answers
<1>9. /\ ~IsHeld("reply", e) /\ IsRefused("reply", e)
      /\ IsLimited("reply", d, e) <=> d.limited
  BY <1>2, Conditions
<1> QED BY <1>1, <1>2, <1>3, <1>5, <1>6, <1>8, <1>9, SteadyStep

-----------------------------------------------------------------------------
(***************************************************************************)
(* What a contract has learned, after one more request.                    *)
(***************************************************************************)
LEMMA TaughtMore ==
    ASSUME NEW c \in ContractType, NEW q \in Request, NEW Q \in SUBSET Request,
           NEW m \in Nat, Taught(c, Q, m)
    PROVE  Taught(Observed(c, q), Q \cup {q}, m + 1)
<1> DEFINE o == Observed(c, q)
           b == Greater(q.body, c.observedMax)
<1>1. /\ o.samples = m + 1 /\ o.observedMax = b
      /\ o.methods = {p.method : p \in Q} \cup {q.method}
      /\ o.ctypes = ({p.ctype : p \in Q} \ {NoType}) \cup ({q.ctype} \ {NoType})
      /\ o.params = (UNION {p.params : p \in Q}) \cup q.params
      /\ o.headers = (UNION {p.headers : p \in Q}) \cup q.headers
  BY DEF Observed, Taught
<1>2. q.body \in Nat /\ c.observedMax \in Nat /\ \A p \in Q : p.body \in Nat
  BY DEF Request, ContractType
<1>3. /\ b \in {q.body, c.observedMax} /\ q.body <= b /\ c.observedMax <= b
      /\ b \in Nat
  BY <1>2 DEF Greater
<1> HIDE DEF o, b
<1>4. \A p \in Q \cup {q} : p.body <= b
  BY <1>2, <1>3 DEF Taught
<1>5. b \in {p.body : p \in Q \cup {q}} \cup {0}
  BY <1>3 DEF Taught
<1>6. /\ {p.method : p \in Q \cup {q}} = {p.method : p \in Q} \cup {q.method}
      /\ {p.ctype : p \in Q \cup {q}} = {p.ctype : p \in Q} \cup {q.ctype}
      /\ UNION {p.params : p \in Q \cup {q}}
            = (UNION {p.params : p \in Q}) \cup q.params
      /\ UNION {p.headers : p \in Q \cup {q}}
            = (UNION {p.headers : p \in Q}) \cup q.headers
  OBVIOUS
<1>7. o.ctypes = {p.ctype : p \in Q \cup {q}} \ {NoType}
  BY <1>1, <1>6
<1>8. Taught(o, Q \cup {q}, m + 1)
  BY <1>1, <1>4, <1>5, <1>6, <1>7 DEF Taught
<1> QED BY <1>8 DEF o

LEMMA SeenMore ==
    ASSUME NEW N, NEW n
    PROVE  Seen(N \cup {n}) = Seen(N) \cup {fate[n].request.seen}
BY DEF Seen

\* A learning policy blocks for nothing that Checks looks at.
LEMMA LearningPasses ==
    ASSUME NEW h \in Handlers, PolicyFor(h).mode = "learn"
    PROVE  Violations(h) = {} /\ DecideAction(h) # "block"
BY DEF Violations, DecideAction

LEMMA ChecksAccounts ==
    ASSUME PipelineInv, Accounts, NEW h \in Handlers, Checks(h)
    PROVE  Accounts'
<1> DEFINE f == fate[number[h]]
           here == RouteOf(h)
<1>1. /\ at[h] = "checks" /\ Busy(h) /\ "proxy" \in Stages
      /\ UNCHANGED <<number, log, counters, fate>>
  BY DEF Checks, Busy, Stages
<1>2. /\ f \in Entry /\ decision[h] \in Decision /\ Checking("checks", decision[h], f)
      /\ Received(h) \in Incoming /\ here \in Routes
      /\ contracts \in [Routes -> ContractType] /\ number[h] \in DOMAIN fate
  BY <1>1, HandlerFacts DEF Consistent, Checking, Passed, Relaying, Refused
<1>3. contracts' = [contracts EXCEPT ![here] =
            IF PolicyFor(h).mode = "learn"
            THEN Observed(contracts[here], Received(h).seen)
            ELSE contracts[here]]
  BY DEF Checks
<1>4. PolicyFor(h).mode # "learn" =>
        \A r \in Routes : PolicyOf[r].mode = "learn" => contracts'[r] = contracts[r]
  BY <1>2, <1>3
<1>5. CASE Violations(h) # {}
  <2>1. Block(h, 403, "contract") /\ PolicyFor(h).mode # "learn"
    BY <1>5, LearningPasses DEF Checks, BlockStatus
  <2> QED BY <1>1, <1>4, <2>1, BlockAccounts
<1>6. CASE Violations(h) = {} /\ DecideAction(h) = "block"
  <2>1. Block(h, 403, "rule") /\ PolicyFor(h).mode # "learn"
    BY <1>6, LearningPasses DEF Checks, BlockStatus
  <2> QED BY <1>1, <1>4, <2>1, BlockAccounts
<1>7. CASE Violations(h) = {} /\ DecideAction(h) # "block"
  <2> DEFINE d == [decision[h] EXCEPT !.action = DecideAction(h)]
  <2>1. /\ at' = [at EXCEPT ![h] = "proxy"]
        /\ decision' = [decision EXCEPT ![h] = d]
    BY <1>7 DEF Checks
  <2>2. Moves(h, "proxy", d, f)
    BY <1>1, <2>1, HandlerFacts DEF Moves
  <2>3. d \in Decision
    <3>1. DecideAction(h) \in Actions
      BY <1>1, <1>7, ChecksPass DEF Actions
    <3> QED BY <1>2, <3>1 DEF Decision
  <2> HIDE DEF d
  <2>4. /\ ~IsRefused("proxy", f) /\ ~IsLimited("proxy", d, f) /\ IsHeld("proxy", f)
        /\ ~IsHeld("checks", f) /\ ~IsRefused("checks", f)
        /\ ~IsLimited("checks", decision[h], f)
    <3>1. ~IsHeld("checks", f) /\ ~IsRefused("checks", f)
          /\ ~IsLimited("checks", decision[h], f)
      BY <1>2, Conditions
    <3> QED BY <3>1 DEF IsHeld, IsRefused, IsLimited
  <2>5. f.request = fate[number[h]].request
    OBVIOUS
  <2>6. CASE PolicyFor(h).mode # "learn"
    BY <1>1, <1>2, <1>4, <2>2, <2>3, <2>4, <2>5, <2>6, SteadyStep
  <2>7. CASE PolicyFor(h).mode = "learn"
    <3>1. Open' /\ Tallied'
      BY <1>1, <1>2, <2>2, <2>3, <2>4, <2>5, OpenStep, TalliedStep DEF Accounts
    <3>2. ASSUME NEW r \in Routes, PolicyOf[r].mode = "learn"
          PROVE  Taught(contracts'[r], Seen(HeldOn(r))', Cardinality(HeldOn(r)'))
      <4>1. Taught(contracts[r], Seen(HeldOn(r)), Cardinality(HeldOn(r)))
        BY <3>2 DEF Accounts, Learned
      <4>2. HeldOn(r) \in SUBSET (DOMAIN fate) /\ IsFiniteSet(HeldOn(r))
            /\ Cardinality(HeldOn(r)) \in Nat
        BY RouteFinite DEF HeldOn, OnRoute
      <4>3. Seen(HeldOn(r))' = Seen(HeldOn(r)')
        BY <1>1 DEF Seen
      <4>4. CASE r # here
        <5>1. number[h] \notin OnRoute(r)
          BY <4>4 DEF OnRoute, RouteOf, Received
        <5>2. HeldOn(r)' = HeldOn(r)
          BY <1>2, <2>2, <2>3, <2>5, <5>1, MovedAccounts, <1>1 DEF Stages
        <5>3. contracts'[r] = contracts[r]
          BY <1>2, <1>3, <4>4
        <5> QED BY <4>1, <4>3, <5>2, <5>3
      <4>5. CASE r = here
        <5>1. number[h] \in OnRoute(r)
          BY <1>2, <4>5 DEF OnRoute, RouteOf, Received
        <5>2. /\ HeldOn(r)' = HeldOn(r) \cup {number[h]}
              /\ number[h] \notin HeldOn(r)
          BY <1>1, <1>2, <2>2, <2>3, <2>4, <2>5, <5>1, MovedAccounts
        <5>3. Cardinality(HeldOn(r)') = Cardinality(HeldOn(r)) + 1
          BY <4>2, <5>2, FS_AddElement
        <5>4. Seen(HeldOn(r)') = Seen(HeldOn(r)) \cup {Received(h).seen}
          BY <5>2, SeenMore DEF Received
        <5>5. contracts'[r] = Observed(contracts[r], Received(h).seen)
          BY <1>2, <1>3, <2>7, <4>5
        <5>6. Seen(HeldOn(r)) \in SUBSET Request
          <6>1. fate \in Seq(Entry)
            BY DEF PipelineInv, Typed, Entry
          <6>2. \A n \in DOMAIN fate : fate[n] \in Entry
            BY <6>1
          <6>3. \A n \in DOMAIN fate : fate[n].request \in Incoming
            BY <6>2, GatewayAssumption DEF Entry
          <6> QED BY <4>2, <6>3 DEF Seen, Incoming
        <5>7. contracts[r] \in ContractType /\ Received(h).seen \in Request
          BY <1>2 DEF Incoming
        <5>8. Taught(Observed(contracts[r], Received(h).seen),
                     Seen(HeldOn(r)) \cup {Received(h).seen},
                     Cardinality(HeldOn(r)) + 1)
          BY <4>1, <4>2, <5>6, <5>7, TaughtMore
        <5> QED BY <4>3, <5>3, <5>4, <5>5, <5>8
      <4> QED BY <4>4, <4>5
    <3>3. Learned'
      BY <3>2 DEF Learned, Taught, Seen
    <3> QED BY <3>1, <3>3 DEF Accounts
  <2> QED BY <2>6, <2>7
<1> QED BY <1>5, <1>6, <1>7

-----------------------------------------------------------------------------
(***************************************************************************)
(* The metrics: a block is one more of its reason, a limited request one   *)
(* more hit, and a line's labels are counted once more.                    *)
(***************************************************************************)
\* What Count knows of the decision it counts.
LEMMA CountedDecision ==
    ASSUME PipelineInv, NEW h \in Handlers, at[h] = "count"
    PROVE  LET f == fate[number[h]]
               d == decision[h]
           IN  \/ /\ Relaying("count", d, f) /\ d.action # "block"
                  /\ BlockReasons(d) = {} /\ ~d.limited
               \/ /\ Refused("count", d, f) /\ d.action = "block"
                  /\ BlockReasons(d) = {d.reason}
                  /\ d.reason \in {"rule", "contract", "ratelimit"}
<1> DEFINE f == fate[number[h]]
           d == decision[h]
<1>1. Relaying("count", d, f) \/ Refused("count", d, f)
  BY HandlerFacts DEF Busy, Consistent, Checking, Passed
<1> HIDE DEF f, d
<1>2. Relaying("count", d, f) =>
        d.action # "block" /\ BlockReasons(d) = {} /\ ~d.limited
  BY DEF Relaying, Plainly, BlockReasons
<1>3. Refused("count", d, f) =>
        /\ d.action = "block" /\ BlockReasons(d) = {d.reason}
        /\ d.reason \in {"rule", "contract", "ratelimit"}
  BY DEF Refused, BlockReasons
<1> QED BY <1>1, <1>2, <1>3 DEF f, d

\* The counters after Count, label by label.
LEMMA CountedCopies ==
    ASSUME PipelineInv, NEW h \in Handlers, Count(h)
    PROVE  LET d == decision[h]
               here == RouteOf(h)
           IN  /\ \A label : Copies(label, counters'.requests) =
                     Copies(label, counters.requests)
                       + (IF label = <<here, d.action, d.status>> THEN 1 ELSE 0)
               /\ \A r, b : Copies(<<r, b>>, counters'.blocks) =
                     Copies(<<r, b>>, counters.blocks)
                       + (IF r = here /\ b \in BlockReasons(d) THEN 1 ELSE 0)
               /\ \A r : Copies(r, counters'.hits) =
                     Copies(r, counters.hits)
                       + (IF r = here /\ d.limited THEN 1 ELSE 0)
               /\ \A x : /\ Copies(x, counters.requests) \in Nat
                         /\ Copies(x, counters.blocks) \in Nat
                         /\ Copies(x, counters.hits) \in Nat
<1> DEFINE C == counters
           d == decision[h]
           here == RouteOf(h)
           A == {<<here, d.action, d.status>>}
           B == {<<here, b>> : b \in BlockReasons(d)}
           D == {r \in {here} : d.limited}
<1>1. counters' = [requests |-> C.requests (+) SetToBag(A),
                   blocks |-> C.blocks (+) SetToBag(B),
                   hits |-> C.hits (+) SetToBag(D)]
  BY DEF Count
<1>2. IsABag(C.requests) /\ IsABag(C.blocks) /\ IsABag(C.hits)
  BY DEF PipelineInv, Typed
<1>3. /\ \A label : label \in A <=> label = <<here, d.action, d.status>>
      /\ \A r, b : <<r, b>> \in B <=> (r = here /\ b \in BlockReasons(d))
      /\ \A r : r \in D <=> (r = here /\ d.limited)
  OBVIOUS
<1> HIDE DEF A, B, C, D
<1>4. /\ counters'.requests = C.requests (+) SetToBag(A)
      /\ counters'.blocks = C.blocks (+) SetToBag(B)
      /\ counters'.hits = C.hits (+) SetToBag(D)
  BY <1>1
<1>5. \A x : /\ Copies(x, C.requests) \in Nat
             /\ Copies(x, C.requests (+) SetToBag(A))
                  = Copies(x, C.requests) + (IF x \in A THEN 1 ELSE 0)
  BY <1>2, OneMoreCopy
<1>6. \A x : /\ Copies(x, C.blocks) \in Nat
             /\ Copies(x, C.blocks (+) SetToBag(B))
                  = Copies(x, C.blocks) + (IF x \in B THEN 1 ELSE 0)
  BY <1>2, OneMoreCopy
<1>7. \A x : /\ Copies(x, C.hits) \in Nat
             /\ Copies(x, C.hits (+) SetToBag(D))
                  = Copies(x, C.hits) + (IF x \in D THEN 1 ELSE 0)
  BY <1>2, OneMoreCopy
<1> HIDE DEF d, here
<1>8. \A label : Copies(label, counters'.requests) =
          Copies(label, C.requests)
            + (IF label = <<here, d.action, d.status>> THEN 1 ELSE 0)
  BY <1>3, <1>4, <1>5
<1>9. \A r, b : Copies(<<r, b>>, counters'.blocks) =
          Copies(<<r, b>>, C.blocks)
            + (IF r = here /\ b \in BlockReasons(d) THEN 1 ELSE 0)
  BY <1>3, <1>4, <1>6
<1>10. \A r : Copies(r, counters'.hits) =
          Copies(r, C.hits) + (IF r = here /\ d.limited THEN 1 ELSE 0)
  BY <1>3, <1>4, <1>7
<1> QED BY <1>5, <1>6, <1>7, <1>8, <1>9, <1>10 DEF C, d, here

\* Count adds one line to those that have been counted, if its request has one.
LEMMA CountedLine ==
    ASSUME PipelineInv, NEW h \in Handlers, NEW s \in {"reply", "idle"},
           at[h] = "count", at' = [at EXCEPT ![h] = s],
           UNCHANGED <<number, log, fate>>, NEW label
    PROVE  /\ Cardinality(CountedLines(label)') \in Nat
           /\ \/ Cardinality(CountedLines(label)') <= Cardinality(CountedLines(label))
              \/ /\ label = <<RouteOf(h), decision[h].action, decision[h].status>>
                 /\ Cardinality(CountedLines(label)')
                       <= Cardinality(CountedLines(label)) + 1
<1>1. /\ IsFiniteSet(CountedLines(label))
      /\ Cardinality(CountedLines(label)) \in Nat
  BY LinesFinite
<1>2. /\ \A g \in Handlers \ {h} : at'[g] = at[g]
      /\ at'[h] # "count"
  BY DEF PipelineInv, Typed
<1>3. \A i \in DOMAIN log : LabelOf(i)' = LabelOf(i)
  BY DEF LabelOf
<1>4. \A i \in CountedLines(label)' :
        i \in CountedLines(label) \/ (log[i].number = number[h] /\ i \in DOMAIN log)
  BY <1>2, <1>3 DEF CountedLines
<1>5. CASE \E i \in CountedLines(label)' : log[i].number = number[h]
  <2>1. PICK i \in CountedLines(label)' :
          log[i].number = number[h] /\ i \in DOMAIN log
    BY <1>5 DEF CountedLines
  <2>2. \A j \in DOMAIN log : log[j].number = number[h] => j = i
    BY <2>1 DEF PipelineInv, LogTells
  <2>3. CountedLines(label)' \subseteq CountedLines(label) \cup {i}
    BY <1>4, <2>2
  <2>4. label = <<RouteOf(h), decision[h].action, decision[h].status>>
    <3>1. label = LabelOf(i)
      BY <1>3, <2>1 DEF CountedLines
    <3>2. log[i].action = decision[h].action /\ log[i].status = decision[h].status
      BY <2>1 DEF PipelineInv, Lines, Busy
    <3> QED BY <2>1, <3>1, <3>2 DEF LabelOf, RouteOf, Received
  <2>5. /\ IsFiniteSet(CountedLines(label) \cup {i})
        /\ Cardinality(CountedLines(label) \cup {i})
              \in {Cardinality(CountedLines(label)),
                   Cardinality(CountedLines(label)) + 1}
    BY <1>1, FS_AddElement
  <2>6. /\ IsFiniteSet(CountedLines(label)')
        /\ Cardinality(CountedLines(label)')
              <= Cardinality(CountedLines(label) \cup {i})
    BY <2>3, <2>5, FS_Subset
  <2>7. Cardinality(CountedLines(label)') \in Nat
    BY <2>6, FS_CardinalityType
  <2> QED BY <1>1, <2>4, <2>5, <2>6, <2>7
<1>6. CASE \A i \in CountedLines(label)' : log[i].number # number[h]
  <2>1. CountedLines(label)' \subseteq CountedLines(label)
    BY <1>4, <1>6
  <2>2. /\ IsFiniteSet(CountedLines(label)')
        /\ Cardinality(CountedLines(label)') <= Cardinality(CountedLines(label))
    BY <1>1, <2>1, FS_Subset
  <2> QED BY <2>2, FS_CardinalityType
<1> QED BY <1>5, <1>6

LEMMA CountAccounts ==
    ASSUME PipelineInv, Accounts, NEW h \in Handlers, Count(h)
    PROVE  Accounts'
<1> DEFINE f == fate[number[h]]
           d == decision[h]
           here == RouteOf(h)
           s == IF d.action = "block" THEN "reply" ELSE "idle"
<1>1. /\ at[h] = "count" /\ Busy(h) /\ s \in {"reply", "idle"} /\ s \in Stages
      /\ at' = [at EXCEPT ![h] = s]
      /\ UNCHANGED <<number, decision, contracts, log, fate>>
  BY DEF Count, Busy, Stages
<1>2. /\ f \in Entry /\ d \in Decision /\ here \in Routes
      /\ number[h] \in DOMAIN fate /\ number[h] \in OnRoute(here)
      /\ Moves(h, s, d, f) /\ f.request = fate[number[h]].request
  BY <1>1, HandlerFacts DEF Moves, OnRoute, RouteOf, Received
<1>3. /\ \A label : Copies(label, counters'.requests) =
            Copies(label, counters.requests)
              + (IF label = <<here, d.action, d.status>> THEN 1 ELSE 0)
      /\ \A r, b : Copies(<<r, b>>, counters'.blocks) =
            Copies(<<r, b>>, counters.blocks)
              + (IF r = here /\ b \in BlockReasons(d) THEN 1 ELSE 0)
      /\ \A r : Copies(r, counters'.hits) =
            Copies(r, counters.hits) + (IF r = here /\ d.limited THEN 1 ELSE 0)
      /\ \A x : /\ Copies(x, counters.requests) \in Nat
                /\ Copies(x, counters.blocks) \in Nat
                /\ Copies(x, counters.hits) \in Nat
  BY CountedCopies
<1>4. \A label : 
        /\ Cardinality(CountedLines(label)') \in Nat
        /\ \/ Cardinality(CountedLines(label)') <= Cardinality(CountedLines(label))
           \/ /\ label = <<here, d.action, d.status>>
              /\ Cardinality(CountedLines(label)')
                    <= Cardinality(CountedLines(label)) + 1
  BY <1>1, CountedLine
<1>5. \/ /\ Relaying("count", d, f) /\ s = "idle"
         /\ BlockReasons(d) = {} /\ ~d.limited
      \/ /\ Refused("count", d, f) /\ s = "reply"
         /\ BlockReasons(d) = {d.reason}
         /\ d.reason \in {"rule", "contract", "ratelimit"}
  BY <1>1, CountedDecision
<1> HIDE DEF f, d, here, s
<1>6. /\ IsHeld(s, f) <=> IsHeld("count", f)
      /\ ~IsRefused("count", f) /\ ~IsLimited("count", d, f)
      /\ s = "idle" => /\ ~IsRefused(s, f) /\ ~IsLimited(s, d, f)
                       /\ f.reply # None
      /\ s = "reply" => /\ IsRefused(s, f)
                        /\ IsLimited(s, d, f) <=> d.limited
  <2>1. CASE Relaying("count", d, f) /\ s = "idle"
    <3>1. IsHeld("count", f) /\ ~IsRefused("count", f) /\ ~IsLimited("count", d, f)
      BY <2>1, Conditions
    <3> QED BY <2>1, <3>1 DEF IsHeld, IsRefused, IsLimited, Answers
  <2>2. CASE Refused("count", d, f) /\ s = "reply"
    <3>1. ~IsHeld("count", f) /\ ~IsRefused("count", f) /\ ~IsLimited("count", d, f)
      BY <2>2, Conditions
    <3>2. Refused("reply", d, f)
      BY <2>2 DEF Refused
    <3>3. /\ ~IsHeld("reply", f) /\ IsRefused("reply", f)
          /\ IsLimited("reply", d, f) <=> d.limited
      BY <3>2, Conditions
    <3> QED BY <2>2, <3>1, <3>3
  <2> QED BY <1>5, <2>1, <2>2
<1>7. /\ f = fate[number[h]] /\ d = decision[h] /\ at[h] = "count"
  BY <1>1 DEF f, d
<1>8. Open'
  BY <1>1, <1>2, <1>6, OpenStep DEF Accounts
<1>9. Learned'
  <2>1. \A r : HeldOn(r)' = HeldOn(r)
    BY <1>1, <1>2, <1>6, <1>7, MovedAccounts
  <2> QED BY <1>1, <1>2, <2>1, LearnedStep DEF Accounts
<1>10. ASSUME NEW r \in Routes
       PROVE  /\ Blocks(r)' = Cardinality(RefusedOn(r)')
              /\ Copies(r, counters'.hits) = Cardinality(LimitedOn(r)')
  <2>1. /\ Blocks(r) = Cardinality(RefusedOn(r))
        /\ Copies(r, counters.hits) = Cardinality(LimitedOn(r))
    BY DEF Accounts, Tallied
  <2>2. /\ IsFiniteSet(RefusedOn(r)) /\ Cardinality(RefusedOn(r)) \in Nat
        /\ IsFiniteSet(LimitedOn(r)) /\ Cardinality(LimitedOn(r)) \in Nat
    BY RouteFinite
  <2>3. Blocks(r)' = Blocks(r) + (IF r = here /\ s = "reply" THEN 1 ELSE 0)
    <3>1. Blocks(r)' = Copies(<<r, "rule">>, counters'.blocks)
                          + Copies(<<r, "contract">>, counters'.blocks)
                          + Copies(<<r, "ratelimit">>, counters'.blocks)
      BY DEF Blocks
    <3>2. /\ Copies(<<r, "rule">>, counters.blocks) \in Nat
          /\ Copies(<<r, "contract">>, counters.blocks) \in Nat
          /\ Copies(<<r, "ratelimit">>, counters.blocks) \in Nat
      BY <1>3
    <3>3. CASE r = here /\ s = "reply"
      <4>1. \/ /\ "rule" \in BlockReasons(d) /\ "contract" \notin BlockReasons(d)
               /\ "ratelimit" \notin BlockReasons(d)
            \/ /\ "rule" \notin BlockReasons(d) /\ "contract" \in BlockReasons(d)
               /\ "ratelimit" \notin BlockReasons(d)
            \/ /\ "rule" \notin BlockReasons(d) /\ "contract" \notin BlockReasons(d)
               /\ "ratelimit" \in BlockReasons(d)
        BY <1>5, <3>3
      <4>2. \A b : Copies(<<r, b>>, counters'.blocks) =
                Copies(<<r, b>>, counters.blocks)
                  + (IF b \in BlockReasons(d) THEN 1 ELSE 0)
        BY <1>3, <3>3
      <4> QED BY <3>1, <3>2, <3>3, <4>1, <4>2 DEF Blocks
    <3>4. CASE ~(r = here /\ s = "reply")
      <4>1. \A b : ~(r = here /\ b \in BlockReasons(d))
        BY <1>5, <3>4
      <4>2. /\ Copies(<<r, "rule">>, counters'.blocks) =
                  Copies(<<r, "rule">>, counters.blocks)
            /\ Copies(<<r, "contract">>, counters'.blocks) =
                  Copies(<<r, "contract">>, counters.blocks)
            /\ Copies(<<r, "ratelimit">>, counters'.blocks) =
                  Copies(<<r, "ratelimit">>, counters.blocks)
        BY <1>3, <3>2, <4>1
      <4>3. Blocks(r) \in Nat
        BY <3>2 DEF Blocks
      <4>4. Blocks(r)' = Blocks(r)
        BY <3>1, <4>2 DEF Blocks
      <4> QED BY <3>4, <4>3, <4>4
    <3> QED BY <3>3, <3>4
  <2>4. /\ r = here /\ s = "reply" =>
              RefusedOn(r)' = RefusedOn(r) \cup {number[h]} /\ number[h] \notin RefusedOn(r)
        /\ ~(r = here /\ s = "reply") => RefusedOn(r)' = RefusedOn(r)
        /\ r = here /\ d.limited =>
              LimitedOn(r)' = LimitedOn(r) \cup {number[h]} /\ number[h] \notin LimitedOn(r)
        /\ ~(r = here /\ d.limited) => LimitedOn(r)' = LimitedOn(r)
    <3>1. r # here => number[h] \notin OnRoute(r)
      BY DEF OnRoute, RouteOf, Received, here
    <3>2. s # "reply" => ~d.limited
      BY <1>5
    <3>3. s \in {"reply", "idle"}
      BY <1>1
    <3>4. s # "reply" => s = "idle"
      BY <3>3
    <3>5. /\ (IsRefused(s, f) <=> IsRefused(at[h], f)) \/ number[h] \notin OnRoute(r)
                => RefusedOn(r)' = RefusedOn(r)
          /\ number[h] \notin RefusedOn(r)
          /\ IsRefused(s, f) /\ number[h] \in OnRoute(r)
                => RefusedOn(r)' = RefusedOn(r) \cup {number[h]}
          /\ (IsLimited(s, d, f) <=> IsLimited(at[h], d, f)) \/ number[h] \notin OnRoute(r)
                => LimitedOn(r)' = LimitedOn(r)
          /\ number[h] \notin LimitedOn(r)
          /\ IsLimited(s, d, f) /\ number[h] \in OnRoute(r)
                => LimitedOn(r)' = LimitedOn(r) \cup {number[h]}
      BY <1>1, <1>2, <1>6, <1>7, MovedAccounts
    <3> QED BY <1>2, <1>6, <1>7, <3>1, <3>2, <3>4, <3>5
  <2>5. Copies(r, counters'.hits) =
            Copies(r, counters.hits) + (IF r = here /\ d.limited THEN 1 ELSE 0)
    BY <1>3
  <2>6. Blocks(r)' = Cardinality(RefusedOn(r)')
    BY <2>1, <2>2, <2>3, <2>4, FS_AddElement
  <2>7. Copies(r, counters'.hits) = Cardinality(LimitedOn(r)')
    BY <2>1, <2>2, <2>4, <2>5, FS_AddElement
  <2> QED BY <2>6, <2>7
<1>11. ASSUME NEW label \in Labels
       PROVE  Cardinality(CountedLines(label)') <= Copies(label, counters'.requests)
  <2>1. Cardinality(CountedLines(label)) <= Copies(label, counters.requests)
    BY DEF Accounts, Tallied
  <2>2. Cardinality(CountedLines(label)) \in Nat
    BY LinesFinite
  <2> QED BY <1>3, <1>4, <2>1, <2>2
<1> QED BY <1>8, <1>9, <1>10, <1>11 DEF Accounts, Tallied

-----------------------------------------------------------------------------
(***************************************************************************)
(* A request that arrives is on no account yet.                            *)
(***************************************************************************)
LEMMA ArrivalAccounts ==
    ASSUME PipelineInv, Accounts, NEW e \in Entry, fate' = Append(fate, e),
           UNCHANGED <<contracts, log, counters>>,
           e.request.route \in Routes => e.reply = None,
           NEW N \in SUBSET Handlers, e.reply = None => N # {},
           \A g \in N : /\ ~Busy(g) /\ number'[g] = Len(fate')
                        /\ at'[g] \in {"body", "log"},
           \A g \in Handlers \ N : /\ at'[g] = at[g] /\ decision'[g] = decision[g]
                                   /\ number'[g] = number[g]
    PROVE  Accounts'
<1>0. PICK last : last = Len(fate) + 1
  OBVIOUS
<1>1. Typed /\ Serving /\ fate \in Seq(Entry)
  BY DEF PipelineInv, Typed, Entry
<1>2. /\ DOMAIN fate = 1..Len(fate) /\ Len(fate) \in Nat
      /\ Len(fate') = last /\ DOMAIN fate' = 1..last /\ fate'[last] = e
      /\ last \notin DOMAIN fate
      /\ \A n \in DOMAIN fate : fate'[n] = fate[n] /\ n \in DOMAIN fate'
      /\ \A n \in DOMAIN fate' : n \in DOMAIN fate \/ n = last
  BY <1>0, <1>1
<1>3. \A g \in Handlers : Busy(g) => g \notin N /\ number[g] \in DOMAIN fate
  BY <1>1 DEF Serving
<1>4. \A g \in Handlers \ N : Busy(g) => number'[g] # last
  BY <1>2, <1>3
<1>5. \A n \in DOMAIN fate : /\ Held(n)' <=> Held(n)
                             /\ ByGateway(n)' <=> ByGateway(n)
                             /\ ByLimiter(n)' <=> ByLimiter(n)
  <2> SUFFICES ASSUME NEW n \in DOMAIN fate
               PROVE  /\ Held(n)' <=> Held(n)
                      /\ ByGateway(n)' <=> ByGateway(n)
                      /\ ByLimiter(n)' <=> ByLimiter(n)
    OBVIOUS
  <2>1. \A g \in N : number'[g] # n /\ at[g] = "idle"
    BY <1>2 DEF Busy
  <2>2. fate'[n] = fate[n]
    BY <1>2
  <2> QED BY <2>1, <2>2 DEF Held, ByGateway, ByLimiter, Proxied
<1>6. e.reply = None => ~Held(last)' /\ ~ByGateway(last)' /\ ~ByLimiter(last)'
  <2>1. None # <<"gateway", 429>>
    BY ReplyAssumption DEF Reply, Statuses
  <2>2. \A g \in Handlers : number'[g] = last => at'[g] \in {"body", "log", "idle"}
    BY <1>4 DEF Busy
  <2> QED BY <1>2, <2>1, <2>2 DEF Held, ByGateway, ByLimiter, Proxied
<1>7. ASSUME NEW r \in Routes
      PROVE  /\ HeldOn(r)' = HeldOn(r) /\ RefusedOn(r)' = RefusedOn(r)
             /\ LimitedOn(r)' = LimitedOn(r)
  <2>1. \A n : n \in OnRoute(r) => n \in OnRoute(r)' /\ n \in DOMAIN fate
    BY <1>2 DEF OnRoute
  <2>2. \A n : n \in OnRoute(r)' =>
            n \in OnRoute(r) \/ (n = last /\ e.request.route = r)
    BY <1>2 DEF OnRoute
  <2>3. HeldOn(r)' = HeldOn(r)
    BY <1>5, <1>6, <2>1, <2>2 DEF HeldOn
  <2>4. RefusedOn(r)' = RefusedOn(r)
    BY <1>5, <1>6, <2>1, <2>2 DEF RefusedOn
  <2>5. LimitedOn(r)' = LimitedOn(r)
    BY <1>5, <1>6, <2>1, <2>2 DEF LimitedOn
  <2> QED BY <2>3, <2>4, <2>5
<1>8. Open'
  <2> SUFFICES ASSUME NEW n \in DOMAIN fate', fate'[n].reply = None
               PROVE  \E g \in Handlers : at'[g] # "idle" /\ number'[g] = n
    BY DEF Open, Busy
  <2>1. CASE n = last
    BY <1>2, <2>1
  <2>2. CASE n \in DOMAIN fate
    <3>1. PICK g \in Handlers : Busy(g) /\ number[g] = n
      BY <1>2, <2>2 DEF Accounts, Open
    <3> QED BY <1>3, <3>1 DEF Busy
  <2> QED BY <1>2, <2>1, <2>2
<1>9. Learned'
  <2> SUFFICES ASSUME NEW r \in Routes, PolicyOf[r].mode = "learn"
               PROVE  Taught(contracts[r], Seen(HeldOn(r))', Cardinality(HeldOn(r)'))
    BY DEF Learned, Taught, Seen
  <2>1. HeldOn(r) \in SUBSET (DOMAIN fate)
    BY DEF HeldOn, OnRoute
  <2>2. Seen(HeldOn(r))' = Seen(HeldOn(r))
    BY <1>2, <1>7, <2>1 DEF Seen
  <2> QED BY <1>7, <2>2 DEF Accounts, Learned
<1>10. Tallied'
  <2>1. \A i \in DOMAIN log : log[i].number \in DOMAIN fate
    BY <1>1, LineFacts
  <2>2. \A i \in DOMAIN log : LabelOf(i)' = LabelOf(i)
    BY <1>2, <2>1 DEF LabelOf
  <2>3. \A g \in N : at[g] # "count" /\ at'[g] # "count"
    BY DEF Busy
  <2>4. \A label : CountedLines(label)' = CountedLines(label)
    BY <2>2, <2>3 DEF CountedLines
  <2>5. \A r : Blocks(r)' = Blocks(r)
    BY DEF Blocks
  <2> QED BY <1>7, <2>4, <2>5 DEF Accounts, Tallied
<1> QED BY <1>8, <1>9, <1>10 DEF Accounts

LEMMA NotFoundAccounts ==
    ASSUME PipelineInv, Accounts, NEW q \in Traffic, NotFound(q)
    PROVE  Accounts'
<1> DEFINE e == [request |-> q, forwarded |-> FALSE, reply |-> <<"gateway", 404>>]
<1>1. /\ e \in Entry /\ e.request.route \notin Routes /\ e.reply # None
      /\ fate' = Append(fate, e)
      /\ UNCHANGED <<at, number, decision, contracts, log, counters>>
  <2>1. <<"gateway", 404>> \in Reply
    BY DEF Reply
  <2> QED BY <2>1, GatewayAssumption, ReplyAssumption DEF Entry, NotFound, Sent
<1> HIDE DEF e
<1>2. /\ {} \in SUBSET Handlers
      /\ \A g \in Handlers \ {} : /\ at'[g] = at[g] /\ decision'[g] = decision[g]
                                  /\ number'[g] = number[g]
  BY <1>1
<1> QED BY <1>1, <1>2, ArrivalAccounts

LEMMA BeginAccounts ==
    ASSUME PipelineInv, Accounts, NEW h \in Handlers, NEW q \in Traffic, Begin(h, q)
    PROVE  Accounts'
<1> DEFINE e == [request |-> q, forwarded |-> FALSE, reply |-> None]
<1>1. e \in Entry /\ e.reply = None
  BY DEF Entry
<1>2. /\ fate' = Append(fate, e) /\ ~Busy(h)
      /\ number' = [number EXCEPT ![h] = Len(fate')]
      /\ UNCHANGED <<contracts, log, counters>>
  BY DEF Begin, Sent, Busy
<1>3. \E s \in {"body", "log"} : \E d : /\ at' = [at EXCEPT ![h] = s]
                                        /\ decision' = [decision EXCEPT ![h] = d]
  <2>1. CASE ExceedsHeaderLimit(q)
    BY <2>1 DEF Begin, Block
  <2>2. CASE ~ExceedsHeaderLimit(q) /\ DeclaredTooLarge(q)
    BY <2>2 DEF Begin, Block
  <2>3. CASE ~ExceedsHeaderLimit(q) /\ ~DeclaredTooLarge(q)
    BY <2>3 DEF Begin
  <2> QED BY <2>1, <2>2, <2>3
<1> HIDE DEF e
<1>4. /\ at'[h] \in {"body", "log"} /\ number'[h] = Len(fate')
      /\ \A g \in Handlers \ {h} : /\ at'[g] = at[g] /\ decision'[g] = decision[g]
                                   /\ number'[g] = number[g]
  BY <1>2, <1>3 DEF PipelineInv, Typed
<1>5. {h} \in SUBSET Handlers /\ {h} # {}
  OBVIOUS
<1> QED BY <1>1, <1>2, <1>4, <1>5, ArrivalAccounts

LEMMA IdleAccounts ==
    ASSUME Accounts, UNCHANGED <<at, number, decision, contracts, log, counters, fate>>
    PROVE  Accounts'
<1>1. Open'
  BY DEF Accounts, Open, Busy
<1>2. \A r : /\ HeldOn(r)' = HeldOn(r) /\ RefusedOn(r)' = RefusedOn(r)
             /\ LimitedOn(r)' = LimitedOn(r) /\ Blocks(r)' = Blocks(r)
             /\ Seen(HeldOn(r))' = Seen(HeldOn(r))
  BY DEF HeldOn, RefusedOn, LimitedOn, OnRoute, Held, Proxied, ByGateway, ByLimiter,
         Blocks, Seen
<1>3. \A label : CountedLines(label)' = CountedLines(label)
  BY DEF CountedLines, LabelOf
<1>4. Learned'
  <2> SUFFICES ASSUME NEW r \in Routes, PolicyOf[r].mode = "learn"
               PROVE  Taught(contracts[r], Seen(HeldOn(r))', Cardinality(HeldOn(r)'))
    BY DEF Learned, Taught, Seen
  <2> QED BY <1>2 DEF Accounts, Learned
<1>5. Tallied'
  BY <1>2, <1>3 DEF Accounts, Tallied
<1> QED BY <1>1, <1>4, <1>5 DEF Accounts

LEMMA ServeAccounts ==
    ASSUME PipelineInv, Accounts, NEW h \in Handlers, Serve(h)
    PROVE  Accounts'
<1>0. /\ "limiter" \in Stages /\ "checks" \in Stages /\ "log" \in Stages
      /\ "idle" \in Stages /\ "count" \in Stages
  BY DEF Stages
<1>1. CASE ReadBody(h)
  BY <1>1, ReadBodyAccounts
<1>2. CASE BodyFails(h)
  BY <1>2, BlockAccounts DEF BodyFails
<1>3. CASE StampLimit(h)
  BY <1>0, <1>3, PassOnAccounts DEF StampLimit, Step
<1>4. CASE AskLimiter(h)
  <2>1. UNCHANGED <<number, contracts, log, counters, fate>>
    BY <1>4 DEF AskLimiter
  <2>2. CASE Step(h, "limiter", "checks") /\ UNCHANGED decision
    BY <1>0, <2>1, <2>2, PassOnAccounts DEF Step
  <2>3. CASE at[h] = "limiter" /\ Block(h, 429, "ratelimit")
    BY <2>1, <2>3, BlockAccounts
  <2> QED BY <1>4, <2>2, <2>3 DEF AskLimiter, Allow
<1>5. CASE Checks(h)
  BY <1>5, ChecksAccounts
<1>6. CASE Forward(h)
  BY <1>6, ForwardAccounts
<1>7. CASE Relayed(h)
  BY <1>0, <1>7, PassOnAccounts DEF Relayed, Step
<1>8. CASE Abort(h)
  BY <1>0, <1>8, PassOnAccounts DEF Abort, Step
<1>9. ASSUME NEW status \in {502, 504}, ProxyFails(h, status)
      PROVE  Accounts'
  <2>1. /\ at[h] \in {"proxy", "upstream"} /\ Step(h, at[h], "log")
        /\ Record(h, status) /\ status \in Statuses
        /\ UNCHANGED <<number, contracts, log, counters>>
    BY <1>9 DEF ProxyFails, Step, Statuses
  <2> QED BY <2>1, RecordAccounts
<1>10. ASSUME NEW status \in UpstreamStatus, Relay(h, status)
       PROVE  Accounts'
  <2>1. /\ at[h] \in {"proxy", "upstream"} /\ Step(h, at[h], "relay")
        /\ Record(h, status) /\ status \in Statuses
        /\ UNCHANGED <<number, contracts, log, counters>>
    BY <1>10 DEF Relay, Step, Statuses
  <2> QED BY <2>1, RecordAccounts
<1>11. CASE WriteLog(h)
  <2> DEFINE d == decision[h]
             line == [number |-> number[h], action |-> d.action,
                      status |-> d.status, limited |-> d.limited]
  <2>1. /\ at[h] = "log" /\ at' = [at EXCEPT ![h] = "count"]
        /\ UNCHANGED <<number, decision, contracts, counters, fate>>
        /\ log' = Append(log, line) \/ log' = log
    BY <1>11 DEF WriteLog, Step
  <2>2. line \in Line /\ line.number = number[h]
    <3>1. /\ number[h] \in DOMAIN fate /\ d \in Decision
          /\ Relaying("log", d, fate[number[h]]) \/ Refused("log", d, fate[number[h]])
      BY <2>1, HandlerFacts DEF Busy, Consistent, Checking, Passed
    <3>2. d.status \in Statuses
      <4> HIDE DEF d
      <4> QED BY <3>1 DEF Relaying, Refused, Statuses
    <3>3. d.action \in Actions /\ d.limited \in BOOLEAN
      <4> HIDE DEF d
      <4> QED BY <3>1 DEF Decision
    <3> QED BY <3>1, <3>2, <3>3 DEF Line
  <2> HIDE DEF line, d
  <2> QED BY <1>0, <2>1, <2>2, PassOnAccounts
<1>12. CASE Count(h)
  BY <1>12, CountAccounts
<1>13. CASE Refuse(h)
  BY <1>13, RefuseAccounts
<1> QED BY <1>1, <1>2, <1>3, <1>4, <1>5, <1>6, <1>7, <1>8, <1>9, <1>10, <1>11,
           <1>12, <1>13 DEF Serve

LEMMA AccountNext == AccountInv /\ [Next]_vars => AccountInv'
<1> SUFFICES ASSUME PipelineInv, Accounts, [Next]_vars PROVE Accounts'
  BY PipelineNext DEF AccountInv
<1>1. CASE Tick
  BY <1>1, IdleAccounts DEF Tick
<1>2. ASSUME NEW q \in Traffic, NotFound(q) PROVE Accounts'
  BY <1>2, NotFoundAccounts
<1>3. ASSUME NEW q \in Traffic, NEW h \in Handlers, Begin(h, q) PROVE Accounts'
  BY <1>3, BeginAccounts
<1>4. ASSUME NEW h \in Handlers, Serve(h) PROVE Accounts'
  BY <1>4, ServeAccounts
<1>5. ASSUME NEW h \in Handlers, BodyIn(h) PROVE Accounts'
  BY <1>5, IdleAccounts DEF BodyIn
<1>6. CASE UNCHANGED vars
  BY <1>6, IdleAccounts DEF vars
<1> QED BY <1>1, <1>2, <1>3, <1>4, <1>5, <1>6 DEF Next

LEMMA AccountInit == Init => AccountInv
<1> SUFFICES ASSUME Init PROVE Accounts
  BY PipelineInit DEF AccountInv
<1>1. /\ fate = <<>> /\ log = <<>>
      /\ contracts = [r \in Routes |->
            IF PolicyOf[r].mode = "enforce" THEN Loaded[r] ELSE NewContract]
      /\ counters = [requests |-> EmptyBag, blocks |-> EmptyBag, hits |-> EmptyBag]
  BY DEF Init
<1>2. Cardinality({}) = 0
  BY FS_EmptySet
<1>3. \A r : /\ HeldOn(r) = {} /\ RefusedOn(r) = {} /\ LimitedOn(r) = {}
             /\ Seen(HeldOn(r)) = {}
  BY <1>1 DEF HeldOn, RefusedOn, LimitedOn, OnRoute, Seen
<1>4. \A label : CountedLines(label) = {}
  BY <1>1 DEF CountedLines
<1>5. \A x : Copies(x, EmptyBag) = 0
  BY DEF Copies, EmptyBag, SetToBag
<1>6. Open
  BY <1>1 DEF Open
<1>7. Learned
  <2>1. Taught(NewContract, {}, 0)
    BY DEF Taught, NewContract
  <2>2. \A r \in Routes : PolicyOf[r].mode = "learn" => contracts[r] = NewContract
    BY <1>1
  <2> QED BY <1>2, <1>3, <2>1, <2>2 DEF Learned
<1>8. Tallied
  <2>1. /\ counters.requests = EmptyBag /\ counters.blocks = EmptyBag
        /\ counters.hits = EmptyBag
    BY <1>1
  <2> QED BY <1>2, <1>3, <1>4, <1>5, <2>1 DEF Tallied, Blocks
<1> QED BY <1>6, <1>7, <1>8 DEF Accounts

LEMMA AccountInvariant == Spec => []AccountInv
BY AccountInit, AccountNext, PTL DEF Spec

-----------------------------------------------------------------------------
\* With no request under way, every request has its reply.
LEMMA QuietRequests ==
    ASSUME AccountInv, Quiet, NEW r \in Routes
    PROVE  /\ HeldOn(r) = OnRoute(r) \ Blocked(r)
           /\ RefusedOn(r) = Blocked(r)
           /\ LimitedOn(r) = {n \in OnRoute(r) : fate[n].reply = <<"gateway", 429>>}
           /\ \A label : CountedLines(label) = {i \in DOMAIN log : LabelOf(i) = label}
<1>1. /\ \A h \in Handlers : at[h] = "idle"
      /\ OnRoute(r) \subseteq DOMAIN fate
  BY DEF Quiet, OnRoute
<1>2. \A n \in DOMAIN fate : fate[n].reply # None /\ fate[n].reply \in Reply
  <2>1. \A n \in DOMAIN fate : fate[n].reply # None
    BY <1>1 DEF AccountInv, Accounts, Open, Busy
  <2>2. fate \in Seq(Entry)
    BY DEF AccountInv, PipelineInv, Typed, Entry
  <2>3. \A n \in DOMAIN fate : fate[n] \in Entry
    BY <2>2
  <2> QED BY <2>1, <2>3 DEF Entry
<1>3. \A n \in DOMAIN fate : fate[n].reply[1] \in {"gateway", "proxy"}
  BY <1>2 DEF Reply
<1>4. HeldOn(r) = OnRoute(r) \ Blocked(r)
  BY <1>1 DEF HeldOn, Held, Blocked
<1>5. RefusedOn(r) = Blocked(r)
  BY <1>1, <1>2, <1>3 DEF RefusedOn, ByGateway, Blocked, Proxied
<1>6. LimitedOn(r) = {n \in OnRoute(r) : fate[n].reply = <<"gateway", 429>>}
  BY <1>1 DEF LimitedOn, ByLimiter
<1>7. \A label : CountedLines(label) = {i \in DOMAIN log : LabelOf(i) = label}
  BY <1>1 DEF CountedLines
<1> QED BY <1>4, <1>5, <1>6, <1>7

(***************************************************************************)
(* A learning route learns from exactly the requests it passed on to the   *)
(* proxy (gateway.go:173-294), however its handlers interleave with those  *)
(* of other routes and whatever the upstream does.                         *)
(***************************************************************************)
THEOREM LearnedIsProxied == Spec => []LearnedProxied
<1>1. AccountInv => LearnedProxied
  <2> SUFFICES ASSUME AccountInv, Quiet, NEW r \in Routes, PolicyOf[r].mode = "learn"
               PROVE  Taught(contracts[r], Seen(OnRoute(r) \ Blocked(r)),
                             Cardinality(OnRoute(r) \ Blocked(r)))
    BY DEF LearnedProxied, Taught, Seen
  <2>1. Taught(contracts[r], Seen(HeldOn(r)), Cardinality(HeldOn(r)))
    BY DEF AccountInv, Accounts, Learned
  <2> QED BY <2>1, QuietRequests
<1> QED BY <1>1, AccountInvariant, PTL

(***************************************************************************)
(* The counters add up (gateway.go:314-323, metrics.go:76-110): a block of *)
(* one reason for each refused request, a hit for each one the limiter     *)
(* refused, and every line of the log counted under its labels.            *)
(***************************************************************************)
THEOREM CountersHold == Spec => []CountersAddUp
<1>1. AccountInv => CountersAddUp
  <2> SUFFICES ASSUME AccountInv, Quiet PROVE CountersAddUp
    BY DEF CountersAddUp
  <2>1. ASSUME NEW r \in Routes
        PROVE  /\ Blocks(r) = Cardinality(Blocked(r))
               /\ Copies(r, counters.hits)
                     = Cardinality({n \in OnRoute(r) :
                                      fate[n].reply = <<"gateway", 429>>})
    <3>1. /\ Blocks(r) = Cardinality(RefusedOn(r))
          /\ Copies(r, counters.hits) = Cardinality(LimitedOn(r))
      BY DEF AccountInv, Accounts, Tallied
    <3> QED BY <3>1, QuietRequests
  <2>2. ASSUME NEW label \in Labels
        PROVE  Cardinality({i \in DOMAIN log :
                  <<fate[log[i].number].request.route, log[i].action,
                    log[i].status>> = label}) <= Copies(label, counters.requests)
    <3>1. Cardinality(CountedLines(label)) <= Copies(label, counters.requests)
      BY <2>2 DEF AccountInv, Accounts, Tallied
    <3>2. CountedLines(label) = {i \in DOMAIN log : LabelOf(i) = label}
      BY DEF Quiet, CountedLines
    <3>3. {i \in DOMAIN log : LabelOf(i) = label}
            = {i \in DOMAIN log :
                  <<fate[log[i].number].request.route, log[i].action,
                    log[i].status>> = label}
      BY DEF LabelOf
    <3> QED BY <3>1, <3>2, <3>3
  <2> QED BY <2>1, <2>2 DEF CountersAddUp, Labels
<1> QED BY <1>1, AccountInvariant, PTL
=============================================================================
