--------------------------- MODULE GatewayProofs ---------------------------
(***************************************************************************)
(* Proofs about Gateway, for every set of handlers, routes, policies and   *)
(* requests: what ServeHTTP keeps for each request under way, and from it  *)
(* the safety properties of the pipeline.                                  *)
(***************************************************************************)
EXTENDS Gateway, FiniteSetTheorems, SequenceTheorems, TLAPS

LP == INSTANCE LimiterProofs WITH Callers <- Handlers

-----------------------------------------------------------------------------
(***************************************************************************)
(* A request under way is in one of four conditions, told from the place   *)
(* its handler is at, its decision d and its entry f of fate: it is being  *)
(* checked, it has passed and waits for the upstream, it has its answer    *)
(* from the proxy, or it is refused and the client does not know yet.      *)
(***************************************************************************)
Entry == [request : Traffic, forwarded : BOOLEAN, reply : Reply \cup {None}]

Passes(q) ==
    LET p == PolicyOf[q.route]
    IN  /\ q.header <= p.maxHeader /\ q.seen.body <= p.maxBody
        /\ p.mode = "enforce" =>
              /\ Evaluate(Loaded[q.route], q.seen, p.level) = {}
              /\ q.score < p.threshold

Checking(stage, d, f) ==
    /\ stage \in {"body", "stamp", "limiter", "checks"}
    /\ d = NoDecision /\ ~f.forwarded /\ f.reply = None
    /\ ~ExceedsHeaderLimit(f.request)
    /\ stage = "body" => ~DeclaredTooLarge(f.request)
    /\ stage # "body" => f.request.seen.body <= PolicyOf[f.request.route].maxBody
    /\ stage \in {"stamp", "limiter"} => PolicyOf[f.request.route].limited

Plainly(d) == d.action # "block" /\ ~d.limited /\ d.reason = ""

Passed(stage, d, f) ==
    /\ Plainly(d) /\ d.status = 0 /\ f.reply = None /\ Passes(f.request)
    /\ \/ stage = "proxy" /\ ~f.forwarded
       \/ stage = "upstream" /\ f.forwarded

Relaying(stage, d, f) ==
    /\ stage \in {"relay", "log", "count"}
    /\ Plainly(d) /\ d.status \in Statuses /\ f.reply = <<"proxy", d.status>>

Refused(stage, d, f) ==
    /\ stage \in {"log", "count", "reply"}
    /\ d.action = "block" /\ d.reason \in {"rule", "contract", "ratelimit"}
    /\ d.status \in {403, 413, 429, 431}
    /\ d.limited <=> d.reason = "ratelimit"
    /\ d.limited <=> d.status = 429
    /\ ~f.forwarded /\ f.reply = None

Consistent(stage, d, f) ==
    /\ f.request.route \in Routes
    /\ \/ Checking(stage, d, f) \/ Passed(stage, d, f)
       \/ Relaying(stage, d, f) \/ Refused(stage, d, f)

Busy(h) == at[h] # "idle"

\* Every request under way is in its condition, and is one handler's.
Serving ==
    \A h \in Handlers : Busy(h) =>
        /\ number[h] \in DOMAIN fate
        /\ Consistent(at[h], decision[h], fate[number[h]])

Alone ==
    \A g, h \in Handlers :
        Busy(g) /\ Busy(h) /\ number[g] = number[h] => g = h

\* An enforcing route's contract is never written.
Enforced ==
    \A r \in Routes : PolicyOf[r].mode = "enforce" => contracts[r] = Loaded[r]

\* A call that waits for the limiter is the only one of its caller, and that of
\* the request it serves.
Asked ==
    \A call \in waiting :
        /\ at[call.caller] = "limiter"
        /\ call.key = RatelimitKey(call.caller)
        /\ \A other \in waiting : other.caller = call.caller => other = call

\* A line is written once its request has been decided on, and says how.
Lines ==
    \A i \in DOMAIN log : \A h \in Handlers :
        Busy(h) /\ number[h] = log[i].number =>
            /\ at[h] \in {"count", "reply"}
            /\ log[i].action = decision[h].action
            /\ log[i].status = decision[h].status

\* The requests of key k that the limiter has let through to the checks.
LetThrough(n) ==
    \/ fate[n].forwarded
    \/ \E h \in Handlers : at[h] \in {"checks", "proxy"} /\ number[h] = n

GrantedTo(k) ==
    {n \in DOMAIN fate :
        /\ LetThrough(n)
        /\ PolicyOf[fate[n].request.route].limited
        /\ KeyOf(fate[n].request) = k}

Granted == \A k \in Keys : Cardinality(GrantedTo(k)) <= Len(grants[k])

Stages == {"idle", "body", "stamp", "limiter", "checks", "proxy", "upstream",
           "relay", "log", "count", "reply"}

Line == [number : DOMAIN fate, action : Actions, status : Statuses,
         limited : BOOLEAN]

\* The types of all but what streams, which no other part depends on.
Typed ==
    /\ at \in [Handlers -> Stages]
    /\ number \in [Handlers -> 0..Len(fate)]
    /\ decision \in [Handlers -> Decision]
    /\ contracts \in [Routes -> ContractType]
    /\ log \in Seq(Line) /\ fate \in Seq(Entry)
    /\ \A kind \in {"requests", "blocks", "hits"} : IsABag(counters[kind])
    /\ L!TypeOK

PipelineInv ==
    /\ Typed /\ LP!SharedInv
    /\ Serving /\ Alone /\ Enforced /\ Asked
    /\ Mediated /\ LogTells /\ Lines /\ Granted
-----------------------------------------------------------------------------
(***************************************************************************)
(* The limiter inside the gateway is the one LimiterProofs is about.       *)
(***************************************************************************)
LEMMA LimiterBounds ==
    /\ Unit \in Nat \ {0}
    /\ NoKey \notin Keys
    /\ Limits \subseteq [rps : Int, burst : Int]
    /\ MaxRps \in Nat /\ MaxBurst \in Nat
    /\ \A l \in Limits : l.rps <= MaxRps /\ l.burst <= MaxBurst
    /\ MaxClock \in Nat
<1>1. Limits \subseteq [rps : Int, burst : Int]
  BY GatewayAssumption DEF Limits, Policy
<1> QED BY <1>1, LimiterAssumption

LEMMA SameLimiter ==
    /\ L!TypeOK <=> LP!TypeOK
    /\ L!Init => LP!Init
    /\ L!Tick => LP!Tick
    /\ \A h \in Handlers, k \in Keys \cup {NoKey}, l \in Limits :
          L!Stamp(h, k, l) => LP!Stamp(h, k, l)
    /\ \A call \in waiting : /\ L!Grant(call) => LP!Grant(call)
                             /\ L!Deny(call) => LP!Deny(call)
<1>1. L!TypeOK <=> LP!TypeOK
  BY DEF L!TypeOK, LP!TypeOK, L!Call, LP!Call, L!Bucket, LP!Bucket
<1>2. L!Init => LP!Init
  BY DEF L!Init, LP!Init
<1>3. L!Tick => LP!Tick
  BY DEF L!Tick, LP!Tick
<1>4. ASSUME NEW h, NEW k, NEW l
      PROVE  L!Stamp(h, k, l) => LP!Stamp(h, k, l)
  BY DEF L!Stamp, LP!Stamp
<1>5. ASSUME NEW call \in waiting
      PROVE  /\ L!Grant(call) => LP!Grant(call)
             /\ L!Deny(call) => LP!Deny(call)
  BY DEF L!Grant, LP!Grant, L!Deny, LP!Deny, L!Enter, LP!Enter,
         L!Store, LP!Store, L!Ready, LP!Ready, L!Found, LP!Found,
         L!Elapsed, LP!Elapsed, L!Refilled, LP!Refilled,
         L!Retuned, LP!Retuned, L!Exempt, LP!Exempt,
         L!NewBucket, LP!NewBucket, L!Least, LP!Least
<1> QED BY <1>1, <1>2, <1>3, <1>4, <1>5

LEMMA LimiterNext == LP!SharedInv /\ [LP!Next]_(LP!vars) => LP!SharedInv'
BY LP!SharedNext, LimiterBounds

-----------------------------------------------------------------------------
(***************************************************************************)
(* The shape of every step of a handler: to stage s, with decision d, the  *)
(* entry of its request becoming f.                                        *)
(***************************************************************************)
Moves(h, s, d, f) ==
    /\ Busy(h)
    /\ number' = number
    /\ at' = [at EXCEPT ![h] = s]
    /\ decision' = [decision EXCEPT ![h] = d]
    /\ fate' = [fate EXCEPT ![number[h]] = f]

LEMMA LineFacts ==
    ASSUME Typed
    PROVE  /\ log \in Seq(Line)
           /\ \A i \in DOMAIN log : /\ log[i] \in Line
                                    /\ log[i].number \in DOMAIN fate
<1>1. log \in Seq(Line)
  BY DEF Typed, Line
<1>2. \A i \in DOMAIN log : log[i] \in Line
  BY <1>1
<1> QED BY <1>1, <1>2 DEF Line

LEMMA Moved ==
    ASSUME Typed, Serving, NEW h \in Handlers,
           NEW s \in Stages, NEW d \in Decision, NEW f \in Entry,
           Moves(h, s, d, f)
    PROVE  /\ number[h] \in DOMAIN fate /\ DOMAIN fate' = DOMAIN fate
           /\ Len(fate') = Len(fate)
           /\ fate' \in Seq(Entry) /\ at' \in [Handlers -> Stages]
           /\ decision' \in [Handlers -> Decision]
           /\ number' \in [Handlers -> 0..Len(fate')]
           /\ at'[h] = s /\ decision'[h] = d /\ fate'[number[h]] = f
           /\ \A g \in Handlers \ {h} : at'[g] = at[g] /\ decision'[g] = decision[g]
           /\ \A n \in DOMAIN fate \ {number[h]} : fate'[n] = fate[n]
<1>1. /\ fate \in Seq(Entry) /\ at \in [Handlers -> Stages]
      /\ decision \in [Handlers -> Decision]
      /\ number \in [Handlers -> 0..Len(fate)]
  BY DEF Typed, Entry, Stages
<1>2. number[h] \in DOMAIN fate
  BY DEF Serving, Moves
<1>3. /\ fate' = [fate EXCEPT ![number[h]] = f]
      /\ fate' \in Seq(Entry) /\ DOMAIN fate' = DOMAIN fate
      /\ Len(fate') = Len(fate)
      /\ fate'[number[h]] = f
      /\ \A n \in DOMAIN fate \ {number[h]} : fate'[n] = fate[n]
  BY <1>1, <1>2 DEF Moves
<1>4. /\ at' \in [Handlers -> Stages] /\ decision' \in [Handlers -> Decision]
      /\ at'[h] = s /\ decision'[h] = d
      /\ \A g \in Handlers \ {h} : at'[g] = at[g] /\ decision'[g] = decision[g]
  BY <1>1 DEF Moves
<1>5. number' \in [Handlers -> 0..Len(fate')]
  BY <1>1, <1>3 DEF Moves
<1> QED BY <1>2, <1>3, <1>4, <1>5

\* A handler's own step leaves the other requests in their conditions.
LEMMA ServingStep ==
    ASSUME Typed, Serving, Alone, NEW h \in Handlers,
           NEW s \in Stages, NEW d \in Decision, NEW f \in Entry,
           Moves(h, s, d, f), s # "idle" => Consistent(s, d, f)
    PROVE  Serving' /\ Alone'
<1>1. /\ number' = number /\ Busy(h)
      /\ number[h] \in DOMAIN fate /\ DOMAIN fate' = DOMAIN fate
      /\ at'[h] = s /\ decision'[h] = d /\ fate'[number[h]] = f
      /\ \A g \in Handlers \ {h} : at'[g] = at[g] /\ decision'[g] = decision[g]
      /\ \A n \in DOMAIN fate \ {number[h]} : fate'[n] = fate[n]
  BY Moved DEF Moves
<1>2. \A g \in Handlers : Busy(g)' => g = h \/ Busy(g)
  BY <1>1 DEF Busy
<1>3. Alone'
  BY <1>1, <1>2 DEF Alone
<1>4. ASSUME NEW g \in Handlers, Busy(g)'
      PROVE  /\ number'[g] \in DOMAIN fate'
             /\ Consistent(at'[g], decision'[g], fate'[number'[g]])
  <2>1. CASE g = h
    BY <2>1, <1>1, <1>4 DEF Busy
  <2>2. CASE g # h
    <3>1. Busy(g) /\ number[g] # number[h]
      BY <2>2, <1>1, <1>2, <1>4 DEF Alone
    <3>2. /\ number[g] \in DOMAIN fate
          /\ Consistent(at[g], decision[g], fate[number[g]])
      BY <3>1 DEF Serving
    <3> QED BY <2>2, <3>1, <3>2, <1>1
  <2> QED BY <2>1, <2>2
<1>5. Serving'
  BY <1>4 DEF Serving
<1> QED BY <1>3, <1>5

LEMMA MediatedStep ==
    ASSUME Typed, Serving, Mediated, NEW h \in Handlers,
           NEW s \in Stages, NEW d \in Decision, NEW f \in Entry,
           Moves(h, s, d, f), f.forwarded => Passes(f.request)
    PROVE  Mediated'
<1>1. /\ number[h] \in DOMAIN fate /\ DOMAIN fate' = DOMAIN fate
      /\ fate'[number[h]] = f
      /\ \A n \in DOMAIN fate \ {number[h]} : fate'[n] = fate[n]
  BY Moved
<1>2. Mediated <=> \A n \in DOMAIN fate : fate[n].forwarded => Passes(fate[n].request)
  BY DEF Mediated, Passes
<1>3. Mediated' <=>
        \A n \in DOMAIN fate' : fate'[n].forwarded => Passes(fate'[n].request)
  BY DEF Mediated, Passes
<1> QED BY <1>1, <1>2, <1>3

\* The log stands while its requests are answered as it says.
LEMMA LogStep ==
    ASSUME Typed, Serving, LogTells, Lines, NEW h \in Handlers,
           NEW s \in Stages, NEW d \in Decision, NEW f \in Entry,
           Moves(h, s, d, f), log' = log,
           \A i \in DOMAIN log : log[i].number = number[h] =>
               /\ Tells(log[i], f)
               /\ s # "idle" => /\ s \in {"count", "reply"}
                                /\ log[i].action = d.action
                                /\ log[i].status = d.status
    PROVE  LogTells' /\ Lines'
<1>1. /\ number' = number /\ Busy(h)
      /\ number[h] \in DOMAIN fate /\ DOMAIN fate' = DOMAIN fate
      /\ at'[h] = s /\ decision'[h] = d /\ fate'[number[h]] = f
      /\ \A g \in Handlers \ {h} : at'[g] = at[g] /\ decision'[g] = decision[g]
      /\ \A n \in DOMAIN fate \ {number[h]} : fate'[n] = fate[n]
  BY Moved DEF Moves
<1>2. \A i \in DOMAIN log : log[i].number \in DOMAIN fate
  BY LineFacts
<1>3. LogTells'
  <2>1. ASSUME NEW i \in DOMAIN log
        PROVE  Tells(log[i], fate'[log[i].number])
    <3>1. CASE log[i].number = number[h]
      BY <1>1, <3>1
    <3>2. CASE log[i].number # number[h]
      BY <1>1, <1>2, <3>2 DEF LogTells
    <3> QED BY <3>1, <3>2
  <2> QED BY <2>1 DEF LogTells
<1>4. Lines'
  <2>1. ASSUME NEW i \in DOMAIN log, NEW g \in Handlers, Busy(g)',
               number[g] = log[i].number
        PROVE  /\ at'[g] \in {"count", "reply"}
               /\ log[i].action = decision'[g].action
               /\ log[i].status = decision'[g].status
    <3>1. CASE g = h
      BY <1>1, <2>1, <3>1 DEF Busy
    <3>2. CASE g # h
      BY <1>1, <2>1, <3>2 DEF Busy, Lines
    <3> QED BY <3>1, <3>2
  <2> QED BY <2>1, <1>1 DEF Lines
<1> QED BY <1>3, <1>4

LEMMA GrantedFinite ==
    ASSUME Typed, NEW k
    PROVE  /\ IsFiniteSet(GrantedTo(k)) /\ Cardinality(GrantedTo(k)) \in Nat
<1>1. DOMAIN fate = 1..Len(fate) /\ Len(fate) \in Nat
  BY DEF Typed
<1>2. IsFiniteSet(DOMAIN fate)
  BY <1>1, FS_Interval
<1>3. GrantedTo(k) \in SUBSET (DOMAIN fate)
  BY DEF GrantedTo
<1>4. IsFiniteSet(GrantedTo(k))
  BY <1>2, <1>3, FS_Subset
<1> QED BY <1>4, FS_CardinalityType

\* No request is let through but by the limiter.
LEMMA GrantedStep ==
    ASSUME Typed, Serving, Granted, NEW h \in Handlers,
           NEW s \in Stages, NEW d \in Decision, NEW f \in Entry,
           Moves(h, s, d, f), grants' = grants,
           f.request = fate[number[h]].request,
           f.forwarded \/ s \in {"checks", "proxy"} =>
               \/ LetThrough(number[h])
               \/ ~PolicyOf[f.request.route].limited
    PROVE  Granted'
<1>1. /\ number' = number
      /\ number[h] \in DOMAIN fate /\ DOMAIN fate' = DOMAIN fate
      /\ at'[h] = s /\ fate'[number[h]] = f
      /\ \A g \in Handlers \ {h} : at'[g] = at[g]
      /\ \A n \in DOMAIN fate \ {number[h]} : fate'[n] = fate[n]
  BY Moved DEF Moves
<1>2. ASSUME NEW k \in Keys
      PROVE  GrantedTo(k)' \subseteq GrantedTo(k)
  <2> SUFFICES ASSUME NEW n \in DOMAIN fate', LetThrough(n)',
                      PolicyOf[fate'[n].request.route].limited,
                      KeyOf(fate'[n].request) = k
               PROVE  n \in GrantedTo(k)
    BY DEF GrantedTo
  <2>1. fate'[n].request = fate[n].request /\ n \in DOMAIN fate
    BY <1>1
  <2>2. LetThrough(n)
    <3>1. fate'[n].forwarded
          \/ \E g \in Handlers : at'[g] \in {"checks", "proxy"} /\ number[g] = n
      BY <1>1 DEF LetThrough
    <3>2. CASE n = number[h]
      <4>1. CASE f.forwarded \/ s \in {"checks", "proxy"}
        BY <1>1, <2>1, <3>2, <4>1
      <4>2. CASE ~(f.forwarded \/ s \in {"checks", "proxy"})
        BY <1>1, <3>1, <3>2, <4>2 DEF LetThrough
      <4> QED BY <4>1, <4>2
    <3>3. CASE n # number[h]
      BY <1>1, <3>1, <3>3 DEF LetThrough
    <3> QED BY <3>2, <3>3
  <2> QED BY <2>1, <2>2 DEF GrantedTo
<1>3. ASSUME NEW k \in Keys
      PROVE  Cardinality(GrantedTo(k)') <= Cardinality(GrantedTo(k))
             /\ Cardinality(GrantedTo(k)') \in Nat
  <2>1. IsFiniteSet(GrantedTo(k))
    BY GrantedFinite
  <2>2. IsFiniteSet(GrantedTo(k)') /\ Cardinality(GrantedTo(k)') <= Cardinality(GrantedTo(k))
    BY <2>1, <1>2, FS_Subset
  <2> QED BY <2>2, FS_CardinalityType
<1>4. \A k \in Keys : Cardinality(GrantedTo(k)) \in Nat /\ Len(grants[k]) \in Nat
  <2>1. grants \in [Keys -> Seq(Nat)]
    BY DEF Typed, L!TypeOK
  <2> QED BY <2>1, GrantedFinite
<1> QED BY <1>3, <1>4 DEF Granted

-----------------------------------------------------------------------------
LEMMA LimiterIdle ==
    ASSUME PipelineInv, UNCHANGED limiterVars
    PROVE  LP!SharedInv' /\ L!TypeOK'
<1>1. LP!SharedInv'
  BY LimiterNext DEF PipelineInv, limiterVars, LP!vars
<1>2. L!TypeOK'
  BY DEF PipelineInv, Typed, limiterVars, L!TypeOK, L!Call, L!Bucket
<1> QED BY <1>1, <1>2

\* A call that waits belongs to a handler that does not move.
LEMMA AskedStep ==
    ASSUME Typed, Serving, Asked, NEW h \in Handlers,
           NEW s \in Stages, NEW d \in Decision, NEW f \in Entry,
           Moves(h, s, d, f), f.request = fate[number[h]].request,
           NEW W \in SUBSET waiting, \A call \in W : call.caller # h
    PROVE  \A call \in W : /\ at'[call.caller] = "limiter"
                           /\ call.key = RatelimitKey(call.caller)'
<1>1. /\ number' = number /\ number[h] \in DOMAIN fate
      /\ \A g \in Handlers \ {h} : at'[g] = at[g]
      /\ fate'[number[h]] = f
      /\ \A n \in DOMAIN fate \ {number[h]} : fate'[n] = fate[n]
  BY Moved DEF Moves
<1>2. ASSUME NEW call \in W
      PROVE  /\ at'[call.caller] = "limiter"
             /\ call.key = RatelimitKey(call.caller)'
  <2>1. PICK g \in Handlers : g = call.caller /\ g # h
    BY DEF Typed, L!TypeOK, L!Call
  <2>2. at[g] = "limiter" /\ call.key = RatelimitKey(g)
    BY <2>1 DEF Asked
  <2>3. number[g] \in DOMAIN fate
    BY <2>2 DEF Serving, Busy
  <2>4. fate'[number[g]].request = fate[number[g]].request
    BY <1>1, <2>3
  <2>5. RatelimitKey(g)' = RatelimitKey(g)
    BY <1>1, <2>4 DEF RatelimitKey, PolicyFor, RouteOf, Received
  <2> QED BY <1>1, <2>1, <2>2, <2>5
<1> QED BY <1>2

\* What every step of a handler keeps, whatever it does to the limiter and log.
LEMMA HandlerStep ==
    ASSUME PipelineInv, NEW h \in Handlers,
           NEW s \in Stages, NEW d \in Decision, NEW f \in Entry,
           Moves(h, s, d, f),
           s # "idle" => Consistent(s, d, f),
           f.forwarded => Passes(f.request),
           contracts' \in [Routes -> ContractType], Enforced',
           \A kind \in {"requests", "blocks", "hits"} : IsABag(counters'[kind]),
           LP!SharedInv', L!TypeOK', Asked', Granted',
           log' \in Seq(Line), LogTells', Lines'
    PROVE  PipelineInv'
<1>1. Typed /\ Serving /\ Alone /\ Mediated
  BY DEF PipelineInv
<1>2. Serving' /\ Alone'
  BY <1>1, ServingStep
<1>3. Mediated'
  BY <1>1, MediatedStep
<1>4. Typed'
  <2>1. /\ fate' \in Seq(Entry) /\ at' \in [Handlers -> Stages]
        /\ decision' \in [Handlers -> Decision] /\ DOMAIN fate' = DOMAIN fate
        /\ number' \in [Handlers -> 0..Len(fate')]
    BY <1>1, Moved
  <2>2. log' \in Seq(Line)'
    BY <2>1 DEF Line
  <2> QED BY <2>1, <2>2 DEF Typed, Entry, Stages, Line
<1> QED BY <1>2, <1>3, <1>4 DEF PipelineInv

\* A step of a handler away from the limiter, the contracts and the log.
LEMMA PlainStep ==
    ASSUME PipelineInv, NEW h \in Handlers,
           NEW s \in Stages, NEW d \in Decision, NEW f \in Entry,
           Moves(h, s, d, f), at[h] # "limiter",
           f.request = fate[number[h]].request,
           s # "idle" => Consistent(s, d, f),
           f.forwarded => Passes(f.request),
           f.forwarded \/ s \in {"checks", "proxy"} =>
               \/ LetThrough(number[h])
               \/ ~PolicyOf[f.request.route].limited,
           \/ at[h] \notin {"count", "reply"}
           \/ /\ s \in {"reply", "idle"} /\ d = decision[h]
              /\ \A i \in DOMAIN log :
                    log[i].number = number[h] => Tells(log[i], f),
           UNCHANGED <<log, limiterVars>>,
           contracts' \in [Routes -> ContractType], Enforced',
           \A kind \in {"requests", "blocks", "hits"} : IsABag(counters'[kind])
    PROVE  PipelineInv'
<1>1. /\ Typed /\ Serving /\ Asked /\ LogTells /\ Lines /\ Granted
  BY DEF PipelineInv
<1>2. LogTells' /\ Lines'
  <2>1. \A i \in DOMAIN log : log[i].number = number[h] =>
            /\ Tells(log[i], f)
            /\ s # "idle" => /\ s \in {"count", "reply"}
                             /\ log[i].action = d.action
                             /\ log[i].status = d.status
    BY <1>1 DEF Lines, Moves
  <2> QED BY <1>1, <2>1, LogStep
<1>3. Granted'
  BY <1>1, GrantedStep DEF limiterVars
<1>4. LP!SharedInv' /\ L!TypeOK'
  BY LimiterIdle
<1>5. Asked'
  <2>1. \A call \in waiting : call.caller # h
    BY <1>1 DEF Asked
  <2> QED BY <1>1, <2>1, AskedStep DEF Asked, limiterVars
<1>6. log' \in Seq(Line)
  BY <1>1, LineFacts
<1> QED BY <1>2, <1>3, <1>4, <1>5, <1>6, HandlerStep

-----------------------------------------------------------------------------
LEMMA HandlerFacts ==
    ASSUME PipelineInv, NEW h \in Handlers, Busy(h)
    PROVE  /\ number[h] \in DOMAIN fate /\ fate[number[h]] \in Entry
           /\ Received(h) \in Incoming /\ RouteOf(h) \in Routes
           /\ PolicyFor(h) \in Policy
           /\ decision[h] \in Decision /\ at[h] \in Stages
           /\ Consistent(at[h], decision[h], fate[number[h]])
           /\ decision = [decision EXCEPT ![h] = decision[h]]
           /\ fate = [fate EXCEPT ![number[h]] = fate[number[h]]]
           /\ contracts \in [Routes -> ContractType]
           /\ \A kind \in {"requests", "blocks", "hits"} : IsABag(counters[kind])
<1>1. /\ fate \in Seq(Entry) /\ at \in [Handlers -> Stages]
      /\ decision \in [Handlers -> Decision]
      /\ contracts \in [Routes -> ContractType]
      /\ \A kind \in {"requests", "blocks", "hits"} : IsABag(counters[kind])
  BY DEF PipelineInv, Typed, Entry, Stages
<1>2. /\ number[h] \in DOMAIN fate
      /\ Consistent(at[h], decision[h], fate[number[h]])
  BY DEF PipelineInv, Serving
<1>3. fate[number[h]] \in Entry
  BY <1>1, <1>2
<1>4. Received(h) \in Incoming /\ RouteOf(h) \in Routes
  BY <1>2, <1>3, GatewayAssumption DEF Received, RouteOf, Entry, Consistent
<1>5. PolicyFor(h) \in Policy
  BY <1>4, GatewayAssumption DEF PolicyFor
<1>6. fate = [fate EXCEPT ![number[h]] = fate[number[h]]]
  BY <1>1, <1>2
<1> QED BY <1>1, <1>2, <1>3, <1>4, <1>5, <1>6

LEMMA ReadBodyStep ==
    ASSUME PipelineInv, NEW h \in Handlers, ReadBody(h)
    PROVE  PipelineInv'
<1> DEFINE f == fate[number[h]]
           s == IF PolicyFor(h).limited THEN "stamp" ELSE "checks"
<1>1. /\ Busy(h) /\ at[h] = "body" /\ s \in Stages
  BY DEF ReadBody, Busy, Stages
<1>2. /\ f \in Entry /\ decision[h] \in Decision
      /\ Received(h) \in Incoming /\ PolicyFor(h) \in Policy
      /\ f.request.route \in Routes /\ Checking("body", decision[h], f)
  BY <1>1, HandlerFacts DEF Consistent, Checking, Passed, Relaying, Refused
<1>3. Moves(h, s, decision[h], f)
  BY <1>1, HandlerFacts DEF Moves, ReadBody
<1>4. Received(h).seen.body <= PolicyFor(h).maxBody
  <2>1. CASE ReadsBody(h)
    BY <2>1 DEF ReadBody
  <2>2. CASE ~ReadsBody(h)
    <3>1. ~Received(h).chunked /\ ~DeclaredTooLarge(Received(h))
      BY <1>2, <2>2 DEF ReadsBody, Checking, Received
    <3>2. Received(h).seen.body \in Nat /\ PolicyFor(h).maxBody \in Nat
      BY <1>2 DEF Incoming, Request, Policy
    <3> QED BY <3>1, <3>2 DEF DeclaredTooLarge, PolicyFor, RouteOf
  <2> QED BY <2>1, <2>2
<1>5. Checking(s, decision[h], f)
  BY <1>2, <1>4 DEF Checking, PolicyFor, RouteOf, Received
<1>6. s = "checks" => ~PolicyOf[f.request.route].limited
  BY DEF PolicyFor, RouteOf, Received
<1>7. /\ UNCHANGED <<log, limiterVars>> /\ contracts' = contracts
      /\ counters' = counters
  BY DEF ReadBody
<1>8. /\ contracts' \in [Routes -> ContractType] /\ Enforced'
      /\ \A kind \in {"requests", "blocks", "hits"} : IsABag(counters'[kind])
  BY <1>1, <1>7, HandlerFacts DEF PipelineInv, Enforced
<1>9. ~f.forwarded /\ s \notin {"idle", "proxy"}
  BY <1>2 DEF Checking
<1> HIDE DEF f, s
<1> QED
  BY <1>1, <1>2, <1>3, <1>5, <1>6, <1>7, <1>8, <1>9, PlainStep
  DEF Consistent, f

\* What a step that leaves contracts and counters alone need not show.
LEMMA Untouched ==
    ASSUME PipelineInv, NEW h \in Handlers, Busy(h), contracts' = contracts
    PROVE  contracts' \in [Routes -> ContractType] /\ Enforced'
BY HandlerFacts DEF PipelineInv, Enforced

Blocking(status, reason) ==
    [action |-> "block", status |-> status,
     limited |-> reason = "ratelimit", reason |-> reason]

LEMMA BlockFacts ==
    ASSUME NEW f, ~f.forwarded, f.reply = None,
           NEW status, NEW reason,
           \/ status \in {413, 431} /\ reason = "rule"
           \/ status = 429 /\ reason = "ratelimit"
           \/ status = 403 /\ reason \in {"rule", "contract"}
    PROVE  /\ Blocking(status, reason) \in Decision
           /\ Refused("log", Blocking(status, reason), f)
<1>1. /\ status \in {403, 413, 429, 431}
      /\ reason \in {"rule", "contract", "ratelimit"}
      /\ reason = "ratelimit" <=> status = 429
  OBVIOUS
<1>2. Blocking(status, reason) \in Decision
  <2>1. status \in Statuses \cup {0}
    BY <1>1 DEF Statuses
  <2>2. /\ "block" \in Actions
        /\ reason \in {"", "rule", "contract", "ratelimit"}
    BY <1>1 DEF Actions
  <2>3. (reason = "ratelimit") \in BOOLEAN
    OBVIOUS
  <2> QED BY <2>1, <2>2, <2>3, Zenon DEF Blocking, Decision
<1>3. Refused("log", Blocking(status, reason), f)
  <2>1. /\ Blocking(status, reason).action = "block"
        /\ Blocking(status, reason).status = status
        /\ Blocking(status, reason).reason = reason
    BY DEF Blocking
  <2>2. Blocking(status, reason).limited <=> reason = "ratelimit"
    BY Zenon DEF Blocking
  <2> QED BY <1>1, <2>1, <2>2 DEF Refused
<1> QED BY <1>2, <1>3

\* A block of a request that is being checked.
LEMMA BlockStep ==
    ASSUME PipelineInv, NEW h \in Handlers,
           at[h] \in {"body", "stamp", "checks"},
           NEW status, NEW reason, Block(h, status, reason),
           \/ status \in {413, 431} /\ reason = "rule"
           \/ status = 429 /\ reason = "ratelimit"
           \/ status = 403 /\ reason \in {"rule", "contract"},
           UNCHANGED <<number, log, fate, counters, limiterVars>>,
           contracts' \in [Routes -> ContractType], Enforced'
    PROVE  PipelineInv'
<1> DEFINE f == fate[number[h]]
           d == Blocking(status, reason)
<1>1. Busy(h) /\ at[h] \notin {"limiter", "count", "reply"} /\ "log" \in Stages
  BY DEF Busy, Stages
<1>2. /\ f \in Entry /\ f.request.route \in Routes
      /\ Checking(at[h], decision[h], f)
  BY <1>1, HandlerFacts DEF Consistent, Checking, Passed, Relaying, Refused
<1>3. Moves(h, "log", d, f)
  BY <1>1, HandlerFacts DEF Moves, Block, Blocking
<1>4. ~f.forwarded /\ f.reply = None
  BY <1>2 DEF Checking
<1>5. d \in Decision /\ Refused("log", d, f)
  BY <1>4, BlockFacts
<1>6. \A kind \in {"requests", "blocks", "hits"} : IsABag(counters'[kind])
  BY <1>1, HandlerFacts
<1>7. Consistent("log", d, f)
  BY <1>2, <1>5 DEF Consistent
<1>8. f.request = fate[number[h]].request
  OBVIOUS
<1> HIDE DEF f, d
<1> QED BY <1>1, <1>2, <1>3, <1>4, <1>5, <1>6, <1>7, <1>8, PlainStep

LEMMA BodyFailsStep ==
    ASSUME PipelineInv, NEW h \in Handlers, BodyFails(h)
    PROVE  PipelineInv'
<1>1. at[h] = "body" /\ Block(h, 413, "rule")
      /\ UNCHANGED <<number, contracts, log, counters, fate, limiterVars>>
  BY DEF BodyFails
<1>2. contracts' \in [Routes -> ContractType] /\ Enforced'
  BY <1>1, Untouched DEF Busy
<1> QED BY <1>1, <1>2, BlockStep

LEMMA ObservedType ==
    ASSUME NEW c \in ContractType, NEW q \in Request
    PROVE  Observed(c, q) \in ContractType
<1>1. /\ c.samples + 1 \in Nat /\ c.methods \cup {q.method} \in SUBSET Methods
      /\ c.ctypes \cup ({q.ctype} \ {NoType}) \in SUBSET ContentTypes
      /\ c.params \cup q.params \in SUBSET Params
      /\ c.headers \cup q.headers \in SUBSET Headers
      /\ Greater(q.body, c.observedMax) \in Nat /\ c.maxBody \in Nat
  BY DEF ContractType, Request, Greater
<1> QED BY <1>1 DEF Observed, ContractType

\* What Checks lets pass keeps to the policy of its route.
LEMMA ChecksPass ==
    ASSUME PipelineInv, NEW h \in Handlers, at[h] = "checks",
           Violations(h) = {}, DecideAction(h) # "block"
    PROVE  Passes(Received(h)) /\ DecideAction(h) \in {"allow", "shadow"}
<1> DEFINE q == Received(h)
           p == PolicyFor(h)
<1>1. /\ q \in Incoming /\ q.route \in Routes /\ p \in Policy
      /\ p = PolicyOf[q.route]
      /\ Checking("checks", decision[h], fate[number[h]])
  BY HandlerFacts DEF Busy, Consistent, Checking, Passed, Relaying, Refused,
                      PolicyFor, RouteOf
<1>2. /\ p.mode \in {"learn", "enforce", "shadow"}
      /\ q.score \in Nat /\ p.threshold \in Nat
      /\ q.header \in Nat /\ p.maxHeader \in Nat
  BY <1>1 DEF Incoming, Policy, Modes
<1>3. q.header <= p.maxHeader /\ q.seen.body <= p.maxBody
  BY <1>1, <1>2 DEF Checking, ExceedsHeaderLimit, Received
<1>4. DecideAction(h) \in {"allow", "shadow"}
  BY <1>2 DEF DecideAction
<1>5. ASSUME p.mode = "enforce"
      PROVE  Evaluate(Loaded[q.route], q.seen, p.level) = {} /\ q.score < p.threshold
  <2>1. contracts[q.route] = Loaded[q.route]
    BY <1>1, <1>5 DEF PipelineInv, Enforced
  <2>2. Evaluate(contracts[q.route], q.seen, p.level) = {}
    BY <1>5 DEF Violations, RouteOf
  <2>3. ~ReachesThreshold(h)
    BY <1>5 DEF DecideAction
  <2> QED BY <1>2, <2>1, <2>2, <2>3 DEF ReachesThreshold
<1> HIDE DEF p, q
<1> QED BY <1>1, <1>3, <1>4, <1>5 DEF Passes, q

LEMMA ChecksStep ==
    ASSUME PipelineInv, NEW h \in Handlers, Checks(h)
    PROVE  PipelineInv'
<1> DEFINE f == fate[number[h]]
<1>1. at[h] = "checks" /\ Busy(h)
      /\ UNCHANGED <<number, log, counters, fate, limiterVars>>
  BY DEF Checks, Busy
<1>2. /\ f \in Entry /\ f.request.route \in Routes
      /\ Checking("checks", decision[h], f)
      /\ Received(h) \in Incoming /\ RouteOf(h) \in Routes
      /\ contracts \in [Routes -> ContractType]
  BY <1>1, HandlerFacts DEF Consistent, Checking, Passed, Relaying, Refused
<1>3. contracts' \in [Routes -> ContractType] /\ Enforced'
  <2>1. Observed(contracts[RouteOf(h)], Received(h).seen) \in ContractType
    BY <1>2, ObservedType DEF Incoming
  <2>2. contracts' = [contracts EXCEPT ![RouteOf(h)] =
            IF PolicyFor(h).mode = "learn"
            THEN Observed(contracts[RouteOf(h)], Received(h).seen)
            ELSE contracts[RouteOf(h)]]
    BY DEF Checks
  <2>3. contracts' \in [Routes -> ContractType]
    BY <1>2, <2>1, <2>2
  <2>4. \A r \in Routes : PolicyOf[r].mode = "enforce" => contracts'[r] = contracts[r]
    BY <1>2, <2>2 DEF PolicyFor
  <2> QED BY <2>3, <2>4 DEF PipelineInv, Enforced
<1>4. CASE Violations(h) # {}
  <2>1. Block(h, 403, "contract")
    BY <1>4 DEF Checks, BlockStatus
  <2> QED BY <1>1, <1>3, <2>1, BlockStep
<1>5. CASE Violations(h) = {} /\ DecideAction(h) = "block"
  <2>1. Block(h, 403, "rule")
    BY <1>5 DEF Checks, BlockStatus
  <2> QED BY <1>1, <1>3, <2>1, BlockStep
<1>6. CASE Violations(h) = {} /\ DecideAction(h) # "block"
  <2> DEFINE d == [decision[h] EXCEPT !.action = DecideAction(h)]
  <2>1. /\ at' = [at EXCEPT ![h] = "proxy"]
        /\ decision' = [decision EXCEPT ![h] = d]
    BY <1>6 DEF Checks
  <2>2. Moves(h, "proxy", d, f)
    BY <1>1, <2>1, HandlerFacts DEF Moves
  <2>3. Passes(f.request) /\ DecideAction(h) \in {"allow", "shadow"}
    BY <1>1, <1>6, ChecksPass DEF Received
  <2>4. /\ decision[h] \in Decision /\ decision[h].status = 0
        /\ ~decision[h].limited /\ decision[h].reason = ""
        /\ DecideAction(h) \in Actions
    <3>1. decision[h] = NoDecision /\ decision[h] \in Decision
      BY <1>1, <1>2, HandlerFacts DEF Checking
    <3>2. NoDecision.status = 0 /\ NoDecision.reason = ""
      BY DEF NoDecision
    <3>3. ~NoDecision.limited
      BY Zenon DEF NoDecision
    <3> QED BY <2>3, <3>1, <3>2, <3>3 DEF Actions
  <2>5. d \in Decision /\ Plainly(d) /\ d.status = 0
    <3>1. /\ d \in Decision /\ d.action = DecideAction(h) /\ d.status = 0
          /\ d.limited = decision[h].limited /\ d.reason = ""
      BY <2>4 DEF Decision
    <3> HIDE DEF d
    <3> QED BY <2>3, <2>4, <3>1 DEF Plainly
  <2> HIDE DEF d
  <2>6. Consistent("proxy", d, f)
    BY <1>2, <2>3, <2>5 DEF Consistent, Passed, Checking
  <2>7. LetThrough(number[h]) /\ ~f.forwarded
    BY <1>1, <1>2 DEF LetThrough, Checking
  <2>8. \A kind \in {"requests", "blocks", "hits"} : IsABag(counters'[kind])
    BY <1>1, HandlerFacts
  <2>9. f.request = fate[number[h]].request /\ "proxy" \in Stages
    BY DEF Stages
  <2> HIDE DEF f
  <2> QED
    BY <1>1, <1>2, <1>3, <2>2, <2>5, <2>6, <2>7, <2>8, <2>9, PlainStep
<1> QED BY <1>4, <1>5, <1>6

\* A step that changes the entry or the decision of a request that passed.
LEMMA ForwardStep ==
    ASSUME PipelineInv, NEW h \in Handlers, Forward(h)
    PROVE  PipelineInv'
<1> DEFINE e == fate[number[h]]
           f == [e EXCEPT !.forwarded = TRUE]
           d == decision[h]
<1>1. at[h] = "proxy" /\ Busy(h) /\ "upstream" \in Stages
      /\ UNCHANGED <<number, decision, contracts, log, counters, limiterVars>>
  BY DEF Forward, Step, Busy, Stages
<1>2. /\ e \in Entry /\ e.request.route \in Routes /\ d \in Decision
      /\ Passed("proxy", d, e)
  BY <1>1, HandlerFacts DEF Consistent, Checking, Passed, Relaying, Refused
<1>3. Moves(h, "upstream", d, f)
  BY <1>1, HandlerFacts DEF Moves, Forward, Step
<1>4. /\ f \in Entry /\ f.request = e.request /\ f.reply = e.reply
      /\ f.forwarded = TRUE
  BY <1>2 DEF Entry
<1>5. Consistent("upstream", d, f) /\ Passes(f.request)
  BY <1>2, <1>4 DEF Consistent, Passed
<1>6. LetThrough(number[h])
  BY <1>1 DEF LetThrough
<1>7. /\ contracts' \in [Routes -> ContractType] /\ Enforced'
      /\ \A kind \in {"requests", "blocks", "hits"} : IsABag(counters'[kind])
  BY <1>1, Untouched, HandlerFacts
<1>8. f.request = fate[number[h]].request
  BY <1>4
<1> HIDE DEF f, d
<1> QED BY <1>1, <1>2, <1>3, <1>4, <1>5, <1>6, <1>7, <1>8, PlainStep

\* The proxy answers, for the upstream or in its place.
LEMMA RecordStep ==
    ASSUME PipelineInv, NEW h \in Handlers, at[h] \in {"proxy", "upstream"},
           NEW s \in {"relay", "log"}, Step(h, at[h], s),
           NEW status \in Statuses, Record(h, status),
           UNCHANGED <<number, contracts, log, counters, limiterVars>>
    PROVE  PipelineInv'
<1> DEFINE e == fate[number[h]]
           f == [e EXCEPT !.reply = <<"proxy", status>>]
           d == [decision[h] EXCEPT !.status = status]
<1>1. Busy(h) /\ s \in Stages /\ at[h] \notin {"limiter", "count", "reply"}
      /\ s \notin {"idle", "checks", "proxy"}
  BY DEF Busy, Stages
<1>2. /\ e \in Entry /\ e.request.route \in Routes /\ decision[h] \in Decision
      /\ Passed(at[h], decision[h], e)
  BY <1>1, HandlerFacts DEF Consistent, Checking, Passed, Relaying, Refused
<1>3. Moves(h, s, d, f)
  BY <1>1 DEF Moves, Record, Answer, Step
<1>4. /\ f \in Entry /\ f.request = e.request /\ f.forwarded = e.forwarded
      /\ f.reply = <<"proxy", status>>
  <2>1. <<"proxy", status>> \in Reply
    BY DEF Reply
  <2> QED BY <1>2, <2>1 DEF Entry
<1>5. /\ d \in Decision /\ d.status = status /\ d.action = decision[h].action
      /\ d.limited = decision[h].limited /\ d.reason = decision[h].reason
  BY <1>2 DEF Decision
<1>6. Consistent(s, d, f) /\ Passes(f.request)
  BY <1>2, <1>4, <1>5 DEF Consistent, Passed, Relaying, Plainly
<1>7. f.forwarded => LetThrough(number[h])
  BY <1>4 DEF LetThrough
<1>8. /\ contracts' \in [Routes -> ContractType] /\ Enforced'
      /\ \A kind \in {"requests", "blocks", "hits"} : IsABag(counters'[kind])
  BY <1>1, Untouched, HandlerFacts
<1>9. f.request = fate[number[h]].request
  BY <1>4
<1> HIDE DEF f, d
<1> QED BY <1>1, <1>3, <1>4, <1>5, <1>6, <1>7, <1>8, <1>9, PlainStep

LEMMA ProxyFailsStep ==
    ASSUME PipelineInv, NEW h \in Handlers, NEW status \in {502, 504},
           ProxyFails(h, status)
    PROVE  PipelineInv'
<1>1. /\ at[h] \in {"proxy", "upstream"} /\ Step(h, at[h], "log")
      /\ Record(h, status) /\ status \in Statuses
      /\ UNCHANGED <<number, contracts, log, counters, limiterVars>>
  BY DEF ProxyFails, Step, Statuses
<1> QED BY <1>1, RecordStep

LEMMA RelayStep ==
    ASSUME PipelineInv, NEW h \in Handlers, NEW status \in UpstreamStatus,
           Relay(h, status)
    PROVE  PipelineInv'
<1>1. /\ at[h] \in {"proxy", "upstream"} /\ Step(h, at[h], "relay")
      /\ Record(h, status) /\ status \in Statuses
      /\ UNCHANGED <<number, contracts, log, counters, limiterVars>>
  BY DEF Relay, Step, Statuses
<1> QED BY <1>1, RecordStep

\* A step from one place to the next that leaves the request as it is.
LEMMA PassOn ==
    ASSUME PipelineInv, NEW h \in Handlers, NEW s \in Stages,
           at[h] \in {"relay", "log", "count"}, at' = [at EXCEPT ![h] = s],
           UNCHANGED <<number, decision, contracts, log, fate, limiterVars>>,
           s \notin {"checks", "proxy"},
           s # "idle" => Consistent(s, decision[h], fate[number[h]]),
           at[h] = "count" => s \in {"reply", "idle"},
           \A kind \in {"requests", "blocks", "hits"} : IsABag(counters'[kind])
    PROVE  PipelineInv'
<1> DEFINE f == fate[number[h]]
           d == decision[h]
<1>1. Busy(h) /\ at[h] # "limiter"
  BY DEF Busy
<1>2. /\ f \in Entry /\ d \in Decision /\ number[h] \in DOMAIN fate
      /\ Moves(h, s, d, f)
  BY <1>1, HandlerFacts DEF Moves
<1>3. f.forwarded => Passes(f.request)
  BY <1>2 DEF PipelineInv, Mediated, Passes
<1>4. f.forwarded => LetThrough(number[h])
  BY DEF LetThrough
<1>5. contracts' \in [Routes -> ContractType] /\ Enforced'
  BY <1>1, Untouched
<1>6. \A i \in DOMAIN log : log[i].number = number[h] => Tells(log[i], f)
  BY DEF PipelineInv, LogTells
<1>7. at[h] \notin {"count", "reply"} \/ s \in {"reply", "idle"}
  OBVIOUS
<1>8. f.request = fate[number[h]].request /\ d = decision[h]
  OBVIOUS
<1> HIDE DEF f, d
<1> QED BY <1>1, <1>2, <1>3, <1>4, <1>5, <1>6, <1>7, <1>8, PlainStep DEF f, d

LEMMA RelayedStep ==
    ASSUME PipelineInv, NEW h \in Handlers, Relayed(h)
    PROVE  PipelineInv'
<1>1. /\ at[h] = "relay" /\ at' = [at EXCEPT ![h] = "log"] /\ "log" \in Stages
      /\ UNCHANGED <<number, decision, contracts, log, counters, fate, limiterVars>>
  BY DEF Relayed, Step, Stages
<1>2. Consistent("log", decision[h], fate[number[h]])
  BY <1>1, HandlerFacts
  DEF Busy, Consistent, Checking, Passed, Relaying, Refused
<1> QED BY <1>1, <1>2, HandlerFacts, PassOn DEF Busy

LEMMA AbortStep ==
    ASSUME PipelineInv, NEW h \in Handlers, Abort(h)
    PROVE  PipelineInv'
<1>1. /\ at[h] = "relay" /\ at' = [at EXCEPT ![h] = "idle"] /\ "idle" \in Stages
      /\ UNCHANGED <<number, decision, contracts, log, counters, fate, limiterVars>>
  BY DEF Abort, Step, Stages
<1> QED BY <1>1, HandlerFacts, PassOn DEF Busy

\* Bags: one more copy of some labels.
LEMMA OneMoreCopy ==
    ASSUME NEW bag, IsABag(bag), NEW S
    PROVE  /\ IsABag(bag (+) SetToBag(S))
           /\ \A x : Copies(x, bag) \in Nat
           /\ \A x : Copies(x, bag (+) SetToBag(S)) =
                        Copies(x, bag) + (IF x \in S THEN 1 ELSE 0)
<1>1. \A x \in DOMAIN bag : bag[x] \in Nat /\ bag[x] > 0
  BY DEF IsABag
<1>2. \A x : Copies(x, bag) \in Nat
  BY <1>1 DEF Copies
<1> DEFINE both == bag (+) SetToBag(S)
<1>3. /\ DOMAIN SetToBag(S) = S
      /\ \A x \in S : SetToBag(S)[x] = 1
  BY DEF SetToBag
<1>4. both = [x \in DOMAIN bag \cup S |->
                (IF x \in DOMAIN bag THEN bag[x] ELSE 0)
                  + (IF x \in S THEN SetToBag(S)[x] ELSE 0)]
  BY <1>3 DEF (+)
<1>5. /\ DOMAIN both = DOMAIN bag \cup S
      /\ \A x \in DOMAIN both :
            both[x] = Copies(x, bag) + (IF x \in S THEN 1 ELSE 0)
  <2> HIDE DEF both
  <2> QED BY <1>3, <1>4 DEF Copies
<1>6. \A x \in DOMAIN both : both[x] \in Nat /\ both[x] > 0
  <2> HIDE DEF both
  <2> QED BY <1>1, <1>2, <1>5 DEF Copies
<1>7. IsABag(both)
  <2>1. both = [x \in DOMAIN both |-> both[x]]
    BY <1>4
  <2> HIDE DEF both
  <2> QED BY <1>6, <2>1 DEF IsABag
<1>8. \A x : Copies(x, both) = Copies(x, bag) + (IF x \in S THEN 1 ELSE 0)
  <2> HIDE DEF both
  <2> QED BY <1>2, <1>5 DEF Copies
<1> QED BY <1>2, <1>7, <1>8

LEMMA CountStep ==
    ASSUME PipelineInv, NEW h \in Handlers, Count(h)
    PROVE  PipelineInv'
<1> DEFINE s == IF decision[h].action = "block" THEN "reply" ELSE "idle"
<1>1. /\ at[h] = "count" /\ Busy(h) /\ s \in Stages
      /\ at' = [at EXCEPT ![h] = s]
      /\ UNCHANGED <<number, decision, contracts, log, fate, limiterVars>>
  BY DEF Count, Busy, Stages
<1>2. s # "idle" => Consistent(s, decision[h], fate[number[h]])
  <2> SUFFICES ASSUME decision[h].action = "block"
               PROVE  Consistent("reply", decision[h], fate[number[h]])
    OBVIOUS
  <2>1. Consistent("count", decision[h], fate[number[h]])
    BY <1>1, HandlerFacts
  <2>2. Refused("count", decision[h], fate[number[h]])
    BY <2>1 DEF Consistent, Checking, Passed, Relaying, Plainly
  <2> QED BY <2>1, <2>2 DEF Consistent, Refused
<1>3. \A kind \in {"requests", "blocks", "hits"} : IsABag(counters'[kind])
  <2> DEFINE C == counters
             A == {<<RouteOf(h), decision[h].action, decision[h].status>>}
             B == {<<RouteOf(h), b>> : b \in BlockReasons(decision[h])}
             D == {r \in {RouteOf(h)} : decision[h].limited}
  <2>1. counters' = [requests |-> C.requests (+) SetToBag(A),
                     blocks |-> C.blocks (+) SetToBag(B),
                     hits |-> C.hits (+) SetToBag(D)]
    BY DEF Count
  <2>2. IsABag(C.requests) /\ IsABag(C.blocks) /\ IsABag(C.hits)
    BY <1>1, HandlerFacts
  <2> HIDE DEF A, B, C, D
  <2> QED BY <2>1, <2>2, OneMoreCopy
<1> QED BY <1>1, <1>2, <1>3, PassOn

LEMMA RefuseStep ==
    ASSUME PipelineInv, NEW h \in Handlers, Refuse(h)
    PROVE  PipelineInv'
<1> DEFINE e == fate[number[h]]
           d == decision[h]
           f == [e EXCEPT !.reply = <<"gateway", d.status>>]
<1>1. at[h] = "reply" /\ Busy(h) /\ "idle" \in Stages
      /\ UNCHANGED <<number, decision, contracts, log, counters, limiterVars>>
  BY DEF Refuse, Step, Busy, Stages
<1>2. /\ e \in Entry /\ d \in Decision /\ Refused("reply", d, e)
  BY <1>1, HandlerFacts DEF Consistent, Checking, Passed, Relaying, Refused
<1>3. Moves(h, "idle", d, f)
  BY <1>1, HandlerFacts DEF Moves, Refuse, Step, Answer
<1>4. /\ f \in Entry /\ f.request = e.request /\ f.forwarded = e.forwarded
      /\ f.reply = <<"gateway", d.status>>
  <2>1. <<"gateway", d.status>> \in Reply
    BY <1>2 DEF Refused, Reply, Statuses
  <2> QED BY <1>2, <2>1 DEF Entry
<1>5. ~f.forwarded /\ d.action = "block"
  BY <1>2, <1>4 DEF Refused
<1>6. \A i \in DOMAIN log : log[i].number = number[h] => Tells(log[i], f)
  <2>1. \A i \in DOMAIN log : log[i].number = number[h] =>
            log[i].action = d.action /\ log[i].status = d.status
    BY <1>1 DEF PipelineInv, Lines
  <2> HIDE DEF f, d
  <2> QED BY <1>4, <1>5, <2>1 DEF Tells
<1>7. /\ contracts' \in [Routes -> ContractType] /\ Enforced'
      /\ \A kind \in {"requests", "blocks", "hits"} : IsABag(counters'[kind])
  BY <1>1, Untouched, HandlerFacts
<1>8. f.request = fate[number[h]].request /\ d = decision[h]
  BY <1>4
<1> HIDE DEF f, d
<1> QED BY <1>1, <1>2, <1>3, <1>4, <1>5, <1>6, <1>7, <1>8, PlainStep

-----------------------------------------------------------------------------
(***************************************************************************)
(* The steps that touch the log or the limiter.                            *)
(***************************************************************************)
LEMMA WriteLogStep ==
    ASSUME PipelineInv, NEW h \in Handlers, WriteLog(h)
    PROVE  PipelineInv'
<1> DEFINE f == fate[number[h]]
           d == decision[h]
           line == [number |-> number[h], action |-> d.action,
                    status |-> d.status, limited |-> d.limited]
<1>1. /\ at[h] = "log" /\ Busy(h) /\ at' = [at EXCEPT ![h] = "count"]
      /\ "count" \in Stages
      /\ UNCHANGED <<number, decision, contracts, counters, fate, limiterVars>>
      /\ log' = Append(log, line) \/ log' = log
  BY DEF WriteLog, Step, Busy, Stages
<1>2. /\ f \in Entry /\ f.request.route \in Routes /\ d \in Decision
      /\ number[h] \in DOMAIN fate
      /\ Relaying("log", d, f) \/ Refused("log", d, f)
  BY <1>1, HandlerFacts DEF Consistent, Checking, Passed
<1>3. Consistent("count", d, f)
  BY <1>2 DEF Consistent, Relaying, Refused
<1>4. \A kind \in {"requests", "blocks", "hits"} : IsABag(counters'[kind])
  BY <1>1, HandlerFacts
<1>5. CASE log' = log
  BY <1>1, <1>3, <1>4, <1>5, PassOn
<1>6. CASE log' = Append(log, line)
  <2>1. Moves(h, "count", d, f)
    BY <1>1, HandlerFacts DEF Moves
  <2>2. /\ Typed /\ Serving /\ Alone /\ LogTells /\ Lines /\ Granted /\ Asked
        /\ Mediated
    BY DEF PipelineInv
  <2>3. /\ line \in Line /\ Tells(line, f) /\ line.number = number[h]
        /\ line.action = d.action /\ line.status = d.status
    <3>1. d.action \in Actions /\ d.status \in Statuses /\ d.limited \in BOOLEAN
      <4> HIDE DEF d, f
      <4>1. d.status \in Statuses
        BY <1>2 DEF Relaying, Refused, Statuses
      <4> QED BY <1>2, <4>1 DEF Decision
    <3>2. line \in Line
      BY <1>2, <3>1 DEF Line
    <3>3. line.number = number[h] /\ line.action = d.action /\ line.status = d.status
      OBVIOUS
    <3> HIDE DEF line, d, f
    <3>4. Tells(line, f)
      BY <1>2, <3>3 DEF Relaying, Refused, Plainly, Tells
    <3> QED BY <3>2, <3>3, <3>4
  <2> HIDE DEF line
  <2>4. /\ log \in Seq(Line) /\ Len(log) \in Nat /\ DOMAIN log = 1..Len(log)
        /\ \A i \in DOMAIN log : log[i].number \in DOMAIN fate
    BY <2>2, LineFacts
  <2>5. /\ log' \in Seq(Line) /\ DOMAIN log' = 1..(Len(log) + 1)
        /\ log'[Len(log) + 1] = line
        /\ \A i \in DOMAIN log : log'[i] = log[i]
    BY <1>6, <2>3, <2>4
  <2>6. \A i \in DOMAIN log : log[i].number # number[h]
    BY <1>1, <2>2 DEF Lines
  <2>7. \A i \in DOMAIN log' : i \in DOMAIN log \/ i = Len(log) + 1
    BY <2>4, <2>5
  <2>8. LogTells'
    <3>1. ASSUME NEW i \in DOMAIN log'
          PROVE  Tells(log'[i], fate[log'[i].number])
      <4>1. CASE i \in DOMAIN log
        BY <2>2, <2>5, <4>1 DEF LogTells
      <4>2. CASE i = Len(log) + 1
        BY <2>3, <2>5, <4>2
      <4> QED BY <2>7, <4>1, <4>2
    <3>2. ASSUME NEW i \in DOMAIN log', NEW j \in DOMAIN log',
                 log'[j].number = log'[i].number
          PROVE  j = i
      <4>1. CASE i \in DOMAIN log /\ j \in DOMAIN log
        BY <2>2, <2>5, <3>2, <4>1 DEF LogTells
      <4>2. CASE ~(i \in DOMAIN log /\ j \in DOMAIN log)
        BY <2>3, <2>5, <2>6, <2>7, <3>2, <4>2
      <4> QED BY <4>1, <4>2
    <3> QED BY <1>1, <3>1, <3>2 DEF LogTells
  <2>9. Lines'
    <3>1. /\ at'[h] = "count" /\ decision'[h] = d
          /\ \A g \in Handlers \ {h} : at'[g] = at[g] /\ decision'[g] = decision[g]
      BY <1>1, <1>2, <2>1, <2>2, Moved
    <3> SUFFICES ASSUME NEW i \in DOMAIN log', NEW g \in Handlers, Busy(g)',
                        number[g] = log'[i].number
                 PROVE  /\ at'[g] \in {"count", "reply"}
                        /\ log'[i].action = decision'[g].action
                        /\ log'[i].status = decision'[g].status
      BY <1>1 DEF Lines
    <3>2. CASE i \in DOMAIN log
      <4>1. g # h
        BY <2>5, <2>6, <3>2
      <4> QED BY <2>2, <2>5, <3>1, <3>2, <4>1 DEF Lines, Busy
    <3>3. CASE i = Len(log) + 1
      <4>1. g = h
        BY <1>1, <2>2, <2>3, <2>5, <3>1, <3>3 DEF Alone, Busy
      <4> QED BY <2>3, <2>5, <3>1, <3>3, <4>1
    <3> QED BY <2>7, <3>2, <3>3
  <2>10. Granted'
    <3>1. f.forwarded => LetThrough(number[h])
      BY DEF LetThrough
    <3>2. f.request = fate[number[h]].request /\ "count" \notin {"checks", "proxy"}
          /\ grants' = grants
      BY <1>1 DEF limiterVars
    <3> HIDE DEF f, d
    <3> QED BY <1>1, <1>2, <2>1, <2>2, <3>1, <3>2, GrantedStep
  <2>11. Asked'
    <3>1. \A call \in waiting : call.caller # h
      BY <1>1, <2>2 DEF Asked
    <3>2. f.request = fate[number[h]].request
      OBVIOUS
    <3> HIDE DEF f, d
    <3> QED BY <1>1, <1>2, <2>1, <2>2, <3>1, <3>2, AskedStep DEF Asked, limiterVars
  <2>12. LP!SharedInv' /\ L!TypeOK'
    BY <1>1, LimiterIdle
  <2>13. contracts' \in [Routes -> ContractType] /\ Enforced'
    BY <1>1, Untouched
  <2>14. f.forwarded => Passes(f.request)
    BY <1>2, <2>2 DEF Mediated, Passes
  <2> HIDE DEF f, d
  <2> QED
    BY <1>1, <1>2, <1>3, <1>4, <2>1, <2>5, <2>8, <2>9, <2>10, <2>11, <2>12,
       <2>13, <2>14, HandlerStep
<1> QED BY <1>1, <1>5, <1>6

\* A step that leaves log, decision and request alone, with its handler before
\* the decision.
LEMMA CheckingStep ==
    ASSUME PipelineInv, NEW h \in Handlers, NEW s \in Stages,
           at[h] \in {"stamp", "limiter"}, at' = [at EXCEPT ![h] = s],
           Checking(s, decision[h], fate[number[h]]),
           UNCHANGED <<number, decision, contracts, log, counters, fate>>,
           LP!SharedInv', L!TypeOK', Asked', Granted'
    PROVE  PipelineInv'
<1> DEFINE f == fate[number[h]]
           d == decision[h]
<1>1. Busy(h)
  BY DEF Busy
<1>2. /\ f \in Entry /\ f.request.route \in Routes /\ d \in Decision
      /\ Moves(h, s, d, f) /\ Consistent(s, d, f) /\ ~f.forwarded
  BY <1>1, HandlerFacts DEF Moves, Consistent, Checking
<1>3. Typed /\ Serving /\ LogTells /\ Lines /\ f.request = fate[number[h]].request
  BY DEF PipelineInv
<1>4. log' \in Seq(Line)
  BY <1>3, LineFacts
<1>5. \A i \in DOMAIN log : log[i].number # number[h]
  BY <1>1, <1>3 DEF Lines
<1> HIDE DEF f, d
<1>6. LogTells' /\ Lines'
  BY <1>2, <1>3, <1>5, LogStep
<1>7. /\ contracts' \in [Routes -> ContractType] /\ Enforced'
      /\ \A kind \in {"requests", "blocks", "hits"} : IsABag(counters'[kind])
  BY <1>1, Untouched, HandlerFacts
<1> QED BY <1>2, <1>4, <1>6, <1>7, HandlerStep

LEMMA StampLimitStep ==
    ASSUME PipelineInv, NEW h \in Handlers, StampLimit(h)
    PROVE  PipelineInv'
<1> DEFINE f == fate[number[h]]
           d == decision[h]
           key == RatelimitKey(h)
           limit == PolicyFor(h).limit
           new == [caller |-> h, key |-> key, limit |-> limit, now |-> clock]
<1>1. /\ at[h] = "stamp" /\ Busy(h) /\ at' = [at EXCEPT ![h] = "limiter"]
      /\ "limiter" \in Stages
      /\ UNCHANGED <<number, decision, contracts, log, counters, fate>>
      /\ L!Stamp(h, key, limit)
  BY DEF StampLimit, Step, Busy, Stages
<1>2. /\ f \in Entry /\ RouteOf(h) \in Routes /\ d \in Decision
      /\ Received(h) \in Incoming
      /\ Checking("stamp", d, f)
  BY <1>1, HandlerFacts DEF Consistent, Checking, Passed, Relaying, Refused
<1>3. Checking("limiter", d, f)
  BY <1>2 DEF Checking
<1>4. key \in Keys
  BY <1>2 DEF RatelimitKey, Keys, Incoming
<1>5. limit \in Limits
  BY <1>2 DEF Limits, PolicyFor, Checking, RouteOf, Received
<1>6. /\ waiting' = waiting \cup {new}
      /\ \A call \in waiting : call.caller # h
      /\ grants' = grants
  BY <1>1 DEF L!Stamp
<1>7. LP!SharedInv' /\ L!TypeOK'
  <2>1. LP!Stamp(h, key, limit)
    BY <1>1, <1>4, <1>5, SameLimiter
  <2>2. LP!Next
    BY <1>4, <1>5, <2>1 DEF LP!Next
  <2>3. LP!SharedInv'
    BY <2>2, LimiterNext DEF PipelineInv
  <2>4. LP!TypeOK'
    BY <2>3 DEF LP!SharedInv
  <2>5. L!TypeOK'
    BY <2>4 DEF L!TypeOK, LP!TypeOK, L!Call, LP!Call, L!Bucket, LP!Bucket
  <2> QED BY <2>3, <2>5
<1>8. Moves(h, "limiter", d, f)
  BY <1>1, HandlerFacts DEF Moves
<1>9. Typed /\ Serving /\ Asked /\ Granted /\ f.request = fate[number[h]].request
  BY DEF PipelineInv
<1>10. Granted'
  <2>1. ~f.forwarded
    BY <1>2 DEF Checking
  <2> HIDE DEF f, d
  <2> QED BY <1>1, <1>2, <1>6, <1>8, <1>9, <2>1, GrantedStep
<1>11. Asked'
  <2>1. \A call \in waiting : /\ at'[call.caller] = "limiter"
                              /\ call.key = RatelimitKey(call.caller)'
    <3> HIDE DEF f, d
    <3> QED BY <1>1, <1>2, <1>6, <1>8, <1>9, AskedStep
  <2>2. at'[h] = "limiter" /\ key = RatelimitKey(h)'
    <3>1. at'[h] = "limiter"
      BY <1>1, <1>9 DEF Typed
    <3>2. RatelimitKey(h)' = RatelimitKey(h)
      BY <1>1 DEF RatelimitKey, PolicyFor, RouteOf, Received
    <3> QED BY <3>1, <3>2
  <2>3. new.caller = h /\ new.key = key
    OBVIOUS
  <2> HIDE DEF new, key
  <2> QED BY <1>6, <1>9, <2>1, <2>2, <2>3 DEF Asked
<1> QED BY <1>1, <1>3, <1>7, <1>10, <1>11, CheckingStep

\* What Grant and Deny do alike.
LEMMA AskedFacts ==
    ASSUME PipelineInv, NEW h \in Handlers, at[h] = "limiter",
           NEW call \in waiting, call.caller = h, L!Grant(call) \/ L!Deny(call),
           NEW s \in Stages, NEW d \in Decision,
           Moves(h, s, d, fate[number[h]])
    PROVE  /\ LP!SharedInv' /\ L!TypeOK' /\ Asked'
           /\ call.key = KeyOf(Received(h)) /\ call.key \in Keys
<1>1. [LP!Next]_(LP!vars)
  BY SameLimiter DEF LP!Next
<1>2. LP!SharedInv'
  BY <1>1, LimiterNext DEF PipelineInv
<1>3. LP!TypeOK'
  BY <1>2 DEF LP!SharedInv
<1>4. L!TypeOK'
  BY <1>3 DEF L!TypeOK, LP!TypeOK, L!Call, LP!Call, L!Bucket, LP!Bucket
<1>5. waiting' = waiting \ {call} /\ call.key # NoKey
  BY DEF L!Grant, L!Deny, L!Enter, L!Exempt
<1>6. call.key = KeyOf(Received(h)) /\ call.key \in Keys
  <2>1. call.key = RatelimitKey(h)
    BY DEF PipelineInv, Asked
  <2>2. call.key \in Keys
    BY <1>5 DEF PipelineInv, Typed, L!TypeOK, L!Call
  <2> QED BY <2>1, <2>2 DEF RatelimitKey, KeyOf, PolicyFor, RouteOf
<1>7. Asked'
  <2>1. \A other \in waiting' : other.caller # h
    BY <1>5 DEF PipelineInv, Asked
  <2>2. /\ Typed /\ Serving /\ Asked /\ waiting' \in SUBSET waiting
        /\ fate[number[h]] \in Entry
    BY <1>5, HandlerFacts DEF PipelineInv, Busy
  <2>3. \A other \in waiting' : /\ at'[other.caller] = "limiter"
                                /\ other.key = RatelimitKey(other.caller)'
    BY <2>1, <2>2, AskedStep
  <2> QED BY <2>2, <2>3 DEF Asked
<1> QED BY <1>2, <1>4, <1>6, <1>7

LEMMA GrantStep ==
    ASSUME PipelineInv, NEW h \in Handlers, NEW call \in waiting, call.caller = h,
           L!Grant(call), Step(h, "limiter", "checks"),
           UNCHANGED <<number, decision, contracts, log, counters, fate>>
    PROVE  PipelineInv'
<1> DEFINE f == fate[number[h]]
           d == decision[h]
<1>1. /\ at[h] = "limiter" /\ Busy(h) /\ at' = [at EXCEPT ![h] = "checks"]
      /\ "checks" \in Stages
  BY DEF Step, Busy, Stages
<1>2. /\ f \in Entry /\ d \in Decision /\ Checking("limiter", d, f)
      /\ number[h] \in DOMAIN fate /\ Moves(h, "checks", d, f)
  BY <1>1, HandlerFacts
  DEF Moves, Consistent, Checking, Passed, Relaying, Refused
<1>3. Checking("checks", d, f)
  BY <1>2 DEF Checking
<1>4. /\ LP!SharedInv' /\ L!TypeOK' /\ Asked'
      /\ call.key = KeyOf(Received(h)) /\ call.key \in Keys
  BY <1>1, <1>2, AskedFacts
<1>5. Granted'
  <2>1. /\ Typed /\ Granted /\ grants \in [Keys -> Seq(Nat)]
        /\ Serving
    BY DEF PipelineInv, Typed, L!TypeOK
  <2>2. /\ grants' \in [Keys -> Seq(Nat)]
        /\ grants' = [grants EXCEPT ![call.key] =
                         Append(grants[call.key], credited'[call.key])]
    BY <1>4 DEF L!TypeOK, L!Grant
  <2>3. /\ \A g \in Handlers \ {h} : at'[g] = at[g]
        /\ at'[h] = "checks"
    BY <1>1, <2>1 DEF Typed
  <2> SUFFICES ASSUME NEW k \in Keys
               PROVE  Cardinality(GrantedTo(k)') <= Len(grants'[k])
    BY DEF Granted
  <2>4. /\ IsFiniteSet(GrantedTo(k)) /\ Cardinality(GrantedTo(k)) \in Nat
        /\ Cardinality(GrantedTo(k)) <= Len(grants[k])
        /\ Len(grants[k]) \in Nat
    BY <2>1, GrantedFinite DEF Granted
  <2>5. \A n \in DOMAIN fate : LetThrough(n)' => LetThrough(n) \/ n = number[h]
    BY <2>3 DEF LetThrough
  <2>6. CASE k = call.key
    <3>1. GrantedTo(k)' \subseteq GrantedTo(k) \cup {number[h]}
      BY <2>5 DEF GrantedTo
    <3>2. /\ IsFiniteSet(GrantedTo(k) \cup {number[h]})
          /\ Cardinality(GrantedTo(k) \cup {number[h]})
                \in {Cardinality(GrantedTo(k)), Cardinality(GrantedTo(k)) + 1}
      BY <2>4, FS_AddElement
    <3>3. /\ IsFiniteSet(GrantedTo(k)')
          /\ Cardinality(GrantedTo(k)')
                <= Cardinality(GrantedTo(k) \cup {number[h]})
      BY <3>1, <3>2, FS_Subset
    <3>4. Cardinality(GrantedTo(k)') \in Nat
      BY <3>3, FS_CardinalityType
    <3>5. Len(grants'[k]) = Len(grants[k]) + 1
      <4>1. credited'[call.key] \in Nat
        BY <1>4 DEF L!TypeOK
      <4>2. grants'[k] = Append(grants[k], credited'[call.key])
        BY <2>1, <2>2, <2>6
      <4> QED BY <2>1, <4>1, <4>2
    <3> QED BY <2>4, <3>2, <3>3, <3>4, <3>5
  <2>7. CASE k # call.key
    <3>1. GrantedTo(k)' \subseteq GrantedTo(k)
      <4>1. KeyOf(fate[number[h]].request) # k
        BY <1>4, <2>7 DEF Received
      <4> QED BY <2>5, <4>1 DEF GrantedTo
    <3>2. /\ IsFiniteSet(GrantedTo(k)')
          /\ Cardinality(GrantedTo(k)') <= Cardinality(GrantedTo(k))
      BY <2>4, <3>1, FS_Subset
    <3>3. Cardinality(GrantedTo(k)') \in Nat
      BY <3>2, FS_CardinalityType
    <3>4. grants'[k] = grants[k]
      BY <2>1, <2>2, <2>7
    <3> QED BY <2>4, <3>2, <3>3, <3>4
  <2> QED BY <2>6, <2>7
<1> QED BY <1>1, <1>3, <1>4, <1>5, CheckingStep

LEMMA DenyStep ==
    ASSUME PipelineInv, NEW h \in Handlers, NEW call \in waiting, call.caller = h,
           L!Deny(call), at[h] = "limiter", Block(h, 429, "ratelimit"),
           UNCHANGED <<number, contracts, log, counters, fate>>
    PROVE  PipelineInv'
<1> DEFINE f == fate[number[h]]
           d == Blocking(429, "ratelimit")
<1>1. Busy(h) /\ "log" \in Stages
  BY DEF Busy, Stages
<1>2. /\ f \in Entry /\ f.request.route \in Routes
      /\ Checking("limiter", decision[h], f)
  BY <1>1, HandlerFacts DEF Consistent, Checking, Passed, Relaying, Refused
<1>3. ~f.forwarded /\ f.reply = None
  BY <1>2 DEF Checking
<1>4. d \in Decision /\ Refused("log", d, f)
  BY <1>3, BlockFacts
<1>5. Moves(h, "log", d, f)
  BY <1>1, HandlerFacts DEF Moves, Block, Blocking
<1>6. LP!SharedInv' /\ L!TypeOK' /\ Asked'
  BY <1>1, <1>4, <1>5, AskedFacts
<1>7. /\ Typed /\ Serving /\ LogTells /\ Lines /\ Granted
      /\ f.request = fate[number[h]].request /\ log' = log /\ grants' = grants
  BY DEF PipelineInv, L!Deny
<1>8. log' \in Seq(Line)
  BY <1>7, LineFacts
<1>9. \A i \in DOMAIN log : log[i].number # number[h]
  BY <1>1, <1>7 DEF Lines
<1>10. Consistent("log", d, f)
  BY <1>2, <1>4 DEF Consistent
<1>11. /\ contracts' \in [Routes -> ContractType] /\ Enforced'
       /\ \A kind \in {"requests", "blocks", "hits"} : IsABag(counters'[kind])
  BY <1>1, Untouched, HandlerFacts
<1> HIDE DEF f, d
<1>12. LogTells' /\ Lines'
  BY <1>1, <1>2, <1>4, <1>5, <1>7, <1>9, LogStep
<1>13. Granted'
  BY <1>1, <1>2, <1>3, <1>4, <1>5, <1>7, GrantedStep
<1> QED
  BY <1>1, <1>2, <1>3, <1>4, <1>5, <1>6, <1>8, <1>10, <1>11, <1>12, <1>13,
     HandlerStep

LEMMA AskLimiterStep ==
    ASSUME PipelineInv, NEW h \in Handlers, AskLimiter(h)
    PROVE  PipelineInv'
<1>1. PICK call \in waiting : call.caller = h /\ Allow(h, call)
  BY DEF AskLimiter
<1>2. UNCHANGED <<number, contracts, log, counters, fate>>
  BY DEF AskLimiter
<1>3. CASE L!Grant(call) /\ Step(h, "limiter", "checks") /\ UNCHANGED decision
  BY <1>1, <1>2, <1>3, GrantStep
<1>4. CASE L!Deny(call) /\ at[h] = "limiter" /\ Block(h, 429, "ratelimit")
  BY <1>1, <1>2, <1>4, DenyStep
<1> QED BY <1>1, <1>3, <1>4 DEF Allow

-----------------------------------------------------------------------------
(***************************************************************************)
(* A request arrives, for the handlers in N: for one, or for none when it  *)
(* has no route.                                                           *)
(***************************************************************************)
LEMMA Arrival ==
    ASSUME PipelineInv, NEW e \in Entry, ~e.forwarded, fate' = Append(fate, e),
           UNCHANGED <<contracts, log, counters, limiterVars>>,
           at' \in [Handlers -> Stages], decision' \in [Handlers -> Decision],
           number' \in [Handlers -> 0..Len(fate')],
           NEW N \in SUBSET Handlers, \A g, h \in N : g = h,
           \A g \in N : /\ ~Busy(g) /\ number'[g] = Len(fate')
                        /\ at'[g] \in {"body", "log"}
                        /\ Consistent(at'[g], decision'[g], e),
           \A g \in Handlers \ N : /\ at'[g] = at[g] /\ decision'[g] = decision[g]
                                   /\ number'[g] = number[g]
    PROVE  PipelineInv'
<1>0. PICK last : last = Len(fate) + 1
  OBVIOUS
<1>1. /\ Typed /\ Serving /\ Alone /\ Enforced /\ Asked
      /\ Mediated /\ LogTells /\ Lines /\ Granted
  BY DEF PipelineInv
<1>2. /\ fate \in Seq(Entry) /\ DOMAIN fate = 1..Len(fate) /\ Len(fate) \in Nat
      /\ fate' \in Seq(Entry) /\ Len(fate') = last
      /\ DOMAIN fate' = 1..last /\ fate'[last] = e
      /\ last \notin DOMAIN fate
      /\ \A n \in DOMAIN fate : fate'[n] = fate[n] /\ n \in DOMAIN fate'
      /\ \A n \in DOMAIN fate' : n \in DOMAIN fate \/ n = last
  <2>1. fate \in Seq(Entry)
    BY <1>1 DEF Typed, Entry
  <2> QED BY <1>0, <2>1
<1>3. \A g \in Handlers \ N : Busy(g)' <=> Busy(g)
  BY DEF Busy
<1>4. \A g \in Handlers : Busy(g) => g \notin N /\ number[g] \in DOMAIN fate
  BY <1>1 DEF Serving
<1>5. \A i \in DOMAIN log : log[i].number \in DOMAIN fate
  BY <1>1, LineFacts
<1>6. Serving'
  <2> SUFFICES ASSUME NEW g \in Handlers, Busy(g)'
               PROVE  /\ number'[g] \in DOMAIN fate'
                      /\ Consistent(at'[g], decision'[g], fate'[number'[g]])
    BY DEF Serving
  <2>1. CASE g \in N
    <3>1. last \in DOMAIN fate'
      BY <1>2
    <3> QED BY <2>1, <3>1, <1>2
  <2>2. CASE g \notin N
    BY <2>2, <1>1, <1>2, <1>3 DEF Serving
  <2> QED BY <2>1, <2>2
<1>7. Alone'
  <2> SUFFICES ASSUME NEW g \in Handlers, NEW h \in Handlers, Busy(g)', Busy(h)',
                      number'[g] = number'[h]
               PROVE  g = h
    BY DEF Alone
  <2>1. CASE g \in N /\ h \in N
    BY <2>1
  <2>2. CASE g \notin N /\ h \notin N
    BY <2>2, <1>1, <1>3 DEF Alone
  <2>3. CASE ~(g \in N <=> h \in N)
    BY <2>3, <1>2, <1>3, <1>4
  <2> QED BY <2>1, <2>2, <2>3
<1>8. Mediated'
  <2>1. Mediated <=> \A n \in DOMAIN fate : fate[n].forwarded => Passes(fate[n].request)
    BY DEF Mediated, Passes
  <2>2. Mediated' <=>
          \A n \in DOMAIN fate' : fate'[n].forwarded => Passes(fate'[n].request)
    BY DEF Mediated, Passes
  <2> QED BY <1>1, <1>2, <2>1, <2>2
<1>9. LogTells'
  BY <1>1, <1>2, <1>5 DEF LogTells
<1>10. Lines'
  <2> SUFFICES ASSUME NEW i \in DOMAIN log, NEW g \in Handlers, Busy(g)',
                      number'[g] = log[i].number
               PROVE  /\ at'[g] \in {"count", "reply"}
                      /\ log[i].action = decision'[g].action
                      /\ log[i].status = decision'[g].status
    BY DEF Lines
  <2>1. g \notin N
    BY <1>2, <1>5
  <2> QED BY <2>1, <1>1, <1>3 DEF Lines
<1>11. Granted'
  <2>1. \A n \in DOMAIN fate : LetThrough(n)' => LetThrough(n)
    BY <1>2, <1>4 DEF LetThrough
  <2>2. ~LetThrough(last)'
    <3>1. \A g \in Handlers \ N : number'[g] # last \/ ~Busy(g)
      BY <1>2, <1>4
    <3> QED BY <1>2, <3>1 DEF LetThrough, Busy
  <2>3. \A k \in Keys : GrantedTo(k)' \subseteq GrantedTo(k)
    BY <1>2, <2>1, <2>2 DEF GrantedTo
  <2> SUFFICES ASSUME NEW k \in Keys
               PROVE  Cardinality(GrantedTo(k)') <= Len(grants[k])
    BY DEF Granted, limiterVars
  <2>4. IsFiniteSet(GrantedTo(k)) /\ Cardinality(GrantedTo(k)) \in Nat
    BY <1>1, GrantedFinite
  <2>5. /\ IsFiniteSet(GrantedTo(k)')
        /\ Cardinality(GrantedTo(k)') <= Cardinality(GrantedTo(k))
    BY <2>3, <2>4, FS_Subset
  <2>6. Cardinality(GrantedTo(k)') \in Nat
    BY <2>5, FS_CardinalityType
  <2>7. Cardinality(GrantedTo(k)) <= Len(grants[k]) /\ Len(grants[k]) \in Nat
    BY <1>1 DEF Granted, Typed, L!TypeOK
  <2> QED BY <2>4, <2>5, <2>6, <2>7
<1>12. LP!SharedInv' /\ L!TypeOK'
  BY LimiterIdle
<1>13. Asked'
  <2> SUFFICES ASSUME NEW call \in waiting
               PROVE  /\ at'[call.caller] = "limiter"
                      /\ call.key = RatelimitKey(call.caller)'
    BY <1>1 DEF Asked, limiterVars
  <2>1. PICK g \in Handlers : g = call.caller
    BY <1>1 DEF Typed, L!TypeOK, L!Call
  <2>2. /\ at[g] = "limiter" /\ call.key = RatelimitKey(g)
        /\ g \notin N /\ number[g] \in DOMAIN fate
    BY <2>1, <1>1, <1>4 DEF Asked, Busy
  <2>3. RatelimitKey(g)' = RatelimitKey(g)
    <3>1. number'[g] = number[g] /\ fate'[number[g]] = fate[number[g]]
      BY <2>2, <1>2
    <3> QED BY <3>1 DEF RatelimitKey, PolicyFor, RouteOf, Received
  <2> QED BY <2>1, <2>2, <2>3
<1>14. Typed'
  <2>1. log' \in Seq(Line')
    <3>1. log \in Seq(Line) /\ \A i \in DOMAIN log : log[i] \in Line
      BY <1>1, LineFacts
    <3>2. \A i \in DOMAIN log : log[i] \in Line'
      BY <3>1, <1>2 DEF Line
    <3> QED BY <3>1, <3>2
  <2> QED BY <2>1, <1>1, <1>2, <1>12 DEF Typed, Entry, Stages, Line
<1>15. Enforced'
  BY <1>1 DEF Enforced
<1> QED
  BY <1>6, <1>7, <1>8, <1>9, <1>10, <1>11, <1>12, <1>13, <1>14, <1>15
  DEF PipelineInv

LEMMA NotFoundStep ==
    ASSUME PipelineInv, NEW q \in Traffic, NotFound(q)
    PROVE  PipelineInv'
<1> DEFINE e == [request |-> q, forwarded |-> FALSE, reply |-> <<"gateway", 404>>]
<1>1. e \in Entry
  BY DEF Entry, Reply
<1>2. /\ at \in [Handlers -> Stages] /\ decision \in [Handlers -> Decision]
      /\ number \in [Handlers -> 0..Len(fate)] /\ fate \in Seq(Entry)
  BY DEF PipelineInv, Typed, Stages, Entry
<1>3. /\ fate' = Append(fate, e)
      /\ UNCHANGED <<at, number, decision, contracts, log, counters, limiterVars>>
  BY DEF NotFound, Sent
<1>4. ~e.forwarded
  BY Zenon
<1> HIDE DEF e
<1>5. number' \in [Handlers -> 0..Len(fate')]
  <2>1. Len(fate') = Len(fate) + 1 /\ Len(fate) \in Nat
    BY <1>1, <1>2, <1>3
  <2> QED BY <1>2, <1>3, <2>1
<1>6. {} \in SUBSET Handlers /\ Handlers \ {} = Handlers
  OBVIOUS
<1>7. \A g \in Handlers \ {} : /\ at'[g] = at[g] /\ decision'[g] = decision[g]
                               /\ number'[g] = number[g]
  BY <1>3
<1>8. \A N \in SUBSET Handlers : N = {} => (\A g, h \in N : g = h)
  OBVIOUS
<1> QED BY <1>1, <1>2, <1>3, <1>4, <1>5, <1>6, <1>7, <1>8, Arrival

LEMMA BeginStep ==
    ASSUME PipelineInv, NEW h \in Handlers, NEW q \in Traffic, Begin(h, q)
    PROVE  PipelineInv'
<1> DEFINE e == [request |-> q, forwarded |-> FALSE, reply |-> None]
<1>1. /\ e \in Entry /\ e.request = q /\ e.reply = None
  BY DEF Entry, Reply
<1>2. ~e.forwarded
  BY Zenon
<1>3. /\ at \in [Handlers -> Stages] /\ decision \in [Handlers -> Decision]
      /\ number \in [Handlers -> 0..Len(fate)] /\ fate \in Seq(Entry)
  BY DEF PipelineInv, Typed, Stages, Entry
<1>4. /\ fate' = Append(fate, e) /\ ~Busy(h)
      /\ number' = [number EXCEPT ![h] = Len(fate')]
      /\ UNCHANGED <<contracts, log, counters, limiterVars>>
      /\ q.route \in Routes
  BY GatewayAssumption DEF Begin, Sent, Busy, Incoming
<1> HIDE DEF e
<1>5. /\ number' \in [Handlers -> 0..Len(fate')] /\ number'[h] = Len(fate')
      /\ \A g \in Handlers \ {h} : number'[g] = number[g]
  <2>1. Len(fate') = Len(fate) + 1 /\ Len(fate) \in Nat
    BY <1>1, <1>3, <1>4
  <2> QED BY <1>3, <1>4, <2>1
<1>6. PICK s \in {"body", "log"}, d \in Decision :
        /\ at' = [at EXCEPT ![h] = s]
        /\ decision' = [decision EXCEPT ![h] = d]
        /\ Consistent(s, d, e)
  <2>1. ASSUME NEW status \in {413, 431}, Block(h, status, "rule")
        PROVE  \E s \in {"body", "log"}, d \in Decision :
                  /\ at' = [at EXCEPT ![h] = s]
                  /\ decision' = [decision EXCEPT ![h] = d]
                  /\ Consistent(s, d, e)
    <3>1. /\ Blocking(status, "rule") \in Decision
          /\ Refused("log", Blocking(status, "rule"), e)
      BY <1>1, <1>2, BlockFacts
    <3>2. Consistent("log", Blocking(status, "rule"), e)
      BY <1>1, <1>4, <3>1 DEF Consistent
    <3>3. /\ at' = [at EXCEPT ![h] = "log"]
          /\ decision' = [decision EXCEPT ![h] = Blocking(status, "rule")]
      BY <2>1 DEF Block, Blocking
    <3> QED BY <3>1, <3>2, <3>3
  <2>2. CASE ~ExceedsHeaderLimit(q) /\ ~DeclaredTooLarge(q)
    <3>1. /\ at' = [at EXCEPT ![h] = "body"]
          /\ decision' = [decision EXCEPT ![h] = NoDecision]
      BY <2>2 DEF Begin
    <3>2. NoDecision \in Decision
      BY DEF NoDecision, Decision, Actions
    <3>3. Consistent("body", NoDecision, e)
      BY <2>2, <1>1, <1>2, <1>4 DEF Consistent, Checking
    <3> QED BY <3>1, <3>2, <3>3
  <2>3. CASE ExceedsHeaderLimit(q)
    <3>1. Block(h, 431, "rule")
      BY <2>3 DEF Begin
    <3> QED BY <3>1, <2>1
  <2>4. CASE ~ExceedsHeaderLimit(q) /\ DeclaredTooLarge(q)
    <3>1. Block(h, 413, "rule")
      BY <2>4 DEF Begin
    <3> QED BY <3>1, <2>1
  <2> QED BY <2>2, <2>3, <2>4
<1>7. /\ at' \in [Handlers -> Stages] /\ decision' \in [Handlers -> Decision]
      /\ at'[h] = s /\ decision'[h] = d
      /\ \A g \in Handlers \ {h} : at'[g] = at[g] /\ decision'[g] = decision[g]
  <2>1. s \in Stages
    BY DEF Stages
  <2> QED BY <1>3, <1>6, <2>1
<1>8. /\ {h} \in SUBSET Handlers /\ \A f, g \in {h} : f = g
      /\ \A g \in {h} : /\ ~Busy(g) /\ number'[g] = Len(fate')
                        /\ at'[g] \in {"body", "log"}
                        /\ Consistent(at'[g], decision'[g], e)
  BY <1>4, <1>5, <1>6, <1>7
<1> QED BY <1>1, <1>2, <1>4, <1>5, <1>7, <1>8, Arrival

LEMMA TickStep ==
    ASSUME PipelineInv, Tick
    PROVE  PipelineInv'
<1>1. /\ UNCHANGED <<at, number, decision, contracts, log, counters, fate>>
      /\ L!Tick /\ waiting' = waiting /\ grants' = grants
  BY DEF Tick, L!Tick
<1>2. LP!SharedInv'
  BY <1>1, SameLimiter, LimiterNext DEF LP!Next, PipelineInv
<1>3. LP!TypeOK'
  BY <1>2 DEF LP!SharedInv
<1>4. L!TypeOK'
  BY <1>3 DEF L!TypeOK, LP!TypeOK, L!Call, LP!Call, L!Bucket, LP!Bucket
<1>5. Typed'
  BY <1>1, <1>4 DEF PipelineInv, Typed, Line
<1>6. Serving' /\ Alone' /\ Enforced' /\ Mediated' /\ LogTells' /\ Lines'
  BY <1>1 DEF PipelineInv, Serving, Alone, Enforced, Mediated, LogTells, Lines,
              Busy
<1>7. Asked'
  BY <1>1 DEF PipelineInv, Asked, RatelimitKey, PolicyFor, RouteOf, Received
<1>8. Granted'
  BY <1>1 DEF PipelineInv, Granted, GrantedTo, LetThrough
<1> QED BY <1>2, <1>5, <1>6, <1>7, <1>8 DEF PipelineInv

LEMMA PipelineIdle ==
    ASSUME PipelineInv,
           UNCHANGED <<at, number, decision, contracts, log, counters, fate,
                       limiterVars>>
    PROVE  PipelineInv'
<1>1. /\ UNCHANGED <<at, number, decision, contracts, log, counters, fate>>
      /\ UNCHANGED limiterVars /\ waiting' = waiting /\ grants' = grants
  BY DEF limiterVars
<1>2. LP!SharedInv' /\ L!TypeOK'
  BY <1>1, LimiterIdle
<1>3. Typed'
  BY <1>1, <1>2 DEF PipelineInv, Typed, Line
<1>4. Serving' /\ Alone' /\ Enforced' /\ Mediated' /\ LogTells' /\ Lines'
  BY <1>1 DEF PipelineInv, Serving, Alone, Enforced, Mediated, LogTells, Lines,
              Busy
<1>5. Asked'
  BY <1>1 DEF PipelineInv, Asked, RatelimitKey, PolicyFor, RouteOf, Received
<1>6. Granted'
  BY <1>1 DEF PipelineInv, Granted, GrantedTo, LetThrough
<1> QED BY <1>2, <1>3, <1>4, <1>5, <1>6 DEF PipelineInv

LEMMA ServeStep ==
    ASSUME PipelineInv, NEW h \in Handlers, Serve(h)
    PROVE  PipelineInv'
<1>1. CASE ReadBody(h)
  BY <1>1, ReadBodyStep
<1>2. CASE BodyFails(h)
  BY <1>2, BodyFailsStep
<1>3. CASE StampLimit(h)
  BY <1>3, StampLimitStep
<1>4. CASE AskLimiter(h)
  BY <1>4, AskLimiterStep
<1>5. CASE Checks(h)
  BY <1>5, ChecksStep
<1>6. CASE Forward(h)
  BY <1>6, ForwardStep
<1>7. CASE Relayed(h)
  BY <1>7, RelayedStep
<1>8. CASE Abort(h)
  BY <1>8, AbortStep
<1>9. CASE \E status \in {502, 504} : ProxyFails(h, status)
  BY <1>9, ProxyFailsStep
<1>10. CASE \E status \in UpstreamStatus : Relay(h, status)
  BY <1>10, RelayStep
<1>11. CASE WriteLog(h)
  BY <1>11, WriteLogStep
<1>12. CASE Count(h)
  BY <1>12, CountStep
<1>13. CASE Refuse(h)
  BY <1>13, RefuseStep
<1> QED BY <1>1, <1>2, <1>3, <1>4, <1>5, <1>6, <1>7, <1>8, <1>9, <1>10, <1>11,
           <1>12, <1>13 DEF Serve

LEMMA PipelineNext == PipelineInv /\ [Next]_vars => PipelineInv'
<1> SUFFICES ASSUME PipelineInv, [Next]_vars PROVE PipelineInv'
  OBVIOUS
<1>1. CASE Tick
  BY <1>1, TickStep
<1>2. ASSUME NEW q \in Traffic, NotFound(q) PROVE PipelineInv'
  BY <1>2, NotFoundStep
<1>3. ASSUME NEW q \in Traffic, NEW h \in Handlers, Begin(h, q) PROVE PipelineInv'
  BY <1>3, BeginStep
<1>4. ASSUME NEW h \in Handlers, Serve(h) PROVE PipelineInv'
  BY <1>4, ServeStep
<1>5. ASSUME NEW h \in Handlers, BodyIn(h) PROVE PipelineInv'
  BY <1>5, PipelineIdle DEF BodyIn
<1>6. CASE UNCHANGED vars
  BY <1>6, PipelineIdle DEF vars
<1> QED BY <1>1, <1>2, <1>3, <1>4, <1>5, <1>6 DEF Next

LEMMA PipelineInit == Init => PipelineInv
<1> SUFFICES ASSUME Init PROVE PipelineInv
  OBVIOUS
<1>1. /\ at = [h \in Handlers |-> "idle"] /\ number = [h \in Handlers |-> 0]
      /\ decision = [h \in Handlers |-> NoDecision]
      /\ contracts = [r \in Routes |->
            IF PolicyOf[r].mode = "enforce" THEN Loaded[r] ELSE NewContract]
      /\ log = <<>> /\ fate = <<>> /\ L!Init /\ waiting = {}
      /\ counters = [requests |-> EmptyBag, blocks |-> EmptyBag, hits |-> EmptyBag]
  BY DEF Init, L!Init
<1>2. LP!SharedInv
  BY <1>1, SameLimiter, LimiterBounds, LP!SharedInit
<1>3. L!TypeOK
  BY <1>2, SameLimiter DEF LP!SharedInv
<1>4. contracts \in [Routes -> ContractType]
  <2>1. NewContract \in ContractType
    BY DEF NewContract, ContractType
  <2> QED BY <1>1, <2>1, GatewayAssumption
<1>5. \A kind \in {"requests", "blocks", "hits"} : IsABag(counters[kind])
  <2>1. IsABag(EmptyBag)
    BY DEF IsABag, EmptyBag, SetToBag
  <2> QED BY <1>1, <2>1
<1>6. Typed
  <2>1. NoDecision \in Decision
    BY DEF NoDecision, Decision, Actions
  <2>2. /\ at \in [Handlers -> Stages] /\ decision \in [Handlers -> Decision]
        /\ number \in [Handlers -> 0..Len(fate)] /\ log \in Seq(Line)
        /\ fate \in Seq(Entry)
    BY <1>1, <2>1 DEF Stages
  <2> QED BY <1>3, <1>4, <1>5, <2>2 DEF Typed, Stages, Line, Entry
<1>7. Serving /\ Alone /\ Enforced /\ Asked /\ Mediated /\ LogTells /\ Lines
  BY <1>1 DEF Serving, Alone, Enforced, Asked, Mediated, LogTells, Lines, Busy
<1>8. Granted
  <2> SUFFICES ASSUME NEW k \in Keys
               PROVE  Cardinality(GrantedTo(k)) <= Len(grants[k])
    BY DEF Granted
  <2>1. GrantedTo(k) = {}
    BY <1>1 DEF GrantedTo
  <2>2. Len(grants[k]) \in Nat
    BY <1>3 DEF L!TypeOK
  <2> QED BY <2>1, <2>2, FS_EmptySet
<1> QED BY <1>2, <1>6, <1>7, <1>8 DEF PipelineInv

LEMMA PipelineInvariant == Spec => []PipelineInv
BY PipelineInit, PipelineNext, PTL DEF Spec

-----------------------------------------------------------------------------
Streams == streamed \in [Handlers -> BOOLEAN]

(***************************************************************************)
(* ServeHTTP keeps its types, for any handlers, policies and traffic.      *)
(***************************************************************************)
THEOREM TypeCorrect == Spec => []TypeOK
<1>1. Init => Streams
  BY DEF Init, Streams
<1>2. Streams /\ [Next]_vars => Streams'
  <2> SUFFICES ASSUME Streams, [Next]_vars, streamed' # streamed
               PROVE  Streams'
    BY DEF Streams
  <2>1. PICK h \in Handlers :
          \/ ReadBody(h) \/ BodyIn(h) \/ \E q \in Traffic : Begin(h, q)
    BY DEF Next, Serve, vars, Tick, NotFound, BodyFails, StampLimit, AskLimiter,
           Checks, Forward, Relayed, Abort, ProxyFails, Relay, WriteLog, Count,
           Refuse
  <2>2. ReadsBody(h) \in BOOLEAN /\ (Received(h).seen.body > 0) \in BOOLEAN
    BY DEF ReadsBody
  <2>3. PICK b \in BOOLEAN : streamed' = [streamed EXCEPT ![h] = b]
    BY <2>1, <2>2 DEF ReadBody, BodyIn, Begin
  <2> QED BY <2>3 DEF Streams
<1>3. PipelineInv /\ Streams => TypeOK
  BY DEF PipelineInv, Typed, Streams, TypeOK, Entry, Stages, Line
<1> QED BY <1>1, <1>2, <1>3, PipelineInvariant, PTL DEF Spec

(***************************************************************************)
(* What the upstream gets has passed the size limits of its policy and, on *)
(* an enforcing route, the contract and the rules (gateway.go:195-270),    *)
(* however many requests are under way.                                    *)
(***************************************************************************)
THEOREM AllMediated == Spec => []Mediated
<1>1. PipelineInv => Mediated
  BY DEF PipelineInv
<1> QED BY <1>1, PipelineInvariant, PTL

(***************************************************************************)
(* A line of the log tells what became of its request, and no request has  *)
(* two (gateway.go:314-319), whatever the order in which handlers write.   *)
(***************************************************************************)
THEOREM LogIsTrue == Spec => []LogTells
<1>1. PipelineInv => LogTells
  BY DEF PipelineInv
<1> QED BY <1>1, PipelineInvariant, PTL

(***************************************************************************)
(* What the upstream gets of a key is within the largest burst and rate of *)
(* its policies, over all routes and handlers: no request passes around    *)
(* the limiter of gateway.go:228, and the limiter bounds its admissions.   *)
(***************************************************************************)
THEOREM UpstreamWithinLimit == Spec => []ForwardedWithinLimit
<1>1. PipelineInv => ForwardedWithinLimit
  <2> SUFFICES ASSUME PipelineInv, NEW k \in Keys,
                      NEW P, P = {n \in DOMAIN fate :
                          /\ fate[n].forwarded
                          /\ PolicyOf[fate[n].request.route].limited
                          /\ KeyOf(fate[n].request) = k}
               PROVE  Cardinality(P) * Unit <= MaxBurst * Unit + MaxRps * credited[k]
    BY DEF ForwardedWithinLimit
  <2>1. Typed /\ LP!SharedInv /\ Granted
    BY DEF PipelineInv
  <2>2. /\ Unit \in Nat /\ MaxRps \in Nat /\ MaxBurst \in Nat
        /\ credited[k] \in Nat /\ grants[k] \in Seq(Nat)
        /\ \A j \in DOMAIN buckets : buckets[j].tokens \in Nat
    BY <2>1, LimiterAssumption DEF Typed, L!TypeOK, L!Bucket
  <2>3. /\ IsFiniteSet(GrantedTo(k)) /\ Cardinality(GrantedTo(k)) \in Nat
        /\ Cardinality(GrantedTo(k)) <= Len(grants[k])
    BY <2>1, GrantedFinite DEF Granted
  <2>4. P \subseteq GrantedTo(k)
    BY DEF GrantedTo, LetThrough
  <2>5. IsFiniteSet(P) /\ Cardinality(P) <= Cardinality(GrantedTo(k))
    BY <2>3, <2>4, FS_Subset
  <2>6. Cardinality(P) \in Nat
    BY <2>5, FS_CardinalityType
  <2>7. PICK n \in Nat, m \in Nat, c \in Nat :
          n = Cardinality(P) /\ m = Len(grants[k]) /\ c = credited[k] /\ n <= m
    <3>1. Len(grants[k]) \in Nat
      BY <2>2
    <3>2. Cardinality(P) <= Len(grants[k])
      BY <2>3, <2>5, <2>6, <3>1
    <3> QED BY <2>2, <2>6, <3>1, <3>2
  <2>8. n * Unit <= m * Unit /\ n * Unit \in Nat /\ m * Unit \in Nat
    <3>1. n * Unit <= m * Unit
      BY <2>2, <2>7, LP!Monotone, LimiterBounds
    <3> QED BY <2>2, <3>1, SMT
  <2>9. MaxBurst * Unit \in Nat /\ MaxRps * c \in Nat
    BY <2>2, SMT
  <2>10. m * Unit <= MaxBurst * Unit + MaxRps * c
    <3>1. CASE grants[k] = <<>>
      <4>1. m = 0 /\ 0 * Unit = 0
        BY <2>2, <2>7, <3>1, SMT
      <4> QED BY <2>9, <4>1
    <3>2. CASE grants[k] # <<>>
      <4>1. k \in DOMAIN buckets
        BY <2>1, <3>2 DEF LP!SharedInv, LP!BoundedBuckets
      <4>2. 1 \in DOMAIN grants[k] /\ grants[k][1] \in Nat
        BY <2>2, <3>2
      <4>3. (Len(grants[k]) - 1 + 1) * Unit + buckets[k].tokens
              <= MaxBurst * Unit + MaxRps * (credited[k] - grants[k][1])
        BY <2>1, <4>1, <4>2 DEF LP!SharedInv, LP!SharedWindows
      <4>4. PICK g \in Nat, t \in Nat : g = grants[k][1] /\ t = buckets[k].tokens
        BY <2>2, <4>1, <4>2
      <4>5. m * Unit + t <= MaxBurst * Unit + MaxRps * (c - g)
        BY <2>7, <4>3, <4>4
      <4>6. /\ MaxRps * (c - g) = MaxRps * c - MaxRps * g
            /\ MaxRps * g \in Nat
        BY <2>2, SMT
      <4>7. PICK y \in Nat, u \in Nat, v \in Nat, w \in Nat :
              /\ y = m * Unit /\ u = MaxBurst * Unit
              /\ v = MaxRps * c /\ w = MaxRps * g
        BY <2>8, <2>9, <4>6, Zenon
      <4>8. y + t <= u + (v - w)
        BY <4>5, <4>6, <4>7, Zenon
      <4>9. y <= u + v
        BY <4>4, <4>8
      <4> QED BY <4>7, <4>9, Zenon
    <3> QED BY <3>1, <3>2
  <2>11. PICK x \in Nat, y \in Nat, u \in Nat, v \in Nat :
            x = n * Unit /\ y = m * Unit /\ u = MaxBurst * Unit /\ v = MaxRps * c
    BY <2>8, <2>9, Zenon
  <2>12. x <= y /\ y <= u + v
    BY <2>8, <2>10, <2>11, Zenon
  <2>13. x <= u + v
    BY <2>12
  <2> QED BY <2>7, <2>11, <2>13, Zenon
<1> QED BY <1>1, PipelineInvariant, PTL

=============================================================================
