-------------------------- MODULE LifecycleProofs --------------------------
(***************************************************************************)
(* Proofs about Contract and Lifecycle: what a contract has observed it    *)
(* admits, and learned traffic is admitted through any sequence of runs,   *)
(* crashes and failed saves, for every configuration, traffic and margin;  *)
(* and what klyr learn leaves in the files when it ends well.              *)
(***************************************************************************)
EXTENDS Lifecycle, FiniteSetTheorems, TLAPS

(***************************************************************************)
(* The operators of Contract.  Lists(c, q): the lists of c name all of q   *)
(* that JSON can keep, and q was taken into account for the largest body.  *)
(* It is stronger than "c refuses nothing of q": Evaluate ignores the list *)
(* of methods while it is empty, so that is not kept by Observed.          *)
(***************************************************************************)
Lists(c, q) ==
    /\ q.method \in c.methods
    /\ q.ctype # NoType => q.ctype \in c.ctypes
    /\ q.params \cap PlainParams \subseteq c.params
    /\ q.headers \subseteq c.headers
    /\ q.body <= c.observedMax

Covers(c, q) == Lists(c, q) /\ q.body <= c.maxBody

LEMMA NewType == NewContract \in ContractType
BY DEF NewContract, ContractType

LEMMA ObservedType ==
    ASSUME NEW c \in ContractType, NEW q \in Request
    PROVE  Observed(c, q) \in ContractType
<1>1. /\ q.method \in Methods /\ q.ctype \in ContentTypes \cup {NoType}
      /\ q.params \subseteq Params /\ q.headers \subseteq Headers
      /\ q.body \in Nat
  BY DEF Request
<1>2. Greater(q.body, c.observedMax) \in Nat
  BY <1>1 DEF Greater, ContractType
<1>3. /\ c.samples + 1 \in Nat /\ c.maxBody \in Nat
      /\ c.methods \cup {q.method} \subseteq Methods
      /\ c.ctypes \cup ({q.ctype} \ {NoType}) \subseteq ContentTypes
      /\ c.params \cup q.params \subseteq Params
      /\ c.headers \cup q.headers \subseteq Headers
  BY <1>1 DEF ContractType
<1> QED BY <1>2, <1>3 DEF Observed, ContractType

\* Observing a request lists it.
LEMMA ObservedLists ==
    ASSUME NEW c \in ContractType, NEW q \in Request
    PROVE  Lists(Observed(c, q), q)
<1>1. q.body \in Nat /\ c.observedMax \in Nat
  BY DEF Request, ContractType
<1>2. q.body <= Greater(q.body, c.observedMax)
  BY <1>1 DEF Greater
<1> QED BY <1>2 DEF Lists, Observed, ContractType

\* Observing another keeps it listed.
LEMMA ObservedKeeps ==
    ASSUME NEW c \in ContractType, NEW q \in Request, NEW p \in Request,
           Lists(c, p)
    PROVE  Lists(Observed(c, q), p)
<1>1. q.body \in Nat /\ p.body \in Nat /\ c.observedMax \in Nat
  BY DEF Request, ContractType
<1>2. p.body <= Greater(q.body, c.observedMax)
  BY <1>1 DEF Greater, Lists
<1> QED BY <1>2 DEF Lists, Observed, ContractType

\* Finalizing sets the limit above every body listed.
LEMMA FinalizedCovers ==
    ASSUME NEW c \in ContractType
    PROVE  /\ Finalized(c, Margin) \in ContractType
           /\ \A q \in Request : Lists(c, q) => Covers(Finalized(c, Margin), q)
<1>1. Margin \in Nat /\ c.observedMax \in Nat
  BY RouteAssumption DEF ContractType
<1>2. Greater(Margin, 0) \in Nat
  BY <1>1 DEF Greater
<1>3. Finalized(c, Margin) \in ContractType
  BY <1>1, <1>2 DEF Finalized, ContractType
<1>4. /\ Finalized(c, Margin).maxBody = c.observedMax + Greater(Margin, 0)
      /\ Finalized(c, Margin).methods = c.methods
      /\ Finalized(c, Margin).ctypes = c.ctypes
      /\ Finalized(c, Margin).params = c.params
      /\ Finalized(c, Margin).headers = c.headers
      /\ Finalized(c, Margin).observedMax = c.observedMax
  BY DEF Finalized, ContractType
<1>5. ASSUME NEW q \in Request, Lists(c, q)
      PROVE  Covers(Finalized(c, Margin), q)
  <2>1. q.body \in Nat /\ q.body <= c.observedMax
    BY <1>5 DEF Request, Lists
  <2>2. q.body <= c.observedMax + Greater(Margin, 0)
    BY <2>1, <1>1, <1>2
  <2> QED BY <2>2, <1>4, <1>5 DEF Covers, Lists
<1> QED BY <1>3, <1>5

\* A trip through the file keeps what is covered covered.
LEMMA ReloadedCovers ==
    ASSUME NEW c \in ContractType
    PROVE  /\ Reloaded(c) \in ContractType
           /\ \A q : Covers(c, q) => Covers(Reloaded(c), q)
<1>1. Reloaded(c) \in ContractType
  BY ParamAssumption DEF Reloaded, ContractType
<1>2. /\ Reloaded(c).params = (c.params \cap PlainParams)
                                \cup {Replaced : p \in c.params \ PlainParams}
      /\ Reloaded(c).methods = c.methods
      /\ Reloaded(c).ctypes = c.ctypes
      /\ Reloaded(c).headers = c.headers
      /\ Reloaded(c).observedMax = c.observedMax
      /\ Reloaded(c).maxBody = c.maxBody
  BY DEF Reloaded, ContractType
<1> QED BY <1>1, <1>2 DEF Covers, Lists

(***************************************************************************)
(* contract.Evaluate finds no violation in a request the contract covers,  *)
(* at any level, when its parameter names are ones JSON keeps.             *)
(***************************************************************************)
LEMMA CoveredAdmitted ==
    ASSUME NEW c \in ContractType, NEW q \in Request, Covers(c, q),
           q.params \subseteq PlainParams, NEW level
    PROVE  Evaluate(c, q, level) = {}
<1>1. Unlisted({q.method}, c.methods) = {}
  BY DEF Unlisted, Covers, Lists
<1>2. Unlisted({q.ctype} \ {NoType}, c.ctypes) = {}
  BY DEF Unlisted, Covers, Lists
<1>3. q.params \ c.params = {} /\ q.headers \ c.headers = {}
  BY DEF Covers, Lists
<1>4. ~(q.body > c.maxBody)
  BY DEF Covers, Request, ContractType
<1> QED BY <1>1, <1>2, <1>3, <1>4 DEF Evaluate

-----------------------------------------------------------------------------
(***************************************************************************)
(* The invariant.  A request a learning process accepted is listed in its  *)
(* route's contract, or on its way there in a handler; what is finalized,  *)
(* saved or loaded covers what it was taught; and no contract is saved     *)
(* while a process enforces.                                               *)
(***************************************************************************)
\* Accepted, and its handler has not reached the contract.
Pending(r, q) ==
    \E h \in Handlers :
        active[h] # None /\ active[h].route = r /\ active[h].request = q
        /\ ~active[h].checked

LearnsAll ==
    phase # "down" =>
        \A r \in Routes : Learns(r) =>
            /\ contracts[r] \in ContractType
            /\ \A q \in accepted[r].sent : Lists(contracts[r], q) \/ Pending(r, q)

SavesDrained ==
    /\ phase \in {"saving", "checking"} => Idle /\ command = "learn"
    /\ phase = "saving" => saving \in Routes
    /\ phase = "saving" /\ opened =>
          \A q \in accepted[saving].sent : Covers(contracts[saving], q)

OpenedWhileSaving == opened => phase = "saving"

FilesCover ==
    \A r \in Routes : Alone(r) /\ Loadable(r) =>
        \A q \in taught[r] : Covers(files[PathOf[r]], q)

EnforcesCover ==
    phase # "down" =>
        \A r \in Routes : Enforces(r) =>
            /\ contracts[r] \in ContractType
            /\ Alone(r) => \A q \in taught[r] : Covers(contracts[r], q)

VerdictFresh ==
    /\ phase = "down" => Idle /\ verdict = None
    /\ verdict # None => command # "learn"

Inv ==
    /\ TypeOK /\ LearnsAll /\ SavesDrained /\ FilesCover /\ EnforcesCover
    /\ VerdictFresh /\ LearnedAdmitted /\ OpenedWhileSaving

LEMMA TrafficRequests == \A r \in Routes : accepted[r] \in Accepted =>
                            accepted[r].sent \subseteq Request
BY RouteAssumption DEF Accepted

LEMMA LearnsOnly ==
    command = "learn" => \A r \in Routes : Learns(r) /\ ~Enforces(r)
BY DEF Learns, Enforces, ModeUnder

LEMMA InvInit == Init => Inv
<1> SUFFICES ASSUME Init PROVE Inv
  OBVIOUS
<1>1. TypeOK
  BY DEF Init, TypeOK, Accepted, NothingYet
<1>2. LearnsAll /\ SavesDrained /\ EnforcesCover /\ VerdictFresh
  BY DEF Init, LearnsAll, SavesDrained, EnforcesCover, VerdictFresh, Idle
<1>3. FilesCover /\ LearnedAdmitted /\ OpenedWhileSaving
  BY DEF Init, FilesCover, LearnedAdmitted, OpenedWhileSaving
<1> QED BY <1>1, <1>2, <1>3 DEF Inv

\* The steps that touch neither a file, nor a contract, nor the verdict.
LEMMA SameFiles ==
    ASSUME FilesCover, EnforcesCover, LearnedAdmitted,
           UNCHANGED <<command, contracts, files, taught, verdict>>,
           phase' # "down" => phase # "down"
    PROVE  FilesCover' /\ EnforcesCover' /\ LearnedAdmitted'
<1>1. FilesCover'
  BY DEF FilesCover, Loadable
<1>2. EnforcesCover'
  BY DEF EnforcesCover, Enforces
<1>3. LearnedAdmitted'
  BY DEF LearnedAdmitted, Admitted, Plain
<1> QED BY <1>1, <1>2, <1>3

\* runGateway returning changes neither the files nor what is in memory.
LEMMA InvLeave ==
    ASSUME Inv, NEW where \in {"failing", "closing"}, NEW how \in {"ok", "error"},
           Leave(where, how), phase # "down", UNCHANGED <<files, taught>>
    PROVE  Inv'
<1>1. /\ phase' = where /\ saving' = 0 /\ opened' = FALSE
      /\ UNCHANGED <<command, contracts, active, accepted, files, taught, verdict>>
  BY DEF Leave
<1>2. TypeOK'
  BY DEF Inv, TypeOK, Leave
<1>3. LearnsAll' /\ SavesDrained' /\ VerdictFresh' /\ OpenedWhileSaving'
  BY <1>1 DEF Inv, LearnsAll, Learns, Pending, SavesDrained, VerdictFresh,
              OpenedWhileSaving
<1>4. FilesCover' /\ EnforcesCover' /\ LearnedAdmitted'
  BY <1>1, SameFiles DEF Inv
<1> QED BY <1>2, <1>3, <1>4 DEF Inv

\* A process that ends leaves the files as they are, and nothing in memory.
LEMMA InvEnd ==
    ASSUME Inv, NEW how \in {"none", "ok", "error", "killed"}, End(how),
           UNCHANGED <<files, taught>>
    PROVE  Inv'
<1>1. TypeOK'
  BY DEF Inv, TypeOK, End
<1>2. LearnsAll' /\ SavesDrained' /\ EnforcesCover' /\ VerdictFresh'
  BY DEF End, LearnsAll, SavesDrained, EnforcesCover, VerdictFresh, Idle
<1>3. FilesCover'
  BY DEF Inv, FilesCover, Loadable
<1>4. LearnedAdmitted' /\ OpenedWhileSaving'
  BY DEF End, LearnedAdmitted, OpenedWhileSaving
<1> QED BY <1>1, <1>2, <1>3, <1>4 DEF Inv

LEMMA InvStart ==
    ASSUME Inv, NEW cmd \in {"learn", "enforce", "run"}, Start(cmd)
    PROVE  Inv'
<1>1. /\ phase = "down" /\ phase' = "serving" /\ command' = cmd
      /\ UNCHANGED <<active, saving, opened, files, taught, verdict>>
      /\ contracts' = [r \in Routes |-> Initial(cmd, r)]
      /\ accepted' = [r \in Routes |-> NothingYet]
  BY DEF Start
<1>2. ASSUME NEW r \in Routes
      PROVE  /\ ModeUnder(cmd, r) = "learn" =>
                    contracts'[r] = NewContract /\ accepted'[r].sent = {}
             /\ ModeUnder(cmd, r) = "enforce" =>
                    /\ Loadable(r)
                    /\ contracts'[r] = files[PathOf[r]]
                    /\ contracts'[r] \in ContractType
             /\ contracts'[r] \in ContractType \cup {None}
             /\ accepted'[r] = NothingYet /\ NothingYet \in Accepted
  <2>1. ModeUnder(cmd, r) = "enforce" => Loadable(r)
    BY DEF Start, MayStart
  <2> QED
    BY <2>1, <1>1, NewType
    DEF Initial, Loadable, NothingYet, Inv, TypeOK, Accepted
<1>3. TypeOK'
  <2>1. contracts' \in [Routes -> ContractType \cup {None}]
    BY <1>1, <1>2
  <2>2. accepted' \in [Routes -> Accepted]
    BY <1>1, <1>2
  <2> QED BY <1>1, <2>1, <2>2 DEF Inv, TypeOK, Start
<1>4. LearnsAll'
  BY <1>1, <1>2, NewType DEF LearnsAll, Learns
<1>5. SavesDrained' /\ FilesCover'
  BY <1>1 DEF Inv, SavesDrained, FilesCover, Loadable
<1>6. EnforcesCover'
  BY <1>1, <1>2 DEF EnforcesCover, Enforces, Inv, FilesCover
<1>7. VerdictFresh' /\ LearnedAdmitted' /\ OpenedWhileSaving'
  BY <1>1 DEF Inv, VerdictFresh, LearnedAdmitted, OpenedWhileSaving
<1> QED BY <1>3, <1>4, <1>5, <1>6, <1>7 DEF Inv

LEMMA InvRefuseStart ==
    ASSUME Inv, NEW cmd \in {"learn", "enforce", "run"}, RefuseStart(cmd)
    PROVE  Inv'
<1>1. TypeOK'
  BY DEF Inv, TypeOK, RefuseStart
<1>2. /\ LearnsAll' /\ SavesDrained' /\ EnforcesCover' /\ VerdictFresh'
      /\ FilesCover' /\ LearnedAdmitted' /\ OpenedWhileSaving'
  BY DEF Inv, RefuseStart, OpenedWhileSaving, LearnsAll, SavesDrained, EnforcesCover, VerdictFresh,
         FilesCover, Loadable, LearnedAdmitted, Idle
<1> QED BY <1>1, <1>2 DEF Inv

LEMMA InvAccept ==
    ASSUME Inv, NEW h \in Handlers, NEW r \in Routes, NEW q \in Traffic,
           Accept(h, r, q)
    PROVE  Inv'
<1> DEFINE task == [route |-> r, request |-> q, checked |-> FALSE]
<1>1. /\ phase \in {"serving", "draining", "failing"} /\ active[h] = None
      /\ active' = [active EXCEPT ![h] = task]
      /\ UNCHANGED <<command, phase, exit, scraping, contracts, saving, opened, files,
                     runs, taught, verdict>>
      /\ accepted' = [accepted EXCEPT ![r] =
              IF Learns(r) THEN [sent |-> @.sent \cup {q}, count |-> @.count + 1]
                           ELSE @]
  BY DEF Accept
<1>2. /\ active \in [Handlers -> Handling \cup {None}]
      /\ accepted \in [Routes -> Accepted]
  BY DEF Inv, TypeOK
<1>3. /\ task \in Handling /\ task # None
      /\ active'[h] = task
      /\ \A g \in Handlers : g # h => active'[g] = active[g]
  <2>1. task \in Handling
    BY DEF Handling
  <2>2. task # None
    BY <2>1, ValueAssumption
  <2> QED BY <1>1, <1>2, <2>1, <2>2
<1> HIDE DEF task
<1>4. /\ \A s \in Routes : accepted'[s] \in Accepted
      /\ \A s \in Routes : accepted'[s].sent \subseteq accepted[s].sent \cup {q}
      /\ \A s \in Routes \ {r} : accepted'[s] = accepted[s]
      /\ accepted' \in [Routes -> Accepted]
  <2>1. accepted[r].sent \subseteq Traffic /\ accepted[r].count \in Nat
    BY <1>2 DEF Accepted
  <2>2. /\ accepted'[r] \in Accepted
        /\ accepted'[r].sent \subseteq accepted[r].sent \cup {q}
    <3>1. CASE Learns(r)
      <4>1. accepted'[r] = [sent |-> accepted[r].sent \cup {q},
                            count |-> accepted[r].count + 1]
        BY <1>1, <1>2, <3>1
      <4> QED BY <2>1, <4>1 DEF Accepted
    <3>2. CASE ~Learns(r)
      BY <1>1, <1>2, <3>2
    <3> QED BY <3>1, <3>2
  <2>3. \A s \in Routes \ {r} : accepted'[s] = accepted[s]
    BY <1>1, <1>2
  <2>4. accepted' = [s \in Routes |-> accepted'[s]]
    BY <1>1, <1>2
  <2> QED BY <1>2, <2>2, <2>3, <2>4
<1>5. TypeOK'
  <2>1. active' \in [Handlers -> Handling \cup {None}]
    BY <1>1, <1>2, <1>3
  <2> QED BY <1>1, <1>4, <2>1 DEF Inv, TypeOK
<1>6. LearnsAll'
  <2> SUFFICES ASSUME NEW s \in Routes, Learns(s)'
               PROVE  /\ contracts'[s] \in ContractType
                      /\ \A p \in accepted'[s].sent :
                            Lists(contracts'[s], p) \/ Pending(s, p)'
    BY DEF LearnsAll
  <2>1. /\ phase # "down" /\ Learns(s) /\ contracts' = contracts
    BY <1>1 DEF Learns
  <2>2. /\ contracts[s] \in ContractType
        /\ \A p \in accepted[s].sent : Lists(contracts[s], p) \/ Pending(s, p)
    BY <2>1 DEF Inv, LearnsAll
  <2>3. ASSUME NEW p, Pending(s, p)
        PROVE  Pending(s, p)'
    <3>1. PICK g \in Handlers :
            /\ active[g] # None /\ active[g].route = s
            /\ active[g].request = p /\ ~active[g].checked
      BY <2>3 DEF Pending
    <3>2. g # h /\ active'[g] = active[g]
      BY <3>1, <1>1, <1>3
    <3> QED BY <3>1, <3>2 DEF Pending
  <2>4. s = r => Pending(s, q)'
    BY <1>3 DEF Pending, task
  <2> QED BY <1>4, <2>1, <2>2, <2>3, <2>4
<1>7. SavesDrained'
  BY <1>1 DEF SavesDrained
<1>9. FilesCover' /\ EnforcesCover' /\ LearnedAdmitted'
  BY <1>1, SameFiles DEF Inv
<1>8. VerdictFresh' /\ OpenedWhileSaving'
  BY <1>1 DEF Inv, VerdictFresh, OpenedWhileSaving
<1> QED BY <1>5, <1>6, <1>7, <1>8, <1>9 DEF Inv

LEMMA InvReturn ==
    ASSUME Inv, NEW h \in Handlers, Return(h)
    PROVE  Inv'
<1>1. /\ active[h] # None /\ active[h].checked
      /\ active' = [active EXCEPT ![h] = None]
      /\ UNCHANGED <<command, phase, exit, scraping, contracts, saving, opened, files,
                     runs, accepted, taught, verdict>>
      /\ active \in [Handlers -> Handling \cup {None}]
  BY DEF Return, Inv, TypeOK
<1>2. TypeOK'
  BY <1>1 DEF Inv, TypeOK
<1>3. ASSUME NEW r \in Routes, NEW q, Pending(r, q)
      PROVE  Pending(r, q)'
  <2>1. PICK g \in Handlers :
          /\ active[g] # None /\ active[g].route = r
          /\ active[g].request = q /\ ~active[g].checked
    BY <1>3 DEF Pending
  <2>2. active'[g] = active[g]
    BY <1>1, <2>1
  <2> QED BY <2>1, <2>2 DEF Pending
<1>4. LearnsAll'
  BY <1>1, <1>3 DEF Inv, LearnsAll, Learns
<1>5. Idle => Idle'
  BY <1>1 DEF Idle
<1>6. SavesDrained' /\ VerdictFresh' /\ OpenedWhileSaving'
  BY <1>1, <1>5 DEF Inv, SavesDrained, VerdictFresh, OpenedWhileSaving
<1>7. FilesCover' /\ EnforcesCover' /\ LearnedAdmitted'
  BY <1>1, SameFiles DEF Inv
<1> QED BY <1>2, <1>4, <1>6, <1>7 DEF Inv

LEMMA InvDrain ==
    ASSUME Inv, Drain
    PROVE  Inv'
<1>1. /\ phase = "serving" /\ phase' = "draining"
      /\ UNCHANGED <<command, exit, scraping, contracts, active, saving, opened, files,
                     runs, accepted, taught, verdict>>
  BY DEF Drain
<1>2. TypeOK'
  BY <1>1 DEF Inv, TypeOK
<1>3. LearnsAll'
  BY <1>1 DEF Inv, LearnsAll, Learns, Pending
<1>4. SavesDrained' /\ VerdictFresh' /\ OpenedWhileSaving'
  BY <1>1 DEF Inv, SavesDrained, VerdictFresh, OpenedWhileSaving
<1>5. FilesCover' /\ EnforcesCover' /\ LearnedAdmitted'
  BY <1>1, SameFiles DEF Inv
<1> QED BY <1>2, <1>3, <1>4, <1>5 DEF Inv

LEMMA InvDrained ==
    ASSUME Inv, Drained
    PROVE  Inv'
<1>1. CASE command # "learn"
  BY <1>1, InvLeave DEF Drained
<1>2. CASE command = "learn"
  <2>1. /\ phase = "draining" /\ Idle /\ phase' = "saving" /\ saving' = 1
        /\ UNCHANGED <<command, exit, scraping, contracts, active, opened, files, runs,
                       accepted, taught, verdict>>
    BY <1>2 DEF Drained
  <2>2. 1 \in Routes
    BY RouteAssumption DEF Routes
  <2>3. TypeOK'
    BY <2>1, <2>2 DEF Inv, TypeOK
  <2>4. LearnsAll'
    BY <2>1 DEF Inv, LearnsAll, Learns, Pending
  <2>5. ~opened
    BY <2>1 DEF Inv, OpenedWhileSaving
  <2>6. SavesDrained' /\ VerdictFresh'
    BY <1>2, <2>1, <2>2, <2>5 DEF Inv, SavesDrained, VerdictFresh, Idle
  <2>7. FilesCover' /\ EnforcesCover' /\ LearnedAdmitted'
    BY <2>1, SameFiles DEF Inv
  <2>8. OpenedWhileSaving'
    BY <2>1 DEF OpenedWhileSaving
  <2> QED BY <2>3, <2>4, <2>6, <2>7, <2>8 DEF Inv
<1> QED BY <1>1, <1>2

LEMMA InvOpen ==
    ASSUME Inv, Open
    PROVE  Inv'
<1> DEFINE c == Finalized(contracts[saving], Margin)
<1>1. /\ phase = "saving" /\ ~opened /\ opened' = TRUE
      /\ contracts' = [contracts EXCEPT ![saving] = c]
      /\ files' = [files EXCEPT ![PathOf[saving]] = Torn]
      /\ UNCHANGED <<command, phase, exit, scraping, active, saving, runs, accepted,
                     taught, verdict>>
  BY DEF Open
<1>2. /\ Idle /\ command = "learn" /\ saving \in Routes
      /\ Learns(saving) /\ \A r \in Routes : ~Enforces(r)
      /\ verdict = None
      /\ accepted[saving].sent \subseteq Request
      /\ PathOf \in [Routes -> Paths]
  BY <1>1, LearnsOnly, TrafficRequests, RouteAssumption
  DEF Inv, SavesDrained, VerdictFresh, TypeOK
<1>3. /\ contracts[saving] \in ContractType
      /\ \A q \in accepted[saving].sent : Lists(contracts[saving], q)
  BY <1>1, <1>2 DEF Inv, LearnsAll, Pending, Idle
<1>4. /\ c \in ContractType
      /\ \A q \in accepted[saving].sent : Covers(c, q)
  BY <1>2, <1>3, FinalizedCovers
<1> HIDE DEF c
<1>5. /\ contracts'[saving] = c
      /\ \A r \in Routes \ {saving} : contracts'[r] = contracts[r]
      /\ contracts' \in [Routes -> ContractType \cup {None}]
      /\ files' \in [Paths -> ContractType \cup {Absent, Torn}]
      /\ files'[PathOf[saving]] = Torn
      /\ \A p \in Paths : p # PathOf[saving] => files'[p] = files[p]
  BY <1>1, <1>2, <1>4 DEF Inv, TypeOK
<1>6. TypeOK'
  BY <1>1, <1>5 DEF Inv, TypeOK
<1>7. LearnsAll'
  <2>1. ASSUME NEW r \in Routes \ {saving}, Learns(r)'
        PROVE  /\ contracts'[r] \in ContractType
               /\ \A q \in accepted'[r].sent :
                     Lists(contracts'[r], q) \/ Pending(r, q)'
    BY <1>1, <1>5, <2>1 DEF Inv, LearnsAll, Learns, Pending
  <2>2. /\ contracts'[saving] \in ContractType
        /\ \A q \in accepted'[saving].sent : Lists(contracts'[saving], q)
    BY <1>1, <1>4, <1>5 DEF Covers
  <2> QED BY <2>1, <2>2 DEF LearnsAll
<1>8. SavesDrained'
  BY <1>1, <1>2, <1>4, <1>5 DEF SavesDrained, Idle
<1>9. FilesCover'
  <2> SUFFICES ASSUME NEW r \in Routes, Alone(r), Loadable(r)'
               PROVE  \A q \in taught[r] : Covers(files'[PathOf[r]], q)
    BY <1>1 DEF FilesCover
  <2>1. PathOf[r] # PathOf[saving]
    BY <1>5, ValueAssumption DEF Loadable
  <2>2. files'[PathOf[r]] = files[PathOf[r]] /\ Loadable(r)
    BY <2>1, <1>2, <1>5 DEF Loadable
  <2> QED BY <2>2 DEF Inv, FilesCover
<1>10. EnforcesCover' /\ VerdictFresh' /\ LearnedAdmitted' /\ OpenedWhileSaving'
  BY <1>1, <1>2 DEF EnforcesCover, Enforces, VerdictFresh, LearnedAdmitted,
                    OpenedWhileSaving
<1> QED BY <1>6, <1>7, <1>8, <1>9, <1>10 DEF Inv

LEMMA InvWrite ==
    ASSUME Inv, Write
    PROVE  Inv'
<1> DEFINE c == Reloaded(contracts[saving])
           sent == accepted[saving].sent
<1>1. /\ phase = "saving" /\ opened /\ opened' = FALSE
      /\ files' = [files EXCEPT ![PathOf[saving]] = c]
      /\ taught' = [taught EXCEPT ![saving] = sent]
      /\ \/ phase' = "saving" /\ saving < NumRoutes /\ saving' = saving + 1
         \/ phase' = "checking" /\ saving' = 0
      /\ UNCHANGED <<command, exit, scraping, contracts, active, runs, accepted, verdict>>
  BY DEF Write
<1>2. /\ Idle /\ command = "learn" /\ saving \in Routes
      /\ Learns(saving) /\ \A r \in Routes : ~Enforces(r)
      /\ verdict = None
      /\ sent \subseteq Traffic
      /\ \A q \in sent : Covers(contracts[saving], q)
      /\ PathOf \in [Routes -> Paths]
  BY <1>1, LearnsOnly, RouteAssumption
  DEF Inv, SavesDrained, VerdictFresh, TypeOK, Accepted
<1>3. saving' \in Routes \cup {0} /\ (phase' = "saving" => saving' \in Routes)
  BY <1>1, <1>2, RouteAssumption DEF Routes
<1>4. c \in ContractType /\ \A q \in sent : Covers(c, q)
  <2>1. contracts[saving] \in ContractType
    BY <1>1, <1>2 DEF Inv, LearnsAll
  <2> QED BY <2>1, <1>2, ReloadedCovers
<1> HIDE DEF c, sent
<1>5. /\ files' \in [Paths -> ContractType \cup {Absent, Torn}]
      /\ files'[PathOf[saving]] = c
      /\ \A p \in Paths : p # PathOf[saving] => files'[p] = files[p]
      /\ taught' \in [Routes -> SUBSET Traffic]
      /\ taught'[saving] = sent
      /\ \A r \in Routes : r # saving => taught'[r] = taught[r]
  BY <1>1, <1>2, <1>4 DEF Inv, TypeOK
<1>6. TypeOK'
  BY <1>1, <1>3, <1>5 DEF Inv, TypeOK
<1>7. LearnsAll'
  BY <1>1 DEF Inv, LearnsAll, Learns, Pending
<1>8. SavesDrained' /\ OpenedWhileSaving'
  BY <1>1, <1>2, <1>3 DEF SavesDrained, OpenedWhileSaving, Idle
<1>9. FilesCover'
  <2> SUFFICES ASSUME NEW r \in Routes, Alone(r), Loadable(r)'
               PROVE  \A q \in taught'[r] : Covers(files'[PathOf[r]], q)
    BY DEF FilesCover
  <2>1. CASE PathOf[r] = PathOf[saving]
    <3>1. r = saving
      BY <2>1, <1>2 DEF Alone
    <3> QED BY <3>1, <1>4, <1>5
  <2>2. CASE PathOf[r] # PathOf[saving]
    <3>1. /\ files'[PathOf[r]] = files[PathOf[r]] /\ taught'[r] = taught[r]
          /\ Loadable(r)
      BY <2>2, <1>2, <1>5 DEF Loadable
    <3> QED BY <3>1 DEF Inv, FilesCover
  <2> QED BY <2>1, <2>2
<1>10. EnforcesCover' /\ VerdictFresh' /\ LearnedAdmitted'
  BY <1>1, <1>2 DEF EnforcesCover, Enforces, VerdictFresh, LearnedAdmitted
<1> QED BY <1>6, <1>7, <1>8, <1>9, <1>10 DEF Inv

LEMMA InvCheck ==
    ASSUME Inv, NEW h \in Handlers, Check(h)
    PROVE  Inv'
<1> DEFINE r == active[h].route
           q == active[h].request
           done == [route |-> r, request |-> q, checked |-> TRUE]
           c == IF Learns(r) THEN Observed(contracts[r], q) ELSE contracts[r]
<1>1. /\ active[h] # None /\ ~active[h].checked
      /\ contracts' = [contracts EXCEPT ![r] = c]
      /\ verdict' = IF Enforces(r)
                    THEN [route |-> r, request |-> q,
                          violations |-> Evaluate(contracts[r], q, Level)]
                    ELSE verdict
      /\ active' = [active EXCEPT ![h] = done]
      /\ UNCHANGED <<command, phase, exit, scraping, saving, opened, files, runs,
                     accepted, taught>>
  BY DEF Check
<1>2. /\ active[h] \in Handling /\ r \in Routes /\ q \in Traffic /\ q \in Request
      /\ done \in Handling /\ done.checked /\ phase # "down" /\ ~Idle
      /\ active \in [Handlers -> Handling \cup {None}]
      /\ contracts \in [Routes -> ContractType \cup {None}]
  <2>1. active \in [Handlers -> Handling \cup {None}]
    BY DEF Inv, TypeOK
  <2>2. active[h] \in Handling
    BY <1>1, <2>1
  <2>3. ~Idle
    BY <1>1 DEF Idle
  <2>4. q \in Traffic /\ q \in Request /\ r \in Routes
    BY <2>2, RouteAssumption DEF Handling
  <2> QED BY <2>1, <2>2, <2>3, <2>4 DEF Inv, TypeOK, VerdictFresh, Handling
<1> HIDE DEF done
<1>3. /\ phase \notin {"saving", "checking"} /\ phase' = phase
  BY <1>1, <1>2 DEF Inv, SavesDrained
<1>4. Learns(r) => /\ contracts[r] \in ContractType
                   /\ c \in ContractType /\ Lists(c, q)
                   /\ \A p \in Request : Lists(contracts[r], p) => Lists(c, p)
  BY <1>2, ObservedType, ObservedLists, ObservedKeeps DEF Inv, LearnsAll
<1>5. ~Learns(r) => c = contracts[r]
  OBVIOUS
<1> HIDE DEF c
<1>6. /\ contracts'[r] = c
      /\ \A s \in Routes \ {r} : contracts'[s] = contracts[s]
      /\ contracts' \in [Routes -> ContractType \cup {None}]
      /\ active' \in [Handlers -> Handling \cup {None}]
      /\ \A g \in Handlers \ {h} : active'[g] = active[g]
  BY <1>1, <1>2, <1>4, <1>5
<1>7. TypeOK'
  BY <1>1, <1>6 DEF Inv, TypeOK
<1>8. LearnsAll'
  <2> SUFFICES ASSUME NEW s \in Routes, Learns(s)
               PROVE  /\ contracts'[s] \in ContractType
                      /\ \A p \in accepted[s].sent :
                            Lists(contracts'[s], p) \/ Pending(s, p)'
    BY <1>1 DEF LearnsAll, Learns
  <2>1. /\ contracts[s] \in ContractType
        /\ \A p \in accepted[s].sent : Lists(contracts[s], p) \/ Pending(s, p)
        /\ accepted[s].sent \subseteq Request
    BY <1>2, TrafficRequests DEF Inv, LearnsAll, TypeOK
  <2>2. ASSUME NEW p, Pending(s, p), ~(s = r /\ p = q)
        PROVE  Pending(s, p)'
    <3>1. PICK g \in Handlers :
            /\ active[g] # None /\ active[g].route = s
            /\ active[g].request = p /\ ~active[g].checked
      BY <2>2 DEF Pending
    <3>2. g # h
      BY <2>2, <3>1
    <3> QED BY <3>1, <3>2, <1>6 DEF Pending
  <2>3. CASE s # r
    BY <2>1, <2>2, <2>3, <1>6
  <2>4. CASE s = r
    BY <2>1, <2>2, <2>4, <1>4, <1>6
  <2> QED BY <2>3, <2>4
<1>9. SavesDrained' /\ OpenedWhileSaving'
  BY <1>1, <1>3 DEF Inv, SavesDrained, OpenedWhileSaving
<1>10. FilesCover'
  BY <1>1 DEF Inv, FilesCover, Loadable
<1>11. EnforcesCover'
  <2>1. ASSUME NEW s \in Routes, Enforces(s)
        PROVE  contracts'[s] = contracts[s]
    BY <2>1, <1>5, <1>6 DEF Enforces, Learns
  <2> QED BY <2>1, <1>1, <1>2 DEF Inv, EnforcesCover, Enforces
<1>12. VerdictFresh'
  <2>1. Enforces(r) => command # "learn"
    BY <1>2, LearnsOnly
  <2> QED BY <2>1, <1>1, <1>2 DEF Inv, VerdictFresh
<1>13. LearnedAdmitted'
  <2>1. CASE ~Enforces(r)
    BY <2>1, <1>1 DEF Inv, LearnedAdmitted, Admitted, Plain
  <2>2. CASE Enforces(r)
    <3>1. verdict' = [route |-> r, request |-> q,
                      violations |-> Evaluate(contracts[r], q, Level)]
      BY <2>2, <1>1
    <3>2. ASSUME Alone(r), q.params \subseteq PlainParams, q \in taught[r]
          PROVE  Evaluate(contracts[r], q, Level) = {}
      <4>1. contracts[r] \in ContractType /\ Covers(contracts[r], q)
        BY <2>2, <3>2, <1>2 DEF Inv, EnforcesCover
      <4> QED BY <4>1, <3>2, <1>2, CoveredAdmitted
    <3> QED BY <3>1, <3>2, <1>1 DEF LearnedAdmitted, Admitted, Plain
  <2> QED BY <2>1, <2>2
<1> QED BY <1>7, <1>8, <1>9, <1>10, <1>11, <1>12, <1>13 DEF Inv

LEMMA InvNext == Inv /\ [Next]_vars => Inv'
<1> SUFFICES ASSUME Inv, [Next]_vars PROVE Inv'
  OBVIOUS
<1>1. ASSUME NEW cmd \in {"learn", "enforce", "run"}, Start(cmd)
      PROVE  Inv'
  BY <1>1, InvStart
<1>2. ASSUME NEW cmd \in {"learn", "enforce", "run"}, RefuseStart(cmd)
      PROVE  Inv'
  BY <1>2, InvRefuseStart
<1>3. CASE ServeFails
  BY <1>3, InvLeave DEF ServeFails
<1>4. CASE Kill
  BY <1>4, InvEnd DEF Kill
<1>5. CASE Drain
  BY <1>5, InvDrain
<1>6. CASE Drained
  BY <1>6, InvDrained
<1>7. CASE DrainTimeout
  BY <1>7, InvLeave DEF DrainTimeout
<1>8. CASE Open
  BY <1>8, InvOpen
<1>9. CASE Write
  BY <1>9, InvWrite
<1>10. CASE SaveFails
  BY <1>10, InvLeave DEF SaveFails
<1>11. CASE CheckSamples
  <2>1. PICK how \in {"ok", "error"} : Leave("closing", how)
    BY <1>11 DEF CheckSamples
  <2> QED BY <2>1, <1>11, InvLeave DEF CheckSamples
<1>12. ASSUME NEW h \in Handlers, NEW r \in Routes, NEW q \in Traffic,
              Accept(h, r, q)
       PROVE  Inv'
  BY <1>12, InvAccept
<1>13. ASSUME NEW h \in Handlers, Check(h)
       PROVE  Inv'
  BY <1>13, InvCheck
<1>14. ASSUME NEW h \in Handlers, Return(h)
       PROVE  Inv'
  BY <1>14, InvReturn
<1>15. CASE Close
  <2>1. exit \in {"none", "ok", "error", "killed"}
    BY DEF Inv, TypeOK
  <2> QED BY <1>15, <2>1, InvEnd DEF Close
<1>16. CASE Scrape \/ ScrapeEnds \/ UNCHANGED vars
  <2>1. TypeOK'
    BY <1>16 DEF Inv, TypeOK, Scrape, ScrapeEnds, vars
  <2>2. UNCHANGED <<command, phase, contracts, active, saving, opened, files,
                    accepted, taught, verdict>>
    BY <1>16 DEF Scrape, ScrapeEnds, vars
  <2>3. LearnsAll' /\ SavesDrained' /\ VerdictFresh' /\ OpenedWhileSaving'
    BY <2>2 DEF Inv, LearnsAll, Learns, Pending, SavesDrained, VerdictFresh,
                OpenedWhileSaving, Idle
  <2>4. FilesCover' /\ EnforcesCover' /\ LearnedAdmitted'
    BY <2>2, SameFiles DEF Inv
  <2> QED BY <2>1, <2>3, <2>4 DEF Inv
<1> QED BY <1>1, <1>2, <1>3, <1>4, <1>5, <1>6, <1>7, <1>8, <1>9, <1>10, <1>11,
           <1>12, <1>13, <1>14, <1>15, <1>16 DEF Next

(***************************************************************************)
(* The variables of Lifecycle keep their types: in particular a process    *)
(* never enforces a file that a crash or a failed write left torn          *)
(* (gateway.go:108-115).                                                   *)
(***************************************************************************)
THEOREM TypeCorrect == Spec => []TypeOK
<1>1. Inv => TypeOK
  BY DEF Inv
<1> QED BY <1>1, InvInit, InvNext, PTL DEF Spec

(***************************************************************************)
(* Learn, then enforce, for any routes, traffic, margin and level: what    *)
(* the run that saved a contract had accepted, the contract admits,        *)
(* through any crashes, failed saves and restarts (run.go, gateway.go,     *)
(* learn.go, violation.go).                                                *)
(***************************************************************************)
THEOREM LearnedIsAdmitted == Spec => []LearnedAdmitted
<1>1. Inv => LearnedAdmitted
  BY DEF Inv
<1> QED BY <1>1, InvInit, InvNext, PTL DEF Spec

-----------------------------------------------------------------------------
(***************************************************************************)
(* What klyr learn leaves in the files.  The contract of a route lists     *)
(* nothing but what was accepted on it and counts all of it but what is    *)
(* still in a handler; a file that was written, and not reached by another *)
(* route since, holds exactly that.                                        *)
(***************************************************************************)
ListsOnly(c, Q) ==
    /\ c.methods \subseteq {q.method : q \in Q}
    /\ c.ctypes \subseteq {q.ctype : q \in Q}
    /\ c.params \subseteq UNION {q.params : q \in Q}
    /\ c.headers \subseteq UNION {q.headers : q \in Q}
    /\ c.observedMax \in {q.body : q \in Q} \cup {0}

\* The handlers that have not reached the contract of r.
Waiting(r) ==
    {h \in Handlers : active[h] # None /\ active[h].route = r /\ ~active[h].checked}

Counts ==
    phase # "down" =>
        \A r \in Routes : Learns(r) =>
            /\ ListsOnly(contracts[r], accepted[r].sent)
            /\ IsFiniteSet(Waiting(r))
            /\ accepted[r].count = contracts[r].samples + Cardinality(Waiting(r))

FromAccepted ==
    \A h \in Handlers :
        active[h] # None /\ Learns(active[h].route) =>
            active[h].request \in accepted[active[h].route].sent

LimitSet ==
    phase = "saving" /\ opened =>
        contracts[saving].maxBody = contracts[saving].observedMax + Margin

Written(r) == phase = "checking" \/ r < saving

Reached(r) == Written(r) \/ (r = saving /\ opened)

Holds(r) ==
    LET c == files[PathOf[r]]
    IN  /\ c \in ContractType /\ Exactly(c, accepted[r].sent)
        /\ c.samples = accepted[r].count /\ c.samples = contracts[r].samples

SavedSoFar ==
    phase \in {"saving", "checking"} =>
        \A r \in Routes :
            Written(r) /\ (\A s \in Routes : PathOf[s] = PathOf[r] /\ Reached(s) => s <= r)
                => Holds(r)

SavedInv ==
    Inv /\ Counts /\ FromAccepted /\ LimitSet /\ SavedSoFar /\ SavedExactly

LEMMA ObservedOnly ==
    ASSUME NEW c \in ContractType, NEW Q \in SUBSET Request, NEW q \in Q,
           ListsOnly(c, Q)
    PROVE  ListsOnly(Observed(c, q), Q)
<1>1. Greater(q.body, c.observedMax) \in {q.body, c.observedMax}
  BY DEF Greater
<1> QED BY <1>1 DEF ListsOnly, Observed

LEMMA FinalizedOnly ==
    ASSUME NEW c \in ContractType, NEW Q, ListsOnly(c, Q)
    PROVE  /\ ListsOnly(Finalized(c, Margin), Q)
           /\ Finalized(c, Margin).samples = c.samples
           /\ Finalized(c, Margin).observedMax = c.observedMax
           /\ Finalized(c, Margin).maxBody = c.observedMax + Margin
<1>1. Greater(Margin, 0) = Margin
  BY RouteAssumption DEF Greater
<1> QED BY <1>1 DEF ListsOnly, Finalized, ContractType

\* A finalized contract that lists Q and nothing else comes back from its file
\* so.
LEMMA SavedIsExact ==
    ASSUME NEW c \in ContractType, NEW Q \in SUBSET Request,
           \A q \in Q : Lists(c, q), ListsOnly(c, Q),
           c.maxBody = c.observedMax + Margin
    PROVE  Exactly(Reloaded(c), Q) /\ Reloaded(c).samples = c.samples
<1> DEFINE d == Reloaded(c)
<1>1. /\ d.params = (c.params \cap PlainParams)
                        \cup {Replaced : p \in c.params \ PlainParams}
      /\ d.methods = c.methods /\ d.ctypes = c.ctypes /\ d.headers = c.headers
      /\ d.maxBody = c.maxBody /\ d.samples = c.samples
  BY DEF Reloaded, ContractType
<1> HIDE DEF d
<1>2. d.methods = {q.method : q \in Q}
  BY <1>1 DEF Lists, ListsOnly
<1>3. d.ctypes = {q.ctype : q \in Q} \ {NoType}
  <2>1. NoType \notin c.ctypes
    BY TypeAssumption DEF ContractType
  <2> QED BY <1>1, <2>1 DEF Lists, ListsOnly
<1>4. d.headers = UNION {q.headers : q \in Q}
  BY <1>1 DEF Lists, ListsOnly
<1>5. (d.params \cap PlainParams) \ {Replaced}
        = ((UNION {q.params : q \in Q}) \cap PlainParams) \ {Replaced}
  <2>1. (d.params \cap PlainParams) \ {Replaced}
          = (c.params \cap PlainParams) \ {Replaced}
    BY <1>1
  <2>2. c.params \cap PlainParams = (UNION {q.params : q \in Q}) \cap PlainParams
    BY DEF Lists, ListsOnly
  <2> QED BY <2>1, <2>2
<1>6. Margin \in Nat /\ c.observedMax \in Nat
  BY RouteAssumption DEF ContractType
<1>7. \A q \in Q : q.body \in Nat /\ q.body <= c.observedMax
  BY DEF Request, Lists
<1>8. \A q \in Q : q.body + Margin <= d.maxBody
  BY <1>1, <1>6, <1>7
<1>9. d.maxBody \in {q.body + Margin : q \in Q} \cup {Margin}
  <2>1. CASE c.observedMax = 0
    BY <1>1, <1>6, <2>1
  <2>2. CASE c.observedMax # 0
    <3>1. PICK q \in Q : q.body = c.observedMax
      BY <2>2 DEF ListsOnly
    <3> QED BY <1>1, <3>1
  <2> QED BY <2>1, <2>2
<1>10. Exactly(d, Q)
  BY <1>2, <1>3, <1>4, <1>5, <1>8, <1>9 DEF Exactly
<1> QED BY <1>1, <1>10 DEF d

-----------------------------------------------------------------------------
LEMMA SavedInit == Init => SavedInv
<1> SUFFICES ASSUME Init PROVE SavedInv
  OBVIOUS
<1>1. Inv
  BY InvInit
<1>2. /\ phase = "down" /\ exit = "none" /\ ~opened
      /\ \A h \in Handlers : active[h] = None
  BY DEF Init
<1> QED BY <1>1, <1>2
        DEF SavedInv, Counts, FromAccepted, LimitSet, SavedSoFar, SavedExactly

\* runGateway returns well after learning with every file as it should be.
LEMMA SavedLeave ==
    ASSUME SavedInv, Inv', NEW where \in {"failing", "closing"}, NEW how,
           Leave(where, how), phase # "down", UNCHANGED files,
           how = "ok" /\ command = "learn" =>
                \A r \in Routes : Last(r) =>
                    Holds(r) /\ files[PathOf[r]].samples >= MinSamples[r]
    PROVE  SavedInv'
<1>1. /\ phase' = where /\ exit' = how
      /\ UNCHANGED <<command, contracts, active, accepted, files>>
  BY DEF Leave
<1>2. SavedExactly'
  <2> SUFFICES ASSUME how = "ok", command = "learn", NEW r \in Routes, Last(r)
               PROVE  /\ files[PathOf[r]] \in ContractType
                      /\ Exactly(files[PathOf[r]], accepted[r].sent)
                      /\ files[PathOf[r]].samples = accepted[r].count
                      /\ files[PathOf[r]].samples >= MinSamples[r]
    BY <1>1 DEF SavedExactly, Last, Exactly
  <2> QED BY DEF Holds
<1>3. Counts' /\ FromAccepted'
  BY <1>1 DEF SavedInv, Counts, FromAccepted, Learns, Waiting
<1>4. LimitSet' /\ SavedSoFar'
  BY <1>1 DEF LimitSet, SavedSoFar
<1> QED BY <1>2, <1>3, <1>4 DEF SavedInv

\* Ending keeps the files as they were when runGateway returned.
LEMMA SavedEnd ==
    ASSUME SavedInv, Inv', NEW how, End(how), UNCHANGED files,
           how = "ok" => phase = "closing" /\ exit = "ok"
    PROVE  SavedInv'
<1>1. /\ phase' = "down" /\ exit' = how /\ UNCHANGED <<command, accepted, files>>
      /\ \A h \in Handlers : active'[h] = None
  BY DEF End
<1>2. SavedExactly'
  BY <1>1 DEF SavedInv, SavedExactly, Last, Exactly
<1>3. Counts' /\ FromAccepted' /\ LimitSet' /\ SavedSoFar'
  BY <1>1 DEF Counts, FromAccepted, LimitSet, SavedSoFar
<1> QED BY <1>2, <1>3 DEF SavedInv

\* When connections are left open, runGateway returns an error.
Failed == phase = "failing" => exit = "error"

LEMMA FailedNext == Failed /\ [Next]_vars => Failed'
<1> SUFFICES ASSUME Failed, [Next]_vars PROVE Failed'
  OBVIOUS
<1>1. ASSUME NEW cmd \in {"learn", "enforce", "run"}, Start(cmd) \/ RefuseStart(cmd)
      PROVE  Failed'
  BY <1>1 DEF Failed, Start, RefuseStart
<1>2. CASE ServeFails \/ DrainTimeout \/ SaveFails \/ CheckSamples \/ Drained
  BY <1>2 DEF Failed, ServeFails, DrainTimeout, SaveFails, CheckSamples, Drained, Leave
<1>3. CASE Kill \/ Close
  BY <1>3 DEF Failed, Kill, Close, End
<1>4. CASE Drain \/ Open \/ Write
  BY <1>4 DEF Failed, Drain, Open, Write
<1>5. CASE Scrape \/ ScrapeEnds \/ UNCHANGED vars
  BY <1>5 DEF Failed, Scrape, ScrapeEnds, vars
<1>6. ASSUME NEW h \in Handlers, NEW r \in Routes, NEW q \in Traffic, Accept(h, r, q)
      PROVE  Failed'
  BY <1>6 DEF Failed, Accept
<1>7. ASSUME NEW h \in Handlers, Check(h) \/ Return(h)
      PROVE  Failed'
  BY <1>7 DEF Failed, Check, Return
<1> QED BY <1>1, <1>2, <1>3, <1>4, <1>5, <1>6, <1>7 DEF Next

LEMMA SavedStart ==
    ASSUME SavedInv, Inv', NEW cmd \in {"learn", "enforce", "run"}, Start(cmd)
    PROVE  SavedInv'
<1>1. /\ phase = "down" /\ phase' = "serving" /\ command' = cmd
      /\ UNCHANGED <<active, files>>
      /\ contracts' = [r \in Routes |-> Initial(cmd, r)]
      /\ accepted' = [r \in Routes |-> NothingYet]
  BY DEF Start
<1>2. \A h \in Handlers : active'[h] = None
  BY <1>1 DEF SavedInv, Inv, VerdictFresh, Idle
<1>3. Counts'
  <2> SUFFICES ASSUME NEW r \in Routes, ModeUnder(cmd, r) = "learn"
               PROVE  /\ ListsOnly(contracts'[r], accepted'[r].sent)
                      /\ IsFiniteSet(Waiting(r)')
                      /\ accepted'[r].count
                            = contracts'[r].samples + Cardinality(Waiting(r)')
    BY <1>1 DEF Counts, Learns
  <2>1. contracts'[r] = NewContract /\ accepted'[r] = NothingYet
    BY <1>1 DEF Initial
  <2>2. Waiting(r)' = {}
    BY <1>2 DEF Waiting
  <2>3. IsFiniteSet({}) /\ Cardinality({}) = 0
    BY FS_EmptySet
  <2>4. NewContract.samples = 0 /\ NothingYet.count = 0
    BY DEF NewContract, NothingYet
  <2>5. ListsOnly(contracts'[r], accepted'[r].sent)
    BY <2>1 DEF ListsOnly, NewContract, NothingYet
  <2> QED BY <2>1, <2>2, <2>3, <2>4, <2>5
<1>4. FromAccepted' /\ LimitSet' /\ SavedSoFar' /\ SavedExactly'
  BY <1>1, <1>2 DEF FromAccepted, LimitSet, SavedSoFar, SavedExactly
<1> QED BY <1>3, <1>4 DEF SavedInv

LEMMA SavedRefuseStart ==
    ASSUME SavedInv, Inv', NEW cmd \in {"learn", "enforce", "run"}, RefuseStart(cmd)
    PROVE  SavedInv'
<1>1. phase = "down" /\ phase' = "down" /\ exit' = "error" /\ UNCHANGED active
  BY DEF RefuseStart
<1>2. \A h \in Handlers : active'[h] = None
  BY <1>1 DEF SavedInv, Inv, VerdictFresh, Idle
<1> QED BY <1>1, <1>2
        DEF SavedInv, Counts, FromAccepted, LimitSet, SavedSoFar, SavedExactly

LEMMA SavedAccept ==
    ASSUME SavedInv, Inv', NEW h \in Handlers, NEW r \in Routes, NEW q \in Traffic,
           Accept(h, r, q)
    PROVE  SavedInv'
<1> DEFINE task == [route |-> r, request |-> q, checked |-> FALSE]
<1>1. /\ phase \in {"serving", "draining", "failing"} /\ phase' = phase /\ active[h] = None
      /\ UNCHANGED <<command, contracts>>
      /\ active' = [active EXCEPT ![h] = task]
      /\ active \in [Handlers -> Handling \cup {None}]
      /\ accepted \in [Routes -> Accepted]
  BY DEF Accept, SavedInv, Inv, TypeOK
<1>2. /\ active'[h] = task /\ task # None /\ task.route = r /\ task.request = q
      /\ \A g \in Handlers : g # h => active'[g] = active[g]
  <2>1. task \in Handling
    BY DEF Handling
  <2>2. task # None
    BY <2>1, ValueAssumption
  <2> QED BY <1>1, <2>2
<1>3. ~task.checked
  BY Zenon
<1> HIDE DEF task
<1>4. \A s \in Routes : Learns(s)' <=> Learns(s)
  BY <1>1 DEF Learns
<1>5. /\ \A s \in Routes : s # r => accepted'[s] = accepted[s]
      /\ accepted[r].sent \subseteq accepted'[r].sent
      /\ Learns(r) => /\ accepted'[r].sent = accepted[r].sent \cup {q}
                      /\ accepted'[r].count = accepted[r].count + 1
  BY <1>1 DEF Accept
<1>6. Counts'
  <2> SUFFICES ASSUME NEW s \in Routes, Learns(s)
               PROVE  /\ ListsOnly(contracts[s], accepted'[s].sent)
                      /\ IsFiniteSet(Waiting(s)')
                      /\ accepted'[s].count
                            = contracts[s].samples + Cardinality(Waiting(s)')
    BY <1>1, <1>4 DEF Counts
  <2>1. /\ ListsOnly(contracts[s], accepted[s].sent)
        /\ IsFiniteSet(Waiting(s))
        /\ accepted[s].count = contracts[s].samples + Cardinality(Waiting(s))
        /\ contracts[s].samples \in Nat
    BY <1>1 DEF SavedInv, Counts, Inv, LearnsAll, ContractType
  <2>2. CASE s # r
    <3>1. Waiting(s)' = Waiting(s)
      BY <1>1, <1>2, <2>2 DEF Waiting
    <3> QED BY <1>5, <2>1, <2>2, <3>1
  <2>3. CASE s = r
    <3>1. Waiting(s)' = Waiting(s) \cup {h} /\ h \notin Waiting(s)
      BY <1>1, <1>2, <1>3, <2>3 DEF Waiting
    <3>2. PICK W : W = Waiting(s)
      OBVIOUS
    <3>3. /\ IsFiniteSet(W \cup {h})
          /\ Cardinality(W \cup {h}) = Cardinality(W) + 1
          /\ Cardinality(W) \in Nat
      BY <2>1, <3>1, <3>2, FS_AddElement, FS_CardinalityType
    <3>4. ListsOnly(contracts[s], accepted'[s].sent)
      BY <1>5, <2>1, <2>3 DEF ListsOnly
    <3>5. accepted'[s].count = accepted[s].count + 1
      BY <1>5, <2>3
    <3> QED BY <2>1, <3>1, <3>2, <3>3, <3>4, <3>5
  <2> QED BY <2>2, <2>3
<1>7. FromAccepted'
  <2> SUFFICES ASSUME NEW g \in Handlers, active'[g] # None,
                      NEW s, s = active'[g].route, Learns(s)
               PROVE  active'[g].request \in accepted'[s].sent
    BY <1>1 DEF FromAccepted, Learns
  <2>1. CASE g = h
    BY <1>2, <1>5, <2>1
  <2>2. CASE g # h
    <3>1. active'[g] = active[g] /\ s \in Routes
      BY <1>1, <1>2, <2>2 DEF Handling
    <3>2. active[g].request \in accepted[s].sent
      BY <3>1 DEF SavedInv, FromAccepted
    <3> QED BY <1>5, <3>1, <3>2
  <2> QED BY <2>1, <2>2
<1>8. LimitSet' /\ SavedSoFar' /\ SavedExactly'
  BY <1>1 DEF LimitSet, SavedSoFar, SavedExactly
<1> QED BY <1>6, <1>7, <1>8 DEF SavedInv

LEMMA SavedCheck ==
    ASSUME SavedInv, Inv', NEW h \in Handlers, Check(h)
    PROVE  SavedInv'
<1>1. /\ active[h] # None /\ ~active[h].checked
      /\ UNCHANGED <<command, phase, accepted>>
      /\ active \in [Handlers -> Handling \cup {None}]
      /\ contracts \in [Routes -> ContractType \cup {None}]
      /\ accepted \in [Routes -> Accepted]
  BY DEF Check, SavedInv, Inv, TypeOK
<1>2. PICK r \in Routes, q \in Traffic :
        active[h] = [route |-> r, request |-> q, checked |-> FALSE]
  <2>1. active[h] \in Handling
    BY <1>1
  <2>2. PICK r \in Routes, q \in Traffic, b \in BOOLEAN :
          active[h] = [route |-> r, request |-> q, checked |-> b]
    BY <2>1 DEF Handling
  <2>3. active[h].checked = b
    BY <2>2
  <2>4. b = FALSE
    BY <1>1, <2>3
  <2> QED BY <2>2, <2>4
<1>3. active[h].route = r /\ active[h].request = q
  BY <1>2
<1>4. /\ active' = [active EXCEPT ![h] = [route |-> r, request |-> q, checked |-> TRUE]]
      /\ contracts' = [contracts EXCEPT ![r] =
                          IF Learns(r) THEN Observed(@, q) ELSE @]
  BY <1>3 DEF Check
<1>5. PICK done : done = [route |-> r, request |-> q, checked |-> TRUE]
  OBVIOUS
<1>6. /\ done.route = r /\ done.request = q /\ done.checked
      /\ active'[h] = done /\ \A g \in Handlers : g # h => active'[g] = active[g]
  BY <1>1, <1>4, <1>5
<1>7. /\ phase # "down" /\ phase \notin {"saving", "checking"}
      /\ active'[h] # None
  <2>1. ~Idle
    BY <1>1 DEF Idle
  <2>2. done \in Handling
    BY <1>5 DEF Handling
  <2> QED BY <1>6, <2>1, <2>2, ValueAssumption
          DEF SavedInv, Inv, SavesDrained, VerdictFresh
<1>8. Counts'
  <2> SUFFICES ASSUME NEW s \in Routes, Learns(s)
               PROVE  /\ ListsOnly(contracts'[s], accepted[s].sent)
                      /\ IsFiniteSet(Waiting(s)')
                      /\ accepted[s].count
                            = contracts'[s].samples + Cardinality(Waiting(s)')
    BY <1>1 DEF Counts, Learns
  <2>1. /\ ListsOnly(contracts[s], accepted[s].sent)
        /\ IsFiniteSet(Waiting(s))
        /\ accepted[s].count = contracts[s].samples + Cardinality(Waiting(s))
        /\ contracts[s] \in ContractType /\ contracts[s].samples \in Nat
    BY <1>7 DEF SavedInv, Counts, Inv, LearnsAll, ContractType
  <2>2. CASE s # r
    <3>1. Waiting(s)' = Waiting(s)
      BY <1>3, <1>6, <2>2 DEF Waiting
    <3>2. contracts'[s] = contracts[s]
      BY <1>1, <1>4, <2>2
    <3> QED BY <2>1, <3>1, <3>2
  <2>3. CASE s = r
    <3>1. Waiting(s)' = Waiting(s) \ {h} /\ h \in Waiting(s)
      BY <1>1, <1>3, <1>6, <2>3 DEF Waiting
    <3>2. PICK W : W = Waiting(s)
      OBVIOUS
    <3>3. /\ IsFiniteSet(W \ {h})
          /\ Cardinality(W \ {h}) = Cardinality(W) - 1
          /\ Cardinality(W) \in Nat
      BY <2>1, <3>1, <3>2, FS_RemoveElement, FS_CardinalityType
    <3>4. contracts'[s] = Observed(contracts[s], q)
      BY <1>1, <1>4, <2>3
    <3>5. contracts'[s].samples = contracts[s].samples + 1
      BY <3>4 DEF Observed
    <3>6. ListsOnly(contracts'[s], accepted[s].sent)
      <4>1. q \in accepted[s].sent
        BY <1>1, <1>3, <2>3 DEF SavedInv, FromAccepted
      <4>2. accepted[s].sent \in SUBSET Request
        BY <1>1, TrafficRequests
      <4> QED BY <2>1, <3>4, <4>1, <4>2, ObservedOnly
    <3> QED BY <2>1, <3>1, <3>2, <3>3, <3>5, <3>6
  <2> QED BY <2>2, <2>3
<1>9. FromAccepted'
  <2> SUFFICES ASSUME NEW g \in Handlers, active'[g] # None,
                      NEW s, s = active'[g].route, Learns(s)
               PROVE  active'[g].request \in accepted[s].sent
    BY <1>1 DEF FromAccepted, Learns
  <2>1. active[g] # None /\ active[g].route = s /\ active[g].request = active'[g].request
    BY <1>1, <1>3, <1>6
  <2> QED BY <2>1 DEF SavedInv, FromAccepted
<1>10. LimitSet' /\ SavedSoFar'
  BY <1>1, <1>7 DEF LimitSet, SavedSoFar
<1>11. SavedExactly'
  BY DEF Check, SavedInv, SavedExactly, Last, Exactly
<1> QED BY <1>8, <1>9, <1>10, <1>11 DEF SavedInv

\* The steps that touch neither a file, nor a contract, nor what is accepted.
LEMMA SavedQuiet ==
    ASSUME SavedInv, Inv',
           UNCHANGED <<command, exit, contracts, saving, opened, files, accepted>>,
           phase' = phase \/ (phase = "serving" /\ phase' = "draining"),
           \A r \in Routes : Waiting(r)' = Waiting(r),
           \A h \in Handlers : active'[h] # None => active'[h] = active[h]
    PROVE  SavedInv'
<1>1. Counts'
  BY DEF SavedInv, Counts, Learns
<1>2. FromAccepted'
  BY DEF SavedInv, FromAccepted, Learns
<1>3. LimitSet' /\ SavedExactly'
  BY DEF SavedInv, LimitSet, SavedExactly, Last, Exactly
<1>4. SavedSoFar'
  BY DEF SavedInv, SavedSoFar, Written, Reached, Holds, Exactly
<1> QED BY <1>1, <1>2, <1>3, <1>4 DEF SavedInv

LEMMA SavedReturn ==
    ASSUME SavedInv, Inv', NEW h \in Handlers, Return(h)
    PROVE  SavedInv'
<1>1. /\ active[h].checked
      /\ active' = [active EXCEPT ![h] = None]
      /\ active \in [Handlers -> Handling \cup {None}]
      /\ UNCHANGED <<command, phase, exit, contracts, saving, opened, files, accepted>>
  BY DEF Return, SavedInv, Inv, TypeOK
<1>2. /\ active'[h] = None
      /\ \A g \in Handlers : g # h => active'[g] = active[g]
  BY <1>1
<1>3. \A r \in Routes : Waiting(r)' = Waiting(r)
  BY <1>1, <1>2 DEF Waiting
<1> QED BY <1>1, <1>2, <1>3, SavedQuiet

\* Once the handlers are done, the contract of a route lists and counts all
\* that was accepted on it.
LEMMA SavesAll ==
    ASSUME SavedInv, phase \in {"saving", "checking"}, NEW r \in Routes
    PROVE  /\ contracts[r] \in ContractType
           /\ accepted[r].sent \in SUBSET Request
           /\ \A q \in accepted[r].sent : Lists(contracts[r], q)
           /\ ListsOnly(contracts[r], accepted[r].sent)
           /\ accepted[r].count = contracts[r].samples
<1>1. /\ Idle /\ Learns(r) /\ accepted[r] \in Accepted
  BY LearnsOnly DEF SavedInv, Inv, SavesDrained, TypeOK
<1>2. /\ contracts[r] \in ContractType
      /\ \A q \in accepted[r].sent : Lists(contracts[r], q)
  BY <1>1 DEF SavedInv, Inv, LearnsAll, Pending, Idle
<1>3. Waiting(r) = {}
  BY <1>1 DEF Waiting, Idle
<1>4. Cardinality(Waiting(r)) = 0
  BY <1>3, FS_EmptySet
<1>5. /\ ListsOnly(contracts[r], accepted[r].sent)
      /\ accepted[r].count = contracts[r].samples + Cardinality(Waiting(r))
  BY <1>1 DEF SavedInv, Counts
<1>6. contracts[r].samples \in Nat
  BY <1>2 DEF ContractType
<1> QED BY <1>1, <1>2, <1>4, <1>5, <1>6, TrafficRequests

LEMMA SavedDrained ==
    ASSUME SavedInv, Inv', Drained
    PROVE  SavedInv'
<1>1. CASE command # "learn"
  BY <1>1, SavedLeave DEF Drained
<1>2. CASE command = "learn"
  <2>1. /\ phase = "draining" /\ phase' = "saving" /\ saving' = 1
        /\ UNCHANGED <<command, contracts, active, opened, files, accepted>>
    BY <1>2 DEF Drained
  <2>2. ~opened
    BY <2>1 DEF SavedInv, Inv, OpenedWhileSaving
  <2>3. Counts' /\ FromAccepted'
    BY <2>1 DEF SavedInv, Counts, FromAccepted, Learns, Waiting
  <2>4. \A r \in Routes : ~(r < 1)
    BY RouteAssumption DEF Routes
  <2>5. LimitSet' /\ SavedSoFar' /\ SavedExactly'
    BY <2>1, <2>2, <2>4 DEF LimitSet, SavedSoFar, SavedExactly, Written
  <2> QED BY <2>3, <2>5 DEF SavedInv
<1> QED BY <1>1, <1>2

LEMMA SavedOpen ==
    ASSUME SavedInv, Inv', Open
    PROVE  SavedInv'
<1> DEFINE c == Finalized(contracts[saving], Margin)
<1>1. /\ phase = "saving" /\ ~opened /\ opened' = TRUE
      /\ contracts' = [contracts EXCEPT ![saving] = c]
      /\ files' = [files EXCEPT ![PathOf[saving]] = Torn]
      /\ UNCHANGED <<command, phase, exit, active, saving, accepted>>
      /\ saving \in Routes /\ PathOf \in [Routes -> Paths]
      /\ contracts \in [Routes -> ContractType \cup {None}]
      /\ files \in [Paths -> ContractType \cup {Absent, Torn}]
  BY RouteAssumption DEF Open, SavedInv, Inv, SavesDrained, TypeOK
<1>2. /\ ListsOnly(c, accepted[saving].sent)
      /\ c.samples = contracts[saving].samples
      /\ c.maxBody = c.observedMax + Margin
  BY <1>1, SavesAll, FinalizedOnly
<1> HIDE DEF c
<1>3. /\ contracts'[saving] = c
      /\ \A r \in Routes : r # saving => contracts'[r] = contracts[r]
      /\ \A p \in Paths : p # PathOf[saving] => files'[p] = files[p]
  BY <1>1
<1>4. Counts'
  <2> SUFFICES ASSUME NEW r \in Routes, Learns(r)
               PROVE  /\ ListsOnly(contracts'[r], accepted[r].sent)
                      /\ IsFiniteSet(Waiting(r))
                      /\ accepted[r].count
                            = contracts'[r].samples + Cardinality(Waiting(r))
    BY <1>1 DEF Counts, Learns, Waiting
  <2>1. /\ ListsOnly(contracts[r], accepted[r].sent)
        /\ IsFiniteSet(Waiting(r))
        /\ accepted[r].count = contracts[r].samples + Cardinality(Waiting(r))
    BY <1>1 DEF SavedInv, Counts
  <2>2. CASE r = saving
    BY <1>2, <1>3, <2>1, <2>2
  <2>3. CASE r # saving
    BY <1>3, <2>1, <2>3
  <2> QED BY <2>2, <2>3
<1>5. FromAccepted' /\ SavedExactly'
  BY <1>1 DEF SavedInv, FromAccepted, Learns, SavedExactly
<1>6. LimitSet'
  BY <1>1, <1>2, <1>3 DEF LimitSet
<1>7. SavedSoFar'
  <2> SUFFICES ASSUME NEW r \in Routes, Written(r)',
                      \A s \in Routes : PathOf[s] = PathOf[r] /\ Reached(s)' => s <= r
               PROVE  Holds(r)'
    BY DEF SavedSoFar
  <2>1. r < saving /\ Reached(saving)'
    BY <1>1 DEF Written, Reached
  <2>2. PathOf[r] # PathOf[saving] /\ r # saving
    BY <1>1, <2>1 DEF Routes
  <2>3. files'[PathOf[r]] = files[PathOf[r]] /\ contracts'[r] = contracts[r]
    BY <1>1, <1>3, <2>2
  <2>4. \A s \in Routes : Reached(s) => Reached(s)'
    BY <1>1 DEF Reached, Written
  <2>5. Holds(r)
    BY <1>1, <2>1, <2>4 DEF SavedInv, SavedSoFar, Written
  <2> QED BY <1>1, <2>3, <2>5 DEF Holds, Exactly
<1> QED BY <1>4, <1>5, <1>6, <1>7 DEF SavedInv

LEMMA SavedWrite ==
    ASSUME SavedInv, Inv', Write
    PROVE  SavedInv'
<1> DEFINE c == Reloaded(contracts[saving])
<1>1. /\ phase = "saving" /\ opened /\ opened' = FALSE
      /\ files' = [files EXCEPT ![PathOf[saving]] = c]
      /\ \/ phase' = "saving" /\ saving < NumRoutes /\ saving' = saving + 1
         \/ phase' = "checking" /\ saving' = 0 /\ ~(saving < NumRoutes)
      /\ UNCHANGED <<command, exit, contracts, active, accepted>>
      /\ saving \in Routes /\ PathOf \in [Routes -> Paths]
      /\ files \in [Paths -> ContractType \cup {Absent, Torn}]
  BY RouteAssumption DEF Write, SavedInv, Inv, SavesDrained, TypeOK
<1>2. /\ c \in ContractType /\ Exactly(c, accepted[saving].sent)
      /\ c.samples = contracts[saving].samples
      /\ accepted[saving].count = contracts[saving].samples
  <2>1. contracts[saving].maxBody = contracts[saving].observedMax + Margin
    BY <1>1 DEF SavedInv, LimitSet
  <2> QED BY <1>1, <2>1, SavesAll, SavedIsExact, ReloadedCovers
<1> HIDE DEF c
<1>3. /\ files'[PathOf[saving]] = c
      /\ \A p \in Paths : p # PathOf[saving] => files'[p] = files[p]
  BY <1>1
<1>4. Counts' /\ FromAccepted' /\ LimitSet' /\ SavedExactly'
  BY <1>1 DEF SavedInv, Counts, FromAccepted, Learns, Waiting, LimitSet, SavedExactly
<1>5. \A r \in Routes : /\ Written(r)' <=> r <= saving
                        /\ Written(r) <=> r < saving
  BY <1>1, RouteAssumption DEF Written, Routes
<1>6. SavedSoFar'
  <2> SUFFICES ASSUME NEW r \in Routes, Written(r)',
                      \A s \in Routes : PathOf[s] = PathOf[r] /\ Reached(s)' => s <= r
               PROVE  Holds(r)'
    BY DEF SavedSoFar
  <2>1. CASE r = saving
    BY <1>1, <1>2, <1>3, <2>1 DEF Holds, Exactly
  <2>2. CASE r # saving
    <3>1. PICK m \in Routes : m = saving
      BY <1>1
    <3>2. /\ r < m /\ Reached(m)' /\ PathOf[r] # PathOf[m]
      <4>1. Written(m)' /\ r < m
        BY <1>1, <1>5, <2>2, <3>1 DEF Routes
      <4>2. Reached(m)'
        BY <4>1 DEF Reached
      <4> QED BY <4>1, <4>2 DEF Routes
    <3>3. files'[PathOf[r]] = files[PathOf[r]]
      BY <1>1, <1>3, <3>1, <3>2
    <3>4. \A s \in Routes : Reached(s) => Reached(s)'
      BY <1>1, <1>5 DEF Reached, Routes
    <3>5. Holds(r)
      BY <1>1, <1>5, <3>1, <3>2, <3>4 DEF SavedInv, SavedSoFar
    <3> QED BY <1>1, <3>3, <3>5 DEF Holds, Exactly
  <2> QED BY <2>1, <2>2
<1> QED BY <1>4, <1>6 DEF SavedInv

LEMMA SavedCheckSamples ==
    ASSUME SavedInv, Inv', CheckSamples
    PROVE  SavedInv'
<1>1. phase = "checking" /\ UNCHANGED files
  BY DEF CheckSamples
<1>2. PICK how : /\ Leave("closing", how)
                 /\ how = "ok" => \A r \in Routes : Enough(r)
  BY DEF CheckSamples
<1>3. ASSUME how = "ok", NEW r \in Routes, Last(r)
      PROVE  Holds(r) /\ files[PathOf[r]].samples >= MinSamples[r]
  <2>1. Holds(r)
    BY <1>1, <1>3 DEF Last, Written, SavedInv, SavedSoFar
  <2>2. files[PathOf[r]].samples = contracts[r].samples /\ Enough(r)
    BY <1>2, <1>3, <2>1 DEF Holds
  <2>3. contracts[r].samples \in Nat
    BY <1>1, SavesAll DEF ContractType
  <2>4. MinSamples[r] \in Nat
    BY RouteAssumption
  <2> QED BY <2>1, <2>2, <2>3, <2>4 DEF Enough
<1> QED BY <1>1, <1>2, <1>3, SavedLeave

LEMMA SavedNext == SavedInv /\ Failed /\ [Next]_vars => SavedInv'
<1> SUFFICES ASSUME SavedInv, Failed, [Next]_vars PROVE SavedInv'
  OBVIOUS
<1>0. Inv'
  BY InvNext DEF SavedInv
<1>1. ASSUME NEW cmd \in {"learn", "enforce", "run"}, Start(cmd)
      PROVE  SavedInv'
  BY <1>0, <1>1, SavedStart
<1>2. ASSUME NEW cmd \in {"learn", "enforce", "run"}, RefuseStart(cmd)
      PROVE  SavedInv'
  BY <1>0, <1>2, SavedRefuseStart
<1>3. CASE ServeFails
  BY <1>0, <1>3, SavedLeave DEF ServeFails
<1>4. CASE Kill
  BY <1>0, <1>4, SavedEnd DEF Kill
<1>5. CASE Drain
  BY <1>0, <1>5, SavedQuiet DEF Drain, Waiting
<1>6. CASE Drained
  BY <1>0, <1>6, SavedDrained
<1>7. CASE DrainTimeout
  BY <1>0, <1>7, SavedLeave DEF DrainTimeout
<1>8. CASE Open
  BY <1>0, <1>8, SavedOpen
<1>9. CASE Write
  BY <1>0, <1>9, SavedWrite
<1>10. CASE SaveFails
  BY <1>0, <1>10, SavedLeave DEF SaveFails
<1>11. CASE CheckSamples
  BY <1>0, <1>11, SavedCheckSamples
<1>12. ASSUME NEW h \in Handlers, NEW r \in Routes, NEW q \in Traffic,
              Accept(h, r, q)
       PROVE  SavedInv'
  BY <1>0, <1>12, SavedAccept
<1>13. ASSUME NEW h \in Handlers, Check(h)
       PROVE  SavedInv'
  BY <1>0, <1>13, SavedCheck
<1>14. ASSUME NEW h \in Handlers, Return(h)
       PROVE  SavedInv'
  BY <1>0, <1>14, SavedReturn
<1>15. CASE Close
  BY <1>0, <1>15, SavedEnd DEF Close, Failed
<1>16. CASE Scrape \/ ScrapeEnds \/ UNCHANGED vars
  BY <1>0, <1>16, SavedQuiet DEF Scrape, ScrapeEnds, vars, Waiting
<1> QED BY <1>1, <1>2, <1>3, <1>4, <1>5, <1>6, <1>7, <1>8, <1>9, <1>10, <1>11,
           <1>12, <1>13, <1>14, <1>15, <1>16 DEF Next

(***************************************************************************)
(* When klyr learn returns without an error, each file holds exactly what  *)
(* the run accepted on the last route saved to it, requests in flight at   *)
(* the signal included, and enough of it; for any routes that share files  *)
(* in any way (run.go:114-129).                                            *)
(***************************************************************************)
THEOREM SavedAllOfIt == Spec => []SavedExactly
<1>1. SavedInv => SavedExactly
  BY DEF SavedInv
<1>2. Init => Failed
  BY DEF Init, Failed
<1> QED BY <1>1, <1>2, SavedInit, SavedNext, FailedNext, PTL DEF Spec
=============================================================================
