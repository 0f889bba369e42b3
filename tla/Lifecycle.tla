----------------------------- MODULE Lifecycle -----------------------------
(***************************************************************************)
(* cmd/klyr/run.go, learn.go and enforce.go over internal/gateway's New    *)
(* and SaveContracts and internal/contract's storage.go: one klyr process  *)
(* after another on the same machine, learning contracts, saving them to   *)
(* files and enforcing what the files hold.                                *)
(*                                                                         *)
(* A process serves, drains its handlers, and, when it was started as      *)
(* klyr learn, saves one contract per route and then checks that each has  *)
(* enough samples.  However runGateway returns, the metrics server it has  *)
(* started is shut down last, and that waits for its connections.  A       *)
(* handler's use of its route's contract is one step here; ContractLearn   *)
(* takes it apart.                                                         *)
(***************************************************************************)
EXTENDS Contract

CONSTANTS
    NumRoutes,  \* the routes of the configuration are 1..NumRoutes
    Paths,      \* contract files
    PathOf,     \* the contract path of the policy of each route
    ModeOf,     \* the configured mode of the policy of each route
    MinSamples, \* the minSamples of the policy of each route
    Level,      \* the enforcement level
    Margin,     \* defaultBodyMarginBytes
    Traffic,    \* the requests clients send
    Handlers,   \* handler goroutines
    None,       \* no contract, no request
    Absent,     \* there is no such file
    Torn,       \* a file that is not a whole JSON object
    MaxRuns,    \* bound: processes started
    MaxAccepts  \* bound: requests a learning process accepts on a route

Routes == 1..NumRoutes

Modes == {"learn", "enforce", "shadow"}

ASSUME RouteAssumption ==
    /\ NumRoutes \in Nat \ {0} /\ Margin \in Nat
    /\ PathOf \in [Routes -> Paths]
    /\ ModeOf \in [Routes -> Modes]
    /\ MinSamples \in [Routes -> Nat]
    /\ Level \in Levels
    /\ Traffic \subseteq Request

\* A handler goroutine with a request, before and after checkContract.
Handling == [route : Routes, request : Traffic, checked : BOOLEAN]

ASSUME ValueAssumption ==
    /\ {None, Absent, Torn} \cap ContractType = {}
    /\ None \notin Handling

VARIABLES
    command,   \* the command of the running, or of the last, process
    phase,     \* where runGateway is, or "down" when there is no process
    exit,      \* what runGateway returns, or how the process ended
    scraping,  \* a /metrics connection is not idle
    contracts, \* Gateway.contracts, by route
    active,    \* what each handler goroutine is doing
    saving,    \* SaveContracts: the route it is at
    opened,    \* SaveContracts: that route's file is open and truncated
    files,     \* the contract files
    \* For the bounds and the properties only:
    runs,      \* processes started
    accepted,  \* the requests this, or the last, process accepted for
               \* learning on each route: which, and how many
    taught,    \* the requests accepted by the run that saved each contract
    verdict    \* the latest enforcement: route, request, violations

vars == <<command, phase, exit, scraping, contracts, active, saving, opened,
          files, runs, accepted, taught, verdict>>

Accepted == [sent : SUBSET Traffic, count : Nat]

TypeOK ==
    /\ command \in {"none", "learn", "enforce", "run"}
    /\ phase \in {"down", "serving", "draining", "saving", "checking",
                  "failing", "closing"}
    /\ exit \in {"none", "ok", "error", "killed"}
    /\ scraping \in BOOLEAN
    /\ contracts \in [Routes -> ContractType \cup {None}]
    /\ active \in [Handlers -> Handling \cup {None}]
    /\ saving \in Routes \cup {0} /\ opened \in BOOLEAN
    /\ files \in [Paths -> ContractType \cup {Absent, Torn}]
    /\ runs \in Nat
    /\ accepted \in [Routes -> Accepted]
    /\ taught \in [Routes -> SUBSET Traffic]

NothingYet == [sent |-> {}, count |-> 0]

Init ==
    /\ command = "none" /\ phase = "down" /\ exit = "none" /\ scraping = FALSE
    /\ contracts = [r \in Routes |-> None]
    /\ active = [h \in Handlers |-> None]
    /\ saving = 0 /\ opened = FALSE
    /\ files = [p \in Paths |-> Absent]
    /\ runs = 0
    /\ accepted = [r \in Routes |-> NothingYet]
    /\ taught = [r \in Routes |-> {}]
    /\ verdict = None
-----------------------------------------------------------------------------
\* The mode of a route's policy under a command: learn and enforce override it.
ModeUnder(cmd, r) == IF cmd = "run" THEN ModeOf[r] ELSE cmd

Learns(r) == ModeUnder(command, r) = "learn"

Enforces(r) == ModeUnder(command, r) = "enforce"

\* Variant: a loader that takes any file there is.
LoadableTorn(r) == files[PathOf[r]] # Absent

\* contract.Load succeeds on a whole file only.
Loadable(r) == files[PathOf[r]] \in ContractType

MayStart(cmd) == \A r \in Routes : ModeUnder(cmd, r) = "enforce" => Loadable(r)

\* Variant: every route enforces the first route's contract.
InitialFirst(cmd, r) ==
    CASE ModeUnder(cmd, r) = "learn" -> NewContract
      [] ModeUnder(cmd, r) = "enforce" -> files[PathOf[1]]
      [] OTHER -> None

\* gateway.New: an empty contract to learn, or the one the file holds.
Initial(cmd, r) ==
    CASE ModeUnder(cmd, r) = "learn" -> NewContract
      [] ModeUnder(cmd, r) = "enforce" -> files[PathOf[r]]
      [] OTHER -> None

\* runGateway returns; its deferred calls come first.  Connections are left
\* open ("failing") or there are none ("closing").
Leave(where, how) ==
    /\ phase' = where /\ exit' = how /\ saving' = 0 /\ opened' = FALSE
    /\ UNCHANGED <<command, scraping, contracts, active, runs, accepted, verdict>>

\* The process is gone, and all it had in memory.
End(how) ==
    /\ phase' = "down" /\ exit' = how /\ scraping' = FALSE
    /\ contracts' = [r \in Routes |-> None]
    /\ active' = [h \in Handlers |-> None]
    /\ saving' = 0 /\ opened' = FALSE /\ verdict' = None
    /\ UNCHANGED <<command, runs, accepted>>

Start(cmd) ==
    /\ phase = "down" /\ runs < MaxRuns /\ MayStart(cmd)
    /\ command' = cmd /\ phase' = "serving" /\ exit' = "none" /\ runs' = runs + 1
    /\ contracts' = [r \in Routes |-> Initial(cmd, r)]
    /\ accepted' = [r \in Routes |-> NothingYet]
    /\ UNCHANGED <<scraping, active, saving, opened, files, taught, verdict>>

\* gateway.New returns the error of contract.Load.
RefuseStart(cmd) ==
    /\ phase = "down" /\ runs < MaxRuns /\ ~MayStart(cmd)
    /\ command' = cmd /\ exit' = "error" /\ runs' = runs + 1
    /\ UNCHANGED <<phase, scraping, contracts, active, saving, opened, files,
                   accepted, taught, verdict>>

\* ListenAndServe fails: runGateway returns, and connections are left open.
ServeFails ==
    /\ phase = "serving"
    /\ Leave("failing", "error")
    /\ UNCHANGED <<files, taught>>

\* The deferred Shutdown of the metrics server, without a deadline, waits for
\* its connections; then main ends, and whatever still runs.
Close ==
    /\ phase \in {"failing", "closing"} /\ ~scraping
    /\ End(exit)
    /\ UNCHANGED <<files, taught>>

Kill ==
    /\ phase # "down"
    /\ End("killed")
    /\ UNCHANGED <<files, taught>>
-----------------------------------------------------------------------------
\* The server hands a handler goroutine a request that its limits will let
\* through to checkContract.  It may still do so while it drains, and after
\* that has failed: a connection accepted before may send its request then.
Accept(h, r, request) ==
    /\ phase \in {"serving", "draining", "failing"} /\ active[h] = None
    /\ Learns(r) => accepted[r].count < MaxAccepts
    /\ active' = [active EXCEPT ![h] =
            [route |-> r, request |-> request, checked |-> FALSE]]
    /\ accepted' = [accepted EXCEPT ![r] =
            IF Learns(r) THEN [sent |-> @.sent \cup {request},
                               count |-> @.count + 1]
                         ELSE @]
    /\ UNCHANGED <<command, phase, exit, scraping, contracts, saving, opened,
                   files, runs, taught, verdict>>

\* checkContract, in learn, enforce and any other mode.
Check(h) ==
    /\ active[h] # None /\ ~active[h].checked
    /\ LET r == active[h].route
           request == active[h].request
       IN  /\ contracts' = [contracts EXCEPT ![r] =
                  IF Learns(r) THEN Observed(@, request) ELSE @]
           /\ verdict' =
                  IF Enforces(r)
                  THEN [route |-> r, request |-> request,
                        violations |-> Evaluate(contracts[r], request, Level)]
                  ELSE verdict
           /\ active' = [active EXCEPT ![h] =
                  [route |-> r, request |-> request, checked |-> TRUE]]
    /\ UNCHANGED <<command, phase, exit, scraping, saving, opened, files, runs,
                   accepted, taught>>

\* The handler returns, whatever became of the request upstream.
Return(h) ==
    /\ active[h] # None /\ active[h].checked
    /\ active' = [active EXCEPT ![h] = None]
    /\ UNCHANGED <<command, phase, exit, scraping, contracts, saving, opened,
                   files, runs, accepted, taught, verdict>>

\* A signal, or the end of the learning window.
Drain ==
    /\ phase = "serving" /\ phase' = "draining"
    /\ UNCHANGED <<command, exit, scraping, contracts, active, saving, opened,
                   files, runs, accepted, taught, verdict>>

\* A /metrics connection has not sent all of a request's body, or not taken all
\* of its answer; nothing bounds how long (the metrics server has no timeouts).
Scrape ==
    /\ phase # "down" /\ ~scraping /\ scraping' = TRUE
    /\ UNCHANGED <<command, phase, exit, contracts, active, saving, opened, files,
                   runs, accepted, taught, verdict>>

ScrapeEnds ==
    /\ scraping /\ scraping' = FALSE
    /\ UNCHANGED <<command, phase, exit, contracts, active, saving, opened, files,
                   runs, accepted, taught, verdict>>

\* Variant: Close in place of Shutdown, which does not wait.
IdleAtOnce == TRUE

Idle == \A h \in Handlers : active[h] = None

\* srv.Shutdown returns nil; only klyr learn goes on to save.
Drained ==
    /\ phase = "draining" /\ Idle
    /\ IF command = "learn"
       THEN /\ phase' = "saving" /\ saving' = 1
            /\ UNCHANGED <<command, exit, scraping, contracts, active, opened,
                           runs, accepted, verdict>>
       ELSE Leave("closing", "ok")
    /\ UNCHANGED <<files, taught>>

\* Variant: a shutdown without a deadline.
DrainTimeoutNever == FALSE

\* srv.Shutdown gives up after five seconds and nothing is saved.
DrainTimeout ==
    /\ phase = "draining"
    /\ Leave("failing", "error")
    /\ UNCHANGED <<files, taught>>
-----------------------------------------------------------------------------
\* SaveContracts: Finalize, then os.WriteFile opens and truncates the file ...
Open ==
    /\ phase = "saving" /\ ~opened
    /\ opened' = TRUE
    /\ contracts' = [contracts EXCEPT ![saving] = Finalized(@, Margin)]
    /\ files' = [files EXCEPT ![PathOf[saving]] = Torn]
    /\ UNCHANGED <<command, phase, exit, scraping, active, saving, runs, accepted,
                   taught, verdict>>

\* ... and writes it whole.
Write ==
    /\ phase = "saving" /\ opened
    /\ opened' = FALSE
    /\ files' = [files EXCEPT ![PathOf[saving]] = Reloaded(contracts[saving])]
    /\ taught' = [taught EXCEPT ![saving] = accepted[saving].sent]
    /\ IF saving < NumRoutes
       THEN saving' = saving + 1 /\ UNCHANGED phase
       ELSE saving' = 0 /\ phase' = "checking"
    /\ UNCHANGED <<command, exit, scraping, contracts, active, runs, accepted,
                   verdict>>

\* Save fails: before the file is opened, or while it is written.
SaveFails ==
    /\ phase = "saving"
    /\ Leave("closing", "error")
    /\ UNCHANGED <<files, taught>>

Enough(r) == MinSamples[r] > 0 => contracts[r].samples >= MinSamples[r]

\* ensureMinSamples, once every contract is on disk.
CheckSamples ==
    /\ phase = "checking"
    /\ Leave("closing", IF \A r \in Routes : Enough(r) THEN "ok" ELSE "error")
    /\ UNCHANGED <<files, taught>>

Next ==
    \/ \E cmd \in {"learn", "enforce", "run"} : Start(cmd) \/ RefuseStart(cmd)
    \/ ServeFails \/ Kill \/ Drain \/ Drained \/ DrainTimeout
    \/ Open \/ Write \/ SaveFails \/ CheckSamples
    \/ Close \/ Scrape \/ ScrapeEnds
    \/ \E h \in Handlers :
          \/ \E r \in Routes, request \in Traffic : Accept(h, r, request)
          \/ Check(h) \/ Return(h)

(***************************************************************************)
(* The process takes its own steps: it returns from Shutdown, one way or   *)
(* the other, runs on from there, and ends once its deferred calls have    *)
(* returned.  Nothing makes a handler return, a client send, a scraper     *)
(* read or an operator start.                                              *)
(***************************************************************************)
Fairness ==
    /\ WF_vars(Drained) /\ WF_vars(DrainTimeout)
    /\ WF_vars(Open) /\ WF_vars(Write) /\ WF_vars(CheckSamples) /\ WF_vars(Close)

Spec == Init /\ [][Next]_vars /\ Fairness
-----------------------------------------------------------------------------
Last(r) == \A s \in Routes : PathOf[s] = PathOf[r] => s <= r

Alone(r) == \A s \in Routes : PathOf[s] = PathOf[r] => s = r

\* c allows what the requests in Q did, of the fields a contract has.
Exactly(c, Q) ==
    /\ c.methods = {q.method : q \in Q}
    /\ c.ctypes = {q.ctype : q \in Q} \ {NoType}
    /\ c.headers = UNION {q.headers : q \in Q}
    /\ (c.params \cap PlainParams) \ {Replaced}
          = ((UNION {q.params : q \in Q}) \cap PlainParams) \ {Replaced}
    /\ \A q \in Q : q.body + Margin <= c.maxBody
    /\ c.maxBody \in {q.body + Margin : q \in Q} \cup {Margin}

(***************************************************************************)
(* When klyr learn returns without an error, each file holds the contract  *)
(* of the last route saved to it: it lists all that the requests the run   *)
(* accepted on that route used and nothing else, no request that was       *)
(* in flight at the signal is missing, and there were enough of them       *)
(* (run.go:114-129).                                                       *)
(***************************************************************************)
SavedExactly ==
    phase \in {"closing", "down"} /\ exit = "ok" /\ command = "learn" =>
        \A r \in Routes : Last(r) =>
            LET c == files[PathOf[r]]
            IN  /\ c \in ContractType
                /\ Exactly(c, accepted[r].sent)
                /\ c.samples = accepted[r].count /\ c.samples >= MinSamples[r]

(***************************************************************************)
(* Learn, then enforce (docs/architecture.md:10): a request of the run     *)
(* that saved a route's contract is never refused by it, at any level,     *)
(* through any crashes, failed runs and restarts in between.               *)
(***************************************************************************)
Admitted(v) == v.request \in taught[v.route] => v.violations = {}

Plain(v) == v.request.params \subseteq PlainParams

LearnedAdmitted ==
    verdict # None /\ Alone(verdict.route) /\ Plain(verdict) => Admitted(verdict)

(***************************************************************************)
(* A process told to stop stops, even when a handler never returns, and    *)
(* whether or not it is saving (run.go:114-129): unless a /metrics         *)
(* connection is never done, for which the deferred Shutdown waits without *)
(* a deadline (run.go:71-75, 144).                                         *)
(***************************************************************************)
Stops == <>[]~scraping => (phase = "draining" ~> phase = "down")
=============================================================================
