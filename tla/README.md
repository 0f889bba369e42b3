# Klyr in TLA+

Specifications of [Klyr](../src/README.md), a reverse proxy that limits, inspects
and learns HTTP traffic, with the TLC runs that check them and TLAPS proofs about
them. Line numbers are those of `src/`.

## 1. The system

| Component | State | Operations | Interacts with | What is hard |
|---|---|---|---|---|
| Rate limiter `internal/ratelimit` | map from keys to buckets, under a mutex | `Allow(key, rps, burst, now)` | called by every handler of every policy | the clock is read outside the mutex; policies share buckets |
| Contracts `internal/contract` | one `Contract` per route: four maps, a count, two sizes | `New`, `Observe`, `Finalize`, `Save`, `Load`, `Evaluate` | `Observe` and `Evaluate` from handlers; `Save` and `Load` from the process | `Observe` runs in many goroutines without a lock; files are written in place |
| Process `cmd/klyr` `run`, `learn`, `enforce` | phase of `runGateway`, exit status, contract files | start, serve, shut down with a deadline, save, check samples | `gateway.New`, `SaveContracts` | handlers in flight at the signal, crashes, failed saves, restarts; a metrics server shut down without a deadline |
| Gateway `internal/gateway` | per request: its `Decision`; shared: contracts, limiter, log, metrics | `ServeHTTP` | all of the others, the client and the upstream | many handlers at once; early returns; bodies that stream; the proxy's errors and panics |
| Router `internal/gateway/router.go` | sorted routes | `NewRouter`, `Match` | `ServeHTTP` | the order of equal prefixes, by the text of an ID; spellings of a host, with a port and brackets |
| Rules `internal/rules` | compiled rules | `BuildEngine`, `Evaluate`; `NewAhoMatcher`, `Match` | `ServeHTTP`, through `policy` | an automaton with failure links; the text of a request is joined from maps, walked in any order |
| Normalization `internal/normalize` | none | `Apply` | the rules | repeated decoding, and the order of the transforms |
| Policy decision `internal/policy` | none | `DecideAction` | `ServeHTTP` | thresholds |
| Decision log `internal/logging` | a file that outlives the process | `OpenDecisionLog`, `Write` | `ServeHTTP`, at its end | dropped errors, torn lines, restarts; a request with no decision |
| Metrics `internal/observability` | counters, a histogram | `Observe` | `ServeHTTP`, at its end | the same requests as the log |
| Configuration `internal/config` | `Config` | `Load`, `Validate` | the process | files are checked before they are used, and may change between |
| Command line `cmd/klyr` | none | `run`, `learn`, `enforce`, `validate`, `report` | all of the above | flags override the configuration before it is validated |
| Report `internal/report` | none | `Read`, `Summarize` | the log file | reading while it is written; decisions out of order |

A request goes through `ServeHTTP`: route, header limit, declared length, body,
rate limit, rules, contract, decision, proxy, log, metrics. The handlers share the
limiter (a mutex), the contracts (no lock), the log file and the counters. A
contract goes from the handlers of a `klyr learn` process through a file to the
handlers of a later `klyr enforce` or `klyr run`.

What makes each correct, in a sentence: the limiter admits no more than burst and
rate; the contract of a route lists what the route's traffic used, all of it and
nothing else; what was learned is admitted later; no request passes around a
check; log, metrics, contract and upstream agree on every request; a matcher
reports what is in its input, and returns; a configuration that validates starts, and
what serves has all of its routes, rules and contracts; a request has one route and,
however it is written, one score; the log loses nothing that was written, and a report
counts it once.

## 2. The modules

| Module | What it is | Source |
|---|---|---|
| `TokenBucket` | abstract: a call is admitted exactly when every window that ends with it fits | what `limiter.go` promises |
| `Limiter` | `Allow`: `Stamp` at the call site, then `Waive`, `Grant` or `Deny` as the critical section | `ratelimit/limiter.go`, `gateway.go:228-239` |
| `LimiterProofs` | theorems about `Limiter` | |
| `Contract` | `Observed`, `Finalized`, `Reloaded`, `Evaluate` as operators on contracts and requests | `internal/contract` |
| `Lifecycle` | processes one after the other, their handlers and files; extends `Contract` | `run.go`, `learn.go`, `enforce.go`, `gateway.New`, `SaveContracts`, `storage.go` |
| `LifecycleProofs` | theorems about `Lifecycle` | |
| `ContractLearn` | `Observe` one memory access at a time; extends `Contract` | `contract/learn.go` |
| `ContractLearnProofs` | theorems about `ContractLearn` | |
| `Gateway` | `ServeHTTP` with concurrent handlers; extends `Contract`, instantiates `Limiter` | `gateway.go`, `evaluator.go`, `metrics.go`, `decision.go` |
| `GatewayProofs` | theorems about `Gateway`: types, checks, the log and the limit; instantiates `LimiterProofs` | |
| `GatewayAccountProofs` | and of what is learned and counted; extends `GatewayProofs` | |
| `AhoMatcher` | `NewAhoMatcher` and `Match`, a step per link | `rules/aho.go` |
| `AhoMatcherProofs` | theorems about `AhoMatcher` | |
| `Router` | `NewRouter`'s order and `Match` | `gateway/router.go` |
| `Rules` | normalization, the compilation of rules, `Engine.Evaluate`, and the text `buildEvalContext` gives it | `internal/normalize`, `internal/rules`, `gateway.go:340-496` |
| `Config` | `Validate` and `applyOverrides` | `internal/config`, `cmd/klyr` |
| `Startup` | from the command line to the score of a request; extends `Config`, `Router`, `Rules` | `cmd/klyr`, `gateway.New`, the pure parts of `ServeHTTP` |
| `StartupProofs` | theorems about `Startup`: what starts, and what becomes of a request | |
| `DecisionLog` | handlers that write the log, through torn lines, crashes and restarts, and a report that reads it | `logging/decision.go`, `report/report.go`, `cmd/klyr/report.go` |
| `DecisionLogProofs` | theorems about `DecisionLog` | |
| `MC...` | constants of the runs | |

**How they fit.** `Limiter` implements `TokenBucket` (a refinement mapping: the
time of a call is the time credited to its bucket). `Gateway` contains the whole
`Limiter`: its variables are among `Gateway`'s, `StampLimit` and `AskLimiter` are
`Limiter`'s actions, and its history bounds what reaches the upstream.
`Gateway` and `Lifecycle` use `Observed` and `Evaluate` in one step; `ContractLearn`
says when that is justified: `UnracedExact` shows that without two handlers inside
one field the stepwise code leaves exactly what `Observed` does, and the run
`learn_listed` shows what is lost otherwise. So what is shown of
learned contracts in `Lifecycle` and `Gateway` is shown for calls of `Observe` that
do not race. A process that Go ends for concurrent map writes is a `Kill` there; what else
a race may do to a process has no counterpart there.

`Startup` comes before both: it says which configurations reach `Lifecycle`'s phase
`serving` and what holds of them there, and it yields the route and the score that
`Gateway` takes as given. `DecisionLog` takes apart what is one step of `Gateway`,
`WriteLog`, and adds the reader; `Gateway` says which decisions are written and what is
in them. `Rules` takes of the automaton what the theorems about `AhoMatcher` say, with
characters for bytes (`FindsAho`): it finds what occurs where no pattern doubles a
character and the two characters one begins with are nowhere else (`Tame`); with doubles
excluded only, it finds nothing else; and of other patterns it may report any, which is the
constant `AhoAnswers`. So the theorems about requests hold whatever it does there; in
`startup` it reports the pattern `xxx` of the text `xx`, as the code does. The second line of
`rules/traversal.txt` is such a pattern: two dots and two backslashes, of which `aho.go:79-89`
asks for one. A regular expression is found where it occurs.

**State and code.** In `Limiter`, `buckets` is the map, `waiting` the calls that have
evaluated `time.Now()` and not yet taken the mutex; `credited`, `grants`, `stamps` and
`lastOk` are history. In `Lifecycle`, `phase` is where `runGateway` is, `contracts` and
`active` die with the process, `files` do not; a file being written is `Torn`, which is
what `os.WriteFile` leaves after a crash. `runGateway` returns by way of "failing", with
connections still open, or "closing": there its deferred calls run, of which the `Shutdown`
of the metrics server waits for as long as a connection to `/metrics` is in use
(`scraping`), and `Close` is the end of `main`, which takes what still runs with it.
In `ContractLearn`, `inside` is the window of a read-modify-write; Go promises nothing of a
map two goroutines write at once, so when two windows on one have overlapped, either the
process ends or every later write leaves that map with any of the names there are
(`EndWrite`). Words, as `Samples` and `ObservedMax` are, are read and written whole, which
the Go memory model does promise. Damage beyond the map is left out.

In `Gateway`, `at` is the place in `ServeHTTP`, `decision` the `logging.Decision` with the
reason given to the metrics, `fate` what a client sent, whether the upstream got it and who
answered; `streamed` says that a body was not read for any check (`gateway.go:490-492`) and
is still the client's to send, through the proxy. In `AhoMatcher` a node of the trie is the
string that leads to it.

In `Startup`, `phase` is where the command is between its flags and `ListenAndServe`,
`cfg` the `Config` with the overrides applied, `engine` and `loaded` the rules and
contracts that `gateway.New` has built so far, one at a time, since files may change in
between (`Change`). A text is a sequence of characters, each with the escapes around it,
so that decoding, lowercasing and entities do to it what they do to a string; a value of
a header or a field is such a text. A file is missing, a directory or lines, and may be
locked: `os.Stat` then finds it, as `Validate` asks, and `os.Open` does not open it. A host is a
name, in brackets or not, with a port or not; `Colons` are the names that are IPv6 addresses,
whose port needs brackets. In `DecisionLog` the file is the sequence of its
lines, of which the last has no newline yet, and a line the sequence of what is left in
it of each decision: more than one where a line was torn and the next one joined to it.
`decisions` and `failed` are history; `summary` is a report with what it was made from.

Definitions whose comment begins with "Variant:" are not part of a specification: each
is a wrong form of the definition after it, which the runs tell from the right one.

**Abstractions.** `float64` tokens and seconds are integers in units (`Unit` per token,
`rps` units per tick), so rounding is not modelled. A map that only ever holds `true` is
the set of its keys. Route IDs, policy names, times of generation, evidence and the text
of log lines are left out. In `Gateway` a request's rules are a score; `Startup` is where
it comes from. A regular expression is a literal, with or without `(?i)`. A header has one
value. Whether an address, a URL or an expression is well-formed is what Go's libraries
say (`Addresses`, `URLs`, `Regexes`). Latencies are whole milliseconds, for which the index
of a percentile in `float64` is the quotient of integers. JSON keeps all of a contract
but names that are not UTF-8. `http.Server.Shutdown` returns nil only when no handler is
left, and `http.Server` starts handlers while it drains only for connections it has.

## 3. The runs

| Run | Shows | Bounds |
|---|---|---|
| `limiter_bucket` | `ImplementsTokenBucket`; `OrderedClockWindows` | one key, two callers, a clock of 4, half a token a tick, a burst of 2, and an exempt limit |
| `limiter_shared` | `SharedWindows` with two limits on one key | two callers, a clock of 4 |
| `limiter_clock` | **fails**: `ClockWindows` | as `limiter_bucket` |
| `lifecycle` | `SavedExactly`, `LearnedAdmitted`; `Stops` | 3 routes of which two share a file, 1 handler, 2 requests, 3 processes, 1 learned request a route, a `/metrics` connection that comes and goes |
| `learn_races` | `UnracedExact`, `NothingInvented` | 3 handlers, 3 calls, 2 requests |
| `learn_listed` | **fails**: `LearnedListed` | 2 handlers, 2 calls |
| `gateway_mixed` | `LogTells`, `Mediated`, `ForwardedWithinLimit`, `LearnedProxied`, `CountersAddUp`; `AnsweredOnceRead` | two enforcing, a learning and a shadowing route, 10 kinds of requests, 2 handlers, 2 requests |
| `aho_pairs` | `SoundWithoutDoubles`, `CompleteWithShortOverlaps`, `LeavesLess`, `EndsWithoutDoubles` | 1 or 2 patterns of up to 2 and 3 of 3 letters, inputs of 4 letters up to renaming |
| `aho_answers` | **fails**: `Answers` | 1 pattern of up to 4 of 2 letters, inputs of up to 5 |
| `startup` | `ValidatedStarts`, `ServingSound`, `RoutedRight`, `FoundHoweverWritten`, `PathClean`, `OrderBlind`, `SecretsUnseen`, `UnreadIrrelevant` | 7 command lines, 11 configurations, 8 disks, 1 change of a file, 32 requests, 1 at a time |
| `rules_order` | **fails**: `Deterministic` | 1 rule, the same requests |
| `decision_log` | `SpoiledWithTorn`, `CountedOnce`, `SpansAll`, `FailsForCause`; `KeepsLines` | 2 handlers, 3 decisions of 3 kinds, a clock of 2, 1 report at a time, any number of restarts |

A run that fails checks a statement of the documentation, a comment or a test, which its
counterexample refutes; `PROJECT.json` quotes it under `findings`.

Four disagreements have a run. Others were met while the code was read and have none:

- The matcher of `aho.go` also misses patterns that are in the input (line 61 resets to
  the root a link that line 53 has found), and can loop: a pattern that begins with three
  equal bytes has a node whose failure link is itself. The counterexample of
  `aho_answers` shows the first of its errors only, a report of what is not there.
- `c.Samples++` loses counts as the maps lose names (`learn.go:13`).
- `klyr learn` saves its contracts before it reports too few samples (`run.go:121-124`), and
  `klyr enforce` loads them without looking at the count.
- A parameter name that is not UTF-8 is replaced in the saved JSON (`storage.go:15`), so that a
  learned request with one is refused; `LearnedAdmitted` is about the others (`Plain`).
- The body is read outside the context that has the policy's timeout (`gateway.go:217`), and
  the server has no `ReadTimeout`. A body that no check needs is not read there but streams
  through the proxy (`gateway.go:490-492`), whose transport and `ReverseProxy` close it before
  `ServeHTTP` goes on, which waits for the client's next bytes: the timeout need not end such
  a request either. `AnsweredOnceRead` is about requests whose body is in, however it came in.
- `runGateway` shuts the metrics server down without a deadline (`run.go:73`), and that server
  has no timeouts (`run.go:144`): a connection that never takes its answer keeps a process
  that was told to stop, though not its contracts from being saved. `Stops` is conditional on it.
- `net.SplitHostPort` takes the brackets of an IPv6 host off with the port, and only then
  (`router.go:77-81`): `[::1]:8443` finds the routes of a host `::1`, and `[::1]` those of `[::1]`.
  So `RoutedRight` has a port make no difference where there are no brackets.
- Routes whose policies have one contract path overwrite each other's contract, in the
  order of the routes (`gateway.go:165`), so that an enforcing run refuses what the first
  of them learned; `LearnedAdmitted` is about routes with a file of their own.
- When the proxy aborts a response it panics, and the request leaves no decision
  (`gateway.go:270`), where `decision.go:13` has one JSON object per request; `LogTells` is
  about the decisions there are.
- A decision whose write fails halfway has no newline, and the next is joined to it
  (`decision.go:76`), where `docs/quickstart.md:71` has "Each line is a JSON object"; one such
  line fails the whole report (`report.go:61`). `SpoiledWithTorn` says how far it goes.
- The p95 and p99 of a report are below their name for few decisions, as the index is cut
  down to a whole number (`report.go:173`): of two latencies both are the smaller.
- `klyr validate` says ok to unknown transforms and phases, to a patterns file that `os.Open`
  does not open, that has a line over the Scanner's 64 KB or no pattern (`compile.go:107-126`,
  where `validate.go:206-215` only asks `os.Stat`), and to a contract file that opens and holds
  none; all but the unknown phase, which is passed over in silence, then fail to start
  (`Unchecked` in `Startup`, which is all there is: `ValidatedStarts`).
- The 50 fields of a JSON body that are looked at are any 50 (`gateway.go:440`).
- A score that equals the threshold is refused (`evaluator.go:21`), where
  `docs/architecture.md:28` has "exceeding"; with a threshold of 0 all requests are.

**Bounds.** `MaxClock`, `MaxRuns`, `MaxAccepts`, `MaxCalls`, `MaxRequests`, `MaxDecisions`
and `MaxChanges` are in the guards of `Tick`, `Start`, `Accept`, `Call`, `Begin`/`NotFound`,
`Decide` and `Change`. A clock of 4 at half a token a tick empties and refills a burst of 2
and has stamps overtake each other; two callers are enough for a call to be overtaken.
Three processes let a contract be learned, saved over, or left half saved, and then
enforced. Two handlers race in a map, three race in two fields at once. One change of a
file is enough to come between its check and its use; `MaxFields` stands for the 50 of
`gateway.go:441` and is 2, so that bodies reach it, as `MaxLine`, a Scanner's 64 KB, is 3; one configuration has twelve
routes, so that IDs of one and of two digits meet. Three decisions are one torn, one joined
to it and one after. `TopSize` is 5 as in the code, where fewer keys come up. Runs that may stop at
a bound, or do as a process ends, check no deadlock; the limiter's do, as a call can always be made.

**Fairness.** `Lifecycle`: the process takes its own steps (`Drained`, `DrainTimeout`,
`Open`, `Write`, `CheckSamples`, and `Close` once no connection to `/metrics` is in use);
nothing makes a handler return, a client send, a scraper read or an operator start.
`Gateway`: a handler that waits for no one runs on, `Allow` gets its mutex
(its holders leave it in a bounded time), and the context of `gateway.go:214` ends the wait
for the upstream, unless a body still streams (`ProxyFails` is enabled without one only);
nothing bounds the reading of a body, in `ServeHTTP` or by the proxy, or the copying of a
response, since the server of `run.go:77-81` has only a `ReadHeaderTimeout`. `AhoMatcher`: sequential code
goes on. `Startup` and `DecisionLog` state none: a command or a write may stop anywhere.

**Symmetry.** Handlers are interchangeable where `SYMMETRY` is used, and only safety is
checked there.

## 4. The proofs

All invariants of section 3 but one are theorems, for every value of the constants; so
are the refinement of `TokenBucket` and the action property `KeepsLines`. Each comes from
an inductive invariant, whose parts are named below.

`LimiterProofs`, from the assumptions of `Limiter` (limits bounded by `MaxRps` and
`MaxBurst`, a positive `Unit`, an empty key that is no key):

- `TypeCorrect` and `SharedWindowsHold`: the invariant says of every earlier admission of a
  key that the admissions since and the tokens left stay within the largest burst and what
  the largest rate earned since. The tokens have to be in it: without them a refill
  could hand out what was already spent. Retuning only lowers tokens or the cap,
  a refill adds at most `MaxRps` per tick credited, a grant moves one token to the count.
- `OrderedWindowsHold`: the time credited to a bucket is at least what passed on its clock
  since it was made, and while the two are the same every interval of the clock up to the
  last stamp has kept to burst and rate, and the tokens are within what the interval that
  ends there leaves (`PunctualBuckets`). A call that is late credits time twice, which
  ends the equality for good; that is the hypothesis of `OrderedClockWindows`.
- `TokenBucketImplemented`: with one limit the tokens *are* the least room of any window, or
  the burst; so a token is there exactly when all windows fit, and each critical section is
  a step of `TokenBucket`, every other step a stutter.

`LifecycleProofs`, from the assumptions of `Contract` and `Lifecycle`:

- `TypeCorrect` and `LearnedIsAdmitted`: the invariant follows a request from the handler
  that accepted it to the file. A learning route's contract lists every accepted request
  that no handler still holds unobserved (`LearnsAll`); nothing is unobserved when saving begins,
  because the drain waits for all handlers (`SavesDrained`); a file that loads covers what
  the run that wrote it was taught, unless another route shares it (`FilesCover`); and an
  enforced contract covers the same (`EnforcesCover`). That a covered request is admitted at
  every level is a lemma about `Evaluate` (`CoveredAdmitted`).
- `SavedAllOfIt`: the converse has to be carried along. A contract lists nothing but what was
  accepted on its route, and its count and the handlers still to observe make up the number
  of requests accepted (`Counts`); a file that is written, and that no later route with its
  path has reached, holds exactly that (`SavedSoFar`).

`ContractLearnProofs`, from the assumptions of `Contract` and that the traffic is of requests:

- `TypeCorrect`, `RacesInventNothing` and `UnracedIsExact`: the invariant bounds each field of
  the contract by what calls that run alone would have left. The sample of a call that has not
  stored it (`Counted`), the names it has yet to write (`Listed`) and the size it may still
  raise the maximum to (`Sized`) are kept for its handler; on a field that was not raced
  nothing is missing. A raced map is in none of it, since it may hold anything. Two handlers in one window are a race that is noticed (`Marked`).

`GatewayProofs` and `GatewayAccountProofs`, from the assumptions of `Gateway`: policies,
contracts and traffic of the types they have in Go, limits as in `Limiter`, a reply that
`None` is not:

- `TypeCorrect`, `AllMediated` and `LogIsTrue`: the invariant says for each place in
  `ServeHTTP` what the decision and the fate of its request are there (`Serving`, by cases of
  `Consistent`), that no two handlers have one request (`Alone`), that contracts which are
  enforced never change (`Enforced`), and that a line which is written says what its handler
  still holds (`Lines`).
- `UpstreamWithinLimit`: the limiter's part of the state moves as `Limiter` does or not at all,
  so `SharedInv` of `LimiterProofs` is an invariant of the gateway as well; its module is
  instantiated with handlers for callers, and its lemmas are cited. Each request of a key that
  is past the limiter has a grant of its own (`Granted`), and all grants of a key are within
  one burst and the rate of the time credited.
- `LearnedIsProxied`: a learning contract is what its route's requests that are on their way to
  the proxy, or past it, would teach it (`Learned`).
- `CountersHold`: the blocks counted are the requests refused, by their route, the hits those
  that the limiter refused, and the request counters have every line whose handler is past
  `Count` (`Tallied`). Bags and cardinalities move by one in the same step.

`AhoMatcherProofs`, from the assumption that patterns and inputs are of bytes, of which there
are some:

- `TypeCorrect` and `SoundUnlessDoubled`: failure links lead to proper suffixes of their node,
  outputs are suffixes of it (`Linked`, `Outputs`), and a search is at a suffix of what it has
  read (`Matched`).
- `CompleteUnlessOverlapping`: where no two patterns overlap by more than a byte, the link of a
  node is its last byte if that is a node, or will be once a prefix of it that is in the queue
  has had its children linked (`AllSettled`), and a search is at the longest node that ends
  there (`Longest`). The queue is in the invariant because links are made breadth first.
- `EachStepLeavesLess`: what is left to do is a tuple, in lexicographic order: the nodes not yet
  queued, the length of the queue, the input not yet read, the phase, the length of the node
  whose link is followed. That a node is queued once is an invariant for any patterns
  (`Spread`): the nodes in the queue and the children still to come lie apart in the trie, no
  one is a prefix of another. That links get shorter is `Linked`, which needs that no byte is
  doubled. This is the half of `EndsWithoutDoubles` that is no matter of fairness.

`DecisionLogProofs`, from the assumption of `DecisionLog` (the entries are decisions, `None`
is no handler and no number):

- `TypeCorrect` and `LogKept`: a step changes the last line of the file only, or adds one
  (`LinesKept`), so a line that has its newline stays.
- `FailuresHaveCause`: until a write fails, every line that ends is one whole decision and
  what follows belongs to the handler that is writing (`Sound`).
- `TornSpoilsOne`: the invariant `Laid` says where decisions are. Each is in one place of the
  file, all of a line but its end was torn, and a decision that has left its handler has
  failed or ends a line. So a decision that was written but shares its line has a torn one at
  the head of it, no two have the same, and there are no more of the former than of the latter.
- `ReportsCountOnce`: the reader has, of the lines it is past, each decision since its time once
  and all of them (`ReadUpTo`); `Laid` says that no decision has two lines, so none is read
  twice, and a report keeps what it has although the file grows (`Summed`).
- `ReportCoversAll`: the decisions are put in order of their time, which is a permutation of
  them, so that the first and the last bound all others (`SummaryCovers`); of latencies in
  order, the quotients that index p50, p95 and p99 are in order too, and half of them are at
  or below the p50 (`PercentilesHold`).

`StartupProofs`, from the assumptions of `Config`, `Router`, `Rules` and `Startup`: a
configuration and a request have the fields they have in Go, there are at most a hundred
routes (whose IDs have two digits then), and blanks, newlines, slashes and dots are no letters
that lowercasing changes or yields:

- `TypeCorrect`, and `ValidStarts`: as long as no file changes, `Validate` keeps having nothing
  to say of the configuration, and compiling a rule or loading a contract fails for
  nothing but the causes of `Unchecked`.
- `ServesSound`: what `Validate` says of routes and modes does not depend on files, so it
  holds of whatever serves, under the mode that the flags have set before.
- The latest request has the route that `Match` finds and a result of the rules in force
  (`Answered`); the theorems about requests follow from it and from lemmas about the
  operators. `RoutesRight`: `Before` is a strict order on routes of one configuration, so there
  is a first one of those that fit, and no comparison changes with the case of a host, or with
  its port while there are no brackets to go with it.
  `UnreadChangesNothing`: without rules for bodies the rules' view of a context has no body.
  `SecretsKept`: each line of a header and each field of a body is the same for both requests.
  `FoundAsWritten`: two passes of decoding leave the character itself of each that was written
  under at most two escapes, the rules are what the file gave, lowercased or not (`AsRead`), and
  an automaton of `Tame` patterns finds what occurs.
- `OrderChangesNothing`: the text of the headers is lines, each of which ends with a newline, and
  that of a body fields, each of which ends with a blank. `Flattened` says where each lies, so
  that what does not run over a separator is in the text of every order (`Carries`), also when
  the blanks at its ends are trimmed (`TrimmedAlike`); decoding and
  lowercasing work character by character and leave separators alone (`NormalizedChars`,
  `SeparatorsStay`), so that a pattern without one is found in either text or in none.
- `PathsClean`: `Segments`, `Followed` and `Joined` are folds, as the code's loops are. A fold is a
  recursive function of a set of places, which the community modules choose; that there is one
  is `FoldThere`, that it takes one place after another `FoldSteps`, and that any two agree `FoldsAgree`. With these, what is
  left of a path is names between slashes (`Canonical`): following dots leaves names only, the
  segments of joined names are the names again, and lowercasing makes neither dots nor
  slashes (`LowerCanonical`), so that a second pass has nothing to do (`NormalForm`).

Model-checked only: what holds under fairness (`Stops`, `AnsweredOnceRead`, `EndsWithoutDoubles`),
which is beyond the prover. All invariants and action properties of the passing runs are
theorems. What needs induction (folds, sums, orders) is proved by a least counterexample.

## 5. Plan

Done, in this order: the limiter and its abstract form; contracts and their lifecycle;
learning under races; the request pipeline over the limiter; the Aho-Corasick matcher;
configuration, router, rules and normalization, composed from the command line to the score of
a request; the decision log with its crashes and its report; proofs of all invariants and
action properties of the passing runs.

To do:

1. The counters of rules and of violations (`metrics.go:95-105`) in `Gateway`, and its
   accounts with them.

Not modelled: the wording of log lines, evidence and reports; regular expressions, YAML, JSON
and TLS, which are libraries; what `/metrics` answers, `klyr version`, the demo and its
dashboards. The histogram's unit, of which it is off by a factor of a million
(`metrics.go:85`), is no matter of control, and buckets that are never removed
(`limiter.go:51`) break no bound that is promised: no property would show either.
