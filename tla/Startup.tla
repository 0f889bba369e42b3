------------------------------ MODULE Startup ------------------------------
(***************************************************************************)
(* From the command line to the score of a request: a klyr command loads a *)
(* configuration, overrides and validates it, and gateway.New builds the   *)
(* router, the rules and the contracts from it, while the files it names   *)
(* may change; then requests are routed and evaluated (cmd/klyr,           *)
(* gateway.New, and the pure parts of ServeHTTP).  It composes Config,     *)
(* Router and Rules.  What becomes of a request after its score is         *)
(* Gateway's, and what becomes of the process is Lifecycle's.              *)
(***************************************************************************)
EXTENDS Config, Router, Rules

CONSTANTS
    Commands,   \* command lines
    Sources,    \* what the configuration file may say
    Paths,      \* the files it names
    Disks,      \* what those hold at first
    Contents,   \* what they may hold later
    Requests,   \* what clients send
    None,
    MaxChanges  \* bound: changes of files

\* A command is one of these, and a configuration has its policies, a table,
\* and its routes and rules, lists; the IDs of routes have two digits at most.
ASSUME StartupAssumption ==
    /\ \A c \in Commands : c.name \in {"run", "learn", "enforce", "validate"}
    /\ \A c \in Sources :
          /\ {"policies", "routes", "rules"} \subseteq DOMAIN c
          /\ \A n \in DOMAIN c.policies : {"mode", "path"} \subseteq DOMAIN c.policies[n]
          /\ c.routes \in Seq(ToSet(c.routes)) /\ c.rules \in Seq(ToSet(c.rules))
          /\ Len(c.routes) <= 100
          /\ \A r \in ToSet(c.routes) : r.prefix \in Seq(ToSet(r.prefix))
    /\ Unset \notin Modes

\* The disks have the files there are, and a request the parts that are read.
ASSUME InputAssumption ==
    /\ \A d \in Disks : DOMAIN d = Paths
    /\ \A q \in Requests :
          /\ {"method", "host", "path", "query", "headers", "body", "chunked"} \subseteq DOMAIN q
          /\ q.host \in HostText /\ ~q.host.blanks /\ IsText(q.path) /\ IsText(q.query)
          /\ IsFiniteSet(DOMAIN q.headers) /\ \A h \in DOMAIN q.headers : IsText(q.headers[h])
          /\ IsFiniteSet(DOMAIN q.body.fields)
          /\ \A k \in DOMAIN q.body.fields : IsText(q.body.fields[k])

VARIABLES
    command,  \* the command line
    phase,    \* where the command is
    exit,     \* how it ended, when it did
    files,    \* the files
    cfg,      \* the configuration, with the overrides once they are applied
    problems, \* what Validate found
    engine,   \* the rules compiled so far
    loaded,   \* the contracts of the routes so far
    outcome,  \* the latest request, its route and its result
    changed   \* the files that changed since Validate looked at them

vars == <<command, phase, exit, files, cfg, problems, engine, loaded, outcome,
          changed>>

TypeOK ==
    /\ command \in Commands
    /\ phase \in {"load", "validate", "compile", "contracts", "log", "listen",
                  "serving", "done"}
    /\ exit \in {"none", "ok", "usage", "invalid", "rule", "contract", "log", "listen"}
    /\ phase = "done" <=> exit # "none"
    /\ \A p \in Paths : files[p] \in Contents \cup {d[p] : d \in Disks}
    /\ Len(engine) <= Len(cfg.rules) /\ Len(loaded) <= Len(cfg.routes)
    /\ \A i \in DOMAIN loaded : loaded[i] \in {"new", "loaded", "none"}
    /\ outcome # None => outcome.route \in DOMAIN cfg.routes \cup {NoRoute}
    /\ changed \subseteq Paths

Init ==
    /\ command \in Commands /\ cfg \in Sources /\ files \in Disks
    /\ phase = "load" /\ exit = "none" /\ problems = {}
    /\ engine = <<>> /\ loaded = <<>> /\ outcome = None /\ changed = {}
-----------------------------------------------------------------------------
GoTo(next) == phase' = next /\ UNCHANGED exit

\* Variant: an error is noted, and does not return.
ExitNot(how) == UNCHANGED phase /\ exit' = how

Exit(how) == phase' = "done" /\ exit' = how

\* A flag or the file is missing, or the file is no configuration.
LoadFails ==
    /\ phase = "load" /\ ~command.usable /\ Exit("usage")
    /\ UNCHANGED <<command, files, cfg, problems, engine, loaded, outcome, changed>>

Load ==
    /\ phase = "load" /\ command.usable /\ GoTo("validate")
    /\ cfg' = Overridden(cfg, command)
    /\ UNCHANGED <<command, files, problems, engine, loaded, outcome, changed>>

CheckConfig ==
    /\ phase = "validate"
    /\ problems' = Validate(cfg, files)
    /\ CASE problems' # {} -> Exit("invalid")
         [] problems' = {} /\ command.name = "validate" -> Exit("ok")
         [] problems' = {} /\ command.name # "validate" -> GoTo("compile")
    /\ UNCHANGED <<command, files, cfg, engine, loaded, outcome, changed>>

\* The errors of readPatterns: those of os.Open and of the Scanner, which reads
\* no directory and takes no line over 64 KB.
PatternsRead(file) ==
    Reads(file) /\ ~\E l \in ToSet(file.lines) : Len(l) > MaxLine

\* compileRule for the next rule, whose patterns file is read now ...
Builds(rule) ==
    IF rule.type = "aho"
    THEN PatternsRead(files[rule.file]) /\ Compiles(rule, files[rule.file].lines)
    ELSE rule.pattern \in Regexes /\ Compiles(rule, <<>>)

CompileRule ==
    /\ phase = "compile" /\ Len(engine) < Len(cfg.rules)
    /\ LET rule == cfg.rules[Len(engine) + 1]
       IN  IF Builds(rule)
           THEN /\ engine' = Append(engine, Compiled(rule,
                        IF rule.type = "aho" THEN files[rule.file].lines ELSE <<>>))
                /\ UNCHANGED <<phase, exit>>
           ELSE Exit("rule") /\ UNCHANGED engine
    /\ UNCHANGED <<command, files, cfg, problems, loaded, outcome, changed>>

AllCompiled ==
    /\ phase = "compile" /\ Len(engine) = Len(cfg.rules) /\ GoTo("contracts")
    /\ UNCHANGED <<command, files, cfg, problems, engine, loaded, outcome, changed>>

PolicyFor(i) == cfg.policies[cfg.routes[i].policy]

\* ... and then the contract of the next route.
LoadContract ==
    /\ phase = "contracts" /\ Len(loaded) < Len(cfg.routes)
    /\ LET p == PolicyFor(Len(loaded) + 1)
           whole == files[p.path] = Contract
       IN  IF p.mode = "enforce" /\ ~whole
           THEN Exit("contract") /\ UNCHANGED loaded
           ELSE /\ loaded' = Append(loaded, CASE p.mode = "learn" -> "new"
                                              [] p.mode = "enforce" -> "loaded"
                                              [] OTHER -> "none")
                /\ UNCHANGED <<phase, exit>>
    /\ UNCHANGED <<command, files, cfg, problems, engine, outcome, changed>>

AllLoaded ==
    /\ phase = "contracts" /\ Len(loaded) = Len(cfg.routes) /\ GoTo("log")
    /\ UNCHANGED <<command, files, cfg, problems, engine, loaded, outcome, changed>>

\* OpenDecisionLog may fail; startMetricsServer does not wait for its server.
OpenLog ==
    /\ phase = "log"
    /\ \/ GoTo("listen")
       \/ cfg.log # Unset /\ Exit("log")
    /\ UNCHANGED <<command, files, cfg, problems, engine, loaded, outcome, changed>>

\* The server listens, unless the address is taken or a TLS file is of no use.
Listen ==
    /\ phase = "listen"
    /\ \/ Exit("listen")
       \/ /\ cfg.tls.enabled => \A n \in {"certFile", "keyFile"} :
                                   Reads(files[cfg.tls[n]])
          /\ GoTo("serving")
    /\ UNCHANGED <<command, files, cfg, problems, engine, loaded, outcome, changed>>

\* What ServeHTTP makes of a request: its route, and if resolveRoute finds its
\* policy and its proxy, the result of the rules.
Resolves(i) ==
    /\ cfg.routes[i].policy \in DOMAIN cfg.policies
    /\ \E j \in DOMAIN cfg.upstreams : cfg.upstreams[j].name = cfg.routes[i].upstream

Results(i, q) ==
    {Evaluate(engine, ctx) : ctx \in Contexts(q, BodyRead(engine, PolicyFor(i).mode, q))}

Handle(q) ==
    /\ phase = "serving"
    /\ LET i == Match(cfg.routes, q)
       IN  IF i # NoRoute /\ Resolves(i)
           THEN \E result \in Results(i, q) :
                   outcome' = [request |-> q, route |-> i, result |-> result]
           ELSE outcome' = [request |-> q, route |-> NoRoute, result |-> None]
    /\ UNCHANGED <<command, phase, exit, files, cfg, problems, engine, loaded, changed>>

\* Somebody writes, or removes, a file, between the check of it and its use.
Change(p, content) ==
    /\ phase \in {"compile", "contracts", "listen"} /\ files[p] # content
    /\ Cardinality(changed) < MaxChanges
    /\ files' = [files EXCEPT ![p] = content]
    /\ changed' = changed \cup {p}
    /\ UNCHANGED <<command, phase, exit, cfg, problems, engine, loaded, outcome>>

Next ==
    \/ LoadFails \/ Load \/ CheckConfig \/ CompileRule \/ AllCompiled
    \/ LoadContract \/ AllLoaded \/ OpenLog \/ Listen
    \/ \E q \in Requests : Handle(q)
    \/ \E p \in Paths, content \in Contents : Change(p, content)

Spec == Init /\ [][Next]_vars
-----------------------------------------------------------------------------
(***************************************************************************)
(* What Validate accepts starts: once it found nothing, the rules and the  *)
(* contracts are only refused for what it does not look at.  A file has    *)
(* changed since, a transform is not known, a patterns file that is there  *)
(* does not open, has a line too long to scan or no pattern, or a contract *)
(* file that could be opened does not hold one (validate.go:36-215,        *)
(* compile.go:78-126, gateway.go:93-116).                                  *)
(***************************************************************************)
Unchecked ==
    \/ \E i \in DOMAIN cfg.rules :
          LET r == cfg.rules[i]
          IN  \/ ~(r.transforms \subseteq Transforms)
              \/ /\ r.type = "aho" /\ RequireFile(files[r.file])
                 /\ \/ ~files[r.file].opens
                    \/ \E l \in ToSet(files[r.file].lines) : Len(l) > MaxLine
                    \/ DOMAIN ReadPatterns(files[r.file].lines) = {}
    \/ \E i \in DOMAIN cfg.routes :
          /\ PolicyFor(i).mode = "enforce"
          /\ files[PolicyFor(i).path].opens /\ files[PolicyFor(i).path] # Contract

ValidatedStarts == exit \in {"rule", "contract"} => changed # {} \/ Unchecked

(***************************************************************************)
(* A serving process holds together: every route has its policy, with a    *)
(* mode there is, and its upstream, so that a request that matches is      *)
(* never answered with 404; an enforcing route has a contract that was     *)
(* read and a learning one a new one, under the mode the command line      *)
(* gives it; and every rule is in force (run.go:29-41, learn.go:19-38,     *)
(* enforce.go:18-32, gateway.go:296-312).                                  *)
(***************************************************************************)
ServingSound ==
    phase = "serving" =>
        /\ Len(engine) = Len(cfg.rules) /\ Len(loaded) = Len(cfg.routes)
        /\ \A i \in DOMAIN cfg.routes :
              /\ Resolves(i)
              /\ command.name \in {"learn", "enforce"} => PolicyFor(i).mode = command.name
              /\ <<PolicyFor(i).mode, loaded[i]>> \in
                    {<<"learn", "new">>, <<"enforce", "loaded">>, <<"shadow", "none">>}

(***************************************************************************)
(* "Reverse proxy routing by host and path prefix" (README.md:11): a       *)
(* request goes to a route that fits it, there is none with a longer       *)
(* prefix, and of equal ones it is the first listed, as long as no more    *)
(* than ten are.  The case of its Host makes no difference, and a port     *)
(* makes none unless it stands after brackets, which stripPort takes off   *)
(* with it and leaves otherwise (router.go:72-82).                         *)
(***************************************************************************)
RoutedRight ==
    outcome # None =>
        LET q == outcome.request
            fitting == {i \in DOMAIN cfg.routes : Fits(cfg.routes[i], q)}
            Length(i) == Len(cfg.routes[i].prefix)
        IN  /\ outcome.route = NoRoute <=> fitting = {}
            /\ fitting # {} => outcome.route \in fitting
            /\ \A i \in fitting :
                  /\ Length(i) <= Length(outcome.route)
                  /\ Length(i) = Length(outcome.route) /\ Len(cfg.routes) <= 10
                       => outcome.route <= i
            /\ \A upper \in BOOLEAN, port \in BOOLEAN :
                  LET r == [q EXCEPT !.host.upper = upper, !.host.port = port]
                  IN  /\ r.host \in HostText
                      /\ q.host.bracketed => port = q.host.port
                      => Match(cfg.routes, r) = outcome.route

\* The rules have seen the latest request.
Seen == outcome # None /\ outcome.route # NoRoute

Matched(i) == i \in outcome.result.matches

\* The text under at most two percent escapes of each character.
Unescaped(t) == Mapped(t, LAMBDA e : Chr(e.char))

AtMostTwice(t) ==
    /\ Chr("%") \notin ToSet(Unescaped(t))
    /\ \A i \in DOMAIN t : t[i].code \in {<<>>, <<"pct">>, <<"pct", "pct">>}

(***************************************************************************)
(* "Deterministic request normalization (bounded decoding)" (README.md:12):*)
(* a rule for queries finds the patterns of its file however a query is    *)
(* written, and nothing else, if they are ones its automaton is exact for: *)
(* none doubles a character or begins as another goes on.  (That leaves    *)
(* out the two backslashes of rules/traversal.txt, reported for one.)      *)
(* Percent escapes make no difference, up to two around a character; and   *)
(* letters none to a rule that lowercases, in the query or in the file     *)
(* (normalize.go:21-51, compile.go:54, 87-126).  The patterns of the file  *)
(* are plain, as nothing decodes them.                                     *)
(***************************************************************************)
FoundHoweverWritten ==
    Seen /\ changed = {} => \A i \in DOMAIN engine :
        LET rule == cfg.rules[i]
            t == outcome.request.query
            Read(s) == IF "lowercase" \in rule.transforms
                       THEN Lower(Unescaped(s)) ELSE Unescaped(s)
            patterns == ToSet(ReadPatterns(files[rule.file].lines))
        IN  /\ rule.phase = "query" /\ rule.type = "aho" /\ AtMostTwice(t)
            /\ Tame(engine[i].patterns) /\ \A p \in patterns : p = Unescaped(p)
            /\ "normalize_path" \notin rule.transforms
            => (Matched(i) <=> \E p \in patterns : Occurs(Read(p), Read(t)))

(***************************************************************************)
(* A rule that normalizes paths, and leaves entities alone, is given none  *)
(* with a segment of dots or an empty one, whatever escapes they hide      *)
(* behind, and another pass would change nothing (path.go:5-46).           *)
(***************************************************************************)
PathClean ==
    Seen => \A i \in DOMAIN engine :
        LET q == outcome.request
            t == Normalized(<<Chr(q.method), Space>> \o q.path,
                            engine[i].transforms \ {"html_entity"})
            parts == Segments(t)
        IN  "normalize_path" \in engine[i].transforms =>
                /\ NormalizePath(t) = t
                /\ \A k \in 2..(Len(parts) - 1) : parts[k] # <<>>
                /\ \A k \in DOMAIN parts :
                      parts[k] \notin {Dot, Dots}

\* A pattern that lies within one header or one field.
Within(p) == Space \notin ToSet(p) /\ Newline \notin ToSet(p)

(***************************************************************************)
(* Go's map order does not decide what a rule finds, when its patterns lie *)
(* within a header or a field, its matcher is exact for them, it does not  *)
(* normalize paths (which drops a segment that the next field or header    *)
(* may have begun), and the body has no more fields than are looked at     *)
(* (gateway.go:368-385, 424-452).                                          *)
(***************************************************************************)
OrderBlind ==
    Seen => \A i \in DOMAIN engine :
        /\ \A p \in ToSet(engine[i].patterns) : Within(p)
        /\ engine[i].type = "aho" => Tame(engine[i].patterns)
        /\ "normalize_path" \notin engine[i].transforms
        /\ Cardinality(DOMAIN outcome.request.body.fields) <= MaxFields
        => \A result \in Results(outcome.route, outcome.request) :
              Matched(i) <=> i \in result.matches

(***************************************************************************)
(* "A deterministic rule engine" (README.md:3): a request has one score,   *)
(* however often it comes.                                                 *)
(***************************************************************************)
Deterministic ==
    Seen => \A result \in Results(outcome.route, outcome.request) :
               result.score = outcome.result.score

\* Two requests that differ in what is withheld from the rules only.
Withheld(q, r) ==
    /\ [q EXCEPT !.headers = None, !.body = None] = [r EXCEPT !.headers = None, !.body = None]
    /\ DOMAIN q.headers = DOMAIN r.headers
    /\ \A h \in DOMAIN q.headers \ Sensitive : q.headers[h] = r.headers[h]
    /\ \/ q.body = r.body
       \/ /\ q.body.json /\ r.body.json
          /\ DOMAIN q.body.fields = DOMAIN r.body.fields
          /\ Cardinality(DOMAIN q.body.fields) <= MaxFields
          /\ \A k \in DOMAIN q.body.fields :
                /\ q.body.fields[k] = <<>> <=> r.body.fields[k] = <<>>
                /\ k \notin SecretKeys => q.body.fields[k] = r.body.fields[k]
          /\ \E k \in DOMAIN q.body.fields : q.body.fields[k] # <<>>

(***************************************************************************)
(* "Secret redaction for headers and JSON body evidence" (CHANGELOG.md:18):*)
(* two requests that differ in nothing but the value of a sensitive header *)
(* or of a secret field of a JSON object have the same result, for the     *)
(* rules see neither (gateway.go:368-394, 410-481).  A body whose fields   *)
(* are all nested is given to the rules as it is, and is left out here.    *)
(***************************************************************************)
SecretsUnseen ==
    Seen => \A q \in Requests :
        Withheld(outcome.request, q) => outcome.result \in Results(outcome.route, q)

(***************************************************************************)
(* A body that is not read would have changed nothing: readBodyIfNeeded    *)
(* leaves it to the proxy only if no rule looks at it, whatever the order  *)
(* of the rules (gateway.go:483-496, 573-583).                             *)
(***************************************************************************)
UnreadIrrelevant ==
    Seen => outcome.result \in {Evaluate(engine, ctx) :
                ctx \in Contexts(outcome.request, outcome.request.body)}
=============================================================================
