------------------------------- MODULE Config -------------------------------
(***************************************************************************)
(* internal/config: what a configuration is, and what Validate finds wrong *)
(* with it and with the files it names; and what the flags of the commands *)
(* make of it (cmd/klyr).                                                  *)
(*                                                                         *)
(* A path is resolved.  Of an address, a URL and the pattern of a regex,   *)
(* what counts is whether Go's libraries take it: Addresses, URLs and      *)
(* Regexes are the ones they do.                                           *)
(***************************************************************************)
EXTENDS Integers, FiniteSets

CONSTANTS Addresses, URLs, Regexes, \* what the libraries accept
          Unset,                    \* "" where the file gives no value
          Roomy                     \* paths in a directory that takes new files

\* A file: nothing, a directory, or one of lines, which may hold a contract;
\* and whether os.Open takes it.
File(kind, lines) == [kind |-> kind, opens |-> kind # "missing", lines |-> lines]

Missing == File("missing", <<>>)
Directory == File("directory", <<>>)
Contract == File("contract", << <<[char |-> "{", code |-> <<>>]>> >>)
Lines(text) == File("lines", text)

\* Its permissions keep klyr from opening it.
Locked(file) == [file EXCEPT !.opens = FALSE]

\* os.Stat finds it, and it is no directory; whether it opens is not asked.
RequireFile(file) == file.kind \notin {"missing", "directory"}

\* os.Open succeeds, which it does for a directory too.
EnsureReadable(file) == file.opens

\* What the libraries that read a file need: it opens, and is no directory.
Reads(file) == file.opens /\ RequireFile(file)

Modes == {"learn", "enforce", "shadow"}

TLSProblems(c, files) ==
    {name \in {"certFile", "keyFile"} :
        c.tls.enabled /\ (c.tls[name] = Unset \/ ~RequireFile(files[c.tls[name]]))}

UpstreamProblems(c, i) ==
    LET u == c.upstreams[i]
    IN  {p \in {"name is required", "name is duplicated", "url"} :
            CASE p = "name is required" -> u.name = Unset
              [] p = "name is duplicated" ->
                    u.name # Unset /\ \E j \in 1..(i - 1) : c.upstreams[j].name = u.name
              [] p = "url" -> u.url \notin URLs}

\* validateContractPath: a learning policy writes it, an enforcing one reads it.
ContractPathFits(mode, path, files) ==
    CASE mode = "learn" -> path \in Roomy
      [] mode = "enforce" -> EnsureReadable(files[path])
      [] mode = "shadow" -> TRUE
      [] OTHER -> FALSE

PolicyProblems(p, files) ==
    {field \in {"mode", "anomalyThreshold", "maxBodyBytes",
                "maxHeaderBytes", "timeout", "path", "rps", "burst"} :
          CASE field = "mode" -> p.mode \notin Modes
          [] field = "anomalyThreshold" -> p.threshold < 0
          [] field = "maxBodyBytes" -> p.maxBody <= 0
          [] field = "maxHeaderBytes" -> p.maxHeader <= 0
          [] field = "timeout" -> p.timeout <= 0
          [] field = "path" -> p.path = Unset \/ ~ContractPathFits(p.mode, p.path, files)
          [] field = "rps" -> p.limited /\ p.rps <= 0
          [] field = "burst" -> p.limited /\ p.burst <= 0}

\* Variant: a route may name an upstream that there is not.
UpstreamUnset(c, r) == r.upstream = Unset

UpstreamUnknown(c, r) ==
    r.upstream \notin {c.upstreams[j].name : j \in DOMAIN c.upstreams} \ {Unset}

RouteProblems(c, i) ==
    LET r == c.routes[i]
    IN  {p \in {"pathPrefix", "upstream", "policy"} :
            CASE p = "pathPrefix" -> r.prefix = <<>>
              [] p = "upstream" -> UpstreamUnknown(c, r)
              [] p = "policy" -> r.policy \notin DOMAIN c.policies \ {Unset}}

\* Variant: the pattern is not compiled.
PatternUnset(r) == r.pattern = <<>>

PatternUnfit(r) == r.pattern = <<>> \/ r.pattern \notin Regexes

RuleProblems(c, i, files) ==
    LET r == c.rules[i]
    IN  {p \in {"id is required", "id is duplicated", "type", "patternsFile", "pattern"} :
            CASE p = "id is required" -> r.id = Unset
              [] p = "id is duplicated" ->
                    r.id # Unset /\ \E j \in 1..(i - 1) : c.rules[j].id = r.id
              [] p = "type" -> r.type \notin {"aho", "regex"}
              [] p = "patternsFile" ->
                    r.type = "aho" /\ (r.file = Unset \/ ~RequireFile(files[r.file]))
              [] p = "pattern" -> r.type = "regex" /\ PatternUnfit(r)}

\* What there is to complain about, and where: the server, ...
ServerProblems(c, files) ==
    {<<"configVersion", v>> : v \in {c.version} \ {1}}
    \cup {<<"server.listen", a>> : a \in {c.listen} \ Addresses}
    \cup {<<"server.tls", p>> : p \in TLSProblems(c, files)}
    \cup {<<"metrics.listen", a>> :
            a \in {a \in {c.metrics.listen} \ Addresses : c.metrics.enabled}}

\* ... and each list in turn.
InUpstreams(c) ==
    UNION {{<<"upstreams", i, p>> : p \in UpstreamProblems(c, i)} : i \in DOMAIN c.upstreams}

InPolicies(c, files) ==
    {<<"policies", n>> : n \in {Unset} \cap DOMAIN c.policies}
    \cup UNION {{<<"policies", n, p>> : p \in PolicyProblems(c.policies[n], files)} :
                   n \in DOMAIN c.policies \ {Unset}}

InRoutes(c) ==
    UNION {{<<"routes", i, p>> : p \in RouteProblems(c, i)} : i \in DOMAIN c.routes}

InRules(c, files) ==
    UNION {{<<"rules", i, p>> : p \in RuleProblems(c, i, files)} : i \in DOMAIN c.rules}

\* Config.Validate.
Validate(c, files) ==
    ServerProblems(c, files) \cup InUpstreams(c) \cup InPolicies(c, files)
      \cup InRoutes(c) \cup InRules(c, files)
-----------------------------------------------------------------------------
\* applyOverrides: a flag that is set goes for every policy.
ApplyOverrides(c, mode, path) ==
    [c EXCEPT !.policies = [n \in DOMAIN @ |->
        [@[n] EXCEPT !.mode = IF mode = Unset THEN @ ELSE mode,
                     !.path = IF path = Unset THEN @ ELSE path]]]

\* klyr learn and klyr enforce set the mode, klyr run takes it from a flag.
Overridden(c, command) ==
    CASE command.name = "learn" -> ApplyOverrides(c, "learn", command.path)
      [] command.name = "enforce" -> ApplyOverrides(c, "enforce", command.path)
      [] command.name = "run" -> ApplyOverrides(c, command.mode, command.path)
      [] command.name = "validate" -> c
=============================================================================
