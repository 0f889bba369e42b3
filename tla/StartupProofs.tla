--------------------------- MODULE StartupProofs ---------------------------
(***************************************************************************)
(* What Startup keeps, for any command lines, configurations and files     *)
(* that change in between: what validates starts, and what serves holds    *)
(* together.  And of the requests it serves: each gets the route it is due,*)
(* the rules find a pattern that their matcher is exact for however a      *)
(* query is written and whatever order Go ranges over headers and fields   *)
(* in, a path that is normalized has no dots left to follow, secrets and   *)
(* bodies that are not read change nothing.                                *)
(***************************************************************************)
EXTENDS Startup, FiniteSetTheorems, SequenceTheorems, WellFoundedInduction, TLAPS

\* A sequence with one element more is one.
LEMMA Longer ==
    ASSUME NEW s, s \in Seq(ToSet(s)), NEW e
    PROVE  /\ Append(s, e) \in Seq(ToSet(Append(s, e)))
           /\ Len(Append(s, e)) = Len(s) + 1
           /\ Append(s, e)[Len(s) + 1] = e
           /\ \A i \in 1..Len(s) : Append(s, e)[i] = s[i]
<1> DEFINE T == ToSet(s) \cup {e}
           t == Append(s, e)
<1>1. s \in Seq(T)
  OBVIOUS
<1>2. /\ t \in Seq(T) /\ Len(t) = Len(s) + 1 /\ t[Len(s) + 1] = e
      /\ \A i \in 1..Len(s) : t[i] = s[i]
  BY <1>1
<1> HIDE DEF t
<1>3. \A i \in 1..Len(t) : t[i] \in ToSet(t)
  BY <1>2 DEF ToSet
<1>4. t \in Seq(ToSet(t))
  BY <1>2, <1>3
<1> QED
  BY <1>2, <1>4 DEF t

\* The flags leave routes and rules alone, and the names of the policies.
LEMMA OverridesPolicies ==
    ASSUME NEW c \in Sources, NEW cmd \in Commands
    PROVE  LET o == Overridden(c, cmd)
           IN  /\ o.routes = c.routes /\ o.rules = c.rules
               /\ cmd.name \in {"learn", "enforce"} =>
                     \A n \in DOMAIN o.policies : o.policies[n].mode = cmd.name
<1>1. ASSUME NEW mode, NEW path
      PROVE  LET o == ApplyOverrides(c, mode, path)
             IN  /\ o.routes = c.routes /\ o.rules = c.rules
                 /\ mode # Unset =>
                       \A n \in DOMAIN o.policies : o.policies[n].mode = mode
  BY StartupAssumption DEF ApplyOverrides
<1>2. CASE cmd.name = "learn"
  BY <1>1, <1>2, StartupAssumption DEF Overridden, Modes
<1>3. CASE cmd.name = "enforce"
  BY <1>1, <1>3, StartupAssumption DEF Overridden, Modes
<1>4. CASE cmd.name = "run"
  BY <1>1, <1>4 DEF Overridden
<1>5. CASE cmd.name = "validate"
  BY <1>5 DEF Overridden
<1> QED
  BY <1>2, <1>3, <1>4, <1>5, StartupAssumption

\* Nothing to say of a configuration is nothing to say of its parts.
LEMMA NothingWrong ==
    ASSUME NEW c, NEW fs, Validate(c, fs) = {}
    PROVE  /\ \A i \in DOMAIN c.rules : RuleProblems(c, i, fs) = {}
           /\ \A i \in DOMAIN c.routes : RouteProblems(c, i) = {}
           /\ \A n \in DOMAIN c.policies \ {Unset} : PolicyProblems(c.policies[n], fs) = {}
<1>1. InRules(c, fs) = {} /\ InRoutes(c) = {} /\ InPolicies(c, fs) = {}
  BY Zenon DEF Validate
<1>2. ASSUME NEW i \in DOMAIN c.rules, NEW p \in RuleProblems(c, i, fs) PROVE FALSE
  <2> DEFINE Of(k) == {<<"rules", k, q>> : q \in RuleProblems(c, k, fs)}
  <2>1. <<"rules", i, p>> \in Of(i)
    OBVIOUS
  <2>2. UNION {Of(k) : k \in DOMAIN c.rules} = {}
    BY <1>1 DEF InRules
  <2> HIDE DEF Of
  <2> QED
    BY <2>1, <2>2
<1>3. ASSUME NEW i \in DOMAIN c.routes, NEW p \in RouteProblems(c, i) PROVE FALSE
  <2> DEFINE Of(k) == {<<"routes", k, q>> : q \in RouteProblems(c, k)}
  <2>1. <<"routes", i, p>> \in Of(i)
    OBVIOUS
  <2>2. UNION {Of(k) : k \in DOMAIN c.routes} = {}
    BY <1>1 DEF InRoutes
  <2> HIDE DEF Of
  <2> QED
    BY <2>1, <2>2
<1>4. ASSUME NEW n \in DOMAIN c.policies \ {Unset}, NEW p \in PolicyProblems(c.policies[n], fs) PROVE FALSE
  <2> DEFINE Of(k) == {<<"policies", k, q>> : q \in PolicyProblems(c.policies[k], fs)}
  <2>1. <<"policies", n, p>> \in Of(n)
    OBVIOUS
  <2>2. UNION {Of(k) : k \in DOMAIN c.policies \ {Unset}} = {}
    BY <1>1 DEF InPolicies
  <2> HIDE DEF Of
  <2> QED
    BY <2>1, <2>2
<1> QED
  BY <1>2, <1>3, <1>4, Zenon
-----------------------------------------------------------------------------
\* What is true of the state on the way: an exit ends the command, and what
\* Validate found nothing wrong with stays so while no file changes.
Ended == exit # "none" => phase = "done"

Lists ==
    /\ cfg.routes \in Seq(ToSet(cfg.routes)) /\ cfg.rules \in Seq(ToSet(cfg.rules))
    /\ engine \in Seq(ToSet(engine)) /\ loaded \in Seq(ToSet(loaded))
    /\ phase \in {"load", "validate"} => engine = <<>>
    /\ phase \in {"load", "validate", "compile"} => loaded = <<>>
    /\ phase = "load" => cfg \in Sources
    /\ command \in Commands

Untouched ==
    phase \in {"compile", "contracts"} /\ changed = {} => Validate(cfg, files) = {}

LEMMA OnTheWay == Spec => [](Ended /\ Lists /\ Untouched)
<1> USE StartupAssumption
<1>1. Init => Ended /\ Lists /\ Untouched
  <2> SUFFICES ASSUME Init PROVE Lists
    BY DEF Init, Ended, Untouched
  <2>1. <<>> \in Seq(ToSet(<<>>))
    OBVIOUS
  <2> QED
    BY <2>1 DEF Init, Lists
<1>2. Ended /\ Lists /\ Untouched /\ [Next]_vars => (Ended /\ Lists /\ Untouched)'
  <2> SUFFICES ASSUME Ended, Lists, Untouched, [Next]_vars
               PROVE  Ended' /\ Lists' /\ Untouched'
    OBVIOUS
  <2>1. CASE LoadFails
    BY <2>1 DEF LoadFails, Exit, Ended, Lists, Untouched
  <2>2. CASE Load
    BY <2>2, OverridesPolicies DEF Load, GoTo, Ended, Lists, Untouched
  <2>3. CASE CheckConfig
    <3>1. problems' = {} \/ phase' = "done"
      BY <2>3 DEF CheckConfig, Exit
    <3>2. problems' = Validate(cfg, files) /\ UNCHANGED <<command, files, cfg, engine, loaded>>
      BY <2>3 DEF CheckConfig
    <3>3. phase = "validate" /\ exit = "none" /\ phase' \in {"done", "compile"}
          /\ (phase' = "compile" => exit' = exit)
      BY <2>3 DEF CheckConfig, Exit, GoTo, Ended
    <3> QED
      BY <3>1, <3>2, <3>3 DEF Ended, Lists, Untouched
  <2>4. CASE CompileRule
    <3>1. engine' \in Seq(ToSet(engine'))
      <4>1. engine \in Seq(ToSet(engine))
        BY DEF Lists
      <4>2. engine' = engine \/ \E e : engine' = Append(engine, e)
        BY <2>4 DEF CompileRule
      <4>3. ASSUME NEW e, engine' = Append(engine, e) PROVE engine' \in Seq(ToSet(engine'))
        <5>1. Append(engine, e) \in Seq(ToSet(Append(engine, e)))
          BY <4>1, Longer
        <5> QED
          BY <4>3, <5>1
      <4> QED
        BY <4>1, <4>2, <4>3
    <3> QED
      BY <2>4, <3>1 DEF CompileRule, Exit, Ended, Lists, Untouched
  <2>5. CASE AllCompiled
    BY <2>5 DEF AllCompiled, GoTo, Ended, Lists, Untouched
  <2>6. CASE LoadContract
    <3>1. loaded' \in Seq(ToSet(loaded'))
      <4>1. loaded \in Seq(ToSet(loaded))
        BY DEF Lists
      <4>2. loaded' = loaded \/ \E e : loaded' = Append(loaded, e)
        BY <2>6 DEF LoadContract
      <4>3. ASSUME NEW e, loaded' = Append(loaded, e) PROVE loaded' \in Seq(ToSet(loaded'))
        <5>1. Append(loaded, e) \in Seq(ToSet(Append(loaded, e)))
          BY <4>1, Longer
        <5> QED
          BY <4>3, <5>1
      <4> QED
        BY <4>1, <4>2, <4>3
    <3> QED
      BY <2>6, <3>1 DEF LoadContract, Exit, Ended, Lists, Untouched
  <2>7. CASE AllLoaded
    BY <2>7 DEF AllLoaded, GoTo, Ended, Lists, Untouched
  <2>8. CASE OpenLog
    BY <2>8 DEF OpenLog, GoTo, Exit, Ended, Lists, Untouched
  <2>9. CASE Listen
    BY <2>9 DEF Listen, GoTo, Exit, Ended, Lists, Untouched
  <2>10. ASSUME NEW q \in Requests, Handle(q) PROVE Ended' /\ Lists' /\ Untouched'
    BY <2>10 DEF Handle, Ended, Lists, Untouched
  <2>11. ASSUME NEW p \in Paths, NEW content \in Contents, Change(p, content)
         PROVE  Ended' /\ Lists' /\ Untouched'
    BY <2>11 DEF Change, Ended, Lists, Untouched
  <2>12. CASE UNCHANGED vars
    BY <2>12 DEF vars, Ended, Lists, Untouched
  <2> QED
    BY <2>1, <2>2, <2>3, <2>4, <2>5, <2>6, <2>7, <2>8, <2>9, <2>10, <2>11, <2>12 DEF Next
<1> QED
  BY <1>1, <1>2, PTL DEF Spec
-----------------------------------------------------------------------------
(***************************************************************************)
(* What Validate accepts starts: a rule or a contract is only refused when *)
(* a file has changed since, or for what Validate does not look at         *)
(* (validate.go:36-185, gateway.go:93-116).                                *)
(***************************************************************************)
THEOREM ValidStarts == Spec => []ValidatedStarts
<1>1. Init => ValidatedStarts
  BY DEF Init, ValidatedStarts
<1>2. Ended /\ Lists /\ Untouched /\ ValidatedStarts /\ [Next]_vars => ValidatedStarts'
  <2> SUFFICES ASSUME Ended, Lists, Untouched, ValidatedStarts, [Next]_vars,
                      exit' \in {"rule", "contract"}, changed' = {}
               PROVE  Unchecked'
    BY DEF ValidatedStarts
  <2>1. CASE CompileRule
    <3> DEFINE i == Len(engine) + 1
               rule == cfg.rules[i]
    <3>1. /\ ~Builds(rule) /\ UNCHANGED <<cfg, files, changed>>
          /\ phase = "compile" /\ Len(engine) < Len(cfg.rules)
      BY <2>1 DEF CompileRule, Ended
    <3>2. i \in DOMAIN cfg.rules
      BY <3>1 DEF Lists
    <3>3. RuleProblems(cfg, i, files) = {}
      BY <3>1, <3>2, NothingWrong DEF Untouched
    <3> HIDE DEF i
    <3>4. /\ rule.type \in {"aho", "regex"}
          /\ rule.type = "aho" => RequireFile(files[rule.file])
          /\ rule.type = "regex" => rule.pattern \in Regexes
      BY <3>3 DEF RuleProblems, PatternUnfit
    <3>5. CASE rule.type = "aho"
      <4> DEFINE file == files[rule.file]
      <4>1. ~PatternsRead(file) \/ ~Compiles(rule, file.lines)
        BY <3>1, <3>5 DEF Builds
      <4>2. CASE ~(rule.transforms \subseteq Transforms)
        BY <3>1, <3>2, <4>2 DEF Unchecked
      <4>3. CASE Patterns(rule, file.lines) = <<>>
        <5> DEFINE read == ReadPatterns(file.lines)
        <5>1. ApplyPatternTransforms(read, rule.transforms) = <<>>
          BY <3>5, <4>3 DEF Patterns
        <5>2. DOMAIN ApplyPatternTransforms(read, rule.transforms) = DOMAIN read
          BY DEF ApplyPatternTransforms, Mapped
        <5>3. DOMAIN read = {}
          BY <5>1, <5>2
        <5> QED
          BY <3>1, <3>2, <3>4, <3>5, <5>3 DEF Unchecked
      <4>4. CASE ~PatternsRead(file)
        <5>1. ~file.opens \/ \E l \in ToSet(file.lines) : Len(l) > MaxLine
          BY <3>4, <3>5, <4>4, Zenon DEF PatternsRead, Reads
        <5> QED
          BY <3>1, <3>2, <3>4, <3>5, <5>1 DEF Unchecked
      <4> QED
        BY <4>1, <4>2, <4>3, <4>4 DEF Compiles
    <3>6. CASE rule.type = "regex"
      <4>1. Patterns(rule, <<>>) = <<rule.pattern>>
        BY <3>6 DEF Patterns
      <4>2. ~(rule.transforms \subseteq Transforms)
        BY <3>1, <3>4, <3>6, <4>1 DEF Builds, Compiles
      <4> QED
        BY <3>1, <3>2, <4>2 DEF Unchecked
    <3> QED
      BY <3>4, <3>5, <3>6
  <2>2. CASE LoadContract
    <3> DEFINE i == Len(loaded) + 1
               name == cfg.routes[i].policy
               policy == cfg.policies[name]
    <3>1. /\ policy.mode = "enforce" /\ files[policy.path] # Contract
          /\ UNCHANGED <<cfg, files, changed>>
          /\ phase = "contracts" /\ Len(loaded) < Len(cfg.routes)
      BY <2>2 DEF LoadContract, Ended, PolicyFor
    <3>2. i \in DOMAIN cfg.routes
      BY <3>1 DEF Lists
    <3>3. /\ RouteProblems(cfg, i) = {}
          /\ \A n \in DOMAIN cfg.policies \ {Unset} : PolicyProblems(cfg.policies[n], files) = {}
      BY <3>1, <3>2, NothingWrong DEF Untouched
    <3> HIDE DEF i
    <3>4. name \in DOMAIN cfg.policies \ {Unset}
      BY <3>3 DEF RouteProblems
    <3>5. PolicyProblems(policy, files) = {}
      BY <3>3, <3>4
    <3>6. ContractPathFits(policy.mode, policy.path, files)
      BY <3>5 DEF PolicyProblems
    <3>7. files[policy.path].opens
      BY <3>1, <3>6 DEF ContractPathFits, EnsureReadable
    <3> QED
      BY <3>1, <3>2, <3>7 DEF Unchecked, PolicyFor
  <2>3. CASE UNCHANGED <<exit, cfg, files, changed>>
    BY <2>3 DEF ValidatedStarts, Unchecked, PolicyFor
  <2>4. CASE Load \/ \E p \in Paths, content \in Contents : Change(p, content)
    BY <2>4 DEF Load, GoTo, Change, Ended
  <2> QED
    BY <2>1, <2>2, <2>3, <2>4
       DEF Next, LoadFails, CheckConfig, AllCompiled, AllLoaded, OpenLog, Listen, Handle,
           Exit, GoTo, vars, Ended
<1> QED
  BY <1>1, <1>2, OnTheWay, PTL DEF Spec
-----------------------------------------------------------------------------
\* What Validate says of routes and modes is so in all later phases, under the
\* mode of the command; and the rules and contracts are those of the lists.
Later == {"compile", "contracts", "log", "listen", "serving"}

RoutesResolve ==
    phase \in Later =>
        \A i \in DOMAIN cfg.routes : Resolves(i) /\ PolicyFor(i).mode \in Modes

ModesSet ==
    phase \in Later \cup {"validate"} /\ command.name \in {"learn", "enforce"} =>
        \A n \in DOMAIN cfg.policies : cfg.policies[n].mode = command.name

ContractOf(mode) ==
    CASE mode = "learn" -> "new" [] mode = "enforce" -> "loaded" [] OTHER -> "none"

AllBuilt ==
    /\ phase \in Later \ {"compile"} => Len(engine) = Len(cfg.rules)
    /\ phase = "compile" => Len(engine) <= Len(cfg.rules)
    /\ phase \in Later => \A i \in 1..Len(loaded) : loaded[i] = ContractOf(PolicyFor(i).mode)
    /\ phase \in Later => Len(loaded) <= Len(cfg.routes)
    /\ phase \in {"log", "listen", "serving"} => Len(loaded) = Len(cfg.routes)

\* A validated route has its policy, with a mode there is, and its upstream.
LEMMA ValidResolves ==
    ASSUME Validate(cfg, files) = {}
    PROVE  \A i \in DOMAIN cfg.routes : Resolves(i) /\ PolicyFor(i).mode \in Modes
<1> SUFFICES ASSUME NEW i \in DOMAIN cfg.routes
             PROVE  Resolves(i) /\ PolicyFor(i).mode \in Modes
  OBVIOUS
<1>1. /\ RouteProblems(cfg, i) = {}
      /\ \A n \in DOMAIN cfg.policies \ {Unset} : PolicyProblems(cfg.policies[n], files) = {}
  BY NothingWrong
<1>2. cfg.routes[i].policy \in DOMAIN cfg.policies \ {Unset}
  BY <1>1 DEF RouteProblems
<1>3. ~UpstreamUnknown(cfg, cfg.routes[i])
  BY <1>1 DEF RouteProblems
<1>4. PolicyProblems(PolicyFor(i), files) = {}
  BY <1>1, <1>2 DEF PolicyFor
<1>5. PolicyFor(i).mode \in Modes
  BY <1>4 DEF PolicyProblems
<1> QED
  BY <1>2, <1>3, <1>5 DEF Resolves, UpstreamUnknown

LEMMA BuiltOnTheWay == Spec => [](RoutesResolve /\ ModesSet /\ AllBuilt)
<1> DEFINE Inv == RoutesResolve /\ ModesSet /\ AllBuilt
<1>1. Init => Inv
  BY DEF Init, RoutesResolve, ModesSet, AllBuilt, Later
<1>2. Ended /\ Lists /\ Untouched /\ Inv /\ [Next]_vars => Inv'
  <2> SUFFICES ASSUME Ended, Lists, Untouched, RoutesResolve, ModesSet, AllBuilt, [Next]_vars
               PROVE  RoutesResolve' /\ ModesSet' /\ AllBuilt'
    OBVIOUS
  <2>1. CASE LoadFails
    BY <2>1 DEF LoadFails, Exit, RoutesResolve, ModesSet, AllBuilt, Later
  <2>2. CASE Load
    BY <2>2, OverridesPolicies DEF Load, GoTo, RoutesResolve, ModesSet, AllBuilt, Later, Lists
  <2>3. CASE CheckConfig
    <3>1. /\ phase = "validate" /\ phase' \in {"done", "compile"}
          /\ phase' = "compile" => Validate(cfg, files) = {}
          /\ UNCHANGED <<command, cfg, engine, loaded>>
      BY <2>3 DEF CheckConfig, Exit, GoTo
    <3>2. RoutesResolve'
      BY <3>1, ValidResolves DEF RoutesResolve, Resolves, PolicyFor, Later
    <3>3. ModesSet'
      BY <3>1 DEF ModesSet, Later
    <3>4. engine = <<>> /\ loaded = <<>> /\ Len(cfg.rules) \in Nat /\ Len(cfg.routes) \in Nat
      BY <3>1 DEF Lists
    <3>5. AllBuilt'
      BY <3>1, <3>4 DEF AllBuilt, Later
    <3> QED
      BY <3>2, <3>3, <3>5
  <2>4. CASE CompileRule
    <3>1. /\ phase = "compile" /\ phase' \in {"compile", "done"}
          /\ Len(engine) < Len(cfg.rules) /\ UNCHANGED <<command, cfg, loaded>>
          /\ phase' = "compile" => \E e : engine' = Append(engine, e)
      BY <2>4 DEF CompileRule, Exit, Ended
    <3>2. phase' = "compile" => Len(engine') <= Len(cfg.rules)
      BY <3>1, Longer DEF Lists
    <3> QED
      BY <3>1, <3>2 DEF RoutesResolve, ModesSet, AllBuilt, Later, Resolves, PolicyFor
  <2>5. CASE AllCompiled
    BY <2>5 DEF AllCompiled, GoTo, RoutesResolve, ModesSet, AllBuilt, Later, Resolves, PolicyFor
  <2>6. CASE LoadContract
    <3> DEFINE mode == PolicyFor(Len(loaded) + 1).mode
    <3>1. /\ phase = "contracts" /\ phase' \in {"contracts", "done"}
          /\ Len(loaded) < Len(cfg.routes) /\ UNCHANGED <<command, cfg, engine>>
          /\ phase' = "contracts" => loaded' = Append(loaded, ContractOf(mode))
      BY <2>6 DEF LoadContract, Exit, Ended, ContractOf
    <3>2. RoutesResolve' /\ ModesSet'
      BY <3>1 DEF RoutesResolve, ModesSet, Later, Resolves, PolicyFor
    <3>3. CASE phase' = "contracts"
      <4>1. /\ Len(loaded') = Len(loaded) + 1
            /\ loaded'[Len(loaded) + 1] = ContractOf(mode)
            /\ \A i \in 1..Len(loaded) : loaded'[i] = loaded[i]
            /\ Len(loaded) \in Nat /\ Len(cfg.routes) \in Nat
        <5>1. loaded \in Seq(ToSet(loaded)) /\ Len(loaded) \in Nat /\ Len(cfg.routes) \in Nat
          BY DEF Lists
        <5>2. loaded' = Append(loaded, ContractOf(mode))
          BY <3>1, <3>3
        <5> HIDE DEF mode
        <5> QED
          BY <5>1, <5>2, Longer
      <4>2. \A i \in 1..Len(loaded') : loaded'[i] = ContractOf(PolicyFor(i).mode)
        BY <3>1, <4>1 DEF AllBuilt, Later
      <4> HIDE DEF mode
      <4>3. Len(engine') = Len(cfg'.rules)
        BY <3>1 DEF AllBuilt, Later
      <4>4. Len(loaded') <= Len(cfg'.routes)
        BY <3>1, <4>1
      <4>5. \A i \in 1..Len(loaded') : loaded'[i] = ContractOf(PolicyFor(i)'.mode)
        BY <3>1, <4>2 DEF PolicyFor
      <4>6. AllBuilt'
        BY <3>3, <4>3, <4>4, <4>5 DEF AllBuilt
      <4> QED
        BY <3>2, <4>6
    <3>4. CASE phase' = "done"
      BY <3>2, <3>4 DEF AllBuilt, Later
    <3> QED
      BY <3>1, <3>3, <3>4
  <2>7. CASE AllLoaded
    BY <2>7 DEF AllLoaded, GoTo, RoutesResolve, ModesSet, AllBuilt, Later, Resolves, PolicyFor
  <2>8. CASE OpenLog
    BY <2>8 DEF OpenLog, GoTo, Exit, RoutesResolve, ModesSet, AllBuilt, Later, Resolves, PolicyFor
  <2>9. CASE Listen
    BY <2>9 DEF Listen, GoTo, Exit, RoutesResolve, ModesSet, AllBuilt, Later, Resolves, PolicyFor
  <2>10. CASE UNCHANGED <<command, phase, cfg, engine, loaded>>
    BY <2>10 DEF RoutesResolve, ModesSet, AllBuilt, Later, Resolves, PolicyFor
  <2> QED
    BY <2>1, <2>2, <2>3, <2>4, <2>5, <2>6, <2>7, <2>8, <2>9, <2>10
       DEF Next, Handle, Change, vars
<1> QED
  BY <1>1, <1>2, OnTheWay, PTL DEF Spec

(***************************************************************************)
(* A serving process holds together: every route has its policy, with a    *)
(* mode there is, and its upstream; it has the contract its mode calls     *)
(* for, under the mode the command line gives it; and every rule is in     *)
(* force (run.go:29-41, gateway.go:296-312).                               *)
(***************************************************************************)
THEOREM ServesSound == Spec => []ServingSound
<1>1. Lists /\ RoutesResolve /\ ModesSet /\ AllBuilt => ServingSound
  <2> SUFFICES ASSUME Lists, RoutesResolve, ModesSet, AllBuilt, phase = "serving"
               PROVE  ServingSound
    BY DEF ServingSound
  <2>1. DOMAIN cfg.routes = 1..Len(cfg.routes) /\ Len(loaded) = Len(cfg.routes)
    BY DEF Lists, AllBuilt
  <2> SUFFICES ASSUME NEW i \in DOMAIN cfg.routes
               PROVE  /\ Resolves(i)
                      /\ command.name \in {"learn", "enforce"} => PolicyFor(i).mode = command.name
                      /\ <<PolicyFor(i).mode, loaded[i]>> \in
                            {<<"learn", "new">>, <<"enforce", "loaded">>, <<"shadow", "none">>}
    BY <2>1 DEF ServingSound, AllBuilt, Later
  <2>2. Resolves(i) /\ PolicyFor(i).mode \in Modes
    BY DEF RoutesResolve, Later
  <2>3. command.name \in {"learn", "enforce"} => PolicyFor(i).mode = command.name
    BY <2>2 DEF ModesSet, Later, Resolves, PolicyFor
  <2>4. loaded[i] = ContractOf(PolicyFor(i).mode)
    BY <2>1 DEF AllBuilt, Later
  <2> QED
    BY <2>2, <2>3, <2>4 DEF ContractOf, Modes
<1> QED
  BY <1>1, OnTheWay, BuiltOnTheWay, PTL
-----------------------------------------------------------------------------
\* Every set of naturals has a least member, unless it has none.
LEMMA Least ==
    ASSUME NEW S \in SUBSET Nat, S # {}
    PROVE  \E x \in S : \A y \in S : x <= y
<1>1. PICK R : R = {ss \in Nat \X Nat : ss[1] < ss[2]}
  OBVIOUS
<1>2. IsWellFoundedOn(R, Nat)
  BY <1>1, NatLessThanWellFounded DEF OpToRel
<1>3. PICK x \in S : \A y \in S : ~(<<y, x>> \in R)
  BY <1>2, WFMin
<1>4. \A y \in S : ~(y < x)
  BY <1>1, <1>3
<1> QED
  BY <1>4

\* The place of an ID among the texts of all IDs: after route-1 come route-10 to
\* route-19, and then route-2.
TextPlace(i) ==
    IF i <= 10 THEN (i - 1) * 11 ELSE ((i - 1) \div 10) * 11 + ((i - 1) % 10) + 1

\* Go compares the texts of IDs as their places compare.
LEMMA PlaceOrders ==
    ASSUME NEW i \in Nat \ {0}, NEW j \in Nat \ {0}
    PROVE  /\ TextPlace(i) \in Nat
           /\ TextLess(IDText(i), IDText(j)) <=> TextPlace(i) < TextPlace(j)
           /\ TextPlace(i) = TextPlace(j) => i = j
<1> DEFINE d(k) == (k - 1) \div 10
           e(k) == (k - 1) % 10
<1>1. ASSUME NEW k \in Nat \ {0}
      PROVE  d(k) \in Nat /\ e(k) \in 0..9 /\ k - 1 = 10 * d(k) + e(k)
  OBVIOUS
<1>2. PICK x \in Nat, y \in 0..9 : x = d(i) /\ y = e(i) /\ i - 1 = 10 * x + y
  BY <1>1
<1>3. PICK u \in Nat, v \in 0..9 : u = d(j) /\ v = e(j) /\ j - 1 = 10 * u + v
  BY <1>1
<1>4. /\ IDText(i) = IF i <= 10 THEN <<i - 1>> ELSE <<x, y>>
      /\ IDText(j) = IF j <= 10 THEN <<j - 1>> ELSE <<u, v>>
      /\ TextPlace(i) = IF i <= 10 THEN (i - 1) * 11 ELSE x * 11 + y + 1
      /\ TextPlace(j) = IF j <= 10 THEN (j - 1) * 11 ELSE u * 11 + v + 1
  BY <1>2, <1>3 DEF IDText, TextPlace
<1> HIDE DEF d, e
<1>5. TextPlace(i) \in Nat /\ (TextPlace(i) = TextPlace(j) => i = j)
  BY <1>2, <1>3, <1>4
<1>6. ASSUME NEW a \in Nat, NEW b \in Nat
      PROVE  TextLess(<<a>>, <<b>>) <=> a < b
  <2>1. PICK s, t : s = <<a>> /\ t = <<b>>
    OBVIOUS
  <2> s \in Seq(Nat) /\ t \in Seq(Nat)
    BY <2>1
  <2>2. Len(s) = 1 /\ Len(t) = 1 /\ s[1] = a /\ t[1] = b
    BY <2>1
  <2>3. IsPrefix(s, t) => a = b
    <3>1. SubSeq(s, 1, 1)[1] = a /\ SubSeq(t, 1, 1)[1] = b
      BY <2>2
    <3> QED
      BY <2>2, <3>1 DEF IsPrefix
  <2>4. ~IsStrictPrefix(s, t)
    BY <2>1, <2>3 DEF IsStrictPrefix
  <2>5. TextLess(s, t) <=> \E k \in 1..1 : a < b
    BY <2>2, <2>4 DEF TextLess
  <2> QED
    BY <2>1, <2>5
<1>7. ASSUME NEW a \in Nat, NEW p \in Nat, NEW q \in Nat
      PROVE  /\ TextLess(<<a>>, <<p, q>>) <=> a <= p
             /\ TextLess(<<p, q>>, <<a>>) <=> p < a
  BY DEF TextLess, IsStrictPrefix, IsPrefix
<1>8. ASSUME NEW p \in Nat, NEW q \in Nat, NEW r \in Nat, NEW s \in Nat
      PROVE  TextLess(<<p, q>>, <<r, s>>) <=> (p < r \/ (p = r /\ q < s))
  BY DEF TextLess, IsStrictPrefix, IsPrefix
<1>9. CASE i <= 10 /\ j <= 10
  BY <1>4, <1>5, <1>6, <1>9
<1>10. CASE i <= 10 /\ ~(j <= 10)
  BY <1>2, <1>3, <1>4, <1>5, <1>7, <1>10
<1>11. CASE ~(i <= 10) /\ j <= 10
  BY <1>2, <1>3, <1>4, <1>5, <1>7, <1>11
<1>12. CASE ~(i <= 10) /\ ~(j <= 10)
  BY <1>2, <1>3, <1>4, <1>5, <1>8, <1>12, SMTT(40)
<1> QED
  BY <1>9, <1>10, <1>11, <1>12

\* The order of the routes is one: of any two different ones one comes first,
\* and what comes before one comes before all after it.
LEMMA RoutesOrdered ==
    ASSUME NEW routes, \A i \in DOMAIN routes : Len(routes[i].prefix) \in Nat,
           DOMAIN routes \subseteq Nat \ {0},
           NEW i \in DOMAIN routes, NEW j \in DOMAIN routes
    PROVE  /\ i # j => Before(routes, i, j) \/ Before(routes, j, i)
           /\ \A k \in DOMAIN routes :
                 Before(routes, i, j) /\ Before(routes, j, k) => Before(routes, i, k)
           /\ ~(Before(routes, i, j) /\ Before(routes, j, i))
<1>1. ASSUME NEW m \in DOMAIN routes, NEW n \in DOMAIN routes
      PROVE  /\ TextPlace(m) \in Nat /\ (TextPlace(m) = TextPlace(n) => m = n)
             /\ Before(routes, m, n) <=>
                   \/ Len(routes[m].prefix) > Len(routes[n].prefix)
                   \/ /\ Len(routes[m].prefix) = Len(routes[n].prefix)
                      /\ TextPlace(m) < TextPlace(n)
  BY PlaceOrders DEF Before
<1>2. i # j => Before(routes, i, j) \/ Before(routes, j, i)
  BY <1>1
<1>3. ~(Before(routes, i, j) /\ Before(routes, j, i))
  BY <1>1
<1>4. ASSUME NEW k \in DOMAIN routes, Before(routes, i, j), Before(routes, j, k)
      PROVE  Before(routes, i, k)
  BY <1>1, <1>4
<1> QED
  BY <1>2, <1>3, <1>4

\* So there is a first one among any routes.
LEMMA SomeRouteFirst ==
    ASSUME NEW routes, \A i \in DOMAIN routes : Len(routes[i].prefix) \in Nat,
           NEW n \in Nat, DOMAIN routes = 1..n,
           NEW S \in SUBSET DOMAIN routes, S # {}
    PROVE  \E i \in S : \A j \in S \ {i} : Before(routes, i, j)
<1> DEFINE First(T) == \E i \in T : \A j \in T \ {i} : Before(routes, i, j)
           Bad == {k \in 0..n : \E T \in SUBSET (1..k) : T # {} /\ ~First(T)}
<1> HIDE DEF First
<1>1. Bad = {}
  <2>1. SUFFICES ASSUME Bad # {} PROVE FALSE
    OBVIOUS
  <2>2. PICK k \in Bad : \A l \in Bad : k <= l
    <3>1. Bad \in SUBSET Nat
      OBVIOUS
    <3> HIDE DEF Bad
    <3> QED
      BY <2>1, <3>1, Least
  <2>3. PICK T \in SUBSET (1..k) : T # {} /\ ~First(T)
    OBVIOUS
  <2>4. k \in 1..n /\ k - 1 \in 0..n /\ k - 1 \notin Bad
    <3>1. k \in 0..n
      OBVIOUS
    <3>2. PICK x \in T : TRUE
      BY <2>3
    <3>3. k # 0
      BY <3>2
    <3> HIDE DEF Bad
    <3> QED
      BY <2>2, <3>1, <3>3
  <2>5. \A U \in SUBSET (1..(k - 1)) : U # {} => First(U)
    BY <2>4
  <2>6. k \in T
    <3>1. SUFFICES ASSUME k \notin T PROVE FALSE
      OBVIOUS
    <3>2. T \in SUBSET (1..(k - 1))
      BY <2>4, <3>1
    <3> QED
      BY <2>3, <2>5, <3>2
  <2>7. PICK U : U = T \ {k}
    OBVIOUS
  <2>8. U \in SUBSET (1..(k - 1)) /\ U \subseteq DOMAIN routes /\ k \in DOMAIN routes
    BY <2>4, <2>7
  <2>9. CASE U = {}
    BY <2>3, <2>6, <2>7, <2>9 DEF First
  <2>10. CASE U # {}
    <3>1. PICK b \in U : \A j \in U \ {b} : Before(routes, b, j)
      BY <2>5, <2>8, <2>10 DEF First
    <3>2. DOMAIN routes \subseteq Nat \ {0} /\ b \in DOMAIN routes /\ b # k
      BY <2>7, <2>8
    <3>3. CASE Before(routes, b, k)
      <4>1. \A j \in T \ {b} : Before(routes, b, j)
        BY <2>7, <3>1, <3>3
      <4> QED
        BY <2>3, <2>7, <4>1 DEF First
    <3>4. CASE Before(routes, k, b)
      <4>1. \A j \in U : j \in DOMAIN routes /\ (j = b \/ Before(routes, b, j))
        BY <2>8, <3>1
      <4>2. \A j \in U : Before(routes, k, j)
        BY <2>8, <3>2, <3>4, <4>1, RoutesOrdered
      <4> QED
        BY <2>3, <2>6, <2>7, <4>2 DEF First
    <3> QED
      BY <2>8, <3>2, <3>3, <3>4, RoutesOrdered
  <2> QED
    BY <2>9, <2>10
<1>2. n \in 0..n /\ S \in SUBSET (1..n) /\ n \notin Bad
  BY <1>1
<1>3. First(S)
  BY <1>2
<1> QED
  BY <1>3 DEF First

\* Match finds no route where none fits, and the first in order of those that do.
LEMMA MatchFirst ==
    ASSUME NEW routes, routes \in Seq(ToSet(routes)), NEW q,
           \A i \in DOMAIN routes : Len(routes[i].prefix) \in Nat
    PROVE  LET fitting == {i \in DOMAIN routes : Fits(routes[i], q)}
               m == Match(routes, q)
           IN  /\ fitting = {} => m = NoRoute
               /\ fitting # {} => m \in fitting /\ \A j \in fitting \ {m} : Before(routes, m, j)
<1>1. PICK F : F = {i \in DOMAIN routes : Fits(routes[i], q)}
  OBVIOUS
<1>2. Match(routes, q) = IF F = {} THEN NoRoute
                         ELSE CHOOSE i \in F : \A j \in F \ {i} : Before(routes, i, j)
  BY <1>1 DEF Match
<1>3. F # {} => \E i \in F : \A j \in F \ {i} : Before(routes, i, j)
  <2>1. Len(routes) \in Nat /\ DOMAIN routes = 1..Len(routes) /\ F \in SUBSET DOMAIN routes
    BY <1>1
  <2> QED
    BY <2>1, SomeRouteFirst
<1> QED
  BY <1>1, <1>2, <1>3

\* Requests that the same routes fit are routed to the same one.
LEMMA MatchSame ==
    ASSUME NEW routes, NEW q, NEW r,
           \A i \in DOMAIN routes : Fits(routes[i], q) <=> Fits(routes[i], r)
    PROVE  Match(routes, q) = Match(routes, r)
<1>1. PICK F : F = {i \in DOMAIN routes : Fits(routes[i], q)}
  OBVIOUS
<1>2. F = {i \in DOMAIN routes : Fits(routes[i], r)}
  BY <1>1
<1>3. PICK m : m = IF F = {} THEN NoRoute
                   ELSE CHOOSE i \in F : \A j \in F \ {i} : Before(routes, i, j)
  OBVIOUS
<1>4. ASSUME NEW p, F = {i \in DOMAIN routes : Fits(routes[i], p)}
      PROVE  Match(routes, p) = m
  BY <1>3, <1>4 DEF Match
<1>5. Match(routes, q) = m
  BY <1>1, <1>4
<1>6. Match(routes, r) = m
  BY <1>2, <1>4
<1> QED
  BY <1>5, <1>6

\* The case of its host makes no difference to what fits a request, nor does a
\* port after a host without brackets.
LEMMA SpellingsFit ==
    ASSUME NEW q \in Requests, NEW upper \in BOOLEAN, NEW port \in BOOLEAN, NEW route,
           q.host.bracketed => port = q.host.port
    PROVE  Fits(route, [q EXCEPT !.host.upper = upper, !.host.port = port]) <=> Fits(route, q)
<1>1. PICK r : r = [q EXCEPT !.host.upper = upper, !.host.port = port]
  OBVIOUS
<1>2. /\ {"host", "path"} \subseteq DOMAIN q
      /\ q.host \in HostText
  BY InputAssumption
<1>3. r.path = q.path
  BY <1>1, <1>2
<1>4. r.host = [[q.host EXCEPT !.upper = upper] EXCEPT !.port = port]
  BY <1>1, <1>2
<1>5. RequestHost(r) = RequestHost(q)
  BY <1>2, <1>4 DEF RequestHost, Lowered, StripPort, HostText
<1>6. Fits(route, r) <=> Fits(route, q)
  BY <1>3, <1>5 DEF Fits
<1> QED
  BY <1>1, <1>6
-----------------------------------------------------------------------------
\* The routes have prefixes to compare, and the latest request has the route
\* that Match finds and a result that the rules in force may give it.
PrefixesListed ==
    \A i \in DOMAIN cfg.routes : cfg.routes[i].prefix \in Seq(ToSet(cfg.routes[i].prefix))

Answered ==
    outcome # None =>
        /\ phase = "serving" /\ outcome.request \in Requests
        /\ outcome.route = Match(cfg.routes, outcome.request)
        /\ outcome.route # NoRoute =>
              outcome.result \in Results(outcome.route, outcome.request)

\* What is known of the routes gives Match what it needs.
LEMMA RouteFound ==
    ASSUME Lists, PrefixesListed, NEW q
    PROVE  LET fitting == {i \in DOMAIN cfg.routes : Fits(cfg.routes[i], q)}
               m == Match(cfg.routes, q)
           IN  /\ fitting = {} => m = NoRoute
               /\ fitting # {} =>
                     m \in fitting /\ \A j \in fitting \ {m} : Before(cfg.routes, m, j)
<1>1. \A i \in DOMAIN cfg.routes : Len(cfg.routes[i].prefix) \in Nat
  BY DEF PrefixesListed
<1>2. PICK routes : routes = cfg.routes
  OBVIOUS
<1>3. routes \in Seq(ToSet(routes)) /\ \A i \in DOMAIN routes : Len(routes[i].prefix) \in Nat
  BY <1>1, <1>2 DEF Lists
<1> QED
  BY <1>2, <1>3, MatchFirst

LEMMA AnsweredOnTheWay == Spec => [](PrefixesListed /\ Answered)
<1>1. Init => PrefixesListed /\ Answered
  <2> SUFFICES ASSUME Init PROVE PrefixesListed
    BY DEF Init, Answered
  <2> SUFFICES ASSUME NEW i \in DOMAIN cfg.routes
               PROVE  cfg.routes[i].prefix \in Seq(ToSet(cfg.routes[i].prefix))
    BY DEF PrefixesListed
  <2>1. cfg \in Sources
    BY DEF Init
  <2>2. cfg.routes[i] \in ToSet(cfg.routes)
    BY DEF ToSet
  <2> QED
    BY <2>1, <2>2, StartupAssumption
<1>2. Lists /\ RoutesResolve /\ PrefixesListed /\ Answered /\ [Next]_vars
      => (PrefixesListed /\ Answered)'
  <2> SUFFICES ASSUME Lists, RoutesResolve, PrefixesListed, Answered, [Next]_vars
               PROVE  PrefixesListed' /\ Answered'
    OBVIOUS
  <2>1. CASE Load
    <3>1. cfg' = Overridden(cfg, command) /\ cfg \in Sources /\ command \in Commands
      BY <2>1 DEF Load, Lists
    <3>2. cfg'.routes = cfg.routes
      BY <3>1, OverridesPolicies
    <3> QED
      BY <2>1, <3>2 DEF Load, GoTo, PrefixesListed, Answered
  <2>2. ASSUME NEW q \in Requests, Handle(q) PROVE PrefixesListed' /\ Answered'
    <3> DEFINE i == Match(cfg.routes, q)
    <3>1. phase = "serving" /\ UNCHANGED <<phase, cfg, engine>>
      BY <2>2 DEF Handle
    <3>2. i # NoRoute => Resolves(i)
      <4>1. i # NoRoute => i \in DOMAIN cfg.routes
        BY RouteFound
      <4> QED
        BY <3>1, <4>1 DEF RoutesResolve, Later
    <3>3. \/ /\ i # NoRoute
             /\ \E result \in Results(i, q) :
                   outcome' = [request |-> q, route |-> i, result |-> result]
          \/ i = NoRoute /\ outcome' = [request |-> q, route |-> NoRoute, result |-> None]
      BY <2>2, <3>2 DEF Handle
    <3>4. PrefixesListed'
      BY <3>1 DEF PrefixesListed
    <3>5. /\ outcome'.request = q /\ outcome'.route = i
          /\ outcome'.route # NoRoute => outcome'.result \in Results(i, q)
      <4> HIDE DEF i
      <4> QED
        BY <3>3
    <3>6. Answered'
      BY <3>1, <3>5 DEF Answered, Results, PolicyFor
    <3> QED
      BY <3>4, <3>6
  <2>3. CASE UNCHANGED <<cfg, outcome>> /\ phase # "serving"
    BY <2>3 DEF PrefixesListed, Answered
  <2>4. CASE UNCHANGED vars
    BY <2>4 DEF vars, PrefixesListed, Answered, Results, PolicyFor
  <2> QED
    BY <2>1, <2>2, <2>3, <2>4
       DEF Next, LoadFails, CheckConfig, CompileRule, AllCompiled, LoadContract, AllLoaded,
           OpenLog, Listen, Change
<1> QED
  BY <1>1, <1>2, OnTheWay, BuiltOnTheWay, PTL DEF Spec

(***************************************************************************)
(* The state keeps its type: a command ends exactly when it has an exit,   *)
(* no more rules and contracts are built than there are, and a request has *)
(* a route of the configuration or none (gateway.go:89-145, 173-193).      *)
(***************************************************************************)
THEOREM TypeCorrect == Spec => []TypeOK
<1>1. Init => TypeOK /\ DOMAIN files = Paths
  <2> SUFFICES ASSUME Init PROVE TypeOK /\ DOMAIN files = Paths
    OBVIOUS
  <2>1. files \in Disks /\ cfg \in Sources /\ engine = <<>> /\ loaded = <<>>
    BY DEF Init
  <2>2. \A p \in Paths : files[p] \in Contents \cup {d[p] : d \in Disks}
    BY <2>1
  <2>3. cfg.rules \in Seq(ToSet(cfg.rules)) /\ cfg.routes \in Seq(ToSet(cfg.routes))
    BY <2>1, StartupAssumption
  <2>4. Len(engine) <= Len(cfg.rules) /\ Len(loaded) <= Len(cfg.routes)
    BY <2>1, <2>3
  <2> QED
    BY <2>1, <2>2, <2>4, InputAssumption DEF Init, TypeOK
<1>2. Lists /\ PrefixesListed /\ TypeOK /\ DOMAIN files = Paths /\ [Next]_vars
      => (TypeOK /\ DOMAIN files = Paths)'
  <2> SUFFICES ASSUME Lists, PrefixesListed, TypeOK, DOMAIN files = Paths, [Next]_vars
               PROVE  TypeOK' /\ DOMAIN files' = Paths
    OBVIOUS
  <2>1. CASE LoadFails
    BY <2>1 DEF LoadFails, Exit, TypeOK
  <2>2. CASE Load
    <3>1. cfg' = Overridden(cfg, command) /\ cfg \in Sources /\ command \in Commands
      BY <2>2 DEF Load, Lists
    <3>2. cfg'.routes = cfg.routes /\ cfg'.rules = cfg.rules
      BY <3>1, OverridesPolicies
    <3> QED
      BY <2>2, <3>2 DEF Load, GoTo, TypeOK
  <2>3. CASE CheckConfig
    <3>1. \/ phase' = "done" /\ exit' \in {"invalid", "ok"}
          \/ phase' = "compile" /\ exit' = exit
      BY <2>3 DEF CheckConfig, Exit, GoTo
    <3> QED
      BY <2>3, <3>1 DEF CheckConfig, TypeOK
  <2>4. CASE CompileRule
    <3>1. /\ phase = "compile" /\ Len(engine) < Len(cfg.rules)
          /\ UNCHANGED <<command, files, cfg, loaded, outcome, changed>>
          /\ \/ UNCHANGED <<phase, exit>> /\ \E e : engine' = Append(engine, e)
             \/ phase' = "done" /\ exit' = "rule" /\ engine' = engine
      BY <2>4 DEF CompileRule, Exit
    <3>2. Len(engine') <= Len(cfg.rules)
      BY <3>1, Longer DEF Lists
    <3> QED
      BY <3>1, <3>2 DEF TypeOK
  <2>5. CASE AllCompiled
    BY <2>5 DEF AllCompiled, GoTo, TypeOK
  <2>6. CASE LoadContract
    <3>1. /\ phase = "contracts" /\ Len(loaded) < Len(cfg.routes)
          /\ UNCHANGED <<command, files, cfg, engine, outcome, changed>>
          /\ \/ /\ UNCHANGED <<phase, exit>>
                /\ \E e \in {"new", "loaded", "none"} : loaded' = Append(loaded, e)
             \/ phase' = "done" /\ exit' = "contract" /\ loaded' = loaded
      BY <2>6 DEF LoadContract, Exit
    <3>2. Len(loaded') <= Len(cfg.routes)
      BY <3>1, Longer DEF Lists
    <3>3. \A i \in DOMAIN loaded' : loaded'[i] \in {"new", "loaded", "none"}
      <4>1. PICK S : S = {"new", "loaded", "none"}
        OBVIOUS
      <4>2. loaded \in Seq(S)
        BY <4>1 DEF TypeOK, Lists
      <4>3. loaded' \in Seq(S)
        BY <3>1, <4>1, <4>2
      <4> QED
        BY <4>1, <4>3
    <3> QED
      BY <3>1, <3>2, <3>3 DEF TypeOK
  <2>7. CASE AllLoaded
    BY <2>7 DEF AllLoaded, GoTo, TypeOK
  <2>8. CASE OpenLog
    BY <2>8 DEF OpenLog, GoTo, Exit, TypeOK
  <2>9. CASE Listen
    BY <2>9 DEF Listen, GoTo, Exit, TypeOK
  <2>10. ASSUME NEW q \in Requests, Handle(q) PROVE TypeOK' /\ DOMAIN files' = Paths
    <3>1. Match(cfg.routes, q) \in DOMAIN cfg.routes \cup {NoRoute}
      BY RouteFound
    <3>2. outcome'.route \in {Match(cfg.routes, q), NoRoute}
      <4> DEFINE i == Match(cfg.routes, q)
      <4> HIDE DEF i
      <4> QED
        BY <2>10 DEF Handle, i
    <3>3. outcome'.route \in DOMAIN cfg.routes \cup {NoRoute}
      BY <3>1, <3>2
    <3> QED
      BY <2>10, <3>3 DEF Handle, TypeOK
  <2>11. ASSUME NEW p \in Paths, NEW content \in Contents, Change(p, content)
         PROVE  TypeOK' /\ DOMAIN files' = Paths
    BY <2>11 DEF Change, TypeOK
  <2>12. CASE UNCHANGED vars
    BY <2>12 DEF vars, TypeOK
  <2> QED
    BY <2>1, <2>2, <2>3, <2>4, <2>5, <2>6, <2>7, <2>8, <2>9, <2>10, <2>11, <2>12 DEF Next
<1> QED
  BY <1>1, <1>2, OnTheWay, AnsweredOnTheWay, PTL DEF Spec

(***************************************************************************)
(* A request goes to a route that fits it, of the longest prefix that one  *)
(* has, and of equal ones to the first listed if no more than ten are; the *)
(* case of its host makes no difference, and a port only one after         *)
(* brackets (router.go:26-82).                                             *)
(***************************************************************************)
THEOREM RoutesRight == Spec => []RoutedRight
<1>1. Lists /\ PrefixesListed /\ Answered => RoutedRight
  <2> SUFFICES ASSUME Lists, PrefixesListed, Answered, outcome # None
               PROVE  RoutedRight
    BY DEF RoutedRight
  <2>1. PICK q \in Requests : q = outcome.request
    BY DEF Answered
  <2>2. PICK m : m = outcome.route /\ m = Match(cfg.routes, q)
    BY <2>1 DEF Answered
  <2>3. PICK F : F = {i \in DOMAIN cfg.routes : Fits(cfg.routes[i], q)}
    OBVIOUS
  <2>4. /\ F = {} => m = NoRoute
        /\ F # {} => m \in F /\ \A j \in F \ {m} : Before(cfg.routes, m, j)
    BY <2>2, <2>3, RouteFound
  <2>5. \A i \in DOMAIN cfg.routes : i \in Nat \ {0} /\ Len(cfg.routes[i].prefix) \in Nat
    BY DEF Lists, PrefixesListed
  <2>6. m = NoRoute <=> F = {}
    BY <2>3, <2>4, <2>5, RouterAssumption
  <2>7. ASSUME NEW i \in F
        PROVE  /\ Len(cfg.routes[i].prefix) <= Len(cfg.routes[m].prefix)
               /\ Len(cfg.routes[i].prefix) = Len(cfg.routes[m].prefix) /\ Len(cfg.routes) <= 10
                     => m <= i
    <3>1. m \in F /\ (i = m \/ Before(cfg.routes, m, i))
      BY <2>4
    <3>2. i \in Nat \ {0} /\ m \in Nat \ {0} /\ i \in DOMAIN cfg.routes /\ m \in DOMAIN cfg.routes
      BY <2>3, <2>5, <3>1
    <3>3. CASE i = m
      BY <2>5, <3>2, <3>3
    <3>4. CASE Before(cfg.routes, m, i)
      <4>1. Len(cfg.routes) <= 10 => i <= 10 /\ m <= 10
        BY <3>2 DEF Lists
      <4>2. i <= 10 /\ m <= 10 /\ TextLess(IDText(m), IDText(i)) => m <= i
        BY <3>2, PlaceOrders DEF TextPlace
      <4> QED
        BY <2>5, <3>2, <3>4, <4>1, <4>2 DEF Before
    <3> QED
      BY <3>1, <3>3, <3>4
  <2>8. ASSUME NEW upper \in BOOLEAN, NEW port \in BOOLEAN
        PROVE  LET r == [q EXCEPT !.host.upper = upper, !.host.port = port]
               IN  (q.host.bracketed => port = q.host.port) => Match(cfg.routes, r) = m
    <3>1. PICK r : r = [q EXCEPT !.host.upper = upper, !.host.port = port]
      OBVIOUS
    <3>3. SUFFICES ASSUME q.host.bracketed => port = q.host.port
                   PROVE  Match(cfg.routes, r) = m
      BY <3>1
    <3>2. \A i \in DOMAIN cfg.routes : Fits(cfg.routes[i], r) <=> Fits(cfg.routes[i], q)
      BY <3>1, <3>3, SpellingsFit
    <3> QED
      BY <2>2, <3>1, <3>2, MatchSame
  <2> QED
    BY <2>1, <2>2, <2>3, <2>4, <2>6, <2>7, <2>8 DEF RoutedRight
<1> QED
  BY <1>1, OnTheWay, AnsweredOnTheWay, PTL
-----------------------------------------------------------------------------
\* A finite set can be listed, and what lists it leaves nothing out.
LEMMA OrdersListed ==
    ASSUME NEW S, IsFiniteSet(S)
    PROVE  /\ SetToSeqs(S) # {}
           /\ \A order \in SetToSeqs(S) :
                 order \in Seq(S) /\ Len(order) = Cardinality(S) /\ ToSet(order) = S
<1>1. PICK n \in Nat : n = Cardinality(S)
  BY FS_CardinalityType
<1>2. SetToSeqs(S) = {f \in [1..n -> S] : \A i, j \in 1..n : i # j => f[i] # f[j]}
  BY <1>1 DEF SetToSeqs
<1>3. PICK f \in Bijection(1..n, S) : TRUE
  BY <1>1, FS_CardinalityType DEF ExistsBijection
<1>4. f \in SetToSeqs(S)
  BY <1>2, <1>3 DEF Bijection, Injection, IsInjective
<1>5. ASSUME NEW order \in SetToSeqs(S)
      PROVE  order \in Seq(S) /\ Len(order) = n /\ ToSet(order) = S
  <2>1. order \in [1..n -> S] /\ order \in Injection(1..n, S)
    BY <1>2 DEF Injection, IsInjective
  <2>2. IsFiniteSet(1..n) /\ Cardinality(1..n) = n
    BY FS_Interval
  <2>3. order \in Surjection(1..n, S)
    BY <1>1, <2>1, <2>2, FS_Injection
  <2> QED
    BY <2>1, <2>3 DEF Surjection, ToSet
<1> QED
  BY <1>1, <1>4, <1>5

\* A context, for one order of the headers and one of the fields.
ContextOf(q, horder, body, border) ==
    [request_line |-> <<Chr(q.method), Space>> \o q.path,
     headers |-> HeadersForEval(q.headers, horder),
     query |-> q.query,
     body |-> BodyForEval(body, border)]

LEMMA ContextsGiven ==
    ASSUME NEW q, NEW body, NEW c
    PROVE  c \in Contexts(q, body) <=>
              \E horder \in SetToSeqs(DOMAIN q.headers), border \in SetToSeqs(DOMAIN body.fields) :
                 c = ContextOf(q, horder, body, border)
<1>1. Contexts(q, body) =
         {ContextOf(q, horder, body, border) :
            horder \in SetToSeqs(DOMAIN q.headers), border \in SetToSeqs(DOMAIN body.fields)}
  BY DEF Contexts, ContextOf
<1> QED
  BY <1>1

LEMMA ContextParts ==
    ASSUME NEW q, NEW r, NEW b, NEW d, NEW g, NEW h, NEW i, NEW j,
           q.method = r.method, q.path = r.path, q.query = r.query,
           HeadersForEval(q.headers, g) = HeadersForEval(r.headers, h)
    PROVE  LET c == ContextOf(q, g, b, i)
               e == ContextOf(r, h, d, j)
           IN  /\ \A p \in Phases \ {"body"} : c[p] = e[p]
               /\ BodyForEval(b, i) = BodyForEval(d, j) => c = e
<1>1. PICK line : line = <<Chr(q.method), Space>> \o q.path
  OBVIOUS
<1>2. line = <<Chr(r.method), Space>> \o r.path
  BY <1>1
<1>3. PICK hs : hs = HeadersForEval(q.headers, g)
  OBVIOUS
<1>4. ContextOf(q, g, b, i) = [request_line |-> line, headers |-> hs, query |-> q.query,
                               body |-> BodyForEval(b, i)]
  BY <1>1, <1>3 DEF ContextOf
<1>5. ContextOf(r, h, d, j) = [request_line |-> line, headers |-> hs, query |-> q.query,
                               body |-> BodyForEval(d, j)]
  BY <1>2, <1>3 DEF ContextOf
<1> QED
  BY <1>4, <1>5 DEF Phases

\* Rules look at nothing of a context but the part of their phase.
LEMMA SameHits ==
    ASSUME NEW rules, NEW c, NEW d,
           \A i \in DOMAIN rules :
              rules[i].phase \in Phases => c[rules[i].phase] = d[rules[i].phase]
    PROVE  Evaluate(rules, c) = Evaluate(rules, d)
<1>1. PICK H : H = Hits(rules, c)
  OBVIOUS
<1>2. H = Hits(rules, d)
  BY <1>1 DEF Hits
<1> QED
  BY <1>1, <1>2 DEF Evaluate

(***************************************************************************)
(* A body that is not read would have changed nothing, whatever rules      *)
(* there are: none of them looks at a body then (gateway.go:483-496,       *)
(* 573-583).                                                               *)
(***************************************************************************)
THEOREM UnreadChangesNothing == Spec => []UnreadIrrelevant
<1>1. Answered => UnreadIrrelevant
  <2> SUFFICES ASSUME Answered, outcome # None, outcome.route # NoRoute
               PROVE  \E ctx \in Contexts(outcome.request, outcome.request.body) :
                         outcome.result = Evaluate(engine, ctx)
    BY DEF UnreadIrrelevant, Seen
  <2>1. PICK q \in Requests : q = outcome.request
    BY DEF Answered
  <2>2. PICK body : body = BodyRead(engine, PolicyFor(outcome.route).mode, q)
    OBVIOUS
  <2>3. PICK c \in Contexts(q, body) : outcome.result = Evaluate(engine, c)
    BY <2>1, <2>2 DEF Answered, Results
  <2>4. CASE body = q.body
    BY <2>1, <2>3, <2>4
  <2>5. CASE body # q.body
    <3>1. \A i \in DOMAIN engine : engine[i].phase # "body"
      BY <2>2, <2>5 DEF BodyRead, HasBodyRules
    <3>2. PICK horder \in SetToSeqs(DOMAIN q.headers), border \in SetToSeqs(DOMAIN body.fields) :
             c = ContextOf(q, horder, body, border)
      BY <2>3, ContextsGiven
    <3>3. PICK another \in SetToSeqs(DOMAIN q.body.fields) : TRUE
      BY OrdersListed, InputAssumption
    <3>4. PICK d : d = ContextOf(q, horder, q.body, another)
      OBVIOUS
    <3>5. d \in Contexts(q, q.body)
      BY <3>3, <3>4, ContextsGiven
    <3>6. \A p \in Phases \ {"body"} : c[p] = d[p]
      BY <3>2, <3>4, ContextParts
    <3>7. Evaluate(engine, c) = Evaluate(engine, d)
      BY <3>1, <3>6, SameHits
    <3> QED
      BY <2>1, <2>3, <3>5, <3>7
  <2> QED
    BY <2>4, <2>5
<1> QED
  BY <1>1, AnsweredOnTheWay, PTL
-----------------------------------------------------------------------------
\* What the rules are given of a field tells nothing of a secret but that there is one.
LEMMA SecretField ==
    ASSUME NEW key, NEW v, NEW w, v = <<>> <=> w = <<>>, key \notin SecretKeys => v = w
    PROVE  FieldForEval(key, v) = FieldForEval(key, w)
<1>1. CASE key \in SecretKeys /\ v # <<>>
  BY <1>1 DEF FieldForEval, RedactKeyValue
<1>2. CASE key \in SecretKeys /\ v = <<>>
  BY <1>2 DEF FieldForEval
<1> QED
  BY <1>1, <1>2

\* All fields are looked at, if they are no more than the code looks at.
LEMMA AllLooked ==
    ASSUME NEW S, IsFiniteSet(S), Cardinality(S) <= MaxFields, NEW order \in SetToSeqs(S)
    PROVE  Looked(order) = order /\ order \in Seq(S) /\ ToSet(order) = S
<1>1. order \in Seq(S) /\ Len(order) <= MaxFields /\ ToSet(order) = S
  BY OrdersListed
<1>2. PICK n \in Nat : n = Len(order) /\ n <= MaxFields
  BY <1>1
<1>3. Min({MaxFields, n}) = n
  BY <1>2, FieldAssumption DEF Min
<1> QED
  BY <1>1, <1>2, <1>3 DEF Looked

\* Bodies that differ in secrets only are the same to the rules.
LEMMA SecretBody ==
    ASSUME NEW b, NEW d, b.json, d.json, DOMAIN b.fields = DOMAIN d.fields,
           IsFiniteSet(DOMAIN b.fields), Cardinality(DOMAIN b.fields) <= MaxFields,
           \A k \in DOMAIN b.fields :
              /\ b.fields[k] = <<>> <=> d.fields[k] = <<>>
              /\ k \notin SecretKeys => b.fields[k] = d.fields[k],
           \E k \in DOMAIN b.fields : b.fields[k] # <<>>,
           NEW order \in SetToSeqs(DOMAIN b.fields)
    PROVE  BodyForEval(b, order) = BodyForEval(d, order)
<1>1. /\ Looked(order) = order /\ order \in Seq(DOMAIN b.fields)
      /\ ToSet(order) = DOMAIN b.fields
  BY AllLooked
<1>2. /\ BodyForEval(b, order) = ShallowJSON(b.fields, order)
      /\ BodyForEval(d, order) = ShallowJSON(d.fields, order)
  BY <1>1 DEF BodyForEval
<1>3. PICK s : s = [i \in DOMAIN order |-> FieldForEval(order[i], b.fields[order[i]])]
  OBVIOUS
<1>4. s = [i \in DOMAIN order |-> FieldForEval(order[i], d.fields[order[i]])]
  <2>1. \A i \in DOMAIN order :
           FieldForEval(order[i], b.fields[order[i]]) = FieldForEval(order[i], d.fields[order[i]])
    <3> SUFFICES ASSUME NEW i \in DOMAIN order
                 PROVE  FieldForEval(order[i], b.fields[order[i]])
                          = FieldForEval(order[i], d.fields[order[i]])
      OBVIOUS
    <3>1. PICK k \in DOMAIN b.fields : k = order[i]
      BY <1>1
    <3> QED
      BY <3>1, SecretField
  <2> QED
    BY <1>3, <2>1
<1>5. ShallowJSON(b.fields, order) = Trimmed(FlattenSeq(s))
  BY <1>1, <1>3 DEF ShallowJSON
<1>6. ShallowJSON(d.fields, order) = Trimmed(FlattenSeq(s))
  BY <1>1, <1>4 DEF ShallowJSON
<1> QED
  BY <1>2, <1>5, <1>6

\* Headers that differ in sensitive ones only are the same to the rules.
LEMMA SecretHeaders ==
    ASSUME NEW g, NEW h, DOMAIN g = DOMAIN h, IsFiniteSet(DOMAIN g),
           \A k \in DOMAIN g \ Sensitive : g[k] = h[k],
           NEW order \in SetToSeqs(DOMAIN g)
    PROVE  HeadersForEval(g, order) = HeadersForEval(h, order)
<1> DEFINE Line(f, i) == <<Chr(order[i]), Chr(":"), Space>>
                           \o (IF order[i] \in Sensitive THEN <<Mask>> ELSE f[order[i]])
                           \o <<Newline>>
<1>1. order \in Seq(DOMAIN g)
  BY OrdersListed
<1>2. PICK s : s = [i \in DOMAIN order |-> Line(g, i)]
  OBVIOUS
<1>3. s = [i \in DOMAIN order |-> Line(h, i)]
  <2>1. \A i \in DOMAIN order : Line(g, i) = Line(h, i)
    <3> SUFFICES ASSUME NEW i \in DOMAIN order PROVE Line(g, i) = Line(h, i)
      OBVIOUS
    <3>1. order[i] \in DOMAIN g
      BY <1>1
    <3> QED
      BY <3>1
  <2> HIDE DEF Line
  <2> QED
    BY <1>2, <2>1
<1>4. HeadersForEval(g, order) = FlattenSeq(s)
  BY <1>2 DEF HeadersForEval
<1>5. HeadersForEval(h, order) = FlattenSeq(s)
  BY <1>3 DEF HeadersForEval
<1> QED
  BY <1>4, <1>5

(***************************************************************************)
(* Two requests that differ in nothing but the value of a sensitive header *)
(* or of a secret field of a JSON object have the same results, whatever   *)
(* the rules (gateway.go:368-394, 410-481).                                *)
(***************************************************************************)
THEOREM SecretsKept == Spec => []SecretsUnseen
<1>1. Answered => SecretsUnseen
  <2> SUFFICES ASSUME Answered, outcome # None, outcome.route # NoRoute,
                      NEW r \in Requests, Withheld(outcome.request, r)
               PROVE  outcome.result \in Results(outcome.route, r)
    BY DEF SecretsUnseen, Seen
  <2>1. PICK q \in Requests : q = outcome.request
    BY DEF Answered
  <2>2. PICK mode : mode = PolicyFor(outcome.route).mode
    OBVIOUS
  <2>3. Withheld(q, r)
    BY <2>1
  <2>4. /\ q.method = r.method /\ q.path = r.path /\ q.query = r.query
        /\ q.chunked = r.chunked
    <3>1. PICK e : e = [q EXCEPT !.headers = None, !.body = None]
      OBVIOUS
    <3>2. e = [r EXCEPT !.headers = None, !.body = None]
      BY <2>3, <3>1 DEF Withheld
    <3>3. /\ {"method", "path", "query", "chunked"} \subseteq DOMAIN q
          /\ {"method", "path", "query", "chunked"} \subseteq DOMAIN r
      BY InputAssumption
    <3> QED
      BY <3>1, <3>2, <3>3
  <2>5. PICK b : b = BodyRead(engine, mode, q)
    OBVIOUS
  <2>6. PICK d : d = BodyRead(engine, mode, r)
    OBVIOUS
  <2>7. b = d \/ (b = q.body /\ d = r.body)
    BY <2>4, <2>5, <2>6 DEF BodyRead
  <2>8. PICK c \in Contexts(q, b) : outcome.result = Evaluate(engine, c)
    BY <2>1, <2>2, <2>5 DEF Answered, Results
  <2>9. PICK horder \in SetToSeqs(DOMAIN q.headers), border \in SetToSeqs(DOMAIN b.fields) :
           c = ContextOf(q, horder, b, border)
    BY <2>8, ContextsGiven
  <2>10. /\ DOMAIN q.headers = DOMAIN r.headers
         /\ HeadersForEval(q.headers, horder) = HeadersForEval(r.headers, horder)
    <3>1. /\ DOMAIN q.headers = DOMAIN r.headers /\ IsFiniteSet(DOMAIN q.headers)
          /\ \A k \in DOMAIN q.headers \ Sensitive : q.headers[k] = r.headers[k]
      BY <2>3, InputAssumption DEF Withheld
    <3> QED
      BY <3>1, SecretHeaders
  <2>11. /\ DOMAIN b.fields = DOMAIN d.fields
         /\ BodyForEval(b, border) = BodyForEval(d, border)
    <3>1. CASE b = d
      BY <3>1
    <3>2. CASE b # d
      <4>1. b = q.body /\ d = r.body
        BY <2>7, <3>2
      <4>2. /\ b.json /\ d.json /\ DOMAIN b.fields = DOMAIN d.fields
            /\ Cardinality(DOMAIN b.fields) <= MaxFields
            /\ \A k \in DOMAIN b.fields :
                  /\ b.fields[k] = <<>> <=> d.fields[k] = <<>>
                  /\ k \notin SecretKeys => b.fields[k] = d.fields[k]
            /\ \E k \in DOMAIN b.fields : b.fields[k] # <<>>
        BY <2>3, <3>2, <4>1 DEF Withheld
      <4>3. IsFiniteSet(DOMAIN b.fields)
        BY <4>1, InputAssumption
      <4>4. BodyForEval(b, border) = BodyForEval(d, border)
        BY <4>2, <4>3, SecretBody
      <4> QED
        BY <4>2, <4>4
    <3> QED
      BY <3>1, <3>2
  <2>12. c = ContextOf(r, horder, d, border)
    BY <2>4, <2>9, <2>10, <2>11, ContextParts
  <2>13. c \in Contexts(r, d)
    BY <2>10, <2>11, <2>12, ContextsGiven
  <2> QED
    BY <2>2, <2>6, <2>8, <2>13 DEF Results
<1> QED
  BY <1>1, AnsweredOnTheWay, PTL
-----------------------------------------------------------------------------
\* While no file has changed, the rules are what the files make of them.
AsRead ==
    changed = {} => \A i \in 1..Len(engine) :
        LET rule == cfg.rules[i]
        IN  engine[i] = Compiled(rule, IF rule.type = "aho" THEN files[rule.file].lines ELSE <<>>)

LEMMA ReadOnTheWay == Spec => []AsRead
<1>1. Init => AsRead
  BY DEF Init, AsRead
<1>2. Lists /\ AsRead /\ [Next]_vars => AsRead'
  <2> SUFFICES ASSUME Lists, AsRead, [Next]_vars PROVE AsRead'
    OBVIOUS
  <2>1. CASE Load
    BY <2>1 DEF Load, GoTo, Lists, AsRead
  <2>2. CASE CompileRule
    <3>1. UNCHANGED <<cfg, files, changed>>
      BY <2>2 DEF CompileRule
    <3>2. PICK n \in Nat : n = Len(engine)
      BY DEF Lists
    <3>3. PICK rule : rule = cfg.rules[n + 1]
      OBVIOUS
    <3>4. PICK e : e = Compiled(rule, IF rule.type = "aho" THEN files[rule.file].lines ELSE <<>>)
      OBVIOUS
    <3>5. engine' = engine \/ engine' = Append(engine, e)
      BY <2>2, <3>2, <3>3, <3>4 DEF CompileRule
    <3>6. CASE engine' = engine
      BY <3>1, <3>6 DEF AsRead
    <3>7. CASE engine' = Append(engine, e)
      <4>1. /\ Len(engine') = n + 1 /\ engine'[n + 1] = e
            /\ \A i \in 1..n : engine'[i] = engine[i]
        BY <3>2, <3>7, Longer DEF Lists
      <4>2. SUFFICES ASSUME changed = {}, NEW i \in 1..(n + 1)
                     PROVE  engine'[i] = Compiled(cfg.rules[i],
                               IF cfg.rules[i].type = "aho" THEN files[cfg.rules[i].file].lines
                                                            ELSE <<>>)
        BY <3>1, <4>1 DEF AsRead
      <4>3. CASE i = n + 1
        BY <3>3, <3>4, <4>1, <4>3
      <4>4. CASE i \in 1..n
        BY <3>2, <4>1, <4>2, <4>4 DEF AsRead
      <4> QED
        BY <4>3, <4>4
    <3> QED
      BY <3>5, <3>6, <3>7
  <2>3. ASSUME NEW p \in Paths, NEW content \in Contents, Change(p, content) PROVE AsRead'
    BY <2>3 DEF Change, AsRead
  <2>4. CASE UNCHANGED <<cfg, files, changed, engine>>
    BY <2>4 DEF AsRead
  <2> QED
    BY <2>1, <2>2, <2>3, <2>4
       DEF Next, LoadFails, CheckConfig, AllCompiled, LoadContract, AllLoaded, OpenLog, Listen,
           Handle, vars
<1> QED
  BY <1>1, <1>2, OnTheWay, PTL DEF Spec

\* Two passes take off what escapes there are, if none has more than two.
LEMMA TwiceStripped ==
    ASSUME NEW e, e = [char |-> e.char, code |-> e.code],
           e.code \in {<<>>, <<"pct">>, <<"pct", "pct">>}
    PROVE  /\ Stripped(e, "pct").char = e.char
           /\ Stripped(Stripped(e, "pct"), "pct") = Chr(e.char)
<1>1. PICK c : c = e.char
  OBVIOUS
<1>2. ASSUME NEW k, NEW d, d = [char |-> c, code |-> k]
      PROVE  Stripped(d, "pct") =
                IF k # <<>> /\ Head(k) = "pct" THEN [char |-> c, code |-> Tail(k)] ELSE d
  BY <1>2 DEF Stripped
<1>3. PICK one : one = <<"pct">>
  OBVIOUS
<1>4. PICK two : two = <<"pct", "pct">>
  OBVIOUS
<1>5. one # <<>> /\ Head(one) = "pct" /\ Tail(one) = <<>>
  BY <1>3
<1>6. two # <<>> /\ Head(two) = "pct" /\ Tail(two) = one
  BY <1>3, <1>4
<1>7. CASE e.code = <<>>
  BY <1>1, <1>2, <1>7 DEF Chr
<1>8. CASE e.code = one
  <2>1. e = [char |-> c, code |-> one]
    BY <1>1, <1>8
  <2>2. PICK d : d = [char |-> c, code |-> <<>>]
    OBVIOUS
  <2>3. Stripped(e, "pct") = d
    BY <1>2, <1>5, <2>1, <2>2
  <2>4. Stripped(d, "pct") = d
    BY <1>2, <2>2
  <2> QED
    BY <1>1, <2>2, <2>3, <2>4 DEF Chr
<1>9. CASE e.code = two
  BY <1>1, <1>2, <1>5, <1>6, <1>9 DEF Chr
<1> QED
  BY <1>3, <1>4, <1>7, <1>8, <1>9

LEMMA DecodedIsUnescaped ==
    ASSUME NEW t, IsText(t), AtMostTwice(t)
    PROVE  Decoded(t) = Unescaped(t)
<1>1. Unescaped(t) = [i \in DOMAIN t |-> Chr(t[i].char)]
  BY DEF Unescaped, Mapped
<1>2. \A i \in DOMAIN t : t[i].char # "%"
  BY <1>1 DEF AtMostTwice, ToSet
<1>3. \A i \in DOMAIN t : /\ Stripped(t[i], "pct").char = t[i].char
                          /\ Stripped(Stripped(t[i], "pct"), "pct") = Chr(t[i].char)
  <2> SUFFICES ASSUME NEW i \in DOMAIN t
               PROVE  /\ Stripped(t[i], "pct").char = t[i].char
                      /\ Stripped(Stripped(t[i], "pct"), "pct") = Chr(t[i].char)
    OBVIOUS
  <2>1. t[i] \in ToSet(t)
    BY DEF ToSet
  <2> QED
    BY <2>1, TwiceStripped DEF IsText, AtMostTwice
<1>4. PICK u : u = [i \in DOMAIN t |-> Stripped(t[i], "pct")]
  OBVIOUS
<1>5. DecodeOnce(t) = u
  <2>1. Chr("%") \notin ToSet(t)
    BY <1>2 DEF Chr, ToSet
  <2> QED
    BY <1>4, <2>1 DEF DecodeOnce, Mapped
<1>6. DecodeOnce(u) = Unescaped(t)
  <2>1. Chr("%") \notin ToSet(u)
    BY <1>2, <1>3, <1>4 DEF Chr, ToSet
  <2>2. DecodeOnce(u) = [i \in DOMAIN u |-> Stripped(u[i], "pct")]
    BY <2>1 DEF DecodeOnce, Mapped
  <2> QED
    BY <1>1, <1>3, <1>4, <2>2
<1> QED
  BY <1>5, <1>6 DEF Decoded

\* So a rule that leaves paths alone is given the text under the escapes.
LEMMA NormalizedIsRead ==
    ASSUME NEW t, IsText(t), AtMostTwice(t), NEW transforms, "normalize_path" \notin transforms
    PROVE  Normalized(t, transforms) =
              IF "lowercase" \in transforms THEN Lower(Unescaped(t)) ELSE Unescaped(t)
<1>1. PICK u : u = Unescaped(t) /\ u = Decoded(t)
  BY DecodedIsUnescaped
<1>2. u = [i \in DOMAIN t |-> Chr(t[i].char)]
  BY <1>1 DEF Unescaped, Mapped
<1>3. Mapped(u, LAMBDA e : Stripped(e, "html")) = u
  <2>1. \A i \in DOMAIN u : Stripped(u[i], "html") = u[i]
    BY <1>2 DEF Stripped, Chr
  <2> QED
    BY <1>2, <2>1 DEF Mapped
<1> QED
  BY <1>1, <1>3 DEF Normalized

(***************************************************************************)
(* A rule for queries finds the plain patterns of its file, if its         *)
(* automaton is exact for them, however a query is written, under up to    *)
(* two percent escapes a character and, if it lowercases, in letters of    *)
(* either case, and nothing else (normalize.go:21-51, compile.go:87-126,   *)
(* aho.go:75-98).                                                          *)
(***************************************************************************)
THEOREM FoundAsWritten == Spec => []FoundHoweverWritten
<1>1. Answered /\ AsRead /\ Lists => FoundHoweverWritten
  <2> SUFFICES ASSUME Answered, AsRead, Lists, outcome # None, outcome.route # NoRoute,
                      changed = {}, NEW i \in DOMAIN engine,
                      cfg.rules[i].phase = "query", cfg.rules[i].type = "aho",
                      AtMostTwice(outcome.request.query),
                      \A p \in ToSet(ReadPatterns(files[cfg.rules[i].file].lines)) :
                         p = Unescaped(p),
                      Tame(engine[i].patterns),
                      "normalize_path" \notin cfg.rules[i].transforms
               PROVE  LET transforms == cfg.rules[i].transforms
                          Read(s) == IF "lowercase" \in transforms
                                     THEN Lower(Unescaped(s)) ELSE Unescaped(s)
                      IN  Matched(i) <=>
                            \E p \in ToSet(ReadPatterns(files[cfg.rules[i].file].lines)) :
                               Occurs(Read(p), Read(outcome.request.query))
    BY DEF FoundHoweverWritten, Seen
  <2>1. PICK q, transforms, lines, list :
           /\ q \in Requests /\ q = outcome.request /\ transforms = cfg.rules[i].transforms
           /\ lines = files[cfg.rules[i].file].lines /\ list = ReadPatterns(lines)
    BY DEF Answered
  <2> DEFINE Read(s) == IF "lowercase" \in transforms
                        THEN Lower(Unescaped(s)) ELSE Unescaped(s)
  <2>2. PICK rule : rule = engine[i]
    OBVIOUS
  <2>3. rule = Compiled(cfg.rules[i], lines)
    BY <2>1, <2>2 DEF AsRead, Lists
  <2>4. /\ rule.phase = "query" /\ rule.transforms = transforms
        /\ rule.patterns = ApplyPatternTransforms(list, transforms)
    BY <2>1, <2>3 DEF Compiled, Patterns
  <2>5. rule.type = "aho" /\ Tame(rule.patterns)
    BY <2>2, <2>3 DEF Compiled
  <2>6. ToSet(rule.patterns) = {Read(p) : p \in ToSet(list)}
    <3>1. \A p \in ToSet(list) : Unescaped(p) = p
      BY <2>1
    <3>2. CASE "lowercase" \in transforms
      <4>1. rule.patterns = [k \in DOMAIN list |-> Lower(list[k])]
        BY <2>4, <3>2 DEF ApplyPatternTransforms, Mapped
      <4>2. ToSet(rule.patterns) = {Lower(p) : p \in ToSet(list)}
        BY <4>1 DEF ToSet
      <4> QED
        BY <3>1, <3>2, <4>2
    <3>3. CASE "lowercase" \notin transforms
      BY <2>4, <3>1, <3>3 DEF ApplyPatternTransforms
    <3> QED
      BY <3>2, <3>3
  <2>7. Normalized(q.query, transforms) = Read(q.query)
    BY <2>1, InputAssumption, NormalizedIsRead
  <2>8. PICK c : c.query = q.query /\ outcome.result = Evaluate(engine, c)
    BY <2>1 DEF Answered, Results, Contexts
  <2>9. Matched(i) <=> Finds(rule, Read(q.query))
    <3>1. outcome.result.matches = Hits(engine, c)
      BY <2>8 DEF Evaluate, Scored
    <3>2. c[rule.phase] = q.query
      BY <2>4, <2>8
    <3> HIDE DEF Read
    <3> QED
      BY <2>2, <2>4, <2>7, <3>1, <3>2 DEF Matched, Hits, Phases
  <2>10. Finds(rule, Read(q.query)) <=> \E p \in ToSet(rule.patterns) : Occurs(p, Read(q.query))
    BY <2>5, Zenon DEF Finds, FindsAho, Tame
  <2>11. Matched(i) <=> \E p \in ToSet(list) : Occurs(Read(p), Read(q.query))
    <3> HIDE DEF Read
    <3> QED
      BY <2>6, <2>9, <2>10
  <2> QED
    BY <2>1, <2>11
<1> QED
  BY <1>1, OnTheWay, AnsweredOnTheWay, ReadOnTheWay, PTL
-----------------------------------------------------------------------------
\* What FlattenSeq gives for the first k of these sequences, one after the other.
Chained(segs, k, f) ==
    f = [i \in 1..k |-> IF i = 1 THEN segs[i] ELSE f[i - 1] \o segs[i]]

\* off says where each of the first k of them ends in f[k].
Placed(segs, k, f, off) ==
    /\ off[0] = 0
    /\ \A i \in 1..k :
          /\ off[i] = off[i - 1] + Len(segs[i])
          /\ Len(f[i]) = off[i] /\ off[i] <= off[k]
          /\ \A x \in 1..Len(segs[i]) : f[k][off[i - 1] + x] = segs[i][x]

LEMMA ChainLonger ==
    ASSUME NEW S, NEW n \in Nat, NEW segs \in [1..n -> Seq(S)], NEW k \in 0..(n - 1),
           NEW f \in [1..k -> Seq(S)], NEW off \in [0..k -> Nat],
           Chained(segs, k, f), Placed(segs, k, f, off)
    PROVE  \E g \in [1..(k + 1) -> Seq(S)], new \in [0..(k + 1) -> Nat] :
              Chained(segs, k + 1, g) /\ Placed(segs, k + 1, g, new)
<1> k \in Nat /\ k + 1 \in 1..n /\ \A i \in 1..k : i \in 1..n
  OBVIOUS
<1>1. PICK seg \in Seq(S) : seg = segs[k + 1]
  OBVIOUS
<1>2. PICK last \in Seq(S) : last = IF k = 0 THEN seg ELSE f[k] \o seg
  <2>1. CASE k = 0
    BY <2>1
  <2>2. CASE k # 0
    <3>1. f[k] \in Seq(S)
      BY <2>2
    <3>2. f[k] \o seg \in Seq(S)
      BY <3>1
    <3> QED
      BY <2>2, <3>2
  <2> QED
    BY <2>1, <2>2
<1>3. PICK g \in [1..(k + 1) -> Seq(S)] : g = [i \in 1..(k + 1) |-> IF i = k + 1 THEN last ELSE f[i]]
  <2>1. PICK g : g = [i \in 1..(k + 1) |-> IF i = k + 1 THEN last ELSE f[i]]
    OBVIOUS
  <2>2. \A i \in 1..(k + 1) : i # k + 1 => i \in 1..k
    OBVIOUS
  <2>3. \A i \in 1..(k + 1) : g[i] \in Seq(S)
    BY <2>1, <2>2
  <2> QED
    BY <2>1, <2>3
<1>4. PICK new \in [0..(k + 1) -> Nat] :
         new = [i \in 0..(k + 1) |-> IF i = k + 1 THEN off[k] + Len(seg) ELSE off[i]]
  <2>1. PICK new : new = [i \in 0..(k + 1) |-> IF i = k + 1 THEN off[k] + Len(seg) ELSE off[i]]
    OBVIOUS
  <2>2. \A i \in 0..(k + 1) : i # k + 1 => i \in 0..k
    OBVIOUS
  <2>3. off[k] + Len(seg) \in Nat
    <3>1. off[k] \in Nat /\ Len(seg) \in Nat
      OBVIOUS
    <3> QED
      BY <3>1
  <2>4. \A i \in 0..(k + 1) : new[i] \in Nat
    BY <2>1, <2>2, <2>3
  <2> QED
    BY <2>1, <2>4
<1>5. /\ \A i \in 1..k : g[i] = f[i] /\ new[i] = off[i] /\ new[i - 1] = off[i - 1]
      /\ g[k + 1] = last /\ new[k + 1] = off[k] + Len(seg) /\ new[k] = off[k] /\ new[0] = off[0]
  BY <1>3, <1>4
<1>6. Chained(segs, k + 1, g)
  <2>1. ASSUME NEW i \in 1..(k + 1)
        PROVE  g[i] = IF i = 1 THEN segs[i] ELSE g[i - 1] \o segs[i]
    <3>1. CASE i \in 1..k
      <4>1. f[i] = IF i = 1 THEN segs[i] ELSE f[i - 1] \o segs[i]
        BY <3>1 DEF Chained
      <4>2. i # 1 => i - 1 \in 1..k
        BY <3>1
      <4> QED
        BY <1>5, <3>1, <4>1, <4>2
    <3>2. CASE i = k + 1
      <4>1. i # 1 => i - 1 \in 1..k /\ i - 1 = k /\ k # 0
        BY <3>2
      <4>2. i = 1 => k = 0
        BY <3>2
      <4> QED
        BY <1>1, <1>2, <1>5, <3>2, <4>1, <4>2
    <3>3. i \in 1..k \/ i = k + 1
      OBVIOUS
    <3> QED
      BY <3>1, <3>2, <3>3, Zenon
  <2> QED
    BY <1>3, <2>1 DEF Chained
<1>7. /\ Len(last) = off[k] + Len(seg)
      /\ \A y \in 1..off[k] : k # 0 /\ last[y] = f[k][y]
      /\ \A x \in 1..Len(seg) : last[off[k] + x] = seg[x]
  <2>1. CASE k = 0
    BY <1>2, <2>1 DEF Placed
  <2>2. CASE k # 0
    <3>1. PICK h \in Seq(S) : h = f[k] /\ Len(h) = off[k]
      <4>1. k \in 1..k
        BY <2>2
      <4> QED
        BY <4>1 DEF Placed
    <3>2. last = h \o seg
      BY <1>2, <2>2, <3>1
    <3>3. /\ Len(last) = Len(h) + Len(seg)
          /\ \A y \in 1..Len(h) : last[y] = h[y]
          /\ \A x \in 1..Len(seg) : last[Len(h) + x] = seg[x]
      BY <3>2
    <3> QED
      BY <2>2, <3>1, <3>3
  <2> QED
    BY <2>1, <2>2
<1>8. Placed(segs, k + 1, g, new)
  <2>1. ASSUME NEW i \in 1..(k + 1)
        PROVE  /\ new[i] = new[i - 1] + Len(segs[i])
               /\ Len(g[i]) = new[i] /\ new[i] <= new[k + 1]
               /\ \A x \in 1..Len(segs[i]) : g[k + 1][new[i - 1] + x] = segs[i][x]
    <3>1. CASE i \in 1..k
      <4>1. /\ off[i] = off[i - 1] + Len(segs[i]) /\ Len(f[i]) = off[i] /\ off[i] <= off[k]
            /\ \A x \in 1..Len(segs[i]) : f[k][off[i - 1] + x] = segs[i][x]
        BY <3>1 DEF Placed
      <4>2. PICK m \in Nat : m = Len(segs[i])
        <5>1. segs[i] \in Seq(S)
          BY <3>1
        <5> QED
          BY <5>1
      <4>3. PICK a \in Nat, b \in Nat, c \in Nat, d \in Nat :
               a = off[i - 1] /\ b = off[i] /\ c = off[k] /\ d = Len(seg)
        <5>1. i - 1 \in 0..k /\ i \in 0..k /\ k \in 0..k
          BY <3>1
        <5>2. off[i - 1] \in Nat /\ off[i] \in Nat /\ off[k] \in Nat
          BY <5>1
        <5>3. Len(seg) \in Nat
          OBVIOUS
        <5> QED
          BY <5>2, <5>3, Zenon
      <4>4. b = a + m /\ b <= c
        BY <4>1, <4>2, <4>3
      <4>5. \A x \in 1..m : a + x \in 1..c
        BY <4>4
      <4>6. \A x \in 1..m : last[a + x] = segs[i][x]
        <5>1. \A x \in 1..m : last[a + x] = f[k][a + x]
          BY <1>7, <4>3, <4>5
        <5> QED
          BY <4>1, <4>2, <4>3, <5>1
      <4>7. /\ g[i] = f[i] /\ g[k + 1] = last /\ new[i] = b /\ new[i - 1] = a /\ new[k + 1] = c + d
        BY <1>5, <3>1, <4>3
      <4>8. Len(f[i]) = b /\ b <= c + d
        BY <4>1, <4>3, <4>4
      <4> QED
        BY <4>2, <4>4, <4>6, <4>7, <4>8
    <3>2. CASE i = k + 1
      <4>1. new[i] \in Nat /\ new[i - 1] = off[k] /\ segs[i] = seg
        BY <1>1, <1>5, <3>2
      <4> QED
        BY <1>5, <1>7, <3>2, <4>1
    <3>3. i \in 1..k \/ i = k + 1
      OBVIOUS
    <3> QED
      BY <3>1, <3>2, <3>3, Zenon
  <2> QED
    BY <1>5, <2>1 DEF Placed
<1> QED
  BY <1>6, <1>8

LEMMA ChainThere ==
    ASSUME NEW S, NEW n \in Nat, NEW segs \in [1..n -> Seq(S)]
    PROVE  \E f \in [1..n -> Seq(S)], off \in [0..n -> Nat] :
              Chained(segs, n, f) /\ Placed(segs, n, f, off)
<1> DEFINE There(k) == \E f \in [1..k -> Seq(S)], off \in [0..k -> Nat] :
                          Chained(segs, k, f) /\ Placed(segs, k, f, off)
<1>1. There(0)
  <2>1. PICK f : f = [i \in 1..0 |-> <<>>]
    OBVIOUS
  <2>2. PICK off : off = [i \in 0..0 |-> 0]
    OBVIOUS
  <2>3. f \in [1..0 -> Seq(S)] /\ off \in [0..0 -> Nat]
    BY <2>1, <2>2
  <2>4. Chained(segs, 0, f) /\ Placed(segs, 0, f, off)
    BY <2>1, <2>2 DEF Chained, Placed
  <2> QED
    BY <2>3, <2>4
<1>2. ASSUME NEW k \in 0..(n - 1), There(k) PROVE There(k + 1)
  BY <1>2, ChainLonger
<1> HIDE DEF There
<1>3. PICK Bad : Bad = {k \in 0..n : ~There(k)}
  OBVIOUS
<1>4. CASE Bad = {}
  <2>1. There(n)
    BY <1>3, <1>4
  <2> QED
    BY <2>1 DEF There
<1>5. CASE Bad # {}
  <2>1. Bad \in SUBSET Nat
    BY <1>3
  <2>2. PICK k \in Bad : \A l \in Bad : k <= l
    BY <1>5, <2>1, Least
  <2>3. k \in 0..n /\ k # 0 /\ ~There(k)
    BY <1>1, <1>3, <2>2
  <2>4. k - 1 \in 0..(n - 1) /\ k - 1 \notin Bad /\ k - 1 + 1 = k
    BY <2>2, <2>3
  <2>5. There(k - 1)
    BY <1>3, <2>4
  <2> QED
    BY <1>2, <2>3, <2>4, <2>5
<1> QED
  BY <1>4, <1>5

\* off says where each of n sequences, one after the other, ends in t.
Ends(S, segs, n, t, off) ==
    /\ off[0] = 0
    /\ t \in Seq(S) /\ Len(t) = off[n]
    /\ \A i \in 1..n :
          /\ off[i] = off[i - 1] + Len(segs[i]) /\ off[i] <= off[n]
          /\ \A x \in 1..Len(segs[i]) : t[off[i - 1] + x] = segs[i][x]

\* FlattenSeq puts sequences one after the other.
LEMMA Flattened ==
    ASSUME NEW S, NEW n \in Nat, NEW segs \in [1..n -> Seq(S)]
    PROVE  \E off \in [0..n -> Nat] : Ends(S, segs, n, FlattenSeq(segs), off)
<1>1. Len(segs) = n
  <2>1. segs \in Seq(Seq(S))
    OBVIOUS
  <2>2. DOMAIN segs = 1..n /\ DOMAIN segs = 1..Len(segs) /\ Len(segs) \in Nat
    BY <2>1
  <2> QED
    BY ONLY <2>2, n \in Nat
<1>2. PICK f \in [1..n -> Seq(S)], off \in [0..n -> Nat] :
         Chained(segs, n, f) /\ Placed(segs, n, f, off)
  BY ChainThere
<1>3. CASE n = 0
  <2>1. FlattenSeq(segs) = segs /\ segs = <<>>
    BY <1>1, <1>3 DEF FlattenSeq
  <2> QED
    BY <1>2, <1>3, <2>1 DEF Placed, Ends
<1>4. CASE n # 0
  <2>1. PICK g : g = CHOOSE h : Chained(segs, n, h)
    OBVIOUS
  <2>2. Chained(segs, n, g)
    BY <1>2, <2>1, Zenon
  <2>3. FlattenSeq(segs) = g[n]
    BY <1>1, <1>4, <2>1 DEF FlattenSeq, Chained
  <2>4. \A i \in 1..n : g[i] = f[i]
    <3>1. SUFFICES ASSUME NEW i \in 1..n, g[i] # f[i] PROVE FALSE
      OBVIOUS
    <3>2. PICK Bad : Bad = {k \in 1..n : g[k] # f[k]}
      OBVIOUS
    <3>3. Bad \in SUBSET Nat /\ i \in Bad
      BY <3>1, <3>2
    <3>4. PICK k \in Bad : \A l \in Bad : k <= l
      BY <3>3, Least
    <3>5. k \in 1..n /\ g[k] # f[k]
      BY <3>2, <3>4
    <3>6. /\ g[k] = IF k = 1 THEN segs[k] ELSE g[k - 1] \o segs[k]
          /\ f[k] = IF k = 1 THEN segs[k] ELSE f[k - 1] \o segs[k]
      BY <1>2, <2>2, <3>5 DEF Chained
    <3>7. k # 1 => k - 1 \in 1..n /\ k - 1 \notin Bad
      BY <3>4, <3>5
    <3>8. k # 1 => g[k - 1] = f[k - 1]
      BY <3>2, <3>7
    <3> QED
      BY <3>5, <3>6, <3>8
  <2>5. FlattenSeq(segs) = f[n] /\ f[n] \in Seq(S) /\ n \in 1..n
    BY <1>4, <2>3, <2>4
  <2> QED
    BY <1>2, <2>5 DEF Placed, Ends
<1> QED
  BY <1>3, <1>4

\* What is in t, and does not run over a sep, is in u too.
Carries(t, u, sep) ==
    \A i, j \in 0..Len(t) :
        i < j /\ (\A x \in (i + 1)..j : t[x] # sep)
        => \E m \in 0..Len(u) :
              /\ m + (j - i) <= Len(u)
              /\ \A x \in 1..(j - i) : u[m + x] = t[i + x]

\* Each of n pieces ends in a sep, unless it is empty; and is one of r others.
SepLast(segs, n, sep) ==
    \A i \in 1..n : segs[i] # <<>> => segs[i][Len(segs[i])] = sep

Among(segs, n, others, r) == \A i \in 1..n : \E l \in 1..r : others[l] = segs[i]

\* t is n pieces, each of which ends in a sep unless it is empty.
Cut(S, segs, n, sep, t) ==
    n \in Nat /\ segs \in [1..n -> Seq(S)] /\ SepLast(segs, n, sep) /\ t = FlattenSeq(segs)

\* Texts of the same pieces.
LEMMA PiecesCarry ==
    ASSUME NEW S, NEW segs, NEW n, NEW others, NEW r, NEW sep, NEW t, NEW u,
           Cut(S, segs, n, sep, t), Cut(S, others, r, sep, u), Among(segs, n, others, r)
    PROVE  /\ t \in Seq(S) /\ u \in Seq(S)
           /\ Carries(t, u, sep)
           /\ ToSet(t) \subseteq ToSet(u)
<1> /\ n \in Nat /\ segs \in [1..n -> Seq(S)] /\ SepLast(segs, n, sep) /\ t = FlattenSeq(segs)
    /\ r \in Nat /\ others \in [1..r -> Seq(S)] /\ u = FlattenSeq(others)
  BY DEF Cut
<1>1. PICK off \in [0..n -> Nat] :
         /\ off[0] = 0 /\ t \in Seq(S) /\ Len(t) = off[n]
         /\ \A i \in 1..n :
               /\ off[i] = off[i - 1] + Len(segs[i]) /\ off[i] <= off[n]
               /\ \A x \in 1..Len(segs[i]) : t[off[i - 1] + x] = segs[i][x]
  <2>1. PICK off \in [0..n -> Nat] : Ends(S, segs, n, FlattenSeq(segs), off)
    BY Flattened, Zenon
  <2>2. Ends(S, segs, n, t, off)
    BY <2>1
  <2> QED
    BY <2>2 DEF Ends
<1>2. PICK place \in [0..r -> Nat] :
         /\ place[0] = 0 /\ u \in Seq(S) /\ Len(u) = place[r]
         /\ \A i \in 1..r :
               /\ place[i] = place[i - 1] + Len(others[i]) /\ place[i] <= place[r]
               /\ \A x \in 1..Len(others[i]) : u[place[i - 1] + x] = others[i][x]
  <2>1. PICK place \in [0..r -> Nat] : Ends(S, others, r, FlattenSeq(others), place)
    BY Flattened, Zenon
  <2>2. Ends(S, others, r, u, place)
    BY <2>1
  <2> QED
    BY <2>2 DEF Ends
<1>n. PICK n1 \in Nat, n2 \in Nat : n1 = Len(t) /\ n2 = Len(u)
  BY <1>1, <1>2
\* Every place of t is in a piece, the end of which is a sep.
<1>3. ASSUME NEW y \in 1..n1
      PROVE  \E a \in Nat, b \in Nat, c \in Nat :
                /\ a < y /\ y <= b /\ b <= n1 /\ t[b] = sep
                /\ c + (b - a) <= n2
                /\ \A x \in 1..(b - a) : u[c + x] = t[a + x]
  <2>1. PICK over : over = {i \in 0..n : y <= off[i]}
    OBVIOUS
  <2>2. n \in over /\ over \in SUBSET Nat
    BY <1>1, <1>n, <2>1
  <2>3. PICK i \in over : \A k \in over : i <= k
    BY <2>2, Least
  <2>4. i \in 1..n
    BY <1>1, <2>1, <2>3
  <2>5. i - 1 \in 0..n /\ i - 1 \notin over
    BY <2>3, <2>4
  <2>6. PICK a \in Nat, b \in Nat : a = off[i - 1] /\ b = off[i]
    BY <2>4, <2>5
  <2>7. PICK seg \in Seq(S) : seg = segs[i]
    BY <2>4
  <2>8. PICK len \in Nat : len = Len(seg)
    OBVIOUS
  <2>9. /\ a < y /\ y <= b /\ b <= n1 /\ b = a + len
        /\ \A x \in 1..len : t[a + x] = seg[x]
    <3>1. ~(y <= a) /\ y <= b
      BY <2>1, <2>3, <2>5, <2>6
    <3>2. b = a + len /\ b <= n1 /\ \A x \in 1..len : t[a + x] = seg[x]
      BY <1>1, <1>n, <2>4, <2>6, <2>7, <2>8
    <3> QED
      BY <3>1, <3>2
  <2>10. seg # <<>> /\ len \in 1..len
    BY <2>8, <2>9
  <2>11. seg[len] = sep
    BY <2>4, <2>7, <2>8, <2>10 DEF SepLast
  <2>12. t[b] = sep
    BY <2>9, <2>10, <2>11
  <2>13. PICK l \in 1..r : others[l] = seg
    BY <2>4, <2>7 DEF Among
  <2>14. PICK c \in Nat, d \in Nat : c = place[l - 1] /\ d = place[l]
    <3>1. l - 1 \in 0..r /\ l \in 0..r
      OBVIOUS
    <3>2. place[l - 1] \in Nat /\ place[l] \in Nat
      BY <3>1
    <3> QED
      BY <3>2
  <2>15. d = c + len /\ d <= n2 /\ \A x \in 1..len : u[c + x] = seg[x]
    BY <1>2, <1>n, <2>8, <2>13, <2>14
  <2>16. c + (b - a) <= n2 /\ \A x \in 1..(b - a) : u[c + x] = t[a + x]
    <3>1. b - a = len
      BY <2>9
    <3> QED
      BY <2>9, <2>15, <3>1
  <2>17. /\ a < y /\ y <= b /\ b <= n1 /\ t[b] = sep
         /\ c + (b - a) <= n2
         /\ \A x \in 1..(b - a) : u[c + x] = t[a + x]
    BY <2>9, <2>12, <2>16, Zenon
  <2> QED
    <3>1. WITNESS a \in Nat, b \in Nat, c \in Nat
    <3> QED
      BY <2>17, Zenon
<1>4. Carries(t, u, sep)
  <2> SUFFICES ASSUME NEW i \in 0..Len(t), NEW j \in 0..Len(t), i < j,
                      \A x \in (i + 1)..j : t[x] # sep
               PROVE  \E m \in 0..Len(u) :
                         /\ m + (j - i) <= Len(u)
                         /\ \A x \in 1..(j - i) : u[m + x] = t[i + x]
    BY DEF Carries
  <2>2. i \in 0..n1 /\ j \in 0..n1 /\ i + 1 \in 1..n1
    BY <1>n
  <2>3. PICK a \in Nat, b \in Nat, c \in Nat :
           /\ a < i + 1 /\ i + 1 <= b /\ b <= n1 /\ t[b] = sep
           /\ c + (b - a) <= n2
           /\ \A x \in 1..(b - a) : u[c + x] = t[a + x]
    BY <1>3, <2>2
  <2>4. j < b
    <3>1. b \notin (i + 1)..j
      BY <2>3
    <3> QED
      BY <2>2, <2>3, <3>1
  <2>5. PICK m \in 0..n2 : m = c + (i - a)
    BY <2>2, <2>3, <2>4
  <2>6. m + (j - i) <= n2
    BY <2>2, <2>3, <2>4, <2>5
  <2>7. ASSUME NEW x \in 1..(j - i) PROVE u[m + x] = t[i + x]
    <3>1. PICK z \in 1..(b - a) : z = (i - a) + x
      BY <2>2, <2>3, <2>4
    <3>2. c + z = m + x /\ a + z = i + x
      BY <2>2, <2>3, <2>5, <3>1
    <3> QED
      BY <2>3, <3>2
  <2> QED
    BY <1>n, <2>5, <2>6, <2>7
<1>6. ASSUME NEW e \in ToSet(t) PROVE e \in ToSet(u)
  <2>1. PICK y \in 1..n1 : e = t[y]
    BY <1>1, <1>n DEF ToSet
  <2>3. PICK a \in Nat, b \in Nat, c \in Nat :
           /\ a < y /\ y <= b /\ b <= n1 /\ t[b] = sep
           /\ c + (b - a) <= n2
           /\ \A x \in 1..(b - a) : u[c + x] = t[a + x]
    BY <1>3
  <2>4. y \in Nat /\ y - a \in 1..(b - a) /\ a + (y - a) = y /\ c + (y - a) \in 1..n2
    BY <2>3
  <2>5. u[c + (y - a)] = e
    BY <2>1, <2>3, <2>4
  <2>6. DOMAIN u = 1..n2
    BY <1>2, <1>n
  <2> QED
    BY <2>4, <2>5, <2>6 DEF ToSet
<1> QED
  BY <1>1, <1>2, <1>4, <1>6

\* Max gives the greatest member.
LEMMA GreatestIs ==
    ASSUME NEW S \in SUBSET Nat, NEW x \in S, \A y \in S : y <= x
    PROVE  Max(S) = x
<1>1. \A y \in S : x >= y
  OBVIOUS
<1>2. \A z \in S : (\A y \in S : z >= y) => z = x
  OBVIOUS
<1> QED
  BY <1>1, <1>2 DEF Max

\* A set of places that is not empty has a greatest one.
LEMMA GreatestIn ==
    ASSUME NEW n \in Nat, NEW S \in SUBSET (1..n), S # {}
    PROVE  Max(S) \in S /\ \A y \in S : y <= Max(S)
<1>1. PICK B : B = {m \in Nat : \A y \in S : y <= m}
  OBVIOUS
<1>2. n \in B /\ B \in SUBSET Nat
  BY <1>1
<1>3. PICK m \in B : \A l \in B : m <= l
  BY <1>2, Least
<1>4. m \in Nat /\ \A y \in S : y <= m
  BY <1>1, <1>3
<1>5. m \in S
  <2>1. SUFFICES ASSUME m \notin S PROVE FALSE
    OBVIOUS
  <2>2. m # 0
    <3>1. PICK y \in S : y \in 1..n
      OBVIOUS
    <3> QED
      BY <1>4, <3>1
  <2>3. m - 1 \in Nat /\ \A y \in S : y <= m - 1
    BY <1>4, <2>1, <2>2
  <2> QED
    BY <1>1, <1>3, <1>4, <2>3
<1> QED
  BY <1>4, <1>5, GreatestIs

\* The orders of a map give texts that carry the same.
Akin(S, t, u, sep) ==
    /\ t \in Seq(S) /\ u \in Seq(S)
    /\ Carries(t, u, sep) /\ ToSet(t) \cup {sep} = ToSet(u) \cup {sep}

\* What is in t, and has no blank in it, is in u too.
CarriesWords(t, u) ==
    \A i, j \in 0..Len(t) :
        i < j /\ (\A x \in (i + 1)..j : t[x] \notin Blank)
        => \E m \in 0..Len(u) :
              /\ m + (j - i) <= Len(u)
              /\ \A x \in 1..(j - i) : u[m + x] = t[i + x]

\* Texts of the same words.
Alike(S, t, u) ==
    /\ t \in Seq(S) /\ u \in Seq(S)
    /\ CarriesWords(t, u) /\ ToSet(t) \cup Blank = ToSet(u) \cup Blank

LEMMA AkinAlike ==
    ASSUME NEW S, NEW t, NEW u, NEW sep \in Blank, Akin(S, t, u, sep)
    PROVE  Alike(S, t, u)
<1>1. \A x : t[x] \notin Blank => t[x] # sep
  OBVIOUS
<1>2. CarriesWords(t, u)
  BY <1>1 DEF Akin, Carries, CarriesWords
<1>3. ToSet(t) \cup Blank = ToSet(u) \cup Blank
  <2>1. ToSet(t) \cup {sep} = ToSet(u) \cup {sep}
    BY DEF Akin
  <2>2. {sep} \cup Blank = Blank
    OBVIOUS
  <2> QED
    BY <2>1, <2>2
<1> QED
  BY <1>2, <1>3 DEF Akin, Alike

\* What is left of a trimmed text: l characters after the first a, with all that
\* are no blanks among them.
Cropped(S, t, n, a, l, f) ==
    /\ a + l <= n /\ f \in Seq(S) /\ Len(f) = l
    /\ \A x \in 1..l : f[x] = t[a + x]
    /\ \A x \in 1..n : t[x] \notin Blank => x \in (a + 1)..(a + l)

LEMMA TrimmedCropped ==
    ASSUME NEW S, NEW t \in Seq(S), NEW n \in Nat, n = Len(t)
    PROVE  \E a \in Nat, l \in Nat : Cropped(S, t, n, a, l, Trimmed(t))
<1>1. PICK kept : kept = {i \in 1..n : t[i] \notin Blank}
  OBVIOUS
<1>2. Trimmed(t) = IF kept = {} THEN <<>> ELSE SubSeq(t, Min(kept), Max(kept))
  <2>1. DOMAIN t = 1..n
    OBVIOUS
  <2> QED
    BY <1>1, <2>1 DEF Trimmed
<1>3. CASE kept = {}
  <2>1. Trimmed(t) = <<>> /\ \A x \in 1..n : t[x] \in Blank
    BY <1>1, <1>2, <1>3
  <2>2. Cropped(S, t, n, 0, 0, <<>>)
    BY <2>1 DEF Cropped
  <2> QED
    BY <2>1, <2>2
<1>4. CASE kept # {}
  <2>1. PICK lo \in kept : \A y \in kept : lo <= y
    <3>1. kept \in SUBSET Nat
      BY <1>1
    <3> QED
      BY <1>4, <3>1, Least
  <2>2. Min(kept) = lo
    <3>1. \A z \in kept : (\A y \in kept : z <= y) => z = lo
      BY <1>1, <2>1
    <3> QED
      BY <2>1, <3>1 DEF Min
  <2>3. PICK hi \in kept : hi = Max(kept) /\ \A y \in kept : y <= hi
    BY <1>1, <1>4, GreatestIn
  <2>4. lo \in 1..n /\ hi \in 1..n /\ lo <= hi
    BY <1>1, <2>1, <2>3
  <2>5. PICK a \in Nat, l \in Nat : a = lo - 1 /\ l = hi - lo + 1
    BY <2>4
  <2>6. PICK f : f = SubSeq(t, lo, hi)
    OBVIOUS
  <2>7. f \in Seq(S) /\ Len(f) = l /\ \A x \in 1..l : f[x] = t[a + x]
    BY <2>4, <2>5, <2>6
  <2>8. \A x \in 1..n : t[x] \notin Blank => x \in (a + 1)..(a + l)
    BY <1>1, <2>1, <2>3, <2>4, <2>5
  <2>9. Cropped(S, t, n, a, l, f)
    BY <2>4, <2>5, <2>7, <2>8 DEF Cropped
  <2> QED
    BY <1>2, <1>4, <2>2, <2>3, <2>6, <2>9
<1> QED
  BY <1>3, <1>4

\* Texts of the same words have the same words once they are trimmed.
LEMMA TrimmedAlike ==
    ASSUME NEW S, NEW t, NEW u, Alike(S, t, u)
    PROVE  Alike(S, Trimmed(t), Trimmed(u))
<1> t \in Seq(S) /\ u \in Seq(S)
  BY DEF Alike
<1>1. PICK n1 \in Nat, n2 \in Nat : n1 = Len(t) /\ n2 = Len(u)
  OBVIOUS
<1>2. PICK f, g : f = Trimmed(t) /\ g = Trimmed(u)
  OBVIOUS
<1>3. PICK a \in Nat, k \in Nat : Cropped(S, t, n1, a, k, f)
  BY <1>1, <1>2, TrimmedCropped
<1>4. PICK b \in Nat, l \in Nat : Cropped(S, u, n2, b, l, g)
  BY <1>1, <1>2, TrimmedCropped
<1>5. /\ a + k <= n1 /\ f \in Seq(S) /\ Len(f) = k /\ \A x \in 1..k : f[x] = t[a + x]
      /\ \A x \in 1..n1 : t[x] \notin Blank => x \in (a + 1)..(a + k)
  BY <1>3 DEF Cropped
<1>6. /\ b + l <= n2 /\ g \in Seq(S) /\ Len(g) = l /\ \A x \in 1..l : g[x] = u[b + x]
      /\ \A x \in 1..n2 : u[x] \notin Blank => x \in (b + 1)..(b + l)
  BY <1>4 DEF Cropped
<1>7. CarriesWords(f, g)
  <2> SUFFICES ASSUME NEW i \in 0..k, NEW j \in 0..k, i < j,
                      \A x \in (i + 1)..j : f[x] \notin Blank
               PROVE  \E m \in 0..l :
                         /\ m + (j - i) <= l
                         /\ \A x \in 1..(j - i) : g[m + x] = f[i + x]
    BY <1>5, <1>6, Zenon DEF CarriesWords
  <2>1. ASSUME NEW x \in 1..(j - i)
        PROVE  t[(a + i) + x] = f[i + x] /\ t[(a + i) + x] \notin Blank
    <3>1. i + x \in 1..k /\ i + x \in (i + 1)..j /\ a + (i + x) = (a + i) + x
      OBVIOUS
    <3> QED
      BY <1>5, <3>1
  <2>2. PICK i1 \in 0..n1, j1 \in 0..n1 : i1 = a + i /\ j1 = a + j
    BY <1>5
  <2>3. \A x \in (i1 + 1)..j1 : t[x] \notin Blank
    <3>1. SUFFICES ASSUME NEW x \in (i1 + 1)..j1 PROVE t[x] \notin Blank
      OBVIOUS
    <3>2. x - i1 \in 1..(j - i) /\ (a + i) + (x - i1) = x
      BY <2>2
    <3> QED
      BY <2>1, <3>2
  <2>4. PICK m1 \in 0..n2 : /\ m1 + (j - i) <= n2
                            /\ \A x \in 1..(j - i) : u[m1 + x] = t[i1 + x]
    <3>1. j1 - i1 = j - i /\ i1 < j1
      BY <2>2
    <3>2. \E m \in 0..n2 : /\ m + (j1 - i1) <= n2
                            /\ \A x \in 1..(j1 - i1) : u[m + x] = t[i1 + x]
      BY <1>1, <2>3, <3>1 DEF Alike, CarriesWords
    <3> QED
      BY <3>1, <3>2
  <2>5. ASSUME NEW x \in 1..(j - i)
        PROVE  /\ u[m1 + x] = f[i + x] /\ m1 + x \in (b + 1)..(b + l)
    <3>1. u[m1 + x] = f[i + x] /\ u[m1 + x] \notin Blank
      BY <2>1, <2>2, <2>4
    <3>2. m1 + x \in 1..n2
      BY <2>4
    <3> QED
      BY <1>6, <3>1, <3>2
  <2>6. 1 \in 1..(j - i) /\ j - i \in 1..(j - i)
    OBVIOUS
  <2>7. m1 + 1 \in (b + 1)..(b + l) /\ m1 + (j - i) \in (b + 1)..(b + l)
    BY <2>5, <2>6
  <2>8. PICK m \in 0..l : m = m1 - b
    BY <2>7
  <2>9. m + (j - i) <= l
    BY <2>7, <2>8
  <2>10. ASSUME NEW x \in 1..(j - i) PROVE g[m + x] = f[i + x]
    <3>1. m + x \in 1..l /\ b + (m + x) = m1 + x
      BY <2>8, <2>9
    <3> QED
      BY <1>6, <2>5, <3>1
  <2> QED
    BY <2>9, <2>10
<1>8. ASSUME NEW v \in Seq(S), NEW n \in Nat, n = Len(v), NEW h, NEW c \in Nat, NEW w \in Nat,
             Cropped(S, v, n, c, w, h)
      PROVE  ToSet(h) \cup Blank = ToSet(v) \cup Blank
  <2>1. /\ c + w <= n /\ h \in Seq(S) /\ Len(h) = w /\ \A x \in 1..w : h[x] = v[c + x]
        /\ \A x \in 1..n : v[x] \notin Blank => x \in (c + 1)..(c + w)
    BY <1>8 DEF Cropped
  <2>2. ToSet(h) = {h[x] : x \in 1..w} /\ ToSet(v) = {v[x] : x \in 1..n}
    <3>1. DOMAIN h = 1..w /\ DOMAIN v = 1..n
      BY <1>8, <2>1
    <3> QED
      BY <3>1 DEF ToSet
  <2>3. \A x \in 1..w : c + x \in 1..n /\ h[x] = v[c + x]
    BY <2>1
  <2>4. ASSUME NEW x \in 1..n, v[x] \notin Blank PROVE v[x] \in ToSet(h)
    <3>1. x - c \in 1..w /\ c + (x - c) = x
      BY <2>1, <2>4
    <3>2. h[x - c] = v[x]
      BY <2>1, <3>1
    <3> QED
      BY <2>2, <3>1, <3>2
  <2> QED
    BY <2>2, <2>3, <2>4
<1>9. ToSet(f) \cup Blank = ToSet(g) \cup Blank
  <2>1. ToSet(f) \cup Blank = ToSet(t) \cup Blank
    BY <1>1, <1>3, <1>8
  <2>2. ToSet(g) \cup Blank = ToSet(u) \cup Blank
    BY <1>1, <1>4, <1>8
  <2> QED
    BY <2>1, <2>2 DEF Alike
<1> QED
  BY <1>2, <1>5, <1>6, <1>7, <1>9 DEF Alike

\* Each character of t as G turns it.
Turned(t, G) == [x \in DOMAIN t |-> G[t[x]]]

\* A pattern without blanks that is found in t, each character of which G turns
\* into another one, is found in a text of the same words.
LEMMA FoundInBoth ==
    ASSUME NEW S, NEW t, NEW u, Alike(S, t, u),
           NEW G, \A e \in Blank : G[e] = e,
           NEW p, \A e \in Blank : e \notin ToSet(p), Occurs(p, Turned(t, G))
    PROVE  Occurs(p, Turned(u, G))
<1> t \in Seq(S) /\ u \in Seq(S) /\ CarriesWords(t, u)
  BY DEF Alike
<1>1. PICK n1 \in Nat, n2 \in Nat : n1 = Len(t) /\ n2 = Len(u)
  OBVIOUS
<1>2. PICK a : a = [x \in 1..n1 |-> G[t[x]]]
  OBVIOUS
<1>3. PICK b : b = [x \in 1..n2 |-> G[u[x]]]
  OBVIOUS
<1>4. PICK R : R = {G[x] : x \in S}
  OBVIOUS
<1>5. /\ a \in Seq(R) /\ Len(a) = n1 /\ b \in Seq(R) /\ Len(b) = n2
  <2>1. \A x \in 1..n1 : t[x] \in S
    BY <1>1
  <2>2. \A x \in 1..n2 : u[x] \in S
    BY <1>1
  <2>3. \A x \in 1..n1 : a[x] \in R
    BY <1>2, <1>4, <2>1
  <2>4. \A x \in 1..n2 : b[x] \in R
    BY <1>3, <1>4, <2>2
  <2> QED
    BY <1>2, <1>3, <2>3, <2>4
<1>6. a = Turned(t, G) /\ b = Turned(u, G)
  BY <1>1, <1>2, <1>3 DEF Turned
<1>7. PICK i \in 0..n1, j \in 0..n1 : p = SubSeq(a, i + 1, j)
  BY <1>5, <1>6 DEF Occurs
<1>8. CASE i >= j
  <2>1. p = <<>>
    BY <1>5, <1>7, <1>8
  <2>2. SubSeq(b, 1, 0) = <<>>
    BY <1>5
  <2>3. 0 \in 0..n2 /\ 0 + 1 = 1
    OBVIOUS
  <2> QED
    BY <1>5, <1>6, <2>1, <2>2, <2>3 DEF Occurs
<1>9. CASE i < j
  <2>1. PICK len \in Nat \ {0} : len = j - i
    BY <1>9
  <2>2. DOMAIN p = 1..len /\ \A x \in 1..len : p[x] = a[i + x]
    <3>1. SubSeq(a, i + 1, j) = [x \in 1..len |-> a[i + x]]
      BY <1>5, <1>9, <2>1
    <3> QED
      BY <1>7, <3>1
  <2>3. \A x \in (i + 1)..j : t[x] \notin Blank
    <3>1. SUFFICES ASSUME NEW x \in (i + 1)..j, t[x] \in Blank PROVE FALSE
      OBVIOUS
    <3>2. x \in 1..n1 /\ x - i \in 1..len /\ i + (x - i) = x
      BY <2>1
    <3>3. p[x - i] \in Blank
      BY <1>2, <2>2, <3>1, <3>2
    <3> QED
      BY <2>2, <3>2, <3>3 DEF ToSet
  <2>4. PICK m \in 0..n2 : m + len <= n2 /\ \A x \in 1..len : u[m + x] = t[i + x]
    BY <1>1, <1>9, <2>1, <2>3 DEF CarriesWords
  <2>5. \A x \in 1..len : b[m + x] = a[i + x]
    <3>1. ASSUME NEW x \in 1..len PROVE b[m + x] = a[i + x]
      <4>1. m + x \in 1..n2 /\ i + x \in 1..n1
        BY <2>1, <2>4
      <4> QED
        BY <1>2, <1>3, <2>4, <4>1
    <3> QED
      BY <3>1
  <2>6. SubSeq(b, m + 1, m + len) = [x \in 1..len |-> b[m + x]]
    BY <1>5, <2>4
  <2>7. SubSeq(a, i + 1, j) = [x \in 1..len |-> a[i + x]]
    BY <1>5, <1>9, <2>1
  <2>8. p = SubSeq(b, m + 1, m + len)
    BY <1>7, <2>5, <2>6, <2>7
  <2>9. m + len \in 0..n2
    BY <2>4
  <2> QED
    BY <1>5, <1>6, <2>8, <2>9 DEF Occurs
<1> QED
  BY <1>8, <1>9

\* What a rule without "normalize_path" makes of a character e of a text of E.
Once(E, e) == IF Chr("%") \in E THEN e ELSE Stripped(e, "pct")

Twice(E, e) == Once({Once(E, d) : d \in E}, Once(E, e))

LowerChr(e) == IF Bare(e) /\ e.char \in DOMAIN LowerOf THEN Chr(LowerOf[e.char]) ELSE e

Char(E, transforms, e) ==
    LET html == IF "html_entity" \in transforms THEN Stripped(Twice(E, e), "html")
                                                ELSE Twice(E, e)
    IN  IF "lowercase" \in transforms THEN LowerChr(html) ELSE html

LEMMA LoweredChars ==
    ASSUME NEW t
    PROVE  Lower(t) = [x \in DOMAIN t |-> LowerChr(t[x])]
BY DEF Lower, Mapped, LowerChr

LEMMA OnceChars ==
    ASSUME NEW t, t = [x \in DOMAIN t |-> t[x]]
    PROVE  DecodeOnce(t) = [x \in DOMAIN t |-> Once(ToSet(t), t[x])]
BY DEF DecodeOnce, Mapped, Once

LEMMA NormalizedChars ==
    ASSUME NEW t, t = [x \in DOMAIN t |-> t[x]],
           NEW transforms, "normalize_path" \notin transforms
    PROVE  Normalized(t, transforms) = [x \in DOMAIN t |-> Char(ToSet(t), transforms, t[x])]
<1>1. PICK one : one = [x \in DOMAIN t |-> Once(ToSet(t), t[x])]
  OBVIOUS
<1>2. DecodeOnce(t) = one
  BY <1>1, OnceChars
<1>3. ToSet(one) = {Once(ToSet(t), d) : d \in ToSet(t)}
  <2>1. DOMAIN one = DOMAIN t /\ \A x \in DOMAIN t : one[x] = Once(ToSet(t), t[x])
    BY <1>1
  <2> HIDE DEF Once
  <2>2. ToSet(one) = {Once(ToSet(t), t[x]) : x \in DOMAIN t}
    BY <2>1 DEF ToSet
  <2>3. ToSet(t) = {t[x] : x \in DOMAIN t}
    BY DEF ToSet
  <2>4. PICK E : E = ToSet(t)
    OBVIOUS
  <2>5. {Once(E, t[x]) : x \in DOMAIN t} = {Once(E, d) : d \in {t[x] : x \in DOMAIN t}}
    OBVIOUS
  <2> QED
    BY <2>2, <2>3, <2>4, <2>5
<1>4. PICK two : two = [x \in DOMAIN t |-> Twice(ToSet(t), t[x])]
  OBVIOUS
<1>5. Decoded(t) = two
  <2>1. DecodeOnce(one) = [x \in DOMAIN one |-> Once(ToSet(one), one[x])]
    BY <1>1, OnceChars
  <2> QED
    BY <1>1, <1>2, <1>3, <1>4, <2>1 DEF Decoded, Twice
<1>6. PICK three : three = [x \in DOMAIN t |-> IF "html_entity" \in transforms
                                               THEN Stripped(two[x], "html") ELSE two[x]]
  OBVIOUS
<1>7. three = IF "html_entity" \in transforms
              THEN Mapped(two, LAMBDA e : Stripped(e, "html")) ELSE two
  BY <1>4, <1>6 DEF Mapped
<1>8. Normalized(t, transforms) = IF "lowercase" \in transforms THEN Lower(three) ELSE three
  BY <1>5, <1>7 DEF Normalized
<1>9. Lower(three) = [x \in DOMAIN three |-> LowerChr(three[x])]
  BY LoweredChars
<1> QED
  BY <1>4, <1>6, <1>8, <1>9 DEF Char

\* What separates headers and fields stays what it is, and has no influence.
LEMMA SeparatorsStay ==
    ASSUME NEW sep \in Blank, NEW E, NEW transforms
    PROVE  LowerChr(sep) = sep /\ Char(E, transforms, sep) = sep
<1>1. PICK c \in {" ", "\n"} : sep = [char |-> c, code |-> <<>>]
  BY DEF Blank, Space, Newline, Chr
<1>2. \A kind : Stripped(sep, kind) = sep
  BY <1>1 DEF Stripped
<1>3. LowerChr(sep) = sep
  <2>1. c \notin DOMAIN LowerOf
    BY LetterAssumption
  <2> QED
    BY <1>1, <2>1 DEF LowerChr
<1>4. Twice(E, sep) = sep
  BY <1>2 DEF Twice, Once
<1> QED
  BY <1>2, <1>3, <1>4 DEF Char

LEMMA SameChars ==
    ASSUME NEW E, NEW F, E \cup Blank = F \cup Blank, NEW transforms, NEW e
    PROVE  Char(E, transforms, e) = Char(F, transforms, e)
<1>0. \A d \in Blank : d.char # "%" /\ d.code = <<>>
  <2>1. ASSUME NEW d \in Blank PROVE d.char # "%" /\ d.code = <<>>
    <3>1. PICK c \in {" ", "\n"} : d = [char |-> c, code |-> <<>>]
      BY <2>1 DEF Blank, Space, Newline, Chr
    <3>2. c # "%"
      OBVIOUS
    <3> QED
      BY <3>1, <3>2
  <2> QED
    BY <2>1
<1>1. Chr("%") \notin Blank
  BY <1>0 DEF Chr
<1>m. \A d : d \notin Blank => (d \in E <=> d \in F)
  OBVIOUS
<1>2. Chr("%") \in E <=> Chr("%") \in F
  BY <1>1, <1>m, Zenon
<1>3. \A d : Once(E, d) = Once(F, d)
  BY <1>2 DEF Once
<1>4. \A d \in Blank : Once(E, d) = d
  BY <1>0 DEF Once, Stripped
<1>5. Chr("%") \in {Once(E, d) : d \in E} <=> Chr("%") \in {Once(F, d) : d \in F}
  <2>1. PICK pct : pct = Chr("%")
    OBVIOUS
  <2>2. \A d : Once(E, d) = pct => d \notin Blank /\ Once(F, d) = pct
    BY <1>1, <1>3, <1>4, <2>1
  <2>3. \A d : Once(F, d) = pct => d \notin Blank /\ Once(E, d) = pct
    BY <1>1, <1>3, <1>4, <2>1
  <2>4. pct \in {Once(E, d) : d \in E} <=> \E d \in E : Once(E, d) = pct
    BY Zenon
  <2>5. pct \in {Once(F, d) : d \in F} <=> \E d \in F : Once(F, d) = pct
    BY Zenon
  <2>6. (\E d \in E : Once(E, d) = pct) <=> (\E d \in F : Once(F, d) = pct)
    BY <1>m, <2>2, <2>3, Zenon
  <2> QED
    BY <2>1, <2>4, <2>5, <2>6
<1>6. Twice(E, e) = Twice(F, e)
  BY <1>3, <1>5 DEF Twice, Once
<1> QED
  BY <1>6 DEF Char

\* A rule whose patterns have no blanks, with a matcher that is exact for them,
\* and that leaves paths alone, finds them in a text of the same words.
LEMMA FindsInBoth ==
    ASSUME NEW S, NEW t, NEW u, Alike(S, t, u),
           NEW rule, \A p \in ToSet(rule.patterns) : Within(p),
           rule.type = "aho" => Tame(rule.patterns),
           "normalize_path" \notin rule.transforms,
           Finds(rule, Normalized(t, rule.transforms))
    PROVE  Finds(rule, Normalized(u, rule.transforms))
<1> /\ t \in Seq(S) /\ u \in Seq(S)
    /\ ToSet(t) \cup Blank = ToSet(u) \cup Blank
  BY DEF Alike
<1>1. PICK tr : tr = rule.transforms
  OBVIOUS
<1>2. PICK E : E = ToSet(t)
  OBVIOUS
<1>3. PICK D : D = S \cup Blank
  OBVIOUS
<1>4. PICK G : G = [e \in D |-> Char(E, tr, e)]
  OBVIOUS
<1>5. PICK H : H = [e \in D |-> LowerChr(Char(E, tr, e))]
  OBVIOUS
<1>6. \A e \in Blank : G[e] = e /\ H[e] = e
  BY <1>3, <1>4, <1>5, SeparatorsStay
<1>7. (\A x \in DOMAIN t : t[x] \in D) /\ (\A x \in DOMAIN u : u[x] \in D)
  BY <1>3
<1>8. PICK a : a = Turned(t, G)
  OBVIOUS
<1>9. PICK b : b = Turned(u, G)
  OBVIOUS
<1>10. Normalized(t, tr) = a
  <2>1. Normalized(t, tr) = [x \in DOMAIN t |-> Char(E, tr, t[x])]
    <3>1. t = [x \in DOMAIN t |-> t[x]]
      OBVIOUS
    <3> QED
      BY <1>1, <1>2, <3>1, NormalizedChars
  <2> QED
    BY <1>4, <1>7, <1>8, <2>1 DEF Turned
<1>11. Normalized(u, tr) = b
  <2>1. Normalized(u, tr) = [x \in DOMAIN u |-> Char(ToSet(u), tr, u[x])]
    <3>1. u = [x \in DOMAIN u |-> u[x]]
      OBVIOUS
    <3> QED
      BY <1>1, <3>1, NormalizedChars
  <2>2. \A e : Char(ToSet(u), tr, e) = Char(E, tr, e)
    BY <1>2, SameChars
  <2> QED
    BY <1>4, <1>7, <1>9, <2>1, <2>2 DEF Turned
<1>12. Lower(a) = Turned(t, H) /\ Lower(b) = Turned(u, H)
  <2>1. Lower(a) = [x \in DOMAIN t |-> LowerChr(G[t[x]])]
    BY <1>8, LoweredChars DEF Turned
  <2>2. Lower(b) = [x \in DOMAIN u |-> LowerChr(G[u[x]])]
    BY <1>9, LoweredChars DEF Turned
  <2> QED
    BY <1>4, <1>5, <1>7, <2>1, <2>2 DEF Turned
<1>13. ASSUME NEW p \in ToSet(rule.patterns), NEW sep \in Blank
       PROVE  sep \notin ToSet(p) /\ sep \notin ToSet(Lower(p))
  <2>1. Lower(p) = [x \in DOMAIN p |-> LowerChr(p[x])]
    BY LoweredChars
  <2>2. \A x \in DOMAIN p : p[x] # sep
    BY DEF ToSet, Within, Blank
  <2>3. \A c \in DOMAIN LowerOf : Chr(LowerOf[c]) # sep
    <3>1. PICK s \in {" ", "\n"} : sep = [char |-> s, code |-> <<>>]
      BY DEF Blank, Space, Newline, Chr
    <3>2. ASSUME NEW c \in DOMAIN LowerOf PROVE Chr(LowerOf[c]) # sep
      <4>1. LowerOf[c] # s
        BY LetterAssumption
      <4>2. Chr(LowerOf[c]).char = LowerOf[c] /\ sep.char = s
        BY <3>1 DEF Chr
      <4> QED
        BY <4>1, <4>2
    <3> QED
      BY <3>2
  <2>4. \A x \in DOMAIN p : LowerChr(p[x]) # sep
    BY <2>2, <2>3 DEF LowerChr
  <2> QED
    BY <2>1, <2>2, <2>4 DEF ToSet
<1>14. ASSUME NEW p \in ToSet(rule.patterns)
       PROVE  /\ Occurs(Lower(p), Lower(a)) => Occurs(Lower(p), Lower(b))
              /\ Occurs(p, a) => Occurs(p, b)
  <2>1. \A e \in Blank : e \notin ToSet(p) /\ e \notin ToSet(Lower(p))
    BY <1>13, <1>14
  <2>2. Occurs(Lower(p), Lower(a)) => Occurs(Lower(p), Lower(b))
    BY <1>6, <1>12, <2>1, FoundInBoth
  <2>3. Occurs(p, a) => Occurs(p, b)
    BY <1>6, <1>8, <1>9, <2>1, FoundInBoth
  <2> QED
    BY <2>2, <2>3
<1>15. Finds(rule, a) => Finds(rule, b)
  <2>1. CASE rule.type = "aho"
    <3>1. NoDoubles(rule.patterns)
      BY <2>1 DEF Tame
    <3>2. \A v : FindsAho(rule, v) <=> \E p \in ToSet(rule.patterns) : Occurs(p, v)
      BY <2>1, <3>1, Zenon DEF FindsAho
    <3> QED
      BY <1>14, <2>1, <3>2, Zenon DEF Finds
  <2>2. CASE rule.type # "aho"
    <3>1. FindsRegex(rule, a) => FindsRegex(rule, b)
      <4>1. CASE rule.fold
        BY <1>14, <4>1, Zenon DEF FindsRegex
      <4>2. CASE ~rule.fold
        BY <1>14, <4>2, Zenon DEF FindsRegex
      <4> QED
        BY <4>1, <4>2
    <3> QED
      BY <2>2, <3>1, Zenon DEF Finds
  <2> QED
    BY <2>1, <2>2
<1> QED
  BY <1>1, <1>10, <1>11, <1>15

\* What is ranged over, in an order.
InOrder(Piece, order) == [x \in DOMAIN order |-> Piece[order[x]]]

PiecesIn(S, K, Piece, order, n, segs) ==
    /\ Piece \in [K -> Seq(S)] /\ order \in Seq(K)
    /\ n \in Nat /\ n = Len(order) /\ segs = InOrder(Piece, order)

LEMMA OrderedPieces ==
    ASSUME NEW S, NEW K, NEW Piece, NEW order, NEW n, NEW segs,
           PiecesIn(S, K, Piece, order, n, segs)
    PROVE  /\ segs \in [1..n -> Seq(S)]
           /\ \A x \in 1..n : segs[x] = Piece[order[x]] /\ order[x] \in K
           /\ ToSet(order) = {order[x] : x \in 1..n}
<1> /\ Piece \in [K -> Seq(S)] /\ order \in Seq(K)
    /\ n \in Nat /\ n = Len(order) /\ segs = InOrder(Piece, order)
  BY DEF PiecesIn
<1>1. DOMAIN order = 1..n /\ \A x \in 1..n : order[x] \in K
  OBVIOUS
<1>2. \A x \in 1..n : Piece[order[x]] \in Seq(S)
  BY <1>1
<1>3. segs = [x \in 1..n |-> Piece[order[x]]]
  BY <1>1 DEF InOrder
<1>4. ToSet(order) = {order[x] : x \in 1..n}
  BY <1>1 DEF ToSet
<1> QED
  BY <1>1, <1>2, <1>3, <1>4

SepEnds(Piece, K, sep) == \A k \in K : Piece[k] # <<>> => Piece[k][Len(Piece[k])] = sep

LEMMA PiecesAmong ==
    ASSUME NEW S, NEW K, NEW Piece, NEW sep, SepEnds(Piece, K, sep),
           NEW o1, NEW o2, NEW n, NEW r, NEW segs, NEW others,
           PiecesIn(S, K, Piece, o1, n, segs), PiecesIn(S, K, Piece, o2, r, others),
           K \subseteq ToSet(o2)
    PROVE  SepLast(segs, n, sep) /\ Among(segs, n, others, r)
<1>1. \A x \in 1..n : segs[x] = Piece[o1[x]] /\ o1[x] \in K
  BY OrderedPieces
<1>2. /\ \A x \in 1..r : others[x] = Piece[o2[x]]
      /\ ToSet(o2) = {o2[x] : x \in 1..r}
  BY OrderedPieces
<1>3. \A k \in K : \E x \in 1..r : o2[x] = k
  BY <1>2
<1>4. SepLast(segs, n, sep)
  BY <1>1, Zenon DEF SepEnds, SepLast
<1>5. Among(segs, n, others, r)
  <2>1. SUFFICES ASSUME NEW i \in 1..n PROVE \E l \in 1..r : others[l] = segs[i]
    BY DEF Among
  <2>2. PICK l \in 1..r : o2[l] = o1[i]
    BY <1>1, <1>3
  <2>3. others[l] = segs[i]
    BY <1>1, <1>2, <2>2
  <2> QED
    BY <2>3
<1> QED
  BY <1>4, <1>5

\* t is what is ranged over in an order, one after the other.
Written(S, K, Piece, sep, order, t) ==
    /\ Piece \in [K -> Seq(S)] /\ SepEnds(Piece, K, sep)
    /\ order \in Seq(K) /\ ToSet(order) = K
    /\ t = FlattenSeq(InOrder(Piece, order))

LEMMA EitherOrder ==
    ASSUME NEW S, NEW K, NEW Piece, NEW sep, NEW o1, NEW o2, NEW t, NEW u,
           Written(S, K, Piece, sep, o1, t), Written(S, K, Piece, sep, o2, u)
    PROVE  Akin(S, t, u, sep)
<1>1. PICK n \in Nat, r \in Nat : n = Len(o1) /\ r = Len(o2)
  BY DEF Written
<1>2. PICK segs : segs = InOrder(Piece, o1)
  OBVIOUS
<1>3. PICK others : others = InOrder(Piece, o2)
  OBVIOUS
<1>p. PiecesIn(S, K, Piece, o1, n, segs) /\ PiecesIn(S, K, Piece, o2, r, others)
  BY <1>1, <1>2, <1>3 DEF Written, PiecesIn
<1>s. K \subseteq ToSet(o1) /\ K \subseteq ToSet(o2) /\ SepEnds(Piece, K, sep)
  BY DEF Written
<1>4. /\ segs \in [1..n -> Seq(S)]
      /\ SepLast(segs, n, sep) /\ Among(segs, n, others, r)
  BY <1>p, <1>s, OrderedPieces, PiecesAmong
<1>5. /\ others \in [1..r -> Seq(S)]
      /\ SepLast(others, r, sep) /\ Among(others, r, segs, n)
  BY <1>p, <1>s, OrderedPieces, PiecesAmong
<1>6. t = FlattenSeq(segs) /\ u = FlattenSeq(others)
  BY <1>2, <1>3 DEF Written
<1>7. Cut(S, segs, n, sep, t) /\ Cut(S, others, r, sep, u)
  BY <1>4, <1>5, <1>6 DEF Cut
<1>9. /\ t \in Seq(S) /\ u \in Seq(S) /\ Carries(t, u, sep)
      /\ ToSet(t) \subseteq ToSet(u)
  BY <1>4, <1>7, PiecesCarry
<1>10. ToSet(u) \subseteq ToSet(t)
  BY <1>5, <1>7, PiecesCarry
<1>11. ToSet(t) = ToSet(u)
  BY <1>9, <1>10
<1> QED
  BY <1>9, <1>11 DEF Akin

\* A line, or a field, ends with what separates it from the next.
LEMMA EndsWith ==
    ASSUME NEW S, NEW start \in Seq(S), NEW t \in Seq(S), NEW sep \in S,
           NEW line, line = start \o t \o <<sep>>
    PROVE  line \in Seq(S) /\ line # <<>> /\ line[Len(line)] = sep
OBVIOUS

\* The lines of the headers of a request.
LEMMA EitherHeaders ==
    ASSUME NEW headers, IsFiniteSet(DOMAIN headers),
           \A h \in DOMAIN headers : IsText(headers[h]),
           NEW o1 \in SetToSeqs(DOMAIN headers), NEW o2 \in SetToSeqs(DOMAIN headers)
    PROVE  \E S : Alike(S, HeadersForEval(headers, o1), HeadersForEval(headers, o2))
<1>1. PICK K : K = DOMAIN headers
  OBVIOUS
<1>a. PICK A : A = UNION {ToSet(headers[h]) : h \in K}
  OBVIOUS
<1>b. PICK B : B = {Chr(h) : h \in K}
  OBVIOUS
<1>2. PICK S : S = A \cup B \cup {Chr(":"), Space, Mask, Newline}
  OBVIOUS
<1>2a. /\ \A h \in K : ToSet(headers[h]) \subseteq S /\ Chr(h) \in S
       /\ Chr(":") \in S /\ Space \in S /\ Mask \in S /\ Newline \in S
  <2>1. \A h \in K : ToSet(headers[h]) \subseteq A
    BY <1>a, Zenon
  <2>2. \A h \in K : Chr(h) \in B
    BY <1>b, Zenon
  <2> QED
    BY <1>2, <2>1, <2>2
<1>3. PICK Piece : Piece = [h \in K |->
                              <<Chr(h), Chr(":"), Space>>
                                \o (IF h \in Sensitive THEN <<Mask>> ELSE headers[h])
                                \o <<Newline>>]
  OBVIOUS
<1>4. ASSUME NEW h \in K
      PROVE  Piece[h] \in Seq(S) /\ Piece[h] # <<>> /\ Piece[h][Len(Piece[h])] = Newline
  <2>1. PICK val : val = IF h \in Sensitive THEN <<Mask>> ELSE headers[h]
    OBVIOUS
  <2>2. val \in Seq(S)
    <3>1. headers[h] \in Seq(ToSet(headers[h]))
      BY <1>1 DEF IsText
    <3>2. ToSet(headers[h]) \subseteq S /\ Mask \in S
      BY <1>2a
    <3> QED
      BY <2>1, <3>1, <3>2
  <2>3. PICK start \in Seq(S) : start = <<Chr(h), Chr(":"), Space>>
    <3>1. PICK x \in S, y \in S, z \in S : x = Chr(h) /\ y = Chr(":") /\ z = Space
      BY <1>2a, Zenon
    <3>2. <<x, y, z>> \in Seq(S)
      OBVIOUS
    <3> QED
      BY <3>1, <3>2
  <2>4. Piece[h] = start \o val \o <<Newline>> /\ Newline \in S
    <3>1. Piece[h] = <<Chr(h), Chr(":"), Space>>
                       \o (IF h \in Sensitive THEN <<Mask>> ELSE headers[h]) \o <<Newline>>
      BY <1>3, Zenon
    <3> QED
      BY <1>2a, <2>1, <2>3, <3>1, Zenon
  <2> QED
    BY <2>2, <2>4, EndsWith
<1>5. Piece \in [K -> Seq(S)]
  BY <1>3, <1>4
<1>6. o1 \in Seq(K) /\ o2 \in Seq(K) /\ ToSet(o1) = K /\ ToSet(o2) = K
  BY <1>1, OrdersListed
<1>7. ASSUME NEW order \in Seq(K)
      PROVE  HeadersForEval(headers, order) = FlattenSeq(InOrder(Piece, order))
  <2>1. \A x \in DOMAIN order : order[x] \in K
    OBVIOUS
  <2>2. InOrder(Piece, order)
          = [i \in DOMAIN order |->
               <<Chr(order[i]), Chr(":"), Space>>
                 \o (IF order[i] \in Sensitive THEN <<Mask>> ELSE headers[order[i]])
                 \o <<Newline>>]
    BY <1>3, <2>1 DEF InOrder
  <2> QED
    BY <2>2 DEF HeadersForEval
<1>8. PICK t, u : t = HeadersForEval(headers, o1) /\ u = HeadersForEval(headers, o2)
  OBVIOUS
<1>9. SepEnds(Piece, K, Newline)
  BY <1>4 DEF SepEnds
<1>10. Written(S, K, Piece, Newline, o1, t) /\ Written(S, K, Piece, Newline, o2, u)
  BY <1>5, <1>6, <1>7, <1>8, <1>9 DEF Written
<1>11. Alike(S, t, u)
  <2>1. Akin(S, t, u, Newline)
    BY <1>10, EitherOrder
  <2> QED
    BY <2>1, AkinAlike DEF Blank
<1> QED
  BY <1>8, <1>11

\* The fields of a body, if all are looked at.
LEMMA EitherFields ==
    ASSUME NEW fields, IsFiniteSet(DOMAIN fields), Cardinality(DOMAIN fields) <= MaxFields,
           \A k \in DOMAIN fields : IsText(fields[k]),
           NEW o1 \in SetToSeqs(DOMAIN fields), NEW o2 \in SetToSeqs(DOMAIN fields)
    PROVE  \E S : Alike(S, ShallowJSON(fields, o1), ShallowJSON(fields, o2))
<1>1. PICK K : K = DOMAIN fields
  OBVIOUS
<1>a. PICK A : A = UNION {ToSet(fields[k]) : k \in K}
  OBVIOUS
<1>b. PICK B : B = {Chr(k) : k \in K}
  OBVIOUS
<1>2. PICK S : S = A \cup B \cup {Chr("="), Mask, Space}
  OBVIOUS
<1>2a. /\ \A k \in K : ToSet(fields[k]) \subseteq S /\ Chr(k) \in S
       /\ Chr("=") \in S /\ Space \in S /\ Mask \in S
  <2>1. \A k \in K : ToSet(fields[k]) \subseteq A
    BY <1>a, Zenon
  <2>2. \A k \in K : Chr(k) \in B
    BY <1>b, Zenon
  <2> QED
    BY <1>2, <2>1, <2>2
<1>3. PICK Piece : Piece = [k \in K |-> FieldForEval(k, fields[k])]
  OBVIOUS
<1>4. ASSUME NEW k \in K
      PROVE  /\ Piece[k] \in Seq(S)
             /\ Piece[k] # <<>> => Piece[k][Len(Piece[k])] = Space
  <2>1. CASE fields[k] = <<>>
    BY <1>3, <2>1 DEF FieldForEval
  <2>2. CASE fields[k] # <<>>
    <3>1. PICK val : val = RedactKeyValue(k, fields[k])
      OBVIOUS
    <3>2. val \in Seq(S)
      <4>1. /\ fields[k] \in Seq(S) /\ Mask \in S
        <5>1. fields[k] \in Seq(ToSet(fields[k]))
          BY <1>1 DEF IsText
        <5>2. ToSet(fields[k]) \subseteq S /\ Mask \in S
          BY <1>2a
        <5> QED
          BY <5>1, <5>2
      <4>2. Redact(fields[k]) \in Seq(S)
        <5>1. PICK l \in Nat : l = Len(fields[k])
          BY <4>1
        <5>2. DOMAIN fields[k] = 1..l /\ \A x \in 1..l : fields[k][x] \in S
          BY <4>1, <5>1
        <5>3. PICK f : f = [x \in 1..l |->
                              IF Bare(fields[k][x]) /\ fields[k][x].char \in Credentials
                              THEN Mask ELSE fields[k][x]]
          OBVIOUS
        <5>4. Redact(fields[k]) = f
          BY <5>2, <5>3 DEF Redact, Mapped
        <5>5. \A x \in 1..l : f[x] \in S
          BY <4>1, <5>2, <5>3
        <5>6. f \in Seq(S)
          BY <5>3, <5>5
        <5> QED
          BY <5>4, <5>6
      <4> QED
        BY <3>1, <4>1, <4>2 DEF RedactKeyValue
    <3>3. PICK start \in Seq(S) : start = <<Chr(k), Chr("=")>>
      <4>1. PICK x \in S, y \in S : x = Chr(k) /\ y = Chr("=")
        BY <1>2a, Zenon
      <4>2. <<x, y>> \in Seq(S)
        OBVIOUS
      <4> QED
        BY <4>1, <4>2
    <3>4. Piece[k] = start \o val \o <<Space>> /\ Space \in S
      <4>1. Piece[k] = FieldForEval(k, fields[k])
        BY <1>3, Zenon
      <4>2. FieldForEval(k, fields[k]) = <<Chr(k), Chr("=")>> \o val \o <<Space>>
        BY <2>2, <3>1, Zenon DEF FieldForEval
      <4> QED
        BY <1>2a, <3>3, <4>1, <4>2, Zenon
    <3> QED
      BY <3>2, <3>4, EndsWith
  <2> QED
    BY <2>1, <2>2
<1>5. Piece \in [K -> Seq(S)]
  BY <1>3, <1>4
<1>6. /\ o1 \in Seq(K) /\ o2 \in Seq(K) /\ ToSet(o1) = K /\ ToSet(o2) = K
      /\ Looked(o1) = o1 /\ Looked(o2) = o2
  BY <1>1, AllLooked
<1>7. PICK t, u : /\ t = FlattenSeq(InOrder(Piece, o1))
                  /\ u = FlattenSeq(InOrder(Piece, o2))
  OBVIOUS
<1>8. ShallowJSON(fields, o1) = Trimmed(t) /\ ShallowJSON(fields, o2) = Trimmed(u)
  <2>1. (\A x \in DOMAIN o1 : o1[x] \in K) /\ (\A x \in DOMAIN o2 : o2[x] \in K)
    BY <1>6
  <2>2. InOrder(Piece, o1) = [i \in DOMAIN o1 |-> FieldForEval(o1[i], fields[o1[i]])]
    BY <1>3, <2>1 DEF InOrder
  <2>3. InOrder(Piece, o2) = [i \in DOMAIN o2 |-> FieldForEval(o2[i], fields[o2[i]])]
    BY <1>3, <2>1 DEF InOrder
  <2> QED
    BY <1>6, <1>7, <2>2, <2>3 DEF ShallowJSON
<1>9. SepEnds(Piece, K, Space)
  BY <1>4 DEF SepEnds
<1>10. Written(S, K, Piece, Space, o1, t) /\ Written(S, K, Piece, Space, o2, u)
  BY <1>5, <1>6, <1>7, <1>9 DEF Written
<1>11. Akin(S, t, u, Space)
  BY <1>10, EitherOrder
<1>12. Alike(S, Trimmed(t), Trimmed(u))
  BY <1>11, AkinAlike, TrimmedAlike DEF Blank
<1> QED
  BY <1>8, <1>12

\* What a phase is given is the same for every order, or carries the same.
LEMMA EitherContext ==
    ASSUME NEW q \in Requests, NEW body \in {q.body, NoBody},
           Cardinality(DOMAIN q.body.fields) <= MaxFields,
           NEW c \in Contexts(q, body), NEW d \in Contexts(q, body), NEW p \in Phases
    PROVE  \/ c[p] = d[p]
           \/ \E S : Alike(S, c[p], d[p])
<1>1. PICK h1 \in SetToSeqs(DOMAIN q.headers), b1 \in SetToSeqs(DOMAIN body.fields) :
         c = ContextOf(q, h1, body, b1)
  BY ContextsGiven
<1>2. PICK h2 \in SetToSeqs(DOMAIN q.headers), b2 \in SetToSeqs(DOMAIN body.fields) :
         d = ContextOf(q, h2, body, b2)
  BY ContextsGiven
<1>3. CASE p \in {"request_line", "query"}
  <2>1. PICK line, hs1, hs2, t1, t2, query :
           /\ c = [request_line |-> line, headers |-> hs1, query |-> query, body |-> t1]
           /\ d = [request_line |-> line, headers |-> hs2, query |-> query, body |-> t2]
    BY <1>1, <1>2, Zenon DEF ContextOf
  <2> QED
    BY <1>3, <2>1
<1>4. CASE p = "headers"
  <2>1. c[p] = HeadersForEval(q.headers, h1) /\ d[p] = HeadersForEval(q.headers, h2)
    BY <1>1, <1>2, <1>4 DEF ContextOf
  <2>2. IsFiniteSet(DOMAIN q.headers) /\ \A h \in DOMAIN q.headers : IsText(q.headers[h])
    BY InputAssumption
  <2>3. PICK S : Alike(S, HeadersForEval(q.headers, h1), HeadersForEval(q.headers, h2))
    BY <2>2, EitherHeaders
  <2>4. \E R : Alike(R, c[p], d[p])
    BY <2>1, <2>3, Zenon
  <2> QED
    BY <2>4, Zenon
<1>5. CASE p = "body"
  <2>1. c[p] = BodyForEval(body, b1) /\ d[p] = BodyForEval(body, b2)
    BY <1>1, <1>2, <1>5 DEF ContextOf
  <2>2. CASE ~body.json
    BY <2>1, <2>2 DEF BodyForEval
  <2>3. CASE body.json
    <3>1. body = q.body
      BY <2>3 DEF NoBody
    <3>2. PICK fields : fields = body.fields
      OBVIOUS
    <3>3. /\ IsFiniteSet(DOMAIN fields) /\ Cardinality(DOMAIN fields) <= MaxFields
          /\ \A k \in DOMAIN fields : IsText(fields[k])
      BY <3>1, <3>2, InputAssumption
    <3>4. /\ b1 \in SetToSeqs(DOMAIN fields) /\ b2 \in SetToSeqs(DOMAIN fields)
      BY <3>2
    <3>5. /\ ToSet(Looked(b1)) = DOMAIN fields /\ ToSet(Looked(b2)) = DOMAIN fields
      BY <3>3, <3>4, AllLooked
    <3>6. CASE \E k \in DOMAIN fields : fields[k] # <<>>
      <4>1. PICK S : Alike(S, ShallowJSON(fields, b1), ShallowJSON(fields, b2))
        BY <3>3, <3>4, <3>6, EitherFields
      <4>2. BodyForEval(body, b1) = ShallowJSON(fields, b1)
        BY <2>3, <3>2, <3>5, <3>6 DEF BodyForEval
      <4>3. BodyForEval(body, b2) = ShallowJSON(fields, b2)
        BY <2>3, <3>2, <3>5, <3>6 DEF BodyForEval
      <4>4. \E R : Alike(R, c[p], d[p])
        BY <2>1, <4>1, <4>2, <4>3, Zenon
      <4> QED
        BY <4>4, Zenon
    <3>7. CASE ~\E k \in DOMAIN fields : fields[k] # <<>>
      <4>1. BodyForEval(body, b1) = body.raw /\ BodyForEval(body, b2) = body.raw
        BY <3>2, <3>5, <3>7 DEF BodyForEval
      <4> QED
        BY <2>1, <4>1
    <3> QED
      BY <3>6, <3>7
  <2> QED
    BY <2>2, <2>3
<1> QED
  BY <1>3, <1>4, <1>5 DEF Phases

LEMMA EitherFinds ==
    ASSUME NEW q \in Requests, NEW body \in {q.body, NoBody},
           Cardinality(DOMAIN q.body.fields) <= MaxFields,
           NEW c \in Contexts(q, body), NEW d \in Contexts(q, body),
           NEW rules, NEW i \in Hits(rules, c),
           \A p \in ToSet(rules[i].patterns) : Within(p),
           rules[i].type = "aho" => Tame(rules[i].patterns),
           "normalize_path" \notin rules[i].transforms
    PROVE  i \in Hits(rules, d)
<1>1. PICK rule, p : rule = rules[i] /\ p = rule.phase
  OBVIOUS
<1>2. i \in DOMAIN rules /\ p \in Phases /\ Finds(rule, Normalized(c[p], rule.transforms))
  BY <1>1 DEF Hits
<1>3. /\ \A r \in ToSet(rule.patterns) : Within(r)
      /\ rule.type = "aho" => Tame(rule.patterns)
  BY <1>1
<1>4. "normalize_path" \notin rule.transforms
  BY <1>1
<1>5. CASE c[p] = d[p]
  BY <1>1, <1>2, <1>5 DEF Hits
<1>6. CASE \E S : Alike(S, c[p], d[p])
  <2>1. PICK S : Alike(S, c[p], d[p])
    BY <1>6
  <2>2. Finds(rule, Normalized(d[p], rule.transforms))
    BY <1>2, <1>3, <1>4, <2>1, FindsInBoth
  <2> QED
    BY <1>1, <1>2, <2>2 DEF Hits
<1> QED
  BY <1>2, <1>5, <1>6, EitherContext

(***************************************************************************)
(* Whatever order Go ranges over the headers and the fields in, a rule     *)
(* finds the same, if its patterns lie within a header or a field, its     *)
(* matcher is exact for them, it does not normalize paths, and no field is *)
(* left out (gateway.go:368-385, 424-452).                                 *)
(***************************************************************************)
THEOREM OrderChangesNothing == Spec => []OrderBlind
<1>1. Answered => OrderBlind
  <2> SUFFICES ASSUME Answered, outcome # None, outcome.route # NoRoute,
                      NEW i \in DOMAIN engine,
                      \A p \in ToSet(engine[i].patterns) : Within(p),
                      engine[i].type = "aho" => Tame(engine[i].patterns),
                      "normalize_path" \notin engine[i].transforms,
                      Cardinality(DOMAIN outcome.request.body.fields) <= MaxFields,
                      NEW result \in Results(outcome.route, outcome.request)
               PROVE  Matched(i) <=> i \in result.matches
    BY DEF OrderBlind, Seen
  <2>1. PICK q, body :
           /\ q \in Requests /\ q = outcome.request
           /\ body = BodyRead(engine, PolicyFor(outcome.route).mode, q)
    BY DEF Answered
  <2>2. body \in {q.body, NoBody}
    BY <2>1 DEF BodyRead
  <2>3. PICK c \in Contexts(q, body) : outcome.result = Evaluate(engine, c)
    BY <2>1 DEF Answered, Results
  <2>4. PICK d \in Contexts(q, body) : result = Evaluate(engine, d)
    BY <2>1 DEF Results
  <2>5. outcome.result.matches = Hits(engine, c) /\ result.matches = Hits(engine, d)
    BY <2>3, <2>4 DEF Evaluate, Scored
  <2>6. i \in Hits(engine, c) => i \in Hits(engine, d)
    BY <2>1, <2>2, EitherFinds
  <2>7. i \in Hits(engine, d) => i \in Hits(engine, c)
    BY <2>1, <2>2, EitherFinds
  <2> QED
    BY <2>5, <2>6, <2>7 DEF Matched
<1> QED
  BY <1>1, AnsweredOnTheWay, PTL
-----------------------------------------------------------------------------
\* What a fold gives for each set of the places of s, the greatest last.
Folded(S, F, base, s, f) ==
    f = [x \in S |-> IF x = {} THEN base ELSE F[<<f[x \ {Max(x)}], s[Max(x)]>>]]

LEMMA FoldLonger ==
    ASSUME NEW T, NEW E, NEW F \in [T \X E -> T], NEW base \in T,
           NEW n \in Nat, NEW s \in [1..n -> E], NEW k \in 0..(n - 1),
           NEW f \in [SUBSET (1..k) -> T], Folded(SUBSET (1..k), F, base, s, f)
    PROVE  \E g \in [SUBSET (1..(k + 1)) -> T] : Folded(SUBSET (1..(k + 1)), F, base, s, g)
<1> k \in Nat /\ k + 1 \in 1..n
  OBVIOUS
<1>1. PICK g : g = [x \in SUBSET (1..(k + 1)) |->
                       IF k + 1 \in x THEN F[<<f[x \ {k + 1}], s[k + 1]>>] ELSE f[x]]
  OBVIOUS
<1>2. \A x \in SUBSET (1..(k + 1)) :
         /\ x \ {k + 1} \in SUBSET (1..k)
         /\ k + 1 \notin x => x \in SUBSET (1..k)
  OBVIOUS
<1>3. \A x \in SUBSET (1..(k + 1)) : g[x] \in T
  <2> SUFFICES ASSUME NEW x \in SUBSET (1..(k + 1)) PROVE g[x] \in T
    OBVIOUS
  <2>1. CASE k + 1 \in x
    <3>1. f[x \ {k + 1}] \in T /\ s[k + 1] \in E
      BY <1>2
    <3>2. g[x] = F[<<f[x \ {k + 1}], s[k + 1]>>]
      BY <1>1, <2>1
    <3> QED
      BY <3>1, <3>2
  <2>2. CASE k + 1 \notin x
    BY <1>1, <1>2, <2>2
  <2> QED
    BY <2>1, <2>2
<1>4. \A x \in SUBSET (1..k) : g[x] = f[x]
  <2> SUFFICES ASSUME NEW x \in SUBSET (1..k) PROVE g[x] = f[x]
    OBVIOUS
  <2>1. k + 1 \notin x /\ x \in SUBSET (1..(k + 1))
    OBVIOUS
  <2> QED
    BY <1>1, <2>1
<1>5. ASSUME NEW x \in SUBSET (1..(k + 1))
      PROVE  g[x] = IF x = {} THEN base ELSE F[<<g[x \ {Max(x)}], s[Max(x)]>>]
  <2>1. CASE k + 1 \in x
    <3>1. x \in SUBSET Nat /\ \A y \in x : y <= k + 1
      OBVIOUS
    <3>2. Max(x) = k + 1
      BY <2>1, <3>1, GreatestIs
    <3>3. g[x \ {k + 1}] = f[x \ {k + 1}]
      BY <1>2, <1>4
    <3>4. g[x] = F[<<f[x \ {k + 1}], s[k + 1]>>]
      BY <1>1, <2>1
    <3> QED
      BY <2>1, <3>2, <3>3, <3>4
  <2>2. CASE k + 1 \notin x
    <3>1. x \in SUBSET (1..k)
      BY <1>2, <2>2
    <3>2. f[x] = IF x = {} THEN base ELSE F[<<f[x \ {Max(x)}], s[Max(x)]>>]
      BY <3>1 DEF Folded
    <3>3. g[x] = f[x] /\ g[x \ {Max(x)}] = f[x \ {Max(x)}]
      BY <1>4, <3>1
    <3> QED
      BY <3>2, <3>3
  <2> QED
    BY <2>1, <2>2
<1>6. g \in [SUBSET (1..(k + 1)) -> T]
  BY <1>1, <1>3
<1>7. Folded(SUBSET (1..(k + 1)), F, base, s, g)
  BY <1>1, <1>5 DEF Folded
<1> QED
  BY <1>6, <1>7

\* So the recursion of a fold has a solution, whatever it folds.
LEMMA FoldThere ==
    ASSUME NEW T, NEW E, NEW F \in [T \X E -> T], NEW base \in T,
           NEW n \in Nat, NEW s \in [1..n -> E]
    PROVE  \E f \in [SUBSET (1..n) -> T] : Folded(SUBSET (1..n), F, base, s, f)
<1> DEFINE There(k) == \E f \in [SUBSET (1..k) -> T] : Folded(SUBSET (1..k), F, base, s, f)
<1>1. There(0)
  <2>1. PICK f : f = [x \in SUBSET (1..0) |-> base]
    OBVIOUS
  <2>2. \A x \in SUBSET (1..0) : x = {}
    OBVIOUS
  <2>3. f \in [SUBSET (1..0) -> T]
    BY <2>1
  <2>4. Folded(SUBSET (1..0), F, base, s, f)
    BY <2>1, <2>2 DEF Folded
  <2> QED
    BY <2>3, <2>4
<1>2. ASSUME NEW k \in 0..(n - 1), There(k) PROVE There(k + 1)
  BY <1>2, FoldLonger
<1> HIDE DEF There
<1>3. PICK Bad : Bad = {k \in 0..n : ~There(k)}
  OBVIOUS
<1>4. CASE Bad = {}
  <2>1. There(n)
    BY <1>3, <1>4
  <2> QED
    BY <2>1 DEF There
<1>5. CASE Bad # {}
  <2>1. Bad \in SUBSET Nat
    BY <1>3
  <2>2. PICK k \in Bad : \A l \in Bad : k <= l
    BY <1>5, <2>1, Least
  <2>3. k \in 0..n /\ k # 0 /\ ~There(k)
    BY <1>1, <1>3, <2>2
  <2>4. k - 1 \in 0..(n - 1) /\ k - 1 \notin Bad /\ k - 1 + 1 = k
    BY <2>2, <2>3
  <2>5. There(k - 1)
    BY <1>3, <2>4
  <2> QED
    BY <1>2, <2>3, <2>4, <2>5
<1> QED
  BY <1>4, <1>5

\* What a fold gives after each place of s, if op is F.
Stepped(F, base, s, n, g) ==
    /\ g[0] = base
    /\ \A k \in 1..n : g[k] = F[<<g[k - 1], s[k]>>]

\* A fold takes one place after the other.
LEMMA FoldSteps ==
    ASSUME NEW T, NEW E, NEW F \in [T \X E -> T], NEW base \in T,
           NEW n \in Nat, NEW s \in [1..n -> E]
    PROVE  \E f \in [SUBSET (1..n) -> T], g \in [0..n -> T] :
              /\ Folded(SUBSET (1..n), F, base, s, f)
              /\ g[n] = f[1..n] /\ Stepped(F, base, s, n, g)
<1>1. PICK f \in [SUBSET (1..n) -> T] : Folded(SUBSET (1..n), F, base, s, f)
  BY FoldThere
<1>2. PICK g : g = [k \in 0..n |-> f[1..k]]
  OBVIOUS
<1>3. \A k \in 0..n : 1..k \in SUBSET (1..n)
  OBVIOUS
<1>4. g \in [0..n -> T]
  BY <1>2, <1>3
<1>5. g[0] = base
  <2>1. 1..0 = {} /\ 0 \in 0..n /\ {} \in SUBSET (1..n)
    OBVIOUS
  <2>2. f[{}] = base
    BY <1>1, <2>1 DEF Folded
  <2> QED
    BY <1>2, <2>1, <2>2
<1>6. ASSUME NEW k \in 1..n PROVE g[k] = F[<<g[k - 1], s[k]>>]
  <2>1. k \in Nat /\ k \in 1..k /\ k - 1 \in 0..n /\ k \in 0..n
    OBVIOUS
  <2>5. 1..k \in SUBSET Nat /\ 1..k # {}
    <3>1. \A y \in 1..k : y \in Nat
      BY <2>1
    <3>2. 1..k # {}
      BY <2>1
    <3> QED
      BY <3>1, <3>2, Zenon
  <2>6. \A y \in 1..k : y <= k
    BY <2>1
  <2>4. (1..k) \ {k} = 1..(k - 1)
    OBVIOUS
  <2>2. Max(1..k) = k
    BY <2>1, <2>5, <2>6, GreatestIs
  <2>3. f[1..k] = F[<<f[1..(k - 1)], s[k]>>]
    BY <1>1, <1>3, <2>1, <2>2, <2>4, <2>5 DEF Folded
  <2> QED
    BY <1>2, <2>1, <2>3
<1>7. g[n] = f[1..n]
  BY <1>2
<1>8. Stepped(F, base, s, n, g)
  BY <1>5, <1>6 DEF Stepped
<1> QED
  BY <1>1, <1>4, <1>7, <1>8

\* Two solutions that agree on a step agree on the whole.
LEMMA FoldsAgree ==
    ASSUME NEW n \in Nat, NEW f, NEW h, f[{}] = h[{}],
           \A x \in SUBSET (1..n) : x # {} /\ f[x \ {Max(x)}] = h[x \ {Max(x)}] => f[x] = h[x]
    PROVE  f[1..n] = h[1..n]
<1>1. SUFFICES ASSUME f[1..n] # h[1..n] PROVE FALSE
  OBVIOUS
<1>2. PICK Bad : Bad = {k \in 0..n : f[1..k] # h[1..k]}
  OBVIOUS
<1>3. Bad \in SUBSET Nat /\ n \in Bad
  BY <1>1, <1>2
<1>4. PICK k \in Bad : \A l \in Bad : k <= l
  BY <1>3, Least
<1>5. k \in 0..n /\ f[1..k] # h[1..k]
  BY <1>2, <1>4
<1>6. k # 0
  <2>1. 1..0 = {}
    OBVIOUS
  <2> QED
    BY <1>5, <2>1
<1>7. k - 1 \in 0..n /\ k - 1 \notin Bad
  BY <1>4, <1>5, <1>6
<1>8. f[1..(k - 1)] = h[1..(k - 1)]
  BY <1>2, <1>7
<1>9. /\ 1..k \in SUBSET (1..n) /\ 1..k \in SUBSET Nat /\ k \in 1..k /\ 1..k # {}
      /\ \A y \in 1..k : y <= k
  BY <1>5, <1>6
<1>10. (1..k) \ {k} = 1..(k - 1) /\ Max(1..k) = k
  <2>1. (1..k) \ {k} = 1..(k - 1)
    BY <1>5, <1>6
  <2> QED
    BY <1>9, <2>1, GreatestIs
<1> QED
  BY <1>5, <1>8, <1>9, <1>10

\* What holds at the start, and after a place if before it, holds throughout.
LEMMA AlongRun ==
    ASSUME NEW n \in Nat, NEW Good, 0 \in Good, \A k \in 1..n : k - 1 \in Good => k \in Good
    PROVE  \A k \in 0..n : k \in Good
<1>1. SUFFICES ASSUME NEW l \in 0..n, l \notin Good PROVE FALSE
  OBVIOUS
<1>2. PICK Bad : Bad = {k \in 0..n : k \notin Good}
  OBVIOUS
<1>3. Bad \in SUBSET Nat /\ l \in Bad
  BY <1>1, <1>2
<1>4. PICK k \in Bad : \A m \in Bad : k <= m
  BY <1>3, Least
<1>5. k \in 0..n /\ k # 0 /\ k \notin Good
  BY <1>2, <1>4
<1>6. k \in 1..n /\ k - 1 \in 0..n /\ k - 1 \notin Bad
  BY <1>4, <1>5
<1>7. k - 1 \in Good
  BY <1>2, <1>6
<1> QED
  BY <1>5, <1>6, <1>7

\* Texts without a slash, at least one.
Parted(S) == Seq(Seq(S \ {Slash})) \ {<<>>}

\* A sequence is its front and its last element.
LEMMA FrontLast ==
    ASSUME NEW X, NEW s \in Seq(X), s # <<>>
    PROVE  /\ Front(s) \in Seq(X) /\ Last(s) \in X /\ Len(Front(s)) = Len(s) - 1
           /\ \A i \in 1..(Len(s) - 1) : Front(s)[i] = s[i]
           /\ s = Append(Front(s), Last(s))
<1>1. Len(s) \in Nat /\ Len(s) # 0
  OBVIOUS
<1>2. Last(s) \in X
  BY <1>1 DEF Last
<1>3. PICK r : r = Front(s)
  OBVIOUS
<1>6. PICK n \in Nat : n = Len(s) - 1 /\ Len(s) = n + 1
  BY <1>1
<1>7. r = SubSeq(s, 1, n) /\ \A i \in 1..n : s[i] \in X
  BY <1>3, <1>6 DEF Front
<1>4. r \in Seq(X) /\ Len(r) = Len(s) - 1 /\ \A i \in 1..(Len(s) - 1) : r[i] = s[i]
  <2>1. r \in Seq(X)
    BY <1>6, <1>7
  <2>2. Len(r) = n
    BY <1>6, <1>7
  <2>3. \A i \in 1..n : r[i] = s[i]
    BY <1>6, <1>7
  <2> QED
    BY <1>6, <2>1, <2>2, <2>3
<1>5. s = Append(r, Last(s))
  BY <1>1, <1>2, <1>4 DEF Last
<1> QED
  BY <1>2, <1>3, <1>4, <1>5

\* A sequence and one element more.
LEMMA OneMore ==
    ASSUME NEW X, NEW s \in Seq(X), NEW a \in X
    PROVE  /\ s \o <<a>> = Append(s, a) /\ Append(s, a) \in Seq(X) /\ Append(s, a) # <<>>
           /\ Front(Append(s, a)) = s /\ Last(Append(s, a)) = a
<1>1. Len(s) \in Nat /\ Append(s, a) \in Seq(X) /\ Len(Append(s, a)) = Len(s) + 1
  OBVIOUS
<1>2. s \o <<a>> = Append(s, a)
  OBVIOUS
<1>3. Append(s, a) # <<>>
  BY <1>1
<1>4. Last(Append(s, a)) = a
  BY <1>1 DEF Last
<1>5. Front(Append(s, a)) = s
  BY <1>1 DEF Front
<1> QED
  BY <1>1, <1>2, <1>3, <1>4, <1>5

\* One more character goes to the last segment, or begins another.
LEMMA AddedParts ==
    ASSUME NEW S, NEW parts \in Parted(S), NEW e \in S
    PROVE  /\ Added(parts, e) \in Parted(S)
           /\ Added(parts, e) = IF e = Slash THEN Append(parts, <<>>)
                                ELSE Append(Front(parts), Append(Last(parts), e))
<1>1. parts \in Seq(Seq(S \ {Slash})) /\ parts # <<>>
  BY DEF Parted
<1>2. CASE e = Slash
  <2>1. <<>> \in Seq(S \ {Slash})
    OBVIOUS
  <2>2. Append(parts, <<>>) \in Seq(Seq(S \ {Slash})) /\ Append(parts, <<>>) # <<>>
    BY <1>1, <2>1, OneMore
  <2> QED
    BY <1>2, <2>2 DEF Added, Parted
<1>3. CASE e # Slash
  <2>1. Front(parts) \in Seq(Seq(S \ {Slash})) /\ Last(parts) \in Seq(S \ {Slash})
    BY <1>1, FrontLast
  <2>2. Append(Last(parts), e) \in Seq(S \ {Slash})
    BY <1>3, <2>1, OneMore
  <2>3. /\ Front(parts) \o <<Append(Last(parts), e)>> = Append(Front(parts), Append(Last(parts), e))
        /\ Append(Front(parts), Append(Last(parts), e)) \in Seq(Seq(S \ {Slash}))
        /\ Append(Front(parts), Append(Last(parts), e)) # <<>>
    BY <2>1, <2>2, OneMore
  <2> QED
    BY <1>3, <2>3 DEF Added, Parted
<1> QED
  BY <1>2, <1>3

\* Segments takes one character after the other.
LEMMA SegmentsStep ==
    ASSUME NEW S, NEW t \in Seq(S)
    PROVE  \E g \in [0..Len(t) -> Parted(S)] :
              /\ g[0] = <<<<>>>> /\ g[Len(t)] = Segments(t)
              /\ \A k \in 1..Len(t) : g[k] = Added(g[k - 1], t[k])
<1>1. PICK n \in Nat : n = Len(t) /\ DOMAIN t = 1..n /\ t \in [1..n -> S]
  OBVIOUS
<1>2. PICK T : T = Parted(S)
  OBVIOUS
<1>3. PICK F : F = [x \in T \X S |-> Added(x[1], x[2])]
  OBVIOUS
<1>4. F \in [T \X S -> T]
  BY <1>2, <1>3, AddedParts
<1>14. PICK base : base = <<<<>>>>
  OBVIOUS
<1>5. base \in T
  BY <1>2, <1>14 DEF Parted
<1>6. PICK f \in [SUBSET (1..n) -> T], g \in [0..n -> T] :
         /\ Folded(SUBSET (1..n), F, base, t, f)
         /\ g[n] = f[1..n] /\ Stepped(F, base, t, n, g)
  <2>1. t \in [1..n -> S] /\ n \in Nat
    BY <1>1
  <2>2. \A s \in [1..n -> S] : \E f \in [SUBSET (1..n) -> T], g \in [0..n -> T] :
              /\ Folded(SUBSET (1..n), F, base, s, f)
              /\ g[n] = f[1..n] /\ Stepped(F, base, s, n, g)
    BY <1>4, <1>5, FoldSteps
  <2> QED
    BY <2>1, <2>2
<1>7. \A u \in T, e \in S : F[<<u, e>>] = Added(u, e)
  BY <1>3
<1>8. \A x \in SUBSET (1..n) :
         f[x] = IF x = {} THEN base ELSE Added(f[x \ {Max(x)}], t[Max(x)])
  <2> SUFFICES ASSUME NEW x \in SUBSET (1..n), x # {}
               PROVE  f[x] = Added(f[x \ {Max(x)}], t[Max(x)])
    BY <1>6 DEF Folded
  <2>1. Max(x) \in 1..n
    BY GreatestIn
  <2>2. x \ {Max(x)} \in SUBSET (1..n) /\ f[x \ {Max(x)}] \in T /\ t[Max(x)] \in S
    BY <1>1, <2>1
  <2> QED
    BY <1>6, <1>7, <2>2 DEF Folded
<1>9. PICK h : h = CHOOSE r : r = [x \in SUBSET (1..n) |->
                     IF x = {} THEN base ELSE Added(r[x \ {Max(x)}], t[Max(x)])]
  OBVIOUS
<1>10. h = [x \in SUBSET (1..n) |->
               IF x = {} THEN base ELSE Added(h[x \ {Max(x)}], t[Max(x)])]
  <2>1. f = [x \in SUBSET (1..n) |->
               IF x = {} THEN base ELSE Added(f[x \ {Max(x)}], t[Max(x)])]
    BY <1>8
  <2> QED
    BY <1>9, <2>1, Zenon
<1>11. f[1..n] = h[1..n]
  <2>1. {} \in SUBSET (1..n)
    OBVIOUS
  <2>2. f[{}] = h[{}]
    BY <1>8, <1>10, <2>1
  <2>3. \A x \in SUBSET (1..n) : x # {} /\ f[x \ {Max(x)}] = h[x \ {Max(x)}] => f[x] = h[x]
    BY <1>8, <1>10
  <2> QED
    BY <2>2, <2>3, FoldsAgree
<1>12. Segments(t) = h[1..n]
  BY <1>1, <1>9, <1>14 DEF Segments, FoldLeft, MapThenFoldSet
<1>13. \A k \in 1..n : g[k] = Added(g[k - 1], t[k])
  <2> SUFFICES ASSUME NEW k \in 1..n PROVE g[k] = Added(g[k - 1], t[k])
    OBVIOUS
  <2>1. k - 1 \in 0..n /\ g[k - 1] \in T /\ t[k] \in S
    BY <1>1
  <2> QED
    BY <1>6, <1>7, <2>1 DEF Stepped
<1> QED
  BY <1>1, <1>2, <1>6, <1>11, <1>12, <1>13, <1>14 DEF Stepped

\* What is no way up or to where one is.
Named(W) == {p \in W : p \notin {<<>>, Dot, Dots}}

\* Only names are kept.
LEMMA KeptNames ==
    ASSUME NEW W, NEW stack \in Seq(Named(W)), NEW p \in W
    PROVE  Kept(stack, p) \in Seq(Named(W))
<1>1. CASE p \in Named(W)
  <2>1. Append(stack, p) \in Seq(Named(W))
    BY <1>1, OneMore
  <2>2. Kept(stack, p) = Append(stack, p)
    BY <1>1 DEF Kept, Named
  <2> QED
    BY <2>1, <2>2
<1>2. CASE p \notin Named(W) /\ p # Dots
  BY <1>2 DEF Kept, Named
<1>3. CASE p = Dots
  <2>1. Dots # <<>> /\ Dots # Dot
    BY DEF Dot, Dots
  <2>2. Kept(stack, p) = IF stack = <<>> THEN <<>> ELSE Front(stack)
    BY <1>3, <2>1 DEF Kept
  <2>3. stack # <<>> => Front(stack) \in Seq(Named(W))
    BY FrontLast
  <2> QED
    BY <2>2, <2>3
<1> QED
  BY <1>1, <1>2, <1>3

\* Followed takes one segment after the other.
LEMMA FollowedStep ==
    ASSUME NEW W, NEW t \in Seq(W)
    PROVE  \E g \in [0..Len(t) -> Seq(Named(W))] :
              /\ g[0] = <<>> /\ g[Len(t)] = Followed(t)
              /\ \A k \in 1..Len(t) : g[k] = Kept(g[k - 1], t[k])
<1>1. PICK n \in Nat : n = Len(t) /\ DOMAIN t = 1..n /\ t \in [1..n -> W]
  OBVIOUS
<1>2. PICK T : T = Seq(Named(W))
  OBVIOUS
<1>3. PICK F : F = [x \in T \X W |-> Kept(x[1], x[2])]
  OBVIOUS
<1>4. F \in [T \X W -> T]
  BY <1>2, <1>3, KeptNames
<1>14. PICK base : base = <<>>
  OBVIOUS
<1>5. base \in T
  BY <1>2, <1>14
<1>6. PICK f \in [SUBSET (1..n) -> T], g \in [0..n -> T] :
         /\ Folded(SUBSET (1..n), F, base, t, f)
         /\ g[n] = f[1..n] /\ Stepped(F, base, t, n, g)
  <2>1. t \in [1..n -> W] /\ n \in Nat
    BY <1>1
  <2>2. \A s \in [1..n -> W] : \E f \in [SUBSET (1..n) -> T], g \in [0..n -> T] :
              /\ Folded(SUBSET (1..n), F, base, s, f)
              /\ g[n] = f[1..n] /\ Stepped(F, base, s, n, g)
    BY <1>4, <1>5, FoldSteps
  <2> QED
    BY <2>1, <2>2
<1>7. \A u \in T, e \in W : F[<<u, e>>] = Kept(u, e)
  BY <1>3
<1>8. \A x \in SUBSET (1..n) :
         f[x] = IF x = {} THEN base ELSE Kept(f[x \ {Max(x)}], t[Max(x)])
  <2> SUFFICES ASSUME NEW x \in SUBSET (1..n), x # {}
               PROVE  f[x] = Kept(f[x \ {Max(x)}], t[Max(x)])
    BY <1>6 DEF Folded
  <2>1. Max(x) \in 1..n
    BY GreatestIn
  <2>2. x \ {Max(x)} \in SUBSET (1..n) /\ f[x \ {Max(x)}] \in T /\ t[Max(x)] \in W
    BY <1>1, <2>1
  <2> QED
    BY <1>6, <1>7, <2>2 DEF Folded
<1>9. PICK h : h = CHOOSE r : r = [x \in SUBSET (1..n) |->
                     IF x = {} THEN base ELSE Kept(r[x \ {Max(x)}], t[Max(x)])]
  OBVIOUS
<1>10. h = [x \in SUBSET (1..n) |->
               IF x = {} THEN base ELSE Kept(h[x \ {Max(x)}], t[Max(x)])]
  <2>1. f = [x \in SUBSET (1..n) |->
               IF x = {} THEN base ELSE Kept(f[x \ {Max(x)}], t[Max(x)])]
    BY <1>8
  <2> QED
    BY <1>9, <2>1, Zenon
<1>11. f[1..n] = h[1..n]
  <2>1. {} \in SUBSET (1..n)
    OBVIOUS
  <2>2. f[{}] = h[{}]
    BY <1>8, <1>10, <2>1
  <2>3. \A x \in SUBSET (1..n) : x # {} /\ f[x \ {Max(x)}] = h[x \ {Max(x)}] => f[x] = h[x]
    BY <1>8, <1>10
  <2> QED
    BY <2>2, <2>3, FoldsAgree
<1>12. Followed(t) = h[1..n]
  BY <1>1, <1>9, <1>14 DEF Followed, FoldLeft, MapThenFoldSet
<1>13. \A k \in 1..n : g[k] = Kept(g[k - 1], t[k])
  <2> SUFFICES ASSUME NEW k \in 1..n PROVE g[k] = Kept(g[k - 1], t[k])
    OBVIOUS
  <2>1. k - 1 \in 0..n /\ g[k - 1] \in T /\ t[k] \in W
    BY <1>1
  <2> QED
    BY <1>6, <1>7, <2>1 DEF Stepped
<1> QED
  BY <1>1, <1>2, <1>6, <1>11, <1>12, <1>13, <1>14 DEF Stepped

\* Two texts with a slash between them.
LEMMA StrungText ==
    ASSUME NEW S, Slash \in S, NEW t \in Seq(S), NEW p \in Seq(S)
    PROVE  Strung(t, p) \in Seq(S)
<1>1. <<Slash>> \in Seq(S)
  OBVIOUS
<1>2. t \o <<Slash>> \in Seq(S)
  BY <1>1
<1>3. t \o <<Slash>> \o p \in Seq(S)
  BY <1>2
<1> QED
  BY <1>3 DEF Strung

\* Joined takes one segment after the other.
LEMMA JoinedStep ==
    ASSUME NEW S, Slash \in S, NEW t \in Seq(Seq(S))
    PROVE  \E g \in [0..Len(t) -> Seq(S)] :
              /\ g[0] = <<>> /\ g[Len(t)] = Joined(t)
              /\ \A k \in 1..Len(t) : g[k] = Strung(g[k - 1], t[k])
<1>1. PICK n \in Nat : n = Len(t) /\ DOMAIN t = 1..n /\ t \in [1..n -> Seq(S)]
  OBVIOUS
<1>2. PICK T : T = Seq(S)
  OBVIOUS
<1>3. PICK F : F = [x \in T \X Seq(S) |-> Strung(x[1], x[2])]
  OBVIOUS
<1>4. F \in [T \X Seq(S) -> T]
  BY <1>2, <1>3, StrungText
<1>14. PICK base : base = <<>>
  OBVIOUS
<1>5. base \in T
  BY <1>2, <1>14
<1>6. PICK f \in [SUBSET (1..n) -> T], g \in [0..n -> T] :
         /\ Folded(SUBSET (1..n), F, base, t, f)
         /\ g[n] = f[1..n] /\ Stepped(F, base, t, n, g)
  <2>1. t \in [1..n -> Seq(S)] /\ n \in Nat
    BY <1>1
  <2>2. \A s \in [1..n -> Seq(S)] : \E f \in [SUBSET (1..n) -> T], g \in [0..n -> T] :
              /\ Folded(SUBSET (1..n), F, base, s, f)
              /\ g[n] = f[1..n] /\ Stepped(F, base, s, n, g)
    BY <1>4, <1>5, FoldSteps
  <2> QED
    BY <2>1, <2>2
<1>7. \A u \in T, e \in Seq(S) : F[<<u, e>>] = Strung(u, e)
  BY <1>3
<1>8. \A x \in SUBSET (1..n) :
         f[x] = IF x = {} THEN base ELSE Strung(f[x \ {Max(x)}], t[Max(x)])
  <2> SUFFICES ASSUME NEW x \in SUBSET (1..n), x # {}
               PROVE  f[x] = Strung(f[x \ {Max(x)}], t[Max(x)])
    BY <1>6 DEF Folded
  <2>1. Max(x) \in 1..n
    BY GreatestIn
  <2>2. x \ {Max(x)} \in SUBSET (1..n) /\ f[x \ {Max(x)}] \in T /\ t[Max(x)] \in Seq(S)
    BY <1>1, <2>1
  <2> QED
    BY <1>6, <1>7, <2>2 DEF Folded
<1>9. PICK h : h = CHOOSE r : r = [x \in SUBSET (1..n) |->
                     IF x = {} THEN base ELSE Strung(r[x \ {Max(x)}], t[Max(x)])]
  OBVIOUS
<1>10. h = [x \in SUBSET (1..n) |->
               IF x = {} THEN base ELSE Strung(h[x \ {Max(x)}], t[Max(x)])]
  <2>1. f = [x \in SUBSET (1..n) |->
               IF x = {} THEN base ELSE Strung(f[x \ {Max(x)}], t[Max(x)])]
    BY <1>8
  <2> QED
    BY <1>9, <2>1, Zenon
<1>11. f[1..n] = h[1..n]
  <2>1. {} \in SUBSET (1..n)
    OBVIOUS
  <2>2. f[{}] = h[{}]
    BY <1>8, <1>10, <2>1
  <2>3. \A x \in SUBSET (1..n) : x # {} /\ f[x \ {Max(x)}] = h[x \ {Max(x)}] => f[x] = h[x]
    BY <1>8, <1>10
  <2> QED
    BY <2>2, <2>3, FoldsAgree
<1>12. Joined(t) = h[1..n]
  BY <1>1, <1>9, <1>14 DEF Joined, FoldLeft, MapThenFoldSet
<1>13. \A k \in 1..n : g[k] = Strung(g[k - 1], t[k])
  <2> SUFFICES ASSUME NEW k \in 1..n PROVE g[k] = Strung(g[k - 1], t[k])
    OBVIOUS
  <2>1. k - 1 \in 0..n /\ g[k - 1] \in T /\ t[k] \in Seq(S)
    <3>1. k - 1 \in 0..n
      OBVIOUS
    <3>2. t[k] \in Seq(S)
      BY <1>1, Zenon
    <3> QED
      BY <3>1, <3>2
  <2> QED
    BY <1>6, <1>7, <2>1 DEF Stepped
<1> QED
  BY <1>1, <1>2, <1>6, <1>11, <1>12, <1>13, <1>14 DEF Stepped

\* The first k elements are the first k - 1 and the k-th.
LEMMA PrefixLonger ==
    ASSUME NEW X, NEW p \in Seq(X), NEW k \in 1..Len(p)
    PROVE  /\ SubSeq(p, 1, k - 1) \in Seq(X) /\ p[k] \in X
           /\ SubSeq(p, 1, k) = Append(SubSeq(p, 1, k - 1), p[k])
<1>1. k - 1 \in Nat /\ k \in Nat /\ Len(p) \in Nat /\ k <= Len(p) /\ p[k] \in X
  OBVIOUS
<1>2. PICK a : a = SubSeq(p, 1, k - 1)
  OBVIOUS
<1>3. a \in Seq(X)
  BY <1>1, <1>2
<1>4. Len(a) = k - 1
  BY <1>1, <1>2
<1>5. \A i \in 1..(k - 1) : a[i] = p[i]
  BY <1>1, <1>2
<1>6. PICK b : b = SubSeq(p, 1, k)
  OBVIOUS
<1>7. b \in Seq(X)
  BY <1>1, <1>6
<1>8. Len(b) = k
  BY <1>1, <1>6
<1>9. \A i \in 1..k : b[i] = p[i]
  BY <1>1, <1>6
<1>10. b = Append(a, p[k])
  BY <1>1, <1>3, <1>4, <1>5, <1>7, <1>8, <1>9
<1> QED
  BY <1>1, <1>2, <1>3, <1>6, <1>10

\* Where the last element of the second of two sequences goes.
LEMMA ThenOne ==
    ASSUME NEW X, NEW s \in Seq(X), NEW a \in Seq(X), NEW e \in X
    PROVE  s \o Append(a, e) = Append(s \o a, e) /\ s \o a \in Seq(X)
  OBVIOUS

\* The empty sequence adds nothing.
LEMMA ThenNone ==
    ASSUME NEW X, NEW s \in Seq(X)
    PROVE  s \o <<>> = s /\ <<>> \o s = s /\ <<>> \in Seq(X) /\ SubSeq(s, 1, Len(s)) = s
  OBVIOUS

\* What a character more does to the segments of a text.
LEMMA SegmentsAdd ==
    ASSUME NEW S, NEW t \in Seq(S), NEW e \in S
    PROVE  Segments(Append(t, e)) = Added(Segments(t), e)
<1>1. PICK n \in Nat : n = Len(t)
  OBVIOUS
<1>2. PICK u : u = Append(t, e)
  OBVIOUS
<1>3. u \in Seq(S) /\ Len(u) = n + 1 /\ u[n + 1] = e /\ \A k \in 1..n : u[k] = t[k]
  BY <1>1, <1>2
<1>4. PICK g \in [0..n -> Parted(S)] :
         /\ g[0] = <<<<>>>> /\ g[n] = Segments(t)
         /\ \A k \in 1..n : g[k] = Added(g[k - 1], t[k])
  BY <1>1, SegmentsStep
<1>5. PICK h : /\ h[0] = <<<<>>>> /\ h[n + 1] = Segments(u)
               /\ \A k \in 1..(n + 1) : h[k] = Added(h[k - 1], u[k])
  <2>1. PICK h \in [0..Len(u) -> Parted(S)] :
           /\ h[0] = <<<<>>>> /\ h[Len(u)] = Segments(u)
           /\ \A k \in 1..Len(u) : h[k] = Added(h[k - 1], u[k])
    BY <1>3, SegmentsStep
  <2> QED
    BY <1>3, <2>1
<1>6. PICK Good : Good = {k \in 0..n : h[k] = g[k]}
  OBVIOUS
<1>7. 0 \in Good
  <2>1. h[0] = g[0]
    BY <1>4, <1>5, Zenon
  <2> QED
    BY <1>6, <2>1
<1>8. ASSUME NEW k \in 1..n, k - 1 \in Good PROVE k \in Good
  <2>1. h[k - 1] = g[k - 1]
    BY <1>6, <1>8
  <2>2. h[k] = Added(h[k - 1], u[k]) /\ g[k] = Added(g[k - 1], t[k]) /\ u[k] = t[k]
    <3>1. k \in 1..n /\ k \in 1..(n + 1)
      OBVIOUS
    <3> QED
      BY <1>3, <1>4, <1>5, <3>1
  <2> QED
    BY <1>6, <2>1, <2>2
<1>9. n \in Good
  <2>1. \A k \in 1..n : k - 1 \in Good => k \in Good
    BY <1>8
  <2>2. \A k \in 0..n : k \in Good
    BY <1>7, <2>1, AlongRun
  <2> QED
    BY <2>2
<1>10. h[n + 1] = Added(h[n], e)
  BY <1>3, <1>5
<1> QED
  BY <1>2, <1>4, <1>5, <1>6, <1>9, <1>10

\* Segments have no slash.
LEMMA SegmentsType ==
    ASSUME NEW S, NEW t \in Seq(S)
    PROVE  Segments(t) \in Parted(S) /\ Segments(<<>>) = <<<<>>>>
<1>1. Segments(t) \in Parted(S)
  <2>1. PICK g \in [0..Len(t) -> Parted(S)] : g[Len(t)] = Segments(t)
    BY SegmentsStep
  <2> QED
    BY <2>1
<1>2. Segments(<<>>) = <<<<>>>>
  <2>1. <<>> \in Seq(S) /\ Len(<<>>) = 0
    OBVIOUS
  <2>2. PICK g \in [0..0 -> Parted(S)] : g[0] = <<<<>>>> /\ g[0] = Segments(<<>>)
    BY <2>1, SegmentsStep
  <2> QED
    BY <2>2
<1> QED
  BY <1>1, <1>2

\* A piece without a slash goes to the last segment.
LEMMA SegmentsPiece ==
    ASSUME NEW S, NEW t \in Seq(S), NEW p \in Seq(S \ {Slash})
    PROVE  Segments(t \o p) = Append(Front(Segments(t)), Last(Segments(t)) \o p)
<1>1. PICK R : R = Seq(S \ {Slash})
  OBVIOUS
<1>2. PICK F, L : F = Front(Segments(t)) /\ L = Last(Segments(t))
  OBVIOUS
<1>3. Segments(t) \in Seq(R) /\ Segments(t) # <<>>
  BY <1>1, SegmentsType DEF Parted
<1>4. F \in Seq(R) /\ L \in R /\ Segments(t) = Append(F, L)
  BY <1>2, <1>3, FrontLast
<1>5. PICK n \in Nat : n = Len(p)
  OBVIOUS
<1>6. PICK Good : Good = {k \in 0..n : Segments(t \o SubSeq(p, 1, k)) = Append(F, L \o SubSeq(p, 1, k))}
  OBVIOUS
<1>7. 0 \in Good
  <2>1. SubSeq(p, 1, 0) = <<>>
    OBVIOUS
  <2>2. t \o <<>> = t /\ L \o <<>> = L
    BY <1>1, <1>4, ThenNone
  <2>3. t \o SubSeq(p, 1, 0) = t /\ L \o SubSeq(p, 1, 0) = L
    BY <2>1, <2>2
  <2>4. Segments(t \o SubSeq(p, 1, 0)) = Append(F, L \o SubSeq(p, 1, 0))
    BY <1>4, <2>3
  <2> QED
    BY <1>6, <2>4
<1>8. ASSUME NEW k \in 1..n, k - 1 \in Good PROVE k \in Good
  <2>1. PICK a : a = SubSeq(p, 1, k - 1)
    OBVIOUS
  <2>2. PICK e \in S \ {Slash} : e = p[k]
    BY <1>5, PrefixLonger
  <2>3. a \in Seq(S \ {Slash}) /\ SubSeq(p, 1, k) = Append(a, e)
    BY <1>5, <2>1, <2>2, PrefixLonger
  <2>4. a \in Seq(S) /\ e \in S
    BY <2>2, <2>3
  <2>5. Segments(t \o a) = Append(F, L \o a)
    BY <1>6, <1>8, <2>1
  <2>6. t \o Append(a, e) = Append(t \o a, e) /\ t \o a \in Seq(S)
    BY <2>4, ThenOne
  <2>7. Segments(t \o Append(a, e)) = Added(Append(F, L \o a), e)
    BY <2>4, <2>5, <2>6, SegmentsAdd
  <2>8. L \o Append(a, e) = Append(L \o a, e) /\ L \o a \in R
    BY <1>1, <1>4, <2>2, <2>3, ThenOne
  <2>9. PICK l \in R : l = L \o a
    BY <2>8
  <2>10. PICK v : v = Append(F, l)
    OBVIOUS
  <2>11. v \in Seq(R) /\ v # <<>> /\ Front(v) = F /\ Last(v) = l
    <3>1. /\ Append(F, l) \in Seq(R) /\ Append(F, l) # <<>>
          /\ Front(Append(F, l)) = F /\ Last(Append(F, l)) = l
      BY <1>4, OneMore, Zenon
    <3> QED
      BY <2>10, <3>1
  <2>12. v \in Parted(S)
    BY <1>1, <2>11 DEF Parted
  <2>13. Added(v, e) = Append(F, Append(l, e))
    BY <2>2, <2>4, <2>11, <2>12, AddedParts
  <2>14. Segments(t \o SubSeq(p, 1, k)) = Append(F, L \o SubSeq(p, 1, k))
    BY <2>3, <2>7, <2>8, <2>9, <2>10, <2>13
  <2> QED
    BY <1>6, <2>14
<1>9. n \in Good
  <2>1. \A k \in 1..n : k - 1 \in Good => k \in Good
    BY <1>8
  <2>2. \A k \in 0..n : k \in Good
    BY <1>7, <2>1, AlongRun
  <2> QED
    BY <2>2
<1>10. SubSeq(p, 1, n) = p
  BY <1>5, ThenNone
<1> QED
  BY <1>2, <1>6, <1>9, <1>10

\* A slash begins a segment.
LEMMA SegmentsAfter ==
    ASSUME NEW S, NEW t \in Seq(S), NEW p \in Seq(S \ {Slash}), Slash \in S
    PROVE  /\ Segments(Append(t, Slash)) = Append(Segments(t), <<>>)
           /\ Segments(Append(t, Slash) \o p) = Append(Segments(t), p)
<1>1. PICK R : R = Seq(S \ {Slash})
  OBVIOUS
<1>2. Segments(t) \in Seq(R) /\ Segments(t) \in Parted(S) /\ <<>> \in R
  BY <1>1, SegmentsType DEF Parted
<1>3. PICK u : u = Append(t, Slash)
  OBVIOUS
<1>4. u \in Seq(S)
  BY <1>3
<1>5. Segments(u) = Append(Segments(t), <<>>)
  BY <1>2, <1>3, SegmentsAdd, AddedParts
<1>6. Front(Segments(u)) = Segments(t) /\ Last(Segments(u)) = <<>>
  BY <1>2, <1>5, OneMore
<1>7. <<>> \o p = p
  BY ThenNone
<1>8. Segments(u \o p) = Append(Segments(t), p)
  BY <1>4, <1>6, <1>7, SegmentsPiece
<1> QED
  BY <1>3, <1>5, <1>8

\* What a segment more does to those that remain.
LEMMA FollowedAdd ==
    ASSUME NEW W, NEW t \in Seq(W), NEW e \in W
    PROVE  Followed(Append(t, e)) = Kept(Followed(t), e)
<1>1. PICK n \in Nat : n = Len(t)
  OBVIOUS
<1>2. PICK u : u = Append(t, e)
  OBVIOUS
<1>3. u \in Seq(W) /\ Len(u) = n + 1 /\ u[n + 1] = e /\ \A k \in 1..n : u[k] = t[k]
  BY <1>1, <1>2
<1>4. PICK g \in [0..n -> Seq(Named(W))] :
         /\ g[0] = <<>> /\ g[n] = Followed(t)
         /\ \A k \in 1..n : g[k] = Kept(g[k - 1], t[k])
  BY <1>1, FollowedStep
<1>5. PICK h : /\ h[0] = <<>> /\ h[n + 1] = Followed(u)
               /\ \A k \in 1..(n + 1) : h[k] = Kept(h[k - 1], u[k])
  <2>1. PICK h \in [0..Len(u) -> Seq(Named(W))] :
           /\ h[0] = <<>> /\ h[Len(u)] = Followed(u)
           /\ \A k \in 1..Len(u) : h[k] = Kept(h[k - 1], u[k])
    BY <1>3, FollowedStep
  <2> QED
    BY <1>3, <2>1
<1>6. PICK Good : Good = {k \in 0..n : h[k] = g[k]}
  OBVIOUS
<1>7. 0 \in Good
  <2>1. h[0] = g[0]
    BY <1>4, <1>5, Zenon
  <2> QED
    BY <1>6, <2>1
<1>8. ASSUME NEW k \in 1..n, k - 1 \in Good PROVE k \in Good
  <2>1. h[k - 1] = g[k - 1]
    BY <1>6, <1>8
  <2>2. h[k] = Kept(h[k - 1], u[k]) /\ g[k] = Kept(g[k - 1], t[k]) /\ u[k] = t[k]
    <3>1. k \in 1..n /\ k \in 1..(n + 1)
      OBVIOUS
    <3> QED
      BY <1>3, <1>4, <1>5, <3>1
  <2> QED
    BY <1>6, <2>1, <2>2
<1>9. n \in Good
  <2>1. \A k \in 1..n : k - 1 \in Good => k \in Good
    BY <1>8
  <2>2. \A k \in 0..n : k \in Good
    BY <1>7, <2>1, AlongRun
  <2> QED
    BY <2>2
<1>10. h[n + 1] = Kept(h[n], e)
  BY <1>3, <1>5
<1> QED
  BY <1>2, <1>4, <1>5, <1>6, <1>9, <1>10

\* What a segment more does to the joined text.
LEMMA JoinedAdd ==
    ASSUME NEW S, Slash \in S, NEW t \in Seq(Seq(S)), NEW e \in Seq(S)
    PROVE  Joined(Append(t, e)) = Strung(Joined(t), e)
<1>1. PICK n \in Nat : n = Len(t)
  OBVIOUS
<1>2. PICK u : u = Append(t, e)
  OBVIOUS
<1>3. u \in Seq(Seq(S)) /\ Len(u) = n + 1 /\ u[n + 1] = e /\ \A k \in 1..n : u[k] = t[k]
  BY <1>1, <1>2
<1>4. PICK g \in [0..n -> Seq(S)] :
         /\ g[0] = <<>> /\ g[n] = Joined(t)
         /\ \A k \in 1..n : g[k] = Strung(g[k - 1], t[k])
  BY <1>1, JoinedStep
<1>5. PICK h : /\ h[0] = <<>> /\ h[n + 1] = Joined(u)
               /\ \A k \in 1..(n + 1) : h[k] = Strung(h[k - 1], u[k])
  <2>1. PICK h \in [0..Len(u) -> Seq(S)] :
           /\ h[0] = <<>> /\ h[Len(u)] = Joined(u)
           /\ \A k \in 1..Len(u) : h[k] = Strung(h[k - 1], u[k])
    BY <1>3, JoinedStep
  <2> QED
    BY <1>3, <2>1
<1>6. PICK Good : Good = {k \in 0..n : h[k] = g[k]}
  OBVIOUS
<1>7. 0 \in Good
  <2>1. h[0] = g[0]
    BY <1>4, <1>5, Zenon
  <2> QED
    BY <1>6, <2>1
<1>8. ASSUME NEW k \in 1..n, k - 1 \in Good PROVE k \in Good
  <2>1. h[k - 1] = g[k - 1]
    BY <1>6, <1>8
  <2>2. h[k] = Strung(h[k - 1], u[k]) /\ g[k] = Strung(g[k - 1], t[k]) /\ u[k] = t[k]
    <3>1. k \in 1..n /\ k \in 1..(n + 1)
      OBVIOUS
    <3> QED
      BY <1>3, <1>4, <1>5, <3>1
  <2> QED
    BY <1>6, <2>1, <2>2
<1>9. n \in Good
  <2>1. \A k \in 1..n : k - 1 \in Good => k \in Good
    BY <1>8
  <2>2. \A k \in 0..n : k \in Good
    BY <1>7, <2>1, AlongRun
  <2> QED
    BY <2>2
<1>10. h[n + 1] = Strung(h[n], e)
  BY <1>3, <1>5
<1> QED
  BY <1>2, <1>4, <1>5, <1>6, <1>9, <1>10

\* What remains are names.
LEMMA FollowedType ==
    ASSUME NEW W, NEW t \in Seq(W)
    PROVE  Followed(t) \in Seq(Named(W)) /\ Followed(<<>>) = <<>>
<1>1. Followed(t) \in Seq(Named(W))
  <2>1. PICK g \in [0..Len(t) -> Seq(Named(W))] : g[Len(t)] = Followed(t)
    BY FollowedStep
  <2> QED
    BY <2>1
<1>2. Followed(<<>>) = <<>>
  <2>1. <<>> \in Seq(W) /\ Len(<<>>) = 0
    OBVIOUS
  <2>2. PICK g \in [0..0 -> Seq(Named(W))] : g[0] = <<>> /\ g[0] = Followed(<<>>)
    BY <2>1, FollowedStep
  <2> QED
    BY <2>2
<1> QED
  BY <1>1, <1>2

\* Joined texts are a text.
LEMMA JoinedType ==
    ASSUME NEW S, Slash \in S, NEW t \in Seq(Seq(S))
    PROVE  Joined(t) \in Seq(S) /\ Joined(<<>>) = <<>>
<1>1. Joined(t) \in Seq(S)
  <2>1. PICK g \in [0..Len(t) -> Seq(S)] : g[Len(t)] = Joined(t)
    BY JoinedStep
  <2>2. Len(t) \in 0..Len(t)
    <3>1. Len(t) \in Nat
      OBVIOUS
    <3> QED
      BY <3>1
  <2> QED
    BY <2>1, <2>2
<1>2. Joined(<<>>) = <<>>
  <2>1. <<>> \in Seq(Seq(S)) /\ Len(<<>>) = 0
    OBVIOUS
  <2>2. PICK g \in [0..0 -> Seq(S)] : g[0] = <<>> /\ g[0] = Joined(<<>>)
    BY <2>1, JoinedStep
  <2> QED
    BY <2>2
<1> QED
  BY <1>1, <1>2

\* What names, after a slash or not, are split into: an empty segment first, or not.
Lead(pre) == IF pre = <<>> THEN <<>> ELSE <<<<>>>>

\* One element alone.
LEMMA Lone ==
    ASSUME NEW X, NEW a \in X
    PROVE  <<a>> \in Seq(X) /\ <<a>> = Append(<<>>, a)
  OBVIOUS

\* An empty segment is one.
LEMMA LeadType ==
    ASSUME NEW S, NEW pre
    PROVE  Lead(pre) \in Seq(Seq(S \ {Slash}))
<1>1. PICK R : R = Seq(S \ {Slash})
  OBVIOUS
<1>2. <<>> \in R
  BY <1>1, ThenNone
<1>3. <<>> \in Seq(R) /\ <<<<>>>> \in Seq(R)
  BY <1>2, Lone, ThenNone
<1> QED
  BY <1>1, <1>3 DEF Lead

\* The first name of a path, with or without a slash before it.
LEMMA SegmentsFirst ==
    ASSUME NEW S, Slash \in S, NEW pre \in {<<>>, <<Slash>>}, NEW p \in Seq(S \ {Slash})
    PROVE  Segments(pre \o p) = Append(Lead(pre), p)
<1>1. <<>> \in Seq(S) /\ Segments(<<>>) = <<<<>>>>
  BY SegmentsType, ThenNone
<1>2. CASE pre = <<>>
  <2>1. Segments(<<>> \o p) = Append(Front(<<<<>>>>), Last(<<<<>>>>) \o p)
    BY <1>1, SegmentsPiece
  <2>2. Front(<<<<>>>>) = <<>>
    BY DEF Front
  <2>3. Last(<<<<>>>>) = <<>>
    BY DEF Last
  <2>4. <<>> \o p = p
    BY ThenNone
  <2>5. Segments(p) = Append(<<>>, p)
    BY <2>1, <2>2, <2>3, <2>4
  <2> QED
    BY <1>2, <2>4, <2>5 DEF Lead
<1>3. CASE pre = <<Slash>>
  <2>1. Segments(Append(<<>>, Slash) \o p) = Append(Segments(<<>>), p)
    BY <1>1, SegmentsAfter
  <2>2. Append(<<>>, Slash) = <<Slash>>
    OBVIOUS
  <2>3. pre # <<>>
    BY <1>3
  <2>4. Lead(pre) = <<<<>>>>
    BY <2>3 DEF Lead
  <2> QED
    BY <1>1, <1>3, <2>1, <2>2, <2>4
<1> QED
  BY <1>2, <1>3

\* What joined names look like.
Joint(S, pre, N, J) ==
    /\ J \in Seq(S) /\ Len(J) \in Nat /\ Len(J) # 0 /\ J[1] # Slash /\ J[Len(J)] # Slash
    /\ Segments(pre \o J) = Lead(pre) \o N

\* A name more.
LEMMA JointLonger ==
    ASSUME NEW S, Slash \in S, NEW pre \in {<<>>, <<Slash>>},
           NEW N \in Seq(Seq(S \ {Slash})), NEW J, Joint(S, pre, N, J),
           NEW p \in Seq(S \ {Slash}), p # <<>>
    PROVE  Joint(S, pre, Append(N, p), Strung(J, p))
<1>1. PICK R : R = Seq(S \ {Slash})
  OBVIOUS
<1>2. PICK a : a = Append(J, Slash)
  OBVIOUS
<1>3. J \in Seq(S) /\ J # <<>> /\ Len(J) \in Nat /\ Len(J) # 0 /\ p \in Seq(S) /\ pre \in Seq(S)
  <2>1. J \in Seq(S) /\ Len(J) \in Nat /\ Len(J) # 0
    BY DEF Joint
  <2>2. J # <<>>
    BY <2>1
  <2>3. p \in Seq(S)
    OBVIOUS
  <2>4. pre \in Seq(S)
    BY Lone, ThenNone
  <2> QED
    BY <2>1, <2>2, <2>3, <2>4
<1>4. a \in Seq(S) /\ Len(a) = Len(J) + 1 /\ a[1] = J[1]
  BY <1>2, <1>3
<1>5. J \o <<Slash>> = a
  BY <1>2, <1>3, OneMore
<1>6. Strung(J, p) = a \o p
  BY <1>3, <1>5 DEF Strung
<1>7. a \o p \in Seq(S) /\ Len(a \o p) = Len(J) + 1 + Len(p) /\ Len(p) \in Nat /\ (a \o p)[1] = J[1]
  <2>1. PICK u : u = a \o p
    OBVIOUS
  <2>2. u \in Seq(S)
    BY <1>3, <1>4, <2>1
  <2>3. Len(p) \in Nat
    OBVIOUS
  <2>4. Len(u) = Len(a) + Len(p)
    BY <1>3, <1>4, <2>1, ConcatProperties
  <2>5. u[1] = a[1]
    <3>1. 1 \in 1..Len(a)
      BY <1>3, <1>4
    <3> QED
      BY <1>3, <1>4, <2>1, <3>1
  <2> QED
    BY <1>4, <2>1, <2>2, <2>3, <2>4, <2>5
<1>8. (pre \o a) \o p = pre \o (a \o p)
  <2>1. \A s \in Seq(S), t \in Seq(S), u \in Seq(S) : (s \o t) \o u = s \o (t \o u)
    BY ConcatAssociative
  <2> QED
    BY <1>3, <1>4, <2>1, Zenon
<1>9. pre \o a = Append(pre \o J, Slash) /\ pre \o J \in Seq(S)
  BY <1>2, <1>3, ThenOne
<1>10. Segments(Append(pre \o J, Slash) \o p) = Append(Segments(pre \o J), p)
  BY <1>9, SegmentsAfter
<1>11. Segments(pre \o J) = Lead(pre) \o N
  BY DEF Joint
<1>12. Lead(pre) \in Seq(R)
  BY <1>1, LeadType
<1>13. Lead(pre) \o Append(N, p) = Append(Lead(pre) \o N, p)
  BY <1>1, <1>12, ThenOne
<1>14. Segments(pre \o (a \o p)) = Lead(pre) \o Append(N, p)
  BY <1>8, <1>9, <1>10, <1>11, <1>13
<1>15. J[1] # Slash /\ Len(J) + 1 + Len(p) # 0
  BY <1>3, <1>7 DEF Joint
<1>16. (a \o p)[Len(a \o p)] # Slash
  <2>1. Len(a) \in Nat /\ Len(p) \in Nat /\ Len(p) # 0 /\ p[Len(p)] # Slash
    BY <1>3, <1>4
  <2>2. PICK i : i = Len(a) + Len(p) /\ i - Len(a) = Len(p) /\ i \in 1..(Len(a) + Len(p)) /\ ~(i <= Len(a))
    BY <2>1
  <2>3. /\ Len(a \o p) = Len(a) + Len(p)
        /\ \A j \in 1..(Len(a) + Len(p)) : (a \o p)[j] = IF j <= Len(a) THEN a[j] ELSE p[j - Len(a)]
    BY <1>3, <1>4, ConcatProperties
  <2>4. (a \o p)[i] = p[Len(p)]
    BY <2>2, <2>3, Zenon
  <2> QED
    BY <2>1, <2>2, <2>3, <2>4
<1> QED
  BY <1>6, <1>7, <1>14, <1>15, <1>16 DEF Joint

\* The first name.
LEMMA JointFirst ==
    ASSUME NEW S, Slash \in S, NEW pre \in {<<>>, <<Slash>>},
           NEW p \in Seq(S \ {Slash}), p # <<>>
    PROVE  Joint(S, pre, <<p>>, Strung(<<>>, p))
<1>1. PICK R : R = Seq(S \ {Slash})
  OBVIOUS
<1>2. Strung(<<>>, p) = p
  BY DEF Strung
<1>3. p \in Seq(S) /\ Len(p) \in Nat /\ Len(p) # 0 /\ p[1] # Slash /\ p[Len(p)] # Slash
  OBVIOUS
<1>4. Segments(pre \o p) = Append(Lead(pre), p)
  BY SegmentsFirst
<1>5. Lead(pre) \in Seq(R)
  BY <1>1, LeadType
<1>6. Lead(pre) \o <<p>> = Append(Lead(pre), p)
  BY <1>1, <1>5, OneMore
<1> QED
  BY <1>2, <1>3, <1>4, <1>6 DEF Joint

\* Names that were joined are what their text is split into.
LEMMA JoinedNames ==
    ASSUME NEW S, Slash \in S, NEW pre \in {<<>>, <<Slash>>},
           NEW N \in Seq(Named(Seq(S \ {Slash}))), N # <<>>
    PROVE  Joint(S, pre, N, Joined(N))
<1>1. PICK X : X = Named(Seq(S \ {Slash}))
  OBVIOUS
<1>2. \A p \in X : p \in Seq(S \ {Slash}) /\ p # <<>> /\ p \in Seq(S)
  BY <1>1 DEF Named
<1>3. PICK n \in Nat : n = Len(N) /\ n # 0
  OBVIOUS
<1>4. PICK Good : Good = {k \in 0..n : k = 0 \/ Joint(S, pre, SubSeq(N, 1, k), Joined(SubSeq(N, 1, k)))}
  OBVIOUS
<1>5. 0 \in Good
  BY <1>4
<1>6. ASSUME NEW k \in 1..n, k - 1 \in Good PROVE k \in Good
  <2>1. PICK a : a = SubSeq(N, 1, k - 1)
    OBVIOUS
  <2>2. PICK p \in X : p = N[k]
    BY <1>1, <1>3, PrefixLonger
  <2>3. a \in Seq(X) /\ SubSeq(N, 1, k) = Append(a, p)
    BY <1>1, <1>3, <2>1, <2>2, PrefixLonger
  <2>4. a \in Seq(Seq(S)) /\ a \in Seq(Seq(S \ {Slash})) /\ p \in Seq(S) /\ p \in Seq(S \ {Slash}) /\ p # <<>>
    <3>1. X \subseteq Seq(S) /\ X \subseteq Seq(S \ {Slash})
      BY <1>2
    <3> QED
      BY <1>2, <2>3, <3>1, SeqMonotonic
  <2>5. Joined(SubSeq(N, 1, k)) = Strung(Joined(a), p)
    BY <2>3, <2>4, JoinedAdd
  <2>6. CASE k = 1
    <3>1. a = <<>>
      BY <2>1, <2>6
    <3>2. Joined(a) = <<>>
      BY <3>1, <2>4, JoinedType
    <3>3. SubSeq(N, 1, k) = <<p>>
      BY <2>3, <3>1
    <3>4. Joint(S, pre, <<p>>, Strung(<<>>, p))
      BY <2>4, JointFirst
    <3>5. Joint(S, pre, SubSeq(N, 1, k), Joined(SubSeq(N, 1, k)))
      BY <2>5, <3>2, <3>3, <3>4
    <3> QED
      BY <1>4, <3>5
  <2>7. CASE k # 1
    <3>1. Joint(S, pre, a, Joined(a))
      BY <1>4, <1>6, <2>1, <2>7
    <3>2. Joint(S, pre, Append(a, p), Strung(Joined(a), p))
      BY <2>4, <3>1, JointLonger
    <3>3. Joint(S, pre, SubSeq(N, 1, k), Joined(SubSeq(N, 1, k)))
      BY <2>3, <2>5, <3>2
    <3> QED
      BY <1>4, <3>3
  <2> QED
    BY <2>6, <2>7
<1>7. n \in Good
  <2>1. \A k \in 1..n : k - 1 \in Good => k \in Good
    BY <1>6
  <2>2. \A k \in 0..n : k \in Good
    BY <1>5, <2>1, AlongRun
  <2> QED
    BY <2>2
<1>8. SubSeq(N, 1, n) = N
  BY <1>3, ThenNone
<1> QED
  BY <1>3, <1>4, <1>7, <1>8

\* Names remain as they are, and what is empty before and after them goes.
LEMMA FollowedNames ==
    ASSUME NEW W, <<>> \in W, NEW lead \in {<<>>, <<<<>>>>}, NEW trail \in {<<>>, <<<<>>>>},
           NEW N \in Seq(Named(W))
    PROVE  Followed(lead \o N \o trail) = N
<1>1. PICK X : X = Named(W) /\ X \subseteq W
  BY DEF Named
<1>2. PICK n \in Nat : n = Len(N)
  OBVIOUS
<1>3. lead \in Seq(W) /\ trail \in Seq(W) /\ N \in Seq(W)
  <2>1. N \in Seq(W)
    BY <1>1, SeqMonotonic
  <2>2. <<>> \in Seq(W) /\ <<<<>>>> \in Seq(W)
    BY Lone, ThenNone
  <2> QED
    BY <2>1, <2>2
<1>4. \A s \in Seq(Named(W)) : Kept(s, <<>>) = s
  BY DEF Kept, Dot, Dots
<1>5. Followed(lead) = <<>>
  <2>1. Followed(<<>>) = <<>> /\ <<>> \in Seq(W) /\ <<>> \in Seq(Named(W))
    BY <1>3, FollowedType, ThenNone
  <2>2. Followed(Append(<<>>, <<>>)) = Kept(<<>>, <<>>)
    BY <2>1, FollowedAdd
  <2>3. Append(<<>>, <<>>) = <<<<>>>>
    OBVIOUS
  <2> QED
    BY <1>4, <2>1, <2>2, <2>3
<1>6. PICK Good : Good = {k \in 0..n : Followed(lead \o SubSeq(N, 1, k)) = SubSeq(N, 1, k)}
  OBVIOUS
<1>7. 0 \in Good
  <2>1. SubSeq(N, 1, 0) = <<>>
    OBVIOUS
  <2>2. lead \o <<>> = lead
    BY <1>3, ThenNone
  <2>3. Followed(lead \o SubSeq(N, 1, 0)) = SubSeq(N, 1, 0)
    BY <1>5, <2>1, <2>2
  <2> QED
    BY <1>6, <2>3
<1>8. ASSUME NEW k \in 1..n, k - 1 \in Good PROVE k \in Good
  <2>1. PICK a : a = SubSeq(N, 1, k - 1)
    OBVIOUS
  <2>2. PICK p \in X : p = N[k]
    BY <1>1, <1>2, PrefixLonger
  <2>3. a \in Seq(X) /\ SubSeq(N, 1, k) = Append(a, p)
    BY <1>1, <1>2, <2>1, <2>2, PrefixLonger
  <2>4. a \in Seq(W) /\ p \in W
    BY <1>1, <2>3, SeqMonotonic
  <2>5. lead \o Append(a, p) = Append(lead \o a, p) /\ lead \o a \in Seq(W)
    BY <1>3, <2>4, ThenOne
  <2>6. Followed(lead \o a) = a
    BY <1>6, <1>8, <2>1
  <2>7. Followed(Append(lead \o a, p)) = Kept(a, p)
    BY <2>4, <2>5, <2>6, FollowedAdd
  <2>8. Kept(a, p) = Append(a, p)
    BY <1>1, <2>2 DEF Kept, Named
  <2>9. Followed(lead \o SubSeq(N, 1, k)) = SubSeq(N, 1, k)
    BY <2>3, <2>5, <2>7, <2>8
  <2> QED
    BY <1>6, <2>9
<1>9. n \in Good
  <2>1. \A k \in 1..n : k - 1 \in Good => k \in Good
    BY <1>8
  <2>2. \A k \in 0..n : k \in Good
    BY <1>7, <2>1, AlongRun
  <2> QED
    BY <2>2
<1>10. Followed(lead \o N) = N
  BY <1>2, <1>6, <1>9, ThenNone
<1>11. CASE trail = <<>>
  <2>1. lead \o N \o trail = lead \o N
    BY <1>3, <1>11, ThenNone
  <2> QED
    BY <1>10, <2>1
<1>12. CASE trail = <<<<>>>>
  <2>1. PICK t \in Seq(W) : t = lead \o N
    <3>1. lead \o N \in Seq(W)
      BY <1>3, ConcatProperties
    <3> QED
      BY <3>1
  <2>2. t \o <<<<>>>> = Append(t, <<>>)
    BY <2>1, OneMore
  <2>3. Followed(Append(t, <<>>)) = Kept(N, <<>>)
    BY <1>10, <2>1, FollowedAdd
  <2>4. Kept(N, <<>>) = N
    BY <1>4
  <2> QED
    BY <1>12, <2>1, <2>2, <2>3, <2>4
<1> QED
  BY <1>11, <1>12

\* t is a path as NormalizePath leaves it: names between slashes.
Canonical(S, t, pre, N, post) ==
    /\ pre \in {<<>>, <<Slash>>} /\ post \in {<<>>, <<Slash>>}
    /\ N \in Seq(Named(Seq(S \ {Slash})))
    /\ t = (pre \o Joined(N)) \o post
    /\ N = <<>> => pre = <<Slash>> /\ post = <<>>
    /\ post # <<>> => Len(pre \o Joined(N)) > 1

\* Whatever a path is, this is how NormalizePath leaves it.
LEMMA NormalForm ==
    ASSUME NEW S, Slash \in S, NEW t \in Seq(S)
    PROVE  \E pre, N, post : Canonical(S, NormalizePath(t), pre, N, post)
<1>1. PICK W : W = Seq(S \ {Slash})
  OBVIOUS
<1>2. Segments(t) \in Seq(W)
  BY <1>1, SegmentsType DEF Parted
<1>3. PICK N : N = Followed(Segments(t))
  OBVIOUS
<1>4. N \in Seq(Named(W))
  BY <1>2, <1>3, FollowedType
<1>5. PICK J : J = Joined(N)
  OBVIOUS
<1>6. PICK pre : pre = IF t # <<>> /\ Head(t) = Slash THEN <<Slash>> ELSE <<>>
  OBVIOUS
<1>7. pre \in {<<>>, <<Slash>>}
  BY <1>6
<1>8. N # <<>> => J \in Seq(S) /\ J # <<>> /\ Len(J) # 0 /\ Len(J) \in Nat
  <2> HAVE N # <<>>
  <2>1. Joint(S, pre, N, J)
    BY <1>1, <1>4, <1>5, <1>7, JoinedNames
  <2>2. J \in Seq(S) /\ Len(J) # 0 /\ Len(J) \in Nat
    BY <2>1 DEF Joint
  <2>3. J # <<>>
    BY <2>2
  <2> QED
    BY <2>2, <2>3
<1>9. N = <<>> => J = <<>>
  <2>1. <<>> \in Seq(Seq(S))
    BY ThenNone
  <2>2. Joined(<<>>) = <<>>
    BY <2>1, JoinedType
  <2> QED
    BY <1>5, <2>2
<1>10. PICK led : led = pre \o J
  OBVIOUS
<1>11. <<>> \in Seq(S) /\ <<Slash>> \in Seq(S) /\ pre \in Seq(S)
  BY <1>7, Lone, ThenNone
<1>12. J \in Seq(S)
  BY <1>8, <1>9, <1>11
<1>13. led \in Seq(S) /\ led \o <<>> = led /\ <<>> \o J = J
  BY <1>10, <1>11, <1>12, ConcatProperties, ThenNone
<1>14. NormalizePath(t) = CASE led = <<>> -> <<Slash>>
                            [] Len(led) > 1 /\ Last(t) = Slash -> Append(led, Slash)
                            [] OTHER -> led
  <2>1. led = IF t # <<>> /\ Head(t) = Slash THEN <<Slash>> \o J ELSE J
    BY <1>6, <1>10, <1>13
  <2> QED
    BY <1>3, <1>5, <2>1 DEF NormalizePath
<1>15. CASE N = <<>>
  <2>1. led = pre /\ J = <<>>
    BY <1>9, <1>10, <1>11, <1>15, ThenNone
  <2>2. Len(<<Slash>>) = 1 /\ ~(1 > 1) /\ <<Slash>> # <<>>
    OBVIOUS
  <2>3. NormalizePath(t) = <<Slash>>
    BY <1>7, <1>14, <2>1, <2>2
  <2>4. (<<Slash>> \o J) \o <<>> = <<Slash>>
    BY <1>11, <2>1, ThenNone
  <2>5. Canonical(S, NormalizePath(t), <<Slash>>, N, <<>>)
    BY <1>1, <1>4, <1>5, <1>15, <2>3, <2>4 DEF Canonical
  <2> QED
    BY <2>5
<1>16. CASE N # <<>>
  <2>1. led # <<>>
    <3>1. Len(led) = Len(pre) + Len(J) /\ Len(pre) \in Nat
      BY <1>10, <1>11, <1>12, ConcatProperties
    <3>2. Len(led) # 0
      BY <1>8, <1>16, <3>1
    <3> QED
      BY <3>2
  <2>2. CASE Len(led) > 1 /\ Last(t) = Slash
    <3>1. NormalizePath(t) = Append(led, Slash)
      BY <1>14, <2>1, <2>2
    <3>2. led \o <<Slash>> = Append(led, Slash)
      BY <1>13, OneMore
    <3>3. Canonical(S, NormalizePath(t), pre, N, <<Slash>>)
      BY <1>1, <1>4, <1>5, <1>7, <1>10, <1>16, <2>2, <3>1, <3>2 DEF Canonical
    <3> QED
      BY <3>3
  <2>3. CASE ~(Len(led) > 1 /\ Last(t) = Slash)
    <3>1. NormalizePath(t) = led
      BY <1>14, <2>1, <2>3
    <3>2. Canonical(S, NormalizePath(t), pre, N, <<>>)
      BY <1>1, <1>4, <1>5, <1>7, <1>10, <1>13, <1>16, <3>1 DEF Canonical
    <3> QED
      BY <3>2
  <2> QED
    BY <2>2, <2>3
<1> QED
  BY <1>15, <1>16

\* What a path that is normalized is split into.
LEMMA CanonicalSegments ==
    ASSUME NEW S, Slash \in S, NEW t, NEW pre, NEW N, NEW post, N # <<>>,
           Canonical(S, t, pre, N, post)
    PROVE  Segments(t) = Lead(pre) \o N \o Lead(post)
<1>1. PICK W : W = Seq(S \ {Slash})
  OBVIOUS
<1>2. PICK J : J = Joined(N)
  OBVIOUS
<1>3. /\ pre \in {<<>>, <<Slash>>} /\ post \in {<<>>, <<Slash>>}
      /\ N \in Seq(Named(W)) /\ t = (pre \o J) \o post
  BY <1>1, <1>2 DEF Canonical
<1>4. Joint(S, pre, N, J)
  BY <1>1, <1>2, <1>3, JoinedNames
<1>5. PICK u : u = pre \o J
  OBVIOUS
<1>6. u \in Seq(S) /\ Segments(u) = Lead(pre) \o N
  <2>1. J \in Seq(S) /\ Segments(u) = Lead(pre) \o N
    BY <1>4, <1>5 DEF Joint
  <2>2. pre \in Seq(S)
    BY <1>3, Lone, ThenNone
  <2> QED
    BY <1>5, <2>1, <2>2, ConcatProperties
<1>7. Segments(u) \in Seq(W) /\ <<>> \in W
  <2>1. Segments(u) \in Parted(S)
    BY <1>6, SegmentsType
  <2>2. <<>> \in W
    BY <1>1, ThenNone
  <2> QED
    BY <1>1, <2>1, <2>2 DEF Parted
<1>8. CASE post = <<>>
  <2>1. t = u
    BY <1>3, <1>5, <1>6, <1>8, ThenNone
  <2>2. Segments(u) \o <<>> = Segments(u)
    BY <1>7, ThenNone
  <2> QED
    BY <1>6, <1>8, <2>1, <2>2 DEF Lead
<1>9. CASE post = <<Slash>>
  <2>1. t = Append(u, Slash)
    BY <1>3, <1>5, <1>6, <1>9, OneMore
  <2>2. Segments(Append(u, Slash)) = Append(Segments(u), <<>>)
    BY <1>1, <1>6, <1>7, SegmentsAfter
  <2>3. Segments(u) \o <<<<>>>> = Append(Segments(u), <<>>)
    BY <1>7, OneMore
  <2>4. Lead(post) = <<<<>>>>
    <3>1. post # <<>>
      BY <1>9
    <3> QED
      BY <3>1 DEF Lead
  <2> QED
    BY <1>6, <2>1, <2>2, <2>3, <2>4
<1> QED
  BY <1>3, <1>8, <1>9

\* Two elements.
LEMMA TwoOf ==
    ASSUME NEW X, NEW x \in X
    PROVE  Append(<<x>>, x) = <<x, x>> /\ <<x>> \o <<>> = <<x>> /\ <<x>> \o <<x>> = <<x, x>>
<1>1. PICK s : s = <<x>>
  OBVIOUS
<1>2. s \in Seq(X) /\ Len(s) = 1 /\ s[1] = x
  BY <1>1
<1>3. PICK u : u = Append(s, x)
  OBVIOUS
<1>4. u \in Seq(X) /\ Len(u) = 2 /\ u[1] = x /\ u[2] = x
  <2>1. u \in Seq(X) /\ \A k \in 1..(Len(s) + 1) : u[k] = IF k <= Len(s) THEN s[k] ELSE x
    BY <1>2, <1>3
  <2>2. Len(u) = Len(s) + 1
    BY <1>2, <1>3, AppendProperties
  <2> QED
    BY <1>2, <2>1, <2>2
<1>5. PICK v : v = <<x, x>>
  OBVIOUS
<1>6. v \in Seq(X) /\ Len(v) = 2 /\ v[1] = x /\ v[2] = x
  BY <1>5
<1>7. u = v
  BY <1>4, <1>6
<1>8. s \o <<x>> = u /\ s \o <<>> = s
  BY <1>2, <1>3, OneMore, ThenNone
<1> QED
  BY <1>1, <1>3, <1>5, <1>7, <1>8

\* Another pass changes nothing, and no segment is left that says nothing.
LEMMA CanonicalClean ==
    ASSUME NEW S, Slash \in S, NEW t, NEW pre, NEW N, NEW post, Canonical(S, t, pre, N, post)
    PROVE  /\ NormalizePath(t) = t
           /\ \A k \in 2..(Len(Segments(t)) - 1) : Segments(t)[k] # <<>>
           /\ \A k \in DOMAIN Segments(t) : Segments(t)[k] \notin {Dot, Dots}
<1>1. PICK W : W = Seq(S \ {Slash})
  OBVIOUS
<1>2. PICK J : J = Joined(N)
  OBVIOUS
<1>3. /\ pre \in {<<>>, <<Slash>>} /\ post \in {<<>>, <<Slash>>}
      /\ N \in Seq(Named(W)) /\ t = (pre \o J) \o post
      /\ N = <<>> => pre = <<Slash>> /\ post = <<>>
      /\ post # <<>> => Len(pre \o J) > 1
  BY <1>1, <1>2 DEF Canonical
<1>4. <<>> \in W /\ <<>> \in Seq(S) /\ <<Slash>> \in Seq(S) /\ <<>> \in Seq(Seq(S))
  BY <1>1, Lone, ThenNone
<1>5. CASE N = <<>>
  <2>1. Joined(<<>>) = <<>> /\ Followed(<<>>) = <<>> /\ Segments(<<>>) = <<<<>>>>
    <3>1. <<>> \in Seq(W)
      BY ThenNone
    <3> QED
      BY <1>4, <3>1, JoinedType, FollowedType, SegmentsType
  <2>2. t = <<Slash>>
    BY <1>2, <1>3, <1>4, <1>5, <2>1, ThenNone
  <2>3. Segments(t) = <<<<>>, <<>>>>
    <3>1. Segments(Append(<<>>, Slash)) = Append(<<<<>>>>, <<>>)
      BY <1>1, <1>4, <2>1, SegmentsAfter
    <3>2. Append(<<>>, Slash) = <<Slash>> /\ Append(<<<<>>>>, <<>>) = <<<<>>, <<>>>>
      BY <1>4, Lone, TwoOf
    <3> QED
      BY <2>2, <3>1, <3>2
  <2>4. Followed(Segments(t)) = <<>>
    <3>1. Followed(<<<<>>>> \o <<>> \o <<<<>>>>) = <<>>
      <4>1. <<>> \in Seq(Named(W))
        BY ThenNone
      <4> QED
        BY <1>4, <4>1, FollowedNames
    <3>2. <<<<>>>> \o <<>> \o <<<<>>>> = <<<<>>, <<>>>>
      BY <1>4, TwoOf
    <3> QED
      BY <2>3, <3>1, <3>2
  <2>5. /\ t # <<>> /\ Head(t) = Slash /\ <<Slash>> \o <<>> = <<Slash>>
        /\ Len(<<Slash>>) = 1 /\ ~(1 > 1) /\ <<Slash>> # <<>>
    BY <2>2
  <2>6. NormalizePath(t) = t
    BY <2>1, <2>2, <2>4, <2>5 DEF NormalizePath
  <2>7. \A k \in DOMAIN Segments(t) : Segments(t)[k] = <<>>
    BY <2>3
  <2>8. Len(Segments(t)) = 2 /\ 2..(2 - 1) = {}
    BY <2>3
  <2>9. <<>> # Dot /\ <<>> # Dots
    BY DEF Dot, Dots
  <2> QED
    BY <2>6, <2>7, <2>8, <2>9
<1>6. CASE N # <<>>
  <2>1. Segments(t) = Lead(pre) \o N \o Lead(post)
    BY <1>6, CanonicalSegments
  <2>2. Lead(pre) \in {<<>>, <<<<>>>>} /\ Lead(post) \in {<<>>, <<<<>>>>}
    BY DEF Lead
  <2>3. Followed(Segments(t)) = N
    BY <1>3, <1>4, <2>1, <2>2, FollowedNames
  <2>4. J \in Seq(S) /\ Len(J) \in Nat /\ Len(J) # 0 /\ J[1] # Slash /\ J[Len(J)] # Slash
    <3>1. Joint(S, pre, N, J)
      BY <1>1, <1>2, <1>3, <1>6, JoinedNames
    <3> QED
      BY <3>1 DEF Joint
  <2>5. pre \in Seq(S) /\ post \in Seq(S)
    BY <1>3, <1>4
  <2>6. PICK led : led = pre \o J
    OBVIOUS
  <2>7. /\ led \in Seq(S) /\ Len(led) \in Nat /\ Len(led) # 0 /\ t = led \o post
        /\ led[Len(led)] # Slash
        /\ led[1] = Slash <=> pre = <<Slash>>
    <3>1. led \in Seq(S) /\ t = led \o post
      BY <1>3, <2>4, <2>5, <2>6, ConcatProperties
    <3>2. CASE pre = <<>>
      <4>1. led = J
        BY <2>4, <2>6, <3>2, ThenNone
      <4> QED
        BY <2>4, <3>1, <3>2, <4>1
    <3>3. CASE pre = <<Slash>>
      <4>1. /\ Len(led) = Len(pre) + Len(J)
            /\ \A i \in 1..(Len(pre) + Len(J)) : led[i] = IF i <= Len(pre) THEN pre[i]
                                                          ELSE J[i - Len(pre)]
        BY <2>4, <2>5, <2>6, ConcatProperties
      <4>2. Len(pre) = 1 /\ pre[1] = Slash
        BY <3>3
      <4>3. PICK n \in Nat : n = Len(J) /\ n # 0
        BY <2>4
      <4>4. Len(led) = 1 + n /\ 1 \in 1..(1 + n) /\ 1 + n \in 1..(1 + n) /\ ~(1 + n <= 1) /\ 1 <= 1
            /\ (1 + n) - 1 = n
        BY <4>1, <4>2, <4>3
      <4>5. led[1 + n] = J[n] /\ led[1] = Slash
        BY <4>1, <4>2, <4>3, <4>4
      <4> QED
        BY <2>4, <3>1, <3>3, <4>3, <4>4, <4>5
    <3> QED
      BY <1>3, <3>2, <3>3
  <2>8. t # <<>> /\ t[1] = led[1] /\ Len(t) = Len(led) + Len(post)
    <3>1. /\ Len(t) = Len(led) + Len(post)
          /\ \A i \in 1..(Len(led) + Len(post)) : t[i] = IF i <= Len(led) THEN led[i]
                                                         ELSE post[i - Len(led)]
      BY <2>5, <2>7, ConcatProperties
    <3>2. Len(post) \in Nat
      BY <2>5
    <3>3. 1 \in 1..(Len(led) + Len(post)) /\ 1 <= Len(led) /\ Len(led) + Len(post) # 0
      BY <2>7, <3>2
    <3>4. t # <<>>
      BY <3>1, <3>3
    <3> QED
      BY <3>1, <3>3, <3>4
  <2>9. led = IF t # <<>> /\ Head(t) = Slash THEN <<Slash>> \o J ELSE J
    <3>1. Head(t) = t[1]
      BY <2>8
    <3>2. <<>> \o J = J
      BY <2>4, ThenNone
    <3> QED
      BY <1>3, <2>6, <2>7, <2>8, <3>1, <3>2
  <2>10. led # <<>>
    BY <2>7
  <2>11. NormalizePath(t) = IF Len(led) > 1 /\ Last(t) = Slash THEN Append(led, Slash) ELSE led
    BY <1>2, <2>3, <2>9, <2>10 DEF NormalizePath
  <2>12. NormalizePath(t) = t
    <3>1. CASE post = <<>>
      <4>1. t = led
        BY <2>7, <3>1, ThenNone
      <4>2. Last(t) # Slash
        BY <2>7, <4>1 DEF Last
      <4> QED
        BY <2>11, <4>1, <4>2
    <3>2. CASE post = <<Slash>>
      <4>1. t = Append(led, Slash)
        BY <2>7, <3>2, OneMore
      <4>2. Last(t) = Slash
        BY <2>7, <4>1, OneMore
      <4>3. Len(led) > 1
        <5>1. post # <<>>
          BY <3>2
        <5> QED
          BY <1>3, <2>6, <5>1
      <4> QED
        BY <2>11, <4>1, <4>2, <4>3
    <3> QED
      BY <1>3, <3>1, <3>2
  <2>13. PICK n \in Nat : n = Len(N) /\ \A k \in 1..n : N[k] \in Named(W)
    BY <1>3
  <2>14. \A k \in 1..n : N[k] \notin {<<>>, Dot, Dots}
    BY <2>13 DEF Named
  <2>15. <<>> # Dot /\ <<>> # Dots
    BY DEF Dot, Dots
  <2>16. PICK l \in {0, 1}, m \in {0, 1} :
            /\ Len(Segments(t)) = (l + n) + m
            /\ \A k \in 1..((l + n) + m) :
                 Segments(t)[k] = IF k <= l THEN <<>> ELSE IF k <= l + n THEN N[k - l] ELSE <<>>
    <3>1. PICK a, b : a = Lead(pre) /\ b = Lead(post)
      OBVIOUS
    <3>2. a \in Seq(W) /\ b \in Seq(W) /\ N \in Seq(W)
      <4>1. Named(W) \subseteq W
        BY DEF Named
      <4>2. N \in Seq(W)
        BY <1>3, <4>1, SeqMonotonic
      <4>3. <<<<>>>> \in Seq(W) /\ <<>> \in Seq(W)
        BY <1>4, Lone, ThenNone
      <4> QED
        BY <2>2, <3>1, <4>2, <4>3
    <3>3. PICK l \in {0, 1} : l = Len(a) /\ \A k \in 1..l : a[k] = <<>>
      BY <2>2, <3>1
    <3>4. PICK m \in {0, 1} : m = Len(b) /\ \A k \in 1..m : b[k] = <<>>
      BY <2>2, <3>1
    <3>5. PICK c \in Seq(W) : c = a \o N
      BY <3>2, ConcatProperties
    <3>6. /\ Len(c) = l + n
          /\ \A k \in 1..(l + n) : c[k] = IF k <= l THEN a[k] ELSE N[k - l]
      BY <2>13, <3>2, <3>3, <3>5, ConcatProperties
    <3>7. PICK d : d = c \o b
      OBVIOUS
    <3>8. /\ Len(d) = (l + n) + m
          /\ \A k \in 1..((l + n) + m) : d[k] = IF k <= l + n THEN c[k] ELSE b[k - (l + n)]
      BY <3>2, <3>4, <3>6, <3>7, ConcatProperties
    <3>9. ASSUME NEW k \in 1..((l + n) + m)
          PROVE  d[k] = IF k <= l THEN <<>> ELSE IF k <= l + n THEN N[k - l] ELSE <<>>
      <4>1. CASE k <= l + n
        <5>1. k \in 1..(l + n) /\ (k <= l => k \in 1..l)
          BY <4>1
        <5> QED
          BY <3>3, <3>6, <3>8, <4>1, <5>1
      <4>2. CASE ~(k <= l + n)
        <5>1. k - (l + n) \in 1..m /\ ~(k <= l)
          BY <4>2
        <5> QED
          BY <3>4, <3>8, <4>2, <5>1
      <4> QED
        BY <4>1, <4>2
    <3> QED
      BY <2>1, <3>1, <3>5, <3>7, <3>8, <3>9
  <2>17. \A k \in 1..((l + n) + m) : k <= l \/ (k - l \in 1..n /\ k <= l + n /\ ~(k <= l)) \/ (~(k <= l) /\ ~(k <= l + n))
    OBVIOUS
  <2>18. \A k \in 1..((l + n) + m) : Segments(t)[k] \notin {Dot, Dots}
    BY <2>14, <2>15, <2>16, <2>17
  <2>19. \A k \in 2..((l + n) + m - 1) : k \in 1..((l + n) + m) /\ ~(k <= l) /\ k <= l + n /\ k - l \in 1..n
    OBVIOUS
  <2>20. \A k \in 2..((l + n) + m - 1) : Segments(t)[k] # <<>>
    BY <2>14, <2>16, <2>19
  <2>21. DOMAIN Segments(t) = 1..((l + n) + m)
    <3>1. Segments(t) \in Seq(W)
      <4>1. t \in Seq(S)
        BY <2>5, <2>7, ConcatProperties
      <4> QED
        BY <1>1, <4>1, SegmentsType DEF Parted
    <3> QED
      BY <2>16, <3>1
  <2> QED
    BY <2>12, <2>16, <2>18, <2>20, <2>21
<1> QED
  BY <1>5, <1>6

\* What lowercasing makes of characters.
LEMMA LowerSlash ==
    /\ LowerChr(Slash) = Slash /\ Lower(<<Slash>>) = <<Slash>> /\ Lower(<<>>) = <<>>
    /\ \A e : LowerChr(e) = Slash => e = Slash
    /\ \A e : LowerChr(e) = Chr(".") => e = Chr(".")
<1>1. "/" \notin DOMAIN LowerOf /\ \A c \in DOMAIN LowerOf : LowerOf[c] # "/" /\ LowerOf[c] # "."
  BY LetterAssumption
<1>2. LowerChr(Slash) = Slash
  BY <1>1 DEF LowerChr, Slash, Chr
<1>3. \A e : LowerChr(e) = Slash => e = Slash
  BY <1>1 DEF LowerChr, Slash, Chr
<1>4. \A e : LowerChr(e) = Chr(".") => e = Chr(".")
  BY <1>1 DEF LowerChr, Chr
<1>5. Lower(<<Slash>>) = <<Slash>>
  <2>1. PICK s : s = <<Slash>>
    OBVIOUS
  <2>2. DOMAIN s = {1} /\ s[1] = Slash /\ s = [k \in {1} |-> s[k]]
    BY <2>1
  <2>3. Lower(s) = [k \in {1} |-> LowerChr(s[k])]
    BY <2>2, LoweredChars
  <2>4. Lower(s) = s
    BY <1>2, <2>2, <2>3
  <2> QED
    BY <2>1, <2>4
<1>6. Lower(<<>>) = <<>>
  BY LoweredChars
<1> QED
  BY <1>2, <1>3, <1>4, <1>5, <1>6

InLower(S) == {LowerChr(e) : e \in S}

\* Lowercasing works character by character.
LEMMA LowerText ==
    ASSUME NEW S, NEW t \in Seq(S)
    PROVE  /\ Lower(t) \in Seq(InLower(S)) /\ Len(Lower(t)) = Len(t)
           /\ \A k \in 1..Len(t) : Lower(t)[k] = LowerChr(t[k])
           /\ Lower(t) = <<>> <=> t = <<>>
<1>1. PICK n \in Nat : n = Len(t) /\ DOMAIN t = 1..n /\ \A k \in 1..n : t[k] \in S
  OBVIOUS
<1>2. PICK l : l = [k \in 1..n |-> LowerChr(t[k])]
  OBVIOUS
<1>3. Lower(t) = l
  BY <1>1, <1>2, LoweredChars
<1>4. \A k \in 1..n : l[k] \in InLower(S) /\ l[k] = LowerChr(t[k])
  BY <1>1, <1>2 DEF InLower
<1>5. l \in Seq(InLower(S)) /\ Len(l) = n
  BY <1>2, <1>4
<1>6. l = <<>> <=> t = <<>>
  BY <1>1, <1>5
<1> QED
  BY <1>1, <1>3, <1>4, <1>5, <1>6

\* Lowercasing two texts, one after the other.
LEMMA LowerThen ==
    ASSUME NEW S, NEW s \in Seq(S), NEW t \in Seq(S)
    PROVE  Lower(s \o t) = Lower(s) \o Lower(t)
<1>1. PICK m, n : m = Len(s) /\ n = Len(t)
  OBVIOUS
<1>2. m \in Nat /\ n \in Nat
  BY <1>1
<1>3. PICK c : c = s \o t
  OBVIOUS
<1>10. /\ c \in Seq(S) /\ Len(c) = m + n
       /\ \A k \in 1..(m + n) : c[k] = IF k <= m THEN s[k] ELSE t[k - m]
  <2>1. /\ s \o t \in Seq(S) /\ Len(s \o t) = Len(s) + Len(t)
        /\ \A k \in 1..(Len(s) + Len(t)) : (s \o t)[k] = IF k <= Len(s) THEN s[k] ELSE t[k - Len(s)]
    BY ConcatProperties
  <2> QED
    BY <1>1, <1>3, <2>1
<1>4. PICK a, b : a = Lower(s) /\ b = Lower(t)
  OBVIOUS
<1>11. /\ a \in Seq(InLower(S)) /\ Len(a) = m /\ \A k \in 1..m : a[k] = LowerChr(s[k])
       /\ b \in Seq(InLower(S)) /\ Len(b) = n /\ \A k \in 1..n : b[k] = LowerChr(t[k])
  BY <1>1, <1>4, LowerText
<1>12. PICK d : d = a \o b
  OBVIOUS
<1>5. /\ d \in Seq(InLower(S)) /\ Len(d) = m + n
      /\ \A k \in 1..(m + n) : d[k] = IF k <= m THEN a[k] ELSE b[k - m]
  <2>1. /\ a \o b \in Seq(InLower(S)) /\ Len(a \o b) = Len(a) + Len(b)
        /\ \A k \in 1..(Len(a) + Len(b)) : (a \o b)[k] = IF k <= Len(a) THEN a[k] ELSE b[k - Len(a)]
    BY <1>11, ConcatProperties
  <2> QED
    BY <1>11, <1>12, <2>1
<1>6. PICK l : l = Lower(c)
  OBVIOUS
<1>7. /\ l \in Seq(InLower(S)) /\ Len(l) = m + n
      /\ \A k \in 1..(m + n) : l[k] = LowerChr(c[k])
  BY <1>6, <1>10, LowerText
<1>8. ASSUME NEW k \in 1..(m + n) PROVE l[k] = d[k]
  <2>1. CASE k <= m
    <3>1. k \in 1..m
      BY <1>2, <2>1
    <3>2. c[k] = s[k] /\ d[k] = a[k] /\ l[k] = LowerChr(c[k])
      BY <1>5, <1>7, <1>10, <2>1
    <3>3. a[k] = LowerChr(s[k])
      BY <1>11, <3>1, Zenon
    <3> QED
      BY <3>2, <3>3
  <2>2. CASE ~(k <= m)
    <3>1. k - m \in 1..n
      BY <1>2, <2>2
    <3>2. c[k] = t[k - m] /\ d[k] = b[k - m] /\ l[k] = LowerChr(c[k])
      BY <1>5, <1>7, <1>10, <2>2
    <3>3. b[k - m] = LowerChr(t[k - m])
      BY <1>11, <3>1, Zenon
    <3> QED
      BY <3>2, <3>3
  <2> QED
    BY <2>1, <2>2
<1>9. l = d
  BY <1>5, <1>7, <1>8, SeqEqual
<1> QED
  BY <1>3, <1>4, <1>6, <1>9, <1>12

\* Lowercasing two texts with a slash between them.
LEMMA LowerStrung ==
    ASSUME NEW S, Slash \in S, NEW s \in Seq(S), NEW p \in Seq(S)
    PROVE  Lower(Strung(s, p)) = Strung(Lower(s), Lower(p))
<1>1. Lower(s) = <<>> <=> s = <<>>
  BY LowerText
<1>2. <<Slash>> \in Seq(S) /\ s \o <<Slash>> \in Seq(S)
  BY Lone, ConcatProperties
<1>3. Lower(s \o <<Slash>> \o p) = Lower(s) \o <<Slash>> \o Lower(p)
  <2>1. Lower(s \o <<Slash>>) = Lower(s) \o <<Slash>>
    BY <1>2, LowerThen, LowerSlash
  <2>2. Lower((s \o <<Slash>>) \o p) = Lower(s \o <<Slash>>) \o Lower(p)
    BY <1>2, LowerThen
  <2> QED
    BY <2>1, <2>2
<1> QED
  BY <1>1, <1>3 DEF Strung

\* The names that remain are still names once they are lowercased.
LEMMA LowerNamed ==
    ASSUME NEW S, NEW p \in Named(Seq(S \ {Slash}))
    PROVE  Lower(p) \in Named(Seq(InLower(S) \ {Slash}))
<1>1. p \in Seq(S \ {Slash}) /\ p \notin {<<>>, Dot, Dots}
  BY DEF Named
<1>2. PICK l : l = Lower(p)
  OBVIOUS
<1>3. /\ l \in Seq(InLower(S \ {Slash})) /\ Len(l) = Len(p)
      /\ \A k \in 1..Len(p) : l[k] = LowerChr(p[k])
      /\ l = <<>> <=> p = <<>>
  BY <1>1, <1>2, LowerText
<1>4. InLower(S \ {Slash}) \subseteq InLower(S) \ {Slash}
  BY LowerSlash DEF InLower
<1>5. l \in Seq(InLower(S) \ {Slash})
  BY <1>3, <1>4, SeqMonotonic
<1>6. l # Dot
  <2>1. SUFFICES ASSUME l = Dot PROVE FALSE
    OBVIOUS
  <2>2. Len(l) = 1 /\ l[1] = Chr(".")
    BY <2>1 DEF Dot
  <2>3. Len(p) = 1 /\ p[1] = Chr(".")
    BY <1>3, <2>2, LowerSlash
  <2>4. p = <<Chr(".")>>
    BY <1>1, <2>3
  <2> QED
    BY <1>1, <2>4 DEF Dot
<1>7. l # Dots
  <2>1. SUFFICES ASSUME l = Dots PROVE FALSE
    OBVIOUS
  <2>2. Len(l) = 2 /\ l[1] = Chr(".") /\ l[2] = Chr(".")
    BY <2>1 DEF Dots
  <2>3. Len(p) = 2 /\ p[1] = Chr(".") /\ p[2] = Chr(".")
    BY <1>3, <2>2, LowerSlash
  <2>4. p = <<Chr("."), Chr(".")>>
    BY <1>1, <2>3
  <2> QED
    BY <1>1, <2>4 DEF Dots
<1> QED
  BY <1>1, <1>2, <1>3, <1>5, <1>6, <1>7 DEF Named

\* Joined texts can be lowercased before or after.
LEMMA LowerJoined ==
    ASSUME NEW S, Slash \in S, NEW N \in Seq(Seq(S))
    PROVE  Joined([k \in DOMAIN N |-> Lower(N[k])]) = Lower(Joined(N))
<1>1. PICK n \in Nat : n = Len(N) /\ DOMAIN N = 1..n
  OBVIOUS
<1>2. PICK M : M = [k \in 1..n |-> Lower(N[k])]
  OBVIOUS
<1>3. PICK X : X = InLower(S) /\ Slash \in X
  BY LowerSlash DEF InLower
<1>4. \A k \in 1..n : M[k] \in Seq(X) /\ M[k] = Lower(N[k])
  <2>1. \A k \in 1..n : N[k] \in Seq(S)
    BY <1>1, ElementOfSeq
  <2> QED
    BY <1>2, <1>3, <2>1, LowerText
<1>5. M \in Seq(Seq(X)) /\ Len(M) = n
  BY <1>2, <1>4
<1>6. PICK g \in [0..n -> Seq(S)] : /\ g[0] = <<>> /\ g[n] = Joined(N)
                                    /\ \A k \in 1..n : g[k] = Strung(g[k - 1], N[k])
  BY <1>1, JoinedStep
<1>7. PICK h \in [0..n -> Seq(X)] : /\ h[0] = <<>> /\ h[n] = Joined(M)
                                    /\ \A k \in 1..n : h[k] = Strung(h[k - 1], M[k])
  BY <1>3, <1>5, JoinedStep
<1>8. PICK Good : Good = {k \in 0..n : h[k] = Lower(g[k])}
  OBVIOUS
<1>9. 0 \in Good
  BY <1>6, <1>7, <1>8, LowerSlash
<1>10. ASSUME NEW k \in 1..n, k - 1 \in Good PROVE k \in Good
  <2>1. h[k - 1] = Lower(g[k - 1])
    BY <1>8, <1>10
  <2>2. h[k] = Strung(h[k - 1], M[k]) /\ g[k] = Strung(g[k - 1], N[k]) /\ M[k] = Lower(N[k])
    BY <1>4, <1>6, <1>7
  <2>3. k - 1 \in 0..n
    OBVIOUS
  <2>4. g[k - 1] \in Seq(S) /\ N[k] \in Seq(S)
    BY <1>1, <2>3, ElementOfSeq
  <2>5. h[k] = Lower(g[k])
    BY <2>1, <2>2, <2>4, LowerStrung
  <2> QED
    BY <1>8, <2>5
<1>11. n \in Good
  <2>1. \A k \in 1..n : k - 1 \in Good => k \in Good
    BY <1>10
  <2>2. \A k \in 0..n : k \in Good
    BY <1>9, <2>1, AlongRun
  <2> QED
    BY <2>2
<1>12. Joined(M) = Lower(Joined(N))
  BY <1>6, <1>7, <1>8, <1>11
<1> QED
  BY <1>1, <1>2, <1>12

\* Lowercasing leaves a normalized path one.
LEMMA LowerCanonical ==
    ASSUME NEW S, Slash \in S, NEW t, NEW pre, NEW N, NEW post, Canonical(S, t, pre, N, post)
    PROVE  \E M : Canonical(InLower(S), Lower(t), pre, M, post)
<1>1. PICK J : J = Joined(N)
  OBVIOUS
<1>2. /\ pre \in {<<>>, <<Slash>>} /\ post \in {<<>>, <<Slash>>}
      /\ N \in Seq(Named(Seq(S \ {Slash}))) /\ t = (pre \o J) \o post
      /\ N = <<>> => pre = <<Slash>> /\ post = <<>>
      /\ post # <<>> => Len(pre \o J) > 1
  BY <1>1 DEF Canonical
<1>3. N \in Seq(Seq(S))
  <2>1. Named(Seq(S \ {Slash})) \subseteq Seq(S)
    BY DEF Named
  <2> QED
    BY <1>2, <2>1, SeqMonotonic
<1>4. J \in Seq(S)
  BY <1>1, <1>3, JoinedType
<1>5. pre \in Seq(S) /\ post \in Seq(S) /\ Lower(pre) = pre /\ Lower(post) = post
  BY <1>2, Lone, ThenNone, LowerSlash
<1>6. pre \o J \in Seq(S)
  BY <1>4, <1>5, ConcatProperties
<1>7. Lower(t) = (pre \o Lower(J)) \o post /\ Lower(pre \o J) = pre \o Lower(J)
  <2>1. Lower(pre \o J) = pre \o Lower(J)
    BY <1>4, <1>5, LowerThen
  <2>2. Lower((pre \o J) \o post) = Lower(pre \o J) \o post
    BY <1>5, <1>6, LowerThen
  <2> QED
    BY <1>2, <2>1, <2>2
<1>8. Len(pre \o Lower(J)) = Len(pre \o J)
  BY <1>6, <1>7, LowerText
<1>9. PICK M : M = [k \in DOMAIN N |-> Lower(N[k])]
  OBVIOUS
<1>10. Lower(J) = Joined(M)
  BY <1>1, <1>3, <1>9, LowerJoined
<1>11. PICK n \in Nat : n = Len(N) /\ DOMAIN N = 1..n
  BY <1>2
<1>12. \A k \in 1..n : N[k] \in Named(Seq(S \ {Slash}))
  BY <1>2, <1>11, ElementOfSeq
<1>13. PICK Z : Z = Named(Seq(InLower(S) \ {Slash}))
  OBVIOUS
<1>14. \A k \in 1..n : M[k] \in Z
  BY <1>9, <1>11, <1>12, <1>13, LowerNamed
<1>15. M \in Seq(Z) /\ Len(M) = n
  BY <1>9, <1>11, <1>14
<1>16. M = <<>> => N = <<>>
  BY <1>2, <1>11, <1>15
<1> QED
  BY <1>2, <1>7, <1>8, <1>10, <1>13, <1>15, <1>16 DEF Canonical

\* A text is decoded into a text.
LEMMA DecodedText ==
    ASSUME NEW S, NEW t \in Seq(S)
    PROVE  \E X : DecodeOnce(t) \in Seq(X)
<1>1. PICK n \in Nat : n = Len(t) /\ DOMAIN t = 1..n
  OBVIOUS
<1>2. PICK u : u = [k \in 1..n |-> Stripped(t[k], "pct")]
  OBVIOUS
<1>3. u \in Seq({Stripped(t[k], "pct") : k \in 1..n})
  BY <1>2
<1>4. DecodeOnce(t) \in {t, u}
  BY <1>1, <1>2 DEF DecodeOnce, Mapped
<1> QED
  BY <1>3, <1>4

(***************************************************************************)
(* However a path is escaped, a rule that normalizes it and leaves         *)
(* entities alone is given no segment of dots and none that is empty, and  *)
(* NormalizePath would change nothing of what it is given (path.go:5-46).  *)
(***************************************************************************)
THEOREM PathsClean == Spec => []PathClean
<1>1. Answered => PathClean
  <2> SUFFICES ASSUME Answered, outcome # None, outcome.route # NoRoute, NEW i \in DOMAIN engine,
                      NEW q, q = outcome.request,
                      NEW t, t = Normalized(<<Chr(q.method), Space>> \o q.path,
                                            engine[i].transforms \ {"html_entity"}),
                      "normalize_path" \in engine[i].transforms
               PROVE  /\ NormalizePath(t) = t
                      /\ \A k \in 2..(Len(Segments(t)) - 1) : Segments(t)[k] # <<>>
                      /\ \A k \in DOMAIN Segments(t) : Segments(t)[k] \notin {Dot, Dots}
    BY DEF PathClean, Seen
  <2>1. q \in Requests
    BY DEF Answered
  <2>2. PICK S : q.path \in Seq(S)
    BY <2>1, InputAssumption DEF IsText
  <2>3. PICK u : u = <<Chr(q.method), Space>> \o q.path
    OBVIOUS
  <2>4. \E X : u \in Seq(X)
    <3>1. PICK X : X = S \cup {Chr(q.method), Space}
      OBVIOUS
    <3>2. <<Chr(q.method), Space>> \in Seq(X) /\ q.path \in Seq(X)
      <4>1. q.path \in Seq(X)
        BY <2>2, <3>1, SeqMonotonic
      <4>2. <<Chr(q.method), Space>> \in Seq(X)
        BY <3>1
      <4> QED
        BY <4>1, <4>2
    <3> QED
      BY <2>3, <3>2, ConcatProperties
  <2>5. \E X : Decoded(u) \in Seq(X)
    <3>1. PICK X : DecodeOnce(u) \in Seq(X)
      BY <2>4, DecodedText
    <3> QED
      BY <3>1, DecodedText DEF Decoded
  <2>6. PICK X : Slash \in X /\ Decoded(u) \in Seq(X)
    <3>1. PICK Y : Decoded(u) \in Seq(Y)
      BY <2>5
    <3>2. Decoded(u) \in Seq(Y \cup {Slash})
      BY <3>1, SeqMonotonic
    <3> QED
      BY <3>2
  <2>7. PICK path : path = NormalizePath(Decoded(u))
    OBVIOUS
  <2>8. PICK pre, N, post : Canonical(X, path, pre, N, post)
    BY <2>6, <2>7, NormalForm
  <2>9. t = IF "lowercase" \in engine[i].transforms THEN Lower(path) ELSE path
    BY <2>3, <2>7 DEF Normalized
  <2>10. PICK Y, M : Slash \in Y /\ Canonical(Y, t, pre, M, post)
    <3>1. CASE "lowercase" \in engine[i].transforms
      <4>1. \E M : Canonical(InLower(X), Lower(path), pre, M, post)
        BY <2>6, <2>8, LowerCanonical
      <4>2. Slash \in InLower(X)
        BY <2>6, LowerSlash DEF InLower
      <4> QED
        BY <2>9, <3>1, <4>1, <4>2
    <3>2. CASE "lowercase" \notin engine[i].transforms
      BY <2>6, <2>8, <2>9, <3>2
    <3> QED
      BY <3>1, <3>2
  <2> QED
    BY <2>10, CanonicalClean
<1> QED
  BY <1>1, AnsweredOnTheWay, PTL
=============================================================================
