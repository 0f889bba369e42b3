------------------------------- MODULE Rules -------------------------------
(***************************************************************************)
(* internal/normalize and internal/rules: how the text of a request is     *)
(* normalized, how the rules of a configuration are compiled, and what     *)
(* Engine.Evaluate makes of a request.  And, of gateway.go, the text that  *)
(* buildEvalContext makes of it.                                           *)
(*                                                                         *)
(* A text is a sequence of characters, each with the way it is written:    *)
(* code lists the escapes around it, the outermost first: "pct" for a      *)
(* percent escape, "html" for an entity.  A percent sign that no two hex   *)
(* digits follow is the character "%" itself, and a blank of any kind is   *)
(* Space or Newline.  A name, or a credential such as token=..., is one    *)
(* character.  regexp is external (a pattern here is a literal, which (?i) *)
(* may precede).  Of the automaton of aho.go this says what the theorems   *)
(* about AhoMatcher do, which take a character of a pattern to be a byte;  *)
(* where they say nothing, AhoAnswers does, which may be anything.         *)
(***************************************************************************)
EXTENDS Integers, SequencesExt, FiniteSetsExt, Functions

CONSTANTS
    LowerOf,     \* from each letter in upper case to the one in lower case
    Sensitive,   \* headers whose value is withheld from the rules
    SecretKeys,  \* keys of JSON fields whose value is withheld
    Credentials, \* texts that redactSecrets finds in a value
    AhoAnswers,  \* <<patterns, text>> for which an automaton reports a pattern
    MaxLine,     \* bound of the code: characters of a line that a Scanner takes
    MaxFields    \* bound of the code: fields of a JSON body that are looked at

ASSUME FieldAssumption == MaxFields \in Nat

\* What separates headers, fields and segments is no letter, nor is a dot.
ASSUME LetterAssumption ==
    \A c \in DOMAIN LowerOf : {c, LowerOf[c]} \cap {" ", "\n", "/", "."} = {}

Chr(c) == [char |-> c, code |-> <<>>]

IsText(t) ==
    t \in Seq(ToSet(t)) /\ \A e \in ToSet(t) : e = [char |-> e.char, code |-> e.code]

Slash == Chr("/")
Space == Chr(" ")
Newline == Chr("\n")
Mask == Chr("<redacted>")

Bare(e) == e.code = <<>>

\* e without its outermost escape, if that is of this kind.
Stripped(e, kind) ==
    IF e.code # <<>> /\ Head(e.code) = kind THEN [e EXCEPT !.code = Tail(@)] ELSE e

Mapped(t, Op(_)) == [i \in DOMAIN t |-> Op(t[i])]

Lower(t) ==
    Mapped(t, LAMBDA e : IF Bare(e) /\ e.char \in DOMAIN LowerOf
                         THEN Chr(LowerOf[e.char]) ELSE e)

Blank == {Space, Newline}

\* strings.TrimSpace.
Trimmed(t) ==
    LET kept == {i \in DOMAIN t : t[i] \notin Blank}
    IN  IF kept = {} THEN <<>> ELSE SubSeq(t, Min(kept), Max(kept))

\* url.PathUnescape takes one layer off, or fails on a malformed escape.
DecodeOnce(t) ==
    IF Chr("%") \in ToSet(t) THEN t ELSE Mapped(t, LAMBDA e : Stripped(e, "pct"))

\* Variant: one pass only.
DecodedOnce(t) == DecodeOnce(t)

\* The loop of Apply at the depth Engine gives it: when a pass fails or changes
\* nothing, so would the next.
Decoded(t) == DecodeOnce(DecodeOnce(t))

Dot == <<Chr(".")>>
Dots == <<Chr("."), Chr(".")>>

\* Variant: the segments of two dots stay.
ParentsKept(parts) == SelectSeq(parts, LAMBDA p : p \notin {<<>>, Dot})

\* What one segment does to those that remain.
Kept(stack, p) ==
    CASE p \in {<<>>, Dot} -> stack
      [] p = Dots -> IF stack = <<>> THEN <<>> ELSE Front(stack)
      [] OTHER -> Append(stack, p)

\* The segments that remain when those of dots are followed.
Followed(parts) == FoldLeft(Kept, <<>>, parts)

Added(parts, e) ==
    IF e = Slash THEN Append(parts, <<>>)
    ELSE Front(parts) \o <<Append(Last(parts), e)>>

\* strings.Split(t, "/").
Segments(t) == FoldLeft(Added, <<<<>>>>, t)

Strung(t, p) == IF t = <<>> THEN p ELSE t \o <<Slash>> \o p

\* strings.Join(parts, "/").
Joined(parts) == FoldLeft(Strung, <<>>, parts)

NormalizePath(t) ==
    LET body == Joined(Followed(Segments(t)))
        led == IF t # <<>> /\ Head(t) = Slash THEN <<Slash>> \o body ELSE body
    IN  CASE led = <<>> -> <<Slash>>
          [] Len(led) > 1 /\ Last(t) = Slash -> Append(led, Slash)
          [] OTHER -> led

\* applyTransforms: the order is Apply's, whatever that of the list.
Normalized(t, transforms) ==
    LET path == IF "normalize_path" \in transforms THEN NormalizePath(Decoded(t))
                                                   ELSE Decoded(t)
        html == IF "html_entity" \in transforms
                THEN Mapped(path, LAMBDA e : Stripped(e, "html")) ELSE path
    IN  IF "lowercase" \in transforms THEN Lower(html) ELSE html
-----------------------------------------------------------------------------
Transforms == {"lowercase", "html_entity", "normalize_path"}

Phases == {"request_line", "headers", "query", "body"}

\* readPatterns: the lines of a file, trimmed, that are neither blank nor comments.
ReadPatterns(lines) ==
    SelectSeq(Mapped(lines, Trimmed), LAMBDA l : l # <<>> /\ Head(l) # Chr("#"))

ApplyPatternTransforms(patterns, transforms) ==
    IF "lowercase" \in transforms THEN Mapped(patterns, Lower) ELSE patterns

\* What a rule's patterns are read from: the file, or the rule itself.
Patterns(rule, lines) ==
    IF rule.type = "aho"
    THEN ApplyPatternTransforms(ReadPatterns(lines), rule.transforms)
    ELSE <<rule.pattern>>

\* compileRule returns no error, once the file could be read.
Compiles(rule, lines) ==
    rule.transforms \subseteq Transforms /\ Patterns(rule, lines) # <<>>

Compiled(rule, lines) ==
    [phase |-> rule.phase, score |-> rule.score, transforms |-> rule.transforms,
     type |-> rule.type, fold |-> rule.type = "regex" /\ rule.fold,
     patterns |-> Patterns(rule, lines)]

Occurs(p, t) == \E i, j \in 0..Len(t) : p = SubSeq(t, i + 1, j)

\* RegexMatcher.Match.
FindsRegex(rule, t) ==
    \E p \in ToSet(rule.patterns) :
        IF rule.fold THEN Occurs(Lower(p), Lower(t)) ELSE Occurs(p, t)

\* No pattern has the same character twice in a row, nor an escape ...
NoDoubles(patterns) ==
    \A p \in ToSet(patterns) :
        /\ \A i \in DOMAIN p : Bare(p[i])
        /\ \A i \in 1..(Len(p) - 1) : p[i] # p[i + 1]

\* ... and the two characters one begins with come nowhere else in any.
ShortOverlaps(patterns) ==
    \A p, q \in ToSet(patterns) : \A i \in 2..(Len(q) - 1) :
        Len(p) > 1 => <<q[i], q[i + 1]>> # <<p[1], p[2]>>

\* The patterns whose automaton reports one exactly when one occurs.
Tame(patterns) == NoDoubles(patterns) /\ ShortOverlaps(patterns)

\* AhoMatcher.Match: SoundUnlessDoubled and CompleteUnlessOverlapping.
FindsAho(rule, t) ==
    /\ NoDoubles(rule.patterns) => \E p \in ToSet(rule.patterns) : Occurs(p, t)
    /\ ~Tame(rule.patterns) => <<rule.patterns, t>> \in AhoAnswers

\* Matcher.Match.
Finds(rule, t) == IF rule.type = "aho" THEN FindsAho(rule, t) ELSE FindsRegex(rule, t)

\* Engine.Evaluate: the rules that match, and their score.  A phase that
\* selectPhaseInput does not know is passed over.
Hits(engine, ctx) ==
    {i \in DOMAIN engine :
        /\ engine[i].phase \in Phases
        /\ Finds(engine[i], Normalized(ctx[engine[i].phase], engine[i].transforms))}

Scored(engine, hits) ==
    [matches |-> hits, score |-> MapThenSumSet(LAMBDA i : engine[i].score, hits)]

Evaluate(engine, ctx) == Scored(engine, Hits(engine, ctx))
-----------------------------------------------------------------------------
\* redactSecrets.
Redact(t) == Mapped(t, LAMBDA e : IF Bare(e) /\ e.char \in Credentials THEN Mask ELSE e)

\* Variant: the key is not looked at.
RedactText(key, t) == Redact(t)

RedactKeyValue(key, t) ==
    IF key \in SecretKeys /\ t # <<>> THEN <<Mask>> ELSE Redact(t)

\* headersForEval, for one order of the map.
HeadersForEval(headers, order) ==
    FlattenSeq([i \in DOMAIN order |->
        <<Chr(order[i]), Chr(":"), Space>>
          \o (IF order[i] \in Sensitive THEN <<Mask>> ELSE headers[order[i]])
          \o <<Newline>>])

\* Variant: one field short.
LookedButOne(order) == SubSeq(order, 1, Min({MaxFields - 1, Len(order)}))

Looked(order) == SubSeq(order, 1, Min({MaxFields, Len(order)}))

\* What one field adds: nothing if it is empty or nested, which fields gives as <<>>.
FieldForEval(key, val) ==
    IF val = <<>> THEN <<>>
    ELSE <<Chr(key), Chr("=")>> \o RedactKeyValue(key, val) \o <<Space>>

\* shallowJSON, for one order of the map.
ShallowJSON(fields, order) ==
    LET looked == Looked(order)
    IN  Trimmed(FlattenSeq([i \in DOMAIN looked |->
                               FieldForEval(looked[i], fields[looked[i]])]))

\* bodyForEval: the fields of a JSON object, if they give any text, or the body
\* as it is.
BodyForEval(body, order) ==
    IF body.json /\ \E k \in ToSet(Looked(order)) : body.fields[k] # <<>>
    THEN ShallowJSON(body.fields, order)
    ELSE body.raw

NoBody == [json |-> FALSE, fields |-> <<>>, raw |-> <<>>]

\* Variant: as if a rule that comes first were the only one.
FirstReadsBody(engine) == engine # <<>> /\ engine[1].phase = "body"

HasBodyRules(engine) == \E i \in DOMAIN engine : engine[i].phase = "body"

\* readBodyIfNeeded.
BodyRead(engine, mode, q) ==
    IF HasBodyRules(engine) \/ mode \in {"learn", "enforce"} \/ q.chunked
    THEN q.body ELSE NoBody

\* buildEvalContext: Go leaves the order in which maps are ranged over open.
Contexts(q, body) ==
    {[request_line |-> <<Chr(q.method), Space>> \o q.path,
      headers |-> HeadersForEval(q.headers, horder),
      query |-> q.query,
      body |-> BodyForEval(body, border)] :
        horder \in SetToSeqs(DOMAIN q.headers), border \in SetToSeqs(DOMAIN body.fields)}
=============================================================================
