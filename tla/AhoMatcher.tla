----------------------------- MODULE AhoMatcher -----------------------------
(***************************************************************************)
(* internal/rules/aho.go: NewAhoMatcher builds an automaton from the       *)
(* patterns of a file, and Match runs an input through it.                 *)
(*                                                                         *)
(* A node of the trie is the string that leads to it, so the trie itself   *)
(* is the set of the prefixes of the patterns and only the failure links   *)
(* and the outputs have to be computed.  The loops that follow failure     *)
(* links take a step per link, since nothing in them counts; the maps of   *)
(* children are walked in any order, as Go does.                           *)
(***************************************************************************)
EXTENDS Integers, Sequences, FiniteSets

CONSTANTS
    Bytes,
    PatternLists, \* what a patterns file may hold, in order
    Inputs,       \* what Match may be given
    None          \* no pattern: Match answers false

ASSUME StringAssumption ==
    /\ Bytes # {}
    /\ PatternLists \subseteq Seq(Seq(Bytes))
    /\ Inputs \subseteq Seq(Bytes)
    /\ None \notin Seq(Bytes)

Root == <<>>

VARIABLES
    patterns, \* the argument of NewAhoMatcher
    input,    \* the argument of Match
    phase,    \* the loop that is running
    fail, out, \* of each node
    queue,    \* nodes to visit, breadth first
    node,     \* the node visited, then the state of Match
    left,     \* its children still to visit
    letter,   \* the one visited
    probe,    \* where the search for its failure link is
    pos,      \* the byte of the input Match is at
    answer    \* the pattern Match reports, or None

vars == <<patterns, input, phase, fail, out, queue, node, left, letter, probe,
          pos, answer>>

\* The strings of non-empty patterns; empty ones are skipped.
Listed == {patterns[i] : i \in DOMAIN patterns} \ {Root}

Nodes == {Root} \cup UNION {{SubSeq(p, 1, i) : i \in 1..Len(p)} : p \in Listed}

Has(n, b) == Append(n, b) \in Nodes

\* Variant: every byte has a child.
LettersAll(n) == Bytes

Letters(n) == {b \in Bytes : Has(n, b)}

TypeOK ==
    /\ patterns \in PatternLists /\ input \in Inputs
    /\ phase \in {"error", "roots", "next", "visit", "chase", "link",
                  "seek", "take", "done"}
    /\ fail \in [Nodes -> Nodes]
    /\ out \in [Nodes -> Seq(Listed)]
    /\ queue \in Seq(Nodes) /\ node \in Nodes /\ probe \in Nodes
    /\ left \subseteq Bytes /\ letter \in Bytes
    /\ pos \in 1..(Len(input) + 1)
    /\ answer \in Listed \cup {None}

\* A pattern is an output of its node as often as it is listed.
Own(n) ==
    [i \in 1..Cardinality({i \in DOMAIN patterns : patterns[i] = n /\ n # Root}) |-> n]

\* Up to the trie, with the patterns at their nodes.
Init ==
    /\ patterns \in PatternLists /\ input \in Inputs
    /\ phase = IF Nodes = {Root} THEN "error" ELSE "roots"
    /\ fail = [n \in Nodes |-> Root]
    /\ out = [n \in Nodes |-> Own(n)]
    /\ queue = <<>> /\ node = Root /\ probe = Root
    /\ left = Letters(Root) /\ letter = CHOOSE b \in Bytes : TRUE
    /\ pos = 1 /\ answer = None
-----------------------------------------------------------------------------
\* The children of the root, in the order of a map range.
QueueRoot(b) ==
    /\ phase = "roots" /\ b \in left
    /\ queue' = Append(queue, <<b>>)
    /\ left' = left \ {b}
    /\ phase' = IF left' = {} THEN "next" ELSE "roots"
    /\ UNCHANGED <<patterns, input, fail, out, node, letter, probe, pos, answer>>

\* Variant: the node visited stays in the queue.
DequeueKept ==
    /\ phase = "next" /\ queue # <<>>
    /\ node' = Head(queue) /\ UNCHANGED queue
    /\ left' = Letters(node')
    /\ phase' = IF left' = {} THEN "next" ELSE "visit"
    /\ UNCHANGED <<patterns, input, fail, out, letter, probe, pos, answer>>

Dequeue ==
    /\ phase = "next" /\ queue # <<>>
    /\ node' = Head(queue) /\ queue' = Tail(queue)
    /\ left' = Letters(node')
    /\ phase' = IF left' = {} THEN "next" ELSE "visit"
    /\ UNCHANGED <<patterns, input, fail, out, letter, probe, pos, answer>>

Visit(b) ==
    /\ phase = "visit" /\ b \in left
    /\ letter' = b /\ probe' = fail[node] /\ phase' = "chase"
    /\ UNCHANGED <<patterns, input, fail, out, queue, node, left, pos, answer>>

\* for fail != 0: on a match the child is taken here ...
Chase ==
    /\ phase = "chase" /\ probe # Root
    /\ IF Has(probe, letter)
       THEN probe' = Append(probe, letter) /\ phase' = "link"
       ELSE probe' = fail[probe] /\ UNCHANGED phase
    /\ UNCHANGED <<patterns, input, fail, out, queue, node, left, letter, pos,
                   answer>>

\* Variant: a child without a longer suffix is linked to itself.
TargetItself ==
    IF Has(probe, letter) THEN Append(probe, letter) ELSE Append(node, letter)

\* Variant: no failure links but to the root.
TargetRoot == Root

\* ... and its child by the same byte is looked for after it.
Target == IF Has(probe, letter) THEN Append(probe, letter) ELSE Root

Link ==
    /\ phase = "link" \/ (phase = "chase" /\ probe = Root)
    /\ LET child == Append(node, letter)
       IN  /\ fail' = [fail EXCEPT ![child] = Target]
           /\ out' = [out EXCEPT ![child] = @ \o out[Target]]
           /\ queue' = Append(queue, child)
    /\ left' = left \ {letter}
    /\ phase' = IF left' = {} THEN "next" ELSE "visit"
    /\ UNCHANGED <<patterns, input, node, letter, probe, pos, answer>>

\* The automaton is built; Match begins.
Begin ==
    /\ phase = "next" /\ queue = <<>>
    /\ phase' = IF input = <<>> THEN "done" ELSE "seek"
    /\ node' = Root
    /\ UNCHANGED <<patterns, input, fail, out, queue, left, letter, probe, pos,
                   answer>>
-----------------------------------------------------------------------------
\* Variant: without a child the state stays.
SeekStays ==
    /\ phase = "seek" /\ node # Root /\ phase' = "take"
    /\ node' = IF Has(node, input[pos]) THEN Append(node, input[pos]) ELSE node
    /\ UNCHANGED <<patterns, input, fail, out, queue, left, letter, probe, pos,
                   answer>>

\* for state != 0: on a match the child is taken here ...
Seek ==
    /\ phase = "seek" /\ node # Root
    /\ IF Has(node, input[pos])
       THEN node' = Append(node, input[pos]) /\ phase' = "take"
       ELSE node' = fail[node] /\ UNCHANGED phase
    /\ UNCHANGED <<patterns, input, fail, out, queue, left, letter, probe, pos,
                   answer>>

\* The first of a node's outputs.
Reported(n) == IF out[n] = <<>> THEN {} ELSE {Head(out[n])}

\* ... and its child by the same byte after it.
Take ==
    /\ phase = "take" \/ (phase = "seek" /\ node = Root)
    /\ node' = IF Has(node, input[pos]) THEN Append(node, input[pos]) ELSE node
    /\ IF Reported(node') # {}
       THEN answer' \in Reported(node') /\ phase' = "done" /\ UNCHANGED pos
       ELSE /\ pos' = pos + 1 /\ UNCHANGED answer
            /\ phase' = IF pos < Len(input) THEN "seek" ELSE "done"
    /\ UNCHANGED <<patterns, input, fail, out, queue, left, letter, probe>>

Next ==
    \/ \E b \in Bytes : QueueRoot(b) \/ Visit(b)
    \/ Dequeue \/ Chase \/ Link \/ Begin \/ Seek \/ Take

Spec == Init /\ [][Next]_vars /\ WF_vars(Next)
-----------------------------------------------------------------------------
EndsWith(s, t) ==
    Len(t) <= Len(s) /\ SubSeq(s, Len(s) - Len(t) + 1, Len(s)) = t

OccursIn(p, s) == \E i \in 0..Len(s) : EndsWith(SubSeq(s, 1, i), p)

\* No node has the same byte twice in a row.
NoDoubles == \A n \in Nodes : \A i \in 1..(Len(n) - 1) : n[i] # n[i + 1]

\* A proper suffix of a node that is a node too is no longer than a byte.
ShortOverlaps ==
    \A n \in Nodes, m \in Nodes : m # n /\ EndsWith(n, m) => Len(m) <= 1

(***************************************************************************)
(* A pattern that Match reports is in the input, as long as no prefix of   *)
(* a pattern has the same byte twice in a row: the second step of Seek and *)
(* Take, and of Chase and Link, then never moves (aho.go:49-62, 79-89).    *)
(***************************************************************************)
SoundWithoutDoubles ==
    NoDoubles /\ answer # None => EndsWith(SubSeq(input, 1, pos), answer)

(***************************************************************************)
(* Match finds what there is to find when, besides, no pattern overlaps    *)
(* with itself or another by more than a byte: only then are the failure   *)
(* links those of the longest suffix, in whatever order the maps are       *)
(* walked.                                                                 *)
(***************************************************************************)
CompleteWithShortOverlaps ==
    NoDoubles /\ ShortOverlaps /\ phase = "done" =>
        (answer # None <=> \E p \in Listed : OccursIn(p, input))

(***************************************************************************)
(* Building and matching come to an end without such doubled bytes: every  *)
(* failure link then leads to a shorter node, so the loops that follow     *)
(* them stop.                                                              *)
(***************************************************************************)
EndsWithoutDoubles == NoDoubles => <>(phase \in {"done", "error"})

\* The nodes that have not been queued: a prefix, or its child, has yet to be.
Unqueued ==
    {n \in Nodes : \E m \in Nodes :
        /\ Len(m) < Len(n) /\ \A i \in 1..Len(m) : n[i] = m[i]
        /\ \/ \E i \in DOMAIN queue : queue[i] = m
           \/ /\ phase \in {"roots", "visit", "chase", "link"}
              /\ m = node /\ n[Len(m) + 1] \in left}

\* How many phases may follow before more is built or read.
PhasesAhead ==
    [error |-> 0, done |-> 0, take |-> 1, seek |-> 2, next |-> 3,
     link |-> 4, chase |-> 5, visit |-> 6, roots |-> 7]

\* What is left to do, what weighs most first.
Remaining ==
    <<Cardinality(Unqueued), Len(queue), Len(input) + 1 - pos,
      PhasesAhead[phase], Len(IF phase = "seek" THEN node ELSE probe)>>

\* s is a tuple of natural numbers before t in lexicographic order.
Less(s, t) ==
    /\ s \in Seq(Nat)
    /\ \E i \in DOMAIN t : s[i] < t[i] /\ \A j \in 1..(i - 1) : s[j] = t[j]

(***************************************************************************)
(* Why: without such doubled bytes each step of the loops leaves less to   *)
(* do, in an order in which nothing becomes less forever.  A node is       *)
(* queued once, the queue is emptied, the input is read, and between two   *)
(* of these only links to shorter nodes are followed (aho.go:39-66,        *)
(* 76-98).                                                                 *)
(***************************************************************************)
LeavesLess == [][NoDoubles => Less(Remaining', Remaining)]_vars

(***************************************************************************)
(* "Matcher returns true if the input matches" (rules/types.go:49): Match  *)
(* comes to an answer, and it is whether some pattern is in the input.     *)
(***************************************************************************)
Answers ==
    <>(\/ phase = "error"
       \/ phase = "done" /\ (answer # None <=>
                               \E p \in Listed : OccursIn(p, input)))
=============================================================================
