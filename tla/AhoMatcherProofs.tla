-------------------------- MODULE AhoMatcherProofs --------------------------
(***************************************************************************)
(* Proofs about AhoMatcher, for every alphabet, list of patterns and       *)
(* input: what the automaton is while it is built, and that Match reports  *)
(* and finds what it should under the conditions that exclude its bug.     *)
(***************************************************************************)
EXTENDS AhoMatcher, SequenceTheorems, FiniteSetTheorems, TLAPS

(***************************************************************************)
(* String t ends at place i of s; Ends(s, t) says that t is a suffix of s. *)
(* Byte by byte, this is what EndsWith says with SubSeq.                   *)
(***************************************************************************)
EndsAt(s, i, t) ==
    Len(t) <= i /\ \A j \in 1..Len(t) : t[j] = s[i - Len(t) + j]

Ends(s, t) == EndsAt(s, Len(s), t)

Starts(s, t) == Len(t) <= Len(s) /\ \A j \in 1..Len(t) : t[j] = s[j]

-----------------------------------------------------------------------------
(***************************************************************************)
(* Where the loops are.                                                    *)
(***************************************************************************)
Visiting == {"visit", "chase", "link"}

Matching == {"seek", "take"}

Walks ==
    /\ phase = "roots" => left \subseteq Letters(Root)
    /\ phase \in Visiting => node # Root /\ left \subseteq Letters(node)
    /\ phase \in {"chase", "link"} => letter \in Letters(node)
    /\ \A i \in DOMAIN queue : queue[i] # Root
    /\ phase \in Matching => pos <= Len(input)
    /\ phase \notin Matching \cup {"done"} => pos = 1
    /\ phase \in Matching \cup {"done"} => queue = <<>>
    /\ answer # None => phase = "done" /\ pos <= Len(input)

(***************************************************************************)
(* Without doubled bytes: links lead to proper suffixes, outputs are       *)
(* suffixes of their node, and a search is at a suffix of what it read.    *)
(***************************************************************************)
Linked ==
    \A n \in Nodes : Ends(n, fail[n]) /\ (n # Root => Len(fail[n]) < Len(n))

Outputs == \A n \in Nodes : \A i \in DOMAIN out[n] : Ends(n, out[n][i])

Probed ==
    /\ phase = "chase" => Ends(node, probe) /\ Len(probe) < Len(node)
    /\ phase = "link" =>
          /\ probe # Root /\ Len(probe) <= Len(node)
          /\ Ends(Append(node, letter), probe)

Matched ==
    /\ phase = "seek" => EndsAt(input, pos - 1, node)
    /\ phase = "take" => node # Root /\ EndsAt(input, pos, node)

Reports == answer # None => EndsAt(input, pos, answer)

Sound == Linked /\ Outputs /\ Probed /\ Matched /\ Reports

SoundInv == TypeOK /\ Walks /\ (NoDoubles => Sound)

(***************************************************************************)
(* With short overlaps besides: no link is found half way, the link of a   *)
(* node is its last byte where that is a node, or will be once a prefix of *)
(* it in the queue, or being visited, has had its children linked; and a   *)
(* search is at the longest node there is.                                 *)
(***************************************************************************)
Last(n) == <<n[Len(n)]>>

Best(n) == IF Len(n) > 1 /\ Last(n) \in Nodes THEN Last(n) ELSE Root

Settled(n) == fail[n] = Best(n) /\ (Best(n) \in Listed => out[n] # <<>>)

Pending(n) ==
    \E m \in Nodes :
        /\ m # Root /\ Starts(n, m) /\ Len(m) < Len(n)
        /\ \/ \E i \in DOMAIN queue : queue[i] = m
           \/ phase \in Visiting /\ m = node /\ n[Len(m) + 1] \in left
           \/ phase = "roots" /\ Len(m) = 1 /\ n[1] \in left

AllSettled == \A n \in Nodes : Settled(n) \/ Pending(n)

Owned == \A p \in Listed : out[p] # <<>>

NotYet(i) == \A p \in Listed : \A j \in 0..i : ~EndsAt(input, j, p)

Longest ==
    /\ phase = "seek" =>
          \A k \in Nodes : EndsAt(input, pos - 1, k) /\ Has(k, input[pos]) =>
                               Len(k) <= Len(node)
    /\ phase = "take" =>
          \A k \in Nodes : EndsAt(input, pos, k) => Len(k) <= Len(node)

Searched ==
    /\ phase \in Matching => NotYet(pos - 1)
    /\ phase = "done" /\ answer = None => NotYet(Len(input))

Complete == phase # "link" /\ AllSettled /\ Owned /\ Longest /\ Searched

MatchInv == SoundInv /\ (NoDoubles /\ ShortOverlaps => Complete)

-----------------------------------------------------------------------------
(***************************************************************************)
(* Strings.                                                                *)
(***************************************************************************)
LEMMA PartOf ==
    ASSUME NEW S, NEW s \in Seq(S), NEW m \in Nat, NEW n \in Nat,
           1 <= m, n <= Len(s), m <= n + 1
    PROVE  /\ SubSeq(s, m, n) \in Seq(S)
           /\ Len(SubSeq(s, m, n)) = n - m + 1
           /\ \A j \in 1..(n - m + 1) : SubSeq(s, m, n)[j] = s[m + j - 1]
<1>1. m \in Int /\ n \in Int /\ \A i \in m..n : s[i] \in S
  OBVIOUS
<1>2. /\ SubSeq(s, m, n) \in Seq(S)
      /\ Len(SubSeq(s, m, n)) = IF m <= n THEN n - m + 1 ELSE 0
      /\ \A j \in 1..(n - m + 1) : SubSeq(s, m, n)[j] = s[m + j - 1]
  BY <1>1, SubSeqProperties
<1> QED BY <1>2

LEMMA EndsWithIs ==
    ASSUME NEW S, NEW s \in Seq(S), NEW t \in Seq(S), NEW i \in 0..Len(s)
    PROVE  EndsWith(SubSeq(s, 1, i), t) <=> EndsAt(s, i, t)
<1>1. Len(s) \in Nat /\ Len(t) \in Nat /\ i \in Nat
  OBVIOUS
<1>2. PICK u \in Seq(S) :
        u = SubSeq(s, 1, i) /\ Len(u) = i /\ \A j \in 1..i : u[j] = s[j]
  <2>1. PICK u : u = SubSeq(s, 1, i)
    OBVIOUS
  <2>2. 1 \in Nat /\ i \in Nat /\ 1 <= 1 /\ i <= Len(s) /\ 1 <= i + 1
    BY <1>1
  <2>3. /\ u \in Seq(S) /\ Len(u) = i - 1 + 1
        /\ \A j \in 1..(i - 1 + 1) : u[j] = s[1 + j - 1]
    BY <2>1, <2>2, PartOf
  <2>4. i - 1 + 1 = i /\ \A j \in 1..i : 1 + j - 1 = j
    BY <1>1
  <2>5. Len(u) = i /\ \A j \in 1..i : u[j] = s[j]
    BY <2>3, <2>4
  <2> QED BY <2>1, <2>3, <2>5
<1>3. CASE Len(t) <= i
  <2>0. /\ i - Len(t) + 1 \in Nat /\ 1 <= i - Len(t) + 1
        /\ i - Len(t) + 1 <= i + 1
    BY <1>1, <1>3
  <2>1. PICK m \in Nat : m = i - Len(t) + 1 /\ 1 <= m /\ m <= i + 1
    BY <2>0
  <2>2. PICK v : v = SubSeq(u, m, i)
    OBVIOUS
  <2>3. /\ v \in Seq(S) /\ Len(v) = i - m + 1
        /\ \A j \in 1..(i - m + 1) : v[j] = u[m + j - 1]
    <3>1. 1 <= m /\ i <= Len(u) /\ m <= i + 1
      BY <1>1, <1>2, <2>1
    <3> QED BY <1>1, <2>2, <3>1, PartOf
  <2>4. /\ Len(v) = Len(t)
        /\ \A j \in 1..Len(t) : v[j] = s[i - Len(t) + j]
    BY <1>1, <1>2, <2>1, <2>3
  <2>5. v = t <=> \A j \in 1..Len(t) : t[j] = s[i - Len(t) + j]
    <3>1. ASSUME \A j \in 1..Len(t) : t[j] = s[i - Len(t) + j]
          PROVE  v = t
      BY <2>3, <2>4, <3>1, SeqEqual
    <3> QED BY <2>4, <3>1
  <2>6. EndsWith(u, t) <=> v = t
    BY <1>2, <1>3, <2>1, <2>2 DEF EndsWith
  <2> QED BY <1>2, <1>3, <2>5, <2>6 DEF EndsAt
<1>4. CASE ~(Len(t) <= i)
  BY <1>2, <1>4 DEF EndsWith, EndsAt
<1> QED BY <1>3, <1>4

LEMMA SuffixIs ==
    ASSUME NEW S, NEW s \in Seq(S), NEW t \in Seq(S)
    PROVE  EndsWith(s, t) <=> Ends(s, t)
<1>1. Len(s) \in 0..Len(s) /\ SubSeq(s, 1, Len(s)) = s
  BY SubSeqFull
<1> QED BY <1>1, EndsWithIs DEF Ends

LEMMA Appended ==
    ASSUME NEW S, NEW t \in Seq(S), NEW b \in S
    PROVE  /\ Append(t, b) \in Seq(S) /\ Append(t, b) # <<>>
           /\ Len(Append(t, b)) = Len(t) + 1 /\ Append(t, b)[Len(t) + 1] = b
           /\ \A j \in 1..Len(t) : Append(t, b)[j] = t[j]
OBVIOUS

LEMMA Joined ==
    ASSUME NEW S, NEW s \in Seq(S), NEW t \in Seq(S), NEW i \in DOMAIN (s \o t)
    PROVE  /\ s \o t \in Seq(S)
           /\ \/ i \in DOMAIN s /\ (s \o t)[i] = s[i]
              \/ \E j \in DOMAIN t : (s \o t)[i] = t[j]
<1>1. /\ Len(s) \in Nat /\ Len(t) \in Nat /\ s \o t \in Seq(S)
      /\ DOMAIN s = 1..Len(s) /\ DOMAIN t = 1..Len(t)
      /\ Len(s \o t) = Len(s) + Len(t)
      /\ \A j \in 1..(Len(s) + Len(t)) :
            (s \o t)[j] = IF j <= Len(s) THEN s[j] ELSE t[j - Len(s)]
  BY ConcatProperties
<1>2. i \in 1..(Len(s) + Len(t))
  BY <1>1
<1>3. CASE i <= Len(s)
  BY <1>1, <1>2, <1>3
<1>4. CASE ~(i <= Len(s))
  <2>1. i - Len(s) \in 1..Len(t)
    BY <1>1, <1>2, <1>4
  <2> QED BY <1>1, <1>2, <1>4, <2>1
<1> QED BY <1>3, <1>4

\* One byte more.
LEMMA EndsMore ==
    ASSUME NEW S, NEW s \in Seq(S), NEW t \in Seq(S), NEW i \in 1..Len(s)
    PROVE  EndsAt(s, i - 1, t) <=> EndsAt(s, i, Append(t, s[i]))
<1>0. s[i] \in S
  OBVIOUS
<1>a. PICK u : u = Append(t, s[i])
  OBVIOUS
<1>1. /\ u \in Seq(S) /\ Len(u) = Len(t) + 1 /\ u[Len(t) + 1] = s[i]
      /\ \A j \in 1..Len(t) : u[j] = t[j]
  BY <1>0, <1>a, Appended
<1>2. Len(t) \in Nat /\ Len(s) \in Nat
  OBVIOUS
<1>3. Len(t) <= i - 1 <=> Len(u) <= i
  BY <1>1, <1>2
<1>4. ASSUME Len(t) <= i - 1
      PROVE  (\A j \in 1..Len(t) : t[j] = s[i - 1 - Len(t) + j])
                <=> (\A j \in 1..Len(u) : u[j] = s[i - Len(u) + j])
  <2>1. \A j \in 1..Len(t) : i - Len(u) + j = i - 1 - Len(t) + j
    BY <1>1, <1>2
  <2>2. i - Len(u) + Len(u) = i
    BY <1>1, <1>2
  <2>3. \A j \in 1..Len(u) : j \in 1..Len(t) \/ j = Len(u)
    BY <1>1, <1>2
  <2>4. \A j \in 1..Len(t) : j \in 1..Len(u)
    BY <1>1, <1>2
  <2> QED BY <1>1, <2>1, <2>2, <2>3, <2>4
<1> QED BY <1>1, <1>3, <1>4, <1>a DEF EndsAt

LEMMA EndsTransitive ==
    ASSUME NEW S, NEW s \in Seq(S), NEW t \in Seq(S), NEW u \in Seq(S),
           NEW i \in 0..Len(s), EndsAt(s, i, t), Ends(t, u)
    PROVE  EndsAt(s, i, u)
<1>1. /\ Len(s) \in Nat /\ Len(t) \in Nat /\ Len(u) \in Nat
      /\ Len(t) <= i /\ Len(u) <= Len(t)
  BY DEF EndsAt, Ends
<1>2. \A j \in 1..Len(u) : /\ u[j] = t[Len(t) - Len(u) + j]
                           /\ Len(t) - Len(u) + j \in 1..Len(t)
  BY <1>1 DEF EndsAt, Ends
<1>3. \A j \in 1..Len(u) : t[Len(t) - Len(u) + j] = s[i - Len(u) + j]
  <2>1. \A k \in 1..Len(t) : t[k] = s[i - Len(t) + k]
    BY DEF EndsAt
  <2> SUFFICES ASSUME NEW j \in 1..Len(u)
               PROVE  t[Len(t) - Len(u) + j] = s[i - Len(u) + j]
    OBVIOUS
  <2>2. PICK k \in 1..Len(t) : k = Len(t) - Len(u) + j
    BY <1>2
  <2>3. i - Len(t) + k = i - Len(u) + j
    BY <1>1, <2>2
  <2> QED BY <2>1, <2>2, <2>3
<1> QED BY <1>1, <1>2, <1>3 DEF EndsAt

LEMMA EndsGrown ==
    ASSUME NEW S, NEW s \in Seq(S), NEW t \in Seq(S), NEW b \in S, Ends(s, t)
    PROVE  Ends(Append(s, b), Append(t, b))
<1>1. PICK u : u = Append(s, b)
  OBVIOUS
<1>2. /\ u \in Seq(S) /\ Len(u) = Len(s) + 1 /\ u[Len(s) + 1] = b
      /\ \A j \in 1..Len(s) : u[j] = s[j]
  BY <1>1, Appended
<1>3. Len(s) \in Nat /\ Len(t) \in Nat
  OBVIOUS
<1>4. Len(u) \in 1..Len(u) /\ Len(u) - 1 = Len(s)
  BY <1>2, <1>3
<1>5. EndsAt(u, Len(u) - 1, t)
  <2>1. \A j \in 1..Len(t) : Len(s) - Len(t) + j \in 1..Len(s)
    BY <1>3 DEF Ends, EndsAt
  <2> QED BY <1>2, <1>4, <2>1 DEF Ends, EndsAt
<1>6. EndsAt(u, Len(u), Append(t, u[Len(u)]))
  BY <1>2, <1>4, <1>5, EndsMore
<1> QED BY <1>1, <1>2, <1>6 DEF Ends

\* Of two strings that end at one place, the shorter is a suffix of the longer.
LEMMA ShorterEnds ==
    ASSUME NEW S, NEW s \in Seq(S), NEW t \in Seq(S), NEW u \in Seq(S),
           NEW i \in 0..Len(s), EndsAt(s, i, t), EndsAt(s, i, u),
           Len(u) <= Len(t)
    PROVE  Ends(t, u) /\ (Len(u) = Len(t) => u = t)
<1>1. Len(s) \in Nat /\ Len(t) \in Nat /\ Len(u) \in Nat /\ Len(t) <= i
  BY DEF EndsAt
<1>2. ASSUME NEW j \in 1..Len(u)
      PROVE  u[j] = t[Len(t) - Len(u) + j]
  <2>0. Len(t) - Len(u) + j \in 1..Len(t)
    BY <1>1
  <2>1. PICK k \in 1..Len(t) : k = Len(t) - Len(u) + j
    BY <2>0
  <2>2. t[k] = s[i - Len(t) + k] /\ u[j] = s[i - Len(u) + j]
    BY DEF EndsAt
  <2>3. i - Len(t) + k = i - Len(u) + j
    BY <1>1, <2>1
  <2> QED BY <2>1, <2>2, <2>3
<1>3. Ends(t, u)
  BY <1>2 DEF Ends, EndsAt
<1>4. ASSUME Len(u) = Len(t)
      PROVE  u = t
  <2>1. \A j \in 1..Len(u) : u[j] = t[j]
    BY <1>1, <1>2, <1>4
  <2> QED BY <1>4, <2>1, SeqEqual
<1> QED BY <1>3, <1>4

\* What a string that is not empty ends with, and what it ends.
LEMMA EndsLast ==
    ASSUME NEW S, NEW s \in Seq(S), NEW t \in Seq(S),
           NEW i \in 0..Len(s), EndsAt(s, i, t), t # <<>>
    PROVE  i \in 1..Len(s) /\ t[Len(t)] = s[i]
<1>1. Len(t) \in Nat \ {0} /\ Len(s) \in Nat /\ Len(t) <= i
  BY DEF EndsAt
<1>2. Len(t) \in 1..Len(t) /\ i - Len(t) + Len(t) = i
  BY <1>1
<1> QED BY <1>1, <1>2 DEF EndsAt

LEMMA EndsEmpty ==
    ASSUME NEW S, NEW s \in Seq(S), NEW i \in Nat
    PROVE  EndsAt(s, i, <<>>)
BY DEF EndsAt

\* A string that is not empty is its beginning and its last byte.
LEMMA BeforeLast ==
    ASSUME NEW S, NEW t \in Seq(S), t # <<>>
    PROVE  \E u \in Seq(S) : /\ t = Append(u, t[Len(t)]) /\ t[Len(t)] \in S
                             /\ Len(u) = Len(t) - 1 /\ Starts(t, u)
<1>1. Len(t) \in Nat \ {0}
  OBVIOUS
<1>2. PICK n \in Nat : n = Len(t) - 1
  BY <1>1
<1>3. PICK u : u = SubSeq(t, 1, n)
  OBVIOUS
<1>4. /\ u \in Seq(S) /\ Len(u) = n - 1 + 1
      /\ \A j \in 1..(n - 1 + 1) : u[j] = t[1 + j - 1]
  BY <1>1, <1>2, <1>3, PartOf
<1>5. Len(u) = Len(t) - 1 /\ \A j \in 1..Len(u) : u[j] = t[j]
  BY <1>1, <1>2, <1>4
<1>6. t[Len(t)] \in S
  BY <1>1
<1>a. PICK v : v = Append(u, t[Len(t)])
  OBVIOUS
<1>7. /\ v \in Seq(S) /\ Len(v) = Len(u) + 1
      /\ v[Len(u) + 1] = t[Len(t)] /\ \A j \in 1..Len(u) : v[j] = u[j]
  BY <1>4, <1>6, <1>a, Appended
<1>8. Len(v) = Len(t) /\ \A j \in 1..Len(v) : v[j] = t[j]
  <2>1. \A j \in 1..Len(v) : j \in 1..Len(u) \/ j = Len(u) + 1
    BY <1>4, <1>7
  <2>2. Len(u) + 1 = Len(t)
    BY <1>1, <1>5
  <2> QED BY <1>5, <1>7, <2>1, <2>2
<1>9. v = t
  BY <1>7, <1>8, SeqEqual
<1> QED BY <1>1, <1>4, <1>5, <1>6, <1>9, <1>a DEF Starts

-----------------------------------------------------------------------------
(***************************************************************************)
(* The trie.                                                               *)
(***************************************************************************)
LEMMA TrieFacts ==
    ASSUME patterns \in PatternLists
    PROVE  /\ Nodes \subseteq Seq(Bytes) /\ Root \in Nodes
           /\ Listed \subseteq Nodes /\ Root \notin Listed
           /\ None \notin Seq(Bytes)
           /\ \A n \in Nodes : \A m \in Seq(Bytes) : Starts(n, m) => m \in Nodes
           /\ \A n : Letters(n) \subseteq Bytes
<1>1. \A p \in Listed : p \in Seq(Bytes) /\ p # Root /\ Len(p) \in Nat
  <2>1. patterns \in Seq(Seq(Bytes))
    BY StringAssumption
  <2> QED BY <2>1 DEF Listed
<1>2. ASSUME NEW p \in Listed, NEW i \in 1..Len(p)
      PROVE  /\ SubSeq(p, 1, i) \in Seq(Bytes) /\ Len(SubSeq(p, 1, i)) = i
             /\ \A j \in 1..i : SubSeq(p, 1, i)[j] = p[j]
  <2>1. p \in Seq(Bytes) /\ i \in Nat /\ i <= Len(p) /\ 1 <= i + 1 /\ 1 <= 1
    BY <1>1
  <2>2. PICK u : u = SubSeq(p, 1, i)
    OBVIOUS
  <2>3. /\ u \in Seq(Bytes) /\ Len(u) = i - 1 + 1
        /\ \A j \in 1..(i - 1 + 1) : u[j] = p[1 + j - 1]
    BY <2>1, <2>2, PartOf
  <2>4. i - 1 + 1 = i /\ \A j \in 1..i : 1 + j - 1 = j
    BY <2>1
  <2> QED BY <2>2, <2>3, <2>4
<1>3. \A n : n \in Nodes <=>
          n = Root \/ \E p \in Listed : \E i \in 1..Len(p) : n = SubSeq(p, 1, i)
  <2> DEFINE Prefixes(p) == {SubSeq(p, 1, i) : i \in 1..Len(p)}
  <2>1. \A n, p : n \in Prefixes(p) <=> \E i \in 1..Len(p) : n = SubSeq(p, 1, i)
    OBVIOUS
  <2>2. Nodes = {Root} \cup UNION {Prefixes(p) : p \in Listed}
    BY DEF Nodes
  <2> HIDE DEF Prefixes
  <2>3. \A n : n \in Nodes <=> n = Root \/ \E p \in Listed : n \in Prefixes(p)
    BY <2>2
  <2> QED BY <2>1, <2>3
<1>4. Nodes \subseteq Seq(Bytes) /\ Root \in Nodes
  <2>1. Root \in Seq(Bytes)
    BY DEF Root
  <2> QED BY <1>2, <1>3, <2>1
<1>5. ASSUME NEW p \in Listed
      PROVE  p \in Nodes
  <2>1. Len(p) \in 1..Len(p)
    BY <1>1 DEF Root
  <2>2. SubSeq(p, 1, Len(p)) = p
    BY <1>1, SubSeqFull
  <2> QED BY <1>3, <2>1, <2>2
<1>6. ASSUME NEW n \in Nodes, NEW m \in Seq(Bytes), Starts(n, m)
      PROVE  m \in Nodes
  <2>1. CASE m = Root
    BY <2>1, <1>4
  <2>2. CASE m # Root
    <3>1. Len(m) \in Nat \ {0} /\ Len(m) <= Len(n)
      BY <1>6, <2>2 DEF Starts, Root
    <3>2. n # Root
      BY <3>1 DEF Root
    <3>a. PICK p \in Listed : \E i \in 1..Len(p) : n = SubSeq(p, 1, i)
      BY <1>3, <3>2
    <3>3. PICK i \in 1..Len(p) : n = SubSeq(p, 1, i)
      BY <3>a
    <3>4. Len(n) = i /\ \A j \in 1..i : n[j] = p[j]
      BY <1>2, <3>3
    <3>5. Len(m) \in 1..Len(p) /\ Len(p) \in Nat
      BY <1>1, <3>1, <3>4
    <3>6. PICK u : u = SubSeq(p, 1, Len(m))
      OBVIOUS
    <3>7. u \in Seq(Bytes) /\ Len(u) = Len(m) /\ \A j \in 1..Len(m) : u[j] = p[j]
      BY <1>2, <3>5, <3>6
    <3>8. \A j \in 1..Len(m) : m[j] = p[j]
      BY <1>6, <3>1, <3>4 DEF Starts
    <3>9. u = m
      BY <3>7, <3>8, SeqEqual
    <3> QED BY <1>3, <3>5, <3>6, <3>9
  <2> QED BY <2>1, <2>2
<1>7. \A n : Letters(n) \subseteq Bytes
  BY DEF Letters
<1> QED BY <1>1, <1>4, <1>5, <1>6, <1>7, StringAssumption

\* Nothing writes to the patterns.
LEMMA SameTrie ==
    ASSUME patterns' = patterns
    PROVE  /\ Nodes' = Nodes /\ Listed' = Listed
           /\ \A n, b : Has(n, b)' <=> Has(n, b)
           /\ \A n : Letters(n)' = Letters(n)
           /\ \A n : Best(n)' = Best(n)
           /\ NoDoubles' <=> NoDoubles
           /\ ShortOverlaps' <=> ShortOverlaps
<1>1. Listed' = Listed
  BY DEF Listed
<1>2. Nodes' = Nodes
  BY <1>1 DEF Nodes
<1> QED BY <1>1, <1>2 DEF Has, Letters, Best, Last, NoDoubles, ShortOverlaps

\* What type correctness gives a proof about strings.
LEMMA Typed ==
    ASSUME TypeOK
    PROVE  /\ patterns \in PatternLists /\ input \in Seq(Bytes)
           /\ Len(input) \in Nat /\ pos \in Nat /\ pos \in 1..(Len(input) + 1)
           /\ Nodes \subseteq Seq(Bytes) /\ Root \in Nodes
           /\ Listed \subseteq Nodes /\ Root \notin Listed /\ Root = <<>>
           /\ node \in Nodes /\ node \in Seq(Bytes)
           /\ probe \in Nodes /\ probe \in Seq(Bytes)
           /\ \A i \in 1..Len(input) : input[i] \in Bytes
           /\ \A n \in Nodes : fail[n] \in Nodes /\ out[n] \in Seq(Listed)
<1>1. patterns \in PatternLists /\ input \in Seq(Bytes)
  BY StringAssumption DEF TypeOK
<1>2. /\ Nodes \subseteq Seq(Bytes) /\ Root \in Nodes
      /\ Listed \subseteq Nodes /\ Root \notin Listed
  BY <1>1, TrieFacts
<1> QED BY <1>1, <1>2 DEF TypeOK, Root

LEMMA SoundInit == Init => SoundInv
<1> SUFFICES ASSUME Init PROVE SoundInv
  OBVIOUS
<1>1. /\ patterns \in PatternLists /\ input \in Inputs
      /\ fail = [n \in Nodes |-> Root] /\ out = [n \in Nodes |-> Own(n)]
      /\ queue = <<>> /\ node = Root /\ probe = Root
      /\ left = Letters(Root) /\ pos = 1 /\ answer = None
      /\ phase \in {"error", "roots"}
  BY DEF Init
<1>2. /\ Nodes \subseteq Seq(Bytes) /\ Root \in Nodes /\ Root = <<>>
      /\ patterns \in Seq(Seq(Bytes)) /\ input \in Seq(Bytes)
      /\ \A n : Letters(n) \subseteq Bytes
  BY <1>1, TrieFacts, StringAssumption DEF Root
<1>3. ASSUME NEW n \in Nodes
      PROVE  Own(n) \in Seq(Listed) /\ \A i \in DOMAIN Own(n) : Own(n)[i] = n
  <2> DEFINE at == {i \in DOMAIN patterns : patterns[i] = n /\ n # Root}
  <2>1. IsFiniteSet(DOMAIN patterns)
    BY <1>2, FS_Interval
  <2>2. at \in SUBSET (DOMAIN patterns)
    OBVIOUS
  <2>3. IsFiniteSet(at)
    BY <2>1, <2>2, FS_Subset
  <2>4. PICK k \in Nat : k = Cardinality(at)
    BY <2>3, FS_CardinalityType
  <2>5. Own(n) = [i \in 1..k |-> n]
    BY <2>4 DEF Own
  <2>6. k # 0 => n \in Listed
    <3>1. k # 0 => at # {}
      BY <2>4, FS_EmptySet
    <3> QED BY <3>1 DEF Listed
  <2> HIDE DEF at
  <2> QED BY <2>5, <2>6
<1>4. TypeOK
  <2>1. \E b : b \in Bytes
    BY StringAssumption
  <2>2. letter \in Bytes
    BY <2>1 DEF Init
  <2>3. fail \in [Nodes -> Nodes] /\ out \in [Nodes -> Seq(Listed)]
    BY <1>1, <1>2, <1>3
  <2>4. queue \in Seq(Nodes) /\ pos \in 1..(Len(input) + 1)
    BY <1>1, <1>2
  <2> QED BY <1>1, <1>2, <2>2, <2>3, <2>4 DEF TypeOK
<1>5. Walks
  BY <1>1 DEF Walks, Visiting, Matching
<1>6. Sound
  <2>1. \A n \in Nodes : Len(n) \in Nat /\ (n # Root => Len(n) > 0) /\ Len(Root) = 0
    BY <1>2
  <2>2. \A n \in Nodes : EndsAt(n, Len(n), Root) /\ EndsAt(n, Len(n), n)
    BY <1>2, <2>1 DEF EndsAt
  <2>3. Linked
    BY <1>1, <2>1, <2>2 DEF Linked, Ends
  <2>4. Outputs
    BY <1>1, <1>3, <2>2 DEF Outputs, Ends
  <2> QED BY <1>1, <2>3, <2>4 DEF Sound, Probed, Matched, Reports
<1> QED BY <1>4, <1>5, <1>6 DEF SoundInv

-----------------------------------------------------------------------------
(***************************************************************************)
(* Steps that link nothing.                                                *)
(***************************************************************************)
\* Without doubled bytes, no node goes on with its last byte.
LEMMA NoDoubled ==
    ASSUME TypeOK, NoDoubles, NEW n \in Nodes, n # Root, NEW b \in Bytes, Has(n, b)
    PROVE  n[Len(n)] # b
<1>1. n \in Seq(Bytes) /\ Len(n) \in Nat \ {0}
  BY Typed
<1>2. PICK u : u = Append(n, b)
  OBVIOUS
<1>3. /\ u \in Nodes /\ Len(u) = Len(n) + 1 /\ u[Len(n) + 1] = b
      /\ u[Len(n)] = n[Len(n)]
  <2>1. Len(n) \in 1..Len(n)
    BY <1>1
  <2> QED BY <1>1, <1>2, <2>1, Appended DEF Has
<1>4. Len(n) \in 1..(Len(u) - 1)
  BY <1>1, <1>3
<1> QED BY <1>3, <1>4 DEF NoDoubles

LEMMA Frame ==
    ASSUME SoundInv, UNCHANGED <<patterns, input, fail, out>>, TypeOK', Walks',
           NoDoubles => Probed' /\ Matched' /\ Reports'
    PROVE  SoundInv'
<1>1. Nodes' = Nodes /\ (NoDoubles' <=> NoDoubles)
  BY SameTrie
<1>2. Linked => Linked'
  BY <1>1 DEF Linked
<1>3. Outputs => Outputs'
  BY <1>1 DEF Outputs
<1> QED BY <1>1, <1>2, <1>3 DEF SoundInv, Sound

LEMMA QueueRootSound ==
    ASSUME SoundInv, NEW b \in Bytes, QueueRoot(b)
    PROVE  SoundInv'
<1>1. /\ phase = "roots" /\ b \in Letters(Root)
      /\ left \subseteq Letters(Root) /\ left' \subseteq left
      /\ queue' = Append(queue, <<b>>) /\ phase' \in {"roots", "next"}
      /\ UNCHANGED <<patterns, input, fail, out, node, letter, probe, pos, answer>>
  BY DEF QueueRoot, SoundInv, Walks
<1>2. <<b>> \in Nodes /\ <<b>> # Root
  BY <1>1 DEF Letters, Has, Root
<1>3. /\ Nodes' = Nodes /\ Listed' = Listed /\ Letters(Root)' = Letters(Root)
  BY <1>1, SameTrie
<1>4. queue' \in Seq(Nodes) /\ \A i \in DOMAIN queue' : queue'[i] # Root
  BY <1>1, <1>2 DEF SoundInv, TypeOK, Walks
<1>5. TypeOK'
  BY <1>1, <1>3, <1>4 DEF SoundInv, TypeOK
<1>6. Walks'
  BY <1>1, <1>3, <1>4 DEF SoundInv, Walks, Visiting, Matching
<1>7. NoDoubles => Probed' /\ Matched' /\ Reports'
  BY <1>1 DEF SoundInv, Sound, Probed, Matched, Reports, EndsAt
<1> QED BY <1>1, <1>5, <1>6, <1>7, Frame

LEMMA DequeueSound ==
    ASSUME SoundInv, Dequeue
    PROVE  SoundInv'
<1>1. /\ phase = "next" /\ queue # <<>> /\ node' = Head(queue)
      /\ queue' = Tail(queue) /\ left' = Letters(node')
      /\ phase' \in {"next", "visit"}
      /\ UNCHANGED <<patterns, input, fail, out, letter, probe, pos, answer>>
  BY DEF Dequeue
<1>2. /\ Nodes' = Nodes /\ Listed' = Listed
      /\ \A n : Letters(n)' = Letters(n) /\ Letters(n) \subseteq Bytes
  BY <1>1, SameTrie, TrieFacts DEF SoundInv, TypeOK
<1>3. /\ queue \in Seq(Nodes) /\ Len(queue) \in Nat \ {0}
      /\ \A i \in 1..Len(queue) : queue[i] \in Nodes /\ queue[i] # Root
  BY <1>1 DEF SoundInv, TypeOK, Walks
<1>4. node' \in Nodes /\ node' # Root
  BY <1>1, <1>3
<1>5. queue' \in Seq(Nodes) /\ \A i \in DOMAIN queue' : queue'[i] # Root
  BY <1>1, <1>3
<1>6. TypeOK'
  BY <1>1, <1>2, <1>4, <1>5 DEF SoundInv, TypeOK
<1>7. left' = {b \in Bytes : Append(node', b) \in Nodes}
  BY <1>1 DEF Letters, Has
<1>8. Walks'
  BY <1>1, <1>2, <1>4, <1>5, <1>7
     DEF SoundInv, Walks, Visiting, Matching, Letters, Has
<1>9. NoDoubles => Probed' /\ Matched' /\ Reports'
  BY <1>1 DEF SoundInv, Sound, Probed, Matched, Reports, EndsAt
<1> QED BY <1>1, <1>6, <1>8, <1>9, Frame

LEMMA VisitSound ==
    ASSUME SoundInv, NEW b \in Bytes, Visit(b)
    PROVE  SoundInv'
<1>1. /\ phase = "visit" /\ b \in left /\ letter' = b /\ probe' = fail[node]
      /\ phase' = "chase" /\ node # Root /\ left \subseteq Letters(node)
      /\ UNCHANGED <<patterns, input, fail, out, queue, node, left, pos, answer>>
  BY DEF Visit, SoundInv, Walks, Visiting
<1>2. /\ Nodes' = Nodes /\ Listed' = Listed /\ \A n : Letters(n)' = Letters(n)
  BY <1>1, SameTrie
<1>3. probe' \in Nodes /\ node \in Nodes
  BY <1>1 DEF SoundInv, TypeOK
<1>4. TypeOK'
  BY <1>1, <1>2, <1>3 DEF SoundInv, TypeOK
<1>5. Letters(node)' = Letters(node)
  BY <1>1, <1>2
<1>6. Walks'
  BY <1>1, <1>5 DEF SoundInv, Walks, Visiting, Matching
<1>7. NoDoubles => Probed' /\ Matched' /\ Reports'
  <2>1. NoDoubles => Ends(node, fail[node]) /\ Len(fail[node]) < Len(node)
    BY <1>1, <1>3 DEF SoundInv, Sound, Linked
  <2>2. NoDoubles => Probed'
    BY <1>1, <2>1 DEF Probed, Ends, EndsAt
  <2> QED BY <1>1, <2>2 DEF SoundInv, Sound, Matched, Reports, EndsAt
<1> QED BY <1>1, <1>4, <1>6, <1>7, Frame

LEMMA ChaseSound ==
    ASSUME SoundInv, Chase
    PROVE  SoundInv'
<1>1. /\ phase = "chase" /\ probe # Root /\ node # Root
      /\ letter \in Letters(node) /\ phase' \in {"chase", "link"}
      /\ UNCHANGED <<patterns, input, fail, out, queue, node, left, letter,
                     pos, answer>>
  BY DEF Chase, SoundInv, Walks, Visiting
<1>2. /\ Nodes' = Nodes /\ Listed' = Listed /\ \A n : Letters(n)' = Letters(n)
  BY <1>1, SameTrie
<1>3. /\ node \in Seq(Bytes) /\ probe \in Seq(Bytes) /\ probe \in Nodes
      /\ letter \in Bytes /\ Nodes \subseteq Seq(Bytes)
      /\ fail[probe] \in Nodes /\ fail[probe] \in Seq(Bytes)
  BY Typed DEF SoundInv, TypeOK
<1>4. probe' \in Nodes
  BY <1>3 DEF Chase, Has
<1>5. TypeOK'
  BY <1>1, <1>2, <1>4 DEF SoundInv, TypeOK
<1>6. Walks'
  BY <1>1, <1>2 DEF SoundInv, Walks, Visiting, Matching, Letters, Has
<1>7. ASSUME NoDoubles
      PROVE  Probed'
  <2>1. Ends(node, probe) /\ Len(probe) < Len(node)
    BY <1>1, <1>7 DEF SoundInv, Sound, Probed
  <2>2. CASE Has(probe, letter)
    <3>1. phase' = "link" /\ probe' = Append(probe, letter)
      BY <2>2 DEF Chase
    <3>2. probe' # Root /\ Len(probe') = Len(probe) + 1
      BY <1>3, <3>1, Appended DEF Root
    <3>3. Len(probe') <= Len(node)
      BY <1>3, <2>1, <3>2
    <3>4. Ends(Append(node, letter), probe')
      BY <1>3, <2>1, <3>1, EndsGrown
    <3>5. Ends(Append(node, letter), probe)'
      BY <1>1, <3>4 DEF Ends, EndsAt
    <3> QED BY <1>1, <3>1, <3>2, <3>3, <3>5 DEF Probed
  <2>3. CASE ~Has(probe, letter)
    <3>1. phase' = "chase" /\ probe' = fail[probe]
      BY <1>1, <2>3 DEF Chase
    <3>2. Ends(probe, fail[probe]) /\ Len(fail[probe]) < Len(probe)
      BY <1>1, <1>3, <1>7 DEF SoundInv, Sound, Linked
    <3>3. Len(node) \in 0..Len(node) /\ EndsAt(node, Len(node), probe)
      BY <1>3, <2>1 DEF Ends
    <3>4. Ends(node, fail[probe])
      BY <1>3, <3>2, <3>3, EndsTransitive DEF Ends
    <3>5. Len(fail[probe]) < Len(node)
      BY <1>3, <2>1, <3>2
    <3> QED BY <1>1, <3>1, <3>4, <3>5 DEF Probed, Ends, EndsAt
  <2> QED BY <2>2, <2>3
<1>8. NoDoubles => Matched' /\ Reports'
  BY <1>1 DEF SoundInv, Sound, Matched, Reports, EndsAt
<1> QED BY <1>1, <1>5, <1>6, <1>7, <1>8, Frame

LEMMA BeginSound ==
    ASSUME SoundInv, Begin
    PROVE  SoundInv'
<1>1. /\ phase = "next" /\ queue = <<>> /\ node' = Root
      /\ phase' = IF input = <<>> THEN "done" ELSE "seek"
      /\ UNCHANGED <<patterns, input, fail, out, queue, left, letter, probe,
                     pos, answer>>
  BY DEF Begin
<1>2. Nodes' = Nodes /\ Listed' = Listed
  BY <1>1, SameTrie
<1>3. /\ Root \in Nodes /\ Root = <<>> /\ input \in Seq(Bytes)
      /\ Len(input) \in Nat /\ pos = 1
      /\ answer = None
  BY <1>1, Typed DEF SoundInv, Walks, Matching
<1>4. TypeOK'
  BY <1>1, <1>2, <1>3 DEF SoundInv, TypeOK
<1>5. input # <<>> => pos <= Len(input)
  BY <1>3
<1>6. Walks'
  BY <1>1, <1>3, <1>5 DEF SoundInv, Walks, Visiting, Matching
<1>7. Probed' /\ Matched' /\ Reports'
  BY <1>1, <1>3 DEF Probed, Matched, Reports, EndsAt
<1> QED BY <1>1, <1>4, <1>6, <1>7, Frame

LEMMA SeekSound ==
    ASSUME SoundInv, Seek
    PROVE  SoundInv'
<1>1. /\ phase = "seek" /\ node # Root /\ phase' \in {"seek", "take"}
      /\ UNCHANGED <<patterns, input, fail, out, queue, left, letter, probe,
                     pos, answer>>
      /\ pos <= Len(input) /\ answer = None /\ queue = <<>>
  BY DEF Seek, SoundInv, Walks, Matching
<1>2. Nodes' = Nodes /\ Listed' = Listed
  BY <1>1, SameTrie
<1>3. /\ node \in Nodes /\ node \in Seq(Bytes) /\ input \in Seq(Bytes)
      /\ Len(input) \in Nat /\ pos \in Nat /\ pos \in 1..Len(input)
      /\ fail[node] \in Nodes /\ fail[node] \in Seq(Bytes)
      /\ input[pos] \in Bytes /\ Root = <<>>
  BY <1>1, Typed DEF SoundInv, TypeOK
<1>4. node' \in Nodes
  BY <1>3 DEF Seek, Has
<1>5. TypeOK'
  BY <1>1, <1>2, <1>4 DEF SoundInv, TypeOK
<1>6. Walks'
  BY <1>1 DEF SoundInv, Walks, Visiting, Matching
<1>7. ASSUME NoDoubles
      PROVE  Matched'
  <2>1. EndsAt(input, pos - 1, node)
    BY <1>1, <1>7 DEF SoundInv, Sound, Matched
  <2>2. CASE Has(node, input[pos])
    <3>1. phase' = "take" /\ node' = Append(node, input[pos])
      BY <2>2 DEF Seek
    <3>2. EndsAt(input, pos, node') /\ node' # Root
      BY <1>3, <2>1, <3>1, EndsMore, Appended
    <3> QED BY <1>1, <3>1, <3>2 DEF Matched, EndsAt
  <2>3. CASE ~Has(node, input[pos])
    <3>1. phase' = "seek" /\ node' = fail[node]
      BY <1>1, <2>3 DEF Seek
    <3>2. Ends(node, fail[node])
      BY <1>3, <1>7 DEF SoundInv, Sound, Linked
    <3>3. pos - 1 \in 0..Len(input)
      BY <1>3
    <3>4. EndsAt(input, pos - 1, fail[node])
      BY <1>3, <2>1, <3>2, <3>3, EndsTransitive
    <3> QED BY <1>1, <3>1, <3>4 DEF Matched, EndsAt
  <2> QED BY <2>2, <2>3
<1>8. NoDoubles => Probed' /\ Reports'
  BY <1>1 DEF Probed, Reports
<1> QED BY <1>1, <1>5, <1>6, <1>7, <1>8, Frame

LEMMA TakeSound ==
    ASSUME SoundInv, Take
    PROVE  SoundInv'
<1>1. /\ phase \in Matching /\ pos <= Len(input) /\ answer = None
      /\ queue = <<>>
      /\ UNCHANGED <<patterns, input, fail, out, queue, left, letter, probe>>
  BY DEF Take, SoundInv, Walks, Matching
<1>2. Nodes' = Nodes /\ Listed' = Listed
  BY <1>1, SameTrie
<1>3. /\ node \in Nodes /\ node \in Seq(Bytes) /\ input \in Seq(Bytes)
      /\ Nodes \subseteq Seq(Bytes) /\ Listed \subseteq Nodes
      /\ Len(input) \in Nat /\ pos \in Nat /\ pos \in 1..Len(input)
      /\ input[pos] \in Bytes /\ Root = <<>>
  <2>1. TypeOK
    BY DEF SoundInv
  <2>2. pos \in 1..Len(input)
    BY <1>1, <2>1, Typed
  <2> QED BY <2>1, <2>2, Typed
<1>a. node' = IF Has(node, input[pos]) THEN Append(node, input[pos]) ELSE node
  BY DEF Take
<1>4. PICK n \in Nodes : n = node'
  BY <1>3, <1>a DEF Has
<1>5. n \in Seq(Bytes) /\ out[n] \in Seq(Listed)
  BY <1>3, <1>4, Typed DEF SoundInv
<1>6. NoDoubles => EndsAt(input, pos, n)
  <2> SUFFICES ASSUME NoDoubles PROVE EndsAt(input, pos, n)
    OBVIOUS
  <2>1. CASE phase = "take"
    <3>1. node # Root /\ EndsAt(input, pos, node) /\ pos \in 0..Len(input)
      BY <1>3, <2>1 DEF SoundInv, Sound, Matched
    <3>2. node[Len(node)] = input[pos]
      BY <1>3, <3>1, EndsLast
    <3>3. ~Has(node, input[pos])
      BY <1>3, <3>1, <3>2, NoDoubled DEF SoundInv
    <3> QED BY <1>4, <1>a, <3>1, <3>3
  <2>2. CASE phase = "seek"
    <3>1. node = Root /\ EndsAt(input, pos - 1, node)
      BY <2>2 DEF Take, SoundInv, Sound, Matched
    <3>2. EndsAt(input, pos, Append(node, input[pos]))
      BY <1>3, <3>1, EndsMore
    <3>3. EndsAt(input, pos, node)
      BY <1>3, <3>1, EndsEmpty
    <3> QED BY <1>4, <1>a, <3>2, <3>3
  <2> QED BY <1>1, <2>1, <2>2 DEF Matching
<1>7. CASE out[n] = <<>>
  <2>1. /\ pos' = pos + 1 /\ answer' = answer
        /\ phase' = IF pos < Len(input) THEN "seek" ELSE "done"
    BY <1>4, <1>7 DEF Take, Reported
  <2>2. pos' \in 1..(Len(input) + 1)
    BY <1>3, <2>1
  <2>3. TypeOK'
    BY <1>1, <1>2, <1>4, <2>1, <2>2 DEF SoundInv, TypeOK
  <2>4. phase' = "seek" => pos' <= Len(input)
    BY <1>3, <2>1
  <2>5. Walks'
    BY <1>1, <2>1, <2>4 DEF SoundInv, Walks, Visiting, Matching
  <2>6. ASSUME NoDoubles
        PROVE  Matched'
    <3>1. pos' - 1 = pos
      BY <1>3, <2>1
    <3> QED BY <1>1, <1>4, <1>6, <2>1, <2>6, <3>1 DEF Matched, EndsAt
  <2>7. Probed' /\ Reports'
    BY <1>1, <2>1 DEF Probed, Reports
  <2> QED BY <1>1, <2>3, <2>5, <2>6, <2>7, Frame
<1>8. CASE out[n] # <<>>
  <2>1. answer' = Head(out[n]) /\ phase' = "done" /\ pos' = pos
    BY <1>4, <1>8 DEF Take, Reported
  <2>2. 1 \in DOMAIN out[n] /\ answer' = out[n][1] /\ out[n][1] \in Listed
    BY <1>5, <1>8, <2>1
  <2>3. TypeOK'
    BY <1>1, <1>2, <1>4, <2>1, <2>2 DEF SoundInv, TypeOK
  <2>4. Walks'
    BY <1>1, <2>1 DEF SoundInv, Walks, Visiting, Matching
  <2>5. ASSUME NoDoubles
        PROVE  Reports'
    <3>1. Ends(n, out[n][1])
      BY <2>2, <2>5 DEF SoundInv, Sound, Outputs
    <3>2. pos \in 0..Len(input) /\ out[n][1] \in Seq(Bytes)
      BY <1>3, <2>2
    <3>3. EndsAt(input, pos, out[n][1])
      BY <1>3, <1>5, <1>6, <2>5, <3>1, <3>2, EndsTransitive
    <3>4. EndsAt(input, pos, answer')
      BY <2>2, <3>3
    <3> QED BY <1>1, <2>1, <3>4 DEF Reports, EndsAt
  <2>6. Probed' /\ Matched'
    BY <2>1 DEF Probed, Matched
  <2> QED BY <1>1, <2>3, <2>4, <2>5, <2>6, Frame
<1> QED BY <1>7, <1>8

-----------------------------------------------------------------------------
(***************************************************************************)
(* The link of a child.                                                    *)
(***************************************************************************)
\* The child and the node its link leads to.
LEMMA TargetSound ==
    ASSUME SoundInv, Link
    PROVE  /\ node # Root /\ node \in Seq(Bytes) /\ letter \in Bytes
           /\ Append(node, letter) \in Nodes
           /\ Target \in Nodes
           /\ NoDoubles =>
                 /\ Ends(Append(node, letter), Target)
                 /\ Len(Target) < Len(Append(node, letter))
<1>1. TypeOK /\ phase \in {"chase", "link"} /\ node # Root /\ letter \in Letters(node)
  BY DEF Link, SoundInv, Walks, Visiting
<1>2. /\ node \in Seq(Bytes) /\ probe \in Nodes /\ probe \in Seq(Bytes)
      /\ Root \in Nodes /\ Root = <<>> /\ Len(node) \in Nat \ {0}
  BY <1>1, Typed
<1>3. letter \in Bytes /\ Append(node, letter) \in Nodes
  BY <1>1 DEF Letters, Has
<1>4. Target \in Nodes
  BY <1>2 DEF Target, Has
<1>5. PICK c : c = Append(node, letter)
  OBVIOUS
<1>6. /\ c \in Nodes /\ c \in Seq(Bytes) /\ Len(c) = Len(node) + 1
      /\ c # <<>> /\ c[Len(node) + 1] = letter
  BY <1>2, <1>3, <1>5, Appended
<1>7. Ends(c, Root) /\ Len(Root) < Len(c)
  BY <1>2, <1>6, EndsEmpty DEF Ends
<1>8. ASSUME NoDoubles
      PROVE  Ends(c, Target) /\ Len(Target) < Len(c)
  <2>1. CASE phase = "link"
    <3>1. probe # Root /\ Ends(c, probe)
      BY <1>5, <1>8, <2>1 DEF SoundInv, Sound, Probed
    <3>2. Len(c) \in 0..Len(c) /\ EndsAt(c, Len(c), probe) /\ probe # <<>>
      BY <1>2, <1>6, <3>1 DEF Ends
    <3>3. probe[Len(probe)] = letter
      BY <1>2, <1>6, <3>2, EndsLast
    <3>4. ~Has(probe, letter)
      BY <1>1, <1>2, <1>3, <1>8, <3>1, <3>3, NoDoubled
    <3> QED BY <1>7, <3>4 DEF Target
  <2>2. CASE phase # "link"
    <3>1. probe = Root
      BY <2>2 DEF Link
    <3>2. Ends(node, Root)
      BY <1>2, EndsEmpty DEF Ends
    <3>3. Ends(c, Append(Root, letter)) /\ Len(Append(Root, letter)) = 1
      <4>1. Root \in Seq(Bytes) /\ Len(Root) = 0
        BY <1>2
      <4>2. Ends(c, Append(Root, letter))
        BY <1>2, <1>3, <1>5, <3>2, <4>1, EndsGrown
      <4>3. Len(Append(Root, letter)) = Len(Root) + 1
        BY <1>3, <4>1, Appended
      <4> QED BY <4>1, <4>2, <4>3
    <3>4. 1 < Len(c)
      BY <1>2, <1>6
    <3> QED BY <1>7, <3>1, <3>3, <3>4 DEF Target
  <2> QED BY <2>1, <2>2
<1> QED BY <1>1, <1>2, <1>3, <1>4, <1>5, <1>8

LEMMA LinkSound ==
    ASSUME SoundInv, Link
    PROVE  SoundInv'
<1>1. PICK c : c = Append(node, letter)
  OBVIOUS
<1>2. PICK t : t = Target
  OBVIOUS
<1>3. /\ node # Root /\ c \in Nodes /\ t \in Nodes
      /\ NoDoubles => Ends(c, t) /\ Len(t) < Len(c)
  BY <1>1, <1>2, TargetSound
<1>4. /\ phase \in {"chase", "link"} /\ phase' \in {"next", "visit"}
      /\ fail' = [fail EXCEPT ![c] = t]
      /\ out' = [out EXCEPT ![c] = out[c] \o out[t]]
      /\ queue' = Append(queue, c) /\ left' = left \ {letter}
      /\ UNCHANGED <<patterns, input, node, letter, probe, pos, answer>>
  BY <1>1, <1>2 DEF Link
<1>5. /\ Nodes' = Nodes /\ Listed' = Listed /\ (NoDoubles' <=> NoDoubles)
      /\ Nodes \subseteq Seq(Bytes) /\ Listed \subseteq Nodes
  BY <1>4, SameTrie, Typed DEF SoundInv
<1>6. /\ fail \in [Nodes -> Nodes] /\ out \in [Nodes -> Seq(Listed)]
      /\ c \in Seq(Bytes) /\ t \in Seq(Bytes) /\ Root = <<>> /\ c # Root
      /\ out[c] \in Seq(Listed) /\ out[t] \in Seq(Listed)
  <2>1. node \in Seq(Bytes) /\ letter \in Bytes
    BY TargetSound
  <2>2. c # Root
    BY <1>1, <2>1, Appended DEF Root
  <2> QED BY <1>3, <1>5, <2>2 DEF SoundInv, TypeOK, Root
<1>7. out[c] \o out[t] \in Seq(Listed)
  BY <1>6
<1>8. fail' \in [Nodes -> Nodes] /\ out' \in [Nodes -> Seq(Listed)]
  BY <1>3, <1>4, <1>6, <1>7
<1>9. queue' \in Seq(Nodes) /\ \A i \in DOMAIN queue' : queue'[i] # Root
  BY <1>3, <1>4, <1>6 DEF SoundInv, TypeOK, Walks
<1>10. TypeOK'
  BY <1>4, <1>5, <1>8, <1>9 DEF SoundInv, TypeOK
<1>11. Walks'
  BY <1>3, <1>4, <1>5, <1>9
     DEF SoundInv, Walks, Visiting, Matching, Letters, Has
<1>12. ASSUME NoDoubles
       PROVE  Sound'
  <2>0. Linked /\ Outputs
    BY <1>12 DEF SoundInv, Sound
  <2>1. \A n \in Nodes : Ends(n, fail'[n]) /\ (n # Root => Len(fail'[n]) < Len(n))
    <3> SUFFICES ASSUME NEW n \in Nodes
                 PROVE  Ends(n, fail'[n]) /\ (n # Root => Len(fail'[n]) < Len(n))
      OBVIOUS
    <3>1. fail'[n] = IF n = c THEN t ELSE fail[n]
      BY <1>4, <1>6
    <3>2. CASE n = c
      BY <1>3, <1>12, <3>1, <3>2
    <3>3. CASE n # c
      BY <2>0, <3>1, <3>3 DEF Linked
    <3> QED BY <3>2, <3>3
  <2>2. Linked'
    BY <1>5, <2>1 DEF Linked
  <2>3. ASSUME NEW n \in Nodes, NEW i \in DOMAIN out'[n]
        PROVE  Ends(n, out'[n][i])
    <3>1. CASE n # c
      <4>1. out'[n] = out[n]
        BY <1>4, <1>6, <3>1
      <4> QED BY <2>0, <2>3, <4>1 DEF Outputs
    <3>2. CASE n = c
      <4>1. out'[n] = out[c] \o out[t]
        BY <1>3, <1>4, <1>6, <3>2
      <4>2. PICK q : q = out'[n][i]
        OBVIOUS
      <4>3. \/ \E j \in DOMAIN out[c] : q = out[c][j]
            \/ \E j \in DOMAIN out[t] : q = out[t][j]
        <5>1. i \in DOMAIN (out[c] \o out[t]) /\ q = (out[c] \o out[t])[i]
          BY <2>3, <4>1, <4>2
        <5>2. PICK a \in Seq(Listed), b \in Seq(Listed) : a = out[c] /\ b = out[t]
          BY <1>6
        <5>3. i \in DOMAIN (a \o b) /\ q = (a \o b)[i]
          BY <5>1, <5>2
        <5>4. \/ i \in DOMAIN a /\ (a \o b)[i] = a[i]
              \/ \E j \in DOMAIN b : (a \o b)[i] = b[j]
          BY <5>3, Joined
        <5> QED BY <5>2, <5>3, <5>4
      <4>4. CASE \E j \in DOMAIN out[c] : q = out[c][j]
        BY <1>3, <2>0, <3>2, <4>2, <4>4 DEF Outputs
      <4>5. CASE \E j \in DOMAIN out[t] : q = out[t][j]
        <5>1. Ends(t, q) /\ q \in Listed
          BY <1>3, <1>6, <2>0, <4>5 DEF Outputs
        <5>2. q \in Seq(Bytes) /\ Len(c) \in 0..Len(c) /\ EndsAt(c, Len(c), t)
          BY <1>3, <1>5, <1>6, <1>12, <5>1 DEF Ends
        <5>3. EndsAt(c, Len(c), q)
          BY <1>6, <5>1, <5>2, EndsTransitive
        <5> QED BY <3>2, <4>2, <5>3 DEF Ends
      <4> QED BY <4>3, <4>4, <4>5
    <3> QED BY <3>1, <3>2
  <2>4. Outputs'
    BY <1>5, <2>3 DEF Outputs
  <2>5. Probed' /\ Matched'
    BY <1>4 DEF Probed, Matched
  <2>6. Reports'
    BY <1>4, <1>12 DEF SoundInv, Sound, Reports, EndsAt
  <2> QED BY <2>2, <2>4, <2>5, <2>6 DEF Sound
<1> QED BY <1>5, <1>10, <1>11, <1>12 DEF SoundInv

-----------------------------------------------------------------------------
LEMMA SoundNext == SoundInv /\ [Next]_vars => SoundInv'
<1> SUFFICES ASSUME SoundInv, [Next]_vars PROVE SoundInv'
  OBVIOUS
<1>1. ASSUME NEW b \in Bytes, QueueRoot(b) PROVE SoundInv'
  BY <1>1, QueueRootSound
<1>2. ASSUME NEW b \in Bytes, Visit(b) PROVE SoundInv'
  BY <1>2, VisitSound
<1>3. CASE UNCHANGED vars
  <2>1. /\ UNCHANGED <<patterns, input, fail, out>>
        /\ UNCHANGED <<phase, queue, node, left, letter, probe, pos, answer>>
    BY <1>3 DEF vars
  <2>2. Nodes' = Nodes /\ Listed' = Listed
    BY <2>1, SameTrie
  <2>3. TypeOK'
    BY <2>1, <2>2 DEF SoundInv, TypeOK
  <2>4. Walks'
    BY <2>1, <2>2 DEF SoundInv, Walks, Visiting, Matching, Letters, Has
  <2>5. NoDoubles => Probed' /\ Matched' /\ Reports'
    BY <2>1 DEF SoundInv, Sound, Probed, Matched, Reports, Ends, EndsAt
  <2> QED BY <2>1, <2>3, <2>4, <2>5, Frame
<1> QED BY <1>1, <1>2, <1>3, DequeueSound, ChaseSound, LinkSound, BeginSound,
           SeekSound, TakeSound DEF Next

LEMMA AlwaysSound == Spec => []SoundInv
BY SoundInit, SoundNext, PTL DEF Spec

(***************************************************************************)
(* The automaton's maps stay maps of the trie, whatever its patterns: each *)
(* link leads to a node and each output is a pattern of the file.          *)
(***************************************************************************)
THEOREM TypeCorrect == Spec => []TypeOK
<1>1. SoundInv => TypeOK
  BY DEF SoundInv
<1> QED BY <1>1, AlwaysSound, PTL

(***************************************************************************)
(* For every list of patterns and every input: as long as no prefix of a   *)
(* pattern has the same byte twice in a row, the pattern that Match        *)
(* reports ends where Match is in the input (aho.go:72-95).                *)
(***************************************************************************)
THEOREM SoundUnlessDoubled == Spec => []SoundWithoutDoubles
<1>1. SoundInv => SoundWithoutDoubles
  <2> SUFFICES ASSUME SoundInv, NoDoubles, answer # None
               PROVE  EndsWith(SubSeq(input, 1, pos), answer)
    BY DEF SoundWithoutDoubles
  <2>1. EndsAt(input, pos, answer) /\ pos <= Len(input)
    BY DEF SoundInv, Sound, Reports, Walks
  <2>2. /\ input \in Seq(Bytes) /\ pos \in 0..Len(input)
        /\ answer \in Seq(Bytes)
    <3>1. TypeOK
      BY DEF SoundInv
    <3>2. answer \in Listed
      BY <3>1 DEF TypeOK
    <3> QED BY <2>1, <3>1, <3>2, Typed
  <2> QED BY <2>1, <2>2, EndsWithIs
<1> QED BY <1>1, AlwaysSound, PTL

-----------------------------------------------------------------------------
(***************************************************************************)
(* Short overlaps.                                                         *)
(***************************************************************************)
\* A proper suffix of a node is the node's last byte, and its best link.
LEMMA ShortSuffix ==
    ASSUME TypeOK, ShortOverlaps, NEW n \in Nodes, NEW k \in Nodes,
           Ends(n, k), Len(k) < Len(n), k # Root
    PROVE  Len(k) = 1 /\ Best(n) = k
<1>1. /\ n \in Seq(Bytes) /\ k \in Seq(Bytes) /\ Root = <<>>
      /\ Len(n) \in Nat /\ Len(k) \in Nat \ {0}
  BY Typed
<1>2. EndsWith(n, k) /\ k # n
  BY <1>1, SuffixIs
<1>3. Len(k) = 1
  <2>1. Len(k) <= 1
    BY <1>2 DEF ShortOverlaps
  <2>2. PICK l \in Nat \ {0} : l = Len(k)
    BY <1>1
  <2>3. l <= 1 => l = 1
    OBVIOUS
  <2> QED BY <2>1, <2>2, <2>3
<1>4. k[1] = n[Len(n)]
  <2>1. Len(n) \in 0..Len(n) /\ EndsAt(n, Len(n), k) /\ k # <<>>
    BY <1>1 DEF Ends
  <2> QED BY <1>1, <1>3, <2>1, EndsLast
<1>5. k = Last(n)
  BY <1>1, <1>3, <1>4 DEF Last
<1> QED BY <1>3, <1>5 DEF Best

\* A node that ends where Match is has grown from one that ended before.
LEMMA GrownFrom ==
    ASSUME TypeOK, pos \in 1..Len(input), NEW k \in Nodes, k # Root,
           EndsAt(input, pos, k)
    PROVE  \E u \in Nodes : /\ EndsAt(input, pos - 1, u) /\ Has(u, input[pos])
                            /\ Len(k) = Len(u) + 1
<1>1. /\ k \in Seq(Bytes) /\ k # <<>> /\ input \in Seq(Bytes)
      /\ pos \in 0..Len(input) /\ Len(k) \in Nat
  BY Typed
<1>2. k[Len(k)] = input[pos]
  BY <1>1, EndsLast
<1>3. PICK u \in Seq(Bytes) : /\ k = Append(u, k[Len(k)]) /\ Len(u) = Len(k) - 1
                             /\ Starts(k, u)
  BY <1>1, BeforeLast
<1>4. u \in Nodes
  BY <1>3, Typed, TrieFacts
<1>5. EndsAt(input, pos - 1, u)
  BY <1>1, <1>2, <1>3, EndsMore
<1>6. Has(u, input[pos])
  BY <1>2, <1>3 DEF Has
<1> QED BY <1>1, <1>3, <1>4, <1>5, <1>6

\* The prefixes of a node that can make it wait for its link.
LEMMA StillPending ==
    ASSUME patterns' = patterns, NEW n \in Nodes, NEW m \in Nodes,
           m # Root, Starts(n, m), Len(m) < Len(n),
           \/ \E i \in DOMAIN queue' : queue'[i] = m
           \/ phase' \in Visiting /\ m = node' /\ n[Len(m) + 1] \in left'
           \/ phase' = "roots" /\ Len(m) = 1 /\ n[1] \in left'
    PROVE  Pending(n)'
<1>1. Nodes' = Nodes
  BY SameTrie
<1> QED BY <1>1 DEF Pending, Starts, Visiting

LEMMA StillSettled ==
    ASSUME UNCHANGED <<patterns, fail, out>>, NEW n \in Nodes, Settled(n)
    PROVE  Settled(n)'
<1>1. Best(n)' = Best(n) /\ Listed' = Listed
  BY SameTrie
<1> QED BY <1>1 DEF Settled

\* Once the automaton is built nothing waits.
LEMMA Built ==
    ASSUME SoundInv, Complete, phase \in Matching \/ (phase = "next" /\ queue = <<>>),
           NEW n \in Nodes
    PROVE  Settled(n)
<1>1. queue = <<>> /\ phase \notin Visiting /\ phase # "roots"
  BY DEF SoundInv, Walks, Matching, Visiting
<1>2. ~Pending(n)
  BY <1>1 DEF Pending
<1> QED BY <1>2 DEF Complete, AllSettled

LEMMA CompleteInit == Init => Complete
<1> SUFFICES ASSUME Init PROVE Complete
  OBVIOUS
<1>1. /\ patterns \in PatternLists /\ fail = [n \in Nodes |-> Root]
      /\ out = [n \in Nodes |-> Own(n)] /\ left = Letters(Root) /\ answer = None
      /\ phase = IF Nodes = {Root} THEN "error" ELSE "roots"
  BY DEF Init
<1>2. /\ Nodes \subseteq Seq(Bytes) /\ Root \in Nodes /\ Root = <<>>
      /\ Listed \subseteq Nodes /\ Root \notin Listed
      /\ patterns \in Seq(Seq(Bytes))
      /\ \A n \in Nodes : \A m \in Seq(Bytes) : Starts(n, m) => m \in Nodes
  BY <1>1, TrieFacts, StringAssumption DEF Root
<1>3. ASSUME NEW n \in Nodes
      PROVE  Settled(n) \/ Pending(n)
  <2>1. CASE Best(n) = Root
    BY <1>1, <1>2, <2>1 DEF Settled
  <2>2. CASE Best(n) # Root
    <3>1. Len(n) \in Nat /\ Len(n) > 1 /\ n \in Seq(Bytes) /\ n # Root
      BY <1>2, <2>2 DEF Best
    <3>2. PICK b \in Bytes : b = n[1]
      BY <3>1
    <3>3. PICK m : m = <<b>>
      OBVIOUS
    <3>4. /\ m \in Seq(Bytes) /\ Len(m) = 1 /\ m[1] = b /\ m # Root
          /\ m = Append(Root, b)
      BY <1>2, <3>3
    <3>5. Starts(n, m) /\ Len(m) < Len(n)
      BY <3>1, <3>2, <3>4 DEF Starts
    <3>6. m \in Nodes /\ b \in Letters(Root)
      BY <1>2, <3>4, <3>5 DEF Letters, Has
    <3>7. phase = "roots" /\ n[1] \in left
      BY <1>1, <3>1, <3>2, <3>6
    <3> QED BY <3>4, <3>5, <3>6, <3>7 DEF Pending
  <2> QED BY <2>1, <2>2
<1>4. ASSUME NEW p \in Listed
      PROVE  out[p] # <<>>
  <2> DEFINE at == {i \in DOMAIN patterns : patterns[i] = p /\ p # Root}
  <2>1. IsFiniteSet(DOMAIN patterns)
    BY <1>2, FS_Interval
  <2>2. at \in SUBSET (DOMAIN patterns)
    OBVIOUS
  <2>3. IsFiniteSet(at)
    BY <2>1, <2>2, FS_Subset
  <2>4. at # {}
    BY DEF Listed
  <2>5. PICK k \in Nat : k = Cardinality(at)
    BY <2>3, FS_CardinalityType
  <2>6. k # 0
    BY <2>3, <2>4, <2>5, FS_EmptySet
  <2>7. out[p] = [i \in 1..k |-> p]
    BY <1>1, <1>2, <2>5 DEF Own
  <2> HIDE DEF at
  <2>8. Len([i \in 1..k |-> p]) = k
    OBVIOUS
  <2> QED BY <2>6, <2>7, <2>8
<1>5. phase \notin {"link", "seek", "take", "done"}
  BY <1>1
<1> QED BY <1>3, <1>4, <1>5
        DEF Complete, AllSettled, Owned, Longest, Searched, Matching

-----------------------------------------------------------------------------
(***************************************************************************)
(* Completeness, step by step: while the automaton is built ...            *)
(***************************************************************************)
\* Without a search, only the links have to be looked at.
LEMMA Building ==
    ASSUME Complete, UNCHANGED <<patterns, out>>, AllSettled',
           phase' \notin {"link", "seek", "take", "done"}
    PROVE  Complete'
<1>1. Listed' = Listed
  BY SameTrie
<1>2. Owned'
  BY <1>1 DEF Complete, Owned
<1> QED BY <1>2 DEF Complete, Longest, Searched, Matching

LEMMA QueueRootComplete ==
    ASSUME SoundInv, Complete, NEW b \in Bytes, QueueRoot(b)
    PROVE  Complete'
<1>1. /\ phase = "roots" /\ b \in left /\ left' = left \ {b}
      /\ queue' = Append(queue, <<b>>)
      /\ phase' = IF left' = {} THEN "next" ELSE "roots"
      /\ UNCHANGED <<patterns, fail, out>>
  BY DEF QueueRoot
<1>2. Nodes' = Nodes /\ Nodes \subseteq Seq(Bytes) /\ queue \in Seq(Nodes)
  BY <1>1, SameTrie, Typed DEF SoundInv, TypeOK
<1>3. ASSUME NEW n \in Nodes, Pending(n)
      PROVE  Pending(n)'
  <2>1. PICK m \in Nodes :
          /\ m # Root /\ Starts(n, m) /\ Len(m) < Len(n)
          /\ \/ \E i \in DOMAIN queue : queue[i] = m
             \/ phase \in Visiting /\ m = node /\ n[Len(m) + 1] \in left
             \/ phase = "roots" /\ Len(m) = 1 /\ n[1] \in left
    BY <1>3 DEF Pending
  <2>2. CASE \E i \in DOMAIN queue : queue[i] = m
    <3>1. \E i \in DOMAIN queue' : queue'[i] = m
      <4>1. PICK i \in DOMAIN queue : queue[i] = m
        BY <2>2
      <4>2. i \in DOMAIN queue' /\ queue'[i] = queue[i]
        BY <1>1, <1>2, <4>1
      <4> QED BY <4>1, <4>2
    <3> QED BY <1>1, <2>1, <3>1, StillPending
  <2>3. CASE Len(m) = 1 /\ n[1] \in left /\ n[1] # b
    BY <1>1, <2>1, <2>3, StillPending
  <2>4. CASE Len(m) = 1 /\ n[1] = b
    <3>1. m = <<b>>
      BY <1>2, <2>1, <2>4 DEF Starts
    <3>2. Len(queue) + 1 \in DOMAIN queue' /\ queue'[Len(queue) + 1] = <<b>>
      BY <1>1, <1>2
    <3> QED BY <1>1, <2>1, <3>1, <3>2, StillPending
  <2> QED BY <1>1, <2>1, <2>2, <2>3, <2>4 DEF Visiting
<1>4. AllSettled'
  BY <1>1, <1>2, <1>3, StillSettled DEF Complete, AllSettled
<1> QED BY <1>1, <1>4, Building

LEMMA DequeueComplete ==
    ASSUME SoundInv, Complete, Dequeue
    PROVE  Complete'
<1>1. /\ phase = "next" /\ queue # <<>> /\ node' = Head(queue)
      /\ queue' = Tail(queue) /\ left' = Letters(node')
      /\ phase' = IF left' = {} THEN "next" ELSE "visit"
      /\ UNCHANGED <<patterns, fail, out>>
  BY DEF Dequeue
<1>2. /\ Nodes' = Nodes /\ Nodes \subseteq Seq(Bytes) /\ queue \in Seq(Nodes)
      /\ patterns \in PatternLists
  BY <1>1, SameTrie, Typed DEF SoundInv, TypeOK
<1>3. ASSUME NEW n \in Nodes, Pending(n)
      PROVE  Pending(n)'
  <2>1. PICK m \in Nodes :
          /\ m # Root /\ Starts(n, m) /\ Len(m) < Len(n)
          /\ \E i \in DOMAIN queue : queue[i] = m
    BY <1>1, <1>3 DEF Pending, Visiting
  <2>2. PICK i \in DOMAIN queue : queue[i] = m
    BY <2>1
  <2>3. i \in 1..Len(queue) /\ Len(queue) \in Nat
    BY <1>2
  <2>4. CASE i = 1
    <3>1. node' = m
      BY <1>1, <1>2, <2>2, <2>4
    <3>2. /\ m \in Seq(Bytes) /\ n \in Seq(Bytes)
          /\ Len(m) \in Nat /\ Len(n) \in Nat
      BY <1>2
    <3>3. PICK b \in Bytes : b = n[Len(m) + 1]
      <4>1. Len(m) + 1 \in 1..Len(n)
        BY <2>1, <3>2
      <4> QED BY <3>2, <4>1
    <3>4. PICK u : u = Append(m, b)
      OBVIOUS
    <3>5. /\ u \in Seq(Bytes) /\ Len(u) = Len(m) + 1 /\ u[Len(m) + 1] = b
          /\ \A j \in 1..Len(m) : u[j] = m[j]
      BY <3>2, <3>4, Appended
    <3>6. Starts(n, u)
      <4>1. \A j \in 1..Len(u) : j \in 1..Len(m) \/ j = Len(m) + 1
        BY <3>2, <3>5
      <4>2. Len(u) <= Len(n)
        BY <2>1, <3>2, <3>5
      <4> QED BY <2>1, <3>3, <3>5, <4>1, <4>2 DEF Starts
    <3>7. u \in Nodes
      BY <1>2, <3>5, <3>6, TrieFacts
    <3>8. n[Len(m) + 1] \in left'
      BY <1>1, <3>1, <3>3, <3>4, <3>7 DEF Letters, Has
    <3>9. phase' \in Visiting
      BY <1>1, <3>8 DEF Visiting
    <3> QED BY <1>1, <2>1, <3>1, <3>8, <3>9, StillPending
  <2>5. CASE i # 1
    <3>1. i - 1 \in DOMAIN queue' /\ queue'[i - 1] = m
      BY <1>1, <1>2, <2>2, <2>3, <2>5
    <3> QED BY <1>1, <2>1, <3>1, StillPending
  <2> QED BY <2>4, <2>5
<1>4. AllSettled'
  BY <1>1, <1>2, <1>3, StillSettled DEF Complete, AllSettled
<1> QED BY <1>1, <1>4, Building

\* What neither visits, queues nor links changes nothing that waits.
LEMMA StillAll ==
    ASSUME Complete, UNCHANGED <<patterns, fail, out, queue, node, left>>,
           phase \in Visiting, phase' \in Visiting \ {"link"}
    PROVE  Complete'
<1>1. Nodes' = Nodes
  BY SameTrie
<1>2. ASSUME NEW n \in Nodes, Pending(n)
      PROVE  Pending(n)'
  <2>1. PICK m \in Nodes :
          /\ m # Root /\ Starts(n, m) /\ Len(m) < Len(n)
          /\ \/ \E i \in DOMAIN queue : queue[i] = m
             \/ m = node /\ n[Len(m) + 1] \in left
    BY <1>2 DEF Pending, Visiting
  <2> QED BY <2>1, StillPending
<1>3. AllSettled'
  BY <1>1, <1>2, StillSettled DEF Complete, AllSettled
<1> QED BY <1>3, Building DEF Visiting

LEMMA VisitComplete ==
    ASSUME SoundInv, Complete, NEW b \in Bytes, Visit(b)
    PROVE  Complete'
<1>1. /\ phase = "visit" /\ phase' = "chase"
      /\ UNCHANGED <<patterns, fail, out, queue, node, left>>
  BY DEF Visit
<1> QED BY <1>1, StillAll DEF Visiting

\* A link found half way would be a suffix of two bytes.
LEMMA ChaseComplete ==
    ASSUME SoundInv, Complete, NoDoubles, ShortOverlaps, Chase
    PROVE  Complete'
<1>1. /\ phase = "chase" /\ probe # Root /\ letter \in Letters(node)
      /\ UNCHANGED <<patterns, fail, out, queue, node, left>>
  BY DEF Chase, SoundInv, Walks
<1>2. /\ TypeOK /\ node \in Seq(Bytes) /\ probe \in Seq(Bytes) /\ letter \in Bytes
      /\ Root = <<>> /\ Append(node, letter) \in Nodes
  BY <1>1, Typed DEF SoundInv, Letters, Has
<1>3. Ends(node, probe) /\ Len(probe) < Len(node)
  BY <1>1 DEF SoundInv, Sound, Probed
<1>4. ~Has(probe, letter)
  <2> SUFFICES ASSUME Has(probe, letter) PROVE FALSE
    OBVIOUS
  <2>1. PICK c \in Nodes : c = Append(node, letter)
    BY <1>2
  <2>2. PICK k \in Nodes : k = Append(probe, letter)
    BY DEF Has
  <2>3. /\ Len(c) = Len(node) + 1 /\ Len(k) = Len(probe) + 1 /\ k # Root
        /\ Len(node) \in Nat /\ Len(probe) \in Nat \ {0}
    BY <1>1, <1>2, <2>1, <2>2, Appended
  <2>4. Ends(c, k)
    BY <1>2, <1>3, <2>1, <2>2, EndsGrown
  <2>5. Len(k) < Len(c)
    BY <1>3, <2>3
  <2>6. Len(k) = 1
    BY <1>2, <2>3, <2>4, <2>5, ShortSuffix
  <2>7. PICK l \in Nat \ {0} : l = Len(probe)
    BY <2>3
  <2>8. l + 1 = 1
    BY <2>3, <2>6, <2>7
  <2> QED BY <2>8
<1>5. phase' = "chase"
  BY <1>1, <1>4 DEF Chase
<1> QED BY <1>1, <1>5, StillAll DEF Visiting

LEMMA LinkComplete ==
    ASSUME SoundInv, Complete, NoDoubles, ShortOverlaps, Link
    PROVE  Complete'
<1>1. PICK c : c = Append(node, letter)
  OBVIOUS
<1>2. PICK t : t = Target
  OBVIOUS
<1>3. /\ phase = "chase" /\ probe = Root
      /\ phase' = IF left' = {} THEN "next" ELSE "visit"
      /\ fail' = [fail EXCEPT ![c] = t]
      /\ out' = [out EXCEPT ![c] = out[c] \o out[t]]
      /\ queue' = Append(queue, c) /\ left' = left \ {letter}
      /\ UNCHANGED <<patterns, node>>
  BY <1>1, <1>2 DEF Link, Complete
<1>4. /\ node # Root /\ node \in Seq(Bytes) /\ letter \in Bytes
      /\ c \in Nodes /\ t \in Nodes
  BY <1>1, <1>2, TargetSound
<1>5. /\ Nodes' = Nodes /\ Listed' = Listed /\ \A n : Best(n)' = Best(n)
      /\ Nodes \subseteq Seq(Bytes) /\ Listed \subseteq Nodes /\ Root = <<>>
      /\ Root \notin Listed
      /\ fail \in [Nodes -> Nodes] /\ out \in [Nodes -> Seq(Listed)]
      /\ queue \in Seq(Nodes)
  BY <1>3, SameTrie, Typed DEF SoundInv, TypeOK
<1>6. /\ c \in Seq(Bytes) /\ Len(c) = Len(node) + 1 /\ Len(node) \in Nat \ {0}
      /\ c[Len(node) + 1] = letter /\ \A j \in 1..Len(node) : c[j] = node[j]
      /\ c # Root
  <2>1. Len(node) \in Nat \ {0}
    BY <1>4, <1>5
  <2>2. /\ c \in Seq(Bytes) /\ Len(c) = Len(node) + 1 /\ c # <<>>
        /\ c[Len(node) + 1] = letter /\ \A j \in 1..Len(node) : c[j] = node[j]
    BY <1>1, <1>4, Appended
  <2> QED BY <1>5, <2>1, <2>2
<1>7. t = Best(c)
  <2>1. Append(Root, letter) = <<letter>> /\ Last(c) = <<letter>> /\ Len(c) > 1
    BY <1>5, <1>6 DEF Last
  <2> QED BY <1>2, <1>3, <2>1 DEF Target, Has, Best
<1>8. out[c] \in Seq(Listed) /\ out[t] \in Seq(Listed)
  BY <1>4, <1>5
<1>9. /\ fail'[c] = t /\ out'[c] = out[c] \o out[t]
      /\ \A n \in Nodes : n # c => fail'[n] = fail[n] /\ out'[n] = out[n]
  BY <1>3, <1>4, <1>5
<1>10. out[c] # <<>> \/ out[t] # <<>> => out'[c] # <<>>
  <2>1. PICK a \in Seq(Listed), b \in Seq(Listed) : a = out[c] /\ b = out[t]
    BY <1>8
  <2>2. a # <<>> \/ b # <<>> => a \o b # <<>>
    BY ConcatEmptySeq, ConcatProperties
  <2> QED BY <1>9, <2>1, <2>2
<1>11. Owned'
  <2>1. ASSUME NEW p \in Listed
        PROVE  out'[p] # <<>>
    <3>1. out[p] # <<>>
      BY DEF Complete, Owned
    <3>2. CASE p = c
      BY <1>10, <3>1, <3>2
    <3>3. CASE p # c
      BY <1>5, <1>9, <3>1, <3>3
    <3> QED BY <3>2, <3>3
  <2> QED BY <1>5, <2>1 DEF Owned
<1>12. Settled(c)'
  <2>1. t \in Listed => out'[c] # <<>>
    <3>1. t \in Listed => out[t] # <<>>
      BY DEF Complete, Owned
    <3> QED BY <1>10, <3>1
  <2> QED BY <1>5, <1>7, <1>9, <2>1 DEF Settled
<1>13. ASSUME NEW n \in Nodes, n # c, Settled(n)
       PROVE  Settled(n)'
  BY <1>5, <1>9, <1>13 DEF Settled
<1>14. ASSUME NEW n \in Nodes, n # c, Pending(n)
       PROVE  Pending(n)'
  <2>1. PICK m \in Nodes :
          /\ m # Root /\ Starts(n, m) /\ Len(m) < Len(n)
          /\ \/ \E i \in DOMAIN queue : queue[i] = m
             \/ m = node /\ n[Len(m) + 1] \in left
    BY <1>3, <1>14 DEF Pending
  <2>2. CASE \E i \in DOMAIN queue : queue[i] = m
    <3>1. PICK i \in DOMAIN queue : queue[i] = m
      BY <2>2
    <3>2. i \in DOMAIN queue' /\ queue'[i] = queue[i]
      BY <1>3, <1>4, <1>5, <3>1
    <3> QED BY <1>3, <2>1, <3>1, <3>2, StillPending
  <2>3. CASE m = node /\ n[Len(m) + 1] \in left /\ n[Len(m) + 1] # letter
    <3>1. n[Len(m) + 1] \in left' /\ m = node'
      BY <1>3, <2>3
    <3>2. phase' \in Visiting
      BY <1>3, <3>1 DEF Visiting
    <3> QED BY <1>3, <2>1, <3>1, <3>2, StillPending
  <2>4. CASE m = node /\ n[Len(m) + 1] = letter
    <3>1. n \in Seq(Bytes) /\ Len(n) \in Nat
      BY <1>5
    <3>2. Starts(n, c)
      <4>1. \A j \in 1..Len(c) : j \in 1..Len(node) \/ j = Len(node) + 1
        BY <1>6
      <4>2. Len(c) <= Len(n)
        BY <1>6, <2>1, <2>4, <3>1
      <4> QED BY <1>6, <2>1, <2>4, <4>1, <4>2 DEF Starts
    <3>3. Len(c) < Len(n)
      <4>1. Len(c) = Len(n) => c = n
        BY <1>6, <3>1, <3>2, SeqEqual DEF Starts
      <4> QED BY <1>6, <1>14, <3>1, <3>2, <4>1 DEF Starts
    <3>4. Len(queue) + 1 \in DOMAIN queue' /\ queue'[Len(queue) + 1] = c
      BY <1>3, <1>4, <1>5
    <3> QED BY <1>3, <1>4, <1>6, <3>2, <3>3, <3>4, StillPending
  <2> QED BY <2>1, <2>2, <2>3, <2>4
<1>15. AllSettled'
  BY <1>5, <1>12, <1>13, <1>14 DEF Complete, AllSettled
<1> QED BY <1>3, <1>11, <1>15 DEF Complete, Longest, Searched, Matching

-----------------------------------------------------------------------------
(***************************************************************************)
(* ... and while it runs.                                                  *)
(***************************************************************************)
\* A search changes no link.
LEMMA Searching ==
    ASSUME SoundInv, Complete, UNCHANGED <<patterns, fail, out>>,
           phase \in Matching \/ (phase = "next" /\ queue = <<>>),
           phase' # "link", Longest', Searched'
    PROVE  Complete'
<1>1. Nodes' = Nodes /\ Listed' = Listed
  BY SameTrie
<1>2. \A n \in Nodes : Settled(n)
  BY Built
<1>3. AllSettled'
  BY <1>1, <1>2, StillSettled DEF AllSettled
<1>4. Owned'
  BY <1>1 DEF Complete, Owned
<1> QED BY <1>3, <1>4 DEF Complete

LEMMA BeginComplete ==
    ASSUME SoundInv, Complete, Begin
    PROVE  Complete'
<1>1. /\ phase = "next" /\ queue = <<>> /\ node' = Root
      /\ phase' = IF input = <<>> THEN "done" ELSE "seek"
      /\ pos = 1 /\ pos' = 1
      /\ UNCHANGED <<patterns, fail, out, input>>
  BY DEF Begin, SoundInv, Walks, Matching
<1>2. /\ Nodes' = Nodes /\ Listed' = Listed /\ Nodes \subseteq Seq(Bytes)
      /\ Listed \subseteq Nodes /\ Root \notin Listed /\ Root = <<>>
  BY <1>1, SameTrie, Typed DEF SoundInv
<1>3. ASSUME NEW p \in Listed, NEW j \in 0..0
      PROVE  ~EndsAt(input, j, p)
  <2>1. p \in Seq(Bytes) /\ p # <<>>
    BY <1>2
  <2>2. PICK l \in Nat \ {0} : l = Len(p)
    BY <2>1
  <2>3. ~(l <= j)
    BY <2>2
  <2> QED BY <2>2, <2>3 DEF EndsAt
<1>4. NotYet(0)'
  BY <1>1, <1>2, <1>3 DEF NotYet, EndsAt
<1>5. Searched'
  <2>1. pos' - 1 = 0
    BY <1>1
  <2>2. phase' = "done" => Len(input') = 0
    BY <1>1
  <2>3. PICK z : z = 0
    OBVIOUS
  <2>4. \A p \in Listed' : \A j \in 0..z : ~EndsAt(input', j, p)
    BY <1>4, <2>3 DEF NotYet, EndsAt
  <2> QED BY <2>1, <2>2, <2>3, <2>4 DEF Searched, NotYet, EndsAt
<1>6. ASSUME NEW k \in Nodes, EndsAt(input, 0, k)
      PROVE  Len(k) <= Len(Root)
  BY <1>2, <1>6 DEF EndsAt
<1>7. Longest'
  <2>1. pos' - 1 = 0 /\ phase' # "take"
    BY <1>1
  <2> QED BY <1>1, <1>2, <1>6, <2>1 DEF Longest, EndsAt
<1> QED BY <1>1, <1>5, <1>7, Searching

LEMMA SeekComplete ==
    ASSUME SoundInv, Complete, NoDoubles, ShortOverlaps, Seek
    PROVE  Complete'
<1>1. /\ phase = "seek" /\ node # Root /\ phase' \in {"seek", "take"}
      /\ UNCHANGED <<patterns, input, fail, out, pos>>
  BY DEF Seek
<1>2. /\ TypeOK /\ Nodes \subseteq Seq(Bytes) /\ node \in Nodes /\ input \in Seq(Bytes)
      /\ pos \in 1..Len(input) /\ pos \in Nat /\ Len(input) \in Nat
      /\ pos - 1 \in 0..Len(input)
      /\ \A k \in Nodes : Len(k) \in Nat
  <2>1. TypeOK /\ pos <= Len(input)
    BY <1>1 DEF SoundInv, Walks, Matching
  <2> QED BY <2>1, Typed
<1>3. Nodes' = Nodes /\ Listed' = Listed
  BY <1>1, SameTrie
<1>4. /\ EndsAt(input, pos - 1, node)
      /\ \A k \in Nodes : EndsAt(input, pos - 1, k) /\ Has(k, input[pos]) =>
                             Len(k) <= Len(node)
  BY <1>1 DEF SoundInv, Sound, Matched, Complete, Longest
<1>5. PICK n : n = node'
  OBVIOUS
<1>6. ASSUME Has(node, input[pos])
      PROVE  Longest'
  <2>1. phase' = "take" /\ n = Append(node, input[pos])
    BY <1>5, <1>6 DEF Seek
  <2>2. Len(n) = Len(node) + 1
    BY <1>2, <2>1, Appended
  <2>3. ASSUME NEW k \in Nodes, EndsAt(input, pos, k)
        PROVE  Len(k) <= Len(n)
    <3>1. CASE k = Root
      BY <1>2, <2>2, <3>1 DEF Root
    <3>2. CASE k # Root
      <4>1. PICK u \in Nodes : /\ EndsAt(input, pos - 1, u) /\ Has(u, input[pos])
                              /\ Len(k) = Len(u) + 1
        BY <1>2, <2>3, <3>2, GrownFrom
      <4>2. Len(u) <= Len(node)
        BY <1>4, <4>1
      <4> QED BY <1>2, <2>2, <4>1, <4>2
    <3> QED BY <3>1, <3>2
  <2> QED BY <1>1, <1>3, <1>5, <2>1, <2>3 DEF Longest, EndsAt
<1>7. ASSUME ~Has(node, input[pos])
      PROVE  Longest'
  <2>1. phase' = "seek" /\ n = fail[node]
    BY <1>1, <1>5, <1>7 DEF Seek
  <2>2. n = Best(node)
    <3>1. Settled(node)
      BY <1>1, <1>2, Built DEF Matching
    <3> QED BY <2>1, <3>1 DEF Settled
  <2>3. ASSUME NEW k \in Nodes, EndsAt(input, pos - 1, k), Has(k, input[pos])
        PROVE  Len(k) <= Len(n)
    <3>1. k # node /\ Len(k) <= Len(node)
      BY <1>4, <1>7, <2>3
    <3>2. Ends(node, k) /\ Len(k) # Len(node)
      BY <1>2, <1>4, <2>3, <3>1, ShorterEnds
    <3>3. Len(k) < Len(node)
      BY <1>2, <3>1, <3>2
    <3>4. CASE k = Root
      <4>1. n \in Nodes
        BY <1>2, <2>1 DEF TypeOK
      <4> QED BY <1>2, <3>4, <4>1 DEF Root
    <3>5. CASE k # Root
      <4>1. n = k
        BY <1>2, <2>2, <3>2, <3>3, <3>5, ShortSuffix
      <4> QED BY <1>2, <4>1
    <3> QED BY <3>4, <3>5
  <2> QED BY <1>1, <1>3, <1>5, <2>1, <2>3 DEF Longest, EndsAt, Has
<1>8. Longest'
  BY <1>6, <1>7
<1>9. Searched'
  BY <1>1, <1>3 DEF Complete, Searched, Matching, NotYet, EndsAt
<1> QED BY <1>1, <1>8, <1>9, Searching DEF Matching

LEMMA TakeComplete ==
    ASSUME SoundInv, Complete, NoDoubles, ShortOverlaps, Take
    PROVE  Complete'
<1>1. /\ phase \in Matching /\ answer = None
      /\ UNCHANGED <<patterns, input, fail, out>>
      /\ node' = IF Has(node, input[pos]) THEN Append(node, input[pos]) ELSE node
  BY DEF Take, SoundInv, Walks, Matching
<1>2. /\ TypeOK /\ Nodes \subseteq Seq(Bytes) /\ node \in Nodes /\ input \in Seq(Bytes)
      /\ Root \in Nodes /\ Root = <<>>
      /\ Listed \subseteq Nodes /\ Root \notin Listed
      /\ pos \in 1..Len(input) /\ pos \in 0..Len(input)
      /\ pos \in Nat /\ Len(input) \in Nat
      /\ \A k \in Nodes : Len(k) \in Nat
      /\ input[pos] \in Bytes
  <2>1. TypeOK /\ pos <= Len(input)
    BY <1>1 DEF SoundInv, Walks, Matching
  <2> QED BY <2>1, Typed
<1>3. Nodes' = Nodes /\ Listed' = Listed
  BY <1>1, SameTrie
<1>4. PICK n \in Nodes : n = node'
  BY <1>1, <1>2 DEF Has
\* The node Match is at is the longest that ends at this byte.
<1>5. /\ EndsAt(input, pos, n)
      /\ \A k \in Nodes : EndsAt(input, pos, k) => Len(k) <= Len(n)
  <2>1. CASE phase = "take"
    <3>1. node # Root /\ EndsAt(input, pos, node)
      BY <2>1 DEF SoundInv, Sound, Matched
    <3>2. node[Len(node)] = input[pos]
      BY <1>2, <3>1, EndsLast
    <3>3. n = node
      BY <1>1, <1>2, <1>4, <3>1, <3>2, NoDoubled
    <3> QED BY <2>1, <3>1, <3>3 DEF Complete, Longest
  <2>2. CASE phase = "seek"
    <3>1. /\ node = Root /\ EndsAt(input, pos - 1, node)
          /\ \A k \in Nodes : EndsAt(input, pos - 1, k) /\ Has(k, input[pos]) =>
                                 Len(k) <= Len(node)
      BY <2>2 DEF Take, SoundInv, Sound, Matched, Complete, Longest
    <3>2. n = IF Has(node, input[pos]) THEN Append(node, input[pos]) ELSE node
      BY <1>1, <1>4
    <3>3. EndsAt(input, pos, n)
      <4>1. EndsAt(input, pos, Append(node, input[pos])) /\ EndsAt(input, pos, <<>>)
        BY <1>2, <3>1, EndsMore, EndsEmpty
      <4> QED BY <1>2, <3>1, <3>2, <4>1
    <3>4. ASSUME NEW k \in Nodes, EndsAt(input, pos, k)
          PROVE  Len(k) <= Len(n)
      <4>1. CASE k = Root
        BY <1>2, <4>1
      <4>2. CASE k # Root
        <5>1. PICK u \in Nodes : /\ EndsAt(input, pos - 1, u) /\ Has(u, input[pos])
                                /\ Len(k) = Len(u) + 1
          BY <1>2, <3>4, <4>2, GrownFrom
        <5>2. u \in Seq(Bytes) /\ Len(u) \in Nat /\ Len(u) <= Len(<<>>)
          BY <1>2, <3>1, <5>1
        <5>3. u = Root
          BY <1>2, <5>2
        <5>4. n = Append(u, input[pos])
          BY <3>1, <3>2, <5>1, <5>3
        <5>5. Len(n) = Len(u) + 1
          BY <1>2, <5>2, <5>4, Appended
        <5> QED BY <1>2, <5>1, <5>5
      <4> QED BY <4>1, <4>2
    <3> QED BY <3>3, <3>4
  <2> QED BY <1>1, <2>1, <2>2 DEF Matching
<1>6. CASE out[n] # <<>>
  <2>1. phase' = "done" /\ answer' = Head(out[n])
    BY <1>4, <1>6 DEF Take, Reported
  <2>2. answer' # None
    <3>1. out[n] \in Seq(Listed)
      BY <1>2, Typed
    <3>2. answer' \in Listed
      BY <1>6, <2>1, <3>1
    <3> QED BY <1>2, <3>2, StringAssumption
  <2>3. Longest' /\ Searched'
    BY <2>1, <2>2 DEF Longest, Searched, Matching
  <2> QED BY <1>1, <2>1, <2>3, Searching
<1>7. CASE out[n] = <<>>
  <2>1. /\ pos' = pos + 1 /\ answer' = answer
        /\ phase' = IF pos < Len(input) THEN "seek" ELSE "done"
    BY <1>4, <1>7 DEF Take, Reported
  <2>2. ASSUME NEW p \in Listed, EndsAt(input, pos, p)
        PROVE  FALSE
    <3>1. p \in Nodes /\ p # Root /\ Len(p) <= Len(n)
      BY <1>2, <1>5, <2>2
    <3>2. Ends(n, p) /\ (Len(p) = Len(n) => p = n)
      BY <1>2, <1>5, <2>2, <3>1, ShorterEnds
    <3>3. CASE p = n
      BY <1>7, <3>3 DEF Complete, Owned
    <3>4. CASE p # n
      <4>1. Len(p) < Len(n)
        BY <1>2, <3>1, <3>2, <3>4
      <4>2. Best(n) = p
        BY <1>2, <3>1, <3>2, <4>1, ShortSuffix
      <4>3. Settled(n)
        BY <1>1, Built
      <4> QED BY <1>7, <4>2, <4>3 DEF Settled
    <3> QED BY <3>3, <3>4
  <2>3. NotYet(pos - 1)
    BY <1>1 DEF Complete, Searched
  <2>4. NotYet(pos)
    <3>1. \A j \in 0..pos : j \in 0..(pos - 1) \/ j = pos
      BY <1>2
    <3> QED BY <2>2, <2>3, <3>1 DEF NotYet
  <2>5. Searched'
    <3>1. pos' - 1 = pos
      BY <1>2, <2>1
    <3>2. phase' = "done" => pos = Len(input)
      BY <1>2, <2>1
    <3>3. PICK q : q = pos
      OBVIOUS
    <3>4. \A p \in Listed' : \A j \in 0..q : ~EndsAt(input', j, p)
      BY <1>1, <1>3, <2>4, <3>3 DEF NotYet
    <3>5. pos' - 1 = q /\ (phase' = "done" => Len(input') = q)
      BY <1>1, <3>1, <3>2, <3>3
    <3> QED BY <3>4, <3>5 DEF Searched, NotYet, EndsAt
  <2>6. Longest'
    <3>1. PICK q : q = pos
      OBVIOUS
    <3>2. \A k \in Nodes : EndsAt(input', q, k) => Len(k) <= Len(n)
      BY <1>1, <1>5, <3>1
    <3>3. pos' - 1 = q /\ phase' # "take"
      BY <1>2, <2>1, <3>1
    <3> QED BY <1>3, <1>4, <3>2, <3>3 DEF Longest, EndsAt
  <2> QED BY <1>1, <2>1, <2>5, <2>6, Searching
<1> QED BY <1>6, <1>7

-----------------------------------------------------------------------------
LEMMA MatchInit == Init => MatchInv
BY SoundInit, CompleteInit DEF MatchInv

LEMMA MatchNext == MatchInv /\ [Next]_vars => MatchInv'
<1> SUFFICES ASSUME MatchInv, [Next]_vars PROVE MatchInv'
  OBVIOUS
<1>1. SoundInv /\ SoundInv'
  BY SoundNext DEF MatchInv
<1>2. patterns' = patterns
  BY DEF Next, vars, QueueRoot, Visit, Dequeue, Chase, Link, Begin, Seek, Take
<1>3. (NoDoubles' <=> NoDoubles) /\ (ShortOverlaps' <=> ShortOverlaps)
  BY <1>2, SameTrie
<1>4. ASSUME NoDoubles, ShortOverlaps
      PROVE  Complete'
  <2>1. Complete
    BY <1>4 DEF MatchInv
  <2>2. ASSUME NEW b \in Bytes, QueueRoot(b) PROVE Complete'
    BY <1>1, <2>1, <2>2, QueueRootComplete
  <2>3. ASSUME NEW b \in Bytes, Visit(b) PROVE Complete'
    BY <1>1, <2>1, <2>3, VisitComplete
  <2>4. CASE UNCHANGED vars
    <3>1. UNCHANGED <<patterns, input, phase, fail, out, queue, node, left, pos,
                      answer>>
      BY <2>4 DEF vars
    <3>2. /\ Nodes' = Nodes /\ Listed' = Listed
          /\ \A n : Best(n)' = Best(n)
      BY <3>1, SameTrie
    <3>3. \A n \in Nodes : (Settled(n) => Settled(n)') /\ (Pending(n) => Pending(n)')
      BY <3>1, <3>2 DEF Settled, Pending, Starts, Visiting
    <3>4. AllSettled'
      BY <2>1, <3>2, <3>3 DEF Complete, AllSettled
    <3>5. Owned' /\ Searched'
      BY <2>1, <3>1, <3>2 DEF Complete, Owned, Searched, NotYet, EndsAt, Matching
    <3>6. Longest'
      BY <2>1, <3>1, <3>2 DEF Complete, Longest, EndsAt, Has
    <3> QED BY <2>1, <3>1, <3>4, <3>5, <3>6 DEF Complete
  <2> QED BY <1>1, <1>4, <2>1, <2>2, <2>3, <2>4, DequeueComplete, ChaseComplete,
             LinkComplete, BeginComplete, SeekComplete, TakeComplete DEF Next
<1> QED BY <1>1, <1>3, <1>4 DEF MatchInv

LEMMA AlwaysMatching == Spec => []MatchInv
BY MatchInit, MatchNext, PTL DEF Spec

(***************************************************************************)
(* For every list of patterns, every input and every order in which the    *)
(* maps of children are walked: with no doubled bytes and no overlap       *)
(* longer than a byte, Match reports a pattern exactly when one of the     *)
(* file's is in the input (aho.go:15-95).                                  *)
(***************************************************************************)
THEOREM CompleteUnlessOverlapping == Spec => []CompleteWithShortOverlaps
<1>1. MatchInv => CompleteWithShortOverlaps
  <2> SUFFICES ASSUME MatchInv, NoDoubles, ShortOverlaps, phase = "done"
               PROVE  answer # None <=> \E p \in Listed : OccursIn(p, input)
    BY DEF CompleteWithShortOverlaps
  <2>1. /\ TypeOK /\ Sound /\ Walks /\ Complete
    BY DEF MatchInv, SoundInv
  <2>2. /\ input \in Seq(Bytes) /\ pos \in Nat /\ Len(input) \in Nat
        /\ \A p \in Listed : p \in Seq(Bytes)
    BY <2>1, Typed
  <2>3. ASSUME NEW p \in Listed
        PROVE  OccursIn(p, input) <=> \E i \in 0..Len(input) : EndsAt(input, i, p)
    BY <2>2, EndsWithIs DEF OccursIn
  <2>4. ASSUME answer # None
        PROVE  \E p \in Listed : OccursIn(p, input)
    <3>1. answer \in Listed /\ EndsAt(input, pos, answer) /\ pos <= Len(input)
      BY <2>1, <2>4 DEF TypeOK, Sound, Reports, Walks
    <3>2. pos \in 0..Len(input)
      BY <2>2, <3>1
    <3> QED BY <2>3, <3>1, <3>2
  <2>5. ASSUME answer = None
        PROVE  ~\E p \in Listed : OccursIn(p, input)
    <3>1. NotYet(Len(input))
      BY <2>1, <2>5 DEF Complete, Searched
    <3> QED BY <2>3, <3>1 DEF NotYet
  <2> QED BY <2>4, <2>5
<1> QED BY <1>1, AlwaysMatching, PTL

-----------------------------------------------------------------------------
(***************************************************************************)
(* What is left to do.  The nodes in the queue and the children of the     *)
(* node visited that are still to come lie apart in the trie: no one is a  *)
(* prefix of another.  So a node is queued once, whatever the patterns.    *)
(***************************************************************************)
Queuing == {"roots", "visit", "chase", "link"}

Apart(s, t) == ~Starts(s, t) /\ ~Starts(t, s)

Spread ==
    /\ \A i, j \in DOMAIN queue : i # j => Apart(queue[i], queue[j])
    /\ phase \in Queuing =>
          \A i \in DOMAIN queue : \A b \in left : Apart(queue[i], Append(node, b))
    /\ phase = "roots" => node = Root
    /\ phase \in {"chase", "link"} => letter \in left

SpreadInv == SoundInv /\ Spread

\* Two children of one node, and the children of nodes that lie apart.
LEMMA ApartGrown ==
    ASSUME NEW S, NEW s \in Seq(S), NEW t \in Seq(S), NEW b \in S, NEW c \in S
    PROVE  /\ b # c => Apart(Append(s, b), Append(s, c))
           /\ Apart(t, s) => Apart(t, Append(s, b))
<1>1. PICK u, v : u = Append(s, b) /\ v = Append(s, c)
  OBVIOUS
<1>2. /\ u \in Seq(S) /\ Len(u) = Len(s) + 1 /\ u[Len(s) + 1] = b
      /\ \A j \in 1..Len(s) : u[j] = s[j]
  BY <1>1, Appended
<1>3. v \in Seq(S) /\ Len(v) = Len(s) + 1 /\ v[Len(s) + 1] = c
  BY <1>1, Appended
<1>4. Len(s) \in Nat /\ Len(t) \in Nat
  OBVIOUS
<1>5. ASSUME b # c PROVE Apart(u, v)
  <2>1. Len(s) + 1 \in 1..Len(u) /\ Len(s) + 1 \in 1..Len(v)
    BY <1>2, <1>3, <1>4
  <2> QED BY <1>2, <1>3, <1>5, <2>1 DEF Apart, Starts
<1>6. ASSUME ~Starts(t, s) PROVE ~Starts(t, u)
  <2>1. ASSUME Starts(t, u) PROVE FALSE
    <3>1. Len(u) <= Len(t) /\ \A j \in 1..Len(u) : u[j] = t[j]
      BY <2>1 DEF Starts
    <3>2. Len(s) <= Len(t) /\ \A j \in 1..Len(s) : j \in 1..Len(u)
      BY <1>2, <1>4, <3>1
    <3>3. \A j \in 1..Len(s) : s[j] = t[j]
      BY <1>2, <3>1, <3>2
    <3> QED BY <1>6, <3>2, <3>3 DEF Starts
  <2> QED BY <2>1
<1>7. ASSUME ~Starts(t, s), ~Starts(s, t) PROVE ~Starts(u, t)
  <2>1. ASSUME Starts(u, t) PROVE FALSE
    <3>1. Len(t) <= Len(u) /\ \A j \in 1..Len(t) : t[j] = u[j]
      BY <2>1 DEF Starts
    <3>2. CASE Len(t) <= Len(s)
      <4>1. \A j \in 1..Len(t) : j \in 1..Len(s)
        BY <1>4, <3>2
      <4>2. \A j \in 1..Len(t) : t[j] = s[j]
        BY <1>2, <3>1, <4>1
      <4> QED BY <1>7, <3>2, <4>2 DEF Starts
    <3>3. CASE Len(t) > Len(s)
      <4>1. \A j \in 1..Len(s) : j \in 1..Len(t)
        BY <1>4, <3>3
      <4>2. \A j \in 1..Len(s) : s[j] = t[j]
        BY <1>2, <3>1, <4>1
      <4>3. Len(s) <= Len(t)
        BY <1>4, <3>3
      <4> QED BY <1>7, <4>2, <4>3 DEF Starts
    <3> QED BY <1>4, <3>2, <3>3
  <2> QED BY <2>1
<1> QED BY <1>1, <1>5, <1>6, <1>7 DEF Apart

\* A function takes no more values than it has arguments.
LEMMA FiniteValues ==
    ASSUME NEW S, IsFiniteSet(S), NEW f, DOMAIN f = S
    PROVE  IsFiniteSet({f[x] : x \in S})
<1> DEFINE T == {f[x] : x \in S}
           g == [x \in S |-> f[x]]
<1>1. g \in [S -> T] /\ \A t \in T : \E x \in S : g[x] = t
  OBVIOUS
<1>2. g \in Surjection(S, T)
  BY <1>1 DEF Surjection
<1> HIDE DEF g, T
<1>3. IsFiniteSet(T)
  BY <1>2, FS_Surjection
<1> QED BY <1>3 DEF T

LEMMA NodesFinite ==
    ASSUME patterns \in PatternLists
    PROVE  IsFiniteSet(Nodes)
<1> DEFINE Prefixes(p) == {SubSeq(p, 1, i) : i \in 1..Len(p)}
           Before == [p \in Listed |-> Prefixes(p)]
<1>1. patterns \in Seq(Seq(Bytes)) /\ Len(patterns) \in Nat
  BY StringAssumption
<1>2. IsFiniteSet(Listed)
  <2>1. IsFiniteSet(1..Len(patterns)) /\ DOMAIN patterns = 1..Len(patterns)
    BY <1>1, FS_Interval
  <2>2. IsFiniteSet({patterns[i] : i \in DOMAIN patterns})
    BY <2>1, FiniteValues
  <2>3. Listed = {patterns[i] : i \in DOMAIN patterns} \ {Root}
    BY DEF Listed
  <2> QED BY <2>2, <2>3, FS_Difference
<1>3. ASSUME NEW p \in Listed PROVE IsFiniteSet(Prefixes(p))
  <2> DEFINE cut == [i \in 1..Len(p) |-> SubSeq(p, 1, i)]
  <2>1. Len(p) \in Nat
    BY <1>1 DEF Listed
  <2>2. IsFiniteSet(1..Len(p))
    BY <2>1, FS_Interval
  <2>3. DOMAIN cut = 1..Len(p) /\ Prefixes(p) = {cut[i] : i \in 1..Len(p)}
    OBVIOUS
  <2> HIDE DEF cut, Prefixes
  <2> QED BY <2>2, <2>3, FiniteValues
<1> HIDE DEF Prefixes
<1>4. IsFiniteSet({Before[p] : p \in Listed})
  <2>1. DOMAIN Before = Listed
    OBVIOUS
  <2> HIDE DEF Before
  <2> QED BY <1>2, <2>1, FiniteValues
<1>5. {Before[p] : p \in Listed} = {Prefixes(p) : p \in Listed}
  OBVIOUS
<1>6. \A T \in {Prefixes(p) : p \in Listed} : IsFiniteSet(T)
  BY <1>3
<1>7. IsFiniteSet(UNION {Prefixes(p) : p \in Listed})
  BY <1>4, <1>5, <1>6, FS_UNION
<1>8. IsFiniteSet({Root})
  BY FS_Singleton
<1>9. Nodes = {Root} \cup UNION {Prefixes(p) : p \in Listed}
  BY DEF Nodes, Prefixes
<1> QED BY <1>7, <1>8, <1>9, FS_Union

\* A child of the node visited, or of the root, joins the queue.
LEMMA Queued ==
    ASSUME TypeOK, Spread, phase \in Queuing, NEW b \in left, Has(node, b),
           patterns' = patterns, node' = node, left' = left \ {b},
           queue' = Append(queue, Append(node, b)),
           phase' \in {"roots", "visit", "next"}, phase' = "roots" => phase = "roots"
    PROVE  /\ Spread'
           /\ Unqueued' \subseteq Unqueued
           /\ Append(node, b) \in Unqueued \ Unqueued'
<1>1. PICK child : child = Append(node, b)
  OBVIOUS
<1>2. /\ Nodes \subseteq Seq(Bytes) /\ node \in Nodes /\ node \in Seq(Bytes)
      /\ left \subseteq Bytes /\ queue \in Seq(Nodes)
      /\ b \in Bytes /\ child \in Nodes /\ child \in Seq(Bytes)
      /\ \A i \in DOMAIN queue : queue[i] \in Nodes /\ queue[i] \in Seq(Bytes)
  <2>1. /\ Nodes \subseteq Seq(Bytes) /\ node \in Nodes /\ left \subseteq Bytes
        /\ queue \in Seq(Nodes)
    BY Typed DEF TypeOK
  <2>2. child \in Nodes
    BY <1>1 DEF Has
  <2>3. \A i \in DOMAIN queue : queue[i] \in Nodes
    BY <2>1
  <2> QED BY <2>1, <2>2, <2>3
<1>3. /\ Len(child) = Len(node) + 1 /\ child[Len(node) + 1] = b
      /\ \A j \in 1..Len(node) : child[j] = node[j]
      /\ Len(node) \in Nat
  BY <1>1, <1>2, Appended
<1>4. Nodes' = Nodes
  BY SameTrie
<1>5. /\ queue' = Append(queue, child) /\ Len(queue) \in Nat
      /\ DOMAIN queue = 1..Len(queue) /\ DOMAIN queue' = 1..(Len(queue) + 1)
      /\ queue'[Len(queue) + 1] = child
      /\ \A i \in 1..Len(queue) : queue'[i] = queue[i]
  BY <1>1, <1>2
<1>6. \A i \in DOMAIN queue' : i \in DOMAIN queue \/ i = Len(queue) + 1
  BY <1>5
<1>7. \A i \in DOMAIN queue : Apart(queue[i], child)
  BY <1>1 DEF Spread
<1>8. \A s, t : Apart(s, t) <=> Apart(t, s)
  BY DEF Apart
<1>9. ASSUME NEW i \in DOMAIN queue', NEW j \in DOMAIN queue', i # j
      PROVE  Apart(queue'[i], queue'[j])
  <2>1. CASE i \in DOMAIN queue /\ j \in DOMAIN queue
    <3>1. Apart(queue[i], queue[j])
      BY <1>9, <2>1 DEF Spread
    <3> QED BY <1>5, <2>1, <3>1
  <2>2. CASE i \in DOMAIN queue /\ j = Len(queue) + 1
    BY <1>5, <1>7, <2>2
  <2>3. CASE i = Len(queue) + 1 /\ j \in DOMAIN queue
    BY <1>5, <1>7, <1>8, <2>3
  <2> QED BY <1>6, <1>9, <2>1, <2>2, <2>3
<1>10. ASSUME NEW i \in DOMAIN queue', NEW c \in left \ {b}
       PROVE  Apart(queue'[i], Append(node, c))
  <2>1. CASE i \in DOMAIN queue
    <3>1. Apart(queue[i], Append(node, c))
      BY <2>1 DEF Spread
    <3> QED BY <1>5, <2>1, <3>1
  <2>2. CASE i = Len(queue) + 1
    <3>1. Apart(child, Append(node, c))
      BY <1>1, <1>2, ApartGrown
    <3> QED BY <1>5, <2>2, <3>1
  <2> QED BY <1>6, <2>1, <2>2
<1>11. Spread'
  <2>1. \A s, t : Apart(s, t)' <=> Apart(s, t)
    BY DEF Apart, Starts
  <2>2. \A i, j \in DOMAIN queue' : i # j => Apart(queue'[i], queue'[j])
    BY <1>9
  <2>3. \A i \in DOMAIN queue' : \A c \in left' : Apart(queue'[i], Append(node', c))
    BY <1>10
  <2>4. phase' = "roots" => node' = Root
    BY DEF Spread
  <2> QED BY <2>2, <2>3, <2>4 DEF Spread, Apart, Starts
<1>12. child \in Unqueued
  <2>1. Len(node) < Len(child) /\ \A i \in 1..Len(node) : child[i] = node[i]
    BY <1>3
  <2> QED BY <1>2, <1>3, <2>1 DEF Unqueued, Queuing
<1>13. child \notin Unqueued'
  <2> SUFFICES ASSUME child \in Unqueued' PROVE FALSE
    OBVIOUS
  <2>1. PICK m \in Nodes :
          /\ Len(m) < Len(child) /\ \A i \in 1..Len(m) : child[i] = m[i]
          /\ \/ \E i \in DOMAIN queue' : queue'[i] = m
             \/ m = node' /\ child[Len(m) + 1] \in left'
    BY <1>4 DEF Unqueued
  <2>2. Starts(child, m)
    BY <1>2, <1>3, <2>1 DEF Starts
  <2>3. ~(m = node' /\ child[Len(m) + 1] \in left')
    BY <1>3
  <2>4. PICK i \in DOMAIN queue' : queue'[i] = m
    BY <2>1, <2>3
  <2>5. CASE i \in DOMAIN queue
    BY <1>5, <1>7, <2>2, <2>4, <2>5 DEF Apart
  <2>6. CASE i = Len(queue) + 1
    BY <1>3, <1>5, <2>1, <2>4, <2>6
  <2> QED BY <1>6, <2>5, <2>6
<1>14. Unqueued' \subseteq Unqueued
  <2> SUFFICES ASSUME NEW n \in Unqueued' PROVE n \in Unqueued
    OBVIOUS
  <2>1. n \in Nodes
    BY <1>4 DEF Unqueued
  <2>2. PICK m \in Nodes :
          /\ Len(m) < Len(n) /\ \A i \in 1..Len(m) : n[i] = m[i]
          /\ \/ \E i \in DOMAIN queue' : queue'[i] = m
             \/ m = node /\ n[Len(m) + 1] \in left'
    BY <1>4 DEF Unqueued
  <2>3. CASE m = node /\ n[Len(m) + 1] \in left'
    BY <2>1, <2>2, <2>3 DEF Unqueued, Queuing
  <2>4. CASE \E i \in DOMAIN queue' : queue'[i] = m
    <3>1. PICK i \in DOMAIN queue' : queue'[i] = m
      BY <2>4
    <3>2. CASE i \in DOMAIN queue
      <4>1. queue[i] = m
        BY <1>5, <3>1, <3>2
      <4> QED BY <2>1, <2>2, <3>2, <4>1 DEF Unqueued
    <3>3. CASE i = Len(queue) + 1
      <4>1. m = child /\ Len(n) \in Nat
        BY <1>2, <1>5, <2>1, <3>1, <3>3
      <4>2. Len(node) + 1 \in 1..Len(child) /\ \A k \in 1..Len(node) : k \in 1..Len(child)
        BY <1>3
      <4>3. n[Len(node) + 1] = b /\ \A k \in 1..Len(node) : n[k] = node[k]
        BY <1>3, <2>2, <4>1, <4>2
      <4>4. Len(node) < Len(n)
        BY <1>3, <2>2, <4>1
      <4> QED BY <1>2, <2>1, <4>3, <4>4 DEF Unqueued, Queuing
    <3> QED BY <1>6, <3>2, <3>3
  <2> QED BY <2>2, <2>3, <2>4
<1> QED BY <1>1, <1>11, <1>12, <1>13, <1>14

LEMMA DequeueSpread ==
    ASSUME SpreadInv, Dequeue
    PROVE  Spread' /\ Unqueued' \subseteq Unqueued
<1>1. /\ phase = "next" /\ queue # <<>> /\ node' = Head(queue)
      /\ queue' = Tail(queue) /\ left' = Letters(node')
      /\ phase' \in {"next", "visit"} /\ patterns' = patterns
  BY DEF Dequeue
<1>2. /\ Nodes \subseteq Seq(Bytes) /\ queue \in Seq(Nodes)
      /\ \A n : Letters(n) \subseteq Bytes
  BY Typed, TrieFacts DEF SpreadInv, SoundInv, TypeOK
<1>3. /\ Len(queue) \in Nat \ {0} /\ DOMAIN queue = 1..Len(queue)
      /\ DOMAIN queue' = 1..(Len(queue) - 1) /\ node' = queue[1]
      /\ \A i \in DOMAIN queue' : queue'[i] = queue[i + 1] /\ i + 1 \in DOMAIN queue
      /\ 1 \in DOMAIN queue
      /\ \A i \in DOMAIN queue : queue[i] \in Nodes /\ queue[i] \in Seq(Bytes)
  BY <1>1, <1>2
<1>4. \A i, j \in DOMAIN queue : i # j => Apart(queue[i], queue[j])
  BY DEF SpreadInv, Spread
<1>5. \A i, j \in DOMAIN queue' : i # j => Apart(queue'[i], queue'[j])
  <2> SUFFICES ASSUME NEW i \in DOMAIN queue', NEW j \in DOMAIN queue', i # j
               PROVE  Apart(queue[i + 1], queue[j + 1])
    BY <1>3
  <2>1. i + 1 # j + 1 /\ i + 1 \in DOMAIN queue /\ j + 1 \in DOMAIN queue
    BY <1>3
  <2> QED BY <1>4, <2>1
<1>6. ASSUME NEW i \in DOMAIN queue', NEW b \in left'
      PROVE  Apart(queue'[i], Append(node', b))
  <2>1. i + 1 \in DOMAIN queue /\ i + 1 # 1
    BY <1>3
  <2>2. Apart(queue[i + 1], queue[1])
    BY <1>3, <1>4, <2>1
  <2>3. b \in Bytes
    BY <1>1, <1>2
  <2> QED BY <1>3, <2>1, <2>2, <2>3, ApartGrown
<1>7. Spread'
  BY <1>1, <1>5, <1>6 DEF Spread, Apart, Starts
<1>8. Unqueued' \subseteq Unqueued
  <2> SUFFICES ASSUME NEW n \in Unqueued' PROVE n \in Unqueued
    OBVIOUS
  <2>0. Nodes' = Nodes
    BY <1>1, SameTrie
  <2>1. n \in Nodes
    BY <2>0 DEF Unqueued
  <2>2. PICK m \in Nodes :
          /\ Len(m) < Len(n) /\ \A i \in 1..Len(m) : n[i] = m[i]
          /\ (\E i \in DOMAIN queue' : queue'[i] = m) \/ m = node'
    BY <2>0 DEF Unqueued
  <2>3. \E i \in DOMAIN queue : queue[i] = m
    BY <1>3, <2>2
  <2> QED BY <2>1, <2>2, <2>3 DEF Unqueued
<1> QED BY <1>7, <1>8

\* The queue and the children that are still to come stay.
LEMMA SpreadStays ==
    ASSUME Spread, UNCHANGED <<patterns, queue, left, node>>,
           phase' \in Queuing => phase \in Queuing,
           phase' = "roots" => phase = "roots",
           phase' \in {"chase", "link"} => letter' \in left
    PROVE  Spread' /\ Unqueued' \subseteq Unqueued
<1>1. Nodes' = Nodes
  BY SameTrie
<1>2. Spread'
  BY DEF Spread, Apart, Starts
<1>3. Unqueued' \subseteq Unqueued
  BY <1>1 DEF Unqueued, Queuing
<1> QED BY <1>2, <1>3

\* Where two tuples first differ the new one is less.
LEMMA Lower ==
    ASSUME NEW a \in Nat, NEW b \in Nat, NEW c \in Nat, NEW d \in Nat, NEW e \in Nat,
           NEW f \in Nat, NEW g \in Nat, NEW h \in Nat, NEW i \in Nat, NEW j \in Nat,
           \/ f < a
           \/ f <= a /\ g < b
           \/ f <= a /\ g = b /\ h < c
           \/ f <= a /\ g = b /\ h = c /\ i < d
           \/ f <= a /\ g = b /\ h = c /\ i = d /\ j < e
    PROVE  Less(<<f, g, h, i, j>>, <<a, b, c, d, e>>)
<1>1. PICK s, t : s = <<f, g, h, i, j>> /\ t = <<a, b, c, d, e>>
  OBVIOUS
<1>2. /\ s \in Seq(Nat) /\ DOMAIN t = 1..5
      /\ s[1] = f /\ s[2] = g /\ s[3] = h /\ s[4] = i /\ s[5] = j
      /\ t[1] = a /\ t[2] = b /\ t[3] = c /\ t[4] = d /\ t[5] = e
  BY <1>1
<1>3. \E k \in 1..5 : s[k] < t[k] /\ \A l \in 1..(k - 1) : s[l] = t[l]
  <2>1. CASE f < a
    <3>1. 1 \in 1..5 /\ 1..(1 - 1) = {}
      OBVIOUS
    <3>2. s[1] < t[1]
      BY <1>2, <2>1
    <3> QED BY <3>1, <3>2
  <2>2. CASE f = a /\ g < b
    <3>1. 2 \in 1..5 /\ \A l \in 1..(2 - 1) : l = 1
      OBVIOUS
    <3>2. s[2] < t[2] /\ s[1] = t[1]
      BY <1>2, <2>2
    <3> QED BY <3>1, <3>2
  <2>3. CASE f = a /\ g = b /\ h < c
    <3>1. 3 \in 1..5 /\ \A l \in 1..(3 - 1) : l = 1 \/ l = 2
      OBVIOUS
    <3>2. s[3] < t[3] /\ s[1] = t[1] /\ s[2] = t[2]
      BY <1>2, <2>3
    <3> QED BY <3>1, <3>2
  <2>4. CASE f = a /\ g = b /\ h = c /\ i < d
    <3>1. 4 \in 1..5 /\ \A l \in 1..(4 - 1) : l = 1 \/ l = 2 \/ l = 3
      OBVIOUS
    <3>2. s[4] < t[4] /\ s[1] = t[1] /\ s[2] = t[2] /\ s[3] = t[3]
      BY <1>2, <2>4
    <3> QED BY <3>1, <3>2
  <2>5. CASE f = a /\ g = b /\ h = c /\ i = d /\ j < e
    <3>1. 5 \in 1..5 /\ \A l \in 1..(5 - 1) : l = 1 \/ l = 2 \/ l = 3 \/ l = 4
      OBVIOUS
    <3>2. s[5] < t[5] /\ s[1] = t[1] /\ s[2] = t[2] /\ s[3] = t[3] /\ s[4] = t[4]
      BY <1>2, <2>5
    <3> QED BY <3>1, <3>2
  <2> QED BY <2>1, <2>2, <2>3, <2>4, <2>5
<1> QED BY <1>1, <1>2, <1>3 DEF Less

\* All of what is left is natural numbers.
Numbers ==
    /\ IsFiniteSet(Unqueued) /\ Cardinality(Unqueued) \in Nat
    /\ Len(queue) \in Nat /\ Len(input) + 1 - pos \in Nat
    /\ PhasesAhead[phase] \in Nat
    /\ Len(IF phase = "seek" THEN node ELSE probe) \in Nat
    /\ pos \in Nat /\ Len(input) \in Nat

LEMMA Measured == SoundInv => Numbers
<1> SUFFICES ASSUME SoundInv PROVE Numbers
  OBVIOUS
<1>1. TypeOK
  BY DEF SoundInv
<1>2. IsFiniteSet(Nodes)
  BY <1>1, NodesFinite DEF TypeOK
<1>3. Unqueued \subseteq Nodes
  BY DEF Unqueued
<1>4. IsFiniteSet(Unqueued) /\ Cardinality(Unqueued) \in Nat
  BY <1>2, <1>3, FS_Subset, FS_CardinalityType
<1>5. queue \in Seq(Nodes) /\ node \in Seq(Bytes) /\ probe \in Seq(Bytes)
  BY <1>1, Typed DEF TypeOK
<1>6. Len(queue) \in Nat /\ Len(node) \in Nat /\ Len(probe) \in Nat
  BY <1>5
<1>7. Len(input) + 1 - pos \in Nat /\ pos \in Nat /\ Len(input) \in Nat
  BY <1>1, Typed
<1>8. phase \in {"error", "roots", "next", "visit", "chase", "link",
                 "seek", "take", "done"}
  BY <1>1 DEF TypeOK
<1>9. PhasesAhead[phase] \in Nat
  BY <1>8 DEF PhasesAhead
<1> QED BY <1>4, <1>6, <1>7, <1>9 DEF Numbers

LEMMA MeasuredNext == SoundInv' => Numbers'
BY Measured, PTL

\* Set T of nodes is no more than set S, and less if it lacks one.
LEMMA Fewer ==
    ASSUME NEW S, IsFiniteSet(S), NEW T, T \subseteq S
    PROVE  /\ Cardinality(T) <= Cardinality(S)
           /\ \A e \in S \ T : Cardinality(T) < Cardinality(S)
<1>1. /\ Cardinality(T) \in Nat /\ Cardinality(S) \in Nat
      /\ Cardinality(T) <= Cardinality(S)
      /\ Cardinality(T) = Cardinality(S) => S = T
  BY FS_Subset, FS_CardinalityType
<1> QED BY <1>1

\* A step leaves less to do if it leaves less of what it may not add to.
LEMMA LeftLess ==
    ASSUME SoundInv, SoundInv', Unqueued' \subseteq Unqueued,
           \/ Unqueued \ Unqueued' # {}
           \/ Len(queue') < Len(queue)
           \/ Len(queue') = Len(queue) /\ input' = input /\ pos < pos'
           \/ /\ UNCHANGED <<queue, input, pos>>
              /\ \/ PhasesAhead[phase'] < PhasesAhead[phase]
                 \/ /\ phase' = phase
                    /\ Len(IF phase' = "seek" THEN node' ELSE probe')
                            < Len(IF phase = "seek" THEN node ELSE probe)
    PROVE  Less(Remaining', Remaining)
<1> DEFINE a == Cardinality(Unqueued)
           b == Len(queue)
           c == Len(input) + 1 - pos
           d == PhasesAhead[phase]
           e == Len(IF phase = "seek" THEN node ELSE probe)
<1>1. Numbers /\ Numbers'
  BY Measured, MeasuredNext
<1>2. /\ Cardinality(Unqueued') <= Cardinality(Unqueued)
      /\ Unqueued \ Unqueued' # {} => Cardinality(Unqueued') < Cardinality(Unqueued)
  BY <1>1, Fewer DEF Numbers
<1>3. input' = input /\ pos < pos' => Len(input') + 1 - pos' < Len(input) + 1 - pos
  BY <1>1 DEF Numbers
<1>4. a \in Nat /\ b \in Nat /\ c \in Nat /\ d \in Nat /\ e \in Nat
  BY <1>1 DEF Numbers
<1>5. /\ a' \in Nat /\ b' \in Nat /\ c' \in Nat /\ d' \in Nat /\ e' \in Nat
  BY <1>1 DEF Numbers
<1>6. \/ a' < a
      \/ a' <= a /\ b' < b
      \/ a' <= a /\ b' = b /\ c' < c
      \/ a' <= a /\ b' = b /\ c' = c /\ d' < d
      \/ a' <= a /\ b' = b /\ c' = c /\ d' = d /\ e' < e
  BY <1>2, <1>3
<1>7. Remaining = <<a, b, c, d, e>> /\ Remaining' = <<a', b', c', d', e'>>
  BY DEF Remaining
<1> HIDE DEF a, b, c, d, e
<1> QED BY <1>4, <1>5, <1>6, <1>7, Lower

(***************************************************************************)
(* One lemma per action.                                                   *)
(***************************************************************************)
LEMMA SpreadInit == Init => Spread
BY DEF Init, Spread

LEMMA QueueRootLess ==
    ASSUME SpreadInv, SoundInv', NEW b \in Bytes, QueueRoot(b)
    PROVE  Spread' /\ Less(Remaining', Remaining)
<1>1. /\ phase = "roots" /\ b \in left /\ left' = left \ {b}
      /\ queue' = Append(queue, <<b>>) /\ phase' \in {"roots", "next"}
      /\ patterns' = patterns /\ node' = node
  BY DEF QueueRoot
<1>2. TypeOK /\ Spread /\ left \subseteq Letters(Root) /\ node = Root
  BY <1>1 DEF SpreadInv, SoundInv, Walks, Spread
<1>3. Append(node, b) = <<b>> /\ Has(node, b)
  BY <1>1, <1>2 DEF Root, Letters
<1>4. /\ Spread' /\ Unqueued' \subseteq Unqueued
      /\ Append(node, b) \in Unqueued \ Unqueued'
  BY <1>1, <1>2, <1>3, Queued DEF Queuing
<1> QED BY <1>4, LeftLess DEF SpreadInv

LEMMA DequeueLess ==
    ASSUME SpreadInv, SoundInv', Dequeue
    PROVE  Spread' /\ Less(Remaining', Remaining)
<1>1. Spread' /\ Unqueued' \subseteq Unqueued
  BY DequeueSpread
<1>2. Len(queue') < Len(queue)
  <2>1. queue \in Seq(Nodes) /\ queue # <<>> /\ queue' = Tail(queue)
    BY DEF Dequeue, SpreadInv, SoundInv, TypeOK
  <2>2. Len(queue) \in Nat /\ Len(queue') = Len(queue) - 1
    BY <2>1
  <2> QED BY <2>2
<1> QED BY <1>1, <1>2, LeftLess DEF SpreadInv

LEMMA VisitLess ==
    ASSUME SpreadInv, SoundInv', NEW b \in Bytes, Visit(b)
    PROVE  Spread' /\ Less(Remaining', Remaining)
<1>1. /\ phase = "visit" /\ phase' = "chase" /\ letter' \in left
      /\ UNCHANGED <<patterns, input, queue, left, node, pos>>
  BY DEF Visit
<1>2. Spread' /\ Unqueued' \subseteq Unqueued
  BY <1>1, SpreadStays DEF SpreadInv, Queuing
<1>3. PhasesAhead[phase'] < PhasesAhead[phase]
  BY <1>1 DEF PhasesAhead
<1> QED BY <1>1, <1>2, <1>3, LeftLess DEF SpreadInv

LEMMA ChaseLess ==
    ASSUME SpreadInv, SoundInv', Chase
    PROVE  Spread' /\ (NoDoubles => Less(Remaining', Remaining))
<1>1. /\ phase = "chase" /\ probe # Root
      /\ UNCHANGED <<patterns, input, queue, left, node, letter, pos>>
      /\ \/ phase' = "link"
         \/ phase' = "chase" /\ probe' = fail[probe]
  BY DEF Chase
<1>2. Spread' /\ Unqueued' \subseteq Unqueued
  BY <1>1, SpreadStays DEF SpreadInv, Spread, Queuing
<1>3. CASE phase' = "link"
  <2>1. PhasesAhead[phase'] < PhasesAhead[phase]
    BY <1>1, <1>3 DEF PhasesAhead
  <2> QED BY <1>1, <1>2, <2>1, LeftLess DEF SpreadInv
<1>4. ASSUME phase' = "chase" /\ probe' = fail[probe], NoDoubles
      PROVE  Less(Remaining', Remaining)
  <2>1. Len(probe') < Len(probe)
    BY <1>1, <1>4 DEF SpreadInv, SoundInv, TypeOK, Sound, Linked
  <2>2. /\ phase' = phase
        /\ Len(IF phase' = "seek" THEN node' ELSE probe')
                < Len(IF phase = "seek" THEN node ELSE probe)
    BY <1>1, <1>4, <2>1
  <2> QED BY <1>1, <1>2, <2>2, LeftLess DEF SpreadInv
<1> QED BY <1>1, <1>2, <1>3, <1>4

LEMMA LinkLess ==
    ASSUME SpreadInv, SoundInv', Link
    PROVE  Spread' /\ Less(Remaining', Remaining)
<1>1. /\ phase \in {"chase", "link"} /\ left' = left \ {letter}
      /\ queue' = Append(queue, Append(node, letter))
      /\ phase' \in {"next", "visit"}
      /\ patterns' = patterns /\ node' = node
  BY DEF Link
<1>2. TypeOK /\ Spread /\ letter \in Letters(node) /\ letter \in left
  BY <1>1 DEF SpreadInv, SoundInv, Walks, Spread
<1>3. Has(node, letter)
  BY <1>2 DEF Letters
<1>4. /\ Spread' /\ Unqueued' \subseteq Unqueued
      /\ Append(node, letter) \in Unqueued \ Unqueued'
  BY <1>1, <1>2, <1>3, Queued DEF Queuing
<1> QED BY <1>4, LeftLess DEF SpreadInv

LEMMA BeginLess ==
    ASSUME SpreadInv, SoundInv', Begin
    PROVE  Spread' /\ Less(Remaining', Remaining)
<1>1. /\ phase = "next" /\ phase' \in {"done", "seek"} /\ queue = <<>>
      /\ UNCHANGED <<queue, input, pos>>
  BY DEF Begin
<1>2. Spread' /\ Unqueued' = {} /\ Unqueued = {}
  BY <1>1 DEF Spread, Unqueued, Queuing
<1>3. PhasesAhead[phase'] < PhasesAhead[phase]
  BY <1>1 DEF PhasesAhead
<1> QED BY <1>1, <1>2, <1>3, LeftLess DEF SpreadInv

\* Match reads an automaton that is built.
LEMMA MatchingQueued ==
    ASSUME SpreadInv, phase \in Matching, phase' \in Matching \cup {"done"},
           queue' = queue
    PROVE  Spread' /\ Unqueued' \subseteq Unqueued
<1>1. queue = <<>> /\ phase' \notin {"roots", "visit", "chase", "link"}
  BY DEF SpreadInv, SoundInv, Walks, Matching
<1> QED BY <1>1 DEF Spread, Unqueued, Queuing

LEMMA SeekLess ==
    ASSUME SpreadInv, SoundInv', Seek
    PROVE  Spread' /\ (NoDoubles => Less(Remaining', Remaining))
<1>1. /\ phase = "seek" /\ node # Root
      /\ UNCHANGED <<patterns, input, queue, pos>>
      /\ \/ phase' = "take"
         \/ phase' = "seek" /\ node' = fail[node]
  BY DEF Seek
<1>2. Spread' /\ Unqueued' \subseteq Unqueued
  BY <1>1, MatchingQueued DEF Matching
<1>3. CASE phase' = "take"
  <2>1. PhasesAhead[phase'] < PhasesAhead[phase]
    BY <1>1, <1>3 DEF PhasesAhead
  <2> QED BY <1>1, <1>2, <2>1, LeftLess DEF SpreadInv
<1>4. ASSUME phase' = "seek" /\ node' = fail[node], NoDoubles
      PROVE  Less(Remaining', Remaining)
  <2>1. Len(node') < Len(node)
    BY <1>1, <1>4 DEF SpreadInv, SoundInv, TypeOK, Sound, Linked
  <2>2. /\ phase' = phase
        /\ Len(IF phase' = "seek" THEN node' ELSE probe')
                < Len(IF phase = "seek" THEN node ELSE probe)
    BY <1>1, <1>4, <2>1
  <2> QED BY <1>1, <1>2, <2>2, LeftLess DEF SpreadInv
<1> QED BY <1>1, <1>2, <1>3, <1>4

LEMMA TakeLess ==
    ASSUME SpreadInv, SoundInv', Take
    PROVE  Spread' /\ Less(Remaining', Remaining)
<1>1. /\ phase \in Matching /\ UNCHANGED <<input, queue>>
      /\ \/ phase' = "done" /\ UNCHANGED pos
         \/ phase' \in {"seek", "done"} /\ pos' = pos + 1
  BY DEF Take, Matching
<1>2. Spread' /\ Unqueued' \subseteq Unqueued
  BY <1>1, MatchingQueued DEF Matching
<1>3. CASE phase' = "done" /\ UNCHANGED pos
  <2>1. PhasesAhead[phase'] < PhasesAhead[phase]
    BY <1>1, <1>3 DEF PhasesAhead, Matching
  <2> QED BY <1>1, <1>2, <1>3, <2>1, LeftLess DEF SpreadInv
<1>4. CASE pos' = pos + 1
  <2>1. pos < pos'
    BY <1>4, Typed DEF SpreadInv, SoundInv, TypeOK
  <2> QED BY <1>1, <1>2, <2>1, LeftLess DEF SpreadInv
<1> QED BY <1>1, <1>3, <1>4

LEMMA EachLess ==
    ASSUME SpreadInv, Next
    PROVE  SpreadInv' /\ (NoDoubles => Less(Remaining', Remaining))
<1>0. SoundInv'
  BY SoundNext DEF SpreadInv
<1>1. ASSUME NEW b \in Bytes, QueueRoot(b)
      PROVE  Spread' /\ Less(Remaining', Remaining)
  BY <1>0, <1>1, QueueRootLess
<1>2. ASSUME NEW b \in Bytes, Visit(b)
      PROVE  Spread' /\ Less(Remaining', Remaining)
  BY <1>0, <1>2, VisitLess
<1>3. Spread' /\ (NoDoubles => Less(Remaining', Remaining))
  BY <1>0, <1>1, <1>2, DequeueLess, ChaseLess, LinkLess, BeginLess, SeekLess,
     TakeLess DEF Next
<1> QED BY <1>0, <1>3 DEF SpreadInv

LEMMA SpreadNext == SpreadInv /\ [Next]_vars => SpreadInv'
<1>1. ASSUME SpreadInv, UNCHANGED vars PROVE SpreadInv'
  <2>1. SoundInv'
    BY <1>1, SoundNext DEF SpreadInv
  <2>2. Spread'
    BY <1>1 DEF SpreadInv, Spread, Apart, Starts, vars
  <2> QED BY <2>1, <2>2 DEF SpreadInv
<1> QED BY <1>1, EachLess

(***************************************************************************)
(* For every list of patterns without doubled bytes, every input and every *)
(* order in which the maps of children are walked: each step of            *)
(* NewAhoMatcher and of Match lowers a tuple of natural numbers in         *)
(* lexicographic order, so neither can take steps forever (aho.go:39-66,   *)
(* 75-98).                                                                 *)
(***************************************************************************)
THEOREM EachStepLeavesLess == Spec => LeavesLess
<1>1. Init => SpreadInv
  BY SoundInit, SpreadInit DEF SpreadInv
<1>2. SpreadInv /\ [Next]_vars => [NoDoubles => Less(Remaining', Remaining)]_vars
  BY EachLess
<1> QED BY <1>1, <1>2, SpreadNext, PTL DEF Spec, LeavesLess
=============================================================================
