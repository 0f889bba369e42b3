---------------------------- MODULE MCAhoMatcher ----------------------------
(* Instances of AhoMatcher for TLC. *)
EXTENDS AhoMatcher

Strings(lo, hi) == UNION {[1..n -> Bytes] : n \in lo..hi}

\* A short pattern, alone or before a longer one, the empty one among them.
Pairs == {<<p>> : p \in Strings(0, 2)}
         \cup {<<p, q>> : p \in Strings(0, 2), q \in Strings(0, 3)}

\* Inputs of four bytes that differ in more than the names of the bytes.
Fours ==
    {s \in Strings(4, 4) :
        \A i \in 1..4 : s[i] = 1 \/ \E j \in 1..(i - 1) : s[j] >= s[i] - 1}
    \cup {<<>>}

\* One pattern of up to four bytes, and inputs of up to five.
Singles == {<<p>> : p \in Strings(1, 4)}

UpToFive == Strings(0, 5)
=============================================================================
