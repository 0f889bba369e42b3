----------------------------- MODULE MCLimiter -----------------------------
(* Instances of Limiter for TLC. *)
EXTENDS Limiter, TLC

\* One policy: half a token per tick, a burst of two.
OneLimit == {[rps |-> 1, burst |-> 2]}

\* A policy whose limit is exempt (rps 0) beside it.
OneLimitAndNone == OneLimit \cup {[rps |-> 0, burst |-> 2]}

\* Two policies with different limits that share their keys.
TwoLimits == {[rps |-> 1, burst |-> 2], [rps |-> 3, burst |-> 1]}

CallerSymmetry == Permutations(Callers)
=============================================================================
