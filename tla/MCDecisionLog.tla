--------------------------- MODULE MCDecisionLog ---------------------------
(* Instances of DecisionLog for TLC. *)
EXTENDS DecisionLog, TLC

\* An allowed decision, a blocked one and one that the limiter refused.
Allowed == [action |-> "allow", limited |-> FALSE, ip |-> 1, rules |-> {}, ms |-> 2]
Blocked == [action |-> "block", limited |-> FALSE, ip |-> 1, rules |-> {1, 2}, ms |-> 1]
Limited == [action |-> "block", limited |-> TRUE, ip |-> 2, rules |-> {}, ms |-> 0]

AllEntries == {Allowed, Blocked, Limited}

\* A request whose query fills its line.
OnlyAllowed == {Allowed}

Symmetry == Permutations(Handlers)
=============================================================================
