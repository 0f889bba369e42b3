---------------------------- MODULE TokenBucket ----------------------------
(***************************************************************************)
(* What a token bucket promises, said without a bucket.  For every key     *)
(* there is the sequence of the times at which a call was admitted, and    *)
(* nothing else decides: a call at time t is admitted exactly when every   *)
(* window that ends with it stays within Burst + Rate * (its length).      *)
(* Limiter, the translation of internal/ratelimit, is shown to implement   *)
(* this module; the counter, the cap and the refill are its business.      *)
(***************************************************************************)
EXTENDS Integers, Sequences

CONSTANTS
    Keys,   \* the keys requests are counted under
    Unit,   \* what one admission costs
    Rate,   \* what one tick of time earns, in the same units
    Burst   \* how many admissions a window of length zero may hold

VARIABLES
    grants,  \* grants[k]: the times at which calls on k were admitted
    lastAt,  \* lastAt[k]: the time of the latest call on k
    lastOk   \* lastOk[k]: whether that call was admitted

vars == <<grants, lastAt, lastOk>>

(***************************************************************************)
(* The window opened by the i-th admission of g and closed by one more     *)
(* admission at time t is within the limit.                                *)
(***************************************************************************)
WindowFits(g, i, t) ==
    (Len(g) - i + 2) * Unit <= Burst * Unit + Rate * (t - g[i])

Fits(g, t) == \A i \in DOMAIN g : WindowFits(g, i, t)

Init ==
    /\ grants = [k \in Keys |-> <<>>]
    /\ lastAt = [k \in Keys |-> 0]
    /\ lastOk = [k \in Keys |-> TRUE]

Admit(k, t) ==
    /\ Fits(grants[k], t)
    /\ grants' = [grants EXCEPT ![k] = Append(grants[k], t)]
    /\ lastOk' = [lastOk EXCEPT ![k] = TRUE]

Refuse(k, t) ==
    /\ ~Fits(grants[k], t)
    /\ lastOk' = [lastOk EXCEPT ![k] = FALSE]
    /\ UNCHANGED grants

Call(k, t) ==
    /\ lastAt[k] <= t
    /\ lastAt' = [lastAt EXCEPT ![k] = t]
    /\ Admit(k, t) \/ Refuse(k, t)

\* Any time may come next: the step is a call at the time it records.
Next == \E k \in Keys : Call(k, lastAt'[k])

Spec == Init /\ [][Next]_vars
=============================================================================
