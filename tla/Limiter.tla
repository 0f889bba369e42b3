------------------------------ MODULE Limiter ------------------------------
(***************************************************************************)
(* internal/ratelimit/limiter.go: one Limiter, shared by every request     *)
(* handler and by every policy, holding a map from keys to token buckets   *)
(* under a mutex.                                                          *)
(*                                                                         *)
(* A handler reads the clock at its call site (gateway.go:231) and only    *)
(* then takes the mutex, so calls are stamped in one order and applied in  *)
(* another: Stamp and Grant/Deny are two steps.  The critical section      *)
(* itself is one step, since the map and its buckets are touched under the *)
(* mutex alone.                                                            *)
(*                                                                         *)
(* Time is counted in ticks and tokens in units of 1/Unit, so that the     *)
(* float64 arithmetic of the code becomes exact integer arithmetic:        *)
(* a limit's rps is the number of units one tick earns.                    *)
(***************************************************************************)
EXTENDS Integers, Sequences, FiniteSets

CONSTANTS
    Callers,   \* the goroutines that may be inside a call at the same time
    Keys,      \* the non-empty keys (an IP, or an IP and a path)
    NoKey,     \* the empty key
    Limits,    \* the (rps, burst) pairs of the policies that share the limiter
    Unit,      \* units per token
    MaxRps,    \* no limit earns more units per tick
    MaxBurst,  \* no limit has a larger burst
    MaxClock   \* bound: the clock stops here

ASSUME UnitAssumption == Unit \in Nat \ {0}
ASSUME KeyAssumption == NoKey \notin Keys
ASSUME LimitAssumption ==
    /\ Limits \subseteq [rps : Int, burst : Int]
    /\ MaxRps \in Nat /\ MaxBurst \in Nat
    /\ \A l \in Limits : l.rps <= MaxRps /\ l.burst <= MaxBurst
ASSUME ClockAssumption == MaxClock \in Nat

VARIABLES
    clock,    \* the monotonic clock that time.Now() reads
    waiting,  \* calls that have read the clock and not yet taken the mutex
    buckets,  \* the map of the Limiter: DOMAIN buckets are the keys it holds
    \* History of each key, for the properties only:
    credited, \* the ticks of elapsed time credited to the bucket so far
    lastOk,   \* the answer to the latest call
    grants,   \* the values of credited at the admissions
    stamps    \* the clock readings of the admitted calls, in the same order

vars == <<clock, waiting, buckets, credited, lastOk, grants, stamps>>

Call == [caller : Callers, key : Keys \cup {NoKey}, limit : Limits, now : Nat]

Bucket == [tokens : Nat, last : Nat, burst : Nat \ {0}, perSec : Nat \ {0}]

TypeOK ==
    /\ clock \in Nat
    /\ waiting \subseteq Call
    /\ DOMAIN buckets \subseteq Keys
    /\ \A k \in DOMAIN buckets :
          /\ buckets[k] \in Bucket
          /\ buckets[k].tokens <= buckets[k].burst * Unit
    /\ credited \in [Keys -> Nat]
    /\ lastOk \in [Keys -> BOOLEAN]
    /\ grants \in [Keys -> Seq(Nat)]
    /\ stamps \in [Keys -> Seq(Nat)]

Init ==
    /\ clock = 0
    /\ waiting = {}
    /\ buckets = [k \in {} |-> 0]
    /\ credited = [k \in Keys |-> 0]
    /\ lastOk = [k \in Keys |-> TRUE]
    /\ grants = [k \in Keys |-> <<>>]
    /\ stamps = [k \in Keys |-> <<>>]

-----------------------------------------------------------------------------
\* The arithmetic of a bucket, in the order the critical section applies it.

Least(a, b) == IF a <= b THEN a ELSE b

\* Variant: a new bucket is empty.
NewBucketEmpty(limit, now) ==
    [tokens |-> 0, last |-> now, burst |-> limit.burst, perSec |-> limit.rps]

NewBucket(limit, now) ==
    [tokens |-> limit.burst * Unit, last |-> now,
     burst |-> limit.burst, perSec |-> limit.rps]

Found(key, limit, now) ==
    IF key \in DOMAIN buckets THEN buckets[key] ELSE NewBucket(limit, now)

\* Variant: a change of limit begins a full bucket.
RetunedFull(b, limit) ==
    IF b.perSec = limit.rps /\ b.burst = limit.burst
    THEN b
    ELSE [b EXCEPT !.perSec = limit.rps, !.burst = limit.burst,
                   !.tokens = limit.burst * Unit]

\* A bucket last used under another limit takes on the caller's.
Retuned(b, limit) ==
    IF b.perSec = limit.rps /\ b.burst = limit.burst
    THEN b
    ELSE [b EXCEPT !.perSec = limit.rps, !.burst = limit.burst,
                   !.tokens = Least(b.tokens, limit.burst * Unit)]

\* Variant: the elapsed time without its guard.
ElapsedSigned(b, now) == now - b.last

\* A stamp older than the bucket earns nothing ...
Elapsed(b, now) == IF now < b.last THEN 0 ELSE now - b.last

\* Variant: a refill without the cap.
RefilledUncapped(b, now) ==
    [b EXCEPT !.tokens = b.tokens + Elapsed(b, now) * b.perSec, !.last = now]

\* ... but becomes the bucket's time all the same.
Refilled(b, now) ==
    [b EXCEPT !.tokens = Least(b.tokens + Elapsed(b, now) * b.perSec,
                               b.burst * Unit),
              !.last = now]

Ready(call) ==
    Refilled(Retuned(Found(call.key, call.limit, call.now), call.limit),
             call.now)

\* The early returns of Allow: such a call is admitted and counted nowhere.
Exempt(key, limit) == key = NoKey \/ limit.rps <= 0 \/ limit.burst <= 0
-----------------------------------------------------------------------------
Tick ==
    /\ clock < MaxClock
    /\ clock' = clock + 1
    /\ UNCHANGED <<waiting, buckets, credited, lastOk, grants, stamps>>

\* time.Now() is read: an argument of the call to Allow, outside the mutex.
Stamp(caller, key, limit) ==
    /\ \A call \in waiting : call.caller # caller
    /\ waiting' = waiting \cup {[caller |-> caller, key |-> key,
                                 limit |-> limit, now |-> clock]}
    /\ UNCHANGED <<clock, buckets, credited, lastOk, grants, stamps>>

Waive(call) ==
    /\ call \in waiting
    /\ Exempt(call.key, call.limit)
    /\ waiting' = waiting \ {call}
    /\ UNCHANGED <<clock, buckets, credited, lastOk, grants, stamps>>

Store(key, b) ==
    buckets' = [k \in DOMAIN buckets \cup {key} |->
                   IF k = key THEN b ELSE buckets[k]]

\* What Grant and Deny share: the refill, whatever the answer.
Enter(call) ==
    /\ call \in waiting
    /\ ~Exempt(call.key, call.limit)
    /\ waiting' = waiting \ {call}
    /\ credited' = [credited EXCEPT ![call.key] =
            credited[call.key] + Elapsed(Found(call.key, call.limit, call.now),
                                         call.now)]
    /\ UNCHANGED clock

Grant(call) ==
    /\ Enter(call)
    /\ Ready(call).tokens >= Unit
    /\ Store(call.key,
             [Ready(call) EXCEPT !.tokens = Ready(call).tokens - Unit])
    /\ lastOk' = [lastOk EXCEPT ![call.key] = TRUE]
    /\ grants' = [grants EXCEPT ![call.key] =
                     Append(grants[call.key], credited'[call.key])]
    /\ stamps' = [stamps EXCEPT ![call.key] =
                     Append(stamps[call.key], call.now)]

Deny(call) ==
    /\ Enter(call)
    /\ Ready(call).tokens < Unit
    /\ Store(call.key, Ready(call))
    /\ lastOk' = [lastOk EXCEPT ![call.key] = FALSE]
    /\ UNCHANGED <<grants, stamps>>

Next ==
    \/ Tick
    \/ \E caller \in Callers, key \in Keys \cup {NoKey}, limit \in Limits :
          Stamp(caller, key, limit)
    \/ \E call \in waiting : Waive(call) \/ Grant(call) \/ Deny(call)

Spec == Init /\ [][Next]_vars
-----------------------------------------------------------------------------
(***************************************************************************)
(* The limiter is a token bucket over the time it has credited.  When one  *)
(* limit governs a key, whatever the order in which stamped calls reach    *)
(* the mutex, a call is admitted exactly when the windows of TokenBucket   *)
(* fit, time being the sum of the elapsed times the bucket was credited    *)
(* with.                                                                   *)
(***************************************************************************)
Uniform ==
    \A l \in Limits :
        l.rps > 0 /\ l.burst > 0 => l.rps = MaxRps /\ l.burst = MaxBurst

Ideal == INSTANCE TokenBucket
            WITH lastAt <- credited, Rate <- MaxRps, Burst <- MaxBurst

ImplementsTokenBucket == Ideal!Spec

(***************************************************************************)
(* Policies that share a key share its bucket, and each call retunes it.   *)
(* However they alternate, the admissions of a window and the tokens left  *)
(* stay within the largest burst and the largest rate of them all.         *)
(***************************************************************************)
SharedWindows ==
    \A k \in DOMAIN buckets : \A i \in DOMAIN grants[k] :
        (Len(grants[k]) - i + 1) * Unit + buckets[k].tokens
            <= MaxBurst * Unit + MaxRps * (credited[k] - grants[k][i])

(***************************************************************************)
(* The bound a reader of "token bucket" expects (docs/architecture.md:11): *)
(* of the calls stamped in an interval from s to t of the clock, no more   *)
(* than burst + rate * (t - s) are admitted.                               *)
(***************************************************************************)
Admitted(k, s, t) ==
    Cardinality({i \in DOMAIN stamps[k] : stamps[k][i] \in s..t})

ClockWindow(k) ==
    \A s, t \in 0..clock :
        s <= t => Admitted(k, s, t) * Unit <= MaxBurst * Unit + MaxRps * (t - s)

ClockWindows == \A k \in Keys : ClockWindow(k)

(***************************************************************************)
(* ClockWindow holds for every key whose calls reached the mutex in the    *)
(* order of their stamps so far: the time credited since the first         *)
(* admission is then the time that passed on the clock.                    *)
(***************************************************************************)
InStampOrder(k) ==
    stamps[k] # <<>> => credited[k] = buckets[k].last - stamps[k][1]

OrderedClockWindows == \A k \in Keys : InStampOrder(k) => ClockWindow(k)
=============================================================================
