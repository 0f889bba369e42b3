--------------------------- MODULE LimiterProofs ---------------------------
(***************************************************************************)
(* Proofs about Limiter, for every set of callers, keys and limits: its    *)
(* type invariant, the bound on shared buckets, that it implements         *)
(* TokenBucket when one limit governs every key, and the window on the     *)
(* clock of a key whose calls arrive in the order of their stamps.         *)
(***************************************************************************)
EXTENDS Limiter, SequenceTheorems, FiniteSetTheorems, TLAPS

(***************************************************************************)
(* The arithmetic of one critical section, in the three facts the step     *)
(* proofs use.                                                             *)
(***************************************************************************)
LEMMA Monotone ==
    ASSUME NEW a \in Int, NEW b \in Int, NEW c \in Nat, a <= b
    PROVE  a * c <= b * c
<1>1. (b - a) * c >= 0
  BY SMT
<1>2. (b - a) * c = b * c - a * c
  BY SMT
<1>3. a * c \in Int /\ b * c \in Int
  BY SMT
<1> QED
  BY <1>1, <1>2, <1>3, SMT

(***************************************************************************)
(* Whatever bucket a call finds, a refill leaves a bucket of the caller's  *)
(* limit at the caller's time, never above its burst, and it earns what    *)
(* the elapsed time earns at the caller's rate, or less.                   *)
(***************************************************************************)
LEMMA ReadyBucket ==
    ASSUME NEW call \in Call, ~Exempt(call.key, call.limit),
           DOMAIN buckets \subseteq Keys,
           \A k \in DOMAIN buckets : buckets[k] \in Bucket,
           \A k \in DOMAIN buckets :
               buckets[k].tokens <= buckets[k].burst * Unit
    PROVE  LET b == Found(call.key, call.limit, call.now)
               e == Elapsed(b, call.now)
               r == Ready(call)
           IN  /\ b \in Bucket
               /\ e \in Nat
               /\ e * call.limit.rps \in Nat
               /\ r \in Bucket
               /\ r.burst = call.limit.burst
               /\ r.perSec = call.limit.rps
               /\ r.tokens <= call.limit.burst * Unit
               /\ r.tokens <= b.tokens + e * call.limit.rps
               /\ b.burst = call.limit.burst /\ b.perSec = call.limit.rps =>
                     r.tokens = Least(b.tokens + e * call.limit.rps,
                                      call.limit.burst * Unit)
<1> DEFINE limit == call.limit
           b == Found(call.key, limit, call.now)
           t == Retuned(b, limit)
           e == Elapsed(b, call.now)
<1>1. /\ limit.rps \in Nat \ {0} /\ limit.burst \in Nat \ {0}
      /\ call.now \in Nat
  BY LimitAssumption DEF Call, Exempt
<1>2. Unit \in Nat /\ limit.burst * Unit \in Nat
  BY <1>1, UnitAssumption, SMT
<1>3. b \in Bucket
  <2>1. CASE call.key \in DOMAIN buckets
    BY <2>1 DEF Found
  <2>2. CASE call.key \notin DOMAIN buckets
    BY <2>2, <1>1, <1>2 DEF Found, NewBucket, Bucket
  <2> QED BY <2>1, <2>2
<1>4. /\ e \in Nat
      /\ Elapsed(t, call.now) = e
  BY <1>1, <1>3 DEF Elapsed, Retuned, Bucket
<1>5. e * limit.rps \in Nat
  BY <1>1, <1>4, SMT
<1>6. /\ t \in Bucket
      /\ t.burst = limit.burst /\ t.perSec = limit.rps
      /\ t.tokens <= b.tokens
      /\ b.burst = limit.burst /\ b.perSec = limit.rps => t = b
  <2> HIDE DEF b, limit
  <2>1. CASE b.perSec = limit.rps /\ b.burst = limit.burst
    BY <2>1, <1>3 DEF Retuned, Bucket
  <2>2. CASE ~(b.perSec = limit.rps /\ b.burst = limit.burst)
    <3>1. t = [tokens |-> Least(b.tokens, limit.burst * Unit),
               last |-> b.last, burst |-> limit.burst, perSec |-> limit.rps]
      BY <2>2, <1>3 DEF Retuned, Bucket
    <3>2. /\ Least(b.tokens, limit.burst * Unit) \in Nat
          /\ Least(b.tokens, limit.burst * Unit) <= b.tokens
      BY <1>2, <1>3 DEF Least, Bucket
    <3> QED BY <2>2, <3>1, <3>2, <1>1, <1>3 DEF Bucket
  <2> QED BY <2>1, <2>2
<1>7. Ready(call) = [t EXCEPT !.tokens = Least(t.tokens + e * limit.rps,
                                               limit.burst * Unit),
                              !.last = call.now]
  BY <1>4, <1>6 DEF Ready, Refilled
<1>8. Ready(call) =
        [tokens |-> Least(t.tokens + e * limit.rps, limit.burst * Unit),
         last |-> call.now, burst |-> limit.burst, perSec |-> limit.rps]
  BY <1>6, <1>7 DEF Bucket
<1> HIDE DEF b, t, e, limit
<1>9. /\ Least(t.tokens + e * limit.rps, limit.burst * Unit) \in Nat
      /\ Least(t.tokens + e * limit.rps, limit.burst * Unit)
             <= limit.burst * Unit
      /\ Least(t.tokens + e * limit.rps, limit.burst * Unit)
             <= b.tokens + e * limit.rps
  BY <1>2, <1>3, <1>5, <1>6 DEF Least, Bucket
<1> QED
  BY <1>1, <1>3, <1>4, <1>5, <1>6, <1>8, <1>9 DEF Bucket, b, t, e, limit

-----------------------------------------------------------------------------
(***************************************************************************)
(* The invariant that carries SharedWindows: a bucket never holds limits   *)
(* above MaxRps and MaxBurst, and a key without a bucket was never         *)
(* granted anything.                                                       *)
(***************************************************************************)
BoundedBuckets ==
    /\ \A k \in DOMAIN buckets :
          buckets[k].perSec <= MaxRps /\ buckets[k].burst <= MaxBurst
    /\ \A k \in Keys \ DOMAIN buckets : grants[k] = <<>>

SharedInv == TypeOK /\ BoundedBuckets /\ SharedWindows

(***************************************************************************)
(* What Grant and Deny do to a key, in terms of the bucket b they find,    *)
(* the elapsed time e and the refilled bucket r.                           *)
(***************************************************************************)
LEMMA EnterFacts ==
    ASSUME NEW call \in waiting, SharedInv, Enter(call),
           NEW b, b = Found(call.key, call.limit, call.now),
           NEW e, e = Elapsed(b, call.now),
           NEW r, r = Ready(call)
    PROVE  /\ call.key \in Keys /\ call.limit \in Limits /\ call.now \in Nat
           /\ waiting' \subseteq Call
           /\ b \in Bucket /\ r \in Bucket /\ e \in Nat
           /\ r.tokens <= r.burst * Unit
           /\ r.perSec <= MaxRps /\ r.burst <= MaxBurst
           /\ r.tokens <= MaxBurst * Unit
           /\ r.tokens <= b.tokens + e * MaxRps
           /\ e * MaxRps \in Nat
           /\ credited[call.key] \in Nat
           /\ credited' = [credited EXCEPT ![call.key] = @ + e]
<1>1. /\ call \in Call /\ call.key \in Keys /\ call.limit \in Limits
      /\ call.now \in Nat /\ ~Exempt(call.key, call.limit)
      /\ call.limit.rps \in Nat /\ call.limit.burst \in Nat
      /\ call.limit.rps <= MaxRps /\ call.limit.burst <= MaxBurst
  BY LimitAssumption DEF SharedInv, TypeOK, Call, Enter, Exempt
<1>2. /\ b \in Bucket /\ r \in Bucket /\ e \in Nat
      /\ e * call.limit.rps \in Nat
      /\ r.burst = call.limit.burst /\ r.perSec = call.limit.rps
      /\ r.tokens <= call.limit.burst * Unit
      /\ r.tokens <= b.tokens + e * call.limit.rps
  BY <1>1, ReadyBucket DEF SharedInv, TypeOK
<1>3. /\ call.limit.burst * Unit <= MaxBurst * Unit
      /\ MaxBurst * Unit \in Nat /\ call.limit.burst * Unit \in Nat
  <2>1. Unit \in Nat /\ MaxBurst \in Nat
    BY UnitAssumption, LimitAssumption
  <2>2. call.limit.burst * Unit <= MaxBurst * Unit
    BY <1>1, <2>1, Monotone, SMT
  <2> QED BY <1>1, <2>1, <2>2, SMT
<1>4. e * call.limit.rps <= e * MaxRps /\ e * MaxRps \in Nat
  <2>1. call.limit.rps * e <= MaxRps * e
    BY <1>1, <1>2, LimitAssumption, Monotone, SMT
  <2> QED BY <1>1, <1>2, <2>1, LimitAssumption, SMT
<1>5. waiting' \subseteq Call /\ credited[call.key] \in Nat
  BY <1>1 DEF SharedInv, TypeOK, Enter
<1>6. credited' = [credited EXCEPT ![call.key] = @ + e]
  BY DEF Enter
<1> QED
  BY <1>1, <1>2, <1>3, <1>4, <1>5, <1>6 DEF Bucket

(***************************************************************************)
(* The bound of one key survives a refill: what the elapsed time earns is  *)
(* within what it adds to the right of the inequality.                     *)
(***************************************************************************)
LEMMA RefillWithin ==
    ASSUME NEW held \in Nat, NEW left \in Nat, NEW tokens \in Nat,
           NEW c \in Nat, NEW g \in Nat, NEW e \in Nat,
           NEW cap \in Nat, e * MaxRps \in Nat,
           held + tokens <= cap + MaxRps * (c - g),
           left <= tokens + e * MaxRps
    PROVE  held + left <= cap + MaxRps * ((c + e) - g)
<1>1. MaxRps \in Nat
  BY LimitAssumption
<1>2. MaxRps * ((c + e) - g) = MaxRps * (c - g) + e * MaxRps
  BY <1>1, SMT
<1>3. MaxRps * (c - g) \in Int
  BY <1>1, SMT
<1> QED
  BY <1>2, <1>3, SMT

\* One admission more in a window costs one Unit more.
LEMMA OneMore ==
    ASSUME NEW m \in Nat
    PROVE  m * Unit \in Nat /\ (m + 1) * Unit = m * Unit + Unit
<1>1. Unit \in Nat
  BY UnitAssumption
<1> QED BY <1>1, SMT

LEMMA SharedInit == Init => SharedInv
<1> SUFFICES ASSUME Init PROVE SharedInv
  OBVIOUS
<1>1. DOMAIN buckets = {}
  BY DEF Init
<1>2. TypeOK
  BY <1>1 DEF Init, TypeOK
<1>3. BoundedBuckets /\ SharedWindows
  BY <1>1 DEF Init, BoundedBuckets, SharedWindows
<1> QED BY <1>2, <1>3 DEF SharedInv

\* The steps that never touch a bucket.
LEMMA SharedIdle ==
    ASSUME SharedInv, UNCHANGED <<buckets, credited, lastOk, grants, stamps>>,
           clock' \in Nat, waiting' \subseteq Call
    PROVE  SharedInv'
BY DEF SharedInv, TypeOK, BoundedBuckets, SharedWindows

LEMMA SharedGrant ==
    ASSUME SharedInv, NEW call \in waiting, Grant(call)
    PROVE  SharedInv'
<1> DEFINE key == call.key
           b == Found(key, call.limit, call.now)
           e == Elapsed(b, call.now)
           r == Ready(call)
           n == Len(grants[key])
           kept == [r EXCEPT !.tokens = r.tokens - Unit]
<1>1. Enter(call)
  BY DEF Grant
<1>2. /\ key \in Keys /\ call.now \in Nat /\ waiting' \subseteq Call
      /\ b \in Bucket /\ r \in Bucket /\ e \in Nat
      /\ r.tokens <= r.burst * Unit
      /\ r.perSec <= MaxRps /\ r.burst <= MaxBurst
      /\ r.tokens <= MaxBurst * Unit
      /\ r.tokens <= b.tokens + e * MaxRps
      /\ e * MaxRps \in Nat
      /\ credited[key] \in Nat
      /\ credited' = [credited EXCEPT ![key] = @ + e]
  BY <1>1, EnterFacts
<1>3. /\ r.tokens >= Unit
      /\ buckets' = [k \in DOMAIN buckets \cup {key} |->
                        IF k = key THEN kept ELSE buckets[k]]
      /\ lastOk' = [lastOk EXCEPT ![key] = TRUE]
      /\ grants' = [grants EXCEPT ![key] = Append(@, credited'[key])]
      /\ stamps' = [stamps EXCEPT ![key] = Append(@, call.now)]
      /\ clock' = clock
  BY DEF Grant, Store, Enter
<1>4. b = IF key \in DOMAIN buckets THEN buckets[key]
                                    ELSE NewBucket(call.limit, call.now)
  BY DEF Found
<1> HIDE DEF b, e, r
<1>5. Unit \in Nat /\ MaxBurst \in Nat /\ MaxRps \in Nat
      /\ MaxBurst * Unit \in Nat
  BY UnitAssumption, LimitAssumption, SMT
<1>6. /\ kept = [tokens |-> r.tokens - Unit, last |-> r.last,
                 burst |-> r.burst, perSec |-> r.perSec]
      /\ kept \in Bucket
      /\ kept.tokens <= kept.burst * Unit
  <2>1. /\ r.tokens \in Nat /\ r.burst \in Nat
        /\ r = [tokens |-> r.tokens, last |-> r.last,
                burst |-> r.burst, perSec |-> r.perSec]
    BY <1>2 DEF Bucket
  <2>2. kept = [tokens |-> r.tokens - Unit, last |-> r.last,
                burst |-> r.burst, perSec |-> r.perSec]
    BY <2>1
  <2>3. r.tokens - Unit \in Nat /\ r.tokens - Unit <= r.tokens
    BY <2>1, <1>3, <1>5
  <2>4. kept \in Bucket
    BY <2>2, <2>3, <1>2 DEF Bucket
  <2>5. r.burst * Unit \in Nat
    BY <2>1, <1>5, SMT
  <2>6. r.tokens - Unit <= r.burst * Unit
    BY <2>1, <2>3, <2>5, <1>2, <1>5
  <2> QED BY <2>2, <2>4, <2>6
<1> HIDE DEF kept
<1>7. /\ credited'[key] = credited[key] + e
      /\ credited' \in [Keys -> Nat]
      /\ \A k \in Keys \ {key} : credited'[k] = credited[k]
  BY <1>2 DEF SharedInv, TypeOK
<1>8. /\ grants[key] \in Seq(Nat) /\ n \in Nat
      /\ grants'[key] = Append(grants[key], credited'[key])
      /\ Len(grants'[key]) = n + 1
      /\ grants'[key][n + 1] = credited'[key]
      /\ \A i \in 1..n : grants'[key][i] = grants[key][i]
      /\ \A k \in Keys \ {key} : grants'[k] = grants[k]
  BY <1>2, <1>3, <1>7 DEF SharedInv, TypeOK
<1>9. TypeOK'
  <2>1. /\ DOMAIN buckets' \subseteq Keys
        /\ \A k \in DOMAIN buckets' :
              buckets'[k] \in Bucket
              /\ buckets'[k].tokens <= buckets'[k].burst * Unit
    BY <1>2, <1>3, <1>6 DEF SharedInv, TypeOK
  <2>2. grants' \in [Keys -> Seq(Nat)] /\ stamps' \in [Keys -> Seq(Nat)]
    BY <1>2, <1>3, <1>7 DEF SharedInv, TypeOK
  <2>3. lastOk' \in [Keys -> BOOLEAN] /\ clock' \in Nat
    BY <1>3 DEF SharedInv, TypeOK
  <2> QED BY <1>2, <1>7, <2>1, <2>2, <2>3 DEF TypeOK
<1>10. BoundedBuckets'
  BY <1>2, <1>3, <1>6, <1>8 DEF SharedInv, BoundedBuckets
<1>11. SharedWindows'
  <2> SUFFICES ASSUME NEW k \in DOMAIN buckets', NEW i \in DOMAIN grants'[k]
               PROVE  (Len(grants'[k]) - i + 1) * Unit + buckets'[k].tokens
                        <= MaxBurst * Unit
                             + MaxRps * (credited'[k] - grants'[k][i])
    BY DEF SharedWindows
  <2>1. CASE k # key
    BY <2>1, <1>2, <1>3, <1>7, <1>8 DEF SharedInv, TypeOK, SharedWindows
  <2> DEFINE cap == MaxBurst * Unit
  <2>2. CASE k = key /\ i = n + 1
    <3>1. /\ buckets'[k].tokens = r.tokens - Unit
          /\ r.tokens \in Nat
      BY <2>2, <1>2, <1>3, <1>6 DEF Bucket
    <3>2. /\ credited'[k] - grants'[k][i] = 0
          /\ Len(grants'[k]) - i + 1 = 1
      BY <2>2, <1>2, <1>7, <1>8
    <3>3. MaxRps * 0 = 0 /\ 1 * Unit = Unit
      BY <1>5, SMT
    <3>4. Unit + (r.tokens - Unit) <= cap + 0
      <4> HIDE DEF cap
      <4> QED BY <3>1, <1>2, <1>5 DEF cap
    <3> QED BY <3>1, <3>2, <3>3, <3>4
  <2>3. CASE k = key /\ i \in 1..n
    <3> DEFINE m == n - i + 1
               left == MaxRps * ((credited[key] + e) - grants[key][i])
    <3>1. key \in DOMAIN buckets
      BY <2>3, <1>2 DEF SharedInv, BoundedBuckets
    <3>2. /\ grants[key][i] \in Nat /\ i \in DOMAIN grants[key]
          /\ b = buckets[key]
          /\ b.tokens \in Nat /\ r.tokens \in Nat
          /\ m \in Nat
      <4>1. grants[key][i] \in Nat /\ i \in DOMAIN grants[key]
        BY <2>3, <1>8
      <4>2. b = buckets[key]
        BY <3>1, <1>4
      <4>3. b.tokens \in Nat /\ r.tokens \in Nat
        BY <1>2 DEF Bucket
      <4>4. m \in Nat
        BY <2>3, <1>8
      <4> QED BY <4>1, <4>2, <4>3, <4>4
    <3>3. m * Unit + b.tokens
            <= cap + MaxRps * (credited[key] - grants[key][i])
      BY <3>1, <3>2 DEF SharedInv, SharedWindows
    <3>4. m * Unit \in Nat /\ (m + 1) * Unit = m * Unit + Unit
      BY <3>2, OneMore
    <3>5. m * Unit + r.tokens <= cap + left
      <4> HIDE DEF cap, m
      <4>1. cap \in Nat
        BY <1>5 DEF cap
      <4> QED BY <3>2, <3>3, <3>4, <4>1, <1>2, RefillWithin
    <3>6. /\ Len(grants'[k]) - i + 1 = m + 1
          /\ MaxRps * (credited'[k] - grants'[k][i]) = left
          /\ buckets'[k].tokens = r.tokens - Unit
      BY <2>3, <1>3, <1>6, <1>7, <1>8
    <3>7. left \in Int /\ cap \in Nat
      <4>1. (credited[key] + e) - grants[key][i] \in Int
        BY <3>2, <1>2, SMTT(40)
      <4>2. \A x \in Int : MaxRps * x \in Int
        BY <1>5, SMT
      <4> QED BY <4>1, <4>2, <1>5
    <3> HIDE DEF left, m, cap
    <3>8. m * Unit + Unit + (r.tokens - Unit) <= cap + left
      BY <3>2, <3>4, <3>5, <3>7, <1>5
    <3> QED BY <3>4, <3>6, <3>8 DEF cap
  <2>4. k = key => i \in 1..(n + 1)
    BY <1>8
  <2>5. k = key => i = n + 1 \/ i \in 1..n
    BY <2>4, <1>8
  <2> QED BY <2>1, <2>2, <2>3, <2>5
<1> QED BY <1>9, <1>10, <1>11 DEF SharedInv

LEMMA SharedDeny ==
    ASSUME SharedInv, NEW call \in waiting, Deny(call)
    PROVE  SharedInv'
<1> DEFINE key == call.key
           b == Found(key, call.limit, call.now)
           e == Elapsed(b, call.now)
           r == Ready(call)
           cap == MaxBurst * Unit
<1>1. Enter(call)
  BY DEF Deny
<1>2. /\ key \in Keys /\ call.now \in Nat /\ waiting' \subseteq Call
      /\ b \in Bucket /\ r \in Bucket /\ e \in Nat
      /\ r.tokens <= r.burst * Unit
      /\ r.perSec <= MaxRps /\ r.burst <= MaxBurst
      /\ r.tokens <= b.tokens + e * MaxRps
      /\ e * MaxRps \in Nat
      /\ credited[key] \in Nat
      /\ credited' = [credited EXCEPT ![key] = @ + e]
  BY <1>1, EnterFacts
<1>3. /\ buckets' = [k \in DOMAIN buckets \cup {key} |->
                        IF k = key THEN r ELSE buckets[k]]
      /\ lastOk' = [lastOk EXCEPT ![key] = FALSE]
      /\ grants' = grants /\ stamps' = stamps /\ clock' = clock
  BY DEF Deny, Store, Enter
<1>4. key \in DOMAIN buckets => b = buckets[key]
  BY DEF Found
<1> HIDE DEF b, e, r
<1>5. /\ credited'[key] = credited[key] + e
      /\ credited' \in [Keys -> Nat]
      /\ \A k \in Keys \ {key} : credited'[k] = credited[k]
  BY <1>2 DEF SharedInv, TypeOK
<1>6. TypeOK'
  BY <1>2, <1>3, <1>5 DEF SharedInv, TypeOK
<1>7. BoundedBuckets'
  BY <1>2, <1>3 DEF SharedInv, BoundedBuckets
<1>8. SharedWindows'
  <2> SUFFICES ASSUME NEW k \in DOMAIN buckets', NEW i \in DOMAIN grants[k]
               PROVE  (Len(grants[k]) - i + 1) * Unit + buckets'[k].tokens
                        <= MaxBurst * Unit
                             + MaxRps * (credited'[k] - grants[k][i])
    BY <1>3 DEF SharedWindows
  <2>1. CASE k # key
    BY <2>1, <1>2, <1>3, <1>5 DEF SharedInv, TypeOK, SharedWindows
  <2>2. CASE k = key
    <3> DEFINE m == Len(grants[key]) - i + 1
    <3>1. key \in DOMAIN buckets /\ b = buckets[key]
      BY <2>2, <1>2, <1>4 DEF SharedInv, BoundedBuckets
    <3>2. grants[key] \in Seq(Nat)
      BY <1>2 DEF SharedInv, TypeOK
    <3>3. grants[key][i] \in Nat /\ m \in Nat
      <4>1. i \in 1..Len(grants[key]) /\ Len(grants[key]) \in Nat
        BY <2>2, <3>2
      <4>2. grants[key][i] \in Nat
        BY <3>2, <4>1
      <4> QED BY <4>1, <4>2
    <3>4. b.tokens \in Nat /\ r.tokens \in Nat
      BY <1>2 DEF Bucket
    <3>5. m * Unit + b.tokens
            <= cap + MaxRps * (credited[key] - grants[key][i])
      BY <2>2, <3>1 DEF SharedInv, SharedWindows
    <3>6. m * Unit \in Nat
      BY <3>3, OneMore
    <3>7. cap \in Nat
      BY UnitAssumption, LimitAssumption, SMT
    <3>8. m * Unit + r.tokens
            <= cap + MaxRps * ((credited[key] + e) - grants[key][i])
      <4> HIDE DEF cap, m
      <4> QED BY <3>3, <3>4, <3>5, <3>6, <3>7, <1>2, RefillWithin
    <3>9. buckets'[k].tokens = r.tokens
      BY <2>2, <1>3
    <3> QED BY <2>2, <3>8, <3>9, <1>5
  <2> QED BY <2>1, <2>2
<1> QED BY <1>6, <1>7, <1>8 DEF SharedInv

LEMMA SharedNext == SharedInv /\ [Next]_vars => SharedInv'
<1> SUFFICES ASSUME SharedInv, [Next]_vars PROVE SharedInv'
  OBVIOUS
<1>1. clock \in Nat /\ waiting \subseteq Call
  BY DEF SharedInv, TypeOK
<1>2. CASE Tick
  BY <1>1, <1>2, SharedIdle DEF Tick
<1>3. ASSUME NEW caller \in Callers, NEW key \in Keys \cup {NoKey},
             NEW limit \in Limits, Stamp(caller, key, limit)
      PROVE  SharedInv'
  <2>1. waiting' \subseteq Call
    BY <1>1, <1>3 DEF Stamp, Call
  <2> QED BY <1>1, <1>3, <2>1, SharedIdle DEF Stamp
<1>4. ASSUME NEW call \in waiting, Waive(call)
      PROVE  SharedInv'
  BY <1>1, <1>4, SharedIdle DEF Waive
<1>5. ASSUME NEW call \in waiting, Grant(call)
      PROVE  SharedInv'
  BY <1>5, SharedGrant
<1>6. ASSUME NEW call \in waiting, Deny(call)
      PROVE  SharedInv'
  BY <1>6, SharedDeny
<1>7. CASE UNCHANGED vars
  BY <1>1, <1>7, SharedIdle DEF vars
<1> QED BY <1>2, <1>3, <1>4, <1>5, <1>6, <1>7 DEF Next

(***************************************************************************)
(* Every behaviour of the limiter keeps its types: in particular no bucket *)
(* of limiter.go holds more than its burst, or less than nothing, however  *)
(* stale the stamps that reach it are.                                     *)
(***************************************************************************)
THEOREM TypeCorrect == Spec => []TypeOK
<1>1. SharedInv => TypeOK
  BY DEF SharedInv
<1> QED BY <1>1, SharedInit, SharedNext, PTL DEF Spec

(***************************************************************************)
(* Policies with any limits may share the buckets of limiter.go: the       *)
(* admissions on a key never outrun the largest burst and the largest rate *)
(* of them all, in credited time.                                          *)
(***************************************************************************)
THEOREM SharedWindowsHold == Spec => []SharedWindows
<1>1. SharedInv => SharedWindows
  BY DEF SharedInv
<1> QED BY <1>1, SharedInit, SharedNext, PTL DEF Spec

-----------------------------------------------------------------------------
(***************************************************************************)
(* The refinement.  SharedWindows says that a bucket never holds more than *)
(* its windows leave; when one limit governs every key it never holds less *)
(* either: it is full, or one of its windows is exactly used up.  So the   *)
(* bucket has a whole token just when one more admission fits.             *)
(***************************************************************************)
Spare(g, c, i) ==
    MaxBurst * Unit + MaxRps * (c - g[i]) - (Len(g) - i + 1) * Unit

ExactBuckets ==
    \A k \in DOMAIN buckets :
        /\ buckets[k].perSec = MaxRps /\ buckets[k].burst = MaxBurst
        /\ \/ buckets[k].tokens = MaxBurst * Unit
           \/ \E i \in DOMAIN grants[k] :
                 buckets[k].tokens = Spare(grants[k], credited[k], i)

UniformInv == SharedInv /\ ExactBuckets

(***************************************************************************)
(* How a window's spare tokens change: e ticks of credit add what they     *)
(* earn, an admission takes one Unit, and the window it opens is a burst   *)
(* less that Unit.                                                         *)
(***************************************************************************)
LEMMA SpareMoves ==
    ASSUME NEW g \in Seq(Nat), NEW c \in Nat, NEW e \in Nat,
           NEW i \in DOMAIN g
    PROVE  /\ Spare(g, c, i) \in Int
           /\ e * MaxRps \in Nat
           /\ Spare(g, c + e, i) = Spare(g, c, i) + e * MaxRps
           /\ Spare(Append(g, c + e), c + e, i)
                = Spare(g, c, i) + e * MaxRps - Unit
           /\ Spare(g, c, i) =
                MaxBurst * Unit + MaxRps * (c - g[i]) - (Len(g) - i + 1) * Unit
           /\ Ideal!WindowFits(g, i, c + e) <=>
                Unit <= Spare(g, c, i) + e * MaxRps
<1> DEFINE m == Len(g) - i + 1
           x == g[i]
           cap == MaxBurst * Unit
           earned == MaxRps * (c - x)
           more == e * MaxRps
<1>1. m \in Nat /\ x \in Nat
  OBVIOUS
<1>2. m * Unit \in Nat /\ (m + 1) * Unit = m * Unit + Unit
  <2> HIDE DEF m
  <2> QED BY <1>1, OneMore
<1>3. earned \in Int /\ more \in Nat /\ MaxRps * ((c + e) - x) = earned + more
  <2>1. MaxRps \in Nat
    BY LimitAssumption
  <2> HIDE DEF x
  <2> QED BY <2>1, <1>1, SMT
<1>4. cap \in Nat /\ Unit \in Nat
  BY UnitAssumption, LimitAssumption, SMT
<1>5. Spare(g, c, i) = cap + earned - m * Unit
  BY DEF Spare
<1>6. Spare(g, c + e, i) = cap + MaxRps * ((c + e) - x) - m * Unit
  BY DEF Spare
<1>7. /\ Append(g, c + e)[i] = x
      /\ Len(Append(g, c + e)) - i + 1 = m + 1
      /\ Len(g) - i + 2 = m + 1
  OBVIOUS
<1>8. Spare(Append(g, c + e), c + e, i)
        = cap + MaxRps * ((c + e) - x) - (m + 1) * Unit
  BY <1>7 DEF Spare
<1>9. Ideal!WindowFits(g, i, c + e) <=>
        (m + 1) * Unit <= cap + MaxRps * ((c + e) - x)
  BY <1>7 DEF Ideal!WindowFits
<1> HIDE DEF m, x, cap, earned, more
<1>10. \A y \in Nat :
          /\ cap + (earned + more) - y = (cap + earned - y) + more
          /\ cap + (earned + more) - (y + Unit)
                = (cap + earned - y) + more - Unit
          /\ y + Unit <= cap + (earned + more)
                <=> Unit <= (cap + earned - y) + more
          /\ cap + earned - y \in Int
  BY <1>3, <1>4
<1>11. /\ cap + (earned + more) - m * Unit = (cap + earned - m * Unit) + more
       /\ cap + (earned + more) - (m * Unit + Unit)
             = (cap + earned - m * Unit) + more - Unit
       /\ m * Unit + Unit <= cap + (earned + more)
             <=> Unit <= (cap + earned - m * Unit) + more
       /\ cap + earned - m * Unit \in Int
  BY <1>2, <1>10, Zenon
<1>12. /\ Spare(g, c + e, i) = Spare(g, c, i) + more
       /\ Spare(Append(g, c + e), c + e, i) = Spare(g, c, i) + more - Unit
       /\ Ideal!WindowFits(g, i, c + e) <=> Unit <= Spare(g, c, i) + more
       /\ Spare(g, c, i) \in Int
  BY <1>2, <1>3, <1>5, <1>6, <1>8, <1>9, <1>11, Zenon
<1> QED BY <1>3, <1>5, <1>12 DEF m, x, cap, earned, more

LEMMA RefillExact ==
    ASSUME NEW c \in Nat, NEW g \in Nat
    PROVE  MaxRps * (c - g) \in Int
<1>1. MaxRps \in Nat
  BY LimitAssumption
<1> QED BY <1>1, SMT

LEMMA SpareOpened ==
    ASSUME NEW g \in Seq(Nat), NEW c \in Nat
    PROVE  Spare(Append(g, c), c, Len(g) + 1) = MaxBurst * Unit - Unit
<1>1. /\ c - Append(g, c)[Len(g) + 1] = 0
      /\ Len(Append(g, c)) - (Len(g) + 1) + 1 = 1
  OBVIOUS
<1>2. /\ MaxRps * 0 = 0 /\ 1 * Unit = Unit /\ MaxBurst * Unit \in Nat
      /\ Unit \in Nat
  BY UnitAssumption, LimitAssumption, SMT
<1>3. Spare(Append(g, c), c, Len(g) + 1) = MaxBurst * Unit + 0 - Unit
  BY <1>1, <1>2 DEF Spare
<1> QED BY <1>2, <1>3

LEMMA EnterUniform ==
    ASSUME Uniform, UniformInv, NEW call \in waiting, Enter(call),
           NEW b, b = Found(call.key, call.limit, call.now),
           NEW e, e = Elapsed(b, call.now),
           NEW r, r = Ready(call)
    PROVE  /\ call.key \in Keys /\ grants[call.key] \in Seq(Nat)
           /\ credited[call.key] \in Nat /\ e \in Nat /\ e * MaxRps \in Nat
           /\ credited'[call.key] = credited[call.key] + e
           /\ b \in Bucket /\ r \in Bucket
           /\ r.perSec = MaxRps /\ r.burst = MaxBurst
           /\ Unit \in Nat \ {0}
           /\ MaxBurst * Unit \in Nat /\ Unit <= MaxBurst * Unit
           /\ r.tokens = Least(b.tokens + e * MaxRps, MaxBurst * Unit)
           /\ b.tokens <= MaxBurst * Unit
           /\ \A i \in DOMAIN grants[call.key] : b.tokens <= Spare(grants[call.key], credited[call.key], i)
           /\ \/ b.tokens = MaxBurst * Unit
              \/ \E i \in DOMAIN grants[call.key] :
                    b.tokens = Spare(grants[call.key], credited[call.key], i)
<1> DEFINE key == call.key
           limit == call.limit
<1>1. /\ call \in Call /\ ~Exempt(key, limit) /\ limit \in Limits
      /\ limit.rps \in Int /\ limit.burst \in Int
  BY LimitAssumption DEF UniformInv, SharedInv, TypeOK, Call, Enter
<1>2. limit.rps = MaxRps /\ limit.burst = MaxBurst /\ MaxBurst > 0
  BY <1>1 DEF Uniform, Exempt
<1>3. Unit \in Nat \ {0} /\ MaxBurst \in Nat /\ MaxRps \in Nat
  BY UnitAssumption, LimitAssumption
<1>4. MaxBurst * Unit \in Nat /\ Unit <= MaxBurst * Unit
  <2>1. 1 * Unit <= MaxBurst * Unit
    BY <1>2, <1>3, Monotone
  <2> QED BY <1>3, <2>1, SMT
<1>5. /\ key \in Keys /\ e \in Nat /\ e * MaxRps \in Nat
      /\ b \in Bucket /\ r \in Bucket
      /\ credited[key] \in Nat /\ credited' = [credited EXCEPT ![key] = @ + e]
  BY EnterFacts DEF UniformInv
<1>6. /\ credited'[key] = credited[key] + e
      /\ grants[key] \in Seq(Nat)
  BY <1>5 DEF UniformInv, SharedInv, TypeOK
<1>7. /\ b.burst = MaxBurst /\ b.perSec = MaxRps
      /\ b.tokens <= MaxBurst * Unit
      /\ \A i \in DOMAIN grants[key] : b.tokens <= Spare(grants[key], credited[key], i)
      /\ \/ b.tokens = MaxBurst * Unit
         \/ \E i \in DOMAIN grants[key] : b.tokens = Spare(grants[key], credited[key], i)
  <2>1. CASE key \notin DOMAIN buckets
    <3>1. b.tokens = MaxBurst * Unit /\ b.burst = MaxBurst /\ b.perSec = MaxRps
      BY <2>1, <1>2 DEF Found, NewBucket
    <3>2. grants[key] = <<>>
      BY <2>1, <1>5 DEF UniformInv, SharedInv, BoundedBuckets
    <3> QED BY <3>1, <3>2, <1>4
  <2>2. CASE key \in DOMAIN buckets
    <3>1. b = buckets[key]
      BY <2>2 DEF Found
    <3>2. /\ b.burst = MaxBurst /\ b.perSec = MaxRps
          /\ \/ b.tokens = MaxBurst * Unit
             \/ \E i \in DOMAIN grants[key] : b.tokens = Spare(grants[key], credited[key], i)
      BY <2>2, <3>1 DEF UniformInv, ExactBuckets
    <3>3. b.tokens <= MaxBurst * Unit
      BY <2>2, <3>1, <3>2 DEF UniformInv, SharedInv, TypeOK
    <3>4. ASSUME NEW i \in DOMAIN grants[key]
          PROVE  b.tokens <= Spare(grants[key], credited[key], i)
      <4> DEFINE held == (Len(grants[key]) - i + 1) * Unit
                 cap == MaxBurst * Unit
                 earned == MaxRps * (credited[key] - grants[key][i])
      <4>1. /\ grants[key][i] \in Nat
            /\ Len(grants[key]) - i + 1 \in Nat
        <5>1. grants[key] \in Seq(Nat)
          BY <1>6
        <5> HIDE DEF key
        <5> QED BY <5>1
      <4>2. held \in Nat
        BY <4>1, OneMore
      <4>3. earned \in Int
        BY <4>1, <1>5, RefillExact
      <4>4. held + b.tokens <= cap + earned
        BY <2>2, <3>1 DEF UniformInv, SharedInv, SharedWindows
      <4>5. b.tokens \in Nat /\ cap \in Nat
        BY <1>4, <1>5 DEF Bucket
      <4>6. Spare(grants[key], credited[key], i) = cap + earned - held
        BY DEF Spare
      <4> HIDE DEF held, cap, earned
      <4> QED BY <4>2, <4>3, <4>4, <4>5, <4>6
    <3> QED BY <3>2, <3>3, <3>4
  <2> QED BY <2>1, <2>2
<1>8. /\ r.perSec = MaxRps /\ r.burst = MaxBurst
      /\ r.tokens = Least(b.tokens + e * MaxRps, MaxBurst * Unit)
  BY <1>1, <1>2, <1>7, ReadyBucket DEF UniformInv, SharedInv, TypeOK
<1> QED BY <1>3, <1>4, <1>5, <1>6, <1>7, <1>8

(***************************************************************************)
(* The heart of the refinement: the bucket has a whole token when the      *)
(* ideal limiter may admit, and not otherwise.                             *)
(***************************************************************************)
LEMMA ReadyFits ==
    ASSUME Uniform, UniformInv, NEW call \in waiting, Enter(call)
    PROVE  Ready(call).tokens >= Unit <=>
               Ideal!Fits(grants[call.key], credited'[call.key])
<1> DEFINE key == call.key
           b == Found(key, call.limit, call.now)
           e == Elapsed(b, call.now)
           r == Ready(call)
           cap == MaxBurst * Unit
<1>1. /\ key \in Keys /\ grants[key] \in Seq(Nat)
      /\ credited[key] \in Nat /\ e \in Nat /\ e * MaxRps \in Nat
      /\ credited'[key] = credited[key] + e
      /\ b \in Bucket /\ r \in Bucket
      /\ Unit \in Nat \ {0} /\ cap \in Nat /\ Unit <= cap
      /\ r.tokens = Least(b.tokens + e * MaxRps, cap)
      /\ \A i \in DOMAIN grants[key] : b.tokens <= Spare(grants[key], credited[key], i)
      /\ \/ b.tokens = cap
         \/ \E i \in DOMAIN grants[key] : b.tokens = Spare(grants[key], credited[key], i)
  BY EnterUniform
<1>2. b.tokens \in Nat /\ r.tokens \in Nat
  BY <1>1 DEF Bucket
<1> HIDE DEF key, b, e, r, cap
<1> DEFINE spare(i) == Spare(grants[key], credited[key], i)
<1>3. /\ \A i \in DOMAIN grants[key] : spare(i) \in Int
      /\ Ideal!Fits(grants[key], credited'[key]) <=>
            \A i \in DOMAIN grants[key] : Unit <= spare(i) + e * MaxRps
  <2>1. \A i \in DOMAIN grants[key] :
           /\ spare(i) \in Int
           /\ Ideal!WindowFits(grants[key], i, credited'[key]) <=>
                 Unit <= spare(i) + e * MaxRps
    <3> SUFFICES ASSUME NEW i \in DOMAIN grants[key]
                 PROVE  /\ spare(i) \in Int
                        /\ Ideal!WindowFits(grants[key], i, credited'[key])
                             <=> Unit <= spare(i) + e * MaxRps
      OBVIOUS
    <3>1. /\ spare(i) \in Int
          /\ Ideal!WindowFits(grants[key], i, credited[key] + e)
                <=> Unit <= spare(i) + e * MaxRps
      BY <1>1, SpareMoves
    <3> QED BY <3>1, <1>1
  <2> QED BY <2>1 DEF Ideal!Fits
<1>4. ASSUME r.tokens >= Unit, NEW i \in DOMAIN grants[key]
      PROVE  Unit <= Spare(grants[key], credited[key], i) + e * MaxRps
  <2>1. Unit <= b.tokens + e * MaxRps
    BY <1>1, <1>2, <1>4 DEF Least
  <2>2. b.tokens <= Spare(grants[key], credited[key], i) /\ Spare(grants[key], credited[key], i) \in Int
    BY <1>1, <1>3
  <2> QED BY <2>1, <2>2, <1>1, <1>2
<1>5. ASSUME r.tokens < Unit
      PROVE  \E i \in DOMAIN grants[key] : ~(Unit <= Spare(grants[key], credited[key], i) + e * MaxRps)
  <2>1. b.tokens + e * MaxRps < Unit /\ b.tokens # cap
    BY <1>1, <1>2, <1>5 DEF Least
  <2> QED BY <2>1, <1>1, <1>2, <1>3
<1> QED BY <1>1, <1>2, <1>3, <1>4, <1>5 DEF key, r

LEMMA ExactGrant ==
    ASSUME Uniform, UniformInv, NEW call \in waiting, Grant(call)
    PROVE  ExactBuckets'
<1> DEFINE key == call.key
           b == Found(key, call.limit, call.now)
           e == Elapsed(b, call.now)
           r == Ready(call)
           cap == MaxBurst * Unit
           g == grants[key]
           c == credited[key]
<1>1. Enter(call)
  BY DEF Grant
<1>2. /\ key \in Keys /\ g \in Seq(Nat)
      /\ c \in Nat /\ e \in Nat /\ e * MaxRps \in Nat
      /\ credited'[key] = c + e
      /\ b \in Bucket /\ r \in Bucket
      /\ r.perSec = MaxRps /\ r.burst = MaxBurst
      /\ cap \in Nat
      /\ r.tokens = Least(b.tokens + e * MaxRps, cap)
      /\ b.tokens <= cap
      /\ \/ b.tokens = cap
         \/ \E i \in DOMAIN g : b.tokens = Spare(g, c, i)
  BY <1>1, EnterUniform
<1>3. /\ buckets' = [k \in DOMAIN buckets \cup {key} |->
              IF k = key THEN [r EXCEPT !.tokens = r.tokens - Unit]
                         ELSE buckets[k]]
      /\ grants' = [grants EXCEPT ![key] = Append(@, credited'[key])]
      /\ credited' = [credited EXCEPT ![key] = @ + e]
  BY <1>1 DEF Grant, Store, Enter
<1>4. b.tokens \in Nat /\ r.tokens \in Nat
  BY <1>2 DEF Bucket
<1> HIDE DEF b, e, r, cap
<1>5. ASSUME NEW k \in DOMAIN buckets, k # key
      PROVE  /\ buckets'[k] = buckets[k] /\ grants'[k] = grants[k]
             /\ credited'[k] = credited[k]
  BY <1>3, <1>5 DEF UniformInv, SharedInv, TypeOK
<1>6. /\ buckets'[key].perSec = MaxRps /\ buckets'[key].burst = MaxBurst
      /\ buckets'[key].tokens = r.tokens - Unit
      /\ DOMAIN buckets' = DOMAIN buckets \cup {key}
  BY <1>2, <1>3 DEF Bucket
<1>7. grants'[key] = Append(g, c + e)
  BY <1>2, <1>3 DEF UniformInv, SharedInv, TypeOK
<1>8. \E i \in DOMAIN Append(g, c + e) :
          r.tokens - Unit = Spare(Append(g, c + e), c + e, i)
  <2>1. CASE r.tokens = cap
    <3>1. Spare(Append(g, c + e), c + e, Len(g) + 1) = cap - Unit
      <4>1. g \in Seq(Nat) /\ c + e \in Nat
        BY <1>2
      <4> HIDE DEF g, c
      <4> QED BY <4>1, SpareOpened DEF cap
    <3>2. Len(g) + 1 \in DOMAIN Append(g, c + e)
      BY <1>2
    <3> QED BY <2>1, <3>1, <3>2
  <2>2. CASE r.tokens # cap
    <3>1. r.tokens = b.tokens + e * MaxRps /\ b.tokens # cap
      BY <1>2, <1>4, <2>2 DEF Least
    <3>2. PICK i \in DOMAIN g : b.tokens = Spare(g, c, i)
      BY <1>2, <3>1
    <3>3. Spare(Append(g, c + e), c + e, i) = Spare(g, c, i) + e * MaxRps - Unit
      <4> HIDE DEF g, c
      <4> QED BY <1>2, SpareMoves
    <3>6. Spare(g, c, i) \in Int
      <4> HIDE DEF g, c
      <4> QED BY <1>2, SpareMoves
    <3>4. i \in DOMAIN Append(g, c + e)
      BY <1>2
    <3>5. r.tokens - Unit = Spare(Append(g, c + e), c + e, i)
      <4> HIDE DEF g, c
      <4>1. r.tokens = Spare(g, c, i) + e * MaxRps
        BY <3>1, <3>2
      <4>2. Unit \in Nat
        BY UnitAssumption
      <4> QED BY <3>3, <3>6, <4>1, <4>2, <1>2
    <3> QED BY <3>4, <3>5
  <2> QED BY <2>1, <2>2
<1> HIDE DEF g, c
<1>9. \E i \in DOMAIN grants'[key] :
          buckets'[key].tokens = Spare(grants'[key], credited'[key], i)
  BY <1>2, <1>6, <1>7, <1>8
<1> QED BY <1>5, <1>6, <1>9 DEF UniformInv, ExactBuckets

LEMMA ExactDeny ==
    ASSUME Uniform, UniformInv, NEW call \in waiting, Deny(call)
    PROVE  ExactBuckets'
<1> DEFINE key == call.key
           b == Found(key, call.limit, call.now)
           e == Elapsed(b, call.now)
           r == Ready(call)
           cap == MaxBurst * Unit
           g == grants[key]
           c == credited[key]
<1>1. Enter(call)
  BY DEF Deny
<1>2. /\ key \in Keys /\ g \in Seq(Nat)
      /\ c \in Nat /\ e \in Nat /\ e * MaxRps \in Nat
      /\ credited'[key] = c + e
      /\ b \in Bucket /\ r \in Bucket
      /\ r.perSec = MaxRps /\ r.burst = MaxBurst
      /\ cap \in Nat /\ Unit \in Nat \ {0} /\ Unit <= cap
      /\ r.tokens = Least(b.tokens + e * MaxRps, cap)
      /\ \/ b.tokens = cap
         \/ \E i \in DOMAIN g : b.tokens = Spare(g, c, i)
  BY <1>1, EnterUniform
<1>3. /\ buckets' = [k \in DOMAIN buckets \cup {key} |->
              IF k = key THEN r ELSE buckets[k]]
      /\ grants' = grants
      /\ credited' = [credited EXCEPT ![key] = @ + e]
      /\ r.tokens < Unit
  BY <1>1 DEF Deny, Store, Enter
<1>4. b.tokens \in Nat /\ r.tokens \in Nat
  BY <1>2 DEF Bucket
<1> HIDE DEF b, e, r, cap
<1>5. ASSUME NEW k \in DOMAIN buckets, k # key
      PROVE  buckets'[k] = buckets[k] /\ credited'[k] = credited[k]
  BY <1>3, <1>5 DEF UniformInv, SharedInv, TypeOK
<1>6. r.tokens = b.tokens + e * MaxRps /\ b.tokens # cap
  BY <1>2, <1>3, <1>4 DEF Least
<1>7. PICK i \in DOMAIN g : b.tokens = Spare(g, c, i)
  BY <1>2, <1>6
<1>8. Spare(g, c + e, i) = Spare(g, c, i) + e * MaxRps
  <2> HIDE DEF g, c
  <2> QED BY <1>2, SpareMoves
<1>9. r.tokens = Spare(grants'[key], credited'[key], i)
  BY <1>2, <1>3, <1>6, <1>7, <1>8
<1> QED BY <1>2, <1>3, <1>5, <1>7, <1>9 DEF UniformInv, ExactBuckets

LEMMA UniformInit == Init => UniformInv
BY SharedInit DEF Init, UniformInv, ExactBuckets

(***************************************************************************)
(* A call that enters the bucket is a call of TokenBucket, at the credited *)
(* time it leaves behind; any other step changes nothing TokenBucket sees. *)
(***************************************************************************)
LEMMA UniformNext ==
    ASSUME Uniform, UniformInv, [Next]_vars
    PROVE  UniformInv' /\ [Ideal!Next]_(Ideal!vars)
<1>1. SharedInv'
  BY SharedNext DEF UniformInv
<1>2. CASE UNCHANGED <<buckets, credited, lastOk, grants>>
  <2>1. ExactBuckets'
    BY <1>2 DEF UniformInv, ExactBuckets
  <2>2. UNCHANGED Ideal!vars
    BY <1>2 DEF Ideal!vars
  <2> QED BY <2>1, <2>2, <1>1 DEF UniformInv
<1>3. ASSUME NEW call \in waiting, Enter(call)
      PROVE  /\ call.key \in Keys
             /\ credited[call.key] <= credited'[call.key]
             /\ credited' = [credited EXCEPT ![call.key] = credited'[call.key]]
             /\ Ready(call).tokens \in Nat /\ Unit \in Nat
  <2> DEFINE b == Found(call.key, call.limit, call.now)
             e == Elapsed(b, call.now)
             r == Ready(call)
  <2>1. /\ call.key \in Keys /\ credited[call.key] \in Nat /\ e \in Nat
        /\ credited'[call.key] = credited[call.key] + e
        /\ r \in Bucket /\ Unit \in Nat
    BY <1>3, EnterUniform
  <2>2. credited' = [credited EXCEPT ![call.key] = credited[call.key] + e]
    BY <1>3 DEF Enter
  <2> HIDE DEF b, e, r
  <2>3. r.tokens \in Nat
    BY <2>1 DEF Bucket
  <2> QED BY <2>1, <2>2, <2>3 DEF r
<1>4. ASSUME NEW call \in waiting, Grant(call)
      PROVE  UniformInv' /\ [Ideal!Next]_(Ideal!vars)
  <2>1. ExactBuckets'
    BY <1>4, ExactGrant
  <2>2. Enter(call) /\ Ready(call).tokens >= Unit
    BY <1>4 DEF Grant
  <2>3. Ideal!Fits(grants[call.key], credited'[call.key])
    BY <2>2, ReadyFits
  <2>4. Ideal!Admit(call.key, credited'[call.key])
    BY <1>4, <2>3 DEF Grant, Ideal!Admit
  <2>5. Ideal!Call(call.key, credited'[call.key])
    BY <1>3, <2>2, <2>4 DEF Ideal!Call
  <2>6. Ideal!Next
    BY <1>3, <2>2, <2>5 DEF Ideal!Next
  <2> QED BY <2>1, <2>6, <1>1 DEF UniformInv
<1>5. ASSUME NEW call \in waiting, Deny(call)
      PROVE  UniformInv' /\ [Ideal!Next]_(Ideal!vars)
  <2>1. ExactBuckets'
    BY <1>5, ExactDeny
  <2>2. Enter(call) /\ Ready(call).tokens < Unit
    BY <1>5 DEF Deny
  <2>3. ~Ideal!Fits(grants[call.key], credited'[call.key])
    BY <1>3, <2>2, ReadyFits
  <2>4. Ideal!Refuse(call.key, credited'[call.key])
    BY <1>5, <2>3 DEF Deny, Ideal!Refuse
  <2>5. Ideal!Call(call.key, credited'[call.key])
    BY <1>3, <2>2, <2>4 DEF Ideal!Call
  <2>6. Ideal!Next
    BY <1>3, <2>2, <2>5 DEF Ideal!Next
  <2> QED BY <2>1, <2>6, <1>1 DEF UniformInv
<1>6. CASE Tick
  BY <1>2, <1>6 DEF Tick
<1>7. ASSUME NEW caller \in Callers, NEW key \in Keys \cup {NoKey},
             NEW limit \in Limits, Stamp(caller, key, limit)
      PROVE  UNCHANGED <<buckets, credited, lastOk, grants>>
  BY <1>7 DEF Stamp
<1>8. ASSUME NEW call \in waiting, Waive(call)
      PROVE  UNCHANGED <<buckets, credited, lastOk, grants>>
  BY <1>8 DEF Waive
<1>9. CASE UNCHANGED vars
  BY <1>2, <1>9 DEF vars
<1> QED BY <1>2, <1>4, <1>5, <1>6, <1>7, <1>8, <1>9 DEF Next

(***************************************************************************)
(* When one limit governs the keys, the limiter of limiter.go implements   *)
(* the token bucket of TokenBucket, for any number of callers and in       *)
(* whatever order their stamps reach the mutex.                            *)
(***************************************************************************)
THEOREM TokenBucketImplemented ==
    ASSUME Uniform
    PROVE  Spec => ImplementsTokenBucket
<1>1. Init => Ideal!Init
  BY DEF Init, Ideal!Init
<1>2. UniformInv /\ [Next]_vars => UniformInv' /\ [Ideal!Next]_(Ideal!vars)
  BY UniformNext
<1> QED BY <1>1, <1>2, UniformInit, PTL DEF Spec, ImplementsTokenBucket, Ideal!Spec

-----------------------------------------------------------------------------
(***************************************************************************)
(* The window on the clock.  Since a bucket was made, the time credited to *)
(* it is at least the time that passed on its clock, and while the two are *)
(* the same no stamp was late.  Then every interval of the clock up to the *)
(* bucket's last stamp has kept to the largest burst and rate, and the     *)
(* tokens left are within what the interval up to that stamp leaves.       *)
(***************************************************************************)
Within(sigma, s, t) == {i \in DOMAIN sigma : sigma[i] \in s..t}

Count(sigma, s, t) == Cardinality(Within(sigma, s, t))

Earned(n) == MaxBurst * Unit + MaxRps * n

Rated(sigma, last, tokens) ==
    /\ \A i \in DOMAIN sigma : sigma[i] <= last
    /\ \A s \in 0..last :
          Count(sigma, s, last) * Unit + tokens <= Earned(last - s)
    /\ \A s, t \in 0..last :
          s <= t => Count(sigma, s, t) * Unit <= Earned(t - s)

PunctualBuckets ==
    /\ \A k \in Keys \ DOMAIN buckets : stamps[k] = <<>> /\ credited[k] = 0
    /\ \A k \in DOMAIN buckets :
          /\ stamps[k] # <<>>
          /\ credited[k] >= buckets[k].last - stamps[k][1]
          /\ credited[k] = buckets[k].last - stamps[k][1] =>
                Rated(stamps[k], buckets[k].last, buckets[k].tokens)

OrderInv == SharedInv /\ PunctualBuckets

LEMMA EarnedFacts ==
    ASSUME NEW n \in Nat
    PROVE  /\ Earned(n) \in Nat /\ MaxBurst * Unit \in Nat
           /\ Earned(0) = MaxBurst * Unit
           /\ MaxBurst * Unit <= Earned(n)
           /\ \A m \in Nat : /\ m * MaxRps \in Nat
                             /\ Earned(n + m) = Earned(n) + m * MaxRps
                             /\ Earned(n) <= Earned(n + m)
<1>1. MaxBurst \in Nat /\ MaxRps \in Nat /\ Unit \in Nat
  BY LimitAssumption, UnitAssumption
<1>2. MaxBurst * Unit \in Nat /\ MaxRps * n \in Nat /\ MaxRps * 0 = 0
  BY <1>1, SMT
<1>3. ASSUME NEW m \in Nat
      PROVE  /\ m * MaxRps \in Nat
             /\ MaxRps * (n + m) = MaxRps * n + m * MaxRps
  BY <1>1, SMT
<1> QED BY <1>2, <1>3 DEF Earned

LEMMA CountFacts ==
    ASSUME NEW sigma \in Seq(Nat), NEW s \in Nat, NEW t \in Nat
    PROVE  /\ IsFiniteSet(Within(sigma, s, t))
           /\ Count(sigma, s, t) \in Nat /\ Count(sigma, s, t) * Unit \in Nat
<1>1. DOMAIN sigma = 1..Len(sigma) /\ Len(sigma) \in Nat
  OBVIOUS
<1>2. IsFiniteSet(1..Len(sigma))
  BY <1>1, FS_Interval
<1>3. Within(sigma, s, t) \in SUBSET (1..Len(sigma))
  BY <1>1 DEF Within
<1>4. IsFiniteSet(Within(sigma, s, t))
  BY <1>2, <1>3, FS_Subset
<1>5. Count(sigma, s, t) \in Nat
  BY <1>4, FS_CardinalityType DEF Count
<1> QED BY <1>4, <1>5, OneMore

\* No stamp is in an interval after the last one.
LEMMA CountAfter ==
    ASSUME NEW sigma \in Seq(Nat), NEW last \in Nat,
           \A i \in DOMAIN sigma : sigma[i] <= last,
           NEW s \in Nat, NEW t \in Nat
    PROVE  /\ s > last => Count(sigma, s, t) = 0
           /\ t >= last => Count(sigma, s, t) = Count(sigma, s, last)
<1>1. \A i \in DOMAIN sigma : sigma[i] \in Nat
  OBVIOUS
<1>2. s > last => Within(sigma, s, t) = {}
  BY <1>1 DEF Within
<1>3. t >= last => Within(sigma, s, t) = Within(sigma, s, last)
  BY <1>1 DEF Within
<1> QED BY <1>2, <1>3, FS_EmptySet DEF Count

\* One more stamp, at the end.
LEMMA CountAppend ==
    ASSUME NEW sigma \in Seq(Nat), NEW now \in Nat,
           NEW s \in Nat, NEW t \in Nat
    PROVE  Count(Append(sigma, now), s, t) =
              IF now \in s..t THEN Count(sigma, s, t) + 1 ELSE Count(sigma, s, t)
<1> DEFINE n == Len(sigma)
           tau == Append(sigma, now)
<1>1. /\ n \in Nat /\ DOMAIN sigma = 1..n /\ DOMAIN tau = 1..(n + 1)
      /\ tau[n + 1] = now /\ \A i \in 1..n : tau[i] = sigma[i]
  OBVIOUS
<1> HIDE DEF n, tau
<1>2. Within(tau, s, t) = IF now \in s..t THEN Within(sigma, s, t) \cup {n + 1}
                                          ELSE Within(sigma, s, t)
  <2>1. ASSUME NEW i
        PROVE  i \in 1..(n + 1) <=> i \in 1..n \/ i = n + 1
    BY <1>1
  <2>2. Within(tau, s, t) = {i \in 1..(n + 1) : tau[i] \in s..t}
    BY <1>1 DEF Within
  <2>3. Within(sigma, s, t) = {i \in 1..n : tau[i] \in s..t}
    BY <1>1 DEF Within
  <2> QED BY <2>1, <2>2, <2>3, <1>1
<1>3. n + 1 \notin Within(sigma, s, t)
  BY <1>1 DEF Within
<1>4. IsFiniteSet(Within(sigma, s, t))
  BY CountFacts
<1>5. Cardinality(Within(sigma, s, t) \cup {n + 1})
         = Cardinality(Within(sigma, s, t)) + 1
  BY <1>3, <1>4, FS_AddElement
<1> QED BY <1>2, <1>5 DEF Count, tau

\* A refill that is punctual keeps the bounds ...
LEMMA RatedRefill ==
    ASSUME NEW sigma \in Seq(Nat), NEW last \in Nat, NEW now \in Nat,
           NEW tokens \in Nat, NEW left \in Nat, now >= last,
           left <= tokens + (now - last) * MaxRps, left <= MaxBurst * Unit,
           Rated(sigma, last, tokens)
    PROVE  Rated(sigma, now, left)
<1>1. \A i \in DOMAIN sigma : sigma[i] \in Nat /\ sigma[i] <= last
  BY DEF Rated
<1>2. \A i \in DOMAIN sigma : sigma[i] <= now
  BY <1>1
<1>3. ASSUME NEW s \in 0..now
      PROVE  Count(sigma, s, now) * Unit + left <= Earned(now - s)
  <2>1. s \in Nat /\ now - s \in Nat
    OBVIOUS
  <2>2. CASE s <= last
    <3>1. s \in 0..last /\ last - s \in Nat /\ now - last \in Nat
          /\ now - s = (last - s) + (now - last)
      BY <2>1, <2>2
    <3>2. Earned(now - s) = Earned(last - s) + (now - last) * MaxRps
          /\ Earned(last - s) \in Nat /\ (now - last) * MaxRps \in Nat
      <4>1. PICK n \in Nat, m \in Nat : n = last - s /\ m = now - last
        BY <3>1
      <4>2. Earned(n + m) = Earned(n) + m * MaxRps
            /\ Earned(n) \in Nat /\ m * MaxRps \in Nat
        BY EarnedFacts
      <4> QED BY <3>1, <4>1, <4>2
    <3>3. Count(sigma, s, now) = Count(sigma, s, last)
      BY <1>1, <2>1, CountAfter
    <3>4. Count(sigma, s, last) * Unit + tokens <= Earned(last - s)
      BY <3>1 DEF Rated
    <3>5. Count(sigma, s, last) * Unit \in Nat
      BY <2>1, CountFacts
    <3> QED BY <3>2, <3>3, <3>4, <3>5
  <2>3. CASE s > last
    <3>1. Count(sigma, s, now) = 0
      BY <1>1, <2>1, <2>3, CountAfter
    <3>2. MaxBurst * Unit <= Earned(now - s) /\ Earned(now - s) \in Nat
          /\ MaxBurst * Unit \in Nat
      BY <2>1, EarnedFacts
    <3>3. 0 * Unit = 0
      BY UnitAssumption, SMT
    <3> QED BY <3>1, <3>2, <3>3
  <2> QED BY <2>1, <2>2, <2>3
<1>4. ASSUME NEW s \in 0..now, NEW t \in 0..now, s <= t
      PROVE  Count(sigma, s, t) * Unit <= Earned(t - s)
  <2>1. s \in Nat /\ t \in Nat /\ t - s \in Nat
    BY <1>4
  <2>2. CASE t <= last
    BY <1>4, <2>1, <2>2 DEF Rated
  <2>3. CASE s <= last /\ t > last
    <3>1. s \in 0..last /\ last \in 0..last
          /\ last - s \in Nat /\ t - last \in Nat /\ t - s = (last - s) + (t - last)
      BY <2>1, <2>3
    <3>2. Earned(last - s) <= Earned(t - s) /\ Earned(last - s) \in Nat
          /\ Earned(t - s) \in Nat
      <4>1. PICK n \in Nat, m \in Nat : n = last - s /\ m = t - last
        BY <3>1
      <4>2. n + m \in Nat
        OBVIOUS
      <4>3. Earned(n) <= Earned(n + m) /\ Earned(n) \in Nat
        BY EarnedFacts
      <4>4. Earned(n + m) \in Nat
        BY <4>2, EarnedFacts
      <4> QED BY <3>1, <4>1, <4>3, <4>4
    <3>3. Count(sigma, s, t) = Count(sigma, s, last)
      BY <1>1, <2>1, <2>3, CountAfter
    <3>4. Count(sigma, s, last) * Unit <= Earned(last - s)
      BY <3>1, <2>3 DEF Rated
    <3>5. Count(sigma, s, last) * Unit \in Nat
      BY <2>1, CountFacts
    <3> QED BY <3>2, <3>3, <3>4, <3>5
  <2>4. CASE s > last
    <3>1. Count(sigma, s, t) = 0
      BY <1>1, <2>1, <2>4, CountAfter
    <3>2. Earned(t - s) \in Nat
      BY <2>1, EarnedFacts
    <3>3. 0 * Unit = 0
      BY UnitAssumption, SMT
    <3> QED BY <3>1, <3>2, <3>3
  <2> QED BY <2>1, <2>2, <2>3, <2>4
<1> QED BY <1>2, <1>3, <1>4 DEF Rated

\* ... and so does an admission at its end, for the token it takes.
LEMMA RatedTake ==
    ASSUME NEW sigma \in Seq(Nat), NEW now \in Nat, NEW tokens \in Nat,
           tokens >= Unit, Rated(sigma, now, tokens)
    PROVE  Rated(Append(sigma, now), now, tokens - Unit)
<1> DEFINE tau == Append(sigma, now)
<1>0. Unit \in Nat /\ tokens - Unit \in Nat
  BY UnitAssumption
<1>1. \A i \in DOMAIN tau : tau[i] <= now
  <2>1. \A i \in DOMAIN sigma : sigma[i] <= now
    BY DEF Rated
  <2>2. \A i \in DOMAIN tau : (i \in DOMAIN sigma /\ tau[i] = sigma[i]) \/ tau[i] = now
    OBVIOUS
  <2> QED BY <2>1, <2>2
<1>2. tau \in Seq(Nat)
  OBVIOUS
<1>3. ASSUME NEW s \in 0..now
      PROVE  /\ Count(tau, s, now) * Unit + (tokens - Unit) <= Earned(now - s)
             /\ Count(tau, s, now) * Unit <= Earned(now - s)
  <2>1. s \in Nat /\ now \in s..now /\ now - s \in Nat
    OBVIOUS
  <2>2. Count(tau, s, now) = Count(sigma, s, now) + 1
    BY <2>1, CountAppend
  <2>3. /\ Count(sigma, s, now) * Unit \in Nat
        /\ (Count(sigma, s, now) + 1) * Unit = Count(sigma, s, now) * Unit + Unit
    BY <2>1, CountFacts, OneMore
  <2>4. Count(sigma, s, now) * Unit + tokens <= Earned(now - s)
    BY DEF Rated
  <2>5. Earned(now - s) \in Nat
    BY <2>1, EarnedFacts
  <2> HIDE DEF tau
  <2> QED BY <1>0, <2>2, <2>3, <2>4, <2>5
<1>4. ASSUME NEW s \in 0..now, NEW t \in 0..now, s <= t
      PROVE  Count(tau, s, t) * Unit <= Earned(t - s)
  <2>1. CASE t = now
    BY <1>3, <2>1
  <2>2. CASE t # now
    <3>1. s \in Nat /\ t \in Nat /\ now \notin s..t
      BY <2>2
    <3>2. Count(tau, s, t) = Count(sigma, s, t)
      BY <3>1, CountAppend
    <3> QED BY <1>4, <3>2 DEF Rated
  <2> QED BY <2>1, <2>2
<1> HIDE DEF tau
<1>5. Rated(tau, now, tokens - Unit)
  BY <1>1, <1>3, <1>4 DEF Rated
<1> QED BY <1>5 DEF tau

LEMMA RatedFirst ==
    ASSUME NEW now \in Nat, NEW tokens \in Nat, tokens <= MaxBurst * Unit
    PROVE  Rated(<<>>, now, tokens)
<1>1. \A s, t \in 0..now : Count(<<>>, s, t) = 0
  BY FS_EmptySet DEF Count, Within
<1>2. 0 * Unit = 0
  BY UnitAssumption, SMT
<1>3. \A n \in Nat : Earned(n) \in Nat /\ MaxBurst * Unit \in Nat
                     /\ MaxBurst * Unit <= Earned(n)
  BY EarnedFacts
<1>4. \A s \in 0..now : Count(<<>>, s, now) * Unit + tokens <= Earned(now - s)
  <2> TAKE s \in 0..now
  <2>1. now - s \in Nat /\ Count(<<>>, s, now) = 0
    BY <1>1
  <2> QED BY <2>1, <1>2, <1>3
<1>5. \A s, t \in 0..now : s <= t => Count(<<>>, s, t) * Unit <= Earned(t - s)
  <2> SUFFICES ASSUME NEW s \in 0..now, NEW t \in 0..now, s <= t
               PROVE  Count(<<>>, s, t) * Unit <= Earned(t - s)
    OBVIOUS
  <2>1. t - s \in Nat /\ Count(<<>>, s, t) = 0
    BY <1>1
  <2> QED BY <2>1, <1>2, <1>3
<1> QED BY <1>4, <1>5 DEF Rated

-----------------------------------------------------------------------------
LEMMA OrderInit == Init => OrderInv
BY SharedInit DEF Init, OrderInv, PunctualBuckets

LEMMA OrderIdle ==
    ASSUME OrderInv, SharedInv', UNCHANGED <<buckets, credited, stamps>>
    PROVE  OrderInv'
BY DEF OrderInv, PunctualBuckets

\* The time credited gains on the clock when a stamp is late, and never loses.
LEMMA LateStamp ==
    ASSUME NEW c \in Nat, NEW last \in Nat, NEW first \in Nat, NEW now \in Nat,
           NEW e \in Nat, e = IF now < last THEN 0 ELSE now - last,
           NEW d, d = c + e, c >= last - first
    PROVE  /\ d >= now - first
           /\ d = now - first =>
                 now >= last /\ e = now - last /\ c = last - first
OBVIOUS

(***************************************************************************)
(* What a call that reaches the bucket does to the time of the bucket: it  *)
(* gains on the clock when the stamp is late, and never loses.             *)
(***************************************************************************)
LEMMA EnterOrder ==
    ASSUME OrderInv, NEW call \in waiting, Enter(call),
           NEW r, r = Ready(call)
    PROVE  LET key == call.key
               now == call.now
               sigma == stamps[key]
           IN  /\ key \in Keys /\ now \in Nat /\ sigma \in Seq(Nat)
               /\ r \in Bucket /\ r.last = now /\ r.tokens <= MaxBurst * Unit
               /\ credited'[key] \in Nat
               /\ \A k \in Keys \ {key} : credited'[k] = credited[k]
               /\ key \notin DOMAIN buckets =>
                     /\ sigma = <<>> /\ credited'[key] = 0
                     /\ r.tokens >= Unit
               /\ key \in DOMAIN buckets =>
                     /\ sigma # <<>> /\ sigma[1] \in Nat
                     /\ credited'[key] >= now - sigma[1]
                     /\ credited'[key] = now - sigma[1] =>
                           Rated(sigma, now, r.tokens)
<1> DEFINE key == call.key
           now == call.now
           sigma == stamps[key]
           b == Found(key, call.limit, now)
           e == Elapsed(b, now)
<1>1. /\ key \in Keys /\ now \in Nat
      /\ b \in Bucket /\ r \in Bucket /\ e \in Nat
      /\ r.tokens <= MaxBurst * Unit
      /\ r.tokens <= b.tokens + e * MaxRps
      /\ e * MaxRps \in Nat
      /\ credited[key] \in Nat
      /\ credited' = [credited EXCEPT ![key] = @ + e]
  BY EnterFacts DEF OrderInv
<1>2. sigma \in Seq(Nat)
  BY <1>1 DEF OrderInv, SharedInv, TypeOK
<1>3. /\ credited'[key] = credited[key] + e /\ credited'[key] \in Nat
      /\ \A k \in Keys \ {key} : credited'[k] = credited[k]
  BY <1>1 DEF OrderInv, SharedInv, TypeOK
<1>4. r.last = now /\ (key \notin DOMAIN buckets => r.tokens >= Unit)
  <2>1. /\ call.limit.burst \in Nat \ {0} /\ call.limit.rps \in Nat \ {0}
    BY LimitAssumption DEF Enter, Exempt, OrderInv, SharedInv, TypeOK, Call
  <2>2. /\ b \in Bucket
        /\ r = Refilled(Retuned(b, call.limit), now)
    BY <1>1 DEF Ready
  <2> HIDE DEF b
  <2>3. r.last = now
    <3> DEFINE c == Retuned(b, call.limit)
    <3>1. c = [tokens |-> c.tokens, last |-> c.last, burst |-> c.burst,
               perSec |-> c.perSec]
      <4>1. CASE b.perSec = call.limit.rps /\ b.burst = call.limit.burst
        BY <2>2, <4>1 DEF Retuned, Bucket
      <4>2. CASE ~(b.perSec = call.limit.rps /\ b.burst = call.limit.burst)
        <5>1. c = [tokens |-> Least(b.tokens, call.limit.burst * Unit),
                   last |-> b.last, burst |-> call.limit.burst,
                   perSec |-> call.limit.rps]
          BY <2>2, <4>2 DEF Retuned, Bucket
        <5> HIDE DEF c
        <5> QED BY <5>1
      <4> QED BY <4>1, <4>2
    <3> HIDE DEF c
    <3>2. r = Refilled(c, now)
      BY <2>2 DEF c
    <3> QED BY <3>1, <3>2 DEF Refilled
  <2>4. ASSUME key \notin DOMAIN buckets PROVE r.tokens >= Unit
    <3>1. b = NewBucket(call.limit, now)
      BY <2>4 DEF Found, b
    <3>2. /\ b.tokens = call.limit.burst * Unit /\ b.last = now
          /\ b.burst = call.limit.burst /\ b.perSec = call.limit.rps
      BY <3>1 DEF NewBucket
    <3>3. Elapsed(b, now) = 0
      BY <1>1, <3>2 DEF Elapsed
    <3>4. r.tokens = Least(b.tokens + Elapsed(b, now) * call.limit.rps,
                           call.limit.burst * Unit)
      <4>1. call \in Call /\ ~Exempt(call.key, call.limit)
        BY DEF Enter, OrderInv, SharedInv, TypeOK
      <4> QED BY <3>2, <4>1, ReadyBucket DEF b, OrderInv, SharedInv, TypeOK
    <3>5. 0 * call.limit.rps = 0 /\ 1 * Unit <= call.limit.burst * Unit
          /\ call.limit.burst * Unit \in Nat /\ Unit \in Nat
      <4>1. Unit \in Nat
        BY UnitAssumption
      <4>2. 1 * Unit <= call.limit.burst * Unit
        BY <2>1, <4>1, Monotone
      <4>3. 0 * call.limit.rps = 0 /\ call.limit.burst * Unit \in Nat
        BY <2>1, <4>1, SMT
      <4> QED BY <4>1, <4>2, <4>3
    <3>6. r.tokens = call.limit.burst * Unit
      BY <3>2, <3>3, <3>4, <3>5 DEF Least
    <3> QED BY <3>5, <3>6
  <2> QED BY <2>3, <2>4
<1>5. ASSUME key \notin DOMAIN buckets
      PROVE  sigma = <<>> /\ credited'[key] = 0
  <2>1. sigma = <<>> /\ credited[key] = 0
    BY <1>1, <1>5 DEF OrderInv, PunctualBuckets
  <2>2. e = 0
    <3>1. b.last = now
      BY <1>5 DEF Found, NewBucket
    <3> QED BY <1>1, <3>1 DEF Elapsed
  <2> QED BY <1>3, <2>1, <2>2
<1>6. ASSUME key \in DOMAIN buckets
      PROVE  /\ sigma # <<>> /\ sigma[1] \in Nat
             /\ credited'[key] >= now - sigma[1]
             /\ credited'[key] = now - sigma[1] => Rated(sigma, now, r.tokens)
  <2>1. b = buckets[key]
    BY <1>6 DEF Found
  <2>2. /\ sigma # <<>>
        /\ credited[key] >= b.last - sigma[1]
        /\ credited[key] = b.last - sigma[1] => Rated(sigma, b.last, b.tokens)
    BY <1>6, <2>1 DEF OrderInv, PunctualBuckets
  <2>3. sigma[1] \in Nat
    <3> HIDE DEF sigma
    <3> QED BY <1>2, <2>2
  <2>4. b.last \in Nat /\ b.tokens \in Nat /\ r.tokens \in Nat
    BY <1>1 DEF Bucket
  <2>5. e = IF now < b.last THEN 0 ELSE now - b.last
    BY DEF Elapsed
  <2> HIDE DEF b, e, sigma, key, now
  <2>6. /\ credited'[key] >= now - sigma[1]
        /\ credited'[key] = now - sigma[1] =>
              now >= b.last /\ e = now - b.last /\ credited[key] = b.last - sigma[1]
    <3> DEFINE c == credited[key]
               d == credited'[key]
    <3>1. c \in Nat /\ now \in Nat /\ e \in Nat /\ d = c + e
      BY <1>1, <1>3
    <3>2. c >= b.last - sigma[1]
      BY <2>2
    <3> HIDE DEF c, d
    <3>3. /\ d >= now - sigma[1]
          /\ d = now - sigma[1] =>
                now >= b.last /\ e = now - b.last /\ c = b.last - sigma[1]
      BY <3>1, <3>2, <2>3, <2>4, <2>5, LateStamp
    <3> QED BY <3>3 DEF c, d
  <2>7. ASSUME credited'[key] = now - sigma[1]
        PROVE  Rated(sigma, now, r.tokens)
    <3>1. now >= b.last /\ e = now - b.last /\ credited[key] = b.last - sigma[1]
      BY <2>6, <2>7
    <3>2. Rated(sigma, b.last, b.tokens)
      BY <2>2, <3>1
    <3> QED BY <1>1, <1>2, <2>4, <3>1, <3>2, RatedRefill
  <2> QED BY <2>2, <2>3, <2>6, <2>7
<1> QED BY <1>1, <1>2, <1>3, <1>4, <1>5, <1>6

LEMMA OrderGrant ==
    ASSUME OrderInv, NEW call \in waiting, Grant(call)
    PROVE  OrderInv'
<1> DEFINE key == call.key
           now == call.now
           r == Ready(call)
           kept == [r EXCEPT !.tokens = r.tokens - Unit]
           sigma == stamps[key]
<1>1. /\ key \in Keys /\ now \in Nat /\ sigma \in Seq(Nat)
      /\ r \in Bucket /\ r.last = now /\ r.tokens <= MaxBurst * Unit
      /\ credited'[key] \in Nat
      /\ \A k \in Keys \ {key} : credited'[k] = credited[k]
      /\ key \notin DOMAIN buckets => sigma = <<>> /\ credited'[key] = 0
      /\ key \in DOMAIN buckets =>
            /\ sigma # <<>> /\ sigma[1] \in Nat
            /\ credited'[key] >= now - sigma[1]
            /\ credited'[key] = now - sigma[1] => Rated(sigma, now, r.tokens)
  BY EnterOrder DEF Grant
<1>2. SharedInv'
  BY SharedGrant DEF OrderInv
<1>3. /\ r.tokens >= Unit
      /\ buckets' = [k \in DOMAIN buckets \cup {key} |->
                        IF k = key THEN kept ELSE buckets[k]]
      /\ stamps' = [stamps EXCEPT ![key] = Append(@, now)]
  BY DEF Grant, Store
<1> HIDE DEF r
<1>4. kept.last = now /\ kept.tokens = r.tokens - Unit
      /\ r.tokens \in Nat
  BY <1>1 DEF Bucket
<1>5. /\ stamps'[key] = Append(sigma, now)
      /\ \A k \in Keys \ {key} : stamps'[k] = stamps[k]
  BY <1>1, <1>3 DEF OrderInv, SharedInv, TypeOK
<1>6. /\ DOMAIN buckets' = DOMAIN buckets \cup {key}
      /\ buckets'[key] = kept
      /\ \A k \in DOMAIN buckets \ {key} : buckets'[k] = buckets[k]
  BY <1>3
<1>7. /\ stamps'[key] # <<>>
      /\ stamps'[key][1] = IF sigma = <<>> THEN now ELSE sigma[1]
  <2> HIDE DEF sigma
  <2>1. CASE sigma = <<>>
    BY <1>1, <1>5, <2>1
  <2>2. CASE sigma # <<>>
    <3>1. Append(sigma, now) # <<>> /\ Append(sigma, now)[1] = sigma[1]
      BY <1>1, <2>2
    <3> QED BY <1>5, <2>2, <3>1
  <2> QED BY <2>1, <2>2
<1>8. /\ credited'[key] >= now - stamps'[key][1]
      /\ credited'[key] = now - stamps'[key][1] =>
            Rated(stamps'[key], now, r.tokens - Unit)
  <2>1. CASE key \in DOMAIN buckets
    BY <2>1, <1>1, <1>3, <1>4, <1>5, <1>7, RatedTake
  <2>2. CASE key \notin DOMAIN buckets
    <3>1. sigma = <<>> /\ credited'[key] = 0 /\ stamps'[key][1] = now
      BY <2>2, <1>1, <1>7
    <3>2. Rated(<<>>, now, r.tokens)
      BY <1>1, <1>4, RatedFirst
    <3>3. <<>> \in Seq(Nat)
      OBVIOUS
    <3>4. Rated(Append(<<>>, now), now, r.tokens - Unit)
      BY <1>1, <1>3, <1>4, <3>2, <3>3, RatedTake
    <3> QED BY <1>1, <1>5, <3>1, <3>4
  <2> QED BY <2>1, <2>2
<1> HIDE DEF kept, sigma, key, now
<1>9. PunctualBuckets'
  <2>1. \A k \in Keys \ DOMAIN buckets' : stamps'[k] = <<>> /\ credited'[k] = 0
    BY <1>1, <1>5, <1>6 DEF OrderInv, PunctualBuckets
  <2>2. ASSUME NEW k \in DOMAIN buckets'
        PROVE  /\ stamps'[k] # <<>>
               /\ credited'[k] >= buckets'[k].last - stamps'[k][1]
               /\ credited'[k] = buckets'[k].last - stamps'[k][1] =>
                     Rated(stamps'[k], buckets'[k].last, buckets'[k].tokens)
    <3>1. CASE k = key
      BY <3>1, <1>4, <1>6, <1>7, <1>8
    <3>2. CASE k # key
      <4>1. k \in DOMAIN buckets /\ k \in Keys
        BY <3>2, <1>6 DEF OrderInv, SharedInv, TypeOK
      <4> QED BY <3>2, <4>1, <1>1, <1>5, <1>6 DEF OrderInv, PunctualBuckets
    <3> QED BY <3>1, <3>2
  <2> QED BY <2>1, <2>2 DEF PunctualBuckets
<1> QED BY <1>2, <1>9 DEF OrderInv

LEMMA OrderDeny ==
    ASSUME OrderInv, NEW call \in waiting, Deny(call)
    PROVE  OrderInv'
<1> DEFINE key == call.key
           now == call.now
           r == Ready(call)
           sigma == stamps[key]
<1>1. /\ key \in Keys /\ now \in Nat /\ sigma \in Seq(Nat)
      /\ r \in Bucket /\ r.last = now
      /\ \A k \in Keys \ {key} : credited'[k] = credited[k]
      /\ key \notin DOMAIN buckets => r.tokens >= Unit
      /\ key \in DOMAIN buckets =>
            /\ sigma # <<>> /\ sigma[1] \in Nat
            /\ credited'[key] >= now - sigma[1]
            /\ credited'[key] = now - sigma[1] => Rated(sigma, now, r.tokens)
  BY EnterOrder DEF Deny
<1>2. SharedInv'
  BY SharedDeny DEF OrderInv
<1>3. /\ r.tokens < Unit
      /\ buckets' = [k \in DOMAIN buckets \cup {key} |->
                        IF k = key THEN r ELSE buckets[k]]
      /\ stamps' = stamps
  BY DEF Deny, Store
<1> HIDE DEF r
<1>4. key \in DOMAIN buckets
  <2>1. r.tokens \in Nat /\ Unit \in Nat
    BY <1>1, UnitAssumption DEF Bucket
  <2> QED BY <1>1, <1>3, <2>1
<1>5. /\ DOMAIN buckets' = DOMAIN buckets /\ buckets'[key] = r
      /\ \A k \in DOMAIN buckets \ {key} : buckets'[k] = buckets[k]
  BY <1>3, <1>4
<1> HIDE DEF sigma, key, now
<1>6. PunctualBuckets'
  <2>1. \A k \in Keys \ DOMAIN buckets' : stamps'[k] = <<>> /\ credited'[k] = 0
    BY <1>1, <1>3, <1>4, <1>5 DEF OrderInv, PunctualBuckets
  <2>2. ASSUME NEW k \in DOMAIN buckets'
        PROVE  /\ stamps'[k] # <<>>
               /\ credited'[k] >= buckets'[k].last - stamps'[k][1]
               /\ credited'[k] = buckets'[k].last - stamps'[k][1] =>
                     Rated(stamps'[k], buckets'[k].last, buckets'[k].tokens)
    <3>1. CASE k = key
      BY <3>1, <1>1, <1>3, <1>4, <1>5 DEF sigma
    <3>2. CASE k # key
      <4>1. k \in DOMAIN buckets /\ k \in Keys
        BY <1>5 DEF OrderInv, SharedInv, TypeOK
      <4> QED BY <3>2, <4>1, <1>1, <1>3, <1>5 DEF OrderInv, PunctualBuckets
    <3> QED BY <3>1, <3>2
  <2> QED BY <2>1, <2>2 DEF PunctualBuckets
<1> QED BY <1>2, <1>6 DEF OrderInv

LEMMA OrderNext == OrderInv /\ [Next]_vars => OrderInv'
<1> SUFFICES ASSUME OrderInv, [Next]_vars PROVE OrderInv'
  OBVIOUS
<1>1. SharedInv'
  BY SharedNext DEF OrderInv
<1>2. CASE Tick
  BY <1>1, <1>2, OrderIdle DEF Tick
<1>3. ASSUME NEW caller \in Callers, NEW key \in Keys \cup {NoKey},
             NEW limit \in Limits, Stamp(caller, key, limit)
      PROVE  OrderInv'
  BY <1>1, <1>3, OrderIdle DEF Stamp
<1>4. ASSUME NEW call \in waiting, Waive(call)
      PROVE  OrderInv'
  BY <1>1, <1>4, OrderIdle DEF Waive
<1>5. ASSUME NEW call \in waiting, Grant(call)
      PROVE  OrderInv'
  BY <1>5, OrderGrant
<1>6. ASSUME NEW call \in waiting, Deny(call)
      PROVE  OrderInv'
  BY <1>6, OrderDeny
<1>7. CASE UNCHANGED vars
  BY <1>1, <1>7, OrderIdle DEF vars
<1> QED BY <1>2, <1>3, <1>4, <1>5, <1>6, <1>7 DEF Next

(***************************************************************************)
(* A key whose calls have reached the mutex of limiter.go in the order of  *)
(* their stamps has kept to burst and rate over every interval of the      *)
(* clock, though policies of different limits may share its bucket.        *)
(***************************************************************************)
THEOREM OrderedWindowsHold == Spec => []OrderedClockWindows
<1>1. OrderInv => OrderedClockWindows
  <2> SUFFICES ASSUME OrderInv, NEW k \in Keys, InStampOrder(k),
                      NEW s \in 0..clock, NEW t \in 0..clock, s <= t
               PROVE  Admitted(k, s, t) * Unit
                        <= MaxBurst * Unit + MaxRps * (t - s)
    BY DEF OrderedClockWindows, ClockWindow
  <2> DEFINE sigma == stamps[k]
  <2>1. sigma \in Seq(Nat) /\ s \in Nat /\ t \in Nat /\ t - s \in Nat
    BY DEF OrderInv, SharedInv, TypeOK
  <2>2. Admitted(k, s, t) = Count(sigma, s, t)
    BY DEF Admitted, Count, Within
  <2>3. Earned(t - s) = MaxBurst * Unit + MaxRps * (t - s) /\ Earned(t - s) \in Nat
    BY <2>1, EarnedFacts DEF Earned
  <2>4. CASE k \notin DOMAIN buckets
    <3>1. sigma = <<>>
      BY <2>4 DEF OrderInv, PunctualBuckets
    <3>2. Count(sigma, s, t) = 0
      BY <3>1, FS_EmptySet DEF Count, Within
    <3>3. 0 * Unit = 0
      BY UnitAssumption, SMT
    <3> QED BY <2>2, <2>3, <3>2, <3>3
  <2>5. CASE k \in DOMAIN buckets
    <3>1. Rated(sigma, buckets[k].last, buckets[k].tokens)
      BY <2>5 DEF OrderInv, PunctualBuckets, InStampOrder
    <3>2. buckets[k].last \in Nat /\ buckets[k].tokens \in Nat
      BY <2>5 DEF OrderInv, SharedInv, TypeOK, Bucket
    <3> DEFINE last == buckets[k].last
               top == IF t <= last THEN last ELSE t
    <3>3. last \in Nat /\ top \in Nat /\ last <= top /\ t <= top
          /\ Rated(sigma, last, buckets[k].tokens)
      BY <2>1, <3>1, <3>2
    <3> HIDE DEF last, top
    <3>4. Rated(sigma, top, 0)
      <4>1. (top - last) * MaxRps \in Nat /\ MaxBurst * Unit \in Nat
        <5>1. top - last \in Nat
          BY <3>3
        <5> QED BY <5>1, EarnedFacts
      <4> HIDE DEF sigma
      <4> QED BY <2>1, <3>2, <3>3, <4>1, RatedRefill
    <3>5. Count(sigma, s, t) * Unit <= Earned(t - s)
      <4>1. s \in 0..top /\ t \in 0..top
        BY <2>1, <3>3
      <4> QED BY <3>4, <4>1 DEF Rated
    <3> QED BY <2>2, <2>3, <3>5
  <2> QED BY <2>4, <2>5
<1> QED BY <1>1, OrderInit, OrderNext, PTL DEF Spec
=============================================================================
