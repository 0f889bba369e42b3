--------------------------- MODULE ContractLearn ---------------------------
(***************************************************************************)
(* Contract.Observe of internal/contract/learn.go, one memory access at a  *)
(* time.  checkContract (gateway.go:287) calls it from every handler       *)
(* goroutine of a learning route, on one Contract and without a lock.      *)
(*                                                                         *)
(* Each field is read and then written: Samples and ObservedMax as words,  *)
(* the four maps by mapassign, between whose two halves another goroutine  *)
(* may be inside the same map.  What Go then does is undefined.  It may    *)
(* notice and end the process ("concurrent map writes"), or go on, and     *)
(* then nothing is known of the map: entries may be missing, and a key of  *)
(* two words, half of one string and half of another, may be there.  A     *)
(* word is read and written whole.                                         *)
(***************************************************************************)
EXTENDS Contract

CONSTANTS
    Handlers, \* handler goroutines
    Traffic,  \* the requests they observe
    None,     \* no request
    MaxCalls  \* bound: calls of Observe

ASSUME TrafficAssumption == Traffic \subseteq Request /\ None \notin Traffic

MapFields == {"methods", "ctypes", "params", "headers"}

Fields == MapFields \cup {"samples", "observedMax"}

VARIABLES
    alive,    \* the process has not ended with a fatal error
    contract, \* the Contract
    request,  \* the request each handler observes, or None
    at,       \* the field it is at
    todo,     \* the names it has yet to write to that field's map
    inside,   \* it has read the field and not yet written it: the value of
              \* Samples, or the name or size it writes, in a singleton
    \* For the bound and the properties only:
    expected, \* what the calls so far would make of the contract one by one
    raced     \* fields that two handlers were inside at the same time

vars == <<alive, contract, request, at, todo, inside, expected, raced>>

TypeOK ==
    /\ alive \in BOOLEAN
    /\ contract \in ContractType /\ expected \in ContractType
    /\ request \in [Handlers -> Traffic \cup {None}]
    /\ at \in [Handlers -> Fields]
    /\ \A h \in Handlers :
          /\ at[h] \notin MapFields => todo[h] = {}
          /\ Cardinality(inside[h]) <= 1
          /\ at[h] \in MapFields => inside[h] \subseteq todo[h] /\ todo[h] # {}
    /\ raced \subseteq Fields

Init ==
    /\ alive = TRUE
    /\ contract = NewContract /\ expected = NewContract
    /\ request = [h \in Handlers |-> None]
    /\ at = [h \in Handlers |-> "samples"]
    /\ todo = [h \in Handlers |-> {}]
    /\ inside = [h \in Handlers |-> {}]
    /\ raced = {}
-----------------------------------------------------------------------------
\* Variant: the field of another map.
NamesSwapped(q, field) ==
    CASE field = "methods" -> {q.method}
      [] field = "ctypes" -> {q.ctype} \ {NoType}
      [] field = "params" -> q.headers
      [] field = "headers" -> q.params

\* The keys a call sets in each map.
Names(q, field) ==
    CASE field = "methods" -> {q.method}
      [] field = "ctypes" -> {q.ctype} \ {NoType}
      [] field = "params" -> q.params
      [] field = "headers" -> q.headers

\* All there could be in a field's map.
Universe(field) ==
    CASE field = "methods" -> Methods
      [] field = "ctypes" -> ContentTypes
      [] field = "params" -> Params
      [] field = "headers" -> Headers

Order == <<"methods", "ctypes", "params", "headers", "observedMax">>

\* From a field on: the first map there is something to write to, or the end.
GoTo(h, i) ==
    LET writes(j) == Order[j] \in MapFields /\ Names(request[h], Order[j]) # {}
        j == CHOOSE j \in i..5 :
                /\ j = 5 \/ writes(j)
                /\ \A l \in i..(j - 1) : ~writes(l)
    IN  /\ at' = [at EXCEPT ![h] = Order[j]]
        /\ todo' = [todo EXCEPT ![h] =
                IF j = 5 THEN {} ELSE Names(request[h], Order[j])]

IndexOf(field) == CHOOSE i \in 1..5 : Order[i] = field

Running(h) == alive /\ request[h] # None

\* Another handler is inside the field.
Occupied(h, field) ==
    \E g \in Handlers \ {h} : at[g] = field /\ inside[g] # {}

Enter(h, value) ==
    /\ inside' = [inside EXCEPT ![h] = {value}]
    /\ raced' = IF Occupied(h, at[h]) THEN raced \cup {at[h]} ELSE raced

Leave(h) == inside' = [inside EXCEPT ![h] = {}] /\ UNCHANGED raced

Call(h, q) ==
    /\ alive /\ request[h] = None /\ expected.samples < MaxCalls
    /\ request' = [request EXCEPT ![h] = q]
    /\ expected' = Observed(expected, q)
    /\ UNCHANGED <<alive, contract, at, todo, inside, raced>>

LoadSamples(h) ==
    /\ Running(h) /\ at[h] = "samples" /\ inside[h] = {}
    /\ Enter(h, contract.samples)
    /\ UNCHANGED <<alive, contract, request, at, todo, expected>>

StoreSamples(h) ==
    /\ Running(h) /\ at[h] = "samples"
    /\ \E n \in inside[h] : contract' = [contract EXCEPT !.samples = n + 1]
    /\ Leave(h) /\ GoTo(h, 1)
    /\ UNCHANGED <<alive, request, expected>>

\* The keys of QueryParams and HeaderNames come in the order of a map range.
BeginWrite(h, name) ==
    /\ Running(h) /\ name \in todo[h] /\ inside[h] = {}
    /\ Enter(h, name)
    /\ UNCHANGED <<alive, contract, request, at, todo, expected>>

\* throw("concurrent map writes"), if the runtime notices.
Fatal(h) ==
    /\ Running(h) /\ at[h] \in MapFields /\ Occupied(h, at[h])
    /\ alive' = FALSE
    /\ UNCHANGED <<contract, request, at, todo, inside, expected, raced>>

\* A map two goroutines were inside at once may hold anything from then on.
EndWrite(h) ==
    /\ Running(h) /\ at[h] \in MapFields
    /\ \E name \in inside[h] :
          /\ \E left \in IF at[h] \in raced THEN SUBSET Universe(at[h])
                          ELSE {contract[at[h]] \cup {name}} :
                contract' = [contract EXCEPT ![at[h]] = left]
          /\ IF todo[h] = {name}
             THEN GoTo(h, IndexOf(at[h]) + 1)
             ELSE /\ todo' = [todo EXCEPT ![h] = @ \ {name}]
                  /\ UNCHANGED at
    /\ Leave(h)
    /\ UNCHANGED <<alive, request, expected>>

Return(h) ==
    /\ request' = [request EXCEPT ![h] = None]
    /\ at' = [at EXCEPT ![h] = "samples"]
    /\ UNCHANGED <<alive, todo, expected>>

\* Variant: the comparison the wrong way round.
SmallerBody(h) == request[h].body < contract.observedMax

LargerBody(h) == request[h].body > contract.observedMax

Compare(h) ==
    /\ Running(h) /\ at[h] = "observedMax" /\ inside[h] = {}
    /\ IF LargerBody(h)
       THEN /\ Enter(h, request[h].body)
            /\ UNCHANGED <<alive, request, at, todo, expected>>
       ELSE Return(h) /\ UNCHANGED <<inside, raced>>
    /\ UNCHANGED contract

Raise(h) ==
    /\ Running(h) /\ at[h] = "observedMax"
    /\ \E size \in inside[h] :
          contract' = [contract EXCEPT !.observedMax = size]
    /\ Leave(h) /\ Return(h)

Next ==
    \E h \in Handlers :
        \/ \E q \in Traffic : Call(h, q)
        \/ LoadSamples(h) \/ StoreSamples(h)
        \/ \E name \in todo[h] : BeginWrite(h, name)
        \/ EndWrite(h) \/ Fatal(h) \/ Compare(h) \/ Raise(h)

Spec == Init /\ [][Next]_vars
-----------------------------------------------------------------------------
Quiet == alive /\ \A h \in Handlers : request[h] = None

(***************************************************************************)
(* Only a race on a field costs anything.  Whatever else is interleaved,   *)
(* once no call is under way a field that no two handlers were inside at   *)
(* the same time holds what the calls would have left in it one by one     *)
(* (learn.go:13-30).  In particular, learning by one handler at a time is  *)
(* the operator Observed, as Lifecycle has it.                             *)
(***************************************************************************)
UnracedExact == Quiet => \A f \in Fields \ raced : contract[f] = expected[f]

(***************************************************************************)
(* However the handlers race, a contract counts no sample and records no   *)
(* body size that some call did not bring: minSamples is never met by      *)
(* samples nobody sent, and the limit finalized is at most the margin      *)
(* above the largest body sent.  And a map that no two calls were inside   *)
(* at once lists, while they are under way too, no name that none of them  *)
(* brought (learn.go:13-30).                                               *)
(***************************************************************************)
NothingInvented ==
    /\ contract.samples <= expected.samples
    /\ contract.observedMax <= expected.observedMax
    /\ \A f \in MapFields \ raced : contract[f] \subseteq expected[f]

(***************************************************************************)
(* "Observes live traffic to build allowlisted behavior"                   *)
(* (docs/architecture.md:10): once no call is under way, the contract      *)
(* admits at the strictest level every request it observed.                *)
(***************************************************************************)
LearnedListed ==
    Quiet =>
        /\ \A f \in MapFields : expected[f] \subseteq contract[f]
        /\ contract.observedMax = expected.observedMax
=============================================================================
