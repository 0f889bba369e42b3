------------------------ MODULE ContractLearnProofs ------------------------
(***************************************************************************)
(* Proofs about ContractLearn, for every set of handlers, every traffic    *)
(* and any number of calls: its type invariant, that no sample or size is  *)
(* invented, and that without a race on a field it is exactly what calls   *)
(* made one by one would leave.                                            *)
(***************************************************************************)
EXTENDS ContractLearn, FiniteSetTheorems, TLAPS

\* The place of each field in Observe.
Place == [samples |-> 0, methods |-> 1, ctypes |-> 2, params |-> 3,
          headers |-> 4, observedMax |-> 5]

LEMMA IndexIsPlace ==
    ASSUME NEW f \in MapFields
    PROVE  /\ IndexOf(f) = Place[f] /\ IndexOf(f) \in 1..4
           /\ Order[IndexOf(f)] = f
<1>1. \A i \in 1..5 : Order[i] = f => i = Place[f]
  BY DEF Order, Place, MapFields
<1>2. Place[f] \in 1..4 /\ Order[Place[f]] = f
  BY DEF Order, Place, MapFields
<1> QED BY <1>1, <1>2 DEF IndexOf

LEMMA OrderFacts ==
    /\ \A j \in 1..4 : Order[j] \in MapFields /\ Place[Order[j]] = j
    /\ Order[5] = "observedMax" /\ Place["observedMax"] = 5
    /\ Place["samples"] = 0
    /\ \A f \in MapFields : Place[f] \in 1..4
BY DEF Order, Place, MapFields

LEMMA NamesTyped ==
    ASSUME NEW q \in Traffic, NEW f \in MapFields
    PROVE  Names(q, f) \subseteq Universe(f)
BY TrafficAssumption DEF Names, Universe, MapFields, Request

\* One field of a contract changes.
WithList(c, f, S) == [c EXCEPT ![f] = S]

WithSamples(c, n) == [c EXCEPT !.samples = n]

WithMax(c, n) == [c EXCEPT !.observedMax = n]

LEMMA ListUpdate ==
    ASSUME NEW c \in ContractType, NEW f \in MapFields,
           NEW S \in SUBSET Universe(f)
    PROVE  /\ WithList(c, f, S) \in ContractType
           /\ WithList(c, f, S)[f] = S
           /\ \A g \in MapFields \ {f} : WithList(c, f, S)[g] = c[g]
           /\ WithList(c, f, S).samples = c.samples
           /\ WithList(c, f, S).observedMax = c.observedMax
<1> USE DEF WithList
<1>1. CASE f = "methods"
  BY <1>1 DEF ContractType, Universe, MapFields
<1>2. CASE f = "ctypes"
  BY <1>2 DEF ContractType, Universe, MapFields
<1>3. CASE f = "params"
  BY <1>3 DEF ContractType, Universe, MapFields
<1>4. CASE f = "headers"
  BY <1>4 DEF ContractType, Universe, MapFields
<1> QED BY <1>1, <1>2, <1>3, <1>4 DEF MapFields

LEMMA ListTyped ==
    ASSUME NEW c \in ContractType, NEW f \in MapFields
    PROVE  c[f] \subseteq Universe(f)
BY DEF ContractType, Universe, MapFields

LEMMA NumberUpdate ==
    ASSUME NEW c \in ContractType, NEW n \in Nat
    PROVE  /\ WithSamples(c, n) \in ContractType
           /\ WithSamples(c, n).samples = n
           /\ WithSamples(c, n).observedMax = c.observedMax
           /\ \A f \in MapFields : WithSamples(c, n)[f] = c[f]
           /\ WithMax(c, n) \in ContractType
           /\ WithMax(c, n).observedMax = n
           /\ WithMax(c, n).samples = c.samples
           /\ \A f \in MapFields : WithMax(c, n)[f] = c[f]
BY DEF ContractType, MapFields, WithSamples, WithMax

\* What a call makes of a contract, field by field.
LEMMA ObservedFields ==
    ASSUME NEW c \in ContractType, NEW q \in Traffic
    PROVE  LET d == Observed(c, q)
           IN  /\ d \in ContractType
               /\ d.samples = c.samples + 1
               /\ d.observedMax = Greater(q.body, c.observedMax)
               /\ \A f \in MapFields : d[f] = c[f] \cup Names(q, f)
<1>1. q \in Request
  BY TrafficAssumption
<1>2. /\ q.method \in Methods /\ q.ctype \in ContentTypes \cup {NoType}
      /\ q.params \subseteq Params /\ q.headers \subseteq Headers
      /\ q.body \in Nat
  BY <1>1 DEF Request
<1>3. Greater(q.body, c.observedMax) \in Nat
  BY <1>2 DEF Greater, ContractType
<1>4. Observed(c, q) \in ContractType
  BY <1>2, <1>3 DEF Observed, ContractType
<1>5. \A f \in MapFields : Observed(c, q)[f] = c[f] \cup Names(q, f)
  BY DEF Observed, MapFields, Names
<1> QED BY <1>4, <1>5 DEF Observed

\* Where GoTo goes: to the first map with something to write, or to the end.
LEMMA Goes ==
    ASSUME NEW h \in Handlers, NEW i \in 1..5, GoTo(h, i)
    PROVE  \E j \in i..5 :
              /\ at' = [at EXCEPT ![h] = Order[j]]
              /\ todo' = [todo EXCEPT ![h] =
                            IF j = 5 THEN {} ELSE Names(request[h], Order[j])]
              /\ j # 5 => Names(request[h], Order[j]) # {}
              /\ \A l \in i..(j - 1) : Names(request[h], Order[l]) = {}
<1> DEFINE writes(j) ==
              Order[j] \in MapFields /\ Names(request[h], Order[j]) # {}
           Found(n) == \E j \in n..5 : /\ j = 5 \/ writes(j)
                                       /\ \A l \in n..(j - 1) : ~writes(l)
<1>1. Found(5)
  OBVIOUS
<1>2. ASSUME NEW n \in 1..4, Found(n + 1) PROVE Found(n)
  <2>1. CASE writes(n)
    BY <2>1
  <2>2. CASE ~writes(n)
    <3> PICK j \in (n + 1)..5 : /\ j = 5 \/ writes(j)
                                /\ \A l \in (n + 1)..(j - 1) : ~writes(l)
      BY <1>2
    <3> j \in n..5 /\ \A l \in n..(j - 1) : l = n \/ l \in (n + 1)..(j - 1)
      OBVIOUS
    <3> QED BY <2>2
  <2> QED BY <2>1, <2>2
<1> HIDE DEF Found
<1>3. Found(4) /\ Found(3) /\ Found(2) /\ Found(1)
  <2>1. Found(4)
    BY <1>1, <1>2
  <2>2. Found(3)
    BY <2>1, <1>2
  <2>3. Found(2)
    BY <2>2, <1>2
  <2> QED BY <2>1, <2>2, <2>3, <1>2
<1>4. Found(i)
  BY <1>1, <1>3
<1> DEFINE j == CHOOSE j \in i..5 : /\ j = 5 \/ writes(j)
                                    /\ \A l \in i..(j - 1) : ~writes(l)
<1>5. /\ j \in i..5
      /\ j = 5 \/ writes(j)
      /\ \A l \in i..(j - 1) : ~writes(l)
  BY <1>4 DEF Found
<1>6. /\ at' = [at EXCEPT ![h] = Order[j]]
      /\ todo' = [todo EXCEPT ![h] =
                    IF j = 5 THEN {} ELSE Names(request[h], Order[j])]
  BY DEF GoTo
<1> HIDE DEF j
<1>7. \A l \in i..(j - 1) : l \in 1..4
  BY <1>5
<1> QED BY <1>5, <1>6, <1>7, OrderFacts
-----------------------------------------------------------------------------
(***************************************************************************)
(* The invariant.  Shape: where a handler may be, and with what.  Marked:  *)
(* a race is noticed.  The other three say where the traffic of each call  *)
(* is: the sample of a handler that has not stored it (Counted), the names *)
(* it has not yet written (Listed) and the size it may still raise the     *)
(* maximum to (Sized).  Samples and ObservedMax stay within what was       *)
(* expected of them, race or no race, and so does a map that is not raced; *)
(* of a raced map nothing is known.  In a field that is not raced nothing  *)
(* is missing.                                                             *)
(***************************************************************************)
AnyName == Methods \cup ContentTypes \cup Params \cup Headers

Placed(h) ==
    /\ request[h] = None => at[h] = "samples" /\ inside[h] = {}
    /\ at[h] \notin MapFields => todo[h] = {}
    /\ at[h] \in MapFields =>
          /\ todo[h] # {} /\ todo[h] \subseteq Names(request[h], at[h])
          /\ inside[h] \subseteq todo[h]
    /\ at[h] = "samples" => inside[h] \subseteq Nat
    /\ at[h] = "observedMax" => inside[h] \subseteq {request[h].body}
    /\ \A v, w \in inside[h] : v = w

Shape ==
    /\ alive \in BOOLEAN
    /\ contract \in ContractType /\ expected \in ContractType
    /\ request \in [Handlers -> Traffic \cup {None}]
    /\ at \in [Handlers -> Fields]
    /\ todo \in [Handlers -> SUBSET AnyName]
    /\ inside \in [Handlers -> SUBSET (AnyName \cup Nat)]
    /\ raced \subseteq Fields
    /\ \A h \in Handlers : Placed(h)

Marked ==
    \A g, h \in Handlers :
        g # h /\ at[g] = at[h] /\ inside[g] # {} /\ inside[h] # {} =>
            at[h] \in raced

Starting == {h \in Handlers : request[h] # None /\ at[h] = "samples"}

Counted ==
    /\ IsFiniteSet(Starting)
    /\ contract.samples + Cardinality(Starting) <= expected.samples
    /\ \A h \in Starting : \A n \in inside[h] :
          n + Cardinality(Starting) <= expected.samples
    /\ "samples" \notin raced =>
          /\ contract.samples + Cardinality(Starting) = expected.samples
          /\ \A h \in Starting : \A n \in inside[h] : n = contract.samples

\* The names a handler has yet to write to a map.
Left(h, f) ==
    IF request[h] = None \/ Place[at[h]] > Place[f] THEN {}
    ELSE IF at[h] = f THEN todo[h] ELSE Names(request[h], f)

Listed ==
    \A f \in MapFields :
        /\ \A h \in Handlers : Left(h, f) \subseteq expected[f]
        /\ f \notin raced =>
              /\ contract[f] \subseteq expected[f]
              /\ \A name \in expected[f] :
                    name \in contract[f] \/ \E h \in Handlers : name \in Left(h, f)

Sized ==
    /\ contract.observedMax <= expected.observedMax
    /\ \A h \in Handlers :
          request[h] # None => request[h].body <= expected.observedMax
    /\ "observedMax" \notin raced =>
          /\ \/ contract.observedMax = expected.observedMax
             \/ \E h \in Handlers :
                   request[h] # None /\ request[h].body = expected.observedMax
          /\ \A h \in Handlers : at[h] = "observedMax" =>
                \A size \in inside[h] : size > contract.observedMax

Inv == Shape /\ Marked /\ Counted /\ Listed /\ Sized

LEMMA InitInv == Init => Inv
<1> SUFFICES ASSUME Init PROVE Inv
  OBVIOUS
<1>1. NewContract \in ContractType /\ \A f \in MapFields : NewContract[f] = {}
  BY DEF NewContract, ContractType, MapFields
<1>2. Shape
  BY <1>1 DEF Init, Shape, Placed, Fields, MapFields
<1>3. Starting = {}
  BY DEF Init, Starting
<1>4. Counted
  BY <1>3, FS_EmptySet DEF Init, Counted, NewContract
<1>5. Listed
  BY <1>1 DEF Init, Listed, Left
<1>6. Sized /\ Marked
  BY DEF Init, Sized, Marked, NewContract
<1> QED BY <1>2, <1>4, <1>5, <1>6 DEF Inv

LEMMA InvGivesType == Inv => TypeOK
<1> SUFFICES ASSUME Inv PROVE TypeOK
  OBVIOUS
<1>1. ASSUME NEW h \in Handlers PROVE Cardinality(inside[h]) <= 1
  <2>1. CASE inside[h] = {}
    BY <2>1, FS_EmptySet
  <2>2. CASE inside[h] # {}
    <3>1. PICK v \in inside[h] : TRUE
      BY <2>2
    <3>2. inside[h] = {v}
      BY <3>1 DEF Inv, Shape, Placed
    <3> QED BY <3>2, FS_Singleton
  <2> QED BY <2>1, <2>2
<1> QED BY <1>1 DEF Inv, Shape, Placed, TypeOK

\* What is left of a call that goes on to the fields from i.
LEMMA MovesOn ==
    ASSUME Shape, NEW h \in Handlers, request[h] # None,
           NEW i \in 1..5, GoTo(h, i), UNCHANGED request
    PROVE  /\ at' \in [Handlers -> Fields]
           /\ todo' \in [Handlers -> SUBSET AnyName]
           /\ at'[h] # "samples"
           /\ at'[h] \notin MapFields => todo'[h] = {}
           /\ at'[h] \in MapFields =>
                 todo'[h] # {} /\ todo'[h] \subseteq Names(request[h], at'[h])
           /\ \A g \in Handlers \ {h} : at'[g] = at[g] /\ todo'[g] = todo[g]
           /\ \A f \in MapFields :
                 Left(h, f)' = IF Place[f] >= i THEN Names(request[h], f) ELSE {}
<1>1. PICK j \in i..5 :
        /\ at' = [at EXCEPT ![h] = Order[j]]
        /\ todo' = [todo EXCEPT ![h] =
                      IF j = 5 THEN {} ELSE Names(request[h], Order[j])]
        /\ j # 5 => Names(request[h], Order[j]) # {}
        /\ \A l \in i..(j - 1) : Names(request[h], Order[l]) = {}
  BY Goes
<1>2. j \in 1..5 /\ j >= i /\ (j # 5 => j \in 1..4)
  OBVIOUS
<1>3. Order[j] \in Fields
  BY <1>2, OrderFacts DEF Fields
<1>4. request[h] \in Traffic
  BY DEF Shape
<1>5. \A f \in MapFields : Names(request[h], f) \subseteq AnyName
  BY <1>4, NamesTyped DEF Universe, AnyName, MapFields
<1>6. /\ at' \in [Handlers -> Fields] /\ todo' \in [Handlers -> SUBSET AnyName]
      /\ at'[h] = Order[j]
      /\ todo'[h] = IF j = 5 THEN {} ELSE Names(request[h], Order[j])
      /\ \A g \in Handlers \ {h} : at'[g] = at[g] /\ todo'[g] = todo[g]
  BY <1>1, <1>2, <1>3, <1>5, OrderFacts DEF Shape
<1>7. Place[Order[j]] = j
  BY <1>2, OrderFacts
<1>8. Order[j] # "samples" /\ (Order[j] \in MapFields <=> j # 5)
  BY <1>2, <1>7, OrderFacts DEF MapFields
<1>9. ASSUME NEW f \in MapFields
      PROVE  Left(h, f)' = IF Place[f] >= i THEN Names(request[h], f) ELSE {}
  <2>1. Place[f] \in 1..4 /\ Order[Place[f]] = f
    BY OrderFacts DEF MapFields, Order, Place
  <2>2. Left(h, f)' = IF j > Place[f] THEN {}
                      ELSE IF Order[j] = f THEN todo'[h] ELSE Names(request[h], f)
    BY <1>6, <1>7 DEF Left
  <2>3. CASE Place[f] < i
    BY <2>1, <2>2, <2>3, <1>2
  <2>4. CASE Place[f] >= i /\ j > Place[f]
    <3>1. Place[f] \in i..(j - 1)
      BY <2>1, <2>4, <1>2
    <3> QED BY <3>1, <2>1, <2>2, <2>4, <1>1
  <2>5. CASE Place[f] >= i /\ ~(j > Place[f])
    <3>1. j # 5
      BY <2>1, <2>5
    <3> QED BY <3>1, <2>1, <2>2, <2>5, <1>6
  <2> QED BY <2>1, <2>3, <2>4, <2>5
<1> QED BY <1>1, <1>6, <1>8, <1>9

-----------------------------------------------------------------------------
LEMMA StepCall ==
    ASSUME Inv, NEW h \in Handlers, NEW q \in Traffic, Call(h, q)
    PROVE  Inv'
<1>1. /\ request[h] = None /\ q # None
      /\ request' = [request EXCEPT ![h] = q]
      /\ request'[h] = q
      /\ \A g \in Handlers \ {h} : request'[g] = request[g]
      /\ request' \in [Handlers -> Traffic \cup {None}]
      /\ at[h] = "samples" /\ inside[h] = {} /\ todo[h] = {}
  BY TrafficAssumption DEF Call, Inv, Shape, Placed, MapFields
<1>2. /\ alive' = alive /\ contract' = contract /\ at' = at /\ todo' = todo
      /\ inside' = inside /\ raced' = raced
  BY DEF Call
<1>3. /\ expected \in ContractType /\ expected' \in ContractType
      /\ expected'.samples = expected.samples + 1
      /\ expected'.observedMax = Greater(q.body, expected.observedMax)
      /\ \A f \in MapFields : expected'[f] = expected[f] \cup Names(q, f)
  BY ObservedFields DEF Call, Inv, Shape
<1>4. q.body \in Nat /\ expected.observedMax \in Nat
      /\ contract.observedMax \in Nat /\ contract.samples \in Nat
      /\ expected.samples \in Nat
  BY TrafficAssumption DEF Request, ContractType, Inv, Shape
<1>5. Shape'
  BY <1>1, <1>2, <1>3 DEF Inv, Shape, Placed, MapFields
<1>6. Marked'
  BY <1>2 DEF Inv, Marked
<1>7. Counted'
  <2>1. Starting' = Starting \cup {h} /\ h \notin Starting
    BY <1>1, <1>2 DEF Starting
  <2>2. /\ IsFiniteSet(Starting') /\ Cardinality(Starting) \in Nat
        /\ Cardinality(Starting') = Cardinality(Starting) + 1
    BY <2>1, FS_AddElement, FS_CardinalityType DEF Inv, Counted
  <2>3. \A g \in Starting : inside[g] \subseteq Nat
    BY DEF Starting, Inv, Shape, Placed
  <2>4. /\ contract'.samples + Cardinality(Starting') <= expected'.samples
        /\ "samples" \notin raced =>
              contract'.samples + Cardinality(Starting') = expected'.samples
    BY <1>2, <1>3, <1>4, <2>2 DEF Inv, Counted
  <2>5. \A g \in Starting' : \A n \in inside'[g] :
          /\ n + Cardinality(Starting') <= expected'.samples
          /\ "samples" \notin raced => n = contract.samples
    <3> SUFFICES ASSUME NEW g \in Starting', NEW n \in inside'[g]
                 PROVE  /\ n + Cardinality(Starting') <= expected'.samples
                        /\ "samples" \notin raced => n = contract.samples
      OBVIOUS
    <3>1. g \in Starting /\ n \in inside[g] /\ n \in Nat
      BY <1>1, <1>2, <2>1, <2>3
    <3>2. /\ n + Cardinality(Starting) <= expected.samples
          /\ "samples" \notin raced => n = contract.samples
      BY <3>1 DEF Inv, Counted
    <3> QED BY <3>1, <3>2, <1>3, <1>4, <2>2
  <2> QED BY <1>2, <2>2, <2>4, <2>5 DEF Counted
<1>8. Listed'
  <2> SUFFICES ASSUME NEW f \in MapFields
               PROVE  /\ \A g \in Handlers : Left(g, f)' \subseteq expected'[f]
                      /\ f \notin raced =>
                            /\ contract[f] \subseteq expected'[f]
                            /\ \A name \in expected'[f] :
                                  \/ name \in contract[f]
                                  \/ \E g \in Handlers : name \in Left(g, f)'
    BY <1>2 DEF Listed
  <2>1. Left(h, f) = {} /\ Left(h, f)' = Names(q, f)
    <3>1. Place["samples"] = 0 /\ Place[f] \in 1..4 /\ f # "samples"
      BY OrderFacts DEF MapFields
    <3> QED BY <1>1, <1>2, <3>1 DEF Left
  <2>2. \A g \in Handlers \ {h} : Left(g, f)' = Left(g, f)
    BY <1>1, <1>2 DEF Left
  <2>3. /\ \A g \in Handlers : Left(g, f) \subseteq expected[f]
        /\ f \notin raced =>
              /\ contract[f] \subseteq expected[f]
              /\ \A name \in expected[f] :
                    name \in contract[f] \/ \E g \in Handlers : name \in Left(g, f)
    BY DEF Inv, Listed
  <2> QED BY <1>3, <2>1, <2>2, <2>3
<1>9. Sized'
  <2>1. /\ Greater(q.body, expected.observedMax) >= q.body
        /\ Greater(q.body, expected.observedMax) >= expected.observedMax
        /\ \/ Greater(q.body, expected.observedMax) = q.body
           \/ Greater(q.body, expected.observedMax) = expected.observedMax
        /\ Greater(q.body, expected.observedMax) \in Nat
    BY <1>4 DEF Greater
  <2>2. \A g \in Handlers : request[g] # None => request[g].body \in Nat
    BY TrafficAssumption DEF Request, Inv, Shape
  <2>3. /\ contract'.observedMax <= expected'.observedMax
        /\ \A g \in Handlers :
              request'[g] # None => request'[g].body <= expected'.observedMax
    BY <1>1, <1>2, <1>3, <1>4, <2>1, <2>2 DEF Inv, Sized
  <2>4. ASSUME "observedMax" \notin raced
        PROVE  \/ contract.observedMax = expected'.observedMax
               \/ \E g \in Handlers :
                    request'[g] # None /\ request'[g].body = expected'.observedMax
    BY <1>1, <1>3, <2>1, <2>4 DEF Inv, Sized
  <2>5. "observedMax" \notin raced =>
           \A g \in Handlers : at[g] = "observedMax" =>
              \A size \in inside[g] : size > contract.observedMax
    BY DEF Inv, Sized
  <2> QED BY <1>2, <2>3, <2>4, <2>5 DEF Sized
<1> QED BY <1>5, <1>6, <1>7, <1>8, <1>9 DEF Inv

\* What a handler that enters a field does to the races.
LEMMA Entering ==
    ASSUME Inv, NEW h \in Handlers, NEW v, Enter(h, v), UNCHANGED at,
           v \in AnyName \cup Nat
    PROVE  /\ inside' \in [Handlers -> SUBSET (AnyName \cup Nat)]
           /\ inside'[h] = {v}
           /\ \A g \in Handlers \ {h} : inside'[g] = inside[g]
           /\ raced \subseteq raced' /\ raced' \subseteq Fields
           /\ Marked'
<1>1. /\ inside' = [inside EXCEPT ![h] = {v}]
      /\ raced' = IF Occupied(h, at[h]) THEN raced \cup {at[h]} ELSE raced
  BY DEF Enter
<1>2. /\ inside' \in [Handlers -> SUBSET (AnyName \cup Nat)]
      /\ inside'[h] = {v}
      /\ \A g \in Handlers \ {h} : inside'[g] = inside[g]
  BY <1>1 DEF Inv, Shape
<1>3. raced \subseteq raced' /\ raced' \subseteq Fields
  BY <1>1 DEF Inv, Shape
<1>4. \A g \in Handlers \ {h} :
         at[g] = at[h] /\ inside[g] # {} => at[h] \in raced'
  BY <1>1 DEF Occupied
<1>5. Marked'
  BY <1>2, <1>3, <1>4 DEF Inv, Marked
<1> QED BY <1>2, <1>3, <1>5

\* And one that leaves.
LEMMA Leaving ==
    ASSUME Shape, NEW h \in Handlers, Leave(h)
    PROVE  /\ inside' \in [Handlers -> SUBSET (AnyName \cup Nat)]
           /\ inside'[h] = {}
           /\ \A g \in Handlers \ {h} : inside'[g] = inside[g]
           /\ raced' = raced
BY DEF Leave, Shape


LEMMA StepLoadSamples ==
    ASSUME Inv, NEW h \in Handlers, LoadSamples(h)
    PROVE  Inv'
<1>1. /\ request[h] # None /\ at[h] = "samples" /\ inside[h] = {}
      /\ alive' = alive /\ contract' = contract /\ request' = request
      /\ at' = at /\ todo' = todo /\ expected' = expected
      /\ Enter(h, contract.samples) /\ contract.samples \in Nat
  BY DEF LoadSamples, Running, Inv, Shape, ContractType
<1>2. /\ inside' \in [Handlers -> SUBSET (AnyName \cup Nat)]
      /\ inside'[h] = {contract.samples}
      /\ \A g \in Handlers \ {h} : inside'[g] = inside[g]
      /\ raced \subseteq raced' /\ raced' \subseteq Fields
      /\ Marked'
  BY <1>1, Entering
<1>3. Shape'
  <2>1. Placed(h)'
    BY <1>1, <1>2 DEF Inv, Shape, Placed, MapFields
  <2>2. \A g \in Handlers \ {h} : Placed(g)'
    BY <1>1, <1>2 DEF Inv, Shape, Placed
  <2> QED BY <1>1, <1>2, <2>1, <2>2 DEF Inv, Shape
<1>4. Counted'
  <2>1. Starting' = Starting
    BY <1>1 DEF Starting
  <2>2. \A g \in Starting : \A n \in inside'[g] :
           n = contract.samples \/ (g # h /\ n \in inside[g])
    BY <1>2 DEF Starting
  <2> QED BY <1>1, <1>2, <2>1, <2>2 DEF Inv, Counted
<1>5. Listed'
  <2>1. \A f \in MapFields, g \in Handlers : Left(g, f)' = Left(g, f)
    BY <1>1 DEF Left
  <2> QED BY <1>1, <1>2, <2>1 DEF Inv, Listed
<1>6. Sized'
  <2>1. \A g \in Handlers : at[g] = "observedMax" => inside'[g] = inside[g]
    BY <1>1, <1>2
  <2> QED BY <1>1, <1>2, <2>1 DEF Inv, Sized
<1> QED BY <1>2, <1>3, <1>4, <1>5, <1>6 DEF Inv

LEMMA StepStoreSamples ==
    ASSUME Inv, NEW h \in Handlers, StoreSamples(h)
    PROVE  Inv'
<1>1. /\ request[h] # None /\ at[h] = "samples"
      /\ alive' = alive /\ request' = request /\ expected' = expected
      /\ Leave(h) /\ GoTo(h, 1)
  BY DEF StoreSamples, Running
<1>2. PICK n \in inside[h] : contract' = [contract EXCEPT !.samples = n + 1]
  BY DEF StoreSamples
<1>3. n \in Nat /\ n + 1 \in Nat
  BY <1>1 DEF Inv, Shape, Placed
<1>4. /\ contract' \in ContractType /\ contract'.samples = n + 1
      /\ contract'.observedMax = contract.observedMax
      /\ \A f \in MapFields : contract'[f] = contract[f]
  <2>1. contract' = WithSamples(contract, n + 1)
    BY <1>2 DEF WithSamples
  <2> QED BY <1>3, <2>1, NumberUpdate DEF Inv, Shape
<1>5. /\ inside' \in [Handlers -> SUBSET (AnyName \cup Nat)]
      /\ inside'[h] = {}
      /\ \A g \in Handlers \ {h} : inside'[g] = inside[g]
      /\ raced' = raced
  BY <1>1, Leaving DEF Inv
<1>6. /\ at' \in [Handlers -> Fields]
      /\ todo' \in [Handlers -> SUBSET AnyName]
      /\ at'[h] # "samples"
      /\ at'[h] \notin MapFields => todo'[h] = {}
      /\ at'[h] \in MapFields =>
            todo'[h] # {} /\ todo'[h] \subseteq Names(request[h], at'[h])
      /\ \A g \in Handlers \ {h} : at'[g] = at[g] /\ todo'[g] = todo[g]
      /\ \A f \in MapFields :
            Left(h, f)' = IF Place[f] >= 1 THEN Names(request[h], f) ELSE {}
  BY <1>1, MovesOn DEF Inv
<1>7. Shape'
  <2>1. Placed(h)'
    BY <1>1, <1>5, <1>6 DEF Placed
  <2>2. \A g \in Handlers \ {h} : Placed(g)'
    BY <1>1, <1>5, <1>6 DEF Inv, Shape, Placed
  <2> QED BY <1>1, <1>4, <1>5, <1>6, <2>1, <2>2 DEF Inv, Shape
<1>8. Marked'
  BY <1>5, <1>6 DEF Inv, Marked
<1>9. Counted'
  <2>1. Starting' = Starting \ {h} /\ h \in Starting
    BY <1>1, <1>6 DEF Starting
  <2>2. /\ IsFiniteSet(Starting') /\ Cardinality(Starting) \in Nat
        /\ Cardinality(Starting') = Cardinality(Starting) - 1
    BY <2>1, FS_RemoveElement, FS_CardinalityType DEF Inv, Counted
  <2>3. /\ n + Cardinality(Starting) <= expected.samples
        /\ "samples" \notin raced => n = contract.samples
        /\ expected.samples \in Nat /\ contract.samples \in Nat
        /\ "samples" \notin raced =>
              contract.samples + Cardinality(Starting) = expected.samples
    BY <2>1 DEF Inv, Counted, Shape, ContractType
  <2>4. ASSUME NEW g \in Starting', NEW m \in inside'[g]
        PROVE  /\ m + Cardinality(Starting') <= expected.samples
               /\ "samples" \in raced
    <3>1. /\ g \in Starting /\ g # h /\ m \in inside[g]
          /\ m \in Nat /\ g \in Handlers
      BY <2>1, <1>5 DEF Starting, Inv, Shape, Placed
    <3>2. m + Cardinality(Starting) <= expected.samples
      BY <3>1 DEF Inv, Counted
    <3>3. "samples" \in raced
      BY <3>1, <1>1, <1>2 DEF Starting, Inv, Marked
    <3> QED BY <3>1, <3>2, <3>3, <2>2, <2>3
  <2>5. /\ contract'.samples + Cardinality(Starting') <= expected.samples
        /\ "samples" \notin raced =>
              contract'.samples + Cardinality(Starting') = expected.samples
    BY <1>3, <1>4, <2>2, <2>3
  <2> QED BY <1>1, <1>5, <2>2, <2>4, <2>5 DEF Counted
<1>10. Listed'
  <2>1. ASSUME NEW f \in MapFields PROVE Left(h, f)' = Left(h, f)
    <3>1. Place["samples"] = 0 /\ Place[f] \in 1..4 /\ f # "samples"
      BY OrderFacts DEF MapFields
    <3> QED BY <1>1, <1>6, <3>1 DEF Left
  <2>2. \A f \in MapFields, g \in Handlers : Left(g, f)' = Left(g, f)
    BY <1>1, <1>6, <2>1 DEF Left
  <2> QED BY <1>1, <1>4, <1>5, <2>2 DEF Inv, Listed
<1>11. Sized'
  <2>1. \A g \in Handlers : at'[g] = "observedMax" =>
           \A size \in inside'[g] : at[g] = "observedMax" /\ size \in inside[g]
    BY <1>5, <1>6
  <2> QED BY <1>1, <1>4, <1>5, <2>1 DEF Inv, Sized
<1> QED BY <1>7, <1>8, <1>9, <1>10, <1>11 DEF Inv

LEMMA StepBeginWrite ==
    ASSUME Inv, NEW h \in Handlers, NEW name \in todo[h], BeginWrite(h, name)
    PROVE  Inv'
<1>1. /\ request[h] # None /\ at[h] \in MapFields /\ name \in todo[h]
      /\ alive' = alive /\ contract' = contract /\ request' = request
      /\ at' = at /\ todo' = todo /\ expected' = expected
      /\ Enter(h, name) /\ name \in AnyName
  BY DEF BeginWrite, Running, Inv, Shape, Placed
<1>2. /\ inside' \in [Handlers -> SUBSET (AnyName \cup Nat)]
      /\ inside'[h] = {name}
      /\ \A g \in Handlers \ {h} : inside'[g] = inside[g]
      /\ raced \subseteq raced' /\ raced' \subseteq Fields
      /\ Marked'
  BY <1>1, Entering
<1>3. at[h] # "samples" /\ at[h] # "observedMax"
  BY <1>1 DEF MapFields
<1>4. Shape'
  <2>1. Placed(h)'
    BY <1>1, <1>2, <1>3 DEF Inv, Shape, Placed
  <2>2. \A g \in Handlers \ {h} : Placed(g)'
    BY <1>1, <1>2 DEF Inv, Shape, Placed
  <2> QED BY <1>1, <1>2, <2>1, <2>2 DEF Inv, Shape
<1>5. Counted'
  <2>1. Starting' = Starting
    BY <1>1 DEF Starting
  <2>2. \A g \in Starting : inside'[g] = inside[g]
    BY <1>2, <1>3 DEF Starting
  <2> QED BY <1>1, <1>2, <2>1, <2>2 DEF Inv, Counted
<1>6. Listed'
  <2>1. \A f \in MapFields, g \in Handlers : Left(g, f)' = Left(g, f)
    BY <1>1 DEF Left
  <2> QED BY <1>1, <1>2, <2>1 DEF Inv, Listed
<1>7. Sized'
  <2>1. \A g \in Handlers : at[g] = "observedMax" => inside'[g] = inside[g]
    BY <1>2, <1>3
  <2> QED BY <1>1, <1>2, <2>1 DEF Inv, Sized
<1> QED BY <1>2, <1>4, <1>5, <1>6, <1>7 DEF Inv


LEMMA StepEndWrite ==
    ASSUME Inv, NEW h \in Handlers, EndWrite(h)
    PROVE  Inv'
<1>0. PICK f0 \in MapFields : f0 = at[h]
  BY DEF EndWrite
<1>1. /\ request[h] # None /\ f0 \in MapFields /\ at[h] = f0
      /\ alive' = alive /\ request' = request /\ expected' = expected
      /\ Leave(h) /\ request[h] \in Traffic
  BY <1>0 DEF EndWrite, Running, Inv, Shape
<1>2. PICK name \in inside[h] :
        /\ \E left \in IF f0 \in raced THEN SUBSET Universe(f0)
                                       ELSE {contract[f0] \cup {name}} :
              contract' = [contract EXCEPT ![f0] = left]
        /\ IF todo[h] = {name}
           THEN GoTo(h, IndexOf(f0) + 1)
           ELSE /\ todo' = [todo EXCEPT ![h] = @ \ {name}]
                /\ UNCHANGED at
  BY <1>0 DEF EndWrite
<1>3. /\ name \in todo[h] /\ todo[h] \subseteq Names(request[h], f0)
      /\ inside[h] = {name}
      /\ name \in Universe(f0) /\ contract[f0] \subseteq Universe(f0)
      /\ IndexOf(f0) = Place[f0] /\ Place[f0] \in 1..4
  <2>1. /\ name \in todo[h] /\ todo[h] \subseteq Names(request[h], f0)
        /\ inside[h] = {name}
    BY <1>1, <1>2 DEF Inv, Shape, Placed
  <2>2. Names(request[h], f0) \subseteq Universe(f0)
    BY <1>1, NamesTyped
  <2>3. contract[f0] \subseteq Universe(f0)
    BY <1>1, ListTyped DEF Inv, Shape
  <2> QED BY <1>1, <2>1, <2>2, <2>3, IndexIsPlace
<1>4. PICK left \in SUBSET Universe(f0) :
        /\ f0 \notin raced => left = contract[f0] \cup {name}
        /\ contract' = [contract EXCEPT ![f0] = left]
  BY <1>2, <1>3
<1>5. /\ contract' \in ContractType /\ contract'[f0] = left
      /\ \A g \in MapFields \ {f0} : contract'[g] = contract[g]
      /\ contract'.samples = contract.samples
      /\ contract'.observedMax = contract.observedMax
  <2>1. left \in SUBSET Universe(f0) /\ contract \in ContractType
    BY <1>3 DEF Inv, Shape
  <2>2. contract' = WithList(contract, f0, left)
    BY <1>4 DEF WithList
  <2> QED BY <1>1, <2>1, <2>2, ListUpdate
<1>6. /\ inside' \in [Handlers -> SUBSET (AnyName \cup Nat)]
      /\ inside'[h] = {}
      /\ \A g \in Handlers \ {h} : inside'[g] = inside[g]
      /\ raced' = raced
  BY <1>1, Leaving DEF Inv
<1>7. /\ at' \in [Handlers -> Fields]
      /\ todo' \in [Handlers -> SUBSET AnyName]
      /\ at'[h] # "samples"
      /\ at'[h] \notin MapFields => todo'[h] = {}
      /\ at'[h] \in MapFields =>
            todo'[h] # {} /\ todo'[h] \subseteq Names(request[h], at'[h])
      /\ \A g \in Handlers \ {h} : at'[g] = at[g] /\ todo'[g] = todo[g]
      /\ Left(h, f0)' = Left(h, f0) \ {name}
      /\ \A f \in MapFields \ {f0} : Left(h, f)' = Left(h, f)
  <2>1. CASE todo[h] = {name}
    <3>1. GoTo(h, Place[f0] + 1) /\ Place[f0] + 1 \in 1..5
      BY <2>1, <1>2, <1>3
    <3>2. /\ at' \in [Handlers -> Fields]
          /\ todo' \in [Handlers -> SUBSET AnyName]
          /\ at'[h] # "samples"
          /\ at'[h] \notin MapFields => todo'[h] = {}
          /\ at'[h] \in MapFields =>
                todo'[h] # {} /\ todo'[h] \subseteq Names(request[h], at'[h])
          /\ \A g \in Handlers \ {h} : at'[g] = at[g] /\ todo'[g] = todo[g]
          /\ \A f \in MapFields :
                Left(h, f)' = IF Place[f] >= Place[f0] + 1
                              THEN Names(request[h], f) ELSE {}
      BY <1>1, <3>1, MovesOn DEF Inv
    <3>3. \A f \in MapFields : Place[f] \in 1..4 /\ (Place[f] = Place[f0] => f = f0)
      BY <1>1 DEF Place, MapFields
    <3>4. Left(h, f0) = {name} /\ Left(h, f0)' = {}
      <4>1. ~(Place[f0] >= Place[f0] + 1) /\ ~(Place[f0] > Place[f0])
        BY <1>3
      <4>2. Left(h, f0)' = {}
        BY <1>1, <3>2, <4>1
      <4>3. Left(h, f0) = {name}
        BY <1>1, <2>1, <4>1 DEF Left
      <4> QED BY <4>2, <4>3
    <3>5. ASSUME NEW f \in MapFields \ {f0} PROVE Left(h, f)' = Left(h, f)
      BY <1>1, <1>3, <3>2, <3>3 DEF Left
    <3> QED BY <3>2, <3>4, <3>5
  <2>2. CASE todo[h] # {name}
    <3>1. at' = at /\ todo' = [todo EXCEPT ![h] = @ \ {name}]
      BY <1>2, <2>2
    <3>2. /\ todo' \in [Handlers -> SUBSET AnyName]
          /\ todo'[h] = todo[h] \ {name} /\ todo'[h] # {}
          /\ \A g \in Handlers \ {h} : todo'[g] = todo[g]
      BY <3>1, <2>2, <1>3 DEF Inv, Shape
    <3>3. f0 # "samples"
      BY <1>1 DEF MapFields
    <3>4. Left(h, f0)' = Left(h, f0) \ {name}
      BY <1>1, <1>3, <3>1, <3>2 DEF Left
    <3>5. \A f \in MapFields \ {f0} : Left(h, f)' = Left(h, f)
      BY <1>1, <3>1 DEF Left
    <3> QED BY <1>1, <1>3, <3>1, <3>2, <3>3, <3>4, <3>5 DEF Inv, Shape
  <2> QED BY <2>1, <2>2
<1>8. \A g \in Handlers \ {h}, f \in MapFields : Left(g, f)' = Left(g, f)
  BY <1>1, <1>7 DEF Left
<1>9. f0 # "samples" /\ f0 # "observedMax"
  BY <1>1 DEF MapFields
<1>10. Shape'
  <2>1. Placed(h)'
    BY <1>1, <1>6, <1>7 DEF Placed
  <2>2. \A g \in Handlers \ {h} : Placed(g)'
    BY <1>1, <1>6, <1>7 DEF Inv, Shape, Placed
  <2> QED BY <1>1, <1>5, <1>6, <1>7, <2>1, <2>2 DEF Inv, Shape
<1>11. Marked'
  BY <1>6, <1>7 DEF Inv, Marked
<1>12. Counted'
  <2>1. Starting' = Starting
    BY <1>1, <1>7, <1>9 DEF Starting
  <2>2. \A g \in Starting : inside'[g] = inside[g]
    BY <1>1, <1>6, <1>9 DEF Starting
  <2> QED BY <1>1, <1>5, <1>6, <2>1, <2>2 DEF Inv, Counted
<1>13. Listed'
  <2> SUFFICES ASSUME NEW f \in MapFields
               PROVE  /\ \A g \in Handlers : Left(g, f)' \subseteq expected[f]
                      /\ f \notin raced =>
                            /\ contract'[f] \subseteq expected[f]
                            /\ \A nm \in expected[f] :
                                  \/ nm \in contract'[f]
                                  \/ \E g \in Handlers : nm \in Left(g, f)'
    BY <1>1, <1>6 DEF Listed
  <2>1. /\ \A g \in Handlers : Left(g, f) \subseteq expected[f]
        /\ f \notin raced =>
              /\ contract[f] \subseteq expected[f]
              /\ \A nm \in expected[f] :
                    nm \in contract[f] \/ \E g \in Handlers : nm \in Left(g, f)
    BY DEF Inv, Listed
  <2>2. CASE f # f0
    BY <2>1, <2>2, <1>5, <1>7, <1>8
  <2>3. CASE f = f0
    <3>1. name \in Left(h, f0)
      BY <1>1, <1>3 DEF Left
    <3>2. name \in expected[f0]
      BY <3>1, <2>1, <2>3
    <3>3. f0 \notin raced => left = contract[f0] \cup {name}
      BY <1>4
    <3>4. \A g \in Handlers : Left(g, f0)' \subseteq Left(g, f0)
      BY <1>7, <1>8
    <3>5. \A g \in Handlers : Left(g, f0) \subseteq Left(g, f0)' \cup {name}
      BY <1>7, <1>8
    <3> QED BY <2>1, <2>3, <3>2, <3>3, <3>4, <3>5, <1>5
  <2> QED BY <2>2, <2>3
<1>14. Sized'
  <2>1. \A g \in Handlers : at'[g] = "observedMax" =>
           \A size \in inside'[g] : at[g] = "observedMax" /\ size \in inside[g]
    BY <1>6, <1>7
  <2> QED BY <1>1, <1>5, <1>6, <2>1 DEF Inv, Sized
<1> QED BY <1>10, <1>11, <1>12, <1>13, <1>14 DEF Inv

\* What a handler that returns leaves of its call: nothing.
LEMMA Returning ==
    ASSUME Inv, NEW h \in Handlers, Return(h),
           request[h] # None, at[h] = "observedMax"
    PROVE  /\ request' \in [Handlers -> Traffic \cup {None}]
           /\ request'[h] = None
           /\ \A g \in Handlers \ {h} : request'[g] = request[g]
           /\ at' \in [Handlers -> Fields] /\ at'[h] = "samples"
           /\ \A g \in Handlers \ {h} : at'[g] = at[g]
           /\ alive' = alive /\ todo' = todo /\ expected' = expected
           /\ Starting' = Starting /\ h \notin Starting
           /\ \A g \in Handlers, f \in MapFields : Left(g, f)' = Left(g, f)
<1>1. /\ request' \in [Handlers -> Traffic \cup {None}]
      /\ request'[h] = None
      /\ \A g \in Handlers \ {h} : request'[g] = request[g]
      /\ at' \in [Handlers -> Fields] /\ at'[h] = "samples"
      /\ \A g \in Handlers \ {h} : at'[g] = at[g]
      /\ alive' = alive /\ todo' = todo /\ expected' = expected
  BY DEF Return, Inv, Shape, Fields
<1>2. Starting' = Starting /\ h \notin Starting
  BY <1>1 DEF Starting
<1>3. \A f \in MapFields : Left(h, f)' = {} /\ Left(h, f) = {}
  <2>1. Place["observedMax"] = 5 /\ \A f \in MapFields : Place[f] \in 1..4
    BY OrderFacts
  <2> QED BY <2>1, <1>1 DEF Left
<1>4. \A g \in Handlers \ {h}, f \in MapFields : Left(g, f)' = Left(g, f)
  BY <1>1 DEF Left
<1> QED BY <1>1, <1>2, <1>3, <1>4

LEMMA StepCompare ==
    ASSUME Inv, NEW h \in Handlers, Compare(h)
    PROVE  Inv'
<1>1. /\ request[h] # None /\ at[h] = "observedMax" /\ inside[h] = {}
      /\ contract' = contract /\ todo[h] = {}
      /\ request[h].body \in Nat /\ contract.observedMax \in Nat
      /\ expected.observedMax \in Nat
  BY TrafficAssumption
     DEF Compare, Running, Inv, Shape, Placed, Request, ContractType, MapFields
<1>2. CASE LargerBody(h)
  <2>1. /\ alive' = alive /\ request' = request /\ at' = at /\ todo' = todo
        /\ expected' = expected /\ Enter(h, request[h].body)
        /\ request[h].body > contract.observedMax
    BY <1>2 DEF Compare, LargerBody
  <2>2. /\ inside' \in [Handlers -> SUBSET (AnyName \cup Nat)]
        /\ inside'[h] = {request[h].body}
        /\ \A g \in Handlers \ {h} : inside'[g] = inside[g]
        /\ raced \subseteq raced' /\ raced' \subseteq Fields
        /\ Marked'
    BY <1>1, <2>1, Entering
  <2>3. Shape'
    <3>1. Placed(h)'
      BY <1>1, <2>1, <2>2 DEF Inv, Shape, Placed, MapFields
    <3>2. \A g \in Handlers \ {h} : Placed(g)'
      BY <2>1, <2>2 DEF Inv, Shape, Placed
    <3> QED BY <1>1, <2>1, <2>2, <3>1, <3>2 DEF Inv, Shape
  <2>4. Counted'
    <3>1. Starting' = Starting
      BY <2>1 DEF Starting
    <3>2. \A g \in Starting : inside'[g] = inside[g]
      BY <1>1, <2>2 DEF Starting
    <3> QED BY <1>1, <2>1, <2>2, <3>1, <3>2 DEF Inv, Counted
  <2>5. Listed'
    <3>1. \A f \in MapFields, g \in Handlers : Left(g, f)' = Left(g, f)
      BY <2>1 DEF Left
    <3> QED BY <1>1, <2>1, <2>2, <3>1 DEF Inv, Listed
  <2>6. Sized'
    <3>1. \A g \in Handlers : \A size \in inside'[g] :
             size > contract.observedMax \/ (g # h /\ size \in inside[g])
      BY <2>1, <2>2
    <3> QED BY <1>1, <2>1, <2>2, <3>1 DEF Inv, Sized
  <2> QED BY <2>2, <2>3, <2>4, <2>5, <2>6 DEF Inv
<1>3. CASE ~LargerBody(h)
  <2>1. Return(h) /\ inside' = inside /\ raced' = raced
    BY <1>3 DEF Compare
  <2>2. /\ request' \in [Handlers -> Traffic \cup {None}]
        /\ request'[h] = None
        /\ \A g \in Handlers \ {h} : request'[g] = request[g]
        /\ at' \in [Handlers -> Fields] /\ at'[h] = "samples"
        /\ \A g \in Handlers \ {h} : at'[g] = at[g]
        /\ alive' = alive /\ todo' = todo /\ expected' = expected
        /\ Starting' = Starting /\ h \notin Starting
        /\ \A g \in Handlers, f \in MapFields : Left(g, f)' = Left(g, f)
    BY <1>1, <2>1, Returning
  <2>3. Shape'
    <3>1. Placed(h)'
      BY <1>1, <2>1, <2>2 DEF Placed, MapFields
    <3>2. \A g \in Handlers \ {h} : Placed(g)'
      BY <2>1, <2>2 DEF Inv, Shape, Placed
    <3> QED BY <1>1, <2>1, <2>2, <3>1, <3>2 DEF Inv, Shape
  <2>4. Marked'
    BY <1>1, <2>1, <2>2 DEF Inv, Marked
  <2>5. Counted'
    BY <1>1, <2>1, <2>2 DEF Inv, Counted
  <2>6. Listed'
    BY <1>1, <2>1, <2>2 DEF Inv, Listed
  <2>7. Sized'
    <3>1. request[h].body <= contract.observedMax
      BY <1>1, <1>3 DEF LargerBody
    <3>2. request[h].body = expected.observedMax =>
             contract.observedMax = expected.observedMax
      BY <1>1, <3>1 DEF Inv, Sized
    <3>3. \A g \in Handlers : at'[g] = "observedMax" => at[g] = "observedMax"
      BY <2>2
    <3> QED BY <1>1, <2>1, <2>2, <3>2, <3>3 DEF Inv, Sized
  <2> QED BY <2>3, <2>4, <2>5, <2>6, <2>7 DEF Inv
<1> QED BY <1>2, <1>3

LEMMA StepRaise ==
    ASSUME Inv, NEW h \in Handlers, Raise(h)
    PROVE  Inv'
<1>1. /\ request[h] # None /\ at[h] = "observedMax" /\ todo[h] = {}
      /\ Leave(h) /\ Return(h)
      /\ request[h].body \in Nat /\ contract.observedMax \in Nat
      /\ expected.observedMax \in Nat
  BY TrafficAssumption
     DEF Raise, Running, Inv, Shape, Placed, Request, ContractType, MapFields
<1>2. PICK size \in inside[h] : contract' = [contract EXCEPT !.observedMax = size]
  BY DEF Raise
<1>3. size = request[h].body
  BY <1>1 DEF Inv, Shape, Placed
<1>4. /\ contract' \in ContractType /\ contract'.observedMax = request[h].body
      /\ contract'.samples = contract.samples
      /\ \A f \in MapFields : contract'[f] = contract[f]
  <2>1. contract' = WithMax(contract, request[h].body)
    BY <1>2, <1>3 DEF WithMax
  <2>2. contract \in ContractType /\ request[h].body \in Nat
    BY <1>1 DEF Inv, Shape
  <2> HIDE <1>1
  <2> QED BY <2>1, <2>2, NumberUpdate
<1>5. /\ inside' \in [Handlers -> SUBSET (AnyName \cup Nat)]
      /\ inside'[h] = {}
      /\ \A g \in Handlers \ {h} : inside'[g] = inside[g]
      /\ raced' = raced
  BY <1>1, Leaving DEF Inv
<1>6. /\ request' \in [Handlers -> Traffic \cup {None}]
      /\ request'[h] = None
      /\ \A g \in Handlers \ {h} : request'[g] = request[g]
      /\ at' \in [Handlers -> Fields] /\ at'[h] = "samples"
      /\ \A g \in Handlers \ {h} : at'[g] = at[g]
      /\ alive' = alive /\ todo' = todo /\ expected' = expected
      /\ Starting' = Starting /\ h \notin Starting
      /\ \A g \in Handlers, f \in MapFields : Left(g, f)' = Left(g, f)
  BY <1>1, Returning
<1>7. Shape'
  <2>1. Placed(h)'
    BY <1>1, <1>5, <1>6 DEF Placed, MapFields
  <2>2. \A g \in Handlers \ {h} : Placed(g)'
    BY <1>5, <1>6 DEF Inv, Shape, Placed
  <2> QED BY <1>4, <1>5, <1>6, <2>1, <2>2 DEF Inv, Shape
<1>8. Marked'
  BY <1>5, <1>6 DEF Inv, Marked
<1>9. Counted'
  <2>1. \A g \in Starting : inside'[g] = inside[g]
    BY <1>5, <1>6 DEF Starting
  <2> QED BY <1>4, <1>5, <1>6, <2>1 DEF Inv, Counted
<1>10. Listed'
  BY <1>4, <1>5, <1>6 DEF Inv, Listed
<1>11. Sized'
  <2>1. request[h].body <= expected.observedMax
    BY <1>1 DEF Inv, Sized
  <2>2. \A g \in Handlers : request'[g] # None => request'[g] = request[g]
    BY <1>6
  <2>3. ASSUME "observedMax" \notin raced
        PROVE  /\ \/ contract'.observedMax = expected.observedMax
                  \/ \E g \in Handlers : /\ request'[g] # None
                                         /\ request'[g].body = expected.observedMax
               /\ \A g \in Handlers : at'[g] = "observedMax" =>
                     \A s \in inside'[g] : s > contract'.observedMax
    <3>1. size > contract.observedMax
      BY <1>1, <2>3 DEF Inv, Sized
    <3>2. \E g \in Handlers :
             request[g] # None /\ request[g].body = expected.observedMax
      BY <1>1, <1>3, <2>1, <2>3, <3>1 DEF Inv, Sized
    <3>3. \A g \in Handlers \ {h} : at[g] = "observedMax" => inside[g] = {}
      BY <1>1, <1>2, <2>3 DEF Inv, Marked
    <3> QED BY <1>4, <1>5, <1>6, <3>2, <3>3
  <2> QED BY <1>4, <1>5, <1>6, <2>1, <2>2, <2>3 DEF Inv, Sized
<1> QED BY <1>7, <1>8, <1>9, <1>10, <1>11 DEF Inv
-----------------------------------------------------------------------------
\* A fatal error, and a step that changes nothing.
LEMMA StepNothing ==
    ASSUME Inv, alive' \in BOOLEAN,
           UNCHANGED <<contract, request, at, todo, inside, expected, raced>>
    PROVE  Inv'
<1>1. \A h \in Handlers, f \in MapFields : Left(h, f)' = Left(h, f)
  BY DEF Left
<1>2. Starting' = Starting
  BY DEF Starting
<1>3. Shape' /\ Marked'
  BY DEF Inv, Shape, Placed, Marked
<1>4. Counted'
  BY <1>2 DEF Inv, Counted
<1>5. Listed' /\ Sized'
  BY <1>1 DEF Inv, Listed, Sized
<1> QED BY <1>3, <1>4, <1>5 DEF Inv

LEMMA NextInv == Inv /\ [Next]_vars => Inv'
<1> SUFFICES ASSUME Inv, [Next]_vars PROVE Inv'
  OBVIOUS
<1>1. ASSUME NEW h \in Handlers, Fatal(h) PROVE Inv'
  BY <1>1, StepNothing DEF Fatal
<1>2. CASE UNCHANGED vars
  <2>1. alive' \in BOOLEAN
    BY <1>2 DEF vars, Inv, Shape
  <2> QED BY <1>2, <2>1, StepNothing DEF vars
<1>3. ASSUME NEW h \in Handlers, NEW name \in todo[h], BeginWrite(h, name)
      PROVE  Inv'
  BY <1>3, StepBeginWrite
<1> QED
  BY <1>1, <1>2, <1>3, StepCall, StepLoadSamples, StepStoreSamples, StepEndWrite,
     StepCompare, StepRaise DEF Next

LEMMA Invariant == Spec => []Inv
BY InitInv, NextInv, PTL DEF Spec

(***************************************************************************)
(* In whatever order handlers read and write the fields, and whatever a    *)
(* race leaves of a map, the contract stays one: its lists hold names of   *)
(* the right kind and its numbers are numbers (learn.go:8-31).             *)
(***************************************************************************)
THEOREM TypeCorrect == Spec => []TypeOK
BY Invariant, InvGivesType, PTL

(***************************************************************************)
(* With any number of handlers racing, no sample and no size is in the     *)
(* contract that no call of Observe brought, and no name in a map that was *)
(* not raced (learn.go:13-30): what a race on one field does stays in that *)
(* field.                                                                  *)
(***************************************************************************)
THEOREM RacesInventNothing == Spec => []NothingInvented
<1>1. Inv => NothingInvented
  <2> SUFFICES ASSUME Inv PROVE NothingInvented
    OBVIOUS
  <2>1. contract.samples <= expected.samples
    <3>1. Cardinality(Starting) \in Nat
      BY FS_CardinalityType DEF Inv, Counted
    <3>2. contract.samples \in Nat /\ expected.samples \in Nat
      BY DEF Inv, Shape, ContractType
    <3> QED BY <3>1, <3>2 DEF Inv, Counted
  <2> QED BY <2>1 DEF Inv, Listed, Sized, NothingInvented
<1> QED BY <1>1, Invariant, PTL

(***************************************************************************)
(* Without a race on a field, and with no call under way, the field holds  *)
(* what the operator Observed would have left there one call after the     *)
(* other: the step that Lifecycle and Gateway take for Observe.            *)
(***************************************************************************)
THEOREM UnracedIsExact == Spec => []UnracedExact
<1>1. Inv => UnracedExact
  <2> SUFFICES ASSUME Inv, Quiet, NEW f \in Fields \ raced
               PROVE  contract[f] = expected[f]
    BY DEF UnracedExact
  <2>1. \A h \in Handlers : request[h] = None
    BY DEF Quiet
  <2>2. CASE f = "samples"
    <3>1. Starting = {}
      BY <2>1 DEF Starting
    <3>2. Cardinality(Starting) = 0
      BY <3>1, FS_EmptySet
    <3>3. contract.samples \in Nat /\ expected.samples \in Nat
      BY DEF Inv, Shape, ContractType
    <3>4. contract.samples = expected.samples
      BY <2>2, <3>2, <3>3 DEF Inv, Counted
    <3> QED BY <2>2, <3>4
  <2>3. CASE f = "observedMax"
    <3>1. contract.observedMax = expected.observedMax
      BY <2>1, <2>3 DEF Inv, Sized
    <3> QED BY <2>3, <3>1
  <2>4. CASE f \in MapFields
    <3>1. \A h \in Handlers : Left(h, f) = {}
      BY <2>1 DEF Left
    <3> QED BY <2>4, <3>1 DEF Inv, Listed
  <2> QED BY <2>2, <2>3, <2>4 DEF Fields
<1> QED BY <1>1, Invariant, PTL
=============================================================================
