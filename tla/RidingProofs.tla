---------------------------- MODULE RidingProofs ----------------------------
(* Proofs about Riding, for any number of entities. *)
EXTENDS Riding, TLAPS

LEMMA NoneIsNobody == None \notin Entities
BY RidingAssumption

\* The steps that only let riders down.
LetDown == \A x \in Entities : vehicle'[x] \in {vehicle[x], None}

LEMMA LettingDownKeepsForest ==
  ASSUME TypeOK, Forest, LetDown
  PROVE  Forest'
<1>1. SUFFICES ASSUME NEW S \in SUBSET Entities, S # {}
               PROVE  \E x \in S : vehicle'[x] \notin S
  BY Zenon DEF Forest
<1>2. PICK x \in S : vehicle[x] \notin S
  BY <1>1, Zenon DEF Forest
<1>3. vehicle'[x] \notin S
  BY <1>2, NoneIsNobody DEF LetDown
<1> QED BY <1>3

\* What e sits on, at any depth, does not change when one looks from its vehicle
\* instead: whatever is under x's vehicle is under x.
LEMMA UnderClimbs ==
  ASSUME NEW x \in Entities, NEW y \in Entities, NEW z \in Entities,
         vehicle[y] = z, x \in Under(z)
  PROVE  x \in Under(y)
<1>1. SUFFICES ASSUME NEW S \in SUBSET Entities, y \in S, EndsAtVehicles(S)
               PROVE  x \in S
  BY DEF Under
<1>2. z \in S
  BY <1>1, NoneIsNobody DEF EndsAtVehicles
<1> QED BY <1>1, <1>2 DEF Under

LEMMA UnderSelf ==
  ASSUME NEW x \in Entities
  PROVE  x \in Under(x)
BY DEF Under

\* Seating x on something that does not sit on x closes no loop.
LEMMA SeatingKeepsForest ==
  ASSUME TypeOK, Forest, NEW x \in Entities, NEW e \in Entities,
         ~RidesOn(e, x), vehicle' = [vehicle EXCEPT ![x] = e]
  PROVE  Forest'
<1>1. SUFFICES ASSUME NEW S \in SUBSET Entities, S # {},
                      \A y \in S : vehicle'[y] \in S
               PROVE  FALSE
  BY Zenon DEF Forest
<1>2. /\ \A y \in Entities \ {x} : vehicle'[y] = vehicle[y]
      /\ vehicle'[x] = e
  BY DEF TypeOK
<1>3. CASE x \notin S
  <2>1. PICK y \in S : vehicle[y] \notin S
    BY <1>1, Zenon DEF Forest
  <2> QED BY <1>1, <1>2, <1>3, <2>1
<1>4. CASE x \in S
  <2> DEFINE T == {y \in S : x \notin Under(y)}
  <2>1. e \in T
    BY <1>1, <1>2, <1>4 DEF RidesOn
  <2>2. PICK y \in T : vehicle[y] \notin T
    BY <2>1, Zenon DEF Forest
  <2>3. y # x
    BY <2>2, UnderSelf
  <2>4. vehicle[y] \in S
    BY <1>1, <1>2, <2>2, <2>3
  <2>5. x \in Under(vehicle[y])
    BY <2>2, <2>4
  <2>6. x \in Under(y)
    BY <2>2, <2>4, <2>5, UnderClimbs
  <2> QED BY <2>2, <2>6
<1> QED BY <1>3, <1>4

\* The stacks of a tag: entities not yet there, and a forest among themselves.
LEMMA TreeFacts ==
  ASSUME NEW u \in Entities, NEW under \in Trees(u)
  PROVE  /\ DOMAIN under \subseteq Entities \ (alive \cup Players)
         /\ under \in [DOMAIN under -> DOMAIN under \cup {None}]
         /\ \A S \in SUBSET DOMAIN under : S # {} => \E x \in S : under[x] \notin S
<1>1. PICK N \in {M \in SUBSET (Entities \ (alive \cup Players)) :
                    u \in M /\ Cardinality(M) <= MaxStack} :
        under \in {f \in [N -> N \cup {None}] :
            /\ \A x \in N : f[x] = None <=> x = u
            /\ \A S \in SUBSET N : S # {} => \E x \in S : f[x] \notin S}
  BY DEF Trees
<1>2. DOMAIN under = N
  BY <1>1
<1> QED BY <1>1, <1>2

\* A stack joins the forest: its riders sit on each other, nobody else moves.
LEMMA SpawningKeepsForest ==
  ASSUME TypeOK, Forest, NEW u \in Entities, NEW under \in Trees(u), Spawn(under)
  PROVE  Forest'
<1> DEFINE N == DOMAIN under
<1>1. SUFFICES ASSUME NEW S \in SUBSET Entities, S # {},
                      \A y \in S : vehicle'[y] \in S
               PROVE  FALSE
  BY Zenon DEF Forest
<1>2. /\ N \subseteq Entities \ alive
      /\ \A x \in N : under[x] \in N \cup {None}
      /\ \A R \in SUBSET N : R # {} => \E x \in R : under[x] \notin R
  BY TreeFacts
<1> HIDE DEF N
<1>3. \A x \in Entities : vehicle'[x] = IF x \in N THEN under[x] ELSE vehicle[x]
  BY DEF Spawn, N
<1>4. CASE S \cap N = {}
  <2>1. PICK y \in S : vehicle[y] \notin S
    BY <1>1, Zenon DEF Forest
  <2> QED BY <1>1, <1>3, <1>4, <2>1
<1>5. CASE S \cap N # {}
  <2>1. PICK y \in S \cap N : under[y] \notin S \cap N
    BY <1>2, <1>5
  <2>2. under[y] \in S
    BY <1>1, <1>3, <2>1
  <2> QED BY <1>2, <2>1, <2>2, NoneIsNobody
<1> QED BY <1>4, <1>5
-----------------------------------------------------------------------------
LEMMA RemovedTyped ==
  ASSUME TypeOK, NEW e \in Entities, alive' = alive \ {e}, vehicle' = Removed(e)
  PROVE  /\ alive' \in SUBSET Entities
         /\ vehicle' \in [Entities -> Entities \cup {None}]
         /\ \A x \in Entities : vehicle'[x] # None => {x, vehicle'[x]} \subseteq alive'
         /\ LetDown
BY DEF TypeOK, Removed, LetDown

\* A passenger takes its seat or leaves it.
LEMMA OneSeatTyped ==
  ASSUME TypeOK, NEW x \in alive, NEW v \in alive \cup {None},
         vehicle' = [vehicle EXCEPT ![x] = v], UNCHANGED alive
  PROVE  /\ alive' \in SUBSET Entities
         /\ vehicle' \in [Entities -> Entities \cup {None}]
         /\ \A y \in Entities : vehicle'[y] # None => {y, vehicle'[y]} \subseteq alive'
BY NoneIsNobody DEF TypeOK

LEMMA DoneTyped ==
  ASSUME TypeOK, seating # None, NEW x
  PROVE  Done(x) \in Seatings
BY DEF TypeOK, Done, Seatings

LEMMA StepKeepsType == TypeOK /\ [Next]_vars => TypeOK'
<1> SUFFICES ASSUME TypeOK, [Next]_vars PROVE TypeOK'
  OBVIOUS
<1> USE NoneIsNobody
<1>1. ASSUME NEW e \in Entities, Delete(e) PROVE TypeOK'
  BY <1>1, RemovedTyped DEF Delete, TypeOK
<1>2. ASSUME NEW e \in Entities, Edit(e) PROVE TypeOK'
  BY <1>2 DEF Edit, Manipulate, TypeOK
<1>3. ASSUME NEW e \in Entities, EjectPassengers(e) PROVE TypeOK'
  BY <1>3 DEF EjectPassengers, Manipulate, TypeOK
<1>4. ASSUME NEW e \in Entities, NEW add \in BOOLEAN, NEW named \in SUBSET Entities,
             NamePassengers(e, add, named)
      PROVE  TypeOK'
  BY <1>4 DEF NamePassengers, Manipulate, CanRide, TypeOK, Seatings
<1>5. ASSUME NEW x \in Entities, Seat(x) PROVE TypeOK'
  <2>1. seating' \in Seatings /\ UNCHANGED alive /\ touched' \in SUBSET Entities
    BY <1>5, DoneTyped DEF Seat
  <2>2. CASE UNCHANGED vehicle
    BY <2>1, <2>2 DEF TypeOK
  <2>3. CASE x \in alive /\ seating.on \in alive
             /\ vehicle' = [vehicle EXCEPT ![x] = seating.on]
    BY <2>1, <2>3, OneSeatTyped DEF TypeOK
  <2> QED BY <1>5, <2>2, <2>3 DEF Seat
<1>6. ASSUME NEW x \in Entities, Unseat(x) PROVE TypeOK'
  <2>1. seating' \in Seatings /\ UNCHANGED alive /\ touched' \in SUBSET Entities
    BY <1>6, DoneTyped DEF Unseat
  <2>2. CASE UNCHANGED vehicle
    BY <2>1, <2>2 DEF TypeOK
  <2>3. CASE x \in alive /\ vehicle' = [vehicle EXCEPT ![x] = None]
    BY <2>1, <2>3, OneSeatTyped DEF TypeOK
  <2> QED BY <1>6, <2>2, <2>3 DEF Unseat
<1>7. CASE EndTurn
  BY <1>7 DEF EndTurn, TypeOK
<1>8. ASSUME NEW u \in Entities, NEW under \in Trees(u), Spawn(under) PROVE TypeOK'
  <2> DEFINE N == DOMAIN under
  <2>1. N \subseteq Entities \ alive /\ \A x \in N : under[x] \in N \cup {None}
    BY <1>8, TreeFacts
  <2> HIDE DEF N
  <2>2. /\ alive' = alive \cup N
        /\ vehicle' = [x \in Entities |-> IF x \in N THEN under[x] ELSE vehicle[x]]
        /\ touched' = N /\ UNCHANGED seating
    BY <1>8 DEF Spawn, N
  <2> QED BY <2>1, <2>2 DEF TypeOK
<1>9. ASSUME NEW e \in Entities, NEW x \in Entities, Mount(x, e) PROVE TypeOK'
  BY <1>9, OneSeatTyped DEF Mount, TypeOK
<1>10. ASSUME NEW x \in Entities, Dismount(x) PROVE TypeOK'
  BY <1>10, OneSeatTyped DEF Dismount, TypeOK
<1>11. ASSUME NEW e \in Entities, Leave(e) PROVE TypeOK'
  BY <1>11, RemovedTyped DEF Leave, TypeOK
<1>12. ASSUME NEW e \in Entities, Appear(e) PROVE TypeOK'
  BY <1>12 DEF Appear, TypeOK
<1>13. CASE UNCHANGED vars
  BY <1>13 DEF vars, TypeOK
<1> QED
  BY <1>1, <1>2, <1>3, <1>4, <1>5, <1>6, <1>7, <1>8, <1>9, <1>10, <1>11, <1>12, <1>13
  DEF Next, Tool, Host

\* Only what is in the world is ridden, whatever the tools and the world do.
THEOREM RidingTyped == Spec => []TypeOK
<1>1. Init => TypeOK
  BY NoneIsNobody DEF Init, TypeOK
<1> QED BY <1>1, StepKeepsType, PTL DEF Spec
-----------------------------------------------------------------------------
LEMMA StepKeepsForest == TypeOK /\ Forest /\ [Next]_vars => Forest'
<1> SUFFICES ASSUME TypeOK, Forest, [Next]_vars PROVE Forest'
  OBVIOUS
<1>1. ASSUME NEW e \in Entities, Delete(e) PROVE Forest'
  BY <1>1, RemovedTyped, LettingDownKeepsForest DEF Delete
<1>2. ASSUME UNCHANGED vehicle PROVE Forest'
  BY <1>2, LettingDownKeepsForest DEF LetDown
<1>3. ASSUME NEW e \in Entities, EjectPassengers(e) PROVE Forest'
  <2>1. LetDown
    BY <1>3 DEF EjectPassengers, LetDown
  <2> QED BY <2>1, LettingDownKeepsForest
<1>4. ASSUME NEW x \in Entities, Seat(x) PROVE Forest'
  <2>1. CASE ~RidesOn(seating.on, x) /\ vehicle' = [vehicle EXCEPT ![x] = seating.on]
    <3>1. seating.on \in Entities
      BY <1>4 DEF Seat, TypeOK, Seatings
    <3> QED BY <2>1, <3>1, SeatingKeepsForest
  <2> QED BY <1>4, <1>2, <2>1 DEF Seat
<1>5. ASSUME NEW x \in Entities, Unseat(x) PROVE Forest'
  <2>1. LetDown
    BY <1>5 DEF Unseat, LetDown, TypeOK
  <2> QED BY <2>1, LettingDownKeepsForest
<1>6. ASSUME NEW u \in Entities, NEW under \in Trees(u), Spawn(under) PROVE Forest'
  BY <1>6, SpawningKeepsForest
<1>7. ASSUME NEW e \in Entities, NEW x \in Entities, Mount(x, e) PROVE Forest'
  BY <1>7, SeatingKeepsForest DEF Mount
<1>8. ASSUME NEW x \in Entities, Dismount(x) PROVE Forest'
  <2>1. LetDown
    BY <1>8 DEF Dismount, LetDown, TypeOK
  <2> QED BY <2>1, LettingDownKeepsForest
<1>9. ASSUME NEW e \in Entities, Leave(e) PROVE Forest'
  BY <1>9, RemovedTyped, LettingDownKeepsForest DEF Leave
<1> QED
  BY <1>1, <1>2, <1>3, <1>4, <1>5, <1>6, <1>7, <1>8, <1>9
  DEF Next, Tool, Host, Edit, NamePassengers, EndTurn, Appear, vars

\* Nobody ever rides on himself: rides_on and save_with_riders always end.
THEOREM NobodyRidesHimself == Spec => []Forest
<1>1. Init => Forest
  BY NoneIsNobody DEF Init, Forest
<1>2. Init => TypeOK
  BY NoneIsNobody DEF Init, TypeOK
<1> QED BY <1>1, <1>2, StepKeepsType, StepKeepsForest, PTL DEF Spec
-----------------------------------------------------------------------------
\* No tool removes, moves, edits, seats or unseats a player or what a player sits on.
THEOREM PlayersKeepTheirSeats == Spec => PlayersAreLeftAlone
<1> DEFINE Alone ==
      /\ \A e \in touched' \cap alive : e \notin Players /\ Riders(e) \cap Players = {}
      /\ touched' # {} => \A p \in Players : vehicle'[p] = vehicle[p]
<1>1. TypeOK /\ [Next]_vars => [Alone]_vars
  <2> SUFFICES ASSUME TypeOK, Next PROVE Alone
    OBVIOUS
  <2> USE RidingAssumption
  <2>1. ASSUME NEW e \in Entities, Delete(e) PROVE Alone
    BY <2>1 DEF Delete, IsEditable, Riders, Removed, TypeOK
  <2>2. ASSUME NEW e \in Entities, Edit(e) PROVE Alone
    BY <2>2 DEF Edit, Manipulate, IsEditable, Riders
  <2>3. ASSUME NEW e \in Entities, EjectPassengers(e) PROVE Alone
    BY <2>3 DEF EjectPassengers, Manipulate, IsEditable, Riders, TypeOK
  <2>4. ASSUME NEW e \in Entities, NEW add \in BOOLEAN, NEW named \in SUBSET Entities,
               NamePassengers(e, add, named)
        PROVE  Alone
    BY <2>4 DEF NamePassengers, Manipulate, IsEditable, Riders
  <2>5. ASSUME NEW x \in Entities, Seat(x) PROVE Alone
    BY <2>5 DEF Seat, CanMoveStack, CanRide, Riders, TypeOK
  <2>6. ASSUME NEW x \in Entities, Unseat(x) PROVE Alone
    BY <2>6 DEF Unseat, CanMoveStack, CanRide, Riders, TypeOK
  <2>7. ASSUME NEW u \in Entities, NEW under \in Trees(u), Spawn(under) PROVE Alone
    BY <2>7, TreeFacts DEF Spawn
  <2>8. ASSUME touched' = {} PROVE Alone
    BY <2>8
  <2> QED
    BY <2>1, <2>2, <2>3, <2>4, <2>5, <2>6, <2>7, <2>8
    DEF Next, Tool, Host, EndTurn, Mount, Dismount, Leave, Appear
<1>2. [][Alone]_vars => PlayersAreLeftAlone
  BY PTL DEF PlayersAreLeftAlone
<1> QED BY <1>1, <1>2, RidingTyped, PTL DEF Spec

-----------------------------------------------------------------------------
\* A passenger is never taken from one vehicle to another, by a tool or by the world:
\* PassengerChange::Add seats only whom it finds sitting nowhere at that moment, and a
\* stack is spawned from entities that were not there.
THEOREM NobodyIsTaken == Spec => NobodyIsStolen
<1> DEFINE Kept == \A x \in Entities : vehicle[x] # None => vehicle'[x] \in {vehicle[x], None}
<1>1. TypeOK /\ [Next]_vars => [Kept]_vars
  <2> SUFFICES ASSUME TypeOK, Next PROVE Kept
    OBVIOUS
  <2>1. ASSUME UNCHANGED vehicle PROVE Kept
    BY <2>1
  <2>2. ASSUME NEW e \in Entities, alive' = alive \ {e}, vehicle' = Removed(e) PROVE Kept
    BY <2>2, RemovedTyped DEF LetDown
  <2>3. ASSUME NEW e \in Entities, EjectPassengers(e) PROVE Kept
    BY <2>3 DEF EjectPassengers
  <2>4. ASSUME NEW x \in Entities, NEW e, vehicle[x] = None,
               vehicle' = [vehicle EXCEPT ![x] = e]
        PROVE  Kept
    BY <2>4 DEF TypeOK
  <2>5. ASSUME NEW x \in Entities, vehicle' = [vehicle EXCEPT ![x] = None]
        PROVE  Kept
    BY <2>5 DEF TypeOK
  <2>6. ASSUME NEW u \in Entities, NEW under \in Trees(u), Spawn(under) PROVE Kept
    <3>1. \A x \in DOMAIN under : vehicle[x] = None
      BY <2>6, TreeFacts DEF TypeOK
    <3>2. \A x \in Entities \ DOMAIN under : vehicle'[x] = vehicle[x]
      BY <2>6 DEF Spawn
    <3> QED BY <3>1, <3>2
  <2>7. ASSUME NEW x \in Entities, Seat(x) PROVE Kept
    BY <2>1, <2>4, <2>7 DEF Seat, SitsNowhere
  <2>8. ASSUME NEW x \in Entities, Unseat(x) PROVE Kept
    BY <2>1, <2>5, <2>8 DEF Unseat
  <2>9. ASSUME Host PROVE Kept
    BY <2>1, <2>2, <2>4, <2>5, <2>9 DEF Host, Mount, Dismount, Leave, Appear
  <2>10. ASSUME Tool PROVE Kept
    BY <2>1, <2>2, <2>3, <2>6, <2>7, <2>8, <2>10
    DEF Tool, Delete, Edit, NamePassengers, EndTurn
  <2> HIDE DEF Kept
  <2> QED BY <2>9, <2>10 DEF Next
<1>2. [][Kept]_vars => NobodyIsStolen
  BY PTL DEF NobodyIsStolen
<1> QED BY <1>1, <1>2, RidingTyped, PTL DEF Spec

=============================================================================
