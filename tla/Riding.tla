------------------------------- MODULE Riding -------------------------------
(***************************************************************************)
(* The entity tools (src/src/handlers.rs: delete_entity, manipulate_entity,*)
(* spawn_entity) and the stacks of entities that ride each other.  The     *)
(* tools climb such a stack from rider to vehicle (rides_on) and walk it   *)
(* from vehicle to riders (save_with_riders); both end only because nobody *)
(* rides on himself.                                                       *)
(*                                                                         *)
(* A request is a list of entries, and each is handled whatever became of  *)
(* the others, so what matters of it are its turns: one entity, then, one  *)
(* by one, the passengers its entry names.  The world goes on between any  *)
(* two of them.  Positions and NBT are left out; that a turn changes them  *)
(* is recorded.                                                            *)
(***************************************************************************)
EXTENDS FiniteSets, Naturals

CONSTANTS
  Entities,  \* names for entities, in and out of the world
  Players,   \* the players among them
  Markers,   \* and the markers, which exist only as data
  MaxStack,  \* bound: entities of one spawned stack
  MaxNamed,  \* bound: passengers named by one entry
  None

ASSUME RidingAssumption ==
  /\ Players \subseteq Entities
  /\ Markers \subseteq Entities
  /\ Players \cap Markers = {}
  /\ MaxStack \in Nat
  /\ MaxNamed \in Nat
  /\ None \notin Entities

VARIABLES
  alive,    \* the entities that are in the world
  vehicle,  \* what each of them rides, or None
  seating,  \* the passengers the current turn still has to seat or unseat
  touched   \* history: whom the last step of a tool removed, moved or edited

vars == <<alive, vehicle, seating, touched>>

Riders(e) == {x \in alive : vehicle[x] = e}

\* Players and markers carry nobody.
Seatings == [on: Entities \ (Players \cup Markers), add: BOOLEAN, left: SUBSET Entities]

\* Every variable has its type; only what is in the world rides or is ridden.
TypeOK ==
  /\ alive \in SUBSET Entities
  /\ vehicle \in [Entities -> Entities \cup {None}]
  /\ \A e \in Entities : vehicle[e] # None => {e, vehicle[e]} \subseteq alive
  /\ seating \in Seatings \cup {None}
  /\ touched \in SUBSET Entities
-----------------------------------------------------------------------------
(* What the tools ask of an entity. *)

\* Mutated: its riders are not looked at.
IsNoPlayer(e) == e \notin Players
IsEditable(e) == e \notin Players /\ Riders(e) \cap Players = {}

\* Mutated: markers count as any other entity.
IsNobody(e) == e \notin Players
CanRide(e)  == e \notin Players \cup Markers

\* Mutated: wherever it sits.
SitsAnywhere(e) == e \in Entities
SitsNowhere(e)  == vehicle[e] = None

CanMoveStack(e) == CanRide(e) /\ \A r \in Riders(e) : CanRide(r)

\* The loop of rides_on: e, what it rides, what that rides, and so on, which is the
\* least set that holds e and the vehicle of each of its members.
EndsAtVehicles(S) == \A x \in S : vehicle[x] \in S \cup {None}
Under(e) ==
  {o \in Entities : \A S \in SUBSET Entities : e \in S /\ EndsAtVehicles(S) => o \in S}

\* Mutated: it does not climb.
IsSame(e, o)  == e = o
RidesOn(e, o) == o \in Under(e)

-----------------------------------------------------------------------------
Init ==
  /\ alive \in SUBSET Entities
  /\ vehicle = [e \in Entities |-> None]
  /\ seating = None
  /\ touched = {}

\* Entity::remove, of the host: what rode it stands, and it stands itself.
Removed(e) == [x \in Entities |-> IF x = e \/ vehicle[x] = e THEN None ELSE vehicle[x]]

\* delete_entity, one entity of the sweep.
Delete(e) ==
  /\ seating = None
  /\ e \in alive
  /\ IsEditable(e)
  /\ alive' = alive \ {e}
  /\ vehicle' = Removed(e)
  /\ touched' = {e}
  /\ UNCHANGED seating

\* manipulate_entity, one entity of the sweep: its NBT and place, in any case, then
\* what its entry does to its passengers.
Manipulate(e) ==
  /\ seating = None
  /\ e \in alive
  /\ IsEditable(e)
  /\ touched' = {e}
  /\ UNCHANGED alive

Edit(e) == Manipulate(e) /\ UNCHANGED <<vehicle, seating>>

EjectPassengers(e) ==
  /\ Manipulate(e)
  /\ CanRide(e)
  /\ vehicle' = [x \in Entities |-> IF vehicle[x] = e THEN None ELSE vehicle[x]]
  /\ UNCHANGED seating

NamePassengers(e, add, named) ==
  /\ Manipulate(e)
  /\ CanRide(e)
  /\ seating' = [on |-> e, add |-> add, left |-> named \cap alive]
  /\ UNCHANGED vehicle

Done(x) == [seating EXCEPT !.left = @ \ {x}]

\* PassengerChange::Add, one passenger: only if it sits nowhere, and not where that
\* would close a loop.  The handler holds on to what its sweeps found, whatever became of
\* it since; it is the host that seats nobody who has left, or on what has.
Seat(x) ==
  /\ seating # None
  /\ seating.add
  /\ x \in seating.left
  /\ seating' = Done(x)
  /\ \/ /\ {x, seating.on} \subseteq alive
        /\ SitsNowhere(x)
        /\ CanMoveStack(x)
        /\ ~RidesOn(seating.on, x)
        /\ vehicle' = [vehicle EXCEPT ![x] = seating.on]
        /\ touched' = {x}
     \/ /\ \/ ~({x, seating.on} \subseteq alive)
           \/ ~SitsNowhere(x)
           \/ ~CanMoveStack(x)
           \/ RidesOn(seating.on, x)
        /\ touched' = {}
        /\ UNCHANGED vehicle
  /\ UNCHANGED alive

\* PassengerChange::Remove, one passenger.
Unseat(x) ==
  /\ seating # None
  /\ ~seating.add
  /\ x \in seating.left
  /\ seating' = Done(x)
  /\ \/ /\ x \in alive
        /\ CanMoveStack(x)
        /\ vehicle' = IF vehicle[x] = seating.on
                      THEN [vehicle EXCEPT ![x] = None] ELSE vehicle
        /\ touched' = {x}
     \/ /\ ~(x \in alive /\ CanMoveStack(x))
        /\ touched' = {}
        /\ UNCHANGED vehicle
  /\ UNCHANGED alive

EndTurn ==
  /\ seating # None
  /\ seating.left = {}
  /\ seating' = None
  /\ touched' = {}
  /\ UNCHANGED <<alive, vehicle>>

\* The stacks an NBT tag may describe, over entities that are not in the world yet:
\* nested data, so nobody is his own rider.  spawn_entity takes the tag of the
\* client or the copy that save_with_riders makes, which leaves players out.  Neither
\* asks whether a marker is among them.
Trees(u) ==
  UNION {{under \in [N -> N \cup {None}] :
            /\ \A x \in N : under[x] = None <=> x = u
            /\ \A S \in SUBSET N : S # {} => \E x \in S : under[x] \notin S}
         : N \in {M \in SUBSET (Entities \ (alive \cup Players)) :
                    u \in M /\ Cardinality(M) <= MaxStack}}

\* spawn_entity, one entry: the whole stack, or what the host accepts of it, which is
\* a stack again, since a rider is spawned after its vehicle and only on it.
Spawn(under) ==
  /\ seating = None
  /\ alive' = alive \cup DOMAIN under
  /\ vehicle' = [x \in Entities |-> IF x \in DOMAIN under THEN under[x] ELSE vehicle[x]]
  /\ touched' = DOMAIN under
  /\ UNCHANGED seating

-----------------------------------------------------------------------------
(* The host, which knows the same rules. *)

Mount(x, e) ==
  /\ {x, e} \subseteq alive \ Markers
  /\ e \notin Players
  /\ vehicle[x] = None
  /\ ~RidesOn(e, x)
  /\ vehicle' = [vehicle EXCEPT ![x] = e]
  /\ touched' = {}
  /\ UNCHANGED <<alive, seating>>

Dismount(x) ==
  /\ vehicle[x] # None
  /\ vehicle' = [vehicle EXCEPT ![x] = None]
  /\ touched' = {}
  /\ UNCHANGED <<alive, seating>>

Leave(e) ==
  /\ e \in alive
  /\ alive' = alive \ {e}
  /\ vehicle' = Removed(e)
  /\ touched' = {}
  /\ UNCHANGED seating

Appear(e) ==
  /\ e \notin alive
  /\ alive' = alive \cup {e}
  /\ touched' = {}
  /\ UNCHANGED <<vehicle, seating>>

Tool ==
  \/ \E e \in Entities :
       \/ Delete(e)
       \/ Edit(e)
       \/ EjectPassengers(e)
       \/ \E add \in BOOLEAN, named \in SUBSET Entities :
            Cardinality(named) <= MaxNamed /\ NamePassengers(e, add, named)
       \/ Seat(e)
       \/ Unseat(e)
       \/ \E under \in Trees(e) : e \notin alive \cup Players /\ Spawn(under)
  \/ EndTurn

Host ==
  \E e \in Entities :
    \/ \E x \in Entities : Mount(x, e)
    \/ Dismount(e)
    \/ Leave(e)
    \/ Appear(e)

Next == Tool \/ Host

Spec == Init /\ [][Next]_vars
-----------------------------------------------------------------------------
(* Safety. *)

\* Nobody rides on himself, directly or through others: among any entities there is
\* one that rides on none of them.  The loop of rides_on and the recursion of
\* save_with_riders would never end otherwise.
Forest == \A S \in SUBSET Entities :
  S # {} => \E x \in S : vehicle[x] \notin S

\* "Upstream keeps the entity tools away from players, and from anything a player is
\* riding" (handlers.rs): whatever the world did between the sweep and the turn, no
\* tool removes, moves, edits, seats or unseats a player or what a player sits on,
\* and no player loses his seat.
PlayersAreLeftAlone == [][
  /\ \A e \in touched' \cap alive : e \notin Players /\ Riders(e) \cap Players = {}
  /\ touched' # {} => \A p \in Players : vehicle'[p] = vehicle[p]]_vars

\* A passenger is never taken from one vehicle to another: it is seated only when it
\* sits nowhere, even if it mounted something after it was found.
NobodyIsStolen == [][\A x \in Entities :
  vehicle[x] # None => vehicle'[x] \in {vehicle[x], None}]_vars
=============================================================================
