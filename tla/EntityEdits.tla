----------------------------- MODULE EntityEdits -----------------------------
(***************************************************************************)
(* World with the entity tags of EntityTags: what an edit or a copy of an  *)
(* entity may change of its NBT.  An instance gives ManipulateTag and      *)
(* SpawnTag the values Manipulated and SpawnEntity.                        *)
(***************************************************************************)
EXTENDS World, EntityTags

\* Every leaf of a tag, with its path; lists and empty compounds are leaves.
RECURSIVE Leaves(_)
Leaves(fields) == UNION {
  IF Compound(fields[k]) /\ DOMAIN fields[k].fields # {}
  THEN {[path |-> <<k>> \o leaf.path, is |-> leaf.is] : leaf \in Leaves(fields[k].fields)}
  ELSE {[path |-> <<k>>, is |-> fields[k]]} : k \in DOMAIN fields}
Root(leaf)   == leaf.path[1]
Under(a, b)  == IsPrefix(a, b) \/ IsPrefix(b, a)

\* What is in the world with the player when its request is handled, before and after.
Around      == entities[dim]
AroundAfter == entities'[dim]
OthersStay(u) == \A v \in DOMAIN Around \ {u} :
                   v \in DOMAIN AroundAfter /\ AroundAfter[v] = Around[v]

\* An edit says what it says, of what it may, and of nothing else.
EditsKeepTheRest(r) ==
  LET before == Leaves(Around[r.uuid])
      after  == Leaves(AroundAfter[r.uuid])
      said   == {s \in Leaves(r.tag) : Root(s) \in AllowedKeys \ {"Pos"}}
      SpokenOf(leaf) == \E s \in said : Under(s.path, leaf.path)
  IN /\ DOMAIN AroundAfter = DOMAIN Around /\ OthersStay(r.uuid)
     /\ \A leaf \in before \ after : SpokenOf(leaf)
     /\ \A leaf \in after \ before : SpokenOf(leaf)
     /\ \A s \in said : s \in after \/ Compound(s.is) \/ Root(s) = "Passengers"

\* A hanging entity faces the side nearest to the yaw of the paste; one that lies flat
\* turns its item so that it looks as it did, to an eighth.
YawOfSide(fields) == IF "facing" \in DOMAIN fields THEN fields["facing"].byte * 90
                     ELSE [up \in 2..5 |-> CASE up = 3 -> 0 [] up = 4 -> 90
                                              [] up = 2 -> 180 [] up = 5 -> 270][ByteOf(fields, "Facing")]
Nearest(yaw, side) == (yaw - side + 45) % 360 < 90
StandsRight(fields, yaw) ==
  /\ IsOneOf(fields, Paintings) => Nearest(yaw, YawOfSide(fields))
  /\ IsOneOf(fields, Frames) /\ ByteOf(fields, "Facing") \in 2..5 => Nearest(yaw, YawOfSide(fields))

RECURSIVE Stack(_)
Stack(fields) == {fields} \cup
  (IF "Passengers" \notin DOMAIN fields THEN {}
   ELSE UNION {Stack(rider) : rider \in Range(fields["Passengers"].riders)})

\* A spawned entity is what was copied, then what the client may say.
PlacedKeys == {"Pos", "Rotation", "Facing", "facing", "ItemRotation", "Passengers"}
SpawnedAsAsked(r) ==
  LET own    == AroundAfter[r.uuid]
      copied == IF r.from \in DOMAIN Around \ Players THEN Around[r.from] ELSE <<>>
      after  == Leaves(own)
      theirs == Leaves(copied)
  IN /\ r.uuid \notin DOMAIN Around /\ OthersStay(r.uuid)
     /\ \A leaf \in theirs : \/ Root(leaf) \in PlacedKeys \cup {"Dimension"}
                              \/ Compound(leaf.is) \/ leaf \in after
     /\ \A leaf \in after : Root(leaf) \in PlacedKeys \cup AllowedKeys \/ leaf \in theirs
     /\ copied = <<>> => \A tag \in Stack(own) : DOMAIN tag \subseteq PlacedKeys \cup AllowedKeys
     /\ \A tag \in Stack(own) : tag["Pos"] = [value |-> r.at] /\ StandsRight(tag, r.yaw)
-----------------------------------------------------------------------------
\* An edit of an entity in the player's world keeps what it does not speak of, at any
\* depth, and what it may not touch; players, what they sit on and what is in another
\* world by then are not edited at all.  A copy keeps everything of its source, whatever
\* the client sends along, and stands as the paste was turned, riders included; nothing
\* is copied from a player, or replaced (nbt.rs: "a pose for one armor stand limb would
\* put the other limbs back to default"; handlers.rs: "it wins over whatever the client
\* sent alongside", "what makes them follow a rotated paste").
EntitiesKeepTheirOwn ==
  [][ /\ \A r \in HandledOf("manipulate") :
           IF HasPerm(ENTITY_MANIPULATE) /\ r.uuid \in DOMAIN Around \ (Players \cup Ridden)
           THEN EditsKeepTheRest(r)
           ELSE UNCHANGED entities
      /\ \A r \in HandledOf("spawn") :
           entities' # entities => SpawnedAsAsked(r) ]_worldVars
=============================================================================
