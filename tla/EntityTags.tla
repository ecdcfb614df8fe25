------------------------------ MODULE EntityTags ------------------------------
(***************************************************************************)
(* The NBT of entities: sanitize_entity, merge and put (src/src/nbt.rs),   *)
(* and what manipulate_entity and spawn_entity (src/src/handlers.rs) make  *)
(* of a tag that a client sent.  Riding has the entities themselves.       *)
(*                                                                         *)
(* The fields of a compound are a function from names.  A value is a       *)
(* record of one field: a compound's fields, a list's compounds, a byte,   *)
(* or any other value, whose bytes are only ever moved.  A compound that   *)
(* names a field twice is left out.                                        *)
(***************************************************************************)
EXTENDS Integers, Sequences, SequencesExt

CONSTANT AllowedKeys  \* ALLOWED_ENTITY_KEYS

Compound(v) == "fields" \in DOMAIN v
Riders(v)   == "riders" \in DOMAIN v
Without(fields, keys) == [k \in DOMAIN fields \ keys |-> fields[k]]
Put(fields, key, v)   == [k \in DOMAIN fields \cup {key} |-> IF k = key THEN v ELSE fields[k]]
-----------------------------------------------------------------------------
\* sanitize_entity: at the root of the entity and of everything riding it.
RECURSIVE SanitizeEntity(_)
SanitizeEntity(fields) ==
  [k \in {j \in DOMAIN fields : j \in AllowedKeys /\ (j = "Passengers" => Riders(fields[j]))} |->
     IF k # "Passengers" THEN fields[k]
     ELSE [riders |-> [i \in DOMAIN fields[k].riders |-> SanitizeEntity(fields[k].riders[i])]]]

\* merge: compounds key by key, an empty one removes the key, any other value replaces.
\* Mutated: a compound replaces what was there.
Removed(right) == {k \in DOMAIN right : Compound(right[k]) /\ DOMAIN right[k].fields = {}}
Overwrite(left, right) ==
  [k \in (DOMAIN left \cup DOMAIN right) \ Removed(right) |->
     IF k \in DOMAIN right THEN right[k] ELSE left[k]]
RECURSIVE Merge(_, _)
Merge(left, right) ==
  [k \in (DOMAIN left \cup DOMAIN right) \ Removed(right) |->
     IF k \notin DOMAIN right THEN left[k]
     ELSE IF k \in DOMAIN left /\ Compound(left[k]) /\ Compound(right[k])
     THEN [fields |-> Merge(left[k].fields, right[k].fields)]
     ELSE right[k]]

\* manipulate_entity: an empty tag changes nothing, and an entity is not moved by one.
Manipulated(current, tag) ==
  IF DOMAIN tag = {} THEN current
  ELSE Merge(current, Without(SanitizeEntity(tag), {"Pos"}))
-----------------------------------------------------------------------------
(* turn_hanging, in whole degrees.  Sides are counted from south over west. *)

NoSide       == -1
Horizontal3D == <<NoSide, NoSide, 2, 0, 1, 3>>  \* by the direction stored, from 0
Direction3D  == <<3, 4, 2, 5>>                  \* by the side

Frames    == {"item_frame", "glow_item_frame", "minecraft:item_frame", "minecraft:glow_item_frame"}
Paintings == {"painting", "minecraft:painting"}
IsOneOf(fields, ids) == "id" \in DOMAIN fields /\ fields["id"] \in {[value |-> i] : i \in ids}

ByteOf(fields, key) ==
  IF key \in DOMAIN fields /\ "byte" \in DOMAIN fields[key] THEN fields[key].byte ELSE 0
Signed8(b) == IF b > 127 THEN b - 256 ELSE b

\* The side it faces: a frame's 3D direction may be up, down, or none there is.
SideOf(fields) ==
  IF IsOneOf(fields, Paintings) THEN ByteOf(fields, "facing") % 4
  ELSE IF ByteOf(fields, "Facing") > 5 THEN NoSide
  ELSE Horizontal3D[ByteOf(fields, "Facing") + 1]

\* java_round of n / d, halves up.  Mutated: halves away from zero, as f32::round has it.
RoundAway(n, d) == IF n < 0 THEN -((d - 2 * n) \div (2 * d)) ELSE (2 * n + d) \div (2 * d)
JavaRound(n, d) == (2 * n + d) \div (2 * d)

TurnHanging(fields, yaw) ==
  LET side   == SideOf(fields)
      turned == (side + JavaRound(yaw - side * 90, 90)) % 4
      item   == (Signed8(ByteOf(fields, "ItemRotation")) - JavaRound(yaw, 45)) % 8
  IN IF ~IsOneOf(fields, Frames \cup Paintings) THEN fields
     ELSE IF IsOneOf(fields, Paintings) THEN Put(fields, "facing", [byte |-> turned])
     ELSE IF side = NoSide THEN Put(fields, "ItemRotation", [byte |-> item])
     ELSE Put(fields, "Facing", [byte |-> Direction3D[turned + 1]])
-----------------------------------------------------------------------------
(* spawn_entity.  Of a placement the position is one value, the yaw a number. *)

Place(fields, at, yaw) ==
  Put(Put(TurnHanging(fields, yaw), "Pos", [value |-> at]), "Rotation", [yaw |-> yaw])

\* spawn_stack, as the tag that save_with_riders gives afterwards.  The host spawns
\* nothing without an id; what rides there is not spawned either.
RECURSIVE Spawned(_, _, _)
Spawned(fields, at, yaw) ==
  LET own    == Place(Without(fields, {"Passengers"}), at, yaw)
      listed == IF "Passengers" \in DOMAIN fields /\ Riders(fields["Passengers"])
                THEN fields["Passengers"].riders ELSE <<>>
      riding == SelectSeq(listed, LAMBDA rider : "id" \in DOMAIN rider)
  IN IF riding = <<>> THEN own
     ELSE Put(own, "Passengers",
              [riders |-> [i \in DOMAIN riding |-> Spawned(riding[i], at, yaw)]])

\* What is spawned: the client's tag, cleaned, under the copied entity's own, if there
\* is one to copy.  Mutated: the client's tag wins.
ClientOver(tag, copied) == Merge(Without(copied, {"Dimension"}), SanitizeEntity(tag))
CopyOver(tag, copied)   == Merge(SanitizeEntity(tag), Without(copied, {"Dimension"}))

SpawnEntity(tag, copied, at, yaw) == Spawned(CopyOver(tag, copied), at, yaw)
=============================================================================
