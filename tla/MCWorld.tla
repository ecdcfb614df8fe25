-------------------------------- MODULE MCWorld --------------------------------
(***************************************************************************)
(* A small world for World: sections of 2 blocks a side in words of 15     *)
(* bits, one section in view and one out of it and below zero, 17 block    *)
(* states of which an older client knows 12 (it calls two by one name,     *)
(* three air, and has one the server has lost), and a kind of client for   *)
(* each tool.                                                              *)
(***************************************************************************)
EXTENDS EntityEdits, TLC

Near    == <<0, 0, 0>>
Far     == <<-1, -1, -1>>
MCSections == {Near, Far}
MCShown == {CellIn(Near, o) : o \in Cube}
MCOutOfView == {<<-1, -1>>}

\* 3 holds a block entity, 7 falls, 13 is void_air, which the older client calls 4.
MCToClient == <<0, 1, 1, 2, 5, 5, 6, 7, 3, 0, 8, 9, 11, 4, 0, 12, 0>>

MCDims  == {"overworld", "minecraft:the_nether"}
MCBare  == [d \in MCDims \cup {"minecraft:overworld", "the_nether", "elsewhere"} |->
              IF d \in {"overworld", "minecraft:overworld"} THEN "overworld"
              ELSE IF d = "elsewhere" THEN d ELSE "the_nether"]

MCBiomeCells == {<<0, 0, 0>>, <<-2, -2, -2>>, <<-4, -2, -2>>}
MCBiomeNames == [n \in {"plains", "minecraft:desert"} |-> IF n = "plains" THEN n ELSE "desert"]

\* The overworld: a floor with a torch on it, one that a paste left hanging, and a chest;
\* out of view, states that the older client has no names for.  The nether: one block in
\* view, and more states out of it than a palette takes.
Overworld(p) == CASE p[2] = 0 /\ p # <<1, 0, 1>>             -> 1
                  [] p \in {<<0, 1, 0>>, <<1, 1, 1>>}        -> 7
                  [] p = <<1, 1, 0>>                         -> 3
                  [] p \in {<<-1, -1, -1>>, <<-2, -2, -2>>}  -> 9
                  [] p = <<-2, -1, -1>>                      -> 5
                  [] p = <<-1, -2, -1>>                      -> 12
                  [] OTHER                                   -> 0
Nether(p) == IF p = Near THEN 1 ELSE IF p \in MCShown THEN 0 ELSE 16 + 4 * p[1] + 2 * p[2] + p[3]
MCFirstWorld == [d \in MCDims |->
  [blocks |-> [p \in Cells |-> IF d = "overworld" THEN Overworld(p) ELSE Nether(p)],
   tags   |-> [p \in Cells |-> IF d = "overworld" /\ p = <<1, 1, 0>> THEN "apples" ELSE NoTag],
   biomes |-> [p \in BiomeCells |-> "plains"],
   shown  |-> [p \in BiomeCells |-> "plains"],
   loaded |-> {<<0, 0>>}]]
MCTags   == {NoTag, "apples", "pears", "plums", "foreign"}
MCStrays == {[pos |-> <<0, 0, 0>>, state |-> 2], [pos |-> <<0, 1, 1>>, state |-> 9]}
-----------------------------------------------------------------------------
(* set_block *)

One(p, s)  == [pos |-> p, state |-> s]
Placing(blocks, update, prevent) ==
  [type |-> "set block", blocks |-> blocks, update |-> update, prevent |-> prevent, sequence |-> 0]
Above000 == <<0, 1, 0>>
Placers == <<
  Placing(<<One(Near, 0)>>, TRUE, {}),
  Placing(<<One(<<1, 0, 0>>, 12), One(Near, 0)>>, TRUE, {Above000}),
  Placing(<<One(Far, 5), One(Near, 0)>>, FALSE, {}),
  Placing(<<One(Near, 5), One(Near, 6), One(Near, 2), One(Near, 1)>>, FALSE, {}) >>
OldPlacers == <<
  Placing(<<One(<<0, 1, 1>>, 10)>>, TRUE, {}),
  Placing(<<One(<<0, 1, 1>>, 5), One(Near, 1)>>, FALSE, {}),
  [Placing(<<One(Above000, 3)>>, TRUE, {<<1, 1, 1>>}) EXCEPT !.sequence = -1] >>
-----------------------------------------------------------------------------
(* set_buffer.  A picture gives ids and tags by position; what is not drawn is the *)
(* client's void_air.                                                              *)

Entries(key, picture, void) == [i \in 0..7 |->
  LET p == CellIn(key, <<i % 2, i \div 4, (i \div 2) % 2>>)
  IN IF p \in DOMAIN picture.ids THEN picture.ids[p] ELSE void]
EntityAt(key, p, size, dictionary, tag) ==
  [offset |-> (p[1] - 2 * key[1]) + 2 * (p[2] - 2 * key[2]) + 4 * (p[3] - 2 * key[3]),
   size   |-> size, dictionary |-> dictionary, tag |-> tag]
Wire(key, picture, older) ==
  [key      |-> PackBlockPos(key),
   data     |-> ClientWrites(Entries(key, picture, IF older THEN 4 ELSE 13),
                             IF older THEN 13 ELSE 17),
   entities |-> {EntityAt(key, p, 2, Dictionary, picture.tags[p]) : p \in DOMAIN picture.tags}
                \cup {EntityAt(key, p, 3, Dictionary + 1, "foreign") : p \in picture.foreign}]
Picture(ids, tags, foreign, older) ==
  [ids |-> ids, tags |-> tags, foreign |-> foreign, bits |-> IF older THEN 4 ELSE 5]
Torn(older) == [key |-> PackBlockPos(Far), entities |-> {},
  data |-> [bits |-> 2, palette |-> IF older THEN <<1>> ELSE <<1, 1, 1, 1, 1>>,
            words |-> IF older THEN <<0>> ELSE <<0, 0>>]]
End  == [Torn(TRUE) EXCEPT !.key = MinPositionLong]

Buffer(keys, pictures, rest, dimension, older) ==
  [type |-> "buffer", dimension |-> dimension, pictures |-> pictures, whole |-> Len(pictures),
   sections |-> [k \in DOMAIN pictures |-> Wire(keys[k], pictures[k], older)] \o rest,
   sizes |-> [p \in UNION {DOMAIN pictures[k].tags : k \in DOMAIN pictures} |-> 2]]

\* Two sections, one out of view; a second one that is torn or names too many; more states than a palette takes;
\* and two block entities where the budget is for one.
Chest(older) == IF older THEN 2 ELSE 3
Lost(older)  == IF older THEN 10 ELSE 13
Wall(older) == Picture(<<1, 0, 0>> :> 7 @@ <<1, 1, 0>> :> Chest(older) @@ <<0, 1, 0>> :> Lost(older)
                         @@ <<0, 1, 1>> :> 7,
                       <<1, 1, 0>> :> "pears", {<<1, 0, 0>>}, older)
Cave(older) == Picture(<<-1, -1, -1>> :> 5 @@ <<-2, -1, -2>> :> 8, <<>>, {}, older)
Zoo(older)  == Picture([p \in MCShown |-> 1 + p[1] + 4 * p[2] + 2 * p[3]], <<>>, {}, older)
Chests(older) == Picture(<<0, 1, 1>> :> Chest(older) @@ <<1, 1, 0>> :> Chest(older),
                         <<0, 1, 1>> :> "pears" @@ <<1, 1, 0>> :> "plums", {}, older)
Pasters(older) == <<
  Buffer(<<Near, Far>>, <<Wall(older), Cave(older)>>, <<End>>, "overworld", older),
  Buffer(<<Near>>, <<Wall(older)>>, <<Torn(older), End>>, "minecraft:overworld", older),
  Buffer(<<Near>>, <<Zoo(older)>>, <<End>>, "the_nether", older),
  Buffer(<<Near>>, <<Chests(older)>>, <<End>>, "overworld", older) >>
NewPasters == Pasters(FALSE)
OldPasters == Pasters(TRUE)
-----------------------------------------------------------------------------
(* Biomes, ticks and copies. *)

\* Entry 1 is plains, 2 desert, 3 nobody knows, 4 means unchanged, and 5 is not there.
Painting(painting, broken) ==
  LET Entry(key, i) ==
        LET p == <<2 * (2 * key[1] + (i % 2)), 2 * (2 * key[2] + ((i \div 2) % 2)),
                   2 * (2 * key[3] + i \div 4)>>
        IN IF p \notin DOMAIN painting THEN IF i % 2 = 0 THEN 4 ELSE 0
           ELSE CASE painting[p] = "plains"           -> 1
                  [] painting[p] = "minecraft:desert" -> 2
                  [] OTHER                            -> IF i = 0 THEN 5 ELSE 3
      At(key) == [key |-> PackBlockPos(key), cells |-> [i \in 1..8 |-> Entry(key, i - 1)]]
  IN [type |-> "biomes", dimension |-> "minecraft:overworld", unset |-> 4, broken |-> broken,
      palette |-> <<"plains", "minecraft:desert", "atlantis">>, painting |-> painting,
      sections |-> <<At(Near), At(Far)>>]
Painters == <<
  Painting(<<0, 0, 0>> :> "minecraft:desert" @@ <<-4, -2, -2>> :> "minecraft:desert", FALSE),
  Painting(<<-2, -2, -2>> :> "minecraft:desert", TRUE),
  Painting(<<0, 0, 0>> :> "atlantis" @@ <<-2, -2, -2>> :> "plains", FALSE) >>

TickSet(rows) == [type |-> "tick", dimension |-> "overworld", shape |-> "set", rows |-> rows]
TickBox(a, b) == [type |-> "tick", dimension |-> "overworld", shape |-> "box", a |-> a, b |-> b]
Row(key, set) == [key |-> PackBlockPos(key), set |-> set]
Tickers == <<
  TickSet(<<Row(Near, {<<1, 1, 1>>}), Row(Far, {<<1, 1, 1>>})>>),
  TickSet([k \in 1..4 |-> Row(Near, {<<1, 1, 1>>})]),
  TickBox(<<1, 1, 1>>, <<0, 1, 1>>),
  TickBox(<<0, 1, 0>>, <<0, 0, 0>>),
  TickBox(<<-1, 1, 1>>, <<1, 1, 1>>),
  Placing(<<One(Near, 0)>>, FALSE, {}) >>

Copying(keys, positions, dimension) ==
  [type |-> "chunk data", dimension |-> dimension, asked |-> keys, entities |-> positions,
   keys      |-> [k \in DOMAIN keys |-> PackBlockPos(keys[k])],
   positions |-> [k \in DOMAIN positions |-> PackBlockPos(positions[k])]]
Copiers == <<
  Copying(<<Near, Far>>, << <<1, 1, 0>>, <<-1, -2, -1>>, <<2, 0, 0>> >>, "minecraft:overworld"),
  Copying(<<Far, Near>>, <<>>, "the_nether"),
  Copying(<< <<1, 0, 0>>, Near, Far>>, <<Far>>, "overworld"),
  Copying(<<Near, Far, Near, Far>>, <<>>, "overworld") >>
-----------------------------------------------------------------------------
(* Entities: an armor stand with a rider, a painting that carries a flat frame, *)
(* a player and the horse he sits on, and in the nether a strider.             *)

V(x)        == [value |-> x]
C(fields)   == [fields |-> fields]
R(tags)     == [riders |-> tags]
B(n)        == [byte |-> n]
MCAllowed   == {"id", "Pos", "Rotation", "Passengers", "Pose", "brightness", "Small"}
Stand == "id" :> V("armor_stand") @@ "Pos" :> V("home") @@ "Health" :> V("20")
         @@ "Dimension" :> V("overworld") @@ "Small" :> B(0) @@ "brightness" :> C(<<>>)
         @@ "Pose" :> C("Head" :> V("up") @@ "Body" :> V("straight"))
         @@ "Passengers" :> R(<<"id" :> V("pig") @@ "Health" :> V("4")>>)
Flat  == "id" :> V("minecraft:item_frame") @@ "Facing" :> B(1) @@ "ItemRotation" :> B(6)
MCFirstTags == [d \in MCDims |->
  IF d # "overworld" THEN "strider" :> ("id" :> V("strider") @@ "Health" :> V("9"))
  ELSE "stand" :> Stand
       @@ "art" :> ("id" :> V("painting") @@ "facing" :> B(1) @@ "Passengers" :> R(<<Flat>>))
       @@ "steve" :> ("id" :> V("player") @@ "Health" :> V("18"))
       @@ "horse" :> ("id" :> V("horse") @@ "Health" :> V("30"))]

Editing(uuid, tag) == [type |-> "manipulate", uuid |-> uuid, tag |-> tag]
Spawning(uuid, tag, from, yaw) ==
  [type |-> "spawn", uuid |-> uuid, tag |-> tag, from |-> from, at |-> "there", yaw |-> yaw]
Sculptors == <<
  Editing("stand", "Pose" :> C("Head" :> V("down")) @@ "Health" :> V("1000") @@ "Pos" :> V("away")),
  Editing("stand", "Pose" :> C(<<>>) @@ "brightness" :> C("sky" :> V("15")) @@ "Small" :> B(1)),
  Editing("strider", "Small" :> B(1)),
  Editing("steve", "Small" :> B(1)),
  Editing("horse", "Small" :> B(1)),
  Spawning("copy", "Small" :> B(1) @@ "brightness" :> C("sky" :> V("1")) @@ "Pose" :> C("Arm" :> V("up")),
           "stand", 90),
  Spawning("copy", <<>>, "art", -135),
  Spawning("new", "id" :> V("glow_item_frame") @@ "Facing" :> B(2) @@ "Motion" :> V("fast")
                  @@ "Passengers" :> R(<<"id" :> V("painting") @@ "Health" :> V("9"),
                                         "Small" :> B(1)>>), "gone", -45),
  Spawning("strider", "id" :> V("item_frame") @@ "Facing" :> B(5), "nobody", 405),
  Spawning("copy", "id" :> V("pig"), "steve", 0),
  [Spawning("new", "id" :> V("pig"), "nobody", 0) EXCEPT !.at = "the end of the world"] >>
-----------------------------------------------------------------------------
Drivers == <<
  [type |-> "gamemode", mode |-> 0], [type |-> "gamemode", mode |-> 1],
  [type |-> "gamemode", mode |-> 2], [type |-> "gamemode", mode |-> 3],
  [type |-> "gamemode", mode |-> 4],
  [type |-> "fly speed", speed |-> 20], [type |-> "fly speed", speed |-> -3],
  [type |-> "world time", dimension |-> "overworld", time |-> {-6}, freeze |-> {TRUE}],
  [type |-> "world time", dimension |-> "the_nether", time |-> {}, freeze |-> {FALSE}],
  [type |-> "no physical trigger", enabled |-> TRUE],
  [type |-> "teleport", dimension |-> "the_nether"],
  [type |-> "teleport", dimension |-> "elsewhere"] >>

MCKinds == {"placer", "old placer", "paster", "old paster", "painter", "ticker", "copier",
            "old copier", "sculptor", "driver", "idle"}
MCOld   == {"old placer", "old paster", "old copier"}
MCMenu  == [k \in MCKinds |->
  CASE k = "placer"     -> Placers        [] k = "old placer" -> OldPlacers
    [] k = "paster"     -> NewPasters    [] k = "old paster" -> OldPasters
    [] k = "painter"    -> Painters       [] k = "ticker"     -> Tickers
    [] k \in {"copier", "old copier"} -> Copiers
    [] k = "sculptor"   -> Sculptors      [] k = "driver"     -> Drivers
    [] k = "idle"       -> <<>>]

\* What is set for a player: some nodes granted, some refused.
Set(S, T) == [n \in PERMS |-> IF n \in S THEN "yes" ELSE IF n \in T THEN "no" ELSE "unset"]
Trusted   == Set({DEFAULT, BUILD_DANGEROUS_TICK, ENTITY_SPAWN, ENTITY_MANIPULATE}, {})
Wary      == Set({DEFAULT}, {BUILD_NBT, PLAYER_GAMEMODE_SPECTATOR, PLAYER_SPEED})
Nobody    == Set({}, {})
Odd       == {ALL, DEFAULT, PLAYER, PLAYER_GAMEMODE, PLAYER_GAMEMODE_SURVIVAL}
MCRights  == [k \in MCKinds |->
  IF k = "idle" THEN {Set(S, T \ S) : S \in SUBSET Odd, T \in {{}, {PLAYER_GAMEMODE}}}
  ELSE {Trusted, Wary, Nobody}]
MCMaxEvents == [k \in MCKinds |-> IF k \in {"old placer", "old copier"} THEN 2 ELSE 1]
MCSettings    == UNION {MCRights[k] : k \in MCKinds}
MCPreferences == {[n \in PERMS |-> v] : v \in {"yes", "no"}}
=============================================================================
