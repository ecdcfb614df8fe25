-------------------------------- MODULE World --------------------------------
(***************************************************************************)
(* One player with Axiom, and the world it builds in: the channel its      *)
(* requests come in on, the handlers that edit blocks, biomes, entity tags *)
(* and the player itself, and the channel back, on which the host's own    *)
(* block updates travel with the plugin's answers.  Meanwhile operators    *)
(* change permissions, others build, chunks are unloaded and the player    *)
(* changes dimension.                                                      *)
(*                                                                         *)
(* What becomes of the NBT of an entity is a parameter, which EntityTags   *)
(* defines and EntityEdits speaks of.                                      *)
(***************************************************************************)
EXTENDS BlockEdits, BiomeEdits, Controls

CONSTANTS
  Kinds,       \* kinds of client: which version, and what it asks for
  Old,         \* the kinds whose block state ids must be translated
  Menu,        \* of each kind, a sequence of requests
  Rights,      \* of each kind, what operators may set for it
  Shown,       \* the cells the client has in view, always in memory
  OutOfView,   \* columns that the host may unload
  Strays,      \* what others put into the world: positions and states
  FirstDim,    \* the dimension the player is in at the start
  FirstWorld,  \* the worlds at the start
  FirstTags,   \* the entities at the start, of each dimension by their UUIDs
  Players,     \* the UUIDs of players
  Ridden,      \* and of what a player sits on; Riding has the sitting down
  Tags,        \* the NBT of block entities, or NoTag
  FarAway,     \* positions at which in_spawnable_bounds does not hold
  ManipulateTag(_, _),  \* what manipulate_entity makes of an entity's NBT
  SpawnTag(_, _, _, _), \* what spawn_entity gives a new one
  MaxRequests, \* bound: requests of one behaviour
  MaxEvents    \* bound: changes from outside in one behaviour, of each kind

WorldStates == [blocks: [Cells -> 0..StateCount - 1], tags: [Cells -> Tags],
                biomes: [BiomeCells -> Range(BiomeNames)], shown: [BiomeCells -> Range(BiomeNames)],
                loaded: SUBSET (Columns \cup {ChunkOf(p) : p \in BiomeCells})]

ASSUME WorldAssumption ==
  /\ Old \subseteq Kinds
  /\ \A k \in Kinds : Rights[k] \subseteq Settings
  /\ Shown \subseteq Cells /\ FirstDim \in Dims
  /\ {Column(p) : p \in Shown} \cap OutOfView = {}
  /\ NoTag \in Tags /\ FirstWorld \in [Dims -> WorldStates]
  /\ \A stray \in Strays : stray.state \in 0..StateCount - 1
  /\ MaxRequests \in Nat /\ \A k \in Kinds : MaxEvents[k] \in Nat

\* What the readers of a request take it apart into; the id that names a dimension may
\* be of none.
Positions == Int \X Int \X Int
WithDimension == {"buffer", "biomes", "tick", "chunk data", "world time", "teleport"}
WellFormed(r) ==
  /\ {"type"} \subseteq DOMAIN r
  /\ "dimension" \in DOMAIN r <=> r.type \in WithDimension
  /\ r.type \in WithDimension => r.dimension \in DOMAIN Bare
  /\ CASE r.type = "set block"  ->
            /\ {"sequence", "blocks"} \subseteq DOMAIN r /\ r.sequence \in Int
            /\ r.blocks \in Seq([pos: Positions, state: Nat])
       [] r.type = "buffer"     ->
            r.sections \in Seq([key: Int, data: [bits: Nat, palette: Seq(Nat), words: Seq(Nat)],
              entities: SUBSET [offset: Nat, size: Nat, dictionary: Nat, tag: Tags]])
       [] r.type = "biomes"     ->
            r.sections \in Seq([key: Int, cells: Seq(Nat)]) /\ r.palette \in Seq(STRING)
       [] r.type = "tick"       ->
            \/ r.shape = "set" /\ r.rows \in Seq([key: Int, set: SUBSET Cube])
            \/ r.shape = "box" /\ {r.a, r.b} \subseteq Positions
       [] r.type = "chunk data" -> {r.keys, r.positions} \subseteq Seq(Int)
       [] r.type = "gamemode"   -> r.mode \in Nat
       [] r.type = "fly speed"  -> r.speed \in Int
       [] r.type = "world time" -> r.time \subseteq Int
       [] r.type = "no physical trigger" -> r.enabled \in BOOLEAN
       [] r.type \in {"teleport", "manipulate", "spawn"} -> TRUE

\* How a painter writes what it paints: sections by their packed keys, the entries of one
\* with x fastest, then y, then z, and at every place of a biome that is known that biome.
PackedKeys == LET across == -(Horizontal \div 2)..Horizontal \div 2 - 1
                  up     == -(Vertical \div 2)..Vertical \div 2 - 1
              IN across \X up \X across
Offsets    == LET along == 0..BufferCells - 1 IN along \X along \X along
CellOf(key, o) == LET cell(n) == (key[n] * BufferCells + o[n]) * CellBlocks
                  IN <<cell(1), cell(2), cell(3)>>
EntryOf(s, o)  == s.cells[1 + o[1] + BufferCells * (o[2] + BufferCells * o[3])]
DrawnAt(r, p)  == {e \in (DOMAIN r.sections) \X PackedKeys \X Offsets :
                     r.sections[e[1]].key = PackBlockPos(e[2]) /\ CellOf(e[2], e[3]) = p}
Painted(r)     == {p \in BiomeCells \cap DOMAIN r.painting : r.painting[p] \in DOMAIN BiomeNames}
DrawsWhatItPaints(r) ==
  /\ \A k \in DOMAIN r.sections : \E key \in PackedKeys : r.sections[k].key = PackBlockPos(key)
  /\ \A p \in Painted(r) :
       /\ DrawnAt(r, p) # {}
       /\ \A e \in DrawnAt(r, p) :
            LET entry == EntryOf(r.sections[e[1]], e[3])
            IN entry \in 1..Len(r.palette) \ {r.unset} /\ r.palette[entry] = r.painting[p]

ASSUME MenuAssumption == \A k \in Kinds : \A i \in DOMAIN Menu[k] :
  /\ WellFormed(Menu[k][i])
  /\ Menu[k][i].type = "biomes" => DrawsWhatItPaints(Menu[k][i])

VARIABLES
  kind,      \* what client this is
  dim,       \* the dimension the player is in
  worlds,    \* of each dimension: blocks, block entities, biomes, what is loaded
  entities,  \* of each dimension: the NBT of its entities, with their riders
  c2s,       \* requests on their way
  s2c,       \* updates and answers on their way
  view,      \* what the client shows, in its own ids
  pending,   \* its predictions: when made, and what the server last said
  kicked,    \* a request could not be read, and the player was kicked for it
  sent, events

worldVars == <<permissionVars, controlVars, kind, dim, worlds, entities, c2s, s2c,
               view, pending, kicked, sent, events>>

old == kind \in Old
ShownAs(w) == [p \in Shown |-> ClientState(old, w.blocks[p])]

\* The host queues an update of what changed where the client looks.
Updates(w, v) ==
  LET changed == {p \in Shown : w.blocks[p] # v.blocks[p]}
  IN IF changed = {} THEN <<>>
     ELSE << [type |-> "blocks", cells |-> [p \in changed |-> ShownAs(v)[p]]] >>

WorldInit ==
  /\ PermissionsInit
  /\ ControlsInit
  /\ kind \in Kinds
  /\ \E own \in Rights[kind], prefer \in Preferences : verdict = Resolved(own, prefer)
  /\ dim = FirstDim
  /\ worlds = FirstWorld
  /\ entities = FirstTags
  /\ c2s = <<>> /\ s2c = <<>>
  /\ view = ShownAs(worlds[dim])
  /\ pending = <<>>
  /\ kicked = FALSE
  /\ sent = 0 /\ events = 0
-----------------------------------------------------------------------------
(* The client.  External. *)

Predicts(r) == r.type = "set block" /\ r.sequence >= 0
Predicted(r) == {r.blocks[k].pos : k \in DOMAIN r.blocks} \cap Shown
LastAt(r, p) == r.blocks[CHOOSE k \in DOMAIN r.blocks :
                  r.blocks[k].pos = p /\ \A j \in DOMAIN r.blocks : r.blocks[j].pos = p => j <= k]

Send ==
  /\ sent < MaxRequests /\ ~kicked
  /\ sent' = sent + 1
  /\ \E k \in DOMAIN Menu[kind] :
       LET r == Menu[kind][k]
       IN IF ~Predicts(r) THEN c2s' = Append(c2s, r) /\ UNCHANGED <<view, pending>> ELSE
          /\ c2s' = Append(c2s, [r EXCEPT !.sequence = sent])
          /\ view' = [p \in Shown |-> IF p \in Predicted(r) THEN LastAt(r, p).state ELSE view[p]]
          /\ pending' = [p \in DOMAIN pending \cup Predicted(r) |->
               IF p \in Predicted(r)
               THEN [sequence |-> sent,
                     known    |-> IF p \in DOMAIN pending THEN pending[p].known ELSE view[p]]
               ELSE pending[p]]
  /\ UNCHANGED <<permissionVars, controlVars, kind, dim, worlds, entities, s2c, kicked, events>>

\* An acknowledgement settles every prediction up to it.
Receive ==
  /\ s2c # <<>>
  /\ s2c' = Tail(s2c)
  /\ LET m    == Head(s2c)
         done == IF m.type = "ack"
                 THEN {p \in DOMAIN pending : pending[p].sequence <= m.sequence} ELSE {}
     IN \/ /\ m.type = "ack"
           /\ view' = [p \in Shown |-> IF p \in done THEN pending[p].known ELSE view[p]]
           /\ pending' = [p \in DOMAIN pending \ done |-> pending[p]]
        \/ /\ m.type = "blocks"
           /\ view' = [p \in Shown |-> IF p \in DOMAIN m.cells \ DOMAIN pending
                                       THEN m.cells[p] ELSE view[p]]
           /\ pending' = [p \in DOMAIN pending |->
                IF p \in DOMAIN m.cells THEN [pending[p] EXCEPT !.known = m.cells[p]]
                ELSE pending[p]]
        \/ /\ m.type = "world"
           /\ view' = m.cells
           /\ pending' = <<>>
        \/ m.type \in {"answer", "message"} /\ UNCHANGED <<view, pending>>
  /\ UNCHANGED <<permissionVars, controlVars, kind, dim, worlds, entities, c2s, kicked, sent, events>>
-----------------------------------------------------------------------------
(* The handlers, each taking the request at the head of the channel. *)

Taken(type) == c2s # <<>> /\ Head(c2s).type = type /\ c2s' = Tail(c2s)
Request     == Head(c2s)
Here        == worlds[dim]
AimedAt(d)  == SameDimension(dim, d)

\* dispatch: a handler that fails gets the player kicked; what is under way may still be
\* handled before the player is gone.
Fails(wrong) == kicked' = (kicked \/ wrong)

\* A new world, what is sent before the host's updates of it, and what after.
Edits(new, before, after) ==
  /\ \E w \in {new} :
       /\ worlds' = [worlds EXCEPT ![dim] = w]
       /\ s2c' = s2c \o before \o Updates(Here, w) \o after
  /\ UNCHANGED <<permissionVars, controlVars, kind, dim, entities, view, pending, sent, events>>

HandleSetBlock ==
  /\ Taken("set block")
  /\ Fails(~ListsFit(Request))
  /\ Edits(SetBlock(Here, Request, old),
           IF Acknowledges(Request)
           THEN << [type |-> "ack", sequence |-> Request.sequence] >> ELSE <<>>,
           <<>>)

\* The sends that end in a kick are DispatchBudget's.
HandleSetBuffer ==
  LET may == HasPerm(BUILD_SECTION) /\ AimedAt(Request.dimension)
  IN /\ Taken("buffer")
     /\ Fails(may /\ ~Ends(Request))
     /\ Edits(IF may THEN SetBuffer(Here, Request, old) ELSE Here, <<>>, <<>>)

HandleBiomeBuffer ==
  LET may == HasPerm(BUILD_SECTION) /\ AimedAt(Request.dimension)
  IN /\ Taken("biomes")
     /\ Fails(may /\ Request.broken)
     /\ Edits(IF may THEN ApplyBiomeBuffer(Here, Request) ELSE Here, <<>>, <<>>)

HandleTickBlocks ==
  LET may == RowsFit(Request) /\ HasPerm(BUILD_DANGEROUS_TICK) /\ AimedAt(Request.dimension)
  IN /\ Taken("tick")
     /\ Fails(~RowsFit(Request))
     /\ Edits(IF may THEN TickBlocks(Here, Request) ELSE Here, <<>>,
              IF may /\ TellsOfMore(Request) THEN << [type |-> "message"] >> ELSE <<>>)

\* A refusal is an answer with nothing in it, and does not read the lists.
HandleRequestChunkData ==
  LET fails == HasPerm(CHUNK_REQUEST) /\ ~AsksLittle(Request)
      may   == HasPerm(CHUNK_REQUEST) /\ AsksLittle(Request) /\ AimedAt(Request.dimension)
  IN /\ Taken("chunk data")
     /\ Fails(fails)
     /\ Edits(IF may THEN LoadAsked(Here, Request) ELSE Here, <<>>,
              IF fails THEN <<>> ELSE
              << [type     |-> "answer",
                  entities |-> IF may THEN AnsweredEntities(Here, Request) ELSE <<>>,
                  sections |-> IF may THEN Answered(Here, Request, old) ELSE <<>>] >>)

\* entities_by_uuid: the worlds, of the one it sweeps, that hold an entity of this UUID.
\* Mutated: it sweeps them all.
FoundAnywhere(u) == {d \in Dims : u \in DOMAIN entities[d]}
FoundHere(u)     == {d \in {dim} : u \in DOMAIN entities[d]}

\* Mutated: players are, and what they sit on is.
AnyEntity(u)  == TRUE
IsEditable(u) == u \notin Players \cup Ridden

HandleManipulateEntity ==
  /\ Taken("manipulate")
  /\ entities' = IF HasPerm(ENTITY_MANIPULATE) /\ IsEditable(Request.uuid)
                 THEN [d \in Dims |->
                         IF d \in FoundHere(Request.uuid)
                         THEN [entities[d] EXCEPT ![Request.uuid] = ManipulateTag(@, Request.tag)]
                         ELSE entities[d]]
                 ELSE entities
  /\ UNCHANGED <<permissionVars, controlVars, kind, dim, worlds, s2c, view, pending, kicked,
                 sent, events>>

InSpawnableBounds(at) == at \notin FarAway

\* What cannot be copied, because it is not in this world or is a player, is not.
Source(u) == IF u \in Players \/ FoundHere(u) = {} THEN <<>>
             ELSE entities[CHOOSE d \in FoundHere(u) : TRUE][u]

\* Not under a UUID in use in this world.
HandleSpawnEntity ==
  LET r   == Request
      own == SpawnTag(r.tag, Source(r.from), r.at, r.yaw)
  IN /\ Taken("spawn")
     /\ entities' = IF HasPerm(ENTITY_SPAWN) /\ FoundHere(r.uuid) = {}
                       /\ InSpawnableBounds(r.at) /\ "id" \in DOMAIN own
                    THEN [d \in Dims |->
                            IF d # dim THEN entities[d]
                            ELSE [u \in DOMAIN entities[d] \cup {r.uuid} |->
                                    IF u = r.uuid THEN own ELSE entities[d][u]]]
                    ELSE entities
     /\ UNCHANGED <<permissionVars, controlVars, kind, dim, worlds, s2c, view, pending,
                    kicked, sent, events>>

HandleControl ==
  /\ \/ Taken("gamemode") /\ SetGamemode(Request)
     \/ Taken("fly speed") /\ SetFlySpeed(Request)
     \/ Taken("world time") /\ SetWorldTime(Request, dim)
     \/ Taken("no physical trigger") /\ SetNoPhysicalTrigger(Request)
  /\ Fails(Request.type = "gamemode" /\ ~IsMode(Request.mode))
  /\ UNCHANGED <<permissionVars, kind, dim, worlds, entities, s2c, view, pending, sent, events>>

\* The host sends the world the player arrives in.
ArriveIn(d) ==
  /\ dim' = d
  /\ s2c' = IF d = dim THEN s2c
            ELSE Append(s2c, [type |-> "world", cells |-> ShownAs(worlds[d])])

HandleTeleport ==
  /\ Taken("teleport")
  /\ ArriveIn(TeleportGoal(Request, dim))
  /\ UNCHANGED <<permissionVars, controlVars, kind, worlds, entities, view, pending, kicked,
                 sent, events>>
-----------------------------------------------------------------------------
(* What happens meanwhile. *)

Event == events < MaxEvents[kind] /\ events' = events + 1

Operators ==
  /\ Event
  /\ \E own \in Rights[kind], prefer \in Preferences : Regrant(own, prefer)
  /\ UNCHANGED <<controlVars, kind, dim, worlds, entities, c2s, s2c, view, pending, kicked, sent>>

Refresh ==
  /\ UpdateRestrictions
  /\ UNCHANGED <<controlVars, kind, dim, worlds, entities, c2s, s2c, view, pending, kicked,
                 sent, events>>

Travel ==
  /\ Event
  /\ \E d \in Dims \ {dim} : ArriveIn(d)
  /\ UNCHANGED <<permissionVars, controlVars, kind, worlds, entities, c2s, view, pending, kicked, sent>>

OthersBuild ==
  /\ Event
  /\ \E stray \in Strays :
       LET w == SetBlockState(Here, stray.pos, stray.state, {"notify listeners"})
       IN /\ worlds' = [worlds EXCEPT ![dim] = w]
          /\ s2c' = s2c \o Updates(Here, w)
  /\ UNCHANGED <<permissionVars, controlVars, kind, dim, entities, c2s, view, pending, kicked, sent>>

Unload ==
  /\ Event
  /\ \E c \in OutOfView \cap Here.loaded :
       worlds' = [worlds EXCEPT ![dim].loaded = @ \ {c}]
  /\ UNCHANGED <<permissionVars, controlVars, kind, dim, entities, c2s, s2c, view, pending,
                 kicked, sent>>

Handle ==
  \/ HandleSetBlock \/ HandleSetBuffer \/ HandleBiomeBuffer \/ HandleTickBlocks
  \/ HandleRequestChunkData \/ HandleManipulateEntity \/ HandleSpawnEntity
  \/ HandleControl \/ HandleTeleport

WorldNext ==
  \/ Send \/ Receive \/ Handle
  \/ Operators \/ Refresh \/ Travel \/ OthersBuild \/ Unload

WorldSpec == WorldInit /\ [][WorldNext]_worldVars
-----------------------------------------------------------------------------
(* What a client means, stated without the code's packing, palettes and tables.  A *)
(* buffer carries the pictures it was made from: states and tags by their place.   *)

\* The one state whose place in the client's registry this id is, or none.
Meaning(id) ==
  LET named == IF old THEN {s \in 0..StateCount - 1 : ToClient[s + 1] = id}
               ELSE {id} \cap 0..StateCount - 1
  IN IF named = {} THEN NoState ELSE CHOOSE s \in named : \A t \in named : s <= t
Placed(picture, p) == p \in DOMAIN picture.ids /\ Meaning(picture.ids[p]) \notin {NoState, VoidAir}

\* Ids past a palette, the void's included, from a client that counts its states in
\* fewer bits than the server.
Distinct(picture) == Cardinality(Range(picture.ids))
                     + (IF Cardinality(DOMAIN picture.ids) < Volume THEN 1 ELSE 0)
Blurred(picture)  == /\ Distinct(picture) > 2^MaxIndirectBits
                     /\ picture.bits < EncompassingBits(StateCount)

HandledOf(type) == IF c2s # <<>> /\ c2s' = Tail(c2s) /\ Request.type = type THEN {Request} ELSE {}
There  == worlds'[dim]
Answer == s2c'[Len(s2c')]

BuildsWhatWasMeant(r) ==
  LET drawn   == Range(SubSeq(r.pictures, 1, r.whole))
      spent   == MapThenSumSet(LAMBDA p : r.sizes[p], DOMAIN r.sizes)
      tags(p) == {picture.tags[p] : picture \in {q \in drawn : Placed(q, p) /\ p \in DOMAIN q.tags}}
  IN \A p \in Cells :
       /\ There.blocks[p] =
            IF \E picture \in drawn : Placed(picture, p)
            THEN Meaning((CHOOSE picture \in drawn : Placed(picture, p)).ids[p])
            ELSE Here.blocks[p]
       /\ There.tags[p] \in tags(p) \cup {Here.tags[p], NoTag}
       /\ spent <= MaxNbt /\ HasPerm(BUILD_NBT) /\ There.blocks[p] \in Holders /\ tags(p) # {}
            => There.tags[p] \in tags(p)
       /\ There.blocks[p] = Here.blocks[p] /\ tags(p) = {} => There.tags[p] = Here.tags[p]

\* The NBT that lands in one buffer takes no more than the buffer may.
WithinBudget(r) ==
  MapThenSumSet(LAMBDA p : r.sizes[p], {p \in DOMAIN r.sizes : There.tags[p] # Here.tags[p]}) <= MaxNbt

\* The last word of a request about p, of those that name a state, if it has one.
AboutPlace(r, p) == {k \in DOMAIN r.blocks :
                       r.blocks[k].pos = p /\ Meaning(r.blocks[k].state) # NoState}
PlacesWhatWasSaid(r) ==
  HasPerm(BUILD_PLACE) /\ ListsFit(r) =>
    \A p \in Cells \cap (IF r.update THEN r.prevent ELSE Cells) :
      LET said == AboutPlace(r, p)
      IN There.blocks[p] =
           IF said = {} THEN Here.blocks[p]
           ELSE Meaning(r.blocks[CHOOSE k \in said : \A j \in said : j <= k].state)

LeavesNoneHanging(r) ==
  HasPerm(BUILD_DANGEROUS_TICK) /\ AimedAt(r.dimension) /\ RowsFit(r) =>
    \/ s2c' # s2c /\ Answer.type = "message"
    \/ \A p \in Cells \cap Range(Selected(r)) :
         Column(p) \in Here.loaded => ~Hanging(There.blocks, p)

ReadsWhatIsThere(r) ==
  /\ Range(Answer.entities) =
       {[pos |-> PackBlockPos(p), tag |-> Here.tags[p]] :
          p \in {q \in Range(r.entities) \cap Cells :
                  HasPerm(CHUNK_REQUESTBLOCKENTITY) /\ Here.tags[q] # NoTag}}
  /\ \A k \in DOMAIN r.asked :
       LET key    == r.asked[k]
           found  == {s \in Range(Answer.sections) : UnpackBlockPos(s.key) = key}
           cells  == {CellIn(key, o) : o \in Cube} \cap Cells
           names  == [p \in cells |-> ClientState(old, Here.blocks[p])]
       IN IF \A p \in cells : Here.blocks[p] = Air THEN \A s \in found : s.data = NoData
          ELSE
            /\ \A s \in found, o \in Cube :
                 ClientReads(s.data[1])[IndexOf(o[1], o[2], o[3])] = names[CellIn(key, o)]
            /\ found = {} => k > MaxSections \/ Cardinality(Range(names)) > 2^MaxIndirectBits

\* What a request needs, by what it is meant to do.
NodeOfMode == [survival  |-> PLAYER_GAMEMODE_SURVIVAL,  creative  |-> PLAYER_GAMEMODE_CREATIVE,
               adventure |-> PLAYER_GAMEMODE_ADVENTURE, spectator |-> PLAYER_GAMEMODE_SPECTATOR]
Needs == [t \in {"set block", "buffer", "biomes", "tick", "chunk data", "manipulate", "spawn",
                 "fly speed", "world time", "no physical trigger", "teleport"} |->
  CASE t = "set block"             -> BUILD_PLACE
    [] t \in {"buffer", "biomes"}  -> BUILD_SECTION
    [] t = "tick"                  -> BUILD_DANGEROUS_TICK
    [] t = "chunk data"            -> CHUNK_REQUEST
    [] t = "manipulate"            -> ENTITY_MANIPULATE
    [] t = "spawn"                 -> ENTITY_SPAWN
    [] t = "fly speed"             -> PLAYER_SPEED
    [] t = "world time"            -> WORLD_TIME
    [] t = "no physical trigger"   -> PLAYER_SETNOPHYSICALTRIGGER
    [] t = "teleport"              -> PLAYER_TELEPORT]
-----------------------------------------------------------------------------
WorldTypeOK ==
  /\ PermissionsTypeOK
  /\ kind \in Kinds /\ dim \in Dims
  /\ worlds \in [Dims -> WorldStates]
  /\ view \in [Shown -> Nat]
  /\ DOMAIN pending \subseteq Shown /\ kicked \in BOOLEAN
  /\ mode \in Range(Modes) /\ speed \in -10..10 /\ noTrigger \in BOOLEAN
  /\ clock \in [Dims -> [time: Nat, advance: BOOLEAN]]

\* When nothing is under way the client shows the world as it is, in its own ids, and
\* holds on to no prediction: whatever the server skipped, refused or placed instead
\* has been rolled back by the acknowledgement ("this has to happen even if we place
\* nothing").  A request that could not be read to its sequence ends the session.
SettledViewAgrees ==
  c2s = <<>> /\ s2c = <<>> /\ ~kicked =>
    DOMAIN pending = {} /\ view = ShownAs(worlds[dim])

\* A block buffer builds, wherever it is and whatever part of it is in memory, the
\* states and block entities the client drew and nothing else, through packing, palettes
\* and translation; and a copied section reads back as what is there.  A section past a
\* palette, drawn by a client with a narrower registry, is the exception.
SectionsTravelIntact ==
  [][ /\ \A r \in HandledOf("buffer") :
           HasPerm(BUILD_SECTION) /\ AimedAt(r.dimension) =>
             /\ (\A k \in DOMAIN r.pictures : ~Blurred(r.pictures[k])) => BuildsWhatWasMeant(r)
             /\ WithinBudget(r)
      /\ \A r \in HandledOf("chunk data") :
           HasPerm(CHUNK_REQUEST) /\ AimedAt(r.dimension) => kicked' \/ ReadsWhatIsThere(r)
    ]_worldVars

\* Placing without updates, and placing around protected positions, leaves those blocks
\* exactly as they were or as they were sent, fragile or not ("so a no-update placement
\* cannot be undone by its neighbour's update"); and ticking leaves no block hanging
\* where it was asked to tick and the world is loaded, unless the player is told.
UpdatesRunWhereWanted ==
  [][ /\ \A r \in HandledOf("set block") : PlacesWhatWasSaid(r)
      /\ \A r \in HandledOf("tick") : LeavesNoneHanging(r) ]_worldVars

\* What the painter painted is there, and in sight, once its buffer was read to the end:
\* every cell, in memory or not, has the biome drawn at its place, and its chunk is
\* shown again ("Setting a biome tells nobody").
PaintedIsShown ==
  [][ \A r \in HandledOf("biomes") :
        HasPerm(BUILD_SECTION) /\ AimedAt(r.dimension) =>
          \A p \in Painted(r) :
            /\ There.biomes[p] = BiomeNames[r.painting[p]]
            /\ ~r.broken => There.shown[p] = There.biomes[p] ]_worldVars

\* A request changes anything only with the permission for what it is meant to do, and
\* only in the dimension it names, if it names one; of a world the player is not in, no
\* block, biome, clock or entity is ever touched, whatever was on its way when it left.
OnlyWhatIsAllowed ==
  [][ \A r \in IF c2s # <<>> /\ c2s' = Tail(c2s) THEN {Request} ELSE {} :
        /\ \A d \in Dims \ {dim} : /\ worlds'[d] = worlds[d] /\ clock'[d] = clock[d]
                                  /\ entities'[d] = entities[d]
        /\ mode' # mode => HasPerm(NodeOfMode[mode'])
        /\ \/ worlds' # worlds \/ entities' # entities \/ dim' # dim
           \/ <<speed, noTrigger, clock>>' # <<speed, noTrigger, clock>>
           => /\ HasPerm(Needs[r.type])
              /\ "dimension" \in DOMAIN r => Bare[r.dimension] = Bare[dim']
    ]_worldVars
=============================================================================
