------------------------------ MODULE BlockEdits ------------------------------
(***************************************************************************)
(* What the block tools do to a world: set_block, set_buffer's block half, *)
(* tick_blocks, and the sections that request_chunk_data reads             *)
(* (src/src/handlers.rs).  Each handler is an operator on the world it     *)
(* edits, with everything it calls; World runs them.                       *)
(*                                                                         *)
(* The host's side is external: a write outside the loaded chunks is       *)
(* dropped, a block that changes loses its block entity, and a write that  *)
(* is not marked MOVED makes fragile blocks around it fall when nothing is *)
(* under them.                                                             *)
(***************************************************************************)
EXTENDS Permissions, PermissionTable, Sections

CONSTANTS
  WorldSections,  \* the sections of a world, by their coordinates
  Fragile,        \* server states that need a block under them
  Holders,        \* server states with a block entity
  MaxCollection,  \* MAX_COLLECTION
  MaxTicked,      \* MAX_TICKED_BLOCKS
  MaxSections,    \* MAX_SECTIONS_PER_REQUEST
  MaxNbt,         \* MAX_BUFFER_NBT_BYTES
  Dictionary      \* SUPPORTED_DICTIONARY

ASSUME BlockEditsAssumption ==
  /\ WorldSections \subseteq Int \X Int \X Int
  /\ Fragile \cup Holders \subseteq 0..StateCount - 1
  /\ {MaxCollection, MaxTicked, MaxSections, MaxNbt} \subseteq Nat

Air    == 0
NoTag  == "none"
Cube   == (0..Side - 1) \X (0..Side - 1) \X (0..Side - 1)
Plus(p, q)     == <<p[1] + q[1], p[2] + q[2], p[3] + q[3]>>
CellIn(key, o) == <<key[1] * Side + o[1], key[2] * Side + o[2], key[3] * Side + o[3]>>
Cells      == {CellIn(k, o) : k \in WorldSections, o \in Cube}
Column(p)  == <<p[1] \div Side, p[3] \div Side>>
Columns    == {Column(p) : p \in Cells}
Gap(a, b)  == IF a < b THEN b - a ELSE a - b
Distance(p, q) == Gap(p[1], q[1]) + Gap(p[2], q[2]) + Gap(p[3], q[3])
-----------------------------------------------------------------------------
(* The host's world: its blocks, their block entities, the columns in memory. *)

Hanging(blocks, p) ==
  blocks[p] \in Fragile /\ Plus(p, <<0, -1, 0>>) \in Cells
                        /\ blocks[Plus(p, <<0, -1, 0>>)] = Air

SetBlockState(w, p, state, flags) ==
  IF p \notin Cells \/ Column(p) \notin w.loaded THEN w ELSE
  LET put   == [w.blocks EXCEPT ![p] = state]
      falls == IF "moved" \in flags THEN {}
               ELSE {q \in Cells : Distance(p, q) <= 1 /\ Hanging(put, q)}
      after == [q \in Cells |-> IF q \in falls THEN Air ELSE put[q]]
  IN [w EXCEPT !.blocks = after,
               !.tags   = [q \in Cells |-> IF after[q] = w.blocks[q] THEN @[q] ELSE NoTag]]

SetBlockEntity(w, p, tag) ==
  IF p \in Cells /\ Column(p) \in w.loaded /\ w.blocks[p] \in Holders
  THEN [w EXCEPT !.tags[p] = tag] ELSE w

\* LoadedChunks::ensure.  Mutated: only what is in memory can be edited.
LeaveUnloaded(w, column) == w
Ensure(w, column)        == [w EXCEPT !.loaded = @ \cup ({column} \cap Columns)]

\* placement_flags.  Mutated: without MOVED, which is what stops the neighbours.
QuietFlags(update) == {"notify listeners"} \cup
  (IF update THEN {"notify neighbors"} ELSE {"skip added", "skip entity replaced"})
PlacementFlags(update) == {"notify listeners"} \cup
  (IF update THEN {"notify neighbors"} ELSE {"moved", "skip added", "skip entity replaced"})
-----------------------------------------------------------------------------
(* axiom:set_block *)

\* Mutated: only the protected position itself counts.
AtProtected(r, p)   == r.update /\ \E q \in r.prevent : p = q
NearProtected(r, p) == r.update /\ \E q \in r.prevent : Distance(p, q) <= 1

PlaceOne(w, r, old, edit) ==
  LET state == ServerState(old, edit.state)
  IN IF state = NoState THEN w
     ELSE SetBlockState(Ensure(w, Column(edit.pos)), edit.pos, state,
                        PlacementFlags(r.update /\ ~NearProtected(r, edit.pos)))

\* The two lists are read before anything else happens.
ListsFit(r) == Len(r.blocks) <= MaxCollection
               /\ r.update => Cardinality(r.prevent) <= MaxCollection

\* Mutated: acknowledged only when something may be placed.
AckIfAllowed(r) == ListsFit(r) /\ r.sequence >= 0 /\ HasPerm(BUILD_PLACE)
Acknowledges(r) == ListsFit(r) /\ r.sequence >= 0

SetBlock(w, r, old) ==
  IF ~ListsFit(r) \/ ~HasPerm(BUILD_PLACE) THEN w
  ELSE FoldLeft(LAMBDA acc, edit : PlaceOne(acc, r, old, edit), w, r.blocks)
-----------------------------------------------------------------------------
(* axiom:set_buffer, blocks.  The packet may end, or turn out unreadable, after some *)
(* of its sections; those were applied.                                              *)

\* The cells of a section in the order the buffer's loop visits them.
Visits == [i \in 1..Volume |->
  LET n == i - 1 IN <<n % Side, n \div Side^2, (n \div Side) % Side>>]

\* The offset of a block entity: x, then y, then z.  Mutated: in the palette's order.
PaletteOffset(o) == IndexOf(o[1], o[2], o[3])
EntityOffset(o)  == o[1] + Side * (o[2] + Side * o[3])

\* apply_block_entity, charging the buffer's budget.  Mutated: only what was applied
\* counts, so a dictionary nobody knows is charged and the budget is not looked at.
ApplyUncharged(acc, p, e) ==
  IF e.dictionary # Dictionary THEN acc
  ELSE [acc EXCEPT !.world = SetBlockEntity(@, p, e.tag)]
ApplyBlockEntity(acc, p, e) ==
  IF e.dictionary # Dictionary \/ e.size > acc.left THEN acc
  ELSE [world |-> SetBlockEntity(acc.world, p, e.tag), left |-> acc.left - e.size]

\* One cell of a section: void_air, and what has no equivalent, leave it alone.
Visit(acc, key, entries, entities, o, old) ==
  LET state == ServerState(old, entries[IndexOf(o[1], o[2], o[3])])
      p     == CellIn(key, o)
      put   == [acc EXCEPT !.world = SetBlockState(@, p, state, PlacementFlags(FALSE))]
      found == {e \in entities : e.offset = EntityOffset(o)}
  IN IF state \in {NoState, VoidAir} THEN acc
     ELSE IF found = {} THEN put
     ELSE ApplyBlockEntity(put, p, CHOOSE e \in found : TRUE)

ApplySection(acc, s, old) ==
  LET key      == UnpackBlockPos(s.key)
      entries  == ReadSection(s.data)
      entities == IF HasPerm(BUILD_NBT) THEN s.entities ELSE {}
  IN FoldLeft(LAMBDA a, o : Visit(a, key, entries, entities, o, old),
              [acc EXCEPT !.world = Ensure(@, <<key[1], key[3]>>)], Visits)

\* How many sections are read: up to the sentinel, or the first that cannot be.
Legible(r) == CHOOSE n \in 0..Len(r.sections) :
  /\ \A k \in 1..n : r.sections[k].key # MinPositionLong /\ Readable(r.sections[k].data)
  /\ \/ n = Len(r.sections)
     \/ r.sections[n + 1].key = MinPositionLong \/ ~Readable(r.sections[n + 1].data)

\* A buffer that goes on without its sentinel fails.
Ends(r) == Legible(r) < Len(r.sections) /\ r.sections[Legible(r) + 1].key = MinPositionLong

SetBuffer(w, r, old) ==
  FoldLeft(LAMBDA acc, s : ApplySection(acc, s, old),
           [world |-> w, left |-> MaxNbt], SubSeq(r.sections, 1, Legible(r))).world
-----------------------------------------------------------------------------
(* axiom:tick_blocks *)

InRowOrder(o) == (o[3] * Side + o[2]) * Side + o[1]

\* All positions of a request: the rows of sections, or a box.
RowsFit(r) == r.shape = "set" => Len(r.rows) <= MaxCollection
Selected(r) ==
  IF r.shape = "set"
  THEN FlattenSeq([k \in DOMAIN r.rows |->
         [i \in 1..Cardinality(r.rows[k].set) |->
            CellIn(UnpackBlockPos(r.rows[k].key),
                   InOrder([o \in r.rows[k].set |-> InRowOrder(o)])[i])]])
  ELSE LET low(i)  == AtMost(r.a[i], r.b[i])
           high(i) == AtLeast(r.a[i], r.b[i])
       IN InOrder([p \in (low(1)..high(1)) \X (low(2)..high(2)) \X (low(3)..high(3)) |->
                     (p[1] * 1000 + p[2]) * 1000 + p[3]])

Kept(r) == SubSeq(Selected(r), 1, AtMost(Len(Selected(r)), MaxTicked))

\* The player is told of what was left out.  Mutated: one too few is not noticed.
TellsIfMore(r) == Len(Selected(r)) > MaxTicked + 1
TellsOfMore(r) == Len(Selected(r)) > Len(Kept(r))

TickOne(w, p) ==
  IF p \notin Cells \/ Column(p) \notin w.loaded \/ w.blocks[p] = Air THEN w
  ELSE SetBlockState(w, p, w.blocks[p], {"notify neighbors", "notify listeners", "force"})

TickBlocks(w, r) == FoldLeft(TickOne, w, Kept(r))
-----------------------------------------------------------------------------
(* axiom:request_chunk_data.  Responses has the splitting of an answer. *)

NoData == <<>>  \* or the one thing that is there

\* section_for_client: nothing of a section that is all air or outside the world, and
\* air for what the client has no name for.
SectionForClient(w, key, old) ==
  LET At(i) == CellIn(key, CHOOSE o \in Cube : IndexOf(o[1], o[2], o[3]) = i)
      named == [i \in 0..Volume - 1 |-> ClientState(old, w.blocks[At(i)])]
  IN IF key \notin WorldSections \/ \A o \in Cube : w.blocks[CellIn(key, o)] = Air
     THEN NoData
     ELSE << [i \in 0..Volume - 1 |-> IF named[i] = NoState THEN Air ELSE named[i]] >>

AsksLittle(r) == Len(r.positions) <= MaxCollection /\ Len(r.keys) <= MaxCollection

\* Sections past the limit are not looked at.
AskedSections(r) == SubSeq(r.keys, 1, AtMost(Len(r.keys), MaxSections))
AskedEntities(r) == IF HasPerm(CHUNK_REQUESTBLOCKENTITY) THEN r.positions ELSE <<>>

AnsweredEntities(w, r) ==
  SelectSeq([k \in DOMAIN AskedEntities(r) |->
               LET p == UnpackBlockPos(AskedEntities(r)[k])
               IN [pos |-> AskedEntities(r)[k], tag |-> IF p \in Cells THEN w.tags[p] ELSE NoTag]],
            LAMBDA entry : entry.tag # NoTag)

\* A section whose states do not fit a palette is left out of the answer.
Served(w, r, old) ==
  LET asked == AskedSections(r)
  IN SelectSeq([k \in DOMAIN asked |->
                  [key |-> asked[k], data |-> SectionForClient(w, UnpackBlockPos(asked[k]), old)]],
               LAMBDA s : s.data = NoData \/ FitsPalette(s.data[1]))
Answered(w, r, old) ==
  LET served == Served(w, r, old)
  IN [k \in DOMAIN served |->
        IF served[k].data = NoData THEN served[k]
        ELSE [key |-> served[k].key, data |-> <<WriteSectionIndirect(served[k].data[1])>>]]

\* Whatever is asked for is loaded first.
LoadAsked(w, r) ==
  LET section(key) == <<UnpackBlockPos(key)[1], UnpackBlockPos(key)[3]>>
      loaded == FoldLeft(LAMBDA acc, pos : Ensure(acc, Column(UnpackBlockPos(pos))), w, AskedEntities(r))
  IN FoldLeft(LAMBDA acc, key : Ensure(acc, section(key)), loaded, AskedSections(r))
=============================================================================
