------------------------------ MODULE BiomeEdits ------------------------------
(***************************************************************************)
(* The biome painter: apply_biome_buffer (src/src/handlers.rs), with the   *)
(* names biomes.rs knows.  Setting a biome tells nobody; a chunk is shown  *)
(* anew when refresh_biomes names it, which the handler does once, after   *)
(* the whole buffer.                                                       *)
(*                                                                         *)
(* A record of the host holds the biomes of a world, what its watchers     *)
(* were last sent of them, and the columns in memory.                      *)
(***************************************************************************)
EXTENDS Sections

CONSTANTS
  CellBlocks,   \* the side of a biome cell, in blocks
  BufferCells,  \* of a buffer's section, in cells
  BiomeCells,   \* the cells of a world, by their lowest block
  BiomeNames    \* the names from_name knows, and the biome of each

ASSUME BiomeEditsAssumption ==
  /\ {CellBlocks, BufferCells} \subseteq Nat \ {0}
  /\ BiomeCells \subseteq Int \X Int \X Int

\* The chunk of a block, as the host has it and as the handler notes it.  Mutated: as if
\* the position counted cells of four chunks.
ChunkOf(p)      == <<p[1] \div Side, p[3] \div Side>>
CoarseChunk(p)  == <<p[1] \div (Side * CellBlocks), p[3] \div (Side * CellBlocks)>>
TouchedChunk(p) == <<p[1] \div Side, p[3] \div Side>>

BufferVolume == BufferCells * BufferCells * BufferCells

\* A cell of a section by its index, x fastest, then y, then z, as a block position.
CellAt(key, i) == LET cell(k, n) == (key[k] * BufferCells + (n % BufferCells)) * CellBlocks
                  IN <<cell(1, i), cell(2, i \div BufferCells), cell(3, i \div (BufferCells * BufferCells))>>

\* What an entry paints: 0 was never set, one value means unchanged, and an entry past
\* the palette, or for a name nobody knows, is skipped.
Paints(r, entry) ==
  entry # 0 /\ entry # r.unset /\ entry <= Len(r.palette) /\ r.palette[entry] \in DOMAIN BiomeNames

\* ensure, of the chunk of a cell.  Mutated: the chunk is left as it is.
LeaveAsItIs(h, p) == h
LoadChunkOf(h, p) ==
  [h EXCEPT !.loaded = @ \cup ({TouchedChunk(p)} \cap {ChunkOf(q) : q \in BiomeCells})]

\* The host's set_biome: a write to a chunk that is not in memory is dropped.
WriteBiome(h, p, biome) ==
  [h EXCEPT !.biomes = IF p \in BiomeCells /\ ChunkOf(p) \in h.loaded
                       THEN [@ EXCEPT ![p] = biome] ELSE @]

SetBiome(h, p, biome) == WriteBiome(LoadChunkOf(h, p), p, biome)

PaintSection(h, r, s) ==
  FoldLeft(LAMBDA acc, i : IF Paints(r, s.cells[i])
                           THEN SetBiome(acc, CellAt(UnpackBlockPos(s.key), i - 1), BiomeNames[r.palette[s.cells[i]]])
                           ELSE acc,
           h, [i \in 1..BufferVolume |-> i])

\* The chunks to show again, by the positions that were set.
Touched(r) ==
  LET set(s) == {TouchedChunk(CellAt(UnpackBlockPos(s.key), i - 1)) :
                   i \in {j \in 1..BufferVolume : Paints(r, s.cells[j])}}
  IN UNION {set(r.sections[k]) : k \in DOMAIN r.sections}

RefreshBiomes(h, chunks) ==
  [h EXCEPT !.shown = [p \in BiomeCells |-> IF ChunkOf(p) \in chunks THEN h.biomes[p] ELSE @[p]]]

\* A buffer that ends before its sentinel has painted, and shows nothing.
ApplyBiomeBuffer(h, r) ==
  LET painted == FoldLeft(LAMBDA acc, s : PaintSection(acc, r, s), h, r.sections)
  IN IF r.broken THEN painted ELSE RefreshBiomes(painted, Touched(r))
=============================================================================
