------------------------------- MODULE Sections -------------------------------
(***************************************************************************)
(* How blocks travel: section keys (src/src/buf.rs), the paletted form of  *)
(* a section (src/src/palette.rs), and the translation between a client's  *)
(* block state ids and the server's (src/src/block_remap.rs and the        *)
(* helpers of src/src/handlers.rs).  All widths are constants, so that an  *)
(* instance can be small: the code has sides of 16, words of 64 bits,      *)
(* indirect palettes of 4 to 8 bits, ids of at most 16, and positions of   *)
(* 26, 12 and 26 bits.                                                     *)
(***************************************************************************)
EXTENDS Integers, Sequences, SequencesExt

CONSTANTS
  Side,             \* of a section, in blocks
  WordBits,         \* of a packed word
  MinIndirectBits,  \* MIN_INDIRECT_BITS
  MaxIndirectBits,  \* above it a section carries ids and no palette
  MaxBits,          \* MAX_BITS
  Horizontal,       \* how many values of x, and of z, a packed position tells apart
  Vertical,         \* how many of y
  StateCount,       \* get_block_state_count of the host
  VoidAir,          \* the server's id of void_air
  ToClient          \* per server state, from 1, what an older client calls it

ASSUME SectionsAssumption ==
  /\ {Side, WordBits, MinIndirectBits, MaxIndirectBits, MaxBits} \subseteq Nat \ {0}
  /\ {Horizontal, Vertical} \subseteq Nat \ {0} /\ Horizontal % 2 = 0 /\ Vertical % 2 = 0
  /\ MinIndirectBits <= MaxIndirectBits /\ MaxIndirectBits <= MaxBits /\ MaxBits <= WordBits
  /\ StateCount \in 1..2^MaxBits
  /\ VoidAir \in 0..StateCount - 1
  /\ ToClient \in [1..StateCount -> 0..2^MaxBits - 1]

AtLeast(a, b) == IF a < b THEN b ELSE a
AtMost(a, b)  == IF a < b THEN a ELSE b

\* The members of a set by growing rank, each having one of its own.
InOrder(rank) == [k \in 1..Cardinality(DOMAIN rank) |->
  CHOOSE x \in DOMAIN rank : Cardinality({y \in DOMAIN rank : rank[y] < rank[x]}) = k - 1]
-----------------------------------------------------------------------------
(* Packed positions: x, then z, then y, each signed. *)

Signed(v, span) == IF v >= span \div 2 THEN v - span ELSE v

PackBlockPos(p) ==
  (p[1] % Horizontal) * (Horizontal * Vertical) + (p[3] % Horizontal) * Vertical + (p[2] % Vertical)

\* Mutated: the sign of y is lost.
UnsignedHeight(v) ==
  << Signed(v \div (Horizontal * Vertical), Horizontal),
     v % Vertical,
     Signed((v \div Vertical) % Horizontal, Horizontal) >>
UnpackBlockPos(v) ==
  << Signed(v \div (Horizontal * Vertical), Horizontal),
     Signed(v % Vertical, Vertical),
     Signed((v \div Vertical) % Horizontal, Horizontal) >>

MinPositionLong ==
  PackBlockPos(<<-(Horizontal \div 2), -(Vertical \div 2), -(Horizontal \div 2)>>)
-----------------------------------------------------------------------------
(* Sections of ids. *)

Volume == Side * Side * Side
IndexOf(x, y, z) == (y * Side + z) * Side + x

PerWord(bits)   == WordBits \div bits
PackedLen(bits) == (Volume + PerWord(bits) - 1) \div PerWord(bits)

\* encompassing_bits, and what direct_bits makes of the number of states.
EncompassingBits(n) == CHOOSE b \in 1..MaxBits + 1 :
  2^b >= AtLeast(n, 2) /\ \A c \in 1..b - 1 : 2^c < AtLeast(n, 2)

\* The width the words are read at.  A direct section is read at the server's own width
\* when that is the wider one.
WidthToRead(declared) ==
  IF declared <= MaxIndirectBits THEN AtLeast(declared, MinIndirectBits)
  ELSE AtMost(AtLeast(declared, EncompassingBits(StateCount)), MaxBits)

\* The entry at an index: entries fill a word from its low end and never straddle two.
Unpacked(words, bits, i) ==
  (words[i \div PerWord(bits) + 1] \div 2^((i % PerWord(bits)) * bits)) % 2^bits

\* read_section succeeds: the palette is no longer than its indices count, its ids fit,
\* there are words enough, and no index is past the palette.
Readable(s) ==
  LET bits == WidthToRead(s.bits)
  IN /\ s.bits <= MaxIndirectBits => \A id \in Range(s.palette) : id < 2^MaxBits
     /\ s.bits # 0 =>
          /\ Len(s.words) >= PackedLen(bits)
          /\ s.bits <= MaxIndirectBits =>
               /\ Len(s.palette) <= 2^bits
               /\ \A i \in 0..Volume - 1 : Unpacked(s.words, bits, i) < Len(s.palette)

ReadSection(s) ==
  LET bits   == WidthToRead(s.bits)
      raw(i) == Unpacked(s.words, bits, i)
  IN [i \in 0..Volume - 1 |->
        IF s.bits = 0 THEN s.palette[1]
        ELSE IF s.bits <= MaxIndirectBits THEN s.palette[raw(i) + 1]
        ELSE raw(i)]

\* The distinct entries by their first appearance.
PaletteOf(entries) ==
  InOrder([id \in Range(entries) |->
             CHOOSE i \in DOMAIN entries :
               entries[i] = id /\ \A j \in DOMAIN entries : entries[j] = id => i <= j])

\* The words, filled from the low end, the last of them not full when the width does not
\* divide it.
Packed(raw, bits) == [w \in 1..PackedLen(bits) |->
  LET word[k \in 0..PerWord(bits)] ==
        IF k = 0 THEN 0
        ELSE LET i == (w - 1) * PerWord(bits) + k - 1
             IN word[k - 1] + (IF i < Volume THEN raw[i] * 2^((k - 1) * bits) ELSE 0)
  IN word[PerWord(bits)]]

Slot(palette, id) == (CHOOSE k \in DOMAIN palette : palette[k] = id) - 1

Written(palette, entries, bits) ==
  [bits |-> bits, palette |-> palette,
   words |-> Packed([i \in DOMAIN entries |-> Slot(palette, entries[i])], bits)]

\* write_section_indirect, and whether it can.
FitsPalette(entries) == Len(PaletteOf(entries)) <= 2^MaxIndirectBits
WriteWidth(palette)  == AtLeast(EncompassingBits(Len(palette)), MinIndirectBits)
WriteSectionIndirect(entries) ==
  Written(PaletteOf(entries), entries, WriteWidth(PaletteOf(entries)))

\* What a client writes, and reads: one value, a palette, or the ids themselves at the
\* width its own registry of so many states takes.
ClientWrites(entries, states) ==
  LET palette == PaletteOf(entries)
      bits    == EncompassingBits(Len(palette))
  IN IF Len(palette) = 1 THEN [bits |-> 0, palette |-> palette, words |-> <<>>]
     ELSE IF bits <= MaxIndirectBits
     THEN Written(palette, entries, AtLeast(bits, MinIndirectBits))
     ELSE [bits    |-> EncompassingBits(states), palette |-> <<>>,
           words   |-> Packed(entries, EncompassingBits(states))]

ClientReads(s) ==
  [i \in 0..Volume - 1 |->
     s.palette[Unpacked(s.words, AtLeast(s.bits, MinIndirectBits), i) + 1]]
-----------------------------------------------------------------------------
(* Block state ids.  "old" says that the client needs translation. *)

NoState == -1

\* The table the generator makes of the forward one: where several server states
\* collapse onto one client state the lowest wins, and client ids whose server ids
\* differ by one constant form a run.
Origin(c)   == CHOOSE s \in 0..StateCount - 1 :
                 ToClient[s + 1] = c /\ \A t \in 0..s - 1 : ToClient[t + 1] # c
Known       == {ToClient[s] : s \in 1..StateCount}
Joins(c)    == c - 1 \in Known /\ Origin(c - 1) - (c - 1) = Origin(c) - c
RunEnd(c)   == CHOOSE d \in Known : /\ c <= d /\ \A e \in c + 1..d : e \in Known /\ Joins(e)
                                    /\ ~(d + 1 \in Known /\ Joins(d + 1))
Runs        == LET starts == InOrder([c \in {d \in Known : ~Joins(d)} |-> c])
               IN [k \in DOMAIN starts |->
                     [start |-> starts[k], len |-> RunEnd(starts[k]) - starts[k] + 1,
                      offset |-> Origin(starts[k]) - starts[k]]]

\* to_server: the last run that starts at the id or before it, if it reaches so far.
\* Mutated: that it ends is forgotten.
LastRun(id) == Cardinality({k \in DOMAIN Runs : Runs[k].start <= id})
ToServerEndless(id) ==
  IF LastRun(id) = 0 THEN NoState ELSE id + Runs[LastRun(id)].offset
ToServer(id) ==
  IF LastRun(id) = 0 \/ id >= Runs[LastRun(id)].start + Runs[LastRun(id)].len
  THEN NoState ELSE id + Runs[LastRun(id)].offset

\* server_state: translated if need be, and one this server has.
ServerState(old, id) ==
  LET s == IF old THEN ToServer(id) ELSE id
  IN IF s \in 0..StateCount - 1 THEN s ELSE NoState

\* client_state; an id past the table has none.
ClientState(old, id) ==
  IF ~old THEN id ELSE IF id < StateCount THEN ToClient[id + 1] ELSE NoState
=============================================================================
