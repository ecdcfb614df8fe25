---------------------------- MODULE TunnelProofs ----------------------------
(* What the tunnel reassembles, for packets of any length and limits of    *)
(* any size.                                                               *)
EXTENDS Tunnel, Integers, FoldingProofs, SequenceTheorems, TLAPS

(***************************************************************************)
(* How many frames a payload takes.                                        *)
(***************************************************************************)

\* n units in frames of c, rounded up.
LEMMA RoundedUp ==
  ASSUME NEW n \in Nat \ {0}, NEW c \in Nat \ {0}
  PROVE  LET N == (n + c - 1) \div c
         IN  N \in Nat \ {0} /\ (N - 1) * c < n /\ n <= N * c
<1> DEFINE m == n + c - 1
<1> DEFINE N == m \div c
<1>1. m \in Nat /\ c \in Nat \ {0} /\ m >= c
  OBVIOUS
<1>2. N \in Nat /\ N * c <= m /\ m < N * c + c
  <2> HIDE DEF m
  <2> QED
    BY <1>1
<1> HIDE DEF N
<1>3. N # 0
  BY <1>1, <1>2
<1>4. (N - 1) * c = N * c - c
  BY <1>1, <1>2
<1> QED
  BY <1>2, <1>3, <1>4 DEF N

\* Before frame k of N there are k - 1 full ones.
LEMMA FramesBefore ==
  ASSUME NEW c \in Nat \ {0}, NEW k \in Nat \ {0}, NEW N \in Nat, k <= N
  PROVE  /\ (k - 1) * c \in Nat /\ (k - 1) * c <= (N - 1) * c
         /\ k * c = (k - 1) * c + c
         /\ k # N => k * c <= (N - 1) * c
<1>1. N - k \in Nat
  OBVIOUS
<1>2. (N - k) * c \in Nat /\ (k - 1) * c \in Nat
  BY <1>1
<1>3. (N - k) * c = (N - 1) * c - (k - 1) * c /\ k * c = (k - 1) * c + c
  OBVIOUS
<1>4. ASSUME k # N PROVE k * c <= (N - 1) * c
  <2>1. N - 1 - k \in Nat
    BY <1>4
  <2>2. (N - 1 - k) * c \in Nat
    BY <2>1
  <2>3. (N - 1 - k) * c = (N - 1) * c - k * c
    OBVIOUS
  <2> QED
    BY <2>2, <2>3
<1> QED
  BY <1>2, <1>3, <1>4

(***************************************************************************)
(* The frames of a packet.  A piece carries units that follow one another  *)
(* in one payload; it is the first of its packet when they start it and    *)
(* the last when they end it.                                              *)
(***************************************************************************)

Size(p)    == Header + p.len
From(f)    == f.data[1][2]
Through(f) == From(f) + Len(f.data) - 1
Single(f)  == f.first /\ f.last

Piece(f) ==
  /\ PacketOf(f) \in Packets
  /\ f.data # <<>> /\ Len(f.data) < MaxFrameLen
  /\ \A i \in DOMAIN f.data : f.data[i] = <<PacketOf(f), From(f) + i - 1>>
  /\ f.first <=> From(f) = 1
  /\ f.last <=> Through(f) = Size(PacketOf(f))
  /\ Through(f) <= Size(PacketOf(f))
  /\ Single(f) \/ Len(SplitFrames(Payload(PacketOf(f)))) > 1

Follows(f, g) == PacketOf(g) = PacketOf(f) /\ From(g) = Through(f) + 1

LEMMA SizeTyped ==
  ASSUME NEW p \in Packets
  PROVE  /\ p.len \in Nat /\ Size(p) \in Nat \ {0}
         /\ Chunk \in Nat \ {0} /\ Chunk = MaxFrameLen - 1 /\ MaxFrameLen \in Nat
<1>1. p.len \in Nat
  BY TunnelAssumption DEF Packets
<1>2. Size(p) \in Nat \ {0}
  BY <1>1, TunnelAssumption DEF Size
<1>3. MaxFrameLen \in Nat /\ MaxFrameLen # 0 /\ MaxFrameLen # 1
  BY TunnelAssumption
<1> QED
  BY <1>1, <1>2, <1>3 DEF Chunk

LEMMA PayloadTyped ==
  ASSUME NEW p \in Packets
  PROVE  /\ Payload(p) \in Seq(Units) /\ Len(Payload(p)) = Size(p)
         /\ \A i \in 1 .. Size(p) : Payload(p)[i] = <<p, i>>
<1>1. Size(p) \in Nat
  BY SizeTyped
<1>2. Payload(p) = [i \in 1 .. Size(p) |-> <<p, i>>]
  BY DEF Payload, Size
<1>3. \A i \in 1 .. Size(p) : <<p, i>> \in Units
  BY <1>1 DEF Units
<1> QED
  BY <1>1, <1>2, <1>3

\* One frame of SplitFrames.
LEMMA SplitPiece ==
  ASSUME NEW p \in Packets, NEW k \in 1 .. Pieces(Size(p))
  PROVE  LET f == SplitFrames(Payload(p))[k]
         IN  /\ f \in Frames /\ Piece(f) /\ PacketOf(f) = p
             /\ From(f) = (k - 1) * Chunk + 1
             /\ f.first <=> k = 1
             /\ k # Pieces(Size(p)) => Through(f) = k * Chunk
<1> DEFINE data == Payload(p)
<1> DEFINE n == Size(p)
<1> DEFINE c == Chunk
<1> DEFINE N == Pieces(n)
<1> DEFINE f == SplitFrames(data)[k]
<1> DEFINE a == (k - 1) * c + 1
<1> DEFINE b == IF k = N THEN n ELSE k * c
<1>1. /\ n \in Nat \ {0} /\ c \in Nat \ {0} /\ c = MaxFrameLen - 1 /\ MaxFrameLen \in Nat
      /\ data \in Seq(Units) /\ Len(data) = n
      /\ \A i \in 1 .. n : data[i] = <<p, i>>
  BY SizeTyped, PayloadTyped
<1>2. N \in Nat \ {0} /\ (N - 1) * c < n /\ n <= N * c
  <2>1. N = (n + c - 1) \div c
    BY <1>1 DEF Pieces
  <2> HIDE DEF N, n, c
  <2> QED
    BY <1>1, <2>1, RoundedUp
<1>3. k \in Nat \ {0} /\ k <= N
  BY <1>2
<1>4. /\ (k - 1) * c \in Nat /\ (k - 1) * c <= (N - 1) * c
      /\ k * c = (k - 1) * c + c /\ (k # N => k * c <= (N - 1) * c)
      /\ (N - 1) * c \in Nat /\ N * c = (N - 1) * c + c
  <2> HIDE DEF N, n, c
  <2>1. /\ (k - 1) * c \in Nat /\ (k - 1) * c <= (N - 1) * c
        /\ k * c = (k - 1) * c + c /\ (k # N => k * c <= (N - 1) * c)
    BY <1>1, <1>2, <1>3, FramesBefore
  <2>2. (N - 1) * c \in Nat /\ N * c = (N - 1) * c + c
    BY <1>1, <1>2, FramesBefore, SMTT(30)
  <2> QED
    BY <2>1, <2>2
<1>5. /\ a \in 1 .. n /\ b \in a .. n /\ b - a + 1 <= c
      /\ b = n <=> k = N
      /\ k = 1 => a = 1
      /\ k # 1 => a > 1
  <2>1. k # 1 => (k - 1) * c >= c
    <3>1. k # 1 => k - 1 \in Nat \ {0}
      BY <1>3
    <3>2. k # 1 => (k - 1) * c = (k - 1 - 1) * c + c /\ (k - 1 - 1) * c \in Nat
      <4> HIDE DEF N, n, c
      <4> QED
        BY <1>1, <3>1, FramesBefore, SMTT(30)
    <3> QED
      BY <1>1, <3>2
  <2> DEFINE x == (k - 1) * c
  <2> DEFINE y == (N - 1) * c
  <2> DEFINE z == k * c
  <2>2. /\ x \in Nat /\ y \in Nat /\ z = x + c /\ x <= y /\ y < n /\ n <= y + c
        /\ k # N => z <= y
        /\ k = N => x = y
        /\ k = 1 => x = 0
        /\ k # 1 => x >= c
        /\ a = x + 1 /\ b = IF k = N THEN n ELSE z
    <3> HIDE DEF N, n, c
    <3>1. k = 1 => x = 0
      BY <1>1
    <3> QED
      BY <1>1, <1>2, <1>4, <2>1, <3>1
  <2> HIDE DEF N, n, c, x, y, z, a, b
  <2>3. CASE k = N
    BY <1>1, <2>2, <2>3
  <2>4. CASE k # N
    BY <1>1, <2>2, <2>4
  <2> QED
    BY <2>3, <2>4
<1>6. f = [first |-> k = 1, last |-> k = N, data |-> SubSeq(data, a, b)]
  BY <1>1 DEF SplitFrames
<1> DEFINE d == SubSeq(data, a, b)
<1>7. /\ d \in Seq(Units) /\ Len(d) = b - a + 1
      /\ \A i \in 1 .. Len(d) : d[i] = <<p, a + i - 1>>
  <2> HIDE DEF N, n, c, data, a, b
  <2>1. \A i \in a .. b : data[i] \in Units /\ data[i] = <<p, i>>
    BY <1>1, <1>5
  <2>2. /\ d \in Seq(Units) /\ Len(d) = b - a + 1
        /\ \A i \in 1 .. b - a + 1 : d[i] = data[a + i - 1]
    BY <1>5, <2>1, SubSeqProperties
  <2> QED
    BY <1>5, <2>1, <2>2
<1> HIDE DEF N, n, c, data, a, b, d
<1>8. d # <<>> /\ 1 \in DOMAIN d /\ d[1] = <<p, a>> /\ DOMAIN d = 1 .. Len(d)
  BY <1>5, <1>7
<1>9. /\ f.data = d /\ f.first = (k = 1) /\ f.last = (k = N) /\ f \in Frames
  BY <1>6, <1>7, SMTT(30) DEF Frames, d
<1> HIDE DEF f
<1>10. (f.first <=> k = 1) /\ (f.last <=> k = N)
  BY <1>9
<1>11. PacketOf(f) = p /\ From(f) = a /\ Through(f) = b
  BY <1>5, <1>7, <1>8, <1>9 DEF PacketOf, From, Through
<1>12. Single(f) \/ Len(SplitFrames(Payload(p))) > 1
  <2>1. Len(SplitFrames(data)) = N
    <3>1. DOMAIN SplitFrames(data) = 1 .. N
      BY <1>1 DEF SplitFrames, N
    <3>2. \E g : SplitFrames(data) = [j \in 1 .. N |-> g[j]]
      <4>1. SplitFrames(data) = [j \in 1 .. N |-> SplitFrames(data)[j]]
        BY <1>1, <3>1 DEF SplitFrames, N
      <4> QED
        BY <4>1
    <3> QED
      BY <1>2, <3>2
  <2>2. CASE N = 1
    <3>1. k = 1 /\ k = N
      BY <1>3, <2>2
    <3> QED
      BY <1>10, <3>1 DEF Single
  <2>3. CASE N > 1
    BY <2>1, <2>3 DEF data
  <2> QED
    BY <1>2, <2>2, <2>3
<1>13. Piece(f)
  <2>1. PacketOf(f) \in Packets /\ f.data # <<>> /\ Len(f.data) < MaxFrameLen
    BY <1>1, <1>5, <1>7, <1>8, <1>9, <1>11
  <2>2. \A i \in DOMAIN f.data : f.data[i] = <<PacketOf(f), From(f) + i - 1>>
    BY <1>7, <1>8, <1>9, <1>11
  <2>3. f.first <=> From(f) = 1
    BY <1>5, <1>10, <1>11
  <2>4. f.last <=> Through(f) = Size(PacketOf(f))
    BY <1>5, <1>10, <1>11 DEF n
  <2>5. Through(f) <= Size(PacketOf(f))
    BY <1>1, <1>5, <1>11 DEF n
  <2> QED
    BY <1>11, <1>12, <2>1, <2>2, <2>3, <2>4, <2>5 DEF Piece
<1>14. k # N => Through(f) = k * c
  BY <1>11 DEF b
<1> QED
  BY <1>9, <1>10, <1>11, <1>13, <1>14 DEF f, data, N, n, c, a

\* All of them.
LEMMA Splitting ==
  ASSUME NEW p \in Packets
  PROVE  LET s == SplitFrames(Payload(p))
         IN  /\ s \in Seq(Frames) /\ s # <<>> /\ Len(s) = Pieces(Size(p))
             /\ \A k \in DOMAIN s : Piece(s[k]) /\ (s[k].first <=> k = 1)
             /\ \A k \in DOMAIN s : k > 1 => Follows(s[k - 1], s[k])
             /\ Len(s) = 1 => Single(s[1])
<1> DEFINE s == SplitFrames(Payload(p))
<1> DEFINE N == Pieces(Size(p))
<1>1. N \in Nat \ {0}
  <2>1. N = (Size(p) + Chunk - 1) \div Chunk
    BY SizeTyped DEF Pieces
  <2> QED
    BY <2>1, SizeTyped, RoundedUp
<1>2. Len(Payload(p)) = Size(p)
  BY PayloadTyped
<1>3. s = [k \in 1 .. N |-> s[k]]
  BY <1>2 DEF SplitFrames
<1>4. \A k \in 1 .. N : /\ s[k] \in Frames /\ Piece(s[k]) /\ PacketOf(s[k]) = p
                        /\ From(s[k]) = (k - 1) * Chunk + 1
                        /\ s[k].first <=> k = 1
                        /\ k # N => Through(s[k]) = k * Chunk
  <2> TAKE k \in 1 .. N
  <2> QED
    BY SplitPiece
<1> HIDE DEF s, N
<1>5. s \in Seq(Frames) /\ Len(s) = N /\ DOMAIN s = 1 .. N
  BY <1>1, <1>3, <1>4
<1>6. ASSUME NEW k \in DOMAIN s, k > 1 PROVE Follows(s[k - 1], s[k])
  <2>1. k - 1 \in 1 .. N /\ k \in 1 .. N /\ k - 1 # N
    BY <1>1, <1>5, <1>6
  <2>2. /\ PacketOf(s[k - 1]) = p /\ Through(s[k - 1]) = (k - 1) * Chunk
        /\ PacketOf(s[k]) = p /\ From(s[k]) = (k - 1) * Chunk + 1
    BY <1>4, <2>1
  <2> QED
    BY <2>2 DEF Follows
<1>7. Len(s) = 1 => Single(s[1])
  <2>1. 1 \in 1 .. N /\ s[1] \in Frames
    BY <1>1, <1>4
  <2>2. Piece(s[1]) /\ PacketOf(s[1]) = p
    BY <1>4, <2>1
  <2> QED
    BY <2>2 DEF Piece, s
<1>8. \A k \in DOMAIN s : Piece(s[k]) /\ (s[k].first <=> k = 1)
  BY <1>4, <1>5
<1>9. s # <<>>
  BY <1>1, <1>5
<1> QED
  BY <1>5, <1>6, <1>7, <1>8, <1>9 DEF s, N

(***************************************************************************)
(* The ways out of push.                                                   *)
(***************************************************************************)

LEMMA ExtendedIs ==
  ASSUME NEW held, NEW skips, NEW f
  PROVE  \/ /\ Len(held) + Len(f.data) > MaxPendingLen
            /\ Extended(held, skips, f) = Outcome(<<>>, FALSE, <<>>, TRUE)
         \/ /\ ~(Len(held) + Len(f.data) > MaxPendingLen)
            /\ f.last
            /\ Extended(held, skips, f) = Decoded(<<>>, skips, held \o f.data)
         \/ /\ ~(Len(held) + Len(f.data) > MaxPendingLen)
            /\ ~f.last
            /\ Extended(held, skips, f) = Outcome(held \o f.data, skips, <<>>, FALSE)
BY DEF Extended

LEMMA DecodedIs ==
  ASSUME NEW held, NEW skips, NEW data
  PROVE  \/ Decodable(data) /\ Decoded(held, skips, data) = Outcome(held, skips, <<data>>, FALSE)
         \/ ~Decodable(data) /\ Decoded(held, skips, data) = Outcome(held, skips, <<>>, TRUE)
BY DEF Decoded

LEMMA PushIs ==
  ASSUME NEW held \in Seq(Units), NEW skips \in BOOLEAN, NEW f \in Frames
  PROVE  \/ /\ Len(f.data) + 1 > MaxFrameLen
            /\ Push(held, skips, f) = Outcome(held, skips, <<>>, TRUE)
         \/ /\ Single(f)
            /\ Push(held, skips, f) = Decoded(held, skips, f.data)
         \/ /\ f.first /\ ~Single(f)
            /\ Push(held, skips, f) = Extended(<<>>, FALSE, f)
         \/ /\ ~f.first /\ (skips \/ held = <<>>)
            /\ Push(held, skips, f) = Outcome(held, TRUE, <<>>, FALSE)
         \/ /\ ~f.first /\ ~skips /\ held # <<>>
            /\ Push(held, skips, f) = Extended(held, FALSE, f)
<1>1. f.first \in BOOLEAN /\ f.last \in BOOLEAN
  BY DEF Frames
<1>2. CASE Len(f.data) + 1 > MaxFrameLen
  <2>1. Push(held, skips, f) = Outcome(held, skips, <<>>, TRUE)
    BY <1>2 DEF Push
  <2> QED
    BY <1>2, <2>1, Zenon
<1>3. CASE ~(Len(f.data) + 1 > MaxFrameLen) /\ Single(f)
  <2>1. Push(held, skips, f) = Decoded(held, skips, f.data)
    BY <1>3 DEF Push, Single
  <2> QED
    BY <1>3, <2>1, Zenon
<1>4. CASE ~(Len(f.data) + 1 > MaxFrameLen) /\ f.first /\ ~Single(f)
  <2>1. Push(held, skips, f) = Extended(<<>>, FALSE, f)
    BY <1>4 DEF Push, Single
  <2> QED
    BY <1>4, <2>1, Zenon
<1>5. CASE ~(Len(f.data) + 1 > MaxFrameLen) /\ ~f.first /\ skips
  <2>1. Push(held, skips, f) = Outcome(held, skips, <<>>, FALSE)
    BY <1>5 DEF Push
  <2>2. skips = TRUE
    BY <1>5
  <2> QED
    BY <1>5, <2>1, <2>2, Zenon
<1>6. CASE ~(Len(f.data) + 1 > MaxFrameLen) /\ ~f.first /\ ~skips /\ held = <<>>
  <2>1. Push(held, skips, f) = Outcome(held, TRUE, <<>>, FALSE)
    BY <1>6 DEF Push
  <2> QED
    BY <1>6, <2>1, Zenon
<1>7. CASE ~(Len(f.data) + 1 > MaxFrameLen) /\ ~f.first /\ ~skips /\ held # <<>>
  <2>1. Push(held, skips, f) = Extended(held, skips, f)
    BY <1>7 DEF Push
  <2>2. skips = FALSE
    BY <1>7
  <2> QED
    BY <1>7, <2>1, <2>2, Zenon
<1> QED
  BY <1>2, <1>3, <1>4, <1>5, <1>6, <1>7, Zenon

LEMMA OutcomeIs ==
  ASSUME NEW held, NEW skips, NEW done, NEW refused
  PROVE  /\ Outcome(held, skips, done, refused).pending = held
         /\ Outcome(held, skips, done, refused).skipping = skips
         /\ Outcome(held, skips, done, refused).done = done
         /\ Outcome(held, skips, done, refused).refused = refused
BY DEF Outcome

OutcomeTyped(out) ==
  /\ out.pending \in Seq(Units) /\ Len(out.pending) <= MaxPendingLen
  /\ out.skipping \in BOOLEAN /\ (out.skipping => out.pending = <<>>)
  /\ out.done \in Seq(Seq(Units)) /\ out.refused \in BOOLEAN

LEMMA PushTyped ==
  ASSUME NEW held \in Seq(Units), Len(held) <= MaxPendingLen,
         NEW skips \in BOOLEAN, skips => held = <<>>, NEW f \in Frames
  PROVE  OutcomeTyped(Push(held, skips, f))
<1>1. MaxPendingLen \in Nat /\ f.data \in Seq(Units)
  BY TunnelAssumption DEF Frames
<1>2. /\ <<>> \in Seq(Units) /\ Len(<<>>) = 0 /\ <<>> \in Seq(Seq(Units))
      /\ \A data \in Seq(Units) : <<data>> \in Seq(Seq(Units))
  OBVIOUS
<1>3. ASSUME NEW h \in Seq(Units), Len(h) <= MaxPendingLen, NEW b \in BOOLEAN, b => h = <<>>,
             NEW data \in Seq(Units)
      PROVE  /\ OutcomeTyped(Decoded(h, b, data))
             /\ \A r \in BOOLEAN : OutcomeTyped(Outcome(h, b, <<>>, r))
  <2>1. \A r \in BOOLEAN : \A done \in Seq(Seq(Units)) : OutcomeTyped(Outcome(h, b, done, r))
    BY <1>3, OutcomeIs DEF OutcomeTyped
  <2> QED
    BY <1>2, <2>1, DecodedIs
<1>4. ASSUME NEW h \in Seq(Units) PROVE OutcomeTyped(Extended(h, FALSE, f))
  <2>5. Len(<<>>) <= MaxPendingLen
    BY <1>1
  <2>1. h \o f.data \in Seq(Units) /\ Len(h \o f.data) = Len(h) + Len(f.data)
    BY <1>1
  <2>2. OutcomeTyped(Outcome(<<>>, FALSE, <<>>, TRUE))
    BY <1>2, <1>3, <2>5, Zenon
  <2>3. OutcomeTyped(Decoded(<<>>, FALSE, h \o f.data))
    BY <1>2, <1>3, <2>5, <2>1, Zenon
  <2>4. ~(Len(h) + Len(f.data) > MaxPendingLen)
          => OutcomeTyped(Outcome(h \o f.data, FALSE, <<>>, FALSE))
    <3>1. ~(Len(h) + Len(f.data) > MaxPendingLen) => Len(h \o f.data) <= MaxPendingLen
      BY <1>1, <2>1
    <3> QED
      BY <1>1, <1>3, <2>1, <3>1, Zenon
  <2> QED
    BY <2>2, <2>3, <2>4, ExtendedIs, Zenon
<1>5. \A r \in BOOLEAN : OutcomeTyped(Outcome(held, skips, <<>>, r))
  BY <1>1, <1>3
<1>6. OutcomeTyped(Decoded(held, skips, f.data))
  BY <1>1, <1>3
<1>7. skips \/ held = <<>> => OutcomeTyped(Outcome(held, TRUE, <<>>, FALSE))
  BY <1>3
<1>8. OutcomeTyped(Extended(<<>>, FALSE, f)) /\ OutcomeTyped(Extended(held, FALSE, f))
  BY <1>2, <1>4
<1> QED
  BY <1>5, <1>6, <1>7, <1>8, PushIs, Zenon

(***************************************************************************)
(* Frames arrive in the order of their packet.                             *)
(***************************************************************************)

\* g continues what is held back.
Resumes(held, g) == held[1][1] = PacketOf(g) /\ Len(held) + 1 = From(g)

\* Strictly between a and b the frames of q are packets of their own.
SinglesIn(q, a, b) == \A l \in DOMAIN q : a < l /\ l < b => Single(q[l])

\* g, at position i of q or behind its end, comes right after the frame it follows,
\* packets of a single frame aside; or it resumes what is held back; or the
\* beginning of its packet is lost and nothing is held back when it arrives.
Reached(held, q, i, g) ==
  \/ \E j \in DOMAIN q : j < i /\ Follows(q[j], g) /\ SinglesIn(q, j, i)
  \/ SinglesIn(q, 0, i) /\ (held = <<>> \/ Resumes(held, g))

HoldsBeginning(held) ==
  held # <<>> =>
    /\ held[1][1] \in Packets
    /\ \A i \in DOMAIN held : held[i] = <<held[1][1], i>>
    /\ Len(held) < Size(held[1][1])

ChannelInOrder ==
  \A i \in DOMAIN channel :
    /\ Piece(channel[i])
    /\ ~channel[i].first => Reached(pending, channel, i, channel[i])

OutgoingInOrder ==
  \A i \in DOMAIN outgoing :
    /\ Piece(outgoing[i])
    /\ i > 1 => Follows(outgoing[i - 1], outgoing[i])
    /\ i = 1 /\ ~outgoing[i].first => Reached(pending, channel, Len(channel) + 1, outgoing[i])

FramesInOrder == HoldsBeginning(pending) /\ ChannelInOrder /\ OutgoingInOrder

\* The last piece has none that follows it.
LEMMA NoneFollowsTheLast ==
  ASSUME NEW f \in Frames, NEW g \in Frames, Piece(f), Piece(g), Follows(f, g)
  PROVE  ~f.last
<1>1. f.data \in Seq(Units) /\ g.data \in Seq(Units)
  BY DEF Frames
<1>2. f.data # <<>> /\ g.data # <<>>
  BY DEF Piece
<1>3. Len(f.data) \in Nat \ {0} /\ Len(g.data) \in Nat \ {0} /\ f.data[1] \in Units /\ g.data[1] \in Units
  BY <1>1, <1>2
<1>4. From(f) \in Nat /\ From(g) \in Nat /\ Size(PacketOf(f)) \in Nat
  BY <1>3, SizeTyped DEF Units, From, Piece
<1>5. Through(f) \in Int /\ Through(g) >= From(g)
  BY <1>3, <1>4 DEF Through
<1>6. From(g) = Through(f) + 1 /\ Through(g) <= Size(PacketOf(f)) /\ Through(g) \in Int
  BY <1>3, <1>4, SMTT(30) DEF Follows, Piece, Through
<1>7. Through(f) # Size(PacketOf(f))
  BY <1>4, <1>5, <1>6
<1> QED
  BY <1>7 DEF Piece

LEMMA SinglesOfTail ==
  ASSUME NEW q \in Seq(Frames), q # <<>>, NEW a \in Nat, NEW b \in Nat, SinglesIn(q, a, b)
  PROVE  SinglesIn(Tail(q), a - 1, b - 1)
<1>1. SUFFICES ASSUME NEW l \in DOMAIN Tail(q), a - 1 < l, l < b - 1
               PROVE  Single(Tail(q)[l])
  BY DEF SinglesIn
<1>2. l \in Nat /\ l + 1 \in DOMAIN q /\ Tail(q)[l] = q[l + 1] /\ a < l + 1 /\ l + 1 < b
  BY <1>1
<1> QED
  BY <1>2 DEF SinglesIn

\* One frame is handled: what was reached still is.
LEMMA ReachedAfterHead ==
  ASSUME NEW q \in Seq(Frames), q # <<>>, NEW held, NEW new,
         NEW i \in Nat, i > 1, NEW g \in Frames, Piece(g), Piece(q[1]),
         Reached(held, q, i, g),
         Single(q[1]) => new = held,
         ~q[1].last /\ Follows(q[1], g) => new = <<>> \/ Resumes(new, g)
  PROVE  Reached(new, Tail(q), i - 1, g)
<1>1. 1 \in DOMAIN q /\ q[1] \in Frames /\ DOMAIN q = 1 .. Len(q) /\ Len(q) \in Nat
  OBVIOUS
<1>2. CASE \E j \in DOMAIN q : j < i /\ Follows(q[j], g) /\ SinglesIn(q, j, i)
  <2>1. PICK j \in DOMAIN q : j < i /\ Follows(q[j], g) /\ SinglesIn(q, j, i)
    BY <1>2
  <2>2. j \in Nat \ {0} /\ SinglesIn(Tail(q), j - 1, i - 1)
    BY <2>1, <1>1, SinglesOfTail
  <2>3. CASE j = 1
    <3>1. new = <<>> \/ Resumes(new, g)
      BY <1>1, <2>1, <2>3, NoneFollowsTheLast
    <3>2. SinglesIn(Tail(q), 0, i - 1)
      BY <2>2, <2>3
    <3> QED
      BY <3>1, <3>2 DEF Reached
  <2>4. CASE j # 1
    <3>1. j - 1 \in DOMAIN Tail(q) /\ Tail(q)[j - 1] = q[j] /\ j - 1 < i - 1
      BY <1>1, <2>1, <2>2, <2>4
    <3> QED
      BY <2>1, <2>2, <3>1 DEF Reached
  <2> QED
    BY <2>3, <2>4
<1>3. CASE SinglesIn(q, 0, i) /\ (held = <<>> \/ Resumes(held, g))
  <2>1. Single(q[1])
    BY <1>1, <1>3 DEF SinglesIn
  <2>2. SinglesIn(q, 1, i)
    BY <1>3, <1>1 DEF SinglesIn
  <2>3. SinglesIn(Tail(q), 0, i - 1)
    BY <2>2, SinglesOfTail
  <2> QED
    BY <1>3, <2>1, <2>3 DEF Reached
<1> QED
  BY <1>2, <1>3 DEF Reached

\* A frame is sent behind it.
LEMMA ReachedStays ==
  ASSUME NEW q \in Seq(Frames), NEW f \in Frames, NEW held,
         NEW i \in 1 .. Len(q) + 1, NEW g, Reached(held, q, i, g)
  PROVE  Reached(held, Append(q, f), i, g)
<1>1. /\ DOMAIN q = 1 .. Len(q) /\ Len(q) \in Nat /\ DOMAIN Append(q, f) = 1 .. Len(q) + 1
      /\ \A l \in DOMAIN q : Append(q, f)[l] = q[l]
  OBVIOUS
<1>2. \A a \in Nat : SinglesIn(q, a, i) => SinglesIn(Append(q, f), a, i)
  <2>1. \A l \in DOMAIN Append(q, f) : l < i => l \in DOMAIN q
    BY <1>1
  <2> QED
    BY <1>1, <2>1 DEF SinglesIn
<1>3. CASE \E j \in DOMAIN q : j < i /\ Follows(q[j], g) /\ SinglesIn(q, j, i)
  <2>1. PICK j \in DOMAIN q : j < i /\ Follows(q[j], g) /\ SinglesIn(q, j, i)
    BY <1>3
  <2>2. j \in DOMAIN Append(q, f) /\ j \in Nat /\ Append(q, f)[j] = q[j]
    BY <1>1
  <2> QED
    BY <1>2, <2>1, <2>2 DEF Reached
<1>4. CASE SinglesIn(q, 0, i) /\ (held = <<>> \/ Resumes(held, g))
  BY <1>2, <1>4 DEF Reached
<1> QED
  BY <1>3, <1>4 DEF Reached

\* A packet of a single frame is sent in between.
LEMMA ReachedPastSingle ==
  ASSUME NEW q \in Seq(Frames), NEW f \in Frames, Single(f), NEW held, NEW g,
         Reached(held, q, Len(q) + 1, g)
  PROVE  Reached(held, Append(q, f), Len(q) + 2, g)
<1>1. /\ DOMAIN q = 1 .. Len(q) /\ Len(q) \in Nat /\ DOMAIN Append(q, f) = 1 .. Len(q) + 1
      /\ \A l \in DOMAIN q : Append(q, f)[l] = q[l]
      /\ Append(q, f)[Len(q) + 1] = f
  OBVIOUS
<1>2. \A a \in Nat : SinglesIn(q, a, Len(q) + 1) => SinglesIn(Append(q, f), a, Len(q) + 2)
  BY <1>1 DEF SinglesIn
<1>3. CASE \E j \in DOMAIN q : j < Len(q) + 1 /\ Follows(q[j], g) /\ SinglesIn(q, j, Len(q) + 1)
  <2>1. PICK j \in DOMAIN q : Follows(q[j], g) /\ SinglesIn(q, j, Len(q) + 1)
    BY <1>3
  <2>2. j \in DOMAIN Append(q, f) /\ j \in Nat /\ Append(q, f)[j] = q[j] /\ j < Len(q) + 2
    BY <1>1
  <2> QED
    BY <1>2, <2>1, <2>2 DEF Reached
<1>4. CASE SinglesIn(q, 0, Len(q) + 1) /\ (held = <<>> \/ Resumes(held, g))
  BY <1>2, <1>4 DEF Reached
<1> QED
  BY <1>3, <1>4 DEF Reached

\* The frame it follows is sent.
LEMMA ReachedNext ==
  ASSUME NEW q \in Seq(Frames), NEW f \in Frames, NEW held, NEW g, Follows(f, g)
  PROVE  Reached(held, Append(q, f), Len(q) + 2, g)
<1>1. /\ Len(q) \in Nat /\ DOMAIN Append(q, f) = 1 .. Len(q) + 1
      /\ Append(q, f)[Len(q) + 1] = f
  OBVIOUS
<1>2. SinglesIn(Append(q, f), Len(q) + 1, Len(q) + 2)
  BY <1>1 DEF SinglesIn
<1>3. Len(q) + 1 \in DOMAIN Append(q, f) /\ Len(q) + 1 < Len(q) + 2
  BY <1>1
<1> QED
  BY <1>1, <1>2, <1>3 DEF Reached

\* Nothing is held back any more.
LEMMA ReachedCleared ==
  ASSUME NEW held, NEW q, NEW i, NEW g, Reached(held, q, i, g)
  PROVE  Reached(<<>>, q, i, g)
BY DEF Reached

(***************************************************************************)
(* What push makes of a frame that arrives in order.                       *)
(***************************************************************************)

\* d is everything of a packet up to the end of its piece f.
UpTo(d, f) ==
  /\ d \in Seq(Units) /\ Len(d) = Through(f) /\ d # <<>>
  /\ \A i \in 1 .. Len(d) : d[i] = <<PacketOf(f), i>>

InOrder(held, f) == ~f.first => held = <<>> \/ Resumes(held, f)

\* A completed payload is the whole of its packet's.
WholePayload(d) == d[1][1] \in Packets /\ d = Payload(d[1][1])

Handled(held, f, out) ==
  /\ HoldsBeginning(out.pending)
  /\ Single(f) => out.pending = held
  /\ \A g \in Frames : ~f.last /\ Follows(f, g) => out.pending = <<>> \/ Resumes(out.pending, g)
  /\ out.refused => ~Acceptable(PacketOf(f))
  /\ \A i \in DOMAIN out.done : WholePayload(out.done[i])

LEMMA PieceTyped ==
  ASSUME NEW f \in Frames, Piece(f)
  PROVE  /\ f.data \in Seq(Units) /\ f.data # <<>> /\ Len(f.data) \in Nat \ {0}
         /\ DOMAIN f.data = 1 .. Len(f.data)
         /\ PacketOf(f) \in Packets /\ Size(PacketOf(f)) \in Nat \ {0}
         /\ From(f) \in Nat \ {0} /\ Through(f) \in Nat \ {0}
<1>1. f.data \in Seq(Units) /\ f.data # <<>>
  BY DEF Frames, Piece
<1>2. Len(f.data) \in Nat \ {0} /\ DOMAIN f.data = 1 .. Len(f.data) /\ f.data[1] \in Units
  BY <1>1
<1>3. PacketOf(f) \in Packets /\ Size(PacketOf(f)) \in Nat \ {0}
  BY SizeTyped DEF Piece
<1>4. From(f) \in Nat \ {0}
  BY <1>2 DEF Units, From
<1>5. Through(f) \in Nat \ {0}
  BY <1>2, <1>4 DEF Through
<1> QED
  BY <1>1, <1>2, <1>3, <1>4, <1>5

\* The first piece of a packet is everything up to its end.
LEMMA FirstIsUpTo ==
  ASSUME NEW f \in Frames, Piece(f), f.first
  PROVE  UpTo(f.data, f) /\ UpTo(<<>> \o f.data, f)
<1>1. /\ f.data \in Seq(Units) /\ f.data # <<>> /\ Len(f.data) \in Nat \ {0}
      /\ DOMAIN f.data = 1 .. Len(f.data)
  BY PieceTyped
<1>2. From(f) = 1 /\ \A i \in DOMAIN f.data : f.data[i] = <<PacketOf(f), From(f) + i - 1>>
  BY DEF Piece
<1>3. Len(f.data) = Through(f)
  BY <1>1, <1>2 DEF Through
<1>4. \A i \in 1 .. Len(f.data) : f.data[i] = <<PacketOf(f), i>>
  <2> TAKE i \in 1 .. Len(f.data)
  <2>1. From(f) + i - 1 = i
    BY <1>2
  <2> QED
    BY <1>1, <1>2, <2>1
<1>5. <<>> \o f.data = f.data
  BY <1>1, ConcatEmptySeq
<1> QED
  BY <1>1, <1>3, <1>4, <1>5 DEF UpTo

\* A piece that resumes what is held back makes it everything up to its end.
LEMMA ResumedIsUpTo ==
  ASSUME NEW held \in Seq(Units), held # <<>>, HoldsBeginning(held),
         NEW f \in Frames, Piece(f), Resumes(held, f)
  PROVE  UpTo(held \o f.data, f)
<1>1. /\ f.data \in Seq(Units) /\ Len(f.data) \in Nat \ {0} /\ From(f) \in Nat \ {0}
      /\ DOMAIN f.data = 1 .. Len(f.data)
  BY PieceTyped
<1>2. \A i \in DOMAIN f.data : f.data[i] = <<PacketOf(f), From(f) + i - 1>>
  BY DEF Piece
<1>3. Len(held) \in Nat \ {0} /\ DOMAIN held = 1 .. Len(held)
  OBVIOUS
<1>4. From(f) = Len(held) + 1 /\ \A i \in 1 .. Len(held) : held[i] = <<PacketOf(f), i>>
  BY <1>1, <1>3 DEF Resumes, HoldsBeginning
<1> DEFINE d == held \o f.data
<1>5. /\ d \in Seq(Units) /\ Len(d) = Len(held) + Len(f.data)
      /\ \A i \in 1 .. Len(d) : d[i] = IF i <= Len(held) THEN held[i] ELSE f.data[i - Len(held)]
  BY <1>1, <1>3, ConcatProperties
<1> HIDE DEF d
<1>6. Len(d) = Through(f) /\ Len(d) \in Nat \ {0}
  <2>1. From(f) = Len(held) + 1 /\ Len(d) = Len(held) + Len(f.data)
    BY <1>4, <1>5
  <2> DEFINE n == Len(f.data)
  <2> DEFINE h == Len(held)
  <2>2. n \in Nat \ {0} /\ h \in Nat /\ From(f) = h + 1 /\ Len(d) = h + n
    BY <1>1, <1>3, <2>1
  <2>3. Through(f) = From(f) + n - 1
    BY DEF Through
  <2> HIDE DEF n, h
  <2> QED
    BY <2>2, <2>3
<1>7. ASSUME NEW i \in 1 .. Len(d) PROVE d[i] = <<PacketOf(f), i>>
  <2>1. CASE i <= Len(held)
    <3>1. i \in 1 .. Len(held)
      BY <1>3, <2>1
    <3>2. d[i] = held[i]
      BY <1>5, <2>1
    <3> QED
      BY <1>4, <3>1, <3>2
  <2>2. CASE ~(i <= Len(held))
    <3> DEFINE j == i - Len(held)
    <3>1. j \in DOMAIN f.data /\ From(f) + j - 1 = i
      BY <1>1, <1>3, <1>4, <1>5, <2>2
    <3>2. d[i] = f.data[j]
      BY <1>5, <2>2
    <3> QED
      BY <1>2, <3>1, <3>2
  <2> QED
    BY <2>1, <2>2
<1>8. d # <<>>
  BY <1>5, <1>6
<1> QED
  BY <1>5, <1>6, <1>7, <1>8 DEF UpTo, d

\* Up to the end of a last piece it is the payload, and decoding fails for the
\* declared length alone.
LEMMA UpToTheLast ==
  ASSUME NEW f \in Frames, Piece(f), f.last, NEW d, UpTo(d, f)
  PROVE  /\ WholePayload(d)
         /\ Decodable(d) \/ ~Acceptable(PacketOf(f))
<1> DEFINE p == PacketOf(f)
<1>1. p \in Packets /\ Size(p) \in Nat \ {0} /\ Through(f) = Size(p) /\ p.len \in Nat
  BY PieceTyped, SizeTyped DEF Piece
<1>2. d \in Seq(Units) /\ Len(d) = Size(p) /\ \A i \in 1 .. Size(p) : d[i] = <<p, i>>
  BY <1>1 DEF UpTo
<1>3. /\ Payload(p) \in Seq(Units) /\ Len(Payload(p)) = Size(p)
      /\ \A i \in 1 .. Size(p) : Payload(p)[i] = <<p, i>>
  BY <1>1, PayloadTyped
<1>4. d = Payload(p)
  BY <1>2, <1>3, SeqEqual
<1>5. d[1][1] = p
  BY <1>1, <1>2
<1>6. Len(d) >= Header
  BY <1>1, <1>2, TunnelAssumption DEF Size
<1>7. Declared(d) = p.len
  BY <1>5 DEF Declared
<1> QED
  BY <1>1, <1>4, <1>5, <1>6, <1>7 DEF WholePayload, Decodable, Acceptable

\* Up to the end of any other piece it is the beginning of the packet, which the
\* next piece resumes.
LEMMA UpToAnother ==
  ASSUME NEW f \in Frames, Piece(f), ~f.last, NEW d, UpTo(d, f)
  PROVE  HoldsBeginning(d) /\ \A g \in Frames : Follows(f, g) => Resumes(d, g)
<1>1. /\ PacketOf(f) \in Packets /\ Size(PacketOf(f)) \in Nat \ {0} /\ Through(f) \in Nat \ {0}
      /\ Through(f) < Size(PacketOf(f))
  BY PieceTyped DEF Piece
<1>2. /\ d \in Seq(Units) /\ Len(d) = Through(f) /\ DOMAIN d = 1 .. Len(d)
      /\ \A i \in 1 .. Len(d) : d[i] = <<PacketOf(f), i>>
  BY DEF UpTo
<1>3. d[1][1] = PacketOf(f)
  BY <1>1, <1>2
<1> QED
  BY <1>1, <1>2, <1>3 DEF HoldsBeginning, Resumes, Follows

LEMMA OutcomeHandled ==
  ASSUME NEW held, NEW f, NEW h, NEW skips, NEW done, NEW refused,
         HoldsBeginning(h), Single(f) => h = held,
         \A g \in Frames : ~f.last /\ Follows(f, g) => h = <<>> \/ Resumes(h, g),
         refused => ~Acceptable(PacketOf(f)),
         \A i \in DOMAIN done : WholePayload(done[i])
  PROVE  Handled(held, f, Outcome(h, skips, done, refused))
<1> DEFINE out == Outcome(h, skips, done, refused)
<1>1. out.pending = h /\ out.done = done /\ out.refused = refused
  BY OutcomeIs
<1> HIDE DEF out
<1>2. Handled(held, f, out)
  BY <1>1 DEF Handled
<1> QED
  BY <1>2 DEF out

\* Nothing is held back, nothing comes out.
LEMMA EmptyHandled ==
  ASSUME NEW held, NEW f, NEW skips, NEW refused, Single(f) => held = <<>>,
         refused => ~Acceptable(PacketOf(f))
  PROVE  Handled(held, f, Outcome(<<>>, skips, <<>>, refused))
<1>1. HoldsBeginning(<<>>) /\ \A i \in DOMAIN <<>> : WholePayload(<<>>[i])
  BY DEF HoldsBeginning
<1> QED
  BY <1>1, OutcomeHandled, Zenon

\* A payload is complete.
LEMMA DecodedHandled ==
  ASSUME NEW held, NEW f, NEW h, NEW skips, NEW d, f.last,
         HoldsBeginning(h), Single(f) => h = held,
         WholePayload(d), Decodable(d) \/ ~Acceptable(PacketOf(f))
  PROVE  Handled(held, f, Decoded(h, skips, d))
<1>1. /\ \A i \in DOMAIN <<d>> : WholePayload(<<d>>[i])
      /\ \A i \in DOMAIN <<>> : WholePayload(<<>>[i])
  <2> DEFINE one == <<d>>
  <2>1. DOMAIN one = {1} /\ one[1] = d
    OBVIOUS
  <2>2. DOMAIN <<>> = {}
    OBVIOUS
  <2> HIDE DEF one
  <2>3. \A i \in DOMAIN one : WholePayload(one[i])
    BY <2>1
  <2> QED
    BY <2>2, <2>3 DEF one
<1>2. CASE Decodable(d) /\ Decoded(h, skips, d) = Outcome(h, skips, <<d>>, FALSE)
  <2>1. Handled(held, f, Outcome(h, skips, <<d>>, FALSE))
    BY <1>1, OutcomeHandled, Zenon
  <2> QED
    BY <1>2, <2>1, Zenon
<1>3. CASE ~Decodable(d) /\ Decoded(h, skips, d) = Outcome(h, skips, <<>>, TRUE)
  <2>1. Handled(held, f, Outcome(h, skips, <<>>, TRUE))
    BY <1>1, <1>3, OutcomeHandled, Zenon
  <2> QED
    BY <1>3, <2>1, Zenon
<1> QED
  BY <1>2, <1>3, DecodedIs, Zenon

\* What Extended makes of it, where combined is everything up to the end of f.
LEMMA ExtendedHandled ==
  ASSUME NEW h \in Seq(Units), NEW held, NEW f \in Frames, Piece(f), ~Single(f), UpTo(h \o f.data, f)
  PROVE  Handled(held, f, Extended(h, FALSE, f))
<1> DEFINE d == h \o f.data
<1>1. Len(d) = Len(h) + Len(f.data) /\ f.data \in Seq(Units)
  BY PieceTyped
<1>2. UpTo(d, f)
  OBVIOUS
<1>3. CASE Len(h) + Len(f.data) > MaxPendingLen /\ Extended(h, FALSE, f) = Outcome(<<>>, FALSE, <<>>, TRUE)
  <2>1. Through(f) > MaxPendingLen /\ Through(f) <= Size(PacketOf(f))
    BY <1>1, <1>2, <1>3 DEF UpTo, Piece
  <2>2. Header + PacketOf(f).len > MaxPendingLen
    <3>1. MaxPendingLen \in Nat /\ Through(f) \in Nat /\ Size(PacketOf(f)) \in Nat
      BY PieceTyped, TunnelAssumption
    <3> QED
      BY <2>1, <3>1 DEF Size
  <2>3. Len(SplitFrames(Payload(PacketOf(f)))) > 1
    BY DEF Piece
  <2>4. ~Acceptable(PacketOf(f))
    <3>1. MaxPendingLen \in Nat /\ Header + PacketOf(f).len \in Nat
      BY PieceTyped, TunnelAssumption DEF Size
    <3>2. ~(Header + PacketOf(f).len <= MaxPendingLen)
      BY <2>2, <3>1
    <3> QED
      BY <2>3, <3>2 DEF Acceptable
  <2>5. Handled(held, f, Outcome(<<>>, FALSE, <<>>, TRUE))
    BY <2>4, EmptyHandled, Zenon
  <2> QED
    BY <1>3, <2>5, Zenon
<1>4. CASE f.last /\ Extended(h, FALSE, f) = Decoded(<<>>, FALSE, d)
  <2>1. WholePayload(d) /\ (Decodable(d) \/ ~Acceptable(PacketOf(f)))
    BY <1>2, <1>4, UpToTheLast
  <2>2. HoldsBeginning(<<>>)
    BY DEF HoldsBeginning
  <2>3. Handled(held, f, Decoded(<<>>, FALSE, d))
    BY <1>4, <2>1, <2>2, DecodedHandled, Zenon
  <2> QED
    BY <1>4, <2>3, Zenon
<1>5. CASE ~f.last /\ Extended(h, FALSE, f) = Outcome(d, FALSE, <<>>, FALSE)
  <2>1. HoldsBeginning(d) /\ \A g \in Frames : Follows(f, g) => Resumes(d, g)
    BY <1>2, <1>5, UpToAnother
  <2>2. \A i \in DOMAIN <<>> : WholePayload(<<>>[i])
    OBVIOUS
  <2>3. Handled(held, f, Outcome(d, FALSE, <<>>, FALSE))
    BY <2>1, <2>2, OutcomeHandled, Zenon
  <2> QED
    BY <1>5, <2>3, Zenon
<1> QED
  BY <1>3, <1>4, <1>5, ExtendedIs

LEMMA PushHandles ==
  ASSUME NEW held \in Seq(Units), HoldsBeginning(held), NEW skips \in BOOLEAN,
         skips => held = <<>>, NEW f \in Frames, Piece(f), InOrder(held, f)
  PROVE  Handled(held, f, Push(held, skips, f))
<1>1. ~(Len(f.data) + 1 > MaxFrameLen)
  BY PieceTyped, TunnelAssumption DEF Piece
<1>2. CASE Single(f) /\ Push(held, skips, f) = Decoded(held, skips, f.data)
  <2>1. f.first /\ f.last
    BY <1>2 DEF Single
  <2>2. WholePayload(f.data) /\ (Decodable(f.data) \/ ~Acceptable(PacketOf(f)))
    BY <2>1, FirstIsUpTo, UpToTheLast
  <2>3. Handled(held, f, Decoded(held, skips, f.data))
    BY <2>1, <2>2, DecodedHandled, Zenon
  <2> QED
    BY <1>2, <2>3, Zenon
<1>3. CASE f.first /\ ~Single(f) /\ Push(held, skips, f) = Extended(<<>>, FALSE, f)
  <2>1. <<>> \in Seq(Units) /\ UpTo(<<>> \o f.data, f)
    BY <1>3, FirstIsUpTo
  <2>2. Handled(held, f, Extended(<<>>, FALSE, f))
    BY <1>3, <2>1, ExtendedHandled
  <2> QED
    BY <1>3, <2>2
<1>4. CASE ~f.first /\ (skips \/ held = <<>>) /\ Push(held, skips, f) = Outcome(held, TRUE, <<>>, FALSE)
  <2>1. ~Single(f)
    BY <1>4 DEF Single
  <2>2. Handled(held, f, Outcome(<<>>, TRUE, <<>>, FALSE))
    BY <2>1, EmptyHandled, Zenon
  <2>3. held = <<>>
    BY <1>4
  <2> QED
    BY <1>4, <2>2, <2>3, Zenon
<1>5. CASE ~f.first /\ ~skips /\ held # <<>> /\ Push(held, skips, f) = Extended(held, FALSE, f)
  <2>1. ~Single(f)
    BY <1>5 DEF Single
  <2>2. UpTo(held \o f.data, f)
    BY <1>5, ResumedIsUpTo DEF InOrder
  <2> QED
    BY <1>5, <2>1, <2>2, ExtendedHandled
<1> QED
  BY <1>1, <1>2, <1>3, <1>4, <1>5, PushIs

(***************************************************************************)
(* The invariants.                                                         *)
(***************************************************************************)

\* TypeOK is inductive: push keeps the buffer within MaxPendingLen, and clears it
\* before anything is skipped.
LEMMA NothingTyped ==
  /\ <<>> \in Seq(Units) /\ Len(<<>>) <= MaxPendingLen /\ <<>> \in Seq(Frames)
  /\ <<>> \in Seq(Seq(Units)) /\ FALSE \in BOOLEAN
<1>1. MaxPendingLen \in Nat /\ Len(<<>>) = 0
  BY TunnelAssumption
<1> QED
  BY <1>1

LEMMA TypeStep ==
  ASSUME TypeOK, [Next]_vars
  PROVE  TypeOK'
<1>1. CASE HandleFrame
  <2>1. channel # <<>> /\ Head(channel) \in Frames /\ Tail(channel) \in Seq(Frames)
    BY <1>1 DEF TypeOK, HandleFrame
  <2> DEFINE out == Push(pending, skipping, Head(channel))
  <2>2. OutcomeTyped(out)
    BY <2>1, PushTyped DEF TypeOK
  <2>3. /\ pending' = out.pending /\ skipping' = out.skipping /\ got' = out.done
        /\ kicked' = out.refused /\ channel' = Tail(channel)
        /\ outgoing' = outgoing /\ epoch' = epoch
    BY <1>1 DEF HandleFrame
  <2> HIDE DEF out
  <2> QED
    BY <2>1, <2>2, <2>3 DEF TypeOK, OutcomeTyped
<1>2. CASE Reset
  <2>1. /\ pending' = <<>> /\ skipping' = FALSE /\ got' = <<>> /\ epoch' = ~epoch
        /\ UNCHANGED <<outgoing, channel, kicked>>
    BY <1>2 DEF Reset
  <2>2. epoch' \in BOOLEAN
    BY <2>1
  <2> QED
    BY <2>1, <2>2, NothingTyped DEF TypeOK
<1>3. CASE Reconnect
  <2>1. /\ pending' = <<>> /\ skipping' = FALSE /\ got' = <<>> /\ epoch' = ~epoch
        /\ outgoing' = <<>> /\ channel' = <<>> /\ kicked' = FALSE
    BY <1>3 DEF Reconnect
  <2>2. epoch' \in BOOLEAN
    BY <2>1
  <2> QED
    BY <2>1, <2>2, NothingTyped DEF TypeOK
<1>4. CASE \E p \in Unused : Start(p)
  <2>1. PICK p \in Packets : Start(p)
    BY <1>4 DEF Unused
  <2>2. SplitFrames(Payload(p)) \in Seq(Frames)
    BY Splitting
  <2> QED
    BY <2>1, <2>2 DEF Start, TypeOK
<1>5. CASE \E p \in Unused : SendSingle(p)
  <2>1. PICK p \in Packets : SendSingle(p)
    BY <1>5 DEF Unused
  <2> DEFINE s == SplitFrames(Payload(p))
  <2>2. s[1] \in Frames
    <3>1. s \in Seq(Frames) /\ s # <<>>
      BY Splitting
    <3> HIDE DEF s
    <3> QED
      BY <3>1
  <2>3. channel' = Append(channel, s[1]) /\ got' = <<>>
        /\ UNCHANGED <<pending, skipping, outgoing, kicked, epoch>>
    BY <2>1 DEF SendSingle
  <2> HIDE DEF s
  <2> QED
    BY <2>2, <2>3 DEF TypeOK
<1>6. CASE SendFrame
  BY <1>6 DEF SendFrame, TypeOK
<1>7. CASE Abandon
  BY <1>7 DEF Abandon, TypeOK
<1>8. CASE UNCHANGED vars
  BY <1>8 DEF vars, TypeOK
<1> QED
  BY <1>1, <1>2, <1>3, <1>4, <1>5, <1>6, <1>7, <1>8 DEF Next, ClientStep

\* Whatever frames arrive, the buffer of Tunnel::push stays within MAX_PENDING_LEN,
\* and is empty while the rest of a packet is skipped; every variable has its type.
THEOREM TypeCorrect == Spec => []TypeOK
<1>1. Init => TypeOK
  BY NothingTyped DEF Init, TypeOK
<1>2. TypeOK /\ [Next]_vars => TypeOK'
  BY TypeStep
<1> QED
  BY <1>1, <1>2, PTL DEF Spec

\* HandleFrame: the frame handled is in order, and push made something of it.
LEMMA HandleFrameHandles ==
  ASSUME TypeOK, FramesInOrder, HandleFrame
  PROVE  LET f == channel[1]
             out == Push(pending, skipping, f)
         IN  /\ channel # <<>> /\ f \in Frames /\ Piece(f) /\ Head(channel) = f
             /\ Handled(pending, f, out)
             /\ pending' = out.pending /\ got' = out.done /\ kicked' = out.refused
             /\ channel' = Tail(channel) /\ outgoing' = outgoing
<1> DEFINE f == channel[1]
<1> DEFINE out == Push(pending, skipping, f)
<1>1. channel # <<>> /\ f \in Frames /\ 1 \in DOMAIN channel /\ Head(channel) = f
  BY DEF HandleFrame, TypeOK
<1>2. Piece(f) /\ (~f.first => Reached(pending, channel, 1, f))
  BY <1>1 DEF FramesInOrder, ChannelInOrder
<1>3. InOrder(pending, f)
  <2>1. \A j \in DOMAIN channel : ~(j < 1)
    BY DEF TypeOK
  <2> QED
    BY <1>2, <2>1 DEF InOrder, Reached
<1>4. Handled(pending, f, out)
  BY <1>1, <1>2, <1>3, PushHandles DEF TypeOK, FramesInOrder
<1>5. /\ pending' = out.pending /\ got' = out.done /\ kicked' = out.refused
      /\ channel' = Tail(channel) /\ outgoing' = outgoing
  BY <1>1 DEF HandleFrame
<1> QED
  BY <1>1, <1>2, <1>4, <1>5

LEMMA HandleFrameKeepsOrder ==
  ASSUME TypeOK, FramesInOrder, HandleFrame
  PROVE  FramesInOrder'
<1> DEFINE f == channel[1]
<1> DEFINE out == Push(pending, skipping, f)
<1>1. /\ channel # <<>> /\ f \in Frames /\ Piece(f)
      /\ Handled(pending, f, out) /\ pending' = out.pending
      /\ channel' = Tail(channel) /\ outgoing' = outgoing
  BY HandleFrameHandles
<1>2. /\ HoldsBeginning(pending') /\ (Single(f) => pending' = pending)
      /\ \A g \in Frames : ~f.last /\ Follows(f, g) => pending' = <<>> \/ Resumes(pending', g)
  <2> HIDE DEF out
  <2> QED
    BY <1>1 DEF Handled
<1>3. /\ channel \in Seq(Frames) /\ outgoing \in Seq(Frames) /\ Len(channel) \in Nat \ {0}
      /\ Len(channel') = Len(channel) - 1
      /\ DOMAIN channel = 1 .. Len(channel)
      /\ \A i \in DOMAIN channel' : i + 1 \in DOMAIN channel /\ channel'[i] = channel[i + 1]
  BY <1>1 DEF TypeOK
<1>4. ASSUME NEW i \in Nat, i > 1, NEW g \in Frames, Piece(g), Reached(pending, channel, i, g)
      PROVE  Reached(pending', channel', i - 1, g)
  BY <1>1, <1>2, <1>3, <1>4, ReachedAfterHead
<1> HIDE DEF f, out
<1>5. ASSUME NEW i \in DOMAIN channel'
      PROVE  /\ Piece(channel'[i])
             /\ ~channel'[i].first => Reached(pending', channel', i, channel'[i])
  <2> DEFINE g == channel[i + 1]
  <2>1. i + 1 \in DOMAIN channel /\ i \in Nat \ {0} /\ g \in Frames /\ channel'[i] = g
    BY <1>3, <1>5
  <2>2. Piece(g) /\ (~g.first => Reached(pending, channel, i + 1, g))
    BY <2>1 DEF FramesInOrder, ChannelInOrder
  <2> HIDE DEF g
  <2>3. ~g.first => Reached(pending', channel', i + 1 - 1, g)
    BY <1>4, <2>1, <2>2
  <2>4. i + 1 - 1 = i
    BY <2>1
  <2> QED
    BY <2>1, <2>2, <2>3, <2>4
<1>6. ASSUME NEW i \in DOMAIN outgoing, i = 1, ~outgoing[i].first
      PROVE  Reached(pending', channel', Len(channel') + 1, outgoing[i])
  <2> DEFINE g == outgoing[1]
  <2>1. g \in Frames /\ Piece(g) /\ Reached(pending, channel, Len(channel) + 1, g)
    BY <1>3, <1>6 DEF FramesInOrder, OutgoingInOrder
  <2> HIDE DEF g
  <2>2. Reached(pending', channel', Len(channel) + 1 - 1, g)
    BY <1>3, <1>4, <2>1
  <2>3. Len(channel) + 1 - 1 = Len(channel') + 1
    BY <1>3
  <2> QED
    BY <1>6, <2>2, <2>3 DEF g
<1>7. ChannelInOrder'
  BY <1>5 DEF ChannelInOrder
<1>8. OutgoingInOrder'
  BY <1>1, <1>6 DEF FramesInOrder, OutgoingInOrder
<1> QED
  BY <1>2, <1>7, <1>8 DEF FramesInOrder

\* The buffer and the skip flag are cleared where a session starts over.
LEMMA ResetKeepsOrder ==
  ASSUME FramesInOrder, pending' = <<>>, channel' = channel, outgoing' = outgoing
  PROVE  FramesInOrder'
<1>1. HoldsBeginning(pending')
  BY DEF HoldsBeginning
<1>2. \A i, g : Reached(pending, channel, i, g) => Reached(pending', channel', i, g)
  BY ReachedCleared
<1>3. ChannelInOrder'
  BY <1>2 DEF FramesInOrder, ChannelInOrder
<1>4. OutgoingInOrder'
  BY <1>2 DEF FramesInOrder, OutgoingInOrder
<1> QED
  BY <1>1, <1>3, <1>4 DEF FramesInOrder

\* A frame of the client goes out: the next one of its packet, or one of a packet
\* of its own.
LEMMA SendKeepsChannel ==
  ASSUME TypeOK, FramesInOrder, NEW f \in Frames, Piece(f),
         ~f.first => Reached(pending, channel, Len(channel) + 1, f),
         channel' = Append(channel, f), pending' = pending
  PROVE  ChannelInOrder'
<1>1. /\ channel \in Seq(Frames) /\ Len(channel) \in Nat
      /\ DOMAIN channel = 1 .. Len(channel)
      /\ DOMAIN channel' = 1 .. Len(channel) + 1
      /\ \A i \in DOMAIN channel : channel'[i] = channel[i]
      /\ channel'[Len(channel) + 1] = f
  BY DEF TypeOK
<1>2. ASSUME NEW i \in DOMAIN channel'
      PROVE  /\ Piece(channel'[i])
             /\ ~channel'[i].first => Reached(pending', channel', i, channel'[i])
  <2>1. i \in 1 .. Len(channel) + 1
    BY <1>1, <1>2
  <2>2. \A g : Reached(pending, channel, i, g) => Reached(pending', channel', i, g)
    BY <1>1, <2>1, ReachedStays
  <2>3. CASE i \in DOMAIN channel
    BY <1>1, <2>2, <2>3 DEF FramesInOrder, ChannelInOrder
  <2>4. CASE i = Len(channel) + 1
    BY <1>1, <2>2, <2>4
  <2> QED
    BY <1>1, <2>1, <2>3, <2>4
<1> QED
  BY <1>2 DEF ChannelInOrder

LEMMA SendFrameKeepsOrder ==
  ASSUME TypeOK, FramesInOrder, SendFrame
  PROVE  FramesInOrder'
<1> DEFINE f == outgoing[1]
<1>1. /\ channel \in Seq(Frames) /\ outgoing \in Seq(Frames) /\ outgoing # <<>>
      /\ f \in Frames /\ 1 \in DOMAIN outgoing
      /\ channel' = Append(channel, f) /\ outgoing' = Tail(outgoing) /\ pending' = pending
  BY DEF SendFrame, TypeOK
<1>2. Piece(f) /\ (~f.first => Reached(pending, channel, Len(channel) + 1, f))
  BY <1>1 DEF FramesInOrder, OutgoingInOrder
<1>3. ChannelInOrder'
  <2> HIDE DEF f
  <2> QED
    BY <1>1, <1>2, SendKeepsChannel
<1>4. /\ DOMAIN outgoing = 1 .. Len(outgoing) /\ Len(outgoing) \in Nat
      /\ \A i \in DOMAIN outgoing' : i \in Nat \ {0} /\ i + 1 \in DOMAIN outgoing /\ outgoing'[i] = outgoing[i + 1]
  BY <1>1
<1>5. ASSUME NEW i \in DOMAIN outgoing'
      PROVE  /\ Piece(outgoing'[i])
             /\ i > 1 => Follows(outgoing'[i - 1], outgoing'[i])
             /\ i = 1 => Follows(f, outgoing'[i])
  <2>1. i \in Nat \ {0} /\ i + 1 \in DOMAIN outgoing /\ outgoing'[i] = outgoing[i + 1]
    BY <1>4, <1>5
  <2>2. Piece(outgoing[i + 1]) /\ Follows(outgoing[i + 1 - 1], outgoing[i + 1])
    BY <2>1 DEF FramesInOrder, OutgoingInOrder
  <2>3. i + 1 - 1 = i
    BY <2>1
  <2>4. i > 1 => outgoing'[i - 1] = outgoing[i]
    <3>1. i > 1 => i - 1 \in DOMAIN outgoing'
      BY <1>1, <1>4, <1>5, <2>1
    <3> QED
      BY <1>4, <2>1, <3>1
  <2> QED
    BY <2>1, <2>2, <2>3, <2>4
<1>6. Len(channel') + 1 = Len(channel) + 2
  BY <1>1
<1>7. \A g : Follows(f, g) => Reached(pending', channel', Len(channel') + 1, g)
  <2> HIDE DEF f
  <2> QED
    BY <1>1, <1>6, ReachedNext
<1>8. OutgoingInOrder'
  BY <1>5, <1>7 DEF OutgoingInOrder
<1> QED
  BY <1>1, <1>3, <1>8 DEF FramesInOrder

LEMMA SendSingleKeepsOrder ==
  ASSUME TypeOK, FramesInOrder, NEW p \in Packets, SendSingle(p)
  PROVE  FramesInOrder'
<1> DEFINE s == SplitFrames(Payload(p))
<1> DEFINE f == s[1]
<1>1. /\ channel' = Append(channel, f) /\ pending' = pending /\ outgoing' = outgoing /\ Len(s) = 1
  BY DEF SendSingle
<1>2. s \in Seq(Frames) /\ (\A k \in DOMAIN s : Piece(s[k])) /\ Single(f)
  BY <1>1, Splitting
<1>3. f \in Frames /\ Piece(f)
  <2> HIDE DEF s
  <2> QED
    BY <1>1, <1>2
<1> HIDE DEF f, s
<1>4. ChannelInOrder'
  BY <1>1, <1>2, <1>3, SendKeepsChannel DEF Single
<1>5. channel \in Seq(Frames) /\ Len(channel') + 1 = Len(channel) + 2
  BY <1>1, <1>3 DEF TypeOK
<1>6. \A g : Reached(pending, channel, Len(channel) + 1, g)
               => Reached(pending', channel', Len(channel') + 1, g)
  BY <1>1, <1>2, <1>3, <1>5, ReachedPastSingle
<1>7. OutgoingInOrder'
  BY <1>1, <1>6 DEF FramesInOrder, OutgoingInOrder
<1> QED
  BY <1>1, <1>4, <1>7 DEF FramesInOrder

LEMMA StartKeepsOrder ==
  ASSUME TypeOK, FramesInOrder, NEW p \in Packets, Start(p)
  PROVE  FramesInOrder'
<1> DEFINE s == SplitFrames(Payload(p))
<1>1. outgoing' = s /\ channel' = channel /\ pending' = pending
  BY DEF Start
<1>2. /\ \A k \in DOMAIN s : Piece(s[k]) /\ (s[k].first <=> k = 1)
      /\ \A k \in DOMAIN s : k > 1 => Follows(s[k - 1], s[k])
  BY Splitting
<1> HIDE DEF s
<1>3. OutgoingInOrder'
  BY <1>1, <1>2 DEF OutgoingInOrder
<1>4. ChannelInOrder'
  BY <1>1 DEF FramesInOrder, ChannelInOrder
<1> QED
  BY <1>1, <1>3, <1>4 DEF FramesInOrder

LEMMA NothingInOrder ==
  ASSUME pending = <<>>, channel = <<>>, outgoing = <<>>
  PROVE  FramesInOrder
BY DEF FramesInOrder, HoldsBeginning, ChannelInOrder, OutgoingInOrder

LEMMA OrderStep ==
  ASSUME TypeOK, FramesInOrder, [Next]_vars
  PROVE  FramesInOrder'
<1>1. CASE HandleFrame
  BY <1>1, HandleFrameKeepsOrder
<1>2. CASE Reset
  BY <1>2, ResetKeepsOrder DEF Reset
<1>3. CASE Reconnect
  <2>1. pending' = <<>> /\ channel' = <<>> /\ outgoing' = <<>>
    BY <1>3 DEF Reconnect
  <2> QED
    BY <2>1 DEF FramesInOrder, HoldsBeginning, ChannelInOrder, OutgoingInOrder
<1>4. CASE \E p \in Unused : Start(p)
  BY <1>4, StartKeepsOrder DEF Unused
<1>5. CASE \E p \in Unused : SendSingle(p)
  BY <1>5, SendSingleKeepsOrder DEF Unused
<1>6. CASE SendFrame
  BY <1>6, SendFrameKeepsOrder
<1>7. CASE Abandon
  <2>1. outgoing' = <<>> /\ channel' = channel /\ pending' = pending
    BY <1>7 DEF Abandon
  <2>2. ChannelInOrder'
    BY <2>1 DEF FramesInOrder, ChannelInOrder
  <2> QED
    BY <2>1, <2>2 DEF FramesInOrder, OutgoingInOrder
<1>8. CASE UNCHANGED vars
  BY <1>8 DEF vars, FramesInOrder, ChannelInOrder, OutgoingInOrder
<1> QED
  BY <1>1, <1>2, <1>3, <1>4, <1>5, <1>6, <1>7, <1>8 DEF Next, ClientStep

\* The frames on their way are in the order of their packets, whatever was
\* abandoned, skipped, overtaken or forgotten by a reset before them.
THEOREM InOrderAlways == Spec => []FramesInOrder
<1>1. Init => FramesInOrder
  BY NothingInOrder DEF Init
<1>2. TypeOK /\ FramesInOrder /\ [Next]_vars => FramesInOrder'
  BY OrderStep
<1> QED
  BY <1>1, <1>2, TypeCorrect, PTL DEF Spec

\* What Tunnel::pending holds is the beginning of one packet, without gaps or
\* repetitions and short of its end: nothing of an abandoned or skipped packet is
\* left in front of it or inside it.
THEOREM HoldsOneBeginningAlways == Spec => []HoldsOneBeginning
<1>1. TypeOK /\ FramesInOrder => HoldsOneBeginning
  <2> SUFFICES ASSUME TypeOK, HoldsBeginning(pending), pending # <<>>
               PROVE  IsStrictPrefix(pending, Payload(pending[1][1]))
    BY DEF FramesInOrder, HoldsOneBeginning
  <2> DEFINE p == pending[1][1]
  <2>1. /\ p \in Packets /\ pending \in Seq(Units) /\ DOMAIN pending = 1 .. Len(pending)
        /\ Len(pending) \in Nat /\ Len(pending) < Size(p) /\ Size(p) \in Nat
        /\ \A i \in 1 .. Len(pending) : pending[i] = <<p, i>>
    BY SizeTyped DEF TypeOK, HoldsBeginning
  <2>2. /\ Payload(p) \in Seq(Units) /\ Len(Payload(p)) = Size(p)
        /\ \A i \in 1 .. Size(p) : Payload(p)[i] = <<p, i>>
    BY <2>1, PayloadTyped
  <2> DEFINE pre == SubSeq(Payload(p), 1, Len(pending))
  <2> HIDE DEF p
  <2>3. \A i \in 1 .. Len(pending) : Payload(p)[i] \in Units
    BY <2>1, <2>2
  <2>4. /\ pre \in Seq(Units) /\ Len(pre) = Len(pending)
        /\ \A i \in 1 .. Len(pending) : pre[i] = Payload(p)[i]
    BY <2>1, <2>2
  <2> HIDE DEF pre
  <2>5. pre = pending
    <3>1. \A i \in 1 .. Len(pending) : i \in 1 .. Size(p)
      BY <2>1
    <3>2. \A i \in 1 .. Len(pending) : pre[i] = pending[i]
      BY <2>1, <2>2, <2>4, <3>1, Zenon
    <3> QED
      BY <2>1, <2>4, <3>2, SeqEqual
  <2>6. SubSeq(pending, 1, Len(pending)) = pending
    BY <2>1, SubSeqFull
  <2>7. Len(pending) <= Len(Payload(p)) /\ pending # Payload(p)
    BY <2>1, <2>2
  <2>8. IsStrictPrefix(pending, Payload(p))
    BY <2>5, <2>6, <2>7 DEF IsStrictPrefix, IsPrefix, pre
  <2> QED
    BY <2>8 DEF p
<1> QED
  BY <1>1, TypeCorrect, InOrderAlways, PTL

\* Every payload that Tunnel::push hands to the handlers.
OnlyWholePackets == \A i \in DOMAIN got : WholePayload(got[i])

\* What Tunnel::push hands to the handlers is the whole payload of one packet: never
\* one with a frame missing, doubled, or taken from another packet.
THEOREM OnlyWholePacketsAlways == Spec => []OnlyWholePackets
<1>1. Init => OnlyWholePackets
  BY DEF Init, OnlyWholePackets
<1>2. ASSUME TypeOK, FramesInOrder, OnlyWholePackets, [Next]_vars
      PROVE  OnlyWholePackets'
  <2>1. CASE HandleFrame
    <3> DEFINE out == Push(pending, skipping, channel[1])
    <3>1. Handled(pending, channel[1], out) /\ got' = out.done
      BY <1>2, <2>1, HandleFrameHandles
    <3> HIDE DEF out
    <3> QED
      BY <3>1 DEF Handled, OnlyWholePackets
  <2>2. CASE got' = <<>>
    BY <2>2 DEF OnlyWholePackets
  <2>3. CASE UNCHANGED vars
    BY <1>2, <2>3 DEF vars, OnlyWholePackets
  <2> QED
    BY <1>2, <2>1, <2>2, <2>3
       DEF Next, ClientStep, Reset, Reconnect, Start, SendSingle, SendFrame, Abandon
<1> QED
  BY <1>1, <1>2, TypeCorrect, InOrderAlways, PTL DEF Spec

\* A client that splits its packets as split_frames does is kicked for a packet that
\* is too large, and never for a frame, nor for what was sent before it.
THEOREM RefusedForSizeAlways == Spec => RefusedForSize
<1>1. ASSUME TypeOK, FramesInOrder, [Next]_vars, ~kicked, kicked'
      PROVE  ~Acceptable(PacketOf(Head(channel)))
  <2>1. HandleFrame
    BY <1>1 DEF Next, ClientStep, Reset, Reconnect, Start, SendSingle, SendFrame, Abandon, vars
  <2> DEFINE out == Push(pending, skipping, channel[1])
  <2>2. Handled(pending, channel[1], out) /\ kicked' = out.refused /\ Head(channel) = channel[1]
    BY <1>1, <2>1, HandleFrameHandles
  <2> HIDE DEF out
  <2> QED
    BY <1>1, <2>2 DEF Handled
<1>2. TypeOK /\ FramesInOrder /\ [Next]_vars
        => [~kicked /\ kicked' => ~Acceptable(PacketOf(Head(channel)))]_vars
  BY <1>1
<1> QED
  BY <1>2, TypeCorrect, InOrderAlways, PTL DEF Spec, RefusedForSize

(***************************************************************************)
(* Tunnel implements PacketStream.                                         *)
(*                                                                         *)
(* The frames of a packet are on their way, or still unsent, in the order  *)
(* of its payload, and each packet has a first frame once; no packet goes  *)
(* on behind the beginning of another.  That and FramesInOrder make of     *)
(* what is to come a queue.                                                *)
(***************************************************************************)

\* The frames on their way and those that follow them.
Line == channel \o outgoing

Begins(f) == f.first /\ ~f.last

\* Of two frames of one packet the later one starts behind the earlier one.
Rising(q) == \A i, j \in DOMAIN q :
  i < j /\ PacketOf(q[i]) = PacketOf(q[j]) => Through(q[i]) < From(q[j])

\* A packet of several frames ends those that were sent before it.
Apart(q) == \A i, l, j \in DOMAIN q :
  i < l /\ l < j /\ Begins(q[l]) => PacketOf(q[i]) # PacketOf(q[j])

HeldIs(held, p) == held # <<>> /\ held[1][1] = p

ApartFrom(held, q) == \A l, j \in DOMAIN q :
  l < j /\ Begins(q[l]) => ~HeldIs(held, PacketOf(q[j]))

InTurn(held, q) == Rising(q) /\ Apart(q) /\ ApartFrom(held, q)

LineInTurn == InTurn(pending, Line)

LEMMA InTurnPrefix ==
  ASSUME NEW held, NEW q \in Seq(Frames), NEW r \in Seq(Frames), InTurn(held, q),
         Len(r) <= Len(q), \A i \in 1 .. Len(r) : r[i] = q[i]
  PROVE  InTurn(held, r) /\ InTurn(<<>>, r)
<1>1. \A i \in DOMAIN r : i \in DOMAIN q /\ r[i] = q[i]
  OBVIOUS
<1>2. Rising(r)
  BY <1>1, Zenon DEF InTurn, Rising
<1>3. Apart(r)
  BY <1>1, Zenon DEF InTurn, Apart
<1>4. ApartFrom(held, r) /\ ApartFrom(<<>>, r)
  BY <1>1, Zenon DEF InTurn, ApartFrom, HeldIs
<1> QED
  BY <1>2, <1>3, <1>4 DEF InTurn

\* The head is taken, and what is held back is the same, nothing, or of its packet.
LEMMA InTurnTail ==
  ASSUME NEW held, NEW new, NEW q \in Seq(Frames), q # <<>>, InTurn(held, q),
         new = <<>> \/ new = held \/ new[1][1] = PacketOf(q[1])
  PROVE  InTurn(new, Tail(q))
<1> DEFINE r == Tail(q)
<1>1. \A i \in DOMAIN r : i \in Nat \ {0} /\ i + 1 \in DOMAIN q /\ r[i] = q[i + 1]
  OBVIOUS
<1>2. \A i, j \in Nat : i < j => i + 1 < j + 1
  OBVIOUS
<1>3. \A i \in Nat \ {0} : 1 < i + 1
  OBVIOUS
<1>4. 1 \in DOMAIN q
  OBVIOUS
<1> HIDE DEF r
<1>5. Rising(r)
  <2> SUFFICES ASSUME NEW i \in DOMAIN r, NEW j \in DOMAIN r, i < j,
                      PacketOf(r[i]) = PacketOf(r[j])
               PROVE  Through(r[i]) < From(r[j])
    BY Zenon DEF Rising
  <2>1. i + 1 \in DOMAIN q /\ j + 1 \in DOMAIN q /\ i + 1 < j + 1
        /\ r[i] = q[i + 1] /\ r[j] = q[j + 1]
    BY <1>1, <1>2
  <2> QED
    BY <2>1, Zenon DEF InTurn, Rising
<1>6. Apart(r)
  <2> SUFFICES ASSUME NEW i \in DOMAIN r, NEW l \in DOMAIN r, NEW j \in DOMAIN r, i < l, l < j,
                      Begins(r[l])
               PROVE  PacketOf(r[i]) # PacketOf(r[j])
    BY Zenon DEF Apart
  <2>1. /\ i + 1 \in DOMAIN q /\ l + 1 \in DOMAIN q /\ j + 1 \in DOMAIN q
        /\ i + 1 < l + 1 /\ l + 1 < j + 1
        /\ r[i] = q[i + 1] /\ r[l] = q[l + 1] /\ r[j] = q[j + 1]
    BY <1>1, <1>2
  <2> QED
    BY <2>1, Zenon DEF InTurn, Apart
<1>7. ApartFrom(new, r)
  <2> SUFFICES ASSUME NEW l \in DOMAIN r, NEW j \in DOMAIN r, l < j, Begins(r[l]),
                      HeldIs(new, PacketOf(r[j]))
               PROVE  FALSE
    BY Zenon DEF ApartFrom
  <2>1. /\ l + 1 \in DOMAIN q /\ j + 1 \in DOMAIN q /\ l + 1 < j + 1 /\ 1 < l + 1
        /\ r[l] = q[l + 1] /\ r[j] = q[j + 1]
    BY <1>1, <1>2, <1>3
  <2>2. CASE new = <<>>
    BY <2>2 DEF HeldIs
  <2>3. CASE new = held
    BY <2>1, <2>3, Zenon DEF InTurn, ApartFrom
  <2>4. CASE new[1][1] = PacketOf(q[1])
    <3>1. PacketOf(q[1]) = PacketOf(q[j + 1])
      BY <2>1, <2>4 DEF HeldIs
    <3> QED
      BY <1>4, <2>1, <3>1, Zenon DEF InTurn, Apart
  <2> QED
    BY <2>2, <2>3, <2>4
<1> QED
  BY <1>5, <1>6, <1>7 DEF InTurn, r

\* A packet nobody uses yet, of a single frame, is sent ahead of some frames.
LEMMA InTurnWithSingle ==
  ASSUME NEW held, NEW a \in Seq(Frames), NEW b \in Seq(Frames), InTurn(held, a \o b),
         NEW f \in Frames, Single(f), ~HeldIs(held, PacketOf(f)),
         \A i \in DOMAIN (a \o b) : PacketOf((a \o b)[i]) # PacketOf(f)
  PROVE  InTurn(held, Append(a, f) \o b)
<1> DEFINE q == a \o b
           r == Append(a, f) \o b
           n == Len(a)
           old(k) == IF k <= n THEN k ELSE k - 1
<1>1. n \in Nat /\ Len(b) \in Nat /\ DOMAIN q = 1 .. n + Len(b) /\ DOMAIN r = 1 .. n + Len(b) + 1
  OBVIOUS
<1>2. r[n + 1] = f
  <2>1. Append(a, f) \in Seq(Frames) /\ Len(Append(a, f)) = n + 1 /\ Append(a, f)[n + 1] = f
    OBVIOUS
  <2> QED
    BY <1>1, <2>1, ConcatProperties
<1>3. \A k \in DOMAIN r : k # n + 1 => old(k) \in DOMAIN q /\ r[k] = q[old(k)]
  <2> TAKE k \in DOMAIN r
  <2> SUFFICES ASSUME k # n + 1 PROVE old(k) \in DOMAIN q /\ r[k] = q[old(k)]
    OBVIOUS
  <2>1. /\ Append(a, f) \in Seq(Frames) /\ Len(Append(a, f)) = n + 1
        /\ \A i \in 1 .. n : Append(a, f)[i] = a[i]
    OBVIOUS
  <2>2. r[k] = IF k <= n + 1 THEN Append(a, f)[k] ELSE b[k - (n + 1)]
    BY <1>1, <2>1, ConcatProperties
  <2>3. CASE k <= n
    <3>1. k \in 1 .. n /\ k <= n + 1 /\ k \in 1 .. n + Len(b)
      BY <1>1, <2>3
    <3>2. q[k] = a[k]
      BY <2>3, <3>1, ConcatProperties
    <3> QED
      BY <1>1, <2>1, <2>2, <2>3, <3>1, <3>2
  <2>4. CASE ~(k <= n)
    <3>1. k - 1 \in 1 .. n + Len(b) /\ ~(k - 1 <= n) /\ ~(k <= n + 1) /\ k - 1 - n = k - (n + 1)
      BY <1>1, <2>4
    <3>2. q[k - 1] = b[k - 1 - n]
      BY <3>1, ConcatProperties
    <3> QED
      BY <1>1, <2>2, <2>4, <3>1, <3>2
  <2> QED
    BY <2>3, <2>4
<1>4. \A i, j \in DOMAIN r : i # n + 1 /\ j # n + 1 /\ i < j => old(i) < old(j)
  BY <1>1
<1>5. \A i, l \in DOMAIN r : i < l => i # l
  BY <1>1
<1>6. ~Begins(f)
  BY DEF Begins, Single
<1>7. \A k \in DOMAIN r : k # n + 1 => PacketOf(r[k]) # PacketOf(f)
  BY <1>3, Zenon
<1> HIDE DEF q, r, n, old
<1>8. Rising(r)
  <2> SUFFICES ASSUME NEW i \in DOMAIN r, NEW j \in DOMAIN r, i < j,
                      PacketOf(r[i]) = PacketOf(r[j])
               PROVE  Through(r[i]) < From(r[j])
    BY Zenon DEF Rising
  <2>1. i # n + 1 /\ j # n + 1
    BY <1>2, <1>5, <1>7
  <2>2. /\ old(i) \in DOMAIN q /\ old(j) \in DOMAIN q /\ old(i) < old(j)
        /\ r[i] = q[old(i)] /\ r[j] = q[old(j)]
    BY <1>3, <1>4, <2>1
  <2> QED
    BY <2>2, Zenon DEF InTurn, Rising, q
<1>9. Apart(r)
  <2> SUFFICES ASSUME NEW i \in DOMAIN r, NEW l \in DOMAIN r, NEW j \in DOMAIN r, i < l, l < j,
                      Begins(r[l]), PacketOf(r[i]) = PacketOf(r[j])
               PROVE  FALSE
    BY Zenon DEF Apart
  <2>1. i < j
    BY <1>1 DEF r, n
  <2>2. i # n + 1 /\ j # n + 1 /\ l # n + 1
    BY <1>2, <1>5, <1>6, <1>7, <2>1
  <2>3. /\ old(i) \in DOMAIN q /\ old(l) \in DOMAIN q /\ old(j) \in DOMAIN q
        /\ old(i) < old(l) /\ old(l) < old(j)
        /\ r[i] = q[old(i)] /\ r[l] = q[old(l)] /\ r[j] = q[old(j)]
    BY <1>3, <1>4, <2>2
  <2> QED
    BY <2>3, Zenon DEF InTurn, Apart, q
<1>10. ApartFrom(held, r)
  <2> SUFFICES ASSUME NEW l \in DOMAIN r, NEW j \in DOMAIN r, l < j, Begins(r[l]),
                      HeldIs(held, PacketOf(r[j]))
               PROVE  FALSE
    BY Zenon DEF ApartFrom
  <2>1. l # n + 1 /\ j # n + 1
    BY <1>2, <1>6
  <2>2. /\ old(l) \in DOMAIN q /\ old(j) \in DOMAIN q /\ old(l) < old(j)
        /\ r[l] = q[old(l)] /\ r[j] = q[old(j)]
    BY <1>3, <1>4, <2>1
  <2> QED
    BY <2>2, Zenon DEF InTurn, ApartFrom, q
<1> QED
  BY <1>8, <1>9, <1>10 DEF InTurn, r

\* A packet nobody uses yet comes last, in any number of frames.
LEMMA InTurnWithPacket ==
  ASSUME NEW held, NEW a \in Seq(Frames), NEW s \in Seq(Frames), InTurn(held, a), NEW p,
         Rising(s), ~HeldIs(held, p),
         \A i \in DOMAIN a : PacketOf(a[i]) # p,
         \A k \in DOMAIN s : PacketOf(s[k]) = p /\ (s[k].first <=> k = 1)
  PROVE  InTurn(held, a \o s)
<1> DEFINE r == a \o s
           n == Len(a)
<1>1. n \in Nat /\ Len(s) \in Nat /\ DOMAIN r = 1 .. n + Len(s) /\ DOMAIN a = 1 .. n
      /\ DOMAIN s = 1 .. Len(s)
  OBVIOUS
<1>2. ASSUME NEW k \in DOMAIN r
      PROVE  \/ k \in DOMAIN a /\ k <= n /\ r[k] = a[k] /\ PacketOf(r[k]) # p
             \/ k - n \in DOMAIN s /\ k > n /\ r[k] = s[k - n] /\ PacketOf(r[k]) = p
  <2>1. r[k] = IF k <= n THEN a[k] ELSE s[k - n]
    BY <1>1, ConcatProperties
  <2>2. k <= n \/ k > n
    BY <1>1
  <2>3. CASE k <= n
    <3>1. k \in DOMAIN a
      BY <1>1, <2>3
    <3> QED
      BY <2>1, <2>3, <3>1
  <2>4. CASE k > n
    <3>1. k - n \in DOMAIN s /\ ~(k <= n)
      BY <1>1, <2>4
    <3> QED
      BY <2>1, <2>4, <3>1
  <2> QED
    BY <2>2, <2>3, <2>4
<1>3. \A i, j \in DOMAIN r : i < j /\ j <= n => i <= n
  BY <1>1
<1>4. \A i, j \in DOMAIN r : i < j => i - n < j - n
  BY <1>1
<1>5. \A i \in DOMAIN r : i <= n => ~(i > n)
  BY <1>1
<1>6. \A i, l \in DOMAIN r : i < l /\ i > n => l > n /\ l - n # 1
  BY <1>1
<1> HIDE DEF r, n
<1>7. Rising(r)
  <2> SUFFICES ASSUME NEW i \in DOMAIN r, NEW j \in DOMAIN r, i < j,
                      PacketOf(r[i]) = PacketOf(r[j])
               PROVE  Through(r[i]) < From(r[j])
    BY Zenon DEF Rising
  <2>1. CASE PacketOf(r[i]) = p
    <3>1. /\ i - n \in DOMAIN s /\ j - n \in DOMAIN s /\ r[i] = s[i - n] /\ r[j] = s[j - n]
          /\ i - n < j - n
      BY <1>2, <1>4, <2>1
    <3> QED
      BY <2>1, <3>1, Zenon DEF Rising
  <2>2. CASE PacketOf(r[i]) # p
    <3>1. i \in DOMAIN a /\ j \in DOMAIN a /\ r[i] = a[i] /\ r[j] = a[j]
      BY <1>2, <2>2
    <3> QED
      BY <3>1, Zenon DEF Rising, InTurn
  <2> QED
    BY <2>1, <2>2
<1>8. Apart(r)
  <2> SUFFICES ASSUME NEW i \in DOMAIN r, NEW l \in DOMAIN r, NEW j \in DOMAIN r, i < l, l < j,
                      Begins(r[l]), PacketOf(r[i]) = PacketOf(r[j])
               PROVE  FALSE
    BY Zenon DEF Apart
  <2>1. CASE PacketOf(r[i]) = p
    <3>1. i > n
      BY <1>2, <2>1
    <3>2. l > n /\ l - n # 1
      BY <1>6, <3>1
    <3>3. l - n \in DOMAIN s /\ r[l] = s[l - n]
      BY <1>2, <1>5, <3>2
    <3> QED
      BY <3>2, <3>3 DEF Begins
  <2>2. CASE PacketOf(r[i]) # p
    <3>1. i \in DOMAIN a /\ j \in DOMAIN a /\ r[i] = a[i] /\ r[j] = a[j] /\ j <= n
      BY <1>2, <2>2
    <3>2. l <= n
      BY <1>3, <3>1
    <3>3. l \in DOMAIN a /\ r[l] = a[l]
      BY <1>2, <1>5, <3>2
    <3> QED
      BY <3>1, <3>3, Zenon DEF Apart, InTurn
  <2> QED
    BY <2>1, <2>2
<1>9. ApartFrom(held, r)
  <2> SUFFICES ASSUME NEW l \in DOMAIN r, NEW j \in DOMAIN r, l < j, Begins(r[l]),
                      HeldIs(held, PacketOf(r[j]))
               PROVE  FALSE
    BY Zenon DEF ApartFrom
  <2>1. PacketOf(r[j]) # p
    BY Zenon
  <2>2. j \in DOMAIN a /\ r[j] = a[j] /\ j <= n
    BY <1>2, <2>1
  <2>3. l <= n
    BY <1>3, <2>2
  <2>4. l \in DOMAIN a /\ r[l] = a[l]
    BY <1>2, <1>5, <2>3
  <2> QED
    BY <2>2, <2>4, Zenon DEF ApartFrom, InTurn
<1> QED
  BY <1>7, <1>8, <1>9 DEF InTurn, r

\* The frames of a packet are its own and rise.
LEMMA SplittingRises ==
  ASSUME NEW p \in Packets
  PROVE  LET s == SplitFrames(Payload(p))
         IN  /\ s \in Seq(Frames) /\ s # <<>> /\ Rising(s)
             /\ \A k \in DOMAIN s : PacketOf(s[k]) = p /\ (s[k].first <=> k = 1)
<1> DEFINE s == SplitFrames(Payload(p))
           N == Pieces(Size(p))
           c == Chunk
<1>1. s \in Seq(Frames) /\ s # <<>> /\ Len(s) = N
  BY Splitting
<1>2. \A k \in 1 .. N : /\ PacketOf(s[k]) = p /\ (s[k].first <=> k = 1)
                        /\ From(s[k]) = (k - 1) * c + 1
                        /\ k # N => Through(s[k]) = k * c
  BY SplitPiece
<1>3. c \in Nat \ {0}
  BY SizeTyped
<1> HIDE DEF s, c
<1>4. N \in Nat /\ DOMAIN s = 1 .. N
  BY <1>1
<1> HIDE DEF N
<1>5. Rising(s)
  <2> SUFFICES ASSUME NEW i \in 1 .. N, NEW j \in 1 .. N, i < j
               PROVE  Through(s[i]) < From(s[j])
    BY <1>4, Zenon DEF Rising
  <2>1. i \in Nat \ {0} /\ j \in Nat /\ i <= j /\ i # j /\ i # N
    BY <1>4
  <2>2. i * c <= (j - 1) * c
    BY <1>3, <2>1, FramesBefore
  <2>3. Through(s[i]) = i * c /\ From(s[j]) = (j - 1) * c + 1
    BY <1>2, <2>1
  <2> DEFINE x == i * c
             y == (j - 1) * c
  <2>4. x \in Int /\ y \in Int
    BY <1>3
  <2> HIDE DEF x, y
  <2>5. x <= y => x < y + 1
    BY <2>4
  <2> QED
    BY <2>2, <2>3, <2>5 DEF x, y
<1>6. \A k \in DOMAIN s : PacketOf(s[k]) = p /\ (s[k].first <=> k = 1)
  BY <1>2, <1>4
<1> QED
  BY <1>1, <1>5, <1>6 DEF s

\* A packet with an unused name is not the one held back, and none of those whose
\* frames are on their way or unsent.
LEMMA UnusedIsNew ==
  ASSUME TypeOK, FramesInOrder, NEW p \in Unused
  PROVE  /\ p \in Packets
         /\ ~HeldIs(pending, p)
         /\ \A i \in DOMAIN channel : PacketOf(channel[i]) # p
         /\ \A i \in DOMAIN outgoing : PacketOf(outgoing[i]) # p
<1>1. p \in Packets /\ p.id \notin InUse
  BY DEF Unused
<1> DEFINE H == IdsIn(pending)
           C == UNION {IdsIn(channel[k].data) : k \in DOMAIN channel}
           O == UNION {IdsIn(outgoing[k].data) : k \in DOMAIN outgoing}
<1>2. InUse = H \cup C \cup O
  BY DEF InUse
<1> HIDE DEF H, C, O
<1>3. \A x : x \in C \/ x \in O => x \in InUse
  BY <1>2, Zenon
<1>4. \A d \in Seq(Units) : d # <<>> => d[1][1].id \in IdsIn(d)
  BY DEF IdsIn
<1>5. ASSUME HeldIs(pending, p) PROVE FALSE
  <2>1. pending \in Seq(Units) /\ pending # <<>> /\ pending[1][1] = p
    BY <1>5 DEF TypeOK, HeldIs
  <2>2. p.id \in IdsIn(pending)
    BY <1>4, <2>1
  <2> QED
    BY <1>1, <2>2 DEF InUse
<1>6. ASSUME NEW i \in DOMAIN channel PROVE PacketOf(channel[i]) # p
  <2>1. channel[i] \in Frames /\ Piece(channel[i])
    BY DEF TypeOK, FramesInOrder, ChannelInOrder
  <2>2. PacketOf(channel[i]).id \in IdsIn(channel[i].data)
    BY <1>4, <2>1, PieceTyped DEF PacketOf
  <2>3. PacketOf(channel[i]).id \in C
    BY <2>2, Zenon DEF C, O
  <2> QED
    BY <1>1, <1>3, <2>3
<1>7. ASSUME NEW i \in DOMAIN outgoing PROVE PacketOf(outgoing[i]) # p
  <2>1. outgoing[i] \in Frames /\ Piece(outgoing[i])
    BY DEF TypeOK, FramesInOrder, OutgoingInOrder
  <2>2. PacketOf(outgoing[i]).id \in IdsIn(outgoing[i].data)
    BY <1>4, <2>1, PieceTyped DEF PacketOf
  <2>3. PacketOf(outgoing[i]).id \in O
    BY <2>2, Zenon DEF C, O
  <2> QED
    BY <1>1, <1>3, <2>3
<1> QED
  BY <1>1, <1>5, <1>6, <1>7

(***************************************************************************)
(* What push takes of a frame: what it holds back afterwards, and whether  *)
(* a packet came out.                                                      *)
(***************************************************************************)

\* Its packet has begun, here or before.
Opened(held, f) == f.first \/ HeldIs(held, PacketOf(f))

Completes(held, f) == f.last /\ Acceptable(PacketOf(f)) /\ Opened(held, f)

Taken(held, f, out) ==
  /\ out.done = IF Completes(held, f) THEN <<Payload(PacketOf(f))>> ELSE <<>>
  /\ Single(f) => out.pending = held
  /\ out.pending # <<>> =>
       \/ Single(f)
       \/ ~f.last /\ Opened(held, f) /\ out.pending[1][1] = PacketOf(f)
  /\ ~f.last /\ Opened(held, f) /\ Acceptable(PacketOf(f)) => out.pending # <<>>

LEMMA OutcomeTaken ==
  ASSUME NEW held, NEW f, NEW h, NEW skips, NEW done, NEW refused,
         done = IF Completes(held, f) THEN <<Payload(PacketOf(f))>> ELSE <<>>,
         Single(f) => h = held,
         h # <<>> => \/ Single(f)
                     \/ ~f.last /\ Opened(held, f) /\ h[1][1] = PacketOf(f),
         ~f.last /\ Opened(held, f) /\ Acceptable(PacketOf(f)) => h # <<>>
  PROVE  Taken(held, f, Outcome(h, skips, done, refused))
<1> DEFINE out == Outcome(h, skips, done, refused)
<1>1. out.pending = h /\ out.done = done
  BY OutcomeIs
<1> HIDE DEF out
<1>2. Taken(held, f, out)
  BY <1>1, Zenon DEF Taken
<1> QED
  BY <1>2 DEF out

\* A last piece is decoded exactly if its packet is acceptable.
LEMMA DecodedTaken ==
  ASSUME NEW held, NEW f \in Frames, Piece(f), f.last, Opened(held, f), NEW d, UpTo(d, f),
         NEW h, NEW skips, Single(f) => h = held, ~Single(f) => h = <<>>,
         ~Single(f) => Len(d) <= MaxPendingLen
  PROVE  Taken(held, f, Decoded(h, skips, d))
<1> DEFINE p == PacketOf(f)
<1>1. p \in Packets /\ Size(p) \in Nat \ {0} /\ Through(f) = Size(p)
  BY PieceTyped DEF Piece
<1>2. WholePayload(d) /\ (Decodable(d) \/ ~Acceptable(p))
  BY UpToTheLast
<1>3. Len(d) = Size(p) /\ d[1] = <<p, 1>>
  BY <1>1 DEF UpTo
<1>4. d = Payload(p)
  BY <1>2, <1>3 DEF WholePayload
<1>5. Decodable(d) => p.len <= MaxPacketLen
  BY <1>3 DEF Decodable, Declared
<1>6. Single(f) => ~(Len(SplitFrames(Payload(p))) > 1)
  <2> SUFFICES ASSUME Single(f) PROVE ~(Len(SplitFrames(Payload(p))) > 1)
    OBVIOUS
  <2> DEFINE n == Size(p)
             c == Chunk
             N == Pieces(n)
  <2>1. n \in Nat \ {0} /\ c \in Nat \ {0} /\ c = MaxFrameLen - 1 /\ MaxFrameLen \in Nat
    BY <1>1, SizeTyped
  <2>2. n <= c
    <3>1. From(f) = 1 /\ Len(f.data) < MaxFrameLen /\ Len(f.data) \in Nat
      BY PieceTyped DEF Piece, Single
    <3>2. Through(f) = Len(f.data)
      BY <3>1 DEF Through
    <3> QED
      BY <1>1, <2>1, <3>1, <3>2
  <2>3. N = (n + c - 1) \div c
    BY <2>1 DEF Pieces
  <2> HIDE DEF n, c, N
  <2>4. N \in Nat \ {0} /\ (N - 1) * c < n
    BY <2>1, <2>3, RoundedUp
  <2>5. ~(N > 1)
    <3>1. SUFFICES ASSUME N > 1 PROVE FALSE
      OBVIOUS
    <3>2. N - 2 \in Nat /\ (N - 2) * c \in Nat /\ (N - 1) * c = (N - 2) * c + c
      BY <2>1, <2>4, <3>1
    <3> DEFINE x == (N - 2) * c
               y == (N - 1) * c
    <3>3. x \in Nat /\ y = x + c /\ y < n /\ n <= c
      BY <2>2, <2>4, <3>2
    <3> HIDE DEF x, y
    <3> QED
      BY <2>1, <3>3
  <2>6. Len(SplitFrames(Payload(p))) = N
    BY <1>1, Splitting DEF N, n
  <2> QED
    BY <2>5, <2>6
<1>7. ~Single(f) => Header + p.len <= MaxPendingLen
  BY <1>3 DEF Size
<1>8. Decodable(d) <=> Acceptable(p)
  BY <1>2, <1>5, <1>6, <1>7 DEF Acceptable
<1>9. Completes(held, f) <=> Decodable(d)
  BY <1>8 DEF Completes
<1>10. h # <<>> => Single(f)
  OBVIOUS
<1> HIDE DEF p
<1>11. CASE Decodable(d) /\ Decoded(h, skips, d) = Outcome(h, skips, <<d>>, FALSE)
  <2>1. <<d>> = IF Completes(held, f) THEN <<Payload(PacketOf(f))>> ELSE <<>>
    BY <1>4, <1>9, <1>11 DEF p
  <2>2. Taken(held, f, Outcome(h, skips, <<d>>, FALSE))
    BY <1>10, <2>1, OutcomeTaken, Zenon
  <2> QED
    BY <1>11, <2>2, Zenon
<1>12. CASE ~Decodable(d) /\ Decoded(h, skips, d) = Outcome(h, skips, <<>>, TRUE)
  <2>1. <<>> = IF Completes(held, f) THEN <<Payload(PacketOf(f))>> ELSE <<>>
    BY <1>9, <1>12
  <2>2. Taken(held, f, Outcome(h, skips, <<>>, TRUE))
    BY <1>10, <2>1, OutcomeTaken, Zenon
  <2> QED
    BY <1>12, <2>2, Zenon
<1> QED
  BY <1>11, <1>12, DecodedIs, Zenon

LEMMA ExtendedTaken ==
  ASSUME NEW h \in Seq(Units), NEW held, NEW f \in Frames, Piece(f), ~Single(f),
         Opened(held, f), UpTo(h \o f.data, f)
  PROVE  Taken(held, f, Extended(h, FALSE, f))
<1> DEFINE d == h \o f.data
<1>1. /\ f.data \in Seq(Units) /\ MaxPendingLen \in Nat
      /\ Len(d) = Len(h) + Len(f.data) /\ Len(d) = Through(f)
  BY PieceTyped, TunnelAssumption DEF UpTo
<1>2. UpTo(d, f)
  OBVIOUS
<1>3. CASE Len(h) + Len(f.data) > MaxPendingLen /\ Extended(h, FALSE, f) = Outcome(<<>>, FALSE, <<>>, TRUE)
  <2>1. ~Acceptable(PacketOf(f))
    <3>1. Through(f) <= Size(PacketOf(f)) /\ Size(PacketOf(f)) \in Nat /\ Through(f) \in Nat
      BY PieceTyped DEF Piece
    <3>2. ~(Size(PacketOf(f)) <= MaxPendingLen)
      BY <1>1, <1>3, <3>1
    <3>3. Len(SplitFrames(Payload(PacketOf(f)))) > 1
      BY DEF Piece
    <3> QED
      BY <3>2, <3>3 DEF Acceptable, Size
  <2>2. <<>> = IF Completes(held, f) THEN <<Payload(PacketOf(f))>> ELSE <<>>
    BY <2>1 DEF Completes
  <2>3. Taken(held, f, Outcome(<<>>, FALSE, <<>>, TRUE))
    BY <2>1, <2>2, OutcomeTaken, Zenon
  <2> QED
    BY <1>3, <2>3, Zenon
<1>4. CASE /\ ~(Len(h) + Len(f.data) > MaxPendingLen) /\ f.last
           /\ Extended(h, FALSE, f) = Decoded(<<>>, FALSE, d)
  <2>1. Len(d) <= MaxPendingLen
    <3>1. Len(d) \in Nat
      BY <1>1, PieceTyped
    <3> QED
      BY <1>1, <1>4, <3>1
  <2>2. Taken(held, f, Decoded(<<>>, FALSE, d))
    BY <1>2, <1>4, <2>1, DecodedTaken
  <2> QED
    BY <1>4, <2>2, Zenon
<1>5. CASE ~f.last /\ Extended(h, FALSE, f) = Outcome(d, FALSE, <<>>, FALSE)
  <2>1. <<>> = IF Completes(held, f) THEN <<Payload(PacketOf(f))>> ELSE <<>>
    BY <1>5 DEF Completes
  <2>2. d # <<>> /\ d[1][1] = PacketOf(f)
    <3>1. Len(d) \in Nat \ {0} /\ d[1] = <<PacketOf(f), 1>> /\ d # <<>>
      BY <1>1, <1>2, PieceTyped, SMTT(30) DEF UpTo
    <3> QED
      BY <3>1
  <2> HIDE DEF d
  <2>3. Taken(held, f, Outcome(d, FALSE, <<>>, FALSE))
    BY <1>5, <2>1, <2>2, OutcomeTaken, Zenon
  <2> QED
    BY <1>5, <2>3, Zenon
<1> QED
  BY <1>3, <1>4, <1>5, ExtendedIs

LEMMA PushTakes ==
  ASSUME NEW held \in Seq(Units), HoldsBeginning(held), NEW skips \in BOOLEAN,
         skips => held = <<>>, NEW f \in Frames, Piece(f), InOrder(held, f)
  PROVE  Taken(held, f, Push(held, skips, f))
<1>1. ~(Len(f.data) + 1 > MaxFrameLen)
  BY PieceTyped, TunnelAssumption DEF Piece
<1>2. CASE Single(f) /\ Push(held, skips, f) = Decoded(held, skips, f.data)
  <2>1. f.first /\ f.last
    BY <1>2 DEF Single
  <2>2. UpTo(f.data, f) /\ Opened(held, f)
    BY <2>1, FirstIsUpTo DEF Opened
  <2>3. Taken(held, f, Decoded(held, skips, f.data))
    BY <1>2, <2>1, <2>2, DecodedTaken
  <2> QED
    BY <1>2, <2>3, Zenon
<1>3. CASE f.first /\ ~Single(f) /\ Push(held, skips, f) = Extended(<<>>, FALSE, f)
  <2>1. <<>> \in Seq(Units) /\ UpTo(<<>> \o f.data, f) /\ Opened(held, f)
    BY <1>3, FirstIsUpTo DEF Opened
  <2>2. Taken(held, f, Extended(<<>>, FALSE, f))
    BY <1>3, <2>1, ExtendedTaken
  <2> QED
    BY <1>3, <2>2, Zenon
<1>4. CASE ~f.first /\ (skips \/ held = <<>>) /\ Push(held, skips, f) = Outcome(held, TRUE, <<>>, FALSE)
  <2>1. held = <<>> /\ ~Single(f) /\ ~Opened(held, f)
    BY <1>4 DEF Single, Opened, HeldIs
  <2>2. <<>> = IF Completes(held, f) THEN <<Payload(PacketOf(f))>> ELSE <<>>
    BY <2>1 DEF Completes
  <2>3. Taken(held, f, Outcome(held, TRUE, <<>>, FALSE))
    BY <2>1, <2>2, OutcomeTaken, Zenon
  <2> QED
    BY <1>4, <2>3, Zenon
<1>5. CASE ~f.first /\ ~skips /\ held # <<>> /\ Push(held, skips, f) = Extended(held, FALSE, f)
  <2>1. ~Single(f) /\ Resumes(held, f)
    BY <1>5 DEF Single, InOrder
  <2>2. UpTo(held \o f.data, f) /\ Opened(held, f)
    BY <1>5, <2>1, ResumedIsUpTo DEF Opened, HeldIs, Resumes
  <2>3. Taken(held, f, Extended(held, FALSE, f))
    BY <2>1, <2>2, ExtendedTaken
  <2> QED
    BY <1>5, <2>3, Zenon
<1> QED
  BY <1>1, <1>2, <1>3, <1>4, <1>5, PushIs

(***************************************************************************)
(* LineInTurn is kept.                                                     *)
(***************************************************************************)

LEMMA HeadAndTail ==
  ASSUME NEW X, NEW s \in Seq(X), s # <<>>
  PROVE  /\ s[1] \in X /\ Tail(s) \in Seq(X) /\ <<s[1]>> \in Seq(X)
         /\ <<s[1]>> \o Tail(s) = s
<1>1. s[1] \in X /\ Tail(s) \in Seq(X) /\ <<s[1]>> \in Seq(X) /\ Len(s) \in Nat \ {0}
  OBVIOUS
<1> DEFINE h == <<s[1]>>
           t == Tail(s)
<1>0. h \in Seq(X) /\ t \in Seq(X)
  BY <1>1
<1>2. /\ Len(h) = 1 /\ h[1] = s[1] /\ Len(t) = Len(s) - 1
      /\ \A i \in 1 .. Len(t) : t[i] = s[i + 1]
  BY <1>1
<1> HIDE DEF h, t
<1>3. /\ h \o t \in Seq(X) /\ Len(h \o t) = Len(h) + Len(t)
      /\ \A i \in 1 .. Len(h) + Len(t) : (h \o t)[i] = IF i <= Len(h) THEN h[i] ELSE t[i - Len(h)]
  BY <1>0, ConcatProperties
<1>4. \A i \in 1 .. Len(s) : (h \o t)[i] = s[i]
  <2> TAKE i \in 1 .. Len(s)
  <2>0. Len(h) + Len(t) = Len(s) /\ Len(h) = 1
    BY <1>1, <1>2
  <2>1. CASE i = 1
    <3>1. (h \o t)[i] = h[i]
      <4>1. i \in 1 .. Len(h) + Len(t) /\ i <= Len(h)
        BY <2>0, <2>1
      <4> QED
        BY <1>3, <4>1
    <3> QED
      BY <1>2, <2>1, <3>1
  <2>2. CASE i > 1
    <3>1. i - 1 \in 1 .. Len(t) /\ i - 1 + 1 = i /\ ~(i <= 1)
      BY <1>1, <1>2, <2>2
    <3>2. t[i - 1] = s[i]
      BY <1>2, <3>1
    <3>3. (h \o t)[i] = t[i - 1]
      BY <1>3, <2>0, <3>1
    <3> QED
      BY <3>2, <3>3
  <2>3. i = 1 \/ i > 1
    OBVIOUS
  <2> QED
    BY <2>1, <2>2, <2>3
<1>5. h \o t = s
  <2>1. Len(h \o t) = Len(s)
    BY <1>1, <1>2, <1>3
  <2> QED
    BY <1>3, <1>4, <2>1, SeqEqual
<1> QED
  BY <1>1, <1>5 DEF h, t

\* The line is handled at its head.
LEMMA LineAfterHead ==
  ASSUME NEW a \in Seq(Frames), a # <<>>, NEW b \in Seq(Frames)
  PROVE  /\ a \o b \in Seq(Frames) /\ a \o b # <<>> /\ (a \o b)[1] = a[1]
         /\ Tail(a \o b) = Tail(a) \o b
<1> DEFINE q == a \o b
<1>1. /\ q \in Seq(Frames) /\ Len(q) = Len(a) + Len(b) /\ Len(a) \in Nat \ {0} /\ Len(b) \in Nat
      /\ q[1] = a[1]
  BY ConcatProperties
<1>2. q # <<>>
  BY <1>1
<1> HIDE DEF q
<1>3. /\ <<a[1]>> \in Seq(Frames) /\ Tail(a) \in Seq(Frames) /\ <<a[1]>> \o Tail(a) = a
      /\ Tail(q) \in Seq(Frames) /\ <<q[1]>> \o Tail(q) = q
  BY <1>1, <1>2, HeadAndTail
<1>4. <<a[1]>> \o (Tail(a) \o b) = q
  BY <1>3, ConcatAssociative DEF q
<1>5. Tail(a) \o b \in Seq(Frames)
  BY <1>3, ConcatProperties
<1>6. Tail(a) \o b = Tail(q)
  BY <1>1, <1>3, <1>4, <1>5, ConcatSimplifications
<1> QED
  BY <1>1, <1>2, <1>6 DEF q

\* A frame that goes out stays where it is in the line.
LEMMA LineAfterSend ==
  ASSUME NEW a \in Seq(Frames), NEW b \in Seq(Frames), b # <<>>
  PROVE  Append(a, b[1]) \o Tail(b) = a \o b
<1>1. b[1] \in Frames /\ <<b[1]>> \in Seq(Frames) /\ Tail(b) \in Seq(Frames) /\ <<b[1]>> \o Tail(b) = b
  BY HeadAndTail
<1>2. Append(a, b[1]) = a \o <<b[1]>>
  BY <1>1, AppendIsConcat
<1> QED
  BY <1>1, <1>2, ConcatAssociative

\* No frame in the line is of a packet with an unused name.
LEMMA UnusedInLine ==
  ASSUME TypeOK, FramesInOrder, NEW p \in Unused
  PROVE  \A i \in DOMAIN Line : PacketOf(Line[i]) # p
<1>1. channel \in Seq(Frames) /\ outgoing \in Seq(Frames) /\ Len(channel) \in Nat /\ Len(outgoing) \in Nat
  BY DEF TypeOK
<1> SUFFICES ASSUME NEW i \in DOMAIN Line PROVE PacketOf(Line[i]) # p
  OBVIOUS
<1>2. i \in 1 .. Len(channel) + Len(outgoing)
      /\ Line[i] = IF i <= Len(channel) THEN channel[i] ELSE outgoing[i - Len(channel)]
  BY <1>1, ConcatProperties DEF Line
<1>3. CASE i <= Len(channel)
  <2>1. i \in DOMAIN channel
    BY <1>1, <1>2, <1>3
  <2> QED
    BY <1>2, <1>3, <2>1, UnusedIsNew
<1>4. CASE ~(i <= Len(channel))
  <2>1. i - Len(channel) \in DOMAIN outgoing
    BY <1>1, <1>2, <1>4
  <2> QED
    BY <1>2, <1>4, <2>1, UnusedIsNew
<1> QED
  BY <1>3, <1>4

\* HandleFrame: push took the head of the channel.
LEMMA HandleFrameTakes ==
  ASSUME TypeOK, FramesInOrder, HandleFrame
  PROVE  LET f == channel[1]
             out == Push(pending, skipping, f)
         IN  /\ channel # <<>> /\ f \in Frames /\ Piece(f) /\ InOrder(pending, f)
             /\ Taken(pending, f, out)
             /\ pending' = out.pending /\ got' = out.done
             /\ channel' = Tail(channel) /\ outgoing' = outgoing
<1> DEFINE f == channel[1]
           out == Push(pending, skipping, f)
<1>1. /\ channel # <<>> /\ f \in Frames /\ Piece(f) /\ 1 \in DOMAIN channel
      /\ pending' = out.pending /\ got' = out.done
      /\ channel' = Tail(channel) /\ outgoing' = outgoing
  BY HandleFrameHandles DEF TypeOK
<1>2. InOrder(pending, f)
  <2>1. \A j \in DOMAIN channel : ~(j < 1)
    BY DEF TypeOK
  <2> QED
    BY <1>1, <2>1 DEF InOrder, Reached, FramesInOrder, ChannelInOrder
<1>3. Taken(pending, f, out)
  BY <1>1, <1>2, PushTakes DEF TypeOK, FramesInOrder
<1> QED
  BY <1>1, <1>2, <1>3

LEMMA TurnStep ==
  ASSUME TypeOK, FramesInOrder, LineInTurn, [Next]_vars
  PROVE  LineInTurn'
<1>1. /\ channel \in Seq(Frames) /\ outgoing \in Seq(Frames)
      /\ Len(channel) \in Nat /\ Len(outgoing) \in Nat
      /\ Line \in Seq(Frames) /\ InTurn(pending, Line)
  BY ConcatProperties DEF TypeOK, LineInTurn, Line
<1>2. \A i \in 1 .. Len(Line) : Line[i] = Line[i]
  OBVIOUS
<1>3. CASE HandleFrame
  <2> DEFINE f == channel[1]
             out == Push(pending, skipping, f)
  <2>1. /\ channel # <<>> /\ Taken(pending, f, out) /\ pending' = out.pending
        /\ channel' = Tail(channel) /\ outgoing' = outgoing
    BY <1>3, HandleFrameTakes
  <2> HIDE DEF out
  <2>2. pending' = <<>> \/ pending' = pending \/ pending'[1][1] = PacketOf(f)
    BY <2>1 DEF Taken
  <2>3. Line # <<>> /\ Line[1] = f /\ Line' = Tail(Line)
    BY <1>1, <2>1, LineAfterHead DEF Line
  <2>4. InTurn(pending', Tail(Line))
    BY <1>1, <2>2, <2>3, InTurnTail
  <2> QED
    BY <2>3, <2>4 DEF LineInTurn
<1>4. CASE Reset
  <2>1. pending' = <<>> /\ Line' = Line
    BY <1>4 DEF Reset, Line
  <2>2. InTurn(<<>>, Line)
    BY <1>1, InTurnPrefix
  <2> QED
    BY <2>1, <2>2 DEF LineInTurn
<1>5. CASE Reconnect
  <2>1. channel' = <<>> /\ outgoing' = <<>>
    BY <1>5 DEF Reconnect
  <2>2. Line' = <<>>
    BY <2>1 DEF Line
  <2> QED
    BY <2>2 DEF LineInTurn, InTurn, Rising, Apart, ApartFrom
<1>6. ASSUME NEW p \in Unused, Start(p) PROVE LineInTurn'
  <2> DEFINE s == SplitFrames(Payload(p))
  <2>1. outgoing = <<>> /\ outgoing' = s /\ channel' = channel /\ pending' = pending
    BY <1>6 DEF Start
  <2>2. p \in Packets /\ ~HeldIs(pending, p) /\ \A i \in DOMAIN channel : PacketOf(channel[i]) # p
    BY UnusedIsNew
  <2>3. /\ s \in Seq(Frames) /\ Rising(s)
        /\ \A k \in DOMAIN s : PacketOf(s[k]) = p /\ (s[k].first <=> k = 1)
    BY <2>2, SplittingRises
  <2> HIDE DEF s
  <2>4. Line = channel
    BY <1>1, <2>1, ConcatEmptySeq DEF Line
  <2>5. InTurn(pending, channel)
    BY <1>1, <2>4
  <2>6. InTurn(pending, channel \o s)
    BY <1>1, <2>2, <2>3, <2>5, InTurnWithPacket
  <2> QED
    BY <2>1, <2>6 DEF LineInTurn, Line
<1>7. ASSUME NEW p \in Unused, SendSingle(p) PROVE LineInTurn'
  <2> DEFINE s == SplitFrames(Payload(p))
             f == s[1]
  <2>1. Len(s) = 1 /\ channel' = Append(channel, f) /\ outgoing' = outgoing /\ pending' = pending
    BY <1>7 DEF SendSingle
  <2>2. p \in Packets /\ ~HeldIs(pending, p)
    BY UnusedIsNew
  <2>3. s \in Seq(Frames) /\ Single(f) /\ \A k \in DOMAIN s : PacketOf(s[k]) = p
    BY <2>1, <2>2, SplittingRises, Splitting
  <2> HIDE DEF s
  <2>4. f \in Frames /\ PacketOf(f) = p
    <3>1. 1 \in DOMAIN s /\ s[1] \in Frames
      BY <2>1, <2>3, SMTT(30)
    <3> QED
      BY <2>3, <3>1
  <2> HIDE DEF f
  <2>5. \A i \in DOMAIN (channel \o outgoing) : PacketOf((channel \o outgoing)[i]) # PacketOf(f)
    BY <2>4, UnusedInLine DEF Line
  <2>6. InTurn(pending, channel \o outgoing)
    BY <1>1 DEF Line
  <2>7. InTurn(pending, Append(channel, f) \o outgoing)
    BY <1>1, <2>2, <2>3, <2>4, <2>5, <2>6, InTurnWithSingle
  <2> QED
    BY <2>1, <2>7 DEF LineInTurn, Line
<1>8. CASE SendFrame
  <2>1. /\ outgoing # <<>> /\ channel' = Append(channel, outgoing[1]) /\ outgoing' = Tail(outgoing)
        /\ pending' = pending
    BY <1>1, <1>8 DEF SendFrame
  <2>2. Line' = Line
    BY <1>1, <2>1, LineAfterSend DEF Line
  <2> QED
    BY <1>1, <2>1, <2>2 DEF LineInTurn
<1>9. CASE Abandon
  <2>1. outgoing' = <<>> /\ channel' = channel /\ pending' = pending
    BY <1>9 DEF Abandon
  <2>2. Line' = channel
    BY <1>1, <2>1, ConcatEmptySeq DEF Line
  <2>3. Len(channel) <= Len(Line) /\ \A i \in 1 .. Len(channel) : channel[i] = Line[i]
    BY <1>1, ConcatProperties DEF Line
  <2>4. InTurn(pending, channel)
    BY <1>1, <2>3, InTurnPrefix
  <2> QED
    BY <2>1, <2>2, <2>4 DEF LineInTurn
<1>10. CASE UNCHANGED vars
  BY <1>1, <1>10 DEF vars, LineInTurn, Line
<1> QED
  BY <1>3, <1>4, <1>5, <1>6, <1>7, <1>8, <1>9, <1>10 DEF Next, ClientStep

\* The frames of one packet are sent once and in order, and no packet goes on once
\* the first frame of another, longer than one frame, was sent: what split_frames
\* and a client that sends one packet after another guarantee to Tunnel::push.
THEOREM LineInTurnAlways == Spec => []LineInTurn
<1>1. Init => LineInTurn
  <2>1. Init => Line = <<>>
    BY DEF Init, Line
  <2> QED
    BY <2>1 DEF LineInTurn, InTurn, Rising, Apart, ApartFrom
<1>2. TypeOK /\ FramesInOrder /\ LineInTurn /\ [Next]_vars => LineInTurn'
  BY TurnStep
<1> QED
  BY <1>1, <1>2, TypeCorrect, InOrderAlways, PTL DEF Spec

(***************************************************************************)
(* What is to come out of the channel q when held is held back.            *)
(***************************************************************************)

OpenedIn(held, q, f) ==
  Opened(held, f) \/ \E i \in DOMAIN q : q[i].first /\ PacketOf(q[i]) = PacketOf(f)

CompletesIn(held, q, f) == f.last /\ Acceptable(PacketOf(f)) /\ OpenedIn(held, q, f)

Finished(held, q) ==
  [i \in DOMAIN q |-> IF CompletesIn(held, q, q[i]) THEN <<PacketOf(q[i])>> ELSE <<>>]

Pieced(q) == \A i \in DOMAIN q : Piece(q[i])

LEMMA ToComeIs == ToCome = FlattenSeq(Finished(pending, channel))
<1>1. \A f : Finishes(f) <=> CompletesIn(pending, channel, f)
  BY DEF Finishes, CompletesIn, OpenedIn, Opened, HeldIs
<1>2. [i \in DOMAIN channel |-> IF Finishes(channel[i]) THEN <<PacketOf(channel[i])>> ELSE <<>>]
      = Finished(pending, channel)
  BY <1>1, Zenon DEF Finished
<1> QED
  BY <1>2, Zenon DEF ToCome

LEMMA ToComeIsThen == ToCome' = FlattenSeq(Finished(pending', channel'))
<1>1. (ToCome = FlattenSeq(Finished(pending, channel)))'
  BY ToComeIs, PTL
<1> QED
  BY <1>1 DEF Finished, CompletesIn, OpenedIn, Opened, HeldIs

LEMMA FinishedTyped ==
  ASSUME NEW held, NEW q \in Seq(Frames), Pieced(q)
  PROVE  /\ Finished(held, q) \in Seq(Seq(Packets)) /\ Len(Finished(held, q)) = Len(q)
         /\ \A i \in 1 .. Len(q) :
              Finished(held, q)[i] = IF CompletesIn(held, q, q[i]) THEN <<PacketOf(q[i])>> ELSE <<>>
<1> DEFINE e(i) == IF CompletesIn(held, q, q[i]) THEN <<PacketOf(q[i])>> ELSE <<>>
<1>1. DOMAIN q = 1 .. Len(q) /\ Len(q) \in Nat /\ \A i \in DOMAIN q : q[i] \in Frames
  OBVIOUS
<1>2. \A i \in DOMAIN q : PacketOf(q[i]) \in Packets
  BY DEF Pieced, Piece
<1>3. \A i \in DOMAIN q : e(i) \in Seq(Packets)
  BY <1>2
<1>4. Finished(held, q) = [i \in DOMAIN q |-> e(i)]
  BY DEF Finished
<1> HIDE DEF e
<1>5. Finished(held, q) = [i \in 1 .. Len(q) |-> e(i)]
  BY <1>1, <1>4
<1>6. \A i \in 1 .. Len(q) : e(i) \in Seq(Packets)
  BY <1>1, <1>3
<1>7. Finished(held, q) \in Seq(Seq(Packets)) /\ Len(Finished(held, q)) = Len(q)
  BY <1>1, <1>5, <1>6, IsASeq
<1>8. \A i \in 1 .. Len(q) : Finished(held, q)[i] = e(i)
  BY <1>5
<1> QED
  BY <1>7, <1>8 DEF e

\* A later frame of the packet of f is not its first one, and f is not its last.
LEMMA LaterPiece ==
  ASSUME NEW f \in Frames, NEW g \in Frames, Piece(f), Piece(g),
         PacketOf(f) = PacketOf(g), Through(f) < From(g)
  PROVE  ~g.first /\ ~f.last
<1>1. Through(f) \in Nat \ {0} /\ From(g) \in Nat \ {0} /\ Len(g.data) \in Nat \ {0}
  BY PieceTyped
<1>2. ~g.first
  BY <1>1 DEF Piece
<1>3. Through(g) >= From(g) /\ Through(g) \in Nat
  BY <1>1 DEF Through
<1>4. Size(PacketOf(f)) \in Nat /\ Through(g) <= Size(PacketOf(f))
  BY PieceTyped DEF Piece
<1>5. Through(f) # Size(PacketOf(f))
  BY <1>1, <1>3, <1>4
<1> QED
  BY <1>2, <1>5 DEF Piece

LEMMA HeadCompletes ==
  ASSUME NEW held, NEW q \in Seq(Frames), q # <<>>, Pieced(q), InTurn(held, q)
  PROVE  CompletesIn(held, q, q[1]) <=> Completes(held, q[1])
<1>1. 1 \in DOMAIN q /\ \A i \in DOMAIN q : q[i] \in Frames /\ Piece(q[i]) /\ (i = 1 \/ 1 < i)
  BY DEF Pieced
<1>2. ASSUME NEW i \in DOMAIN q, q[i].first, PacketOf(q[i]) = PacketOf(q[1])
      PROVE  q[1].first
  <2>1. CASE 1 < i
    <3>1. Through(q[1]) < From(q[i])
      BY <1>1, <1>2, <2>1 DEF InTurn, Rising
    <3> QED
      BY <1>1, <1>2, <3>1, LaterPiece
  <2> QED
    BY <1>1, <1>2, <2>1
<1>3. OpenedIn(held, q, q[1]) <=> Opened(held, q[1])
  BY <1>1, <1>2, Zenon DEF OpenedIn, Opened
<1> QED
  BY <1>3, Zenon DEF CompletesIn, Completes

\* What a frame behind the head finishes, it finishes once the head is handled too.
LEMMA LaterCompletes ==
  ASSUME NEW held, NEW q \in Seq(Frames), q # <<>>, Pieced(q), InTurn(held, q),
         NEW out, Taken(held, q[1], out), InOrder(held, q[1]),
         NEW j \in DOMAIN q, 1 < j
  PROVE  CompletesIn(out.pending, Tail(q), q[j]) <=> CompletesIn(held, q, q[j])
<1> DEFINE f == q[1]
           g == q[j]
           new == out.pending
           t == Tail(q)
<1>1. 1 \in DOMAIN q /\ \A i \in DOMAIN q : q[i] \in Frames /\ Piece(q[i]) /\ (i = 1 \/ 1 < i)
  BY DEF Pieced
<1>2. \A i \in DOMAIN t : i + 1 \in DOMAIN q /\ t[i] = q[i + 1] /\ 1 < i + 1
  OBVIOUS
<1>3. \A i \in DOMAIN q : 1 < i => i - 1 \in DOMAIN t /\ t[i - 1] = q[i]
  OBVIOUS
<1> HIDE DEF t
<1> SUFFICES ASSUME g.last, Acceptable(PacketOf(g))
             PROVE  OpenedIn(new, t, g) <=> OpenedIn(held, q, g)
  BY Zenon DEF CompletesIn, t
<1> DEFINE Later == \E i \in DOMAIN q : 1 < i /\ q[i].first /\ PacketOf(q[i]) = PacketOf(g)
<1>4. (\E i \in DOMAIN t : t[i].first /\ PacketOf(t[i]) = PacketOf(g)) <=> Later
  BY <1>2, <1>3, Zenon
<1>5. (\E i \in DOMAIN q : q[i].first /\ PacketOf(q[i]) = PacketOf(g))
      <=> Later \/ (f.first /\ PacketOf(f) = PacketOf(g))
  BY <1>1, Zenon
<1> HIDE DEF Later
<1>6. OpenedIn(new, t, g) <=> Opened(new, g) \/ Later
  BY <1>4, Zenon DEF OpenedIn
<1>7. OpenedIn(held, q, g) <=> Opened(held, g) \/ Later \/ (f.first /\ PacketOf(f) = PacketOf(g))
  BY <1>5, Zenon DEF OpenedIn
<1>8. CASE PacketOf(g) = PacketOf(f)
  <2>1. Through(f) < From(g)
    BY <1>1, <1>8, Zenon DEF InTurn, Rising
  <2>2. ~g.first /\ ~f.last
    BY <1>1, <1>8, <2>1, LaterPiece
  <2>3. ~Later
    <3> SUFFICES ASSUME NEW i \in DOMAIN q, 1 < i, q[i].first, PacketOf(q[i]) = PacketOf(f) PROVE FALSE
      BY <1>8 DEF Later
    <3>1. Through(f) < From(q[i])
      BY <1>1, Zenon DEF InTurn, Rising
    <3> QED
      BY <1>1, <3>1, LaterPiece
  <2>4. HeldIs(new, PacketOf(f)) <=> Opened(held, f)
    BY <1>8, <2>2 DEF Taken, HeldIs, Single
  <2> HIDE DEF new, f, g
  <2> QED
    BY <1>6, <1>7, <1>8, <2>2, <2>3, <2>4, Zenon DEF Opened
<1>9. CASE PacketOf(g) # PacketOf(f)
  <2>1. CASE Single(f)
    <3>1. new = held
      BY <2>1 DEF Taken
    <3> QED
      BY <1>6, <1>7, <1>9, <3>1
  <2>2. CASE ~Single(f)
    <3>1. ~HeldIs(new, PacketOf(g))
      BY <1>9, <2>2 DEF Taken, HeldIs
    <3>2. ~HeldIs(held, PacketOf(g))
      <4>1. CASE f.first
        <5>1. Begins(f)
          BY <2>2, <4>1 DEF Begins, Single
        <5> QED
          BY <1>1, <5>1, Zenon DEF InTurn, ApartFrom
      <4>2. CASE ~f.first
        BY <1>9, <4>2 DEF InOrder, Resumes, HeldIs
      <4> QED
        BY <4>1, <4>2
    <3> HIDE DEF new, f, g
    <3> QED
      BY <1>6, <1>7, <1>9, <3>1, <3>2, Zenon DEF Opened
  <2> QED
    BY <2>1, <2>2
<1> QED
  BY <1>8, <1>9

\* The head of the channel is handled: what the rest finishes is what remains.
LEMMA FinishedAfterHead ==
  ASSUME NEW held, NEW q \in Seq(Frames), q # <<>>, Pieced(q), InTurn(held, q),
         NEW out, Taken(held, q[1], out), InOrder(held, q[1])
  PROVE  LET e == IF Completes(held, q[1]) THEN <<PacketOf(q[1])>> ELSE <<>>
             rest == FlattenSeq(Finished(out.pending, Tail(q)))
         IN  FlattenSeq(Finished(held, q)) = e \o rest /\ rest \in Seq(Packets)
<1> DEFINE a == Finished(held, q)
           t == Tail(q)
           b == Finished(out.pending, t)
<1>1. /\ t \in Seq(Frames) /\ Len(q) \in Nat \ {0} /\ Len(t) = Len(q) - 1
      /\ \A i \in DOMAIN t : i + 1 \in DOMAIN q /\ t[i] = q[i + 1] /\ i \in Nat \ {0} /\ 1 < i + 1
  OBVIOUS
<1>2. Pieced(t)
  BY <1>1, Zenon DEF Pieced
<1>3. /\ a \in Seq(Seq(Packets)) /\ Len(a) = Len(q)
      /\ \A i \in 1 .. Len(q) :
           a[i] = IF CompletesIn(held, q, q[i]) THEN <<PacketOf(q[i])>> ELSE <<>>
  BY FinishedTyped
<1>4. \A i \in DOMAIN t : CompletesIn(out.pending, t, t[i]) <=> CompletesIn(held, q, q[i + 1])
  <2> TAKE i \in DOMAIN t
  <2>1. i + 1 \in DOMAIN q /\ t[i] = q[i + 1] /\ 1 < i + 1
    BY <1>1
  <2> DEFINE j == i + 1
  <2> HIDE DEF j
  <2>2. j \in DOMAIN q /\ 1 < j
    BY <2>1 DEF j
  <2>3. CompletesIn(out.pending, Tail(q), q[j]) <=> CompletesIn(held, q, q[j])
    BY <2>2, LaterCompletes
  <2> QED
    BY <2>1, <2>3 DEF j
<1> HIDE DEF t
<1>5. /\ b \in Seq(Seq(Packets)) /\ Len(b) = Len(t)
      /\ \A i \in 1 .. Len(t) :
           b[i] = IF CompletesIn(out.pending, t, t[i]) THEN <<PacketOf(t[i])>> ELSE <<>>
  BY <1>1, <1>2, FinishedTyped
<1> HIDE DEF a, b
<1>6. /\ Tail(a) \in Seq(Seq(Packets)) /\ Len(Tail(a)) = Len(t) /\ a # <<>>
      /\ \A i \in 1 .. Len(t) : Tail(a)[i] = a[i + 1]
  BY <1>1, <1>3
<1>7. \A i \in 1 .. Len(t) : Tail(a)[i] = b[i]
  <2> TAKE i \in 1 .. Len(t)
  <2>1. i \in DOMAIN t /\ i + 1 \in 1 .. Len(q) /\ t[i] = q[i + 1]
    BY <1>1
  <2> QED
    BY <1>3, <1>4, <1>5, <1>6, <2>1
<1>8. Tail(a) = b
  BY <1>5, <1>6, <1>7, SeqEqual
<1>9. FlattenSeq(a) = a[1] \o FlattenSeq(b) /\ FlattenSeq(b) \in Seq(Packets)
  BY <1>3, <1>6, <1>8, JoinOfTail
<1>10. a[1] = IF Completes(held, q[1]) THEN <<PacketOf(q[1])>> ELSE <<>>
  BY <1>1, <1>3, HeadCompletes
<1> QED
  BY <1>9, <1>10 DEF a, b, t

\* A frame is sent: it finishes its packet or not, and nothing else.
LEMMA FinishedAfterSend ==
  ASSUME NEW held, NEW q \in Seq(Frames), NEW h \in Frames,
         Pieced(Append(q, h)), InTurn(held, Append(q, h))
  PROVE  LET r == Append(q, h)
             e == IF CompletesIn(held, r, h) THEN <<PacketOf(h)>> ELSE <<>>
         IN  FlattenSeq(Finished(held, r)) = FlattenSeq(Finished(held, q)) \o e
             /\ FlattenSeq(Finished(held, q)) \in Seq(Packets)
<1> DEFINE r == Append(q, h)
           n == Len(q)
           a == Finished(held, q)
           b == Finished(held, r)
           e == IF CompletesIn(held, r, h) THEN <<PacketOf(h)>> ELSE <<>>
<1>1. /\ r \in Seq(Frames) /\ n \in Nat /\ Len(r) = n + 1 /\ r[n + 1] = h
      /\ DOMAIN q = 1 .. n /\ DOMAIN r = 1 .. n + 1
      /\ \A i \in 1 .. n : r[i] = q[i] /\ i \in DOMAIN r /\ i < n + 1
      /\ \A i \in DOMAIN r : i \in DOMAIN q \/ i = n + 1
      /\ n + 1 \in DOMAIN r
  OBVIOUS
<1>2. Pieced(r) /\ Rising(r)
  BY DEF InTurn
<1> HIDE DEF r, n
<1>3. Pieced(q)
  BY <1>1, <1>2, Zenon DEF Pieced
<1>4. \A i \in DOMAIN q : CompletesIn(held, r, r[i]) <=> CompletesIn(held, q, q[i])
  <2> TAKE i \in DOMAIN q
  <2>1. /\ r[i] = q[i] /\ i \in DOMAIN r /\ i < n + 1 /\ n + 1 \in DOMAIN r /\ r[n + 1] = h
        /\ q[i] \in Frames /\ Piece(q[i]) /\ Piece(h)
    BY <1>1, <1>2 DEF Pieced
  <2>2. ~(h.first /\ PacketOf(h) = PacketOf(q[i]))
    <3> SUFFICES ASSUME h.first, PacketOf(h) = PacketOf(q[i]) PROVE FALSE
      OBVIOUS
    <3>1. Through(q[i]) < From(h)
      BY <1>2, <2>1, Zenon DEF Rising
    <3> QED
      BY <2>1, <3>1, LaterPiece
  <2>3. (\E k \in DOMAIN r : r[k].first /\ PacketOf(r[k]) = PacketOf(q[i]))
        <=> (\E k \in DOMAIN q : q[k].first /\ PacketOf(q[k]) = PacketOf(q[i]))
    BY <1>1, <2>2, Zenon
  <2>4. OpenedIn(held, r, q[i]) <=> OpenedIn(held, q, q[i])
    BY <2>3, Zenon DEF OpenedIn
  <2> QED
    BY <2>1, <2>4, Zenon DEF CompletesIn
<1>5. /\ a \in Seq(Seq(Packets)) /\ Len(a) = n
      /\ \A i \in 1 .. n : a[i] = IF CompletesIn(held, q, q[i]) THEN <<PacketOf(q[i])>> ELSE <<>>
  BY <1>3, FinishedTyped DEF n
<1>6. /\ b \in Seq(Seq(Packets)) /\ Len(b) = n + 1
      /\ \A i \in 1 .. n + 1 : b[i] = IF CompletesIn(held, r, r[i]) THEN <<PacketOf(r[i])>> ELSE <<>>
  BY <1>1, <1>2, FinishedTyped
<1>7. e \in Seq(Packets)
  <2>1. PacketOf(h) \in Packets
    BY <1>1, <1>2 DEF Pieced, Piece
  <2> QED
    BY <2>1
<1> HIDE DEF a, b
<1>8. b[n + 1] = e
  BY <1>1, <1>6
<1> HIDE DEF e
<1>9. /\ Append(a, e) \in Seq(Seq(Packets)) /\ Len(Append(a, e)) = n + 1
      /\ Append(a, e)[n + 1] = e /\ \A i \in 1 .. n : Append(a, e)[i] = a[i]
  BY <1>5, <1>7
<1>10. \A i \in 1 .. n + 1 : b[i] = Append(a, e)[i]
  <2> TAKE i \in 1 .. n + 1
  <2>1. CASE i \in 1 .. n
    <3>1. b[i] = a[i]
      BY <1>1, <1>4, <1>5, <1>6, <2>1
    <3> QED
      BY <1>9, <2>1, <3>1
  <2>2. CASE i = n + 1
    BY <1>8, <1>9, <2>2
  <2> QED
    BY <1>1, <2>1, <2>2
<1>11. b = Append(a, e)
  BY <1>6, <1>9, <1>10, SeqEqual
<1>12. FlattenSeq(b) = FlattenSeq(a) \o e /\ FlattenSeq(a) \in Seq(Packets)
  BY <1>5, <1>7, <1>11, JoinOfAppend
<1> QED
  BY <1>12 DEF a, b, e, r

\* What is held back is forgotten: at most the packet it begins is not finished any more.
LEMMA FinishedAfterReset ==
  ASSUME NEW held, NEW q \in Seq(Frames), Pieced(q), InTurn(held, q)
  PROVE  LET old == FlattenSeq(Finished(held, q))
             new == FlattenSeq(Finished(<<>>, q))
         IN  new = old \/ MissesOne(new, old)
<1> DEFINE a == Finished(held, q)
           b == Finished(<<>>, q)
           Lost(j) == CompletesIn(held, q, q[j]) /\ ~CompletesIn(<<>>, q, q[j])
<1>1. /\ a \in Seq(Seq(Packets)) /\ Len(a) = Len(q)
      /\ \A i \in 1 .. Len(q) : a[i] = IF CompletesIn(held, q, q[i]) THEN <<PacketOf(q[i])>> ELSE <<>>
  BY FinishedTyped
<1>2. /\ b \in Seq(Seq(Packets)) /\ Len(b) = Len(q)
      /\ \A i \in 1 .. Len(q) : b[i] = IF CompletesIn(<<>>, q, q[i]) THEN <<PacketOf(q[i])>> ELSE <<>>
  BY FinishedTyped
<1>3. /\ DOMAIN q = 1 .. Len(q) /\ Len(q) \in Nat
      /\ \A i \in 1 .. Len(q) : q[i] \in Frames /\ Piece(q[i]) /\ PacketOf(q[i]) \in Packets
  BY DEF Pieced, Piece
<1> HIDE DEF a, b
<1>4. \A j \in 1 .. Len(q) : CompletesIn(<<>>, q, q[j]) => CompletesIn(held, q, q[j])
  BY DEF CompletesIn, OpenedIn, Opened, HeldIs
<1>5. \A j \in 1 .. Len(q) : Lost(j) => HeldIs(held, PacketOf(q[j])) /\ q[j].last
  BY Zenon DEF CompletesIn, OpenedIn, Opened
<1>6. \A j \in 1 .. Len(q) : ~Lost(j) => b[j] = a[j]
  BY <1>1, <1>2, <1>4
<1>7. \A j \in 1 .. Len(q) : Lost(j) => a[j] = <<PacketOf(q[j])>> /\ b[j] = <<>>
  BY <1>1, <1>2
<1> HIDE DEF Lost
<1>8. CASE \A j \in 1 .. Len(q) : ~Lost(j)
  <2>1. \A j \in 1 .. Len(q) : b[j] = a[j]
    BY <1>6, <1>8
  <2>2. b = a
    BY <1>1, <1>2, <2>1, SeqEqual
  <2> QED
    BY <2>2 DEF a, b
<1>9. CASE \E j \in 1 .. Len(q) : Lost(j)
  <2>1. PICK j \in 1 .. Len(q) : Lost(j)
    BY <1>9
  <2>2. \A i \in 1 .. Len(q) : \A k \in 1 .. Len(q) : Lost(i) /\ Lost(k) => ~(i < k)
    <3> SUFFICES ASSUME NEW i \in 1 .. Len(q), NEW k \in 1 .. Len(q), Lost(i), Lost(k), i < k
                 PROVE  FALSE
      OBVIOUS
    <3>1. PacketOf(q[i]) = PacketOf(q[k]) /\ q[i].last
      BY <1>5 DEF HeldIs
    <3>2. Through(q[i]) < From(q[k])
      BY <1>3, <3>1, Zenon DEF InTurn, Rising
    <3> QED
      BY <1>3, <3>1, <3>2, LaterPiece
  <2>3. \A k \in 1 .. Len(q) : k # j => ~Lost(k)
    <3> SUFFICES ASSUME NEW k \in 1 .. Len(q), k # j, Lost(k) PROVE FALSE
      OBVIOUS
    <3>1. k < j \/ j < k
      BY <1>3
    <3> QED
      BY <2>1, <2>2, <3>1
  <2> DEFINE x == PacketOf(q[j])
  <2>4. x \in Packets /\ a[j] = <<x>> /\ b[j] = <<>>
    BY <1>3, <1>7, <2>1
  <2> HIDE DEF x
  <2>5. \A k \in 1 .. Len(a) : k # j => b[k] = a[k]
    BY <1>1, <1>6, <2>3
  <2>6. a \in Seq(Seq(Packets)) /\ b \in Seq(Seq(Packets))
    BY <1>1, <1>2
  <2>7. Blanked(a, b, j)
    BY <1>1, <1>2, <2>4, <2>5 DEF Blanked
  <2>8. MissesOne(FlattenSeq(b), FlattenSeq(a))
    BY <2>4, <2>6, <2>7, JoinWithout
  <2> QED
    BY <2>8 DEF a, b
<1> QED
  BY <1>8, <1>9

(***************************************************************************)
(* Every step is one of PacketStream.                                      *)
(***************************************************************************)

Handed == [i \in DOMAIN got |-> Whole(got[i])]

LEMMA HandedOne ==
  ASSUME NEW p \in Packets
  PROVE  [i \in DOMAIN <<Payload(p)>> |-> Whole(<<Payload(p)>>[i])] = <<p>>
<1>1. Payload(p)[1] = <<p, 1>> /\ Payload(p) = Payload(p)
  <2>1. 1 \in 1 .. Size(p)
    BY SizeTyped
  <2> QED
    BY <2>1, PayloadTyped
<1> DEFINE d == Payload(p)
<1>2. d[1][1] = p
  BY <1>1
<1>3. Whole(d) = p
  BY <1>2 DEF Whole
<1> HIDE DEF d
<1>4. DOMAIN <<d>> = 1 .. 1 /\ <<d>>[1] = d
  OBVIOUS
<1>5. [i \in DOMAIN <<d>> |-> Whole(<<d>>[i])] = [i \in 1 .. 1 |-> p]
  <2>1. \A i \in 1 .. 1 : Whole(<<d>>[i]) = p
    BY <1>3, <1>4
  <2> DEFINE w(i) == Whole(<<d>>[i])
  <2>2. \A i \in 1 .. 1 : w(i) = p
    BY <2>1
  <2> HIDE DEF w
  <2>3. [i \in 1 .. 1 |-> w(i)] = [i \in 1 .. 1 |-> p]
    BY <2>2
  <2> QED
    BY <1>4, <2>3 DEF w
<1>6. [i \in 1 .. 1 |-> p] = <<p>>
  OBVIOUS
<1> QED
  BY <1>5, <1>6 DEF d

LEMMA HandedNone == [i \in DOMAIN <<>> |-> Whole(<<>>[i])] = <<>>
<1> DEFINE w(i) == Whole(<<>>[i])
<1>1. DOMAIN <<>> = 1 .. 0
  OBVIOUS
<1> HIDE DEF w
<1>2. [i \in 1 .. 0 |-> w(i)] = <<>>
  OBVIOUS
<1> QED
  BY <1>1, <1>2 DEF w

\* What the channel holds, on its own.
LEMMA ChannelInTurn ==
  ASSUME TypeOK, FramesInOrder, LineInTurn
  PROVE  channel \in Seq(Frames) /\ Pieced(channel) /\ InTurn(pending, channel)
<1>1. channel \in Seq(Frames) /\ outgoing \in Seq(Frames) /\ Len(channel) \in Nat /\ Len(outgoing) \in Nat
  BY DEF TypeOK
<1>2. Pieced(channel)
  BY DEF FramesInOrder, ChannelInOrder, Pieced
<1>3. Line \in Seq(Frames) /\ Len(channel) <= Len(Line) /\ \A i \in 1 .. Len(channel) : channel[i] = Line[i]
  BY <1>1, ConcatProperties DEF Line
<1>4. InTurn(pending, channel)
  BY <1>1, <1>3, InTurnPrefix DEF LineInTurn
<1> QED
  BY <1>1, <1>2, <1>4

\* Tunnel::push hands over the oldest packet to come, or none.
LEMMA HandleFrameDelivers ==
  ASSUME TypeOK, FramesInOrder, LineInTurn, HandleFrame
  PROVE  \/ \E p \in Packets : /\ ToCome = <<p>> \o ToCome' /\ ToCome' \in Seq(Packets)
                               /\ got' = <<Payload(p)>>
         \/ ToCome' = ToCome /\ got' = <<>>
<1> DEFINE f == channel[1]
           out == Push(pending, skipping, f)
<1>1. /\ channel # <<>> /\ Piece(f) /\ InOrder(pending, f) /\ Taken(pending, f, out)
      /\ pending' = out.pending /\ got' = out.done /\ channel' = Tail(channel)
  BY HandleFrameTakes
<1> HIDE DEF out
<1> DEFINE e == IF Completes(pending, f) THEN <<PacketOf(f)>> ELSE <<>>
           rest == FlattenSeq(Finished(out.pending, Tail(channel)))
<1>2. channel \in Seq(Frames) /\ Pieced(channel) /\ InTurn(pending, channel)
  BY ChannelInTurn
<1>3. FlattenSeq(Finished(pending, channel)) = e \o rest /\ rest \in Seq(Packets)
  BY <1>1, <1>2, FinishedAfterHead
<1>4. ToCome = e \o rest
  BY <1>3, ToComeIs
<1>5. ToCome' = rest
  BY <1>1, ToComeIsThen
<1>6. PacketOf(f) \in Packets
  BY <1>1 DEF Piece
<1>7. got' = IF Completes(pending, f) THEN <<Payload(PacketOf(f))>> ELSE <<>>
  BY <1>1 DEF Taken
<1>8. CASE Completes(pending, f)
  BY <1>3, <1>4, <1>5, <1>6, <1>7, <1>8
<1>9. CASE ~Completes(pending, f)
  <2>1. <<>> \o rest = rest
    BY <1>3, ConcatEmptySeq
  <2> QED
    BY <1>4, <1>5, <1>7, <1>9, <2>1
<1> QED
  BY <1>8, <1>9

\* A frame goes out: the packet it finishes is to come, behind all the others.
LEMMA SendAppends ==
  ASSUME TypeOK, FramesInOrder, LineInTurn, (TypeOK /\ FramesInOrder /\ LineInTurn)',
         NEW h \in Frames, channel' = Append(channel, h), pending' = pending
  PROVE  ToCome' = ToCome \/ \E p \in Packets : ToCome' = Append(ToCome, p)
<1> DEFINE r == Append(channel, h)
           e == IF CompletesIn(pending, r, h) THEN <<PacketOf(h)>> ELSE <<>>
<1>1. Pieced(channel)' /\ InTurn(pending, channel)'
  BY ChannelInTurn, PTL
<1>2. Pieced(r) /\ InTurn(pending, r)
  BY <1>1
<1>3. channel \in Seq(Frames)
  BY DEF TypeOK
<1>4. FlattenSeq(Finished(pending, r)) = FlattenSeq(Finished(pending, channel)) \o e
      /\ FlattenSeq(Finished(pending, channel)) \in Seq(Packets)
  BY <1>2, <1>3, FinishedAfterSend
<1>5. ToCome' = FlattenSeq(Finished(pending, r))
  BY ToComeIsThen
<1>6. ToCome' = ToCome \o e /\ ToCome \in Seq(Packets)
  BY <1>4, <1>5, ToComeIs
<1>7. PacketOf(h) \in Packets
  <2>1. Len(channel) + 1 \in DOMAIN r /\ r[Len(channel) + 1] = h
    BY <1>3
  <2> QED
    BY <1>2, <2>1 DEF Pieced, Piece
<1>8. CASE CompletesIn(pending, r, h)
  <2>1. ToCome \o <<PacketOf(h)>> = Append(ToCome, PacketOf(h))
    BY <1>6, <1>7, AppendIsConcat
  <2> QED
    BY <1>6, <1>7, <1>8, <2>1
<1>9. CASE ~CompletesIn(pending, r, h)
  <2>1. ToCome \o <<>> = ToCome
    BY <1>6, ConcatEmptySeq
  <2> QED
    BY <1>6, <1>9, <2>1
<1> QED
  BY <1>8, <1>9

\* Tunnel::reset loses at most the packet that is held back.
LEMMA ResetCuts ==
  ASSUME TypeOK, FramesInOrder, LineInTurn, Reset
  PROVE  ToCome' = ToCome \/ MissesOne(ToCome', ToCome)
<1>1. channel \in Seq(Frames) /\ Pieced(channel) /\ InTurn(pending, channel)
  BY ChannelInTurn
<1>2. ToCome' = FlattenSeq(Finished(<<>>, channel))
  BY ToComeIsThen DEF Reset
<1> DEFINE old == FlattenSeq(Finished(pending, channel))
           new == FlattenSeq(Finished(<<>>, channel))
<1>3. new = old \/ MissesOne(new, old)
  BY <1>1, FinishedAfterReset
<1> HIDE DEF old, new
<1>4. ToCome = old /\ ToCome' = new
  BY <1>2, ToComeIs DEF old, new
<1> QED
  BY <1>3, <1>4, Zenon

LEMMA NothingToCome ==
  ASSUME channel = <<>>
  PROVE  ToCome = <<>>
<1> DEFINE e(i) == IF CompletesIn(pending, <<>>, <<>>[i]) THEN <<PacketOf(<<>>[i])>> ELSE <<>>
<1>1. Finished(pending, <<>>) = [i \in DOMAIN <<>> |-> e(i)]
  BY DEF Finished
<1>2. DOMAIN <<>> = 1 .. 0
  OBVIOUS
<1> HIDE DEF e
<1>3. Finished(pending, <<>>) = <<>>
  BY <1>1, <1>2
<1> QED
  BY <1>3, ToComeIs, JoinOfNone

LEMMA HeadOfOne ==
  ASSUME NEW X, NEW x \in X, NEW rest \in Seq(X), NEW s, s = <<x>> \o rest
  PROVE  s # <<>> /\ Head(s) = x /\ Tail(s) = rest
<1>1. <<x>> \in Seq(X) /\ Len(<<x>>) = 1 /\ <<x>>[1] = x /\ Len(rest) \in Nat
  OBVIOUS
<1>2. /\ s \in Seq(X) /\ Len(s) = Len(<<x>>) + Len(rest)
      /\ \A i \in 1 .. Len(<<x>>) + Len(rest) :
           s[i] = IF i <= Len(<<x>>) THEN <<x>>[i] ELSE rest[i - Len(<<x>>)]
  BY <1>1, ConcatProperties
<1>3. 1 \in 1 .. Len(<<x>>) + Len(rest) /\ 1 <= Len(<<x>>)
  BY <1>1
<1>4. s[1] = x /\ s # <<>>
  BY <1>1, <1>2, <1>3
<1>5. <<x>> \o Tail(s) = s /\ Tail(s) \in Seq(X)
  BY <1>2, <1>4, HeadAndTail
<1>6. Tail(s) = rest
  BY <1>1, <1>5, ConcatSimplifications
<1> QED
  BY <1>4, <1>6

LEMMA StepDelivers ==
  ASSUME TypeOK, FramesInOrder, LineInTurn, HandleFrame
  PROVE  Stream!Deliver \/ Stream!Idle
<1>1. epoch' = epoch
  BY DEF HandleFrame
<1>2. CASE \E p \in Packets : /\ ToCome = <<p>> \o ToCome' /\ ToCome' \in Seq(Packets)
                              /\ got' = <<Payload(p)>>
  <2>1. PICK p \in Packets : /\ ToCome = <<p>> \o ToCome' /\ ToCome' \in Seq(Packets)
                             /\ got' = <<Payload(p)>>
    BY <1>2
  <2> DEFINE then == ToCome'
  <2>2. ToCome = <<p>> \o then /\ then \in Seq(Packets)
    BY <2>1
  <2> HIDE DEF then
  <2>3. ToCome # <<>> /\ Head(ToCome) = p /\ Tail(ToCome) = then
    BY <2>2, HeadOfOne
  <2>4. Handed' = <<p>>
    BY <2>1, HandedOne DEF Handed
  <2> QED
    BY <1>1, <2>3, <2>4 DEF Stream!Deliver, Handed, then
<1>3. CASE ToCome' = ToCome /\ got' = <<>>
  <2>1. Handed' = <<>>
    BY <1>3, HandedNone DEF Handed
  <2> QED
    BY <1>1, <1>3, <2>1 DEF Stream!Idle, Handed
<1> QED
  BY <1>2, <1>3, HandleFrameDelivers

LEMMA StepSends ==
  ASSUME TypeOK, FramesInOrder, LineInTurn, (TypeOK /\ FramesInOrder /\ LineInTurn)',
         NEW h \in Frames, channel' = Append(channel, h), pending' = pending,
         got' = <<>>, epoch' = epoch
  PROVE  Stream!Idle \/ \E p \in Packets : Stream!Send(p)
<1>1. Handed' = <<>>
  BY HandedNone DEF Handed
<1>2. CASE ToCome' = ToCome
  BY <1>1, <1>2 DEF Stream!Idle, Handed
<1>3. CASE \E p \in Packets : ToCome' = Append(ToCome, p)
  <2>1. PICK p \in Packets : ToCome' = Append(ToCome, p)
    BY <1>3
  <2>2. Stream!Send(p)
    BY <1>1, <2>1 DEF Stream!Send, Handed
  <2> QED
    BY <2>2
<1> QED
  BY <1>2, <1>3, SendAppends

LEMMA StepIdles ==
  ASSUME channel' = channel, pending' = pending, got' = <<>>, epoch' = epoch
  PROVE  Stream!Idle
<1>1. Handed' = <<>>
  BY HandedNone DEF Handed
<1>2. ToCome' = ToCome
  BY ToComeIs, ToComeIsThen
<1> QED
  BY <1>1, <1>2 DEF Stream!Idle, Handed

LEMMA StreamStep ==
  ASSUME TypeOK, FramesInOrder, LineInTurn, [Next]_vars
  PROVE  [Stream!Next]_(Stream!svars)
<1>0. (TypeOK /\ FramesInOrder /\ LineInTurn)'
  BY TypeStep, OrderStep, TurnStep
<1>1. CASE HandleFrame
  BY <1>1, StepDelivers DEF Stream!Next
<1>2. CASE Reset
  <2>1. Handed' = <<>>
    BY <1>2, HandedNone DEF Reset, Handed
  <2>2. epoch' = ~epoch
    BY <1>2 DEF Reset
  <2>3. ToCome' = ToCome \/ MissesOne(ToCome', ToCome)
    BY <1>2, ResetCuts
  <2>4. \/ ToCome' = ToCome
        \/ \E i \in DOMAIN ToCome : ToCome' = Stream!RemoveAt(ToCome, i)
    <3>1. \A i : RemoveAt(ToCome, i) = Stream!RemoveAt(ToCome, i)
      BY DEF RemoveAt, Stream!RemoveAt
    <3> QED
      BY <2>3, <3>1, Zenon DEF MissesOne
  <2>5. Stream!Cut
    BY <2>1, <2>2, <2>4, Zenon DEF Stream!Cut, Handed
  <2> QED
    BY <2>5 DEF Stream!Next
<1>3. CASE Reconnect
  <2>1. Handed' = <<>>
    BY <1>3, HandedNone DEF Reconnect, Handed
  <2>2. epoch' = ~epoch
    BY <1>3 DEF Reconnect
  <2>3. ToCome' = <<>>
    <3>1. (channel = <<>> => ToCome = <<>>)'
      BY NothingToCome, PTL
    <3> QED
      BY <1>3, <3>1 DEF Reconnect
  <2>4. Stream!Cut
    BY <2>1, <2>2, <2>3 DEF Stream!Cut, Handed
  <2> QED
    BY <2>4 DEF Stream!Next
<1>4. ASSUME NEW p \in Unused, Start(p) PROVE Stream!Next
  BY <1>4, StepIdles DEF Start, Stream!Next
<1>5. ASSUME NEW p \in Unused, SendSingle(p) PROVE Stream!Next
  <2> DEFINE s == SplitFrames(Payload(p))
             h == s[1]
  <2>1. /\ Len(s) = 1 /\ channel' = Append(channel, h) /\ pending' = pending
        /\ got' = <<>> /\ epoch' = epoch
    BY <1>5 DEF SendSingle
  <2>2. s \in Seq(Frames)
    BY SplittingRises DEF Unused
  <2> HIDE DEF s
  <2>3. h \in Frames
    <3>1. Len(s) = 1
      BY <2>1
    <3> QED
      BY <2>2, <3>1
  <2> HIDE DEF h
  <2>4. Stream!Idle \/ \E q \in Packets : Stream!Send(q)
    BY <1>0, <2>1, <2>3, StepSends
  <2> QED
    BY <2>4 DEF Stream!Next
<1>6. CASE SendFrame
  <2> DEFINE h == outgoing[1]
  <2>1. /\ h \in Frames /\ channel' = Append(channel, h) /\ pending' = pending
        /\ got' = <<>> /\ epoch' = epoch
    BY <1>6 DEF SendFrame, TypeOK
  <2> HIDE DEF h
  <2>2. Stream!Idle \/ \E q \in Packets : Stream!Send(q)
    BY <1>0, <2>1, StepSends
  <2> QED
    BY <2>2 DEF Stream!Next
<1>7. CASE Abandon
  BY <1>7, StepIdles DEF Abandon, Stream!Next
<1>8. CASE UNCHANGED vars
  <2>1. channel' = channel /\ pending' = pending /\ got' = got /\ epoch' = epoch
    BY <1>8 DEF vars
  <2>2. ToCome' = ToCome
    BY <2>1, ToComeIs, ToComeIsThen
  <2>3. Handed' = Handed
    BY <2>1 DEF Handed
  <2> QED
    BY <2>1, <2>2, <2>3 DEF Stream!svars, Handed
<1> QED
  BY <1>1, <1>2, <1>3, <1>4, <1>5, <1>6, <1>7, <1>8 DEF Next, ClientStep

\* Tunnel::push behind a FIFO channel is a queue of packets: they come out whole, each
\* once and in the order in which their last frames were sent.  A session that starts
\* over (Tunnel::reset) loses at most the packet it was in the middle of, and only a
\* closed connection loses more.
THEOREM PacketsAreDelivered == Spec => DeliversPackets
<1>1. Init => Stream!Init
  <2>1. Init => ToCome = <<>> /\ Handed = <<>> /\ epoch \in BOOLEAN
    BY NothingToCome, HandedNone DEF Init, Handed
  <2> QED
    BY <2>1 DEF Stream!Init, Handed
<1>2. TypeOK /\ FramesInOrder /\ LineInTurn /\ [Next]_vars => [Stream!Next]_(Stream!svars)
  BY StreamStep
<1> QED
  BY <1>1, <1>2, TypeCorrect, InOrderAlways, LineInTurnAlways, PTL
     DEF Spec, DeliversPackets, Stream!Spec

=============================================================================
