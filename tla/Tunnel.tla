------------------------------- MODULE Tunnel -------------------------------
(***************************************************************************)
(* The axiom:tunnel transport (src/src/tunnel.rs): a packet travels as one *)
(* or more frames on one FIFO channel, each flagged as the first and/or    *)
(* last of its packet, and the server reassembles them in one buffer.      *)
(*                                                                         *)
(* Data is a sequence of units <<packet, position>>, so that a mixture of  *)
(* two packets, a gap or a repetition shows; what zstd does to the body    *)
(* and the wire format of the header are left out.                         *)
(***************************************************************************)
EXTENDS Naturals, SequencesExt

CONSTANTS
  Ids,           \* names for packets, reused once a packet is gone
  Bodies,        \* lengths of the bodies the client sends
  Header,        \* length of identifier, declared length and flags
  MaxFrameLen,   \* MAX_FRAME_LEN, the flag byte included
  MaxPacketLen,  \* MAX_PACKET_LEN, for the body a packet declares
  MaxPendingLen, \* MAX_PENDING_LEN, for the bytes held back
  MaxInFlight    \* bound: frames on their way

ASSUME TunnelAssumption ==
  /\ Bodies \subseteq Nat
  /\ Header \in Nat \ {0}
  /\ MaxFrameLen \in Nat \ {0, 1}
  /\ MaxPacketLen \in Nat
  /\ MaxPendingLen \in Nat
  /\ MaxInFlight \in Nat \ {0}

Packets == [id: Ids, len: Bodies]

Payload(p) == [i \in 1 .. Header + p.len |-> <<p, i>>]
Units      == Packets \X (Nat \ {0})
Frames     == [first: BOOLEAN, last: BOOLEAN, data: Seq(Units)]

VARIABLES
  pending,   \* Tunnel::pending
  skipping,  \* Tunnel::skipping
  outgoing,  \* frames of the packet the client is in the middle of
  channel,   \* frames on their way, oldest first
  got,       \* the packet the last step handed to the handlers, if any
  kicked,    \* whether the last frame was answered with an error
  epoch      \* history: changes whenever a session starts over

vars == <<pending, skipping, outgoing, channel, got, kicked, epoch>>

-----------------------------------------------------------------------------
(* Splitting and reassembling. *)

\* split_frames; the client splits by the same rule.
\* Mutated: the flag byte is not counted.
ChunkUncounted == MaxFrameLen
Chunk          == MaxFrameLen - 1
Pieces(n) == IF n = 0 THEN 1 ELSE (n + Chunk - 1) \div Chunk
SplitFrames(data) ==
  [k \in 1 .. Pieces(Len(data)) |->
     [first |-> k = 1,
      last  |-> k = Pieces(Len(data)),
      data  |-> SubSeq(data, (k - 1) * Chunk + 1,
                       IF k = Pieces(Len(data)) THEN Len(data) ELSE k * Chunk)]]

\* The outcome of one frame: what is held back afterwards, the payload that was
\* completed, if any, and whether the frame was refused.
Outcome(held, skips, done, refused) ==
  [pending |-> held, skipping |-> skips, done |-> done, refused |-> refused]

\* decode: the header must be there, and the body it declares within the limit.
Declared(data)  == data[1][1].len
Decodable(data) == Len(data) >= Header /\ Declared(data) <= MaxPacketLen
Decoded(held, skips, data) ==
  IF Decodable(data) THEN Outcome(held, skips, <<data>>, FALSE)
                     ELSE Outcome(held, skips, <<>>, TRUE)

\* Adding a frame to the packet it continues, or begins when held is empty.
\* Mutated: nothing caps the buffer.
ExtendedUncapped(held, skips, f) ==
  IF f.last THEN Decoded(<<>>, skips, held \o f.data)
            ELSE Outcome(held \o f.data, skips, <<>>, FALSE)
Extended(held, skips, f) ==
  IF Len(held) + Len(f.data) > MaxPendingLen
  THEN Outcome(<<>>, FALSE, <<>>, TRUE)
  ELSE IF f.last THEN Decoded(<<>>, skips, held \o f.data)
                 ELSE Outcome(held \o f.data, skips, <<>>, FALSE)

\* Mutated: a first frame is appended to what an unfinished packet left behind; a
\* frame without a beginning is kept; skipping goes on past a first frame.
PushKeepsOld(held, skips, f) ==
  CASE f.first /\ f.last           -> Decoded(held, skips, f.data)
    [] f.first /\ ~f.last          -> Extended(held, FALSE, f)
    [] ~f.first /\ skips           -> Outcome(held, skips, <<>>, FALSE)
    [] ~f.first /\ ~skips          -> Extended(held, skips, f)
PushNoSkip(held, skips, f) ==
  CASE f.first /\ f.last           -> Decoded(held, skips, f.data)
    [] f.first /\ ~f.last          -> Extended(<<>>, FALSE, f)
    [] ~f.first                    -> Extended(held, skips, f)
PushSkipsOn(held, skips, f) ==
  CASE f.first /\ f.last           -> Decoded(held, skips, f.data)
    [] ~(f.first /\ f.last) /\ skips -> Outcome(held, skips, <<>>, FALSE)
    [] f.first /\ ~f.last /\ ~skips  -> Extended(<<>>, FALSE, f)
    [] ~f.first /\ ~skips /\ held = <<>> -> Outcome(held, TRUE, <<>>, FALSE)
    [] ~f.first /\ ~skips /\ held # <<>> -> Extended(held, skips, f)

\* Tunnel::push.
Push(held, skips, f) ==
  IF Len(f.data) + 1 > MaxFrameLen THEN Outcome(held, skips, <<>>, TRUE)
  ELSE IF f.first /\ f.last THEN Decoded(held, skips, f.data)
  ELSE IF f.first           THEN Extended(<<>>, FALSE, f)
  ELSE IF skips             THEN Outcome(held, skips, <<>>, FALSE)
  ELSE IF held = <<>>       THEN Outcome(held, TRUE, <<>>, FALSE)
  ELSE Extended(held, skips, f)

-----------------------------------------------------------------------------
\* Every variable has its type; the buffer never outgrows its cap, and holds
\* nothing while frames are being skipped.
TypeOK ==
  /\ pending \in Seq(Units)
  /\ Len(pending) <= MaxPendingLen
  /\ skipping \in BOOLEAN
  /\ skipping => pending = <<>>
  /\ outgoing \in Seq(Frames)
  /\ channel \in Seq(Frames)
  /\ got \in Seq(Seq(Units))
  /\ kicked \in BOOLEAN
  /\ epoch \in BOOLEAN

Init ==
  /\ pending = <<>>
  /\ skipping = FALSE
  /\ outgoing = <<>>
  /\ channel = <<>>
  /\ got = <<>>
  /\ kicked = FALSE
  /\ epoch = FALSE

\* on_payload for an active player: feed the frame, then dispatch or kick.
HandleFrame ==
  /\ ~kicked
  /\ channel # <<>>
  /\ LET out == Push(pending, skipping, Head(channel)) IN
       /\ pending' = out.pending
       /\ skipping' = out.skipping
       /\ got' = out.done
       /\ kicked' = out.refused
  /\ channel' = Tail(channel)
  /\ UNCHANGED <<outgoing, epoch>>

\* Tunnel::reset, when `activate` starts a session.
Reset ==
  /\ ~kicked
  /\ pending' = <<>>
  /\ skipping' = FALSE
  /\ got' = <<>>
  /\ epoch' = ~epoch
  /\ UNCHANGED <<outgoing, channel, kicked>>

\* The kick closes the connection; the next one starts with nothing.
Reconnect ==
  /\ kicked
  /\ pending' = <<>>
  /\ skipping' = FALSE
  /\ outgoing' = <<>>
  /\ channel' = <<>>
  /\ got' = <<>>
  /\ kicked' = FALSE
  /\ epoch' = ~epoch

-----------------------------------------------------------------------------
(* The client. *)

IdsIn(data) == {data[i][1].id : i \in DOMAIN data}
InUse == IdsIn(pending) \cup (UNION {IdsIn(channel[i].data) : i \in DOMAIN channel})
                        \cup (UNION {IdsIn(outgoing[i].data) : i \in DOMAIN outgoing})
Unused == {p \in Packets : p.id \notin InUse}

Start(p) ==
  /\ outgoing = <<>>
  /\ outgoing' = SplitFrames(Payload(p))
  /\ got' = <<>>
  /\ UNCHANGED <<pending, skipping, channel, kicked, epoch>>

SendFrame ==
  /\ outgoing # <<>>
  /\ Len(channel) < MaxInFlight
  /\ channel' = Append(channel, Head(outgoing))
  /\ outgoing' = Tail(outgoing)
  /\ got' = <<>>
  /\ UNCHANGED <<pending, skipping, kicked, epoch>>

\* A packet of a single frame may overtake the one being sent.
SendSingle(p) ==
  /\ outgoing # <<>>
  /\ Len(channel) < MaxInFlight
  /\ Len(SplitFrames(Payload(p))) = 1
  /\ channel' = Append(channel, SplitFrames(Payload(p))[1])
  /\ got' = <<>>
  /\ UNCHANGED <<pending, skipping, outgoing, kicked, epoch>>

\* A client that is disabled gives up the packet it is in the middle of.
Abandon ==
  /\ outgoing # <<>>
  /\ outgoing' = <<>>
  /\ got' = <<>>
  /\ UNCHANGED <<pending, skipping, channel, kicked, epoch>>

ClientStep ==
  \/ \E p \in Unused : Start(p) \/ SendSingle(p)
  \/ SendFrame
  \/ Abandon

Next ==
  \/ HandleFrame
  \/ Reset
  \/ Reconnect
  \/ ~kicked /\ ClientStep

Spec == Init /\ [][Next]_vars

\* Every frame arrives and is handled, and a kick takes effect.
FairSpec == Spec /\ WF_vars(HandleFrame) /\ WF_vars(Reconnect)

-----------------------------------------------------------------------------
(* Safety. *)

\* What is held back is the beginning of one packet, without gaps, whatever was
\* abandoned, skipped or overtaken before.
HoldsOneBeginning ==
  pending # <<>> => IsStrictPrefix(pending, Payload(pending[1][1]))

PacketOf(f) == f.data[1][1]

\* Short enough to be reassembled, and to be decoded.
Acceptable(p) ==
  /\ p.len <= MaxPacketLen
  /\ Len(SplitFrames(Payload(p))) > 1 => Header + p.len <= MaxPendingLen

\* Frames that finish a packet whose first one is on its way as well, or held back.
Finishes(f) ==
  /\ f.last
  /\ Acceptable(PacketOf(f))
  /\ \/ f.first
     \/ pending # <<>> /\ pending[1][1] = PacketOf(f)
     \/ \E i \in DOMAIN channel : channel[i].first /\ PacketOf(channel[i]) = PacketOf(f)

\* The packets that are still to come out.
ToCome ==
  FlattenSeq([i \in DOMAIN channel |->
                IF Finishes(channel[i]) THEN <<PacketOf(channel[i])>> ELSE <<>>])

\* Tunnel implements PacketStream: a payload that came out stands for a packet only
\* if it is the whole payload of it.
Whole(data) == IF data = Payload(data[1][1]) THEN data[1][1] ELSE [id |-> "broken", len |-> 0]
Stream == INSTANCE PacketStream WITH
            queue <- ToCome, got <- [i \in DOMAIN got |-> Whole(got[i])]

\* Packets come out whole, once, in order; one that the client finished is lost
\* only if the session started over in the middle of it.
DeliversPackets == Stream!Spec

\* The frames of a client that splits as split_frames does are refused for the size
\* of their packet alone: for no piece of it, and for nothing that came before it.
RefusedForSize ==
  [][~kicked /\ kicked' => ~Acceptable(PacketOf(Head(channel)))]_vars

\* Every packet that was finished comes out.
DeliversEventually == Stream!FairSpec
=============================================================================
