---------------------------- MODULE PacketStream ----------------------------
(***************************************************************************)
(* What the tunnel promises to the handlers behind it: the packets the     *)
(* client finished sending come out whole, each once, in the order in      *)
(* which they were finished.  A packet gets lost only where the stream is  *)
(* cut: when a session starts over, or the connection closes.              *)
(***************************************************************************)
EXTENDS SequencesExt

CONSTANT Packets

VARIABLES
  queue,  \* packets on their way, oldest first
  got,    \* the packet handed to the handlers last, as a sequence of at most one
  epoch   \* changes whenever the stream is cut

svars == <<queue, got, epoch>>

Init == queue = <<>> /\ got = <<>> /\ epoch \in BOOLEAN

Send(p) == queue' = Append(queue, p) /\ got' = <<>> /\ UNCHANGED epoch

Deliver ==
  /\ queue # <<>>
  /\ got' = <<Head(queue)>>
  /\ queue' = Tail(queue)
  /\ UNCHANGED epoch

\* A session starts over: at most the packet it was in the middle of is lost.
\* When the connection closes everything is.
Cut ==
  /\ got' = <<>>
  /\ epoch' = ~epoch
  /\ \/ queue' = queue
     \/ \E i \in DOMAIN queue : queue' = RemoveAt(queue, i)
     \/ queue' = <<>>

\* A frame that finishes no packet.
Idle == UNCHANGED <<queue, epoch>> /\ got' = <<>>

Next ==
  \/ \E p \in Packets : Send(p)
  \/ Deliver
  \/ Cut
  \/ Idle

Spec == Init /\ [][Next]_svars

FairSpec == Spec /\ WF_svars(Deliver)
=============================================================================
