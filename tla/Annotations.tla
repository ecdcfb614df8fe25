---------------------------- MODULE Annotations ----------------------------
(***************************************************************************)
(* Shared annotations (src/src/annotations.rs): the server holds a list per*)
(* dimension, applies a client's batch of actions to the list of the       *)
(* dimension the player is in, and relays what it applied to every player  *)
(* in that dimension.  A client starts from a snapshot (send_all, when its *)
(* session is activated) and applies what is relayed to it.                *)
(*                                                                         *)
(* A batch is handled under one lock.  It is modelled action by action,    *)
(* each a turn of the loop in `handle`; while it runs no other handler of  *)
(* the plugin does, but clients keep receiving.  Text, images and floats   *)
(* are opaque: a body is a place, or has none that move and rotate change. *)
(***************************************************************************)
EXTENDS Naturals, SequencesExt

CONSTANTS
  Players, Dimensions, Uuids,
  Placed,          \* bodies with a position and a rotation (positioned_offset)
  Unplaced,        \* bodies without
  MaxAnnotations,  \* MAX_ANNOTATIONS: the length of a list, and of a batch
  MaxBatch,        \* bound: actions of a batch the model looks at
  MaxInFlight,     \* bound: actions on their way to a client
  Travel,          \* whether players change dimension within a session
  None

Bodies == Placed \cup Unplaced

ASSUME AnnotationsAssumption ==
  /\ Placed \cap Unplaced = {}
  /\ MaxAnnotations \in Nat
  /\ MaxBatch \in Nat
  /\ MaxInFlight \in Nat
  /\ Travel \in BOOLEAN
  /\ None \notin Players

VARIABLES
  worlds,     \* WORLDS: the list of each dimension
  active,     \* players whose session is active
  dimension,  \* the dimension each player is in
  editor,     \* the player whose batch is being handled, or None
  applied,    \* the actions of that batch that were applied so far
  refused,    \* how many of them were not, the list being full
  channel,    \* annotation actions on their way to each client
  view,       \* what each client holds
  behind      \* history: the client missed a change since its snapshot

vars == <<worlds, active, dimension, editor, applied, refused, channel, view, behind>>

Annotation == [uuid: Uuids, body: Bodies]

\* move stands for rotate too: both overwrite a part of the body.
Action == [do: {"create"}, uuid: Uuids, body: Bodies]
   \cup   [do: {"move"}, uuid: Uuids, body: Placed]
   \cup   [do: {"delete"}, uuid: Uuids]
   \cup   [do: {"clear"}]

Create(a) == [do |-> "create", uuid |-> a.uuid, body |-> a.body]
Clear     == [do |-> "clear"]

\* Every variable has its type.
TypeOK ==
  /\ worlds \in [Dimensions -> Seq(Annotation)]
  /\ active \in SUBSET Players
  /\ dimension \in [Players -> Dimensions]
  /\ editor \in Players \cup {None}
  /\ applied \in Seq(Action)
  /\ refused \in Nat
  /\ channel \in [Players -> Seq(Action)]
  /\ view \in [Players -> SUBSET Annotation]
  /\ behind \in SUBSET Players

-----------------------------------------------------------------------------
(* One action on a list. *)

\* retain.
Without(list, u) ==
  FoldLeft(LAMBDA kept, a : IF a.uuid = u THEN kept ELSE Append(kept, a), <<>>, list)

\* Mutated: an annotation that is created again is not removed first.
CreatedTwice(list, m) == Append(list, [uuid |-> m.uuid, body |-> m.body])
Created(list, m) == Append(Without(list, m.uuid), [uuid |-> m.uuid, body |-> m.body])

\* The first annotation of that UUID, if it has a place.
Moved(list, m) ==
  [i \in DOMAIN list |-> IF /\ list[i].uuid = m.uuid /\ list[i].body \in Placed
                            /\ \A j \in 1 .. i - 1 : list[j].uuid # m.uuid
                         THEN [list[i] EXCEPT !.body = m.body] ELSE list[i]]

Applied(list, m) ==
  CASE m.do = "create" -> Created(list, m)
    [] m.do = "move"   -> Moved(list, m)
    [] m.do = "delete" -> Without(list, m.uuid)
    [] m.do = "clear"  -> <<>>

\* The client holds a set and does the same.
Received(held, m) ==
  LET others == IF m.do = "clear" THEN {} ELSE {a \in held : a.uuid # m.uuid}
  IN  CASE m.do = "create" -> others \cup {[uuid |-> m.uuid, body |-> m.body]}
        [] m.do = "move"   -> others \cup {IF a.body \in Placed
                                           THEN [a EXCEPT !.body = m.body] ELSE a
                                           : a \in held \ others}
        [] OTHER           -> others

-----------------------------------------------------------------------------
Init ==
  /\ worlds = [d \in Dimensions |-> <<>>]
  /\ active = {}
  /\ dimension \in [Players -> Dimensions]
  /\ editor = None
  /\ applied = <<>>
  /\ refused = 0
  /\ channel = [p \in Players |-> <<>>]
  /\ view = [p \in Players |-> {}]
  /\ behind = {}

\* `handle`, for an active player with the permission: the lock is taken.
Begin(p) ==
  /\ editor = None
  /\ p \in active
  /\ \A q \in Players : Len(channel[q]) < MaxInFlight
  /\ editor' = p
  /\ applied' = <<>>
  /\ refused' = 0
  /\ UNCHANGED <<worlds, active, dimension, channel, view, behind>>

World == worlds[dimension[editor]]

Full(m) == m.do = "create" /\ Len(World) >= MaxAnnotations

\* One action of the batch, which is recorded to be relayed.
Apply(m) ==
  /\ editor # None
  /\ Len(applied) + refused < MaxBatch
  /\ ~Full(m)
  /\ worlds' = [worlds EXCEPT ![dimension[editor]] = Applied(@, m)]
  /\ applied' = Append(applied, m)
  /\ UNCHANGED <<active, dimension, editor, refused, channel, view, behind>>

\* `continue`: a create is neither applied nor relayed when the list is full.
Refuse(m) ==
  /\ editor # None
  /\ Len(applied) + refused < MaxBatch
  /\ Full(m)
  /\ refused' = refused + 1
  /\ UNCHANGED <<worlds, active, dimension, editor, applied, channel, view, behind>>

\* `broadcast`: everyone in the dimension, the sender and inactive players included.
\* Mutated: everyone, wherever he is.
RelayToAll == channel' = [p \in Players |-> channel[p] \o applied]
Relay ==
  channel' = [p \in Players |-> IF dimension[p] = dimension[editor]
                                THEN channel[p] \o applied ELSE channel[p]]

Finish ==
  /\ editor # None
  /\ Len(applied) + refused > 0
  /\ Relay
  /\ editor' = None
  /\ applied' = <<>>
  /\ refused' = 0
  /\ UNCHANGED <<worlds, active, dimension, view, behind>>

\* An action that cannot be read ends the batch at once: nothing is relayed, and
\* the player is kicked.
Fail ==
  /\ editor # None
  /\ behind' = IF applied = <<>> THEN behind
               ELSE behind \cup {p \in Players : dimension[p] = dimension[editor]}
  /\ editor' = None
  /\ applied' = <<>>
  /\ refused' = 0
  /\ active' = active \ {editor}
  /\ UNCHANGED <<worlds, dimension, channel, view>>

\* The snapshot: clear, then one create for each annotation.
\* Mutated: the bodies alone, without their actions; without the clear.
SnapshotBare(d)      == <<Clear>> \o worlds[d]
SnapshotUncleared(d) == [i \in DOMAIN worlds[d] |-> Create(worlds[d][i])]
Snapshot(d)          == <<Clear>> \o [i \in DOMAIN worlds[d] |-> Create(worlds[d][i])]

\* send_all, called by `activate` alone.
Activate(p) ==
  /\ editor = None
  /\ p \notin active
  /\ Len(channel[p]) < MaxInFlight
  /\ active' = active \cup {p}
  /\ channel' = [channel EXCEPT ![p] = @ \o Snapshot(dimension[p])]
  /\ behind' = behind \ {p}
  /\ UNCHANGED <<worlds, dimension, editor, applied, refused, view>>

Deactivate(p) ==
  /\ editor = None
  /\ p \in active
  /\ active' = active \ {p}
  /\ UNCHANGED <<worlds, dimension, editor, applied, refused, channel, view, behind>>

\* The host moves a player; the plugin is not told.
ChangeDimension(p, d) ==
  /\ Travel \/ p \notin active
  /\ editor = None
  /\ d # dimension[p]
  /\ dimension' = [dimension EXCEPT ![p] = d]
  /\ behind' = behind \cup {p}
  /\ UNCHANGED <<worlds, active, editor, applied, refused, channel, view>>

ClientReceive(p) ==
  /\ channel[p] # <<>>
  /\ view' = [view EXCEPT ![p] = Received(@, Head(channel[p]))]
  /\ channel' = [channel EXCEPT ![p] = Tail(@)]
  /\ UNCHANGED <<worlds, active, dimension, editor, applied, refused, behind>>

Next ==
  \/ \E p \in Players :
       \/ Begin(p)
       \/ Activate(p)
       \/ Deactivate(p)
       \/ \E d \in Dimensions : ChangeDimension(p, d)
       \/ ClientReceive(p)
  \/ \E m \in Action : Apply(m) \/ Refuse(m)
  \/ Finish
  \/ Fail

Spec == Init /\ [][Next]_vars
-----------------------------------------------------------------------------
(* Safety. *)

\* No list holds two annotations of one UUID, or more than the cap, at any point of
\* a batch: `create` replaces, and the scans that find by UUID rely on it.
ListsAreSound == \A d \in Dimensions :
  /\ Len(worlds[d]) <= MaxAnnotations
  /\ \A i, j \in DOMAIN worlds[d] : worlds[d][i].uuid = worlds[d][j].uuid => i = j

\* What a client will hold when all that was sent to it has arrived, and what was
\* applied of the batch in progress has been relayed.
WillHold(p) ==
  FoldLeft(Received, view[p],
           channel[p] \o IF editor # None /\ dimension[editor] = dimension[p]
                         THEN applied ELSE <<>>)

Agrees(p) == WillHold(p) = ToSet(worlds[dimension[p]])

\* "Relay exactly the bytes we accepted, so every client ends up with the same state
\* we hold" (annotations.rs), for every client that was activated where it is and
\* saw no batch fail: whatever was in flight when its snapshot was taken, and
\* whether or not the list was full.
SettledClientsAgree == \A p \in active \ behind : Agrees(p)

\* The same for every active client.
ClientsAgree == \A p \in active : Agrees(p)
=============================================================================
