# axiom-pumpkin in TLA+

A formal model of the Axiom plugin for the Pumpkin Minecraft server: what the
server side of the protocol keeps, promises and refuses. TLC checks the models on
small instances; TLAPS proves the main invariants for every value of the
constants. Line numbers refer to the repository; `PROJECT.json` maps every
definition to the lines it models.

    tlc -config MCSession.cfg MCSession        model-check one instance
    tlapm SessionProofs.tla                    check the proofs of a module

## 1. The system

The plugin is one WebAssembly instance. The host (Pumpkin) calls it with a tick,
with a payload a player sent, and on load and unload; the plugin calls the host
for permissions, the world and to send. One callback runs at a time, so handlers
are atomic with respect to each other, and the plugin's state is a few statics
behind mutexes. Everything else moves in between: players join, leave and rejoin,
operators change grants, clients send and receive, entities mount and dismount.

| Component | State | Operations | What is hard | What makes it correct |
|---|---|---|---|---|
| Handshake and sessions (`proto.rs`, `lib.rs`) | per player UUID: active, pending offer and its age, restrictions sent, budget, tunnel, what it was told | `tick` (slow and fast), `handle_hello`, `activate`, gate of `on_payload` | offers, echoes and refusals crossing changes of the grant and of the connection | one session at a time, nothing of an old one in a new one, both ends agree, a permitted player gets in and a revoked one out |
| Block-buffer budget (`proto.rs`, `handlers.rs`) | sections the server counts per player; the client has a count of its own | `top_up_dispatch_sends`, `consume_dispatch_sends` | two counts that drift while messages travel; exits that skip the charge | nobody exceeds the rate, honest clients are neither kicked nor starved |
| Tunnel (`tunnel.rs`) | reassembly buffer, skipping flag | `split_frames`, `push`, `reset` | packets abandoned, overtaken, too long | a packet comes out whole, once, in order, or is refused for its size |
| Shared annotations (`annotations.rs`) | a list per dimension | create, delete, move, rotate, clear, snapshot | batches that fail half way, the cap, snapshot against relay | every client in a dimension ends with the server's list |
| World data responses (`handlers.rs`) | the buffer of the request being served | `request_chunk_data`, `request_entity_data` | lists cut across payloads of limited size, refusals | every entry arrives once in its list, every request ends, payloads fit |
| Entity tools (`handlers.rs`) | none; the host's stacks of riders | delete, manipulate, spawn | the world changes between the sweep that found an entity and its turn | nobody rides himself, players are left alone |
| Permission tree (`permissions.rs`, `proto.rs` 62-125, `lib.rs` 141-175) | none; 95 nodes, and what a client was last sent | `register_permissions`, `calculate_restrictions`, `has_perm`, `update_restrictions` | the host knows children one level deep, the wire leaves out what a parent says | the client reads exactly what the server will enforce |
| Block edits (`handlers.rs` 204-471, 758-821, 1373-1465) | the host's world | `set_block`, block and biome buffers, `tick_blocks` | predictions that must be settled, chunks out of memory, fragile neighbours, broken buffers, caps | what was drawn is built and nothing else, what is shown is what is there |
| Player and world controls (`handlers.rs` 474-575) | none | game mode, fly speed, teleport, time, physical trigger | the node that goes with what is asked, the dimension that is meant | only what is allowed, and only there |
| Wire codec, palettes, NBT (`buf.rs`, `palette.rs`, `nbt.rs`) | none | readers, writers, merge, sanitize | widths that differ on the two sides, padding, signs, nesting | a section or a tag arrives as it was meant |
| Translation of block states, biomes (`block_remap.rs`, `biomes.rs`) | generated tables | lookups | several states that share a name, states one side lacks | what has no equivalent is left alone |
| Plugin shell (`lib.rs`) | none | load, unload, registration | none | every node is registered |

How they interact: `tick` drives offers, restrictions and the budget of every
entry; `on_payload` hands frames of an active player to its tunnel, whose whole
packets `dispatch` hands to the handlers; `apply_block_buffer` charges the budget;
`activate` sends restrictions and the annotation snapshots; closing a session
replaces the whole entry, tunnel and budget included.

## 2. Modules

| Module | Models | Composition |
|---|---|---|
| `Session` | handshake, sessions, frame gate | the whole of a player's entry; budget and tunnel reduced to what may leak |
| `DispatchBudget` | the budget of one session | client and server counts with messages both ways |
| `PacketStream` | what the tunnel promises | abstract |
| `Tunnel` | splitting, reassembly | implements `PacketStream` (`Stream!Spec`) |
| `Annotations` | lists, batches, snapshots, relays | server list against every client's list |
| `Answer` | what a request is owed | abstract |
| `Responses` | both request handlers | implements `Answer` (`Answers!Spec`) |
| `Riding` | the entity tools and riders | tools interleaved with the host's world |
| `PermissionTable` | the 95 nodes | constants for `Permissions` |
| `Permissions` | registration, restrictions, `has_perm` | extended by `BlockEdits` and `Controls`, which ask it |
| `Sections` | packed positions, palettes, state ids | pure |
| `BlockEdits` | block tools, as operators on a world | extends the three above |
| `BiomeEdits` | the biome painter | extends `Sections` |
| `EntityTags` | the NBT of entities | pure |
| `Controls` | player and world controls | extends `Permissions` |
| `World` | a client, its connection, every editing handler | composes `BlockEdits`, `BiomeEdits`, `Controls`; what becomes of an entity's NBT is a parameter |
| `EntityEdits` | what an edit or a copy of an entity keeps | `World` with `EntityTags` for the parameter |
| `MC*` | symmetry and small instances | extend the modules above |
| `SessionProofs`, `BudgetProofs`, `TunnelProofs`, `AnnotationsProofs`, `ResponsesProofs`, `RidingProofs`, `WorldProofs` | theorems | extend the module of their name and TLAPS |
| `FoldingProofs` | what folds over sequences compute | extended by `BudgetProofs`, `TunnelProofs`, `AnnotationsProofs`, `WorldProofs` |

**Session.** `st` is `PLAYERS`, `Default` where there is no entry, and `phase` the tick
counter modulo the slow period, so `TickSlow` and `TickFast` alternate as in `tick`. `s2c` and `c2s`
are the FIFO connections. History variables: the offer whose echo made the
session, what a player has been told, whether its entry is inherited from an older
connection.
The grant stands for all permission checks of a session; what restrictions follow
from it is a function of it. A refusal in `handle_hello` is one of several actions,
one per way out. A goodbye is taken to switch the client off.

**DispatchBudget.** Counts are kept in fractions, as in the code: a tick is worth
`Allowed`, a section costs `Scale`. The client reports its remaining count with each
buffer; `Charged` takes the smaller of that and what is left of the server's own
count, as `consume_dispatch_sends` does. `DropBuffer` and `BrokenBuffer` are the exits
that skip the charge; the second kicks. A session that follows a kick starts with no
budget (`NewSession`): the code leaves the entry to the sweep of `tick`, which replaces it.

**Tunnel.** Data is a sequence of units `<<packet, position>>`, so a mixture, a gap
or a repetition shows. `Extended` is the cap, `Decoded` the limits on what comes
out; compression is left out.

**Annotations.** A batch runs action by action (`Apply`, `Refuse`), then is relayed
(`Relay`, `Finish`) or fails. Bodies have a place that `Moved` changes, or none.

**Responses.** Entries are known by list, place and length. A payload is the
sequence of what is written to it, including the sentinels that close a list, and
the client's reader parses it again: a list closed in the wrong place shows as
entries in the wrong list. Each turn of a loop is a step. Requests are well-formed.

**Riding.** `vehicle` is the host's relation. A tool's request is the sequence of
its turns; within one turn of the sweep the check and the change are one step, and
passengers named by an entry get a step each, because each is looked up and checked
on its own. That nothing moves between the host calls *within* one step is an
assumption about the host, which the repository does not settle. `Under(e)` is the
set the loop of `rides_on` climbs, defined as a least set rather than by recursion.

**Permissions.** `verdict` is `has_permission_set` of each node, resolved by the host
from what operators set (`Settings`); `Inherited` leaves open whether a refusal passes on.
`Descendants` is what registration gives the host as children. `ClientMay` is how the
client reads the two lists: the nearest place that is mentioned.

**Sections.** Widths are constants. `ReadSection` and `WriteSectionIndirect` are the
code's; `ClientWrites` and `ClientReads` are the other end, external. `Runs` derives
the inverse table from the forward one as the generator does, so that `ToServer` is
used with tables that could be real. `Readable` has every error of `read_paletted`: a
width or a palette too long, an index past the palette, words that are missing, an id of too many bits.

**BlockEdits, BiomeEdits, EntityTags, Controls.** Each handler is an operator from
what it edits and a request to the outcome, with everything it calls. The host is
external and reduced to what the code relies on: writes outside the loaded columns
vanish, a changed block loses its block entity, an update makes fragile blocks fall
unless the write is `MOVED`, a biome is shown when its chunk is refreshed. What falls
does not make others fall in turn.

**World.** One player, its requests in `c2s`, and `s2c`, on which acknowledgements
and answers travel with the host's own block updates. The client predicts what it
places (`pending`) and rolls back what an acknowledgement settles. A handler is one
action: it takes the request, edits and sends. `Fails` is `dispatch`'s kick. A request
carries what it was made from besides its packet (`pictures`, `painting`, `asked`), for
the properties only; they are stated with `Meaning` and positions, without the code's
packing, palettes, runs and orders. Entities belong to a dimension (`entities[d]`), and
the handlers find them by `FoundHere`, as `entities_by_uuid` does in the world of the
player alone: a request that arrives after its player has travelled edits nothing,
copies nothing (`Source`) and meets only the UUIDs of the new world. `IsEditable` leaves
out players and what they sit on, the constants `Players` and `Ridden`: nobody mounts or
dismounts here, which is the matter of `Riding`. A brush of biomes ensures a chunk and
then writes to it, and a write to a chunk that is not loaded is lost (`LoadChunkOf`,
`WriteBiome`). Requests for entities have one entry: `Riding` has
the batches, and `DispatchBudget` the charge. NBT nests, and `EntityTags` is recursive over
it; `World` takes its two operations as the constants `ManipulateTag` and `SpawnTag`,
about which the theorems assume nothing, and the instance that TLC checks gives them
the definitions of `EntityTags`. `WellFormed` is what the readers make of a request; the
requests of an instance must be of that form and may be anything that is.

## 3. Runs

| Run | Instance | Shows |
|---|---|---|
| `session` | 1 player, 3 grants, 5 kinds of client, slow tick every 3 | `TypeOK`; `NothingOutlivesSession`; `EnabledAgrees`; `PendingOfferIsAlive`; `FramesOfThisSession`; `RestrictionsAgree`; `ActivationIsEarned`; `ToldOnce` |
| `session_live` | 1 player, 2 grants, fair | `PermittedIsEnabled`, `RevokedIsDisabled` |
| `session_rejoin` | the same | **violation**: `OfferedWhilePermitted` |
| `budget` | 3 fifths of a section a tick, buffers of 2, round trips below a second, fair | `TypeOK`, `NothingVanishes`, `RateLimited`, `ThriftyNotKicked`, `ToppedUpUnlessDropped` |
| `budget_drop` | buffers of three sections that may be dropped | **violation**: `ToppedUpAgain` |
| `tunnel` | 3 packets of 1 to 4 frames, some that fill their frames exactly, some above the limit | `TypeOK`, `HoldsOneBeginning`, `RefusedForSize`, `DeliversPackets`, `DeliversEventually` |
| `annotations` | 2 players, 2 dimensions, lists of 2 | `TypeOK`, `ListsAreSound`, `SettledClientsAgree` |
| `annotations_fail` | batches of 2 | **violation**: `ClientsAgree` |
| `responses` | lists of up to 3, entries that fit, share or fill a payload, real limits | `TypeOK`, `BatchIsMeasured`, `ChunkPayloadsFit`, `AnswersInFull`, `AlwaysAnswered` |
| `responses_shared` | 4 entities of a quarter payload | **violation**: `SharedPayloadsFit` |
| `riding` | a player, a marker, 3 entities, stacks of 3 | `TypeOK`, `Forest`, `PlayersAreLeftAlone`, `NobodyIsStolen` |
| `world` | 11 kinds of client, 2 requests each, 1 or 2 changes from outside, 2 dimensions with entities | `WorldTypeOK`, `ClientKnowsItsRights`, `SettledViewAgrees`, `SectionsTravelIntact`, `UpdatesRunWhereWanted`, `PaintedIsShown`, `EntitiesKeepTheirOwn`, `OnlyWhatIsAllowed` |

Every property of a passing run has a mutant of the code, in `PROJECT.json`, that
breaks it.

### Bounds, and why they are enough

* Players never share state in `Session`: an entry is read and written under its own
  UUID, so one player shows everything. Five tokens are more than the offers that
  can be alive at once (in the entry, on the way, echoed, held by the client), and
  `Fresh` takes one that is nowhere; the code draws 64 random bits.
* `MaxInFlight` (`Room` in a guard) bounds queues. Two messages let a refusal and an
  enable, or two offers, be under way together. In `Responses` the bound holds the
  handler back; it is fair because the client reads on.
* `SlowPeriod` stands for 20 ticks; three have the fast ticks before and after.
* `Latency`, in `DispatchBudget`, bounds how many ticks a message may take. An honest
  client whose round trips take a second or more may be kicked, because the server
  allows one second of debt (`thrifty` records who stayed honest). A second has 5 ticks
  and 3 sections, so that a tick is no whole section, and what a top-up rounds away
  (`Gained`) has to be carried over.
* `Bodies` in `Tunnel`, with the header, are less than a frame, two frames whose last one is
  half full, two full ones, and two lengths past the limits. The header is part of every
  payload, so none is empty.
* One message to a client is under way at a time in `annotations`. With two, the run
  takes longer than is of use; that snapshots and relays may overtake a client's change of
  dimension is then what the theorem `SettledClientsDoAgree` says, for channels of any length.
* `Lengths` in `Responses` are chosen at the limits: half of what fits, and all of it.
  `Roomy`, under which the proof holds, says which lengths any instance may have.
* Three riders are the least for which a loop needs more than looking at one's own
  vehicle; a fourth member of a loop adds no new case to `rides_on`.

* `World` scales widths down and keeps what makes them hard. A section has 8 blocks
  in words of 15 bits, which no width in use but 3 and 5 divides; 17 states take 5
  bits and the older client's 13 take 4; palettes stop at 2 bits, so that a section of
  8 blocks can be past them. One section is in view, one lies below zero on all axes
  and may be unloaded. The older registry lacks states, has one the server lacks, and
  calls two by one name. Two requests let one cross another's answer, and one change
  of the world or of the rights fit in between; with two changes the view of an older
  client can be stale twice. `MaxRequests` and `MaxEvents` end behaviours, so the
  run does not look for deadlocks.
* A kind of client uses one tool. Tools share only the world, the rights and the
  connection, and others that build stand for a second tool.

### Fairness, and why the code justifies it

Handlers run once called, so every handler and every delivery has weak fairness: the
host calls for each payload and delivers what is sent. Ticks recur for ever; in the
model a full queue can disable one again and again, which only the bound does, so
they get strong fairness there. A kick ends in a reconnect (`Reconnect`, `Tunnel`).
Clients' requests, grants, joins and leaves have none. `Travel`, mounting and the
like are free.

## 4. What the violated runs show

1. `OfferedWhilePermitted`: entries are keyed by UUID and swept once a second, so a
   player that reconnects sooner inherits one that is active, or waits for an echo
   that is gone, and is never offered Axiom again (`proto.rs:187`).
2. `ToppedUpAgain`: a dropped buffer is charged to nobody; the server's count stays
   full, so it sends no top-up, and the client stays dry (`handlers.rs:372`).
3. `ClientsAgree`: a batch that cannot be read to its end has changed the list but is
   relayed to nobody (`annotations.rs:197`).
4. `SharedPayloadsFit`: a batch of entities counts NBT and not UUIDs, and can exceed
   a mebibyte (`handlers.rs:924`).

The passing properties state the exceptions: `Settled` leaves out inherited entries,
`ToppedUpUnlessDropped` dropped buffers, `SettledClientsAgree` players that changed
dimension (no snapshot follows) and failed batches. Two more were met and are not
runs: a client whose version has no table is told so again every second
(`proto.rs:392`), and the tunnel's cap counts the header (`tunnel.rs:121`) where the
limit on a packet does not, so `RefusedForSize` takes the smaller.

`World` states these exceptions, each of which was met as a counterexample:

* A direct section is read at the wider of the width it declares and the server's
  (`palette.rs:59`), though the comment at line 40 calls the server's "only a fallback,
  since the declared width describes the bytes actually sent". A client of a registry
  of 15 bits that draws more than 256 states in a section is misread by a server of
  16 (`Blurred`); both pack four entries to a word, so nothing fails.
* A section with more states than a palette takes is left out of an answer
  (`handlers.rs:724`), and so is what is past `MAX_SECTIONS_PER_REQUEST`.
* A biome buffer that breaks off has painted and shows nothing (`handlers.rs:783`).
* Requests of `set_block` and for entities name no dimension: one under way while its
  player travels means the world it arrives in (`OnlyWhatIsAllowed` lets it change
  that one only). A `set_block` then edits a place of that world; an edit finds no
  entity, and a paste is spawned there without what it was to copy.
* `tick_blocks` does not load: what is out of memory is not ticked
  (`handlers.rs:1444`).
* A copied tag whose value is an empty compound takes away what the client sent under
  that name (`nbt.rs:686`), though nothing of the copy is lost.

## 5. Proofs

| Theorem | Statement | Argument |
|---|---|---|
| `SessionProofs!TypeCorrect` | `Spec => []TypeOK` | inductive with the clean-entry conditions |
| `SessionProofs!SessionsAreClean` | `Spec => []NothingOutlivesSession` | `tick` replaces an entry whole; an entry becomes active only by the step that uses its offer up |
| `SessionProofs!ActivationsAreEarned` | `Spec => ActivationIsEarned` | needs that an echo on its way is one of an offer (`EchoesOf`) |
| `SessionProofs!FramesAreOfTheirSession` | `Spec => []FramesOfThisSession` | `Traced`: where a token may be, at either end and on the way, and what may lie before and behind it |
| `SessionProofs!EndsAgree` | `Spec => []EnabledAgrees` | `Agreed`: the last verdict on its way to a client, or else what the client is, is what its entry says |
| `SessionProofs!RestrictionsAreKnown` | `Spec => []RestrictionsAgree` | `Restricted`, the same for the restrictions sent last |
| `SessionProofs!OffersAreAlive` | `Spec => []PendingOfferIsAlive` | `OfferAlive`: an offer to a client that answers is on its way to it, or its echo on its way back |
| `SessionProofs!ReasonsAreToldOnce` | `Spec => ToldOnce` | `Told`: who has heard of a refusal still lacks the permission, and its entry remembers or waits for nothing |
| `BudgetProofs!BudgetTyped` | `Spec => []TypeOK` | division facts stated over constants |
| `BudgetProofs!ClientsAreRateLimited` | `Spec => []RateLimited` | `Balance`: what was applied lately and what is left to spend are never more than a full budget together |
| `BudgetProofs!NothingDoesVanish` | `Spec => []NothingVanishes` | `Ledger`, below |
| `BudgetProofs!ThriftyStays` | `RoundTripsAreShort => (Spec => []ThriftyNotKicked)` | from `Ledger`: the server's count is at most `Slack` behind the client's, and a second's budget is more |
| `TunnelProofs!TypeCorrect` | `Spec => []TypeOK` | what the splitter and the buffer return is typed (`Splitting`, `PushTyped`) |
| `TunnelProofs!InOrderAlways` | `Spec => []FramesInOrder` | inductive: neighbouring pieces of a packet follow each other, in the channel and from the buffer to it |
| `TunnelProofs!HoldsOneBeginningAlways` | `Spec => []HoldsOneBeginning` | part of `FramesInOrder` |
| `TunnelProofs!OnlyWholePacketsAlways` | `Spec => []OnlyWholePackets` | an unbroken run of pieces from a first to a last is the packet (`UpToTheLast`) |
| `TunnelProofs!RefusedForSizeAlways` | `Spec => RefusedForSize` | likewise: what the buffer gives up was too long |
| `TunnelProofs!LineInTurnAlways` | `Spec => []LineInTurn` | inductive: buffer, channel and what is still to be sent are one line, in which packets come in turn and no packet twice |
| `TunnelProofs!PacketsAreDelivered` | `Spec => DeliversPackets` | refinement of `PacketStream`, below |
| `AnnotationsProofs!AnnotationsTyped` | `Spec => []TypeOK` | lists, relays and snapshots hold annotations only |
| `AnnotationsProofs!ListsStaySound` | `Spec => []ListsAreSound` | inductive: creating tests for the identifier and the cap first, moving keeps identifiers |
| `AnnotationsProofs!SettledClientsDoAgree` | `Spec => []SettledClientsAgree` | `AgreesOn`, below |
| `ResponsesProofs!ResponsesTyped` | `Spec => []TypeOK` | request and buffer kept apart from the channel |
| `ResponsesProofs!ChunksFit` | `Roomy => (Spec => []ChunkPayloadsFit)` | `Filling`: while lists are written the buffer is over `MaxResponse` by at most an id and a sentinel |
| `ResponsesProofs!BatchesAreMeasured` | `Spec => []BatchIsMeasured` | `BatchOK`: what is in the buffer of a batch of entities is what was added up, a sum over the batch |
| `WorldProofs!PermissionsTyped` | `PermissionsSpec => []PermissionsTypeOK` | the host always has a verdict to give, because a chain of parents ends |
| `WorldProofs!ClientsKnowTheirRights` | `PermissionsSpec => []ClientKnowsItsRights` | a grant reaches down to every descendant (`GrantsReachDown`); a node left out has a parent of the same verdict, and the least counterexample climbs to one that was mentioned (`ReadingClimbs`) |
| `WorldProofs!SettledViewsAgree` | `WorldSpec => []SettledViewAgrees` | `Heard` and `Awaited`, below |
| `WorldProofs!BuildersKnowTheirRights` | `WorldSpec => []ClientKnowsItsRights` | refinement: `WorldIsPermitted` shows `WorldSpec => PermissionsSpec`, step by step |
| `WorldProofs!WorldTyped` | `WorldSpec => []WorldTypeOK` | each loop over a request is a fold, and each turn of it keeps the world's type (`FoldStays`) |
| `WorldProofs!RequestsDoWhatIsAllowed` | `WorldSpec => OnlyWhatIsAllowed` | only handlers take a request; each edits blocks, clock and entities of this dimension only, and only behind its permission |
| `WorldProofs!PaintingIsShown` | `WorldSpec => PaintedIsShown` | a packed key returns (`KeysTravel`), the entry of a cell is read where it was written (`EntriesAreRead`, `EntriesAreWritten`); a walk through cells and sections keeps what it has painted (`WalkEndsIn`) |
| `WorldProofs!TranslationReturns` | `\A id \in Nat : ToServer(id) = IF id \in Known THEN Origin(id) ELSE NoState` | runs are disjoint, in order and end where they must (`InOrderRises`, `RunsBegin`, `RunsEnd`), and their offset is everywhere the same (`RunsKeepTheirOffset`) |
| `WorldProofs!PlacementsStay` | `WorldSpec => [][\A r \in HandledOf("set block") : PlacesWhatWasSaid(r)]_worldVars` | an id means the lowest state of its name (`ServerStateMeans`); one placement touches a place that is to be left alone only if it is about it (`OneIsPlaced`), and after the last that is about it none does |
| `RidingProofs!RidingTyped` | `Spec => []TypeOK` | what a step removes it also unseats, and a seat joins two that are in the world |
| `RidingProofs!NobodyRidesHimself` | `Spec => []Forest` | no set of entities rides within itself; a seat that made one would leave, after taking away what sits on the passenger, a smaller one that was there before |
| `RidingProofs!PlayersKeepTheirSeats` | `Spec => PlayersAreLeftAlone` | from `TypeOK`: what is not in the world rides nothing |
| `RidingProofs!NobodyIsTaken` | `Spec => NobodyIsStolen` | from `TypeOK`: who is seated anew sat nowhere, or on what the request had taken him from |

The longer arguments:

* **Session.** The invariants of the handshake are proved together, as `Handshake`, for one
  player at a time: `NextStepOf` gives every step as what it does to that player (an offer,
  an activation, a drop, a message taken at either end, or nothing that matters), so that
  each part of `Handshake` is shown once per kind of step. `EnabledAgrees` is not
  inductive: between the server's change and the client's there is a message, and the
  invariant has to say that the *last* verdict under way is the right one, whatever
  older ones are before it.
* **Budget.** `Ledger` follows every message: when a top-up or a buffer has travelled so
  many ticks, at most so many ticks' worth was granted behind it (`Recent`, `Close`), and a
  buffer's report covers what the client sends later (`Covered`). The server takes the
  smaller of two counts, one of which misses the top-ups on the way; the ages bound what
  is missed. `RoundTripsAreShort` says that what is granted in `2 * Latency - 1` ticks is
  less than a second's budget: with the code's 1024 sections and 20 ticks this holds up
  to a latency of 10 ticks, a round trip of almost a second. Without it the statement is
  false.
* **Tunnel.** The abstract queue is mapped to `ToCome`, the packets that what is held,
  what is in the channel and what is still to be sent will make; `Finished` gives it
  frame by frame, as a join of sequences of at most one packet. Three lemmas say what a
  step does to it: the head of the channel takes the first one away if it completes it
  (`FinishedAfterHead`), a new frame that is a last one adds its packet at the end (`FinishedAfterSend`), and
  a reset takes away at most the packet that was begun (`FinishedAfterReset`, by
  `JoinWithout`). `LineInTurn` gives that nothing else changes.
* **Annotations.** `AgreesOn(p)`: what `p` will show after all that is on its way to it,
  and after what a batch in progress has applied and not yet relayed, is the list of
  its dimension. `SettledClientsAgree` is the case where nothing is on its way. That
  batches run to their end and relays are folds over them is used through
  `FoldingProofs`.

* **World.** `SettledViewAgrees` says nothing while anything is under way, so the
  invariant has to. `Heard`: of every cell in view, the last word on its way to the client, or if
  there is none what the client believes of it (what it shows, or under a prediction
  what it was told last), is the world as it is; `LastWord` is stated for any queue, and two
  lemmas say what joining to it and reading from it do. `Awaited`: each prediction of a player
  who was not kicked has its `set_block` on the way, or the acknowledgement. The
  handlers enter only by their effect: each leaves a world of its type, and tells of
  what changed in view (`EditsKeep`). That such an edit is typed needs that folds over
  sequences stay in a set, for every loop of `BlockEdits` and `BiomeEdits`, and that the
  boxes `tick_blocks` walks are finite.
* **What the loops compute.** A loop is a walk through worlds (`CellByCell`,
  `SectionBySection`, `BlockByBlock`), and `WalkEndsIn` says that one which has reached a
  set that no later step leaves ends there: the worlds with this biome, or this state,
  at a place. What is left is one step, and for biomes that some step writes the
  place and every step that does writes the same. Heights and widths of packed keys are
  numbers of values, `Vertical` and `Horizontal` (2^12 and 2^26 in `buf.rs`), since the
  provers do not interpret powers.

`FoldingProofs` has what the library lacks: a fold's recursive function exists
(`FoldExists`) and passes through values that induction can speak of (`FoldRuns`), from
which follow sums and joins of sequences. An operator cannot be passed to a lemma, so
the operation is given as a function.

Assumptions are the named `ASSUME`s on constants (bounds are naturals, `None` is
nobody's name, clients know their version). One of them, `DrawsWhatItPaints` in
`MenuAssumption`, says how a client writes what it paints: by packed keys, x fastest,
and at every painted place that biome and no other; that the handler reads it back is
what is proved. TLC evaluates them in every run. They
hold of all instances; `Roomy` holds of the code's constants with 25 of the 64 bytes
of leeway used.

Only model-checked:

* liveness, which TLAPS does not prove;
* that `Responses` implements `Answer` (`AnswersInFull`), which speaks of bags and of
  `SelectSeq`, for which the provers have nothing to start from;
* `SectionsTravelIntact`: packed words are sums of powers of two over sets, and the
  provers know nothing of either;
* the half of `UpdatesRunWhereWanted` about ticks. It holds of the instance and not in
  general, for what falls does not make others fall in turn here: where fragile blocks
  stand on each other and the lower one is ticked later, the upper one is left hanging;
* `EntitiesKeepTheirOwn`, since `EntityTags` and the reading of its result are recursive
  over nested data, and whatever extends them is out of reach.

## 6. Plan

Built, in this order: Session, DispatchBudget, Tunnel, Annotations, Responses, Riding,
Permissions, Sections, BlockEdits, BiomeEdits, EntityTags, Controls, World, EntityEdits.

To come:

1. Proofs: that `Responses` implements `Answer`; what the loops of `set_buffer` leave of a
   section that was read, towards `SectionsTravelIntact`.
2. `Gate`: Session and Tunnel composed, so that frames reach only the session they
   were sent in, through the real reassembly buffer.
3. Numbers on the wire at their width, and names that occur twice in a compound.

### Not modelled

* The tables of `block_remap.rs`: 14,700 of the repository's 19,300 lines, written by a
  script, with binary halves beside them. The lookups and the rule the script
  follows are in `Sections`; restating the tables would say nothing about them. They
  are also why most lines of the repository stand for no definition.
* The names of biomes, for the same reason.
* zstd frames, the bytes of NBT and its nesting limits, fixed-width numbers, VarInts and
  strings: requests are values.
* Relative movement of stacks of entities, and pitch; positions are one value.
* Scripts that generate source, and the build.
