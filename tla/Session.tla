------------------------------- MODULE Session -------------------------------
(***************************************************************************)
(* The handshake of the plugin (src/src/proto.rs): every tick the server   *)
(* walks the players that are online and, on every slow tick, offers       *)
(* axiom:hello, refreshes restrictions, or closes the session of a player  *)
(* that lost the permission; payloads that arrive in between answer the    *)
(* offer or carry tunnel frames.  Both directions of a connection are FIFO *)
(* queues, and the host may change grants and connections at any moment.   *)
(*                                                                         *)
(* The plugin instance runs one callback at a time, so a tick and a        *)
(* payload are atomic with respect to each other; everything outside the   *)
(* plugin (grants, connections, the client) interleaves with them.         *)
(***************************************************************************)
EXTENDS Naturals, SequencesExt

CONSTANTS
  Players,      \* players that may connect
  Tokens,       \* handshake tokens: 64 random bits, so a new one is unused
  Grants,       \* what the host lets a player do, as calculate_restrictions reports it
  UseGrants,    \* the grants for which can_use_axiom answers true
  Kinds,        \* the kinds of client that may connect, see ClientKinds
  SlowPeriod,   \* ticks from one slow tick to the next (20 in the code)
  MaxInFlight,  \* bound: no tick, and no client send, while this much is queued
  None          \* Option::None

\* axiom: a client this server supports; outdated: another API version;
\* untranslated: a Minecraft version without a remap table; vanilla: Java
\* without Axiom; bedrock: not a Java client, to which nothing is sent.
ClientKinds == {"axiom", "outdated", "untranslated", "vanilla", "bedrock"}

ASSUME SessionAssumption ==
  /\ UseGrants \subseteq Grants
  /\ Kinds \subseteq ClientKinds
  /\ None \notin Tokens
  /\ None \notin Grants
  /\ SlowPeriod \in Nat \ {0}
  /\ MaxInFlight \in Nat \ {0}

VARIABLES
  phase,      \* TICKS modulo SlowPeriod
  st,         \* PLAYERS: the state of each player, Default when there is no entry
  online,     \* the players the host reports as connected
  grant,      \* what the host lets each player do
  kind,       \* the client each player connected with
  client,     \* the client's own view of the session
  s2c,        \* messages to each client, oldest first
  c2s,        \* payloads from each client, oldest first
  session,    \* history: the token whose echo activated the player last
  inherited,  \* history: the entry outlived the connection that made it
  heard       \* history: the goodbyes sent since the grant or the connection changed

vars == <<phase, st, online, grant, kind, client, s2c, c2s, session, inherited, heard>>

-----------------------------------------------------------------------------
(* The types of the state. *)

Reasons == {"no permission", "missing use", "bad token", "api version",
            "minecraft version"}

\* credited: dispatch_sends_20 is Some; partial: the session whose frames the
\* tunnel holds back, waiting for the rest of a packet.
PlayerState == [active: BOOLEAN, pending: Tokens \cup {None}, told: BOOLEAN,
                restrictions: Grants \cup {None}, credited: BOOLEAN,
                partial: Tokens \cup {None}]

Default == [active |-> FALSE, pending |-> None, told |-> FALSE,
            restrictions |-> None, credited |-> FALSE, partial |-> None]

ClientState == [enabled: BOOLEAN, token: Tokens \cup {None}, midPacket: BOOLEAN,
                restrictions: Grants \cup {None}]

NewClient == [enabled |-> FALSE, token |-> None, midPacket |-> FALSE,
              restrictions |-> None]

ToClient == [type: {"hello"}, token: Tokens]
     \cup   [type: {"enable"}, on: BOOLEAN]
     \cup   [type: {"goodbye"}, reason: Reasons]
     \cup   [type: {"restrictions"}, grant: Grants]
     \cup   [type: {"sends", "kick"}]

\* A frame carries the session its sender was in, which the wire does not.
ToServer == [type: {"hello"}, token: Tokens, kind: ClientKinds]
     \cup   [type: {"frame"}, token: Tokens \cup {None}, first: BOOLEAN, last: BOOLEAN]

Hello(t)        == [type |-> "hello", token |-> t]
Enable(b)       == [type |-> "enable", on |-> b]
Goodbye(r)      == [type |-> "goodbye", reason |-> r]
RestrictTo(g)   == [type |-> "restrictions", grant |-> g]
Sends           == [type |-> "sends"]
Kick            == [type |-> "kick"]
Echo(t, k)      == [type |-> "hello", token |-> t, kind |-> k]
Frame(t, f, l)  == [type |-> "frame", token |-> t, first |-> f, last |-> l]

\* Every variable has its type, and a message of the wire only the fields of its
\* channel (PlayerState, Reader and Writer in the code).
TypeOK ==
  /\ phase \in 0 .. SlowPeriod - 1
  /\ st \in [Players -> PlayerState]
  /\ online \in SUBSET Players
  /\ grant \in [Players -> Grants]
  /\ kind \in [Players -> Kinds]
  /\ client \in [Players -> ClientState]
  /\ s2c \in [Players -> Seq(ToClient)]
  /\ c2s \in [Players -> Seq(ToServer)]
  /\ session \in [Players -> Tokens \cup {None}]
  /\ inherited \in [Players -> BOOLEAN]
  /\ heard \in [Players -> SUBSET Reasons]

-----------------------------------------------------------------------------
(* What the plugin does with one player's entry. *)

CanUse(p) == grant[p] \in UseGrants

\* `send` and `kick` skip a player that is not a Java client.
Sent(p, msgs) == IF kind[p] = "bedrock" THEN s2c[p] ELSE s2c[p] \o msgs

ReasonsIn(msgs) == {msgs[i].reason : i \in {j \in DOMAIN msgs : msgs[j].type = "goodbye"}}

\* The first top-up grants the whole budget.  How the later ones move it is the
\* subject of DispatchBudget; here only whether a budget was granted matters.
TopUp(s)     == [s EXCEPT !.credited = TRUE]
TopUpMsgs(s) == IF s.credited THEN <<>> ELSE <<Sends>>

UpdateRestrictions(s, g) == [s EXCEPT !.restrictions = g]

\* Mutated: restrictions are sent once a session.
RestrictionsOnceMsgs(s, g) == IF s.restrictions # None THEN <<>> ELSE <<RestrictTo(g)>>
UpdateRestrictionsMsgs(s, g) == IF s.restrictions = g THEN <<>> ELSE <<RestrictTo(g)>>

\* Losing the permission ends the session, and the entry starts over.
\* Mutated: only the flag is cleared; the client is not told.
ClosedKeepsRest(s) == [s EXCEPT !.active = FALSE]
Closed(s)          == Default
ClosedSilently     == <<>>
ClosedMsgs         == <<Enable(FALSE)>>

\* Mutated: the permission is looked at when a session starts only.
PermittedForGood(p) == TRUE
StillPermitted(p)   == CanUse(p)

\* A new offer.
Offered(s, t) == [s EXCEPT !.pending = t, !.told = FALSE]

\* The player is told that it lacks the permission, and any offer is withdrawn.
\* Mutated: that it was told is not recorded.
ToldUnrecorded(s) == [s EXCEPT !.pending = None]
ToldDisabled(s)   == [s EXCEPT !.told = TRUE, !.pending = None]

\* The slow branch of `tick`; t is the token new_handshake_token would return.
SlowTick(s, p, t) ==
  CASE s.active /\ StillPermitted(p)  -> UpdateRestrictions(TopUp(s), grant[p])
    [] s.active /\ ~StillPermitted(p) -> Closed(s)
    [] ~s.active /\ CanUse(p) /\ s.pending = None -> Offered(s, t)
    [] ~s.active /\ ~CanUse(p) /\ ~s.told -> ToldDisabled(s)
    [] OTHER -> s

SlowTickMsgs(s, p, t) ==
  CASE s.active /\ StillPermitted(p)  -> TopUpMsgs(s) \o UpdateRestrictionsMsgs(s, grant[p])
    [] s.active /\ ~StillPermitted(p) -> ClosedMsgs
    [] ~s.active /\ CanUse(p) /\ s.pending = None -> <<Hello(t)>>
    [] ~s.active /\ ~CanUse(p) /\ ~s.told -> <<Goodbye("no permission")>>
    [] OTHER -> <<>>

\* The sweep at the end of a slow tick keeps the entries of online players.
Kept(p) == p \in online

\* The other ticks only top up entries that exist and are active.
FastTick(s)     == IF s.active THEN TopUp(s) ELSE s
FastTickMsgs(s) == IF s.active THEN TopUpMsgs(s) ELSE <<>>

\* A random token is none of those this player's connection still remembers.
TokensIn(q) == {q[i].token : i \in {j \in DOMAIN q : q[j].type \in {"hello", "frame"}}}
Remembered(p) == {st[p].pending, st[p].partial, session[p], client[p].token}
                 \cup TokensIn(s2c[p]) \cup TokensIn(c2s[p])
Fresh(p) == Tokens \ Remembered(p)

Room(p) == Len(s2c[p]) < MaxInFlight /\ Len(c2s[p]) < MaxInFlight
-----------------------------------------------------------------------------
Init ==
  /\ phase = 0
  /\ st = [p \in Players |-> Default]
  /\ online = {}
  /\ grant \in [Players -> Grants]
  /\ kind \in [Players -> Kinds]
  /\ client = [p \in Players |-> NewClient]
  /\ s2c = [p \in Players |-> <<>>]
  /\ c2s = [p \in Players |-> <<>>]
  /\ session = [p \in Players |-> None]
  /\ inherited = [p \in Players |-> FALSE]
  /\ heard = [p \in Players |-> {}]

\* A slow tick: every online player, then the sweep of the ones that left.
TickSlow ==
  /\ phase = 0
  /\ \A p \in online : Room(p)
  /\ \E token \in [Players -> Tokens] :
       /\ \A p \in Players : token[p] \in Fresh(p)
       /\ st' = [p \in Players |-> IF Kept(p) THEN SlowTick(st[p], p, token[p])
                                               ELSE Default]
       /\ s2c' = [p \in Players |->
                    IF p \in online THEN Sent(p, SlowTickMsgs(st[p], p, token[p]))
                                    ELSE s2c[p]]
       /\ heard' = [p \in Players |->
                      IF p \in online
                      THEN heard[p] \cup ReasonsIn(SlowTickMsgs(st[p], p, token[p]))
                      ELSE heard[p]]
  /\ phase' = 1 % SlowPeriod
  /\ inherited' = [p \in Players |-> inherited[p] /\ st'[p] # Default]
  /\ UNCHANGED <<online, grant, kind, client, c2s, session>>

\* Mutated: the tick counter does not wrap.
TickFastNoWrap ==
  /\ phase # 0
  /\ phase' = phase + 1
  /\ UNCHANGED <<st, online, grant, kind, client, s2c, c2s, session, inherited, heard>>

TickFast ==
  /\ phase # 0
  /\ \A p \in online : Room(p)
  /\ st' = [p \in Players |-> IF p \in online THEN FastTick(st[p]) ELSE st[p]]
  /\ s2c' = [p \in Players |-> IF p \in online THEN Sent(p, FastTickMsgs(st[p]))
                                               ELSE s2c[p]]
  /\ phase' = (phase + 1) % SlowPeriod
  /\ UNCHANGED <<online, grant, kind, client, c2s, session, inherited, heard>>

\* Mutated: any echo will do while an offer is pending.
EchoesAnOffer(s, m)    == s.pending # None
EchoesTheOffer(s, m)   == s.pending = m.token

\* Mutated: the permission was checked when the offer was made.
MayEnableUnchecked(p, m) == m.kind # "untranslated"
MayEnable(p, m)          == CanUse(p) /\ m.kind # "untranslated"

\* Mutated: a refused echo leaves the offer pending.
OfferStays(s) == s
OfferUsed(s)  == [s EXCEPT !.pending = None]

\* handle_hello, one action per way out.  Each consumes the echo at the head of
\* the queue; m is that echo.
TakeEcho(p, m) ==
  /\ m.type = "hello"
  /\ c2s' = [c2s EXCEPT ![p] = Tail(@)]
  /\ UNCHANGED <<phase, online, grant, kind, client, inherited>>

HelloOutdated(p, m) ==
  /\ TakeEcho(p, m)
  /\ m.kind = "outdated"
  /\ s2c' = [s2c EXCEPT ![p] = Sent(p, <<Goodbye("api version"), Kick>>)]
  /\ heard' = [heard EXCEPT ![p] = @ \cup {"api version"}]
  /\ UNCHANGED <<st, session>>

HelloMismatch(p, m) ==
  /\ TakeEcho(p, m)
  /\ m.kind # "outdated"
  /\ ~EchoesTheOffer(st[p], m)
  /\ s2c' = [s2c EXCEPT ![p] = Sent(p, <<Goodbye("bad token")>>)]
  /\ heard' = [heard EXCEPT ![p] = @ \cup {"bad token"}]
  /\ UNCHANGED <<st, session>>

\* From here on the offer is used up, whether or not the player is enabled.
AcceptEcho(p, m) ==
  /\ TakeEcho(p, m)
  /\ m.kind # "outdated"
  /\ EchoesTheOffer(st[p], m)

Refusal(p) == IF ~CanUse(p) THEN "missing use" ELSE "minecraft version"

HelloRefused(p, m) ==
  /\ AcceptEcho(p, m)
  /\ ~MayEnable(p, m)
  /\ st' = [st EXCEPT ![p] = OfferUsed(@)]
  /\ s2c' = [s2c EXCEPT ![p] = Sent(p, <<Goodbye(Refusal(p))>>)]
  /\ heard' = [heard EXCEPT ![p] = @ \cup {Refusal(p)}]
  /\ UNCHANGED session

\* `activate`.
Activated(s, g) ==
  UpdateRestrictions([s EXCEPT !.active = TRUE, !.pending = None,
                               !.restrictions = None, !.partial = None], g)

HelloActivates(p, m) ==
  /\ AcceptEcho(p, m)
  /\ MayEnable(p, m)
  /\ st' = [st EXCEPT ![p] = Activated(@, grant[p])]
  /\ s2c' = [s2c EXCEPT ![p] = Sent(p, <<Enable(TRUE), RestrictTo(grant[p])>>)]
  /\ session' = [session EXCEPT ![p] = m.token]
  /\ heard' = [heard EXCEPT ![p] = {}]

\* What Tunnel::push leaves behind: a FIRST frame starts a packet afresh, a LAST
\* one ends it, a frame that is both leaves the pending packet alone.
Pushed(s, m) ==
  CASE m.first /\ m.last  -> s
    [] m.first /\ ~m.last -> [s EXCEPT !.partial = m.token]
    [] ~m.first /\ m.last -> [s EXCEPT !.partial = None]
    [] OTHER              -> s

\* What the packet a frame completes leaves behind: a block buffer is charged, and
\* a budget that was never granted counts as granted from then on
\* (consume_dispatch_sends); no other packet touches the fields modelled here.
Completes(s, m) == m.last /\ (m.first \/ s.partial # None)
Dispatched(s, m) ==
  IF Completes(s, m) THEN {Pushed(s, m), TopUp(Pushed(s, m))} ELSE {Pushed(s, m)}

\* on_payload for axiom:tunnel: the frames of a player that is not active are dropped.
HandleFrame(p, m) ==
  /\ m.type = "frame"
  /\ \E s \in IF st[p].active THEN Dispatched(st[p], m) ELSE {st[p]} :
       st' = [st EXCEPT ![p] = s]
  /\ c2s' = [c2s EXCEPT ![p] = Tail(@)]
  /\ UNCHANGED <<phase, online, grant, kind, client, s2c, session, inherited, heard>>

-----------------------------------------------------------------------------
(* The host and the client. *)

SetGrant(p, g) ==
  /\ g # grant[p]
  /\ grant' = [grant EXCEPT ![p] = g]
  /\ heard' = [heard EXCEPT ![p] = {}]
  /\ UNCHANGED <<phase, st, online, kind, client, s2c, c2s, session, inherited>>

Join(p, k) ==
  /\ p \notin online
  /\ online' = online \cup {p}
  /\ kind' = [kind EXCEPT ![p] = k]
  /\ inherited' = [inherited EXCEPT ![p] = st[p] # Default]
  /\ UNCHANGED <<phase, st, grant, client, s2c, c2s, session, heard>>

\* A disconnected player's queues are gone; its entry stays until a slow tick.
Disconnect(p) ==
  /\ online' = online \ {p}
  /\ client' = [client EXCEPT ![p] = NewClient]
  /\ s2c' = [s2c EXCEPT ![p] = <<>>]
  /\ c2s' = [c2s EXCEPT ![p] = <<>>]
  /\ inherited' = [inherited EXCEPT ![p] = FALSE]
  /\ heard' = [heard EXCEPT ![p] = {}]
  /\ UNCHANGED <<phase, st, grant, kind, session>>

Leave(p) == p \in online /\ Disconnect(p)

ReceivedBy(c, m) ==
  CASE m.type = "hello"        -> [c EXCEPT !.token = m.token]
    [] m.type = "enable"       -> [c EXCEPT !.enabled = m.on, !.midPacket = FALSE]
    [] m.type = "goodbye"      -> [c EXCEPT !.enabled = FALSE, !.midPacket = FALSE]
    [] m.type = "restrictions" -> [c EXCEPT !.restrictions = m.grant]
    [] OTHER                   -> c

\* A client with Axiom answers every offer; one without it ignores the channel.
ClientReceive(p) ==
  /\ p \in online
  /\ s2c[p] # <<>>
  /\ LET m == Head(s2c[p]) IN
       \/ /\ m.type = "kick"
          /\ Disconnect(p)
       \/ /\ m.type # "kick"
          /\ s2c' = [s2c EXCEPT ![p] = Tail(@)]
          /\ IF kind[p] = "vanilla"
             THEN UNCHANGED <<client, c2s>>
             ELSE /\ client' = [client EXCEPT ![p] = ReceivedBy(@, m)]
                  /\ c2s' = IF m.type = "hello"
                            THEN [c2s EXCEPT ![p] = Append(@, Echo(m.token, kind[p]))]
                            ELSE c2s
          /\ UNCHANGED <<phase, st, online, grant, kind, session, inherited, heard>>

\* An enabled client sends a packet as one frame or as a first and a last one.
ClientSend(p) == \E first, last \in BOOLEAN :
  /\ p \in online
  /\ client[p].enabled
  /\ Len(c2s[p]) < MaxInFlight
  /\ first = ~client[p].midPacket
  /\ client' = [client EXCEPT ![p].midPacket = ~last]
  /\ c2s' = [c2s EXCEPT ![p] = Append(@, Frame(client[p].token, first, last))]
  /\ UNCHANGED <<phase, st, online, grant, kind, s2c, session, inherited, heard>>

-----------------------------------------------------------------------------
HandlePayload(p) ==
  /\ p \in online
  /\ c2s[p] # <<>>
  /\ \/ HelloOutdated(p, Head(c2s[p]))
     \/ HelloMismatch(p, Head(c2s[p]))
     \/ HelloRefused(p, Head(c2s[p]))
     \/ HelloActivates(p, Head(c2s[p]))
     \/ HandleFrame(p, Head(c2s[p]))

Next ==
  \/ TickSlow
  \/ TickFast
  \/ \E p \in Players :
       \/ HandlePayload(p)
       \/ \E g \in Grants : SetGrant(p, g)
       \/ \E k \in Kinds : Join(p, k)
       \/ Leave(p)
       \/ ClientReceive(p)
       \/ ClientSend(p)

Spec == Init /\ [][Next]_vars

\* The host schedules the tick for ever, hands every payload that arrived to the
\* plugin, and delivers what the plugin sent; grants, connections and packets
\* are the users' choice.  Nothing in the host holds a tick back; only the bound
\* of the model does (Room), while a queue is full, hence SF for the ticks.
Fairness ==
  /\ SF_vars(TickSlow)
  /\ SF_vars(TickFast)
  /\ \A p \in Players : WF_vars(HandlePayload(p)) /\ WF_vars(ClientReceive(p))

FairSpec == Spec /\ Fairness
-----------------------------------------------------------------------------
(* Safety. *)

\* An entry that is not active holds nothing of a session: no budget, no
\* restrictions and no half packet may leak from a closed session into the next
\* one, because `tick` replaces the entry; and an active one waits for no echo,
\* so no late echo can open a second session on top of the first.
NothingOutlivesSession == \A p \in Players :
  IF st[p].active
  THEN st[p].pending = None
  ELSE st[p].restrictions = None /\ st[p].partial = None /\ ~st[p].credited

\* A client keeps what the last message of a kind said.  When all of q will have
\* arrived that is m, or `was` still holds because there was no such message.
LastOfKind(q, i, types) ==
  q[i].type \in types /\ \A j \in DOMAIN q : j > i => q[j].type \notin types
NoneOfKind(q, types) == \A i \in DOMAIN q : q[i].type \notin types
EndsWith(q, types, m, was) ==
  \/ NoneOfKind(q, types) /\ was
  \/ \E i \in DOMAIN q : LastOfKind(q, i, types) /\ q[i] = m

\* What the client will believe once everything on its way has arrived.
Verdicts == {"enable", "goodbye"}
WillBeEnabled(p) == EndsWith(s2c[p], Verdicts, Enable(TRUE), client[p].enabled)

\* Server and client agree on whether Axiom is on, up to the messages on their
\* way: no refusal (`send_goodbye`) ever reaches a client the server keeps
\* active, and no client stays on after the server dropped it.  An entry that
\* outlived its connection is the exception, see OfferedWhilePermitted.
EnabledAgrees == \A p \in online :
  ~inherited[p] /\ kind[p] \in {"axiom", "outdated", "untranslated"} =>
    (WillBeEnabled(p) <=> st[p].active)

InTransit(p, t) ==
  \/ \E i \in DOMAIN s2c[p] : s2c[p][i].type = "hello" /\ s2c[p][i].token = t
  \/ \E i \in DOMAIN c2s[p] : c2s[p][i].type = "hello" /\ c2s[p][i].token = t

\* The server makes no second offer while one is pending, so a pending offer must
\* still be on its way to the client or back: were its echo used up without
\* clearing pending_handshake, the player would never be offered again.
PendingOfferIsAlive == \A p \in online :
  /\ st[p].pending # None
  /\ ~inherited[p]
  /\ kind[p] \in {"axiom", "untranslated"}
  => InTransit(p, st[p].pending)

\* While a player is active, every frame waiting to be handled, and the half
\* packet the tunnel holds, were sent in that very session: frames the client
\* sent before it learned that its session was closed never reach the next one.
FramesOfThisSession == \A p \in Players :
  st[p].active =>
    /\ st[p].partial \in {None, session[p]}
    /\ \A i \in DOMAIN c2s[p] :
         c2s[p][i].type = "frame" => c2s[p][i].token = session[p]

WillBeRestrictedTo(p, g) ==
  EndsWith(s2c[p], {"restrictions"}, RestrictTo(g), client[p].restrictions = g)

\* The restrictions recorded for an active player are the ones its client has, or
\* will have: `update_restrictions` skips the message only when it changes nothing.
RestrictionsAgree == \A p \in online :
  /\ st[p].active
  /\ ~inherited[p]
  /\ kind[p] = "axiom"
  => WillBeRestrictedTo(p, st[p].restrictions)

-----------------------------------------------------------------------------
(* Action properties. *)

\* A player becomes active only by the echo of the offer that was pending, from a
\* client that can run Axiom here, and while it holds the permission: a grant
\* withdrawn between the offer and the echo is noticed (`handle_hello`).
ActivationIsEarned == [][\A p \in Players :
  ~st[p].active /\ st'[p].active =>
    /\ CanUse(p)
    /\ kind[p] = "axiom"
    /\ st[p].pending # None
    /\ Head(c2s[p]) = Echo(st[p].pending, kind[p])]_vars

Appended(p) == SubSeq(s2c'[p], Len(s2c[p]) + 1, Len(s2c'[p]))
Repeats(p, reasons) == ReasonsIn(Appended(p)) \cap reasons \cap heard[p] # {}

\* told_disabled: a player is told why the permission keeps Axiom off once, not
\* every second, for as long as its grant does not change; the refusal of an
\* echo that crossed the loss of the permission does not start it over.
ToldOnce == [][\A p \in Players : ~Repeats(p, {"no permission", "missing use"})]_vars

-----------------------------------------------------------------------------
(* Liveness. *)

Settled(p) == p \in online /\ ~inherited[p]

\* A player with a working client that keeps the permission and its connection
\* ends up enabled, whatever refusals, withdrawn offers and late echoes came
\* before, and gets its budget and its restrictions.
PermittedIsEnabled == \A p \in Players :
  <>[](Settled(p) /\ CanUse(p) /\ kind[p] = "axiom") =>
    <>[](client[p].enabled /\ st[p].credited /\ client[p].restrictions = grant[p])

\* A player that lost the permission for good ends up disabled, even one whose
\* entry outlived its connection.
RevokedIsDisabled == \A p \in Players :
  <>[](p \in online /\ ~CanUse(p)) => <>[](~client[p].enabled /\ ~st[p].active)

\* lib.rs: "once a second we offer axiom:hello with a random token to every player
\* allowed to use Axiom".  A player that stays connected and permitted, with a
\* client that echoes, should end up enabled without the exception for an entry
\* that outlived its connection.
OfferedWhilePermitted == \A p \in Players :
  <>[](p \in online /\ CanUse(p) /\ kind[p] = "axiom") => <>[](client[p].enabled)
=============================================================================
