--------------------------- MODULE SessionProofs ---------------------------
(* Proofs about Session, for any number of players, tokens and grants. *)
EXTENDS Session, SequenceTheorems, TLAPS

(***************************************************************************)
(* Type correctness: what a tick does to one entry, then one step per      *)
(* action.                                                                 *)
(***************************************************************************)

\* Every message the server builds is one of the wire's.
LEMMA MessagesTyped ==
  /\ Sends \in ToClient
  /\ Kick \in ToClient
  /\ \A b \in BOOLEAN : Enable(b) \in ToClient
  /\ \A t \in Tokens : Hello(t) \in ToClient
  /\ \A r \in Reasons : Goodbye(r) \in ToClient
  /\ \A g \in Grants : RestrictTo(g) \in ToClient
<1>1. Sends \in [type: {"sends", "kick"}] /\ Kick \in [type: {"sends", "kick"}]
  BY DEF Sends, Kick
<1>2. ASSUME NEW b \in BOOLEAN PROVE Enable(b) \in [type: {"enable"}, on: BOOLEAN]
  BY DEF Enable
<1>3. ASSUME NEW t \in Tokens PROVE Hello(t) \in [type: {"hello"}, token: Tokens]
  BY DEF Hello
<1>4. ASSUME NEW r \in Reasons PROVE Goodbye(r) \in [type: {"goodbye"}, reason: Reasons]
  BY DEF Goodbye
<1>5. ASSUME NEW g \in Grants
      PROVE  RestrictTo(g) \in [type: {"restrictions"}, grant: Grants]
  BY DEF RestrictTo
<1> QED
  BY <1>1, <1>2, <1>3, <1>4, <1>5, Zenon DEF ToClient

\* Messages are sent one at a time, or two.
LEMMA ShortSeq ==
  ASSUME NEW S, NEW x \in S, NEW y \in S
  PROVE  <<>> \in Seq(S) /\ <<x>> \in Seq(S) /\ <<x, y>> \in Seq(S)
OBVIOUS

\* A slow tick leaves a well-formed entry and sends well-formed messages.
LEMMA SlowTickTyped ==
  ASSUME TypeOK, NEW p \in Players, NEW t \in Tokens
  PROVE  /\ SlowTick(st[p], p, t) \in PlayerState
         /\ SlowTickMsgs(st[p], p, t) \in Seq(ToClient)
<1> DEFINE s == st[p]
<1>1. s \in PlayerState /\ grant[p] \in Grants
  BY DEF TypeOK
<1>2. TopUpMsgs(s) \in Seq(ToClient)
  BY MessagesTyped DEF TopUpMsgs
<1>3. UpdateRestrictionsMsgs(s, grant[p]) \in Seq(ToClient)
  BY <1>1, MessagesTyped DEF UpdateRestrictionsMsgs
<1>4. TopUpMsgs(s) \o UpdateRestrictionsMsgs(s, grant[p]) \in Seq(ToClient)
  BY <1>2, <1>3
<1>5. /\ Enable(FALSE) \in ToClient
      /\ Hello(t) \in ToClient
      /\ Goodbye("no permission") \in ToClient
  BY MessagesTyped, Zenon DEF Reasons
<1>6. s.active \in BOOLEAN /\ s.told \in BOOLEAN
  BY <1>1 DEF PlayerState
<1>7. /\ ClosedMsgs \in Seq(ToClient)
      /\ <<Hello(t)>> \in Seq(ToClient)
      /\ <<Goodbye("no permission")>> \in Seq(ToClient)
      /\ <<>> \in Seq(ToClient)
  BY <1>5, ShortSeq, Zenon DEF ClosedMsgs
<1>8. SlowTickMsgs(s, p, t) \in Seq(ToClient)
  BY <1>4, <1>6, <1>7 DEF SlowTickMsgs
<1>9. /\ UpdateRestrictions(TopUp(s), grant[p]) \in PlayerState
      /\ Closed(s) \in PlayerState
      /\ Offered(s, t) \in PlayerState
      /\ ToldDisabled(s) \in PlayerState
  BY <1>1 DEF UpdateRestrictions, TopUp, Closed, Default, Offered, ToldDisabled,
              PlayerState
<1>10. SlowTick(s, p, t) \in PlayerState
  BY <1>1, <1>6, <1>9 DEF SlowTick
<1> QED
  BY <1>8, <1>10

\* The goodbyes among messages to the client give known reasons.
LEMMA ReasonsTyped ==
  ASSUME NEW msgs \in Seq(ToClient)
  PROVE  ReasonsIn(msgs) \subseteq Reasons
<1> SUFFICES ASSUME NEW i \in DOMAIN msgs, msgs[i].type = "goodbye"
             PROVE  msgs[i].reason \in Reasons
  BY DEF ReasonsIn
<1>1. msgs[i] \in ToClient
  OBVIOUS
<1> QED
  BY <1>1 DEF ToClient

\* What `send` leaves in the queue is well-formed.
LEMMA SentTyped ==
  ASSUME TypeOK, NEW p \in Players, NEW msgs \in Seq(ToClient)
  PROVE  Sent(p, msgs) \in Seq(ToClient)
BY DEF TypeOK, Sent

\* An echo that activates, or is refused, leaves a well-formed entry.
LEMMA EntryTyped ==
  ASSUME NEW s \in PlayerState, NEW g \in Grants, NEW m \in ToServer
  PROVE  /\ OfferUsed(s) \in PlayerState
         /\ Activated(s, g) \in PlayerState
         /\ FastTick(s) \in PlayerState
         /\ m.type = "frame" => Dispatched(s, m) \subseteq PlayerState
<1>1. OfferUsed(s) \in PlayerState /\ Activated(s, g) \in PlayerState
  BY DEF OfferUsed, Activated, UpdateRestrictions, PlayerState
<1>2. FastTick(s) \in PlayerState
  BY DEF FastTick, TopUp, PlayerState
<1>3. ASSUME m.type = "frame"
      PROVE  m.token \in Tokens \cup {None} /\ m.first \in BOOLEAN /\ m.last \in BOOLEAN
  BY <1>3 DEF ToServer
<1>4. ASSUME NEW t \in Tokens \cup {None} PROVE [s EXCEPT !.partial = t] \in PlayerState
  BY DEF PlayerState
<1>5. ASSUME m.type = "frame" PROVE Dispatched(s, m) \subseteq PlayerState
  <2>1. Pushed(s, m) \in PlayerState
    BY <1>3, <1>4, <1>5 DEF Pushed
  <2>2. TopUp(Pushed(s, m)) \in PlayerState
    BY <2>1 DEF TopUp, PlayerState
  <2> QED
    BY <2>1, <2>2 DEF Dispatched
<1> QED
  BY <1>1, <1>2, <1>5

\* What a client does with a message, and what it sends.
LEMMA ClientTyped ==
  ASSUME NEW c \in ClientState, NEW m \in ToClient
  PROVE  ReceivedBy(c, m) \in ClientState
<1>1. CASE m.type = "hello"
  <2>1. m.token \in Tokens
    BY <1>1 DEF ToClient
  <2> QED
    BY <1>1, <2>1 DEF ReceivedBy, ClientState
<1>2. CASE m.type = "enable"
  <2>1. m.on \in BOOLEAN
    BY <1>2 DEF ToClient
  <2> QED
    BY <1>2, <2>1 DEF ReceivedBy, ClientState
<1>3. CASE m.type = "goodbye"
  BY <1>3 DEF ReceivedBy, ClientState
<1>4. CASE m.type = "restrictions"
  <2>1. m.grant \in Grants
    BY <1>4 DEF ToClient
  <2> QED
    BY <1>4, <2>1 DEF ReceivedBy, ClientState
<1>5. CASE m.type \notin {"hello", "enable", "goodbye", "restrictions"}
  BY <1>5 DEF ReceivedBy
<1> QED
  BY <1>1, <1>2, <1>3, <1>4, <1>5

LEMMA EchoTyped ==
  ASSUME NEW m \in ToClient, m.type = "hello", NEW k \in ClientKinds
  PROVE  Echo(m.token, k) \in ToServer
<1>1. m.token \in Tokens
  BY DEF ToClient
<1>2. Echo(m.token, k) \in [type: {"hello"}, token: Tokens, kind: ClientKinds]
  BY <1>1 DEF Echo
<1> QED
  BY <1>2, Zenon DEF ToServer

LEMMA FrameTyped ==
  ASSUME NEW t \in Tokens \cup {None}, NEW f \in BOOLEAN, NEW l \in BOOLEAN
  PROVE  Frame(t, f, l) \in ToServer
<1>1. Frame(t, f, l) \in [type: {"frame"}, token: Tokens \cup {None}, first: BOOLEAN,
                          last: BOOLEAN]
  BY DEF Frame
<1> QED
  BY <1>1, Zenon DEF ToServer

LEMMA InitTyped == Init => TypeOK
<1> SUFFICES ASSUME Init PROVE TypeOK
  OBVIOUS
<1> USE SessionAssumption
<1>1. Default \in PlayerState /\ NewClient \in ClientState
  BY DEF Default, PlayerState, NewClient, ClientState
<1>2. <<>> \in Seq(ToClient) /\ <<>> \in Seq(ToServer)
  OBVIOUS
<1>3. phase \in 0 .. SlowPeriod - 1
  BY DEF Init
<1> QED
  BY <1>1, <1>2, <1>3 DEF Init, TypeOK

LEMMA TickSlowTyped ==
  ASSUME TypeOK, TickSlow
  PROVE  TypeOK'
<1> USE SessionAssumption
<1>1. PICK token \in [Players -> Tokens] :
        /\ st' = [p \in Players |-> IF Kept(p) THEN SlowTick(st[p], p, token[p])
                                               ELSE Default]
        /\ s2c' = [p \in Players |->
                    IF p \in online THEN Sent(p, SlowTickMsgs(st[p], p, token[p]))
                                    ELSE s2c[p]]
        /\ heard' = [p \in Players |->
                      IF p \in online
                      THEN heard[p] \cup ReasonsIn(SlowTickMsgs(st[p], p, token[p]))
                      ELSE heard[p]]
  BY Zenon DEF TickSlow
<1>2. \A p \in Players : /\ SlowTick(st[p], p, token[p]) \in PlayerState
                         /\ SlowTickMsgs(st[p], p, token[p]) \in Seq(ToClient)
  BY SlowTickTyped
<1>3. Default \in PlayerState
  BY DEF Default, PlayerState
<1>4. st' \in [Players -> PlayerState]
  BY <1>1, <1>2, <1>3
<1>5. \A p \in Players : Sent(p, SlowTickMsgs(st[p], p, token[p])) \in Seq(ToClient)
  BY <1>2, SentTyped
<1>6. s2c' \in [Players -> Seq(ToClient)]
  BY <1>1, <1>5 DEF TypeOK
<1>7. \A p \in Players : ReasonsIn(SlowTickMsgs(st[p], p, token[p])) \subseteq Reasons
  BY <1>2, ReasonsTyped
<1>8. heard' \in [Players -> SUBSET Reasons]
  BY <1>1, <1>7 DEF TypeOK
<1>9. phase' \in 0 .. SlowPeriod - 1
  BY DEF TickSlow
<1>10. inherited' \in [Players -> BOOLEAN]
  <2>1. \A p \in Players : (inherited[p] /\ st'[p] # Default) \in BOOLEAN
    OBVIOUS
  <2> QED
    BY <2>1, Zenon DEF TickSlow
<1> QED
  BY <1>4, <1>6, <1>8, <1>9, <1>10 DEF TypeOK, TickSlow

LEMMA TickFastTyped ==
  ASSUME TypeOK, TickFast
  PROVE  TypeOK'
<1> USE SessionAssumption
<1>1. ASSUME NEW p \in Players PROVE FastTick(st[p]) \in PlayerState
  <2> DEFINE s == st[p]
  <2>1. s \in PlayerState
    BY DEF TypeOK
  <2> HIDE DEF s
  <2>2. TopUp(s) \in PlayerState
    BY ONLY <2>1 DEF TopUp, PlayerState
  <2>3. FastTick(s) \in PlayerState
    BY <2>1, <2>2, Zenon DEF FastTick
  <2> QED
    BY <2>3 DEF s
<1>2. \A p \in Players : FastTickMsgs(st[p]) \in Seq(ToClient)
  BY MessagesTyped DEF FastTickMsgs, TopUpMsgs
<1>3. \A p \in Players : Sent(p, FastTickMsgs(st[p])) \in Seq(ToClient)
  BY <1>2, SentTyped
<1>4. st' \in [Players -> PlayerState]
  BY <1>1 DEF TypeOK, TickFast
<1>5. s2c' \in [Players -> Seq(ToClient)]
  BY <1>3 DEF TypeOK, TickFast
<1>6. phase' \in 0 .. SlowPeriod - 1
  BY DEF TypeOK, TickFast
<1> QED
  BY <1>4, <1>5, <1>6 DEF TypeOK, TickFast

\* The queues of a player that is online, one message in hand.
LEMMA HeadsTyped ==
  ASSUME TypeOK, NEW p \in Players
  PROVE  /\ c2s[p] # <<>> => Head(c2s[p]) \in ToServer /\ Tail(c2s[p]) \in Seq(ToServer)
         /\ s2c[p] # <<>> => Head(s2c[p]) \in ToClient /\ Tail(s2c[p]) \in Seq(ToClient)
BY DEF TypeOK

\* One or two well-formed messages sent to p leave s2c well-formed.
LEMMA SentToOne ==
  ASSUME TypeOK, NEW p \in Players, NEW msgs \in Seq(ToClient)
  PROVE  [s2c EXCEPT ![p] = Sent(p, msgs)] \in [Players -> Seq(ToClient)]
<1>1. Sent(p, msgs) \in Seq(ToClient)
  BY SentTyped
<1> QED
  BY <1>1 DEF TypeOK

LEMMA GoodbyesTyped ==
  ASSUME NEW r \in Reasons
  PROVE  <<Goodbye(r)>> \in Seq(ToClient) /\ <<Goodbye(r), Kick>> \in Seq(ToClient)
BY MessagesTyped, ShortSeq, Zenon

LEMMA HandlePayloadTyped ==
  ASSUME TypeOK, NEW p \in Players, HandlePayload(p)
  PROVE  TypeOK'
<1> DEFINE m == Head(c2s[p])
<1>1. m \in ToServer /\ Tail(c2s[p]) \in Seq(ToServer)
  BY HeadsTyped DEF HandlePayload
<1>2. [c2s EXCEPT ![p] = Tail(@)] \in [Players -> Seq(ToServer)]
  BY <1>1 DEF TypeOK
<1>3. \A r \in Reasons : [heard EXCEPT ![p] = @ \cup {r}] \in [Players -> SUBSET Reasons]
  BY DEF TypeOK
<1>4. /\ "api version" \in Reasons /\ "bad token" \in Reasons /\ Refusal(p) \in Reasons
  BY DEF Reasons, Refusal
<1>5. st[p] \in PlayerState /\ grant[p] \in Grants
  BY DEF TypeOK
<1>6. CASE HelloOutdated(p, m)
  <2>1. s2c' \in [Players -> Seq(ToClient)]
    BY <1>4, <1>6, GoodbyesTyped, SentToOne, Zenon DEF HelloOutdated
  <2>2. heard' \in [Players -> SUBSET Reasons]
    BY <1>3, <1>4, <1>6, Zenon DEF HelloOutdated
  <2> QED
    BY <1>2, <1>6, <2>1, <2>2 DEF TypeOK, HelloOutdated, TakeEcho
<1>7. CASE HelloMismatch(p, m)
  <2>1. s2c' \in [Players -> Seq(ToClient)]
    BY <1>4, <1>7, GoodbyesTyped, SentToOne, Zenon DEF HelloMismatch
  <2>2. heard' \in [Players -> SUBSET Reasons]
    BY <1>3, <1>4, <1>7, Zenon DEF HelloMismatch
  <2> QED
    BY <1>2, <1>7, <2>1, <2>2 DEF TypeOK, HelloMismatch, TakeEcho
<1>8. CASE HelloRefused(p, m)
  <2>1. s2c' \in [Players -> Seq(ToClient)]
    BY <1>4, <1>8, GoodbyesTyped, SentToOne, Zenon DEF HelloRefused
  <2>2. heard' \in [Players -> SUBSET Reasons]
    BY <1>3, <1>4, <1>8, Zenon DEF HelloRefused
  <2>3. OfferUsed(st[p]) \in PlayerState
    BY <1>1, <1>5, EntryTyped
  <2>4. st' \in [Players -> PlayerState]
    BY <1>8, <2>3 DEF HelloRefused, TypeOK
  <2> QED
    BY <1>2, <1>8, <2>1, <2>2, <2>4 DEF TypeOK, HelloRefused, AcceptEcho, TakeEcho
<1>9. CASE HelloActivates(p, m)
  <2>1. <<Enable(TRUE), RestrictTo(grant[p])>> \in Seq(ToClient)
    BY <1>5, MessagesTyped, ShortSeq, Zenon
  <2>2. s2c' \in [Players -> Seq(ToClient)]
    BY <1>9, <2>1, SentToOne, Zenon DEF HelloActivates
  <2>3. Activated(st[p], grant[p]) \in PlayerState
    BY <1>1, <1>5, EntryTyped
  <2>4. st' \in [Players -> PlayerState]
    BY <1>9, <2>3 DEF HelloActivates, TypeOK
  <2>5. m.token \in Tokens
    BY <1>1, <1>9 DEF HelloActivates, AcceptEcho, TakeEcho, ToServer
  <2>6. session' \in [Players -> Tokens \cup {None}]
    BY <1>9, <2>5 DEF HelloActivates, TypeOK
  <2>7. heard' \in [Players -> SUBSET Reasons]
    BY <1>9 DEF HelloActivates, TypeOK
  <2> QED
    BY <1>2, <1>9, <2>2, <2>4, <2>6, <2>7 DEF TypeOK, HelloActivates, AcceptEcho, TakeEcho
<1>10. CASE HandleFrame(p, m)
  <2>1. Dispatched(st[p], m) \subseteq PlayerState
    BY <1>1, <1>5, <1>10, EntryTyped DEF HandleFrame
  <2>2. PICK s \in PlayerState : st' = [st EXCEPT ![p] = s]
    BY <1>5, <1>10, <2>1 DEF HandleFrame
  <2>3. st' \in [Players -> PlayerState]
    BY <2>2 DEF TypeOK
  <2> QED
    BY <1>2, <1>10, <2>3 DEF TypeOK, HandleFrame
<1> QED
  BY <1>6, <1>7, <1>8, <1>9, <1>10, Zenon DEF HandlePayload

LEMMA HostTyped ==
  ASSUME TypeOK, NEW p \in Players,
         \/ \E g \in Grants : SetGrant(p, g)
         \/ \E k \in Kinds : Join(p, k)
         \/ Disconnect(p)
  PROVE  TypeOK'
<1>1. CASE \E g \in Grants : SetGrant(p, g)
  BY <1>1 DEF SetGrant, TypeOK
<1>2. CASE \E k \in Kinds : Join(p, k)
  <2>1. PICK k \in Kinds : Join(p, k)
    BY <1>2
  <2>2. (st[p] # Default) \in BOOLEAN
    OBVIOUS
  <2>3. inherited' \in [Players -> BOOLEAN]
    BY <2>1, <2>2 DEF Join, TypeOK
  <2> QED
    BY <2>1, <2>3 DEF Join, TypeOK
<1>3. CASE Disconnect(p)
  <2>1. NewClient \in ClientState
    BY DEF NewClient, ClientState
  <2>2. <<>> \in Seq(ToClient) /\ <<>> \in Seq(ToServer)
    OBVIOUS
  <2> QED
    BY <1>3, <2>1, <2>2 DEF Disconnect, TypeOK
<1> QED
  BY <1>1, <1>2, <1>3

LEMMA ClientReceiveTyped ==
  ASSUME TypeOK, NEW p \in Players, ClientReceive(p)
  PROVE  TypeOK'
<1> USE SessionAssumption
<1> DEFINE m == Head(s2c[p])
<1>1. m \in ToClient /\ Tail(s2c[p]) \in Seq(ToClient)
  BY HeadsTyped DEF ClientReceive
<1>2. CASE m.type = "kick" /\ Disconnect(p)
  BY <1>2, HostTyped
<1>3. CASE ~(m.type = "kick" /\ Disconnect(p))
  <2>1. /\ s2c' = [s2c EXCEPT ![p] = Tail(@)]
        /\ IF kind[p] = "vanilla"
           THEN UNCHANGED <<client, c2s>>
           ELSE /\ client' = [client EXCEPT ![p] = ReceivedBy(@, m)]
                /\ c2s' = IF m.type = "hello"
                          THEN [c2s EXCEPT ![p] = Append(@, Echo(m.token, kind[p]))]
                          ELSE c2s
        /\ UNCHANGED <<phase, st, online, grant, kind, session, inherited, heard>>
    BY <1>3 DEF ClientReceive
  <2>2. s2c' \in [Players -> Seq(ToClient)]
    BY <1>1, <2>1 DEF TypeOK
  <2>3. ReceivedBy(client[p], m) \in ClientState
    BY <1>1, ClientTyped DEF TypeOK
  <2>4. client' \in [Players -> ClientState]
    BY <2>1, <2>3 DEF TypeOK
  <2>5. m.type = "hello" => Echo(m.token, kind[p]) \in ToServer
    BY <1>1, EchoTyped DEF TypeOK
  <2>6. c2s \in [Players -> Seq(ToServer)]
    BY DEF TypeOK
  <2>7. m.type = "hello" =>
          [c2s EXCEPT ![p] = Append(@, Echo(m.token, kind[p]))] \in [Players -> Seq(ToServer)]
    BY <2>5, <2>6
  <2>8. c2s' \in [Players -> Seq(ToServer)]
    BY <2>1, <2>6, <2>7, Zenon
  <2> QED
    BY <2>1, <2>2, <2>4, <2>8 DEF TypeOK
<1> QED
  BY <1>2, <1>3

LEMMA ClientSendTyped ==
  ASSUME TypeOK, NEW p \in Players, ClientSend(p)
  PROVE  TypeOK'
<1>1. PICK first, last \in BOOLEAN :
        /\ client' = [client EXCEPT ![p].midPacket = ~last]
        /\ c2s' = [c2s EXCEPT ![p] = Append(@, Frame(client[p].token, first, last))]
        /\ UNCHANGED <<phase, st, online, grant, kind, s2c, session, inherited, heard>>
  BY DEF ClientSend
<1>2. client[p] \in ClientState
  BY DEF TypeOK
<1>3. Frame(client[p].token, first, last) \in ToServer
  BY <1>2, FrameTyped DEF ClientState
<1>4. c2s' \in [Players -> Seq(ToServer)]
  BY <1>1, <1>3 DEF TypeOK
<1>5. [client[p] EXCEPT !.midPacket = ~last] \in ClientState
  BY <1>2 DEF ClientState
<1>6. client' \in [Players -> ClientState]
  BY <1>1, <1>5 DEF TypeOK
<1> QED
  BY <1>1, <1>4, <1>6 DEF TypeOK

LEMMA NextTyped == TypeOK /\ [Next]_vars => TypeOK'
<1> SUFFICES ASSUME TypeOK, [Next]_vars PROVE TypeOK'
  OBVIOUS
<1>1. CASE TickSlow
  BY <1>1, TickSlowTyped
<1>2. CASE TickFast
  BY <1>2, TickFastTyped
<1>3. CASE \E p \in Players : HandlePayload(p)
  BY <1>3, HandlePayloadTyped
<1>4. CASE \E p \in Players : \/ \E g \in Grants : SetGrant(p, g)
                              \/ \E k \in Kinds : Join(p, k)
                              \/ Leave(p)
  BY <1>4, HostTyped DEF Leave
<1>5. CASE \E p \in Players : ClientReceive(p)
  BY <1>5, ClientReceiveTyped
<1>6. CASE \E p \in Players : ClientSend(p)
  BY <1>6, ClientSendTyped
<1>7. CASE UNCHANGED vars
  BY <1>7 DEF vars, TypeOK
<1> QED
  BY <1>1, <1>2, <1>3, <1>4, <1>5, <1>6, <1>7, Zenon DEF Next

\* Every reachable state is well-formed: PlayerState keeps its shape and both
\* directions of a connection carry only the packets of the protocol (proto.rs).
THEOREM TypeCorrect == Spec => []TypeOK
BY InitTyped, NextTyped, PTL DEF Spec

(***************************************************************************)
(* What a session leaves behind.  NothingOutlivesSession is inductive      *)
(* together with TypeOK: an echo that matches proves the player inactive,  *)
(* because an active one has no offer pending and an echo carries a token. *)
(***************************************************************************)

\* NothingOutlivesSession of one entry.
Clean(s) ==
  IF s.active THEN s.pending = None
  ELSE s.restrictions = None /\ s.partial = None /\ ~s.credited

LEMMA CleanSteps ==
  ASSUME NEW s \in PlayerState, Clean(s)
  PROVE  /\ Clean(Default)
         /\ Clean(FastTick(s))
         /\ Clean(OfferUsed(s))
         /\ \A g \in Grants : Clean(Activated(s, g))
         /\ \A m : s.active => \A d \in Dispatched(s, m) : d.active /\ Clean(d)
         /\ \A g \in Grants : s.active => Clean(UpdateRestrictions(TopUp(s), g))
         /\ \A t \in Tokens : ~s.active => Clean(Offered(s, t))
         /\ Clean(ToldDisabled(s))
<1>1. Clean(Default)
  BY DEF Clean, Default
<1>2. Clean(FastTick(s))
  BY DEF Clean, FastTick, TopUp, PlayerState
<1>3. Clean(OfferUsed(s)) /\ Clean(ToldDisabled(s))
  BY DEF Clean, OfferUsed, ToldDisabled, PlayerState
<1>4. ASSUME NEW g \in Grants PROVE Clean(Activated(s, g))
  BY DEF Clean, Activated, UpdateRestrictions, PlayerState
<1>5. ASSUME NEW m, s.active
      PROVE  \A d \in Dispatched(s, m) : d.active /\ Clean(d)
  <2>1. s.pending = None
    BY <1>5 DEF Clean
  <2>2. \A t : LET d == [s EXCEPT !.partial = t]
               IN  /\ d.active /\ d.pending = None
                   /\ TopUp(d).active /\ TopUp(d).pending = None
    BY <1>5, <2>1 DEF TopUp, PlayerState
  <2>3. Pushed(s, m) \in {s, [s EXCEPT !.partial = m.token], [s EXCEPT !.partial = None]}
    <3>1. CASE m.first /\ m.last
      BY <3>1 DEF Pushed
    <3>2. CASE m.first /\ ~m.last
      BY <3>2 DEF Pushed
    <3>3. CASE ~m.first /\ m.last
      BY <3>3 DEF Pushed
    <3>4. CASE ~m.first /\ ~m.last
      BY <3>4 DEF Pushed
    <3> QED
      BY <3>1, <3>2, <3>3, <3>4
  <2>4. TopUp(s).active /\ TopUp(s).pending = None
    BY <1>5, <2>1 DEF TopUp, PlayerState
  <2>5. /\ Pushed(s, m).active /\ Pushed(s, m).pending = None
        /\ TopUp(Pushed(s, m)).active /\ TopUp(Pushed(s, m)).pending = None
    BY <1>5, <2>1, <2>2, <2>3, <2>4
  <2> QED
    BY <2>5 DEF Dispatched, Clean
<1>6. ASSUME NEW g \in Grants, s.active PROVE Clean(UpdateRestrictions(TopUp(s), g))
  BY <1>6 DEF Clean, UpdateRestrictions, TopUp, PlayerState
<1>7. ASSUME NEW t \in Tokens, ~s.active PROVE Clean(Offered(s, t))
  BY <1>7 DEF Clean, Offered, PlayerState
<1> QED
  BY <1>1, <1>2, <1>3, <1>4, <1>5, <1>6, <1>7

LEMMA CleanSlowTick ==
  ASSUME TypeOK, NEW p \in Players, NEW t \in Tokens, Clean(st[p])
  PROVE  Clean(SlowTick(st[p], p, t))
<1> DEFINE s == st[p]
<1>1. s \in PlayerState /\ grant[p] \in Grants /\ s.active \in BOOLEAN /\ s.told \in BOOLEAN
  BY DEF TypeOK, PlayerState
<1>2. /\ s.active => Clean(UpdateRestrictions(TopUp(s), grant[p]))
      /\ Clean(Closed(s))
      /\ ~s.active => Clean(Offered(s, t))
      /\ Clean(ToldDisabled(s))
  BY <1>1, CleanSteps DEF Closed
<1> QED
  BY <1>1, <1>2 DEF SlowTick

LEMMA CleanNext ==
  ASSUME TypeOK, \A p \in Players : Clean(st[p]), [Next]_vars, NEW q \in Players
  PROVE  Clean(st'[q])
<1> USE SessionAssumption
<1>1. st[q] \in PlayerState /\ grant[q] \in Grants /\ Clean(st[q])
  BY DEF TypeOK
<1>2. CASE TickSlow
  <2>1. PICK token \in [Players -> Tokens] :
          st' = [p \in Players |-> IF Kept(p) THEN SlowTick(st[p], p, token[p])
                                              ELSE Default]
    BY <1>2, Zenon DEF TickSlow
  <2>2. Clean(SlowTick(st[q], q, token[q])) /\ Clean(Default)
    BY <1>1, CleanSlowTick, CleanSteps
  <2> QED
    BY <2>1, <2>2
<1>3. CASE TickFast
  <2>1. st'[q] \in {FastTick(st[q]), st[q]}
    BY <1>3 DEF TickFast
  <2> QED
    BY <1>1, <2>1, CleanSteps
<1>4. ASSUME NEW p \in Players, HandlePayload(p) PROVE Clean(st'[q])
  <2> DEFINE m == Head(c2s[p])
  <2>1. st[p] \in PlayerState /\ grant[p] \in Grants /\ Clean(st[p])
    BY DEF TypeOK
  <2>2. CASE UNCHANGED st
    BY <1>1, <2>2
  <2>3. CASE HelloRefused(p, m)
    <3>1. st' = [st EXCEPT ![p] = OfferUsed(@)]
      BY <2>3 DEF HelloRefused
    <3>2. Clean(OfferUsed(st[p]))
      BY <2>1, CleanSteps
    <3> QED
      BY <1>1, <3>1, <3>2 DEF TypeOK
  <2>4. CASE HelloActivates(p, m)
    <3>1. st' = [st EXCEPT ![p] = Activated(@, grant[p])]
      BY <2>4 DEF HelloActivates
    <3>2. Clean(Activated(st[p], grant[p]))
      BY <2>1, CleanSteps
    <3> QED
      BY <1>1, <3>1, <3>2 DEF TypeOK
  <2>5. CASE HandleFrame(p, m)
    <3>1. PICK s \in IF st[p].active THEN Dispatched(st[p], m) ELSE {st[p]} :
            st' = [st EXCEPT ![p] = s]
      BY <2>5 DEF HandleFrame
    <3>2. st[p].active => \A d \in Dispatched(st[p], m) : Clean(d)
      BY <2>1, CleanSteps
    <3>3. Clean(s)
      BY <2>1, <3>1, <3>2
    <3> QED
      BY <1>1, <3>1, <3>3 DEF TypeOK
  <2>6. HelloOutdated(p, m) \/ HelloMismatch(p, m) => UNCHANGED st
    BY DEF HelloOutdated, HelloMismatch
  <2> QED
    BY <1>4, <2>2, <2>3, <2>4, <2>5, <2>6, Zenon DEF HandlePayload
<1>5. ASSUME NEW p \in Players, ~HandlePayload(p),
             \/ \E g \in Grants : SetGrant(p, g)
             \/ \E k \in Kinds : Join(p, k)
             \/ Leave(p) \/ ClientReceive(p) \/ ClientSend(p)
      PROVE  UNCHANGED st
  BY <1>5 DEF SetGrant, Join, Leave, Disconnect, ClientReceive, ClientSend
<1>6. CASE UNCHANGED st
  BY <1>1, <1>6
<1>7. UNCHANGED vars => UNCHANGED st
  BY DEF vars
<1> QED
  BY <1>2, <1>3, <1>4, <1>5, <1>6, <1>7, Zenon DEF Next

\* No budget, no restrictions and no half packet of a closed session is there
\* when the next one starts, and no offer is pending while one lasts: `tick`
\* replaces the entry it closes and `activate` uses the offer up.
THEOREM SessionsAreClean == Spec => []NothingOutlivesSession
<1>1. NothingOutlivesSession <=> \A p \in Players : Clean(st[p])
  BY DEF NothingOutlivesSession, Clean
<1>2. Init => NothingOutlivesSession
  BY DEF Init, NothingOutlivesSession, Default
<1>3. TypeOK /\ NothingOutlivesSession /\ [Next]_vars => NothingOutlivesSession'
  BY CleanNext, <1>1 DEF NothingOutlivesSession, Clean
<1> QED
  BY <1>2, <1>3, TypeCorrect, PTL DEF Spec

(***************************************************************************)
(* Activation.  The action property needs to know where an echo comes from *)
(* (EchoesOf): from the client of this very connection, because a dropped  *)
(* connection takes its queues along, and from a client that answers.      *)
(***************************************************************************)

EchoesOf(p) ==
  /\ p \notin online => s2c[p] = <<>> /\ c2s[p] = <<>>
  /\ kind[p] = "bedrock" => s2c[p] = <<>>
  /\ \A i \in DOMAIN c2s[p] :
       c2s[p][i].type = "hello" =>
         c2s[p][i].kind = kind[p] /\ kind[p] \notin {"vanilla", "bedrock"}

\* What stays true of p's own queues when only messages to p are added, or when
\* the head of one of its queues is taken.
LEMMA EchoesFrame ==
  ASSUME TypeOK, NEW p \in Players, EchoesOf(p),
         kind'[p] = kind[p], p \in online, p \in online',
         c2s'[p] = c2s[p] \/ (c2s[p] # <<>> /\ c2s'[p] = Tail(c2s[p])),
         kind[p] = "bedrock" => s2c'[p] = s2c[p]
  PROVE  EchoesOf(p)'
<1>1. c2s[p] \in Seq(ToServer)
  BY DEF TypeOK
<1>2. ASSUME NEW i \in DOMAIN c2s'[p]
      PROVE  \E j \in DOMAIN c2s[p] : c2s'[p][i] = c2s[p][j]
  <2>1. CASE c2s'[p] = c2s[p]
    BY <1>2, <2>1
  <2>2. CASE c2s[p] # <<>> /\ c2s'[p] = Tail(c2s[p])
    <3>1. i + 1 \in DOMAIN c2s[p] /\ c2s'[p][i] = c2s[p][i + 1]
      BY <1>1, <1>2, <2>2
    <3> QED
      BY <3>1
  <2> QED
    BY <2>1, <2>2
<1> QED
  BY <1>2 DEF EchoesOf

LEMMA EchoesUnchanged ==
  ASSUME NEW p \in Players, EchoesOf(p),
         kind'[p] = kind[p], s2c'[p] = s2c[p], c2s'[p] = c2s[p],
         p \in online' <=> p \in online
  PROVE  EchoesOf(p)'
BY DEF EchoesOf

LEMMA EchoesInit == Init => \A p \in Players : EchoesOf(p)
BY DEF Init, EchoesOf

LEMMA EchoesNext ==
  ASSUME TypeOK, \A p \in Players : EchoesOf(p), [Next]_vars, NEW q \in Players
  PROVE  EchoesOf(q)'
<1>1. EchoesOf(q)
  OBVIOUS
<1>2. CASE TickSlow
  <2>1. PICK token \in [Players -> Tokens] :
          s2c' = [p \in Players |->
                   IF p \in online THEN Sent(p, SlowTickMsgs(st[p], p, token[p]))
                                   ELSE s2c[p]]
    BY <1>2, Zenon DEF TickSlow
  <2>2. kind' = kind /\ c2s' = c2s /\ online' = online
    BY <1>2 DEF TickSlow
  <2>3. CASE q \in online
    <3>1. kind[q] = "bedrock" => s2c'[q] = s2c[q]
      BY <2>1, <2>3 DEF Sent
    <3> QED
      BY <1>1, <2>2, <2>3, <3>1, EchoesFrame
  <2>4. CASE q \notin online
    BY <1>1, <2>1, <2>2, <2>4, EchoesUnchanged
  <2> QED
    BY <2>3, <2>4
<1>3. CASE TickFast
  <2>1. kind' = kind /\ c2s' = c2s /\ online' = online
    BY <1>3 DEF TickFast
  <2>2. s2c' = [p \in Players |-> IF p \in online THEN Sent(p, FastTickMsgs(st[p]))
                                                  ELSE s2c[p]]
    BY <1>3 DEF TickFast
  <2>3. CASE q \in online
    <3>1. kind[q] = "bedrock" => s2c'[q] = s2c[q]
      BY <2>2, <2>3 DEF Sent
    <3> QED
      BY <1>1, <2>1, <2>3, <3>1, EchoesFrame
  <2>4. CASE q \notin online
    BY <1>1, <2>1, <2>2, <2>4, EchoesUnchanged
  <2> QED
    BY <2>3, <2>4
<1>4. ASSUME NEW p \in Players, HandlePayload(p) PROVE EchoesOf(q)'
  <2>1. /\ p \in online /\ c2s[p] # <<>>
        /\ c2s' = [c2s EXCEPT ![p] = Tail(@)]
        /\ kind' = kind /\ online' = online
    BY <1>4, Zenon DEF HandlePayload, HelloOutdated, HelloMismatch, HelloRefused,
                       HelloActivates, HandleFrame, AcceptEcho, TakeEcho
  <2>2. \E msgs : s2c' = [s2c EXCEPT ![p] = Sent(p, msgs)] \/ s2c' = s2c
    BY <1>4, Zenon DEF HandlePayload, HelloOutdated, HelloMismatch, HelloRefused,
                       HelloActivates, HandleFrame
  <2>3. CASE p = q
    <3>1. kind[q] = "bedrock" => s2c'[q] = s2c[q]
      BY <2>2, <2>3 DEF Sent, TypeOK
    <3>2. c2s'[q] = Tail(c2s[q])
      BY <2>1, <2>3 DEF TypeOK
    <3> QED
      BY <1>1, <2>1, <2>3, <3>1, <3>2, EchoesFrame
  <2>4. CASE p # q
    <3>1. s2c'[q] = s2c[q] /\ c2s'[q] = c2s[q]
      BY <2>1, <2>2, <2>4 DEF TypeOK
    <3> QED
      BY <1>1, <2>1, <3>1, EchoesUnchanged
  <2> QED
    BY <2>3, <2>4
<1>5. ASSUME NEW p \in Players, NEW g \in Grants, SetGrant(p, g) PROVE EchoesOf(q)'
  BY <1>1, <1>5, EchoesUnchanged DEF SetGrant
<1>6. ASSUME NEW p \in Players, NEW k \in Kinds, Join(p, k) PROVE EchoesOf(q)'
  <2>1. p = q => s2c[q] = <<>> /\ c2s[q] = <<>>
    BY <1>1, <1>6 DEF Join, EchoesOf
  <2>2. CASE p = q
    BY <1>6, <2>1, <2>2 DEF Join, EchoesOf
  <2>3. CASE p # q
    <3>1. kind'[q] = kind[q] /\ s2c' = s2c /\ c2s' = c2s /\ (q \in online' <=> q \in online)
      BY <1>6, <2>3 DEF Join, TypeOK
    <3> QED
      BY <1>1, <3>1, EchoesUnchanged
  <2> QED
    BY <2>2, <2>3
<1>7. ASSUME NEW p \in Players, Disconnect(p) PROVE EchoesOf(q)'
  <2>1. CASE p = q
    <3>1. s2c'[q] = <<>> /\ c2s'[q] = <<>>
      BY <1>7, <2>1 DEF Disconnect, TypeOK
    <3> QED
      BY <3>1 DEF EchoesOf
  <2>2. CASE p # q
    <3>1. kind'[q] = kind[q] /\ s2c'[q] = s2c[q] /\ c2s'[q] = c2s[q]
          /\ (q \in online' <=> q \in online)
      BY <1>7, <2>2 DEF Disconnect, TypeOK
    <3> QED
      BY <1>1, <3>1, EchoesUnchanged
  <2> QED
    BY <2>1, <2>2
<1>8. ASSUME NEW p \in Players, ClientReceive(p) PROVE EchoesOf(q)'
  <2> DEFINE m == Head(s2c[p])
  <2>1. CASE Disconnect(p)
    BY <1>7, <2>1
  <2>2. CASE ~Disconnect(p)
    <3>1. /\ p \in online /\ s2c[p] # <<>>
          /\ s2c' = [s2c EXCEPT ![p] = Tail(@)]
          /\ kind' = kind /\ online' = online
          /\ \/ c2s' = c2s
             \/ /\ kind[p] # "vanilla"
                /\ c2s' = [c2s EXCEPT ![p] = Append(@, Echo(m.token, kind[p]))]
      BY <1>8, <2>2 DEF ClientReceive
    <3>2. CASE p # q
      <4>1. s2c'[q] = s2c[q] /\ c2s'[q] = c2s[q]
        BY <3>1, <3>2 DEF TypeOK
      <4> QED
        BY <1>1, <3>1, <4>1, EchoesUnchanged
    <3>3. CASE p = q
      <4>1. kind[q] # "bedrock"
        BY <1>1, <3>1, <3>3 DEF EchoesOf
      <4>2. CASE c2s' = c2s
        BY <1>1, <3>1, <3>3, <4>1, <4>2, EchoesFrame
      <4>3. CASE /\ kind[p] # "vanilla"
                 /\ c2s' = [c2s EXCEPT ![p] = Append(@, Echo(m.token, kind[p]))]
        <5>1. c2s'[q] = Append(c2s[q], Echo(m.token, kind[q])) /\ c2s[q] \in Seq(ToServer)
          BY <3>3, <4>3 DEF TypeOK
        <5>2. Echo(m.token, kind[q]).kind = kind[q]
          BY DEF Echo
        <5>3. ASSUME NEW i \in DOMAIN c2s'[q]
              PROVE  \/ i \in DOMAIN c2s[q] /\ c2s'[q][i] = c2s[q][i]
                     \/ c2s'[q][i] = Echo(m.token, kind[q])
          BY <5>1
        <5> QED
          BY <1>1, <3>1, <3>3, <4>1, <4>3, <5>2, <5>3 DEF EchoesOf
      <4> QED
        BY <3>1, <4>2, <4>3
    <3> QED
      BY <3>2, <3>3
  <2> QED
    BY <2>1, <2>2
<1>9. ASSUME NEW p \in Players, ClientSend(p) PROVE EchoesOf(q)'
  <2>1. PICK first, last \in BOOLEAN :
          c2s' = [c2s EXCEPT ![p] = Append(@, Frame(client[p].token, first, last))]
    BY <1>9, Zenon DEF ClientSend
  <2>2. p \in online /\ kind' = kind /\ s2c' = s2c /\ online' = online
    BY <1>9 DEF ClientSend
  <2>3. CASE p = q
    <3>1. /\ c2s'[q] = Append(c2s[q], Frame(client[q].token, first, last))
          /\ c2s[q] \in Seq(ToServer)
      BY <2>1, <2>3 DEF TypeOK
    <3>2. Frame(client[q].token, first, last).type # "hello"
      BY DEF Frame
    <3>3. ASSUME NEW i \in DOMAIN c2s'[q], c2s'[q][i].type = "hello"
          PROVE  i \in DOMAIN c2s[q] /\ c2s'[q][i] = c2s[q][i]
      BY <3>1, <3>2, <3>3
    <3> QED
      BY <1>1, <2>2, <2>3, <3>3 DEF EchoesOf
  <2>4. CASE p # q
    <3>1. c2s'[q] = c2s[q]
      BY <2>1, <2>4 DEF TypeOK
    <3> QED
      BY <1>1, <2>2, <3>1, EchoesUnchanged
  <2> QED
    BY <2>3, <2>4
<1>10. CASE UNCHANGED vars
  BY <1>1, <1>10, EchoesUnchanged DEF vars
<1> QED
  BY <1>2, <1>3, <1>4, <1>5, <1>6, <1>7, <1>8, <1>9, <1>10, Zenon DEF Next, Leave

\* A slow tick, or another tick, never activates anybody.
LEMMA TicksDoNotActivate ==
  ASSUME TypeOK, TickSlow \/ TickFast, NEW p \in Players, ~st[p].active
  PROVE  ~st'[p].active
<1>1. st[p] \in PlayerState
  BY DEF TypeOK
<1>2. ~Default.active
  BY DEF Default
<1>3. CASE TickSlow
  <2>1. PICK token \in [Players -> Tokens] :
          st' = [r \in Players |-> IF Kept(r) THEN SlowTick(st[r], r, token[r])
                                              ELSE Default]
    BY <1>3, Zenon DEF TickSlow
  <2>2. /\ ~Offered(st[p], token[p]).active
        /\ ~ToldDisabled(st[p]).active
    BY <1>1 DEF Offered, ToldDisabled, PlayerState
  <2>3. ~SlowTick(st[p], p, token[p]).active
    <3>1. st[p].active = FALSE /\ st[p].told \in BOOLEAN
      BY <1>1 DEF PlayerState
    <3> QED
      BY <2>2, <3>1 DEF SlowTick
  <2> QED
    BY <1>2, <2>1, <2>3
<1>4. CASE TickFast
  BY <1>4 DEF TickFast, FastTick
<1> QED
  BY <1>3, <1>4

\* What one step needs for the activation of p to be earned.
Earned(p) ==
  /\ CanUse(p)
  /\ kind[p] = "axiom"
  /\ st[p].pending # None
  /\ Head(c2s[p]) = Echo(st[p].pending, kind[p])

LEMMA ActivationStep ==
  ASSUME TypeOK, \A p \in Players : EchoesOf(p), [Next]_vars,
         NEW q \in Players, ~st[q].active, st'[q].active
  PROVE  Earned(q)
<1> USE SessionAssumption
<1>1. ~TickSlow /\ ~TickFast
  BY TicksDoNotActivate
<1>2. ASSUME NEW p \in Players, HandlePayload(p) PROVE Earned(q)
  <2> DEFINE m == Head(c2s[p])
  <2>1. ~UNCHANGED st
    OBVIOUS
  <2>2. CASE HelloRefused(p, m)
    <3>1. st' = [st EXCEPT ![p] = OfferUsed(@)]
      BY <2>2 DEF HelloRefused
    <3>2. OfferUsed(st[p]).active = st[p].active
      BY DEF OfferUsed, TypeOK, PlayerState
    <3> QED
      BY <3>1, <3>2 DEF TypeOK
  <2>3. CASE HandleFrame(p, m)
    <3>1. PICK s \in IF st[p].active THEN Dispatched(st[p], m) ELSE {st[p]} :
            st' = [st EXCEPT ![p] = s]
      BY <2>3 DEF HandleFrame
    <3>2. p # q => st'[q] = st[q]
      BY <3>1 DEF TypeOK
    <3>3. p = q => s = st[p] /\ st'[q] = s
      BY <3>1 DEF TypeOK
    <3> QED
      BY <3>2, <3>3
  <2>4. CASE HelloActivates(p, m)
    <3>1. p = q
      BY <2>4 DEF HelloActivates, TypeOK
    <3>2. /\ m.type = "hello" /\ m.kind # "outdated" /\ m.kind # "untranslated"
          /\ st[q].pending = m.token /\ CanUse(q)
      BY <2>4, <3>1 DEF HelloActivates, AcceptEcho, TakeEcho, MayEnable, EchoesTheOffer
    <3>3. c2s[q] # <<>> /\ m \in ToServer
      BY <1>2, <3>1, HeadsTyped DEF HandlePayload
    <3>4. 1 \in DOMAIN c2s[q] /\ m = c2s[q][1]
      BY <3>1, <3>3 DEF TypeOK
    <3>5. m.kind = kind[q] /\ kind[q] \notin {"vanilla", "bedrock"}
      <4> HIDE DEF m
      <4>1. EchoesOf(q)
        OBVIOUS
      <4> QED
        BY <3>2, <3>4, <4>1 DEF EchoesOf
    <3>6. kind[q] \in ClientKinds
      BY DEF TypeOK
    <3>7. kind[q] = "axiom"
      BY <3>2, <3>5, <3>6 DEF ClientKinds
    <3>8. m \in [type: {"hello"}, token: Tokens, kind: ClientKinds]
      BY <3>2, <3>3 DEF ToServer
    <3>9. m = Echo(m.token, m.kind) /\ m.token \in Tokens
      BY <3>8 DEF Echo
    <3> QED
      BY <3>1, <3>2, <3>5, <3>7, <3>9 DEF Earned
  <2>5. HelloOutdated(p, m) \/ HelloMismatch(p, m) => UNCHANGED st
    BY DEF HelloOutdated, HelloMismatch
  <2> QED
    BY <1>2, <2>1, <2>2, <2>3, <2>4, <2>5, Zenon DEF HandlePayload
<1>3. ASSUME NEW p \in Players,
             \/ \E g \in Grants : SetGrant(p, g)
             \/ \E k \in Kinds : Join(p, k)
             \/ Leave(p) \/ ClientReceive(p) \/ ClientSend(p)
      PROVE  UNCHANGED st
  BY <1>3 DEF SetGrant, Join, Leave, Disconnect, ClientReceive, ClientSend
<1>4. UNCHANGED vars => UNCHANGED st
  BY DEF vars
<1> QED
  BY <1>1, <1>2, <1>3, <1>4, Zenon DEF Next

\* A player is activated only by the echo of the offer pending for it, sent by the
\* Axiom client of this connection, while the player holds the permission
\* (`handle_hello`).
THEOREM ActivationsAreEarned == Spec => ActivationIsEarned
<1>1. TypeOK /\ (\A p \in Players : EchoesOf(p)) /\ [Next]_vars
        => (\A p \in Players : EchoesOf(p))'
  BY EchoesNext
<1>2. TypeOK /\ (\A p \in Players : EchoesOf(p)) /\ [Next]_vars
        => [\A p \in Players : ~st[p].active /\ st'[p].active => Earned(p)]_vars
  BY ActivationStep
<1>3. Spec => [][\A p \in Players : ~st[p].active /\ st'[p].active => Earned(p)]_vars
  BY <1>1, <1>2, EchoesInit, TypeCorrect, PTL DEF Spec
<1> QED
  BY <1>3 DEF ActivationIsEarned, Earned

(***************************************************************************)
(* What the two ends of a connection agree on: the queues of a player,     *)
(* traced message by message.                                              *)
(***************************************************************************)

(***************************************************************************)
(* The steps of one player.  Whatever happens in the system, a player sees *)
(* one of the steps below or nothing; what each of them does to the other  *)
(* players is settled here once.                                           *)
(***************************************************************************)

\* The client, its connection and what it sent are left alone.
ClientIdle(p) ==
  /\ client'[p] = client[p]
  /\ c2s'[p] = c2s[p]
  /\ kind'[p] = kind[p]
  /\ p \in online' <=> p \in online

Settings(p) == <<session[p], grant[p]>>

IdleOf(p) ==
  /\ ClientIdle(p)
  /\ st'[p] = st[p] /\ s2c'[p] = s2c[p] /\ Settings(p)' = Settings(p)
  /\ inherited'[p] = inherited[p] /\ heard'[p] = heard[p]

\* The branches of a slow tick for a player that is online: the entry becomes s,
\* and msgs are sent.
SlowStep(p, s, msgs) ==
  /\ p \in online
  /\ ClientIdle(p)
  /\ st'[p] = s /\ s2c'[p] = Sent(p, msgs) /\ Settings(p)' = Settings(p)
  /\ inherited'[p] = (inherited[p] /\ s # Default)
  /\ heard'[p] = heard[p] \cup ReasonsIn(msgs)

RenewOf(p) ==
  /\ st[p].active /\ CanUse(p)
  /\ SlowStep(p, UpdateRestrictions(TopUp(st[p]), grant[p]),
              TopUpMsgs(st[p]) \o UpdateRestrictionsMsgs(st[p], grant[p]))
CloseOf(p) ==
  /\ st[p].active /\ ~CanUse(p)
  /\ SlowStep(p, Default, <<Enable(FALSE)>>)
OfferOf(p) ==
  /\ ~st[p].active /\ CanUse(p) /\ st[p].pending = None
  /\ \E t \in Fresh(p) : SlowStep(p, Offered(st[p], t), <<Hello(t)>>)
TellOf(p) ==
  /\ ~st[p].active /\ ~CanUse(p) /\ ~st[p].told
  /\ SlowStep(p, ToldDisabled(st[p]), <<Goodbye("no permission")>>)
WaitOf(p) == ~st[p].active /\ SlowStep(p, st[p], <<>>)

SweepOf(p) ==
  /\ p \notin online
  /\ ClientIdle(p)
  /\ st'[p] = Default /\ s2c'[p] = s2c[p] /\ Settings(p)' = Settings(p)
  /\ ~inherited'[p] /\ heard'[p] = heard[p]

\* Any other tick of a player that is active.
TopUpOf(p) ==
  /\ p \in online
  /\ ClientIdle(p)
  /\ st'[p] = TopUp(st[p]) /\ s2c'[p] = Sent(p, TopUpMsgs(st[p]))
  /\ Settings(p)' = Settings(p)
  /\ inherited'[p] = inherited[p] /\ heard'[p] = heard[p]

\* A payload taken from the queue of the client.
PayloadStep(p) ==
  /\ p \in online /\ p \in online'
  /\ c2s[p] # <<>> /\ c2s'[p] = Tail(c2s[p])
  /\ client'[p] = client[p] /\ kind'[p] = kind[p] /\ grant'[p] = grant[p]
  /\ inherited'[p] = inherited[p]

GoodbyeOf(p) ==
  /\ PayloadStep(p)
  /\ Head(c2s[p]).type = "hello"
  /\ \/ Head(c2s[p]).kind = "outdated"
     \/ Head(c2s[p]).kind # "outdated" /\ st[p].pending # Head(c2s[p]).token
  /\ st'[p] = st[p] /\ session'[p] = session[p]
  /\ \/ /\ s2c'[p] = Sent(p, <<Goodbye("api version"), Kick>>)
        /\ heard'[p] = heard[p] \cup {"api version"}
     \/ /\ s2c'[p] = Sent(p, <<Goodbye("bad token")>>)
        /\ heard'[p] = heard[p] \cup {"bad token"}
RefuseOf(p) ==
  /\ PayloadStep(p)
  /\ Head(c2s[p]).type = "hello" /\ st[p].pending = Head(c2s[p]).token
  /\ st'[p] = OfferUsed(st[p]) /\ session'[p] = session[p]
  /\ s2c'[p] = Sent(p, <<Goodbye(Refusal(p))>>)
  /\ heard'[p] = heard[p] \cup {Refusal(p)}
ActivateOf(p) ==
  /\ PayloadStep(p)
  /\ CanUse(p)
  /\ Head(c2s[p]).type = "hello" /\ st[p].pending = Head(c2s[p]).token
  /\ st'[p] = Activated(st[p], grant[p]) /\ session'[p] = Head(c2s[p]).token
  /\ s2c'[p] = Sent(p, <<Enable(TRUE), RestrictTo(grant[p])>>)
  /\ heard'[p] = {}
FrameOf(p) ==
  /\ PayloadStep(p)
  /\ Head(c2s[p]).type = "frame"
  /\ st'[p] \in IF st[p].active THEN Dispatched(st[p], Head(c2s[p])) ELSE {st[p]}
  /\ session'[p] = session[p]
  /\ s2c'[p] = s2c[p] /\ heard'[p] = heard[p]

\* The host.
GrantOf(p) ==
  /\ ClientIdle(p)
  /\ st'[p] = st[p] /\ s2c'[p] = s2c[p] /\ session'[p] = session[p]
  /\ inherited'[p] = inherited[p] /\ heard'[p] = {}
JoinOf(p) ==
  /\ p \notin online /\ p \in online'
  /\ st'[p] = st[p] /\ client'[p] = client[p] /\ s2c'[p] = s2c[p] /\ c2s'[p] = c2s[p]
  /\ Settings(p)' = Settings(p)
  /\ inherited'[p] = (st[p] # Default) /\ heard'[p] = heard[p]
DropOf(p) ==
  /\ p \notin online'
  /\ client'[p] = NewClient /\ s2c'[p] = <<>> /\ c2s'[p] = <<>>
  /\ st'[p] = st[p] /\ kind'[p] = kind[p] /\ Settings(p)' = Settings(p)
  /\ ~inherited'[p] /\ heard'[p] = {}

\* The client.
ReceiveOf(p) ==
  /\ p \in online /\ p \in online'
  /\ s2c[p] # <<>> /\ s2c'[p] = Tail(s2c[p])
  /\ st'[p] = st[p] /\ kind'[p] = kind[p] /\ Settings(p)' = Settings(p)
  /\ inherited'[p] = inherited[p] /\ heard'[p] = heard[p]
  /\ \/ /\ kind[p] = "vanilla"
        /\ client'[p] = client[p] /\ c2s'[p] = c2s[p]
     \/ /\ kind[p] # "vanilla"
        /\ client'[p] = ReceivedBy(client[p], Head(s2c[p]))
        /\ c2s'[p] = IF Head(s2c[p]).type = "hello"
                     THEN Append(c2s[p], Echo(Head(s2c[p]).token, kind[p]))
                     ELSE c2s[p]
SendOf(p) ==
  /\ p \in online /\ p \in online'
  /\ client[p].enabled
  /\ \E f, l \in BOOLEAN :
       /\ client'[p] = [client[p] EXCEPT !.midPacket = ~l]
       /\ c2s'[p] = Append(c2s[p], Frame(client[p].token, f, l))
  /\ st'[p] = st[p] /\ s2c'[p] = s2c[p] /\ kind'[p] = kind[p] /\ Settings(p)' = Settings(p)
  /\ inherited'[p] = inherited[p] /\ heard'[p] = heard[p]

SlowOf(p) == RenewOf(p) \/ CloseOf(p) \/ OfferOf(p) \/ TellOf(p) \/ WaitOf(p)
PayloadOf(p) == GoodbyeOf(p) \/ RefuseOf(p) \/ ActivateOf(p) \/ FrameOf(p)
HostOf(p) == GrantOf(p) \/ JoinOf(p) \/ DropOf(p)
StepOf(p) ==
  \/ IdleOf(p) \/ SlowOf(p) \/ SweepOf(p) \/ TopUpOf(p)
  \/ PayloadOf(p) \/ HostOf(p) \/ ReceiveOf(p) \/ SendOf(p)

LEMMA SlowStepOf ==
  ASSUME TypeOK, TickSlow, NEW q \in Players
  PROVE  SlowOf(q) \/ SweepOf(q)
<1>1. PICK token \in [Players -> Tokens] :
        /\ \A p \in Players : token[p] \in Fresh(p)
        /\ st' = [p \in Players |-> IF Kept(p) THEN SlowTick(st[p], p, token[p])
                                               ELSE Default]
        /\ s2c' = [p \in Players |->
                    IF p \in online THEN Sent(p, SlowTickMsgs(st[p], p, token[p]))
                                    ELSE s2c[p]]
        /\ heard' = [p \in Players |->
                      IF p \in online
                      THEN heard[p] \cup ReasonsIn(SlowTickMsgs(st[p], p, token[p]))
                      ELSE heard[p]]
  BY Zenon DEF TickSlow
<1>2. /\ ClientIdle(q) /\ Settings(q)' = Settings(q)
      /\ inherited'[q] = (inherited[q] /\ st'[q] # Default)
  BY Zenon DEF TickSlow, ClientIdle, Settings
<1>3. CASE q \in online
  <2> DEFINE s == st[q]
  <2> DEFINE t == token[q]
  <2>1. /\ st'[q] = SlowTick(s, q, t)
        /\ s2c'[q] = Sent(q, SlowTickMsgs(s, q, t))
        /\ heard'[q] = heard[q] \cup ReasonsIn(SlowTickMsgs(s, q, t))
    BY <1>1, <1>3 DEF Kept
  <2>2. SlowStep(q, SlowTick(s, q, t), SlowTickMsgs(s, q, t))
    BY <1>2, <1>3, <2>1, Zenon DEF SlowStep
  <2>3. s.active \in BOOLEAN /\ s.told \in BOOLEAN
    BY DEF TypeOK, PlayerState
  <2>4. CASE s.active /\ CanUse(q)
    <3>1. /\ SlowTick(s, q, t) = UpdateRestrictions(TopUp(s), grant[q])
          /\ SlowTickMsgs(s, q, t) = TopUpMsgs(s) \o UpdateRestrictionsMsgs(s, grant[q])
      BY <2>4 DEF SlowTick, SlowTickMsgs, StillPermitted
    <3> QED
      BY <2>2, <2>4, <3>1, Zenon DEF RenewOf, SlowOf
  <2>5. CASE s.active /\ ~CanUse(q)
    <3>1. SlowTick(s, q, t) = Default /\ SlowTickMsgs(s, q, t) = <<Enable(FALSE)>>
      BY <2>5 DEF SlowTick, SlowTickMsgs, StillPermitted, Closed, ClosedMsgs
    <3> QED
      BY <2>2, <2>5, <3>1, Zenon DEF CloseOf, SlowOf
  <2>6. CASE ~s.active /\ CanUse(q) /\ s.pending = None
    <3>1. SlowTick(s, q, t) = Offered(s, t) /\ SlowTickMsgs(s, q, t) = <<Hello(t)>>
      BY <2>6 DEF SlowTick, SlowTickMsgs
    <3> QED
      BY <1>1, <2>2, <2>6, <3>1, Zenon DEF OfferOf, SlowOf
  <2>7. CASE ~s.active /\ ~CanUse(q) /\ ~s.told
    <3>1. /\ SlowTick(s, q, t) = ToldDisabled(s)
          /\ SlowTickMsgs(s, q, t) = <<Goodbye("no permission")>>
      BY <2>7 DEF SlowTick, SlowTickMsgs
    <3> QED
      BY <2>2, <2>7, <3>1, Zenon DEF TellOf, SlowOf
  <2>8. CASE /\ ~s.active
             /\ ~(CanUse(q) /\ s.pending = None)
             /\ ~(~CanUse(q) /\ ~s.told)
    <3>1. SlowTick(s, q, t) = s /\ SlowTickMsgs(s, q, t) = <<>>
      BY <2>3, <2>8 DEF SlowTick, SlowTickMsgs
    <3> QED
      BY <2>2, <2>8, <3>1, Zenon DEF WaitOf, SlowOf
  <2> QED
    BY <2>3, <2>4, <2>5, <2>6, <2>7, <2>8, Zenon
<1>4. CASE q \notin online
  <2>1. st'[q] = Default /\ s2c'[q] = s2c[q] /\ heard'[q] = heard[q]
    BY <1>1, <1>4 DEF Kept
  <2> QED
    BY <1>2, <1>4, <2>1, Zenon DEF SweepOf
<1> QED
  BY <1>3, <1>4

LEMMA FastStepOf ==
  ASSUME TypeOK, TickFast, NEW q \in Players
  PROVE  TopUpOf(q) \/ IdleOf(q)
<1>1. /\ ClientIdle(q) /\ Settings(q)' = Settings(q)
      /\ inherited'[q] = inherited[q] /\ heard'[q] = heard[q]
  BY Zenon DEF TickFast, ClientIdle, Settings
<1>2. CASE q \notin online
  <2>1. st'[q] = st[q] /\ s2c'[q] = s2c[q]
    BY <1>2 DEF TickFast
  <2> QED
    BY <1>1, <2>1 DEF IdleOf
<1>3. CASE q \in online
  <2>1. /\ st'[q] = FastTick(st[q])
        /\ s2c'[q] = Sent(q, FastTickMsgs(st[q]))
    BY <1>3 DEF TickFast
  <2>2. CASE st[q].active
    BY <1>1, <1>3, <2>1, <2>2, Zenon DEF TopUpOf, FastTick, FastTickMsgs
  <2>3. CASE ~st[q].active
    <3>1. s2c[q] \in Seq(ToClient)
      BY DEF TypeOK
    <3>2. s2c'[q] = s2c[q]
      BY <2>1, <2>3, <3>1 DEF FastTickMsgs, Sent
    <3> QED
      BY <1>1, <2>1, <2>3, <3>2, Zenon DEF IdleOf, FastTick
  <2> QED
    BY <2>2, <2>3
<1> QED
  BY <1>2, <1>3

\* What a payload of p leaves alone in the connection of another player.
LEMMA PayloadElsewhere ==
  ASSUME TypeOK, NEW p \in Players, NEW q \in Players, p # q, HandlePayload(p)
  PROVE  IdleOf(q)
<1> DEFINE m == Head(c2s[p])
<1>1. /\ c2s'[q] = c2s[q] /\ client'[q] = client[q] /\ kind'[q] = kind[q]
      /\ (q \in online' <=> q \in online) /\ grant'[q] = grant[q]
      /\ inherited'[q] = inherited[q]
  BY DEF HandlePayload, HelloOutdated, HelloMismatch, HelloRefused, HelloActivates,
         HandleFrame, AcceptEcho, TakeEcho, TypeOK
<1>2. /\ st'[q] = st[q] /\ s2c'[q] = s2c[q] /\ session'[q] = session[q]
      /\ heard'[q] = heard[q]
  BY DEF HandlePayload, HelloOutdated, HelloMismatch, HelloRefused, HelloActivates,
         HandleFrame, AcceptEcho, TakeEcho, TypeOK
<1> QED
  BY <1>1, <1>2, Zenon DEF IdleOf, ClientIdle, Settings

LEMMA PayloadStepOf ==
  ASSUME TypeOK, NEW p \in Players, HandlePayload(p)
  PROVE  PayloadOf(p)
<1> DEFINE m == Head(c2s[p])
<1>1. PayloadStep(p)
  BY DEF HandlePayload, HelloOutdated, HelloMismatch, HelloRefused, HelloActivates,
         HandleFrame, AcceptEcho, TakeEcho, TypeOK, PayloadStep
<1>2. CASE HelloOutdated(p, m)
  <2>1. /\ s2c'[p] = Sent(p, <<Goodbye("api version"), Kick>>)
        /\ heard'[p] = heard[p] \cup {"api version"}
        /\ st'[p] = st[p] /\ session'[p] = session[p]
        /\ m.type = "hello" /\ m.kind = "outdated"
    BY <1>2 DEF HelloOutdated, TakeEcho, TypeOK
  <2> QED
    BY <1>1, <2>1, Zenon DEF GoodbyeOf, PayloadOf
<1>3. CASE HelloMismatch(p, m)
  <2>1. /\ s2c'[p] = Sent(p, <<Goodbye("bad token")>>)
        /\ heard'[p] = heard[p] \cup {"bad token"}
        /\ st'[p] = st[p] /\ session'[p] = session[p]
        /\ m.type = "hello" /\ m.kind # "outdated" /\ st[p].pending # m.token
    BY <1>3 DEF HelloMismatch, TakeEcho, EchoesTheOffer, TypeOK
  <2> QED
    BY <1>1, <2>1, Zenon DEF GoodbyeOf, PayloadOf
<1>4. CASE HelloRefused(p, m)
  <2>1. /\ s2c'[p] = Sent(p, <<Goodbye(Refusal(p))>>)
        /\ heard'[p] = heard[p] \cup {Refusal(p)}
        /\ st'[p] = OfferUsed(st[p]) /\ session'[p] = session[p]
        /\ m.type = "hello" /\ st[p].pending = m.token
    BY <1>4 DEF HelloRefused, AcceptEcho, TakeEcho, EchoesTheOffer, TypeOK
  <2> QED
    BY <1>1, <2>1, Zenon DEF RefuseOf, PayloadOf
<1>5. CASE HelloActivates(p, m)
  <2>1. /\ s2c'[p] = Sent(p, <<Enable(TRUE), RestrictTo(grant[p])>>)
        /\ heard'[p] = {}
        /\ st'[p] = Activated(st[p], grant[p]) /\ session'[p] = m.token
        /\ m.type = "hello" /\ st[p].pending = m.token /\ CanUse(p)
    BY <1>5 DEF HelloActivates, AcceptEcho, TakeEcho, EchoesTheOffer, MayEnable, TypeOK
  <2> QED
    BY <1>1, <2>1, Zenon DEF ActivateOf, PayloadOf
<1>6. CASE HandleFrame(p, m)
  <2>1. PICK s \in IF st[p].active THEN Dispatched(st[p], m) ELSE {st[p]} :
          st' = [st EXCEPT ![p] = s]
    BY <1>6 DEF HandleFrame
  <2>2. st'[p] = s
    BY <2>1 DEF TypeOK
  <2>3. /\ s2c'[p] = s2c[p] /\ heard'[p] = heard[p] /\ session'[p] = session[p]
        /\ m.type = "frame"
    BY <1>6 DEF HandleFrame
  <2> QED
    BY <1>1, <2>1, <2>2, <2>3, Zenon DEF FrameOf, PayloadOf
<1> QED
  BY <1>2, <1>3, <1>4, <1>5, <1>6, Zenon DEF HandlePayload

LEMMA HostStepOf ==
  ASSUME TypeOK, NEW p \in Players, NEW q \in Players,
         \/ \E g \in Grants : SetGrant(p, g)
         \/ \E k \in Kinds : Join(p, k)
         \/ Disconnect(p)
  PROVE  HostOf(q) \/ IdleOf(q)
<1>1. CASE \E g \in Grants : SetGrant(p, g)
  <2>1. CASE p = q
    <3>1. heard'[q] = {}
      BY <1>1, <2>1 DEF SetGrant, TypeOK
    <3> QED
      BY <1>1, <2>1, <3>1, Zenon DEF SetGrant, GrantOf, HostOf, ClientIdle
  <2>2. CASE p # q
    <3>1. heard'[q] = heard[q] /\ grant'[q] = grant[q]
      BY <1>1, <2>2 DEF SetGrant, TypeOK
    <3> QED
      BY <1>1, <3>1, Zenon DEF SetGrant, IdleOf, ClientIdle, Settings
  <2> QED
    BY <2>1, <2>2
<1>2. CASE \E k \in Kinds : Join(p, k)
  <2>1. CASE p = q
    <3>1. q \notin online /\ q \in online' /\ inherited'[q] = (st[q] # Default)
      BY <1>2, <2>1 DEF Join, TypeOK
    <3> QED
      BY <1>2, <3>1, Zenon DEF Join, JoinOf, HostOf, Settings
  <2>2. CASE p # q
    <3>1. /\ (q \in online' <=> q \in online) /\ inherited'[q] = inherited[q]
          /\ kind'[q] = kind[q]
      BY <1>2, <2>2 DEF Join, TypeOK
    <3> QED
      BY <1>2, <3>1, Zenon DEF Join, IdleOf, ClientIdle, Settings
  <2> QED
    BY <2>1, <2>2
<1>3. CASE Disconnect(p)
  <2>1. CASE p = q
    <3>1. /\ q \notin online' /\ client'[q] = NewClient /\ s2c'[q] = <<>>
          /\ c2s'[q] = <<>> /\ ~inherited'[q] /\ heard'[q] = {}
      BY <1>3, <2>1 DEF Disconnect, TypeOK
    <3> QED
      BY <1>3, <3>1, Zenon DEF Disconnect, DropOf, HostOf, Settings
  <2>2. CASE p # q
    <3>1. /\ (q \in online' <=> q \in online) /\ inherited'[q] = inherited[q]
          /\ client'[q] = client[q] /\ s2c'[q] = s2c[q] /\ c2s'[q] = c2s[q]
          /\ heard'[q] = heard[q]
      BY <1>3, <2>2 DEF Disconnect, TypeOK
    <3> QED
      BY <1>3, <3>1, Zenon DEF Disconnect, IdleOf, ClientIdle, Settings
  <2> QED
    BY <2>1, <2>2
<1> QED
  BY <1>1, <1>2, <1>3

LEMMA ReceiveStepOf ==
  ASSUME TypeOK, NEW p \in Players, NEW q \in Players, ClientReceive(p)
  PROVE  ReceiveOf(q) \/ DropOf(q) \/ IdleOf(q)
<1> DEFINE m == Head(s2c[p])
<1>1. CASE Disconnect(p)
  <2>1. CASE p = q
    <3>1. /\ q \notin online' /\ client'[q] = NewClient /\ s2c'[q] = <<>>
          /\ c2s'[q] = <<>> /\ ~inherited'[q] /\ heard'[q] = {}
      BY <1>1, <2>1 DEF Disconnect, TypeOK
    <3> QED
      BY <1>1, <3>1, Zenon DEF Disconnect, DropOf, Settings
  <2>2. CASE p # q
    <3>1. /\ (q \in online' <=> q \in online) /\ inherited'[q] = inherited[q]
          /\ client'[q] = client[q] /\ s2c'[q] = s2c[q] /\ c2s'[q] = c2s[q]
          /\ heard'[q] = heard[q]
      BY <1>1, <2>2 DEF Disconnect, TypeOK
    <3> QED
      BY <1>1, <3>1, Zenon DEF Disconnect, IdleOf, ClientIdle, Settings
  <2> QED
    BY <2>1, <2>2
<1>2. CASE ~Disconnect(p)
  <2>1. /\ p \in online /\ s2c[p] # <<>>
        /\ s2c' = [s2c EXCEPT ![p] = Tail(@)]
        /\ \/ kind[p] = "vanilla" /\ client' = client /\ c2s' = c2s
           \/ /\ kind[p] # "vanilla"
              /\ client' = [client EXCEPT ![p] = ReceivedBy(@, m)]
              /\ c2s' = IF m.type = "hello"
                        THEN [c2s EXCEPT ![p] = Append(@, Echo(m.token, kind[p]))]
                        ELSE c2s
        /\ UNCHANGED <<phase, st, online, grant, kind, session, inherited, heard>>
    BY <1>2 DEF ClientReceive
  <2>2. CASE p = q
    <3>1. s2c'[q] = Tail(s2c[q])
      BY <2>1, <2>2 DEF TypeOK
    <3>2. \/ /\ kind[q] = "vanilla"
             /\ client'[q] = client[q] /\ c2s'[q] = c2s[q]
          \/ /\ kind[q] # "vanilla"
             /\ client'[q] = ReceivedBy(client[q], Head(s2c[q]))
             /\ c2s'[q] = IF Head(s2c[q]).type = "hello"
                          THEN Append(c2s[q], Echo(Head(s2c[q]).token, kind[q]))
                          ELSE c2s[q]
      BY <2>1, <2>2 DEF TypeOK
    <3> QED
      BY <2>1, <2>2, <3>1, <3>2, Zenon DEF ReceiveOf, Settings
  <2>3. CASE p # q
    <3>1. s2c'[q] = s2c[q] /\ client'[q] = client[q] /\ c2s'[q] = c2s[q]
      BY <2>1, <2>3 DEF TypeOK
    <3> QED
      BY <2>1, <3>1, Zenon DEF IdleOf, ClientIdle, Settings
  <2> QED
    BY <2>2, <2>3
<1> QED
  BY <1>1, <1>2

LEMMA SendStepOf ==
  ASSUME TypeOK, NEW p \in Players, NEW q \in Players, ClientSend(p)
  PROVE  SendOf(q) \/ IdleOf(q)
<1>1. PICK f, l \in BOOLEAN :
        /\ p \in online
        /\ client[p].enabled
        /\ client' = [client EXCEPT ![p].midPacket = ~l]
        /\ c2s' = [c2s EXCEPT ![p] = Append(@, Frame(client[p].token, f, l))]
        /\ UNCHANGED <<phase, st, online, grant, kind, s2c, session, inherited, heard>>
  BY DEF ClientSend
<1>2. CASE p = q
  <2>1. /\ client'[q] = [client[q] EXCEPT !.midPacket = ~l]
        /\ c2s'[q] = Append(c2s[q], Frame(client[q].token, f, l))
    BY <1>1, <1>2 DEF TypeOK
  <2> QED
    BY <1>1, <1>2, <2>1, Zenon DEF SendOf, Settings
<1>3. CASE p # q
  <2>1. client'[q] = client[q] /\ c2s'[q] = c2s[q]
    BY <1>1, <1>3 DEF TypeOK
  <2> QED
    BY <1>1, <2>1, Zenon DEF IdleOf, ClientIdle, Settings
<1> QED
  BY <1>2, <1>3

LEMMA NextStepOf ==
  ASSUME TypeOK, [Next]_vars, NEW q \in Players
  PROVE  StepOf(q)
<1>1. CASE TickSlow
  BY <1>1, SlowStepOf, Zenon DEF StepOf
<1>2. CASE TickFast
  BY <1>2, FastStepOf, Zenon DEF StepOf
<1>3. ASSUME NEW p \in Players, HandlePayload(p) PROVE StepOf(q)
  BY <1>3, PayloadStepOf, PayloadElsewhere, Zenon DEF StepOf
<1>4. ASSUME NEW p \in Players,
             \/ \E g \in Grants : SetGrant(p, g)
             \/ \E k \in Kinds : Join(p, k)
             \/ Leave(p)
      PROVE  StepOf(q)
  <2>1. HostOf(q) \/ IdleOf(q)
    BY <1>4, HostStepOf, Zenon DEF Leave
  <2> QED
    BY <2>1, Zenon DEF StepOf
<1>5. ASSUME NEW p \in Players, ClientReceive(p) PROVE StepOf(q)
  BY <1>5, ReceiveStepOf, Zenon DEF StepOf, HostOf
<1>6. ASSUME NEW p \in Players, ClientSend(p) PROVE StepOf(q)
  BY <1>6, SendStepOf, Zenon DEF StepOf
<1>7. CASE UNCHANGED vars
  BY <1>7, Zenon DEF vars, StepOf, IdleOf, ClientIdle, Settings
<1> QED
  BY <1>1, <1>2, <1>3, <1>4, <1>5, <1>6, <1>7, Zenon DEF Next

(***************************************************************************)
(* Whose frames the server sees.  A token travels to the client in a hello,*)
(* comes back in an echo and is then on every frame the client sends.      *)
(* FIFO queues alone do not keep the frames of one session apart from the  *)
(* next: OfferTraced adds that the offer pending is the last one made, so  *)
(* that behind its echo only frames of its session can be waiting, and     *)
(* SessionTraced that no offer is on its way while a session lasts.        *)
(***************************************************************************)

NoHello(q) == \A i \in DOMAIN q : q[i].type # "hello"

\* Behind position i there are only frames sent under the token t.
OnlyFramesBehind(q, i, t) ==
  \A j \in DOMAIN q : j > i => q[j].type = "frame" /\ q[j].token = t

OfferTraced(p) == st[p].pending # None =>
  /\ \A i \in DOMAIN s2c[p] : s2c[p][i] = Hello(st[p].pending) =>
       \A j \in DOMAIN s2c[p] : j > i => s2c[p][j].type # "hello"
  /\ \A i \in DOMAIN c2s[p] :
       c2s[p][i].type = "hello" /\ c2s[p][i].token = st[p].pending =>
         /\ NoHello(s2c[p])
         /\ client[p].token = st[p].pending
         /\ OnlyFramesBehind(c2s[p], i, st[p].pending)

SessionTraced(p) == st[p].active =>
  /\ NoHello(s2c[p])
  /\ OnlyFramesBehind(c2s[p], 0, session[p])
  /\ \/ client[p].token = session[p]
     \/ /\ ~client[p].enabled
        /\ \A i \in DOMAIN s2c[p] : s2c[p][i] # Enable(TRUE)
  /\ st[p].partial \in {None, session[p]}

\* The types of what belongs to one player, before and after a step.
TypedOf(p) ==
  /\ st[p] \in PlayerState /\ client[p] \in ClientState
  /\ s2c[p] \in Seq(ToClient) /\ c2s[p] \in Seq(ToServer)
  /\ session[p] \in Tokens \cup {None} /\ grant[p] \in Grants
  /\ kind[p] \in Kinds /\ inherited[p] \in BOOLEAN /\ heard[p] \subseteq Reasons

LEMMA TypedOfAll ==
  ASSUME TypeOK, NEW p \in Players
  PROVE  TypedOf(p)
BY DEF TypeOK, TypedOf

\* Messages without an offer among them leave the hellos of a queue where they are.
LEMMA HellosStay ==
  ASSUME NEW q \in Seq(ToClient), NEW msgs \in Seq(ToClient), NoHello(msgs),
         NEW r \in {q, q \o msgs}
  PROVE  /\ NoHello(q) => NoHello(r)
         /\ \A i \in DOMAIN r : r[i].type = "hello" => i \in DOMAIN q /\ r[i] = q[i]
<1>1. CASE r = q
  BY <1>1
<1>2. CASE r = q \o msgs
  <2>1. ASSUME NEW i \in DOMAIN r, r[i].type = "hello"
        PROVE  i \in DOMAIN q /\ r[i] = q[i]
    <3>1. i \in DOMAIN q => r[i] = q[i]
      BY <1>2, <2>1
    <3>2. i \notin DOMAIN q => i - Len(q) \in DOMAIN msgs /\ r[i] = msgs[i - Len(q)]
      BY <1>2, <2>1
    <3> QED
      BY <2>1, <3>1, <3>2 DEF NoHello
  <2> QED
    BY <2>1, Zenon DEF NoHello
<1> QED
  BY <1>1, <1>2

\* Taking the head of the client's queue, or not.
LEMMA FramesStay ==
  ASSUME NEW q \in Seq(ToServer), NEW r, r = q \/ (q # <<>> /\ r = Tail(q)), NEW t
  PROVE  /\ OnlyFramesBehind(q, 0, t) => OnlyFramesBehind(r, 0, t)
         /\ \A i \in DOMAIN r : \E k \in DOMAIN q :
              /\ r[i] = q[k]
              /\ OnlyFramesBehind(q, k, t) => OnlyFramesBehind(r, i, t)
<1>1. CASE r = q
  BY <1>1
<1>2. CASE q # <<>> /\ r = Tail(q)
  <2>1. \A i \in DOMAIN r : i + 1 \in DOMAIN q /\ r[i] = q[i + 1] /\ i \in Nat
    BY <1>2
  <2>2. ASSUME NEW i \in DOMAIN r, OnlyFramesBehind(q, i + 1, t)
        PROVE  OnlyFramesBehind(r, i, t)
    <3> SUFFICES ASSUME NEW j \in DOMAIN r, j > i
                 PROVE  r[j].type = "frame" /\ r[j].token = t
      BY DEF OnlyFramesBehind
    <3>1. j + 1 > i + 1 /\ j + 1 \in DOMAIN q /\ r[j] = q[j + 1]
      BY <2>1
    <3> QED
      BY <2>2, <3>1 DEF OnlyFramesBehind
  <2>3. OnlyFramesBehind(q, 0, t) => OnlyFramesBehind(r, 0, t)
    BY <2>1, SMTT(30) DEF OnlyFramesBehind
  <2> QED
    BY <2>1, <2>2, <2>3
<1> QED
  BY <1>1, <1>2

\* Steps that make no offer, and after which the client knows what it knew.
LEMMA OfferUndisturbed ==
  ASSUME NEW p \in Players, TypedOf(p), OfferTraced(p),
         NEW msgs \in Seq(ToClient), NoHello(msgs),
         s2c'[p] \in {s2c[p], s2c[p] \o msgs},
         c2s'[p] = c2s[p] \/ (c2s[p] # <<>> /\ c2s'[p] = Tail(c2s[p])),
         client'[p] = client[p],
         st'[p].pending \in {st[p].pending, None}
  PROVE  OfferTraced(p)'
<1> DEFINE t == st[p].pending
<1>1. CASE st'[p].pending = None
  BY <1>1 DEF OfferTraced
<1>2. CASE st'[p].pending = t /\ t # None
  <2>1. s2c[p] \in Seq(ToClient) /\ c2s[p] \in Seq(ToServer)
    BY DEF TypedOf
  <2>2. /\ NoHello(s2c[p]) => NoHello(s2c'[p])
        /\ \A i \in DOMAIN s2c'[p] : s2c'[p][i].type = "hello" =>
             i \in DOMAIN s2c[p] /\ s2c'[p][i] = s2c[p][i]
    BY <2>1, HellosStay
  <2>3. \A i \in DOMAIN c2s'[p] : \E k \in DOMAIN c2s[p] :
          /\ c2s'[p][i] = c2s[p][k]
          /\ OnlyFramesBehind(c2s[p], k, t) => OnlyFramesBehind(c2s'[p], i, t)
    <3> HIDE DEF t
    <3> QED
      BY <2>1, FramesStay, Zenon
  <2>4. ASSUME NEW i \in DOMAIN s2c'[p], s2c'[p][i] = Hello(t),
               NEW j \in DOMAIN s2c'[p], j > i
        PROVE  s2c'[p][j].type # "hello"
    <3>1. s2c'[p][i].type = "hello"
      BY <2>4 DEF Hello
    <3> QED
      BY <1>2, <2>2, <2>4, <3>1 DEF OfferTraced
  <2>5. ASSUME NEW i \in DOMAIN c2s'[p], c2s'[p][i].type = "hello", c2s'[p][i].token = t
        PROVE  /\ NoHello(s2c'[p])
               /\ client'[p].token = t
               /\ OnlyFramesBehind(c2s'[p], i, t)
    <3>1. PICK k \in DOMAIN c2s[p] :
            /\ c2s'[p][i] = c2s[p][k]
            /\ OnlyFramesBehind(c2s[p], k, t) => OnlyFramesBehind(c2s'[p], i, t)
      BY <2>3, <2>5
    <3>2. NoHello(s2c[p]) /\ client[p].token = t /\ OnlyFramesBehind(c2s[p], k, t)
      BY <1>2, <2>5, <3>1, Zenon DEF OfferTraced
    <3> QED
      BY <2>2, <3>1, <3>2
  <2> QED
    BY <1>2, <2>4, <2>5 DEF OfferTraced
<1> QED
  BY <1>1, <1>2

LEMMA SessionUndisturbed ==
  ASSUME NEW p \in Players, TypedOf(p), SessionTraced(p),
         NEW msgs \in Seq(ToClient), NoHello(msgs),
         \A i \in DOMAIN msgs : msgs[i] # Enable(TRUE),
         s2c'[p] \in {s2c[p], s2c[p] \o msgs},
         c2s'[p] = c2s[p] \/ (c2s[p] # <<>> /\ c2s'[p] = Tail(c2s[p])),
         client'[p] = client[p], session'[p] = session[p],
         st'[p].active =>
           st[p].active /\ st'[p].partial \in {st[p].partial, None, session[p]}
  PROVE  SessionTraced(p)'
<1> SUFFICES ASSUME st'[p].active PROVE SessionTraced(p)'
  BY DEF SessionTraced
<1>1. s2c[p] \in Seq(ToClient) /\ c2s[p] \in Seq(ToServer)
  BY DEF TypedOf
<1>2. NoHello(s2c[p]) => NoHello(s2c'[p])
  BY <1>1, HellosStay
<1>3. OnlyFramesBehind(c2s[p], 0, session[p]) => OnlyFramesBehind(c2s'[p], 0, session[p])
  <2> HIDE DEF OnlyFramesBehind
  <2>1. \A t : OnlyFramesBehind(c2s[p], 0, t) => OnlyFramesBehind(c2s'[p], 0, t)
    BY <1>1, FramesStay, Zenon
  <2> QED
    BY <2>1, Zenon
<1>4. (\A i \in DOMAIN s2c[p] : s2c[p][i] # Enable(TRUE))
        => \A i \in DOMAIN s2c'[p] : s2c'[p][i] # Enable(TRUE)
  <2>1. CASE s2c'[p] = s2c[p]
    BY <2>1
  <2>2. CASE s2c'[p] = s2c[p] \o msgs
    <3>1. \A i \in DOMAIN s2c'[p] :
            \/ i \in DOMAIN s2c[p] /\ s2c'[p][i] = s2c[p][i]
            \/ i - Len(s2c[p]) \in DOMAIN msgs /\ s2c'[p][i] = msgs[i - Len(s2c[p])]
      BY <1>1, <2>2
    <3> QED
      BY <3>1
  <2> QED
    BY <2>1, <2>2
<1> QED
  BY <1>2, <1>3, <1>4 DEF SessionTraced

\* What the server says besides offers, and what none of it says.
LEMMA MessageTypes ==
  /\ \A t : Hello(t).type = "hello" /\ Hello(t).token = t
  /\ \A b : Enable(b).type = "enable" /\ Enable(b).on = b
  /\ \A r : Goodbye(r).type = "goodbye"
  /\ \A g : RestrictTo(g).type = "restrictions" /\ RestrictTo(g).grant = g
  /\ Sends.type = "sends" /\ Kick.type = "kick"
BY DEF Hello, Enable, Goodbye, RestrictTo, Sends, Kick

Quiet(msgs) == NoHello(msgs) /\ \A i \in DOMAIN msgs : msgs[i] # Enable(TRUE)

LEMMA ShortConcat ==
  ASSUME NEW S, NEW x \in S, NEW y \in S
  PROVE  /\ <<>> \o <<>> = <<>>
         /\ <<x>> \o <<>> = <<x>> /\ <<>> \o <<y>> = <<y>>
         /\ <<x>> \o <<y>> = <<x, y>>
<1>1. <<>> \in Seq(S) /\ <<x>> \in Seq(S) /\ <<y>> \in Seq(S) /\ <<x, y>> \in Seq(S)
  OBVIOUS
<1>2. \A q \in Seq(S) : q \o <<>> = q /\ <<>> \o q = q
  BY ConcatEmptySeq
<1>3. <<x>> \o <<y>> = <<x, y>>
  <2> DEFINE q == <<x>> \o <<y>>
  <2>1. q \in Seq(S) /\ Len(q) = 2 /\ q[1] = x /\ q[2] = y
    BY <1>1
  <2>2. \A i \in 1 .. Len(q) : q[i] = <<x, y>>[i]
    BY <2>1
  <2> DEFINE r == <<x, y>>
  <2>3. Len(q) = Len(r) /\ r \in Seq(S)
    BY <1>1, <2>1
  <2>4. \A i \in 1 .. Len(q) : q[i] = r[i]
    BY <2>2
  <2> HIDE DEF q, r
  <2>5. q = r
    BY <2>1, <2>3, <2>4, SeqEqual
  <2> QED
    BY <2>5 DEF q, r
<1> QED
  BY <1>1, <1>2, <1>3, Zenon

LEMMA RenewMsgs ==
  ASSUME NEW s \in PlayerState, NEW g \in Grants
  PROVE  LET msgs == TopUpMsgs(s) \o UpdateRestrictionsMsgs(s, g)
         IN  /\ msgs \in {<<>>, <<Sends>>, <<RestrictTo(g)>>, <<Sends, RestrictTo(g)>>}
             /\ msgs \in Seq(ToClient)
<1>1. Sends \in ToClient /\ RestrictTo(g) \in ToClient
  BY MessagesTyped
<1>2. TopUpMsgs(s) \in {<<>>, <<Sends>>}
  BY DEF TopUpMsgs
<1>3. UpdateRestrictionsMsgs(s, g) \in {<<>>, <<RestrictTo(g)>>}
  BY DEF UpdateRestrictionsMsgs
<1>4. /\ <<>> \o <<>> = <<>> /\ <<Sends>> \o <<>> = <<Sends>>
      /\ <<>> \o <<RestrictTo(g)>> = <<RestrictTo(g)>>
      /\ <<Sends>> \o <<RestrictTo(g)>> = <<Sends, RestrictTo(g)>>
  BY <1>1, ShortConcat, Zenon
<1>5. TopUpMsgs(s) \o UpdateRestrictionsMsgs(s, g)
        \in {<<>>, <<Sends>>, <<RestrictTo(g)>>, <<Sends, RestrictTo(g)>>}
  BY <1>2, <1>3, <1>4, Zenon
<1>6. {<<>>, <<Sends>>, <<RestrictTo(g)>>, <<Sends, RestrictTo(g)>>} \subseteq Seq(ToClient)
  BY <1>1, ShortSeq
<1> QED
  BY <1>5, <1>6

LEMMA ShortDomains ==
  ASSUME NEW x, NEW y
  PROVE  /\ DOMAIN <<>> = {}
         /\ DOMAIN <<x>> = {1} /\ <<x>>[1] = x
         /\ DOMAIN <<x, y>> = {1, 2} /\ <<x, y>>[1] = x /\ <<x, y>>[2] = y
OBVIOUS

LEMMA QuietMsgs ==
  /\ Quiet(<<>>) /\ Quiet(<<Sends>>) /\ Quiet(<<Enable(FALSE)>>)
  /\ \A g : Quiet(<<RestrictTo(g)>>) /\ Quiet(<<Sends, RestrictTo(g)>>)
  /\ \A r : Quiet(<<Goodbye(r)>>) /\ Quiet(<<Goodbye(r), Kick>>)
  /\ \A g : NoHello(<<Enable(TRUE), RestrictTo(g)>>)
<1> DEFINE Fine(x) == x.type # "hello" /\ x # Enable(TRUE)
<1>1. /\ Fine(Sends) /\ Fine(Kick) /\ Fine(Enable(FALSE))
      /\ \A g : Fine(RestrictTo(g))
      /\ \A r : Fine(Goodbye(r))
      /\ Enable(TRUE).type = "enable"
  BY DEF Enable, Sends, Kick, RestrictTo, Goodbye
<1>2. ASSUME NEW x, Fine(x) PROVE Quiet(<<x>>)
  <2>1. ASSUME NEW q, DOMAIN q = {1}, q[1] = x PROVE Quiet(q)
    BY <1>2, <2>1, Zenon DEF Quiet, NoHello
  <2> QED
    BY <2>1, ShortDomains
<1>3. ASSUME NEW x, NEW y, Fine(x), Fine(y) PROVE Quiet(<<x, y>>)
  <2>1. ASSUME NEW q, DOMAIN q = {1, 2}, q[1] = x, q[2] = y PROVE Quiet(q)
    BY <1>3, <2>1, Zenon DEF Quiet, NoHello
  <2> QED
    BY <2>1, ShortDomains
<1>4. Quiet(<<>>)
  BY ShortDomains, Zenon DEF Quiet, NoHello
<1>5. ASSUME NEW g PROVE NoHello(<<Enable(TRUE), RestrictTo(g)>>)
  <2>1. ASSUME NEW q, DOMAIN q = {1, 2}, q[1] = Enable(TRUE), q[2] = RestrictTo(g)
        PROVE  NoHello(q)
    BY <1>1, <2>1, Zenon DEF NoHello
  <2> QED
    BY <2>1, ShortDomains
<1> HIDE DEF Fine
<1> QED
  BY <1>1, <1>2, <1>3, <1>4, <1>5, Zenon

\* The steps after which the queue to the client holds what it held, followed by
\* messages that start nothing.
LEMMA QuietSteps ==
  ASSUME NEW p \in Players, TypedOf(p),
         \/ IdleOf(p) \/ RenewOf(p) \/ CloseOf(p) \/ TellOf(p) \/ WaitOf(p)
         \/ SweepOf(p) \/ TopUpOf(p) \/ GoodbyeOf(p) \/ RefuseOf(p) \/ FrameOf(p)
         \/ GrantOf(p) \/ JoinOf(p)
  PROVE  \E msgs \in Seq(ToClient) :
            Quiet(msgs) /\ s2c'[p] \in {s2c[p], s2c[p] \o msgs}
<1> DEFINE After(msgs) == s2c'[p] \in {s2c[p], s2c[p] \o msgs}
<1>1. st[p] \in PlayerState /\ grant[p] \in Grants
  BY DEF TypedOf
<1>2. ASSUME NEW msgs, s2c'[p] = Sent(p, msgs) PROVE After(msgs)
  BY <1>2 DEF Sent
<1>3. CASE \/ IdleOf(p) \/ SweepOf(p) \/ FrameOf(p) \/ GrantOf(p) \/ JoinOf(p)
  <2>1. After(<<>>)
    BY <1>3, Zenon DEF IdleOf, SweepOf, FrameOf, GrantOf, JoinOf
  <2>2. <<>> \in Seq(ToClient)
    OBVIOUS
  <2> QED
    BY <2>1, <2>2, QuietMsgs, Zenon
<1>4. CASE RenewOf(p)
  <2> DEFINE msgs == TopUpMsgs(st[p]) \o UpdateRestrictionsMsgs(st[p], grant[p])
  <2>1. msgs \in Seq(ToClient) /\ Quiet(msgs)
    <3>1. /\ msgs \in {<<>>, <<Sends>>, <<RestrictTo(grant[p])>>, <<Sends, RestrictTo(grant[p])>>}
          /\ msgs \in Seq(ToClient)
      BY <1>1, RenewMsgs
    <3> QED
      BY <3>1, QuietMsgs, Zenon
  <2>2. After(msgs)
    BY <1>2, <1>4, Zenon DEF RenewOf, SlowStep
  <2> QED
    BY <2>1, <2>2, Zenon
<1>5. CASE CloseOf(p) \/ TellOf(p) \/ WaitOf(p)
  <2>1. After(<<Enable(FALSE)>>) \/ After(<<Goodbye("no permission")>>) \/ After(<<>>)
    BY <1>2, <1>5, Zenon DEF CloseOf, TellOf, WaitOf, SlowStep
  <2>2. /\ <<Enable(FALSE)>> \in Seq(ToClient) /\ <<Goodbye("no permission")>> \in Seq(ToClient)
        /\ <<>> \in Seq(ToClient)
    BY MessagesTyped, ShortSeq DEF Reasons
  <2> QED
    BY <2>1, <2>2, QuietMsgs, Zenon
<1>6. CASE TopUpOf(p)
  <2>1. After(<<>>) \/ After(<<Sends>>)
    BY <1>2, <1>6, Zenon DEF TopUpOf, TopUpMsgs
  <2>2. <<>> \in Seq(ToClient) /\ <<Sends>> \in Seq(ToClient)
    BY MessagesTyped, ShortSeq
  <2> QED
    BY <2>1, <2>2, QuietMsgs, Zenon
<1>7. CASE GoodbyeOf(p)
  <2>1. After(<<Goodbye("api version"), Kick>>) \/ After(<<Goodbye("bad token")>>)
    BY <1>2, <1>7, Zenon DEF GoodbyeOf
  <2>2. /\ <<Goodbye("api version"), Kick>> \in Seq(ToClient)
        /\ <<Goodbye("bad token")>> \in Seq(ToClient)
    BY GoodbyesTyped DEF Reasons
  <2> QED
    BY <2>1, <2>2, QuietMsgs, Zenon
<1>8. CASE RefuseOf(p)
  <2>1. After(<<Goodbye(Refusal(p))>>)
    BY <1>2, <1>8, Zenon DEF RefuseOf
  <2>2. <<Goodbye(Refusal(p))>> \in Seq(ToClient)
    BY GoodbyesTyped DEF Reasons, Refusal
  <2> QED
    BY <2>1, <2>2, QuietMsgs, Zenon
<1> QED
  BY <1>3, <1>4, <1>5, <1>6, <1>7, <1>8, Zenon

\* What becomes of the entry of an active player in such a step, and of an offer.
LEMMA PushedPartial ==
  ASSUME NEW s \in PlayerState, NEW m
  PROVE  \A d \in Dispatched(s, m) :
           d.active = s.active /\ d.pending = s.pending /\ d.told = s.told
           /\ d.restrictions = s.restrictions /\ d.partial \in {s.partial, m.token, None}
<1>1. Pushed(s, m) \in {s, [s EXCEPT !.partial = m.token], [s EXCEPT !.partial = None]}
  <2>1. CASE m.first /\ m.last
    BY <2>1 DEF Pushed
  <2>2. CASE m.first /\ ~m.last
    BY <2>2 DEF Pushed
  <2>3. CASE ~m.first /\ m.last
    BY <2>3 DEF Pushed
  <2>4. CASE ~m.first /\ ~m.last
    BY <2>4 DEF Pushed
  <2> QED
    BY <2>1, <2>2, <2>3, <2>4
<1>2. \A d \in {s, [s EXCEPT !.partial = m.token], [s EXCEPT !.partial = None]} :
        \A e \in {d, TopUp(d)} :
          e.active = s.active /\ e.pending = s.pending /\ e.told = s.told
          /\ e.restrictions = s.restrictions /\ e.partial \in {s.partial, m.token, None}
  BY DEF TopUp, PlayerState
<1>3. Dispatched(s, m) \subseteq {Pushed(s, m), TopUp(Pushed(s, m))}
  BY DEF Dispatched
<1> QED
  BY <1>1, <1>2, <1>3, Zenon

\* In those steps an offer stays or is used up, and a session stays or ends.
LEMMA QuietEntries ==
  ASSUME NEW p \in Players, TypedOf(p), SessionTraced(p),
         \/ IdleOf(p) \/ RenewOf(p) \/ CloseOf(p) \/ TellOf(p) \/ WaitOf(p)
         \/ SweepOf(p) \/ TopUpOf(p) \/ GoodbyeOf(p) \/ RefuseOf(p) \/ FrameOf(p)
         \/ GrantOf(p) \/ JoinOf(p)
  PROVE  /\ st'[p].pending \in {st[p].pending, None}
         /\ st'[p].active =>
              st[p].active /\ st'[p].partial \in {st[p].partial, None, session[p]}
         /\ c2s'[p] = c2s[p] \/ (c2s[p] # <<>> /\ c2s'[p] = Tail(c2s[p]))
         /\ client'[p] = client[p] /\ session'[p] = session[p]
<1> DEFINE s == st[p]
<1>1. s \in PlayerState /\ c2s[p] \in Seq(ToServer)
  BY DEF TypedOf
<1>2. /\ Default.pending = None /\ ~Default.active
      /\ TopUp(s).pending = s.pending /\ TopUp(s).active = s.active
      /\ TopUp(s).partial = s.partial
      /\ OfferUsed(s).pending = None /\ OfferUsed(s).active = s.active
      /\ OfferUsed(s).partial = s.partial
      /\ ToldDisabled(s).pending = None /\ ToldDisabled(s).active = s.active
      /\ ToldDisabled(s).partial = s.partial
      /\ \A g : LET d == UpdateRestrictions(TopUp(s), g)
               IN  d.pending = s.pending /\ d.active = s.active /\ d.partial = s.partial
  BY <1>1 DEF Default, TopUp, OfferUsed, ToldDisabled, UpdateRestrictions, PlayerState
<1>3. /\ c2s'[p] = c2s[p] \/ (c2s[p] # <<>> /\ c2s'[p] = Tail(c2s[p]))
      /\ client'[p] = client[p] /\ session'[p] = session[p]
  <2>1. CASE \/ IdleOf(p) \/ SweepOf(p) \/ TopUpOf(p)
             \/ RenewOf(p) \/ CloseOf(p) \/ TellOf(p) \/ WaitOf(p)
    <3>1. ClientIdle(p) /\ Settings(p)' = Settings(p)
      BY <2>1, Zenon DEF IdleOf, SweepOf, TopUpOf, RenewOf, CloseOf, TellOf, WaitOf, SlowStep
    <3> QED
      BY <3>1 DEF ClientIdle, Settings
  <2>2. CASE GrantOf(p)
    BY <2>2 DEF GrantOf, ClientIdle
  <2>3. CASE JoinOf(p)
    BY <2>3 DEF JoinOf, Settings
  <2>4. CASE GoodbyeOf(p) \/ RefuseOf(p) \/ FrameOf(p)
    BY <2>4, Zenon DEF GoodbyeOf, RefuseOf, FrameOf, PayloadStep
  <2> QED
    BY <2>1, <2>2, <2>3, <2>4
<1>4. CASE FrameOf(p)
  <2> DEFINE m == Head(c2s[p])
  <2>1. c2s[p] # <<>> /\ m.type = "frame" /\ m = c2s[p][1] /\ 1 \in DOMAIN c2s[p]
    BY <1>1, <1>4 DEF FrameOf, PayloadStep
  <2>2. s.active => m.token = session[p]
    BY <2>1 DEF SessionTraced, OnlyFramesBehind
  <2>3. \A d \in Dispatched(s, m) :
          d.active = s.active /\ d.pending = s.pending
          /\ d.partial \in {s.partial, m.token, None}
    BY <1>1, PushedPartial
  <2>4. st'[p] \in IF s.active THEN Dispatched(s, m) ELSE {s}
    BY <1>4 DEF FrameOf
  <2> HIDE DEF m
  <2> QED
    BY <1>3, <2>2, <2>3, <2>4
<1>5. CASE ~FrameOf(p)
  <2>1. \/ st'[p] \in {s, Default, TopUp(s), OfferUsed(s), ToldDisabled(s)}
        \/ \E g : st'[p] = UpdateRestrictions(TopUp(s), g)
    BY <1>5, Zenon DEF IdleOf, SweepOf, TopUpOf, RenewOf, CloseOf, TellOf, WaitOf,
                       SlowStep, GrantOf, JoinOf, GoodbyeOf, RefuseOf
  <2>2. /\ st'[p].pending \in {s.pending, None}
        /\ st'[p].active => s.active /\ st'[p].partial = s.partial
    BY <1>2, <2>1, Zenon
  <2> QED
    BY <1>3, <2>2
<1> QED
  BY <1>4, <1>5

LEMMA QuietTraced ==
  ASSUME NEW p \in Players, TypedOf(p), OfferTraced(p), SessionTraced(p),
         \/ IdleOf(p) \/ RenewOf(p) \/ CloseOf(p) \/ TellOf(p) \/ WaitOf(p)
         \/ SweepOf(p) \/ TopUpOf(p) \/ GoodbyeOf(p) \/ RefuseOf(p) \/ FrameOf(p)
         \/ GrantOf(p) \/ JoinOf(p)
  PROVE  OfferTraced(p)' /\ SessionTraced(p)'
<1>1. PICK msgs \in Seq(ToClient) :
        Quiet(msgs) /\ s2c'[p] \in {s2c[p], s2c[p] \o msgs}
  BY QuietSteps, Zenon
<1>2. /\ st'[p].pending \in {st[p].pending, None}
      /\ st'[p].active =>
           st[p].active /\ st'[p].partial \in {st[p].partial, None, session[p]}
      /\ c2s'[p] = c2s[p] \/ (c2s[p] # <<>> /\ c2s'[p] = Tail(c2s[p]))
      /\ client'[p] = client[p] /\ session'[p] = session[p]
  BY QuietEntries, Zenon
<1>3. NoHello(msgs) /\ \A i \in DOMAIN msgs : msgs[i] # Enable(TRUE)
  BY <1>1 DEF Quiet
<1>4. OfferTraced(p)'
  BY <1>1, <1>2, <1>3, OfferUndisturbed, Zenon
<1>5. SessionTraced(p)'
  BY <1>1, <1>2, <1>3, SessionUndisturbed, Zenon
<1> QED
  BY <1>4, <1>5

\* A new offer: its token is one that nothing of this connection remembers.
LEMMA OfferStep ==
  ASSUME NEW p \in Players, TypedOf(p), OfferOf(p)
  PROVE  OfferTraced(p)' /\ SessionTraced(p)'
<1>1. PICK t \in Fresh(p) : SlowStep(p, Offered(st[p], t), <<Hello(t)>>)
  BY DEF OfferOf
<1>2. /\ st'[p] = Offered(st[p], t) /\ c2s'[p] = c2s[p]
      /\ s2c'[p] = Sent(p, <<Hello(t)>>)
  BY <1>1 DEF SlowStep, ClientIdle
<1>3. ~st'[p].active /\ st'[p].pending = t
  BY <1>2 DEF OfferOf, TypedOf, Offered, PlayerState
<1>4. s2c[p] \in Seq(ToClient) /\ Hello(t) \in ToClient /\ Hello(t).type = "hello"
      /\ Hello(t).token = t
  BY MessagesTyped, MessageTypes DEF TypedOf, Fresh
<1>5. /\ \A i \in DOMAIN s2c[p] : s2c[p][i] # Hello(t)
      /\ \A i \in DOMAIN c2s[p] : c2s[p][i].type = "hello" => c2s[p][i].token # t
  <2>1. t \notin TokensIn(s2c[p]) /\ t \notin TokensIn(c2s[p])
    BY DEF Fresh, Remembered
  <2> QED
    BY <1>4, <2>1 DEF TokensIn
<1>6. \A i \in DOMAIN s2c'[p] : s2c'[p][i] = Hello(t) =>
        \A j \in DOMAIN s2c'[p] : ~(j > i)
  <2>1. CASE s2c'[p] = s2c[p]
    BY <1>5, <2>1
  <2>2. CASE s2c'[p] = s2c[p] \o <<Hello(t)>>
    <3>1. DOMAIN s2c'[p] = 1 .. Len(s2c[p]) + 1 /\ Len(s2c[p]) \in Nat
          /\ \A i \in DOMAIN s2c[p] : s2c'[p][i] = s2c[p][i]
      BY <1>4, <2>2
    <3>2. \A i \in DOMAIN s2c'[p] : i \notin DOMAIN s2c[p] => i = Len(s2c[p]) + 1
      BY <1>4, <3>1
    <3> QED
      BY <1>5, <3>1, <3>2
  <2> QED
    BY <1>2, <2>1, <2>2 DEF Sent
<1> QED
  BY <1>2, <1>3, <1>5, <1>6 DEF OfferTraced, SessionTraced

\* The echo activates: what is behind it in the queue was sent under its token.
LEMMA ActivateStep ==
  ASSUME NEW p \in Players, TypedOf(p), OfferTraced(p), ActivateOf(p)
  PROVE  OfferTraced(p)' /\ SessionTraced(p)'
<1> USE SessionAssumption
<1> DEFINE t == st[p].pending
<1>1. /\ s2c[p] \in Seq(ToClient) /\ c2s[p] \in Seq(ToServer) /\ c2s[p] # <<>>
      /\ c2s'[p] = Tail(c2s[p]) /\ client'[p] = client[p]
      /\ Head(c2s[p]).type = "hello" /\ Head(c2s[p]).token = t
      /\ session'[p] = t
  BY DEF ActivateOf, PayloadStep, TypedOf
<1>2. 1 \in DOMAIN c2s[p] /\ Head(c2s[p]) = c2s[p][1] /\ c2s[p][1] \in ToServer
  BY <1>1
<1>3. t # None
  <2>1. c2s[p][1].token \in Tokens
    BY <1>1, <1>2 DEF ToServer
  <2> QED
    BY <1>1, <1>2, <2>1
<1>4. NoHello(s2c[p]) /\ client[p].token = t /\ OnlyFramesBehind(c2s[p], 1, t)
  BY <1>1, <1>2, <1>3, Zenon DEF OfferTraced
<1>5. OnlyFramesBehind(c2s'[p], 0, t)
  <2>1. \A j \in DOMAIN c2s'[p] : j + 1 \in DOMAIN c2s[p] /\ c2s'[p][j] = c2s[p][j + 1]
                                 /\ j + 1 > 1
    BY <1>1
  <2> QED
    BY <1>4, <2>1 DEF OnlyFramesBehind
<1>6. NoHello(s2c'[p])
  <2>1. /\ <<Enable(TRUE), RestrictTo(grant[p])>> \in Seq(ToClient)
        /\ NoHello(<<Enable(TRUE), RestrictTo(grant[p])>>)
    BY MessagesTyped, ShortSeq, QuietMsgs, Zenon DEF TypedOf
  <2>2. s2c'[p] \in {s2c[p], s2c[p] \o <<Enable(TRUE), RestrictTo(grant[p])>>}
    BY DEF ActivateOf, Sent
  <2> QED
    BY <1>1, <1>4, <2>1, <2>2, HellosStay, Zenon
<1>7. st'[p].pending = None /\ st'[p].partial = None
  BY DEF ActivateOf, Activated, UpdateRestrictions, TypedOf, PlayerState
<1> QED
  BY <1>1, <1>4, <1>5, <1>6, <1>7 DEF OfferTraced, SessionTraced

\* A dropped connection takes its queues along.
LEMMA DropStep ==
  ASSUME NEW p \in Players, SessionTraced(p), DropOf(p)
  PROVE  OfferTraced(p)' /\ SessionTraced(p)'
<1>1. /\ s2c'[p] = <<>> /\ c2s'[p] = <<>> /\ ~client'[p].enabled
      /\ st'[p] = st[p] /\ session'[p] = session[p]
  BY DEF DropOf, NewClient, Settings
<1>2. NoHello(s2c'[p]) /\ OnlyFramesBehind(c2s'[p], 0, session'[p])
  BY <1>1 DEF NoHello, OnlyFramesBehind
<1>3. \A i \in DOMAIN s2c'[p] : s2c'[p][i] # Enable(TRUE)
  BY <1>1
<1>4. DOMAIN s2c'[p] = {} /\ DOMAIN c2s'[p] = {}
  BY <1>1
<1>5. OfferTraced(p)'
  BY <1>4, Zenon DEF OfferTraced
<1>6. SessionTraced(p)'
  BY <1>1, <1>2, <1>3, Zenon DEF SessionTraced
<1> QED
  BY <1>5, <1>6

\* The client takes the offer pending: no other is behind it, so from now on the
\* token of its frames is the one of the echo it appends.
LEMMA ReceiveStep ==
  ASSUME NEW p \in Players, TypedOf(p), OfferTraced(p), SessionTraced(p), ReceiveOf(p)
  PROVE  OfferTraced(p)' /\ SessionTraced(p)'
<1> DEFINE m == Head(s2c[p])
<1> DEFINE t == st[p].pending
<1>1. /\ s2c[p] \in Seq(ToClient) /\ c2s[p] \in Seq(ToServer) /\ s2c[p] # <<>>
      /\ s2c'[p] = Tail(s2c[p]) /\ st'[p] = st[p] /\ session'[p] = session[p]
      /\ client[p] \in ClientState
  BY DEF ReceiveOf, TypedOf, Settings
<1>2. 1 \in DOMAIN s2c[p] /\ m = s2c[p][1] /\ m \in ToClient
  BY <1>1
<1>3. \A i \in DOMAIN s2c'[p] :
        i + 1 \in DOMAIN s2c[p] /\ s2c'[p][i] = s2c[p][i + 1] /\ i + 1 > 1 /\ i \in Nat
  BY <1>1
<1>4. NoHello(s2c[p]) => NoHello(s2c'[p])
  BY <1>3 DEF NoHello
<1>5. t # None => \A i \in DOMAIN s2c'[p] : s2c'[p][i] = Hello(t) =>
        \A j \in DOMAIN s2c'[p] : j > i => s2c'[p][j].type # "hello"
  BY <1>3 DEF OfferTraced
<1>6. CASE ~(kind[p] # "vanilla" /\ m.type = "hello")
  <2>1. c2s'[p] = c2s[p]
    BY <1>6 DEF ReceiveOf
  <2>2. /\ client'[p].token = client[p].token
        /\ client'[p].enabled => client[p].enabled \/ m = Enable(TRUE)
    <3>1. CASE client'[p] = client[p]
      BY <3>1
    <3>2. CASE client'[p] = ReceivedBy(client[p], m)
      <4>1. CASE m.type = "enable"
        <5>1. m \in [type: {"enable"}, on: BOOLEAN]
          BY <1>2, <4>1 DEF ToClient
        <5>2. m.on => m = Enable(TRUE)
          BY <5>1 DEF Enable
        <5>3. client'[p] = [client[p] EXCEPT !.enabled = m.on, !.midPacket = FALSE]
          BY <3>2, <4>1 DEF ReceivedBy
        <5> QED
          BY <1>1, <5>2, <5>3 DEF ClientState
      <4>2. CASE m.type = "goodbye"
        BY <1>1, <3>2, <4>2 DEF ReceivedBy, ClientState
      <4>3. CASE m.type = "restrictions"
        BY <1>1, <3>2, <4>3 DEF ReceivedBy, ClientState
      <4>4. CASE m.type = "hello"
        BY <1>6, <4>4 DEF ReceiveOf
      <4>5. CASE m.type \notin {"enable", "goodbye", "restrictions", "hello"}
        BY <3>2, <4>5 DEF ReceivedBy
      <4> QED
        BY <4>1, <4>2, <4>3, <4>4, <4>5
    <3> QED
      BY <3>1, <3>2 DEF ReceiveOf
  <2>3. OfferTraced(p)'
    BY <1>1, <1>4, <1>5, <2>1, <2>2 DEF OfferTraced
  <2>4. SessionTraced(p)'
    BY <1>1, <1>2, <1>3, <1>4, <2>1, <2>2 DEF SessionTraced
  <2> QED
    BY <2>3, <2>4
<1>7. CASE kind[p] # "vanilla" /\ m.type = "hello"
  <2>1. ~st[p].active
    BY <1>2, <1>7 DEF SessionTraced, NoHello
  <2>2. m \in [type: {"hello"}, token: Tokens]
    BY <1>2, <1>7 DEF ToClient
  <2>3. m = Hello(m.token)
    BY <2>2 DEF Hello
  <2>4. client'[p].token = m.token
    BY <1>1, <1>7 DEF ReceiveOf, ReceivedBy, ClientState
  <2>5. /\ c2s'[p] = Append(c2s[p], Echo(m.token, kind[p]))
        /\ Echo(m.token, kind[p]) \in ToServer
        /\ Echo(m.token, kind[p]).token = m.token
    <3>1. kind[p] \in ClientKinds
      BY SessionAssumption DEF TypedOf
    <3> QED
      BY <1>2, <1>7, <3>1, EchoTyped DEF ReceiveOf, Echo
  <2>6. CASE t # None
    <3>1. \A i \in DOMAIN c2s[p] : ~(c2s[p][i].type = "hello" /\ c2s[p][i].token = t)
      BY <1>2, <1>7, <2>6 DEF OfferTraced, NoHello
    <3>2. ASSUME NEW i \in DOMAIN c2s'[p],
                 c2s'[p][i].type = "hello", c2s'[p][i].token = t
          PROVE  i = Len(c2s[p]) + 1 /\ m.token = t
      <4>1. i \in DOMAIN c2s[p] => c2s'[p][i] = c2s[p][i]
        BY <1>1, <2>5
      <4>2. i \notin DOMAIN c2s[p] =>
              i = Len(c2s[p]) + 1 /\ c2s'[p][i] = Echo(m.token, kind[p])
        BY <1>1, <2>5
      <4> QED
        BY <2>5, <3>1, <3>2, <4>1, <4>2
    <3>3. m.token = t => NoHello(s2c'[p])
      <4> SUFFICES ASSUME m.token = t, NEW i \in DOMAIN s2c'[p]
                   PROVE  s2c'[p][i].type # "hello"
        BY DEF NoHello
      <4>1. s2c[p][1] = Hello(t)
        BY <1>2, <2>3
      <4> QED
        BY <1>2, <1>3, <2>6, <4>1 DEF OfferTraced
    <3>4. OnlyFramesBehind(c2s'[p], Len(c2s[p]) + 1, t)
      <4>1. \A j \in DOMAIN c2s'[p] : ~(j > Len(c2s[p]) + 1)
        BY <1>1, <2>5
      <4> QED
        BY <4>1 DEF OnlyFramesBehind
    <3> QED
      BY <1>1, <1>5, <2>1, <2>4, <3>2, <3>3, <3>4 DEF OfferTraced, SessionTraced
  <2> QED
    BY <1>1, <2>1, <2>6 DEF OfferTraced, SessionTraced
<1> QED
  BY <1>6, <1>7

\* An enabled client sends under the token it took last.
LEMMA SendStep ==
  ASSUME NEW p \in Players, TypedOf(p), OfferTraced(p), SessionTraced(p), SendOf(p)
  PROVE  OfferTraced(p)' /\ SessionTraced(p)'
<1> DEFINE t == st[p].pending
<1>1. PICK f, l \in BOOLEAN :
        /\ client'[p] = [client[p] EXCEPT !.midPacket = ~l]
        /\ c2s'[p] = Append(c2s[p], Frame(client[p].token, f, l))
  BY DEF SendOf
<1>2. /\ s2c'[p] = s2c[p] /\ st'[p] = st[p] /\ session'[p] = session[p]
      /\ c2s[p] \in Seq(ToServer) /\ client[p] \in ClientState /\ client[p].enabled
  BY DEF SendOf, TypedOf, Settings
<1>3. client'[p].token = client[p].token /\ client'[p].enabled = client[p].enabled
  BY <1>1, <1>2 DEF ClientState
<1> DEFINE new == Frame(client[p].token, f, l)
<1>4. new.type = "frame" /\ new.token = client[p].token
  BY DEF Frame
<1>5. \A i \in DOMAIN c2s'[p] : \/ i \in DOMAIN c2s[p] /\ c2s'[p][i] = c2s[p][i]
                               \/ c2s'[p][i] = new
  BY <1>1, <1>2
<1> HIDE DEF new
<1>6. ASSUME NEW i, OnlyFramesBehind(c2s[p], i, client[p].token)
      PROVE  OnlyFramesBehind(c2s'[p], i, client[p].token)
  BY <1>4, <1>5, <1>6 DEF OnlyFramesBehind
<1>7. ASSUME t # None, NEW i \in DOMAIN c2s'[p],
             c2s'[p][i].type = "hello", c2s'[p][i].token = t
      PROVE  /\ NoHello(s2c[p])
             /\ client[p].token = t
             /\ OnlyFramesBehind(c2s'[p], i, t)
  <2>1. i \in DOMAIN c2s[p] /\ c2s'[p][i] = c2s[p][i]
    BY <1>4, <1>5, <1>7
  <2>2. NoHello(s2c[p]) /\ client[p].token = t /\ OnlyFramesBehind(c2s[p], i, t)
    BY <1>7, <2>1, Zenon DEF OfferTraced
  <2> QED
    BY <1>6, <2>2
<1>8. OfferTraced(p)'
  BY <1>2, <1>3, <1>7 DEF OfferTraced
<1>9. SessionTraced(p)'
  BY <1>2, <1>3, <1>6 DEF SessionTraced
<1> QED
  BY <1>8, <1>9

Traced == \A p \in Players : OfferTraced(p) /\ SessionTraced(p)

LEMMA TracedNext ==
  ASSUME TypeOK, Traced, [Next]_vars
  PROVE  Traced'
<1> SUFFICES ASSUME NEW p \in Players PROVE OfferTraced(p)' /\ SessionTraced(p)'
  BY DEF Traced
<1>1. TypedOf(p) /\ OfferTraced(p) /\ SessionTraced(p)
  BY TypedOfAll DEF Traced
<1>2. StepOf(p)
  BY NextStepOf
<1>3. CASE OfferOf(p)
  BY <1>1, <1>3, OfferStep
<1>4. CASE ActivateOf(p)
  BY <1>1, <1>4, ActivateStep
<1>5. CASE DropOf(p)
  BY <1>1, <1>5, DropStep
<1>6. CASE ReceiveOf(p)
  BY <1>1, <1>6, ReceiveStep
<1>7. CASE SendOf(p)
  BY <1>1, <1>7, SendStep
<1>8. CASE \/ IdleOf(p) \/ RenewOf(p) \/ CloseOf(p) \/ TellOf(p) \/ WaitOf(p)
           \/ SweepOf(p) \/ TopUpOf(p) \/ GoodbyeOf(p) \/ RefuseOf(p) \/ FrameOf(p)
           \/ GrantOf(p) \/ JoinOf(p)
  BY <1>1, <1>8, QuietTraced
<1> QED
  BY <1>2, <1>3, <1>4, <1>5, <1>6, <1>7, <1>8, Zenon
     DEF StepOf, SlowOf, PayloadOf, HostOf

LEMMA TracedAlways == Spec => []Traced
<1>1. Init => Traced
  BY DEF Init, Traced, OfferTraced, SessionTraced, Default
<1>2. TypeOK /\ Traced /\ [Next]_vars => Traced'
  BY TracedNext
<1> QED
  BY <1>1, <1>2, TypeCorrect, PTL DEF Spec

\* While a player is active every frame the server has yet to handle, and the half
\* packet it holds, were sent under the token of that very session: a frame that
\* was on its way when a session closed is dropped before the next one opens
\* (`on_payload`, `activate`).
THEOREM FramesAreOfTheirSession == Spec => []FramesOfThisSession
<1>1. ASSUME TypeOK, Traced PROVE FramesOfThisSession
  <2> SUFFICES ASSUME NEW p \in Players, st[p].active
               PROVE  /\ st[p].partial \in {None, session[p]}
                      /\ \A i \in DOMAIN c2s[p] :
                           c2s[p][i].type = "frame" => c2s[p][i].token = session[p]
    BY DEF FramesOfThisSession
  <2>1. OnlyFramesBehind(c2s[p], 0, session[p]) /\ st[p].partial \in {None, session[p]}
    BY <1>1 DEF Traced, SessionTraced
  <2>2. \A i \in DOMAIN c2s[p] : i > 0
    BY <1>1 DEF TypeOK
  <2> QED
    BY <2>1, <2>2 DEF OnlyFramesBehind
<1> QED
  BY <1>1, TracedAlways, TypeCorrect, PTL

(***************************************************************************)
(* What the client will believe.  EndsWith looks through a queue for the   *)
(* last message of a kind; it changes when such a message is appended, and *)
(* not when the client takes one and keeps what it says.                   *)
(***************************************************************************)

LEMMA KindsOfConcat ==
  ASSUME NEW q \in Seq(ToClient), NEW r \in Seq(ToClient), NEW types
  PROVE  /\ NoneOfKind(q \o r, types) <=> NoneOfKind(q, types) /\ NoneOfKind(r, types)
         /\ \A i \in DOMAIN q :
              /\ i \in DOMAIN (q \o r) /\ (q \o r)[i] = q[i]
              /\ LastOfKind(q \o r, i, types) <=>
                   LastOfKind(q, i, types) /\ NoneOfKind(r, types)
         /\ \A i \in DOMAIN r :
              /\ Len(q) + i \in DOMAIN (q \o r) /\ (q \o r)[Len(q) + i] = r[i]
              /\ LastOfKind(q \o r, Len(q) + i, types) <=> LastOfKind(r, i, types)
         /\ \A i \in DOMAIN (q \o r) :
              i \in DOMAIN q \/ \E k \in DOMAIN r : i = Len(q) + k
<1> DEFINE w == q \o r
<1>1. \A i \in DOMAIN q : i \in DOMAIN w /\ w[i] = q[i] /\ i \in Nat /\ i <= Len(q)
  OBVIOUS
<1>2. \A i \in DOMAIN r : Len(q) + i \in DOMAIN w /\ w[Len(q) + i] = r[i]
                        /\ i \in Nat /\ Len(q) \in Nat /\ i > 0
  OBVIOUS
<1>3. \A i \in DOMAIN w : i \in DOMAIN q \/ \E k \in DOMAIN r : i = Len(q) + k
  <2> TAKE i \in DOMAIN w
  <2>1. i \notin DOMAIN q => i - Len(q) \in DOMAIN r /\ i = Len(q) + (i - Len(q))
    OBVIOUS
  <2> QED
    BY <2>1
<1> HIDE DEF w
<1>4. NoneOfKind(w, types) <=> NoneOfKind(q, types) /\ NoneOfKind(r, types)
  BY <1>1, <1>2, <1>3 DEF NoneOfKind
<1>5. ASSUME NEW i \in DOMAIN q
      PROVE  LastOfKind(w, i, types) <=> LastOfKind(q, i, types) /\ NoneOfKind(r, types)
  <2>1. \A k \in DOMAIN r : Len(q) + k > i
    BY <1>1, <1>2
  <2>2. LastOfKind(w, i, types) => LastOfKind(q, i, types) /\ NoneOfKind(r, types)
    BY <1>1, <1>2, <2>1 DEF LastOfKind, NoneOfKind
  <2>3. LastOfKind(q, i, types) /\ NoneOfKind(r, types) => LastOfKind(w, i, types)
    BY <1>1, <1>2, <1>3 DEF LastOfKind, NoneOfKind
  <2> QED
    BY <2>2, <2>3
<1>6. ASSUME NEW i \in DOMAIN r
      PROVE  LastOfKind(w, Len(q) + i, types) <=> LastOfKind(r, i, types)
  <2>1. \A k \in DOMAIN r : Len(q) + k > Len(q) + i <=> k > i
    BY <1>2
  <2>2. \A k \in DOMAIN q : ~(k > Len(q) + i)
    BY <1>1, <1>2
  <2>3. LastOfKind(w, Len(q) + i, types) => LastOfKind(r, i, types)
    BY <1>2, <2>1 DEF LastOfKind
  <2>4. LastOfKind(r, i, types) => LastOfKind(w, Len(q) + i, types)
    BY <1>2, <1>3, <2>1, <2>2 DEF LastOfKind
  <2> QED
    BY <2>3, <2>4
<1> QED
  BY <1>1, <1>2, <1>3, <1>4, <1>5, <1>6 DEF w

\* Messages of other kinds change nothing.
LEMMA EndsQuiet ==
  ASSUME NEW q \in Seq(ToClient), NEW r \in Seq(ToClient), NEW types, NEW m,
         NEW was \in BOOLEAN, NoneOfKind(r, types)
  PROVE  EndsWith(q \o r, types, m, was) <=> EndsWith(q, types, m, was)
<1> DEFINE w == q \o r
<1>1. \A i \in DOMAIN r : ~LastOfKind(r, i, types)
  BY DEF NoneOfKind, LastOfKind
<1>2. /\ NoneOfKind(w, types) <=> NoneOfKind(q, types)
      /\ \A i \in DOMAIN q :
           /\ i \in DOMAIN w /\ w[i] = q[i]
           /\ LastOfKind(w, i, types) <=> LastOfKind(q, i, types)
      /\ \A i \in DOMAIN r : LastOfKind(w, Len(q) + i, types) <=> LastOfKind(r, i, types)
      /\ \A i \in DOMAIN w : i \in DOMAIN q \/ \E k \in DOMAIN r : i = Len(q) + k
  BY KindsOfConcat
<1> HIDE DEF w
<1>3. \A i \in DOMAIN w : LastOfKind(w, i, types) => i \in DOMAIN q
  BY <1>1, <1>2, Zenon
<1>4. (\E i \in DOMAIN w : LastOfKind(w, i, types) /\ w[i] = m)
        <=> (\E i \in DOMAIN q : LastOfKind(q, i, types) /\ q[i] = m)
  BY <1>2, <1>3, Zenon
<1>5. EndsWith(w, types, m, was) <=> EndsWith(q, types, m, was)
  BY <1>2, <1>4 DEF EndsWith
<1> QED
  BY <1>5 DEF w

\* After a message of the kind, only that one counts.
LEMMA EndsSaid ==
  ASSUME NEW q \in Seq(ToClient), NEW r \in Seq(ToClient), NEW types, NEW m,
         NEW was \in BOOLEAN, NEW k \in DOMAIN r, LastOfKind(r, k, types)
  PROVE  EndsWith(q \o r, types, m, was) <=> r[k] = m
<1> DEFINE w == q \o r
<1>1. ~NoneOfKind(r, types)
  BY DEF NoneOfKind, LastOfKind
<1>2. \A i \in DOMAIN r : LastOfKind(r, i, types) => i = k
  <2>1. \A i \in DOMAIN r : i > k \/ i = k \/ k > i
    OBVIOUS
  <2> QED
    BY <2>1 DEF LastOfKind
<1>3. /\ NoneOfKind(w, types) <=> NoneOfKind(q, types) /\ NoneOfKind(r, types)
      /\ \A i \in DOMAIN q : LastOfKind(w, i, types) <=>
                               LastOfKind(q, i, types) /\ NoneOfKind(r, types)
      /\ \A i \in DOMAIN r :
           /\ Len(q) + i \in DOMAIN w /\ w[Len(q) + i] = r[i]
           /\ LastOfKind(w, Len(q) + i, types) <=> LastOfKind(r, i, types)
      /\ \A i \in DOMAIN w : i \in DOMAIN q \/ \E j \in DOMAIN r : i = Len(q) + j
  BY KindsOfConcat, Zenon
<1> HIDE DEF w
<1>4. \A i \in DOMAIN w : LastOfKind(w, i, types) => i = Len(q) + k
  BY <1>1, <1>2, <1>3, Zenon
<1>5. EndsWith(w, types, m, was) <=> r[k] = m
  BY <1>1, <1>3, <1>4 DEF EndsWith
<1> QED
  BY <1>5 DEF w

\* The client takes the head of the queue; if it is of the kind, `now` says whether
\* it was m.
LEMMA EndsTaken ==
  ASSUME NEW q \in Seq(ToClient), q # <<>>, NEW types, NEW m,
         NEW was \in BOOLEAN, NEW now \in BOOLEAN,
         Head(q).type \in types => (now <=> Head(q) = m),
         Head(q).type \notin types => (now <=> was)
  PROVE  EndsWith(Tail(q), types, m, now) <=> EndsWith(q, types, m, was)
<1> DEFINE r == Tail(q)
<1>1. 1 \in DOMAIN q /\ Head(q) = q[1]
  OBVIOUS
<1>2. \A i \in DOMAIN r : i + 1 \in DOMAIN q /\ r[i] = q[i + 1] /\ i \in Nat /\ i > 0
  OBVIOUS
<1>3. \A i \in DOMAIN q : i = 1 \/ \E k \in DOMAIN r : i = k + 1
  <2> TAKE i \in DOMAIN q
  <2>1. i # 1 => i - 1 \in DOMAIN r /\ i = (i - 1) + 1
    OBVIOUS
  <2> QED
    BY <2>1
<1>4. LastOfKind(q, 1, types) <=> q[1].type \in types /\ NoneOfKind(r, types)
  <2>1. \A k \in DOMAIN r : k + 1 > 1
    BY <1>2
  <2> HIDE DEF r
  <2>2. LastOfKind(q, 1, types) => q[1].type \in types /\ NoneOfKind(r, types)
    BY <1>2, <2>1 DEF LastOfKind, NoneOfKind
  <2>3. q[1].type \in types /\ NoneOfKind(r, types) => LastOfKind(q, 1, types)
    BY <1>2, <1>3 DEF LastOfKind, NoneOfKind
  <2> QED
    BY <2>2, <2>3
<1>5. NoneOfKind(q, types) <=> q[1].type \notin types /\ NoneOfKind(r, types)
  BY <1>1, <1>2, <1>3 DEF NoneOfKind
<1>6. ASSUME NEW i \in DOMAIN r
      PROVE  LastOfKind(r, i, types) <=> LastOfKind(q, i + 1, types)
  <2>1. \A k \in DOMAIN r : k + 1 > i + 1 <=> k > i
    BY <1>2
  <2>2. ~(1 > i + 1)
    BY <1>2
  <2> HIDE DEF r
  <2>3. LastOfKind(r, i, types) => LastOfKind(q, i + 1, types)
    BY <1>2, <1>3, <2>1, <2>2 DEF LastOfKind
  <2>4. LastOfKind(q, i + 1, types) => LastOfKind(r, i, types)
    BY <1>2, <2>1 DEF LastOfKind
  <2> QED
    BY <2>3, <2>4
<1> HIDE DEF r
<1>7. EndsWith(q, types, m, was) => EndsWith(r, types, m, now)
  BY <1>1, <1>2, <1>3, <1>4, <1>5, <1>6 DEF EndsWith
<1>8. EndsWith(r, types, m, now) => EndsWith(q, types, m, was)
  BY <1>1, <1>2, <1>4, <1>5, <1>6 DEF EndsWith
<1> QED
  BY <1>7, <1>8 DEF r

\* The kinds of one message, and of two.
LEMMA ShortKinds ==
  ASSUME NEW x, NEW y, NEW types
  PROVE  /\ NoneOfKind(<<>>, types)
         /\ x.type \notin types => NoneOfKind(<<x>>, types)
         /\ x.type \in types => 1 \in DOMAIN <<x>> /\ LastOfKind(<<x>>, 1, types)
         /\ x.type \notin types /\ y.type \notin types => NoneOfKind(<<x, y>>, types)
         /\ x.type \in types /\ y.type \notin types =>
              1 \in DOMAIN <<x, y>> /\ LastOfKind(<<x, y>>, 1, types)
         /\ y.type \in types =>
              2 \in DOMAIN <<x, y>> /\ LastOfKind(<<x, y>>, 2, types)
<1>1. NoneOfKind(<<>>, types)
  BY ShortDomains DEF NoneOfKind
<1>2. ASSUME NEW q, DOMAIN q = {1}
      PROVE  /\ q[1].type \notin types => NoneOfKind(q, types)
             /\ q[1].type \in types => LastOfKind(q, 1, types)
  <2>1. ~(1 > 1)
    OBVIOUS
  <2> QED
    BY <1>2, <2>1, Zenon DEF NoneOfKind, LastOfKind
<1>3. ASSUME NEW q, DOMAIN q = {1, 2}
      PROVE  /\ q[1].type \notin types /\ q[2].type \notin types => NoneOfKind(q, types)
             /\ q[1].type \in types /\ q[2].type \notin types => LastOfKind(q, 1, types)
             /\ q[2].type \in types => LastOfKind(q, 2, types)
  <2>1. ~(1 > 1) /\ ~(1 > 2) /\ ~(2 > 2)
    OBVIOUS
  <2> QED
    BY <1>3, <2>1, Zenon DEF NoneOfKind, LastOfKind
<1>4. /\ x.type \notin types => NoneOfKind(<<x>>, types)
      /\ x.type \in types => 1 \in DOMAIN <<x>> /\ LastOfKind(<<x>>, 1, types)
  BY <1>2, ShortDomains
<1>5. /\ x.type \notin types /\ y.type \notin types => NoneOfKind(<<x, y>>, types)
      /\ x.type \in types /\ y.type \notin types =>
           1 \in DOMAIN <<x, y>> /\ LastOfKind(<<x, y>>, 1, types)
      /\ y.type \in types =>
           2 \in DOMAIN <<x, y>> /\ LastOfKind(<<x, y>>, 2, types)
  BY <1>3, ShortDomains
<1> QED
  BY <1>1, <1>4, <1>5

\* What a message list says last of each of the two kinds, when it is one the plugin
\* sends in one go.
LEMMA SaidKinds ==
  ASSUME NEW g, NEW r
  PROVE  /\ \A types \in {Verdicts, {"restrictions"}} :
              /\ NoneOfKind(<<>>, types)
              /\ NoneOfKind(<<Sends>>, types)
              /\ NoneOfKind(<<Hello(g)>>, types)
         /\ NoneOfKind(<<RestrictTo(g)>>, Verdicts)
         /\ NoneOfKind(<<Sends, RestrictTo(g)>>, Verdicts)
         /\ 1 \in DOMAIN <<RestrictTo(g)>>
         /\ LastOfKind(<<RestrictTo(g)>>, 1, {"restrictions"})
         /\ 2 \in DOMAIN <<Sends, RestrictTo(g)>>
         /\ LastOfKind(<<Sends, RestrictTo(g)>>, 2, {"restrictions"})
         /\ 1 \in DOMAIN <<Enable(FALSE)>>
         /\ LastOfKind(<<Enable(FALSE)>>, 1, Verdicts)
         /\ 1 \in DOMAIN <<Goodbye(r)>>
         /\ LastOfKind(<<Goodbye(r)>>, 1, Verdicts)
         /\ 1 \in DOMAIN <<Goodbye(r), Kick>>
         /\ LastOfKind(<<Goodbye(r), Kick>>, 1, Verdicts)
         /\ 1 \in DOMAIN <<Enable(TRUE), RestrictTo(g)>>
         /\ LastOfKind(<<Enable(TRUE), RestrictTo(g)>>, 1, Verdicts)
         /\ 2 \in DOMAIN <<Enable(TRUE), RestrictTo(g)>>
         /\ LastOfKind(<<Enable(TRUE), RestrictTo(g)>>, 2, {"restrictions"})
<1>1. /\ Sends.type = "sends" /\ Kick.type = "kick" /\ Hello(g).type = "hello"
      /\ RestrictTo(g).type = "restrictions" /\ Goodbye(r).type = "goodbye"
      /\ Enable(FALSE).type = "enable" /\ Enable(TRUE).type = "enable"
  BY DEF Sends, Kick, Hello, RestrictTo, Goodbye, Enable
<1>2. /\ {"enable", "goodbye"} \subseteq Verdicts
      /\ {"sends", "kick", "hello", "restrictions"} \cap Verdicts = {}
      /\ {"sends", "kick", "hello", "enable", "goodbye"} \cap {"restrictions"} = {}
      /\ "restrictions" \in {"restrictions"}
  BY DEF Verdicts
<1>3. \A types \in {Verdicts, {"restrictions"}} :
        /\ NoneOfKind(<<>>, types)
        /\ NoneOfKind(<<Sends>>, types)
        /\ NoneOfKind(<<Hello(g)>>, types)
  BY <1>1, <1>2, ShortKinds
<1>4. /\ NoneOfKind(<<RestrictTo(g)>>, Verdicts)
      /\ NoneOfKind(<<Sends, RestrictTo(g)>>, Verdicts)
  BY <1>1, <1>2, ShortKinds
<1>5. /\ 1 \in DOMAIN <<RestrictTo(g)>>
      /\ LastOfKind(<<RestrictTo(g)>>, 1, {"restrictions"})
      /\ 2 \in DOMAIN <<Sends, RestrictTo(g)>>
      /\ LastOfKind(<<Sends, RestrictTo(g)>>, 2, {"restrictions"})
  BY <1>1, ShortKinds
<1>6. /\ 1 \in DOMAIN <<Enable(FALSE)>>
      /\ LastOfKind(<<Enable(FALSE)>>, 1, Verdicts)
      /\ 1 \in DOMAIN <<Goodbye(r)>>
      /\ LastOfKind(<<Goodbye(r)>>, 1, Verdicts)
      /\ 1 \in DOMAIN <<Goodbye(r), Kick>>
      /\ LastOfKind(<<Goodbye(r), Kick>>, 1, Verdicts)
  BY <1>1, <1>2, ShortKinds
<1>7. /\ 1 \in DOMAIN <<Enable(TRUE), RestrictTo(g)>>
      /\ LastOfKind(<<Enable(TRUE), RestrictTo(g)>>, 1, Verdicts)
      /\ 2 \in DOMAIN <<Enable(TRUE), RestrictTo(g)>>
      /\ LastOfKind(<<Enable(TRUE), RestrictTo(g)>>, 2, {"restrictions"})
  BY <1>1, <1>2, ShortKinds
<1> QED
  BY <1>3, <1>4, <1>5, <1>6, <1>7

\* A connection that is gone left nothing behind but the entry of its player.
Gone(p) == p \notin online =>
  client[p] = NewClient /\ ~inherited[p] /\ s2c[p] = <<>> /\ heard[p] = {}

LEMMA GoneStep ==
  ASSUME NEW p \in Players, TypedOf(p), EchoesOf(p), Gone(p), StepOf(p)
  PROVE  Gone(p)'
<1> SUFFICES ASSUME p \notin online'
             PROVE  client'[p] = NewClient /\ ~inherited'[p] /\ s2c'[p] = <<>> /\ heard'[p] = {}
  BY DEF Gone
<1>1. CASE DropOf(p)
  BY <1>1 DEF DropOf
<1>2. CASE p \in online /\ ~DropOf(p)
  BY <1>2, Zenon DEF StepOf, SlowOf, PayloadOf, HostOf, IdleOf, RenewOf, CloseOf, OfferOf,
     TellOf, WaitOf, SlowStep, SweepOf, TopUpOf, GoodbyeOf, RefuseOf, ActivateOf, FrameOf,
     PayloadStep, GrantOf, JoinOf, ReceiveOf, SendOf, ClientIdle
<1>3. CASE p \notin online /\ ~DropOf(p)
  <2>1. IdleOf(p) \/ SweepOf(p) \/ GrantOf(p)
    BY <1>3, Zenon DEF StepOf, SlowOf, PayloadOf, HostOf, RenewOf, CloseOf, OfferOf,
       TellOf, WaitOf, SlowStep, TopUpOf, GoodbyeOf, RefuseOf, ActivateOf, FrameOf,
       PayloadStep, JoinOf, ReceiveOf, SendOf
  <2> QED
    BY <1>3, <2>1, Zenon DEF IdleOf, SweepOf, GrantOf, ClientIdle, Gone
<1> QED
  BY <1>1, <1>2, <1>3

(***************************************************************************)
(* On or off.  The server takes a session as open exactly as long as the   *)
(* last verdict it sent was Enable(TRUE).  A refusal can only go out while *)
(* no session is open, because then the queue holds nothing but frames     *)
(* (SessionTraced).                                                        *)
(***************************************************************************)

Answering == {"axiom", "outdated", "untranslated"}

Agreed(p) == p \in online /\ kind[p] \in Answering =>
  /\ WillBeEnabled(p) => st[p].active
  /\ ~inherited[p] /\ st[p].active => WillBeEnabled(p)

\* Messages that are no verdict, and a verdict as the only or the first message.
LEMMA VerdictsSent ==
  ASSUME NEW p \in Players, TypedOf(p), kind[p] # "bedrock", client'[p] = client[p],
         NEW msgs \in Seq(ToClient), s2c'[p] = Sent(p, msgs)
  PROVE  /\ NoneOfKind(msgs, Verdicts) => (WillBeEnabled(p)' <=> WillBeEnabled(p))
         /\ \A k \in DOMAIN msgs : LastOfKind(msgs, k, Verdicts) =>
              (WillBeEnabled(p)' <=> msgs[k] = Enable(TRUE))
<1>1. /\ s2c[p] \in Seq(ToClient) /\ client[p].enabled \in BOOLEAN
      /\ s2c'[p] = s2c[p] \o msgs
  BY DEF TypedOf, ClientState, Sent
<1>2. /\ WillBeEnabled(p) = EndsWith(s2c[p], Verdicts, Enable(TRUE), client[p].enabled)
      /\ WillBeEnabled(p)' =
           EndsWith(s2c[p] \o msgs, Verdicts, Enable(TRUE), client[p].enabled)
  BY <1>1 DEF WillBeEnabled
<1>3. NoneOfKind(msgs, Verdicts) => (WillBeEnabled(p)' <=> WillBeEnabled(p))
  BY <1>1, <1>2, EndsQuiet, Zenon
<1>4. ASSUME NEW k \in DOMAIN msgs, LastOfKind(msgs, k, Verdicts)
      PROVE  WillBeEnabled(p)' <=> msgs[k] = Enable(TRUE)
  <2> DEFINE was == client[p].enabled
  <2> DEFINE m == Enable(TRUE)
  <2>1. was \in BOOLEAN
    BY <1>1
  <2> HIDE DEF was, m
  <2>2. EndsWith(s2c[p] \o msgs, Verdicts, m, was) <=> msgs[k] = m
    BY <1>1, <1>4, <2>1, EndsSaid
  <2> QED
    BY <1>2, <2>2, Zenon DEF was, m
<1> QED
  BY <1>3, <1>4

\* The client takes a message: what it will believe stays the same.
LEMMA VerdictsTaken ==
  ASSUME NEW p \in Players, TypedOf(p), ReceiveOf(p), kind[p] # "vanilla"
  PROVE  WillBeEnabled(p)' <=> WillBeEnabled(p)
<1> DEFINE m == Head(s2c[p])
<1>1. /\ s2c[p] \in Seq(ToClient) /\ s2c[p] # <<>> /\ s2c'[p] = Tail(s2c[p])
      /\ client[p] \in ClientState /\ client'[p] = ReceivedBy(client[p], m)
      /\ m \in ToClient
  BY DEF ReceiveOf, TypedOf
<1>2. client[p].enabled \in BOOLEAN /\ client'[p].enabled \in BOOLEAN
  BY <1>1, ClientTyped DEF ClientState
<1>3. /\ m.type \in Verdicts => (client'[p].enabled <=> m = Enable(TRUE))
      /\ m.type \notin Verdicts => (client'[p].enabled <=> client[p].enabled)
  <2>1. CASE m.type = "enable"
    <3>1. m \in [type: {"enable"}, on: BOOLEAN]
      BY <1>1, <2>1 DEF ToClient
    <3>2. m.on => m = Enable(TRUE)
      BY <3>1 DEF Enable
    <3>3. client'[p] = [client[p] EXCEPT !.enabled = m.on, !.midPacket = FALSE]
      BY <1>1, <2>1 DEF ReceivedBy
    <3>4. client'[p].enabled = m.on
      BY <1>1, <3>3 DEF ClientState
    <3>5. m = Enable(TRUE) => m.on
      BY MessageTypes, Zenon
    <3>6. m.type \in Verdicts
      BY <2>1 DEF Verdicts
    <3> QED
      BY <3>2, <3>4, <3>5, <3>6, Zenon
  <2>2. CASE m.type = "goodbye"
    <3>1. m # Enable(TRUE)
      BY <2>2, MessageTypes
    <3>2. client'[p] = [client[p] EXCEPT !.enabled = FALSE, !.midPacket = FALSE]
      BY <1>1, <2>2 DEF ReceivedBy
    <3> QED
      BY <1>1, <2>2, <3>1, <3>2 DEF ClientState, Verdicts
  <2>3. CASE m.type \notin Verdicts
    <3>1. client'[p] \in {client[p], [client[p] EXCEPT !.token = m.token],
                          [client[p] EXCEPT !.restrictions = m.grant]}
      BY <1>1, <2>3 DEF ReceivedBy, Verdicts
    <3> QED
      BY <1>1, <2>3, <3>1 DEF ClientState
  <2> QED
    BY <2>1, <2>2, <2>3 DEF Verdicts
<1>4. /\ WillBeEnabled(p) = EndsWith(s2c[p], Verdicts, Enable(TRUE), client[p].enabled)
      /\ WillBeEnabled(p)' =
           EndsWith(Tail(s2c[p]), Verdicts, Enable(TRUE), client'[p].enabled)
  BY <1>1 DEF WillBeEnabled
<1> QED
  BY <1>1, <1>2, <1>3, <1>4, EndsTaken, Zenon

\* The queue is as it was, and so is what the client takes for enabled.
LEMMA VerdictsIdle ==
  ASSUME NEW p \in Players, s2c'[p] = s2c[p], client'[p].enabled = client[p].enabled
  PROVE  WillBeEnabled(p)' <=> WillBeEnabled(p)
BY DEF WillBeEnabled

\* The entry in a step that neither opens nor closes a session.
LEMMA EntriesStay ==
  ASSUME NEW p \in Players, TypedOf(p),
         \/ IdleOf(p) \/ RenewOf(p) \/ OfferOf(p) \/ TellOf(p) \/ WaitOf(p)
         \/ TopUpOf(p) \/ GoodbyeOf(p) \/ RefuseOf(p) \/ FrameOf(p)
         \/ GrantOf(p) \/ ReceiveOf(p) \/ SendOf(p)
  PROVE  /\ st'[p].active = st[p].active
         /\ p \in online' <=> p \in online
         /\ kind'[p] = kind[p]
         /\ st'[p].active \/ st'[p] # Default => inherited'[p] = inherited[p]
<1> DEFINE s == st[p]
<1>1. s \in PlayerState
  BY DEF TypedOf
<1>2. /\ TopUp(s).active = s.active
      /\ \A t : Offered(s, t).active = s.active
      /\ OfferUsed(s).active = s.active
      /\ ToldDisabled(s).active = s.active
      /\ \A g : UpdateRestrictions(TopUp(s), g).active = s.active
      /\ ~Default.active
  BY <1>1 DEF Default, Offered, TopUp, OfferUsed, ToldDisabled, UpdateRestrictions, PlayerState
<1>3. \A m : \A d \in Dispatched(s, m) : d.active = s.active
  BY <1>1, PushedPartial
<1>4. st'[p].active = s.active
  <2>1. CASE FrameOf(p)
    <3>1. st'[p] \in IF s.active THEN Dispatched(s, Head(c2s[p])) ELSE {s}
      BY <2>1 DEF FrameOf
    <3> QED
      BY <1>3, <3>1
  <2>2. CASE ~FrameOf(p)
    <3>1. \/ st'[p] \in {s, TopUp(s), OfferUsed(s), ToldDisabled(s)}
          \/ \E t : st'[p] = Offered(s, t)
          \/ \E g : st'[p] = UpdateRestrictions(TopUp(s), g)
      BY <2>2, Zenon DEF IdleOf, TopUpOf, RenewOf, OfferOf, TellOf, WaitOf,
                         SlowStep, GrantOf, GoodbyeOf, RefuseOf, ReceiveOf, SendOf
    <3> QED
      BY <1>2, <3>1, Zenon
  <2> QED
    BY <2>1, <2>2
<1>5. (p \in online' <=> p \in online) /\ kind'[p] = kind[p]
  BY Zenon DEF IdleOf, TopUpOf, RenewOf, OfferOf, TellOf, WaitOf, FrameOf, PayloadStep,
     SlowStep, GrantOf, GoodbyeOf, RefuseOf, ReceiveOf, SendOf, ClientIdle
<1>6. inherited'[p] = inherited[p] \/ inherited'[p] = (inherited[p] /\ st'[p] # Default)
  BY Zenon DEF IdleOf, TopUpOf, RenewOf, OfferOf, TellOf, WaitOf, FrameOf, PayloadStep,
     SlowStep, GrantOf, GoodbyeOf, RefuseOf, ReceiveOf, SendOf
<1>7. inherited[p] \in BOOLEAN
  BY DEF TypedOf
<1>8. st'[p].active \/ st'[p] # Default => inherited'[p] = inherited[p]
  BY <1>2, <1>6, <1>7
<1> QED
  BY <1>4, <1>5, <1>8

\* The verdicts that are sent: one that opens a session, and those that close or
\* refuse one.
LEMMA VerdictOf ==
  ASSUME NEW p \in Players, TypedOf(p), kind[p] # "bedrock"
  PROVE  /\ CloseOf(p) \/ TellOf(p) \/ GoodbyeOf(p) \/ RefuseOf(p) => ~WillBeEnabled(p)'
         /\ ActivateOf(p) => WillBeEnabled(p)'
         /\ RenewOf(p) \/ OfferOf(p) \/ WaitOf(p) \/ TopUpOf(p) =>
              (WillBeEnabled(p)' <=> WillBeEnabled(p))
<1> DEFINE Sending(msgs) ==
      client'[p] = client[p] /\ msgs \in Seq(ToClient) /\ s2c'[p] = Sent(p, msgs)
<1>1. /\ <<Enable(FALSE)>> \in Seq(ToClient) /\ <<>> \in Seq(ToClient)
      /\ <<Sends>> \in Seq(ToClient)
      /\ \A t \in Tokens : <<Hello(t)>> \in Seq(ToClient)
      /\ \A r \in Reasons : <<Goodbye(r)>> \in Seq(ToClient)
                            /\ <<Goodbye(r), Kick>> \in Seq(ToClient)
      /\ <<Enable(TRUE), RestrictTo(grant[p])>> \in Seq(ToClient)
  BY MessagesTyped, GoodbyesTyped, ShortSeq DEF TypedOf
<1>2. {"no permission", "api version", "bad token", Refusal(p)} \subseteq Reasons
  BY DEF Reasons, Refusal
<1>3. \A r : Goodbye(r) # Enable(TRUE) /\ Enable(FALSE) # Enable(TRUE)
  BY DEF Goodbye, Enable
<1>4. ASSUME CloseOf(p) \/ TellOf(p) \/ GoodbyeOf(p) \/ RefuseOf(p)
      PROVE  ~WillBeEnabled(p)'
  <2>1. \/ Sending(<<Enable(FALSE)>>)
        \/ \E r : Sending(<<Goodbye(r)>>) \/ Sending(<<Goodbye(r), Kick>>)
    BY <1>1, <1>2, <1>4, Zenon DEF CloseOf, TellOf, GoodbyeOf, RefuseOf, SlowStep, PayloadStep,
       ClientIdle
  <2>2. CASE Sending(<<Enable(FALSE)>>)
    <3>1. <<Enable(FALSE)>>[1] # Enable(TRUE)
      BY <1>3
    <3> QED
      BY <2>2, <3>1, SaidKinds, VerdictsSent, Zenon
  <2>3. ASSUME NEW r, Sending(<<Goodbye(r)>>) PROVE ~WillBeEnabled(p)'
    <3>1. <<Goodbye(r)>>[1] # Enable(TRUE)
      BY <1>3
    <3> QED
      BY <2>3, <3>1, SaidKinds, VerdictsSent, Zenon
  <2>4. ASSUME NEW r, Sending(<<Goodbye(r), Kick>>) PROVE ~WillBeEnabled(p)'
    <3>1. <<Goodbye(r), Kick>>[1] # Enable(TRUE)
      BY <1>3
    <3> QED
      BY <2>4, <3>1, SaidKinds, VerdictsSent, Zenon
  <2> QED
    BY <2>1, <2>2, <2>3, <2>4
<1>5. ASSUME ActivateOf(p) PROVE WillBeEnabled(p)'
  <2>1. Sending(<<Enable(TRUE), RestrictTo(grant[p])>>)
    BY <1>1, <1>5, Zenon DEF ActivateOf, PayloadStep
  <2>2. <<Enable(TRUE), RestrictTo(grant[p])>>[1] = Enable(TRUE)
    OBVIOUS
  <2> QED
    BY <2>1, <2>2, SaidKinds, VerdictsSent, Zenon
<1>6. ASSUME RenewOf(p) \/ OfferOf(p) \/ WaitOf(p) \/ TopUpOf(p)
      PROVE  WillBeEnabled(p)' <=> WillBeEnabled(p)
  <2>1. CASE RenewOf(p)
    <3> DEFINE msgs == TopUpMsgs(st[p]) \o UpdateRestrictionsMsgs(st[p], grant[p])
    <3>1. /\ msgs \in {<<>>, <<Sends>>, <<RestrictTo(grant[p])>>, <<Sends, RestrictTo(grant[p])>>}
          /\ msgs \in Seq(ToClient)
      BY RenewMsgs DEF TypedOf
    <3>2. NoneOfKind(msgs, Verdicts)
      BY <3>1, SaidKinds, Zenon
    <3>3. Sending(msgs)
      BY <2>1, <3>1, Zenon DEF RenewOf, SlowStep, ClientIdle
    <3> QED
      BY <3>2, <3>3, VerdictsSent, Zenon
  <2>2. CASE OfferOf(p)
    <3>1. PICK t \in Fresh(p) : Sending(<<Hello(t)>>)
      BY <1>1, <2>2, Zenon DEF OfferOf, SlowStep, ClientIdle, Fresh
    <3>2. NoneOfKind(<<Hello(t)>>, Verdicts)
      BY SaidKinds, Zenon
    <3> QED
      BY <3>1, <3>2, VerdictsSent, Zenon
  <2>3. CASE WaitOf(p) \/ TopUpOf(p)
    <3>1. Sending(<<>>) \/ Sending(<<Sends>>)
      BY <1>1, <2>3, Zenon DEF WaitOf, TopUpOf, SlowStep, ClientIdle, TopUpMsgs
    <3>2. NoneOfKind(<<>>, Verdicts) /\ NoneOfKind(<<Sends>>, Verdicts)
      BY SaidKinds, Zenon
    <3> QED
      BY <3>1, <3>2, VerdictsSent, Zenon
  <2> QED
    BY <1>6, <2>1, <2>2, <2>3
<1> QED
  BY <1>4, <1>5, <1>6

\* No echo is refused while a session lasts: there is none in the queue.
LEMMA NotRefused ==
  ASSUME NEW p \in Players, TypedOf(p), SessionTraced(p), GoodbyeOf(p) \/ RefuseOf(p)
  PROVE  ~st[p].active
<1>1. c2s[p] \in Seq(ToServer) /\ c2s[p] # <<>> /\ Head(c2s[p]).type = "hello"
  BY DEF GoodbyeOf, RefuseOf, PayloadStep, TypedOf
<1>2. 1 \in DOMAIN c2s[p] /\ 1 > 0 /\ c2s[p][1].type = "hello"
  BY <1>1
<1> QED
  BY <1>2 DEF SessionTraced, OnlyFramesBehind

LEMMA AgreedStep ==
  ASSUME NEW p \in Players, TypedOf(p), SessionTraced(p), Gone(p), Agreed(p), StepOf(p)
  PROVE  Agreed(p)'
<1> SUFFICES ASSUME p \in online', kind'[p] \in Answering
             PROVE  /\ WillBeEnabled(p)' => st'[p].active
                    /\ ~inherited'[p] /\ st'[p].active => WillBeEnabled(p)'
  BY DEF Agreed
<1> DEFINE Staying ==
      \/ IdleOf(p) \/ RenewOf(p) \/ OfferOf(p) \/ WaitOf(p) \/ TopUpOf(p)
      \/ FrameOf(p) \/ GrantOf(p) \/ ReceiveOf(p) \/ SendOf(p)
<1>1. CASE JoinOf(p)
  <2>1. /\ client'[p] = NewClient /\ s2c'[p] = <<>>
        /\ st'[p] = st[p] /\ inherited'[p] = (st[p] # Default)
    BY <1>1, Zenon DEF JoinOf, Gone
  <2>2. ~WillBeEnabled(p)'
    BY <2>1 DEF WillBeEnabled, EndsWith, NewClient
  <2>3. ~Default.active
    BY DEF Default
  <2> QED
    BY <2>1, <2>2, <2>3
<1>2. CASE DropOf(p) \/ SweepOf(p)
  BY <1>2 DEF DropOf, SweepOf, ClientIdle
<1>3. kind'[p] = kind[p] => kind[p] # "bedrock" /\ kind[p] # "vanilla"
  BY DEF Answering
<1>4. CASE CloseOf(p)
  <2>1. kind'[p] = kind[p] /\ st'[p] = Default
    BY <1>4, Zenon DEF CloseOf, SlowStep, ClientIdle
  <2>2. ~WillBeEnabled(p)'
    BY <1>3, <1>4, <2>1, VerdictOf
  <2> QED
    BY <2>1, <2>2 DEF Default
<1>5. CASE TellOf(p) \/ GoodbyeOf(p) \/ RefuseOf(p)
  <2>1. kind'[p] = kind[p] /\ st'[p].active = st[p].active
    BY <1>5, EntriesStay
  <2>2. ~WillBeEnabled(p)'
    BY <1>3, <1>5, <2>1, VerdictOf
  <2>3. ~st[p].active
    BY <1>5, NotRefused DEF TellOf
  <2> QED
    BY <2>1, <2>2, <2>3
<1>6. CASE ActivateOf(p)
  <2>1. kind'[p] = kind[p] /\ st'[p] = Activated(st[p], grant[p])
    BY <1>6, Zenon DEF ActivateOf, PayloadStep
  <2>2. st'[p].active
    BY <2>1 DEF Activated, UpdateRestrictions, TypedOf, PlayerState
  <2>3. WillBeEnabled(p)'
    BY <1>3, <1>6, <2>1, VerdictOf
  <2> QED
    BY <2>2, <2>3
<1>7. CASE Staying
  <2>1. /\ st'[p].active = st[p].active /\ p \in online /\ kind'[p] = kind[p]
        /\ st'[p].active => inherited'[p] = inherited[p]
    BY <1>7, EntriesStay
  <2>2. WillBeEnabled(p)' <=> WillBeEnabled(p)
    <3>1. CASE RenewOf(p) \/ OfferOf(p) \/ WaitOf(p) \/ TopUpOf(p)
      BY <1>3, <2>1, <3>1, VerdictOf
    <3>2. CASE IdleOf(p) \/ FrameOf(p) \/ GrantOf(p)
      <4>1. s2c'[p] = s2c[p] /\ client'[p] = client[p]
        BY <3>2, Zenon DEF IdleOf, FrameOf, GrantOf, PayloadStep, ClientIdle
      <4> QED
        BY <4>1, VerdictsIdle
    <3>3. CASE SendOf(p)
      <4>1. s2c'[p] = s2c[p] /\ client'[p].enabled = client[p].enabled
        BY <3>3 DEF SendOf, TypedOf, ClientState
      <4> QED
        BY <4>1, VerdictsIdle
    <3>4. CASE ReceiveOf(p)
      BY <1>3, <2>1, <3>4, VerdictsTaken
    <3> QED
      BY <1>7, <3>1, <3>2, <3>3, <3>4
  <2>3. Agreed(p) /\ kind[p] \in Answering
    BY <2>1
  <2> QED
    BY <2>1, <2>2, <2>3, Zenon DEF Agreed
<1> QED
  BY <1>1, <1>2, <1>4, <1>5, <1>6, <1>7, Zenon DEF StepOf, SlowOf, PayloadOf, HostOf

(***************************************************************************)
(* What the client may do.  `update_restrictions` compares with what it    *)
(* sent last and stays silent when nothing changed, so the client must     *)
(* have that, or it must be on its way.                                    *)
(***************************************************************************)

Restricted(p) == p \in online /\ st[p].active /\ ~inherited[p] /\ kind[p] = "axiom" =>
  WillBeRestrictedTo(p, st[p].restrictions)

\* Messages without restrictions among them, and restrictions as the last message.
LEMMA RestrictionsSent ==
  ASSUME NEW p \in Players, TypedOf(p), kind[p] # "bedrock", client'[p] = client[p],
         NEW msgs \in Seq(ToClient), s2c'[p] = Sent(p, msgs), NEW g
  PROVE  /\ NoneOfKind(msgs, {"restrictions"}) =>
              (EndsWith(s2c'[p], {"restrictions"}, RestrictTo(g), client'[p].restrictions = g)
               <=> WillBeRestrictedTo(p, g))
         /\ \A k \in DOMAIN msgs :
              LastOfKind(msgs, k, {"restrictions"}) /\ msgs[k] = RestrictTo(g) =>
              EndsWith(s2c'[p], {"restrictions"}, RestrictTo(g), client'[p].restrictions = g)
<1> DEFINE was == client[p].restrictions = g
<1> DEFINE m == RestrictTo(g)
<1> DEFINE types == {"restrictions"}
<1>1. /\ s2c[p] \in Seq(ToClient) /\ was \in BOOLEAN
      /\ s2c'[p] = s2c[p] \o msgs /\ (client'[p].restrictions = g) = was
  BY DEF TypedOf, Sent
<1>2. WillBeRestrictedTo(p, g) = EndsWith(s2c[p], types, m, was)
  BY DEF WillBeRestrictedTo
<1> HIDE DEF was, m, types
<1>3. NoneOfKind(msgs, types) =>
        (EndsWith(s2c[p] \o msgs, types, m, was) <=> EndsWith(s2c[p], types, m, was))
  BY <1>1, EndsQuiet
<1>4. ASSUME NEW k \in DOMAIN msgs, LastOfKind(msgs, k, types), msgs[k] = m
      PROVE  EndsWith(s2c[p] \o msgs, types, m, was)
  BY <1>1, <1>4, EndsSaid
<1>5. EndsWith(s2c'[p], types, m, client'[p].restrictions = g)
        = EndsWith(s2c[p] \o msgs, types, m, was)
  BY <1>1
<1>6. /\ NoneOfKind(msgs, types) =>
              (EndsWith(s2c'[p], types, m, client'[p].restrictions = g)
               <=> WillBeRestrictedTo(p, g))
      /\ \A k \in DOMAIN msgs :
              LastOfKind(msgs, k, types) /\ msgs[k] = m =>
              EndsWith(s2c'[p], types, m, client'[p].restrictions = g)
  BY <1>2, <1>3, <1>4, <1>5, Zenon
<1> QED
  BY <1>6 DEF m, types

LEMMA RestrictionsTaken ==
  ASSUME NEW p \in Players, TypedOf(p), ReceiveOf(p), kind[p] # "vanilla", NEW g
  PROVE  EndsWith(s2c'[p], {"restrictions"}, RestrictTo(g), client'[p].restrictions = g)
           <=> WillBeRestrictedTo(p, g)
<1> DEFINE x == Head(s2c[p])
<1> DEFINE was == client[p].restrictions = g
<1> DEFINE now == client'[p].restrictions = g
<1> DEFINE m == RestrictTo(g)
<1> DEFINE types == {"restrictions"}
<1>1. /\ s2c[p] \in Seq(ToClient) /\ s2c[p] # <<>> /\ s2c'[p] = Tail(s2c[p])
      /\ client[p] \in ClientState /\ client'[p] = ReceivedBy(client[p], x)
      /\ x \in ToClient
  BY DEF ReceiveOf, TypedOf
<1>2. x.type \in types => (now <=> x = m)
  <2> SUFFICES ASSUME x.type = "restrictions" PROVE now <=> x = m
    OBVIOUS
  <2>1. x \in [type: {"restrictions"}, grant: Grants]
    BY <1>1 DEF ToClient
  <2>2. client'[p] = [client[p] EXCEPT !.restrictions = x.grant]
    BY <1>1 DEF ReceivedBy
  <2>3. client'[p].restrictions = x.grant
    BY <1>1, <2>2 DEF ClientState
  <2>4. x.grant = g => x = m
    BY <2>1 DEF RestrictTo
  <2>5. x = m => x.grant = g
    BY DEF RestrictTo
  <2> QED
    BY <2>3, <2>4, <2>5
<1>3. x.type \notin types => (now <=> was)
  <2> SUFFICES ASSUME x.type # "restrictions"
               PROVE  client'[p].restrictions = client[p].restrictions
    OBVIOUS
  <2>1. client'[p] \in {client[p], [client[p] EXCEPT !.token = x.token],
                        [client[p] EXCEPT !.enabled = x.on, !.midPacket = FALSE],
                        [client[p] EXCEPT !.enabled = FALSE, !.midPacket = FALSE]}
    BY <1>1 DEF ReceivedBy
  <2> QED
    BY <1>1, <2>1 DEF ClientState
<1>4. WillBeRestrictedTo(p, g) = EndsWith(s2c[p], types, m, was)
  BY DEF WillBeRestrictedTo
<1>5. was \in BOOLEAN /\ now \in BOOLEAN
  OBVIOUS
<1> HIDE DEF was, now, m, types
<1>6. EndsWith(Tail(s2c[p]), types, m, now) <=> EndsWith(s2c[p], types, m, was)
  BY <1>1, <1>2, <1>3, <1>5, EndsTaken
<1>7. EndsWith(s2c'[p], types, m, now) <=> WillBeRestrictedTo(p, g)
  BY <1>1, <1>4, <1>6, Zenon
<1> QED
  BY <1>7 DEF m, types, now

\* A step of an active player that does not end or open its session.
LEMMA RestrictionsStay ==
  ASSUME NEW p \in Players, TypedOf(p), kind[p] = "axiom", st[p].active,
         \/ IdleOf(p) \/ TopUpOf(p) \/ FrameOf(p) \/ GrantOf(p) \/ ReceiveOf(p) \/ SendOf(p)
  PROVE  /\ st'[p].restrictions = st[p].restrictions
         /\ \A g : EndsWith(s2c'[p], {"restrictions"}, RestrictTo(g),
                            client'[p].restrictions = g) <=> WillBeRestrictedTo(p, g)
<1> DEFINE s == st[p]
<1>1. s \in PlayerState
  BY DEF TypedOf
<1>2. st'[p].restrictions = s.restrictions
  <2>1. CASE FrameOf(p)
    <3>1. st'[p] \in Dispatched(s, Head(c2s[p]))
      BY <2>1 DEF FrameOf
    <3> QED
      BY <1>1, <3>1, PushedPartial
  <2>2. CASE ~FrameOf(p)
    <3>1. st'[p] \in {s, TopUp(s)}
      BY <2>2, Zenon DEF IdleOf, TopUpOf, GrantOf, ReceiveOf, SendOf
    <3> QED
      BY <1>1, <3>1 DEF TopUp, PlayerState
  <2> QED
    BY <2>1, <2>2
<1>3. ASSUME NEW g
      PROVE  EndsWith(s2c'[p], {"restrictions"}, RestrictTo(g), client'[p].restrictions = g)
               <=> WillBeRestrictedTo(p, g)
  <2>1. CASE TopUpOf(p)
    <3>1. PICK msgs \in {<<>>, <<Sends>>} : s2c'[p] = Sent(p, msgs)
      BY <2>1 DEF TopUpOf, TopUpMsgs
    <3>2. msgs \in Seq(ToClient)
      BY <3>1, MessagesTyped, ShortSeq
    <3>3. NoneOfKind(msgs, {"restrictions"})
      BY <3>1, SaidKinds, Zenon
    <3>4. client'[p] = client[p]
      BY <2>1 DEF TopUpOf, ClientIdle
    <3> QED
      BY <3>1, <3>2, <3>3, <3>4, RestrictionsSent
  <2>2. CASE ReceiveOf(p)
    BY <2>2, RestrictionsTaken
  <2>3. CASE IdleOf(p) \/ FrameOf(p) \/ GrantOf(p) \/ SendOf(p)
    <3>1. s2c'[p] = s2c[p] /\ client'[p].restrictions = client[p].restrictions
      BY <2>3 DEF IdleOf, FrameOf, GrantOf, SendOf, PayloadStep, ClientIdle, TypedOf, ClientState
    <3> QED
      BY <3>1 DEF WillBeRestrictedTo
  <2> QED
    BY <2>1, <2>2, <2>3
<1> QED
  BY <1>2, <1>3

\* The restrictions a step sends are the ones it records.
LEMMA RestrictionsRecorded ==
  ASSUME NEW p \in Players, TypedOf(p), kind[p] = "axiom",
         \/ ActivateOf(p)
         \/ RenewOf(p) /\ WillBeRestrictedTo(p, st[p].restrictions)
  PROVE  WillBeRestrictedTo(p, st[p].restrictions)'
<1> DEFINE g == grant[p]
<1> DEFINE s == st[p]
<1>1. s \in PlayerState /\ g \in Grants
  BY DEF TypedOf
<1>2. SUFFICES EndsWith(s2c'[p], {"restrictions"}, RestrictTo(g), client'[p].restrictions = g)
  <2>1. \/ st'[p] = Activated(s, g)
        \/ st'[p] = UpdateRestrictions(TopUp(s), g)
    BY Zenon DEF ActivateOf, RenewOf, SlowStep
  <2>2. st'[p].restrictions = g
    BY <1>1, <2>1 DEF Activated, UpdateRestrictions, TopUp, PlayerState
  <2>3. WillBeRestrictedTo(p, st[p].restrictions)' =
          EndsWith(s2c'[p], {"restrictions"}, RestrictTo(st'[p].restrictions),
                   client'[p].restrictions = st'[p].restrictions)
    BY DEF WillBeRestrictedTo
  <2> QED
    BY <1>2, <2>2, <2>3
<1>3. CASE ActivateOf(p)
  <2> DEFINE msgs == <<Enable(TRUE), RestrictTo(g)>>
  <2>1. msgs \in Seq(ToClient) /\ msgs[2] = RestrictTo(g)
    BY <1>1, MessagesTyped, ShortSeq
  <2>2. 2 \in DOMAIN msgs /\ LastOfKind(msgs, 2, {"restrictions"})
    BY SaidKinds, Zenon
  <2>3. client'[p] = client[p] /\ s2c'[p] = Sent(p, msgs)
    BY <1>3, Zenon DEF ActivateOf, PayloadStep
  <2> HIDE DEF msgs, g
  <2> QED
    BY <2>1, <2>2, <2>3, RestrictionsSent
<1>4. CASE RenewOf(p) /\ WillBeRestrictedTo(p, s.restrictions)
  <2> DEFINE msgs == TopUpMsgs(s) \o UpdateRestrictionsMsgs(s, g)
  <2>1. client'[p] = client[p] /\ s2c'[p] = Sent(p, msgs)
    BY <1>4, Zenon DEF RenewOf, SlowStep, ClientIdle
  <2>2. TopUpMsgs(s) \in {<<>>, <<Sends>>}
    BY DEF TopUpMsgs
  <2>3. Sends \in ToClient /\ RestrictTo(g) \in ToClient
    BY <1>1, MessagesTyped
  <2>4. msgs \in Seq(ToClient)
    BY <1>1, RenewMsgs
  <2>5. CASE s.restrictions = g
    <3>1. UpdateRestrictionsMsgs(s, g) = <<>>
      BY <2>5 DEF UpdateRestrictionsMsgs
    <3>2. msgs \in {<<>>, <<Sends>>}
      BY <2>2, <2>3, <3>1, ShortConcat
    <3>3. NoneOfKind(msgs, {"restrictions"})
      BY <3>2, SaidKinds, Zenon
    <3> HIDE DEF msgs, g
    <3> QED
      BY <1>4, <2>1, <2>4, <2>5, <3>3, RestrictionsSent
  <2>6. CASE s.restrictions # g
    <3>1. UpdateRestrictionsMsgs(s, g) = <<RestrictTo(g)>>
      BY <2>6 DEF UpdateRestrictionsMsgs
    <3>2. msgs \in {<<RestrictTo(g)>>, <<Sends, RestrictTo(g)>>}
      BY <2>2, <2>3, <3>1, ShortConcat
    <3>3. <<RestrictTo(g)>>[1] = RestrictTo(g) /\ <<Sends, RestrictTo(g)>>[2] = RestrictTo(g)
      OBVIOUS
    <3>4. \E k \in DOMAIN msgs :
            LastOfKind(msgs, k, {"restrictions"}) /\ msgs[k] = RestrictTo(g)
      BY <3>2, <3>3, SaidKinds, Zenon
    <3> HIDE DEF msgs, g
    <3> QED
      BY <2>1, <2>4, <3>4, RestrictionsSent
  <2> QED
    BY <2>5, <2>6
<1> QED
  BY <1>3, <1>4

LEMMA RestrictedStep ==
  ASSUME NEW p \in Players, TypedOf(p), SessionTraced(p), Restricted(p), StepOf(p)
  PROVE  Restricted(p)'
<1> SUFFICES ASSUME p \in online', st'[p].active, ~inherited'[p], kind'[p] = "axiom"
             PROVE  WillBeRestrictedTo(p, st[p].restrictions)'
  BY DEF Restricted
<1>1. st[p] \in PlayerState /\ ~Default.active
  BY DEF TypedOf, Default
<1>2. ~CloseOf(p) /\ ~SweepOf(p)
  BY <1>1, Zenon DEF CloseOf, SlowStep, SweepOf
<1>3. ~JoinOf(p) /\ ~DropOf(p)
  BY <1>1 DEF JoinOf, DropOf
<1>4. CASE ActivateOf(p)
  <2>1. kind[p] = "axiom"
    BY <1>4 DEF ActivateOf, PayloadStep
  <2> QED
    BY <1>4, <2>1, RestrictionsRecorded
<1>5. CASE ~ActivateOf(p)
  <2>1. /\ st'[p].active = st[p].active
        /\ p \in online /\ kind'[p] = kind[p] /\ inherited'[p] = inherited[p]
    BY <1>2, <1>3, <1>5, EntriesStay, Zenon DEF StepOf, SlowOf, PayloadOf, HostOf
  <2>2. st[p].active /\ WillBeRestrictedTo(p, st[p].restrictions) /\ kind[p] = "axiom"
    BY <2>1 DEF Restricted
  <2>3. CASE RenewOf(p)
    BY <2>2, <2>3, RestrictionsRecorded
  <2>4. CASE OfferOf(p) \/ TellOf(p) \/ WaitOf(p)
    BY <2>2, <2>4 DEF OfferOf, TellOf, WaitOf
  <2>5. CASE \/ IdleOf(p) \/ TopUpOf(p) \/ FrameOf(p)
             \/ GrantOf(p) \/ ReceiveOf(p) \/ SendOf(p)
    <3>1. /\ st'[p].restrictions = st[p].restrictions
          /\ \A g : EndsWith(s2c'[p], {"restrictions"}, RestrictTo(g),
                             client'[p].restrictions = g) <=> WillBeRestrictedTo(p, g)
      BY <2>2, <2>5, RestrictionsStay
    <3> QED
      BY <2>2, <3>1 DEF WillBeRestrictedTo
  <2>6. CASE GoodbyeOf(p) \/ RefuseOf(p)
    BY <2>2, <2>6, NotRefused
  <2> QED
    BY <1>2, <1>3, <1>5, <2>3, <2>4, <2>5, <2>6, Zenon DEF StepOf, SlowOf, PayloadOf, HostOf
<1> QED
  BY <1>4, <1>5

(***************************************************************************)
(* An offer is not lost.  It moves from the queue to the client into the   *)
(* one to the server, and leaves that one only when it is used up.         *)
(***************************************************************************)

OfferIn(q, t) == \E i \in DOMAIN q : q[i].type = "hello" /\ q[i].token = t

OfferAlive(p) ==
  p \in online /\ st[p].pending # None /\ ~inherited[p]
    /\ kind[p] \in {"axiom", "untranslated"} => InTransit(p, st[p].pending)

LEMMA InTransitIs ==
  ASSUME NEW p, NEW t
  PROVE  /\ InTransit(p, t) <=> OfferIn(s2c[p], t) \/ OfferIn(c2s[p], t)
         /\ InTransit(p, t)' <=> OfferIn(s2c'[p], t) \/ OfferIn(c2s'[p], t)
BY DEF InTransit, OfferIn

LEMMA OfferKept ==
  ASSUME NEW S, NEW q \in Seq(S), NEW t, OfferIn(q, t)
  PROVE  /\ \A r \in Seq(S) : OfferIn(q \o r, t)
         /\ \A x \in S : OfferIn(Append(q, x), t)
         /\ q # <<>> /\ ~(Head(q).type = "hello" /\ Head(q).token = t) => OfferIn(Tail(q), t)
<1>1. PICK i \in DOMAIN q : q[i].type = "hello" /\ q[i].token = t
  BY DEF OfferIn
<1>2. ASSUME NEW r \in Seq(S) PROVE OfferIn(q \o r, t)
  <2>1. i \in DOMAIN (q \o r) /\ (q \o r)[i] = q[i]
    OBVIOUS
  <2> QED
    BY <1>1, <2>1, Zenon DEF OfferIn
<1>3. ASSUME NEW x \in S PROVE OfferIn(Append(q, x), t)
  <2>1. i \in DOMAIN Append(q, x) /\ Append(q, x)[i] = q[i]
    OBVIOUS
  <2> QED
    BY <1>1, <2>1, Zenon DEF OfferIn
<1>4. ASSUME q # <<>>, ~(Head(q).type = "hello" /\ Head(q).token = t)
      PROVE  OfferIn(Tail(q), t)
  <2>1. Head(q) = q[1]
    OBVIOUS
  <2>2. i # 1
    BY <1>1, <1>4, <2>1
  <2>3. i - 1 \in DOMAIN Tail(q) /\ Tail(q)[i - 1] = q[i]
    BY <2>2
  <2> QED
    BY <1>1, <2>3, Zenon DEF OfferIn
<1> QED
  BY <1>2, <1>3, <1>4

LEMMA OfferAliveStep ==
  ASSUME NEW p \in Players, TypedOf(p), SessionTraced(p), EchoesOf(p),
         OfferAlive(p), StepOf(p)
  PROVE  OfferAlive(p)'
<1> DEFINE t == st'[p].pending
<1> SUFFICES ASSUME p \in online', t # None, ~inherited'[p],
                    kind'[p] \in {"axiom", "untranslated"}
             PROVE  OfferIn(s2c'[p], t) \/ OfferIn(c2s'[p], t)
  BY DEF OfferAlive, InTransit, OfferIn
<1>1. Default.pending = None
  BY DEF Default
<1>2. /\ st[p] \in PlayerState /\ s2c[p] \in Seq(ToClient) /\ c2s[p] \in Seq(ToServer)
      /\ grant[p] \in Grants
  BY DEF TypedOf
<1>3. ~SweepOf(p) /\ ~CloseOf(p) /\ ~JoinOf(p) /\ ~DropOf(p) /\ ~ActivateOf(p)
  <2>1. Activated(st[p], grant[p]).pending = None
    BY <1>2 DEF Activated, UpdateRestrictions, PlayerState
  <2>2. ~SweepOf(p) /\ ~CloseOf(p) /\ ~ActivateOf(p)
    BY <1>1, <2>1, Zenon DEF SweepOf, CloseOf, SlowStep, ActivateOf
  <2>3. ~JoinOf(p) /\ ~DropOf(p)
    BY <1>1 DEF JoinOf, DropOf
  <2> QED
    BY <2>2, <2>3
<1>4. /\ p \in online /\ kind'[p] = kind[p]
      /\ inherited'[p] = inherited[p]
  BY <1>1, <1>3, EntriesStay, Zenon DEF StepOf, SlowOf, PayloadOf, HostOf
<1>5. st[p].pending = t => OfferIn(s2c[p], t) \/ OfferIn(c2s[p], t)
  BY <1>4 DEF OfferAlive, InTransit, OfferIn
<1>6. CASE OfferOf(p)
  <2>1. PICK u \in Fresh(p) : SlowStep(p, Offered(st[p], u), <<Hello(u)>>)
    BY <1>6 DEF OfferOf
  <2>2. t = u /\ u \in Tokens
    BY <1>2, <2>1 DEF SlowStep, Offered, PlayerState, Fresh
  <2>3. s2c'[p] = s2c[p] \o <<Hello(u)>>
    BY <1>4, <2>1 DEF SlowStep, Sent, ClientIdle
  <2>4. Hello(u) \in ToClient /\ Hello(u).type = "hello" /\ Hello(u).token = u
    BY <2>2, MessagesTyped, MessageTypes
  <2>5. Len(s2c[p]) + 1 \in DOMAIN s2c'[p] /\ s2c'[p][Len(s2c[p]) + 1] = Hello(u)
    BY <1>2, <2>3, <2>4
  <2> QED
    BY <2>2, <2>4, <2>5, Zenon DEF OfferIn
<1>7. CASE ReceiveOf(p)
  <2> DEFINE m == Head(s2c[p])
  <2>1. /\ s2c[p] # <<>> /\ s2c'[p] = Tail(s2c[p]) /\ st[p].pending = t
        /\ c2s'[p] = IF m.type = "hello" THEN Append(c2s[p], Echo(m.token, kind[p])) ELSE c2s[p]
    BY <1>4, <1>7 DEF ReceiveOf
  <2>2. m \in ToClient /\ kind[p] \in ClientKinds
    BY <1>2, <2>1, SessionAssumption DEF TypedOf
  <2>3. m.type = "hello" => Echo(m.token, kind[p]) \in ToServer
    BY <2>2, EchoTyped
  <2>4. OfferIn(c2s[p], t) => OfferIn(c2s'[p], t)
    BY <1>2, <2>1, <2>3, OfferKept
  <2>5. CASE m.type = "hello" /\ m.token = t
    <3> DEFINE e == Echo(m.token, kind[p])
    <3>1. e.type = "hello" /\ e.token = t
      BY <2>5 DEF Echo
    <3>2. Len(c2s[p]) + 1 \in DOMAIN c2s'[p] /\ c2s'[p][Len(c2s[p]) + 1] = e
      BY <1>2, <2>1, <2>3, <2>5
    <3> QED
      BY <3>1, <3>2, Zenon DEF OfferIn
  <2>6. CASE ~(m.type = "hello" /\ m.token = t)
    <3>1. OfferIn(s2c[p], t) => OfferIn(s2c'[p], t)
      BY <1>2, <2>1, <2>6, OfferKept
    <3> QED
      BY <1>5, <2>1, <2>4, <3>1
  <2> QED
    BY <2>5, <2>6
<1>8. CASE SendOf(p)
  <2>1. PICK f, l \in BOOLEAN : c2s'[p] = Append(c2s[p], Frame(client[p].token, f, l))
    BY <1>8 DEF SendOf
  <2>2. Frame(client[p].token, f, l) \in ToServer
    BY FrameTyped DEF TypedOf, ClientState
  <2>3. s2c'[p] = s2c[p] /\ st[p].pending = t
    BY <1>8 DEF SendOf
  <2>4. OfferIn(c2s[p], t) => OfferIn(c2s'[p], t)
    BY <1>2, <2>1, <2>2, OfferKept
  <2> QED
    BY <1>5, <2>3, <2>4
<1>9. CASE \/ IdleOf(p) \/ RenewOf(p) \/ TellOf(p) \/ WaitOf(p)
           \/ TopUpOf(p) \/ GoodbyeOf(p) \/ RefuseOf(p) \/ FrameOf(p) \/ GrantOf(p)
  <2>1. PICK msgs \in Seq(ToClient) : s2c'[p] \in {s2c[p], s2c[p] \o msgs}
    BY <1>9, QuietSteps, Zenon
  <2>2. /\ st[p].pending = t
        /\ c2s'[p] = c2s[p] \/ (c2s[p] # <<>> /\ c2s'[p] = Tail(c2s[p]))
    BY <1>9, QuietEntries, Zenon
  <2>3. OfferIn(s2c[p], t) => OfferIn(s2c'[p], t)
    <3>1. OfferIn(s2c[p], t) => OfferIn(s2c[p] \o msgs, t)
      BY <1>2, OfferKept
    <3> QED
      BY <2>1, <3>1, Zenon
  <2>4. c2s'[p] # c2s[p] => ~(Head(c2s[p]).type = "hello" /\ Head(c2s[p]).token = t)
    <3>1. CASE GoodbyeOf(p)
      <4>1. c2s[p] # <<>>
        BY <3>1 DEF GoodbyeOf, PayloadStep
      <4>2. Head(c2s[p]) = c2s[p][1] /\ 1 \in DOMAIN c2s[p]
        BY <1>2, <4>1
      <4>3. Head(c2s[p]).type = "hello" => Head(c2s[p]).kind = kind[p]
        BY <4>2 DEF EchoesOf
      <4>4. kind[p] # "outdated"
        BY <1>4
      <4> QED
        BY <2>2, <3>1, <4>3, <4>4, Zenon DEF GoodbyeOf
    <3>2. CASE RefuseOf(p)
      BY <1>2, <3>2 DEF RefuseOf, OfferUsed, PlayerState
    <3>3. CASE FrameOf(p)
      BY <3>3 DEF FrameOf
    <3>4. CASE \/ IdleOf(p) \/ RenewOf(p) \/ TellOf(p) \/ WaitOf(p) \/ TopUpOf(p) \/ GrantOf(p)
      BY <3>4, Zenon DEF IdleOf, RenewOf, TellOf, WaitOf, TopUpOf, GrantOf, SlowStep, ClientIdle
    <3> QED
      BY <1>9, <3>1, <3>2, <3>3, <3>4
  <2>5. OfferIn(c2s[p], t) => OfferIn(c2s'[p], t)
    BY <1>2, <2>2, <2>4, OfferKept
  <2> QED
    BY <1>5, <2>2, <2>3, <2>5
<1> QED
  BY <1>3, <1>6, <1>7, <1>8, <1>9, Zenon DEF StepOf, SlowOf, PayloadOf, HostOf

(***************************************************************************)
(* Told once.  heard remembers the refusals since the grant last changed;  *)
(* Told says what the entry must look like for them to be in there.        *)
(***************************************************************************)

Told(p) ==
  /\ "no permission" \in heard[p] => ~CanUse(p) /\ ~st[p].active /\ st[p].told
  /\ "missing use" \in heard[p] => ~CanUse(p) /\ st[p].pending = None

LEMMA ReasonsOfShort ==
  /\ ReasonsIn(<<>>) = {} /\ ReasonsIn(<<Sends>>) = {} /\ ReasonsIn(<<Enable(FALSE)>>) = {}
  /\ \A t : ReasonsIn(<<Hello(t)>>) = {}
  /\ \A g : /\ ReasonsIn(<<RestrictTo(g)>>) = {} /\ ReasonsIn(<<Sends, RestrictTo(g)>>) = {}
            /\ ReasonsIn(<<Enable(TRUE), RestrictTo(g)>>) = {}
  /\ \A r : ReasonsIn(<<Goodbye(r)>>) = {r} /\ ReasonsIn(<<Goodbye(r), Kick>>) = {r}
<1> DEFINE Silent(x) == x.type # "goodbye"
<1>1. /\ Silent(Sends) /\ Silent(Kick) /\ Silent(Enable(FALSE)) /\ Silent(Enable(TRUE))
      /\ \A t : Silent(Hello(t))
      /\ \A g : Silent(RestrictTo(g))
      /\ \A r : Goodbye(r).type = "goodbye" /\ Goodbye(r).reason = r
  BY DEF Enable, Sends, Kick, RestrictTo, Goodbye, Hello
<1>2. ReasonsIn(<<>>) = {}
  BY ShortDomains DEF ReasonsIn
<1>3. ASSUME NEW x PROVE /\ Silent(x) => ReasonsIn(<<x>>) = {}
                         /\ ~Silent(x) => ReasonsIn(<<x>>) = {x.reason}
  <2>1. ASSUME NEW q, DOMAIN q = {1}
        PROVE  /\ Silent(q[1]) => ReasonsIn(q) = {}
               /\ ~Silent(q[1]) => ReasonsIn(q) = {q[1].reason}
    BY <2>1 DEF ReasonsIn
  <2> QED
    BY <2>1, ShortDomains
<1>4. ASSUME NEW x, NEW y, Silent(y)
      PROVE  /\ Silent(x) => ReasonsIn(<<x, y>>) = {}
             /\ ~Silent(x) => ReasonsIn(<<x, y>>) = {x.reason}
  <2>1. ASSUME NEW q, DOMAIN q = {1, 2}, Silent(q[2])
        PROVE  /\ Silent(q[1]) => ReasonsIn(q) = {}
               /\ ~Silent(q[1]) => ReasonsIn(q) = {q[1].reason}
    BY <2>1 DEF ReasonsIn
  <2> QED
    BY <1>4, <2>1, ShortDomains
<1>5. /\ ReasonsIn(<<Sends>>) = {} /\ ReasonsIn(<<Enable(FALSE)>>) = {}
      /\ \A t : ReasonsIn(<<Hello(t)>>) = {}
      /\ \A g : ReasonsIn(<<RestrictTo(g)>>) = {}
  BY <1>1, <1>3
<1>6. \A g : /\ ReasonsIn(<<Sends, RestrictTo(g)>>) = {}
             /\ ReasonsIn(<<Enable(TRUE), RestrictTo(g)>>) = {}
  BY <1>1, <1>4
<1>7. \A r : ReasonsIn(<<Goodbye(r)>>) = {r} /\ ReasonsIn(<<Goodbye(r), Kick>>) = {r}
  BY <1>1, <1>3, <1>4
<1> HIDE DEF Silent
<1> QED
  BY <1>2, <1>5, <1>6, <1>7

\* What is appended to a queue is what was sent.
LEMMA AppendedIs ==
  ASSUME NEW p \in Players, TypedOf(p)
  PROVE  /\ \A msgs \in Seq(ToClient) :
              s2c'[p] = Sent(p, msgs) => Appended(p) = msgs \/ Appended(p) = <<>>
         /\ s2c'[p] = s2c[p] => Appended(p) = <<>>
         /\ s2c'[p] = <<>> => Appended(p) = <<>>
         /\ s2c[p] # <<>> /\ s2c'[p] = Tail(s2c[p]) => Appended(p) = <<>>
<1> DEFINE q == s2c[p]
<1>1. q \in Seq(ToClient) /\ Len(q) \in Nat
  BY DEF TypedOf
<1>2. ASSUME s2c'[p] \in Seq(ToClient), Len(s2c'[p]) <= Len(q)
      PROVE  Appended(p) = <<>>
  <2> DEFINE r == s2c'[p]
  <2>1. Len(r) \in Int /\ Len(q) + 1 \in Int /\ Len(r) < Len(q) + 1
    BY <1>1, <1>2
  <2>2. SubSeq(r, Len(q) + 1, Len(r)) = <<>>
    <3> HIDE DEF q, r
    <3> QED
      BY <2>1, SubSeqEmpty
  <2> QED
    BY <2>2 DEF Appended
<1>3. s2c'[p] = q => Appended(p) = <<>>
  BY <1>1, <1>2
<1>4. s2c'[p] = <<>> => Appended(p) = <<>>
  BY <1>1, <1>2
<1>5. q # <<>> /\ s2c'[p] = Tail(q) => Appended(p) = <<>>
  <2>1. q # <<>> => Tail(q) \in Seq(ToClient) /\ Len(Tail(q)) = Len(q) - 1
    BY <1>1
  <2> QED
    BY <1>1, <1>2, <2>1
<1>6. ASSUME NEW msgs \in Seq(ToClient), s2c'[p] = q \o msgs
      PROVE  Appended(p) = msgs
  <2> DEFINE r == SubSeq(q \o msgs, Len(q) + 1, Len(q) + Len(msgs))
  <2>1. Len(q \o msgs) = Len(q) + Len(msgs)
    BY <1>1, <1>6
  <2>2. r \in Seq(ToClient) /\ Len(r) = Len(msgs)
    BY <1>1, <1>6
  <2>3. \A i \in 1 .. Len(r) : r[i] = msgs[i]
    BY <1>1, <1>6, <2>2
  <2>4. Appended(p) = r
    BY <1>6, <2>1 DEF Appended
  <2> HIDE DEF r
  <2>5. r = msgs
    BY <1>6, <2>2, <2>3, SeqEqual
  <2> QED
    BY <2>4, <2>5
<1>7. ASSUME NEW msgs \in Seq(ToClient), s2c'[p] = Sent(p, msgs)
      PROVE  Appended(p) = msgs \/ Appended(p) = <<>>
  BY <1>3, <1>6, <1>7 DEF Sent
<1> QED
  BY <1>3, <1>4, <1>5, <1>7

\* Nothing but these two steps says why the permission keeps Axiom off.
LEMMA RefusalsSent ==
  ASSUME NEW p \in Players, TypedOf(p), StepOf(p)
  PROVE  \/ TellOf(p) /\ ReasonsIn(Appended(p)) \subseteq {"no permission"}
         \/ RefuseOf(p) /\ ReasonsIn(Appended(p)) \subseteq {Refusal(p)}
         \/ ReasonsIn(Appended(p)) \subseteq {"api version", "bad token"}
<1> DEFINE Saying(msgs) == msgs \in Seq(ToClient) /\ s2c'[p] = Sent(p, msgs)
<1>1. ASSUME NEW msgs, Saying(msgs)
      PROVE  ReasonsIn(Appended(p)) \subseteq ReasonsIn(msgs)
  <2>1. Appended(p) = msgs \/ Appended(p) = <<>>
    BY <1>1, AppendedIs
  <2> QED
    BY <2>1, ReasonsOfShort
<1>2. /\ <<Enable(FALSE)>> \in Seq(ToClient) /\ <<>> \in Seq(ToClient)
      /\ <<Sends>> \in Seq(ToClient)
      /\ \A t \in Tokens : <<Hello(t)>> \in Seq(ToClient)
      /\ \A r \in Reasons : <<Goodbye(r)>> \in Seq(ToClient)
                            /\ <<Goodbye(r), Kick>> \in Seq(ToClient)
      /\ <<Enable(TRUE), RestrictTo(grant[p])>> \in Seq(ToClient)
  BY MessagesTyped, GoodbyesTyped, ShortSeq DEF TypedOf
<1>3. {"no permission", "api version", "bad token", Refusal(p)} \subseteq Reasons
  BY DEF Reasons, Refusal
<1>4. CASE TellOf(p)
  <2>1. Saying(<<Goodbye("no permission")>>)
    BY <1>2, <1>3, <1>4, Zenon DEF TellOf, SlowStep
  <2> HIDE DEF Saying
  <2> QED
    BY <1>1, <1>4, <2>1, ReasonsOfShort, Zenon
<1>5. CASE RefuseOf(p)
  <2>1. Saying(<<Goodbye(Refusal(p))>>)
    BY <1>2, <1>3, <1>5, Zenon DEF RefuseOf
  <2> HIDE DEF Saying
  <2> QED
    BY <1>1, <1>5, <2>1, ReasonsOfShort
<1>6. CASE GoodbyeOf(p)
  <2>1. Saying(<<Goodbye("api version"), Kick>>) \/ Saying(<<Goodbye("bad token")>>)
    BY <1>2, <1>3, <1>6, Zenon DEF GoodbyeOf
  <2> HIDE DEF Saying
  <2>2. \/ ReasonsIn(Appended(p)) \subseteq {"api version"}
        \/ ReasonsIn(Appended(p)) \subseteq {"bad token"}
    BY <1>1, <2>1, ReasonsOfShort, Zenon
  <2> QED
    BY <2>2
<1>7. CASE RenewOf(p)
  <2> DEFINE msgs == TopUpMsgs(st[p]) \o UpdateRestrictionsMsgs(st[p], grant[p])
  <2>1. /\ msgs \in {<<>>, <<Sends>>, <<RestrictTo(grant[p])>>, <<Sends, RestrictTo(grant[p])>>}
        /\ msgs \in Seq(ToClient)
    BY RenewMsgs DEF TypedOf
  <2>2. Saying(msgs)
    BY <1>7, <2>1, Zenon DEF RenewOf, SlowStep
  <2>3. ReasonsIn(msgs) = {}
    BY <2>1, ReasonsOfShort, Zenon
  <2> HIDE DEF Saying, msgs
  <2> QED
    BY <1>1, <2>2, <2>3
<1>8. CASE CloseOf(p) \/ OfferOf(p) \/ WaitOf(p) \/ TopUpOf(p) \/ ActivateOf(p)
  <2>1. PICK msgs : Saying(msgs) /\ ReasonsIn(msgs) = {}
    <3>1. CASE CloseOf(p)
      <4>1. Saying(<<Enable(FALSE)>>)
        BY <1>2, <3>1, Zenon DEF CloseOf, SlowStep
      <4> QED
        BY <4>1, ReasonsOfShort, Zenon
    <3>2. CASE OfferOf(p)
      <4>1. PICK t \in Fresh(p) : Saying(<<Hello(t)>>)
        BY <1>2, <3>2, Zenon DEF OfferOf, SlowStep, Fresh
      <4> QED
        BY <4>1, ReasonsOfShort, Zenon
    <3>3. CASE WaitOf(p) \/ TopUpOf(p)
      <4>1. Saying(<<>>) \/ Saying(<<Sends>>)
        BY <1>2, <3>3, Zenon DEF WaitOf, TopUpOf, SlowStep, TopUpMsgs
      <4> QED
        BY <4>1, ReasonsOfShort, Zenon
    <3>4. CASE ActivateOf(p)
      <4>1. Saying(<<Enable(TRUE), RestrictTo(grant[p])>>)
        BY <1>2, <3>4, Zenon DEF ActivateOf
      <4> QED
        BY <4>1, ReasonsOfShort, Zenon
    <3> QED
      BY <1>8, <3>1, <3>2, <3>3, <3>4
  <2> HIDE DEF Saying
  <2> QED
    BY <1>1, <2>1
<1>9. CASE \/ IdleOf(p) \/ SweepOf(p) \/ FrameOf(p) \/ HostOf(p) \/ ReceiveOf(p) \/ SendOf(p)
  <2>1. \/ s2c'[p] = s2c[p] \/ s2c'[p] = <<>>
        \/ s2c[p] # <<>> /\ s2c'[p] = Tail(s2c[p])
    BY <1>9, Zenon DEF IdleOf, SweepOf, FrameOf, HostOf, GrantOf, JoinOf, DropOf, ReceiveOf, SendOf
  <2>2. Appended(p) = <<>>
    BY <2>1, AppendedIs, Zenon
  <2> QED
    BY <2>2, ReasonsOfShort
<1> QED
  BY <1>4, <1>5, <1>6, <1>7, <1>8, <1>9, Zenon DEF StepOf, SlowOf, PayloadOf

\* A refusal that is in heard is not sent again.
LEMMA ToldStep ==
  ASSUME NEW p \in Players, TypedOf(p), Told(p), StepOf(p)
  PROVE  ~Repeats(p, {"no permission", "missing use"})
<1>1. CASE TellOf(p) /\ ReasonsIn(Appended(p)) \subseteq {"no permission"}
  <2>1. "no permission" \notin heard[p]
    BY <1>1, Zenon DEF TellOf, Told
  <2> QED
    BY <1>1, <2>1 DEF Repeats
<1>2. CASE RefuseOf(p) /\ ReasonsIn(Appended(p)) \subseteq {Refusal(p)}
  <2>1. st[p].pending # None
    <3>1. c2s[p] \in Seq(ToServer) /\ c2s[p] # <<>> /\ Head(c2s[p]).type = "hello"
          /\ st[p].pending = Head(c2s[p]).token
      BY <1>2 DEF RefuseOf, PayloadStep, TypedOf
    <3>2. Head(c2s[p]) \in ToServer
      BY <3>1
    <3> QED
      BY <3>1, <3>2, SessionAssumption DEF ToServer
  <2>2. "missing use" \notin heard[p]
    BY <2>1, Zenon DEF Told
  <2>3. Refusal(p) \in {"missing use", "minecraft version"}
    BY DEF Refusal
  <2> QED
    BY <1>2, <2>2, <2>3 DEF Repeats
<1>3. CASE ReasonsIn(Appended(p)) \subseteq {"api version", "bad token"}
  BY <1>3 DEF Repeats
<1> QED
  BY <1>1, <1>2, <1>3, RefusalsSent, Zenon

LEMMA ToldStays ==
  ASSUME NEW p \in Players, TypedOf(p), Gone(p), Told(p), StepOf(p)
  PROVE  Told(p)'
<1> DEFINE s == st[p]
<1> DEFINE no == "no permission" \in heard[p]
<1> DEFINE missing == "missing use" \in heard[p]
<1>1. s \in PlayerState
  BY DEF TypedOf
<1>2. /\ ~Default.active /\ Default.pending = None
      /\ OfferUsed(s).pending = None /\ OfferUsed(s).active = s.active
      /\ OfferUsed(s).told = s.told
      /\ ~s.active => ~ToldDisabled(s).active
      /\ ToldDisabled(s).pending = None /\ ToldDisabled(s).told
  BY <1>1 DEF Default, OfferUsed, ToldDisabled, PlayerState
<1>3. grant'[p] = grant[p] => (CanUse(p)' <=> CanUse(p))
  BY DEF CanUse
<1>4. CASE \/ heard'[p] = {}
           \/ heard'[p] = heard[p] /\ heard[p] = {}
  BY <1>4 DEF Told
<1>5. CASE \/ RenewOf(p) \/ CloseOf(p) \/ OfferOf(p)
  <2>1. heard'[p] = heard[p] /\ grant'[p] = grant[p]
    <3>1. PICK msgs \in {<<>>, <<Sends>>, <<RestrictTo(grant[p])>>, <<Sends, RestrictTo(grant[p])>>,
                         <<Enable(FALSE)>>} \cup {<<Hello(t)>> : t \in Tokens} :
            heard'[p] = heard[p] \cup ReasonsIn(msgs)
      <4>1. TopUpMsgs(s) \o UpdateRestrictionsMsgs(s, grant[p])
              \in {<<>>, <<Sends>>, <<RestrictTo(grant[p])>>, <<Sends, RestrictTo(grant[p])>>}
        BY <1>1, RenewMsgs DEF TypedOf
      <4>2. CASE RenewOf(p)
        BY <4>1, <4>2, Zenon DEF RenewOf, SlowStep
      <4>3. CASE CloseOf(p)
        BY <4>3, Zenon DEF CloseOf, SlowStep
      <4>4. CASE OfferOf(p)
        BY <4>4, Zenon DEF OfferOf, SlowStep, Fresh
      <4> QED
        BY <1>5, <4>2, <4>3, <4>4, Zenon
    <3>2. ReasonsIn(msgs) = {}
      BY <3>1, ReasonsOfShort, Zenon
    <3>3. Settings(p)' = Settings(p)
      BY <1>5, Zenon DEF RenewOf, CloseOf, OfferOf, SlowStep
    <3> QED
      BY <3>1, <3>2, <3>3 DEF Settings
  <2>2. ~no
    BY <1>5, Zenon DEF RenewOf, CloseOf, OfferOf, Told
  <2>3. missing => CloseOf(p)
    BY <1>5, Zenon DEF RenewOf, OfferOf, Told
  <2>4. CloseOf(p) => ~CanUse(p) /\ st'[p].pending = None
    BY <1>2, Zenon DEF CloseOf, SlowStep
  <2> QED
    BY <1>3, <2>1, <2>2, <2>3, <2>4 DEF Told
<1>6. CASE TellOf(p)
  <2>1. /\ st'[p] = ToldDisabled(s) /\ ~s.active /\ ~CanUse(p) /\ Settings(p)' = Settings(p)
    BY <1>6, Zenon DEF TellOf, SlowStep
  <2> QED
    BY <1>2, <1>3, <2>1 DEF Told, Settings
<1>7. CASE \/ IdleOf(p) \/ WaitOf(p) \/ TopUpOf(p) \/ GoodbyeOf(p) \/ FrameOf(p)
           \/ ReceiveOf(p) \/ SendOf(p)
  <2>1. grant'[p] = grant[p] /\ heard'[p] \subseteq heard[p] \cup {"api version", "bad token"}
    <3>1. CASE GoodbyeOf(p)
      BY <3>1 DEF GoodbyeOf, PayloadStep
    <3>2. CASE WaitOf(p)
      BY <3>2, ReasonsOfShort DEF WaitOf, SlowStep, Settings
    <3>3. CASE IdleOf(p) \/ TopUpOf(p) \/ FrameOf(p) \/ ReceiveOf(p) \/ SendOf(p)
      BY <3>3 DEF IdleOf, TopUpOf, FrameOf, PayloadStep, ReceiveOf, SendOf, Settings
    <3> QED
      BY <1>7, <3>1, <3>2, <3>3
  <2>2. /\ st'[p].active = s.active /\ st'[p].told = s.told /\ st'[p].pending = s.pending
    <3>1. CASE FrameOf(p)
      <4>1. st'[p] \in IF s.active THEN Dispatched(s, Head(c2s[p])) ELSE {s}
        BY <3>1 DEF FrameOf
      <4> QED
        BY <1>1, <4>1, PushedPartial
    <3>2. CASE ~FrameOf(p)
      <4>1. st'[p] \in {s, TopUp(s)}
        BY <1>7, <3>2, Zenon DEF IdleOf, WaitOf, SlowStep, TopUpOf, GoodbyeOf, ReceiveOf, SendOf
      <4> QED
        BY <1>1, <4>1 DEF TopUp, PlayerState
    <3> QED
      BY <3>1, <3>2
  <2> QED
    BY <1>3, <2>1, <2>2 DEF Told
<1>8. CASE RefuseOf(p)
  <2>1. /\ st'[p] = OfferUsed(s) /\ heard'[p] = heard[p] \cup {Refusal(p)}
        /\ grant'[p] = grant[p]
    BY <1>8, Zenon DEF RefuseOf, PayloadStep
  <2>2. /\ Refusal(p) # "no permission"
        /\ Refusal(p) = "missing use" => ~CanUse(p)
    BY DEF Refusal
  <2> QED
    BY <1>2, <1>3, <2>1, <2>2 DEF Told
<1>9. CASE SweepOf(p) \/ HostOf(p) \/ ActivateOf(p)
  <2>1. heard'[p] = {} \/ (heard'[p] = heard[p] /\ heard[p] = {})
    BY <1>9, Zenon DEF SweepOf, HostOf, GrantOf, JoinOf, DropOf, ActivateOf, Gone
  <2> QED
    BY <1>4, <2>1
<1> QED
  BY <1>5, <1>6, <1>7, <1>8, <1>9, Zenon DEF StepOf, SlowOf, PayloadOf

(***************************************************************************)
(* The invariant of the handshake, and what follows from it.               *)
(***************************************************************************)

HandshakeOf(p) ==
  /\ OfferTraced(p) /\ SessionTraced(p) /\ EchoesOf(p) /\ Gone(p)
  /\ Agreed(p) /\ Restricted(p) /\ OfferAlive(p) /\ Told(p)

Handshake == \A p \in Players : HandshakeOf(p)

LEMMA HandshakeInit == Init => Handshake
<1> SUFFICES ASSUME Init, NEW p \in Players PROVE HandshakeOf(p)
  BY DEF Handshake
<1>1. /\ st[p] = Default /\ client[p] = NewClient /\ s2c[p] = <<>> /\ c2s[p] = <<>>
      /\ ~inherited[p] /\ heard[p] = {} /\ p \notin online
  BY DEF Init
<1>2. OfferTraced(p) /\ SessionTraced(p) /\ EchoesOf(p) /\ Gone(p)
  BY <1>1, EchoesInit DEF OfferTraced, SessionTraced, Gone, Default
<1>3. Agreed(p) /\ Restricted(p) /\ OfferAlive(p) /\ Told(p)
  BY <1>1 DEF Agreed, Restricted, OfferAlive, Told
<1> QED
  BY <1>2, <1>3 DEF HandshakeOf

LEMMA HandshakeNext ==
  ASSUME TypeOK, Handshake, [Next]_vars
  PROVE  Handshake' /\ \A p \in Players : ~Repeats(p, {"no permission", "missing use"})
<1>1. \A p \in Players : EchoesOf(p) /\ OfferTraced(p) /\ SessionTraced(p)
  BY DEF Handshake, HandshakeOf
<1>2. Traced'
  BY <1>1, TracedNext DEF Traced
<1> SUFFICES ASSUME NEW p \in Players
             PROVE  HandshakeOf(p)' /\ ~Repeats(p, {"no permission", "missing use"})
  BY DEF Handshake
<1>3. TypedOf(p) /\ StepOf(p) /\ HandshakeOf(p)
  BY TypedOfAll, NextStepOf DEF Handshake
<1>4. OfferTraced(p)' /\ SessionTraced(p)' /\ EchoesOf(p)'
  BY <1>1, <1>2, EchoesNext DEF Traced
<1>5. Gone(p)'
  BY <1>3, GoneStep DEF HandshakeOf
<1>6. Agreed(p)' /\ Restricted(p)' /\ OfferAlive(p)'
  BY <1>3, AgreedStep, RestrictedStep, OfferAliveStep DEF HandshakeOf
<1>7. Told(p)' /\ ~Repeats(p, {"no permission", "missing use"})
  BY <1>3, ToldStays, ToldStep DEF HandshakeOf
<1> QED
  BY <1>4, <1>5, <1>6, <1>7 DEF HandshakeOf

LEMMA HandshakeAlways == Spec => []Handshake
<1>1. TypeOK /\ Handshake /\ [Next]_vars => Handshake'
  BY HandshakeNext
<1> QED
  BY <1>1, HandshakeInit, TypeCorrect, PTL DEF Spec

\* Once everything on its way has arrived, a client is enabled exactly when the
\* server holds its session active, unless the entry outlived the connection that
\* made it: no refusal of a late echo reaches a client with an open session, and
\* none stays on after `tick` dropped it.
THEOREM EndsAgree == Spec => []EnabledAgrees
<1>1. TypeOK /\ Handshake => EnabledAgrees
  BY DEF TypeOK, EnabledAgrees, Handshake, HandshakeOf, Agreed, Answering
<1> QED
  BY <1>1, HandshakeAlways, TypeCorrect, PTL

\* The restrictions `update_restrictions` recorded for an active player are those
\* its client has or is about to get.
THEOREM RestrictionsAreKnown == Spec => []RestrictionsAgree
<1>1. TypeOK /\ Handshake => RestrictionsAgree
  BY DEF TypeOK, RestrictionsAgree, Handshake, HandshakeOf, Restricted
<1> QED
  BY <1>1, HandshakeAlways, TypeCorrect, PTL

\* While an offer is pending `tick` makes no other, so the one pending is always on
\* its way to the client or back.
THEOREM OffersAreAlive == Spec => []PendingOfferIsAlive
<1>1. TypeOK /\ Handshake => PendingOfferIsAlive
  BY DEF TypeOK, PendingOfferIsAlive, Handshake, HandshakeOf, OfferAlive
<1> QED
  BY <1>1, HandshakeAlways, TypeCorrect, PTL

\* A player hears why the permission keeps Axiom off once for as long as its grant
\* stays what it is, whichever of the tick and `handle_hello` says it.
THEOREM ReasonsAreToldOnce == Spec => ToldOnce
<1>1. TypeOK /\ Handshake /\ [Next]_vars
        => [\A p \in Players : ~Repeats(p, {"no permission", "missing use"})]_vars
  BY HandshakeNext
<1>2. Spec => [][\A p \in Players : ~Repeats(p, {"no permission", "missing use"})]_vars
  BY <1>1, HandshakeAlways, TypeCorrect, PTL DEF Spec
<1> QED
  BY <1>2 DEF ToldOnce

=============================================================================
