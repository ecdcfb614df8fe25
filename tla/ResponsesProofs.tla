-------------------------- MODULE ResponsesProofs --------------------------
(* Proofs about Responses, for requests and entries of any length. *)
EXTENDS Responses, FoldingProofs, SequenceTheorems, TLAPS

\* TypeOK in parts, by what changes together.
WireOK ==
  /\ requests \in Seq(Request)
  /\ waiting \in SUBSET Ids
  /\ Len(got) <= 1
CurrentOK ==
  /\ current \in Request \cup {None}
  /\ current # None => Len(current.second) <= MaxSections
BufOK ==
  /\ buf \in Seq(Written)
  /\ length \in Nat
  /\ open \in BOOLEAN
  /\ current = None => buf = <<>> /\ length = 0
ChannelOK == channel \in Seq(Payload)

LEMMA Parts ==
  /\ TypeOK <=> WireOK /\ CurrentOK /\ BufOK /\ ChannelOK
  /\ TypeOK' <=> WireOK' /\ CurrentOK' /\ BufOK' /\ ChannelOK'
BY Zenon DEF TypeOK, WireOK, CurrentOK, BufOK, ChannelOK

LEMMA Numbers ==
  /\ Lengths \subseteq Nat /\ MaxResponse \in Nat /\ PayloadLimit \in Nat
  /\ MaxSections \in Nat
  /\ Kinds \subseteq {"chunks", "entities"}
BY ResponsesAssumption

-----------------------------------------------------------------------------
(* Requests, entries and what is written. *)

LEMMA RequestFields ==
  ASSUME NEW r \in Request
  PROVE  /\ r.id \in Ids /\ r.kind \in Kinds
         /\ r.allowed \in BOOLEAN /\ r.blockEntities \in BOOLEAN
         /\ r.first \in Seq(Entry) /\ r.second \in Seq(Entry)
         /\ r # None
BY NoneAssumption DEF Request

\* A request with other lists is a request.
LEMMA OtherLists ==
  ASSUME NEW r \in Request, NEW f \in Seq(Entry), NEW s \in Seq(Entry)
  PROVE  /\ [r EXCEPT !.first = f] \in Request
         /\ [r EXCEPT !.second = s] \in Request
         /\ [r EXCEPT !.first = f, !.second = s] \in Request
         /\ [r EXCEPT !.first = f].second = r.second
         /\ [r EXCEPT !.first = f].kind = r.kind
         /\ [r EXCEPT !.second = s].second = s
         /\ [r EXCEPT !.second = s].kind = r.kind
         /\ [r EXCEPT !.first = f, !.second = s].second = s
         /\ [r EXCEPT !.first = f, !.second = s].kind = r.kind
BY DEF Request

LEMMA CappedTyped ==
  ASSUME NEW s \in Seq(Entry)
  PROVE  Capped(s) \in Seq(Entry) /\ Len(Capped(s)) <= MaxSections
<1> DEFINE n == IF Len(s) < MaxSections THEN Len(s) ELSE MaxSections
<1>1. n \in 0 .. Len(s) /\ n <= MaxSections /\ n \in Nat
  BY Numbers
<1> HIDE DEF n
<1>2. SubSeq(s, 1, n) \in Seq(Entry) /\ Len(SubSeq(s, 1, n)) = n
  BY <1>1
<1> QED
  BY <1>1, <1>2 DEF Capped, n

LEMMA EntryLength ==
  ASSUME NEW e \in Entry
  PROVE  e.length \in Nat /\ e.length \in Lengths
BY Numbers DEF Entry

LEMMA WrittenTyped ==
  /\ Sentinel \in Written
  /\ \A i \in Ids : Id(i) \in Written
  /\ \A b \in BOOLEAN : Flag(b) \in Written
  /\ \A n \in Nat : Count(n) \in Written
  /\ \A e \in Entry : Item(e) \in Written
<1>1. Sentinel \in Written
  BY DEF Sentinel, Written
<1>2. \A i \in Ids : Id(i) \in Written
  BY DEF Id, Written
<1>3. \A b \in BOOLEAN : Flag(b) \in Written
  BY DEF Flag, Written
<1>4. \A n \in Nat : Count(n) \in Written
  BY DEF Count, Written
<1>5. \A e \in Entry : Item(e) \in Written
  BY DEF Item, Written
<1> QED
  BY <1>1, <1>2, <1>3, <1>4, <1>5

\* A sequence of what is written, from a few pieces.
LEMMA Pieces ==
  ASSUME NEW b \in Seq(Written), NEW x \in Written, NEW y \in Written, NEW z \in Written
  PROVE  /\ b \o <<>> \o <<x, y>> \in Seq(Written)
         /\ b \o <<z>> \o <<x, y>> \in Seq(Written)
         /\ <<x, y, z>> \o b \in Seq(Written)
         /\ <<x>> \o <<>> \in Seq(Written)
         /\ <<x>> \o <<y>> \in Seq(Written)
         /\ <<x>> \in Seq(Written) /\ <<>> \in Seq(Written)
         /\ Append(b, x) \in Seq(Written)
OBVIOUS

LEMMA FlushTyped ==
  ASSUME NEW b \in Seq(Written), NEW f \in BOOLEAN, NEW i \in Ids
  PROVE  Flushed(b, f) \in Seq(Written) /\ Reopened(i) \in Seq(Written)
<1>1. Sentinel \in Written /\ Flag(f) \in Written /\ Id(i) \in Written
  BY WrittenTyped
<1>2. CASE open
  BY <1>1, <1>2, Pieces, Zenon DEF Flushed, Reopened
<1>3. CASE ~open
  BY <1>1, <1>3, Pieces, Zenon DEF Flushed, Reopened
<1> QED
  BY <1>2, <1>3

LEMMA PayloadTyped ==
  ASSUME NEW k \in Kinds, NEW d \in Seq(Written), NEW n \in Nat
  PROVE  [kind |-> k, data |-> d, length |-> n] \in Payload
BY DEF Payload

-----------------------------------------------------------------------------
(* The lengths.  While lists are written the buffer is over MAX_RESPONSE_BYTES *)
(* by no more than the id it starts with and the sentinel of the first list;   *)
(* what a flush adds to that still fits the leeway.                            *)

\* No entry is longer than a payload's worth, and the leeway is what is written
\* around the entries: an id or a sentinel, two sentinels and a flag.
Roomy ==
  /\ \A n \in Lengths : n <= MaxResponse
  /\ MaxResponse + 3 * LongLen + BoolLen <= PayloadLimit

Filled(n, o) == n <= MaxResponse + LongLen + (IF o THEN 0 ELSE LongLen)
Filling == current # None /\ current.kind = "chunks" => Filled(length, open)

LengthsOK == Roomy => Filling /\ ChunkPayloadsFit

LEMMA FlushLength ==
  ASSUME NEW n \in Nat, open \in BOOLEAN
  PROVE  /\ FlushedLen(n) \in Nat
         /\ Roomy /\ Filled(n, open) => FlushedLen(n) <= PayloadLimit
BY Numbers DEF FlushedLen, Roomy, Filled, LongLen, BoolLen

LEMMA BatchLength ==
  ASSUME NEW b \in Seq(Written), NEW n \in Nat
  PROVE  BatchLen(b, n) \in Nat
<1>1. Len(b) \in Nat
  OBVIOUS
<1>2. VarLen(Len(b)) \in Nat
  BY DEF VarLen
<1> QED
  BY <1>1, <1>2 DEF BatchLen, LongLen, BoolLen, UuidLen

\* A payload more, and one that fits if it is of chunks.
LEMMA Delivered ==
  ASSUME ChannelOK, NEW k \in Kinds, NEW d \in Seq(Written), NEW n \in Nat,
         Deliver(k, d, n)
  PROVE  /\ ChannelOK'
         /\ ChunkPayloadsFit /\ (k = "chunks" => n <= PayloadLimit) => ChunkPayloadsFit'
<1> DEFINE m == [kind |-> k, data |-> d, length |-> n]
<1>1. m \in Payload /\ m.kind = k /\ m.length = n
  BY PayloadTyped
<1>2. channel' = Append(channel, m) /\ channel \in Seq(Payload)
  BY DEF Deliver, ChannelOK
<1> HIDE DEF m
<1>3. ChannelOK'
  BY <1>1, <1>2 DEF ChannelOK
<1>4. \A x \in DOMAIN channel' : \/ x \in DOMAIN channel /\ channel'[x] = channel[x]
                                 \/ channel'[x] = m
  BY <1>1, <1>2
<1>5. ChunkPayloadsFit /\ (k = "chunks" => n <= PayloadLimit) => ChunkPayloadsFit'
  BY <1>1, <1>4, Zenon DEF ChunkPayloadsFit
<1> QED
  BY <1>3, <1>5

\* push, in either list.
LEMMA PushStep ==
  ASSUME TypeOK, LengthsOK, current # None, current.kind = "chunks",
         NEW e \in Entry, Push(e)
  PROVE  /\ buf' \in Seq(Written) /\ length' \in Nat
         /\ ChannelOK'
         /\ Roomy => Filled(length', open) /\ ChunkPayloadsFit'
<1>1. /\ buf \in Seq(Written) /\ length \in Nat /\ open \in BOOLEAN /\ ChannelOK
      /\ current \in Request
  BY Parts, Zenon DEF BufOK, CurrentOK
<1>2. current.id \in Ids /\ current.kind \in Kinds /\ e.length \in Nat /\ Item(e) \in Written
  BY <1>1, RequestFields, EntryLength, WrittenTyped
<1>3. CASE Fits(e.length) /\ UNCHANGED channel /\ buf' = Append(buf, Item(e))
           /\ length' = length + e.length
  <2>1. buf' \in Seq(Written)
    BY <1>1, <1>2, <1>3
  <2>2. length' \in Nat /\ Filled(length', open)
    BY <1>1, <1>2, <1>3, Numbers DEF Fits, Filled, LongLen
  <2>3. ChannelOK' /\ (ChunkPayloadsFit => ChunkPayloadsFit')
    BY <1>1, <1>3 DEF ChannelOK, ChunkPayloadsFit
  <2> QED
    BY <2>1, <2>2, <2>3 DEF LengthsOK
<1>4. CASE /\ Deliver("chunks", Flushed(buf, FALSE), FlushedLen(length))
           /\ buf' = Append(Reopened(current.id), Item(e))
           /\ length' = ReopenedLen + e.length
  <2>1. Flushed(buf, FALSE) \in Seq(Written) /\ Reopened(current.id) \in Seq(Written)
    BY <1>1, <1>2, FlushTyped
  <2>2. buf' \in Seq(Written)
    BY <1>2, <1>4, <2>1
  <2>3. ReopenedLen \in Nat /\ ReopenedLen <= LongLen + (IF open THEN 0 ELSE LongLen)
    BY <1>1 DEF ReopenedLen, LongLen
  <2>4. length' \in Nat
    BY <1>2, <1>4, <2>3
  <2>5. Roomy => Filled(length', open)
    <3>1. Roomy => e.length <= MaxResponse
      BY EntryLength DEF Roomy
    <3> QED
      BY <1>1, <1>2, <1>4, <2>3, <3>1, Numbers DEF Filled, LongLen
  <2>6. FlushedLen(length) \in Nat
    BY <1>1, FlushLength
  <2>7. Roomy => FlushedLen(length) <= PayloadLimit
    BY <1>1, FlushLength DEF LengthsOK, Filling
  <2>8. ChannelOK' /\ (Roomy => ChunkPayloadsFit')
    BY <1>1, <1>2, <1>4, <2>1, <2>6, <2>7, Delivered DEF LengthsOK
  <2> QED
    BY <2>2, <2>4, <2>5, <2>8
<1> QED
  BY <1>3, <1>4 DEF Push

-----------------------------------------------------------------------------
(* The steps. *)

\* A turn of either loop over a list of chunks: skipped, or pushed.
LEMMA TurnStep ==
  ASSUME TypeOK, LengthsOK, current # None, current.kind = "chunks", NEW e \in Entry,
         IF e.length = 0 THEN Skip ELSE Push(e),
         UNCHANGED <<requests, open, waiting>>, got' = <<>>,
         current' \in Request, current'.kind = "chunks",
         Len(current'.second) <= MaxSections
  PROVE  TypeOK' /\ LengthsOK'
<1>1. WireOK' /\ CurrentOK' /\ current' # None
  BY Parts, RequestFields DEF WireOK, CurrentOK
<1>2. open' \in BOOLEAN /\ open' = open
  BY Parts DEF BufOK
<1>3. CASE Skip
  <2>1. BufOK' /\ ChannelOK'
    BY <1>1, <1>2, <1>3, Parts DEF Skip, BufOK, ChannelOK
  <2>2. LengthsOK'
    BY <1>2, <1>3 DEF Skip, LengthsOK, Filling, Filled, ChunkPayloadsFit
  <2> QED
    BY <1>1, <2>1, <2>2, Parts
<1>4. CASE Push(e)
  <2>1. /\ buf' \in Seq(Written) /\ length' \in Nat
        /\ ChannelOK'
        /\ Roomy => Filled(length', open) /\ ChunkPayloadsFit'
    BY <1>4, PushStep
  <2>2. BufOK'
    BY <1>1, <1>2, <2>1 DEF BufOK
  <2>3. LengthsOK'
    BY <1>2, <2>1 DEF LengthsOK, Filling
  <2> QED
    BY <1>1, <2>1, <2>2, <2>3, Parts
<1> QED
  BY <1>3, <1>4

LEMMA BlockEntityStep ==
  ASSUME TypeOK, LengthsOK, BlockEntity
  PROVE  TypeOK' /\ LengthsOK'
<1>1. current \in Request /\ current # None /\ Len(current.second) <= MaxSections
  BY Parts DEF BlockEntity, CurrentOK
<1>2. current.first \in Seq(Entry) /\ current.first # <<>>
  BY <1>1, RequestFields DEF BlockEntity
<1>3. Head(current.first) \in Entry /\ Tail(current.first) \in Seq(Entry)
  BY <1>2
<1>4. current' = [current EXCEPT !.first = Tail(current.first)] /\ current.kind = "chunks"
  BY DEF BlockEntity
<1>5. current.first \in Seq(Entry) /\ current.second \in Seq(Entry)
  BY <1>1, RequestFields
<1>6. /\ current' \in Request /\ current'.kind = "chunks"
      /\ Len(current'.second) <= MaxSections
  BY <1>1, <1>3, <1>4, <1>5, OtherLists
<1> QED
  BY <1>1, <1>3, <1>6, TurnStep DEF BlockEntity

LEMMA SectionStep ==
  ASSUME TypeOK, LengthsOK, Section
  PROVE  TypeOK' /\ LengthsOK'
<1>1. current \in Request /\ current # None /\ Len(current.second) <= MaxSections
  BY Parts DEF Section, CurrentOK
<1>2. current.second \in Seq(Entry) /\ current.second # <<>>
  BY <1>1, RequestFields DEF Section
<1>3. /\ Head(current.second) \in Entry /\ Tail(current.second) \in Seq(Entry)
      /\ Len(Tail(current.second)) <= MaxSections
  BY <1>1, <1>2, Numbers
<1>4. current' = [current EXCEPT !.second = Tail(current.second)] /\ current.kind = "chunks"
  BY DEF Section
<1>5. current.first \in Seq(Entry) /\ current.second \in Seq(Entry)
  BY <1>1, RequestFields
<1>6. /\ current' \in Request /\ current'.kind = "chunks"
      /\ Len(current'.second) <= MaxSections
  BY <1>1, <1>3, <1>4, <1>5, OtherLists
<1> QED
  BY <1>1, <1>3, <1>6, TurnStep DEF Section

LEMMA EndEntitiesStep ==
  ASSUME TypeOK, LengthsOK, EndEntities
  PROVE  TypeOK' /\ LengthsOK'
<1>1. /\ WireOK' /\ CurrentOK' /\ ChannelOK' /\ current' # None
      /\ current'.kind = current.kind
  BY Parts DEF EndEntities, WireOK, CurrentOK, ChannelOK
<1>2. buf \in Seq(Written) /\ length \in Nat /\ open
  BY Parts DEF EndEntities, BufOK
<1>3. buf' = Append(buf, Sentinel) /\ length' = length + LongLen /\ open' = FALSE
  BY DEF EndEntities
<1>4. buf' \in Seq(Written) /\ length' \in Nat
  BY <1>2, <1>3, WrittenTyped DEF LongLen
<1>5. BufOK'
  BY <1>1, <1>3, <1>4 DEF BufOK
<1>6. Filled(length, open) => Filled(length', open')
  BY <1>2, <1>3, Numbers DEF Filled, LongLen
<1>7. LengthsOK'
  BY <1>1, <1>6 DEF LengthsOK, Filling, ChunkPayloadsFit, EndEntities
<1> QED
  BY <1>1, <1>5, <1>7, Parts

\* The last payload of a request, of either kind.
LEMMA FinishStep ==
  ASSUME TypeOK, LengthsOK, NEW d \in Seq(Written), NEW n \in Nat, current # None,
         Deliver(current.kind, d, n),
         Roomy /\ current.kind = "chunks" => n <= PayloadLimit,
         current' = None, buf' = <<>>, length' = 0, open' \in BOOLEAN, got' = <<>>,
         UNCHANGED <<requests, waiting>>
  PROVE  TypeOK' /\ LengthsOK'
<1>1. WireOK' /\ CurrentOK' /\ BufOK'
  BY Parts DEF WireOK, CurrentOK, BufOK
<1>2. current.kind \in Kinds
  BY Parts, RequestFields DEF CurrentOK
<1>3. ChannelOK' /\ (Roomy => ChunkPayloadsFit')
  BY <1>2, Parts, Delivered DEF LengthsOK
<1> QED
  BY <1>1, <1>3, Parts DEF LengthsOK, Filling

LEMMA FinishSteps ==
  ASSUME TypeOK, LengthsOK, FinishChunks \/ FinishEntities
  PROVE  TypeOK' /\ LengthsOK'
<1>1. buf \in Seq(Written) /\ length \in Nat /\ open \in BOOLEAN
  BY Parts DEF BufOK
<1>2. CASE FinishChunks
  <2>1. Flushed(buf, TRUE) \in Seq(Written)
    <3>1. current.id \in Ids
      BY <1>2, Parts, RequestFields DEF FinishChunks, CurrentOK
    <3> QED
      BY <1>1, <3>1, FlushTyped
  <2>2. FlushedLen(length) \in Nat /\ (Roomy => FlushedLen(length) <= PayloadLimit)
    BY <1>1, <1>2, FlushLength DEF LengthsOK, Filling, FinishChunks
  <2> QED
    BY <1>2, <2>1, <2>2, FinishStep DEF FinishChunks
<1>3. CASE FinishEntities
  <2>1. current.id \in Ids /\ Len(buf) \in Nat
    BY <1>1, <1>3, Parts, RequestFields DEF FinishEntities, CurrentOK
  <2>2. BatchData(current.id, TRUE, buf) \in Seq(Written)
    BY <1>1, <2>1, WrittenTyped, Pieces DEF BatchData
  <2>3. BatchLen(buf, length) \in Nat
    BY <1>1, BatchLength
  <2> QED
    BY <1>1, <1>3, <2>2, <2>3, FinishStep DEF FinishEntities
<1> QED
  BY <1>2, <1>3

LEMMA AddEntityTyped ==
  ASSUME TypeOK, LengthsOK, current # None, current.kind = "entities",
         NEW e \in Entry, AddEntity(e)
  PROVE  /\ buf' \in Seq(Written) /\ length' \in Nat
         /\ ChannelOK'
         /\ Roomy => ChunkPayloadsFit'
<1>1. /\ buf \in Seq(Written) /\ length \in Nat /\ ChannelOK
      /\ current \in Request
  BY Parts, Zenon DEF BufOK, CurrentOK
<1>2. /\ current.id \in Ids /\ "entities" \in Kinds /\ e.length \in Nat
      /\ Item(e) \in Written
  BY <1>1, RequestFields, EntryLength, WrittenTyped
<1>3. /\ <<Item(e)>> \in Seq(Written) /\ <<>> \in Seq(Written)
      /\ Append(buf, Item(e)) \in Seq(Written)
  BY <1>1, <1>2, Pieces
<1>4. \A b \in Seq(Written) : BatchData(current.id, FALSE, b) \in Seq(Written)
  <2>1. \A b \in Seq(Written) : Len(b) \in Nat
    OBVIOUS
  <2> QED
    BY <1>2, <2>1, WrittenTyped, Pieces DEF BatchData
<1>5. CASE /\ Deliver("entities", BatchData(current.id, FALSE, <<Item(e)>>),
                                  BatchLen(<<Item(e)>>, e.length))
           /\ UNCHANGED <<buf, length>>
  BY <1>1, <1>2, <1>3, <1>4, <1>5, BatchLength, Delivered DEF LengthsOK
<1>6. CASE /\ Deliver("entities", BatchData(current.id, FALSE, buf), BatchLen(buf, length))
           /\ buf' = Append(BatchSent(buf), Item(e))
           /\ length' = BytesSent(length) + e.length
  <2>1. buf' \in Seq(Written) /\ length' \in Nat
    BY <1>2, <1>3, <1>6 DEF BatchSent, BytesSent
  <2> QED
    BY <1>1, <1>2, <1>4, <1>6, <2>1, BatchLength, Delivered DEF LengthsOK
<1>7. CASE buf' = Append(buf, Item(e)) /\ length' = length + e.length /\ UNCHANGED channel
  BY <1>1, <1>2, <1>3, <1>7 DEF LengthsOK, ChannelOK, ChunkPayloadsFit
<1> QED
  BY <1>5, <1>6, <1>7 DEF AddEntity

LEMMA EntityFoundStep ==
  ASSUME TypeOK, LengthsOK, EntityFound
  PROVE  TypeOK' /\ LengthsOK'
<1>1. /\ current \in Request /\ current # None /\ current.kind = "entities"
      /\ Len(current.second) <= MaxSections
  BY Parts DEF EntityFound, CurrentOK
<1>2. current.first \in Seq(Entry) /\ current.first # <<>>
  BY <1>1, RequestFields DEF EntityFound
<1>3. Head(current.first) \in Entry /\ Tail(current.first) \in Seq(Entry)
  BY <1>2
<1>4. current' = [current EXCEPT !.first = Tail(current.first)]
  BY DEF EntityFound
<1>5. /\ current' \in Request /\ current'.kind = "entities" /\ current' # None
      /\ Len(current'.second) <= MaxSections
  BY <1>1, <1>3, <1>4, OtherLists, RequestFields
<1>6. WireOK' /\ CurrentOK'
  BY <1>5, Parts DEF EntityFound, WireOK, CurrentOK
<1>7. open' \in BOOLEAN
  BY Parts DEF EntityFound, BufOK
<1>8. CASE Skip
  <2>1. BufOK' /\ ChannelOK'
    BY <1>5, <1>7, <1>8, Parts DEF Skip, BufOK, ChannelOK
  <2>2. LengthsOK'
    BY <1>5, <1>8 DEF Skip, LengthsOK, Filling, ChunkPayloadsFit
  <2> QED
    BY <1>6, <2>1, <2>2, Parts
<1>9. CASE AddEntity(Head(current.first))
  <2>1. /\ buf' \in Seq(Written) /\ length' \in Nat
        /\ ChannelOK'
        /\ Roomy => ChunkPayloadsFit'
    BY <1>1, <1>3, <1>9, AddEntityTyped
  <2>2. BufOK'
    BY <1>5, <1>7, <2>1 DEF BufOK
  <2>3. LengthsOK'
    BY <1>5, <2>1 DEF LengthsOK, Filling
  <2> QED
    BY <1>6, <2>1, <2>2, <2>3, Parts
<1> QED
  BY <1>8, <1>9 DEF EntityFound

LEMMA BeginStep ==
  ASSUME TypeOK, LengthsOK, Begin
  PROVE  TypeOK' /\ LengthsOK'
<1> DEFINE r == Head(requests)
<1>1. r \in Request /\ Tail(requests) \in Seq(Request)
  BY Parts DEF Begin, WireOK
<1>2. WireOK' /\ ChannelOK' /\ (ChunkPayloadsFit => ChunkPayloadsFit')
  BY <1>1, Parts DEF Begin, WireOK, ChannelOK, ChunkPayloadsFit
<1>3. BeginChunks(r) \/ BeginEntities(r)
  BY DEF Begin
<1> HIDE DEF r
<1>4. /\ r.first \in Seq(Entry) /\ r.second \in Seq(Entry) /\ <<>> \in Seq(Entry)
      /\ r.id \in Ids /\ Len(<<>>) <= MaxSections
  BY <1>1, RequestFields, Numbers
<1>5. CASE BeginChunks(r)
  <2> DEFINE f == IF r.allowed /\ r.blockEntities THEN r.first ELSE <<>>
             t == IF r.allowed THEN Capped(r.second) ELSE <<>>
  <2>1. f \in Seq(Entry) /\ t \in Seq(Entry) /\ Len(t) <= MaxSections
    BY <1>4, CappedTyped
  <2>2. current' = [r EXCEPT !.first = f, !.second = t]
    BY <1>5 DEF BeginChunks
  <2>3. r.kind = "chunks" /\ buf' = <<Id(r.id)>> /\ length' = LongLen /\ open' = TRUE
    BY <1>5 DEF BeginChunks
  <2> HIDE DEF f, t
  <2>4. CurrentOK' /\ current' # None
    <3>1. current' \in Request /\ current'.second = t
      BY <1>1, <2>1, <2>2, OtherLists
    <3> QED
      BY <2>1, <3>1, NoneAssumption DEF CurrentOK
  <2>5. buf' \in Seq(Written) /\ length' \in Nat
    BY <1>4, <2>3, WrittenTyped, Pieces DEF LongLen
  <2>6. BufOK'
    BY <2>3, <2>4, <2>5 DEF BufOK
  <2>7. Filled(length', open')
    BY <2>3, Numbers DEF Filled, LongLen
  <2> QED
    BY <1>2, <2>4, <2>6, <2>7, Parts DEF LengthsOK, Filling
<1>6. CASE BeginEntities(r)
  <2> DEFINE f == IF r.allowed THEN r.first ELSE <<>>
             t == <<>>
  <2>1. f \in Seq(Entry) /\ t \in Seq(Entry) /\ Len(t) <= MaxSections
    BY <1>4
  <2>2. current' = [r EXCEPT !.first = f, !.second = t]
    BY <1>6 DEF BeginEntities
  <2>3. r.kind = "entities" /\ buf' = <<>> /\ length' = 0 /\ open' = FALSE
    BY <1>6 DEF BeginEntities
  <2> HIDE DEF f, t
  <2>5. CurrentOK' /\ current' # None /\ current'.kind = "entities"
    <3>1. current' \in Request /\ current'.second = t /\ current'.kind = r.kind
      <4>1. [r EXCEPT !.first = f, !.second = t] \in Request
        BY <1>1, <2>1, OtherLists
      <4>2. [r EXCEPT !.first = f, !.second = t].second = t
        BY <1>1 DEF Request
      <4>3. [r EXCEPT !.first = f, !.second = t].kind = r.kind
        BY <1>1 DEF Request
      <4> QED
        BY <2>2, <4>1, <4>2, <4>3, Zenon
    <3>2. current' # None /\ current'.kind = "entities"
      BY <2>3, <3>1, NoneAssumption, Zenon
    <3>3. Len(current'.second) <= MaxSections
      BY <2>1, <3>1, Zenon
    <3> QED
      BY <3>1, <3>2, <3>3, Zenon DEF CurrentOK
  <2>6. BufOK'
    <3>1. <<>> \in Seq(Written) /\ 0 \in Nat /\ FALSE \in BOOLEAN
      OBVIOUS
    <3> QED
      BY <2>3, <3>1, Zenon DEF BufOK
  <2>7. "entities" # "chunks"
    OBVIOUS
  <2>8. LengthsOK'
    BY <1>2, <2>5, <2>7, Zenon DEF LengthsOK, Filling
  <2> QED
    BY <1>2, <2>5, <2>6, <2>8, Parts, Zenon
<1> QED
  BY <1>3, <1>5, <1>6

LEMMA AskingTyped ==
  ASSUME NEW i \in Ids, NEW r \in Asking(i)
  PROVE  r \in Request
<1>1. ASSUME NEW l \in Lists, NEW q \in Entries(l) PROVE q \in Seq(Entry)
  <2>0. PICK n \in 0 .. MaxAsked :
          q \in {[k \in 1 .. n |-> [list |-> l, at |-> k, length |-> f[k]]]
                  : f \in [1 .. n -> Lengths]}
    BY <1>1, Zenon DEF Entries
  <2>1. PICK f \in [1 .. n -> Lengths] :
          q = [k \in 1 .. n |-> [list |-> l, at |-> k, length |-> f[k]]]
    BY <2>0, Zenon
  <2>2. n \in Nat
    BY ResponsesAssumption
  <2>3. \A k \in 1 .. n : [list |-> l, at |-> k, length |-> f[k]] \in Entry
    BY <2>2 DEF Entry
  <2>4. q \in [1 .. n -> Entry]
    BY <2>1, <2>3
  <2> QED
    BY <2>2, <2>4, SeqDef
<1>2. {"block entities", "sections", "entities"} \subseteq Lists
  BY DEF Lists
<1>3. <<>> \in Seq(Entry)
  OBVIOUS
<1>4. \/ r \in [id: {i}, kind: Kinds \cap {"chunks"}, allowed: BOOLEAN, blockEntities: BOOLEAN,
                first: Entries("block entities"), second: Entries("sections")]
      \/ r \in [id: {i}, kind: Kinds \cap {"entities"}, allowed: BOOLEAN, blockEntities: {FALSE},
                first: Entries("entities"), second: {<<>>}]
  BY DEF Asking
<1>5. /\ Entries("block entities") \subseteq Seq(Entry)
      /\ Entries("sections") \subseteq Seq(Entry)
      /\ Entries("entities") \subseteq Seq(Entry)
  BY <1>1, <1>2, Zenon
<1> QED
  BY <1>3, <1>4, <1>5 DEF Request

LEMMA ClientSteps ==
  ASSUME TypeOK, LengthsOK, ClientReceive \/ \E i \in Ids : ClientAsk(i)
  PROVE  TypeOK' /\ LengthsOK'
<1>1. CASE ClientReceive
  <2>1. channel' = Tail(channel) /\ channel \in Seq(Payload) /\ channel # <<>>
    BY <1>1, Parts DEF ClientReceive, ChannelOK
  <2>2. ChannelOK' /\ (ChunkPayloadsFit => ChunkPayloadsFit')
    <3>1. \A n \in DOMAIN channel' : n + 1 \in DOMAIN channel /\ channel'[n] = channel[n + 1]
      BY <2>1
    <3> QED
      BY <2>1, <3>1 DEF ChannelOK, ChunkPayloadsFit
  <2>3. waiting' \in SUBSET Ids /\ Len(got') = 1
    BY <1>1, Parts DEF ClientReceive, WireOK
  <2>4. WireOK' /\ CurrentOK' /\ BufOK'
    BY <1>1, <2>3, Parts DEF ClientReceive, WireOK, CurrentOK, BufOK
  <2> QED
    BY <1>1, <2>2, <2>4, Parts DEF ClientReceive, LengthsOK, Filling
<1>2. ASSUME NEW i \in Ids, ClientAsk(i)
      PROVE  TypeOK' /\ LengthsOK'
  <2>1. PICK r \in Asking(i) : requests' = Append(requests, r)
    BY <1>2 DEF ClientAsk
  <2>2. r \in Request
    BY <2>1, AskingTyped
  <2>3. requests' \in Seq(Request) /\ waiting' \in SUBSET Ids /\ got' = <<>>
    BY <1>2, <2>1, <2>2, Parts DEF ClientAsk, WireOK
  <2>4. WireOK' /\ CurrentOK' /\ BufOK' /\ ChannelOK'
    BY <1>2, <2>3, Parts DEF ClientAsk, WireOK, CurrentOK, BufOK, ChannelOK
  <2> QED
    BY <1>2, <2>4, Parts DEF ClientAsk, LengthsOK, Filling, ChunkPayloadsFit
<1> QED
  BY <1>1, <1>2

LEMMA ResponsesInductive ==
  Spec => [](TypeOK /\ LengthsOK)
<1>1. Init => TypeOK /\ LengthsOK
  <2> SUFFICES ASSUME Init PROVE TypeOK /\ LengthsOK
    OBVIOUS
  <2>1. WireOK
    BY DEF Init, WireOK
  <2>2. CurrentOK
    BY DEF Init, CurrentOK
  <2>3. BufOK
    <3>1. <<>> \in Seq(Written) /\ 0 \in Nat /\ FALSE \in BOOLEAN
      OBVIOUS
    <3> QED
      BY <3>1, Zenon DEF Init, BufOK
  <2>4. ChannelOK
    BY DEF Init, ChannelOK
  <2>5. LengthsOK
    <3>1. ~Filling => current # None
      BY DEF Filling
    <3>2. DOMAIN channel = {}
      BY DEF Init
    <3> QED
      BY <3>1, <3>2, Zenon DEF Init, LengthsOK, ChunkPayloadsFit
  <2> QED
    BY <2>1, <2>2, <2>3, <2>4, <2>5, Parts
<1>2. TypeOK /\ LengthsOK /\ [Next]_vars => (TypeOK /\ LengthsOK)'
  <2> SUFFICES ASSUME TypeOK, LengthsOK, [Next]_vars PROVE TypeOK' /\ LengthsOK'
    OBVIOUS
  <2>1. CASE UNCHANGED vars
    BY <2>1, Parts DEF vars, WireOK, CurrentOK, BufOK, ChannelOK, LengthsOK, Filling,
                       ChunkPayloadsFit
  <2>2. CASE Next
    BY <2>2, BeginStep, BlockEntityStep, EndEntitiesStep, SectionStep, FinishSteps,
       EntityFoundStep, ClientSteps, Zenon DEF Next, Handler
  <2> QED
    BY <2>1, <2>2
<1> QED
  BY <1>1, <1>2, PTL DEF Spec

\* Every reachable state is well-formed, and no request is served more sections than
\* MAX_SECTIONS_PER_REQUEST (request_chunk_data).
THEOREM ResponsesTyped == Spec => []TypeOK
BY ResponsesInductive, PTL

\* However many entries a chunk request asks for, and however they fill the payloads,
\* none is longer than the limit, if no entry alone is: the leeway covers the id,
\* the sentinels and the flag that ChunkResponse writes around the entries.
THEOREM ChunksFit == Roomy => (Spec => []ChunkPayloadsFit)
<1>1. Roomy /\ LengthsOK => ChunkPayloadsFit
  BY DEF LengthsOK
<1>2. Spec => []LengthsOK
  BY ResponsesInductive, PTL
<1> SUFFICES ASSUME Roomy PROVE Spec => []ChunkPayloadsFit
  OBVIOUS
<1>3. LengthsOK => ChunkPayloadsFit
  BY <1>1
<1> QED
  BY <1>2, <1>3, PTL

-----------------------------------------------------------------------------
(* The bytes of a batch.  While entities are gathered the buffer holds nothing *)
(* but entries, and length is the sum of theirs.                               *)

\* The lengths of the entries of a batch.
Lens(b) == [k \in DOMAIN b |-> b[k].entry.length]

OnlyItems(b) == \A k \in DOMAIN b : \E e \in Entry : b[k] = Item(e)
Measured(b, n) == OnlyItems(b) /\ n = SumOf(Lens(b))

BatchOK == current # None /\ current.kind = "entities" => Measured(buf, length)

LEMMA NoneMeasured == Measured(<<>>, 0)
<1>1. Lens(<<>>) = <<>>
  BY DEF Lens
<1> QED
  BY <1>1, SumOfNone DEF Measured, OnlyItems

LEMMA ItemMeasured ==
  ASSUME NEW b \in Seq(Written), NEW n, Measured(b, n), NEW e \in Entry
  PROVE  Measured(Append(b, Item(e)), n + e.length)
<1> DEFINE c == Append(b, Item(e))
           s == Lens(b)
<1>1. Len(b) \in Nat /\ DOMAIN b = 1 .. Len(b) /\ e.length \in Int
  BY EntryLength
<1>2. \A k \in 1 .. Len(b) : b[k].entry.length \in Int
  <2> SUFFICES ASSUME NEW k \in 1 .. Len(b) PROVE b[k].entry.length \in Int
    OBVIOUS
  <2>1. PICK d \in Entry : b[k] = Item(d)
    BY <1>1 DEF Measured, OnlyItems
  <2> QED
    BY <2>1, EntryLength DEF Item
<1>3. s \in Seq(Int) /\ Len(s) = Len(b)
  BY <1>1, <1>2 DEF Lens
<1>4. Item(e) \in Written
  BY WrittenTyped
<1>5. /\ DOMAIN c = 1 .. Len(b) + 1 /\ c[Len(b) + 1] = Item(e)
      /\ \A k \in 1 .. Len(b) : c[k] = b[k]
  BY <1>1, <1>4
<1> HIDE DEF c
<1>6. Item(e).entry.length = e.length
  BY DEF Item
<1>7. Lens(c) = Append(s, e.length)
  <2>1. Lens(c) = [k \in 1 .. Len(b) + 1 |-> c[k].entry.length]
    BY <1>5 DEF Lens
  <2>2. \A k \in 1 .. Len(b) : s[k] = b[k].entry.length
    BY <1>1 DEF Lens
  <2> HIDE DEF s
  <2>3. Append(s, e.length) = [k \in 1 .. Len(b) + 1 |-> IF k = Len(b) + 1 THEN e.length
                                                      ELSE s[k]]
    BY <1>1, <1>3
  <2>4. \A k \in 1 .. Len(b) + 1 :
          c[k].entry.length = IF k = Len(b) + 1 THEN e.length ELSE s[k]
    BY <1>1, <1>5, <1>6, <2>2
  <2> QED
    BY <2>1, <2>3, <2>4
<1>8. SumOf(Lens(c)) = n + e.length
  BY <1>1, <1>3, <1>7, SumOfAppend, Zenon DEF Measured
<1>9. OnlyItems(c)
  BY <1>1, <1>5 DEF OnlyItems, Measured
<1> QED
  BY <1>8, <1>9 DEF Measured, c

\* One turn of the loop over the entities.
LEMMA EntityFoundMeasured ==
  ASSUME TypeOK, BatchOK, EntityFound
  PROVE  BatchOK'
<1> DEFINE e == Head(current.first)
<1>1. /\ current \in Request /\ buf \in Seq(Written) /\ length \in Nat
      /\ Measured(buf, length)
  BY Parts DEF EntityFound, CurrentOK, BufOK, BatchOK
<1>2. e \in Entry
  BY <1>1, RequestFields DEF EntityFound
<1>3. e.length \in Nat
  BY <1>2, EntryLength
<1>4. Skip \/ AddEntity(e)
  BY DEF EntityFound
<1> HIDE DEF e
<1>5. CASE UNCHANGED <<buf, length>>
  BY <1>1, <1>5 DEF BatchOK
<1>6. CASE buf' = Append(BatchSent(buf), Item(e)) /\ length' = BytesSent(length) + e.length
  <2>1. <<>> \in Seq(Written)
    OBVIOUS
  <2>2. Measured(Append(<<>>, Item(e)), 0 + e.length)
    BY <1>2, <2>1, NoneMeasured, ItemMeasured
  <2> QED
    BY <1>6, <2>2 DEF BatchOK, BatchSent, BytesSent
<1>7. CASE buf' = Append(buf, Item(e)) /\ length' = length + e.length
  <2>1. Measured(Append(buf, Item(e)), length + e.length)
    BY <1>1, <1>2, ItemMeasured
  <2> QED
    BY <1>7, <2>1, Zenon DEF BatchOK
<1> QED
  BY <1>4, <1>5, <1>6, <1>7 DEF Skip, AddEntity

LEMMA BeginMeasured ==
  ASSUME TypeOK, Begin
  PROVE  BatchOK'
<1> DEFINE r == Head(requests)
<1>1. r \in Request
  BY Parts DEF Begin, WireOK
<1>2. BeginChunks(r) \/ BeginEntities(r)
  BY DEF Begin
<1> HIDE DEF r
<1>3. CASE BeginChunks(r)
  <2>1. current'.kind = "chunks"
    BY <1>1, <1>3 DEF BeginChunks, Request
  <2> QED
    BY <2>1 DEF BatchOK
<1>4. CASE BeginEntities(r)
  BY <1>4, NoneMeasured DEF BeginEntities, BatchOK
<1> QED
  BY <1>2, <1>3, <1>4

\* A turn over a chunk request, or its last payload.
LEMMA OtherTurnsMeasured ==
  ASSUME TypeOK, BatchOK,
         BlockEntity \/ EndEntities \/ Section \/ FinishChunks \/ FinishEntities
  PROVE  BatchOK'
<1>1. CASE FinishChunks \/ FinishEntities
  BY <1>1 DEF FinishChunks, FinishEntities, BatchOK
<1>2. CASE BlockEntity \/ EndEntities \/ Section
  <2>1. current \in Request /\ current.kind = "chunks"
    BY <1>2, Parts DEF BlockEntity, EndEntities, Section, CurrentOK
  <2>2. \/ current' = current
        \/ current' = [current EXCEPT !.first = Tail(current.first)]
        \/ current' = [current EXCEPT !.second = Tail(current.second)]
    BY <1>2 DEF BlockEntity, EndEntities, Section
  <2>3. current'.kind = "chunks"
    BY <2>1, <2>2 DEF Request
  <2> QED
    BY <2>3 DEF BatchOK
<1> QED
  BY <1>1, <1>2

LEMMA BatchInductive == Spec => []BatchOK
<1>1. Init => BatchOK
  BY DEF Init, BatchOK
<1>2. TypeOK /\ BatchOK /\ [Next]_vars => BatchOK'
  <2> SUFFICES ASSUME TypeOK, BatchOK, [Next]_vars PROVE BatchOK'
    OBVIOUS
  <2>1. CASE UNCHANGED vars
    BY <2>1 DEF vars, BatchOK
  <2>2. CASE ClientReceive \/ \E i \in Ids : ClientAsk(i)
    BY <2>2 DEF ClientReceive, ClientAsk, BatchOK
  <2> QED
    BY <2>1, <2>2, EntityFoundMeasured, BeginMeasured, OtherTurnsMeasured, Zenon
       DEF Next, Handler
<1> QED
  BY <1>1, <1>2, ResponsesInductive, PTL DEF Spec

\* The bytes a batch of entities counts are those of the NBT it holds, through every
\* entry that goes alone, every batch that is sent before it is full and every batch
\* begun anew (request_entity_data), for any number of entities of any length.
THEOREM BatchesAreMeasured == Spec => []BatchIsMeasured
<1>1. BatchOK => BatchIsMeasured
  BY Zenon DEF BatchOK, BatchIsMeasured, Measured, SumOf, Lens
<1> QED
  BY <1>1, BatchInductive, PTL

=============================================================================
