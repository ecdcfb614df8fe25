------------------------------ MODULE Responses ------------------------------
(***************************************************************************)
(* The answers to axiom:request_chunk_data and axiom:request_entity_data   *)
(* (src/src/handlers.rs): lists of entries of any length, cut into payloads*)
(* of a limited size.                                                      *)
(*                                                                         *)
(* An entry is known by its list, its place in the request and its encoded *)
(* length.  A payload is the sequence of what is written to it, so that a  *)
(* list that is closed too early, late or twice shows when the client      *)
(* reads it.  A request is handled in one callback; each turn of its loops *)
(* is a step, and meanwhile the client sends and receives.                 *)
(***************************************************************************)
EXTENDS Integers, SequencesExt, BagsExt

CONSTANTS
  Ids,            \* names the client gives to its requests
  Lengths,        \* encoded lengths of entries; 0 when there is nothing to send
  MaxResponse,    \* MAX_RESPONSE_BYTES
  PayloadLimit,   \* what one clientbound payload may carry
  MaxSections,    \* MAX_SECTIONS_PER_REQUEST
  MaxAsked,       \* bound: the length of a list in a request
  MaxInFlight,    \* bound: payloads on their way
  Kinds,          \* which of the two requests the client makes
  None

ASSUME ResponsesAssumption ==
  /\ Lengths \subseteq Nat
  /\ MaxResponse \in Nat
  /\ PayloadLimit \in Nat
  /\ MaxSections \in Nat
  /\ MaxAsked \in Nat
  /\ Kinds \subseteq {"chunks", "entities"}
  /\ MaxInFlight \in Nat

\* Lengths on the wire: an i64 (the id, a sentinel), a bool, a UUID, a VarInt.
LongLen == 8
BoolLen == 1
UuidLen == 16
VarLen(n) == IF n < 128 THEN 1 ELSE IF n < 16384 THEN 2 ELSE 3

Lists == {"block entities", "sections", "entities"}
Entry == [list: Lists, at: Nat, length: Lengths]

\* What is written to a payload, one after the other.
Sentinel == [write |-> "sentinel"]
Id(i)    == [write |-> "id", id |-> i]
Flag(b)  == [write |-> "flag", finished |-> b]
Count(n) == [write |-> "count", count |-> n]
Item(e)  == [write |-> "entry", entry |-> e]
Written  == [write: {"sentinel"}] \cup [write: {"id"}, id: Ids]
       \cup [write: {"flag"}, finished: BOOLEAN] \cup [write: {"count"}, count: Nat]
       \cup [write: {"entry"}, entry: Entry]
Payload  == [kind: Kinds, data: Seq(Written), length: Nat]

\* first and second are the lists of the request (UUIDs are a list of their own),
\* allowed whether it will be answered at all, blockEntities whether the first is.
Request == [id: Ids, kind: Kinds, allowed: BOOLEAN, blockEntities: BOOLEAN,
            first: Seq(Entry), second: Seq(Entry)]

ASSUME NoneAssumption == None \notin Request

VARIABLES
  requests,  \* requests on their way to the server
  current,   \* the request being handled, with what is left of its lists, or None
  buf,       \* ChunkResponse::buf, or the batch of entities
  length,    \* buf.len(), or batch_bytes
  open,      \* entities_open
  channel,   \* payloads on their way to the client
  waiting,   \* requests the client waits for
  got        \* what the client read in the last step

vars == <<requests, current, buf, length, open, channel, waiting, got>>

\* Every variable has its type; the buffer is empty between requests, and no
\* request is served more sections than a tick can bear.
TypeOK ==
  /\ requests \in Seq(Request)
  /\ current \in Request \cup {None}
  /\ buf \in Seq(Written)
  /\ length \in Nat
  /\ open \in BOOLEAN
  /\ channel \in Seq(Payload)
  /\ waiting \in SUBSET Ids
  /\ Len(got) <= 1
  /\ current = None => buf = <<>> /\ length = 0
  /\ current # None => Len(current.second) <= MaxSections
-----------------------------------------------------------------------------
Init ==
  /\ requests = <<>>
  /\ current = None
  /\ buf = <<>>
  /\ length = 0
  /\ open = FALSE
  /\ channel = <<>>
  /\ waiting = {}
  /\ got = <<>>

Deliver(kind, data, n) ==
  channel' = Append(channel, [kind |-> kind, data |-> data, length |-> n])

Room == Len(channel) < MaxInFlight

-----------------------------------------------------------------------------
(* ChunkResponse. *)

\* flush: close the lists that are still open, and say whether this was the last.
\* Mutated: the second list is left open while the first one is.
FlushedHalf(b, finished) == b \o <<Sentinel, Flag(finished)>>
Flushed(b, finished) ==
  b \o (IF open THEN <<Sentinel>> ELSE <<>>) \o <<Sentinel, Flag(finished)>>
FlushedLen(n) == n + (IF open THEN LongLen ELSE 0) + LongLen + BoolLen

\* What the next payload starts with.
Reopened(i) == <<Id(i)>> \o (IF open THEN <<>> ELSE <<Sentinel>>)
ReopenedLen == LongLen + (IF open THEN 0 ELSE LongLen)

\* push.
\* Mutated: the entry that is about to be added is not counted.
FitsBlindly(n) == length <= MaxResponse
Fits(n)        == length + n <= MaxResponse

Push(e) ==
  \/ /\ Fits(e.length)
     /\ buf' = Append(buf, Item(e))
     /\ length' = length + e.length
     /\ UNCHANGED channel
  \/ /\ ~Fits(e.length)
     /\ Room
     /\ Deliver("chunks", Flushed(buf, FALSE), FlushedLen(length))
     /\ buf' = Append(Reopened(current.id), Item(e))
     /\ length' = ReopenedLen + e.length

Skip == UNCHANGED <<buf, length, channel>>

\* Mutated: the request is served whole.
Uncapped(sections) == sections
Capped(sections)   ==
  SubSeq(sections, 1, IF Len(sections) < MaxSections THEN Len(sections) ELSE MaxSections)

\* request_chunk_data, up to the loops.
\* Mutated: a refused request is forgotten.
BeginUnlessRefused(r) ==
  /\ r.kind = "chunks"
  /\ current' = IF r.allowed THEN [r EXCEPT !.second = Capped(@)] ELSE None
  /\ buf' = IF r.allowed THEN <<Id(r.id)>> ELSE <<>>
  /\ length' = IF r.allowed THEN LongLen ELSE 0
  /\ open' = r.allowed
BeginChunks(r) ==
  /\ r.kind = "chunks"
  /\ current' = [r EXCEPT !.first = IF r.allowed /\ r.blockEntities THEN @ ELSE <<>>,
                          !.second = IF r.allowed THEN Capped(@) ELSE <<>>]
  /\ buf' = <<Id(r.id)>>
  /\ length' = LongLen
  /\ open' = TRUE

\* One turn of the first loop: nothing to send where there is no block entity.
BlockEntity ==
  /\ current # None
  /\ current.kind = "chunks"
  /\ open
  /\ current.first # <<>>
  /\ IF Head(current.first).length = 0 THEN Skip ELSE Push(Head(current.first))
  /\ current' = [current EXCEPT !.first = Tail(@)]
  /\ UNCHANGED <<requests, open, waiting>>
  /\ got' = <<>>

\* end_entities.  A refusal goes without: its one flush closes both lists.
EndEntities ==
  /\ current # None
  /\ current.kind = "chunks"
  /\ current.allowed
  /\ open
  /\ current.first = <<>>
  /\ buf' = Append(buf, Sentinel)
  /\ length' = length + LongLen
  /\ open' = FALSE
  /\ got' = <<>>
  /\ UNCHANGED <<requests, current, channel, waiting>>

\* One turn of the second loop: a section that cannot be encoded is left out.
Section ==
  /\ current # None
  /\ current.kind = "chunks"
  /\ ~open
  /\ current.second # <<>>
  /\ IF Head(current.second).length = 0 THEN Skip ELSE Push(Head(current.second))
  /\ current' = [current EXCEPT !.second = Tail(@)]
  /\ UNCHANGED <<requests, open, waiting>>
  /\ got' = <<>>

\* finish.
FinishChunks ==
  /\ current # None
  /\ current.kind = "chunks"
  /\ open = ~current.allowed
  /\ current.second = <<>>
  /\ Room
  /\ Deliver("chunks", Flushed(buf, TRUE), FlushedLen(length))
  /\ current' = None
  /\ buf' = <<>>
  /\ length' = 0
  /\ open' = FALSE
  /\ got' = <<>>
  /\ UNCHANGED <<requests, waiting>>

-----------------------------------------------------------------------------
(* request_entity_data: the batch, and its bytes of NBT. *)

BatchData(i, finished, batch) == <<Id(i), Flag(finished), Count(Len(batch))>> \o batch
BatchLen(batch, bytes) ==
  LongLen + BoolLen + VarLen(Len(batch)) + UuidLen * Len(batch) + bytes

BeginEntities(r) ==
  /\ r.kind = "entities"
  /\ current' = [r EXCEPT !.first = IF r.allowed THEN @ ELSE <<>>, !.second = <<>>]
  /\ buf' = <<>>
  /\ length' = 0
  /\ open' = FALSE

\* One turn of the loop over what the world holds: players, and UUIDs nobody has,
\* are passed over; NBT too big to share a payload goes at once.
\* Mutated: the batch is not cleared once it was sent; its bytes are not.
BatchKept(batch) == batch
BatchSent(batch) == <<>>
BytesKept(bytes) == bytes
BytesSent(bytes) == 0

AddEntity(e) ==
  \/ /\ e.length >= MaxResponse
     /\ Room
     /\ Deliver("entities", BatchData(current.id, FALSE, <<Item(e)>>),
                            BatchLen(<<Item(e)>>, e.length))
     /\ UNCHANGED <<buf, length>>
  \/ /\ e.length < MaxResponse
     /\ ~Fits(e.length)
     /\ Room
     /\ Deliver("entities", BatchData(current.id, FALSE, buf), BatchLen(buf, length))
     /\ buf' = Append(BatchSent(buf), Item(e))
     /\ length' = BytesSent(length) + e.length
  \/ /\ e.length < MaxResponse
     /\ Fits(e.length)
     /\ buf' = Append(buf, Item(e))
     /\ length' = length + e.length
     /\ UNCHANGED channel

EntityFound ==
  /\ current # None
  /\ current.kind = "entities"
  /\ current.first # <<>>
  /\ IF Head(current.first).length = 0 THEN Skip ELSE AddEntity(Head(current.first))
  /\ current' = [current EXCEPT !.first = Tail(@)]
  /\ got' = <<>>
  /\ UNCHANGED <<requests, open, waiting>>

FinishEntities ==
  /\ current # None
  /\ current.kind = "entities"
  /\ current.first = <<>>
  /\ Room
  /\ Deliver("entities", BatchData(current.id, TRUE, buf), BatchLen(buf, length))
  /\ current' = None
  /\ buf' = <<>>
  /\ length' = 0
  /\ got' = <<>>
  /\ UNCHANGED <<requests, open, waiting>>

-----------------------------------------------------------------------------
Begin ==
  /\ current = None
  /\ requests # <<>>
  /\ BeginChunks(Head(requests)) \/ BeginEntities(Head(requests))
  /\ requests' = Tail(requests)
  /\ got' = <<>>
  /\ UNCHANGED <<channel, waiting>>

(* The client. *)

Entries(list) ==
  LET lists(n) == {[i \in 1 .. n |-> [list |-> list, at |-> i, length |-> f[i]]]
                     : f \in [1 .. n -> Lengths]}
  IN  UNION {lists(n) : n \in 0 .. MaxAsked}

Asking(i) ==
       [id: {i}, kind: Kinds \cap {"chunks"}, allowed: BOOLEAN, blockEntities: BOOLEAN,
        first: Entries("block entities"), second: Entries("sections")]
  \cup [id: {i}, kind: Kinds \cap {"entities"}, allowed: BOOLEAN, blockEntities: {FALSE},
        first: Entries("entities"), second: {<<>>}]

ClientAsk(i) ==
  /\ i \notin waiting
  /\ \E r \in Asking(i) : requests' = Append(requests, r)
  /\ waiting' = waiting \cup {i}
  /\ got' = <<>>
  /\ UNCHANGED <<current, buf, length, open, channel>>

Marks(data, what) == {n \in DOMAIN data : data[n].write = what}

BagOf(s) == FoldLeft(BagAdd, EmptyBag, s)

\* The entries between two places, as the entries of the list read there.
Between(data, from, to, list) ==
  BagOf([n \in 1 .. to - from - 1 |-> <<list, data[from + n].entry.at>>])

\* The two lists end at the first two sentinels, and the flag comes last.
ReadChunks(data) ==
  LET fst == IF Marks(data, "sentinel") = {} THEN 0 ELSE Min(Marks(data, "sentinel"))
      snd == IF Cardinality(Marks(data, "sentinel")) < 2 THEN 0
             ELSE Min(Marks(data, "sentinel") \ {fst})
  IN  IF snd = 0 \/ snd + 1 # Len(data)
      THEN [id |-> data[1].id, finished |-> FALSE, entries |-> SetToBag({"broken"})]
      ELSE [id       |-> data[1].id,
            finished |-> data[snd + 1].finished,
            entries  |-> Between(data, 1, fst, "block entities")
                         (+) Between(data, fst, snd, "sections")]

ReadEntities(data) ==
  [id       |-> data[1].id,
   finished |-> data[2].finished,
   entries  |-> Between(data, 3, 4 + data[3].count, "entities")]

ClientReceive ==
  /\ channel # <<>>
  /\ LET m == Head(channel)
         read == IF m.kind = "chunks" THEN ReadChunks(m.data) ELSE ReadEntities(m.data)
     IN  /\ got' = <<read>>
         /\ waiting' = IF read.finished THEN waiting \ {read.id} ELSE waiting
  /\ channel' = Tail(channel)
  /\ UNCHANGED <<requests, current, buf, length, open>>

Handler ==
  \/ Begin
  \/ BlockEntity
  \/ EndEntities
  \/ Section
  \/ FinishChunks
  \/ EntityFound
  \/ FinishEntities

Next ==
  \/ Handler
  \/ \E i \in Ids : ClientAsk(i)
  \/ ClientReceive

Spec == Init /\ [][Next]_vars

\* Every request that arrived is handled to its end, and every payload arrives.
FairSpec == Spec /\ WF_vars(Handler) /\ WF_vars(ClientReceive)
-----------------------------------------------------------------------------
(* What is owed to a request, at every stage of its way. *)

Named(es) ==
  LET there == SelectSeq(es, LAMBDA e : e.length > 0)
  IN  BagOf([n \in DOMAIN there |-> <<there[n].list, there[n].at>>])

\* What the server has to say to a request.
Promise(r) ==
  IF ~r.allowed THEN EmptyBag
  ELSE IF r.kind = "entities" THEN Named(r.first)
  ELSE (IF r.blockEntities THEN Named(r.first) ELSE EmptyBag)
       (+) Named(SelectSeq(r.second, LAMBDA e : e.at <= MaxSections))

ItemsIn(data) ==
  LET items == SelectSeq(data, LAMBDA w : w.write = "entry")
  IN  BagOf([n \in DOMAIN items |-> <<items[n].entry.list, items[n].entry.at>>])

Owed(i) ==
  BagUnion({Promise(requests[n]) : n \in {m \in DOMAIN requests : requests[m].id = i}})
  (+) (IF current = None \/ (current # None /\ current.id # i) THEN EmptyBag
       ELSE Named(current.first) (+) Named(current.second) (+) ItemsIn(buf))
  (+) FoldLeft(LAMBDA b, m : IF m.data[1].id = i THEN b (+) ItemsIn(m.data) ELSE b,
               EmptyBag, channel)

Answers == INSTANCE Answer WITH
  owed <- [i \in Ids |-> Owed(i)]

\* Every entry arrives once, in its own list, for the request it belongs to, and
\* the payload that says it is the last one is: wherever the lists were cut.
AnswersInFull == Answers!Spec

\* No request is left waiting, a refused one neither.
AlwaysAnswered == Answers!Answered

\* The bytes a batch counts are those of its NBT: a count that is not reset would cut
\* every batch short, one that misses an entry would let it outgrow the limit.
BatchIsMeasured ==
  current # None /\ current.kind = "entities" =>
    length = FoldLeft(LAMBDA sum, n : sum + n, 0, [k \in DOMAIN buf |-> buf[k].entry.length])

\* "One clientbound payload may carry a mebibyte" (handlers.rs), sentinels and all:
\* MAX_RESPONSE_BYTES leaves a leeway for what is written around the entries.
ChunkPayloadsFit == \A n \in DOMAIN channel :
  channel[n].kind = "chunks" => channel[n].length <= PayloadLimit

\* The same of the payloads that several entities share.
SharedPayloadsFit == \A n \in DOMAIN channel :
  channel[n].kind = "entities" /\ Cardinality(Marks(channel[n].data, "entry")) > 1
  => channel[n].length <= PayloadLimit
=============================================================================
