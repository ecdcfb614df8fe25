------------------------------- MODULE Answer -------------------------------
(***************************************************************************)
(* What a request for world data is promised: everything the server has to *)
(* say to it arrives, each entry once and in the list it belongs to, spread*)
(* over any number of payloads, and the last payload, which says so, comes *)
(* when nothing is left.  "The client waits on a response for every        *)
(* request, so a refusal still has to be answered" (handlers.rs).          *)
(***************************************************************************)
EXTENDS Naturals, Sequences, Bags

CONSTANT Ids  \* names the client gives to its requests

VARIABLES
  waiting,  \* requests the client waits for
  owed,     \* what has not arrived yet, of each request
  got       \* what the last step brought, as a sequence of at most one payload

avars == <<waiting, owed, got>>

Init == waiting = {} /\ owed = [i \in Ids |-> EmptyBag] /\ got = <<>>

\* The promise is made: any entries, which are owed from now on.
Ask(i) ==
  /\ i \notin waiting
  /\ waiting' = waiting \cup {i}
  /\ IsABag(owed'[i])
  /\ owed' = [owed EXCEPT ![i] = owed'[i]]
  /\ got' = <<>>

Arrives(i) ==
  /\ i \in waiting
  /\ Len(got') = 1
  /\ got'[1].id = i
  /\ got'[1].entries \sqsubseteq owed[i]
  /\ owed' = [owed EXCEPT ![i] = @ (-) got'[1].entries]

Part(i) == Arrives(i) /\ ~got'[1].finished /\ UNCHANGED waiting

Finish(i) ==
  /\ Arrives(i)
  /\ got'[1].finished
  /\ owed'[i] = EmptyBag
  /\ waiting' = waiting \ {i}

\* Something happens that the client does not see.
Hidden == got' = <<>> /\ UNCHANGED <<waiting, owed>>

Next == Hidden \/ \E i \in Ids : Ask(i) \/ Part(i) \/ Finish(i)

Spec == Init /\ [][Next]_avars

\* No request stays without its last payload.
Answered == \A i \in Ids : i \in waiting ~> i \notin waiting
=============================================================================
