--------------------------- MODULE DispatchBudget ---------------------------
(***************************************************************************)
(* The block-buffer budget of one session (src/src/proto.rs,               *)
(* top_up_dispatch_sends and consume_dispatch_sends).  The server counts   *)
(* fractions of a section: a tick is worth Allowed of them, a section costs*)
(* Scale.  The client keeps a count of whole sections of its own, spends   *)
(* from it before it sends a buffer, reports what it has left with each    *)
(* buffer, and learns of top-ups by messages.  The two counts drift apart  *)
(* while messages are on their way, in both directions, and are never      *)
(* exchanged outright.                                                     *)
(*                                                                         *)
(* A session starts with no budget (Session, NothingOutlivesSession), so   *)
(* one session is modelled at a time.  The arithmetic saturates at the     *)
(* width of i32 in the code and never reaches it here.                     *)
(***************************************************************************)
EXTENDS Integers, SequencesExt

CONSTANTS
  Allowed,      \* DISPATCH_SENDS_PER_SECOND (1024 in the code)
  Scale,        \* fractions of a section, and ticks of a second (20 in the code)
  MaxSections,  \* bound: sections in one buffer
  MaxBuffers,   \* bound: buffers on their way to the server
  Latency,      \* a message arrives before it is this many ticks old
  None          \* Option::None

ASSUME BudgetAssumption ==
  /\ Allowed \in Nat \ {0}
  /\ Scale \in Nat \ {0}
  /\ MaxSections \in Nat \ {0}
  /\ MaxBuffers \in Nat \ {0}
  /\ Latency \in Nat \ {0}
  /\ None \notin Int

VARIABLES
  sends,      \* dispatch_sends_20 of the player's entry
  available,  \* sections the client believes it may send
  grants,     \* update_available_dispatch_sends messages to the client
  buffers,    \* block buffers to the server
  kicked,     \* whether the plugin kicked the player
  level,      \* history: leaky bucket of what was applied, in fractions
  dropped,    \* history: sections dropped since the last buffer that was charged
  thrifty     \* history: the client kept to its own count so far, as Axiom does

vars == <<sends, available, grants, buffers, kicked, level, dropped, thrifty>>

Full == Allowed * Scale

\* Division of i32 truncates towards zero.
Sections(f) == IF f >= 0 THEN f \div Scale ELSE -((-f) \div Scale)

Smaller(a, b) == IF a < b THEN a ELSE b

GrantMsg  == [add: Nat, age: Nat]
BufferMsg == [sections: Nat, available: Int, age: Nat]

\* Every variable has its type: the budget is None or a number of fractions no
\* larger than a full second's worth, and no top-up takes sections away.
TypeOK ==
  /\ sends \in Int \cup {None}
  /\ sends # None => sends <= Full
  /\ available \in 0 .. Allowed
  /\ grants \in Seq(GrantMsg)
  /\ buffers \in Seq(BufferMsg)
  /\ kicked \in BOOLEAN
  /\ level \in Nat
  /\ dropped \in Nat
  /\ thrifty \in BOOLEAN
-----------------------------------------------------------------------------
Init ==
  /\ sends = None
  /\ available = 0
  /\ grants = <<>>
  /\ buffers = <<>>
  /\ kicked = FALSE
  /\ level = 0
  /\ dropped = 0
  /\ thrifty = TRUE

Aged(q) == [i \in DOMAIN q |-> [q[i] EXCEPT !.age = @ + 1]]

\* The whole sections a top-up tells the client of, if any.  Mutated: what is left over
\* of a section is lost at every tick.
GainedByTick(previous, updated) == Sections(updated - previous)
Gained(previous, updated) == Sections(updated) - Sections(previous)

\* Mutated: the budget may grow without limit.
ToppedUncapped(previous) == previous + Allowed
Topped(previous)         == Smaller(previous + Allowed, Full)

\* top_up_dispatch_sends; every tick runs it for an active player.
Tick ==
  /\ ~kicked
  /\ \A i \in DOMAIN grants : grants[i].age + 1 < Latency
  /\ \A i \in DOMAIN buffers : buffers[i].age + 1 < Latency
  /\ \/ /\ sends = None
        /\ sends' = Full
        /\ grants' = Append(Aged(grants), [add |-> Allowed, age |-> 0])
     \/ /\ sends # None
        /\ sends' = Topped(sends)
        /\ grants' = IF Gained(sends, sends') = 0
                     THEN Aged(grants)
                     ELSE Append(Aged(grants), [add |-> Gained(sends, sends'), age |-> 0])
  /\ buffers' = Aged(buffers)
  /\ level' = IF level > Allowed THEN level - Allowed ELSE 0
  /\ UNCHANGED <<available, kicked, dropped, thrifty>>

\* consume_dispatch_sends, and whether the buffer was within the limit.
\* Mutated: the client's report is taken for the charge; the report is ignored;
\* the buffer is not charged, as on the early returns of apply_block_buffer.
ChargedAsReported(budget, m) == m.available * Scale
ChargedAlone(budget, m) ==
  (IF budget = None THEN Full ELSE budget) - m.sections * Scale
ChargedNothing(budget, m) == IF budget = None THEN Full ELSE budget
Charged(budget, m) ==
  Smaller((IF budget = None THEN Full ELSE budget) - m.sections * Scale,
          m.available * Scale)

\* Mutated: no debt is tolerated.
NoDebt(budget)      == budget >= 0
WithinLimit(budget) == budget >= -Full

\* apply_block_buffer: the sections are applied first and charged afterwards.
HandleBuffer ==
  /\ ~kicked
  /\ buffers # <<>>
  /\ sends' = Charged(sends, Head(buffers))
  /\ kicked' = ~WithinLimit(sends')
  /\ level' = level + Head(buffers).sections * Scale
  /\ dropped' = 0
  /\ buffers' = Tail(buffers)
  /\ UNCHANGED <<available, grants, thrifty>>

\* apply_block_buffer, the two early returns: the player lost build.section, or
\* changed dimension.  Nothing is applied and nothing is charged.
DropBuffer ==
  /\ ~kicked
  /\ buffers # <<>>
  /\ dropped' = IF thrifty THEN dropped + Head(buffers).sections ELSE 0
  /\ buffers' = Tail(buffers)
  /\ UNCHANGED <<sends, available, grants, kicked, level, thrifty>>

\* apply_block_buffer, a buffer that breaks off: the sections before the break were
\* applied, nothing is charged, and the player is kicked for the error.
BrokenBuffer ==
  /\ ~kicked
  /\ buffers # <<>>
  /\ \E n \in 0 .. Head(buffers).sections : level' = level + n * Scale
  /\ kicked' = TRUE
  /\ thrifty' = FALSE
  /\ buffers' = Tail(buffers)
  /\ UNCHANGED <<sends, available, grants, dropped>>

-----------------------------------------------------------------------------
(* The client, as proto.rs describes it, and the end of the session. *)

ReceiveGrant ==
  /\ grants # <<>>
  /\ available' = Smaller(available + Head(grants).add, Allowed)
  /\ grants' = Tail(grants)
  /\ UNCHANGED <<sends, buffers, kicked, level, dropped, thrifty>>

\* Axiom spends before it sends and reports what is left; another client may send
\* and report anything.
ClientSend(n, left) ==
  /\ ~kicked
  /\ Len(buffers) < MaxBuffers
  /\ \/ /\ n <= available
        /\ left = available - n
        /\ available' = left
        /\ UNCHANGED thrifty
     \/ /\ thrifty' = FALSE
        /\ UNCHANGED available
  /\ buffers' = Append(buffers, [sections |-> n, available |-> left, age |-> 0])
  /\ UNCHANGED <<sends, grants, kicked, level, dropped>>

\* The kick takes effect: the client is gone, and until the sweep of a tick takes the
\* entry away nothing reads its count.  Whoever is back before the sweep is Session's;
\* here the next session starts afresh.
NewSession ==
  /\ kicked
  /\ sends' = None
  /\ available' = 0
  /\ grants' = <<>>
  /\ buffers' = <<>>
  /\ kicked' = FALSE
  /\ level' = 0
  /\ dropped' = 0
  /\ thrifty' = TRUE

Next ==
  \/ Tick
  \/ HandleBuffer
  \/ DropBuffer
  \/ BrokenBuffer
  \/ ReceiveGrant
  \/ \E n \in 1 .. MaxSections, left \in 0 .. Allowed : ClientSend(n, left)
  \/ NewSession

Spec == Init /\ [][Next]_vars

\* The tick is scheduled for ever, and everything sent arrives and is handled.
Fairness == WF_vars(Tick) /\ WF_vars(HandleBuffer) /\ WF_vars(ReceiveGrant)

FairSpec == Spec /\ Fairness
-----------------------------------------------------------------------------
(* Safety. *)

Total(q) == FoldLeft(LAMBDA sum, n : sum + n, 0, q)
Granting == Total([i \in DOMAIN grants |-> grants[i].add])
Sending  == Total([i \in DOMAIN buffers |-> buffers[i].sections])

\* The server never credits a client with more than it has: what the server still
\* counts is in the client's hands, on its way to it, on its way back in buffers
\* that were spent but not charged yet, or was lost in dropped buffers.  Were it
\* otherwise, the server would be full, send no top-up, and leave the client dry.
NothingVanishes ==
  thrifty /\ sends # None => Sections(sends) <= available + Granting + Sending + dropped

\* However a client counts, over any stretch of t ticks it gets at most two
\* seconds' worth of sections, plus what t ticks add, applied before it is kicked:
\* level is the leaky bucket that drains by Allowed a tick.
RateLimited == ~kicked => level <= 2 * Full

\* A client that keeps to its own count is never kicked for being too fast, though
\* each charge forgets the top-ups that were on their way to the client, as long
\* as a message and its answer take clearly less than a second.
ThriftyNotKicked == thrifty => ~kicked

-----------------------------------------------------------------------------
(* Liveness. *)

\* A client that keeps to its count and ran out gets sections again, unless a buffer
\* of its was dropped: the count of the server has moved, so a top-up is due.
ToppedUpUnlessDropped ==
  available = 0 ~> (available > 0 \/ kicked \/ ~thrifty \/ dropped > 0)

\* proto.rs: "The client spends from this budget for every block buffer it sends
\* and stops sending once it runs out, so the server has to keep topping it up".
\* Without the exception.
ToppedUpAgain == available = 0 ~> (available > 0 \/ kicked \/ ~thrifty)
=============================================================================
