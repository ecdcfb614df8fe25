---------------------------- MODULE BudgetProofs ----------------------------
(* Proofs about DispatchBudget, for any rate, scale, latency and client. *)
EXTENDS DispatchBudget, FoldingProofs

\* What the limit rests on: the budget of the player, which a full second's worth
\* stands for while none was granted yet, and what was applied lately, together
\* never exceed a second's worth; and a player that was not kicked is at most a
\* second's worth in debt.
Budget == IF sends = None THEN Full ELSE sends

Balance ==
  ~kicked => /\ level + Budget <= Full
             /\ Budget >= -Full

\* TypeOK in parts: the budget, the switches, and everything else.
BudgetOK == sends \in Int \cup {None} /\ (sends # None => sends <= Full)
SwitchesOK == kicked \in BOOLEAN /\ thrifty \in BOOLEAN
OthersOK ==
  /\ available \in 0 .. Allowed
  /\ grants \in Seq(GrantMsg)
  /\ buffers \in Seq(BufferMsg)
  /\ level \in Nat
  /\ dropped \in Nat

LEMMA Parts ==
  /\ TypeOK <=> BudgetOK /\ SwitchesOK /\ OthersOK
  /\ TypeOK' <=> BudgetOK' /\ SwitchesOK' /\ OthersOK'
BY Zenon DEF TypeOK, BudgetOK, SwitchesOK, OthersOK

\* What the proofs need of the constants.
LEMMA Numbers == Allowed \in Nat \ {0} /\ Scale \in Nat \ {0} /\ None \notin Int
BY BudgetAssumption

LEMMA FullTyped == Full \in Nat
BY Numbers DEF Full

\* Truncated division keeps the order, so a top-up never takes a section away.
LEMMA SectionsTyped ==
  ASSUME NEW f \in Int
  PROVE  Sections(f) \in Int
BY Numbers DEF Sections

LEMMA SectionsMonotonic ==
  ASSUME NEW a \in Int, NEW b \in Int, a <= b
  PROVE  Sections(a) <= Sections(b)
<1> USE Numbers
<1>1. ASSUME NEW x \in Nat, NEW y \in Nat, x <= y
      PROVE  x \div Scale <= y \div Scale /\ x \div Scale \in Nat /\ y \div Scale \in Nat
  <2> DEFINE q == x \div Scale
             r == y \div Scale
  <2>1. q \in Nat /\ r \in Nat
    OBVIOUS
  <2>2. Scale * q <= x /\ y < Scale * r + Scale
    BY <2>1
  <2>3. ASSUME r < q PROVE FALSE
    <3> HIDE DEF q, r
    <3>1. PICK d \in Nat : q = r + 1 + d
      <4>1. q - r - 1 \in Nat /\ q = r + 1 + (q - r - 1)
        BY <2>1, <2>3
      <4> QED
        BY <4>1
    <3>2. Scale * q = Scale * r + Scale + Scale * d
      BY <2>1, <3>1
    <3>3. Scale * d \in Nat /\ Scale * r \in Nat
      BY <2>1, <3>1
    <3> QED
      BY <1>1, <2>2, <3>2, <3>3
  <2> QED
    BY <2>1, <2>3
<1>2. CASE a >= 0
  BY <1>1, <1>2 DEF Sections
<1>3. CASE a < 0 /\ b >= 0
  <2>1. (-a) \div Scale \in Nat /\ b \div Scale \in Nat
    BY <1>1, <1>3
  <2> QED
    BY <1>3, <2>1 DEF Sections
<1>4. CASE a < 0 /\ b < 0
  <2>1. (-b) \div Scale <= (-a) \div Scale /\ (-b) \div Scale \in Nat /\ (-a) \div Scale \in Nat
    BY <1>1, <1>4
  <2> QED
    BY <1>4, <2>1 DEF Sections
<1> QED
  BY <1>2, <1>3, <1>4

-----------------------------------------------------------------------------
LEMMA OlderTyped ==
  /\ \A r \in GrantMsg : [r EXCEPT !.age = @ + 1] \in GrantMsg
  /\ \A r \in BufferMsg : [r EXCEPT !.age = @ + 1] \in BufferMsg
<1>1. \A r \in GrantMsg : [r EXCEPT !.age = @ + 1] \in GrantMsg
  BY DEF GrantMsg
<1>2. \A r \in BufferMsg : [r EXCEPT !.age = @ + 1] \in BufferMsg
  BY DEF BufferMsg
<1> QED
  BY <1>1, <1>2

LEMMA FieldsTyped ==
  /\ \A r \in GrantMsg : r.add \in Nat
  /\ \A r \in BufferMsg : r.sections \in Nat /\ r.available \in Int
BY DEF GrantMsg, BufferMsg

LEMMA AgedTyped ==
  ASSUME NEW S, \A r \in S : [r EXCEPT !.age = @ + 1] \in S, NEW q \in Seq(S)
  PROVE  Aged(q) \in Seq(S)
<1>1. ASSUME NEW i \in DOMAIN q PROVE [q[i] EXCEPT !.age = @ + 1] \in S
  OBVIOUS
<1>2. DOMAIN q = 1 .. Len(q) /\ Len(q) \in Nat
  OBVIOUS
<1>3. Aged(q) \in [1 .. Len(q) -> S]
  BY <1>1, <1>2, Zenon DEF Aged
<1> QED
  BY <1>2, <1>3, SeqDef, Zenon

\* A top-up: one step of the budget, whatever the client does.
LEMMA ToppedBounds ==
  ASSUME NEW f \in Int, f <= Full
  PROVE  /\ Topped(f) \in Int
         /\ f <= Topped(f) /\ Topped(f) <= Full /\ Topped(f) <= f + Allowed
         /\ Gained(f, Topped(f)) \in Nat
<1> USE Numbers
<1>1. /\ Topped(f) \in Int
      /\ f <= Topped(f) /\ Topped(f) <= Full /\ Topped(f) <= f + Allowed
  BY FullTyped DEF Topped, Smaller
<1>2. /\ Sections(f) \in Int /\ Sections(Topped(f)) \in Int
      /\ Sections(f) <= Sections(Topped(f))
  BY <1>1, SectionsTyped, SectionsMonotonic
<1>3. Gained(f, Topped(f)) \in Nat
  BY <1>2 DEF Gained
<1> QED
  BY <1>1, <1>3

\* What a tick drains from the bucket it adds to the budget, at most; where the
\* bucket runs empty, the cap of the budget is what bounds the two.
LEMMA DrainedAsAdded ==
  ASSUME NEW l \in Nat, NEW k \in Nat, k = 0 \/ k = l - Allowed,
         NEW s \in Int, NEW t \in Int, l + s <= Full, t <= Full, t <= s + Allowed
  PROVE  k + t <= Full
BY Numbers, FullTyped

LEMMA TickStep ==
  ASSUME TypeOK, Balance, Tick
  PROVE  TypeOK' /\ Balance'
<1> USE Numbers
<1>1. /\ grants \in Seq(GrantMsg) /\ Aged(grants) \in Seq(GrantMsg)
      /\ Aged(buffers) \in Seq(BufferMsg)
  BY AgedTyped, OlderTyped, Zenon DEF TypeOK
<1>2. buffers' \in Seq(BufferMsg) /\ level' \in Nat
  BY <1>1 DEF Tick, TypeOK
<1>3. level' \in Nat /\ level' <= level /\ (level' = 0 \/ level' = level - Allowed)
  BY DEF Tick, TypeOK
<1>4. UNCHANGED <<available, kicked, dropped>> /\ ~kicked /\ SwitchesOK'
  BY Parts, Zenon DEF Tick, SwitchesOK
<1>5. CASE sends = None
  <2>1. sends' = Full /\ grants' = Append(Aged(grants), [add |-> Allowed, age |-> 0])
    BY <1>5 DEF Tick
  <2>2. [add |-> Allowed, age |-> 0] \in GrantMsg
    BY DEF GrantMsg
  <2>3. grants' \in Seq(GrantMsg)
    BY <1>1, <2>1, <2>2
  <2>4. Budget = Full /\ Budget' = Full /\ sends' # None
    BY <1>5, <2>1, FullTyped DEF Budget
  <2>5. level' + Full <= Full
    <3>1. level + Full <= Full /\ level \in Nat
      BY <1>4, <2>4, Zenon DEF Balance, TypeOK
    <3>2. Full <= Full + Allowed /\ Full <= Full /\ Full \in Int
      BY FullTyped
    <3> QED
      BY <1>3, <3>1, <3>2, DrainedAsAdded, Zenon
  <2>6. Balance'
    <3>1. Full >= -Full
      BY FullTyped
    <3> QED
      BY <2>4, <2>5, <3>1, Zenon DEF Balance
  <2>7. BudgetOK'
    BY <2>1, FullTyped DEF BudgetOK
  <2>8. OthersOK'
    BY <1>2, <1>4, <2>3 DEF TypeOK, OthersOK
  <2> QED
    BY <1>4, <2>7, <2>8, <2>6, Parts
<1>6. CASE sends # None
  <2>1. /\ sends' = Topped(sends)
        /\ grants' = IF Gained(sends, sends') = 0
                     THEN Aged(grants)
                     ELSE Append(Aged(grants), [add |-> Gained(sends, sends'), age |-> 0])
    BY <1>6 DEF Tick
  <2>2. sends \in Int /\ sends <= Full
    BY <1>6 DEF TypeOK
  <2>3. /\ sends' \in Int
        /\ sends <= sends' /\ sends' <= Full /\ sends' <= sends + Allowed
        /\ Gained(sends, sends') \in Nat
    BY <2>1, <2>2, ToppedBounds
  <2>4. [add |-> Gained(sends, sends'), age |-> 0] \in GrantMsg
    BY <2>3 DEF GrantMsg
  <2>5. grants' \in Seq(GrantMsg)
    BY <1>1, <2>1, <2>4
  <2>6. Budget = sends /\ Budget' = sends' /\ sends' # None
    BY <1>6, <2>3 DEF Budget
  <2>7. Balance'
    <3>1. level + sends <= Full /\ sends >= -Full /\ level \in Nat
      BY <1>4, <2>6, Zenon DEF Balance, TypeOK
    <3>2. level' + sends' <= Full
      BY <1>3, <2>2, <2>3, <3>1, DrainedAsAdded, Zenon
    <3>3. sends' >= -Full
      BY <2>2, <2>3, <3>1, FullTyped
    <3> QED
      BY <2>3, <2>6, <3>2, <3>3, Zenon DEF Balance
  <2>8. BudgetOK'
    BY <2>3 DEF BudgetOK
  <2>9. OthersOK'
    BY <1>2, <1>4, <2>5 DEF TypeOK, OthersOK
  <2> QED
    BY <1>4, <2>7, <2>8, <2>9, Parts
<1> QED
  BY <1>5, <1>6

LEMMA ChargedBounds ==
  ASSUME TypeOK, NEW m \in BufferMsg
  PROVE  /\ Charged(sends, m) \in Int
         /\ m.sections * Scale \in Nat
         /\ Charged(sends, m) <= Budget - m.sections * Scale
<1> USE Numbers
<1>1. m.sections \in Nat /\ m.available \in Int
  BY FieldsTyped
<1>2. m.sections * Scale \in Nat /\ m.available * Scale \in Int
  BY <1>1
<1>3. Budget \in Int
  BY FullTyped DEF Budget, TypeOK
<1>4. Charged(sends, m) = Smaller(Budget - m.sections * Scale, m.available * Scale)
  BY DEF Charged, Budget
<1> QED
  BY <1>2, <1>3, <1>4 DEF Smaller

LEMMA HandleBufferStep ==
  ASSUME TypeOK, Balance, HandleBuffer
  PROVE  TypeOK' /\ Balance'
<1> USE Numbers
<1> DEFINE m == Head(buffers)
           cost == m.sections * Scale
<1>1. m \in BufferMsg /\ Tail(buffers) \in Seq(BufferMsg)
  BY DEF HandleBuffer, TypeOK
<1>2. Charged(sends, m) \in Int /\ cost \in Nat /\ Charged(sends, m) <= Budget - cost
  BY <1>1, ChargedBounds
<1>3. /\ sends' = Charged(sends, m)
      /\ kicked' = ~WithinLimit(sends')
      /\ level' = level + cost
      /\ dropped' = 0
      /\ buffers' = Tail(buffers)
      /\ UNCHANGED <<available, grants, thrifty>>
  BY DEF HandleBuffer
<1> HIDE DEF m, cost
<1>4. Budget \in Int /\ level \in Nat
  BY FullTyped DEF Budget, TypeOK
<1>5. sends' \in Int /\ sends' # None /\ Budget' = sends' /\ sends' <= Budget - cost
  BY <1>2, <1>3 DEF Budget
<1>6. ~kicked' => sends' >= -Full
  BY <1>3 DEF WithinLimit
<1>11. SwitchesOK'
  BY <1>3, Parts, Zenon DEF SwitchesOK, WithinLimit
<1>7. level' \in Nat /\ level' + Budget' <= level + Budget /\ Budget' <= Budget
  BY <1>2, <1>3, <1>4, <1>5
<1>8. Balance'
  <2>1. level + Budget <= Full
    BY Zenon DEF Balance, HandleBuffer
  <2>2. level' + Budget' <= Full
    BY <1>2, <1>3, <1>4, <1>5, <1>7, <2>1, FullTyped
  <2> QED
    BY <1>5, <1>6, <2>2, Zenon DEF Balance
<1>9. BudgetOK'
  <2>1. Budget <= Full
    BY FullTyped DEF Budget, TypeOK
  <2> QED
    BY <1>2, <1>4, <1>5, <1>7, <2>1, FullTyped DEF BudgetOK
<1>10. OthersOK'
  BY <1>1, <1>3, <1>6, <1>7 DEF TypeOK, OthersOK
<1> QED
  BY <1>8, <1>9, <1>10, <1>11, Parts

\* A session starts with nothing: the first one, and the one after a kick.
LEMMA InitHolds == (Init => TypeOK /\ Balance) /\ (Init' => TypeOK' /\ Balance')
<1>1. \A S : <<>> \in Seq(S)
  OBVIOUS
<1>2. 0 \in 0 .. Allowed /\ 0 \in Nat
  BY Numbers
<1>3. 0 + Full <= Full /\ Full <= Full /\ Full >= -Full
  BY FullTyped
<1>4. Init => TypeOK /\ Balance
  BY <1>1, <1>2, <1>3, Zenon DEF Init, TypeOK, Balance, Budget
<1>5. Init' => TypeOK' /\ Balance'
  BY <1>1, <1>2, <1>3, Zenon DEF Init, TypeOK, Balance, Budget
<1> QED
  BY <1>4, <1>5

\* A step that moves neither the budget nor the bucket.
LEMMA BudgetKept ==
  ASSUME TypeOK, Balance, OthersOK', SwitchesOK', UNCHANGED <<sends, kicked, level>>
  PROVE  TypeOK' /\ Balance'
<1>1. BudgetOK
  BY Parts
<1>2. BudgetOK'
  BY <1>1 DEF BudgetOK
<1>3. Balance'
  BY DEF Balance, Budget
<1> QED
  BY <1>1, <1>2, <1>3, Parts

LEMMA ClientSteps ==
  ASSUME TypeOK, Balance,
         \/ DropBuffer
         \/ BrokenBuffer
         \/ ReceiveGrant
         \/ \E n \in 1 .. MaxSections, left \in 0 .. Allowed : ClientSend(n, left)
         \/ NewSession
  PROVE  TypeOK' /\ Balance'
<1> USE Numbers
<1>1. CASE DropBuffer
  <2>1. Head(buffers).sections \in Nat /\ Tail(buffers) \in Seq(BufferMsg)
    BY <1>1, FieldsTyped DEF DropBuffer, TypeOK
  <2>2. OthersOK'
    BY <1>1, <2>1 DEF DropBuffer, TypeOK, OthersOK
  <2>3. SwitchesOK'
    BY <1>1, Parts, Zenon DEF DropBuffer, SwitchesOK
  <2> QED
    BY <1>1, <2>2, <2>3, BudgetKept DEF DropBuffer
<1>2. CASE ReceiveGrant
  <2>1. Head(grants).add \in Nat /\ Tail(grants) \in Seq(GrantMsg)
    BY <1>2, FieldsTyped DEF ReceiveGrant, TypeOK
  <2>2. available' \in 0 .. Allowed
    BY <1>2, <2>1 DEF ReceiveGrant, TypeOK, Smaller
  <2>3. OthersOK'
    BY <1>2, <2>1, <2>2 DEF ReceiveGrant, TypeOK, OthersOK
  <2>4. SwitchesOK'
    BY <1>2, Parts, Zenon DEF ReceiveGrant, SwitchesOK
  <2> QED
    BY <1>2, <2>3, <2>4, BudgetKept DEF ReceiveGrant
<1>3. ASSUME NEW n \in 1 .. MaxSections, NEW left \in 0 .. Allowed, ClientSend(n, left)
      PROVE  TypeOK' /\ Balance'
  <2>1. [sections |-> n, available |-> left, age |-> 0] \in BufferMsg
    BY DEF BufferMsg
  <2>2. buffers' \in Seq(BufferMsg)
    BY <1>3, <2>1 DEF ClientSend, TypeOK
  <2>3. available' \in 0 .. Allowed
    BY <1>3 DEF ClientSend, TypeOK
  <2>4. OthersOK'
    BY <1>3, <2>2, <2>3 DEF ClientSend, TypeOK, OthersOK
  <2>5. SwitchesOK'
    BY <1>3, Parts, Zenon DEF ClientSend, SwitchesOK
  <2> QED
    BY <1>3, <2>4, <2>5, BudgetKept DEF ClientSend
<1>4. CASE NewSession
  <2>1. Init'
    BY <1>4 DEF NewSession, Init
  <2> QED
    BY <2>1, InitHolds
<1>5. CASE BrokenBuffer
  <2>1. PICK n \in 0 .. Head(buffers).sections : level' = level + n * Scale
    BY <1>5 DEF BrokenBuffer
  <2>2. Head(buffers).sections \in Nat /\ Tail(buffers) \in Seq(BufferMsg)
    BY <1>5, FieldsTyped DEF BrokenBuffer, TypeOK
  <2>3. n * Scale \in Nat
    BY <2>2
  <2>4. level' \in Nat
    BY <2>1, <2>3 DEF TypeOK
  <2>5. OthersOK'
    BY <1>5, <2>2, <2>4 DEF BrokenBuffer, TypeOK, OthersOK
  <2>6. sends' = sends /\ kicked' = TRUE
    BY <1>5 DEF BrokenBuffer
  <2>7. BudgetOK'
    BY <2>6, Parts DEF BudgetOK
  <2>8. SwitchesOK'
    BY <1>5, Zenon DEF BrokenBuffer, SwitchesOK
  <2> QED
    BY <2>5, <2>6, <2>7, <2>8, Parts DEF Balance
<1> QED
  BY <1>1, <1>2, <1>3, <1>4, <1>5

LEMMA BudgetInductive ==
  Spec => [](TypeOK /\ Balance)
<1>1. Init => TypeOK /\ Balance
  BY InitHolds
<1>2. TypeOK /\ Balance /\ [Next]_vars => (TypeOK /\ Balance)'
  <2> SUFFICES ASSUME TypeOK, Balance, [Next]_vars PROVE TypeOK' /\ Balance'
    OBVIOUS
  <2>1. CASE UNCHANGED vars
    <3>1. OthersOK' /\ SwitchesOK'
      BY <2>1, Parts DEF vars, OthersOK, SwitchesOK
    <3> QED
      BY <2>1, <3>1, BudgetKept DEF vars
  <2> QED
    BY <2>1, TickStep, HandleBufferStep, ClientSteps DEF Next
<1> QED
  BY <1>1, <1>2, PTL DEF Spec

\* The budget is never more than a full second's worth and no top-up takes
\* sections away (top_up_dispatch_sends).
THEOREM BudgetTyped == Spec => []TypeOK
BY BudgetInductive, PTL

\* However the client counts and whatever it reports, a player that was not kicked
\* had at most two seconds' worth of sections applied beyond what the elapsed ticks
\* allow (consume_dispatch_sends): one of budget, one of tolerated debt.
THEOREM ClientsAreRateLimited == Spec => []RateLimited
<1>1. TypeOK /\ Balance => RateLimited
  BY FullTyped DEF TypeOK, Balance, Budget, RateLimited
<1> QED
  BY <1>1, BudgetInductive, PTL

(***************************************************************************)
(* The ledger: what the two counts have to do with each other while the    *)
(* client keeps to its own.  First what is on its way, in both directions. *)
(***************************************************************************)

Adds(q)  == [i \in DOMAIN q |-> q[i].add]
Sizes(q) == [i \in DOMAIN q |-> q[i].sections]

\* What a tick is worth in sections, at most.
Extra == (Allowed + Scale - 1) \div Scale

\* g sums up the top-ups in q to t; from the j-th on they are no more than the ticks
\* since it was sent are worth, apart from the first e of them.
Recent(q, g, e) == \A j \in 1 .. Len(q) :
  j > e => g[Len(q)] - g[j - 1] <= Extra * (q[j].age + 1)
Grants(q, t, e) == \E g \in [0 .. Len(q) -> Int] :
  Summed(g, Adds(q)) /\ g[Len(q)] = t /\ Recent(q, g, e)

\* h sums up the buffers in q to t.  What the client reported with a buffer is
\* covered by the a sections it has and those it sent later; and the c sections it
\* has or will get are not many more.
Covered(q, h, a) == \A k \in 1 .. Len(q) : q[k].available + h[k] <= a + h[Len(q)]
Close(q, h, c) == \A k \in 1 .. Len(q) :
  c + h[Len(q)] - h[k] <= q[k].available + Extra * (Latency + q[k].age)
Buffers(q, t, a, c) == \E h \in [0 .. Len(q) -> Int] :
  Summed(h, Sizes(q)) /\ h[Len(q)] = t /\ Covered(q, h, a) /\ Close(q, h, c)

LEMMA ExtraTimes ==
  /\ Extra \in Nat
  /\ \A a \in Nat : Extra * a \in Nat /\ Extra * (a + 1) = Extra * a + Extra
  /\ \A a \in Nat, b \in Nat : a <= b => Extra * a <= Extra * b
<1>1. Extra \in Nat
  BY Numbers DEF Extra
<1> HIDE DEF Extra
<1>2. \A a \in Nat : Extra * a \in Nat /\ Extra * (a + 1) = Extra * a + Extra
  BY <1>1
<1>3. ASSUME NEW a \in Nat, NEW b \in Nat, a <= b PROVE Extra * a <= Extra * b
  <2>1. b - a \in Nat /\ b = a + (b - a)
    BY <1>3
  <2>2. Extra * (b - a) \in Nat /\ Extra * b = Extra * a + Extra * (b - a)
    BY <1>1, <2>1
  <2> QED
    BY <1>2, <2>2
<1> QED
  BY <1>1, <1>2, <1>3

LEMMA TailIs ==
  ASSUME NEW S, NEW s \in Seq(S), s # <<>>
  PROVE  Tail(s) = [i \in 1 .. Len(s) - 1 |-> s[i + 1]]
<1>1. Tail(s) \in Seq(S) /\ Len(Tail(s)) = Len(s) - 1
  OBVIOUS
<1>2. \A i \in 1 .. Len(s) - 1 : Tail(s)[i] = s[i + 1]
  OBVIOUS
<1>3. Tail(s) = [i \in 1 .. Len(s) - 1 |-> Tail(s)[i]]
  <2> DEFINE t == Tail(s)
  <2>1. t \in Seq(S) /\ Len(t) = Len(s) - 1
    BY <1>1
  <2> HIDE DEF t
  <2>2. t = [i \in 1 .. Len(t) |-> t[i]]
    BY <2>1
  <2> QED
    BY <2>1, <2>2 DEF t
<1> QED
  BY <1>2, <1>3

LEMMA AddsOf ==
  ASSUME NEW q \in Seq(GrantMsg)
  PROVE  /\ Adds(q) \in Seq(Nat) /\ Adds(q) \in Seq(Int) /\ Len(Adds(q)) = Len(q)
         /\ Adds(Aged(q)) = Adds(q) /\ Len(Aged(q)) = Len(q)
         /\ \A i \in 1 .. Len(q) : q[i].age \in Nat /\ Aged(q)[i].age = q[i].age + 1
         /\ \A m \in GrantMsg : Adds(Append(q, m)) = Append(Adds(q), m.add)
         /\ q # <<>> => Adds(Tail(q)) = Tail(Adds(q)) /\ Adds(q)[1] = q[1].add
<1>1. Len(q) \in Nat /\ DOMAIN q = 1 .. Len(q)
      /\ \A i \in 1 .. Len(q) : q[i] \in GrantMsg /\ q[i].add \in Nat /\ q[i].age \in Nat
  <2>1. Len(q) \in Nat /\ DOMAIN q = 1 .. Len(q) /\ \A i \in 1 .. Len(q) : q[i] \in GrantMsg
    OBVIOUS
  <2>2. \A r \in GrantMsg : r.add \in Nat /\ r.age \in Nat
    BY DEF GrantMsg
  <2> QED
    BY <2>1, <2>2
<1>2. /\ Adds(q) \in Seq(Nat) /\ Adds(q) \in Seq(Int) /\ Len(Adds(q)) = Len(q)
      /\ \A i \in 1 .. Len(q) : Adds(q)[i] = q[i].add
  BY <1>1 DEF Adds
<1>3. /\ DOMAIN Aged(q) = 1 .. Len(q) /\ Len(Aged(q)) = Len(q)
      /\ \A i \in 1 .. Len(q) : Aged(q)[i].age = q[i].age + 1 /\ Aged(q)[i].add = q[i].add
  BY <1>1 DEF Aged, GrantMsg
<1>4. Adds(Aged(q)) = Adds(q)
  BY <1>1, <1>3 DEF Adds
<1>5. ASSUME NEW m \in GrantMsg PROVE Adds(Append(q, m)) = Append(Adds(q), m.add)
  <2>1. m.add \in Nat
    BY DEF GrantMsg
  <2>2. /\ DOMAIN Append(q, m) = 1 .. Len(q) + 1 /\ Append(q, m)[Len(q) + 1] = m
        /\ \A i \in 1 .. Len(q) : Append(q, m)[i] = q[i]
    BY <1>1
  <2>3. /\ DOMAIN Append(Adds(q), m.add) = 1 .. Len(q) + 1
        /\ Append(Adds(q), m.add) = [i \in 1 .. Len(q) + 1 |-> Append(Adds(q), m.add)[i]]
        /\ Append(Adds(q), m.add)[Len(q) + 1] = m.add
        /\ \A i \in 1 .. Len(q) : Append(Adds(q), m.add)[i] = q[i].add
    BY <1>2, <2>1
  <2>4. ASSUME NEW i \in 1 .. Len(q) + 1 PROVE Append(q, m)[i].add = Append(Adds(q), m.add)[i]
    <3>1. i \in 1 .. Len(q) \/ i = Len(q) + 1
      BY <1>1
    <3> QED
      BY <2>2, <2>3, <3>1
  <2>5. Adds(Append(q, m)) = [i \in 1 .. Len(q) + 1 |-> Append(q, m)[i].add]
    BY <2>2 DEF Adds
  <2> QED
    BY <2>3, <2>4, <2>5, Zenon
<1>6. ASSUME q # <<>> PROVE Adds(Tail(q)) = Tail(Adds(q)) /\ Adds(q)[1] = q[1].add
  <2>1. 1 \in 1 .. Len(q)
    BY <1>1, <1>6
  <2>2. DOMAIN Tail(q) = 1 .. Len(q) - 1 /\ \A i \in 1 .. Len(q) - 1 : Tail(q)[i] = q[i + 1]
    BY <1>1, <1>6
  <2>3. Adds(q) # <<>>
    BY <1>1, <1>2, <2>1
  <2>4. Tail(Adds(q)) = [i \in 1 .. Len(q) - 1 |-> Adds(q)[i + 1]]
    <3> DEFINE s == Adds(q)
    <3>1. s \in Seq(Nat) /\ s # <<>> /\ Len(s) = Len(q)
      BY <1>2, <2>3
    <3> HIDE DEF s
    <3>2. Tail(s) = [i \in 1 .. Len(s) - 1 |-> s[i + 1]]
      BY <3>1, TailIs
    <3> QED
      BY <3>1, <3>2 DEF s
  <2>5. \A i \in 1 .. Len(q) - 1 : i + 1 \in 1 .. Len(q)
    BY <1>1
  <2>6. \A i \in 1 .. Len(q) - 1 : Adds(q)[i + 1] = Tail(q)[i].add
    BY <1>2, <2>2, <2>5
  <2>7. Adds(Tail(q)) = [i \in 1 .. Len(q) - 1 |-> Tail(q)[i].add]
    BY <2>2 DEF Adds
  <2> QED
    BY <1>2, <2>1, <2>4, <2>6, <2>7, Zenon
<1> QED
  BY <1>1, <1>2, <1>3, <1>4, <1>5, <1>6

LEMMA SizesOf ==
  ASSUME NEW q \in Seq(BufferMsg)
  PROVE  /\ Sizes(q) \in Seq(Nat) /\ Sizes(q) \in Seq(Int) /\ Len(Sizes(q)) = Len(q)
         /\ Sizes(Aged(q)) = Sizes(q) /\ Len(Aged(q)) = Len(q)
         /\ \A i \in 1 .. Len(q) :
              /\ q[i].age \in Nat /\ Aged(q)[i].age = q[i].age + 1
              /\ q[i].available \in Int /\ Aged(q)[i].available = q[i].available
         /\ \A m \in BufferMsg : Sizes(Append(q, m)) = Append(Sizes(q), m.sections)
         /\ q # <<>> => Sizes(Tail(q)) = Tail(Sizes(q)) /\ Sizes(q)[1] = q[1].sections
<1>1. /\ Len(q) \in Nat /\ DOMAIN q = 1 .. Len(q)
      /\ \A i \in 1 .. Len(q) : /\ q[i] \in BufferMsg /\ q[i].sections \in Nat
                                /\ q[i].age \in Nat /\ q[i].available \in Int
  <2>1. Len(q) \in Nat /\ DOMAIN q = 1 .. Len(q) /\ \A i \in 1 .. Len(q) : q[i] \in BufferMsg
    OBVIOUS
  <2>2. \A r \in BufferMsg : r.sections \in Nat /\ r.age \in Nat /\ r.available \in Int
    BY DEF BufferMsg
  <2> QED
    BY <2>1, <2>2
<1>2. /\ Sizes(q) \in Seq(Nat) /\ Sizes(q) \in Seq(Int) /\ Len(Sizes(q)) = Len(q)
      /\ \A i \in 1 .. Len(q) : Sizes(q)[i] = q[i].sections
  BY <1>1 DEF Sizes
<1>3. /\ DOMAIN Aged(q) = 1 .. Len(q) /\ Len(Aged(q)) = Len(q)
      /\ \A i \in 1 .. Len(q) :
           /\ Aged(q)[i].age = q[i].age + 1 /\ Aged(q)[i].sections = q[i].sections
           /\ Aged(q)[i].available = q[i].available
  BY <1>1 DEF Aged, BufferMsg
<1>4. Sizes(Aged(q)) = Sizes(q)
  BY <1>1, <1>3 DEF Sizes
<1>5. ASSUME NEW m \in BufferMsg PROVE Sizes(Append(q, m)) = Append(Sizes(q), m.sections)
  <2>1. m.sections \in Nat
    BY DEF BufferMsg
  <2>2. /\ DOMAIN Append(q, m) = 1 .. Len(q) + 1 /\ Append(q, m)[Len(q) + 1] = m
        /\ \A i \in 1 .. Len(q) : Append(q, m)[i] = q[i]
    BY <1>1
  <2>3. /\ Append(Sizes(q), m.sections)
             = [i \in 1 .. Len(q) + 1 |-> Append(Sizes(q), m.sections)[i]]
        /\ Append(Sizes(q), m.sections)[Len(q) + 1] = m.sections
        /\ \A i \in 1 .. Len(q) : Append(Sizes(q), m.sections)[i] = q[i].sections
    BY <1>2, <2>1
  <2>4. ASSUME NEW i \in 1 .. Len(q) + 1
        PROVE  Append(q, m)[i].sections = Append(Sizes(q), m.sections)[i]
    <3>1. i \in 1 .. Len(q) \/ i = Len(q) + 1
      BY <1>1
    <3> QED
      BY <2>2, <2>3, <3>1
  <2>5. Sizes(Append(q, m)) = [i \in 1 .. Len(q) + 1 |-> Append(q, m)[i].sections]
    BY <2>2 DEF Sizes
  <2> QED
    BY <2>3, <2>4, <2>5, Zenon
<1>6. ASSUME q # <<>> PROVE Sizes(Tail(q)) = Tail(Sizes(q)) /\ Sizes(q)[1] = q[1].sections
  <2>1. 1 \in 1 .. Len(q)
    BY <1>1, <1>6
  <2>2. DOMAIN Tail(q) = 1 .. Len(q) - 1 /\ \A i \in 1 .. Len(q) - 1 : Tail(q)[i] = q[i + 1]
    BY <1>1, <1>6
  <2>3. Sizes(q) # <<>>
    BY <1>1, <1>2, <2>1
  <2>4. Tail(Sizes(q)) = [i \in 1 .. Len(q) - 1 |-> Sizes(q)[i + 1]]
    <3> DEFINE s == Sizes(q)
    <3>1. s \in Seq(Nat) /\ s # <<>> /\ Len(s) = Len(q)
      BY <1>2, <2>3
    <3> HIDE DEF s
    <3>2. Tail(s) = [i \in 1 .. Len(s) - 1 |-> s[i + 1]]
      BY <3>1, TailIs
    <3> QED
      BY <3>1, <3>2 DEF s
  <2>5. \A i \in 1 .. Len(q) - 1 : i + 1 \in 1 .. Len(q)
    BY <1>1
  <2>6. \A i \in 1 .. Len(q) - 1 : Sizes(q)[i + 1] = Tail(q)[i].sections
    BY <1>2, <2>2, <2>5
  <2>7. Sizes(Tail(q)) = [i \in 1 .. Len(q) - 1 |-> Tail(q)[i].sections]
    BY <2>2 DEF Sizes
  <2> QED
    BY <1>2, <2>1, <2>4, <2>6, <2>7, Zenon
<1> QED
  BY <1>1, <1>2, <1>3, <1>4, <1>5, <1>6

\* The totals are the module's, and natural.
LEMMA GrantsTotal ==
  ASSUME NEW q \in Seq(GrantMsg), NEW t, NEW e, Grants(q, t, e)
  PROVE  t = SumOf(Adds(q)) /\ t \in Nat
<1>1. PICK g \in [0 .. Len(q) -> Int] : Summed(g, Adds(q)) /\ g[Len(q)] = t
  BY DEF Grants
<1>2. Adds(q) \in Seq(Nat) /\ Adds(q) \in Seq(Int) /\ Len(Adds(q)) = Len(q) /\ Len(q) \in Nat
  BY AddsOf
<1>3. g \in [0 .. Len(Adds(q)) -> Int] /\ Len(q) \in 0 .. Len(Adds(q))
  BY <1>1, <1>2
<1>4. SumOf(Adds(q)) = g[Len(Adds(q))]
  BY <1>1, <1>2, <1>3, SumIs
<1>5. \A k \in 0 .. Len(Adds(q)) : g[k] \in Nat
  BY <1>1, <1>2, <1>3, SumsAreNatural
<1> QED
  BY <1>1, <1>2, <1>3, <1>4, <1>5

LEMMA BuffersTotal ==
  ASSUME NEW q \in Seq(BufferMsg), NEW t, NEW a, NEW c, Buffers(q, t, a, c)
  PROVE  t = SumOf(Sizes(q)) /\ t \in Nat
<1>1. PICK h \in [0 .. Len(q) -> Int] : Summed(h, Sizes(q)) /\ h[Len(q)] = t
  BY DEF Buffers
<1>2. Sizes(q) \in Seq(Nat) /\ Sizes(q) \in Seq(Int) /\ Len(Sizes(q)) = Len(q) /\ Len(q) \in Nat
  BY SizesOf
<1>3. h \in [0 .. Len(Sizes(q)) -> Int] /\ Len(q) \in 0 .. Len(Sizes(q))
  BY <1>1, <1>2
<1>4. SumOf(Sizes(q)) = h[Len(Sizes(q))]
  BY <1>1, <1>2, <1>3, SumIs
<1>5. \A k \in 0 .. Len(Sizes(q)) : h[k] \in Nat
  BY <1>1, <1>2, <1>3, SumsAreNatural
<1> QED
  BY <1>1, <1>2, <1>3, <1>4, <1>5

\* Nothing is on its way at the start.
LEMMA NoneOnTheWay ==
  ASSUME NEW a \in Int, NEW c \in Int, NEW e \in Nat
  PROVE  Grants(<<>>, 0, e) /\ Buffers(<<>>, 0, a, c)
<1> DEFINE h == [k \in 0 .. 0 |-> 0]
<1>1. h \in [0 .. 0 -> Int] /\ h[0] = 0 /\ Len(<<>>) = 0
  OBVIOUS
<1>2. <<>> \in Seq(GrantMsg) /\ <<>> \in Seq(BufferMsg)
  OBVIOUS
<1>3. Len(Adds(<<>>)) = 0 /\ Len(Sizes(<<>>)) = 0
  BY <1>1, <1>2, AddsOf, SizesOf
<1> HIDE DEF h
<1>4. Summed(h, Adds(<<>>)) /\ Summed(h, Sizes(<<>>))
  BY <1>1, <1>3 DEF Summed
<1>5. Recent(<<>>, h, e) /\ Covered(<<>>, h, a) /\ Close(<<>>, h, c)
  BY <1>1 DEF Recent, Covered, Close
<1> QED
  BY <1>1, <1>4, <1>5 DEF Grants, Buffers

\* A tick: what is on its way gets older, and a top-up of x sections follows.
LEMMA GrantsAge ==
  ASSUME NEW q \in Seq(GrantMsg), NEW t, NEW e \in Nat, Grants(q, t, e)
  PROVE  Grants(Aged(q), t, e)
<1>1. PICK g \in [0 .. Len(q) -> Int] : Summed(g, Adds(q)) /\ g[Len(q)] = t /\ Recent(q, g, e)
  BY DEF Grants
<1>2. /\ Adds(Aged(q)) = Adds(q) /\ Len(Aged(q)) = Len(q) /\ Len(q) \in Nat
      /\ \A i \in 1 .. Len(q) : q[i].age \in Nat /\ Aged(q)[i].age = q[i].age + 1
  BY AddsOf
<1> DEFINE r == Aged(q)
<1> HIDE DEF r
<1>3. ASSUME NEW j \in 1 .. Len(q), j > e
      PROVE  g[Len(q)] - g[j - 1] <= Extra * (r[j].age + 1)
  <2>1. g[Len(q)] - g[j - 1] <= Extra * (q[j].age + 1)
    BY <1>1, <1>3 DEF Recent
  <2>2. r[j].age = q[j].age + 1 /\ q[j].age \in Nat
    BY <1>2 DEF r
  <2>3. Extra * (q[j].age + 1) <= Extra * (r[j].age + 1) /\ Extra * (q[j].age + 1) \in Nat
        /\ Extra * (r[j].age + 1) \in Nat
    BY <2>2, ExtraTimes, SMTT(30)
  <2>4. g[Len(q)] - g[j - 1] \in Int
    <3>1. Len(q) \in 0 .. Len(q) /\ j - 1 \in 0 .. Len(q)
      BY <1>2
    <3> QED
      BY <3>1
  <2> QED
    BY <2>1, <2>3, <2>4
<1>4. Recent(r, g, e)
  BY <1>2, <1>3 DEF Recent, r
<1> QED
  BY <1>1, <1>2, <1>4 DEF Grants, r

LEMMA GrantsTopUp ==
  ASSUME NEW q \in Seq(GrantMsg), NEW t, NEW e \in Nat, Grants(q, t, e),
         NEW x \in Nat, x <= Extra \/ Len(q) < e
  PROVE  Grants(Append(Aged(q), [add |-> x, age |-> 0]), t + x, e)
<1> DEFINE p == Aged(q)
           m == [add |-> x, age |-> 0]
           r == Append(p, m)
<1>1. PICK g \in [0 .. Len(q) -> Int] : Summed(g, Adds(q)) /\ g[Len(q)] = t /\ Recent(q, g, e)
  BY DEF Grants
<1>2. /\ Adds(p) = Adds(q) /\ Len(p) = Len(q) /\ Len(q) \in Nat
      /\ Adds(q) \in Seq(Int) /\ Len(Adds(q)) = Len(q)
      /\ \A i \in 1 .. Len(q) : q[i].age \in Nat /\ p[i].age = q[i].age + 1
  BY AddsOf
<1>3. p \in Seq(GrantMsg)
  BY AgedTyped, OlderTyped
<1>4. m \in GrantMsg /\ m.add = x /\ m.age = 0
  BY DEF GrantMsg
<1> HIDE DEF p, m
<1>5. /\ Len(r) = Len(q) + 1 /\ r[Len(q) + 1] = m /\ \A i \in 1 .. Len(q) : r[i] = p[i]
      /\ Adds(r) = Append(Adds(q), x)
  BY <1>2, <1>3, <1>4, AddsOf
<1> HIDE DEF r
<1> DEFINE n == Len(q)
           l == Longer(g, n, x)
<1>6. /\ l \in [0 .. n + 1 -> Int] /\ Summed(l, Append(Adds(q), x))
      /\ \A k \in 0 .. n : l[k] = g[k]
      /\ l[n + 1] = g[n] + x
  <2>1. g \in [0 .. Len(Adds(q)) -> Int] /\ x \in Int
    BY <1>2
  <2> QED
    BY <1>1, <1>2, <2>1, SumsOfAppend
<1>7. n \in Nat /\ n = Len(q) /\ g \in [0 .. n -> Int] /\ n \in 0 .. n
  BY <1>2
<1> HIDE DEF l, n
<1>8. ASSUME NEW j \in 1 .. n + 1, j > e
      PROVE  l[n + 1] - l[j - 1] <= Extra * (r[j].age + 1)
  <2>1. CASE j \in 1 .. n
    <3>1. j - 1 \in 0 .. n /\ g[j - 1] \in Int /\ g[n] \in Int /\ q[j].age \in Nat
      <4>1. j - 1 \in 0 .. n
        BY <1>7, <2>1
      <4>2. g[j - 1] \in Int /\ g[n] \in Int
        BY <1>7, <4>1
      <4>3. q[j].age \in Nat
        BY <1>2, <1>7, <2>1, Zenon
      <4> QED
        BY <4>1, <4>2, <4>3
    <3>2. g[n] - g[j - 1] <= Extra * (q[j].age + 1)
      BY <1>1, <1>7, <1>8, <2>1 DEF Recent
    <3>3. r[j].age = q[j].age + 1
      BY <1>2, <1>5, <1>7, <2>1
    <3> DEFINE a == q[j].age + 1
    <3>4. Extra * (a + 1) = Extra * a + Extra /\ Extra * a \in Nat /\ Extra \in Nat
      <4>1. a \in Nat
        BY <3>1
      <4> QED
        BY <4>1, ExtraTimes
    <3> DEFINE d == g[n] - g[j - 1]
    <3>5. l[n + 1] - l[j - 1] = d + x /\ d \in Int
      <4>1. l[j - 1] = g[j - 1]
        BY <1>6, <3>1, Zenon
      <4>2. l[n + 1] = g[n] + x
        BY <1>6
      <4> QED
        BY <3>1, <4>1, <4>2
    <3>6. x <= Extra
      BY <1>2, <1>7, <1>8, <2>1
    <3> DEFINE b == Extra * a
    <3>7. Extra * (r[j].age + 1) = b + Extra /\ b \in Nat /\ d <= b
      BY <3>2, <3>3, <3>4
    <3> HIDE DEF b, d
    <3>8. d + x <= b + Extra
      BY <3>4, <3>5, <3>6, <3>7
    <3> QED
      BY <3>5, <3>7, <3>8, Zenon
  <2>2. CASE j = n + 1
    <3>1. j - 1 = n /\ r[j].age = 0
      BY <1>4, <1>5, <1>7, <2>2
    <3>2. l[n + 1] - l[j - 1] = x
      BY <1>6, <1>7, <3>1
    <3>3. Extra * (r[j].age + 1) = Extra
      <4>1. Extra * (0 + 1) = Extra
        BY ExtraTimes
      <4> QED
        BY <3>1, <4>1
    <3>4. x <= Extra
      BY <1>7, <1>8, <2>2
    <3> QED
      BY <3>2, <3>3, <3>4
  <2> QED
    BY <1>7, <2>1, <2>2
<1>9. Len(r) = n + 1 /\ l[Len(r)] = t + x /\ Summed(l, Adds(r))
  BY <1>1, <1>5, <1>6, <1>7
<1>10. Recent(r, l, e)
  BY <1>8, <1>9 DEF Recent
<1>11. Grants(r, t + x, e)
  BY <1>6, <1>9, <1>10 DEF Grants
<1> QED
  BY <1>11 DEF r, p, m

\* The first top-up arrives; whether it was an exception does not matter any more.
LEMMA GrantsArrive ==
  ASSUME NEW q \in Seq(GrantMsg), q # <<>>, NEW t, NEW e \in {0, 1}, Grants(q, t, e),
         NEW f \in Nat
  PROVE  Grants(Tail(q), t - Head(q).add, f) /\ Head(q).add \in Nat /\ t - Head(q).add \in Nat
<1>1. PICK g \in [0 .. Len(q) -> Int] : Summed(g, Adds(q)) /\ g[Len(q)] = t /\ Recent(q, g, e)
  BY DEF Grants
<1> DEFINE r == Tail(q)
           n == Len(q)
           s == Adds(q)
           l == Shorter(g, n)
<1>2. /\ n \in Nat /\ n = Len(q) /\ s \in Seq(Int) /\ s \in Seq(Nat) /\ Len(s) = n
      /\ \A i \in 1 .. n : q[i].age \in Nat
      /\ Adds(r) = Tail(s) /\ s[1] = q[1].add
  BY AddsOf
<1>3. /\ r \in Seq(GrantMsg) /\ Len(r) = n - 1 /\ n >= 1 /\ \A i \in 1 .. n - 1 : r[i] = q[i + 1]
      /\ Head(q) = q[1]
  OBVIOUS
<1> HIDE DEF r, n, s
<1>4. s # <<>> /\ g \in [0 .. n -> Int] /\ Summed(g, s)
  BY <1>1, <1>2, <1>3 DEF n, s
<1>5. /\ n - 1 \in Nat /\ g[1] = s[1] /\ s[1] \in Int
      /\ l \in [0 .. n - 1 -> Int] /\ Summed(l, Tail(s))
      /\ \A k \in 0 .. n - 1 : l[k] = g[k + 1] - s[1]
  BY <1>2, <1>4, SumsOfTail
<1> HIDE DEF l
<1>6. ASSUME NEW j \in 1 .. n - 1 PROVE l[n - 1] - l[j - 1] <= Extra * (r[j].age + 1)
  <2> DEFINE i == j + 1
  <2>1. i \in 1 .. n /\ i > e /\ i - 1 = j /\ j - 1 \in 0 .. n - 1 /\ n - 1 \in 0 .. n - 1
        /\ j \in 0 .. n /\ n \in 0 .. n /\ n - 1 + 1 = n /\ j - 1 + 1 = j
    BY <1>5, SMTT(30)
  <2>2. r[j] = q[i]
    BY <1>3
  <2> HIDE DEF i
  <2>3. g[n] - g[i - 1] <= Extra * (q[i].age + 1)
    BY <1>1, <1>2, <2>1 DEF Recent
  <2>4. l[n - 1] = g[n] - s[1] /\ l[j - 1] = g[j] - s[1]
    BY <1>5, <2>1
  <2>5. g[n] \in Int /\ g[j] \in Int /\ s[1] \in Int
    BY <1>4, <1>5, <2>1
  <2>6. l[n - 1] - l[j - 1] = g[n] - g[i - 1]
    BY <2>1, <2>4, <2>5
  <2> QED
    BY <2>2, <2>3, <2>6
<1>7. Len(r) = n - 1 /\ Summed(l, Adds(r)) /\ l[Len(r)] = t - q[1].add
  <2>1. n - 1 \in 0 .. n - 1 /\ n - 1 + 1 = n
    BY <1>2, <1>5
  <2> QED
    BY <1>1, <1>2, <1>3, <1>5, <2>1
<1>8. Recent(r, l, f)
  BY <1>6, <1>7 DEF Recent
<1>9. Grants(r, t - q[1].add, f)
  BY <1>5, <1>7, <1>8 DEF Grants
<1>10. t - q[1].add \in Nat
  BY <1>3, <1>9, GrantsTotal
<1>11. q[1].add \in Nat
  BY <1>2, <1>3
<1> QED
  BY <1>3, <1>9, <1>10, <1>11 DEF r

\* Without an exception, all that is on its way is worth a message's journey.
LEMMA GrantsBounded ==
  ASSUME NEW q \in Seq(GrantMsg), NEW t, Grants(q, t, 0), \A i \in 1 .. Len(q) : q[i].age < Latency
  PROVE  t <= Extra * Latency
<1>1. PICK g \in [0 .. Len(q) -> Int] : Summed(g, Adds(q)) /\ g[Len(q)] = t /\ Recent(q, g, 0)
  BY DEF Grants
<1>2. Len(q) \in Nat /\ \A i \in 1 .. Len(q) : q[i].age \in Nat
  BY AddsOf
<1>3. g[0] = 0 /\ Latency \in Nat
  BY <1>1, BudgetAssumption DEF Summed
<1>4. CASE Len(q) = 0
  BY <1>1, <1>3, <1>4, ExtraTimes
<1>5. CASE Len(q) # 0
  <2>1. 1 \in 1 .. Len(q) /\ 1 > 0 /\ 1 - 1 = 0
    BY <1>2, <1>5
  <2>2. t - g[1 - 1] <= Extra * (q[1].age + 1)
    BY <1>1, <2>1 DEF Recent
  <2>3. q[1].age + 1 \in Nat /\ q[1].age + 1 <= Latency
    BY <1>2, <1>3, <2>1
  <2>4. Extra * (q[1].age + 1) <= Extra * Latency
        /\ Extra * (q[1].age + 1) \in Nat /\ Extra * Latency \in Nat
    BY <1>3, <2>3, ExtraTimes
  <2>5. t \in Nat
    BY GrantsTotal
  <2> QED
    BY <1>3, <2>1, <2>2, <2>4, <2>5
<1> QED
  BY <1>4, <1>5

\* A tick: buffers get older, and the client may be owed x sections more.
LEMMA BuffersAge ==
  ASSUME NEW q \in Seq(BufferMsg), NEW t, NEW a \in Int, NEW c \in Int, Buffers(q, t, a, c),
         NEW x \in Nat, x <= Extra
  PROVE  Buffers(Aged(q), t, a, c + x)
<1>1. PICK h \in [0 .. Len(q) -> Int] :
        Summed(h, Sizes(q)) /\ h[Len(q)] = t /\ Covered(q, h, a) /\ Close(q, h, c)
  BY DEF Buffers
<1> DEFINE r == Aged(q)
<1>2. /\ Sizes(r) = Sizes(q) /\ Len(r) = Len(q) /\ Len(q) \in Nat
      /\ \A i \in 1 .. Len(q) :
           /\ q[i].age \in Nat /\ r[i].age = q[i].age + 1
           /\ q[i].available \in Int /\ r[i].available = q[i].available
  BY SizesOf, SMTT(30)
<1> HIDE DEF r
<1>3. Covered(r, h, a)
  BY <1>1, <1>2 DEF Covered
<1>4. ASSUME NEW k \in 1 .. Len(q)
      PROVE  c + x + h[Len(q)] - h[k] <= r[k].available + Extra * (Latency + r[k].age)
  <2>1. Len(q) \in 0 .. Len(q) /\ k \in 0 .. Len(q)
    BY <1>2
  <2>2. h[Len(q)] \in Int /\ h[k] \in Int
    BY <2>1
  <2>3. c + h[Len(q)] - h[k] <= q[k].available + Extra * (Latency + q[k].age)
    BY <1>1 DEF Close
  <2> DEFINE d == Latency + q[k].age
  <2>4. d \in Nat /\ Latency + r[k].age = d + 1
    <3> DEFINE u == q[k].age
               v == r[k].age
    <3>1. Latency \in Nat
      BY BudgetAssumption
    <3>2. u \in Nat /\ v = u + 1
      BY <1>2
    <3> HIDE DEF u, v
    <3>3. Latency + u \in Nat /\ Latency + v = Latency + u + 1
      BY <3>1, <3>2
    <3> QED
      BY <3>3 DEF u, v
  <2>5. Extra * (d + 1) = Extra * d + Extra /\ Extra * d \in Nat /\ Extra \in Nat
    BY <2>4, ExtraTimes
  <2> DEFINE b == Extra * d
  <2>6. Extra * (Latency + r[k].age) = b + Extra /\ b \in Nat
        /\ c + h[Len(q)] - h[k] <= q[k].available + b
    BY <2>3, <2>4, <2>5
  <2> HIDE DEF b
  <2> QED
    BY <1>2, <2>2, <2>5, <2>6, SMTT(30)
<1>5. Close(r, h, c + x)
  BY <1>2, <1>4 DEF Close
<1> QED
  BY <1>1, <1>2, <1>3, <1>5 DEF Buffers, r

\* Top-ups that arrive, or that the client has no room for.
LEMMA BuffersCredit ==
  ASSUME NEW q \in Seq(BufferMsg), NEW t, NEW a \in Int, NEW c \in Int, Buffers(q, t, a, c),
         NEW b \in Int, NEW d \in Int, a <= b, d <= c
  PROVE  Buffers(q, t, b, d)
<1>1. PICK h \in [0 .. Len(q) -> Int] :
        Summed(h, Sizes(q)) /\ h[Len(q)] = t /\ Covered(q, h, a) /\ Close(q, h, c)
  BY DEF Buffers
<1>2. Len(q) \in Nat /\ \A i \in 1 .. Len(q) : q[i].age \in Nat /\ q[i].available \in Int
  BY SizesOf
<1>3. ASSUME NEW k \in 1 .. Len(q)
      PROVE  /\ q[k].available + h[k] <= b + h[Len(q)]
             /\ d + h[Len(q)] - h[k] <= q[k].available + Extra * (Latency + q[k].age)
  <2>1. Len(q) \in 0 .. Len(q) /\ k \in 0 .. Len(q)
    BY <1>2
  <2>2. h[Len(q)] \in Int /\ h[k] \in Int /\ q[k].available \in Int
    BY <1>2, <2>1
  <2>3. c + h[Len(q)] - h[k] <= q[k].available + Extra * (Latency + q[k].age)
    BY <1>1 DEF Close
  <2>4. q[k].available + h[k] <= a + h[Len(q)]
    BY <1>1 DEF Covered
  <2>5. Extra * (Latency + q[k].age) \in Nat
    <3>1. Latency + q[k].age \in Nat
      BY <1>2, BudgetAssumption
    <3> QED
      BY <3>1, ExtraTimes
  <2> DEFINE e == Extra * (Latency + q[k].age)
  <2>6. e \in Nat /\ c + h[Len(q)] - h[k] <= q[k].available + e
    BY <2>3, <2>5
  <2> DEFINE u == q[k].available
             v == h[k]
             w == h[Len(q)]
  <2>7. /\ u \in Int /\ v \in Int /\ w \in Int /\ e \in Nat
        /\ u + v <= a + w /\ c + w - v <= u + e
    BY <2>2, <2>4, <2>6
  <2> HIDE DEF e, u, v, w
  <2>8. u + v <= b + w /\ d + w - v <= u + e
    BY <2>7
  <2> QED
    BY <2>8 DEF e, u, v, w
<1>4. Covered(q, h, b) /\ Close(q, h, d)
  BY <1>3 DEF Covered, Close
<1> QED
  BY <1>1, <1>4 DEF Buffers

\* The client sends x sections, and reports what it has left.
LEMMA BuffersSend ==
  ASSUME NEW q \in Seq(BufferMsg), NEW t, NEW a \in Int, NEW c \in Int, Buffers(q, t, a, c),
         c <= a + Extra * Latency, NEW x \in Nat
  PROVE  Buffers(Append(q, [sections |-> x, available |-> a - x, age |-> 0]), t + x, a - x, c - x)
<1> DEFINE m == [sections |-> x, available |-> a - x, age |-> 0]
           r == Append(q, m)
           n == Len(q)
           s == Sizes(q)
<1>1. PICK h \in [0 .. Len(q) -> Int] :
        Summed(h, Sizes(q)) /\ h[Len(q)] = t /\ Covered(q, h, a) /\ Close(q, h, c)
  BY DEF Buffers
<1> DEFINE l == Longer(h, n, x)
<1>2. /\ n \in Nat /\ n = Len(q) /\ s \in Seq(Int) /\ Len(s) = n
      /\ \A i \in 1 .. n : q[i].age \in Nat /\ q[i].available \in Int
  BY SizesOf
<1>3. m \in BufferMsg /\ m.sections = x /\ m.available = a - x /\ m.age = 0
  BY DEF BufferMsg
<1> HIDE DEF m
<1>4. /\ Len(r) = n + 1 /\ r[n + 1] = m /\ \A i \in 1 .. n : r[i] = q[i]
      /\ Sizes(r) = Append(s, x)
  BY <1>2, <1>3, SizesOf
<1> HIDE DEF r, n, s
<1>5. h \in [0 .. n -> Int] /\ Summed(h, s) /\ h[n] = t /\ n \in 0 .. n
  BY <1>1, <1>2 DEF n, s
<1>6. /\ l \in [0 .. n + 1 -> Int] /\ Summed(l, Append(s, x))
      /\ \A k \in 0 .. n : l[k] = h[k]
      /\ l[n + 1] = h[n] + x
  <2>1. /\ s \in Seq(Int) /\ x \in Int /\ h \in [0 .. Len(s) -> Int]
        /\ Summed(h, s) /\ Len(s) = n
    BY <1>2, <1>5
  <2> QED
    BY <2>1, SumsOfAppend
<1> HIDE DEF l
<1>7. ASSUME NEW k \in 1 .. n + 1
      PROVE  /\ r[k].available + l[k] <= a - x + l[n + 1]
             /\ c - x + l[n + 1] - l[k] <= r[k].available + Extra * (Latency + r[k].age)
  <2>1. CASE k \in 1 .. n
    <3>1. k \in 0 .. n /\ l[k] = h[k] /\ l[n + 1] = h[n] + x /\ r[k] = q[k]
      BY <1>2, <1>4, <1>6, <2>1
    <3>2. h[n] \in Int /\ h[k] \in Int /\ q[k].available \in Int
      BY <1>2, <1>5, <2>1, <3>1
    <3>3. c + h[n] - h[k] <= q[k].available + Extra * (Latency + q[k].age)
      BY <1>1, <1>2, <2>1 DEF Close
    <3>4. q[k].available + h[k] <= a + h[n]
      BY <1>1, <1>2, <2>1 DEF Covered
    <3>5. Extra * (Latency + q[k].age) \in Nat
      BY <1>2, <2>1, BudgetAssumption, ExtraTimes, SMTT(30)
    <3> DEFINE b == Extra * (Latency + q[k].age)
    <3>6. b \in Nat /\ c + h[n] - h[k] <= q[k].available + b
      BY <3>3, <3>5
    <3> HIDE DEF b
    <3>7. /\ q[k].available + h[k] <= a - x + (h[n] + x)
          /\ c - x + (h[n] + x) - h[k] <= q[k].available + b
      BY <3>2, <3>4, <3>6, SMTT(30)
    <3> QED
      BY <3>1, <3>7 DEF b
  <2>2. CASE k = n + 1
    <3>1. r[k].available = a - x /\ r[k].age = 0
      BY <1>3, <1>4, <2>2
    <3>2. l[k] \in Int /\ l[k] = l[n + 1]
      BY <1>5, <1>6, <2>2
    <3>3. Latency + 0 = Latency /\ Extra * Latency \in Nat
      BY BudgetAssumption, ExtraTimes
    <3> DEFINE b == Extra * Latency
    <3>4. b \in Nat /\ c <= a + b /\ Extra * (Latency + r[k].age) = b
      BY <3>1, <3>3
    <3> HIDE DEF b
    <3> QED
      BY <3>1, <3>2, <3>4
  <2> QED
    BY <1>2, <2>1, <2>2
<1>8. Len(r) = n + 1 /\ l[Len(r)] = t + x /\ Summed(l, Sizes(r))
  BY <1>4, <1>5, <1>6
<1>9. Covered(r, l, a - x) /\ Close(r, l, c - x)
  BY <1>7, <1>8 DEF Covered, Close
<1>10. Buffers(r, t + x, a - x, c - x)
  BY <1>6, <1>8, <1>9 DEF Buffers
<1> QED
  BY <1>10 DEF r, m

\* A buffer reaches the server: what it reported is covered, and is not far behind.
LEMMA BuffersArrive ==
  ASSUME NEW q \in Seq(BufferMsg), q # <<>>, NEW t, NEW a \in Int, NEW c \in Int,
         Buffers(q, t, a, c)
  PROVE  /\ Buffers(Tail(q), t - Head(q).sections, a, c)
         /\ Head(q).sections \in Nat /\ t - Head(q).sections \in Nat
         /\ Head(q).available <= a + (t - Head(q).sections)
         /\ c + (t - Head(q).sections) <= Head(q).available + Extra * (Latency + Head(q).age)
<1>1. PICK h \in [0 .. Len(q) -> Int] :
        Summed(h, Sizes(q)) /\ h[Len(q)] = t /\ Covered(q, h, a) /\ Close(q, h, c)
  BY DEF Buffers
<1> DEFINE r == Tail(q)
           n == Len(q)
           s == Sizes(q)
           l == Shorter(h, n)
<1>2. /\ n \in Nat /\ n = Len(q) /\ s \in Seq(Int) /\ s \in Seq(Nat) /\ Len(s) = n
      /\ \A i \in 1 .. n : q[i].age \in Nat /\ q[i].available \in Int
      /\ Sizes(r) = Tail(s) /\ s[1] = q[1].sections
  BY SizesOf
<1>3. /\ r \in Seq(BufferMsg) /\ Len(r) = n - 1 /\ n >= 1 /\ \A i \in 1 .. n - 1 : r[i] = q[i + 1]
      /\ Head(q) = q[1]
  OBVIOUS
<1> HIDE DEF r, n, s
<1>4. s # <<>> /\ h \in [0 .. n -> Int] /\ Summed(h, s) /\ h[n] = t
  BY <1>1, <1>2, <1>3 DEF n, s
<1>5. /\ n - 1 \in Nat /\ h[1] = s[1] /\ s[1] \in Int
      /\ l \in [0 .. n - 1 -> Int] /\ Summed(l, Tail(s))
      /\ \A k \in 0 .. n - 1 : l[k] = h[k + 1] - s[1]
  <2>1. s \in Seq(Int) /\ s # <<>> /\ h \in [0 .. Len(s) -> Int] /\ Summed(h, s) /\ Len(s) = n
    BY <1>2, <1>4
  <2> DEFINE w == Shorter(h, Len(s))
  <2>2. /\ Len(s) \in Nat \ {0} /\ h[1] = s[1] /\ s[1] \in Int
        /\ w \in [0 .. Len(s) - 1 -> Int] /\ Summed(w, Tail(s))
        /\ \A k \in 0 .. Len(s) - 1 : w[k] = h[k + 1] - s[1]
    BY <2>1, SumsOfTail
  <2>3. w = l
    BY <2>1
  <2> HIDE DEF w, l
  <2> QED
    BY <2>1, <2>2, <2>3
<1> HIDE DEF l
<1>6. ASSUME NEW i \in 1 .. n
      PROVE  /\ h[i] \in Int /\ h[n] \in Int /\ q[i].available \in Int
             /\ q[i].available + h[i] <= a + h[n]
             /\ c + h[n] - h[i] <= q[i].available + Extra * (Latency + q[i].age)
  <2>1. i \in 0 .. n /\ n \in 0 .. n
    BY <1>2
  <2>2. h[i] \in Int /\ h[n] \in Int
    BY <1>4, <2>1
  <2> QED
    BY <1>1, <1>2, <2>2 DEF Covered, Close
<1>7. ASSUME NEW k \in 1 .. n - 1
      PROVE  /\ r[k].available + l[k] <= a + l[n - 1]
             /\ c + l[n - 1] - l[k] <= r[k].available + Extra * (Latency + r[k].age)
  <2> DEFINE i == k + 1
  <2>1. i \in 1 .. n /\ k \in 0 .. n - 1 /\ n - 1 \in 0 .. n - 1 /\ n - 1 + 1 = n
    BY <1>2, <1>5
  <2>2. r[k] = q[i] /\ l[k] = h[i] - s[1]
    BY <1>3, <1>5, <2>1
  <2>3. l[n - 1] = h[n] - s[1]
    BY <1>5, <2>1
  <2> HIDE DEF i
  <2>4. /\ h[i] \in Int /\ h[n] \in Int /\ q[i].available \in Int
        /\ q[i].available + h[i] <= a + h[n]
        /\ c + h[n] - h[i] <= q[i].available + Extra * (Latency + q[i].age)
    BY <1>6, <2>1
  <2>5. c + l[n - 1] - l[k] = c + h[n] - h[i]
    BY <1>5, <2>2, <2>3, <2>4, SMTT(30)
  <2>6. r[k].available + l[k] <= a + l[n - 1]
    <3> DEFINE u == q[i].available
               v == h[i]
               w == h[n]
               z == s[1]
    <3>1. u \in Int /\ v \in Int /\ w \in Int /\ z \in Int /\ u + v <= a + w
      BY <1>5, <2>4
    <3>2. r[k].available = u /\ l[k] = v - z /\ l[n - 1] = w - z
      BY <2>2, <2>3
    <3> HIDE DEF u, v, w, z
    <3>3. u + (v - z) <= a + (w - z)
      BY <3>1
    <3> QED
      BY <3>2, <3>3
  <2> QED
    BY <2>2, <2>4, <2>5, <2>6
<1>8. Len(r) = n - 1 /\ Summed(l, Sizes(r)) /\ l[Len(r)] = t - q[1].sections
  <2>1. n - 1 \in 0 .. n - 1 /\ n - 1 + 1 = n
    BY <1>2, <1>5
  <2> QED
    BY <1>2, <1>3, <1>4, <1>5, <2>1
<1>9. Covered(r, l, a) /\ Close(r, l, c)
  BY <1>7, <1>8 DEF Covered, Close
<1>10. Buffers(r, t - q[1].sections, a, c)
  BY <1>5, <1>8, <1>9 DEF Buffers
<1>11. t - q[1].sections \in Nat
  BY <1>3, <1>10, BuffersTotal
<1>12. q[1].sections \in Nat
  BY <1>2, <1>3
<1>13. /\ q[1].available <= a + (t - q[1].sections)
       /\ c + (t - q[1].sections) <= q[1].available + Extra * (Latency + q[1].age)
  <2>1. 1 \in 1 .. n
    BY <1>2, <1>3
  <2>2. /\ h[1] \in Int /\ h[n] \in Int /\ q[1].available \in Int
        /\ q[1].available + h[1] <= a + h[n]
        /\ c + h[n] - h[1] <= q[1].available + Extra * (Latency + q[1].age)
    BY <1>6, <2>1
  <2>3. c + (t - q[1].sections) = c + h[n] - h[1]
    BY <1>2, <1>4, <1>5, <1>12, <2>2
  <2> QED
    BY <1>2, <1>4, <1>5, <1>12, <2>2, <2>3, SMTT(30)
<1> QED
  BY <1>3, <1>10, <1>11, <1>12, <1>13 DEF r

-----------------------------------------------------------------------------
(* Whole sections. *)

LEMMA DivIs ==
  ASSUME NEW x \in Nat, NEW q \in Nat, Scale * q <= x, x < Scale * q + Scale
  PROVE  x \div Scale = q
<1> USE Numbers
<1> DEFINE r == x \div Scale
<1>1. r \in Nat /\ Scale * r <= x /\ x < Scale * r + Scale
  OBVIOUS
<1> HIDE DEF r
<1>2. ASSUME NEW a \in Nat, NEW b \in Nat, a < b PROVE Scale * a + Scale <= Scale * b
  <2>1. b - a - 1 \in Nat /\ b = a + 1 + (b - a - 1)
    BY <1>2
  <2> DEFINE d == b - a - 1
  <2> HIDE DEF d
  <2>2. Scale * b = Scale * a + Scale + Scale * d /\ Scale * d \in Nat
    BY <2>1 DEF d
  <2>3. Scale * a \in Nat /\ Scale * b \in Nat
    OBVIOUS
  <2> QED
    BY <2>2, <2>3
<1>3. Scale * r \in Nat /\ Scale * q \in Nat
  BY <1>1
<1>4. ~(r < q) /\ ~(q < r)
  BY <1>1, <1>2, <1>3
<1> QED
  BY <1>1, <1>4 DEF r

LEMMA WholeSections ==
  ASSUME NEW a \in Int
  PROVE  Sections(a * Scale) = a /\ a * Scale \in Int
<1> USE Numbers
<1>1. ASSUME NEW b \in Nat PROVE (b * Scale) \div Scale = b
  <2>1. b * Scale \in Nat /\ Scale * b <= b * Scale /\ b * Scale < Scale * b + Scale
    OBVIOUS
  <2> QED
    BY <2>1, DivIs
<1>2. CASE a >= 0
  <2>1. a \in Nat /\ a * Scale \in Nat
    BY <1>2
  <2> QED
    BY <1>1, <2>1 DEF Sections
<1>3. CASE a < 0
  <2> DEFINE b == -a
  <2>1. b \in Nat /\ b > 0 /\ a = -b
    BY <1>3
  <2> HIDE DEF b
  <2>2. b * Scale \in Nat /\ b * Scale > 0 /\ a * Scale = -(b * Scale)
    BY <2>1
  <2> DEFINE x == b * Scale
  <2>3. x \in Nat /\ x > 0 /\ a * Scale = -x /\ x \div Scale = b
    BY <1>1, <2>1, <2>2
  <2> HIDE DEF x
  <2>4. ~(-x >= 0) /\ -(-x) = x
    BY <2>3
  <2>5. Sections(-x) = -(x \div Scale)
    BY <2>4 DEF Sections
  <2> QED
    BY <2>1, <2>3, <2>5
<1> QED
  BY <1>2, <1>3

LEMMA SectionsShift ==
  ASSUME NEW f \in Int, NEW n \in Nat
  PROVE  Sections(f) - n <= Sections(f - n * Scale)
<1> USE Numbers
<1>1. n * Scale \in Nat
  OBVIOUS
<1>2. CASE f >= 0
  <2> DEFINE q == f \div Scale
  <2>1. q \in Nat /\ q * Scale <= f /\ Sections(f) = q
    <3>1. f \in Nat
      BY <1>2
    <3>2. q \in Nat /\ Scale * q <= f
      BY <3>1
    <3>3. Sections(f) = q
      BY <1>2 DEF Sections
    <3> HIDE DEF q
    <3> QED
      BY <3>2, <3>3
  <2> HIDE DEF q
  <2>2. (q - n) * Scale = q * Scale - n * Scale /\ q * Scale \in Nat
    BY <2>1
  <2>3. (q - n) * Scale <= f - n * Scale /\ (q - n) * Scale \in Int /\ f - n * Scale \in Int
    BY <1>1, <2>1, <2>2
  <2>4. Sections((q - n) * Scale) <= Sections(f - n * Scale)
    BY <2>3, SectionsMonotonic
  <2>5. Sections((q - n) * Scale) = q - n
    BY <2>1, WholeSections
  <2> QED
    BY <2>1, <2>4, <2>5
<1>3. CASE f < 0
  <2> DEFINE x == -f
             q == x \div Scale
             y == x + n * Scale
  <2>1. x \in Nat /\ y \in Nat /\ q \in Nat /\ Scale * q <= x /\ x < Scale * q + Scale
    BY <1>1, <1>3
  <2>2. Sections(f) = -q /\ Sections(f - n * Scale) = -(y \div Scale)
    <3>1. ~(f >= 0) /\ ~(f - n * Scale >= 0) /\ -(f - n * Scale) = y
      BY <1>1, <1>3
    <3> QED
      BY <3>1 DEF Sections
  <2>3. y = x + n * Scale
    OBVIOUS
  <2> HIDE DEF x, q, y
  <2>4. Scale * (q + n) = Scale * q + n * Scale
    BY <2>1
  <2>5. Scale * (q + n) <= y /\ y < Scale * (q + n) + Scale
    BY <1>1, <2>1, <2>3, <2>4
  <2>6. y \div Scale = q + n
    BY <2>1, <2>5, DivIs
  <2> QED
    BY <2>1, <2>2, <2>6
<1> QED
  BY <1>2, <1>3

\* A tick is worth Extra sections at most, wherever it is cut into whole ones.
LEMMA GainedBounded ==
  ASSUME NEW f \in Int, NEW b \in Int, b <= f + Allowed
  PROVE  Sections(b) - Sections(f) <= Extra
<1> USE Numbers
<1>1. Extra \in Nat /\ Allowed <= Extra * Scale
  <2> DEFINE y == Allowed + Scale - 1
  <2>1. y \in Nat /\ y \div Scale \in Nat /\ y < Scale * (y \div Scale) + Scale
    OBVIOUS
  <2>2. Extra = y \div Scale
    BY DEF Extra
  <2>3. y < Scale * Extra + Scale /\ Extra \in Nat
    BY <2>1, <2>2
  <2>4. Scale * Extra \in Nat /\ Scale * Extra = Extra * Scale
    BY <2>3
  <2> QED
    BY <2>3, <2>4
<1> DEFINE z == f + Extra * Scale
<1>2. Extra * Scale \in Nat /\ z \in Int /\ b <= z /\ z - Extra * Scale = f
  BY <1>1
<1> HIDE DEF z
<1>3. Sections(b) <= Sections(z)
  BY <1>2, SectionsMonotonic
<1>4. Sections(z) - Extra <= Sections(z - Extra * Scale)
  BY <1>1, <1>2, SectionsShift
<1>5. Sections(b) \in Int /\ Sections(z) \in Int /\ Sections(f) \in Int
  BY <1>2, SectionsTyped
<1> QED
  BY <1>1, <1>2, <1>3, <1>4, <1>5

-----------------------------------------------------------------------------
(* The two counts. *)

\* The client has nothing and sent nothing: the top-up that comes with a session may
\* still be on its way, and it is worth more than a tick.
Early == available = 0 /\ buffers = <<>>
Excepted == IF Early THEN 1 ELSE 0

\* How much more the client may have than the server counts: what is granted while a
\* message travels to the client and its answer back.
Slack == Extra * (2 * Latency - 1)

Young ==
  /\ \A i \in 1 .. Len(grants) : grants[i].age < Latency
  /\ \A i \in 1 .. Len(buffers) : buffers[i].age < Latency

OnTheWay ==
  /\ Grants(grants, Granting, Excepted)
  /\ Buffers(buffers, Sending, available, available + Granting)

Told ==
  /\ sends = None => grants = <<>> /\ Early
  /\ sends # None =>
       /\ Sections(sends) <= available + Granting + Sending + dropped
       /\ available + Granting + Sending <= Sections(sends) + Slack

Ledger == thrifty => OnTheWay /\ Told

LEMMA Totals ==
  /\ Granting = SumOf(Adds(grants)) /\ Sending = SumOf(Sizes(buffers))
  /\ Granting' = SumOf(Adds(grants')) /\ Sending' = SumOf(Sizes(buffers'))
<1>1. ASSUME NEW s PROVE Total(s) = SumOf(s)
  BY Zenon DEF Total, SumOf
<1>2. Granting = Total(Adds(grants)) /\ Sending = Total(Sizes(buffers))
  BY DEF Granting, Sending, Adds, Sizes
<1>3. Granting' = Total(Adds(grants')) /\ Sending' = Total(Sizes(buffers'))
  BY DEF Granting, Sending, Adds, Sizes
<1> QED
  BY <1>1, <1>2, <1>3

LEMMA SlackIs ==
  /\ Slack \in Nat
  /\ \A a \in Nat : a < Latency =>
       Extra * (Latency + a) \in Nat /\ Extra * (Latency + a) <= Slack
<1>1. Latency \in Nat \ {0}
  BY BudgetAssumption
<1>2. 2 * Latency - 1 \in Nat
  BY <1>1
<1>3. Slack \in Nat
  BY <1>2, ExtraTimes DEF Slack
<1>4. ASSUME NEW a \in Nat, a < Latency
      PROVE  Extra * (Latency + a) \in Nat /\ Extra * (Latency + a) <= Slack
  <2>1. Latency + a \in Nat /\ Latency + a <= 2 * Latency - 1
    BY <1>1, <1>4
  <2> QED
    BY <1>2, <2>1, ExtraTimes DEF Slack
<1> QED
  BY <1>3, <1>4

LEMMA YoungStep ==
  ASSUME TypeOK, Young, [Next]_vars
  PROVE  Young'
<1>1. /\ grants \in Seq(GrantMsg) /\ buffers \in Seq(BufferMsg)
      /\ Len(grants) \in Nat /\ Len(buffers) \in Nat
  BY DEF TypeOK
<1>2. Latency \in Nat /\ 0 < Latency
  BY BudgetAssumption
<1>3. ASSUME NEW q \in Seq(GrantMsg), q = grants, q # <<>>
      PROVE  \A i \in 1 .. Len(Tail(q)) : Tail(q)[i].age < Latency
  <2>1. \A i \in 1 .. Len(Tail(q)) : i + 1 \in 1 .. Len(q) /\ Tail(q)[i] = q[i + 1]
    BY <1>3
  <2> QED
    BY <1>3, <2>1 DEF Young
<1>4. ASSUME NEW q \in Seq(BufferMsg), q = buffers, q # <<>>
      PROVE  \A i \in 1 .. Len(Tail(q)) : Tail(q)[i].age < Latency
  <2>1. \A i \in 1 .. Len(Tail(q)) : i + 1 \in 1 .. Len(q) /\ Tail(q)[i] = q[i + 1]
    BY <1>4
  <2> QED
    BY <1>4, <2>1 DEF Young
<1>5. CASE Tick
  <2>1. /\ \A i \in 1 .. Len(grants) : Aged(grants)[i].age < Latency
        /\ Len(Aged(grants)) = Len(grants) /\ Aged(grants) \in Seq(GrantMsg)
    <3>1. \A i \in 1 .. Len(grants) : grants[i].age + 1 < Latency
      BY <1>1, <1>5 DEF Tick
    <3>2. /\ Len(Aged(grants)) = Len(grants)
          /\ \A i \in 1 .. Len(grants) : Aged(grants)[i].age = grants[i].age + 1
      BY <1>1, AddsOf
    <3>3. Aged(grants) \in Seq(GrantMsg)
      BY <1>1, AgedTyped, OlderTyped
    <3> QED
      BY <3>1, <3>2, <3>3
  <2>2. /\ \A i \in 1 .. Len(buffers) : Aged(buffers)[i].age < Latency
        /\ Len(Aged(buffers)) = Len(buffers)
    <3>1. \A i \in 1 .. Len(buffers) : buffers[i].age + 1 < Latency
      BY <1>1, <1>5 DEF Tick
    <3>2. /\ Len(Aged(buffers)) = Len(buffers)
          /\ \A i \in 1 .. Len(buffers) : Aged(buffers)[i].age = buffers[i].age + 1
      BY <1>1, SizesOf
    <3> QED
      BY <3>1, <3>2
  <2>3. buffers' = Aged(buffers)
    BY <1>5 DEF Tick
  <2>4. \/ grants' = Aged(grants)
        \/ \E x : grants' = Append(Aged(grants), [add |-> x, age |-> 0])
    BY <1>5, Zenon DEF Tick
  <2>5. ASSUME NEW x, grants' = Append(Aged(grants), [add |-> x, age |-> 0])
        PROVE  \A i \in 1 .. Len(grants') : grants'[i].age < Latency
    <3> DEFINE p == Aged(grants)
    <3> DEFINE m == [add |-> x, age |-> 0]
    <3>1. m.age < Latency /\ p \in Seq(GrantMsg) /\ Len(p) = Len(grants)
          /\ \A i \in 1 .. Len(grants) : p[i].age < Latency
      BY <1>2, <2>1
    <3> HIDE DEF p, m
    <3>2. /\ Len(Append(p, m)) = Len(grants) + 1 /\ Append(p, m)[Len(grants) + 1] = m
          /\ \A i \in 1 .. Len(grants) : Append(p, m)[i] = p[i]
      BY <1>1, <3>1
    <3>3. grants' = Append(p, m)
      BY <2>5 DEF p, m
    <3>4. \A i \in 1 .. Len(grants) + 1 : i \in 1 .. Len(grants) \/ i = Len(grants) + 1
      BY <1>1
    <3> QED
      BY <3>1, <3>2, <3>3, <3>4
  <2>6. \A i \in 1 .. Len(grants') : grants'[i].age < Latency
    BY <2>1, <2>4, <2>5
  <2>7. \A i \in 1 .. Len(buffers') : buffers'[i].age < Latency
    BY <2>2, <2>3
  <2> QED
    BY <2>6, <2>7 DEF Young
<1>6. CASE HandleBuffer \/ DropBuffer \/ BrokenBuffer
  <2>1. buffers # <<>> /\ buffers' = Tail(buffers) /\ grants' = grants
    BY <1>6 DEF HandleBuffer, DropBuffer, BrokenBuffer
  <2> QED
    BY <1>1, <1>4, <2>1 DEF Young
<1>7. CASE ReceiveGrant
  <2>1. grants # <<>> /\ grants' = Tail(grants) /\ buffers' = buffers
    BY <1>7 DEF ReceiveGrant
  <2> QED
    BY <1>1, <1>3, <2>1 DEF Young
<1>8. ASSUME NEW n \in 1 .. MaxSections, NEW left \in 0 .. Allowed, ClientSend(n, left)
      PROVE  Young'
  <2> DEFINE m == [sections |-> n, available |-> left, age |-> 0]
  <2>1. buffers' = Append(buffers, m) /\ grants' = grants /\ m.age < Latency
    BY <1>2, <1>8 DEF ClientSend
  <2> HIDE DEF m
  <2>2. /\ Len(buffers') = Len(buffers) + 1 /\ buffers'[Len(buffers) + 1] = m
        /\ \A i \in 1 .. Len(buffers) : buffers'[i] = buffers[i]
    BY <1>1, <2>1
  <2>3. \A i \in 1 .. Len(buffers) + 1 : i \in 1 .. Len(buffers) \/ i = Len(buffers) + 1
    BY <1>1
  <2> QED
    BY <2>1, <2>2, <2>3 DEF Young
<1>9. CASE NewSession
  <2>1. grants' = <<>> /\ buffers' = <<>>
    BY <1>9 DEF NewSession
  <2> QED
    BY <2>1 DEF Young
<1>10. CASE UNCHANGED vars
  BY <1>10 DEF vars, Young
<1> QED
  BY <1>5, <1>6, <1>7, <1>8, <1>9, <1>10 DEF Next

\* The numbers of a state in which the client keeps to its count.
LEMMA LedgerTyped ==
  ASSUME TypeOK, OnTheWay
  PROVE  /\ grants \in Seq(GrantMsg) /\ buffers \in Seq(BufferMsg)
         /\ Granting \in Nat /\ Sending \in Nat /\ dropped \in Nat
         /\ available \in Nat /\ available <= Allowed /\ Allowed \in Nat /\ Slack \in Nat
         /\ Excepted \in {0, 1} /\ (buffers # <<>> => Excepted = 0)
         /\ sends # None => /\ sends \in Int /\ Sections(sends) \in Int
                            /\ sends <= Full /\ Sections(sends) <= Allowed
<1>1. grants \in Seq(GrantMsg) /\ buffers \in Seq(BufferMsg) /\ dropped \in Nat
  BY DEF TypeOK
<1>2. available \in Nat /\ available <= Allowed /\ Allowed \in Nat
  BY Numbers DEF TypeOK
<1>3. Granting \in Nat /\ Sending \in Nat
  BY <1>1, GrantsTotal, BuffersTotal DEF OnTheWay
<1>4. Slack \in Nat
  BY SlackIs
<1>5. Excepted \in {0, 1} /\ (buffers # <<>> => Excepted = 0)
  BY DEF Excepted, Early
<1>6. ASSUME sends # None
      PROVE  sends \in Int /\ Sections(sends) \in Int /\ sends <= Full /\ Sections(sends) <= Allowed
  <2>1. sends \in Int /\ sends <= Full
    BY <1>6 DEF TypeOK
  <2>2. Sections(Full) = Allowed /\ Full \in Int
    BY Numbers, WholeSections DEF Full
  <2> QED
    BY <2>1, <2>2, SectionsTyped, SectionsMonotonic
<1> QED
  BY <1>1, <1>2, <1>3, <1>4, <1>5, <1>6

LEMMA GrantsWeaken ==
  ASSUME NEW q \in Seq(GrantMsg), NEW t, Grants(q, t, 0), NEW e \in Nat
  PROVE  Grants(q, t, e)
<1>1. Len(q) \in Nat
  OBVIOUS
<1>2. \A g : Recent(q, g, 0) => Recent(q, g, e)
  BY <1>1 DEF Recent
<1> QED
  BY <1>2 DEF Grants

\* A tick tells the client of what it grants.
LEMMA LedgerTick ==
  ASSUME TypeOK, TypeOK', OnTheWay, Told, Tick
  PROVE  OnTheWay' /\ Told'
<1> USE Numbers
<1>1. /\ grants \in Seq(GrantMsg) /\ buffers \in Seq(BufferMsg)
      /\ Granting \in Nat /\ Sending \in Nat /\ dropped \in Nat
      /\ available \in Nat /\ available <= Allowed /\ Slack \in Nat
      /\ Excepted \in {0, 1}
  BY LedgerTyped
<1>2. /\ buffers' = Aged(buffers) /\ available' = available /\ dropped' = dropped
      /\ Len(buffers') = Len(buffers) /\ buffers' \in Seq(BufferMsg) /\ grants' \in Seq(GrantMsg)
  <2>1. Len(Aged(buffers)) = Len(buffers)
    BY <1>1, SizesOf
  <2>2. buffers' \in Seq(BufferMsg) /\ grants' \in Seq(GrantMsg)
    BY DEF TypeOK
  <2> QED
    BY <2>1, <2>2 DEF Tick
<1>3. buffers' = <<>> <=> buffers = <<>>
  BY <1>1, <1>2
<1>4. Excepted' = Excepted /\ (Early' <=> Early)
  BY <1>2, <1>3 DEF Excepted, Early
<1>5. CASE sends = None
  <2>1. grants = <<>> /\ Early /\ Excepted = 1
    BY <1>5 DEF Told, Excepted
  <2>2. available = 0 /\ buffers = <<>> /\ buffers' = <<>>
    BY <1>3, <2>1 DEF Early
  <2>3. sends' = Full /\ grants' = Append(Aged(grants), [add |-> Allowed, age |-> 0])
    BY <1>5 DEF Tick
  <2>4. Grants(grants, 0, 1)
    BY <2>1, NoneOnTheWay
  <2>5. Grants(grants', 0 + Allowed, 1)
    <3>1. Len(grants) < 1 /\ Allowed \in Nat
      BY <2>1
    <3> QED
      BY <1>1, <2>3, <2>4, <3>1, GrantsTopUp
  <2>6. Buffers(buffers', 0, 0, Allowed)
    BY <2>2, NoneOnTheWay
  <2>7. Granting' = Allowed /\ Sending' = 0
    <3>1. Grants(grants', Allowed, 1)
      BY <2>5
    <3>2. Allowed = SumOf(Adds(grants'))
      BY <1>2, <3>1, GrantsTotal
    <3>3. 0 = SumOf(Sizes(buffers'))
      BY <1>2, <2>6, BuffersTotal
    <3> QED
      BY <3>2, <3>3, Totals
  <2>8. OnTheWay'
    <3>1. 0 + Allowed = Allowed /\ available' = 0 /\ Excepted' = 1
      BY <1>2, <1>4, <2>1, <2>2
    <3> QED
      BY <2>5, <2>6, <2>7, <3>1 DEF OnTheWay
  <2>9. Sections(sends') = Allowed /\ sends' # None
    BY <2>3, WholeSections, FullTyped DEF Full
  <2>10. Told'
    <3>1. available' = 0
      BY <1>2, <2>2
    <3>2. /\ Sections(sends') <= available' + Granting' + Sending' + dropped'
          /\ available' + Granting' + Sending' <= Sections(sends') + Slack
      BY <1>1, <1>2, <2>7, <2>9, <3>1
    <3> QED
      BY <2>9, <3>2, Zenon DEF Told, Slack
  <2> QED
    BY <2>8, <2>10
<1>6. CASE sends # None
  <2> DEFINE x == Gained(sends, sends')
  <2>1. /\ sends \in Int /\ Sections(sends) \in Int /\ sends <= Full
        /\ Sections(sends) <= available + Granting + Sending + dropped
        /\ available + Granting + Sending <= Sections(sends) + Slack
    BY <1>6, LedgerTyped DEF Told
  <2>2. /\ sends' = Topped(sends)
        /\ grants' = IF x = 0 THEN Aged(grants) ELSE Append(Aged(grants), [add |-> x, age |-> 0])
    BY <1>6 DEF Tick
  <2>3. sends' \in Int /\ sends' <= sends + Allowed /\ x \in Nat /\ sends' # None
    BY <2>1, <2>2, ToppedBounds
  <2>4. x = Sections(sends') - Sections(sends) /\ x <= Extra
    BY <2>1, <2>3, GainedBounded DEF Gained
  <2> HIDE DEF x
  <2>5. Grants(grants', Granting + x, Excepted)
    <3>1. Grants(grants, Granting, Excepted) /\ Excepted \in Nat
      BY <1>1 DEF OnTheWay
    <3>2. CASE x = 0
      <4>1. grants' = Aged(grants) /\ Granting + x = Granting
        BY <1>1, <2>2, <3>2
      <4> QED
        BY <1>1, <3>1, <4>1, GrantsAge
    <3>3. CASE x # 0
      <4>1. grants' = Append(Aged(grants), [add |-> x, age |-> 0])
        BY <2>2, <3>3
      <4> QED
        BY <1>1, <2>3, <2>4, <3>1, <4>1, GrantsTopUp
    <3> QED
      BY <3>2, <3>3
  <2>6. Buffers(buffers', Sending, available, available + Granting + x)
    <3>1. available \in Int /\ available + Granting \in Int
      BY <1>1
    <3>2. Buffers(buffers, Sending, available, available + Granting)
      BY DEF OnTheWay
    <3> QED
      BY <1>1, <1>2, <2>3, <2>4, <3>1, <3>2, BuffersAge
  <2>7. Granting' = Granting + x /\ Sending' = Sending
    <3>1. Granting + x = SumOf(Adds(grants')) /\ Sending = SumOf(Sizes(buffers'))
      BY <1>2, <2>5, <2>6, GrantsTotal, BuffersTotal
    <3> QED
      BY <3>1, Totals
  <2>8. OnTheWay'
    <3>1. available' + Granting' = available + Granting + x
      BY <1>1, <1>2, <2>3, <2>7
    <3> QED
      BY <1>2, <1>4, <2>5, <2>6, <2>7, <3>1, Zenon DEF OnTheWay
  <2>9. Told'
    <3>1. Sections(sends') \in Int
      BY <2>3, SectionsTyped
    <3>2. /\ Sections(sends') <= available' + Granting' + Sending' + dropped'
          /\ available' + Granting' + Sending' <= Sections(sends') + Slack
      <4> DEFINE s == Sections(sends)
                 z == Sections(sends')
      <4>1. /\ s \in Int /\ z \in Int /\ x = z - s
            /\ s <= available + Granting + Sending + dropped
            /\ available + Granting + Sending <= s + Slack
        BY <2>1, <2>4, <3>1
      <4>2. /\ available' = available /\ Granting' = Granting + x /\ Sending' = Sending
            /\ dropped' = dropped
        BY <1>2, <2>7
      <4> HIDE DEF s, z
      <4>3. /\ z <= available + (Granting + x) + Sending + dropped
            /\ available + (Granting + x) + Sending <= z + Slack
        BY <1>1, <4>1
      <4> QED
        BY <4>2, <4>3 DEF z
    <3> QED
      BY <2>3, <3>2, Zenon DEF Told, Slack
  <2> QED
    BY <2>8, <2>9
<1> QED
  BY <1>5, <1>6

\* A buffer reaches the server: what is known of it whether it is charged or dropped.
LEMMA LedgerArrival ==
  ASSUME TypeOK, Young, OnTheWay, Told, buffers # <<>>, buffers' = Tail(buffers),
         available' = available, grants' = grants
  PROVE  /\ Head(buffers) \in BufferMsg /\ Head(buffers).sections \in Nat
         /\ Head(buffers).available \in Int /\ sends # None
         /\ Granting' = Granting /\ Sending' = Sending - Head(buffers).sections /\ Sending' \in Nat
         /\ OnTheWay'
         /\ Head(buffers).available <= available + Sending'
         /\ available + Granting + Sending' <= Head(buffers).available + Slack
<1> DEFINE m == Head(buffers)
           r == Tail(buffers)
           u == Sending - m.sections
           c == available + Granting
<1>1. /\ grants \in Seq(GrantMsg) /\ buffers \in Seq(BufferMsg)
      /\ Granting \in Nat /\ Sending \in Nat
      /\ available \in Nat /\ Slack \in Nat /\ Excepted = 0
  BY LedgerTyped
<1>2. m \in BufferMsg /\ m.available \in Int /\ m.age \in Nat /\ m.age < Latency
  <2>1. m = buffers[1] /\ 1 \in 1 .. Len(buffers) /\ m \in BufferMsg
    BY <1>1
  <2>2. \A b \in BufferMsg : b.available \in Int /\ b.age \in Nat
    BY DEF BufferMsg
  <2> QED
    BY <2>1, <2>2 DEF Young
<1>3. sends # None
  BY DEF Told, Early
<1>4. c \in Int /\ available \in Int
  BY <1>1
<1>5. Buffers(buffers, Sending, available, c)
  BY DEF OnTheWay
<1> HIDE DEF c
<1>6. /\ Buffers(r, u, available, c)
      /\ m.sections \in Nat /\ u \in Nat
      /\ m.available <= available + u
      /\ c + u <= m.available + Extra * (Latency + m.age)
  BY <1>1, <1>4, <1>5, BuffersArrive
<1> HIDE DEF m, r, u
<1>7. r \in Seq(BufferMsg) /\ buffers' = r
  BY <1>1 DEF r
<1>8. Sending' = u /\ Granting' = Granting
  <2>1. u = SumOf(Sizes(r))
    BY <1>6, <1>7, BuffersTotal
  <2> QED
    BY <1>7, <2>1, Totals
<1>9. OnTheWay'
  <2>1. Excepted' \in Nat
    BY DEF Excepted
  <2>2. Grants(grants, Granting, Excepted')
    <3>1. Grants(grants, Granting, 0)
      BY <1>1 DEF OnTheWay
    <3> QED
      BY <1>1, <2>1, <3>1, GrantsWeaken
  <2>3. Buffers(buffers', Sending', available', available' + Granting')
    BY <1>6, <1>7, <1>8 DEF c
  <2>4. Grants(grants', Granting', Excepted')
    BY <1>8, <2>2
  <2> QED
    BY <2>3, <2>4, Zenon DEF OnTheWay
<1>10. Extra * (Latency + m.age) \in Nat /\ Extra * (Latency + m.age) <= Slack
  BY <1>2, SlackIs
<1>11. c + u <= m.available + Slack
  <2> DEFINE b == Extra * (Latency + m.age)
  <2>1. b \in Nat /\ b <= Slack /\ c + u <= m.available + b
    BY <1>6, <1>10
  <2> HIDE DEF b
  <2> QED
    BY <1>1, <1>2, <1>4, <1>6, <2>1
<1>12. available + Granting + Sending' <= m.available + Slack
  BY <1>8, <1>11 DEF c
<1>13. Sending' = Sending - m.sections
  BY <1>8 DEF u
<1> QED
  BY <1>2, <1>3, <1>6, <1>8, <1>9, <1>12, <1>13 DEF m

\* Charging takes off what the client spent, or comes back to what it reported.
LEMMA LedgerHandle ==
  ASSUME TypeOK, TypeOK', Young, OnTheWay, Told, HandleBuffer
  PROVE  OnTheWay' /\ Told'
<1> USE Numbers
<1> DEFINE m == Head(buffers)
           f == sends - m.sections * Scale
           w == m.available * Scale
<1>1. /\ buffers # <<>> /\ buffers' = Tail(buffers) /\ sends' = Charged(sends, m)
      /\ dropped' = 0 /\ available' = available /\ grants' = grants
  BY DEF HandleBuffer
<1>2. /\ m \in BufferMsg /\ m.sections \in Nat /\ m.available \in Int /\ sends # None
      /\ Granting' = Granting /\ Sending' = Sending - m.sections /\ Sending' \in Nat
      /\ OnTheWay'
      /\ m.available <= available + Sending'
      /\ available + Granting + Sending' <= m.available + Slack
  BY <1>1, LedgerArrival
<1>3. /\ Granting \in Nat /\ Sending \in Nat /\ available \in Nat /\ Slack \in Nat
      /\ sends \in Int /\ Sections(sends) \in Int
      /\ available + Granting + Sending <= Sections(sends) + Slack
  BY <1>2, LedgerTyped DEF Told
<1>4. sends' = Smaller(f, w)
  BY <1>1, <1>2 DEF Charged
<1>5. f \in Int /\ w \in Int /\ Sections(w) = m.available
  BY <1>2, <1>3, WholeSections
<1>6. Sections(sends) - m.sections <= Sections(f)
  BY <1>2, <1>3, SectionsShift
<1> HIDE DEF m, f, w
<1>7. sends' \in Int /\ sends' # None /\ sends' <= w /\ (sends' = f \/ sends' = w)
  BY <1>4, <1>5 DEF Smaller
<1>8. Sections(sends') \in Int /\ Sections(sends') <= m.available
  <2>1. Sections(sends') <= Sections(w)
    BY <1>5, <1>7, SectionsMonotonic
  <2> QED
    BY <1>5, <1>7, <2>1, SectionsTyped
<1>9. Sections(sends') <= available' + Granting' + Sending' + dropped'
  <2> DEFINE z == Sections(sends')
             k == Sending'
  <2>1. z \in Int /\ k \in Nat /\ z <= m.available /\ m.available <= available + k
    BY <1>2, <1>8
  <2> HIDE DEF z, k
  <2>2. z <= available + Granting + k + 0
    BY <1>2, <1>3, <2>1
  <2> QED
    BY <1>1, <1>2, <2>2 DEF z, k
<1>10. available' + Granting' + Sending' <= Sections(sends') + Slack
  <2>1. CASE sends' = w
    BY <1>1, <1>2, <1>3, <1>5, <2>1
  <2>2. CASE sends' = f
    <3>1. Sections(sends) - m.sections <= Sections(sends')
      BY <1>6, <2>2
    <3> DEFINE s == Sections(sends)
               z == Sections(sends')
    <3>2. /\ s \in Int /\ z \in Int /\ s - m.sections <= z
          /\ available + Granting + Sending <= s + Slack
      BY <1>3, <1>8, <3>1
    <3> HIDE DEF s, z
    <3>3. available + Granting + (Sending - m.sections) <= z + Slack
      BY <1>2, <1>3, <3>2
    <3> QED
      BY <1>1, <1>2, <3>3 DEF z
  <2> QED
    BY <1>7, <2>1, <2>2
<1>11. Told'
  BY <1>7, <1>9, <1>10, Zenon DEF Told, Slack
<1> QED
  BY <1>2, <1>11

\* A dropped buffer is charged to nobody.
LEMMA LedgerDrop ==
  ASSUME TypeOK, Young, OnTheWay, Told, thrifty, DropBuffer
  PROVE  OnTheWay' /\ Told'
<1> DEFINE m == Head(buffers)
<1>1. /\ buffers # <<>> /\ buffers' = Tail(buffers) /\ sends' = sends
      /\ dropped' = dropped + m.sections /\ available' = available /\ grants' = grants
  BY DEF DropBuffer
<1>2. /\ m.sections \in Nat /\ sends # None
      /\ Granting' = Granting /\ Sending' = Sending - m.sections /\ Sending' \in Nat
      /\ OnTheWay'
  BY <1>1, LedgerArrival
<1>3. /\ Granting \in Nat /\ Sending \in Nat /\ available \in Nat /\ Slack \in Nat /\ dropped \in Nat
      /\ sends \in Int /\ Sections(sends) \in Int
      /\ Sections(sends) <= available + Granting + Sending + dropped
      /\ available + Granting + Sending <= Sections(sends) + Slack
  BY <1>2, LedgerTyped DEF Told
<1> HIDE DEF m
<1> DEFINE s == Sections(sends)
<1>4. /\ s \in Int /\ s <= available + Granting + Sending + dropped
      /\ available + Granting + Sending <= s + Slack
  BY <1>3
<1> HIDE DEF s
<1>5. /\ s <= available + Granting + (Sending - m.sections) + (dropped + m.sections)
      /\ available + Granting + (Sending - m.sections) <= s + Slack
  BY <1>2, <1>3, <1>4
<1>6. /\ Sections(sends') <= available' + Granting' + Sending' + dropped'
      /\ available' + Granting' + Sending' <= Sections(sends') + Slack
  BY <1>1, <1>2, <1>5 DEF s
<1>7. Told'
  BY <1>1, <1>2, <1>6, Zenon DEF Told, Slack
<1> QED
  BY <1>2, <1>7

\* A top-up arrives; what the client has no room for the server does not count either.
LEMMA LedgerReceive ==
  ASSUME TypeOK, OnTheWay, Told, ReceiveGrant
  PROVE  OnTheWay' /\ Told'
<1> USE Numbers
<1> DEFINE x == Head(grants).add
           b == Smaller(available + x, Allowed)
           u == Granting - x
<1>1. /\ grants # <<>> /\ grants' = Tail(grants) /\ available' = b
      /\ sends' = sends /\ buffers' = buffers /\ dropped' = dropped
  BY DEF ReceiveGrant
<1>2. /\ grants \in Seq(GrantMsg) /\ buffers \in Seq(BufferMsg)
      /\ Granting \in Nat /\ Sending \in Nat /\ dropped \in Nat
      /\ available \in Nat /\ available <= Allowed /\ Slack \in Nat
      /\ Excepted \in {0, 1}
  BY LedgerTyped
<1>3. sends # None
  BY <1>1 DEF Told
<1>4. /\ sends \in Int /\ Sections(sends) \in Int /\ Sections(sends) <= Allowed
      /\ Sections(sends) <= available + Granting + Sending + dropped
      /\ available + Granting + Sending <= Sections(sends) + Slack
  BY <1>3, LedgerTyped DEF Told
<1>5. Excepted' \in Nat
  BY DEF Excepted
<1>6. Grants(Tail(grants), u, Excepted') /\ x \in Nat /\ u \in Nat
  <2>1. Grants(grants, Granting, Excepted)
    BY DEF OnTheWay
  <2> QED
    BY <1>1, <1>2, <1>5, <2>1, GrantsArrive
<1> HIDE DEF x
<1>7. u = Granting - x
  OBVIOUS
<1> HIDE DEF u
<1>8. b \in Nat /\ available <= b /\ b <= available + x /\ (b = available + x \/ b = Allowed)
  BY <1>2, <1>6 DEF Smaller
<1> HIDE DEF b
<1>9. Buffers(buffers, Sending, b, b + u)
  <2>1. Buffers(buffers, Sending, available, available + Granting)
    BY DEF OnTheWay
  <2>2. /\ available \in Int /\ available + Granting \in Int /\ b \in Int /\ b + u \in Int
        /\ b + u <= available + Granting
    BY <1>2, <1>6, <1>7, <1>8
  <2> QED
    BY <1>2, <1>8, <2>1, <2>2, BuffersCredit
<1>10. Granting' = u /\ Sending' = Sending
  <2>1. Tail(grants) \in Seq(GrantMsg)
    BY <1>1, <1>2
  <2>2. u = SumOf(Adds(Tail(grants))) /\ Sending = SumOf(Sizes(buffers))
    BY <1>6, <2>1, GrantsTotal, Totals
  <2> QED
    BY <1>1, <2>2, Totals
<1>11. OnTheWay'
  BY <1>1, <1>6, <1>9, <1>10, Zenon DEF OnTheWay
<1> DEFINE s == Sections(sends)
<1>12. /\ s \in Int /\ s <= Allowed /\ s <= available + Granting + Sending + dropped
       /\ available + Granting + Sending <= s + Slack
  BY <1>4
<1> HIDE DEF s
<1>13. s <= b + u + Sending + dropped /\ b + u + Sending <= s + Slack
  BY <1>2, <1>6, <1>7, <1>8, <1>12
<1>14. /\ Sections(sends') <= available' + Granting' + Sending' + dropped'
       /\ available' + Granting' + Sending' <= Sections(sends') + Slack
  BY <1>1, <1>10, <1>13 DEF s
<1>15. Told'
  BY <1>1, <1>3, <1>14, Zenon DEF Told, Slack
<1> QED
  BY <1>11, <1>15

\* The client spends from its count before it sends.
LEMMA LedgerSend ==
  ASSUME TypeOK, TypeOK', Young, OnTheWay, Told, thrifty',
         NEW n \in 1 .. MaxSections, NEW left \in 0 .. Allowed, ClientSend(n, left)
  PROVE  OnTheWay' /\ Told'
<1> USE Numbers
<1> DEFINE m == [sections |-> n, available |-> available - n, age |-> 0]
           c == available + Granting
<1>1. /\ n <= available /\ left = available - n /\ available' = left
      /\ buffers' = Append(buffers, [sections |-> n, available |-> left, age |-> 0])
      /\ sends' = sends /\ grants' = grants /\ dropped' = dropped
  BY DEF ClientSend
<1>2. buffers' = Append(buffers, m) /\ available' = available - n
  BY <1>1
<1>3. /\ grants \in Seq(GrantMsg) /\ buffers \in Seq(BufferMsg)
      /\ Granting \in Nat /\ Sending \in Nat /\ dropped \in Nat
      /\ available \in Nat /\ Slack \in Nat
  BY LedgerTyped
<1>4. n \in Nat /\ n >= 1
  BY BudgetAssumption
<1>5. ~Early /\ Excepted = 0
  BY <1>1, <1>3, <1>4 DEF Early, Excepted
<1>6. sends # None
  BY <1>5 DEF Told
<1>7. /\ sends \in Int /\ Sections(sends) \in Int
      /\ Sections(sends) <= available + Granting + Sending + dropped
      /\ available + Granting + Sending <= Sections(sends) + Slack
  BY <1>6, LedgerTyped DEF Told
<1>8. Grants(grants, Granting, 0)
  BY <1>5 DEF OnTheWay
<1>9. Granting <= Extra * Latency /\ Extra * Latency \in Nat
  <2>1. \A i \in 1 .. Len(grants) : grants[i].age < Latency
    BY DEF Young
  <2> QED
    BY <1>3, <1>8, <2>1, BudgetAssumption, GrantsBounded, ExtraTimes
<1>10. Buffers(Append(buffers, m), Sending + n, available - n, c - n)
  <2>1. Buffers(buffers, Sending, available, c)
    BY DEF OnTheWay
  <2>2. available \in Int /\ c \in Int /\ c <= available + Extra * Latency
    <3> DEFINE e == Extra * Latency
    <3>1. e \in Nat /\ Granting <= e
      BY <1>9
    <3> HIDE DEF e
    <3>2. available + Granting <= available + e
      BY <1>3, <3>1
    <3> QED
      BY <1>3, <3>2 DEF e
  <2> HIDE DEF c
  <2> QED
    BY <1>3, <1>4, <2>1, <2>2, BuffersSend
<1> HIDE DEF m
<1>11. Granting' = Granting /\ Sending' = Sending + n
  <2>1. buffers' \in Seq(BufferMsg)
    BY DEF TypeOK
  <2>2. Sending + n = SumOf(Sizes(buffers'))
    BY <1>2, <1>10, <2>1, BuffersTotal
  <2> QED
    BY <1>1, <2>2, Totals
<1>12. OnTheWay'
  <2>1. Excepted' \in Nat
    BY DEF Excepted
  <2>2. Grants(grants', Granting', Excepted')
    BY <1>1, <1>3, <1>8, <1>11, <2>1, GrantsWeaken
  <2>3. available' + Granting' = c - n
    BY <1>2, <1>3, <1>4, <1>11
  <2>4. Buffers(buffers', Sending', available', available' + Granting')
    BY <1>2, <1>10, <1>11, <2>3
  <2> QED
    BY <2>2, <2>4, Zenon DEF OnTheWay
<1> DEFINE s == Sections(sends)
<1>13. /\ s \in Int /\ s <= available + Granting + Sending + dropped
       /\ available + Granting + Sending <= s + Slack
  BY <1>7
<1> HIDE DEF s
<1>14. /\ s <= (available - n) + Granting + (Sending + n) + dropped
       /\ (available - n) + Granting + (Sending + n) <= s + Slack
  BY <1>3, <1>4, <1>13
<1>15. /\ Sections(sends') <= available' + Granting' + Sending' + dropped'
       /\ available' + Granting' + Sending' <= Sections(sends') + Slack
  BY <1>1, <1>2, <1>11, <1>14 DEF s
<1>16. Told'
  BY <1>1, <1>6, <1>15, Zenon DEF Told, Slack
<1> QED
  BY <1>12, <1>16

LEMMA LedgerInit ==
  (Init => Young /\ Ledger) /\ (Init' => Young' /\ Ledger')
<1>1. SumOf(Adds(<<>>)) = 0 /\ SumOf(Sizes(<<>>)) = 0
  <2>1. Adds(<<>>) = <<>> /\ Sizes(<<>>) = <<>>
    BY DEF Adds, Sizes
  <2> QED
    BY <2>1, SumOfNone
<1>2. Grants(<<>>, 0, 1) /\ Buffers(<<>>, 0, 0, 0 + 0)
  BY NoneOnTheWay
<1>3. \A x : x = <<>> => Len(x) = 0 /\ \A i : i \notin 1 .. Len(x)
  OBVIOUS
<1>4. ASSUME Init PROVE Young /\ Ledger
  <2>1. grants = <<>> /\ buffers = <<>> /\ available = 0 /\ sends = None
    BY <1>4 DEF Init
  <2>2. Early /\ Excepted = 1 /\ Granting = 0 /\ Sending = 0
    BY <1>1, <2>1, Totals DEF Early, Excepted
  <2>3. Young
    BY <1>3, <2>1 DEF Young
  <2> QED
    BY <1>2, <2>1, <2>2, <2>3, Zenon DEF Ledger, OnTheWay, Told
<1>5. ASSUME Init' PROVE Young' /\ Ledger'
  <2>1. grants' = <<>> /\ buffers' = <<>> /\ available' = 0 /\ sends' = None
    BY <1>5 DEF Init
  <2>2. Early' /\ Excepted' = 1 /\ Granting' = 0 /\ Sending' = 0
    BY <1>1, <2>1, Totals DEF Early, Excepted
  <2>3. Young'
    BY <1>3, <2>1 DEF Young
  <2> QED
    BY <1>2, <2>1, <2>2, <2>3, Zenon DEF Ledger, OnTheWay, Told
<1> QED
  BY <1>4, <1>5

LEMMA LedgerStep ==
  ASSUME TypeOK, TypeOK', Young, Ledger, [Next]_vars
  PROVE  Ledger'
<1> SUFFICES ASSUME thrifty' PROVE OnTheWay' /\ Told'
  BY Zenon DEF Ledger
<1>1. CASE NewSession
  <2>1. Init'
    BY <1>1 DEF NewSession, Init
  <2> QED
    BY <2>1, LedgerInit DEF Ledger
<1>2. CASE thrifty
  <2>1. OnTheWay /\ Told
    BY <1>2, Zenon DEF Ledger
  <2>2. CASE UNCHANGED vars
    <3>1. /\ sends' = sends /\ grants' = grants /\ buffers' = buffers
          /\ available' = available /\ dropped' = dropped
      BY <2>2 DEF vars
    <3>2. Granting' = Granting /\ Sending' = Sending
      BY <3>1, Totals
    <3>3. Excepted' = Excepted /\ (Early' <=> Early)
      BY <3>1 DEF Excepted, Early
    <3> QED
      BY <2>1, <3>1, <3>2, <3>3, Zenon DEF OnTheWay, Told, Slack
  <2>3. ~BrokenBuffer
    BY DEF BrokenBuffer
  <2> QED
    BY <1>1, <1>2, <2>1, <2>2, <2>3, LedgerTick, LedgerHandle, LedgerDrop, LedgerReceive,
       LedgerSend DEF Next
<1>3. CASE ~thrifty
  <2>1. CASE Tick \/ HandleBuffer \/ DropBuffer \/ ReceiveGrant \/ UNCHANGED vars
    BY <1>3, <2>1, Zenon DEF Tick, HandleBuffer, DropBuffer, ReceiveGrant, vars
  <2>2. ~BrokenBuffer
    BY DEF BrokenBuffer
  <2>3. ASSUME NEW n \in 1 .. MaxSections, NEW left \in 0 .. Allowed, ClientSend(n, left)
        PROVE  FALSE
    BY <1>3, <2>3, Zenon DEF ClientSend
  <2> QED
    BY <1>1, <2>1, <2>2, <2>3 DEF Next
<1> QED
  BY <1>2, <1>3

LEMMA LedgerAlways == Spec => [](TypeOK /\ Young /\ Ledger)
<1>1. Init => Young /\ Ledger
  BY LedgerInit
<1>2. TypeOK /\ TypeOK' /\ Young /\ Ledger /\ [Next]_vars => Young' /\ Ledger'
  BY YoungStep, LedgerStep
<1> QED
  BY <1>1, <1>2, BudgetTyped, PTL DEF Spec

\* The server never credits a client that keeps to its count with more than that
\* client has, will get, has spent uncharged or lost in dropped buffers: whatever is
\* on its way in either direction, at any rate, scale and latency
\* (top_up_dispatch_sends, consume_dispatch_sends).
THEOREM NothingDoesVanish == Spec => []NothingVanishes
<1>1. TypeOK /\ Ledger => NothingVanishes
  BY Zenon DEF Ledger, Told, NothingVanishes
<1> QED
  BY <1>1, LedgerAlways, PTL

\* A message and its answer take clearly less than a second: what is granted meanwhile
\* is less than the budget holds.
RoundTripsAreShort == Slack < Allowed

LEMMA NotKickedStep ==
  ASSUME RoundTripsAreShort, TypeOK, TypeOK', Young, Ledger, Ledger', ThriftyNotKicked, [Next]_vars
  PROVE  ThriftyNotKicked'
<1> USE Numbers
<1> SUFFICES ASSUME thrifty' PROVE ~kicked'
  BY Zenon DEF ThriftyNotKicked
<1>1. CASE HandleBuffer
  <2>1. OnTheWay' /\ Told'
    BY Zenon DEF Ledger
  <2>2. kicked' = ~WithinLimit(sends') /\ sends' = Charged(sends, Head(buffers))
    BY <1>1 DEF HandleBuffer
  <2>3. sends' \in Int /\ sends' # None
    <3>1. Head(buffers) \in BufferMsg
      BY <1>1 DEF HandleBuffer, TypeOK
    <3>2. sends' \in Int
      BY <2>2, <3>1, ChargedBounds
    <3> QED
      BY <3>2
  <2>4. /\ available' \in Nat /\ Granting' \in Nat /\ Sending' \in Nat /\ Slack \in Nat
        /\ Sections(sends') \in Int
        /\ available' + Granting' + Sending' <= Sections(sends') + Slack
    <3>1. grants' \in Seq(GrantMsg) /\ buffers' \in Seq(BufferMsg) /\ available' \in Nat
      BY DEF TypeOK
    <3>2. /\ Grants(grants', Granting', Excepted')
          /\ Buffers(buffers', Sending', available', available' + Granting')
      BY <2>1, Zenon DEF OnTheWay
    <3>3. Granting' \in Nat /\ Sending' \in Nat
      BY <3>1, <3>2, GrantsTotal, BuffersTotal
    <3>4. available' + Granting' + Sending' <= Sections(sends') + Slack
      BY <2>1, <2>3, Zenon DEF Told, Slack
    <3> QED
      BY <2>3, <3>1, <3>3, <3>4, SectionsTyped, SlackIs
  <2>5. -Allowed < Sections(sends')
    <3>1. Slack < Allowed
      BY DEF RoundTripsAreShort
    <3> QED
      BY <2>4, <3>1
  <2>6. Sections(-Full) = -Allowed /\ -Full \in Int
    <3>1. -Full = (-Allowed) * Scale
      BY DEF Full
    <3>2. Sections((-Allowed) * Scale) = -Allowed /\ (-Allowed) * Scale \in Int
      BY WholeSections
    <3> QED
      BY <3>1, <3>2
  <2>7. sends' >= -Full
    <3>1. ASSUME sends' < -Full PROVE FALSE
      <4>1. Sections(sends') <= Sections(-Full)
        BY <2>3, <2>6, <3>1, SectionsMonotonic
      <4> QED
        BY <2>4, <2>5, <2>6, <4>1
    <3> QED
      BY <2>3, <2>6, <3>1
  <2> QED
    BY <2>2, <2>7 DEF WithinLimit
<1>2. CASE NewSession
  BY <1>2 DEF NewSession
<1>3. ~BrokenBuffer
  BY DEF BrokenBuffer
<1>4. CASE Tick \/ DropBuffer \/ ReceiveGrant \/ UNCHANGED vars
  BY <1>4, Zenon DEF Tick, DropBuffer, ReceiveGrant, vars, ThriftyNotKicked
<1>5. ASSUME NEW n \in 1 .. MaxSections, NEW left \in 0 .. Allowed, ClientSend(n, left)
      PROVE  ~kicked'
  BY <1>5, Zenon DEF ClientSend
<1> QED
  BY <1>1, <1>2, <1>3, <1>4, <1>5 DEF Next

\* A client that keeps to its count is never kicked for being too fast, although
\* consume_dispatch_sends forgets the top-ups on their way to it with each charge: as
\* long as round trips take clearly less than a second, at any rate and scale.
THEOREM ThriftyStays ==
  ASSUME RoundTripsAreShort
  PROVE  Spec => []ThriftyNotKicked
<1>1. Init => ThriftyNotKicked
  BY DEF Init, ThriftyNotKicked
<1>2. /\ TypeOK /\ TypeOK' /\ Young /\ Ledger /\ Ledger' /\ ThriftyNotKicked /\ [Next]_vars
      => ThriftyNotKicked'
  BY NotKickedStep
<1> QED
  BY <1>1, <1>2, LedgerAlways, PTL DEF Spec

=============================================================================
