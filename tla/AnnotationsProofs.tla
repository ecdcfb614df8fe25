------------------------- MODULE AnnotationsProofs -------------------------
(* The annotations everyone holds, for any number of players, dimensions   *)
(* and annotations, and batches of any length.                             *)
EXTENDS Annotations, FoldingProofs

(***************************************************************************)
(* One action on a list.                                                   *)
(***************************************************************************)

Distinct(list) == \A i, j \in DOMAIN list : list[i].uuid = list[j].uuid => i = j

\* What `retain` keeps, element by element.
Keep(u) == [x \in Seq(Annotation) \X Annotation |->
              IF x[2].uuid = u THEN x[1] ELSE Append(x[1], x[2])]

LEMMA WithoutRuns ==
  ASSUME NEW q \in Seq(Annotation), NEW u
  PROVE  \E h \in [0 .. Len(q) -> Seq(Annotation)] :
           /\ h[0] = <<>>
           /\ \A k \in 1 .. Len(q) :
                h[k] = IF q[k].uuid = u THEN h[k - 1] ELSE Append(h[k - 1], q[k])
           /\ Without(q, u) = h[Len(q)]
<1> DEFINE A == Seq(Annotation)
<1> DEFINE it == CHOOSE g : g = [s \in SUBSET DOMAIN q |->
                   IF s = {} THEN <<>>
                   ELSE IF q[Max(s)].uuid = u THEN g[s \ {Max(s)}]
                        ELSE Append(g[s \ {Max(s)}], q[Max(s)])]
<1>1. Keep(u) \in [A \X Annotation -> A] /\ <<>> \in A
  BY DEF Keep
<1>2. ASSUME NEW s \in SUBSET DOMAIN q, s # {} PROVE q[Max(s)] \in Annotation
  <2>1. Len(q) \in Nat /\ DOMAIN q = 1 .. Len(q)
    OBVIOUS
  <2>2. Max(s) \in DOMAIN q
    BY <1>2, <2>1, MaxOf
  <2> QED
    BY <2>2
<1>3. \A a \in A, b \in Annotation :
        Keep(u)[<<a, b>>] = IF b.uuid = u THEN a ELSE Append(a, b)
  BY DEF Keep
<1>4. \E f : f = [s \in SUBSET DOMAIN q |->
                   IF s = {} THEN <<>>
                   ELSE IF q[Max(s)].uuid = u THEN f[s \ {Max(s)}]
                        ELSE Append(f[s \ {Max(s)}], q[Max(s)])]
  <2>1. PICK f \in [SUBSET (1 .. Len(q)) -> A] : IsFold(f, Len(q), Keep(u), <<>>, q)
    BY <1>1, FoldExists
  <2>2. DOMAIN q = 1 .. Len(q)
    OBVIOUS
  <2>3. ASSUME NEW s \in SUBSET DOMAIN q
        PROVE  f[s] = IF s = {} THEN <<>>
                      ELSE IF q[Max(s)].uuid = u THEN f[s \ {Max(s)}]
                           ELSE Append(f[s \ {Max(s)}], q[Max(s)])
    <3>1. CASE s = {}
      BY <2>1, <2>2, <3>1, Zenon DEF IsFold
    <3>2. CASE s # {}
      <4>1. f[s] = Keep(u)[<<f[s \ {Max(s)}], q[Max(s)]>>]
        BY <2>1, <2>2, <3>2, Zenon DEF IsFold
      <4>2. s \ {Max(s)} \in SUBSET (1 .. Len(q)) /\ f[s \ {Max(s)}] \in A
        BY <2>1, <2>2
      <4> QED
        BY <1>2, <1>3, <3>2, <4>1, <4>2, Zenon
    <3> QED
      BY <3>1, <3>2
  <2>4. f = [s \in SUBSET DOMAIN q |-> f[s]]
    BY <2>1, <2>2
  <2> QED
    BY <2>3, <2>4, Zenon
<1>5. it = [s \in SUBSET DOMAIN q |->
              IF s = {} THEN <<>>
              ELSE IF q[Max(s)].uuid = u THEN it[s \ {Max(s)}]
                   ELSE Append(it[s \ {Max(s)}], q[Max(s)])]
  BY <1>4, Zenon
<1>6. Without(q, u) = it[DOMAIN q]
  BY Zenon DEF Without, FoldLeft, MapThenFoldSet
<1> HIDE DEF it
<1>7. it[{}] = <<>>
  BY <1>5
<1>8. ASSUME NEW s \in SUBSET DOMAIN q, s # {}, it[s \ {Max(s)}] \in A
      PROVE  it[s] = Keep(u)[<<it[s \ {Max(s)}], q[Max(s)]>>]
  <2>1. it[s] = IF q[Max(s)].uuid = u THEN it[s \ {Max(s)}]
                ELSE Append(it[s \ {Max(s)}], q[Max(s)])
    BY <1>5, <1>8, Zenon
  <2> QED
    BY <1>2, <1>3, <1>8, <2>1, Zenon
<1>9. PICK h \in [0 .. Len(q) -> A] : Passes(h, Keep(u), <<>>, q) /\ Concludes(h, it, q)
  <2>1. Computes(it, A, Keep(u), <<>>, q)
    BY <1>7, <1>8 DEF Computes
  <2> HIDE DEF A
  <2> QED
    BY <1>1, <2>1, FoldRuns, Zenon
<1>10. \A k \in 1 .. Len(q) : h[k] = IF q[k].uuid = u THEN h[k - 1] ELSE Append(h[k - 1], q[k])
  <2> TAKE k \in 1 .. Len(q)
  <2>1. k - 1 \in 0 .. Len(q) /\ q[k] \in Annotation
    OBVIOUS
  <2> QED
    BY <1>3, <1>9, <2>1 DEF Passes
<1> QED
  BY <1>6, <1>9, <1>10 DEF Passes, Concludes

\* `retain` keeps what has another UUID, in its order.
LEMMA WithoutIs ==
  ASSUME NEW q \in Seq(Annotation), NEW u
  PROVE  /\ Without(q, u) \in Seq(Annotation)
         /\ Len(Without(q, u)) <= Len(q)
         /\ ToSet(Without(q, u)) = {a \in ToSet(q) : a.uuid # u}
         /\ Distinct(q) => Distinct(Without(q, u))
<1> DEFINE A == Seq(Annotation)
<1> DEFINE Kept(w, k) ==
      /\ w \in A /\ Len(w) <= k
      /\ ToSet(w) = {q[i] : i \in {j \in 1 .. k : q[j].uuid # u}}
      /\ Distinct(q) => Distinct(w)
<1>1. PICK h \in [0 .. Len(q) -> A] :
        /\ h[0] = <<>>
        /\ \A k \in 1 .. Len(q) :
             h[k] = IF q[k].uuid = u THEN h[k - 1] ELSE Append(h[k - 1], q[k])
        /\ Without(q, u) = h[Len(q)]
  BY WithoutRuns
<1>2. Len(q) \in Nat /\ DOMAIN q = 1 .. Len(q) /\ \A i \in 1 .. Len(q) : q[i] \in Annotation
  OBVIOUS
<1> DEFINE T == {k \in Nat : k <= Len(q) => Kept(h[k], k)}
<1>3. 0 \in T
  <2>1. <<>> \in A /\ Len(<<>>) = 0 /\ DOMAIN <<>> = {}
    OBVIOUS
  <2>2. ToSet(<<>>) = {}
    BY <2>1 DEF ToSet
  <2>3. Distinct(<<>>)
    BY <2>1 DEF Distinct
  <2>4. {q[i] : i \in {j \in 1 .. 0 : q[j].uuid # u}} = {}
    OBVIOUS
  <2>5. Kept(<<>>, 0)
    BY <2>1, <2>2, <2>3, <2>4
  <2> HIDE DEF Kept
  <2> QED
    BY <1>1, <2>5
<1>4. ASSUME NEW k \in Nat, k + 1 <= Len(q), Kept(h[k], k) PROVE Kept(h[k + 1], k + 1)
  <2>1. k + 1 \in 1 .. Len(q) /\ k + 1 - 1 = k /\ q[k + 1] \in Annotation
    BY <1>2, <1>4
  <2>2. h[k + 1] = IF q[k + 1].uuid = u THEN h[k] ELSE Append(h[k], q[k + 1])
    <3> DEFINE l == k + 1
    <3>1. l \in 1 .. Len(q) /\ l - 1 = k
      BY <2>1
    <3> HIDE DEF l
    <3>2. h[l] = IF q[l].uuid = u THEN h[k] ELSE Append(h[k], q[l])
      BY <1>1, <3>1
    <3> QED
      BY <3>2 DEF l
  <2>3. 1 .. k + 1 = (1 .. k) \cup {k + 1}
    OBVIOUS
  <2> DEFINE w == h[k]
  <2> DEFINE x == q[k + 1]
  <2>4. CASE x.uuid = u
    <3>1. {q[i] : i \in {j \in 1 .. k + 1 : q[j].uuid # u}}
            = {q[i] : i \in {j \in 1 .. k : q[j].uuid # u}}
      BY <2>3, <2>4
    <3> QED
      BY <1>4, <2>2, <2>4, <3>1
  <2>5. CASE x.uuid # u
    <3>1. {q[i] : i \in {j \in 1 .. k + 1 : q[j].uuid # u}}
            = {q[i] : i \in {j \in 1 .. k : q[j].uuid # u}} \cup {x}
      BY <2>3, <2>5
    <3>2. w \in A /\ Len(w) \in Nat /\ x \in Annotation
      BY <1>4, <2>1
    <3> HIDE DEF w, x
    <3>3. /\ Append(w, x) \in A /\ Len(Append(w, x)) = Len(w) + 1
          /\ DOMAIN Append(w, x) = 1 .. Len(w) + 1 /\ DOMAIN w = 1 .. Len(w)
          /\ \A i \in 1 .. Len(w) : Append(w, x)[i] = w[i]
          /\ Append(w, x)[Len(w) + 1] = x
      BY <3>2
    <3>4. ToSet(Append(w, x)) = ToSet(w) \cup {x}
      <4>1. 1 .. Len(w) + 1 = (1 .. Len(w)) \cup {Len(w) + 1}
        BY <3>2
      <4> QED
        BY <3>3, <4>1 DEF ToSet
    <3>5. ASSUME Distinct(q) PROVE Distinct(Append(w, x))
      <4>1. \A i \in DOMAIN w : w[i].uuid # x.uuid
        <5> TAKE i \in DOMAIN w
        <5>1. w[i] \in ToSet(w)
          BY DEF ToSet
        <5>2. PICK j \in 1 .. k : w[i] = q[j]
          BY <1>4, <5>1 DEF w
        <5>3. j \in DOMAIN q /\ k + 1 \in DOMAIN q /\ j # k + 1
          BY <1>2, <2>1
        <5> QED
          BY <3>5, <5>2, <5>3 DEF Distinct, x
      <4>2. Distinct(w)
        BY <1>4, <3>5 DEF w
      <4>3. \A i \in 1 .. Len(w) + 1 : i \in DOMAIN w \/ i = Len(w) + 1
        BY <3>2, <3>3
      <4> QED
        BY <3>3, <4>1, <4>2, <4>3 DEF Distinct
    <3>6. h[k + 1] = Append(w, x)
      BY <2>2, <2>5 DEF w, x
    <3>7. Len(Append(w, x)) <= k + 1
      BY <1>4, <3>2, <3>3 DEF w
    <3>8. ToSet(Append(w, x)) = {q[i] : i \in {j \in 1 .. k + 1 : q[j].uuid # u}}
      BY <1>4, <3>1, <3>4 DEF w
    <3> QED
      BY <3>3, <3>5, <3>6, <3>7, <3>8
  <2> QED
    BY <2>4, <2>5
<1>5. Kept(h[Len(q)], Len(q))
  <2> HIDE DEF Kept
  <2>1. T \in SUBSET Nat
    OBVIOUS
  <2>2. \A k \in T : k + 1 \in T
    <3> SUFFICES ASSUME NEW k \in T, k + 1 <= Len(q) PROVE Kept(h[k + 1], k + 1)
      OBVIOUS
    <3>1. Kept(h[k], k) /\ k \in Nat
      BY <1>2
    <3> QED
      BY <1>4, <3>1
  <2> HIDE DEF T
  <2>3. Len(q) \in T
    BY <1>2, <1>3, <2>1, <2>2, Induction
  <2> QED
    BY <1>2, <2>3 DEF T
<1>6. {q[i] : i \in {j \in 1 .. Len(q) : q[j].uuid # u}} = {a \in ToSet(q) : a.uuid # u}
  BY <1>2 DEF ToSet
<1> QED
  BY <1>1, <1>5, <1>6

\* A client that received an action holds annotations, as before.
LEMMA ReceivedTyped ==
  ASSUME NEW held \in SUBSET Annotation, NEW m \in Action
  PROVE  Received(held, m) \in SUBSET Annotation
<1>1. CASE m \in [do: {"create"}, uuid: Uuids, body: Bodies]
  BY <1>1 DEF Received, Annotation
<1>2. CASE m \in [do: {"move"}, uuid: Uuids, body: Placed]
  <2>1. m.do = "move" /\ m.body \in Bodies
    BY <1>2 DEF Bodies
  <2>2. \A a \in Annotation : [a EXCEPT !.body = m.body] \in Annotation
    BY <2>1 DEF Annotation
  <2> QED
    BY <2>1, <2>2 DEF Received
<1>3. CASE m \in [do: {"delete"}, uuid: Uuids]
  BY <1>3 DEF Received
<1>4. CASE m \in [do: {"clear"}]
  BY <1>4 DEF Received
<1> QED
  BY <1>1, <1>2, <1>3, <1>4 DEF Action

(***************************************************************************)
(* What a client holds after a sequence of actions.                        *)
(***************************************************************************)

Result(v, q) == FoldLeft(Received, v, q)

Take == [x \in (SUBSET Annotation) \X Action |-> Received(x[1], x[2])]

\* h is what it holds after each of them.
Run(h, v, q) ==
  /\ h \in [0 .. Len(q) -> SUBSET Annotation]
  /\ h[0] = v
  /\ \A k \in 1 .. Len(q) : h[k] = Received(h[k - 1], q[k])

LEMMA ResultRuns ==
  ASSUME NEW v \in SUBSET Annotation, NEW q \in Seq(Action)
  PROVE  \E h : Run(h, v, q) /\ Result(v, q) = h[Len(q)]
<1> DEFINE A == SUBSET Annotation
<1> DEFINE it == CHOOSE g : g = [s \in SUBSET DOMAIN q |->
                   IF s = {} THEN v
                   ELSE Received(g[s \ {Max(s)}], q[Max(s)])]
<1>1. Take \in [A \X Action -> A] /\ v \in A
  <2>1. ASSUME NEW x \in A \X Action PROVE Received(x[1], x[2]) \in A
    <3>1. x[1] \in A /\ x[2] \in Action
      OBVIOUS
    <3> QED
      BY <3>1, ReceivedTyped
  <2>2. Take = [x \in A \X Action |-> Received(x[1], x[2])]
    BY DEF Take
  <2>3. v \in A
    OBVIOUS
  <2> HIDE DEF A
  <2> QED
    BY <2>1, <2>2, <2>3
<1>2. ASSUME NEW s \in SUBSET DOMAIN q, s # {} PROVE q[Max(s)] \in Action
  <2>1. Len(q) \in Nat /\ DOMAIN q = 1 .. Len(q)
    OBVIOUS
  <2>2. Max(s) \in DOMAIN q
    BY <1>2, <2>1, MaxOf
  <2> QED
    BY <2>2
<1>3. \A a \in A, b \in Action : Take[<<a, b>>] = Received(a, b)
  BY DEF Take
<1>4. \E f : f = [s \in SUBSET DOMAIN q |->
                   IF s = {} THEN v
                   ELSE Received(f[s \ {Max(s)}], q[Max(s)])]
  <2>1. PICK f \in [SUBSET (1 .. Len(q)) -> A] : IsFold(f, Len(q), Take, v, q)
    BY <1>1, FoldExists
  <2>2. DOMAIN q = 1 .. Len(q)
    OBVIOUS
  <2>3. ASSUME NEW s \in SUBSET DOMAIN q
        PROVE  f[s] = IF s = {} THEN v
                      ELSE Received(f[s \ {Max(s)}], q[Max(s)])
    <3>1. CASE s = {}
      BY <2>1, <2>2, <3>1, Zenon DEF IsFold
    <3>2. CASE s # {}
      <4>1. f[s] = Take[<<f[s \ {Max(s)}], q[Max(s)]>>]
        BY <2>1, <2>2, <3>2, Zenon DEF IsFold
      <4>2. s \ {Max(s)} \in SUBSET (1 .. Len(q)) /\ f[s \ {Max(s)}] \in A
        BY <2>1, <2>2
      <4> QED
        BY <1>2, <1>3, <3>2, <4>1, <4>2, Zenon
    <3> QED
      BY <3>1, <3>2
  <2>4. f = [s \in SUBSET DOMAIN q |-> f[s]]
    BY <2>1, <2>2
  <2> QED
    BY <2>3, <2>4, Zenon
<1>5. it = [s \in SUBSET DOMAIN q |->
              IF s = {} THEN v
              ELSE Received(it[s \ {Max(s)}], q[Max(s)])]
  BY <1>4, Zenon
<1>6. Result(v, q) = it[DOMAIN q]
  BY Zenon DEF Result, FoldLeft, MapThenFoldSet
<1> HIDE DEF it
<1>7. it[{}] = v
  BY <1>5
<1>8. ASSUME NEW s \in SUBSET DOMAIN q, s # {}, it[s \ {Max(s)}] \in A
      PROVE  it[s] = Take[<<it[s \ {Max(s)}], q[Max(s)]>>]
  <2>1. it[s] = Received(it[s \ {Max(s)}], q[Max(s)])
    BY <1>5, <1>8, Zenon
  <2> QED
    BY <1>2, <1>3, <1>8, <2>1, Zenon
<1>9. PICK h \in [0 .. Len(q) -> A] : Passes(h, Take, v, q) /\ Concludes(h, it, q)
  <2>1. Computes(it, A, Take, v, q)
    BY <1>7, <1>8 DEF Computes
  <2> HIDE DEF A
  <2> QED
    BY <1>1, <2>1, FoldRuns, Zenon
<1>10. \A k \in 1 .. Len(q) : h[k] = Received(h[k - 1], q[k])
  <2> TAKE k \in 1 .. Len(q)
  <2>1. k - 1 \in 0 .. Len(q) /\ q[k] \in Action
    OBVIOUS
  <2> QED
    BY <1>3, <1>9, <2>1 DEF Passes
<1> QED
  BY <1>6, <1>9, <1>10 DEF Passes, Concludes, Run

\* There is one such h.
LEMMA RunIsResult ==
  ASSUME NEW v \in SUBSET Annotation, NEW q \in Seq(Action), NEW h, Run(h, v, q)
  PROVE  Result(v, q) = h[Len(q)]
<1>1. PICK g : Run(g, v, q) /\ Result(v, q) = g[Len(q)]
  BY ResultRuns
<1> DEFINE T == {k \in Nat : k <= Len(q) => g[k] = h[k]}
<1>2. Len(q) \in Nat /\ T \in SUBSET Nat
  OBVIOUS
<1>3. 0 \in T
  BY <1>1 DEF Run
<1>4. ASSUME NEW k \in T PROVE k + 1 \in T
  <2> SUFFICES ASSUME k + 1 <= Len(q) PROVE g[k + 1] = h[k + 1]
    OBVIOUS
  <2> DEFINE l == k + 1
  <2>1. l \in 1 .. Len(q) /\ l - 1 = k /\ g[k] = h[k]
    BY <1>2
  <2> HIDE DEF l
  <2>2. g[l] = Received(g[l - 1], q[l]) /\ h[l] = Received(h[l - 1], q[l])
    BY <1>1, <2>1 DEF Run
  <2>3. g[l] = h[l]
    BY <2>1, <2>2
  <2> QED
    BY <2>3 DEF l
<1> HIDE DEF T
<1>5. Len(q) \in T
  BY <1>2, <1>3, <1>4, Induction
<1> QED
  BY <1>1, <1>2, <1>5 DEF T

LEMMA ResultTyped ==
  ASSUME NEW v \in SUBSET Annotation, NEW q \in Seq(Action)
  PROVE  Result(v, q) \in SUBSET Annotation
<1>1. PICK g : Run(g, v, q) /\ Result(v, q) = g[Len(q)]
  BY ResultRuns
<1>2. Len(q) \in 0 .. Len(q)
  OBVIOUS
<1> QED
  BY <1>1, <1>2 DEF Run

LEMMA ResultEmpty ==
  ASSUME NEW v \in SUBSET Annotation
  PROVE  Result(v, <<>>) = v
<1>1. <<>> \in Seq(Action) /\ Len(<<>>) = 0
  OBVIOUS
<1>2. PICK g : Run(g, v, <<>>) /\ Result(v, <<>>) = g[0]
  BY <1>1, ResultRuns
<1> QED
  BY <1>2 DEF Run

\* One more action is sent.
LEMMA ResultAppend ==
  ASSUME NEW v \in SUBSET Annotation, NEW q \in Seq(Action), NEW m \in Action
  PROVE  Result(v, Append(q, m)) = Received(Result(v, q), m)
<1> DEFINE n == Len(q)
<1> DEFINE r == Append(q, m)
<1>2. /\ n \in Nat /\ Len(r) = n + 1 /\ r \in Seq(Action)
      /\ \A k \in 1 .. n : r[k] = q[k]
      /\ r[n + 1] = m
  OBVIOUS
<1> HIDE DEF r
<1>1. PICK g : Run(g, v, r) /\ Result(v, r) = g[Len(r)]
  BY <1>2, ResultRuns
<1> DEFINE h == [k \in 0 .. n |-> g[k]]
<1>3. \A k \in 0 .. n : h[k] = g[k] /\ g[k] \in SUBSET Annotation
  <2> TAKE k \in 0 .. n
  <2>1. k \in 0 .. Len(r)
    BY <1>2
  <2>2. g[k] \in SUBSET Annotation
    BY <1>1, <2>1 DEF Run
  <2> QED
    BY <2>2
<1>4. h \in [0 .. n -> SUBSET Annotation]
  BY <1>3
<1> HIDE DEF h
<1>5. \A k \in 1 .. n : h[k] = Received(h[k - 1], q[k])
  <2> TAKE k \in 1 .. n
  <2>1. k \in 1 .. Len(r) /\ k \in 0 .. n /\ k - 1 \in 0 .. n
    BY <1>2
  <2>2. g[k] = Received(g[k - 1], r[k])
    BY <1>1, <2>1 DEF Run
  <2> QED
    BY <1>2, <1>3, <2>1, <2>2
<1>6. Run(h, v, q)
  <2>1. h[0] = v
    BY <1>1, <1>2, <1>3 DEF Run
  <2> QED
    BY <1>4, <1>5, <2>1 DEF Run
<1>7. Result(v, q) = g[n]
  <2>1. Result(v, q) = h[n]
    BY <1>6, RunIsResult
  <2> QED
    BY <1>2, <1>3, <2>1
<1>8. g[n + 1] = Received(g[n], m)
  <2> DEFINE l == n + 1
  <2>1. l \in 1 .. Len(r) /\ l - 1 = n /\ r[l] = m
    BY <1>2
  <2> HIDE DEF l, n
  <2>2. g[l] = Received(g[l - 1], r[l])
    BY <1>1, <2>1 DEF Run
  <2>3. g[l] = Received(g[n], m)
    BY <2>1, <2>2
  <2> QED
    BY <2>3 DEF l
<1> QED
  BY <1>1, <1>2, <1>7, <1>8 DEF r

\* The next one arrives.
LEMMA ResultHead ==
  ASSUME NEW v \in SUBSET Annotation, NEW q \in Seq(Action), q # <<>>
  PROVE  Result(v, q) = Result(Received(v, Head(q)), Tail(q))
<1> DEFINE n == Len(q)
<1> DEFINE r == Tail(q)
<1> DEFINE w == Received(v, Head(q))
<1>1. PICK g : Run(g, v, q) /\ Result(v, q) = g[n]
  BY ResultRuns
<1>2. /\ n \in Nat \ {0} /\ Len(r) = n - 1 /\ r \in Seq(Action)
      /\ \A k \in 1 .. n - 1 : r[k] = q[k + 1]
      /\ Head(q) = q[1] /\ q[1] \in Action
  OBVIOUS
<1>3. w \in SUBSET Annotation
  BY <1>2, ReceivedTyped
<1>4. g[1] = w
  <2>1. 1 \in 1 .. n
    BY <1>2
  <2>2. g[1] = Received(g[1 - 1], q[1]) /\ g[0] = v
    BY <1>1, <2>1 DEF Run
  <2>3. 1 - 1 = 0
    OBVIOUS
  <2> HIDE DEF n, r
  <2>4. g[1] = Received(v, q[1])
    BY <2>2, <2>3
  <2> QED
    BY <1>2, <2>4
<1> DEFINE h == [k \in 0 .. n - 1 |-> g[k + 1]]
<1> HIDE DEF r, w
<1>5. \A k \in 0 .. n - 1 : h[k] = g[k + 1] /\ g[k + 1] \in SUBSET Annotation
  <2> TAKE k \in 0 .. n - 1
  <2>1. k + 1 \in 0 .. Len(q)
    BY <1>2
  <2> QED
    BY <1>1, <2>1 DEF Run
<1>6. h \in [0 .. Len(r) -> SUBSET Annotation]
  BY <1>2, <1>5
<1> HIDE DEF h
<1>7. \A k \in 1 .. Len(r) : h[k] = Received(h[k - 1], r[k])
  <2> TAKE k \in 1 .. Len(r)
  <2> DEFINE l == k + 1
  <2>1. k \in 0 .. n - 1 /\ k - 1 \in 0 .. n - 1 /\ k \in 1 .. n - 1 /\ l \in 1 .. n /\ l - 1 = k /\ k - 1 + 1 = k
    BY <1>2
  <2>2. h[k] = g[l] /\ r[k] = q[l]
    BY <1>2, <1>5, <2>1
  <2>3. h[k - 1] = g[k]
    BY <1>5, <2>1
  <2> HIDE DEF l
  <2>4. g[l] = Received(g[l - 1], q[l])
    BY <1>1, <2>1 DEF Run
  <2> QED
    BY <2>1, <2>2, <2>3, <2>4
<1>8. h[0] = w
  <2>1. 0 \in 0 .. n - 1 /\ 0 + 1 = 1
    BY <1>2
  <2> QED
    BY <1>4, <1>5, <2>1
<1>9. Run(h, w, r)
  BY <1>6, <1>7, <1>8 DEF Run
<1>10. Result(w, r) = h[n - 1]
  BY <1>2, <1>3, <1>9, RunIsResult
<1>11. h[n - 1] = g[n]
  <2>1. n - 1 \in 0 .. n - 1 /\ n - 1 + 1 = n
    BY <1>2
  <2> QED
    BY <1>5, <2>1
<1> QED
  BY <1>1, <1>10, <1>11 DEF r, w

(***************************************************************************)
(* The list of the server and the set of a client.                         *)
(***************************************************************************)

LEMMA ToSetAppend ==
  ASSUME NEW S, NEW w \in Seq(S), NEW x \in S
  PROVE  ToSet(Append(w, x)) = ToSet(w) \cup {x}
<1>1. /\ DOMAIN Append(w, x) = 1 .. Len(w) + 1 /\ DOMAIN w = 1 .. Len(w) /\ Len(w) \in Nat
      /\ \A i \in 1 .. Len(w) : Append(w, x)[i] = w[i]
      /\ Append(w, x)[Len(w) + 1] = x
  OBVIOUS
<1>2. 1 .. Len(w) + 1 = (1 .. Len(w)) \cup {Len(w) + 1}
  BY <1>1
<1> QED
  BY <1>1, <1>2 DEF ToSet

LEMMA ToSetTyped ==
  ASSUME NEW S, NEW w \in Seq(S)
  PROVE  ToSet(w) \in SUBSET S
BY DEF ToSet

\* Appending what has another UUID than everything before it.
LEMMA DistinctAppend ==
  ASSUME NEW w \in Seq(Annotation), NEW x \in Annotation, Distinct(w),
         \A a \in ToSet(w) : a.uuid # x.uuid
  PROVE  Distinct(Append(w, x))
<1>1. /\ DOMAIN Append(w, x) = 1 .. Len(w) + 1 /\ DOMAIN w = 1 .. Len(w) /\ Len(w) \in Nat
      /\ \A i \in 1 .. Len(w) : Append(w, x)[i] = w[i]
      /\ Append(w, x)[Len(w) + 1] = x
  OBVIOUS
<1>2. \A i \in 1 .. Len(w) + 1 : i \in DOMAIN w \/ i = Len(w) + 1
  BY <1>1
<1>3. \A i \in DOMAIN w : w[i].uuid # x.uuid
  BY DEF ToSet
<1> QED
  BY <1>1, <1>2, <1>3 DEF Distinct

LEMMA CreatedIs ==
  ASSUME NEW list \in Seq(Annotation), Distinct(list), NEW m \in [do: {"create"}, uuid: Uuids, body: Bodies]
  PROVE  /\ Created(list, m) \in Seq(Annotation) /\ Distinct(Created(list, m))
         /\ Len(Created(list, m)) <= Len(list) + 1
         /\ ToSet(Created(list, m)) = Received(ToSet(list), m)
<1> DEFINE w == Without(list, m.uuid)
<1> DEFINE x == [uuid |-> m.uuid, body |-> m.body]
<1>1. /\ w \in Seq(Annotation) /\ Len(w) <= Len(list) /\ Distinct(w)
      /\ ToSet(w) = {a \in ToSet(list) : a.uuid # m.uuid}
  BY WithoutIs
<1>2. x \in Annotation /\ x.uuid = m.uuid /\ m.do = "create"
  BY DEF Annotation
<1>3. Created(list, m) = Append(w, x)
  BY DEF Created
<1>4. Received(ToSet(list), m) = ToSet(w) \cup {x}
  BY <1>1, <1>2 DEF Received
<1> HIDE DEF w, x
<1>5. Append(w, x) \in Seq(Annotation) /\ Len(Append(w, x)) = Len(w) + 1 /\ Len(w) \in Nat
  BY <1>1, <1>2
<1>6. Len(Append(w, x)) <= Len(list) + 1
  <2>1. Len(list) \in Nat
    OBVIOUS
  <2> QED
    BY <1>1, <1>5, <2>1
<1>7. Distinct(Append(w, x))
  BY <1>1, <1>2, DistinctAppend
<1>8. ToSet(Append(w, x)) = ToSet(w) \cup {x}
  BY <1>1, <1>2, ToSetAppend
<1> QED
  BY <1>3, <1>4, <1>5, <1>6, <1>7, <1>8

LEMMA MovedIs ==
  ASSUME NEW list \in Seq(Annotation), Distinct(list), NEW m \in [do: {"move"}, uuid: Uuids, body: Placed]
  PROVE  /\ Moved(list, m) \in Seq(Annotation) /\ Distinct(Moved(list, m))
         /\ Len(Moved(list, m)) = Len(list)
         /\ ToSet(Moved(list, m)) = Received(ToSet(list), m)
<1> DEFINE new(a) == IF a.uuid = m.uuid /\ a.body \in Placed THEN [a EXCEPT !.body = m.body] ELSE a
<1>1. m.do = "move" /\ m.body \in Bodies /\ m.uuid \in Uuids
  BY DEF Bodies
<1>2. \A a \in Annotation : new(a) \in Annotation /\ new(a).uuid = a.uuid
  BY <1>1 DEF Annotation
<1>3. Len(list) \in Nat /\ DOMAIN list = 1 .. Len(list) /\ \A i \in DOMAIN list : list[i] \in Annotation
  OBVIOUS
<1>4. ASSUME NEW i \in DOMAIN list, list[i].uuid = m.uuid
      PROVE  \A j \in 1 .. i - 1 : list[j].uuid # m.uuid
  <2> TAKE j \in 1 .. i - 1
  <2>1. j \in DOMAIN list /\ j # i
    BY <1>3
  <2> QED
    BY <1>4, <2>1 DEF Distinct
<1>5. Moved(list, m) = [i \in DOMAIN list |-> new(list[i])]
  BY <1>4 DEF Moved
<1> DEFINE s == [i \in DOMAIN list |-> new(list[i])]
<1>6. /\ s \in Seq(Annotation) /\ Len(s) = Len(list) /\ DOMAIN s = DOMAIN list
      /\ \A i \in DOMAIN list : s[i] = new(list[i])
  <2> HIDE DEF new
  <2> QED
    BY <1>2, <1>3
<1>7. Distinct(s)
  <2> HIDE DEF new, s
  <2> QED
    BY <1>2, <1>3, <1>6 DEF Distinct
<1>8. Received(ToSet(list), m) = {new(a) : a \in ToSet(list)}
  <2>1. Received(ToSet(list), m)
          = {a \in ToSet(list) : a.uuid # m.uuid}
            \cup {IF a.body \in Placed THEN [a EXCEPT !.body = m.body] ELSE a
                    : a \in ToSet(list) \ {b \in ToSet(list) : b.uuid # m.uuid}}
    BY <1>1 DEF Received
  <2> QED
    BY <2>1
<1>9. ToSet(s) = {new(a) : a \in ToSet(list)}
  <2> HIDE DEF new, s
  <2> QED
    BY <1>6 DEF ToSet
<1> HIDE DEF s
<1> QED
  BY <1>5, <1>6, <1>7, <1>8, <1>9 DEF s

\* The list and the set change alike, and the list stays within the cap.
LEMMA AppliedIs ==
  ASSUME NEW list \in Seq(Annotation), Distinct(list), NEW m \in Action,
         Len(list) <= MaxAnnotations, ~(m.do = "create" /\ Len(list) >= MaxAnnotations)
  PROVE  /\ Applied(list, m) \in Seq(Annotation) /\ Distinct(Applied(list, m))
         /\ Len(Applied(list, m)) <= MaxAnnotations
         /\ ToSet(Applied(list, m)) = Received(ToSet(list), m)
<1>1. Len(list) \in Nat /\ MaxAnnotations \in Nat
  BY AnnotationsAssumption
<1>2. CASE m \in [do: {"create"}, uuid: Uuids, body: Bodies]
  <2>1. m.do = "create" /\ Applied(list, m) = Created(list, m) /\ Len(list) + 1 <= MaxAnnotations
    BY <1>1, <1>2 DEF Applied
  <2>2. Len(Created(list, m)) \in Nat /\ Len(Created(list, m)) <= Len(list) + 1
    BY <1>2, CreatedIs
  <2>3. Len(Created(list, m)) <= MaxAnnotations
    BY <1>1, <2>1, <2>2
  <2> QED
    BY <1>2, <2>1, <2>3, CreatedIs
<1>3. CASE m \in [do: {"move"}, uuid: Uuids, body: Placed]
  <2>1. Applied(list, m) = Moved(list, m)
    BY <1>3 DEF Applied
  <2> QED
    BY <1>3, <2>1, MovedIs
<1>4. CASE m \in [do: {"delete"}, uuid: Uuids]
  <2>1. Applied(list, m) = Without(list, m.uuid)
    BY <1>4 DEF Applied
  <2>2. Received(ToSet(list), m) = {a \in ToSet(list) : a.uuid # m.uuid}
    BY <1>4 DEF Received
  <2>3. Len(Without(list, m.uuid)) \in Nat /\ Len(Without(list, m.uuid)) <= Len(list)
    BY WithoutIs
  <2>4. Len(Without(list, m.uuid)) <= MaxAnnotations
    BY <1>1, <2>3
  <2> QED
    BY <2>1, <2>2, <2>4, WithoutIs
<1>5. CASE m \in [do: {"clear"}]
  <2>1. Applied(list, m) = <<>> /\ Received(ToSet(list), m) = {}
    BY <1>5 DEF Applied, Received
  <2>2. <<>> \in Seq(Annotation) /\ Len(<<>>) = 0 /\ DOMAIN <<>> = {}
    OBVIOUS
  <2>3. Distinct(<<>>) /\ ToSet(<<>>) = {}
    BY <2>2 DEF Distinct, ToSet
  <2> QED
    BY <1>1, <2>1, <2>2, <2>3
<1> QED
  BY <1>2, <1>3, <1>4, <1>5 DEF Action

\* What follows in a queue.
LEMMA Joined ==
  ASSUME NEW q \in Seq(Action), NEW s \in Seq(Action)
  PROVE  /\ q \o s \in Seq(Action) /\ Len(q \o s) = Len(q) + Len(s)
         /\ \A e \in 1 .. Len(q \o s) : e > Len(q) => (q \o s)[e] = s[e - Len(q)]
<1> DEFINE t == q \o s
<1>1. /\ t \in Seq(Action) /\ Len(t) = Len(q) + Len(s)
      /\ \A i \in 1 .. Len(t) : t[i] = IF i <= Len(q) THEN q[i] ELSE s[i - Len(q)]
  BY ConcatProperties
<1>2. Len(q) \in Nat
  OBVIOUS
<1> HIDE DEF t
<1>3. \A e \in 1 .. Len(t) : e > Len(q) => t[e] = s[e - Len(q)]
  BY <1>1, <1>2
<1> QED
  BY <1>1, <1>3 DEF t

\* The snapshot makes a client hold what is on the list, whatever it held before.
LEMMA SnapshotArrives ==
  ASSUME NEW v \in SUBSET Annotation, NEW q \in Seq(Action),
         NEW list \in Seq(Annotation), Distinct(list)
  PROVE  LET s == <<Clear>> \o [i \in DOMAIN list |-> Create(list[i])]
         IN  s \in Seq(Action) /\ Result(v, q \o s) = ToSet(list)
<1> DEFINE c == [i \in DOMAIN list |-> Create(list[i])]
<1> DEFINE s == <<Clear>> \o c
<1> DEFINE t == q \o s
<1> DEFINE n == Len(q)
<1> DEFINE l == Len(list)
<1>1. n \in Nat /\ l \in Nat /\ DOMAIN list = 1 .. l /\ \A i \in 1 .. l : list[i] \in Annotation
  OBVIOUS
<1>2. Clear \in Action /\ \A a \in Annotation : Create(a) \in Action
  BY DEF Clear, Create, Action, Annotation
<1>3. c \in Seq(Action) /\ Len(c) = l /\ \A i \in 1 .. l : c[i] = Create(list[i])
  BY <1>1, <1>2
<1>4. s \in Seq(Action) /\ Len(s) = l + 1 /\ s[1] = Clear /\ \A i \in 1 .. l : s[i + 1] = c[i]
  <2> HIDE DEF c
  <2>1. <<Clear>> \in Seq(Action) /\ Len(<<Clear>>) = 1 /\ <<Clear>>[1] = Clear
    BY <1>2
  <2> DEFINE b == <<Clear>>
  <2> HIDE DEF b
  <2>2. s = b \o c
    BY DEF b
  <2>3. /\ s \in Seq(Action) /\ Len(s) = 1 + l
        /\ \A i \in 1 .. Len(s) : s[i] = IF i <= 1 THEN b[i] ELSE c[i - 1]
    BY <1>3, <2>1, <2>2, ConcatProperties DEF b
  <2> HIDE DEF s
  <2>4. 1 \in 1 .. Len(s) /\ \A i \in 1 .. l : i + 1 \in 1 .. Len(s) /\ i + 1 - 1 = i /\ ~(i + 1 <= 1)
    BY <1>1, <2>3
  <2>5. s[1] = Clear
    BY <2>1, <2>3, <2>4 DEF b
  <2>6. \A i \in 1 .. l : s[i + 1] = c[i]
    BY <2>3, <2>4
  <2> QED
    BY <1>1, <2>3, <2>5, <2>6
<1> HIDE DEF c, s
<1>5. /\ t \in Seq(Action) /\ Len(t) = n + l + 1
      /\ \A e \in 1 .. Len(t) : e > n => t[e] = s[e - n]
  <2>1. /\ t \in Seq(Action) /\ Len(t) = n + Len(s)
        /\ \A e \in 1 .. Len(t) : e > n => t[e] = s[e - n]
    BY Zenon, <1>4, Joined
  <2> HIDE DEF n, l, t
  <2>2. Len(t) = n + l + 1
    BY <1>1, <1>4, <2>1
  <2> QED
    BY <2>1, <2>2
<1> HIDE DEF n, l, t
<1>6. PICK h : Run(h, v, t) /\ Result(v, t) = h[Len(t)]
  BY <1>5, ResultRuns
<1> DEFINE T == {k \in Nat : k <= l => h[n + 1 + k] = {list[i] : i \in 1 .. k}}
<1>7. 0 \in T
  <2> DEFINE e == n + 1
  <2>0. e \in 1 .. Len(t) /\ e > n /\ e - n = 1
    BY <1>1, <1>5
  <2> HIDE DEF e
  <2>1. e \in 1 .. Len(t) /\ t[e] = Clear
    BY <1>4, <1>5, <2>0
  <2>2. h[e] = Received(h[e - 1], Clear)
    BY <1>6, <2>1 DEF Run
  <2>3. h[e] = {}
    BY <2>2 DEF Received, Clear
  <2>4. h[n + 1 + 0] = {}
    BY <1>1, <2>3 DEF e
  <2>5. {list[i] : i \in 1 .. 0} = {}
    OBVIOUS
  <2> QED
    BY <2>4, <2>5
<1>8. ASSUME NEW k \in T PROVE k + 1 \in T
  <2> SUFFICES ASSUME k + 1 <= l PROVE h[n + 1 + (k + 1)] = {list[i] : i \in 1 .. k + 1}
    OBVIOUS
  <2> DEFINE e == n + 1 + (k + 1)
  <2> DEFINE a == list[k + 1]
  <2> DEFINE held == {list[i] : i \in 1 .. k}
  <2>1. k + 1 \in 1 .. l /\ k <= l /\ k \in Nat
    BY <1>1
  <2>2. e \in 1 .. Len(t) /\ e - 1 = n + 1 + k /\ e > n /\ e - n = (k + 1) + 1
    BY <1>1, <1>5, <2>1
  <2>3. t[e] = Create(a)
    <3> HIDE DEF e
    <3>1. t[e] = s[(k + 1) + 1]
      BY <1>5, <2>2
    <3>2. s[(k + 1) + 1] = c[k + 1] /\ c[k + 1] = Create(list[k + 1])
      <4> DEFINE j == k + 1
      <4>1. j \in 1 .. l
        BY <2>1
      <4> HIDE DEF j
      <4>2. s[j + 1] = c[j] /\ c[j] = Create(list[j])
        BY <1>3, <1>4, <4>1
      <4> QED
        BY <4>2 DEF j
    <3> QED
      BY <3>1, <3>2
  <2>4. h[n + 1 + k] = held
    BY <2>1
  <2>5. a \in Annotation /\ \A x \in held : x \in Annotation /\ x.uuid # a.uuid
    <3>1. a \in Annotation
      BY <1>1, <2>1
    <3>2. ASSUME NEW i \in 1 .. k PROVE list[i] \in Annotation /\ list[i].uuid # a.uuid
      <4>1. i \in 1 .. l /\ i # k + 1
        BY <2>1, <1>1
      <4> QED
        BY <1>1, <2>1, <4>1 DEF Distinct
    <3> QED
      BY <3>1, <3>2
  <2>6. {list[i] : i \in 1 .. k + 1} = held \cup {a}
    <3>1. 1 .. k + 1 = (1 .. k) \cup {k + 1}
      BY <2>1
    <3> QED
      BY <3>1
  <2> HIDE DEF e, a, held
  <2>7. h[e] = Received(h[e - 1], Create(a))
    BY <1>6, <2>2, <2>3 DEF Run
  <2>8. Received(held, Create(a)) = held \cup {a}
    <3>1. [uuid |-> a.uuid, body |-> a.body] = a
      BY <2>5 DEF Annotation
    <3>2. {x \in held : x.uuid # a.uuid} = held
      BY <2>5
    <3> QED
      BY <3>1, <3>2 DEF Received, Create
  <2>9. h[e] = held \cup {a}
    BY <2>2, <2>4, <2>7, <2>8
  <2> QED
    BY <2>6, <2>9 DEF e
<1>9. T \in SUBSET Nat
  OBVIOUS
<1>10. l \in T
  <2> HIDE DEF T
  <2> QED
    BY <1>1, <1>7, <1>8, <1>9, Induction
<1>11. h[Len(t)] = {list[i] : i \in 1 .. l}
  <2>1. h[n + 1 + l] = {list[i] : i \in 1 .. l}
    BY <1>1, <1>10
  <2>2. n + 1 + l = Len(t)
    BY <1>1, <1>5
  <2> QED
    BY <2>1, <2>2
<1>12. ToSet(list) = {list[i] : i \in 1 .. l}
  BY <1>1 DEF ToSet
<1> QED
  BY <1>4, <1>6, <1>11, <1>12 DEF s, t, c

(***************************************************************************)
(* The invariants.                                                         *)
(***************************************************************************)

Sound(d) == Distinct(worlds[d]) /\ Len(worlds[d]) <= MaxAnnotations

\* What was applied of the batch in progress and p will be told of.
Untold(p) == IF editor # None /\ dimension[editor] = dimension[p] THEN applied ELSE <<>>

AgreesOn(p) == Result(view[p], channel[p] \o Untold(p)) = ToSet(worlds[dimension[p]])

Inv ==
  /\ TypeOK
  /\ \A d \in Dimensions : Sound(d)
  /\ \A p \in active \ behind : AgreesOn(p)

LEMMA InvMeans ==
  /\ ListsAreSound <=> \A d \in Dimensions : Sound(d)
  /\ SettledClientsAgree <=> \A p \in active \ behind : AgreesOn(p)
<1>1. ListsAreSound <=> \A d \in Dimensions : Sound(d)
  BY DEF ListsAreSound, Sound, Distinct
<1>2. \A p : Agrees(p) <=> AgreesOn(p)
  BY Zenon DEF Agrees, AgreesOn, WillHold, Result, Untold
<1> QED
  BY <1>1, <1>2 DEF SettledClientsAgree

\* The snapshot, as actions.
LEMMA SnapshotTyped ==
  ASSUME TypeOK, NEW d \in Dimensions, Sound(d), NEW v \in SUBSET Annotation, NEW q \in Seq(Action)
  PROVE  Snapshot(d) \in Seq(Action) /\ Result(v, q \o Snapshot(d)) = ToSet(worlds[d])
<1>1. worlds[d] \in Seq(Annotation) /\ Distinct(worlds[d])
  BY DEF TypeOK, Sound
<1> QED
  BY <1>1, SnapshotArrives DEF Snapshot

LEMMA InvStep ==
  ASSUME Inv, [Next]_vars
  PROVE  Inv'
<1>1. /\ worlds \in [Dimensions -> Seq(Annotation)]
      /\ active \in SUBSET Players
      /\ dimension \in [Players -> Dimensions]
      /\ editor \in Players \cup {None}
      /\ applied \in Seq(Action)
      /\ refused \in Nat
      /\ channel \in [Players -> Seq(Action)]
      /\ view \in [Players -> SUBSET Annotation]
      /\ behind \in SUBSET Players
      /\ None \notin Players
      /\ <<>> \in Seq(Action)
  BY AnnotationsAssumption DEF Inv, TypeOK
<1>2. \A p \in Players : Untold(p) \in Seq(Action) /\ channel[p] \o Untold(p) \in Seq(Action)
  BY <1>1 DEF Untold
\* An action after which no player's list or messages have changed.
<1>3. ASSUME UNCHANGED <<worlds, dimension, channel, view>>,
             \A p \in active' \ behind' : p \in active \ behind /\ Untold(p)' = Untold(p)
      PROVE  (\A d \in Dimensions : Sound(d)') /\ \A p \in active' \ behind' : AgreesOn(p)'
  <2>1. \A d \in Dimensions : Sound(d)'
    BY <1>3 DEF Inv, Sound
  <2>2. ASSUME NEW p \in active' \ behind' PROVE AgreesOn(p)'
    <3>1. AgreesOn(p) /\ Untold(p)' = Untold(p)
      BY <1>3, <2>2 DEF Inv
    <3> QED
      BY <1>3, <3>1 DEF AgreesOn
  <2> QED
    BY <2>1, <2>2
<1>4. CASE \E p \in Players : Begin(p)
  <2>1. PICK p0 \in Players : Begin(p0)
    BY <1>4
  <2>2. TypeOK'
    BY <1>1, <2>1 DEF Begin, TypeOK
  <2>3. \A p : Untold(p)' = <<>> /\ Untold(p) = <<>>
    BY <2>1 DEF Begin, Untold
  <2> QED
    BY <1>3, <2>1, <2>2, <2>3 DEF Begin, Inv
<1>5. CASE \E m \in Action : Apply(m)
  <2>1. PICK m \in Action : Apply(m)
    BY <1>5
  <2> DEFINE d0 == dimension[editor]
  <2> DEFINE list == worlds[d0]
  <2>2. /\ editor \in Players /\ d0 \in Dimensions /\ list \in Seq(Annotation)
        /\ Distinct(list) /\ Len(list) <= MaxAnnotations
        /\ ~(m.do = "create" /\ Len(list) >= MaxAnnotations)
    BY <1>1, <2>1 DEF Apply, Inv, Sound, Full, World
  <2>3. /\ Applied(list, m) \in Seq(Annotation) /\ Distinct(Applied(list, m))
        /\ Len(Applied(list, m)) <= MaxAnnotations
        /\ ToSet(Applied(list, m)) = Received(ToSet(list), m)
    <3> HIDE DEF list
    <3> QED
      BY <2>2, AppliedIs
  <2>4. /\ worlds' = [worlds EXCEPT ![d0] = Applied(list, m)] /\ applied' = Append(applied, m)
        /\ UNCHANGED <<active, dimension, editor, refused, channel, view, behind>>
    BY <2>1 DEF Apply
  <2>5. worlds'[d0] = Applied(list, m) /\ \A d \in Dimensions : d # d0 => worlds'[d] = worlds[d]
    BY <1>1, <2>2, <2>4
  <2>6. TypeOK'
    <3>1. worlds' \in [Dimensions -> Seq(Annotation)]
      BY <1>1, <2>3, <2>4
    <3>2. applied' \in Seq(Action)
      BY <1>1, <2>4
    <3> QED
      BY <1>1, <2>4, <3>1, <3>2 DEF TypeOK
  <2>7. \A d \in Dimensions : Sound(d)'
    BY <2>3, <2>5 DEF Inv, Sound
  <2>8. ASSUME NEW p \in active' \ behind' PROVE AgreesOn(p)'
    <3>1. p \in Players /\ dimension[p] \in Dimensions /\ AgreesOn(p)
      BY <1>1, <2>4, <2>8 DEF Inv
    <3> DEFINE c == channel[p]
    <3>2. c \in Seq(Action) /\ view[p] \in SUBSET Annotation
      BY <1>1, <3>1
    <3>3. CASE dimension[p] = d0
      <4>1. Untold(p) = applied /\ Untold(p)' = Append(applied, m)
        BY <2>2, <2>4, <3>3, <1>1 DEF Untold
      <4> HIDE DEF c
      <4>2. c \o Append(applied, m) = Append(c \o applied, m) /\ c \o applied \in Seq(Action)
        BY <1>1, <3>2
      <4>3. Result(view[p], Append(c \o applied, m)) = Received(Result(view[p], c \o applied), m)
        BY <3>2, <4>2, ResultAppend
      <4>4. Result(view[p], c \o applied) = ToSet(list)
        BY <3>1, <3>3, <4>1 DEF AgreesOn, c
      <4>5. Result(view[p], c \o Untold(p)') = ToSet(worlds'[dimension[p]])
        BY <2>3, <2>5, <3>3, <4>1, <4>2, <4>3, <4>4
      <4> QED
        BY <2>4, <4>5 DEF AgreesOn, c
    <3>4. CASE dimension[p] # d0
      <4>1. Untold(p) = <<>> /\ Untold(p)' = <<>>
        BY <2>4, <3>4 DEF Untold
      <4> QED
        BY <2>4, <2>5, <3>1, <3>4, <4>1 DEF AgreesOn
    <3> QED
      BY <3>3, <3>4
  <2> QED
    BY <2>6, <2>7, <2>8 DEF Inv
<1>6. CASE \E m \in Action : Refuse(m)
  <2>1. PICK m \in Action : Refuse(m)
    BY <1>6
  <2>2. TypeOK'
    BY <1>1, <2>1 DEF Refuse, TypeOK
  <2>3. \A p : Untold(p)' = Untold(p)
    BY <2>1 DEF Refuse, Untold
  <2> QED
    BY <1>3, <2>1, <2>2, <2>3 DEF Refuse, Inv
<1>7. CASE Finish
  <2>1. /\ editor \in Players /\ editor' = None /\ applied' = <<>> /\ refused' = 0
        /\ UNCHANGED <<worlds, active, dimension, view, behind>>
        /\ channel' = [p \in Players |-> IF dimension[p] = dimension[editor]
                                         THEN channel[p] \o applied ELSE channel[p]]
    BY <1>1, <1>7 DEF Finish, Relay
  <2>2. TypeOK'
    <3>1. channel' \in [Players -> Seq(Action)]
      BY <1>1, <2>1
    <3> QED
      BY <1>1, <2>1, <3>1 DEF TypeOK
  <2>3. \A d \in Dimensions : Sound(d)'
    BY <2>1 DEF Inv, Sound
  <2>4. ASSUME NEW p \in active' \ behind' PROVE AgreesOn(p)'
    <3>1. p \in Players /\ AgreesOn(p) /\ channel[p] \in Seq(Action)
      BY <1>1, <2>1, <2>4 DEF Inv
    <3>2. channel'[p] = channel[p] \o Untold(p)
      <4>1. dimension[p] # dimension[editor] => channel[p] \o <<>> = channel[p]
        BY <3>1
      <4> QED
        BY <1>1, <2>1, <3>1, <4>1 DEF Untold
    <3>3. Untold(p)' = <<>> /\ channel'[p] \o <<>> = channel'[p]
      <4>1. channel'[p] \in Seq(Action)
        BY <1>2, <3>1, <3>2
      <4> QED
        BY <2>1, <4>1 DEF Untold
    <3> QED
      BY <2>1, <3>1, <3>2, <3>3 DEF AgreesOn
  <2> QED
    BY <2>2, <2>3, <2>4 DEF Inv
<1>8. CASE Fail
  <2>1. /\ editor \in Players /\ editor' = None /\ applied' = <<>> /\ refused' = 0
        /\ active' = active \ {editor}
        /\ UNCHANGED <<worlds, dimension, channel, view>>
        /\ behind' = IF applied = <<>> THEN behind
                     ELSE behind \cup {p \in Players : dimension[p] = dimension[editor]}
    BY <1>1, <1>8 DEF Fail
  <2>2. TypeOK'
    BY <1>1, <2>1 DEF TypeOK
  <2>3. \A p \in active' \ behind' : p \in active \ behind /\ Untold(p)' = Untold(p)
    <3> TAKE p \in active' \ behind'
    <3>1. p \in active \ behind /\ p \in Players
      BY <1>1, <2>1
    <3>2. applied = <<>> \/ dimension[p] # dimension[editor]
      BY <2>1, <3>1
    <3>3. Untold(p)' = <<>> /\ Untold(p) = <<>>
      BY <2>1, <3>2 DEF Untold
    <3> QED
      BY <3>1, <3>3
  <2> QED
    BY <1>3, <2>1, <2>2, <2>3 DEF Inv
<1>9. CASE \E p \in Players : Activate(p)
  <2>1. PICK p0 \in Players : Activate(p0)
    BY <1>9
  <2> DEFINE d0 == dimension[p0]
  <2> DEFINE s == Snapshot(d0)
  <2>2. /\ editor = None /\ editor' = None /\ active' = active \cup {p0} /\ behind' = behind \ {p0}
        /\ UNCHANGED <<worlds, dimension, applied, refused, view>>
        /\ channel' = [channel EXCEPT ![p0] = channel[p0] \o s]
    BY <2>1 DEF Activate
  <2>3. d0 \in Dimensions /\ Sound(d0) /\ channel[p0] \in Seq(Action) /\ view[p0] \in SUBSET Annotation
    BY <1>1 DEF Inv
  <2>4. s \in Seq(Action) /\ Result(view[p0], channel[p0] \o s) = ToSet(worlds[d0])
    BY <2>3, SnapshotTyped DEF Inv
  <2> HIDE DEF s
  <2>5. channel[p0] \o s \in Seq(Action) /\ (channel[p0] \o s) \o <<>> = channel[p0] \o s
    BY <2>3, <2>4
  <2>6. channel'[p0] = channel[p0] \o s /\ \A p \in Players : p # p0 => channel'[p] = channel[p]
    BY <1>1, <2>2
  <2>7. TypeOK'
    <3>1. channel' \in [Players -> Seq(Action)]
      BY <1>1, <2>2, <2>5
    <3> QED
      BY <1>1, <2>2, <3>1 DEF TypeOK
  <2>8. \A d \in Dimensions : Sound(d)'
    BY <2>2 DEF Inv, Sound
  <2>9. \A p : Untold(p)' = <<>> /\ Untold(p) = <<>>
    BY <2>2 DEF Untold
  <2>10. ASSUME NEW p \in active' \ behind' PROVE AgreesOn(p)'
    <3>1. CASE p = p0
      <4>1. Result(view[p0], channel'[p0] \o Untold(p0)') = ToSet(worlds[d0])
        BY <2>4, <2>5, <2>6, <2>9
      <4> QED
        BY <2>2, <3>1, <4>1 DEF AgreesOn
    <3>2. CASE p # p0
      <4>1. p \in Players /\ AgreesOn(p) /\ channel'[p] = channel[p]
        BY <1>1, <2>2, <2>6, <2>10, <3>2 DEF Inv
      <4> QED
        BY <2>2, <2>9, <4>1 DEF AgreesOn
    <3> QED
      BY <3>1, <3>2
  <2> QED
    BY <2>7, <2>8, <2>10 DEF Inv
<1>10. CASE \E p \in Players : Deactivate(p)
  <2>1. PICK p0 \in Players : Deactivate(p0)
    BY <1>10
  <2>2. TypeOK'
    BY <1>1, <2>1 DEF Deactivate, TypeOK
  <2>3. \A p : Untold(p)' = Untold(p)
    BY <2>1 DEF Deactivate, Untold
  <2> QED
    BY <1>3, <2>1, <2>2, <2>3 DEF Deactivate, Inv
<1>11. CASE \E p \in Players, d \in Dimensions : ChangeDimension(p, d)
  <2>1. PICK p0 \in Players, d0 \in Dimensions : ChangeDimension(p0, d0)
    BY <1>11
  <2>2. /\ editor = None /\ editor' = None /\ dimension' = [dimension EXCEPT ![p0] = d0]
        /\ behind' = behind \cup {p0}
        /\ UNCHANGED <<worlds, active, applied, refused, channel, view>>
    BY <2>1 DEF ChangeDimension
  <2>3. TypeOK'
    BY <1>1, <2>2 DEF TypeOK
  <2>4. \A d \in Dimensions : Sound(d)'
    BY <2>2 DEF Inv, Sound
  <2>5. ASSUME NEW p \in active' \ behind' PROVE AgreesOn(p)'
    <3>1. p \in Players /\ AgreesOn(p) /\ dimension'[p] = dimension[p]
      BY <1>1, <2>2, <2>5 DEF Inv
    <3>2. Untold(p)' = <<>> /\ Untold(p) = <<>>
      BY <2>2 DEF Untold
    <3> QED
      BY <2>2, <3>1, <3>2 DEF AgreesOn
  <2> QED
    BY <2>3, <2>4, <2>5 DEF Inv
<1>12. CASE \E p \in Players : ClientReceive(p)
  <2>1. PICK p0 \in Players : ClientReceive(p0)
    BY <1>12
  <2> DEFINE c == channel[p0]
  <2>2. /\ c # <<>> /\ UNCHANGED <<worlds, active, dimension, editor, applied, refused, behind>>
        /\ view' = [view EXCEPT ![p0] = Received(view[p0], Head(c))]
        /\ channel' = [channel EXCEPT ![p0] = Tail(c)]
    BY <2>1 DEF ClientReceive
  <2>3. c \in Seq(Action) /\ view[p0] \in SUBSET Annotation
    BY <1>1
  <2>4. Head(c) \in Action /\ Tail(c) \in Seq(Action)
    <3> HIDE DEF c
    <3> QED
      BY <2>2, <2>3
  <2>5. Received(view[p0], Head(c)) \in SUBSET Annotation
    BY <2>3, <2>4, ReceivedTyped
  <2>6. /\ view'[p0] = Received(view[p0], Head(c)) /\ channel'[p0] = Tail(c)
        /\ \A p \in Players : p # p0 => view'[p] = view[p] /\ channel'[p] = channel[p]
    BY <1>1, <2>2
  <2>7. TypeOK'
    <3>1. view' \in [Players -> SUBSET Annotation] /\ channel' \in [Players -> Seq(Action)]
      <4> HIDE DEF c
      <4> QED
        BY <1>1, <2>2, <2>4, <2>5
    <3> QED
      BY <1>1, <2>2, <3>1 DEF TypeOK
  <2>8. \A d \in Dimensions : Sound(d)'
    BY <2>2 DEF Inv, Sound
  <2>9. \A p : Untold(p)' = Untold(p)
    BY <2>2 DEF Untold
  <2>10. ASSUME NEW p \in active' \ behind' PROVE AgreesOn(p)'
    <3>1. p \in Players /\ AgreesOn(p)
      BY <1>1, <2>2, <2>10 DEF Inv
    <3>2. CASE p = p0
      <4> DEFINE u == Untold(p0)
      <4>1. u \in Seq(Action)
        BY <1>2
      <4> HIDE DEF c, u
      <4>2. c \o u \in Seq(Action) /\ c \o u # <<>>
        <5>1. Len(c) \in Nat \ {0} /\ Len(u) \in Nat
          BY <2>2, <2>3, <4>1
        <5>2. c \o u \in Seq(Action) /\ Len(c \o u) = Len(c) + Len(u)
          BY <2>3, <4>1, ConcatProperties
        <5>3. Len(c \o u) # 0
          BY <5>1, <5>2
        <5> QED
          BY <5>2, <5>3
      <4>3. Head(c \o u) = Head(c) /\ Tail(c \o u) = Tail(c) \o u
        BY <2>2, <2>3, <4>1
      <4>4. Result(view[p0], c \o u) = Result(Received(view[p0], Head(c)), Tail(c) \o u)
        BY <2>3, <4>2, <4>3, ResultHead
      <4>5. Result(view'[p0], channel'[p0] \o u) = ToSet(worlds[dimension[p0]])
        BY <2>6, <3>1, <3>2, <4>4 DEF AgreesOn, c, u
      <4> QED
        BY <2>2, <2>9, <3>2, <4>5 DEF AgreesOn, u
    <3>3. CASE p # p0
      BY <2>2, <2>6, <2>9, <3>1, <3>3 DEF AgreesOn
    <3> QED
      BY <3>2, <3>3
  <2> QED
    BY <2>7, <2>8, <2>10 DEF Inv
<1>13. CASE UNCHANGED vars
  <2>1. \A p : Untold(p)' = Untold(p)
    BY <1>13 DEF vars, Untold
  <2>2. TypeOK'
    BY <1>1, <1>13 DEF vars, TypeOK
  <2> QED
    BY <1>3, <1>13, <2>1, <2>2 DEF vars, Inv
<1> QED
  BY <1>4, <1>5, <1>6, <1>7, <1>8, <1>9, <1>10, <1>11, <1>12, <1>13 DEF Next

LEMMA InvHolds == Spec => []Inv
<1>1. ASSUME Init PROVE Inv
  <2>1. TypeOK
    <3>1. <<>> \in Seq(Annotation) /\ <<>> \in Seq(Action)
      OBVIOUS
    <3> QED
      BY <1>1, <3>1 DEF Init, TypeOK
  <2>2. ASSUME NEW d \in Dimensions PROVE Sound(d)
    <3>1. worlds[d] = <<>> /\ Len(<<>>) = 0 /\ DOMAIN <<>> = {} /\ MaxAnnotations \in Nat
      BY <1>1, AnnotationsAssumption DEF Init
    <3> QED
      BY <3>1 DEF Sound, Distinct
  <2> QED
    BY <1>1, <2>1, <2>2 DEF Init, Inv
<1>2. Inv /\ [Next]_vars => Inv'
  BY InvStep
<1> QED
  BY <1>1, <1>2, PTL DEF Spec

\* Every variable has its type.
THEOREM AnnotationsTyped == Spec => []TypeOK
<1>1. Inv => TypeOK
  BY DEF Inv
<1> QED
  BY <1>1, InvHolds, PTL

\* No list ever holds two annotations of one UUID, or more than MAX_ANNOTATIONS, not
\* even inside a batch, between two turns of the loop in `handle`.
THEOREM ListsStaySound == Spec => []ListsAreSound
<1>1. Inv => ListsAreSound
  BY InvMeans DEF Inv
<1> QED
  BY <1>1, InvHolds, PTL

\* "Every client ends up with the same state we hold" (annotations.rs), as long as it
\* was activated where it is and no batch failed since: whatever was on its way when
\* its snapshot was taken, and for lists, batches and channels of any length.
THEOREM SettledClientsDoAgree == Spec => []SettledClientsAgree
<1>1. Inv => SettledClientsAgree
  BY InvMeans DEF Inv
<1> QED
  BY <1>1, InvHolds, PTL

=============================================================================
