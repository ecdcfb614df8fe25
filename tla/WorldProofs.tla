----------------------------- MODULE WorldProofs -----------------------------
(***************************************************************************)
(* What holds in World for any menu of requests, any world and any tree of *)
(* nodes: first of the permissions alone, then of the edits, and then of   *)
(* the client, the handlers and what happens meanwhile, together.          *)
(***************************************************************************)
EXTENDS World, FoldingProofs, FiniteSetTheorems

(***************************************************************************)
(* Permissions.  In any tree in which a parent comes before its child a    *)
(* client reads from its restrictions what the server enforces.  The tree  *)
(* is climbed by least counterexamples: among the nodes for which a        *)
(* statement fails there is one whose parent is not among them.            *)
(***************************************************************************)

LEMMA Order ==
  \A a, b, c \in Nat : /\ a <= b /\ b < c => a <= c /\ a # c
                       /\ a <= b /\ b <= a => a = b
OBVIOUS

\* In any set of nodes that is not empty, one has no parent in it.
LEMMA HasATop ==
  ASSUME NEW S \in SUBSET Nodes, S # {}
  PROVE  \E n \in S : \A m \in S : ~(m < n)
<1>1. \E n \in S : \A m \in S : ~(<<m, n>> \in OpToRel(<, Nat))
  BY NatLessThanWellFounded, WFMin, PermissionsAssumption
<1>2. \A m, n \in S : m < n => <<m, n>> \in OpToRel(<, Nat)
  BY PermissionsAssumption DEF OpToRel
<1>. QED
  BY <1>1, <1>2

\* The function that climbs the tree satisfies the equation that defines it.
LEMMA ChainClimbs ==
  \A n \in Nodes : Chain[n] = {n} \cup (IF Parent[n] = NoParent THEN {} ELSE Chain[Parent[n]])
<1>. DEFINE Closed(S) == \A x \in S : Parent[x] # NoParent => Parent[x] \in S
            L == [n \in Nodes |->
                   {a \in Nodes : \A S \in SUBSET Nodes : n \in S /\ Closed(S) => a \in S}]
            F(f) == [n \in Nodes |-> {n} \cup (IF Parent[n] = NoParent THEN {} ELSE f[Parent[n]])]
<1>1. \A n \in Nodes : n \in L[n] /\ L[n] \in SUBSET Nodes
  OBVIOUS
<1>2. \A n \in Nodes : Closed(L[n])
  <2>1. SUFFICES ASSUME NEW n \in Nodes, NEW x \in L[n], Parent[x] # NoParent
                 PROVE  Parent[x] \in L[n]
    OBVIOUS
  <2>2. Parent[x] \in Nodes
    BY <2>1, PermissionsAssumption
  <2>. QED
    BY <2>1, <2>2
<1>3. ASSUME NEW n \in Nodes
      PROVE  L[n] = {n} \cup (IF Parent[n] = NoParent THEN {} ELSE L[Parent[n]])
  <2>1. CASE Parent[n] = NoParent
    <3>1. {n} \in SUBSET Nodes /\ Closed({n})
      BY <2>1
    <3>2. \A a \in L[n] : a \in {n}
      BY <3>1
    <3>. QED
      BY <2>1, <3>2, <1>1
  <2>2. CASE Parent[n] # NoParent
    <3>. DEFINE p == Parent[n]
    <3>1. p \in Nodes
      BY <2>2, PermissionsAssumption
    <3>. HIDE DEF p
    <3>2. {n} \cup L[p] \in SUBSET Nodes /\ n \in {n} \cup L[p]
      BY <3>1, <1>1
    <3>3. Closed({n} \cup L[p])
      BY <3>1, <1>1, <1>2 DEF p
    <3>4. \A a \in L[n] : a \in {n} \cup L[p]
      BY <3>2, <3>3
    <3>5. \A a \in L[p] : a \in L[n]
      BY <3>1, <2>2 DEF p
    <3>. QED
      BY <2>2, <3>4, <3>5, <1>1 DEF p
  <2>. QED
    BY <2>1, <2>2
<1>4. L = F(L)
  <2>1. L = [n \in Nodes |-> L[n]]
    OBVIOUS
  <2>. QED
    BY <2>1, <1>3
<1>. HIDE DEF L
<1>5. Above = F(Above)
  BY <1>4 DEF Above
<1>. QED
  BY <1>5 DEF Chain

\* What is above a node has a smaller index.
LEMMA ChainIsBelow ==
  \A n \in Nodes : Chain[n] \in SUBSET Nodes /\ \A a \in Chain[n] : a <= n
<1>. DEFINE Good(n) == Chain[n] \in SUBSET Nodes /\ \A a \in Chain[n] : a <= n
            Bad     == {n \in Nodes : ~Good(n)}
<1>1. SUFFICES ASSUME Bad # {} PROVE FALSE
  OBVIOUS
<1>2. PICK n \in Bad : \A m \in Bad : ~(m < n)
  BY <1>1, HasATop
<1>3. CASE Parent[n] = NoParent
  BY <1>2, <1>3, ChainClimbs, PermissionsAssumption
<1>4. CASE Parent[n] # NoParent
  <2>1. Parent[n] \in Nodes /\ Parent[n] < n /\ n \in Nodes
    BY <1>2, <1>4, PermissionsAssumption
  <2>2. Good(Parent[n])
    BY <2>1, <1>2
  <2>3. Chain[n] = {n} \cup Chain[Parent[n]]
    BY <1>4, <2>1, ChainClimbs
  <2>4. \A a \in Chain[n] : a <= n
    <3>1. SUFFICES ASSUME NEW a \in Chain[Parent[n]] PROVE a <= n
      BY <2>1, <2>3, PermissionsAssumption
    <3>2. a \in Nat /\ a <= Parent[n] /\ Parent[n] \in Nat /\ n \in Nat
      BY <2>1, <2>2, PermissionsAssumption
    <3>. QED
      BY <2>1, <3>2, Order
  <2>5. Good(n)
    BY <2>1, <2>2, <2>3, <2>4
  <2>. QED
    BY <2>5, <1>2
<1>. QED
  BY <1>3, <1>4

\* Whoever gives to a parent gives to the child, and so does the parent itself.
LEMMA GiversReachDown ==
  ASSUME NEW n \in Nodes, Parent[n] # NoParent
  PROVE  /\ Parent[n] \in Givers[n]
         /\ Givers[Parent[n]] \subseteq Givers[n]
<1>1. Parent[n] \in Nodes /\ Parent[n] < n
  BY PermissionsAssumption
<1>2. Chain[n] = {n} \cup Chain[Parent[n]] /\ Parent[n] \in Chain[Parent[n]]
  BY <1>1, ChainClimbs
<1>3. \A a \in Chain[Parent[n]] : a \in Nodes /\ a # n
  <2>1. SUFFICES ASSUME NEW a \in Chain[Parent[n]] PROVE a \in Nodes /\ a # n
    OBVIOUS
  <2>2. a \in Nodes /\ a <= Parent[n]
    BY <1>1, ChainIsBelow
  <2>3. a \in Nat /\ Parent[n] \in Nat /\ n \in Nat
    BY <1>1, <2>2, PermissionsAssumption
  <2>. QED
    BY <1>1, <2>2, <2>3, Order
<1>4. \A a \in Nodes : a \in Givers[n] <=> n # a /\ a \in Chain[n]
  BY DEF Givers, Descendants
<1>5. \A a \in Nodes : a \in Givers[Parent[n]] => a \in Chain[Parent[n]]
  BY <1>1 DEF Givers, Descendants
<1>6. Givers[Parent[n]] \in SUBSET Nodes
  BY <1>1 DEF Givers
<1>. QED
  BY <1>1, <1>2, <1>3, <1>4, <1>5, <1>6

LEMMA SomethingIsInherited ==
  ASSUME NEW own \in [Nodes -> Verdicts], NEW n \in Nodes
  PROVE  /\ Inherited(own, n) # {}
         /\ Inherited(own, n) \in SUBSET Verdicts
         /\ "yes" \in Inherited(own, n) <=> \E a \in Givers[n] : own[a] = "yes"
         /\ "yes" \in Inherited(own, n) => "unset" \notin Inherited(own, n)
<1>1. Givers[n] \in SUBSET Nodes
  BY DEF Givers
<1>. QED
  BY <1>1 DEF Inherited, Verdicts

LEMMA HostAnswers ==
  ASSUME NEW own \in [Nodes -> Verdicts], NEW prefer \in [Nodes -> Verdicts], NEW n \in Nodes
  PROVE  /\ own[n] # "unset" => Resolved(own, prefer)[n] = own[n]
         /\ own[n] = "unset" => Resolved(own, prefer)[n] \in Inherited(own, n)
BY SomethingIsInherited DEF Resolved

LEMMA ResolvedTyped ==
  ASSUME NEW own \in [Nodes -> Verdicts], NEW prefer \in [Nodes -> Verdicts]
  PROVE  Resolved(own, prefer) \in [Nodes -> Verdicts]
<1>1. \A n \in Nodes : Resolved(own, prefer)[n] \in Verdicts
  BY HostAnswers, SomethingIsInherited
<1>. QED
  BY <1>1 DEF Resolved

\* A grant is not lost on the way down.
GrantReaches(v) == \A n \in Nodes :
  Parent[n] # NoParent /\ v[Parent[n]] = "yes" => v[n] # "unset"

LEMMA GrantsReachDown ==
  ASSUME NEW own \in [Nodes -> Verdicts], NEW prefer \in [Nodes -> Verdicts]
  PROVE  GrantReaches(Resolved(own, prefer))
<1>. DEFINE v == Resolved(own, prefer)
<1>1. SUFFICES ASSUME NEW n \in Nodes, Parent[n] # NoParent, v[Parent[n]] = "yes"
               PROVE  v[n] # "unset"
  BY DEF GrantReaches
<1>. DEFINE p == Parent[n]
<1>2. p \in Nodes
  BY <1>1, PermissionsAssumption
<1>3. \E a \in Givers[p] \cup {p} : own[a] = "yes"
  BY <1>1, <1>2, HostAnswers, SomethingIsInherited
<1>4. \E a \in Givers[n] : own[a] = "yes"
  BY <1>1, <1>3, GiversReachDown
<1>5. "unset" \notin Inherited(own, n)
  BY <1>4, SomethingIsInherited
<1>. QED
  BY <1>5, HostAnswers

-----------------------------------------------------------------------------
PermissionsInv == PermissionsTypeOK /\ GrantReaches(verdict)

LEMMA CalculatedTyped ==
  CalculateRestrictions \in [allowed: SUBSET Nodes, denied: SUBSET Nodes]
BY PermissionsAssumption DEF CalculateRestrictions, Collect

LEMMA PermissionsInvInductive == PermissionsSpec => []PermissionsInv
<1>1. PermissionsInit => PermissionsInv
  BY ResolvedTyped, GrantsReachDown, CalculatedTyped, PermissionsAssumption
     DEF PermissionsInit, PermissionsInv, PermissionsTypeOK
<1>2. PermissionsInv /\ [PermissionsNext]_permissionVars => PermissionsInv'
  <2>1. SUFFICES ASSUME PermissionsInv, [PermissionsNext]_permissionVars
                 PROVE  PermissionsInv'
    OBVIOUS
  <2>2. ASSUME NEW own \in Settings, NEW prefer \in Preferences, Regrant(own, prefer)
        PROVE  PermissionsInv'
    BY <2>1, <2>2, ResolvedTyped, GrantsReachDown, PermissionsAssumption
       DEF PermissionsInv, PermissionsTypeOK, Regrant
  <2>3. CASE UpdateRestrictions
    BY <2>1, <2>3, CalculatedTyped DEF PermissionsInv, PermissionsTypeOK, UpdateRestrictions
  <2>4. CASE UNCHANGED permissionVars
    BY <2>1, <2>4 DEF PermissionsInv, PermissionsTypeOK, permissionVars
  <2>. QED
    BY <2>1, <2>2, <2>3, <2>4 DEF PermissionsNext
<1>. QED
  BY <1>1, <1>2, PTL DEF PermissionsSpec

\* The host's answers and the client's lists have their types, however grants change.
THEOREM PermissionsTyped == PermissionsSpec => []PermissionsTypeOK
BY PermissionsInvInductive, PTL DEF PermissionsInv

\* What the nearest place mentioned says of n, it says of n's parent too, unless n is
\* mentioned itself.
LEMMA ReadingClimbs ==
  ASSUME NEW n \in Nodes, n \notin restrictions.allowed \cup restrictions.denied
  PROVE  Mentioned(n) = IF Parent[n] = NoParent THEN {} ELSE Mentioned(Parent[n])
BY ChainClimbs DEF Mentioned

LEMMA ReadingIsRight ==
  ASSUME PermissionsInv, restrictions = CalculateRestrictions,
         ~(op \/ verdict[All] = "yes"), NEW n \in Nodes
  PROVE  (\E a \in restrictions.allowed : Speaks(n, a)) <=> verdict[n] = "yes"
<1>. DEFINE Right(k) == (\E a \in restrictions.allowed : Speaks(k, a)) <=> verdict[k] = "yes"
            Wrong    == {k \in Nodes : ~Right(k)}
<1>1. restrictions.allowed = Collect("yes") /\ restrictions.denied = Collect("no")
  BY DEF CalculateRestrictions
<1>2. SUFFICES ASSUME Wrong # {} PROVE FALSE
  OBVIOUS
<1>3. PICK k \in Wrong : \A m \in Wrong : ~(m < k)
  BY <1>2, HasATop
<1>4. k \in Nodes /\ verdict[k] \in Verdicts
  BY <1>3 DEF PermissionsInv, PermissionsTypeOK
<1>5. CASE k \in Collect("yes") \cup Collect("no")
  <2>1. k \in Mentioned(k) /\ \A b \in Mentioned(k) : b <= k /\ b \in Nodes
    BY <1>1, <1>4, <1>5, ChainClimbs, ChainIsBelow DEF Mentioned
  <2>2. \A a : Speaks(k, a) <=> a = k
    <3>1. Speaks(k, k)
      BY <2>1 DEF Speaks
    <3>2. ASSUME NEW a, Speaks(k, a) PROVE a = k
      <4>1. a \in Mentioned(k) /\ k <= a /\ a <= k
        BY <2>1, <3>2 DEF Speaks
      <4>2. a \in Nat /\ k \in Nat
        BY <4>1, <2>1, <1>4, PermissionsAssumption
      <4>. QED
        BY <4>1, <4>2, Order
    <3>. QED
      BY <3>1, <3>2
  <2>3. k \in Collect("yes") <=> verdict[k] = "yes"
    BY <1>4, <1>5 DEF Collect
  <2>. QED
    BY <2>2, <2>3, <1>1, <1>3
<1>6. CASE k \notin Collect("yes") \cup Collect("no")
  <2>1. Mentioned(k) = IF Parent[k] = NoParent THEN {} ELSE Mentioned(Parent[k])
    BY <1>1, <1>4, <1>6, ReadingClimbs
  <2>2. CASE Parent[k] = NoParent
    <3>1. verdict[k] = "unset"
      BY <1>4, <1>6, <2>2 DEF Collect, Redundant, Verdicts
    <3>. QED
      BY <3>1, <2>1, <2>2, <1>3 DEF Speaks
  <2>3. CASE Parent[k] # NoParent
    <3>. DEFINE p == Parent[k]
    <3>1. p \in Nodes /\ p < k
      BY <1>4, <2>3, PermissionsAssumption
    <3>2. Right(p)
      BY <3>1, <1>3
    <3>3. \A a : Speaks(k, a) <=> Speaks(p, a)
      BY <2>1, <2>3 DEF Speaks
    <3>4. verdict[k] = "yes" <=> verdict[p] = "yes"
      BY <1>4, <1>6, <2>3, <3>1
         DEF Collect, Redundant, Verdicts, PermissionsInv, PermissionsTypeOK, GrantReaches
    <3>. QED
      BY <3>2, <3>3, <3>4, <1>3
  <2>. QED
    BY <2>2, <2>3
<1>. QED
  BY <1>5, <1>6

\* Whatever operators set and however the host settles it, a client that was sent what
\* holds now reads from its lists exactly what has_perm enforces.
THEOREM ClientsKnowTheirRights == PermissionsSpec => []ClientKnowsItsRights
<1>1. ASSUME PermissionsInv, restrictions = CalculateRestrictions, NEW n \in Nodes
      PROVE  ClientMay(n) <=> HasPerm(n)
  <2>1. CASE op \/ verdict[All] = "yes"
    BY <1>1, <2>1 DEF CalculateRestrictions, ClientMay, HasPerm
  <2>2. CASE ~(op \/ verdict[All] = "yes")
    <3>1. All \notin restrictions.allowed
      BY <1>1, <2>2 DEF CalculateRestrictions, Collect
    <3>. QED
      BY <1>1, <2>2, <3>1, ReadingIsRight DEF ClientMay, HasPerm
  <2>. QED
    BY <2>1, <2>2
<1>2. PermissionsInv => ClientKnowsItsRights
  BY <1>1 DEF ClientKnowsItsRights
<1>. QED
  BY <1>2, PermissionsInvInductive, PTL

-----------------------------------------------------------------------------
(***************************************************************************)
(* The edits: whatever a request says, what a handler makes of a world is  *)
(* a world again.                                                          *)
(***************************************************************************)

\* A fold stays among the values that its steps keep to.
LEMMA FoldStays ==
  ASSUME NEW A, NEW B, NEW R \in [A \X B -> A], NEW base \in A, NEW q \in Seq(B), NEW it,
         Computes(it, A, R, base, q)
  PROVE  it[DOMAIN q] \in A
<1>1. PICK h \in [0 .. Len(q) -> A] : Passes(h, R, base, q) /\ Concludes(h, it, q)
  BY FoldRuns
<1>2. Len(q) \in 0 .. Len(q)
  OBVIOUS
<1> QED
  BY <1>1, <1>2 DEF Concludes

States == 0..StateCount - 1
Loadable == Columns \cup {ChunkOf(p) : p \in BiomeCells}

LEMMA StatesTyped ==
  /\ StateCount \in Nat \ {0} /\ States \subseteq Nat
  /\ Air \in States /\ NoState \notin States /\ Fragile \subseteq States /\ VoidAir \in States
<1>1. StateCount \in Nat \ {0}
  BY SectionsAssumption
<1>2. Fragile \subseteq States /\ VoidAir \in States
  BY SectionsAssumption, BlockEditsAssumption DEF States
<1> QED
  BY <1>1, <1>2 DEF States, Air, NoState

LEMMA WorldStatesAre ==
  WorldStates = [blocks: [Cells -> States], tags: [Cells -> Tags],
                 biomes: [BiomeCells -> Range(BiomeNames)],
                 shown: [BiomeCells -> Range(BiomeNames)], loaded: SUBSET Loadable]
BY DEF WorldStates, States, Loadable

LEMMA ServerStateTyped ==
  ASSUME NEW o, NEW id
  PROVE  ServerState(o, id) \in States \cup {NoState}
BY DEF ServerState, States

LEMMA EnsureTyped ==
  ASSUME NEW w \in WorldStates, NEW c
  PROVE  Ensure(w, c) \in WorldStates
BY WorldStatesAre DEF Ensure, Loadable

LEMMA SetBlockStateTyped ==
  ASSUME NEW w \in WorldStates, NEW p, NEW state \in States, NEW flags
  PROVE  SetBlockState(w, p, state, flags) \in WorldStates
<1> DEFINE put   == [w.blocks EXCEPT ![p] = state]
           falls == IF "moved" \in flags THEN {}
                    ELSE {q \in Cells : Distance(p, q) <= 1 /\ Hanging(put, q)}
           after == [q \in Cells |-> IF q \in falls THEN Air ELSE put[q]]
           tags  == [q \in Cells |-> IF after[q] = w.blocks[q] THEN w.tags[q] ELSE NoTag]
           new   == [w EXCEPT !.blocks = after, !.tags = tags]
<1>1. SetBlockState(w, p, state, flags) =
        IF p \notin Cells \/ Column(p) \notin w.loaded THEN w ELSE new
  BY Zenon DEF SetBlockState
<1>2. w.blocks \in [Cells -> States] /\ w.tags \in [Cells -> Tags] /\ NoTag \in Tags
  BY WorldStatesAre, WorldAssumption
<1>3. put \in [Cells -> States] /\ Air \in States
  BY <1>2, StatesTyped
<1> HIDE DEF put
<1>4. after \in [Cells -> States]
  BY <1>3
<1> HIDE DEF after
<1>5. tags \in [Cells -> Tags]
  BY <1>2
<1> HIDE DEF tags
<1>6. new \in WorldStates
  BY <1>4, <1>5, WorldStatesAre
<1> QED
  BY <1>1, <1>6, Zenon

LEMMA SetBlockEntityTyped ==
  ASSUME NEW w \in WorldStates, NEW p, NEW tag \in Tags
  PROVE  SetBlockEntity(w, p, tag) \in WorldStates
BY WorldStatesAre DEF SetBlockEntity

LEMMA PlaceOneTyped ==
  ASSUME NEW w \in WorldStates, NEW r, NEW o, NEW edit
  PROVE  PlaceOne(w, r, o, edit) \in WorldStates
<1>1. Ensure(w, Column(edit.pos)) \in WorldStates
  BY EnsureTyped
<1>2. ServerState(o, edit.state) # NoState => ServerState(o, edit.state) \in States
  BY ServerStateTyped
<1>3. ASSUME NEW f, ServerState(o, edit.state) # NoState
      PROVE  SetBlockState(Ensure(w, Column(edit.pos)), edit.pos, ServerState(o, edit.state), f)
               \in WorldStates
  BY <1>1, <1>2, <1>3, SetBlockStateTyped
<1> QED
  BY <1>3, Zenon DEF PlaceOne

\* f is the recursive function of a fold, with the types that its equation needs.
Solves(f, A, B, R, base, q) ==
  /\ f = [i \in SUBSET DOMAIN q |-> f[i]]
  /\ f[{}] = base
  /\ \A i \in SUBSET DOMAIN q : i # {} =>
       /\ f[i \ {Max(i)}] \in A /\ q[Max(i)] \in B
       /\ f[i] = R[<<f[i \ {Max(i)}], q[Max(i)]>>]

LEMMA LastTyped ==
  ASSUME NEW B, NEW q \in Seq(B), NEW i \in SUBSET DOMAIN q, i # {}
  PROVE  q[Max(i)] \in B
<1>1. Len(q) \in Nat /\ DOMAIN q = 1 .. Len(q) /\ \A k \in 1 .. Len(q) : q[k] \in B
  OBVIOUS
<1>2. Max(i) \in i
  BY <1>1, MaxOf
<1> QED
  BY <1>1, <1>2, Zenon

LEMMA FoldSolves ==
  ASSUME NEW A, NEW B, NEW R \in [A \X B -> A], NEW base \in A, NEW q \in Seq(B)
  PROVE  \E f : Solves(f, A, B, R, base, q)
<1>1. PICK f \in [SUBSET (1 .. Len(q)) -> A] : IsFold(f, Len(q), R, base, q)
  BY FoldExists
<1>2. Len(q) \in Nat /\ DOMAIN q = 1 .. Len(q)
  OBVIOUS
<1>3. f = [i \in SUBSET DOMAIN q |-> f[i]]
  BY <1>1, <1>2
<1>4. f[{}] = base
  BY <1>1, Zenon DEF IsFold
<1>5. ASSUME NEW i \in SUBSET DOMAIN q, i # {}
      PROVE  /\ f[i \ {Max(i)}] \in A /\ q[Max(i)] \in B
             /\ f[i] = R[<<f[i \ {Max(i)}], q[Max(i)]>>]
  <2>1. i \ {Max(i)} \in SUBSET DOMAIN q
    OBVIOUS
  <2>2. f[i \ {Max(i)}] \in A
    BY <1>1, <1>2, <2>1
  <2>3. f[i] = R[<<f[i \ {Max(i)}], q[Max(i)]>>]
    BY <1>1, <1>2, <1>5, Zenon DEF IsFold
  <2> QED
    BY <1>5, <2>2, <2>3, LastTyped
<1> QED
  BY <1>3, <1>4, <1>5, Zenon DEF Solves

\* The worlds that a request of blocks passes through, one by one.
BlockByBlock(h, w, r, o) ==
  /\ h \in [0 .. Len(r.blocks) -> WorldStates] /\ h[0] = w
  /\ \A k \in 1 .. Len(r.blocks) : h[k] = PlaceOne(h[k - 1], r, o, r.blocks[k])

LEMMA BlocksArePlaced ==
  ASSUME NEW w \in WorldStates, NEW r, NEW o, r.blocks \in Seq([pos: Positions, state: Nat])
  PROVE  \E h : /\ BlockByBlock(h, w, r, o)
                /\ SetBlock(w, r, o) =
                     IF ~ListsFit(r) \/ ~HasPerm(BUILD_PLACE) THEN w ELSE h[Len(r.blocks)]
<1> DEFINE B  == [pos: Positions, state: Nat]
           q  == r.blocks
           R  == [p \in WorldStates \X B |-> PlaceOne(p[1], r, o, p[2])]
           it == CHOOSE g : g = [i \in SUBSET DOMAIN q |->
                   IF i = {} THEN w ELSE PlaceOne(g[i \ {Max(i)}], r, o, q[Max(i)])]
<1>1. R \in [WorldStates \X B -> WorldStates]
  BY PlaceOneTyped
<1>2. \A a \in WorldStates, b \in B : R[<<a, b>>] = PlaceOne(a, r, o, b)
  OBVIOUS
<1> HIDE DEF R
<1>3. q \in Seq(B)
  OBVIOUS
<1> HIDE DEF B, q
<1>4. \E f : f = [i \in SUBSET DOMAIN q |->
                    IF i = {} THEN w ELSE PlaceOne(f[i \ {Max(i)}], r, o, q[Max(i)])]
  <2>1. PICK f : Solves(f, WorldStates, B, R, w, q)
    BY <1>1, <1>3, FoldSolves
  <2>2. \A i \in SUBSET DOMAIN q :
          f[i] = IF i = {} THEN w ELSE PlaceOne(f[i \ {Max(i)}], r, o, q[Max(i)])
    BY <1>2, <2>1, Zenon DEF Solves
  <2> QED
    BY <2>1, <2>2, Zenon DEF Solves
<1>5. it = [i \in SUBSET DOMAIN q |->
              IF i = {} THEN w ELSE PlaceOne(it[i \ {Max(i)}], r, o, q[Max(i)])]
  BY <1>4, Zenon
<1>6. FoldLeft(LAMBDA acc, edit : PlaceOne(acc, r, o, edit), w, q) = it[DOMAIN q]
  BY Zenon DEF FoldLeft, MapThenFoldSet
<1> HIDE DEF it
<1>7. Computes(it, WorldStates, R, w, q)
  <2>1. it[{}] = w
    BY <1>5
  <2>2. ASSUME NEW i \in SUBSET DOMAIN q, i # {}, it[i \ {Max(i)}] \in WorldStates
        PROVE  it[i] = R[<<it[i \ {Max(i)}], q[Max(i)]>>]
    <3>1. it[i] = PlaceOne(it[i \ {Max(i)}], r, o, q[Max(i)])
      BY <1>5, <2>2, Zenon
    <3>2. q[Max(i)] \in B
      BY <1>3, <2>2, LastTyped
    <3> QED
      BY <1>2, <2>2, <3>1, <3>2, Zenon
  <2> QED
    BY <2>1, <2>2, Zenon DEF Computes
<1>8. PICK h \in [0 .. Len(q) -> WorldStates] : Passes(h, R, w, q) /\ Concludes(h, it, q)
  BY <1>1, <1>3, <1>7, FoldRuns
<1>9. Len(q) \in Nat /\ \A k \in 1 .. Len(q) : q[k] \in B
  BY <1>3
<1>10. ASSUME NEW k \in 1 .. Len(q) PROVE h[k] = PlaceOne(h[k - 1], r, o, q[k])
  <2>1. k - 1 \in 0 .. Len(q)
    BY <1>9
  <2>2. h[k - 1] \in WorldStates /\ h[k] = R[<<h[k - 1], q[k]>>] /\ q[k] \in B
    BY <1>8, <1>9, <2>1 DEF Passes
  <2> QED
    BY <1>2, <2>2, Zenon
<1>11. BlockByBlock(h, w, r, o)
  BY <1>8, <1>10 DEF BlockByBlock, Passes, q
<1>12. h[Len(q)] = it[DOMAIN q]
  BY <1>8 DEF Concludes
<1>13. SetBlock(w, r, o) = IF ~ListsFit(r) \/ ~HasPerm(BUILD_PLACE) THEN w ELSE h[Len(q)]
  BY <1>6, <1>12, Zenon DEF SetBlock, q
<1> QED
  BY <1>11, <1>13 DEF q

LEMMA SetBlockTyped ==
  ASSUME NEW w \in WorldStates, NEW r, NEW o, r.blocks \in Seq([pos: Positions, state: Nat])
  PROVE  SetBlock(w, r, o) \in WorldStates
<1>1. PICK h : /\ BlockByBlock(h, w, r, o)
               /\ SetBlock(w, r, o) =
                    IF ~ListsFit(r) \/ ~HasPerm(BUILD_PLACE) THEN w ELSE h[Len(r.blocks)]
  BY BlocksArePlaced
<1>2. Len(r.blocks) \in 0 .. Len(r.blocks)
  OBVIOUS
<1> QED
  BY <1>1, <1>2 DEF BlockByBlock

\* Budgeted worlds, for the folds of a buffer.
Budgeted == [world: WorldStates, left: Int]
EntityOnWire == [offset: Nat, size: Nat, dictionary: Nat, tag: Tags]
SectionOnWire == [key: Int, data: [bits: Nat, palette: Seq(Nat), words: Seq(Nat)],
                  entities: SUBSET EntityOnWire]

LEMMA ApplyBlockEntityTyped ==
  ASSUME NEW acc \in Budgeted, NEW p, NEW e \in EntityOnWire
  PROVE  ApplyBlockEntity(acc, p, e) \in Budgeted
<1>1. acc.world \in WorldStates /\ acc.left \in Int /\ e.tag \in Tags /\ e.size \in Nat
  BY DEF Budgeted, EntityOnWire
<1>2. SetBlockEntity(acc.world, p, e.tag) \in WorldStates
  BY <1>1, SetBlockEntityTyped
<1> DEFINE new == [world |-> SetBlockEntity(acc.world, p, e.tag), left |-> acc.left - e.size]
<1>3. new \in Budgeted
  BY <1>1, <1>2 DEF Budgeted
<1> QED
  BY <1>3, Zenon DEF ApplyBlockEntity

LEMMA VisitTyped ==
  ASSUME NEW acc \in Budgeted, NEW key, NEW entries, NEW carried \in SUBSET EntityOnWire,
         NEW o, NEW old0
  PROVE  Visit(acc, key, entries, carried, o, old0) \in Budgeted
<1> DEFINE state == ServerState(old0, entries[IndexOf(o[1], o[2], o[3])])
           p     == CellIn(key, o)
           w     == SetBlockState(acc.world, p, state, PlacementFlags(FALSE))
           put   == [acc EXCEPT !.world = w]
           found == {e \in carried : e.offset = EntityOffset(o)}
<1>1. Visit(acc, key, entries, carried, o, old0) =
        IF state \in {NoState, VoidAir} THEN acc
        ELSE IF found = {} THEN put
        ELSE ApplyBlockEntity(put, p, CHOOSE e \in found : TRUE)
  BY Zenon DEF Visit
<1>2. state \in States \cup {NoState}
  BY ServerStateTyped
<1>3. acc.world \in WorldStates
  BY DEF Budgeted
<1> HIDE DEF state
<1>4. state # NoState => w \in WorldStates
  BY <1>2, <1>3, SetBlockStateTyped
<1> HIDE DEF w
<1>5. state # NoState => put \in Budgeted
  BY <1>4 DEF Budgeted
<1>6. found # {} => (CHOOSE e \in found : TRUE) \in EntityOnWire
  OBVIOUS
<1> HIDE DEF put, found, p
<1>7. state # NoState /\ found # {} =>
        ApplyBlockEntity(put, p, CHOOSE e \in found : TRUE) \in Budgeted
  BY <1>5, <1>6, ApplyBlockEntityTyped
<1> QED
  BY <1>1, <1>5, <1>7, Zenon

LEMMA VisitsTyped == Visits \in Seq({Visits[i] : i \in 1..Volume})
<1>1. Volume \in Nat
  BY SectionsAssumption DEF Volume
<1> DEFINE At(i) == LET n == i - 1 IN <<n % Side, n \div Side^2, (n \div Side) % Side>>
<1>2. Visits = [i \in 1..Volume |-> At(i)]
  BY Zenon DEF Visits
<1> HIDE DEF At
<1>3. \A i \in 1..Volume : Visits[i] = At(i)
  BY <1>2, Zenon
<1> QED
  BY <1>1, <1>2, <1>3

LEMMA ApplySectionTyped ==
  ASSUME NEW acc \in Budgeted, NEW s \in SectionOnWire, NEW o
  PROVE  ApplySection(acc, s, o) \in Budgeted
<1> DEFINE key      == UnpackBlockPos(s.key)
           entries  == ReadSection(s.data)
           carried == IF HasPerm(BUILD_NBT) THEN s.entities ELSE {}
           B  == {Visits[i] : i \in 1..Volume}
           q  == Visits
           base == [acc EXCEPT !.world = Ensure(acc.world, <<key[1], key[3]>>)]
           R  == [p \in Budgeted \X B |-> Visit(p[1], key, entries, carried, p[2], o)]
           it == CHOOSE g : g = [i \in SUBSET DOMAIN q |->
                   IF i = {} THEN base
                   ELSE Visit(g[i \ {Max(i)}], key, entries, carried, q[Max(i)], o)]
<1>0. base \in Budgeted
  <2>1. acc.world \in WorldStates
    BY DEF Budgeted
  <2>2. Ensure(acc.world, <<key[1], key[3]>>) \in WorldStates
    BY <2>1, EnsureTyped
  <2> QED
    BY <2>2 DEF Budgeted
<1>3. q \in Seq(B)
  BY VisitsTyped
<1>9. carried \in SUBSET EntityOnWire
  BY DEF SectionOnWire
<1>10. ApplySection(acc, s, o) =
         FoldLeft(LAMBDA a, c : Visit(a, key, entries, carried, c, o), base, q)
  BY Zenon DEF ApplySection
<1> HIDE DEF key, entries, carried
<1>1. R \in [Budgeted \X B -> Budgeted]
  BY <1>9, VisitTyped
<1>2. \A a \in Budgeted, b \in B : R[<<a, b>>] = Visit(a, key, entries, carried, b, o)
  OBVIOUS
<1> HIDE DEF R, B, q, base
<1>4. \E f : f = [i \in SUBSET DOMAIN q |->
                    IF i = {} THEN base
                    ELSE Visit(f[i \ {Max(i)}], key, entries, carried, q[Max(i)], o)]
  <2>1. PICK f : Solves(f, Budgeted, B, R, base, q)
    BY <1>0, <1>1, <1>3, FoldSolves
  <2>2. \A i \in SUBSET DOMAIN q :
          f[i] = IF i = {} THEN base
                 ELSE Visit(f[i \ {Max(i)}], key, entries, carried, q[Max(i)], o)
    BY <1>2, <2>1, Zenon DEF Solves
  <2> QED
    BY <2>1, <2>2, Zenon DEF Solves
<1>5. it = [i \in SUBSET DOMAIN q |->
              IF i = {} THEN base
              ELSE Visit(it[i \ {Max(i)}], key, entries, carried, q[Max(i)], o)]
  BY <1>4, Zenon
<1>6. FoldLeft(LAMBDA a, c : Visit(a, key, entries, carried, c, o), base, q) = it[DOMAIN q]
  BY Zenon DEF FoldLeft, MapThenFoldSet
<1> HIDE DEF it
<1>7. Computes(it, Budgeted, R, base, q)
  <2>1. it[{}] = base
    BY <1>5
  <2>2. ASSUME NEW i \in SUBSET DOMAIN q, i # {}, it[i \ {Max(i)}] \in Budgeted
        PROVE  it[i] = R[<<it[i \ {Max(i)}], q[Max(i)]>>]
    <3>1. it[i] = Visit(it[i \ {Max(i)}], key, entries, carried, q[Max(i)], o)
      BY <1>5, <2>2, Zenon
    <3>2. q[Max(i)] \in B
      BY <1>3, <2>2, LastTyped
    <3> QED
      BY <1>2, <2>2, <3>1, <3>2, Zenon
  <2> QED
    BY <2>1, <2>2, Zenon DEF Computes
<1>8. it[DOMAIN q] \in Budgeted
  BY <1>0, <1>1, <1>3, <1>7, FoldStays
<1> QED
  BY <1>6, <1>8, <1>10, Zenon

\* The sections that are read are the first so many.
LEMMA LegibleTyped ==
  ASSUME NEW r, NEW S, r.sections \in Seq(S)
  PROVE  SubSeq(r.sections, 1, Legible(r)) \in Seq(S)
<1> DEFINE q == r.sections
           Good(k) == q[k].key # MinPositionLong /\ Readable(q[k].data)
           T == {n \in Nat : n <= Len(q) /\ (n = Len(q) \/ ~Good(n + 1))}
           Fits(n) == (\A k \in 1..n : Good(k)) /\ (n = Len(q) \/ ~Good(n + 1))
<1>1. Len(q) \in Nat
  OBVIOUS
<1>2. T \in SUBSET Nat /\ Len(q) \in T
  BY <1>1
<1>3. PICK n \in T : \A m \in T : n <= m
  <2> HIDE DEF T
  <2> QED
    BY <1>2, LeastNat
<1>4. n \in 0..Len(q) /\ (n = Len(q) \/ ~Good(n + 1))
  BY <1>1, <1>3
<1>5. ASSUME NEW k \in 1..n PROVE Good(k)
  <2>1. k - 1 \in Nat /\ k - 1 <= Len(q) /\ k - 1 + 1 = k /\ ~(n <= k - 1)
    BY <1>1, <1>3, <1>4
  <2>2. k - 1 \notin T
    BY <1>3, <2>1
  <2> HIDE DEF Good
  <2> QED
    BY <2>1, <2>2
<1>6. Fits(n)
  BY <1>4, <1>5, Zenon
<1>7. Legible(r) = CHOOSE m \in 0..Len(q) : Fits(m)
  BY Zenon DEF Legible
<1> HIDE DEF Fits
<1>8. Legible(r) \in 0..Len(q)
  BY <1>4, <1>6, <1>7, Zenon
<1> HIDE DEF q
<1>9. q \in Seq(S)
  BY DEF q
<1>10. SubSeq(q, 1, Legible(r)) \in Seq(S)
  BY <1>1, <1>8, <1>9
<1> QED
  BY <1>10 DEF q

LEMMA SetBufferTyped ==
  ASSUME NEW w \in WorldStates, NEW r, NEW o, r.sections \in Seq(SectionOnWire)
  PROVE  SetBuffer(w, r, o) \in WorldStates
<1> DEFINE B  == SectionOnWire
           q  == SubSeq(r.sections, 1, Legible(r))
           base == [world |-> w, left |-> MaxNbt]
           R  == [p \in Budgeted \X B |-> ApplySection(p[1], p[2], o)]
           it == CHOOSE g : g = [i \in SUBSET DOMAIN q |->
                   IF i = {} THEN base
                   ELSE ApplySection(g[i \ {Max(i)}], q[Max(i)], o)]
<1>0. base \in Budgeted
  BY BlockEditsAssumption DEF Budgeted
<1>3. q \in Seq(B)
  BY LegibleTyped
<1>10. SetBuffer(w, r, o) = FoldLeft(LAMBDA acc, s : ApplySection(acc, s, o), base, q).world
  BY Zenon DEF SetBuffer
<1>1. R \in [Budgeted \X B -> Budgeted]
  BY ApplySectionTyped
<1>2. \A a \in Budgeted, b \in B : R[<<a, b>>] = ApplySection(a, b, o)
  OBVIOUS
<1> HIDE DEF R, B, q, base
<1>4. \E f : f = [i \in SUBSET DOMAIN q |->
                    IF i = {} THEN base
                    ELSE ApplySection(f[i \ {Max(i)}], q[Max(i)], o)]
  <2>1. PICK f : Solves(f, Budgeted, B, R, base, q)
    BY <1>0, <1>1, <1>3, FoldSolves
  <2>2. \A i \in SUBSET DOMAIN q :
          f[i] = IF i = {} THEN base
                 ELSE ApplySection(f[i \ {Max(i)}], q[Max(i)], o)
    BY <1>2, <2>1, Zenon DEF Solves
  <2> QED
    BY <2>1, <2>2, Zenon DEF Solves
<1>5. it = [i \in SUBSET DOMAIN q |->
              IF i = {} THEN base
              ELSE ApplySection(it[i \ {Max(i)}], q[Max(i)], o)]
  BY <1>4, Zenon
<1>6. FoldLeft(LAMBDA acc, s : ApplySection(acc, s, o), base, q) = it[DOMAIN q]
  BY Zenon DEF FoldLeft, MapThenFoldSet
<1> HIDE DEF it
<1>7. Computes(it, Budgeted, R, base, q)
  <2>1. it[{}] = base
    BY <1>5
  <2>2. ASSUME NEW i \in SUBSET DOMAIN q, i # {}, it[i \ {Max(i)}] \in Budgeted
        PROVE  it[i] = R[<<it[i \ {Max(i)}], q[Max(i)]>>]
    <3>1. it[i] = ApplySection(it[i \ {Max(i)}], q[Max(i)], o)
      BY <1>5, <2>2, Zenon
    <3>2. q[Max(i)] \in B
      BY <1>3, <2>2, LastTyped
    <3> QED
      BY <1>2, <2>2, <3>1, <3>2, Zenon
  <2> QED
    BY <2>1, <2>2, Zenon DEF Computes
<1>8. it[DOMAIN q] \in Budgeted
  BY <1>0, <1>1, <1>3, <1>7, FoldStays
<1> QED
  <2>1. it[DOMAIN q].world \in WorldStates
    BY <1>8 DEF Budgeted
  <2> QED
    BY <1>6, <1>10, <2>1, Zenon

\* A box is finite, and so is every set of cells of a section.
LEMMA BoxesAreFinite ==
  ASSUME NEW A, NEW B, NEW C, IsFiniteSet(A), IsFiniteSet(B), IsFiniteSet(C)
  PROVE  IsFiniteSet(A \X B \X C)
<1> DEFINE f == [p \in (A \X B) \X C |-> <<p[1][1], p[1][2], p[2]>>]
<1>1. IsFiniteSet((A \X B) \X C)
  <2>1. IsFiniteSet(A \X B)
    BY FS_Product
  <2> QED
    BY <2>1, FS_Product
<1>2. f \in [(A \X B) \X C -> A \X B \X C]
  OBVIOUS
<1>3. ASSUME NEW t \in A \X B \X C PROVE \E p \in (A \X B) \X C : f[p] = t
  <2>1. << <<t[1], t[2]>>, t[3] >> \in (A \X B) \X C
    OBVIOUS
  <2>2. f[<< <<t[1], t[2]>>, t[3] >>] = t
    BY <2>1
  <2> HIDE DEF f
  <2> QED
    BY <2>1, <2>2
<1> HIDE DEF f
<1>4. f \in Surjection((A \X B) \X C, A \X B \X C)
  BY <1>2, <1>3 DEF Surjection
<1> QED
  BY <1>1, <1>4, FS_Surjection

LEMMA CubeIsFinite == IsFiniteSet(Cube)
<1>1. 0 \in Int /\ Side - 1 \in Int
  BY SectionsAssumption
<1>2. IsFiniteSet(0..Side - 1)
  BY <1>1, FS_Interval
<1> QED
  BY <1>2, BoxesAreFinite DEF Cube

LEMMA ElementTyped ==
  ASSUME NEW S, NEW q \in Seq(S), NEW k \in DOMAIN q
  PROVE  q[k] \in S
OBVIOUS

LEMMA FunctionTyped ==
  ASSUME NEW S, NEW n \in Nat, NEW f \in [1..n -> S]
  PROVE  f \in Seq(S)
OBVIOUS

LEMMA IndexedTyped ==
  ASSUME NEW n \in Nat, NEW f, f = [i \in 1..n |-> f[i]]
  PROVE  f \in Seq(Range(f))
<1>1. f \in [1..n -> Range(f)]
  BY DEF Range
<1> HIDE DEF Range
<1> QED
  BY <1>1, FunctionTyped

\* Whatever a tick request selects is a sequence, and what is kept of it as well.
LEMMA RowsTyped ==
  ASSUME NEW r, r.rows \in Seq([key: Int, set: SUBSET Cube]), r.shape = "set"
  PROVE  \E X : Selected(r) \in Seq(X)
<1> DEFINE Row(k) == [i \in 1..Cardinality(r.rows[k].set) |->
                        CellIn(UnpackBlockPos(r.rows[k].key),
                               InOrder([o \in r.rows[k].set |-> InRowOrder(o)])[i])]
           rows == [k \in DOMAIN r.rows |-> Row(k)]
           X == UNION {Range(rows[k]) : k \in DOMAIN rows}
<1>1. Selected(r) = FlattenSeq(rows)
  BY Zenon DEF Selected
<1>2. DOMAIN rows = 1..Len(r.rows) /\ Len(r.rows) \in Nat
  OBVIOUS
<1>3. ASSUME NEW k \in DOMAIN r.rows PROVE rows[k] \in Seq(Range(rows[k]))
  <2>1. r.rows[k].set \in SUBSET Cube
    <3>1. r.rows[k] \in [key: Int, set: SUBSET Cube]
      BY ElementTyped
    <3> QED
      BY <3>1
  <2>2. Cardinality(r.rows[k].set) \in Nat
    BY <2>1, CubeIsFinite, FS_Subset, FS_CardinalityType
  <2> DEFINE n == Cardinality(r.rows[k].set)
             F(i) == CellIn(UnpackBlockPos(r.rows[k].key),
                            InOrder([o \in r.rows[k].set |-> InRowOrder(o)])[i])
  <2>3. rows[k] = [i \in 1..n |-> F(i)]
    BY Zenon
  <2> HIDE DEF F, n, rows
  <2>4. n \in Nat
    BY <2>2 DEF n
  <2>5. rows[k] = [i \in 1..n |-> rows[k][i]]
    BY <2>3
  <2> QED
    BY <2>4, <2>5, IndexedTyped
<1> HIDE DEF Row
<1>4. \A k \in DOMAIN rows : rows[k] \in Seq(X)
  <2>1. ASSUME NEW k \in DOMAIN rows PROVE rows[k] \in Seq(X)
    <3> HIDE DEF rows
    <3>1. Range(rows[k]) \subseteq X
      BY <2>1
    <3>2. rows[k] \in Seq(Range(rows[k]))
      BY <1>2, <1>3, <2>1
    <3> HIDE DEF X
    <3> QED
      BY <3>1, <3>2
  <2> QED
    BY <2>1
<1>5. rows \in Seq(Seq(X))
  <2> HIDE DEF X
  <2>1. rows \in [1..Len(r.rows) -> Seq(X)]
    BY <1>2, <1>4
  <2> HIDE DEF rows
  <2> QED
    BY <1>2, <2>1, FunctionTyped
<1> HIDE DEF rows, X
<1>6. FlattenSeq(rows) \in Seq(X)
  <2>1. PICK h \in [0 .. Len(rows) -> Seq(X)] : Flattens(h, rows) /\ FlattenSeq(rows) = h[Len(rows)]
    BY <1>5, JoinRuns
  <2>2. Len(rows) \in 0 .. Len(rows)
    BY <1>5
  <2> QED
    BY <2>1, <2>2
<1> QED
  BY <1>1, <1>6

LEMMA BoxTyped ==
  ASSUME NEW r, r.a \in Positions, r.b \in Positions, r.shape = "box"
  PROVE  \E X : Selected(r) \in Seq(X)
<1> DEFINE low(i)  == AtMost(r.a[i], r.b[i])
           high(i) == AtLeast(r.a[i], r.b[i])
           box  == (low(1)..high(1)) \X (low(2)..high(2)) \X (low(3)..high(3))
           rank == [p \in box |-> (p[1] * 1000 + p[2]) * 1000 + p[3]]
           F(k) == CHOOSE x \in DOMAIN rank :
                     Cardinality({y \in DOMAIN rank : rank[y] < rank[x]}) = k - 1
<1>1. Selected(r) = InOrder(rank)
  BY Zenon DEF Selected
<1>2. \A i \in {1, 2, 3} : low(i) \in Int /\ high(i) \in Int
  BY DEF Positions, AtMost, AtLeast
<1>3. IsFiniteSet(box)
  <2> HIDE DEF low, high
  <2>1. \A i \in {1, 2, 3} : IsFiniteSet(low(i)..high(i))
    BY <1>2, FS_Interval
  <2> QED
    BY <2>1, BoxesAreFinite
<1>4. DOMAIN rank = box
  BY Zenon
<1> HIDE DEF box
<1>5. InOrder(rank) = [k \in 1..Cardinality(DOMAIN rank) |-> F(k)]
  BY Zenon DEF InOrder
<1> HIDE DEF rank, F
<1>6. Cardinality(DOMAIN rank) \in Nat
  BY <1>3, <1>4, FS_CardinalityType
<1>7. InOrder(rank) \in Seq(Range(InOrder(rank)))
  BY <1>5, <1>6 DEF Range
<1> QED
  BY <1>1, <1>7

TickRequest(r) ==
  \/ r.shape = "set" /\ r.rows \in Seq([key: Int, set: SUBSET Cube])
  \/ r.shape = "box" /\ r.a \in Positions /\ r.b \in Positions

LEMMA KeptTyped ==
  ASSUME NEW r, TickRequest(r)
  PROVE  \E X : Kept(r) \in Seq(X)
<1>1. PICK X : Selected(r) \in Seq(X)
  BY RowsTyped, BoxTyped DEF TickRequest
<1> DEFINE s == Selected(r)
           n == AtMost(Len(s), MaxTicked)
<1>2. Len(s) \in Nat /\ MaxTicked \in Nat
  BY <1>1, BlockEditsAssumption
<1>3. n \in 0..Len(s)
  BY <1>2 DEF AtMost
<1> HIDE DEF s, n
<1>4. SubSeq(s, 1, n) \in Seq(X)
  BY <1>1, <1>3 DEF s
<1> QED
  BY <1>4 DEF Kept, s, n

LEMMA TickOneTyped ==
  ASSUME NEW w \in WorldStates, NEW p
  PROVE  TickOne(w, p) \in WorldStates
<1>1. p \in Cells => w.blocks[p] \in States
  BY WorldStatesAre
<1>2. p \in Cells => SetBlockState(w, p, w.blocks[p], {"notify neighbors", "notify listeners", "force"})
                       \in WorldStates
  BY <1>1, SetBlockStateTyped
<1> QED
  BY <1>2, Zenon DEF TickOne

LEMMA TickBlocksTyped ==
  ASSUME NEW w \in WorldStates, NEW r, TickRequest(r)
  PROVE  TickBlocks(w, r) \in WorldStates
<1>a. PICK B : Kept(r) \in Seq(B)
  BY KeptTyped
<1> DEFINE q  == Kept(r)
           base == w
           R  == [p \in WorldStates \X B |-> TickOne(p[1], p[2])]
           it == CHOOSE g : g = [i \in SUBSET DOMAIN q |->
                   IF i = {} THEN base
                   ELSE TickOne(g[i \ {Max(i)}], q[Max(i)])]
<1>0. base \in WorldStates
  OBVIOUS
<1>3. q \in Seq(B)
  BY <1>a
<1>10. TickBlocks(w, r) = FoldLeft(TickOne, base, q)
  BY Zenon DEF TickBlocks
<1>1. R \in [WorldStates \X B -> WorldStates]
  BY TickOneTyped
<1>2. \A a \in WorldStates, b \in B : R[<<a, b>>] = TickOne(a, b)
  OBVIOUS
<1> HIDE DEF R, q, base
<1>4. \E f : f = [i \in SUBSET DOMAIN q |->
                    IF i = {} THEN base
                    ELSE TickOne(f[i \ {Max(i)}], q[Max(i)])]
  <2>1. PICK f : Solves(f, WorldStates, B, R, base, q)
    BY <1>0, <1>1, <1>3, FoldSolves
  <2>2. \A i \in SUBSET DOMAIN q :
          f[i] = IF i = {} THEN base
                 ELSE TickOne(f[i \ {Max(i)}], q[Max(i)])
    BY <1>2, <2>1, Zenon DEF Solves
  <2> QED
    BY <2>1, <2>2, Zenon DEF Solves
<1>5. it = [i \in SUBSET DOMAIN q |->
              IF i = {} THEN base
              ELSE TickOne(it[i \ {Max(i)}], q[Max(i)])]
  BY <1>4, Zenon
<1>6. FoldLeft(TickOne, base, q) = it[DOMAIN q]
  BY Zenon DEF FoldLeft, MapThenFoldSet
<1> HIDE DEF it
<1>7. Computes(it, WorldStates, R, base, q)
  <2>1. it[{}] = base
    BY <1>5
  <2>2. ASSUME NEW i \in SUBSET DOMAIN q, i # {}, it[i \ {Max(i)}] \in WorldStates
        PROVE  it[i] = R[<<it[i \ {Max(i)}], q[Max(i)]>>]
    <3>1. it[i] = TickOne(it[i \ {Max(i)}], q[Max(i)])
      BY <1>5, <2>2, Zenon
    <3>2. q[Max(i)] \in B
      BY <1>3, <2>2, LastTyped
    <3> QED
      BY <1>2, <2>2, <3>1, <3>2, Zenon
  <2> QED
    BY <2>1, <2>2, Zenon DEF Computes
<1>8. it[DOMAIN q] \in WorldStates
  BY <1>0, <1>1, <1>3, <1>7, FoldStays
<1> QED
  BY <1>6, <1>8, <1>10, Zenon

LEMMA SetBiomeTyped ==
  ASSUME NEW w \in WorldStates, NEW p, NEW biome \in Range(BiomeNames)
  PROVE  SetBiome(w, p, biome) \in WorldStates
<1> DEFINE loaded == w.loaded \cup ({TouchedChunk(p)} \cap {ChunkOf(q) : q \in BiomeCells})
           there  == LoadChunkOf(w, p)
           biomes == IF p \in BiomeCells /\ ChunkOf(p) \in there.loaded
                     THEN [there.biomes EXCEPT ![p] = biome] ELSE there.biomes
<1>1. there = [w EXCEPT !.loaded = loaded]
  BY Zenon DEF LoadChunkOf
<1>2. loaded \in SUBSET Loadable
  BY WorldStatesAre DEF Loadable
<1> HIDE DEF loaded
<1>3. there \in WorldStates
  BY <1>1, <1>2, WorldStatesAre
<1>4. SetBiome(w, p, biome) = [there EXCEPT !.biomes = biomes]
  BY Zenon DEF SetBiome, WriteBiome
<1> HIDE DEF there
<1>5. biomes \in [BiomeCells -> Range(BiomeNames)]
  BY <1>3, WorldStatesAre
<1> HIDE DEF biomes
<1> QED
  BY <1>3, <1>4, <1>5, WorldStatesAre

\* One cell of a section, painted or not.
PaintCell(w, r, s, i) ==
  IF Paints(r, s.cells[i])
  THEN SetBiome(w, CellAt(UnpackBlockPos(s.key), i - 1), BiomeNames[r.palette[s.cells[i]]]) ELSE w

LEMMA PaintCellTyped ==
  ASSUME NEW w \in WorldStates, NEW r, NEW s, NEW i
  PROVE  PaintCell(w, r, s, i) \in WorldStates
<1>1. Paints(r, s.cells[i]) => BiomeNames[r.palette[s.cells[i]]] \in Range(BiomeNames)
  BY DEF Paints, Range
<1>2. Paints(r, s.cells[i]) =>
        SetBiome(w, CellAt(UnpackBlockPos(s.key), i - 1), BiomeNames[r.palette[s.cells[i]]])
          \in WorldStates
  BY <1>1, SetBiomeTyped
<1> QED
  BY <1>2, Zenon DEF PaintCell

LEMMA Naturally == BufferVolume \in Nat
BY BiomeEditsAssumption DEF BufferVolume

\* The worlds that painting a section passes through, cell by cell.
CellByCell(h, w, r, s) ==
  /\ h \in [0 .. BufferVolume -> WorldStates] /\ h[0] = w
  /\ \A k \in 1 .. BufferVolume : h[k] = PaintCell(h[k - 1], r, s, k)

LEMMA SectionIsPainted ==
  ASSUME NEW w \in WorldStates, NEW r, NEW s
  PROVE  \E h : CellByCell(h, w, r, s) /\ h[BufferVolume] = PaintSection(w, r, s)
<1> DEFINE B  == 1..BufferVolume
           q  == [i \in 1..BufferVolume |-> i]
           base == w
           R  == [p \in WorldStates \X B |-> PaintCell(p[1], r, s, p[2])]
           it == CHOOSE g : g = [i \in SUBSET DOMAIN q |->
                   IF i = {} THEN base
                   ELSE PaintCell(g[i \ {Max(i)}], r, s, q[Max(i)])]
<1>0. base \in WorldStates
  OBVIOUS
<1>3. q \in Seq(B)
  BY Naturally
<1>10. PaintSection(w, r, s) = FoldLeft(LAMBDA acc, i : PaintCell(acc, r, s, i), base, q)
  BY Zenon DEF PaintSection, PaintCell
<1>1. R \in [WorldStates \X B -> WorldStates]
  BY PaintCellTyped
<1>2. \A a \in WorldStates, b \in B : R[<<a, b>>] = PaintCell(a, r, s, b)
  OBVIOUS
<1> HIDE DEF R, B, q, base
<1>4. \E f : f = [i \in SUBSET DOMAIN q |->
                    IF i = {} THEN base
                    ELSE PaintCell(f[i \ {Max(i)}], r, s, q[Max(i)])]
  <2>1. PICK f : Solves(f, WorldStates, B, R, base, q)
    BY <1>0, <1>1, <1>3, FoldSolves
  <2>2. \A i \in SUBSET DOMAIN q :
          f[i] = IF i = {} THEN base
                 ELSE PaintCell(f[i \ {Max(i)}], r, s, q[Max(i)])
    BY <1>2, <2>1, Zenon DEF Solves
  <2> QED
    BY <2>1, <2>2, Zenon DEF Solves
<1>5. it = [i \in SUBSET DOMAIN q |->
              IF i = {} THEN base
              ELSE PaintCell(it[i \ {Max(i)}], r, s, q[Max(i)])]
  BY <1>4, Zenon
<1>6. FoldLeft(LAMBDA acc, i : PaintCell(acc, r, s, i), base, q) = it[DOMAIN q]
  BY Zenon DEF FoldLeft, MapThenFoldSet
<1> HIDE DEF it
<1>7. Computes(it, WorldStates, R, base, q)
  <2>1. it[{}] = base
    BY <1>5
  <2>2. ASSUME NEW i \in SUBSET DOMAIN q, i # {}, it[i \ {Max(i)}] \in WorldStates
        PROVE  it[i] = R[<<it[i \ {Max(i)}], q[Max(i)]>>]
    <3>1. it[i] = PaintCell(it[i \ {Max(i)}], r, s, q[Max(i)])
      BY <1>5, <2>2, Zenon
    <3>2. q[Max(i)] \in B
      BY <1>3, <2>2, LastTyped
    <3> QED
      BY <1>2, <2>2, <3>1, <3>2, Zenon
  <2> QED
    BY <2>1, <2>2, Zenon DEF Computes
<1>8. PICK h \in [0 .. Len(q) -> WorldStates] : Passes(h, R, base, q) /\ Concludes(h, it, q)
  BY <1>0, <1>1, <1>3, <1>7, FoldRuns
<1>9. Len(q) = BufferVolume /\ \A k \in 1 .. BufferVolume : q[k] = k /\ k \in B
  BY Naturally DEF q, B
<1>11. ASSUME NEW k \in 1 .. BufferVolume PROVE h[k] = PaintCell(h[k - 1], r, s, k)
  <2>1. k - 1 \in 0 .. Len(q)
    BY <1>9, Naturally
  <2>2. h[k - 1] \in WorldStates /\ h[k] = R[<<h[k - 1], q[k]>>]
    BY <1>8, <1>9, <2>1 DEF Passes
  <2> QED
    BY <1>2, <1>9, <2>2, Zenon
<1>12. CellByCell(h, w, r, s)
  BY <1>8, <1>9, <1>11 DEF CellByCell, Passes, base
<1>13. h[BufferVolume] = PaintSection(w, r, s)
  BY <1>6, <1>8, <1>9, <1>10, Zenon DEF Concludes
<1> QED
  BY <1>12, <1>13

LEMMA PaintSectionTyped ==
  ASSUME NEW w \in WorldStates, NEW r, NEW s
  PROVE  PaintSection(w, r, s) \in WorldStates
<1>1. PICK h : CellByCell(h, w, r, s) /\ h[BufferVolume] = PaintSection(w, r, s)
  BY SectionIsPainted
<1>2. BufferVolume \in 0 .. BufferVolume
  BY Naturally
<1> QED
  BY <1>1, <1>2 DEF CellByCell

LEMMA RefreshBiomesTyped ==
  ASSUME NEW w \in WorldStates, NEW chunks
  PROVE  RefreshBiomes(w, chunks) \in WorldStates
BY WorldStatesAre DEF RefreshBiomes

\* And those that painting a buffer does, section by section, before its refresh.
SectionBySection(h, w, r) ==
  /\ h \in [0 .. Len(r.sections) -> WorldStates] /\ h[0] = w
  /\ \A k \in 1 .. Len(r.sections) : h[k] = PaintSection(h[k - 1], r, r.sections[k])
AfterRefresh(w, r) == IF r.broken THEN w ELSE RefreshBiomes(w, Touched(r))

LEMMA BufferIsPainted ==
  ASSUME NEW w \in WorldStates, NEW r, r.sections \in Seq([key: Int, cells: Seq(Nat)])
  PROVE  \E h : /\ SectionBySection(h, w, r)
                /\ ApplyBiomeBuffer(w, r) = AfterRefresh(h[Len(r.sections)], r)
<1> DEFINE B  == [key: Int, cells: Seq(Nat)]
           q  == r.sections
           base == w
           R  == [p \in WorldStates \X B |-> PaintSection(p[1], r, p[2])]
           it == CHOOSE g : g = [i \in SUBSET DOMAIN q |->
                   IF i = {} THEN base
                   ELSE PaintSection(g[i \ {Max(i)}], r, q[Max(i)])]
<1>0. base \in WorldStates
  OBVIOUS
<1>3. q \in Seq(B)
  OBVIOUS
<1>10. ApplyBiomeBuffer(w, r) =
         LET painted == FoldLeft(LAMBDA acc, s : PaintSection(acc, r, s), base, q)
         IN IF r.broken THEN painted ELSE RefreshBiomes(painted, Touched(r))
  BY Zenon DEF ApplyBiomeBuffer
<1>1. R \in [WorldStates \X B -> WorldStates]
  BY PaintSectionTyped
<1>2. \A a \in WorldStates, b \in B : R[<<a, b>>] = PaintSection(a, r, b)
  OBVIOUS
<1> HIDE DEF R, B, q, base
<1>4. \E f : f = [i \in SUBSET DOMAIN q |->
                    IF i = {} THEN base
                    ELSE PaintSection(f[i \ {Max(i)}], r, q[Max(i)])]
  <2>1. PICK f : Solves(f, WorldStates, B, R, base, q)
    BY <1>0, <1>1, <1>3, FoldSolves
  <2>2. \A i \in SUBSET DOMAIN q :
          f[i] = IF i = {} THEN base
                 ELSE PaintSection(f[i \ {Max(i)}], r, q[Max(i)])
    BY <1>2, <2>1, Zenon DEF Solves
  <2> QED
    BY <2>1, <2>2, Zenon DEF Solves
<1>5. it = [i \in SUBSET DOMAIN q |->
              IF i = {} THEN base
              ELSE PaintSection(it[i \ {Max(i)}], r, q[Max(i)])]
  BY <1>4, Zenon
<1>6. FoldLeft(LAMBDA acc, s : PaintSection(acc, r, s), base, q) = it[DOMAIN q]
  BY Zenon DEF FoldLeft, MapThenFoldSet
<1> HIDE DEF it
<1>7. Computes(it, WorldStates, R, base, q)
  <2>1. it[{}] = base
    BY <1>5
  <2>2. ASSUME NEW i \in SUBSET DOMAIN q, i # {}, it[i \ {Max(i)}] \in WorldStates
        PROVE  it[i] = R[<<it[i \ {Max(i)}], q[Max(i)]>>]
    <3>1. it[i] = PaintSection(it[i \ {Max(i)}], r, q[Max(i)])
      BY <1>5, <2>2, Zenon
    <3>2. q[Max(i)] \in B
      BY <1>3, <2>2, LastTyped
    <3> QED
      BY <1>2, <2>2, <3>1, <3>2, Zenon
  <2> QED
    BY <2>1, <2>2, Zenon DEF Computes
<1>8. PICK h \in [0 .. Len(q) -> WorldStates] : Passes(h, R, base, q) /\ Concludes(h, it, q)
  BY <1>0, <1>1, <1>3, <1>7, FoldRuns
<1>9. Len(q) \in Nat /\ \A k \in 1 .. Len(q) : q[k] \in B
  BY <1>3
<1>11. ASSUME NEW k \in 1 .. Len(q) PROVE h[k] = PaintSection(h[k - 1], r, q[k])
  <2>1. k - 1 \in 0 .. Len(q)
    BY <1>9
  <2>2. h[k - 1] \in WorldStates /\ h[k] = R[<<h[k - 1], q[k]>>]
    BY <1>8, <2>1 DEF Passes
  <2> QED
    BY <1>2, <1>9, <2>2, Zenon
<1>12. SectionBySection(h, w, r)
  BY <1>8, <1>11 DEF SectionBySection, Passes, base, q
<1>13. ApplyBiomeBuffer(w, r) = AfterRefresh(h[Len(q)], r)
  BY <1>6, <1>8, <1>10, Zenon DEF Concludes, AfterRefresh
<1> QED
  BY <1>12, <1>13 DEF q

LEMMA ApplyBiomeBufferTyped ==
  ASSUME NEW w \in WorldStates, NEW r, r.sections \in Seq([key: Int, cells: Seq(Nat)])
  PROVE  ApplyBiomeBuffer(w, r) \in WorldStates
<1>1. PICK h : /\ SectionBySection(h, w, r)
               /\ ApplyBiomeBuffer(w, r) = AfterRefresh(h[Len(r.sections)], r)
  BY BufferIsPainted
<1>2. Len(r.sections) \in 0 .. Len(r.sections)
  OBVIOUS
<1>3. h[Len(r.sections)] \in WorldStates
  BY <1>1, <1>2 DEF SectionBySection
<1> QED
  BY <1>1, <1>3, RefreshBiomesTyped DEF AfterRefresh

LEMMA LoadPositionsTyped ==
  ASSUME NEW w \in WorldStates, NEW S, NEW s \in Seq(S)
  PROVE  FoldLeft(LAMBDA acc, pos : Ensure(acc, Column(UnpackBlockPos(pos))), w, s) \in WorldStates
<1> DEFINE B  == S
           q  == s
           base == w
           R  == [p \in WorldStates \X B |-> Ensure(p[1], Column(UnpackBlockPos(p[2])))]
           it == CHOOSE g : g = [i \in SUBSET DOMAIN q |->
                   IF i = {} THEN base
                   ELSE Ensure(g[i \ {Max(i)}], Column(UnpackBlockPos(q[Max(i)])))]
<1>0. base \in WorldStates
  OBVIOUS
<1>3. q \in Seq(B)
  OBVIOUS
<1>1. R \in [WorldStates \X B -> WorldStates]
  BY EnsureTyped
<1>2. \A a \in WorldStates, b \in B : R[<<a, b>>] = Ensure(a, Column(UnpackBlockPos(b)))
  OBVIOUS
<1> HIDE DEF R, B, q, base
<1>4. \E f : f = [i \in SUBSET DOMAIN q |->
                    IF i = {} THEN base
                    ELSE Ensure(f[i \ {Max(i)}], Column(UnpackBlockPos(q[Max(i)])))]
  <2>1. PICK f : Solves(f, WorldStates, B, R, base, q)
    BY <1>0, <1>1, <1>3, FoldSolves
  <2>2. \A i \in SUBSET DOMAIN q :
          f[i] = IF i = {} THEN base
                 ELSE Ensure(f[i \ {Max(i)}], Column(UnpackBlockPos(q[Max(i)])))
    BY <1>2, <2>1, Zenon DEF Solves
  <2> QED
    BY <2>1, <2>2, Zenon DEF Solves
<1>5. it = [i \in SUBSET DOMAIN q |->
              IF i = {} THEN base
              ELSE Ensure(it[i \ {Max(i)}], Column(UnpackBlockPos(q[Max(i)])))]
  BY <1>4, Zenon
<1>6. FoldLeft(LAMBDA acc, pos : Ensure(acc, Column(UnpackBlockPos(pos))), base, q) = it[DOMAIN q]
  BY Zenon DEF FoldLeft, MapThenFoldSet
<1> HIDE DEF it
<1>7. Computes(it, WorldStates, R, base, q)
  <2>1. it[{}] = base
    BY <1>5
  <2>2. ASSUME NEW i \in SUBSET DOMAIN q, i # {}, it[i \ {Max(i)}] \in WorldStates
        PROVE  it[i] = R[<<it[i \ {Max(i)}], q[Max(i)]>>]
    <3>1. it[i] = Ensure(it[i \ {Max(i)}], Column(UnpackBlockPos(q[Max(i)])))
      BY <1>5, <2>2, Zenon
    <3>2. q[Max(i)] \in B
      BY <1>3, <2>2, LastTyped
    <3> QED
      BY <1>2, <2>2, <3>1, <3>2, Zenon
  <2> QED
    BY <2>1, <2>2, Zenon DEF Computes
<1>8. it[DOMAIN q] \in WorldStates
  BY <1>0, <1>1, <1>3, <1>7, FoldStays
<1> QED
  BY <1>6, <1>8, Zenon DEF base, q

LEMMA LoadSectionsTyped ==
  ASSUME NEW w \in WorldStates, NEW S, NEW s \in Seq(S)
  PROVE  FoldLeft(LAMBDA acc, key : Ensure(acc, <<UnpackBlockPos(key)[1], UnpackBlockPos(key)[3]>>), w, s) \in WorldStates
<1> DEFINE B  == S
           q  == s
           base == w
           R  == [p \in WorldStates \X B |-> Ensure(p[1], <<UnpackBlockPos(p[2])[1], UnpackBlockPos(p[2])[3]>>)]
           it == CHOOSE g : g = [i \in SUBSET DOMAIN q |->
                   IF i = {} THEN base
                   ELSE Ensure(g[i \ {Max(i)}], <<UnpackBlockPos(q[Max(i)])[1], UnpackBlockPos(q[Max(i)])[3]>>)]
<1>0. base \in WorldStates
  OBVIOUS
<1>3. q \in Seq(B)
  OBVIOUS
<1>1. R \in [WorldStates \X B -> WorldStates]
  BY EnsureTyped
<1>2. \A a \in WorldStates, b \in B : R[<<a, b>>] = Ensure(a, <<UnpackBlockPos(b)[1], UnpackBlockPos(b)[3]>>)
  OBVIOUS
<1> HIDE DEF R, B, q, base
<1>4. \E f : f = [i \in SUBSET DOMAIN q |->
                    IF i = {} THEN base
                    ELSE Ensure(f[i \ {Max(i)}], <<UnpackBlockPos(q[Max(i)])[1], UnpackBlockPos(q[Max(i)])[3]>>)]
  <2>1. PICK f : Solves(f, WorldStates, B, R, base, q)
    BY <1>0, <1>1, <1>3, FoldSolves
  <2>2. \A i \in SUBSET DOMAIN q :
          f[i] = IF i = {} THEN base
                 ELSE Ensure(f[i \ {Max(i)}], <<UnpackBlockPos(q[Max(i)])[1], UnpackBlockPos(q[Max(i)])[3]>>)
    BY <1>2, <2>1, Zenon DEF Solves
  <2> QED
    BY <2>1, <2>2, Zenon DEF Solves
<1>5. it = [i \in SUBSET DOMAIN q |->
              IF i = {} THEN base
              ELSE Ensure(it[i \ {Max(i)}], <<UnpackBlockPos(q[Max(i)])[1], UnpackBlockPos(q[Max(i)])[3]>>)]
  BY <1>4, Zenon
<1>6. FoldLeft(LAMBDA acc, key : Ensure(acc, <<UnpackBlockPos(key)[1], UnpackBlockPos(key)[3]>>), base, q) = it[DOMAIN q]
  BY Zenon DEF FoldLeft, MapThenFoldSet
<1> HIDE DEF it
<1>7. Computes(it, WorldStates, R, base, q)
  <2>1. it[{}] = base
    BY <1>5
  <2>2. ASSUME NEW i \in SUBSET DOMAIN q, i # {}, it[i \ {Max(i)}] \in WorldStates
        PROVE  it[i] = R[<<it[i \ {Max(i)}], q[Max(i)]>>]
    <3>1. it[i] = Ensure(it[i \ {Max(i)}], <<UnpackBlockPos(q[Max(i)])[1], UnpackBlockPos(q[Max(i)])[3]>>)
      BY <1>5, <2>2, Zenon
    <3>2. q[Max(i)] \in B
      BY <1>3, <2>2, LastTyped
    <3> QED
      BY <1>2, <2>2, <3>1, <3>2, Zenon
  <2> QED
    BY <2>1, <2>2, Zenon DEF Computes
<1>8. it[DOMAIN q] \in WorldStates
  BY <1>0, <1>1, <1>3, <1>7, FoldStays
<1> QED
  BY <1>6, <1>8, Zenon DEF base, q


LEMMA LoadAskedTyped ==
  ASSUME NEW w \in WorldStates, NEW r, r.keys \in Seq(Int), r.positions \in Seq(Int)
  PROVE  LoadAsked(w, r) \in WorldStates
<1> DEFINE loaded == FoldLeft(LAMBDA acc, pos : Ensure(acc, Column(UnpackBlockPos(pos))), w, AskedEntities(r))
<1>1. AskedEntities(r) \in Seq(Int)
  BY DEF AskedEntities
<1>2. AskedSections(r) \in Seq(Int)
  <2> DEFINE s == r.keys
             n == AtMost(Len(s), MaxSections)
  <2>1. s \in Seq(Int) /\ Len(s) \in Nat /\ MaxSections \in Nat
    BY BlockEditsAssumption
  <2> HIDE DEF s
  <2>2. n \in 0..Len(s)
    BY <2>1 DEF AtMost
  <2> HIDE DEF n
  <2>3. SubSeq(s, 1, n) \in Seq(Int)
    BY <2>1, <2>2
  <2> QED
    BY <2>3 DEF AskedSections, s, n
<1>3. loaded \in WorldStates
  BY <1>1, LoadPositionsTyped
<1> HIDE DEF loaded
<1>4. FoldLeft(LAMBDA acc, key : Ensure(acc, <<UnpackBlockPos(key)[1], UnpackBlockPos(key)[3]>>),
               loaded, AskedSections(r)) \in WorldStates
  BY <1>2, <1>3, LoadSectionsTyped
<1> QED
  BY <1>4, Zenon DEF LoadAsked, loaded

-----------------------------------------------------------------------------
(***************************************************************************)
(* The channels.  What the client will show of a cell once it has read all *)
(* that is under way is what the last message that tells of it says, or,   *)
(* when none does, what it believes of the server now.                     *)
(***************************************************************************)

IsQueue(s) == s \in Seq(Range(s))

LEMMA SequencesQueue ==
  ASSUME NEW X, NEW s \in Seq(X)
  PROVE  IsQueue(s)
BY DEF IsQueue, Range

LEMMA QueueIs ==
  ASSUME NEW s, IsQueue(s)
  PROVE  /\ Len(s) \in Nat /\ DOMAIN s = 1..Len(s)
         /\ s # <<>> => /\ Len(s) # 0 /\ Head(s) = s[1] /\ 1 \in DOMAIN s
                        /\ IsQueue(Tail(s)) /\ Len(Tail(s)) = Len(s) - 1
                        /\ \A i \in DOMAIN Tail(s) : i + 1 \in DOMAIN s /\ Tail(s)[i] = s[i + 1]
<1>1. Len(s) \in Nat /\ DOMAIN s = 1..Len(s)
  BY DEF IsQueue
<1>2. ASSUME s # <<>>
      PROVE  /\ Len(s) # 0 /\ Head(s) = s[1] /\ Tail(s) \in Seq(Range(s))
             /\ Len(Tail(s)) = Len(s) - 1
             /\ \A i \in 1..Len(s) - 1 : Tail(s)[i] = s[i + 1]
  BY <1>2 DEF IsQueue
<1>3. ASSUME s # <<>> PROVE IsQueue(Tail(s))
  BY <1>2, <1>3, SequencesQueue
<1> QED
  BY <1>1, <1>2, <1>3

Joined(u, s, t) ==
  /\ \A i \in DOMAIN s : i \in DOMAIN u /\ u[i] = s[i]
  /\ \A j \in DOMAIN t : Len(s) + j \in DOMAIN u /\ u[Len(s) + j] = t[j]
  /\ \A i \in DOMAIN u : i \in DOMAIN s \/ \E j \in DOMAIN t : i = Len(s) + j

LEMMA QueueJoins ==
  ASSUME NEW s, NEW t, IsQueue(s), IsQueue(t)
  PROVE  IsQueue(s \o t) /\ Joined(s \o t, s, t)
<1> DEFINE X == Range(s) \cup Range(t)
           u == s \o t
<1>1. s \in Seq(X) /\ t \in Seq(X)
  BY DEF IsQueue
<1> HIDE DEF X
<1>2. /\ u \in Seq(X) /\ Len(s) \in Nat /\ Len(t) \in Nat /\ Len(u) = Len(s) + Len(t)
      /\ DOMAIN s = 1..Len(s) /\ DOMAIN t = 1..Len(t) /\ DOMAIN u = 1..Len(u)
      /\ \A i \in 1..Len(s) : u[i] = s[i]
      /\ \A j \in 1..Len(t) : u[Len(s) + j] = t[j]
  BY <1>1
<1> HIDE DEF u
<1>3. IsQueue(u)
  BY <1>2, SequencesQueue
<1>4. \A i \in DOMAIN u : i \in DOMAIN s \/ \E j \in DOMAIN t : i = Len(s) + j
  <2>1. ASSUME NEW i \in DOMAIN u, i \notin DOMAIN s
        PROVE  i - Len(s) \in DOMAIN t /\ i = Len(s) + (i - Len(s))
    BY <1>2, <2>1
  <2> QED
    BY <2>1
<1>5. Joined(u, s, t)
  BY <1>2, <1>4 DEF Joined
<1> QED
  BY <1>3, <1>5 DEF u

Tells(m, p) == m.type = "world" \/ (m.type = "blocks" /\ p \in DOMAIN m.cells)

\* Of cell p the queue says, from what was believed first, what is believed last.
LastWord(s, p, from, to) ==
  \/ from = to /\ \A i \in DOMAIN s : ~Tells(s[i], p)
  \/ \E i \in DOMAIN s : /\ Tells(s[i], p) /\ s[i].cells[p] = to
                         /\ \A j \in DOMAIN s : Tells(s[j], p) => j <= i

LEMMA LastWordJoins ==
  ASSUME NEW s, NEW t, IsQueue(s), IsQueue(t), NEW p, NEW a, NEW b, NEW c,
         LastWord(s, p, a, b), LastWord(t, p, b, c)
  PROVE  LastWord(s \o t, p, a, c)
<1> DEFINE u == s \o t
<1>0. Joined(u, s, t)
  BY QueueJoins
<1>1. /\ \A i \in DOMAIN s : i \in DOMAIN u /\ u[i] = s[i]
      /\ \A j \in DOMAIN t : Len(s) + j \in DOMAIN u /\ u[Len(s) + j] = t[j]
      /\ \A i \in DOMAIN u : i \in DOMAIN s \/ \E j \in DOMAIN t : i = Len(s) + j
  BY <1>0, Zenon DEF Joined
<1>2. Len(s) \in Nat /\ DOMAIN s = 1..Len(s) /\ Len(t) \in Nat /\ DOMAIN t = 1..Len(t)
  BY QueueIs
<1> HIDE DEF u
<1>3. CASE \E i \in DOMAIN t : /\ Tells(t[i], p) /\ t[i].cells[p] = c
                               /\ \A j \in DOMAIN t : Tells(t[j], p) => j <= i
  <2>1. PICK i \in DOMAIN t : /\ Tells(t[i], p) /\ t[i].cells[p] = c
                              /\ \A j \in DOMAIN t : Tells(t[j], p) => j <= i
    BY <1>3
  <2>2. ASSUME NEW j \in DOMAIN u, Tells(u[j], p) PROVE j <= Len(s) + i
    <3>1. CASE j \in DOMAIN s
      BY <1>2, <3>1
    <3>2. ASSUME NEW k \in DOMAIN t, j = Len(s) + k PROVE j <= Len(s) + i
      <4>1. Tells(t[k], p)
        BY <1>1, <2>2, <3>2
      <4>2. k <= i
        BY <2>1, <4>1
      <4> QED
        BY <1>2, <3>2, <4>2
    <3> QED
      BY <1>1, <3>1, <3>2
  <2>3. Len(s) + i \in DOMAIN u /\ u[Len(s) + i] = t[i]
    BY <1>1
  <2> QED
    BY <2>1, <2>2, <2>3 DEF LastWord, u
<1>4. CASE b = c /\ \A i \in DOMAIN t : ~Tells(t[i], p)
  <2>1. CASE a = b /\ \A i \in DOMAIN s : ~Tells(s[i], p)
    <3>1. \A i \in DOMAIN u : ~Tells(u[i], p)
      BY <1>1, <1>4, <2>1
    <3> QED
      BY <1>4, <2>1, <3>1 DEF LastWord, u
  <2>2. ASSUME NEW i \in DOMAIN s, Tells(s[i], p), s[i].cells[p] = b,
               \A j \in DOMAIN s : Tells(s[j], p) => j <= i
        PROVE  LastWord(u, p, a, c)
    <3>1. i \in DOMAIN u /\ u[i] = s[i]
      BY <1>1
    <3>2. \A j \in DOMAIN u : Tells(u[j], p) => j <= i
      BY <1>1, <1>4, <2>2
    <3> QED
      BY <1>4, <2>2, <3>1, <3>2 DEF LastWord
  <2> QED
    BY <2>1, <2>2 DEF LastWord, u
<1> QED
  BY <1>3, <1>4 DEF LastWord

\* Reading the head makes the client believe what it says.
LEMMA LastWordRests ==
  ASSUME NEW s, IsQueue(s), s # <<>>, NEW p, NEW a, NEW b, LastWord(s, p, a, b)
  PROVE  LastWord(Tail(s), p, IF Tells(Head(s), p) THEN Head(s).cells[p] ELSE a, b)
<1> DEFINE t == Tail(s)
<1>1. /\ Len(s) \in Nat /\ DOMAIN s = 1..Len(s) /\ Head(s) = s[1] /\ 1 \in DOMAIN s
      /\ Len(t) = Len(s) - 1 /\ DOMAIN t = 1..Len(t)
      /\ \A i \in DOMAIN t : i + 1 \in DOMAIN s /\ t[i] = s[i + 1]
  BY QueueIs
<1> HIDE DEF t
<1>2. CASE a = b /\ \A i \in DOMAIN s : ~Tells(s[i], p)
  BY <1>1, <1>2 DEF LastWord, t
<1>3. ASSUME NEW i \in DOMAIN s, Tells(s[i], p), s[i].cells[p] = b,
             \A j \in DOMAIN s : Tells(s[j], p) => j <= i
      PROVE  LastWord(t, p, IF Tells(Head(s), p) THEN Head(s).cells[p] ELSE a, b)
  <2>1. CASE i = 1
    <3>1. \A j \in DOMAIN t : ~Tells(t[j], p)
      <4>1. ASSUME NEW j \in DOMAIN t, Tells(t[j], p) PROVE FALSE
        <5>1. j + 1 \in DOMAIN s /\ Tells(s[j + 1], p)
          BY <1>1, <4>1
        <5>2. j + 1 <= 1 /\ j \in 1..Len(t)
          BY <1>1, <1>3, <2>1, <5>1
        <5> QED
          BY <5>2
      <4> QED
        BY <4>1
    <3> QED
      BY <1>1, <1>3, <2>1, <3>1 DEF LastWord
  <2>2. CASE i # 1
    <3>1. i - 1 \in DOMAIN t /\ i - 1 + 1 = i
      BY <1>1, <2>2
    <3>2. t[i - 1] = s[i]
      BY <1>1, <3>1
    <3>3. ASSUME NEW j \in DOMAIN t, Tells(t[j], p) PROVE j <= i - 1
      <4>1. j + 1 \in DOMAIN s /\ Tells(s[j + 1], p)
        BY <1>1, <3>3
      <4>2. j + 1 <= i /\ j \in 1..Len(t) /\ i \in 1..Len(s)
        BY <1>1, <1>3, <4>1
      <4> QED
        BY <4>2
    <3> QED
      BY <1>3, <3>1, <3>2, <3>3 DEF LastWord
  <2> QED
    BY <2>1, <2>2
<1> QED
  BY <1>2, <1>3 DEF LastWord, t

-----------------------------------------------------------------------------
(***************************************************************************)
(* What the state of the whole is made of.                                 *)
(***************************************************************************)

Asked(k)  == Range(Menu[k])
Menus     == UNION {Asked(k) : k \in Kinds}
Numbered  == {[r EXCEPT !.sequence = n] : r \in {q \in Menus : Predicts(q)}, n \in Nat}
Requests  == Menus \cup Numbered

LEMMA MenuFits == \A r \in Menus : WellFormed(r)
<1>1. ASSUME NEW k \in Kinds, NEW i \in DOMAIN Menu[k] PROVE WellFormed(Menu[k][i])
  BY <1>1, MenuAssumption, Zenon
<1>2. \A k \in Kinds : \A r \in Asked(k) : WellFormed(r)
  BY <1>1, Zenon DEF Asked, Range
<1> QED
  BY <1>2 DEF Menus

LEMMA RequestsFit ==
  ASSUME NEW r \in Requests
  PROVE  WellFormed(r)
<1>1. CASE r \in Menus
  BY <1>1, MenuFits
<1>2. ASSUME NEW s \in Menus, Predicts(s), NEW n \in Nat, r = [s EXCEPT !.sequence = n]
      PROVE  WellFormed(r)
  <2>1. WellFormed(s) /\ s.type = "set block"
    BY <1>2, MenuFits DEF Predicts
  <2>2. /\ {"type"} \subseteq DOMAIN s /\ "dimension" \notin DOMAIN s
        /\ {"sequence", "blocks"} \subseteq DOMAIN s
        /\ s.blocks \in Seq([pos: Positions, state: Nat])
    BY <2>1 DEF WellFormed, WithDimension
  <2>3. /\ DOMAIN r = DOMAIN s /\ r.type = "set block" /\ r.sequence = n /\ r.blocks = s.blocks
    BY <1>2, <2>1, <2>2
  <2>4. /\ {"type"} \subseteq DOMAIN r /\ "dimension" \notin DOMAIN r
        /\ {"sequence", "blocks"} \subseteq DOMAIN r
    BY <2>2, <2>3
  <2>5. r.sequence \in Int
    <3>1. n \in Int
      OBVIOUS
    <3> QED
      BY <2>3, <3>1, Zenon
  <2>6. r.blocks \in Seq([pos: Positions, state: Nat])
    BY <2>2, <2>3, Zenon
  <2>7. r.type \notin WithDimension
    BY <2>3 DEF WithDimension
  <2> QED
    BY <2>3, <2>4, <2>5, <2>6, <2>7 DEF WellFormed
<1>3. CASE r \in Numbered
  BY <1>2, <1>3 DEF Numbered
<1> QED
  BY <1>1, <1>3 DEF Requests

LEMMA SetBlockFits ==
  ASSUME NEW r, WellFormed(r), r.type = "set block"
  PROVE  /\ r.sequence \in Int /\ "sequence" \in DOMAIN r /\ "type" \in DOMAIN r
         /\ r.blocks \in Seq([pos: Positions, state: Nat])
         /\ "blocks" \in DOMAIN r /\ "dimension" \notin DOMAIN r
BY DEF WellFormed, WithDimension

LEMMA BufferFits ==
  ASSUME NEW r, WellFormed(r), r.type = "buffer"
  PROVE  r.sections \in Seq(SectionOnWire)
BY DEF WellFormed, SectionOnWire, EntityOnWire

LEMMA BiomesFit ==
  ASSUME NEW r, WellFormed(r), r.type = "biomes"
  PROVE  r.sections \in Seq([key: Int, cells: Seq(Nat)])
BY DEF WellFormed

LEMMA TickFits ==
  ASSUME NEW r, WellFormed(r), r.type = "tick"
  PROVE  TickRequest(r)
BY DEF WellFormed, TickRequest

LEMMA ChunkDataFits ==
  ASSUME NEW r, WellFormed(r), r.type = "chunk data"
  PROVE  r.keys \in Seq(Int) /\ r.positions \in Seq(Int)
BY DEF WellFormed

\* A cell as a client of kind k is shown it.
Seen(k, w, p) == ClientState(k \in Old, w.blocks[p])

LEMMA SeenTyped ==
  ASSUME NEW k, NEW w \in WorldStates, NEW p \in Shown
  PROVE  Seen(k, w, p) \in Nat
<1>1. w.blocks[p] \in States
  BY WorldStatesAre, WorldAssumption
<1>2. StateCount \in Nat /\ \A i \in 1..StateCount : ToClient[i] \in Nat
  BY SectionsAssumption
<1> DEFINE b == w.blocks[p]
<1>3. b \in Nat /\ b < StateCount /\ b + 1 \in 1..StateCount
  BY <1>1, <1>2 DEF States
<1> HIDE DEF b
<1>4. ClientState(k \in Old, b) \in Nat
  BY <1>2, <1>3 DEF ClientState
<1> QED
  BY <1>4 DEF Seen, b

LEMMA ShownIsSeen ==
  ASSUME NEW w \in WorldStates
  PROVE  ShownAs(w) = [p \in Shown |-> Seen(kind, w, p)] /\ ShownAs(w) \in [Shown -> Nat]
<1>1. ShownAs(w) = [p \in Shown |-> Seen(kind, w, p)]
  BY Zenon DEF ShownAs, Seen, old
<1> QED
  BY <1>1, SeenTyped

IsMessage(m) ==
  \/ m.type = "ack" /\ m.sequence \in Nat
  \/ m.type = "blocks" /\ DOMAIN m.cells \subseteq Shown /\ m.cells \in [DOMAIN m.cells -> Nat]
  \/ m.type = "world" /\ m.cells \in [Shown -> Nat]
  \/ m.type \in {"answer", "message"}

AreMessages(s) == IsQueue(s) /\ \A i \in DOMAIN s : IsMessage(s[i])
AreQuiet(s)    == AreMessages(s) /\ \A i \in DOMAIN s : s[i].type \notin {"blocks", "world"}

AsksIn(s, n) == \E i \in DOMAIN s : s[i].type = "set block" /\ s[i].sequence = n
AcksIn(s, n) == \E i \in DOMAIN s : s[i].type = "ack" /\ s[i].sequence = n

LEMMA MessagesJoin ==
  ASSUME NEW s, NEW t, AreMessages(s), AreMessages(t)
  PROVE  AreMessages(s \o t) /\ \A n : AcksIn(s, n) \/ AcksIn(t, n) => AcksIn(s \o t, n)
<1> DEFINE u == s \o t
<1>1. IsQueue(u) /\ Joined(u, s, t)
  BY QueueJoins DEF AreMessages
<1> HIDE DEF u
<1>2. AreMessages(u)
  BY <1>1 DEF AreMessages, Joined
<1>3. \A n : AcksIn(s, n) \/ AcksIn(t, n) => AcksIn(u, n)
  BY <1>1 DEF AcksIn, Joined
<1> QED
  BY <1>2, <1>3 DEF u

LEMMA MessagesRest ==
  ASSUME NEW s, AreMessages(s), s # <<>>
  PROVE  /\ AreMessages(Tail(s)) /\ IsMessage(Head(s))
         /\ \A n : AcksIn(s, n) => AcksIn(Tail(s), n) \/ (Head(s).type = "ack" /\ Head(s).sequence = n)
<1> DEFINE t == Tail(s)
<1>1. /\ Len(s) \in Nat /\ DOMAIN s = 1..Len(s) /\ Head(s) = s[1] /\ 1 \in DOMAIN s
      /\ IsQueue(t) /\ Len(t) = Len(s) - 1 /\ DOMAIN t = 1..Len(t)
      /\ \A i \in DOMAIN t : i + 1 \in DOMAIN s /\ t[i] = s[i + 1]
  BY QueueIs DEF AreMessages
<1> HIDE DEF t
<1>2. AreMessages(t) /\ IsMessage(Head(s))
  BY <1>1 DEF AreMessages
<1>3. ASSUME NEW n, NEW i \in DOMAIN s, s[i].type = "ack" /\ s[i].sequence = n
      PROVE  AcksIn(t, n) \/ (Head(s).type = "ack" /\ Head(s).sequence = n)
  <2>1. CASE i = 1
    BY <1>1, <1>3, <2>1
  <2>2. CASE i # 1
    <3>1. i - 1 \in DOMAIN t /\ i - 1 + 1 = i
      BY <1>1, <2>2
    <3>2. t[i - 1] = s[i]
      BY <1>1, <3>1
    <3> QED
      BY <1>3, <3>1, <3>2 DEF AcksIn
  <2> QED
    BY <2>1, <2>2
<1> QED
  BY <1>2, <1>3 DEF AcksIn, t

LEMMA RequestsRest ==
  ASSUME NEW s \in Seq(Requests), s # <<>>
  PROVE  /\ Tail(s) \in Seq(Requests) /\ Head(s) \in Requests
         /\ \A n : AsksIn(s, n) =>
              AsksIn(Tail(s), n) \/ (Head(s).type = "set block" /\ Head(s).sequence = n)
<1> DEFINE t == Tail(s)
<1>1. /\ t \in Seq(Requests) /\ Head(s) \in Requests /\ Head(s) = s[1]
      /\ Len(s) \in Nat /\ DOMAIN s = 1..Len(s) /\ Len(t) = Len(s) - 1 /\ DOMAIN t = 1..Len(t)
      /\ \A i \in 1..Len(s) - 1 : t[i] = s[i + 1]
  OBVIOUS
<1> HIDE DEF t
<1>2. ASSUME NEW n, NEW i \in DOMAIN s, s[i].type = "set block" /\ s[i].sequence = n
      PROVE  AsksIn(t, n) \/ (Head(s).type = "set block" /\ Head(s).sequence = n)
  <2>1. CASE i = 1
    BY <1>1, <1>2, <2>1
  <2>2. CASE i # 1
    <3>1. i - 1 \in DOMAIN t /\ i - 1 + 1 = i /\ i - 1 \in 1..Len(s) - 1
      BY <1>1, <2>2
    <3>2. t[i - 1] = s[i]
      BY <1>1, <3>1
    <3> QED
      BY <1>2, <3>1, <3>2 DEF AsksIn
  <2> QED
    BY <2>1, <2>2
<1> QED
  BY <1>1, <1>2 DEF AsksIn, t

LEMMA RequestsAppend ==
  ASSUME NEW s \in Seq(Requests), NEW r \in Requests
  PROVE  /\ Append(s, r) \in Seq(Requests)
         /\ \A n : AsksIn(s, n) \/ (r.type = "set block" /\ r.sequence = n) => AsksIn(Append(s, r), n)
<1> DEFINE u == Append(s, r)
<1>1. /\ u \in Seq(Requests) /\ Len(s) \in Nat /\ DOMAIN s = 1..Len(s) /\ DOMAIN u = 1..Len(s) + 1
      /\ u[Len(s) + 1] = r /\ \A i \in 1..Len(s) : u[i] = s[i]
  OBVIOUS
<1> HIDE DEF u
<1>2. Len(s) + 1 \in DOMAIN u /\ \A i \in DOMAIN s : i \in DOMAIN u
  BY <1>1
<1> QED
  BY <1>1, <1>2 DEF AsksIn, u

\* The state and its types; then what the client believes once all is read is the world
\* as it is; and for every prediction a request is under way that will be acknowledged,
\* or its acknowledgement is.
PlaceTyped    == kind \in Kinds /\ dim \in Dims /\ worlds \in [Dims -> WorldStates]
ClientTyped   == /\ view \in [Shown -> Nat]
                 /\ DOMAIN pending \subseteq Shown
                 /\ pending \in [DOMAIN pending -> [sequence: Nat, known: Nat]]
                 /\ kicked \in BOOLEAN /\ sent \in Nat
ChannelsTyped == c2s \in Seq(Requests) /\ AreMessages(s2c)

Believed(p) == IF p \in DOMAIN pending THEN pending[p].known ELSE view[p]
Heard       == \A p \in Shown : LastWord(s2c, p, Believed(p), Seen(kind, worlds[dim], p))
Awaited     == \A p \in DOMAIN pending :
                 kicked \/ AsksIn(c2s, pending[p].sequence) \/ AcksIn(s2c, pending[p].sequence)

WorldInv == PlaceTyped /\ ClientTyped /\ ChannelsTyped /\ Heard /\ Awaited

LEMMA OneMessage ==
  ASSUME NEW m, IsMessage(m)
  PROVE  AreMessages(<<m>>) /\ AreMessages(<<>>)
         /\ \A i \in DOMAIN <<m>> : <<m>>[i] = m
<1>1. <<m>> \in Seq({m}) /\ <<>> \in Seq({m})
  OBVIOUS
<1>2. IsQueue(<<m>>) /\ IsQueue(<<>>)
  BY <1>1, SequencesQueue
<1>3. \A i \in DOMAIN <<m>> : <<m>>[i] = m
  OBVIOUS
<1>4. \A i \in DOMAIN <<>> : FALSE
  OBVIOUS
<1> QED
  BY <1>2, <1>3, <1>4 DEF AreMessages

LEMMA OneIndex ==
  ASSUME NEW m
  PROVE  1 \in DOMAIN <<m>> /\ \A j \in DOMAIN <<m>> : j <= 1
OBVIOUS

LEMMA QuietOnes ==
  /\ AreQuiet(<<>>)
  /\ \A m : IsMessage(m) /\ m.type \notin {"blocks", "world"} => AreQuiet(<<m>>)
<1>1. IsMessage([type |-> "message"])
  BY DEF IsMessage
<1>2. AreMessages(<<>>)
  BY <1>1, OneMessage
<1>3. \A i \in DOMAIN <<>> : FALSE
  OBVIOUS
<1>4. ASSUME NEW m, IsMessage(m), m.type \notin {"blocks", "world"} PROVE AreQuiet(<<m>>)
  BY <1>4, OneMessage DEF AreQuiet
<1> QED
  BY <1>2, <1>3, <1>4 DEF AreQuiet

LEMMA QuietSays ==
  ASSUME NEW s, AreQuiet(s), NEW p, NEW a
  PROVE  LastWord(s, p, a, a)
BY DEF AreQuiet, LastWord, Tells

\* The host's updates tell a client of every cell in its view that changed.
LEMMA UpdatesSay ==
  ASSUME NEW w \in WorldStates, NEW v \in WorldStates
  PROVE  /\ AreMessages(Updates(w, v))
         /\ \A p \in Shown : LastWord(Updates(w, v), p, Seen(kind, w, p), Seen(kind, v, p))
<1> DEFINE changed == {p \in Shown : w.blocks[p] # v.blocks[p]}
           cells == [p \in changed |-> ShownAs(v)[p]]
           m == [type |-> "blocks", cells |-> cells]
<1>1. Updates(w, v) = IF changed = {} THEN <<>> ELSE <<m>>
  BY Zenon DEF Updates
<1>2. \A p \in Shown : p \notin changed => Seen(kind, w, p) = Seen(kind, v, p)
  BY DEF Seen
<1>3. changed \subseteq Shown
  OBVIOUS
<1> HIDE DEF changed
<1>4. cells \in [changed -> Nat] /\ \A p \in changed : cells[p] = Seen(kind, v, p)
  BY <1>3, ShownIsSeen
<1> HIDE DEF cells
<1>5. m.type = "blocks" /\ m.cells = cells /\ DOMAIN m.cells = changed
  BY <1>4
<1> HIDE DEF m
<1>6. IsMessage(m)
  BY <1>3, <1>4, <1>5 DEF IsMessage
<1>7. AreMessages(<<m>>) /\ AreMessages(<<>>) /\ \A i \in DOMAIN <<m>> : <<m>>[i] = m
  BY <1>6, OneMessage
<1>8. CASE changed = {}
  <2>1. \A p \in Shown : LastWord(<<>>, p, Seen(kind, w, p), Seen(kind, v, p))
    BY <1>2, <1>8 DEF LastWord
  <2> QED
    BY <1>1, <1>7, <1>8, <2>1
<1>9. CASE changed # {}
  <2>1. ASSUME NEW p \in Shown PROVE LastWord(<<m>>, p, Seen(kind, w, p), Seen(kind, v, p))
    <3>1. CASE p \in changed
      <4>1. Tells(m, p) /\ m.cells[p] = Seen(kind, v, p)
        BY <1>4, <1>5, <3>1 DEF Tells
      <4>2. 1 \in DOMAIN <<m>> /\ \A j \in DOMAIN <<m>> : j <= 1
        OBVIOUS
      <4> QED
        BY <1>7, <4>1, <4>2 DEF LastWord
    <3>2. CASE p \notin changed
      <4>1. ~Tells(m, p)
        BY <1>5, <3>2 DEF Tells
      <4> QED
        BY <1>2, <1>7, <3>2, <4>1 DEF LastWord
    <3> QED
      BY <3>1, <3>2
  <2> QED
    BY <1>1, <1>7, <1>9, <2>1
<1> QED
  BY <1>8, <1>9

\* Two queues, one after the other, of which the second speaks of a change.
LEMMA AddsUp ==
  ASSUME NEW s, NEW t, AreMessages(s), AreMessages(t), NEW F, NEW G, NEW H,
         \A p \in Shown : LastWord(s, p, F[p], G[p]),
         \A p \in Shown : LastWord(t, p, G[p], H[p])
  PROVE  AreMessages(s \o t) /\ \A p \in Shown : LastWord(s \o t, p, F[p], H[p])
<1>1. AreMessages(s \o t)
  BY MessagesJoin
<1>2. ASSUME NEW p \in Shown PROVE LastWord(s \o t, p, F[p], H[p])
  <2>1. LastWord(s, p, F[p], G[p]) /\ LastWord(t, p, G[p], H[p])
    OBVIOUS
  <2> QED
    BY <2>1, LastWordJoins DEF AreMessages
<1> QED
  BY <1>1, <1>2

Sees(w) == [p \in Shown |-> Seen(kind, w, p)]
Beliefs == [p \in Shown |-> Believed(p)]

\* An edit of the world the player is in keeps the client true to it, whatever quiet
\* messages come with it.
EditKept(before) ==
  PlaceTyped' /\ ClientTyped' /\ ChannelsTyped' /\ Heard'
  /\ \A n : AcksIn(s2c, n) \/ AcksIn(before, n) => AcksIn(s2c', n)

LEMMA WorldChanges ==
  ASSUME WorldInv, NEW new \in WorldStates, NEW before, NEW after,
         AreQuiet(before), AreQuiet(after),
         worlds' = [worlds EXCEPT ![dim] = new],
         s2c' = s2c \o before \o Updates(Here, new) \o after,
         UNCHANGED <<kind, dim, view, pending, sent>>,
         c2s' \in Seq(Requests), kicked' \in BOOLEAN
  PROVE  EditKept(before)
<1> DEFINE s1 == s2c \o before
           s2 == s1 \o Updates(Here, new)
           s3 == s2 \o after
<1>1. Here \in WorldStates /\ worlds'[dim] = new /\ worlds' \in [Dims -> WorldStates]
  BY DEF WorldInv, PlaceTyped, Here
<1>2. \A p \in Shown : LastWord(s2c, p, Beliefs[p], Sees(Here)[p])
  BY DEF WorldInv, Heard, Here, Sees, Beliefs
<1>3. AreMessages(s2c) /\ AreMessages(before) /\ AreMessages(after)
  BY DEF WorldInv, ChannelsTyped, AreQuiet
<1>4. \A p \in Shown : LastWord(before, p, Sees(Here)[p], Sees(Here)[p])
  BY QuietSays
<1>5. AreMessages(s1) /\ \A p \in Shown : LastWord(s1, p, Beliefs[p], Sees(Here)[p])
  BY <1>2, <1>3, <1>4, AddsUp
<1>6. /\ AreMessages(Updates(Here, new))
      /\ \A p \in Shown : LastWord(Updates(Here, new), p, Sees(Here)[p], Sees(new)[p])
  BY <1>1, UpdatesSay DEF Sees
<1>7. \A n : AcksIn(s2c, n) \/ AcksIn(before, n) => AcksIn(s1, n)
  BY <1>3, MessagesJoin
<1> HIDE DEF s1
<1>8. AreMessages(s2) /\ \A p \in Shown : LastWord(s2, p, Beliefs[p], Sees(new)[p])
  BY <1>5, <1>6, AddsUp
<1>9. \A n : AcksIn(s1, n) => AcksIn(s2, n)
  BY <1>5, <1>6, MessagesJoin
<1>10. \A p \in Shown : LastWord(after, p, Sees(new)[p], Sees(new)[p])
  BY QuietSays
<1> HIDE DEF s2
<1>11. AreMessages(s3) /\ \A p \in Shown : LastWord(s3, p, Beliefs[p], Sees(new)[p])
  BY <1>3, <1>8, <1>10, AddsUp
<1>12. \A n : AcksIn(s2, n) => AcksIn(s3, n)
  BY <1>3, <1>8, MessagesJoin
<1>13. s2c' = s3
  BY DEF s1, s2
<1> HIDE DEF s3
<1>14. \A p \in Shown : Believed(p)' = Beliefs[p] /\ Seen(kind, worlds[dim], p)' = Sees(new)[p]
  BY <1>1 DEF Believed, Beliefs, Seen, Sees
<1>15. Heard'
  BY <1>11, <1>13, <1>14 DEF Heard
<1>16. PlaceTyped' /\ ClientTyped' /\ ChannelsTyped'
  BY <1>1, <1>11, <1>13 DEF WorldInv, PlaceTyped, ClientTyped, ChannelsTyped
<1> QED
  BY <1>7, <1>9, <1>12, <1>13, <1>15, <1>16 DEF EditKept

\* A request that is taken leaves every other prediction awaited.
LEMMA AwaitedStays ==
  ASSUME WorldInv, c2s # <<>>, c2s' = Tail(c2s), pending' = pending, kicked => kicked',
         \A n : AcksIn(s2c, n) => AcksIn(s2c', n),
         Request.type = "set block" /\ Request.sequence \in Nat =>
           kicked' \/ AcksIn(s2c', Request.sequence)
  PROVE  Awaited'
<1>1. c2s \in Seq(Requests) /\ Awaited
  BY DEF WorldInv, ChannelsTyped
<1>2. \A n : AsksIn(c2s, n) =>
        AsksIn(Tail(c2s), n) \/ (Request.type = "set block" /\ Request.sequence = n)
  BY <1>1, RequestsRest DEF Request
<1>3. ASSUME NEW p \in DOMAIN pending
      PROVE  kicked' \/ AsksIn(c2s', pending[p].sequence) \/ AcksIn(s2c', pending[p].sequence)
  <2> DEFINE n == pending[p].sequence
  <2>1. n \in Nat
    BY DEF WorldInv, ClientTyped
  <2>2. kicked \/ AsksIn(c2s, n) \/ AcksIn(s2c, n)
    BY <1>1 DEF Awaited
  <2> HIDE DEF n
  <2>3. kicked' \/ AsksIn(c2s', n) \/ AcksIn(s2c', n)
    BY <1>2, <2>1, <2>2
  <2> QED
    BY <2>3 DEF n
<1> QED
  BY <1>3 DEF Awaited

LEMMA TakenIsFit ==
  ASSUME WorldInv, c2s # <<>>, c2s' = Tail(c2s)
  PROVE  WellFormed(Request) /\ Request \in Requests /\ c2s' \in Seq(Requests) /\ Here \in WorldStates
<1>1. Request \in Requests /\ c2s' \in Seq(Requests)
  BY RequestsRest DEF WorldInv, ChannelsTyped, Request
<1>2. Here \in WorldStates
  BY DEF WorldInv, PlaceTyped, Here
<1> QED
  BY <1>1, <1>2, RequestsFit

\* What the handlers that edit have in common.
LEMMA EditsKeep ==
  ASSUME WorldInv, c2s # <<>>, c2s' = Tail(c2s), NEW wrong \in BOOLEAN, Fails(wrong),
         NEW new \in WorldStates, NEW before, NEW after, AreQuiet(before), AreQuiet(after),
         Edits(new, before, after),
         Request.type = "set block" /\ Request.sequence \in Nat =>
           wrong \/ AcksIn(before, Request.sequence)
  PROVE  WorldInv'
<1>1. kicked' \in BOOLEAN /\ (kicked => kicked') /\ (wrong => kicked')
  BY DEF WorldInv, ClientTyped, Fails
<1>2. /\ worlds' = [worlds EXCEPT ![dim] = new]
      /\ s2c' = s2c \o before \o Updates(Here, new) \o after
      /\ UNCHANGED <<kind, dim, view, pending, sent>>
  BY DEF Edits
<1>3. EditKept(before)
  BY <1>1, <1>2, TakenIsFit, WorldChanges
<1>4. \A n : AcksIn(s2c, n) \/ AcksIn(before, n) => AcksIn(s2c', n)
  BY <1>3 DEF EditKept
<1>5. Awaited'
  BY <1>1, <1>2, <1>4, AwaitedStays
<1> QED
  BY <1>3, <1>5 DEF EditKept, WorldInv

LEMMA SetBlockKeeps == WorldInv /\ HandleSetBlock => WorldInv'
<1> SUFFICES ASSUME WorldInv, HandleSetBlock PROVE WorldInv'
  OBVIOUS
<1> DEFINE before == IF Acknowledges(Request)
                     THEN << [type |-> "ack", sequence |-> Request.sequence] >> ELSE <<>>
           ack == [type |-> "ack", sequence |-> Request.sequence]
           new == SetBlock(Here, Request, old)
           wrong == ~ListsFit(Request)
<1>1. /\ c2s # <<>> /\ Request.type = "set block" /\ c2s' = Tail(c2s)
      /\ Fails(wrong) /\ Edits(new, before, <<>>)
  BY DEF HandleSetBlock, Taken, Request
<1>2. WellFormed(Request) /\ Here \in WorldStates
  BY <1>1, TakenIsFit
<1>3. Request.sequence \in Int /\ Request.blocks \in Seq([pos: Positions, state: Nat])
  BY <1>1, <1>2, SetBlockFits
<1>4. new \in WorldStates
  BY <1>2, <1>3, SetBlockTyped
<1>5. Request.sequence \in Nat => IsMessage(ack) /\ ack.type \notin {"blocks", "world"}
  BY DEF IsMessage
<1>6. Acknowledges(Request) <=> ~wrong /\ Request.sequence \in Nat
  BY <1>3 DEF Acknowledges
<1>7. AreQuiet(<<>>) /\ AreQuiet(before)
  BY <1>5, <1>6, QuietOnes
<1>8. 1 \in DOMAIN <<ack>> /\ <<ack>>[1] = ack /\ ack.type = "ack" /\ ack.sequence = Request.sequence
  OBVIOUS
<1>9. Request.sequence \in Nat => wrong \/ AcksIn(before, Request.sequence)
  BY <1>6, <1>8 DEF AcksIn
<1>10. wrong \in BOOLEAN
  OBVIOUS
<1> HIDE DEF before, new, wrong
<1> QED
  BY <1>1, <1>4, <1>7, <1>9, <1>10, EditsKeep

LEMMA SetBufferKeeps == WorldInv /\ HandleSetBuffer => WorldInv'
<1> SUFFICES ASSUME WorldInv, HandleSetBuffer PROVE WorldInv'
  OBVIOUS
<1> DEFINE may == HasPerm(BUILD_SECTION) /\ AimedAt(Request.dimension)
           new == IF may THEN SetBuffer(Here, Request, old) ELSE Here
           wrong == may /\ ~Ends(Request)
<1>1. /\ c2s # <<>> /\ Request.type = "buffer" /\ c2s' = Tail(c2s)
      /\ Fails(wrong) /\ Edits(new, <<>>, <<>>)
  BY DEF HandleSetBuffer, Taken, Request
<1>2. WellFormed(Request) /\ Here \in WorldStates
  BY <1>1, TakenIsFit
<1>3. new \in WorldStates
  BY <1>1, <1>2, BufferFits, SetBufferTyped
<1>4. AreQuiet(<<>>) /\ wrong \in BOOLEAN
  BY QuietOnes
<1> HIDE DEF new, wrong
<1> QED
  BY <1>1, <1>3, <1>4, EditsKeep

LEMMA BiomeBufferKeeps == WorldInv /\ HandleBiomeBuffer => WorldInv'
<1> SUFFICES ASSUME WorldInv, HandleBiomeBuffer PROVE WorldInv'
  OBVIOUS
<1> DEFINE may == HasPerm(BUILD_SECTION) /\ AimedAt(Request.dimension)
           new == IF may THEN ApplyBiomeBuffer(Here, Request) ELSE Here
           wrong == may /\ Request.broken
<1>1. /\ c2s # <<>> /\ Request.type = "biomes" /\ c2s' = Tail(c2s)
      /\ Fails(wrong) /\ Edits(new, <<>>, <<>>)
  BY DEF HandleBiomeBuffer, Taken, Request
<1>2. WellFormed(Request) /\ Here \in WorldStates
  BY <1>1, TakenIsFit
<1>3. new \in WorldStates
  BY <1>1, <1>2, BiomesFit, ApplyBiomeBufferTyped
<1>4. AreQuiet(<<>>) /\ wrong \in BOOLEAN
  BY QuietOnes
<1> HIDE DEF new, wrong
<1> QED
  BY <1>1, <1>3, <1>4, EditsKeep

LEMMA TickBlocksKeeps == WorldInv /\ HandleTickBlocks => WorldInv'
<1> SUFFICES ASSUME WorldInv, HandleTickBlocks PROVE WorldInv'
  OBVIOUS
<1> DEFINE may == RowsFit(Request) /\ HasPerm(BUILD_DANGEROUS_TICK) /\ AimedAt(Request.dimension)
           new == IF may THEN TickBlocks(Here, Request) ELSE Here
           told == [type |-> "message"]
           after == IF may /\ TellsOfMore(Request) THEN <<told>> ELSE <<>>
           wrong == ~RowsFit(Request)
<1>1. /\ c2s # <<>> /\ Request.type = "tick" /\ c2s' = Tail(c2s)
      /\ Fails(wrong) /\ Edits(new, <<>>, after)
  BY DEF HandleTickBlocks, Taken, Request
<1>2. WellFormed(Request) /\ Here \in WorldStates
  BY <1>1, TakenIsFit
<1>3. new \in WorldStates
  BY <1>1, <1>2, TickFits, TickBlocksTyped
<1>4. IsMessage(told) /\ told.type \notin {"blocks", "world"}
  BY DEF IsMessage
<1> HIDE DEF told
<1>5. AreQuiet(<<>>) /\ AreQuiet(after) /\ wrong \in BOOLEAN
  BY <1>4, QuietOnes
<1> HIDE DEF new, wrong, after
<1> QED
  BY <1>1, <1>3, <1>5, EditsKeep

LEMMA RequestChunkDataKeeps == WorldInv /\ HandleRequestChunkData => WorldInv'
<1> SUFFICES ASSUME WorldInv, HandleRequestChunkData PROVE WorldInv'
  OBVIOUS
<1> DEFINE fails == HasPerm(CHUNK_REQUEST) /\ ~AsksLittle(Request)
           may == HasPerm(CHUNK_REQUEST) /\ AsksLittle(Request) /\ AimedAt(Request.dimension)
           new == IF may THEN LoadAsked(Here, Request) ELSE Here
           answer == [type     |-> "answer",
                      entities |-> IF may THEN AnsweredEntities(Here, Request) ELSE <<>>,
                      sections |-> IF may THEN Answered(Here, Request, old) ELSE <<>>]
           after == IF fails THEN <<>> ELSE <<answer>>
<1>1. /\ c2s # <<>> /\ Request.type = "chunk data" /\ c2s' = Tail(c2s)
      /\ Fails(fails) /\ Edits(new, <<>>, after)
  BY Zenon DEF HandleRequestChunkData, Taken, Request
<1>2. WellFormed(Request) /\ Here \in WorldStates
  BY <1>1, TakenIsFit
<1>3. new \in WorldStates
  BY <1>1, <1>2, ChunkDataFits, LoadAskedTyped
<1>4. answer.type = "answer"
  OBVIOUS
<1> HIDE DEF answer
<1>5. IsMessage(answer) /\ answer.type \notin {"blocks", "world"}
  BY <1>4 DEF IsMessage
<1>6. AreQuiet(<<>>) /\ AreQuiet(after) /\ fails \in BOOLEAN
  BY <1>5, QuietOnes
<1> HIDE DEF new, fails, after
<1> QED
  BY <1>1, <1>3, <1>6, EditsKeep

\* What neither edits nor travels.
LEMMA QuietStepKeeps ==
  ASSUME WorldInv, UNCHANGED <<kind, dim, worlds, s2c, view, pending, sent>>,
         kicked' \in BOOLEAN, kicked => kicked',
         c2s' = c2s \/ (c2s # <<>> /\ c2s' = Tail(c2s) /\ Request.type # "set block")
  PROVE  WorldInv'
<1>1. PlaceTyped' /\ ClientTyped'
  BY DEF WorldInv, PlaceTyped, ClientTyped
<1>2. Heard'
  <2>1. \A p \in Shown : Believed(p)' = Believed(p) /\ Seen(kind, worlds[dim], p)' = Seen(kind, worlds[dim], p)
    BY DEF Believed, Seen
  <2> QED
    BY <2>1 DEF WorldInv, Heard
<1>3. CASE c2s' = c2s
  BY <1>1, <1>2, <1>3 DEF WorldInv, ChannelsTyped, Awaited
<1>4. CASE c2s # <<>> /\ c2s' = Tail(c2s) /\ Request.type # "set block"
  <2>1. ChannelsTyped'
    BY <1>4, TakenIsFit DEF WorldInv, ChannelsTyped
  <2>2. Awaited'
    BY <1>4, AwaitedStays
  <2> QED
    BY <1>1, <1>2, <2>1, <2>2 DEF WorldInv
<1> QED
  BY <1>3, <1>4

LEMMA EntitiesKeep == WorldInv /\ (HandleManipulateEntity \/ HandleSpawnEntity) => WorldInv'
<1> SUFFICES ASSUME WorldInv, HandleManipulateEntity \/ HandleSpawnEntity PROVE WorldInv'
  OBVIOUS
<1>1. kicked \in BOOLEAN
  BY DEF WorldInv, ClientTyped
<1>2. CASE HandleManipulateEntity
  <2>1. /\ UNCHANGED <<kind, dim, worlds, s2c, view, pending, sent, kicked>>
        /\ c2s # <<>> /\ c2s' = Tail(c2s) /\ Request.type # "set block"
    BY <1>2 DEF HandleManipulateEntity, Taken, Request
  <2> QED
    BY <1>1, <2>1, QuietStepKeeps
<1>3. CASE HandleSpawnEntity
  <2>1. /\ UNCHANGED <<kind, dim, worlds, s2c, view, pending, sent, kicked>>
        /\ c2s # <<>> /\ c2s' = Tail(c2s) /\ Request.type # "set block"
    BY <1>3, Zenon DEF HandleSpawnEntity, Taken, Request
  <2> QED
    BY <1>1, <2>1, QuietStepKeeps
<1> QED
  BY <1>2, <1>3

LEMMA ControlKeeps == WorldInv /\ HandleControl => WorldInv'
<1> SUFFICES ASSUME WorldInv, HandleControl PROVE WorldInv'
  OBVIOUS
<1> DEFINE wrong == Request.type = "gamemode" /\ ~IsMode(Request.mode)
<1>1. Fails(wrong) /\ UNCHANGED <<kind, dim, worlds, s2c, view, pending, sent>>
  BY DEF HandleControl
<1>2. c2s # <<>> /\ c2s' = Tail(c2s) /\ Request.type # "set block"
  BY DEF HandleControl, Taken, Request
<1>3. kicked \in BOOLEAN /\ wrong \in BOOLEAN
  BY DEF WorldInv, ClientTyped
<1> HIDE DEF wrong
<1>4. kicked' \in BOOLEAN /\ (kicked => kicked')
  BY <1>1, <1>3 DEF Fails
<1> QED
  BY <1>1, <1>2, <1>4, QuietStepKeeps

LEMMA AppendJoins ==
  ASSUME NEW s, IsQueue(s), NEW m
  PROVE  Append(s, m) = s \o <<m>>
<1> DEFINE X == Range(s) \cup {m}
<1>1. s \in Seq(X) /\ m \in X
  BY DEF IsQueue
<1> HIDE DEF X
<1> QED
  BY <1>1

\* The host sends the world the player arrives in.
LEMMA ArrivingKeeps ==
  ASSUME WorldInv, NEW d \in Dims, ArriveIn(d),
         UNCHANGED <<kind, worlds, view, pending, kicked, sent>>,
         c2s' = c2s \/ (c2s # <<>> /\ c2s' = Tail(c2s) /\ Request.type # "set block")
  PROVE  WorldInv'
<1>1. CASE d = dim
  <2>1. UNCHANGED <<dim, s2c>>
    BY <1>1 DEF ArriveIn
  <2> QED
    BY <2>1, QuietStepKeeps DEF WorldInv, ClientTyped
<1>2. CASE d # dim
  <2> DEFINE w == worlds[d]
             m == [type |-> "world", cells |-> ShownAs(w)]
  <2>1. dim' = d /\ s2c' = Append(s2c, m)
    BY <1>2 DEF ArriveIn
  <2>2. w \in WorldStates /\ AreMessages(s2c)
    BY DEF WorldInv, PlaceTyped, ChannelsTyped
  <2>3. m.type = "world" /\ m.cells = ShownAs(w)
    OBVIOUS
  <2> HIDE DEF m
  <2>4. IsMessage(m) /\ \A p \in Shown : Tells(m, p) /\ m.cells[p] = Sees(w)[p]
    BY <2>2, <2>3, ShownIsSeen DEF IsMessage, Tells, Sees
  <2>5. AreMessages(<<m>>) /\ \A i \in DOMAIN <<m>> : <<m>>[i] = m
    BY <2>4, OneMessage
  <2>6. \A p \in Shown : LastWord(<<m>>, p, Sees(Here)[p], Sees(w)[p])
    <3>1. 1 \in DOMAIN <<m>> /\ \A j \in DOMAIN <<m>> : j <= 1
      BY OneIndex
    <3> QED
      BY <2>4, <2>5, <3>1 DEF LastWord
  <2>7. \A p \in Shown : LastWord(s2c, p, Beliefs[p], Sees(Here)[p])
    BY DEF WorldInv, Heard, Here, Sees, Beliefs
  <2>8. s2c' = s2c \o <<m>>
    BY <2>1, <2>2, AppendJoins DEF AreMessages
  <2>9. AreMessages(s2c') /\ \A p \in Shown : LastWord(s2c', p, Beliefs[p], Sees(w)[p])
    BY <2>2, <2>5, <2>6, <2>7, <2>8, AddsUp
  <2>10. \A n : AcksIn(s2c, n) => AcksIn(s2c', n)
    BY <2>2, <2>5, <2>8, MessagesJoin
  <2>11. \A p \in Shown : Believed(p)' = Beliefs[p] /\ Seen(kind, worlds[dim], p)' = Sees(w)[p]
    BY <2>1 DEF Believed, Beliefs, Seen, Sees
  <2>12. Heard'
    BY <2>9, <2>11 DEF Heard
  <2>13. PlaceTyped' /\ ClientTyped'
    BY <2>1 DEF WorldInv, PlaceTyped, ClientTyped
  <2>14. CASE c2s' = c2s
    BY <2>9, <2>10, <2>12, <2>13, <2>14 DEF WorldInv, ChannelsTyped, Awaited
  <2>15. CASE c2s # <<>> /\ c2s' = Tail(c2s) /\ Request.type # "set block"
    <3>1. Awaited'
      BY <2>10, <2>15, AwaitedStays
    <3>2. c2s' \in Seq(Requests)
      BY <2>15, TakenIsFit
    <3> QED
      BY <2>9, <2>12, <2>13, <3>1, <3>2 DEF WorldInv, ChannelsTyped
  <2> QED
    BY <2>14, <2>15
<1> QED
  BY <1>1, <1>2

LEMMA TeleportKeeps == WorldInv /\ HandleTeleport => WorldInv'
<1> SUFFICES ASSUME WorldInv, HandleTeleport PROVE WorldInv'
  OBVIOUS
<1>1. TeleportGoal(Request, dim) \in Dims
  BY DEF WorldInv, PlaceTyped, TeleportGoal
<1>2. /\ c2s # <<>> /\ c2s' = Tail(c2s) /\ Request.type # "set block"
      /\ ArriveIn(TeleportGoal(Request, dim))
      /\ UNCHANGED <<kind, worlds, view, pending, kicked, sent>>
  BY DEF HandleTeleport, Taken, Request
<1> QED
  BY <1>1, <1>2, ArrivingKeeps

LEMMA TravelKeeps == WorldInv /\ Travel => WorldInv'
<1> SUFFICES ASSUME WorldInv, Travel PROVE WorldInv'
  OBVIOUS
<1>1. PICK d \in Dims \ {dim} : ArriveIn(d)
  BY DEF Travel
<1>2. UNCHANGED <<kind, worlds, view, pending, kicked, sent>> /\ c2s' = c2s
  BY DEF Travel
<1> QED
  BY <1>1, <1>2, ArrivingKeeps

LEMMA PermissionsKeep == WorldInv /\ (Operators \/ Refresh) => WorldInv'
<1> SUFFICES ASSUME WorldInv, Operators \/ Refresh PROVE WorldInv'
  OBVIOUS
<1>1. UNCHANGED <<kind, dim, worlds, s2c, view, pending, sent, kicked>> /\ c2s' = c2s
  BY DEF Operators, Refresh
<1> QED
  BY <1>1, QuietStepKeeps DEF WorldInv, ClientTyped

LEMMA OthersKeep == WorldInv /\ OthersBuild => WorldInv'
<1> SUFFICES ASSUME WorldInv, OthersBuild PROVE WorldInv'
  OBVIOUS
<1>1. PICK stray \in Strays :
        LET w == SetBlockState(Here, stray.pos, stray.state, {"notify listeners"})
        IN worlds' = [worlds EXCEPT ![dim] = w] /\ s2c' = s2c \o Updates(Here, w)
  BY Zenon DEF OthersBuild
<1> DEFINE new == SetBlockState(Here, stray.pos, stray.state, {"notify listeners"})
<1>2. Here \in WorldStates /\ stray.state \in States
  BY WorldAssumption DEF WorldInv, PlaceTyped, Here, States
<1>3. new \in WorldStates
  BY <1>2, SetBlockStateTyped
<1> HIDE DEF new
<1>4. worlds' = [worlds EXCEPT ![dim] = new] /\ s2c' = s2c \o Updates(Here, new)
  BY <1>1 DEF new
<1>5. UNCHANGED <<kind, dim, view, pending, kicked, sent, c2s>>
  BY DEF OthersBuild
<1>6. AreQuiet(<<>>)
  BY QuietOnes
<1>7. s2c' = s2c \o <<>> \o Updates(Here, new) \o <<>>
  <2>1. IsQueue(s2c) /\ IsQueue(Updates(Here, new))
    BY <1>2, <1>3, UpdatesSay DEF WorldInv, ChannelsTyped, AreMessages
  <2>2. s2c \o <<>> = s2c
    BY <2>1 DEF IsQueue
  <2>3. IsQueue(s2c \o Updates(Here, new))
    BY <2>1, QueueJoins
  <2>4. (s2c \o Updates(Here, new)) \o <<>> = s2c \o Updates(Here, new)
    BY <2>3 DEF IsQueue
  <2> QED
    BY <1>4, <2>2, <2>4
<1>8. EditKept(<<>>)
  BY <1>3, <1>4, <1>5, <1>6, <1>7, WorldChanges DEF WorldInv, ChannelsTyped, ClientTyped
<1>9. Awaited'
  BY <1>5, <1>8 DEF EditKept, WorldInv, Awaited
<1> QED
  BY <1>8, <1>9 DEF EditKept, WorldInv

LEMMA UnloadKeeps == WorldInv /\ Unload => WorldInv'
<1> SUFFICES ASSUME WorldInv, Unload PROVE WorldInv'
  OBVIOUS
<1>1. PICK c : worlds' = [worlds EXCEPT ![dim].loaded = @ \ {c}]
  BY DEF Unload
<1>2. UNCHANGED <<kind, dim, s2c, view, pending, kicked, sent, c2s>>
  BY DEF Unload
<1> DEFINE new == [Here EXCEPT !.loaded = @ \ {c}]
<1>3. Here \in WorldStates /\ worlds' = [worlds EXCEPT ![dim] = new]
  BY <1>1 DEF WorldInv, PlaceTyped, Here
<1>4. new \in WorldStates /\ new.blocks = Here.blocks
  BY <1>3, WorldStatesAre
<1> HIDE DEF new
<1>5. worlds' \in [Dims -> WorldStates] /\ worlds'[dim] = new
  BY <1>3, <1>4 DEF WorldInv, PlaceTyped
<1>6. \A p \in Shown : Believed(p)' = Believed(p) /\ Seen(kind, worlds[dim], p)' = Seen(kind, worlds[dim], p)
  BY <1>2, <1>4, <1>5 DEF Believed, Seen, Here
<1> QED
  BY <1>2, <1>5, <1>6 DEF WorldInv, PlaceTyped, ClientTyped, ChannelsTyped, Heard, Awaited

\* Whatever the client reads, what it will show in the end stays the same, and what an
\* acknowledgement settles it no longer waits for.
LEMMA ReceiveKeeps == WorldInv /\ Receive => WorldInv'
<1> SUFFICES ASSUME WorldInv, Receive PROVE WorldInv'
  OBVIOUS
<1> DEFINE m    == Head(s2c)
           done == IF m.type = "ack"
                   THEN {p \in DOMAIN pending : pending[p].sequence <= m.sequence} ELSE {}
<1>1. /\ s2c # <<>> /\ s2c' = Tail(s2c)
      /\ UNCHANGED <<kind, dim, worlds, c2s, kicked, sent>>
  BY DEF Receive
<1>2. \/ /\ m.type = "ack"
         /\ view' = [p \in Shown |-> IF p \in done THEN pending[p].known ELSE view[p]]
         /\ pending' = [p \in DOMAIN pending \ done |-> pending[p]]
      \/ /\ m.type = "blocks"
         /\ view' = [p \in Shown |-> IF p \in DOMAIN m.cells \ DOMAIN pending
                                     THEN m.cells[p] ELSE view[p]]
         /\ pending' = [p \in DOMAIN pending |->
              IF p \in DOMAIN m.cells THEN [pending[p] EXCEPT !.known = m.cells[p]]
              ELSE pending[p]]
      \/ m.type = "world" /\ view' = m.cells /\ pending' = <<>>
      \/ m.type \in {"answer", "message"} /\ UNCHANGED <<view, pending>>
  BY Zenon DEF Receive
<1>3. AreMessages(s2c') /\ IsMessage(m)
      /\ \A n : AcksIn(s2c, n) => AcksIn(s2c', n) \/ (m.type = "ack" /\ m.sequence = n)
  BY <1>1, MessagesRest DEF WorldInv, ChannelsTyped
<1> HIDE DEF m
<1>4. \A p \in Shown :
        LastWord(s2c', p, IF Tells(m, p) THEN m.cells[p] ELSE Believed(p), Seen(kind, worlds[dim], p))
  BY <1>1, LastWordRests DEF WorldInv, ChannelsTyped, AreMessages, Heard, m
<1>5. /\ view \in [Shown -> Nat] /\ DOMAIN pending \subseteq Shown
      /\ pending \in [DOMAIN pending -> [sequence: Nat, known: Nat]]
  BY DEF WorldInv, ClientTyped
<1>6. PlaceTyped' /\ ChannelsTyped'
  BY <1>1, <1>3 DEF WorldInv, PlaceTyped, ChannelsTyped
<1> DEFINE Reads == /\ ClientTyped' /\ Awaited'
                    /\ \A p \in Shown : Believed(p)' = IF Tells(m, p) THEN m.cells[p] ELSE Believed(p)
<1>7. ASSUME m.type = "ack" PROVE Reads
  <2>1. /\ view' = [p \in Shown |-> IF p \in done THEN pending[p].known ELSE view[p]]
        /\ pending' = [p \in DOMAIN pending \ done |-> pending[p]]
    BY <1>2, <1>7
  <2>2. /\ DOMAIN pending' = DOMAIN pending \ done /\ \A p \in DOMAIN pending' : pending'[p] = pending[p]
        /\ done \subseteq DOMAIN pending
    BY <2>1
  <2>3. ASSUME NEW p \in DOMAIN pending' PROVE ~(pending[p].sequence = m.sequence)
    <3>1. m.sequence \in Nat
      BY <1>3, <1>7 DEF IsMessage
    <3>2. p \in DOMAIN pending /\ pending[p].sequence \in Nat /\ ~(pending[p].sequence <= m.sequence)
      BY <1>5, <1>7, <2>2
    <3> QED
      BY <3>1, <3>2
  <2> HIDE DEF done
  <2>4. ClientTyped'
    <3>1. view' \in [Shown -> Nat]
      <4>1. \A p \in done : pending[p].known \in Nat
        BY <1>5, <2>2
      <4> QED
        BY <1>5, <2>1, <4>1
    <3>2. pending' \in [DOMAIN pending' -> [sequence: Nat, known: Nat]]
      BY <1>5, <2>1, <2>2
    <3> QED
      BY <1>1, <1>5, <2>2, <3>1, <3>2 DEF WorldInv, ClientTyped
  <2>5. Awaited'
    <3>1. ASSUME NEW p \in DOMAIN pending'
          PROVE  kicked \/ AsksIn(c2s, pending[p].sequence) \/ AcksIn(s2c', pending[p].sequence)
      BY <1>3, <2>2, <2>3 DEF WorldInv, Awaited
    <3> QED
      BY <1>1, <2>2, <3>1 DEF Awaited
  <2>6. \A p \in Shown : Believed(p)' = Believed(p)
    BY <2>1, <2>2 DEF Believed
  <2> QED
    BY <1>7, <2>4, <2>5, <2>6 DEF Tells
<1>8. ASSUME m.type = "blocks" PROVE Reads
  <2>1. /\ view' = [p \in Shown |-> IF p \in DOMAIN m.cells \ DOMAIN pending
                                    THEN m.cells[p] ELSE view[p]]
        /\ pending' = [p \in DOMAIN pending |->
             IF p \in DOMAIN m.cells THEN [pending[p] EXCEPT !.known = m.cells[p]]
             ELSE pending[p]]
    BY <1>2, <1>8
  <2>2. DOMAIN m.cells \subseteq Shown /\ \A p \in DOMAIN m.cells : m.cells[p] \in Nat
    BY <1>3, <1>8 DEF IsMessage
  <2>3. ASSUME NEW p \in DOMAIN pending
        PROVE  /\ p \in DOMAIN pending' /\ pending'[p] \in [sequence: Nat, known: Nat]
               /\ pending'[p].sequence = pending[p].sequence
               /\ pending'[p].known = IF p \in DOMAIN m.cells THEN m.cells[p] ELSE pending[p].known
    BY <1>5, <2>1, <2>2
  <2>4. DOMAIN pending' = DOMAIN pending
    BY <2>1
  <2>5. ClientTyped'
    <3>1. view' \in [Shown -> Nat]
      BY <1>5, <2>1, <2>2
    <3>2. pending' \in [DOMAIN pending' -> [sequence: Nat, known: Nat]]
      BY <2>1, <2>3, <2>4
    <3> QED
      BY <1>1, <1>5, <2>4, <3>1, <3>2 DEF WorldInv, ClientTyped
  <2>6. Awaited'
    BY <1>1, <1>3, <1>8, <2>3, <2>4 DEF WorldInv, Awaited
  <2>7. \A p \in Shown : Believed(p)' = IF p \in DOMAIN m.cells THEN m.cells[p] ELSE Believed(p)
    BY <2>1, <2>3, <2>4 DEF Believed
  <2> QED
    BY <1>8, <2>5, <2>6, <2>7 DEF Tells
<1>9. ASSUME m.type = "world" PROVE Reads
  <2>1. view' = m.cells /\ pending' = <<>> /\ view' \in [Shown -> Nat]
    BY <1>2, <1>3, <1>9 DEF IsMessage
  <2>2. DOMAIN pending' = {} /\ pending' \in [DOMAIN pending' -> [sequence: Nat, known: Nat]]
    BY <2>1
  <2> QED
    BY <1>1, <1>9, <2>1, <2>2 DEF WorldInv, ClientTyped, Awaited, Believed, Tells
<1>10. ASSUME m.type \in {"answer", "message"} PROVE Reads
  <2>1. UNCHANGED <<view, pending>>
    BY <1>2, <1>10
  <2> QED
    BY <1>1, <1>3, <1>10, <2>1 DEF WorldInv, ClientTyped, Awaited, Believed, Tells
<1>11. Reads
  BY <1>2, <1>7, <1>8, <1>9, <1>10
<1>12. Heard'
  <2>1. ASSUME NEW p \in Shown PROVE LastWord(s2c', p, Believed(p)', Seen(kind, worlds[dim], p)')
    <3>1. Seen(kind, worlds[dim], p)' = Seen(kind, worlds[dim], p)
      BY <1>1 DEF Seen
    <3>2. Believed(p)' = IF Tells(m, p) THEN m.cells[p] ELSE Believed(p)
      BY <1>11
    <3> QED
      BY <1>4, <3>1, <3>2
  <2> QED
    BY <2>1 DEF Heard
<1> QED
  BY <1>6, <1>11, <1>12 DEF WorldInv

LEMMA LastAtTyped ==
  ASSUME NEW r, r.blocks \in Seq([pos: Positions, state: Nat]), NEW p \in Predicted(r)
  PROVE  LastAt(r, p).state \in Nat
<1> DEFINE q == r.blocks
           T == {m \in Nat : m <= Len(q) /\ Len(q) - m \in DOMAIN q /\ q[Len(q) - m].pos = p}
           IsLast(k) == q[k].pos = p /\ \A j \in DOMAIN q : q[j].pos = p => j <= k
<1>1. q \in Seq([pos: Positions, state: Nat]) /\ \E k \in DOMAIN q : q[k].pos = p
  BY DEF Predicted
<1>2. LastAt(r, p) = q[CHOOSE k \in DOMAIN q : IsLast(k)]
  BY Zenon DEF LastAt
<1> HIDE DEF q
<1>3. Len(q) \in Nat /\ DOMAIN q = 1..Len(q)
  BY <1>1
<1>4. PICK k \in DOMAIN q : q[k].pos = p
  BY <1>1
<1>5. Len(q) - k \in T
  <2>1. Len(q) - k \in Nat /\ Len(q) - k <= Len(q) /\ Len(q) - (Len(q) - k) = k
    BY <1>3
  <2> QED
    BY <1>4, <2>1
<1>6. PICK m \in T : \A n \in T : m <= n
  BY <1>5, LeastNat
<1>7. Len(q) - m \in DOMAIN q /\ q[Len(q) - m].pos = p /\ m \in Nat
  BY <1>6
<1>8. ASSUME NEW j \in DOMAIN q, q[j].pos = p PROVE j <= Len(q) - m
  <2>1. Len(q) - j \in Nat /\ Len(q) - j <= Len(q) /\ Len(q) - (Len(q) - j) = j
    BY <1>3
  <2>2. Len(q) - j \in T
    BY <1>8, <2>1
  <2>3. m <= Len(q) - j
    BY <1>6, <2>2
  <2> QED
    BY <1>3, <1>7, <2>3
<1>9. IsLast(Len(q) - m)
  BY <1>7, <1>8
<1> HIDE DEF IsLast
<1>10. (CHOOSE i \in DOMAIN q : IsLast(i)) \in DOMAIN q
  BY <1>7, <1>9
<1>11. q[CHOOSE i \in DOMAIN q : IsLast(i)] \in [pos: Positions, state: Nat]
  BY <1>1, <1>10, ElementTyped
<1> QED
  BY <1>2, <1>11

\* A prediction remembers what the server said before it, and is numbered as its request.
LEMMA SendKeeps == WorldInv /\ Send => WorldInv'
<1> SUFFICES ASSUME WorldInv, Send PROVE WorldInv'
  OBVIOUS
<1>1. PICK i \in DOMAIN Menu[kind] :
        LET r == Menu[kind][i]
        IN IF ~Predicts(r) THEN c2s' = Append(c2s, r) /\ UNCHANGED <<view, pending>> ELSE
           /\ c2s' = Append(c2s, [r EXCEPT !.sequence = sent])
           /\ view' = [p \in Shown |-> IF p \in Predicted(r) THEN LastAt(r, p).state ELSE view[p]]
           /\ pending' = [p \in DOMAIN pending \cup Predicted(r) |->
                IF p \in Predicted(r)
                THEN [sequence |-> sent,
                      known    |-> IF p \in DOMAIN pending THEN pending[p].known ELSE view[p]]
                ELSE pending[p]]
  BY Zenon DEF Send
<1>2. sent' = sent + 1 /\ UNCHANGED <<kind, dim, worlds, s2c, kicked>>
  BY DEF Send
<1> DEFINE r == Menu[kind][i]
           own == [r EXCEPT !.sequence = sent]
<1>3. r \in Menus
  BY DEF WorldInv, PlaceTyped, Menus, Asked, Range
<1> HIDE DEF r
<1>4. r \in Requests /\ WellFormed(r)
  BY <1>3, MenuFits DEF Requests
<1>5. /\ view \in [Shown -> Nat] /\ DOMAIN pending \subseteq Shown /\ sent \in Nat
      /\ pending \in [DOMAIN pending -> [sequence: Nat, known: Nat]] /\ kicked \in BOOLEAN
  BY DEF WorldInv, ClientTyped
<1>6. c2s \in Seq(Requests) /\ PlaceTyped'
  BY <1>2 DEF WorldInv, PlaceTyped, ChannelsTyped
<1>7. CASE ~Predicts(r)
  <2>1. c2s' = Append(c2s, r) /\ UNCHANGED <<view, pending>>
    BY <1>1, <1>7 DEF r
  <2>2. c2s' \in Seq(Requests) /\ \A n : AsksIn(c2s, n) => AsksIn(c2s', n)
    BY <1>4, <1>6, <2>1, RequestsAppend
  <2>3. Awaited'
    BY <1>2, <2>1, <2>2 DEF WorldInv, Awaited
  <2>4. Heard'
    <3>1. \A p \in Shown : Believed(p)' = Believed(p) /\ Seen(kind, worlds[dim], p)' = Seen(kind, worlds[dim], p)
      BY <1>2, <2>1 DEF Believed, Seen
    <3> QED
      BY <1>2, <3>1 DEF WorldInv, Heard
  <2>5. ClientTyped' /\ ChannelsTyped'
    BY <1>2, <2>1, <2>2 DEF WorldInv, ClientTyped, ChannelsTyped
  <2> QED
    BY <1>6, <2>3, <2>4, <2>5 DEF WorldInv
<1>8. CASE Predicts(r)
  <2> DEFINE P == Predicted(r)
  <2>1. /\ c2s' = Append(c2s, own)
        /\ view' = [p \in Shown |-> IF p \in P THEN LastAt(r, p).state ELSE view[p]]
        /\ pending' = [p \in DOMAIN pending \cup P |->
             IF p \in P
             THEN [sequence |-> sent,
                   known    |-> IF p \in DOMAIN pending THEN pending[p].known ELSE view[p]]
             ELSE pending[p]]
    BY <1>1, <1>8, Zenon DEF r
  <2>2. r.type = "set block" /\ "sequence" \in DOMAIN r /\ "type" \in DOMAIN r
        /\ r.blocks \in Seq([pos: Positions, state: Nat])
    BY <1>4, <1>8, SetBlockFits DEF Predicts
  <2>3. own \in Requests /\ own.type = "set block" /\ own.sequence = sent
    <3>1. own \in Numbered
      BY <1>3, <1>5, <1>8 DEF Numbered
    <3> QED
      BY <2>2, <3>1 DEF Requests
  <2>4. P \subseteq Shown /\ \A p \in P : LastAt(r, p).state \in Nat
    BY <2>2, LastAtTyped DEF Predicted
  <2> HIDE DEF P, own
  <2>5. c2s' \in Seq(Requests) /\ \A n : AsksIn(c2s, n) \/ sent = n => AsksIn(c2s', n)
    BY <1>6, <2>1, <2>3, RequestsAppend
  <2>6. /\ DOMAIN pending' = DOMAIN pending \cup P
        /\ \A p \in P : pending'[p] = [sequence |-> sent,
             known |-> IF p \in DOMAIN pending THEN pending[p].known ELSE view[p]]
        /\ \A p \in DOMAIN pending \ P : pending'[p] = pending[p]
    BY <2>1
  <2>7. ASSUME NEW p \in DOMAIN pending'
        PROVE  /\ pending'[p] \in [sequence: Nat, known: Nat]
               /\ pending'[p].known = Believed(p)
               /\ pending'[p].sequence = IF p \in P THEN sent ELSE pending[p].sequence
    <3>1. CASE p \in P
      <4>1. pending'[p] = [sequence |-> sent, known |-> Believed(p)]
        BY <2>6, <3>1 DEF Believed
      <4>2. Believed(p) \in Nat
        BY <1>5, <2>4, <3>1 DEF Believed
      <4> QED
        BY <1>5, <3>1, <4>1, <4>2
    <3>2. CASE p \notin P
      BY <1>5, <2>6, <3>2 DEF Believed
    <3> QED
      BY <3>1, <3>2
  <2>8. ClientTyped'
    <3>1. view' \in [Shown -> Nat]
      BY <1>5, <2>1, <2>4
    <3>2. pending' \in [DOMAIN pending' -> [sequence: Nat, known: Nat]]
      BY <2>1, <2>6, <2>7
    <3> QED
      BY <1>2, <1>5, <2>4, <2>6, <3>1, <3>2 DEF ClientTyped
  <2>9. Awaited'
    <3>1. ASSUME NEW p \in DOMAIN pending'
          PROVE  kicked \/ AsksIn(c2s', pending'[p].sequence) \/ AcksIn(s2c, pending'[p].sequence)
      BY <2>5, <2>6, <2>7 DEF WorldInv, Awaited
    <3> QED
      BY <1>2, <3>1 DEF Awaited
  <2>10. Heard'
    <3>1. \A p \in Shown : Seen(kind, worlds[dim], p)' = Seen(kind, worlds[dim], p)
      BY <1>2 DEF Seen
    <3>2. ASSUME NEW p \in Shown PROVE Believed(p)' = Believed(p)
      <4>1. CASE p \in DOMAIN pending'
        BY <2>7, <4>1 DEF Believed
      <4>2. CASE p \notin DOMAIN pending'
        BY <2>1, <2>6, <4>2 DEF Believed
      <4> QED
        BY <4>1, <4>2
    <3> QED
      BY <1>2, <3>1, <3>2 DEF WorldInv, Heard
  <2>11. ChannelsTyped'
    BY <1>2, <2>5 DEF WorldInv, ChannelsTyped
  <2> QED
    BY <1>6, <2>8, <2>9, <2>10, <2>11 DEF WorldInv
<1> QED
  BY <1>7, <1>8

LEMMA WorldInvHolds == WorldSpec => []WorldInv
<1>1. WorldInit => WorldInv
  <2> SUFFICES ASSUME WorldInit PROVE WorldInv
    OBVIOUS
  <2>1. PlaceTyped
    BY WorldAssumption DEF WorldInit, PlaceTyped
  <2>2. view = ShownAs(worlds[dim]) /\ worlds[dim] \in WorldStates
    BY <2>1 DEF WorldInit, PlaceTyped
  <2>3. view \in [Shown -> Nat] /\ \A p \in Shown : view[p] = Seen(kind, worlds[dim], p)
    BY <2>2, ShownIsSeen
  <2>4. /\ c2s = <<>> /\ s2c = <<>> /\ pending = <<>> /\ kicked = FALSE /\ sent = 0
    BY DEF WorldInit
  <2>5. DOMAIN pending = {} /\ pending \in [DOMAIN pending -> [sequence: Nat, known: Nat]]
    BY <2>4
  <2>6. ClientTyped
    BY <2>3, <2>4, <2>5 DEF ClientTyped
  <2>7. c2s \in Seq(Requests) /\ AreMessages(s2c)
    BY <2>4, QuietOnes DEF AreQuiet
  <2>8. \A i \in DOMAIN s2c : FALSE
    BY <2>4
  <2>9. Heard
    BY <2>3, <2>5, <2>8 DEF Heard, Believed, LastWord
  <2> QED
    BY <2>1, <2>5, <2>6, <2>7, <2>9 DEF WorldInv, ChannelsTyped, Awaited
<1>2. WorldInv /\ [WorldNext]_worldVars => WorldInv'
  <2> SUFFICES ASSUME WorldInv, [WorldNext]_worldVars PROVE WorldInv'
    OBVIOUS
  <2>1. CASE Handle
    BY <2>1, SetBlockKeeps, SetBufferKeeps, BiomeBufferKeeps, TickBlocksKeeps,
       RequestChunkDataKeeps, EntitiesKeep, ControlKeeps, TeleportKeeps DEF Handle
  <2>2. CASE UNCHANGED worldVars
    <3>1. UNCHANGED <<kind, dim, worlds, s2c, view, pending, sent, kicked, c2s>>
      BY <2>2 DEF worldVars
    <3> QED
      BY <3>1, QuietStepKeeps DEF WorldInv, ClientTyped
  <2> QED
    BY <2>1, <2>2, SendKeeps, ReceiveKeeps, PermissionsKeep, TravelKeeps, OthersKeep,
       UnloadKeeps DEF WorldNext
<1> QED
  BY <1>1, <1>2, PTL DEF WorldSpec

\* When nothing is under way and nobody was kicked the client shows the world as it is,
\* and holds on to no prediction, whatever it asked for, whoever built meanwhile and
\* wherever it travelled: every set_block that predicted was acknowledged.
THEOREM SettledViewsAgree == WorldSpec => []SettledViewAgrees
<1>1. WorldInv => SettledViewAgrees
  <2> SUFFICES ASSUME WorldInv, c2s = <<>>, s2c = <<>>, ~kicked
               PROVE  DOMAIN pending = {} /\ view = ShownAs(worlds[dim])
    BY DEF SettledViewAgrees
  <2>1. \A i \in DOMAIN <<>> : FALSE
    OBVIOUS
  <2>2. DOMAIN pending = {}
    BY <2>1 DEF WorldInv, Awaited, AsksIn, AcksIn
  <2>3. \A p \in Shown : view[p] = Seen(kind, worlds[dim], p)
    BY <2>1, <2>2 DEF WorldInv, Heard, LastWord, Believed
  <2>4. ShownAs(worlds[dim]) = [p \in Shown |-> Seen(kind, worlds[dim], p)]
    BY ShownIsSeen DEF WorldInv, PlaceTyped
  <2>5. view \in [Shown -> Nat]
    BY DEF WorldInv, ClientTyped
  <2> QED
    BY <2>2, <2>3, <2>4, <2>5
<1> QED
  BY <1>1, WorldInvHolds, PTL

-----------------------------------------------------------------------------
(***************************************************************************)
(* What World does with permissions is what Permissions allows, so all     *)
(* that was proved of the tree and its restrictions holds in the world.    *)
(***************************************************************************)

LEMMA HandlersLeaveRights == Handle => UNCHANGED permissionVars
<1>1. CASE HandleSetBlock \/ HandleSetBuffer \/ HandleBiomeBuffer \/ HandleTickBlocks
           \/ HandleRequestChunkData
  BY <1>1, Zenon DEF HandleSetBlock, HandleSetBuffer, HandleBiomeBuffer, HandleTickBlocks,
     HandleRequestChunkData, Edits
<1>2. CASE HandleManipulateEntity \/ HandleSpawnEntity \/ HandleControl \/ HandleTeleport
  BY <1>2, Zenon DEF HandleManipulateEntity, HandleSpawnEntity, HandleControl, HandleTeleport
<1> QED
  BY <1>1, <1>2 DEF Handle

LEMMA WorldIsPermitted == WorldSpec => PermissionsSpec
<1>1. WorldInit => PermissionsInit
  BY DEF WorldInit
<1>2. WorldInv /\ [WorldNext]_worldVars => [PermissionsNext]_permissionVars
  <2> SUFFICES ASSUME WorldInv, [WorldNext]_worldVars PROVE [PermissionsNext]_permissionVars
    OBVIOUS
  <2>1. CASE Send \/ Receive \/ Travel \/ OthersBuild \/ Unload
    <3>1. UNCHANGED permissionVars
      BY <2>1, Zenon DEF Send, Receive, Travel, OthersBuild, Unload
    <3> QED
      BY <3>1
  <2>2. CASE Handle
    BY <2>2, HandlersLeaveRights
  <2>3. CASE Operators
    <3>1. PICK own \in Rights[kind], prefer \in Preferences : Regrant(own, prefer)
      BY <2>3 DEF Operators
    <3>2. own \in Settings
      BY <3>1, WorldAssumption DEF WorldInv, PlaceTyped
    <3> QED
      BY <3>1, <3>2 DEF PermissionsNext
  <2>4. CASE Refresh
    BY <2>4 DEF Refresh, PermissionsNext
  <2>5. CASE UNCHANGED worldVars
    BY <2>5 DEF worldVars
  <2> QED
    BY <2>1, <2>2, <2>3, <2>4, <2>5 DEF WorldNext
<1> QED
  BY <1>1, <1>2, WorldInvHolds, PTL DEF WorldSpec, PermissionsSpec

\* While a world is built in, too, a client that was sent what holds now reads from its
\* restrictions exactly what has_perm will let its requests do.
THEOREM BuildersKnowTheirRights == WorldSpec => []ClientKnowsItsRights
BY WorldIsPermitted, ClientsKnowTheirRights, PTL

-----------------------------------------------------------------------------
ControlsTyped ==
  /\ mode \in Range(Modes) /\ speed \in -10..10 /\ noTrigger \in BOOLEAN
  /\ clock \in [Dims -> [time: Nat, advance: BOOLEAN]]

LEMMA ControlsFit ==
  ASSUME NEW r, WellFormed(r)
  PROVE  /\ r.type = "gamemode" => r.mode \in Nat
         /\ r.type = "fly speed" => r.speed \in Int
         /\ r.type = "world time" => r.time \in SUBSET Int
         /\ r.type = "no physical trigger" => r.enabled \in BOOLEAN
BY DEF WellFormed

LEMMA ModesAre ==
  ASSUME NEW n \in Nat, IsMode(n)
  PROVE  n \in {0, 1, 2, 3} /\ Modes[n + 1] \in Range(Modes)
<1>1. Len(Modes) = 4 /\ DOMAIN Modes = 1..4
  BY DEF Modes
<1>2. n \in {0, 1, 2, 3} /\ n + 1 \in DOMAIN Modes
  BY <1>1 DEF IsMode
<1> QED
  BY <1>2, Zenon DEF Range

LEMMA ClampedTyped == \A n \in Int : Clamped(n) \in -10..10
BY DEF Clamped

LEMMA TimeIsNatural ==
  ASSUME NEW T \in SUBSET Int, T # {}
  PROVE  (CHOOSE t \in T \cup {-u : u \in T} : t >= 0) \in Nat
<1> DEFINE S == T \cup {-u : u \in T}
<1>1. PICK u \in T : TRUE
  OBVIOUS
<1>2. u \in S /\ -u \in S /\ u \in Int /\ (u >= 0 \/ -u >= 0)
  BY <1>1
<1>3. S \in SUBSET Int
  <2>1. \A n \in Int : -n \in Int
    OBVIOUS
  <2>2. \A n \in T : n \in Int
    OBVIOUS
  <2> QED
    BY <2>1, <2>2
<1> HIDE DEF S
<1>4. \E t \in S : t >= 0
  BY <1>2
<1>5. (CHOOSE t \in S : t >= 0) \in S /\ (CHOOSE t \in S : t >= 0) >= 0
  BY <1>4
<1> QED
  BY <1>3, <1>5 DEF S

LEMMA ControlsKeep == WorldInv /\ ControlsTyped /\ HandleControl => ControlsTyped'
<1> SUFFICES ASSUME WorldInv, ControlsTyped, HandleControl PROVE ControlsTyped'
  OBVIOUS
<1> DEFINE r == Request
<1>1. c2s # <<>> /\ c2s' = Tail(c2s)
  BY DEF HandleControl, Taken
<1>2. WellFormed(r) /\ dim \in Dims
  BY <1>1, TakenIsFit DEF WorldInv, PlaceTyped
<1> HIDE DEF r
<1>3. CASE Taken("gamemode") /\ SetGamemode(Request)
  <2>1. r.type = "gamemode" /\ r.mode \in Nat
    BY <1>2, <1>3, ControlsFit DEF Taken, Request, r
  <2>2. IsMode(r.mode) => Modes[r.mode + 1] \in Range(Modes)
    BY <2>1, ModesAre
  <2>3. /\ mode' = IF IsMode(r.mode) /\ HasPerm(ModeNodes[r.mode + 1])
                   THEN Modes[r.mode + 1] ELSE mode
        /\ UNCHANGED <<speed, noTrigger, clock>>
    BY <1>3 DEF SetGamemode, r
  <2>4. mode' \in Range(Modes)
    BY <2>2, <2>3, Zenon DEF ControlsTyped
  <2> QED
    BY <2>3, <2>4 DEF ControlsTyped
<1>4. CASE Taken("fly speed") /\ SetFlySpeed(Request)
  <2>1. r.type = "fly speed" /\ r.speed \in Int
    BY <1>2, <1>4, ControlsFit DEF Taken, Request, r
  <2>2. Clamped(r.speed) \in -10..10
    BY <2>1, ClampedTyped
  <2> QED
    BY <1>4, <2>2 DEF SetFlySpeed, ControlsTyped, r
<1>5. CASE Taken("world time") /\ SetWorldTime(Request, dim)
  <2>1. r.type = "world time" /\ r.time \in SUBSET Int
    BY <1>2, <1>5, ControlsFit DEF Taken, Request, r
  <2> DEFINE time == IF r.time = {} THEN clock[dim].time
                     ELSE CHOOSE t \in r.time \cup {-u : u \in r.time} : t >= 0
             advance == IF r.freeze = {} THEN clock[dim].advance ELSE r.freeze = {FALSE}
  <2>2. clock \in [Dims -> [time: Nat, advance: BOOLEAN]]
    BY DEF ControlsTyped
  <2>3. time \in Nat /\ advance \in BOOLEAN
    BY <1>2, <2>1, <2>2, TimeIsNatural
  <2>4. /\ clock' = IF HasPerm(WORLD_TIME) /\ SameDimension(dim, r.dimension)
                    THEN [clock EXCEPT ![dim].time = time, ![dim].advance = advance]
                    ELSE clock
        /\ UNCHANGED <<mode, speed, noTrigger>>
    BY <1>5 DEF SetWorldTime, r
  <2> HIDE DEF time, advance
  <2>5. clock' \in [Dims -> [time: Nat, advance: BOOLEAN]]
    BY <1>2, <2>2, <2>3, <2>4
  <2> QED
    BY <2>4, <2>5 DEF ControlsTyped
<1>6. CASE Taken("no physical trigger") /\ SetNoPhysicalTrigger(Request)
  <2>1. r.type = "no physical trigger" /\ r.enabled \in BOOLEAN
    BY <1>2, <1>6, ControlsFit DEF Taken, Request, r
  <2> QED
    BY <1>6, <2>1 DEF SetNoPhysicalTrigger, ControlsTyped, r
<1> QED
  BY <1>3, <1>4, <1>5, <1>6 DEF HandleControl

\* The state of a player and its world has its types: worlds stay worlds whatever is
\* read from a request, the client's view has its cells, the controls their ranges.
THEOREM WorldTyped == WorldSpec => []WorldTypeOK
<1>1. WorldInit => ControlsTyped
  <2> SUFFICES ASSUME WorldInit PROVE ControlsTyped
    OBVIOUS
  <2>1. /\ mode = "creative" /\ speed = 1 /\ noTrigger = FALSE
        /\ clock = [d \in Dims |-> [time |-> 0, advance |-> TRUE]]
    BY DEF WorldInit, ControlsInit
  <2>2. 2 \in DOMAIN Modes /\ Modes[2] = "creative"
    BY DEF Modes
  <2>3. mode \in Range(Modes)
    BY <2>1, <2>2, Zenon DEF Range
  <2>4. speed \in -10..10 /\ noTrigger \in BOOLEAN
    <3>1. 1 \in -10..10 /\ FALSE \in BOOLEAN
      OBVIOUS
    <3> QED
      BY <2>1, <3>1, Zenon
  <2>5. clock \in [Dims -> [time: Nat, advance: BOOLEAN]]
    BY <2>1
  <2> QED
    BY <2>3, <2>4, <2>5, Zenon DEF ControlsTyped
<1>2. WorldInv /\ ControlsTyped /\ [WorldNext]_worldVars => ControlsTyped'
  <2> SUFFICES ASSUME WorldInv, ControlsTyped, [WorldNext]_worldVars PROVE ControlsTyped'
    OBVIOUS
  <2>1. CASE HandleControl
    BY <2>1, ControlsKeep
  <2>2. CASE UNCHANGED controlVars
    BY <2>2 DEF controlVars, ControlsTyped
  <2>3. CASE HandleSetBlock \/ HandleSetBuffer \/ HandleBiomeBuffer \/ HandleTickBlocks
             \/ HandleRequestChunkData
    <3>1. UNCHANGED controlVars
      BY <2>3, Zenon DEF HandleSetBlock, HandleSetBuffer, HandleBiomeBuffer, HandleTickBlocks,
         HandleRequestChunkData, Edits
    <3> QED
      BY <2>2, <3>1
  <2>4. CASE HandleManipulateEntity \/ HandleSpawnEntity \/ HandleTeleport
    <3>1. UNCHANGED controlVars
      BY <2>4, Zenon DEF HandleManipulateEntity, HandleSpawnEntity, HandleTeleport
    <3> QED
      BY <2>2, <3>1
  <2>5. CASE Send \/ Receive \/ Operators \/ Refresh \/ Travel \/ OthersBuild \/ Unload
    <3>1. UNCHANGED controlVars
      BY <2>5, Zenon DEF Send, Receive, Operators, Refresh, Travel, OthersBuild, Unload
    <3> QED
      BY <2>2, <3>1
  <2>6. CASE UNCHANGED worldVars
    BY <2>2, <2>6 DEF worldVars
  <2> QED
    BY <2>1, <2>3, <2>4, <2>5, <2>6 DEF WorldNext, Handle
<1>3. WorldInv /\ ControlsTyped /\ PermissionsTypeOK => WorldTypeOK
  BY DEF WorldInv, PlaceTyped, ClientTyped, ControlsTyped, WorldTypeOK
<1> QED
  BY <1>1, <1>2, <1>3, WorldInvHolds, WorldIsPermitted, PermissionsTyped, PTL DEF WorldSpec

-----------------------------------------------------------------------------
(***************************************************************************)
(* What a request may change.                                              *)
(***************************************************************************)

Changes == \/ worlds' # worlds \/ entities' # entities \/ dim' # dim
           \/ <<speed, noTrigger, clock>>' # <<speed, noTrigger, clock>>
Permitted(r) == HasPerm(Needs[r.type]) /\ ("dimension" \in DOMAIN r => Bare[r.dimension] = Bare[dim'])
StaysHere == \A d \in Dims \ {dim} : /\ worlds'[d] = worlds[d] /\ clock'[d] = clock[d]
                                    /\ entities'[d] = entities[d]
ModeIsAllowed == mode' # mode => HasPerm(NodeOfMode[mode'])

LEMMA NeedsAre ==
  /\ Needs["set block"] = BUILD_PLACE
  /\ Needs["buffer"] = BUILD_SECTION /\ Needs["biomes"] = BUILD_SECTION
  /\ Needs["tick"] = BUILD_DANGEROUS_TICK
  /\ Needs["chunk data"] = CHUNK_REQUEST
  /\ Needs["manipulate"] = ENTITY_MANIPULATE
  /\ Needs["spawn"] = ENTITY_SPAWN
  /\ Needs["fly speed"] = PLAYER_SPEED
  /\ Needs["world time"] = WORLD_TIME
  /\ Needs["no physical trigger"] = PLAYER_SETNOPHYSICALTRIGGER
  /\ Needs["teleport"] = PLAYER_TELEPORT
BY DEF Needs

\* A dimension is named by the requests that act in one, and by no other.
LEMMA Dimensions ==
  ASSUME NEW r, WellFormed(r)
  PROVE  "dimension" \in DOMAIN r <=> r.type \in WithDimension
BY Zenon DEF WellFormed

\* Only the handlers take a request from the channel.
LEMMA OnlyHandlersTake ==
  ASSUME WorldInv, WorldNext, c2s # <<>>, c2s' = Tail(c2s)
  PROVE  Handle
<1>1. c2s \in Seq(Requests) /\ Len(c2s) \in Nat /\ Len(c2s') = Len(c2s) - 1
  BY DEF WorldInv, ChannelsTyped
<1>2. ASSUME NEW r, c2s' = Append(c2s, r) PROVE FALSE
  <2> DEFINE X == Requests \cup {r}
  <2>1. c2s \in Seq(X) /\ r \in X
    BY <1>1
  <2> HIDE DEF X
  <2>2. Len(Append(c2s, r)) = Len(c2s) + 1
    BY <2>1
  <2> QED
    BY <1>1, <1>2, <2>2
<1>3. ~Send
  <2> SUFFICES ASSUME Send PROVE FALSE
    OBVIOUS
  <2>1. PICK i \in DOMAIN Menu[kind] :
          \/ c2s' = Append(c2s, Menu[kind][i])
          \/ c2s' = Append(c2s, [Menu[kind][i] EXCEPT !.sequence = sent])
    BY Zenon DEF Send
  <2> QED
    BY <1>2, <2>1
<1>4. c2s' # c2s
  <2>1. c2s' = c2s => Len(c2s') = Len(c2s)
    BY Zenon
  <2>2. Len(c2s') # Len(c2s)
    <3> DEFINE m == Len(c2s')
               n == Len(c2s)
    <3>1. n \in Nat /\ m = n - 1
      BY <1>1
    <3> HIDE DEF m, n
    <3>2. m # n
      BY <3>1
    <3> QED
      BY <3>2 DEF m, n
  <2> QED
    BY <2>1, <2>2, Zenon
<1>5. ~(Receive \/ Operators \/ Refresh \/ Travel \/ OthersBuild \/ Unload)
  BY <1>4, Zenon DEF Receive, Operators, Refresh, Travel, OthersBuild, Unload
<1> QED
  BY <1>3, <1>5 DEF WorldNext

EditIsAllowed == StaysHere /\ ModeIsAllowed /\ (Changes => Permitted(Request))

LEMMA EditsAreAllowed ==
  ASSUME WorldInv, NEW new, NEW before, NEW after, Edits(new, before, after),
         new # Here => HasPerm(Needs[Request.type]),
         new # Here /\ "dimension" \in DOMAIN Request => AimedAt(Request.dimension)
  PROVE  EditIsAllowed
<1>1. worlds' = [worlds EXCEPT ![dim] = new] /\ UNCHANGED <<controlVars, dim, entities>>
  BY DEF Edits
<1>2. UNCHANGED <<mode, speed, noTrigger, clock, dim, entities>>
  BY <1>1 DEF controlVars
<1>3. worlds \in [Dims -> WorldStates] /\ dim \in Dims
  BY DEF WorldInv, PlaceTyped
<1>4. StaysHere /\ ModeIsAllowed
  BY <1>1, <1>2, <1>3 DEF StaysHere, ModeIsAllowed
<1>5. CASE new = Here
  <2>1. worlds' = worlds
    BY <1>1, <1>3, <1>5 DEF Here
  <2>2. ~Changes
    BY <1>2, <2>1 DEF Changes
  <2> QED
    BY <1>4, <2>2 DEF EditIsAllowed
<1>6. CASE new # Here
  BY <1>2, <1>4, <1>6 DEF EditIsAllowed, Permitted, AimedAt, SameDimension
<1> QED
  BY <1>5, <1>6

LEMMA ControlsAreAllowed ==
  ASSUME WorldInv, ControlsTyped, HandleControl
  PROVE  EditIsAllowed
<1>1. c2s # <<>> /\ c2s' = Tail(c2s) /\ UNCHANGED <<worlds, entities, dim>>
  BY DEF HandleControl, Taken
<1>2. WellFormed(Request) /\ dim \in Dims /\ clock \in [Dims -> [time: Nat, advance: BOOLEAN]]
  BY <1>1, TakenIsFit DEF WorldInv, PlaceTyped, ControlsTyped
<1>3. CASE Taken("gamemode") /\ SetGamemode(Request)
  <2>1. Request.mode \in Nat /\ UNCHANGED <<speed, noTrigger, clock>>
    BY <1>2, <1>3, ControlsFit DEF Taken, Request, SetGamemode
  <2>2. ModeIsAllowed
    <3>1. ASSUME mode' # mode PROVE HasPerm(NodeOfMode[mode'])
      <4> DEFINE n == Request.mode
      <4>1. IsMode(n) /\ HasPerm(ModeNodes[n + 1]) /\ mode' = Modes[n + 1]
        BY <1>3, <3>1 DEF SetGamemode
      <4>2. n \in {0, 1, 2, 3}
        BY <2>1, <4>1, ModesAre
      <4> HIDE DEF n
      <4>3. \A i \in {0, 1, 2, 3} : NodeOfMode[Modes[i + 1]] = ModeNodes[i + 1]
        BY DEF NodeOfMode, Modes, ModeNodes
      <4> QED
        BY <4>1, <4>2, <4>3
    <3> QED
      BY <3>1 DEF ModeIsAllowed
  <2>3. StaysHere /\ ~Changes
    BY <1>1, <2>1 DEF StaysHere, Changes
  <2> QED
    BY <2>2, <2>3 DEF EditIsAllowed
<1>4. CASE Taken("fly speed") /\ SetFlySpeed(Request)
  <2>1. Request.type = "fly speed" /\ UNCHANGED <<mode, noTrigger, clock>>
        /\ (speed' # speed => HasPerm(PLAYER_SPEED))
    BY <1>4 DEF Taken, Request, SetFlySpeed
  <2>2. "dimension" \notin DOMAIN Request
    BY <1>2, <2>1, Dimensions DEF WithDimension
  <2>3. StaysHere /\ ModeIsAllowed /\ (Changes => HasPerm(Needs[Request.type]))
    BY <1>1, <2>1, NeedsAre DEF StaysHere, ModeIsAllowed, Changes
  <2> QED
    BY <2>2, <2>3 DEF EditIsAllowed, Permitted
<1>5. CASE Taken("world time") /\ SetWorldTime(Request, dim)
  <2>1. Request.type = "world time" /\ UNCHANGED <<mode, speed, noTrigger>>
        /\ (clock' # clock => HasPerm(WORLD_TIME) /\ SameDimension(dim, Request.dimension))
    BY <1>5 DEF Taken, Request, SetWorldTime
  <2>2. \A d \in Dims \ {dim} : clock'[d] = clock[d]
    BY <1>2, <1>5 DEF SetWorldTime
  <2>3. StaysHere /\ ModeIsAllowed /\ (Changes => Permitted(Request))
    BY <1>1, <2>1, <2>2, NeedsAre DEF StaysHere, ModeIsAllowed, Changes, Permitted, SameDimension
  <2> QED
    BY <2>3 DEF EditIsAllowed
<1>6. CASE Taken("no physical trigger") /\ SetNoPhysicalTrigger(Request)
  <2>1. Request.type = "no physical trigger" /\ UNCHANGED <<mode, speed, clock>>
        /\ (noTrigger' # noTrigger => HasPerm(PLAYER_SETNOPHYSICALTRIGGER))
    BY <1>6 DEF Taken, Request, SetNoPhysicalTrigger
  <2>2. "dimension" \notin DOMAIN Request
    BY <1>2, <2>1, Dimensions DEF WithDimension
  <2>3. StaysHere /\ ModeIsAllowed /\ (Changes => HasPerm(Needs[Request.type]))
    BY <1>1, <2>1, NeedsAre DEF StaysHere, ModeIsAllowed, Changes
  <2> QED
    BY <2>2, <2>3 DEF EditIsAllowed, Permitted
<1> QED
  BY <1>3, <1>4, <1>5, <1>6 DEF HandleControl

LEMMA HandlersAreAllowed ==
  ASSUME WorldInv, ControlsTyped, c2s # <<>>, c2s' = Tail(c2s), Handle
  PROVE  EditIsAllowed
<1>0. WellFormed(Request)
  BY TakenIsFit
<1>d. "dimension" \in DOMAIN Request <=> Request.type \in WithDimension
  BY <1>0, Dimensions
<1>1. CASE HandleSetBlock
  <2> DEFINE new == SetBlock(Here, Request, old)
             before == IF Acknowledges(Request)
                       THEN << [type |-> "ack", sequence |-> Request.sequence] >> ELSE <<>>
  <2>1. Request.type = "set block" /\ Edits(new, before, <<>>)
    BY <1>1 DEF HandleSetBlock, Taken, Request
  <2>2. "dimension" \notin DOMAIN Request
    BY <1>d, <2>1 DEF WithDimension
  <2>3. new # Here => HasPerm(Needs[Request.type])
    BY <2>1, NeedsAre DEF SetBlock
  <2> HIDE DEF new, before
  <2> QED
    BY <2>1, <2>2, <2>3, EditsAreAllowed
<1>2. CASE HandleSetBuffer
  <2> DEFINE may == HasPerm(BUILD_SECTION) /\ AimedAt(Request.dimension)
             new == IF may THEN SetBuffer(Here, Request, old) ELSE Here
  <2>1. Request.type = "buffer" /\ Edits(new, <<>>, <<>>)
    BY <1>2 DEF HandleSetBuffer, Taken, Request
  <2>2. new # Here => HasPerm(Needs[Request.type]) /\ AimedAt(Request.dimension)
    BY <2>1, NeedsAre
  <2> HIDE DEF new
  <2> QED
    BY <2>1, <2>2, EditsAreAllowed
<1>3. CASE HandleBiomeBuffer
  <2> DEFINE may == HasPerm(BUILD_SECTION) /\ AimedAt(Request.dimension)
             new == IF may THEN ApplyBiomeBuffer(Here, Request) ELSE Here
  <2>1. Request.type = "biomes" /\ Edits(new, <<>>, <<>>)
    BY <1>3 DEF HandleBiomeBuffer, Taken, Request
  <2>2. new # Here => HasPerm(Needs[Request.type]) /\ AimedAt(Request.dimension)
    BY <2>1, NeedsAre
  <2> HIDE DEF new
  <2> QED
    BY <2>1, <2>2, EditsAreAllowed
<1>4. CASE HandleTickBlocks
  <2> DEFINE may == RowsFit(Request) /\ HasPerm(BUILD_DANGEROUS_TICK) /\ AimedAt(Request.dimension)
             new == IF may THEN TickBlocks(Here, Request) ELSE Here
             after == IF may /\ TellsOfMore(Request) THEN << [type |-> "message"] >> ELSE <<>>
  <2>1. Request.type = "tick" /\ Edits(new, <<>>, after)
    BY <1>4 DEF HandleTickBlocks, Taken, Request
  <2>2. new # Here => HasPerm(Needs[Request.type]) /\ AimedAt(Request.dimension)
    BY <2>1, NeedsAre
  <2> HIDE DEF new, after
  <2> QED
    BY <2>1, <2>2, EditsAreAllowed
<1>5. CASE HandleRequestChunkData
  <2> DEFINE may == HasPerm(CHUNK_REQUEST) /\ AsksLittle(Request) /\ AimedAt(Request.dimension)
             new == IF may THEN LoadAsked(Here, Request) ELSE Here
  <2>1. Request.type = "chunk data" /\ \E after : Edits(new, <<>>, after)
    BY <1>5, Zenon DEF HandleRequestChunkData, Taken, Request
  <2>2. new # Here => HasPerm(Needs[Request.type]) /\ AimedAt(Request.dimension)
    BY <2>1, NeedsAre
  <2> HIDE DEF new
  <2> QED
    BY <2>1, <2>2, EditsAreAllowed
<1>6. CASE HandleManipulateEntity
  <2>1. /\ Request.type = "manipulate" /\ UNCHANGED <<controlVars, worlds, dim>>
        /\ (entities' # entities => HasPerm(ENTITY_MANIPULATE))
    BY <1>6, Zenon DEF HandleManipulateEntity, Taken, Request
  <2>3. \A d \in Dims \ {dim} : entities'[d] = entities[d]
    BY <1>6 DEF HandleManipulateEntity, FoundHere
  <2>2. "dimension" \notin DOMAIN Request
    BY <1>d, <2>1 DEF WithDimension
  <2> QED
    BY <2>1, <2>2, <2>3, NeedsAre
       DEF EditIsAllowed, StaysHere, ModeIsAllowed, Changes, Permitted, controlVars
<1>7. CASE HandleSpawnEntity
  <2>1. /\ Request.type = "spawn" /\ UNCHANGED <<controlVars, worlds, dim>>
        /\ (entities' # entities => HasPerm(ENTITY_SPAWN))
    BY <1>7, Zenon DEF HandleSpawnEntity, Taken, Request
  <2>3. \A d \in Dims \ {dim} : entities'[d] = entities[d]
    BY <1>7 DEF HandleSpawnEntity
  <2>2. "dimension" \notin DOMAIN Request
    BY <1>d, <2>1 DEF WithDimension
  <2> QED
    BY <2>1, <2>2, <2>3, NeedsAre
       DEF EditIsAllowed, StaysHere, ModeIsAllowed, Changes, Permitted, controlVars
<1>8. CASE HandleControl
  BY <1>8, ControlsAreAllowed
<1>9. CASE HandleTeleport
  <2>1. /\ Request.type = "teleport" /\ UNCHANGED <<controlVars, worlds, entities>>
        /\ dim' = TeleportGoal(Request, dim)
    BY <1>9 DEF HandleTeleport, Taken, Request, ArriveIn
  <2>2. dim' # dim => HasPerm(PLAYER_TELEPORT) /\ SameDimension(dim', Request.dimension)
    BY <2>1 DEF TeleportGoal
  <2> QED
    BY <2>1, <2>2, NeedsAre
       DEF EditIsAllowed, StaysHere, ModeIsAllowed, Changes, Permitted, controlVars, SameDimension
<1> QED
  BY <1>1, <1>2, <1>3, <1>4, <1>5, <1>6, <1>7, <1>8, <1>9 DEF Handle

LEMMA ControlsHold == WorldSpec => []ControlsTyped
BY WorldTyped, PTL DEF WorldTypeOK, ControlsTyped

\* Of everything that takes a request from the channel, no handler changes anything
\* without the permission for what it does, in another dimension than the one the client
\* named, or a block, a clock or an entity of a world the player is not in; no game mode is set without its own node.
THEOREM RequestsDoWhatIsAllowed == WorldSpec => OnlyWhatIsAllowed
<1> DEFINE Said(r) ==
      /\ \A d \in Dims \ {dim} : /\ worlds'[d] = worlds[d] /\ clock'[d] = clock[d]
                                /\ entities'[d] = entities[d]
      /\ mode' # mode => HasPerm(NodeOfMode[mode'])
      /\ \/ worlds' # worlds \/ entities' # entities \/ dim' # dim
         \/ <<speed, noTrigger, clock>>' # <<speed, noTrigger, clock>>
         => /\ HasPerm(Needs[r.type])
            /\ "dimension" \in DOMAIN r => Bare[r.dimension] = Bare[dim']
<1>1. WorldInv /\ ControlsTyped /\ [WorldNext]_worldVars =>
        [\A r \in IF c2s # <<>> /\ c2s' = Tail(c2s) THEN {Request} ELSE {} : Said(r)]_worldVars
  <2> SUFFICES ASSUME WorldInv, ControlsTyped, WorldNext, c2s # <<>>, c2s' = Tail(c2s)
               PROVE  Said(Request)
    OBVIOUS
  <2>1. EditIsAllowed
    BY OnlyHandlersTake, HandlersAreAllowed
  <2> QED
    BY <2>1 DEF EditIsAllowed, StaysHere, ModeIsAllowed, Changes, Permitted
<1> QED
  BY <1>1, WorldInvHolds, ControlsHold, PTL DEF WorldSpec, OnlyWhatIsAllowed

-----------------------------------------------------------------------------
(***************************************************************************)
(* Painting: what a painter writes is what the handler reads, a fold that  *)
(* reaches a biome keeps it, and what was touched is shown.                *)
(***************************************************************************)

\* What division gives of a number that was put together.
LEMMA TakenApart ==
  ASSUME NEW n \in Nat \ {0}, NEW low \in 0..n - 1, NEW high \in Int
  PROVE  (high * n + low) % n = low /\ (high * n + low) \div n = high
OBVIOUS

\* And that a number is put together of.
LEMMA PutTogether ==
  ASSUME NEW n \in Nat \ {0}, NEW v \in Int
  PROVE  v = (v \div n) * n + (v % n) /\ v % n \in 0..n - 1 /\ v \div n \in Int
OBVIOUS

LEMMA SignReturns ==
  ASSUME NEW span \in Nat \ {0}, span % 2 = 0, NEW v \in -(span \div 2)..span \div 2 - 1
  PROVE  v % span \in 0..span - 1 /\ Signed(v % span, span) = v
<1>1. PICK half \in Nat : span = 2 * half /\ span \div 2 = half
  OBVIOUS
<1>2. CASE v >= 0
  <2>1. v = 0 * span + v /\ v \in 0..span - 1
    BY <1>1, <1>2
  <2>2. v % span = v
    BY <2>1
  <2> QED
    BY <1>1, <2>1, <2>2 DEF Signed
<1>3. CASE v < 0
  <2>1. v + span \in 0..span - 1 /\ v = (-1) * span + (v + span)
    BY <1>1, <1>3
  <2>2. v % span = v + span
    <3> DEFINE low == v + span
    <3>1. low \in 0..span - 1 /\ v = (-1) * span + low
      BY <2>1
    <3> HIDE DEF low
    <3>2. v % span = low
      BY <3>1, TakenApart
    <3> QED
      BY <3>2 DEF low
  <2>3. v + span >= span \div 2
    BY <1>1
  <2> QED
    BY <1>1, <2>1, <2>2, <2>3 DEF Signed
<1> QED
  BY <1>2, <1>3

\* The key of a section is read as the client packed it, below zero too.
LEMMA KeysTravel ==
  ASSUME NEW key \in PackedKeys
  PROVE  UnpackBlockPos(PackBlockPos(key)) = key
<1> DEFINE H == Horizontal
           V == Vertical
           x == key[1] % H
           y == key[2] % V
           z == key[3] % H
<1>1. /\ H \in Nat \ {0} /\ V \in Nat \ {0} /\ H % 2 = 0 /\ V % 2 = 0
  BY SectionsAssumption
<1>2. /\ key[1] \in -(H \div 2)..H \div 2 - 1 /\ key[2] \in -(V \div 2)..V \div 2 - 1
      /\ key[3] \in -(H \div 2)..H \div 2 - 1 /\ key = <<key[1], key[2], key[3]>>
  BY DEF PackedKeys
<1>3. /\ x \in 0..H - 1 /\ Signed(x, H) = key[1] /\ y \in 0..V - 1 /\ Signed(y, V) = key[2]
      /\ z \in 0..H - 1 /\ Signed(z, H) = key[3]
  BY <1>1, <1>2, SignReturns
<1>4. PackBlockPos(key) = x * (H * V) + z * V + y
  BY DEF PackBlockPos
<1>5. UnpackBlockPos(PackBlockPos(key)) =
        LET v == x * (H * V) + z * V + y
        IN <<Signed(v \div (H * V), H), Signed(v % V, V), Signed((v \div V) % H, H)>>
  BY <1>4, Zenon DEF UnpackBlockPos
<1> HIDE DEF H, V, x, y, z
<1>6. x * (H * V) + z * V + y = (x * H + z) * V + y /\ x * H + z \in Int
  BY <1>1, <1>3
<1>7. (x * (H * V) + z * V + y) % V = y /\ (x * (H * V) + z * V + y) \div V = x * H + z
  <2> DEFINE high == x * H + z
  <2>1. high \in Int /\ x * (H * V) + z * V + y = high * V + y
    BY <1>6
  <2> HIDE DEF high
  <2>2. (high * V + y) % V = y /\ (high * V + y) \div V = high
    BY <1>1, <1>3, <2>1, TakenApart
  <2> QED
    BY <2>1, <2>2 DEF high
<1>8. (x * H + z) % H = z
  <2>1. x \in Int
    BY <1>1, <1>3
  <2> QED
    BY <1>1, <1>3, <2>1, TakenApart, Zenon
<1>9. (x * (H * V) + z * V + y) \div (H * V) = x
  <2> DEFINE n   == H * V
             low == z * V + y
  <2>1. n \in Nat \ {0}
    BY <1>1
  <2>2. z * V <= (H - 1) * V /\ 0 <= z * V /\ (H - 1) * V + V = n /\ low < z * V + V
    BY <1>1, <1>3
  <2>3. low \in 0..n - 1
    BY <1>1, <1>3, <2>1, <2>2
  <2>4. x * n + z * V + y = x * n + low
    BY <1>1, <1>3, <2>1
  <2> HIDE DEF n, low
  <2>5. (x * n + low) \div n = x
    BY <1>3, <2>1, <2>3, TakenApart
  <2> QED
    BY <2>4, <2>5 DEF n
<1> QED
  BY <1>2, <1>3, <1>5, <1>7, <1>8, <1>9, Zenon

\* Where the client put an entry, the handler paints.
LEMMA EntriesAreRead ==
  ASSUME NEW key, NEW o \in Offsets,
         NEW i, i = 1 + o[1] + BufferCells * (o[2] + BufferCells * o[3])
  PROVE  i \in 1..BufferVolume /\ CellAt(key, i - 1) = CellOf(key, o)
<1> DEFINE N == BufferCells
           a == o[2] + N * o[3]
           m == o[1] + N * a
<1>1. N \in Nat \ {0} /\ BufferVolume = N * N * N
  BY BiomeEditsAssumption DEF BufferVolume
<1>2. o[1] \in 0..N - 1 /\ o[2] \in 0..N - 1 /\ o[3] \in 0..N - 1
  BY DEF Offsets
<1>3. i = 1 + m
  BY <1>1, <1>2
<1>4. CellAt(key, m) = <<(key[1] * N + (m % N)) * CellBlocks,
                         (key[2] * N + ((m \div N) % N)) * CellBlocks,
                         (key[3] * N + ((m \div (N * N)) % N)) * CellBlocks>>
  BY Zenon DEF CellAt
<1>5. CellOf(key, o) = <<(key[1] * N + o[1]) * CellBlocks, (key[2] * N + o[2]) * CellBlocks,
                         (key[3] * N + o[3]) * CellBlocks>>
  BY Zenon DEF CellOf
<1>6. a \in 0..N * N - 1 /\ a % N = o[2]
  <2>1. 0 <= N * o[3] /\ N * o[3] <= N * (N - 1) /\ N * (N - 1) + N = N * N
    BY <1>1, <1>2
  <2>2. a = o[3] * N + o[2] /\ o[3] \in Int
    BY <1>1, <1>2
  <2>3. a \in 0..N * N - 1
    BY <1>1, <1>2, <2>1, <2>2
  <2> HIDE DEF N, a
  <2>4. (o[3] * N + o[2]) % N = o[2]
    BY <1>1, <1>2, <2>2, TakenApart, Zenon
  <2> QED
    BY <2>2, <2>3, <2>4
<1> HIDE DEF N, a
<1>7. a \in Int /\ m = a * N + o[1] /\ m \in Int
  BY <1>1, <1>2, <1>6
<1>8. m % N = o[1] /\ m \div N = a
  <2>1. (a * N + o[1]) % N = o[1] /\ (a * N + o[1]) \div N = a
    BY <1>1, <1>2, <1>7, TakenApart, Zenon
  <2> QED
    BY <1>7, <2>1, Zenon
<1>9. m \div (N * N) = o[3] /\ o[3] % N = o[3]
  <2> DEFINE n   == N * N
             low == N * o[2] + o[1]
  <2>1. n \in Nat \ {0} /\ o[3] \in Int
    BY <1>1, <1>2
  <2>2. 0 <= N * o[2] /\ N * o[2] <= N * (N - 1) /\ N * (N - 1) + N = n
    BY <1>1, <1>2
  <2>3. low \in 0..n - 1
    BY <1>1, <1>2, <2>1, <2>2
  <2>4. m = o[3] * n + low
    BY <1>1, <1>2 DEF a
  <2> HIDE DEF n, low, m
  <2>5. (o[3] * n + low) \div n = o[3]
    BY <2>1, <2>3, TakenApart, Zenon
  <2>6. m \div n = o[3]
    BY <2>4, <2>5, Zenon
  <2>7. o[3] = 0 * N + o[3] /\ 0 \in Int
    BY <1>1, <2>1
  <2>8. (0 * N + o[3]) % N = o[3]
    BY <1>1, <1>2, <2>7, TakenApart, Zenon
  <2> QED
    BY <2>6, <2>7, <2>8 DEF n
<1>10. CellAt(key, m) = CellOf(key, o)
  <2> HIDE DEF m
  <2> QED
    BY <1>4, <1>5, <1>6, <1>8, <1>9, Zenon
<1>11. m >= 0 /\ m < N * N * N
  <2>1. a <= N * N - 1 /\ a >= 0
    BY <1>1, <1>6
  <2> DEFINE top == N * N - 1
  <2>2. top \in Int /\ top * N + N = N * N * N /\ a <= top
    BY <1>1, <1>6, <2>1
  <2> HIDE DEF top
  <2>3. 0 <= a * N /\ a * N <= top * N
    BY <1>1, <1>7, <2>1, <2>2
  <2> QED
    BY <1>1, <1>2, <1>7, <2>2, <2>3
<1>12. i - 1 = m /\ i \in 1..BufferVolume
  BY <1>1, <1>3, <1>7, <1>11
<1> QED
  BY <1>10, <1>12, Zenon

\* And every entry the handler reads is one the client put somewhere.
LEMMA EntriesAreWritten ==
  ASSUME NEW i \in 1..BufferVolume
  PROVE  \E o \in Offsets : i = 1 + o[1] + BufferCells * (o[2] + BufferCells * o[3])
<1> DEFINE N == BufferCells
           n == i - 1
           a == n \div N
           b == a \div N
<1>1. N \in Nat \ {0} /\ BufferVolume = N * N * N
  BY BiomeEditsAssumption DEF BufferVolume
<1>2. n \in Nat /\ n < N * N * N /\ i = 1 + n
  BY <1>1
<1> HIDE DEF N, n
<1>3. n = a * N + (n % N) /\ n % N \in 0..N - 1 /\ a \in Int
  BY <1>1, <1>2, PutTogether
<1> HIDE DEF a
<1>4. a = b * N + (a % N) /\ a % N \in 0..N - 1 /\ b \in Int
  BY <1>1, <1>3, PutTogether
<1> HIDE DEF b
<1>5. b >= 0
  <2> SUFFICES ASSUME b <= -1 PROVE FALSE
    BY <1>4
  <2>1. b * N <= (-1) * N
    BY <1>1, <1>4
  <2>2. a <= -1
    BY <1>1, <1>4, <2>1
  <2>3. a * N <= (-1) * N
    BY <1>1, <1>3, <2>2
  <2> QED
    BY <1>1, <1>2, <1>3, <2>3
<1>6. b <= N - 1
  <2> SUFFICES ASSUME b >= N PROVE FALSE
    BY <1>1, <1>4
  <2>1. b * N >= N * N
    BY <1>1, <1>4
  <2>2. a >= N * N
    BY <1>1, <1>4, <2>1
  <2>3. a * N >= N * N * N
    BY <1>1, <1>3, <2>2
  <2> QED
    BY <1>1, <1>2, <1>3, <2>3
<1> DEFINE o == <<n % N, a % N, b>>
<1>7. o \in Offsets
  BY <1>1, <1>3, <1>4, <1>5, <1>6 DEF Offsets, N
<1>8. i = 1 + o[1] + N * (o[2] + N * o[3])
  BY <1>1, <1>2, <1>3, <1>4
<1> QED
  BY <1>7, <1>8 DEF N

\* Among some of the first n numbers there is a last.
LEMMA HasALast ==
  ASSUME NEW n \in Nat, NEW S \in SUBSET (1 .. n), S # {}
  PROVE  \E k \in S : \A j \in S : j <= k
<1> DEFINE late == {n - k : k \in S}
<1>1. late \in SUBSET Nat /\ late # {}
  <2>1. \A k \in S : n - k \in Nat
    OBVIOUS
  <2>2. late \subseteq Nat
    BY <2>1
  <2> QED
    BY <2>2
<1> HIDE DEF late
<1>2. PICK x \in late : \A y \in late : x <= y
  BY <1>1, LeastNat
<1>3. PICK m \in S : x = n - m
  BY <1>2 DEF late
<1>4. ASSUME NEW k \in S PROVE k <= m
  <2>1. x <= n - k
    BY <1>2 DEF late
  <2> QED
    BY <1>3, <2>1
<1> QED
  BY <1>4

\* A walk that is in a place it does not leave ends there.
LEMMA WalkEndsIn ==
  ASSUME NEW A, NEW S \in SUBSET A, NEW n \in Nat, NEW h \in [0..n -> A], NEW j \in 0..n, h[j] \in S,
         \A k \in j + 1..n : h[k - 1] \in S => h[k] \in S
  PROVE  h[n] \in S
<1> DEFINE T == {m \in Nat : j + m <= n => h[j + m] \in S}
<1>1. 0 \in T
  OBVIOUS
<1>2. ASSUME NEW m \in T PROVE m + 1 \in T
  <2> SUFFICES ASSUME j + (m + 1) <= n PROVE h[j + (m + 1)] \in S
    OBVIOUS
  <2> DEFINE k == j + (m + 1)
  <2>1. k \in j + 1..n /\ k - 1 = j + m /\ h[j + m] \in S
    OBVIOUS
  <2> HIDE DEF k
  <2>2. h[k] \in S
    BY <2>1
  <2> QED
    BY <2>2 DEF k
<1>3. T \in SUBSET Nat
  OBVIOUS
<1> HIDE DEF T
<1>4. n - j \in T
  BY <1>1, <1>2, <1>3, Induction
<1>5. j + (n - j) = n
  OBVIOUS
<1> QED
  BY <1>4, <1>5 DEF T

\* The place of an entry, as the handler reads it; whether it paints p; and whether all
\* that paint p paint it so.
PlaceOf(s, i) == CellAt(UnpackBlockPos(s.key), i - 1)
Reaches(r, s, i, p) == Paints(r, s.cells[i]) /\ PlaceOf(s, i) = p
PaintsSo(r, s, p, biome) ==
  \A i \in 1..BufferVolume : Reaches(r, s, i, p) => BiomeNames[r.palette[s.cells[i]]] = biome

\* The worlds that have a biome at p.
With(p, biome) == {w \in WorldStates : w.biomes[p] = biome}

LEMMA SetBiomeSets ==
  ASSUME NEW w \in WorldStates, NEW p \in BiomeCells, NEW q, NEW biome
  PROVE  SetBiome(w, q, biome).biomes[p] = IF q = p THEN biome ELSE w.biomes[p]
<1> DEFINE loaded == w.loaded \cup ({TouchedChunk(q)} \cap {ChunkOf(c) : c \in BiomeCells})
           there  == LoadChunkOf(w, q)
           biomes == IF q \in BiomeCells /\ ChunkOf(q) \in there.loaded
                     THEN [there.biomes EXCEPT ![q] = biome] ELSE there.biomes
<1>1. there = [w EXCEPT !.loaded = loaded]
  BY Zenon DEF LoadChunkOf
\* What is about to be written to is in memory by then.
<1>2. q \in BiomeCells => ChunkOf(q) \in loaded
  BY DEF TouchedChunk, ChunkOf
<1>3. loaded \in SUBSET Loadable
  BY WorldStatesAre DEF Loadable
<1> HIDE DEF loaded
<1>4. there \in WorldStates /\ there.biomes = w.biomes /\ there.loaded = loaded
  BY <1>1, <1>3, WorldStatesAre
<1>5. SetBiome(w, q, biome) = [there EXCEPT !.biomes = biomes]
  BY Zenon DEF SetBiome, WriteBiome
<1> HIDE DEF there
<1>6. biomes[p] = IF q = p THEN biome ELSE w.biomes[p]
  BY <1>2, <1>4, WorldStatesAre
<1> HIDE DEF biomes
<1>7. SetBiome(w, q, biome).biomes = biomes
  BY <1>4, <1>5, WorldStatesAre
<1> QED
  BY <1>6, <1>7

LEMMA CellIsPainted ==
  ASSUME NEW w \in WorldStates, NEW r, NEW s, NEW i \in 1..BufferVolume, NEW p \in BiomeCells,
         NEW biome, PaintsSo(r, s, p, biome), Reaches(r, s, i, p) \/ w \in With(p, biome)
  PROVE  PaintCell(w, r, s, i) \in With(p, biome)
<1> DEFINE name == BiomeNames[r.palette[s.cells[i]]]
<1>1. PaintCell(w, r, s, i) \in WorldStates
  BY PaintCellTyped
<1>2. CASE Paints(r, s.cells[i])
  <2>1. PaintCell(w, r, s, i) = SetBiome(w, PlaceOf(s, i), name)
    BY <1>2, Zenon DEF PaintCell, PlaceOf
  <2>2. PlaceOf(s, i) = p => name = biome
    BY <1>2, Zenon DEF PaintsSo, Reaches
  <2>3. PlaceOf(s, i) # p => w.biomes[p] = biome
    BY Zenon DEF Reaches, With
  <2>4. SetBiome(w, PlaceOf(s, i), name).biomes[p] = biome
    BY <2>2, <2>3, SetBiomeSets
  <2> QED
    BY <1>1, <2>1, <2>4, Zenon DEF With
<1>3. CASE ~Paints(r, s.cells[i])
  BY <1>3, Zenon DEF PaintCell, Reaches
<1> QED
  BY <1>2, <1>3

LEMMA PaintingASection ==
  ASSUME NEW w \in WorldStates, NEW r, NEW s, NEW p \in BiomeCells, NEW biome,
         PaintsSo(r, s, p, biome),
         w \in With(p, biome) \/ \E i \in 1..BufferVolume : Reaches(r, s, i, p)
  PROVE  PaintSection(w, r, s) \in With(p, biome)
<1>1. PICK h : CellByCell(h, w, r, s) /\ h[BufferVolume] = PaintSection(w, r, s)
  BY SectionIsPainted
<1>2. BufferVolume \in Nat
  BY Naturally
<1>3. h \in [0 .. BufferVolume -> WorldStates] /\ h[0] = w
  BY <1>1 DEF CellByCell
<1>4. ASSUME NEW k \in 1 .. BufferVolume
      PROVE  /\ h[k - 1] \in WorldStates
             /\ h[k - 1] \in With(p, biome) \/ Reaches(r, s, k, p) => h[k] \in With(p, biome)
  <2>1. h[k - 1] \in WorldStates
    BY <1>2, <1>3
  <2>2. h[k] = PaintCell(h[k - 1], r, s, k)
    BY <1>1 DEF CellByCell
  <2> QED
    BY <2>1, <2>2, CellIsPainted, Zenon
<1>5. PICK j \in 0 .. BufferVolume : h[j] \in With(p, biome)
  <2>1. CASE w \in With(p, biome)
    BY <1>2, <1>3, <2>1
  <2>2. ASSUME NEW i \in 1 .. BufferVolume, Reaches(r, s, i, p)
        PROVE  \E j \in 0 .. BufferVolume : h[j] \in With(p, biome)
    <3>1. h[i] \in With(p, biome) /\ i \in 0 .. BufferVolume
      BY <1>2, <1>4, <2>2
    <3> QED
      BY <3>1, Zenon
  <2> QED
    BY <2>1, <2>2, Zenon
<1>6. With(p, biome) \in SUBSET WorldStates
  BY DEF With
<1>7. \A k \in j + 1 .. BufferVolume : h[k - 1] \in With(p, biome) => h[k] \in With(p, biome)
  <2>1. \A k \in j + 1 .. BufferVolume : k \in 1 .. BufferVolume
    BY <1>2
  <2> QED
    BY <1>4, <2>1, Zenon
<1>8. h[BufferVolume] \in With(p, biome)
  BY <1>2, <1>3, <1>5, <1>6, <1>7, WalkEndsIn
<1> QED
  BY <1>1, <1>8

LEMMA PaintingABuffer ==
  ASSUME NEW w \in WorldStates, NEW r, r.sections \in Seq([key: Int, cells: Seq(Nat)]),
         NEW p \in BiomeCells, NEW biome,
         \A k \in DOMAIN r.sections : PaintsSo(r, r.sections[k], p, biome),
         \E k \in DOMAIN r.sections : \E i \in 1..BufferVolume : Reaches(r, r.sections[k], i, p),
         NEW h, SectionBySection(h, w, r)
  PROVE  h[Len(r.sections)] \in With(p, biome)
<1> DEFINE n == Len(r.sections)
<1>1. n \in Nat /\ DOMAIN r.sections = 1 .. n
  OBVIOUS
<1>2. h \in [0 .. n -> WorldStates]
  BY DEF SectionBySection
<1>3. ASSUME NEW k \in 1 .. n
      PROVE  /\ h[k - 1] \in WorldStates
             /\ \/ h[k - 1] \in With(p, biome)
                \/ \E i \in 1..BufferVolume : Reaches(r, r.sections[k], i, p)
                => h[k] \in With(p, biome)
  <2>1. h[k - 1] \in WorldStates
    <3>1. k - 1 \in 0 .. n
      BY <1>1
    <3> QED
      BY <1>2, <3>1, Zenon
  <2>2. h[k] = PaintSection(h[k - 1], r, r.sections[k]) /\ PaintsSo(r, r.sections[k], p, biome)
    BY <1>1 DEF SectionBySection
  <2> QED
    BY <2>1, <2>2, PaintingASection, Zenon
<1> HIDE DEF n
<1>4. PICK j \in 0 .. n : h[j] \in With(p, biome)
  <2>1. PICK k \in 1 .. n : \E i \in 1..BufferVolume : Reaches(r, r.sections[k], i, p)
    BY <1>1, Zenon
  <2>2. h[k] \in With(p, biome) /\ k \in 0 .. n
    BY <1>1, <1>3, <2>1
  <2> QED
    BY <2>2, Zenon
<1>5. With(p, biome) \in SUBSET WorldStates
  BY DEF With
<1>6. \A k \in j + 1 .. n : h[k - 1] \in With(p, biome) => h[k] \in With(p, biome)
  <2>1. \A k \in j + 1 .. n : k \in 1 .. n
    BY <1>1
  <2> QED
    BY <1>3, <2>1, Zenon
<1>7. h[n] \in With(p, biome)
  BY <1>1, <1>2, <1>4, <1>5, <1>6, WalkEndsIn
<1> QED
  BY <1>7 DEF n

LEMMA PaintersWrite ==
  ASSUME NEW r \in Requests, r.type = "biomes"
  PROVE  DrawsWhatItPaints(r) /\ WellFormed(r)
<1>1. WellFormed(r)
  BY RequestsFit
<1>2. CASE r \in Menus
  <2>1. ASSUME NEW k \in Kinds, NEW i \in DOMAIN Menu[k], r = Menu[k][i]
        PROVE  DrawsWhatItPaints(r)
    BY <2>1, MenuAssumption, Zenon
  <2>2. \E k \in Kinds : \E i \in DOMAIN Menu[k] : r = Menu[k][i]
    BY <1>2 DEF Menus, Asked, Range
  <2> QED
    BY <1>1, <2>1, <2>2
<1>3. ASSUME NEW q \in Menus, Predicts(q), NEW n \in Nat, r = [q EXCEPT !.sequence = n]
      PROVE  FALSE
  <2>1. q.type = "set block" /\ "type" \in DOMAIN q
    BY <1>3, MenuFits DEF Predicts, WellFormed
  <2>2. r.type = q.type
    BY <1>3, <2>1
  <2> QED
    BY <2>1, <2>2
<1> QED
  BY <1>1, <1>2, <1>3 DEF Requests, Numbered

\* Wherever the client put a biome, the handler paints that biome there, and nothing else.
LEMMA WrittenIsRead ==
  ASSUME NEW r, WellFormed(r), r.type = "biomes", DrawsWhatItPaints(r), NEW p \in Painted(r)
  PROVE  /\ \A k \in DOMAIN r.sections :
              PaintsSo(r, r.sections[k], p, BiomeNames[r.painting[p]])
         /\ \E k \in DOMAIN r.sections :
              \E i \in 1..BufferVolume : Reaches(r, r.sections[k], i, p)
<1>1. r.palette \in Seq(STRING) /\ Len(r.palette) \in Nat
  BY DEF WellFormed
<1>2. r.painting[p] \in DOMAIN BiomeNames
  BY DEF Painted
<1>3. ASSUME NEW e \in DrawnAt(r, p)
      PROVE  LET entry == EntryOf(r.sections[e[1]], e[3])
             IN Paints(r, entry) /\ r.palette[entry] = r.painting[p]
  <2> DEFINE entry == EntryOf(r.sections[e[1]], e[3])
  <2>1. entry \in 1..Len(r.palette) \ {r.unset} /\ r.palette[entry] = r.painting[p]
    BY Zenon DEF DrawsWhatItPaints
  <2> HIDE DEF entry
  <2>2. Paints(r, entry)
    BY <1>1, <1>2, <2>1 DEF Paints
  <2> QED
    BY <2>1, <2>2 DEF entry
<1>4. ASSUME NEW k \in DOMAIN r.sections, NEW i \in 1..BufferVolume, Reaches(r, r.sections[k], i, p)
      PROVE  BiomeNames[r.palette[r.sections[k].cells[i]]] = BiomeNames[r.painting[p]]
  <2>1. PICK key \in PackedKeys : r.sections[k].key = PackBlockPos(key)
    BY Zenon DEF DrawsWhatItPaints
  <2>2. PICK o \in Offsets : i = 1 + o[1] + BufferCells * (o[2] + BufferCells * o[3])
    BY EntriesAreWritten
  <2>3. CellOf(key, o) = p
    BY <1>4, <2>1, <2>2, KeysTravel, EntriesAreRead, Zenon DEF Reaches, PlaceOf
  <2>4. <<k, key, o>> \in DrawnAt(r, p)
    BY <2>1, <2>3 DEF DrawnAt
  <2>5. EntryOf(r.sections[k], o) = r.sections[k].cells[i]
    BY <2>2, Zenon DEF EntryOf
  <2>6. r.palette[EntryOf(r.sections[k], o)] = r.painting[p]
    BY <1>3, <2>4
  <2> QED
    BY <2>5, <2>6, Zenon
<1>5. PICK e \in DrawnAt(r, p) : TRUE
  BY DEF DrawsWhatItPaints
<1>6. PICK k \in DOMAIN r.sections, key \in PackedKeys, o \in Offsets :
        e = <<k, key, o>> /\ r.sections[k].key = PackBlockPos(key) /\ CellOf(key, o) = p
  BY <1>5 DEF DrawnAt
<1> DEFINE i == 1 + o[1] + BufferCells * (o[2] + BufferCells * o[3])
<1>7. i \in 1..BufferVolume /\ CellAt(key, i - 1) = p
  BY <1>6, EntriesAreRead
<1>8. EntryOf(r.sections[k], o) = r.sections[k].cells[i]
  BY Zenon DEF EntryOf
<1> HIDE DEF i
<1>9. Paints(r, EntryOf(r.sections[k], o))
  BY <1>3, <1>5, <1>6
<1>10. Reaches(r, r.sections[k], i, p)
  BY <1>6, <1>7, <1>8, <1>9, KeysTravel, Zenon DEF Reaches, PlaceOf
<1> QED
  BY <1>4, <1>7, <1>10, Zenon DEF PaintsSo

LEMMA PaintedStays ==
  ASSUME NEW w \in WorldStates, NEW r, WellFormed(r), r.type = "biomes", DrawsWhatItPaints(r),
         NEW p \in Painted(r)
  PROVE  /\ ApplyBiomeBuffer(w, r).biomes[p] = BiomeNames[r.painting[p]]
         /\ ~r.broken => ApplyBiomeBuffer(w, r).shown[p] = ApplyBiomeBuffer(w, r).biomes[p]
<1>1. r.sections \in Seq([key: Int, cells: Seq(Nat)]) /\ p \in BiomeCells
  BY BiomesFit DEF Painted
<1>2. PICK h : /\ SectionBySection(h, w, r)
               /\ ApplyBiomeBuffer(w, r) = AfterRefresh(h[Len(r.sections)], r)
  BY <1>1, BufferIsPainted
<1> DEFINE last   == h[Len(r.sections)]
           chunks == Touched(r)
           new    == [q \in BiomeCells |-> IF ChunkOf(q) \in chunks THEN last.biomes[q] ELSE last.shown[q]]
<1>3. last \in With(p, BiomeNames[r.painting[p]])
  BY <1>1, <1>2, WrittenIsRead, PaintingABuffer, Zenon
<1>4. last \in WorldStates /\ last.biomes[p] = BiomeNames[r.painting[p]]
  BY <1>3 DEF With
<1>5. ChunkOf(p) \in chunks
  <2>1. PICK k \in DOMAIN r.sections, i \in 1..BufferVolume : Reaches(r, r.sections[k], i, p)
    BY WrittenIsRead, Zenon
  <2>2. TouchedChunk(p) = ChunkOf(p)
    BY DEF TouchedChunk, ChunkOf
  <2> QED
    BY <2>1, <2>2 DEF Touched, Reaches, PlaceOf
<1> HIDE DEF last, chunks
<1>6. RefreshBiomes(last, chunks) = [last EXCEPT !.shown = new]
  BY Zenon DEF RefreshBiomes
<1>7. new[p] = last.biomes[p]
  BY <1>1, <1>5
<1> HIDE DEF new
<1>8. /\ RefreshBiomes(last, chunks).biomes = last.biomes
      /\ RefreshBiomes(last, chunks).shown = new
  BY <1>4, <1>6, WorldStatesAre
<1>9. ApplyBiomeBuffer(w, r) = IF r.broken THEN last ELSE RefreshBiomes(last, chunks)
  BY <1>2, Zenon DEF AfterRefresh, last, chunks
<1> QED
  BY <1>4, <1>7, <1>8, <1>9

\* What a painter painted is there, at every place and in or out of memory, and is shown
\* to those who watch once its buffer was read to the end: through packed keys, the order
\* of entries, the palette's names and the refresh of what was touched.
THEOREM PaintingIsShown == WorldSpec => PaintedIsShown
<1> DEFINE Shows(r) ==
      HasPerm(BUILD_SECTION) /\ AimedAt(r.dimension) =>
        \A p \in Painted(r) :
          /\ There.biomes[p] = BiomeNames[r.painting[p]]
          /\ ~r.broken => There.shown[p] = There.biomes[p]
<1>1. WorldInv /\ [WorldNext]_worldVars => [\A r \in HandledOf("biomes") : Shows(r)]_worldVars
  <2> SUFFICES ASSUME WorldInv, WorldNext, c2s # <<>>, c2s' = Tail(c2s), Request.type = "biomes"
               PROVE  Shows(Request)
    BY DEF HandledOf
  <2>1. HandleBiomeBuffer
    <3>1. Handle
      BY OnlyHandlersTake
    <3> QED
      BY <3>1 DEF Handle, HandleSetBlock, HandleSetBuffer, HandleTickBlocks, HandleRequestChunkData,
         HandleManipulateEntity, HandleSpawnEntity, HandleControl, HandleTeleport, Taken, Request
  <2>2. /\ Request \in Requests /\ Here \in WorldStates /\ dim \in Dims
        /\ worlds \in [Dims -> WorldStates]
    BY TakenIsFit DEF WorldInv, PlaceTyped
  <2> SUFFICES ASSUME HasPerm(BUILD_SECTION), AimedAt(Request.dimension), NEW p \in Painted(Request)
               PROVE  /\ There.biomes[p] = BiomeNames[Request.painting[p]]
                      /\ ~Request.broken => There.shown[p] = There.biomes[p]
    OBVIOUS
  <2>3. worlds' = [worlds EXCEPT ![dim] = ApplyBiomeBuffer(Here, Request)]
    BY <2>1, Zenon DEF HandleBiomeBuffer, Edits
  <2>4. There = ApplyBiomeBuffer(Here, Request)
    BY <2>2, <2>3 DEF There
  <2> QED
    BY <2>2, <2>4, PaintersWrite, PaintedStays
<1> QED
  BY <1>1, WorldInvHolds, PTL DEF WorldSpec, PaintedIsShown

-----------------------------------------------------------------------------
(***************************************************************************)
(* Translation: the table of runs that the generator makes of the forward  *)
(* table is its inverse, wherever it has one.                              *)
(***************************************************************************)

Below(S, x)   == {y \in S : y < x}
Increasing(S) == InOrder([c \in S |-> c])

LEMMA BelowIs ==
  ASSUME NEW S \in SUBSET Nat, NEW x \in Nat
  PROVE  /\ Below(S, x) \subseteq S /\ x \notin Below(S, x)
         /\ \A y \in S : y \in Nat /\ (y \in Below(S, x) <=> y < x)
BY DEF Below

LEMMA BelowIsFinite ==
  ASSUME NEW S \in SUBSET Nat, IsFiniteSet(S), NEW x
  PROVE  IsFiniteSet(Below(S, x)) /\ Cardinality(Below(S, x)) \in Nat
BY FS_Subset, FS_CardinalityType DEF Below

\* Each place in the order of a finite set is taken.
LEMMA PlacesAreTaken ==
  ASSUME NEW S \in SUBSET Nat, IsFiniteSet(S), NEW k \in Nat, k < Cardinality(S)
  PROVE  \E x \in S : Cardinality(Below(S, x)) = k
<1> DEFINE n == Cardinality(S)
           T == {j \in Nat : j < n => \E x \in S : Cardinality(Below(S, x)) = j}
<1>1. n \in Nat
  BY FS_CardinalityType
<1>2. 0 \in T
  <2> SUFFICES ASSUME 0 < n PROVE \E x \in S : Cardinality(Below(S, x)) = 0
    OBVIOUS
  <2>1. S # {}
    BY FS_EmptySet
  <2>2. PICK x \in S : \A y \in S : x <= y
    BY <2>1, LeastNat
  <2>3. Below(S, x) = {}
    <3>1. ASSUME NEW y \in S PROVE y \notin Below(S, x)
      BY <2>2, BelowIs
    <3>2. Below(S, x) \subseteq S
      BY <2>2, BelowIs
    <3> QED
      BY <3>1, <3>2
  <2> QED
    BY <2>3, FS_EmptySet
<1>3. ASSUME NEW j \in T PROVE j + 1 \in T
  <2> SUFFICES ASSUME j + 1 < n PROVE \E x \in S : Cardinality(Below(S, x)) = j + 1
    OBVIOUS
  <2>1. PICK x \in S : Cardinality(Below(S, x)) = j
    BY <1>1
  <2> DEFINE upTo == Below(S, x) \cup {x}
  <2>2. IsFiniteSet(upTo) /\ Cardinality(upTo) = j + 1
    <3>1. x \notin Below(S, x) /\ IsFiniteSet(Below(S, x))
      BY BelowIs, BelowIsFinite
    <3> QED
      BY <2>1, <3>1, FS_AddElement
  <2>3. S \ upTo # {}
    <3>1. upTo \subseteq S
      BY BelowIs
    <3>2. upTo # S
      BY <1>1, <2>2
    <3> QED
      BY <3>1, <3>2
  <2>4. PICK z \in S \ upTo : \A y \in S \ upTo : z <= y
    <3>1. S \ upTo \in SUBSET Nat
      OBVIOUS
    <3> HIDE DEF upTo
    <3> QED
      BY <2>3, <3>1, LeastNat
  <2>5. Below(S, z) = upTo
    <3>1. ASSUME NEW y \in S PROVE y < z <=> y \in upTo
      <4>1. y \in Nat /\ x \in Nat /\ z \in Nat /\ (y \in Below(S, x) <=> y < x)
        BY <2>4, BelowIs
      <4>2. z # x /\ ~(z < x)
        BY <2>4, BelowIs
      <4>3. y \notin upTo => z <= y
        BY <2>4
      <4>4. y \in upTo <=> (y < x \/ y = x)
        BY <4>1
      <4> QED
        BY <4>1, <4>2, <4>3, <4>4
    <3>2. upTo \subseteq S
      BY BelowIs
    <3> HIDE DEF upTo
    <3>3. Below(S, z) \subseteq S /\ \A y \in S : y \in Below(S, z) <=> y < z
      BY <2>4, BelowIs
    <3> QED
      BY <3>1, <3>2, <3>3
  <2> QED
    BY <2>2, <2>4, <2>5
<1>4. T \in SUBSET Nat
  OBVIOUS
<1> HIDE DEF T
<1>5. k \in T
  BY <1>2, <1>3, <1>4, Induction
<1> QED
  BY <1>5 DEF T

\* So the order is a sequence that rises, and leaves nothing out.
Rises(q, S) ==
  /\ q \in [1..Cardinality(S) -> S]
  /\ \A i, j \in 1..Cardinality(S) : i < j => q[i] < q[j]
  /\ \A c \in S : \E i \in 1..Cardinality(S) : q[i] = c

LEMMA InOrderRises ==
  ASSUME NEW S \in SUBSET Nat, IsFiniteSet(S)
  PROVE  Rises(Increasing(S), S)
<1> DEFINE n == Cardinality(S)
           rank == [c \in S |-> c]
           F(k) == CHOOSE x \in S : Cardinality(Below(S, x)) = k - 1
           q == [k \in 1..n |-> F(k)]
<1>1. n \in Nat
  BY FS_CardinalityType
<1>2. Increasing(S) = q
  <2>1. DOMAIN rank = S
    OBVIOUS
  <2>2. \A x \in S : {y \in S : rank[y] < rank[x]} = Below(S, x)
    BY DEF Below
  <2>3. Increasing(S) = [k \in 1..Cardinality(DOMAIN rank) |->
          CHOOSE x \in DOMAIN rank : Cardinality({y \in DOMAIN rank : rank[y] < rank[x]}) = k - 1]
    BY Zenon DEF Increasing, InOrder
  <2> HIDE DEF rank
  <2>4. ASSUME NEW k
        PROVE (CHOOSE x \in S : Cardinality({y \in S : rank[y] < rank[x]}) = k - 1) = F(k)
    BY <2>2
  <2> HIDE DEF F
  <2> QED
    BY <2>1, <2>3, <2>4
<1>3. ASSUME NEW k \in 1..n PROVE q[k] \in S /\ Cardinality(Below(S, q[k])) = k - 1
  <2>1. k - 1 \in Nat /\ k - 1 < n
    BY <1>1
  <2>2. \E x \in S : Cardinality(Below(S, x)) = k - 1
    BY <2>1, PlacesAreTaken
  <2>3. F(k) \in S /\ Cardinality(Below(S, F(k))) = k - 1
    BY <2>2, Zenon
  <2> HIDE DEF F
  <2> QED
    BY <2>3
<1>4. q \in [1..n -> S]
  BY <1>3
<1> HIDE DEF q
<1>5. ASSUME NEW i \in 1..n, NEW j \in 1..n, i < j PROVE q[i] < q[j]
  <2>1. q[i] \in S /\ q[j] \in S /\ q[i] \in Nat /\ q[j] \in Nat
    BY <1>4
  <2> SUFFICES ASSUME q[j] <= q[i] PROVE FALSE
    BY <2>1
  <2>2. Below(S, q[j]) \subseteq Below(S, q[i])
    <3> DEFINE a == q[j]
               b == q[i]
    <3>1. a \in Nat /\ b \in Nat /\ a <= b
      BY <2>1
    <3> HIDE DEF a, b
    <3>2. Below(S, a) \subseteq Below(S, b)
      <4>1. ASSUME NEW y \in S, y \in Below(S, a) PROVE y \in Below(S, b)
        BY <3>1, <4>1, BelowIs
      <4> QED
        BY <3>1, <4>1, BelowIs
    <3> QED
      BY <3>2 DEF a, b
  <2>3. Cardinality(Below(S, q[j])) <= Cardinality(Below(S, q[i]))
    BY <2>2, BelowIsFinite, FS_Subset
  <2> QED
    BY <1>1, <1>3, <1>5, <2>3
<1>6. ASSUME NEW c \in S PROVE \E i \in 1..n : q[i] = c
  <2> DEFINE i == Cardinality(Below(S, c)) + 1
  <2>1. Cardinality(Below(S, c)) \in Nat /\ Cardinality(Below(S, c)) < n
    <3>1. Below(S, c) \subseteq S \ {c} /\ IsFiniteSet(S \ {c}) /\ Cardinality(S \ {c}) = n - 1
      BY FS_RemoveElement DEF Below
    <3>2. Cardinality(Below(S, c)) <= n - 1
      BY <3>1, FS_Subset
    <3> QED
      BY <1>1, <3>2, BelowIsFinite
  <2>2. i \in 1..n /\ i - 1 = Cardinality(Below(S, c))
    BY <1>1, <2>1
  <2> HIDE DEF i
  <2>3. q[i] \in S /\ Cardinality(Below(S, q[i])) = Cardinality(Below(S, c))
    BY <1>3, <2>2
  <2>4. ASSUME NEW a \in S, NEW b \in S, a < b, Cardinality(Below(S, a)) = Cardinality(Below(S, b))
        PROVE  FALSE
    <3>1. Below(S, a) \subseteq Below(S, b) /\ a \in Below(S, b) /\ a \notin Below(S, a)
      <4>1. a \in Nat /\ b \in Nat
        OBVIOUS
      <4>2. ASSUME NEW y \in S, y \in Below(S, a) PROVE y \in Below(S, b)
        BY <2>4, <4>1, <4>2, BelowIs
      <4> QED
        BY <2>4, <4>1, <4>2, BelowIs
    <3> QED
      BY <2>4, <3>1, BelowIsFinite, FS_Subset
  <2>5. q[i] = c
    <3>1. q[i] \in Nat /\ c \in Nat
      BY <2>3
    <3> QED
      BY <2>3, <2>4, <3>1
  <2> QED
    BY <2>2, <2>5
<1> QED
  BY <1>2, <1>4, <1>5, <1>6 DEF Rises

LEMMA KnownTyped ==
  Known \subseteq Nat /\ IsFiniteSet(Known) /\ \A s \in States : s \in Nat /\ ToClient[s + 1] \in Known
<1>1. ToClient \in [1..StateCount -> Nat] /\ StateCount \in Nat
  BY SectionsAssumption
<1>2. ToClient \in Surjection(1..StateCount, Known)
  BY <1>1 DEF Surjection, Known
<1>3. IsFiniteSet(1..StateCount)
  BY <1>1, FS_Interval
<1>4. IsFiniteSet(Known)
  BY <1>2, <1>3, FS_Surjection
<1>5. \A s \in States : s \in Nat /\ s + 1 \in 1..StateCount
  BY <1>1 DEF States
<1> QED
  BY <1>1, <1>4, <1>5 DEF Known

\* The lowest of the states that share a name is the one the name stands for.
LEMMA OriginIs ==
  ASSUME NEW c \in Known
  PROVE  /\ Origin(c) \in States /\ Origin(c) \in Nat /\ ToClient[Origin(c) + 1] = c
         /\ \A t \in States : ToClient[t + 1] = c => Origin(c) <= t
<1> DEFINE T == {s \in States : ToClient[s + 1] = c}
           Good(s) == s \in States /\ ToClient[s + 1] = c /\ \A t \in 0..s - 1 : ToClient[t + 1] # c
<1>1. StateCount \in Nat /\ States \subseteq Nat
  BY StatesTyped
<1>2. T # {}
  <2>1. PICK s \in 1..StateCount : ToClient[s] = c
    BY DEF Known
  <2>2. s - 1 \in States /\ s - 1 + 1 = s
    BY <1>1 DEF States
  <2> QED
    BY <2>1, <2>2
<1>3. PICK s \in T : \A t \in T : s <= t
  BY <1>1, <1>2, LeastNat
<1>4. Good(s)
  <2>1. s \in States /\ ToClient[s + 1] = c
    BY <1>3
  <2>2. ASSUME NEW t \in 0..s - 1, ToClient[t + 1] = c PROVE FALSE
    <3>1. t \in States /\ s \in Nat /\ t \in Nat /\ t < s
      BY <1>1, <2>1 DEF States
    <3>2. s <= t
      BY <1>3, <2>2, <3>1
    <3> QED
      BY <3>1, <3>2
  <2> QED
    BY <2>1, <2>2
<1>5. Origin(c) = CHOOSE x \in States : ToClient[x + 1] = c /\ \A t \in 0..x - 1 : ToClient[t + 1] # c
  BY Zenon DEF Origin, States
<1>6. Good(Origin(c))
  BY <1>4, <1>5, Zenon
<1>7. ASSUME NEW t \in States, ToClient[t + 1] = c PROVE Origin(c) <= t
  <2>1. t \in Nat /\ Origin(c) \in Nat
    BY <1>1, <1>6
  <2>2. t \notin 0..Origin(c) - 1
    BY <1>6, <1>7
  <2> QED
    BY <2>1, <2>2
<1> QED
  BY <1>1, <1>6, <1>7

\* c to d is within a run.
Within(c, d) == c \in Known /\ d \in Nat /\ c <= d /\ \A e \in c + 1..d : e \in Known /\ Joins(e)

LEMMA RunsKeepTheirOffset ==
  ASSUME NEW c, NEW d, Within(c, d)
  PROVE  d \in Known /\ Origin(d) - d = Origin(c) - c
<1> DEFINE Same(e) == e \in Known /\ Origin(e) - e = Origin(c) - c
           T == {n \in Nat : c + n <= d => Same(c + n)}
<1>1. c \in Known /\ c \in Nat /\ d \in Nat /\ c <= d
  BY KnownTyped DEF Within
<1>2. 0 \in T
  BY <1>1
<1>3. ASSUME NEW n \in T PROVE n + 1 \in T
  <2> SUFFICES ASSUME c + (n + 1) <= d PROVE Same(c + (n + 1))
    OBVIOUS
  <2> DEFINE e == c + (n + 1)
  <2>1. e \in c + 1..d /\ e - 1 = c + n /\ e \in Nat /\ c + n <= d
    BY <1>1
  <2>2. Same(e - 1)
    BY <2>1
  <2> HIDE DEF e
  <2>3. e \in Known /\ Joins(e)
    BY <2>1, Zenon DEF Within
  <2>4. Origin(e - 1) - (e - 1) = Origin(e) - e
    BY <2>3, Zenon DEF Joins
  <2>5. Same(e)
    BY <2>2, <2>3, <2>4, Zenon
  <2> QED
    BY <2>5 DEF e
<1>4. T \in SUBSET Nat
  OBVIOUS
<1> HIDE DEF T
<1>5. d - c \in Nat /\ c + (d - c) = d
  BY <1>1
<1>6. d - c \in T
  BY <1>2, <1>3, <1>4, <1>5, Induction
<1> QED
  BY <1>1, <1>5, <1>6 DEF T

\* Every run ends, for there are only so many states.
LEMMA RunsEnd ==
  ASSUME NEW c \in Known
  PROVE  /\ RunEnd(c) \in Known /\ Within(c, RunEnd(c))
         /\ ~(RunEnd(c) + 1 \in Known /\ Joins(RunEnd(c) + 1))
<1> DEFINE On(d) == d + 1 \in Known /\ Joins(d + 1)
           T == {d \in Nat : c <= d /\ ~On(d)}
<1>1. c \in Nat /\ Known \subseteq Nat /\ IsFiniteSet(Known) /\ Cardinality(Known) \in Nat
  BY KnownTyped, FS_CardinalityType
<1>2. T # {}
  <2> SUFFICES ASSUME \A d \in Nat : c <= d => On(d) PROVE FALSE
    OBVIOUS
  <2> DEFINE n == Cardinality(Known)
  <2>1. ASSUME NEW e \in c..c + n PROVE e \in Known
    <3>1. CASE e = c
      BY <3>1
    <3>2. CASE e # c
      <4>1. e - 1 \in Nat /\ c <= e - 1 /\ e - 1 + 1 = e
        BY <1>1, <3>2
      <4> QED
        BY <4>1
    <3> QED
      BY <3>1, <3>2
  <2>2. Cardinality(c..c + n) = n + 1
    <3> DEFINE b == c + n
    <3>1. c \in Int /\ b \in Int /\ ~(c > b) /\ b - c + 1 = n + 1
      BY <1>1
    <3> HIDE DEF b, n
    <3>2. Cardinality(c..b) = b - c + 1
      BY <3>1, FS_Interval
    <3> QED
      BY <3>1, <3>2 DEF b
  <2>3. Cardinality(c..c + n) <= n
    <3>1. c..c + n \in SUBSET Known
      BY <2>1
    <3> QED
      BY <1>1, <3>1, FS_Subset
  <2> QED
    BY <1>1, <2>2, <2>3
<1>3. PICK d \in T : \A e \in T : d <= e
  <2>1. T \in SUBSET Nat
    OBVIOUS
  <2> HIDE DEF T
  <2> QED
    BY <1>2, <2>1, LeastNat
<1>4. d \in Nat /\ c <= d /\ ~On(d)
  BY <1>3
<1>5. ASSUME NEW e \in c + 1..d PROVE e \in Known /\ Joins(e)
  <2>1. e - 1 \in Nat /\ c <= e - 1 /\ e - 1 + 1 = e /\ ~(d <= e - 1)
    BY <1>1, <1>4
  <2>2. e - 1 \notin T
    BY <1>3, <2>1
  <2> QED
    BY <2>1, <2>2
<1>6. Within(c, d)
  BY <1>4, <1>5, Zenon DEF Within
<1>7. d \in Known
  BY <1>6, RunsKeepTheirOffset
<1>8. RunEnd(c) = CHOOSE x \in Known : /\ c <= x /\ \A e \in c + 1..x : e \in Known /\ Joins(e)
                                       /\ ~(x + 1 \in Known /\ Joins(x + 1))
  BY Zenon DEF RunEnd
<1>9. /\ RunEnd(c) \in Known /\ c <= RunEnd(c)
      /\ \A e \in c + 1..RunEnd(c) : e \in Known /\ Joins(e)
      /\ ~(RunEnd(c) + 1 \in Known /\ Joins(RunEnd(c) + 1))
  BY <1>4, <1>5, <1>7, <1>8, Zenon
<1>10. RunEnd(c) \in Nat
  BY <1>1, <1>9
<1> QED
  BY <1>9, <1>10, Zenon DEF Within

Starts == {d \in Known : ~Joins(d)}

\* And every id that stands for a state is in one.
LEMMA RunsBegin ==
  ASSUME NEW d \in Known
  PROVE  \E c \in Starts : Within(c, d)
<1> DEFINE T == {c \in Nat : Within(c, d)}
<1>1. Known \subseteq Nat /\ d \in Nat
  BY KnownTyped
<1>2. d \in T
  <2>1. \A e \in d + 1..d : FALSE
    BY <1>1
  <2> QED
    BY <1>1, <2>1 DEF Within
<1>3. PICK c \in T : \A e \in T : c <= e
  <2>1. T \in SUBSET Nat /\ T # {}
    BY <1>2
  <2> HIDE DEF T
  <2> QED
    BY <2>1, LeastNat
<1>4. Within(c, d) /\ c \in Nat /\ c \in Known
  BY <1>3 DEF Within
<1>5. ~Joins(c)
  <2> SUFFICES ASSUME Joins(c) PROVE FALSE
    OBVIOUS
  <2>1. c - 1 \in Known /\ c - 1 \in Nat /\ ~(c <= c - 1)
    <3>1. c - 1 \in Known
      BY Zenon DEF Joins
    <3> QED
      BY <1>1, <1>4, <3>1
  <2>2. ASSUME NEW e \in (c - 1) + 1..d PROVE e \in Known /\ Joins(e)
    <3>1. CASE e = c
      BY <1>4, <3>1
    <3>2. CASE e # c
      <4>1. e \in c + 1..d
        BY <1>1, <1>4, <3>2
      <4> QED
        BY <1>4, <4>1, Zenon DEF Within
    <3> QED
      BY <3>1, <3>2
  <2>3. c - 1 <= d
    BY <1>1, <1>4 DEF Within
  <2>4. Within(c - 1, d)
    BY <1>1, <2>1, <2>2, <2>3, Zenon DEF Within
  <2> QED
    BY <1>3, <2>1, <2>4
<1> QED
  BY <1>4, <1>5 DEF Starts

LEMMA RunsAre ==
  LET q == Increasing(Starts)
  IN /\ Rises(q, Starts) /\ Cardinality(Starts) \in Nat
     /\ DOMAIN Runs = 1..Cardinality(Starts)
     /\ \A k \in 1..Cardinality(Starts) :
          /\ Runs[k].start = q[k] /\ Runs[k].len = RunEnd(q[k]) - q[k] + 1
          /\ Runs[k].offset = Origin(q[k]) - q[k]
<1> DEFINE q == Increasing(Starts)
           n == Cardinality(Starts)
<1>1. Starts \in SUBSET Nat /\ IsFiniteSet(Starts)
  <2>1. Starts \subseteq Known
    BY DEF Starts
  <2> QED
    BY <2>1, KnownTyped, FS_Subset
<1>2. Rises(q, Starts) /\ n \in Nat
  BY <1>1, InOrderRises, FS_CardinalityType
<1>3. Runs = [k \in DOMAIN q |->
                [start |-> q[k], len |-> RunEnd(q[k]) - q[k] + 1, offset |-> Origin(q[k]) - q[k]]]
  BY Zenon DEF Runs, Increasing, Starts
<1>4. DOMAIN q = 1..n
  BY <1>2 DEF Rises
<1> HIDE DEF q, n
<1>5. \A k \in 1..n : Runs[k] =
        [start |-> q[k], len |-> RunEnd(q[k]) - q[k] + 1, offset |-> Origin(q[k]) - q[k]]
  BY <1>3, <1>4
<1>6. DOMAIN Runs = 1..n
  BY <1>3, <1>4
<1>7. ASSUME NEW k \in 1..n
      PROVE  /\ Runs[k].start = q[k] /\ Runs[k].len = RunEnd(q[k]) - q[k] + 1
             /\ Runs[k].offset = Origin(q[k]) - q[k]
  <2> DEFINE len == RunEnd(q[k]) - q[k] + 1
             offset == Origin(q[k]) - q[k]
  <2>1. Runs[k] = [start |-> q[k], len |-> len, offset |-> offset]
    BY <1>5
  <2> HIDE DEF len, offset
  <2>2. Runs[k].start = q[k] /\ Runs[k].len = len /\ Runs[k].offset = offset
    BY <2>1
  <2> QED
    BY <2>2 DEF len, offset
<1> QED
  BY <1>2, <1>6, <1>7 DEF q, n

\* The lookup finds the last run that starts at the id or before it, if there is one.
Finds(m, id) ==
  LET q == Increasing(Starts)
  IN \/ m = 0 /\ \A c \in Starts : id < c
     \/ /\ m \in 1..Cardinality(Starts) /\ q[m] \in Starts /\ q[m] <= id
        /\ \A c \in Starts : c <= id => c <= q[m]

LEMMA LookupFinds ==
  ASSUME NEW id \in Nat
  PROVE  Finds(LastRun(id), id)
<1> DEFINE q == Increasing(Starts)
           n == Cardinality(Starts)
           early == {k \in 1..n : q[k] <= id}
<1>1. /\ n \in Nat /\ q \in [1..n -> Starts] /\ \A i, j \in 1..n : i < j => q[i] < q[j]
      /\ \A c \in Starts : \E i \in 1..n : q[i] = c
  BY RunsAre DEF Rises
<1>2. Starts \subseteq Nat
  BY KnownTyped DEF Starts
<1>3. LastRun(id) = Cardinality(early)
  <2>1. {k \in DOMAIN Runs : Runs[k].start <= id} = early
    BY RunsAre
  <2> HIDE DEF early
  <2> QED
    BY <2>1 DEF LastRun
<1> HIDE DEF q, n
<1>4. CASE early = {}
  <2>1. Cardinality(early) = 0
    BY <1>4, FS_EmptySet
  <2>2. ASSUME NEW c \in Starts PROVE id < c
    <3>1. PICK i \in 1..n : q[i] = c
      BY <1>1
    <3>2. c \in Nat /\ ~(c <= id)
      BY <1>2, <1>4, <3>1
    <3> QED
      BY <3>2
  <2> QED
    BY <1>3, <2>1, <2>2 DEF Finds
<1>5. CASE early # {}
  <2>1. PICK m \in early : \A k \in early : k <= m
    <3>1. early \in SUBSET (1..n)
      OBVIOUS
    <3> HIDE DEF early
    <3> QED
      BY <1>1, <1>5, <3>1, HasALast
  <2>2. m \in 1..n /\ q[m] \in Starts /\ q[m] <= id
    BY <1>1, <2>1
  <2>3. early = 1..m
    <3>1. ASSUME NEW k \in 1..m PROVE k \in early
      <4>1. k \in 1..n /\ (k < m \/ k = m)
        BY <1>1, <2>2
      <4>2. q[k] \in Starts
        BY <1>1, <4>1
      <4>3. q[k] \in Nat /\ q[m] \in Nat
        BY <1>2, <2>2, <4>2
      <4>4. k < m => q[k] < q[m]
        BY <1>1, <2>2, <4>1, Zenon
      <4>5. q[k] <= q[m]
        BY <4>1, <4>3, <4>4
      <4>6. q[k] <= id
        BY <2>2, <4>3, <4>5
      <4> QED
        BY <4>1, <4>6
    <3>2. \A k \in early : k \in 1..m
      BY <2>1
    <3> HIDE DEF early
    <3> QED
      BY <3>1, <3>2
  <2>4. Cardinality(early) = m
    <3>1. 1 \in Int /\ m \in Int /\ ~(1 > m) /\ m - 1 + 1 = m
      BY <1>1, <2>2
    <3>2. Cardinality(1..m) = m - 1 + 1
      BY <3>1, FS_Interval
    <3> QED
      BY <2>3, <3>1, <3>2
  <2>5. ASSUME NEW c \in Starts, c <= id PROVE c <= q[m]
    <3>1. PICK i \in 1..n : q[i] = c
      BY <1>1
    <3>2. i <= m
      BY <2>1, <2>5, <3>1
    <3>3. i < m \/ i = m
      BY <1>1, <2>2, <3>2
    <3>4. q[m] \in Nat /\ c \in Nat
      BY <1>2, <2>2
    <3>5. i < m => q[i] < q[m]
      BY <1>1, <2>2, <3>1, Zenon
    <3> QED
      BY <3>1, <3>3, <3>4, <3>5
  <2> QED
    BY <1>3, <2>2, <2>4, <2>5 DEF Finds, q, n
<1> QED
  BY <1>4, <1>5

\* Looking an id up in the runs gives the lowest state of that name, and nothing for an
\* id that names none: the generated table loses nothing of the one it was made of
\* (gen_block_remap.py, to_server).
THEOREM TranslationReturns ==
  \A id \in Nat : ToServer(id) = IF id \in Known THEN Origin(id) ELSE NoState
<1> SUFFICES ASSUME NEW id \in Nat
             PROVE  ToServer(id) = IF id \in Known THEN Origin(id) ELSE NoState
  OBVIOUS
<1> DEFINE q == Increasing(Starts)
           m == LastRun(id)
           c == q[m]
<1>1. Finds(m, id)
  BY LookupFinds
<1>2. Known \subseteq Nat /\ Starts \subseteq Known /\ Cardinality(Starts) \in Nat
  BY KnownTyped, RunsAre DEF Starts
<1>3. CASE m = 0
  <2>1. ToServer(id) = NoState
    BY <1>3 DEF ToServer
  <2>2. \A d \in Starts : id < d
    BY <1>1, <1>2, <1>3 DEF Finds
  <2>3. id \notin Known
    <3> SUFFICES ASSUME id \in Known PROVE FALSE
      OBVIOUS
    <3>1. PICK d \in Starts : Within(d, id)
      BY RunsBegin
    <3>2. d <= id /\ id < d /\ d \in Nat
      BY <1>2, <2>2, <3>1 DEF Within
    <3> QED
      BY <3>2
  <2> QED
    BY <2>1, <2>3
<1>4. CASE m # 0
  <2>1. /\ m \in 1..Cardinality(Starts) /\ c \in Starts /\ c <= id
        /\ \A d \in Starts : d <= id => d <= c
    BY <1>1, <1>4 DEF Finds
  <2>2. /\ Runs[m].start = c /\ Runs[m].len = RunEnd(c) - c + 1 /\ Runs[m].offset = Origin(c) - c
    BY <2>1, RunsAre
  <2> HIDE DEF m, c
  <2>3. ToServer(id) = IF id >= c + (RunEnd(c) - c + 1) THEN NoState ELSE id + (Origin(c) - c)
    BY <1>4, <2>2 DEF ToServer, m
  <2>4. c \in Known /\ c \in Nat /\ ~Joins(c)
    BY <1>2, <2>1 DEF Starts
  <2>5. /\ RunEnd(c) \in Nat /\ Within(c, RunEnd(c))
        /\ ~(RunEnd(c) + 1 \in Known /\ Joins(RunEnd(c) + 1))
    BY <1>2, <2>4, RunsEnd
  <2>6. Origin(c) \in Nat
    BY <2>4, OriginIs
  <2>7. CASE id \in Known
    <3>1. PICK d \in Starts : Within(d, id)
      BY <2>7, RunsBegin
    <3>2. d <= c /\ d \in Nat
      BY <1>2, <2>1, <3>1 DEF Within
    <3>3. d = c
      <4> SUFFICES ASSUME d # c PROVE FALSE
        OBVIOUS
      <4>1. c \in d + 1..id
        BY <2>1, <2>4, <3>2
      <4> QED
        BY <2>4, <3>1, <4>1, Zenon DEF Within
    <3>4. id <= RunEnd(c)
      <4> SUFFICES ASSUME RunEnd(c) < id PROVE FALSE
        BY <2>5
      <4>1. RunEnd(c) + 1 \in c + 1..id
        <5>1. c <= RunEnd(c)
          BY <2>5 DEF Within
        <5> QED
          BY <2>4, <2>5, <5>1
      <4> QED
        BY <2>5, <3>1, <3>3, <4>1, Zenon DEF Within
    <3>5. Origin(id) - id = Origin(c) - c
      BY <3>1, <3>3, RunsKeepTheirOffset
    <3>6. Origin(id) \in Nat
      BY <2>7, OriginIs
    <3>7. ~(id >= c + (RunEnd(c) - c + 1)) /\ id + (Origin(c) - c) = Origin(id)
      BY <2>4, <2>5, <2>6, <3>4, <3>5, <3>6
    <3> QED
      BY <2>3, <2>7, <3>7
  <2>8. CASE id \notin Known
    <3>1. ~(id <= RunEnd(c))
      <4> SUFFICES ASSUME id <= RunEnd(c) PROVE FALSE
        OBVIOUS
      <4>1. id # c
        BY <2>4, <2>8
      <4>2. id \in c + 1..RunEnd(c)
        BY <2>1, <2>4, <2>5, <4>1
      <4> QED
        BY <2>5, <2>8, <4>2, Zenon DEF Within
    <3>2. id >= c + (RunEnd(c) - c + 1)
      BY <2>4, <2>5, <3>1
    <3> QED
      BY <2>3, <2>8, <3>2
  <2> QED
    BY <2>7, <2>8
<1> QED
  BY <1>3, <1>4

-----------------------------------------------------------------------------
(***************************************************************************)
(* Placing: what a request says of a place that is to be left alone is     *)
(* what is there afterwards.                                               *)
(***************************************************************************)

\* server_state means what the client means: the one state of that name, if there is one.
LEMMA ServerStateMeans ==
  ASSUME NEW id \in Nat
  PROVE  ServerState(old, id) = Meaning(id)
<1> DEFINE named == IF old THEN {s \in States : ToClient[s + 1] = id} ELSE {id} \cap States
           first == CHOOSE s \in named : \A t \in named : s <= t
<1>1. Meaning(id) = IF named = {} THEN NoState ELSE first
  BY Zenon DEF Meaning, States
<1>2. ServerState(old, id) = LET s == IF old THEN ToServer(id) ELSE id
                             IN IF s \in States THEN s ELSE NoState
  BY Zenon DEF ServerState, States
<1>3. States \subseteq Nat /\ NoState \notin States
  BY StatesTyped
<1>4. ASSUME NEW s \in named, \A t \in named : s <= t PROVE first = s
  <2>1. named \subseteq Nat
    BY <1>3
  <2> HIDE DEF named
  <2>2. first \in named /\ \A t \in named : first <= t
    BY <1>4, Zenon
  <2>3. first <= s /\ s <= first /\ first \in Nat /\ s \in Nat
    BY <1>4, <2>1, <2>2
  <2> QED
    BY <2>3
<1>5. CASE old
  <2>1. named = {s \in States : ToClient[s + 1] = id}
    BY <1>5
  <2>2. CASE id \in Known
    <3>1. ServerState(old, id) = Origin(id)
      BY <1>2, <1>5, <2>2, TranslationReturns, OriginIs
    <3>2. Origin(id) \in named /\ \A t \in named : Origin(id) <= t
      BY <2>1, <2>2, OriginIs
    <3> HIDE DEF named, first
    <3>3. first = Origin(id)
      BY <1>4, <3>2
    <3> QED
      BY <1>1, <3>1, <3>2, <3>3
  <2>3. CASE id \notin Known
    <3>1. named = {}
      BY <2>1, <2>3, KnownTyped
    <3>2. ToServer(id) = NoState
      BY <2>3, TranslationReturns
    <3> QED
      BY <1>1, <1>2, <1>3, <1>5, <3>1, <3>2
  <2> QED
    BY <2>2, <2>3
<1>6. CASE ~old
  <2>1. named = {id} \cap States
    BY <1>6
  <2>2. CASE id \in States
    <3>1. id \in named /\ \A t \in named : id <= t
      BY <2>1, <2>2
    <3> HIDE DEF named, first
    <3>2. first = id
      BY <1>4, <3>1
    <3> QED
      BY <1>1, <1>2, <1>6, <2>2, <3>1, <3>2
  <2>3. CASE id \notin States
    BY <1>1, <1>2, <1>6, <2>1, <2>3
  <2> QED
    BY <2>2, <2>3
<1> QED
  BY <1>5, <1>6

LEMMA CellsAreSomewhere == Cells \subseteq Positions
<1>1. Side \in Nat
  BY SectionsAssumption
<1>2. ASSUME NEW key \in WorldSections, NEW o \in Cube PROVE CellIn(key, o) \in Positions
  <2>1. key[1] \in Int /\ key[2] \in Int /\ key[3] \in Int
    BY BlockEditsAssumption
  <2>2. o[1] \in Int /\ o[2] \in Int /\ o[3] \in Int
    BY <1>1 DEF Cube
  <2>3. /\ key[1] * Side + o[1] \in Int /\ key[2] * Side + o[2] \in Int
        /\ key[3] * Side + o[3] \in Int
    BY <1>1, <2>1, <2>2
  <2> QED
    BY <2>3 DEF CellIn, Positions
<1> QED
  BY <1>2 DEF Cells

\* The places around which a request leaves everything alone.
KeepsOff(r, p) == p \in Cells /\ (r.update => p \in r.prevent)

LEMMA OneIsPlaced ==
  ASSUME NEW w \in WorldStates, NEW r, NEW edit \in [pos: Positions, state: Nat],
         NEW p, KeepsOff(r, p)
  PROVE  PlaceOne(w, r, old, edit).blocks[p] =
           IF edit.pos = p /\ Meaning(edit.state) # NoState THEN Meaning(edit.state)
           ELSE w.blocks[p]
<1> DEFINE state == Meaning(edit.state)
           at    == edit.pos
           there == Ensure(w, Column(at))
           flags == PlacementFlags(r.update /\ ~NearProtected(r, at))
           put   == [there.blocks EXCEPT ![at] = state]
           falls == IF "moved" \in flags THEN {}
                    ELSE {q \in Cells : Distance(at, q) <= 1 /\ Hanging(put, q)}
           after == [q \in Cells |-> IF q \in falls THEN Air ELSE put[q]]
           tags  == [q \in Cells |-> IF after[q] = there.blocks[q] THEN there.tags[q] ELSE NoTag]
           new   == [there EXCEPT !.blocks = after, !.tags = tags]
<1>1. edit.state \in Nat /\ at \in Positions /\ p \in Cells /\ p \in Positions
  BY CellsAreSomewhere DEF KeepsOff
<1>2. PlaceOne(w, r, old, edit) =
        IF state = NoState THEN w ELSE SetBlockState(there, at, state, flags)
  BY <1>1, ServerStateMeans, Zenon DEF PlaceOne
<1>3. SetBlockState(there, at, state, flags) =
        IF at \notin Cells \/ Column(at) \notin there.loaded THEN there ELSE new
  BY Zenon DEF SetBlockState
<1>4. there \in WorldStates /\ there.blocks = w.blocks
  BY EnsureTyped, WorldStatesAre DEF Ensure
<1>5. at \in Cells => Column(at) \in there.loaded
  BY WorldStatesAre DEF Ensure, Columns
<1>6. p \notin falls
  <2>1. CASE r.update /\ ~NearProtected(r, at)
    <3>1. p \in r.prevent
      BY <2>1 DEF KeepsOff
    <3>2. ~(Distance(at, p) <= 1)
      BY <2>1, <3>1 DEF NearProtected
    <3> QED
      BY <3>2
  <2>2. CASE ~(r.update /\ ~NearProtected(r, at))
    <3>1. "moved" \in flags
      BY <2>2 DEF PlacementFlags
    <3> QED
      BY <3>1
  <2> QED
    BY <2>1, <2>2
<1>7. put[p] = IF at = p THEN state ELSE w.blocks[p]
  BY <1>1, <1>4, WorldStatesAre
<1>8. after[p] = IF at = p THEN state ELSE w.blocks[p]
  <2> HIDE DEF put, falls
  <2> QED
    BY <1>1, <1>6, <1>7
<1>9. new.blocks = after
  <2> HIDE DEF after, tags, there
  <2> QED
    BY <1>4, WorldStatesAre
<1> HIDE DEF state, at, there, flags, after, new
<1>10. CASE state = NoState
  BY <1>2, <1>10 DEF state, at
<1>11. CASE state # NoState /\ at \notin Cells
  BY <1>1, <1>2, <1>3, <1>4, <1>11 DEF state, at
<1>12. CASE state # NoState /\ at \in Cells
  BY <1>2, <1>3, <1>5, <1>8, <1>9, <1>12 DEF state, at
<1> QED
  BY <1>10, <1>11, <1>12

\* The worlds that have a block at p.
Having(p, state) == {w \in WorldStates : w.blocks[p] = state}

LEMMA AllArePlaced ==
  ASSUME NEW w \in WorldStates, NEW r, r.blocks \in Seq([pos: Positions, state: Nat]),
         NEW p, KeepsOff(r, p), ListsFit(r), HasPerm(BUILD_PLACE)
  PROVE  LET said == AboutPlace(r, p)
         IN SetBlock(w, r, old).blocks[p] =
              IF said = {} THEN w.blocks[p]
              ELSE Meaning(r.blocks[CHOOSE k \in said : \A j \in said : j <= k].state)
<1> DEFINE said == AboutPlace(r, p)
           last == CHOOSE k \in said : \A j \in said : j <= k
           n    == Len(r.blocks)
<1>1. PICK h : BlockByBlock(h, w, r, old) /\ SetBlock(w, r, old) = h[n]
  BY BlocksArePlaced
<1>2. /\ n \in Nat /\ DOMAIN r.blocks = 1 .. n
      /\ \A k \in 1 .. n : r.blocks[k] \in [pos: Positions, state: Nat]
  <2>1. n \in Nat /\ DOMAIN r.blocks = 1 .. n
    OBVIOUS
  <2>2. \A k \in DOMAIN r.blocks : r.blocks[k] \in [pos: Positions, state: Nat]
    BY ElementTyped
  <2> HIDE DEF n
  <2> QED
    BY <2>1, <2>2
<1>3. h \in [0 .. n -> WorldStates] /\ h[0] = w
  BY <1>1 DEF BlockByBlock
<1>4. ASSUME NEW k \in 1 .. n
      PROVE  h[k] \in WorldStates /\
             h[k].blocks[p] = IF k \in said THEN Meaning(r.blocks[k].state) ELSE h[k - 1].blocks[p]
  <2>1. h[k - 1] \in WorldStates /\ h[k] \in WorldStates
    BY <1>2, <1>3
  <2>2. h[k] = PlaceOne(h[k - 1], r, old, r.blocks[k])
    BY <1>1 DEF BlockByBlock
  <2>3. k \in said <=> r.blocks[k].pos = p /\ Meaning(r.blocks[k].state) # NoState
    BY <1>2 DEF AboutPlace
  <2> HIDE DEF said
  <2>4. PlaceOne(h[k - 1], r, old, r.blocks[k]).blocks[p] =
          IF r.blocks[k].pos = p /\ Meaning(r.blocks[k].state) # NoState
          THEN Meaning(r.blocks[k].state) ELSE h[k - 1].blocks[p]
    BY <1>2, <2>1, OneIsPlaced
  <2> QED
    BY <2>1, <2>2, <2>3, <2>4, Zenon
<1>5. said \in SUBSET (1 .. n)
  BY <1>2 DEF AboutPlace
<1> HIDE DEF said, n
<1>6. CASE said = {}
  <2>1. w \in Having(p, w.blocks[p]) /\ Having(p, w.blocks[p]) \in SUBSET WorldStates
    BY DEF Having
  <2>2. \A k \in 0 + 1 .. n : h[k - 1] \in Having(p, w.blocks[p]) => h[k] \in Having(p, w.blocks[p])
    BY <1>4, <1>6 DEF Having
  <2>3. 0 \in 0 .. n
    BY <1>2
  <2>4. h[n] \in Having(p, w.blocks[p])
    BY <1>2, <1>3, <2>1, <2>2, <2>3, WalkEndsIn
  <2> QED
    BY <1>1, <1>6, <2>4 DEF Having, said
<1>7. CASE said # {}
  <2>1. \E k \in said : \A j \in said : j <= k
    BY <1>2, <1>5, <1>7, HasALast
  <2>2. last \in said /\ \A j \in said : j <= last
    BY <2>1, Zenon
  <2> DEFINE state == Meaning(r.blocks[last].state)
  <2> HIDE DEF last
  <2>3. last \in 1 .. n /\ last \in 0 .. n
    BY <1>2, <1>5, <2>2
  <2>4. h[last] \in Having(p, state) /\ Having(p, state) \in SUBSET WorldStates
    BY <1>4, <2>2, <2>3 DEF Having
  <2> HIDE DEF state
  <2>5. ASSUME NEW k \in last + 1 .. n, h[k - 1] \in Having(p, state)
        PROVE  h[k] \in Having(p, state)
    <3>1. k \in 1 .. n /\ ~(k <= last)
      BY <1>2, <2>3
    <3>2. k \notin said
      BY <2>2, <3>1
    <3> QED
      BY <1>4, <2>5, <3>1, <3>2 DEF Having
  <2>6. h[n] \in Having(p, state)
    BY <1>2, <1>3, <2>3, <2>4, <2>5, WalkEndsIn
  <2> QED
    BY <1>1, <1>7, <2>6 DEF Having, said, last, state
<1> QED
  BY <1>6, <1>7

\* A placement without updates, and one around protected positions, leaves every block
\* it is to leave alone as the request says, or as it was: fragile neighbours stay, ids
\* mean what the client means by them, and where a request names a place twice its last
\* word counts (set_block, placement_flags).
THEOREM PlacementsStay ==
  WorldSpec => [][\A r \in HandledOf("set block") : PlacesWhatWasSaid(r)]_worldVars
<1>1. WorldInv /\ [WorldNext]_worldVars =>
        [\A r \in HandledOf("set block") : PlacesWhatWasSaid(r)]_worldVars
  <2> SUFFICES ASSUME WorldInv, WorldNext, c2s # <<>>, c2s' = Tail(c2s), Request.type = "set block"
               PROVE  PlacesWhatWasSaid(Request)
    BY DEF HandledOf
  <2>1. HandleSetBlock
    <3>1. Handle
      BY OnlyHandlersTake
    <3> QED
      BY <3>1 DEF Handle, HandleBiomeBuffer, HandleSetBuffer, HandleTickBlocks, HandleRequestChunkData,
         HandleManipulateEntity, HandleSpawnEntity, HandleControl, HandleTeleport, Taken, Request
  <2>2. /\ WellFormed(Request) /\ Here \in WorldStates /\ dim \in Dims
        /\ worlds \in [Dims -> WorldStates]
    BY TakenIsFit DEF WorldInv, PlaceTyped
  <2>3. Request.blocks \in Seq([pos: Positions, state: Nat])
    BY <2>2, SetBlockFits
  <2>4. worlds' = [worlds EXCEPT ![dim] = SetBlock(Here, Request, old)]
    BY <2>1, Zenon DEF HandleSetBlock, Edits
  <2>5. There = SetBlock(Here, Request, old)
    BY <2>2, <2>4 DEF There
  <2> SUFFICES ASSUME HasPerm(BUILD_PLACE), ListsFit(Request),
                      NEW p \in Cells \cap (IF Request.update THEN Request.prevent ELSE Cells)
               PROVE  LET said == AboutPlace(Request, p)
                      IN There.blocks[p] =
                           IF said = {} THEN Here.blocks[p]
                           ELSE Meaning(Request.blocks[CHOOSE k \in said : \A j \in said : j <= k].state)
    BY Zenon DEF PlacesWhatWasSaid
  <2>6. KeepsOff(Request, p)
    BY DEF KeepsOff
  <2> QED
    BY <2>2, <2>3, <2>5, <2>6, AllArePlaced, Zenon
<1> QED
  BY <1>1, WorldInvHolds, PTL DEF WorldSpec

=============================================================================
