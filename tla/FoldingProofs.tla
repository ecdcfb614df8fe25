--------------------------- MODULE FoldingProofs ---------------------------
(***************************************************************************)
(* Folds over sequences, for the proofs of modules that use them.          *)
(*                                                                         *)
(* FoldLeft is a recursive function on the subsets of a domain.  That there*)
(* is one is FoldExists; the rest is induction over the natural numbers,   *)
(* here by sets of them: an operator cannot be passed to a lemma, so what  *)
(* is folded is given as a function.                                       *)
(***************************************************************************)
EXTENDS Integers, SequencesExt, SequenceTheorems, WellFoundedInduction, TLAPS

LEMMA LeastNat ==
  ASSUME NEW T \in SUBSET Nat, T # {}
  PROVE  \E x \in T : \A y \in T : x <= y
<1> DEFINE R == {ss \in Nat \X Nat : ss[1] < ss[2]}
<1>1. IsWellFoundedOn(R, Nat)
  BY NatLessThanWellFounded, Zenon DEF OpToRel
<1>2. \E x \in T : \A y \in T : ~ (<<y, x>> \in R)
  BY <1>1, WFMin, Zenon
<1>3. \A x, y \in T : <<y, x>> \notin R => x <= y
  OBVIOUS
<1> QED
  BY <1>2, <1>3

\* Induction: T stands for what is to be shown of every number.
LEMMA Induction ==
  ASSUME NEW T \in SUBSET Nat, 0 \in T, \A n \in T : n + 1 \in T
  PROVE  \A n \in Nat : n \in T
<1>1. SUFFICES ASSUME Nat \ T # {} PROVE FALSE
  OBVIOUS
<1>2. PICK x \in Nat \ T : \A y \in Nat \ T : x <= y
  BY <1>1, LeastNat
<1>3. x # 0 /\ x - 1 \in Nat
  BY <1>2
<1>4. x - 1 \in T
  BY <1>2, <1>3
<1>5. x - 1 + 1 = x
  BY <1>2
<1> QED
  BY <1>2, <1>4, <1>5

LEMMA MaxIs ==
  ASSUME NEW n \in Nat, NEW s \in SUBSET (1 .. n + 1), n + 1 \in s
  PROVE  Max(s) = n + 1
<1>1. \A y \in s : n + 1 >= y
  OBVIOUS
<1>2. Max(s) \in s /\ \A y \in s : Max(s) >= y
  BY <1>1 DEF Max
<1>3. Max(s) \in 1 .. n + 1 /\ Max(s) >= n + 1
  BY <1>2
<1> HIDE DEF Max
<1> QED
  BY <1>3

\* The first k indices of a sequence, for a fold over it.
LEMMA Initial ==
  ASSUME NEW n \in Nat, NEW k \in 1 .. n
  PROVE  /\ 1 .. k \in SUBSET (1 .. n) /\ 1 .. k - 1 \in SUBSET (1 .. n)
         /\ 1 .. k # {} /\ Max(1 .. k) = k /\ (1 .. k) \ {k} = 1 .. k - 1
<1>1. 1 .. k \in SUBSET (1 .. n) /\ 1 .. k - 1 \in SUBSET (1 .. n) /\ k \in 1 .. k
  OBVIOUS
<1>2. k - 1 \in Nat /\ k - 1 + 1 = k
  OBVIOUS
<1>3. Max(1 .. k) = k
  BY <1>1, <1>2, MaxIs
<1>4. (1 .. k) \ {k} = 1 .. k - 1
  OBVIOUS
<1> QED
  BY <1>1, <1>3, <1>4

\* f is what a fold of the first n elements of q computes, for every set of indices.
IsFold(f, n, R, base, q) ==
  \A s \in SUBSET (1 .. n) :
    f[s] = IF s = {} THEN base ELSE R[<<f[s \ {Max(s)}], q[Max(s)]>>]

HasFold(n, A, R, base, q) == \E f \in [SUBSET (1 .. n) -> A] : IsFold(f, n, R, base, q)

\* A fold has a value for every set of indices.
LEMMA FoldExists ==
  ASSUME NEW A, NEW B, NEW R \in [A \X B -> A], NEW base \in A, NEW q \in Seq(B)
  PROVE  \E f \in [SUBSET (1 .. Len(q)) -> A] : IsFold(f, Len(q), R, base, q)
<1> DEFINE T == {n \in Nat : n <= Len(q) => HasFold(n, A, R, base, q)}
<1>1. Len(q) \in Nat /\ \A i \in 1 .. Len(q) : q[i] \in B
  OBVIOUS
<1>2. 0 \in T
  <2> DEFINE f == [s \in SUBSET (1 .. 0) |-> base]
  <2>1. \A s \in SUBSET (1 .. 0) : s = {}
    OBVIOUS
  <2>2. f \in [SUBSET (1 .. 0) -> A] /\ \A s \in SUBSET (1 .. 0) : f[s] = base
    OBVIOUS
  <2> HIDE DEF f
  <2>3. IsFold(f, 0, R, base, q)
    BY <2>1, <2>2 DEF IsFold
  <2>4. HasFold(0, A, R, base, q)
    BY <2>2, <2>3 DEF HasFold
  <2> QED
    BY <2>4
<1>3. ASSUME NEW n \in T PROVE n + 1 \in T
  <2> SUFFICES ASSUME n + 1 <= Len(q)
               PROVE  HasFold(n + 1, A, R, base, q)
    OBVIOUS
  <2>1. n \in Nat /\ n + 1 \in 1 .. Len(q)
    BY <1>1
  <2>2. PICK f \in [SUBSET (1 .. n) -> A] : IsFold(f, n, R, base, q)
    <3>1. HasFold(n, A, R, base, q)
      BY <2>1, <1>1
    <3> QED
      BY <3>1 DEF HasFold
  <2> DEFINE g == [s \in SUBSET (1 .. n + 1) |->
                     IF n + 1 \in s THEN R[<<f[s \ {n + 1}], q[n + 1]>>] ELSE f[s]]
  <2>3. ASSUME NEW s \in SUBSET (1 .. n + 1)
        PROVE  /\ s \ {n + 1} \in SUBSET (1 .. n)
               /\ n + 1 \notin s => s \in SUBSET (1 .. n)
    BY <2>1
  <2>4. g \in [SUBSET (1 .. n + 1) -> A]
    <3> SUFFICES ASSUME NEW s \in SUBSET (1 .. n + 1)
                 PROVE  (IF n + 1 \in s THEN R[<<f[s \ {n + 1}], q[n + 1]>>] ELSE f[s]) \in A
      OBVIOUS
    <3>1. f[s \ {n + 1}] \in A /\ (n + 1 \notin s => f[s] \in A)
      BY <2>2, <2>3
    <3> QED
      BY <1>1, <2>1, <3>1
  <2>5. ASSUME NEW s \in SUBSET (1 .. n + 1)
        PROVE  g[s] = IF s = {} THEN base ELSE R[<<g[s \ {Max(s)}], q[Max(s)]>>]
    <3>1. CASE n + 1 \in s
      <4>1. Max(s) = n + 1
        BY <2>1, <3>1, MaxIs
      <4>2. g[s \ {n + 1}] = f[s \ {n + 1}]
        BY <2>3
      <4>3. g[s] = R[<<f[s \ {n + 1}], q[n + 1]>>]
        BY <3>1
      <4> HIDE DEF g
      <4> QED
        BY <3>1, <4>1, <4>2, <4>3, Zenon
    <3>2. CASE n + 1 \notin s
      <4>1. s \in SUBSET (1 .. n) /\ n + 1 \notin s \ {Max(s)}
            /\ s \ {Max(s)} \in SUBSET (1 .. n + 1)
        BY <2>3, <3>2
      <4>2. g[s] = f[s] /\ g[s \ {Max(s)}] = f[s \ {Max(s)}]
        BY <3>2, <4>1, Zenon
      <4> HIDE DEF g
      <4> QED
        BY <2>2, <4>1, <4>2, Zenon DEF IsFold
    <3> QED
      BY <3>1, <3>2
  <2> HIDE DEF g
  <2>6. IsFold(g, n + 1, R, base, q)
    BY <2>5 DEF IsFold
  <2> QED
    BY <2>4, <2>6 DEF HasFold
<1> HIDE DEF T
<1>4. Len(q) \in T
  <2>1. T \in SUBSET Nat
    BY DEF T
  <2> QED
    BY <1>1, <1>2, <1>3, <2>1, Induction
<1>5. HasFold(Len(q), A, R, base, q)
  BY <1>1, <1>4 DEF T
<1> QED
  BY <1>5 DEF HasFold

LEMMA MaxOf ==
  ASSUME NEW n \in Nat, NEW s \in SUBSET (1 .. n), s # {}
  PROVE  Max(s) \in s
<1> DEFINE T == {m \in Nat : \E y \in s : m + y = n}
<1>1. T # {}
  <2>1. PICK y \in s : TRUE
    OBVIOUS
  <2>2. n - y \in Nat /\ n - y + y = n
    BY <2>1
  <2> QED
    BY <2>2
<1>2. PICK m \in T : \A k \in T : m <= k
  <2> HIDE DEF T
  <2>1. T \in SUBSET Nat
    BY DEF T
  <2> QED
    BY <1>1, <2>1, LeastNat
<1>3. PICK x \in s : m + x = n
  BY <1>2
<1>4. ASSUME NEW y \in s PROVE x >= y
  <2>1. n - y \in T
    OBVIOUS
  <2>2. m <= n - y
    BY <1>2, <2>1
  <2> QED
    BY <1>2, <1>3, <2>2
<1> QED
  BY <1>4 DEF Max

\* it computes the fold step by step, where it computes at all.
Computes(it, A, R, base, q) ==
  /\ it[{}] = base
  /\ \A s \in SUBSET DOMAIN q :
       s # {} /\ it[s \ {Max(s)}] \in A => it[s] = R[<<it[s \ {Max(s)}], q[Max(s)]>>]

\* h are the values the fold passes through.
Passes(h, R, base, q) ==
  /\ h[0] = base
  /\ \A k \in 1 .. Len(q) : h[k] = R[<<h[k - 1], q[k]>>]

Concludes(h, it, q) == h[Len(q)] = it[DOMAIN q]

LEMMA FoldRuns ==
  ASSUME NEW A, NEW B, NEW R \in [A \X B -> A], NEW base \in A, NEW q \in Seq(B), NEW it,
         Computes(it, A, R, base, q)
  PROVE  \E h \in [0 .. Len(q) -> A] : Passes(h, R, base, q) /\ Concludes(h, it, q)
<1> DEFINE T == {k \in Nat : k <= Len(q) => it[1 .. k] \in A}
<1>1. Len(q) \in Nat /\ DOMAIN q = 1 .. Len(q) /\ \A i \in 1 .. Len(q) : q[i] \in B
  OBVIOUS
<1>2. 1 .. 0 = {}
  OBVIOUS
<1>3. ASSUME NEW k \in 1 .. Len(q), it[1 .. k - 1] \in A
      PROVE  it[1 .. k] = R[<<it[1 .. k - 1], q[k]>>] /\ it[1 .. k] \in A
  <2>1. /\ 1 .. k \in SUBSET DOMAIN q /\ 1 .. k # {} /\ Max(1 .. k) = k
        /\ (1 .. k) \ {k} = 1 .. k - 1
    BY <1>1, Initial
  <2>2. it[1 .. k] = R[<<it[1 .. k - 1], q[k]>>]
    BY <1>3, <2>1 DEF Computes
  <2>3. q[k] \in B
    BY <1>1
  <2> QED
    BY <1>3, <2>2, <2>3
<1>4. \A k \in Nat : k \in T
  <2>1. 0 \in T
    BY <1>2 DEF Computes
  <2>2. ASSUME NEW k \in T PROVE k + 1 \in T
    <3> SUFFICES ASSUME k + 1 <= Len(q) PROVE it[1 .. k + 1] \in A
      OBVIOUS
    <3>1. k + 1 \in 1 .. Len(q) /\ k + 1 - 1 = k /\ it[1 .. k] \in A
      BY <1>1
    <3> DEFINE l == k + 1
    <3>2. l \in 1 .. Len(q) /\ l - 1 = k
      BY <3>1
    <3> HIDE DEF l
    <3>3. it[1 .. l - 1] \in A
      BY <3>1, <3>2
    <3>4. it[1 .. l] \in A
      BY <1>3, <3>2, <3>3
    <3> QED
      BY <3>4 DEF l
  <2>3. T \in SUBSET Nat
    OBVIOUS
  <2> HIDE DEF T
  <2> QED
    BY <2>1, <2>2, <2>3, Induction
<1> DEFINE h == [k \in 0 .. Len(q) |-> it[1 .. k]]
<1>5. ASSUME NEW k \in 0 .. Len(q) PROVE it[1 .. k] \in A
  <2>1. k \in Nat /\ k <= Len(q)
    BY <1>1
  <2> QED
    BY <1>4, <2>1
<1>6. h \in [0 .. Len(q) -> A]
  BY <1>5
<1>7. \A k \in 1 .. Len(q) : h[k] = R[<<h[k - 1], q[k]>>]
  <2> TAKE k \in 1 .. Len(q)
  <2>1. k \in 0 .. Len(q) /\ k - 1 \in 0 .. Len(q)
    BY <1>1
  <2>2. h[k] = it[1 .. k] /\ h[k - 1] = it[1 .. k - 1]
    BY <2>1
  <2>3. it[1 .. k] = R[<<it[1 .. k - 1], q[k]>>]
    BY <1>3, <1>5, <2>1
  <2> HIDE DEF h
  <2> QED
    BY <2>2, <2>3, Zenon
<1>8. h[0] = base /\ it[DOMAIN q] = h[Len(q)]
  BY <1>1, <1>2 DEF Computes
<1> HIDE DEF h
<1> QED
  BY <1>6, <1>7, <1>8 DEF Passes, Concludes

(***************************************************************************)
(* Sums.                                                                   *)
(***************************************************************************)

SumOf(s) == FoldLeft(LAMBDA sum, n : sum + n, 0, s)

\* h are the sums of the first k numbers.
Summed(h, s) ==
  /\ h[0] = 0
  /\ \A k \in 1 .. Len(s) : h[k] = h[k - 1] + s[k]

Addition == [p \in Int \X Int |-> p[1] + p[2]]

LEMMA SumRuns ==
  ASSUME NEW s \in Seq(Int)
  PROVE  \E h \in [0 .. Len(s) -> Int] : Summed(h, s) /\ SumOf(s) = h[Len(s)]
<1> DEFINE it == CHOOSE g : g = [i \in SUBSET DOMAIN s |->
                   IF i = {} THEN 0 ELSE g[i \ {Max(i)}] + s[Max(i)]]
<1>1. Addition \in [Int \X Int -> Int] /\ 0 \in Int
  BY DEF Addition
<1>2. ASSUME NEW i \in SUBSET DOMAIN s, i # {} PROVE s[Max(i)] \in Int
  <2>1. Len(s) \in Nat /\ DOMAIN s = 1 .. Len(s)
    OBVIOUS
  <2>2. Max(i) \in DOMAIN s
    BY <1>2, <2>1, MaxOf
  <2> QED
    BY <2>2
<1>3. \A a \in Int, b \in Int : Addition[<<a, b>>] = a + b
  BY DEF Addition
<1>4. \E f : f = [i \in SUBSET DOMAIN s |->
                   IF i = {} THEN 0 ELSE f[i \ {Max(i)}] + s[Max(i)]]
  <2>1. PICK f \in [SUBSET (1 .. Len(s)) -> Int] : IsFold(f, Len(s), Addition, 0, s)
    BY <1>1, FoldExists
  <2>2. DOMAIN s = 1 .. Len(s)
    OBVIOUS
  <2>3. ASSUME NEW i \in SUBSET DOMAIN s
        PROVE  f[i] = IF i = {} THEN 0 ELSE f[i \ {Max(i)}] + s[Max(i)]
    <3>1. CASE i = {}
      BY <2>1, <2>2, <3>1, Zenon DEF IsFold
    <3>2. CASE i # {}
      <4>1. f[i] = Addition[<<f[i \ {Max(i)}], s[Max(i)]>>]
        BY <2>1, <2>2, <3>2, Zenon DEF IsFold
      <4>2. i \ {Max(i)} \in SUBSET (1 .. Len(s)) /\ f[i \ {Max(i)}] \in Int
        BY <2>1, <2>2
      <4> QED
        BY <1>2, <1>3, <3>2, <4>1, <4>2, Zenon
    <3> QED
      BY <3>1, <3>2
  <2>4. f = [i \in SUBSET DOMAIN s |-> f[i]]
    BY <2>1, <2>2
  <2> QED
    BY <2>3, <2>4, Zenon
<1>5. it = [i \in SUBSET DOMAIN s |-> IF i = {} THEN 0 ELSE it[i \ {Max(i)}] + s[Max(i)]]
  BY <1>4, Zenon
<1>6. SumOf(s) = it[DOMAIN s]
  BY Zenon DEF SumOf, FoldLeft, MapThenFoldSet
<1> HIDE DEF it
<1>7. it[{}] = 0
  BY <1>5
<1>8. ASSUME NEW i \in SUBSET DOMAIN s, i # {}, it[i \ {Max(i)}] \in Int
      PROVE  it[i] = Addition[<<it[i \ {Max(i)}], s[Max(i)]>>]
  <2>1. it[i] = it[i \ {Max(i)}] + s[Max(i)]
    BY <1>5, <1>8, Zenon
  <2> QED
    BY <1>2, <1>3, <1>8, <2>1, Zenon
<1>9. Computes(it, Int, Addition, 0, s)
  BY <1>7, <1>8, Zenon DEF Computes
<1>10. PICK h \in [0 .. Len(s) -> Int] : Passes(h, Addition, 0, s) /\ Concludes(h, it, s)
  BY <1>1, <1>9, FoldRuns
<1>11. ASSUME NEW k \in 1 .. Len(s) PROVE h[k] = h[k - 1] + s[k]
  <2>1. h[k] = Addition[<<h[k - 1], s[k]>>]
    BY <1>10 DEF Passes
  <2>2. k - 1 \in 0 .. Len(s) /\ h[k - 1] \in Int /\ s[k] \in Int
    OBVIOUS
  <2> QED
    BY <1>3, <2>1, <2>2
<1>12. h[0] = 0 /\ SumOf(s) = h[Len(s)]
  BY <1>6, <1>10, Zenon DEF Passes, Concludes
<1> QED
  BY <1>11, <1>12 DEF Summed

\* The sums are determined by the numbers.
LEMMA SumIs ==
  ASSUME NEW s \in Seq(Int), NEW h \in [0 .. Len(s) -> Int], Summed(h, s)
  PROVE  SumOf(s) = h[Len(s)]
<1>1. PICK g \in [0 .. Len(s) -> Int] : Summed(g, s) /\ SumOf(s) = g[Len(s)]
  BY SumRuns
<1> DEFINE T == {k \in Nat : k <= Len(s) => g[k] = h[k]}
<1>2. 0 \in T
  BY <1>1 DEF Summed
<1>3. ASSUME NEW k \in T PROVE k + 1 \in T
  <2> SUFFICES ASSUME k + 1 <= Len(s) PROVE g[k + 1] = h[k + 1]
    OBVIOUS
  <2> DEFINE l == k + 1
  <2>1. l \in 1 .. Len(s) /\ l - 1 = k /\ g[k] = h[k]
    OBVIOUS
  <2> HIDE DEF l
  <2>2. g[l] = g[k] + s[l] /\ h[l] = h[k] + s[l]
    BY <1>1, <2>1 DEF Summed
  <2> QED
    BY <2>1, <2>2 DEF l
<1>4. T \in SUBSET Nat
  OBVIOUS
<1>5. Len(s) \in T
  <2> HIDE DEF T
  <2>1. Len(s) \in Nat
    OBVIOUS
  <2> QED
    BY <1>2, <1>3, <1>4, <2>1, Induction
<1> QED
  BY <1>1, <1>5

\* Sums of naturals are natural.
LEMMA SumsAreNatural ==
  ASSUME NEW s \in Seq(Nat), NEW h \in [0 .. Len(s) -> Int], Summed(h, s)
  PROVE  \A k \in 0 .. Len(s) : h[k] \in Nat
<1> DEFINE T == {k \in Nat : k <= Len(s) => h[k] \in Nat}
<1>1. 0 \in T
  BY DEF Summed
<1>2. ASSUME NEW k \in T PROVE k + 1 \in T
  <2> SUFFICES ASSUME k + 1 <= Len(s) PROVE h[k + 1] \in Nat
    OBVIOUS
  <2> DEFINE l == k + 1
  <2>1. l \in 1 .. Len(s) /\ l - 1 = k /\ h[k] \in Nat /\ s[l] \in Nat
    OBVIOUS
  <2> HIDE DEF l
  <2>2. h[l] = h[k] + s[l]
    BY <2>1 DEF Summed
  <2> QED
    BY <2>1, <2>2 DEF l
<1>3. T \in SUBSET Nat
  OBVIOUS
<1>4. \A k \in Nat : k \in T
  <2> HIDE DEF T
  <2> QED
    BY <1>1, <1>2, <1>3, Induction
<1> QED
  BY <1>4

\* One number more, at the end.
Longer(h, n, x) == [k \in 0 .. n + 1 |-> IF k <= n THEN h[k] ELSE h[n] + x]

LEMMA SumsOfAppend ==
  ASSUME NEW s \in Seq(Int), NEW x \in Int, NEW h \in [0 .. Len(s) -> Int], Summed(h, s)
  PROVE  LET l == Longer(h, Len(s), x)
         IN  /\ Append(s, x) \in Seq(Int) /\ Len(Append(s, x)) = Len(s) + 1
             /\ l \in [0 .. Len(s) + 1 -> Int] /\ Summed(l, Append(s, x))
             /\ \A k \in 0 .. Len(s) : l[k] = h[k]
             /\ l[Len(s) + 1] = h[Len(s)] + x
<1> DEFINE n == Len(s)
           t == Append(s, x)
           l == Longer(h, n, x)
<1>1. n \in Nat /\ n \in 0 .. n
  OBVIOUS
<1>2. t \in Seq(Int) /\ Len(t) = n + 1 /\ t[n + 1] = x /\ \A k \in 1 .. n : t[k] = s[k]
  OBVIOUS
<1> HIDE DEF n, t
<1>3. h \in [0 .. n -> Int] /\ h[0] = 0 /\ \A k \in 1 .. n : h[k] = h[k - 1] + s[k]
  BY DEF n, Summed
<1>4. /\ l \in [0 .. n + 1 -> Int] /\ l[n + 1] = h[n] + x
      /\ \A k \in 0 .. n : l[k] = h[k]
  BY <1>1, <1>3 DEF Longer
<1> HIDE DEF l
<1>5. ASSUME NEW k \in 1 .. n + 1 PROVE l[k] = l[k - 1] + t[k]
  <2>1. CASE k \in 1 .. n
    <3>1. k \in 0 .. n /\ k - 1 \in 0 .. n
      BY <1>1, <2>1
    <3>2. l[k] = h[k] /\ l[k - 1] = h[k - 1] /\ t[k] = s[k]
      BY <1>2, <1>4, <2>1, <3>1
    <3> QED
      BY <1>3, <2>1, <3>2
  <2>2. CASE k = n + 1
    <3>1. k - 1 = n /\ n \in 0 .. n
      BY <1>1, <2>2
    <3>2. l[k] = h[n] + x /\ l[k - 1] = h[n] /\ t[k] = x
      BY <1>2, <1>4, <2>2, <3>1
    <3> QED
      BY <3>2
  <2> QED
    BY <1>1, <2>1, <2>2
<1>6. l[0] = 0
  BY <1>1, <1>3, <1>4
<1>7. Summed(l, t)
  BY <1>2, <1>5, <1>6 DEF Summed
<1> QED
  BY <1>2, <1>4, <1>7 DEF n, t, l

\* One number less, at the front.
Shorter(h, n) == [k \in 0 .. n - 1 |-> h[k + 1] - h[1]]

LEMMA SumsOfTail ==
  ASSUME NEW s \in Seq(Int), s # <<>>, NEW h \in [0 .. Len(s) -> Int], Summed(h, s)
  PROVE  LET l == Shorter(h, Len(s))
         IN  /\ Tail(s) \in Seq(Int) /\ Len(Tail(s)) = Len(s) - 1
             /\ Len(s) \in Nat \ {0} /\ h[1] = s[1] /\ s[1] \in Int
             /\ l \in [0 .. Len(s) - 1 -> Int] /\ Summed(l, Tail(s))
             /\ \A k \in 0 .. Len(s) - 1 : l[k] = h[k + 1] - s[1]
<1> DEFINE n == Len(s)
           t == Tail(s)
           l == Shorter(h, n)
<1>1. n \in Nat \ {0} /\ s[1] \in Int
  OBVIOUS
<1>2. t \in Seq(Int) /\ Len(t) = n - 1 /\ \A k \in 1 .. n - 1 : t[k] = s[k + 1]
  OBVIOUS
<1> HIDE DEF n, t
<1>3. h \in [0 .. n -> Int] /\ h[0] = 0 /\ \A k \in 1 .. n : h[k] = h[k - 1] + s[k]
  BY DEF n, Summed
<1>4. h[1] = s[1]
  <2>1. 1 \in 1 .. n /\ 1 - 1 = 0
    BY <1>1
  <2>2. h[1] = h[1 - 1] + s[1]
    BY <1>3, <2>1
  <2> QED
    BY <1>1, <1>3, <2>1, <2>2
<1>5. \A k \in 0 .. n - 1 : k + 1 \in 0 .. n /\ k + 1 \in 1 .. n
  BY <1>1
<1>6. l \in [0 .. n - 1 -> Int] /\ \A k \in 0 .. n - 1 : l[k] = h[k + 1] - s[1]
  BY <1>1, <1>3, <1>4, <1>5, SMTT(30) DEF Shorter
<1> HIDE DEF l
<1>7. ASSUME NEW k \in 1 .. n - 1 PROVE l[k] = l[k - 1] + t[k]
  <2> DEFINE m == k + 1
  <2>1. m \in 1 .. n /\ m - 1 = k /\ k \in 0 .. n /\ k \in 0 .. n - 1
        /\ k - 1 \in 0 .. n - 1 /\ k - 1 + 1 = k
    BY <1>1
  <2>2. l[k] = h[m] - s[1] /\ t[k] = s[m]
    BY <1>2, <1>6, <2>1
  <2>3. l[k - 1] = h[k] - s[1]
    BY <1>6, <2>1
  <2> HIDE DEF m
  <2>4. h[m] = h[k] + s[m]
    BY <1>3, <2>1
  <2>5. h[k] \in Int /\ s[m] \in Int
    BY <1>3, <2>1, SMTT(30) DEF n
  <2> QED
    BY <1>1, <2>2, <2>3, <2>4, <2>5
<1>8. l[0] = 0
  <2>1. l[0] = h[0 + 1] - s[1]
    BY <1>1, <1>6
  <2> QED
    BY <1>1, <1>4, <2>1
<1>9. Summed(l, t)
  BY <1>2, <1>7, <1>8 DEF Summed
<1> QED
  BY <1>1, <1>2, <1>4, <1>6, <1>9 DEF n, t, l

LEMMA SumOfNone == SumOf(<<>>) = 0
<1> DEFINE h == [k \in 0 .. 0 |-> 0]
<1>1. <<>> \in Seq(Int) /\ Len(<<>>) = 0
  OBVIOUS
<1>2. h \in [0 .. 0 -> Int] /\ h[0] = 0
  OBVIOUS
<1> HIDE DEF h
<1>3. Summed(h, <<>>)
  BY <1>1, <1>2 DEF Summed
<1> QED
  BY <1>1, <1>2, <1>3, SumIs

LEMMA SumOfAppend ==
  ASSUME NEW s \in Seq(Int), NEW x \in Int
  PROVE  SumOf(Append(s, x)) = SumOf(s) + x /\ SumOf(s) \in Int
<1>1. PICK h \in [0 .. Len(s) -> Int] : Summed(h, s) /\ SumOf(s) = h[Len(s)]
  BY SumRuns
<1> DEFINE l == Longer(h, Len(s), x)
           t == Append(s, x)
<1>2. /\ t \in Seq(Int) /\ Len(t) = Len(s) + 1
      /\ l \in [0 .. Len(s) + 1 -> Int] /\ Summed(l, t)
      /\ l[Len(s) + 1] = h[Len(s)] + x
  BY <1>1, SumsOfAppend
<1> HIDE DEF l, t
<1>3. SumOf(t) = l[Len(t)]
  BY <1>2, SumIs
<1>4. h[Len(s)] \in Int
  OBVIOUS
<1> QED
  BY <1>1, <1>2, <1>3, <1>4 DEF t

-----------------------------------------------------------------------------
(***************************************************************************)
(* Joining sequences (FlattenSeq), for sequences of sequences of X.        *)
(***************************************************************************)

\* h are the joins of the first k sequences.
Flattens(h, q) ==
  /\ h[0] = <<>>
  /\ \A k \in 1 .. Len(q) : h[k] = h[k - 1] \o q[k]

HasJoin(n, X, q) ==
  \E h \in [0 .. n -> Seq(X)] : h[0] = <<>> /\ \A k \in 1 .. n : h[k] = h[k - 1] \o q[k]

LEMMA JoinExists ==
  ASSUME NEW X, NEW q \in Seq(Seq(X))
  PROVE  \E h \in [0 .. Len(q) -> Seq(X)] : Flattens(h, q)
<1> DEFINE T == {n \in Nat : n <= Len(q) => HasJoin(n, X, q)}
<1>1. 0 \in T
  <2> DEFINE h == [k \in 0 .. 0 |-> <<>>]
  <2>1. h \in [0 .. 0 -> Seq(X)] /\ h[0] = <<>>
    OBVIOUS
  <2>2. 1 .. 0 = {} /\ 0 \in Nat
    OBVIOUS
  <2> HIDE DEF h
  <2>3. HasJoin(0, X, q)
    BY <2>1, <2>2, Zenon DEF HasJoin
  <2> QED
    BY <2>3
<1>2. ASSUME NEW n \in T PROVE n + 1 \in T
  <2> SUFFICES ASSUME n + 1 <= Len(q) PROVE HasJoin(n + 1, X, q)
    OBVIOUS
  <2> DEFINE l == n + 1
  <2>1. l \in 1 .. Len(q) /\ n \in Nat /\ HasJoin(n, X, q) /\ q[l] \in Seq(X)
    OBVIOUS
  <2>2. PICK g \in [0 .. n -> Seq(X)] :
          g[0] = <<>> /\ \A k \in 1 .. n : g[k] = g[k - 1] \o q[k]
    BY <2>1 DEF HasJoin
  <2> DEFINE h == [k \in 0 .. l |-> IF k <= n THEN g[k] ELSE g[n] \o q[l]]
  <2>3. /\ \A k \in 0 .. n : h[k] = g[k]
        /\ h[l] = g[n] \o q[l]
        /\ DOMAIN h = 0 .. l /\ h = [k \in 0 .. l |-> h[k]]
    <3>1. l \in 0 .. l /\ ~ (l <= n) /\ \A k \in 0 .. n : k \in 0 .. l /\ k <= n
      BY <2>1
    <3> HIDE DEF l
    <3>2. h[l] = g[n] \o q[l]
      BY <3>1, Zenon
    <3>3. \A k \in 0 .. n : h[k] = g[k]
      BY <3>1, Zenon
    <3>4. DOMAIN h = 0 .. l /\ h = [k \in 0 .. l |-> h[k]]
      BY Zenon
    <3> QED
      BY <3>2, <3>3, <3>4, Zenon
  <2>4. \A k \in 0 .. l : h[k] \in Seq(X)
    BY <2>1, <2>2, <2>3
  <2>7. 0 \in 0 .. n /\ n \in 0 .. n
    BY <2>1
  <2> HIDE DEF h, l
  <2>5. h \in [0 .. l -> Seq(X)] /\ h[0] = <<>>
    <3>1. h[0] = <<>>
      BY <2>2, <2>3, <2>7, Zenon
    <3>2. h \in [0 .. l -> Seq(X)]
      BY <2>3, <2>4, Zenon
    <3> QED
      BY <3>1, <3>2
  <2>6. ASSUME NEW k \in 1 .. l PROVE h[k] = h[k - 1] \o q[k]
    <3>1. CASE k = l
      <4>1. k - 1 = n
        BY <2>1, <3>1 DEF l
      <4> QED
        BY <2>3, <2>7, <3>1, <4>1, Zenon
    <3>2. CASE k # l
      <4>1. k \in 1 .. n /\ k \in 0 .. n /\ k - 1 \in 0 .. n
        BY <2>1, <3>2 DEF l
      <4> QED
        BY <2>2, <2>3, <4>1, Zenon
    <3> QED
      BY <3>1, <3>2
  <2>8. HasJoin(l, X, q)
    BY <2>5, <2>6, Zenon DEF HasJoin
  <2> QED
    BY <2>8 DEF l
<1>3. T \in SUBSET Nat
  OBVIOUS
<1>4. Len(q) \in T
  <2>1. Len(q) \in Nat
    OBVIOUS
  <2> HIDE DEF T
  <2> QED
    BY <1>1, <1>2, <1>3, <2>1, Induction
<1>5. HasJoin(Len(q), X, q)
  <2>1. Len(q) <= Len(q)
    OBVIOUS
  <2> QED
    BY <1>4, <2>1, Zenon
<1> QED
  BY <1>5, Zenon DEF HasJoin, Flattens

LEMMA JoinsAgree ==
  ASSUME NEW X, NEW q \in Seq(Seq(X)), NEW h \in [0 .. Len(q) -> Seq(X)], Flattens(h, q),
         NEW g, Flattens(g, q)
  PROVE  \A k \in 0 .. Len(q) : g[k] = h[k]
<1> DEFINE T == {k \in Nat : k <= Len(q) => g[k] = h[k]}
<1>1. 0 \in T
  BY DEF Flattens
<1>2. ASSUME NEW k \in T PROVE k + 1 \in T
  <2> SUFFICES ASSUME k + 1 <= Len(q) PROVE g[k + 1] = h[k + 1]
    OBVIOUS
  <2> DEFINE l == k + 1
  <2>1. l \in 1 .. Len(q) /\ l - 1 = k /\ g[k] = h[k]
    OBVIOUS
  <2> HIDE DEF l
  <2>2. g[l] = g[k] \o q[l] /\ h[l] = h[k] \o q[l]
    BY <2>1 DEF Flattens
  <2> QED
    BY <2>1, <2>2 DEF l
<1>3. T \in SUBSET Nat
  OBVIOUS
<1>4. \A k \in Nat : k \in T
  <2> HIDE DEF T
  <2> QED
    BY <1>1, <1>2, <1>3, Induction
<1> QED
  BY <1>4

LEMMA JoinIs ==
  ASSUME NEW X, NEW q \in Seq(Seq(X)), NEW h \in [0 .. Len(q) -> Seq(X)], Flattens(h, q)
  PROVE  FlattenSeq(q) = h[Len(q)]
<1>0. Len(q) \in Nat /\ DOMAIN q = 1 .. Len(q)
  OBVIOUS
<1>1. CASE Len(q) = 0
  <2>1. q = <<>>
    BY <1>1
  <2>2. FlattenSeq(q) = q
    BY <1>1, Zenon DEF FlattenSeq
  <2> QED
    BY <1>1, <2>1, <2>2, Zenon DEF Flattens
<1>2. CASE Len(q) # 0
  <2> DEFINE it == CHOOSE f : f = [i \in 1 .. Len(q) |->
                     IF i = 1 THEN q[i] ELSE f[i - 1] \o q[i]]
  <2>1. \E f : f = [i \in 1 .. Len(q) |-> IF i = 1 THEN q[i] ELSE f[i - 1] \o q[i]]
    <3> DEFINE f == [i \in 1 .. Len(q) |-> h[i]]
    <3>0. \A i \in 1 .. Len(q) : f[i] = h[i]
      OBVIOUS
    <3>1. ASSUME NEW i \in 1 .. Len(q)
          PROVE  f[i] = IF i = 1 THEN q[i] ELSE f[i - 1] \o q[i]
      <4>0. q[i] \in Seq(X)
        BY <1>0
      <4>1. f[i] = h[i - 1] \o q[i] /\ q[i] \in Seq(X)
        BY <3>0, <4>0, Zenon DEF Flattens
      <4>2. CASE i = 1
        <5>1. i - 1 = 0 /\ <<>> \o q[i] = q[i]
          BY <4>1, <4>2
        <5> QED
          BY <4>1, <4>2, <5>1, Zenon DEF Flattens
      <4>3. CASE i # 1
        <5>1. i - 1 \in 1 .. Len(q)
          BY <1>0, <4>3
        <5>2. f[i - 1] = h[i - 1]
          BY <3>0, <5>1, Zenon
        <5> HIDE DEF f
        <5> QED
          BY <4>1, <4>3, <5>2, Zenon
      <4> QED
        BY <4>2, <4>3
    <3>2. f = [i \in 1 .. Len(q) |-> f[i]]
      OBVIOUS
    <3> HIDE DEF f
    <3>3. f = [i \in 1 .. Len(q) |-> IF i = 1 THEN q[i] ELSE f[i - 1] \o q[i]]
      BY <3>1, <3>2
    <3> QED
      BY <3>3
  <2>2. it = [i \in 1 .. Len(q) |-> IF i = 1 THEN q[i] ELSE it[i - 1] \o q[i]]
    BY <2>1, Zenon
  <2>3. FlattenSeq(q) = it[Len(q)]
    BY <1>2, Zenon DEF FlattenSeq
  <2> HIDE DEF it
  <2> DEFINE g == [k \in 0 .. Len(q) |-> IF k = 0 THEN <<>> ELSE it[k]]
  <2>4. g[0] = <<>> /\ \A k \in 1 .. Len(q) : g[k] = it[k]
    BY <1>0
  <2>5. ASSUME NEW k \in 1 .. Len(q) PROVE g[k] = g[k - 1] \o q[k]
    <3>1. it[k] = IF k = 1 THEN q[k] ELSE it[k - 1] \o q[k]
      BY <2>2, Zenon
    <3> HIDE DEF g
    <3>2. CASE k = 1
      <4>1. q[k] \in Seq(X) /\ k - 1 = 0
        BY <3>2
      <4>2. <<>> \o q[k] = q[k]
        BY <4>1
      <4> QED
        BY <2>4, <3>1, <3>2, <4>1, <4>2
    <3>3. CASE k # 1
      <4>1. k - 1 \in 1 .. Len(q)
        BY <1>0, <3>3
      <4> QED
        BY <2>4, <3>1, <3>3, <4>1
    <3> QED
      BY <3>2, <3>3
  <2> HIDE DEF g
  <2>6. g[Len(q)] = h[Len(q)]
    <3>1. Len(q) \in 0 .. Len(q)
      BY <1>0
    <3>2. Flattens(g, q)
      BY <2>4, <2>5, Zenon DEF Flattens
    <3>3. \A k \in 0 .. Len(q) : g[k] = h[k]
      BY <3>2, JoinsAgree
    <3> QED
      BY <3>1, <3>3
  <2>7. Len(q) \in 1 .. Len(q)
    BY <1>0, <1>2
  <2> QED
    BY <2>3, <2>4, <2>6, <2>7
<1> QED
  BY <1>1, <1>2

LEMMA JoinOfNone == FlattenSeq(<<>>) = <<>>
BY DEF FlattenSeq

LEMMA JoinRuns ==
  ASSUME NEW X, NEW q \in Seq(Seq(X))
  PROVE  \E h \in [0 .. Len(q) -> Seq(X)] : Flattens(h, q) /\ FlattenSeq(q) = h[Len(q)]
BY JoinExists, JoinIs, Zenon

LEMMA JoinOfAppend ==
  ASSUME NEW X, NEW q \in Seq(Seq(X)), NEW x \in Seq(X)
  PROVE  /\ FlattenSeq(Append(q, x)) = FlattenSeq(q) \o x
         /\ FlattenSeq(q) \in Seq(X)
<1> DEFINE n == Len(q)
           t == Append(q, x)
<1>1. PICK h \in [0 .. Len(q) -> Seq(X)] : Flattens(h, q) /\ FlattenSeq(q) = h[Len(q)]
  BY JoinRuns
<1>2. /\ n \in Nat /\ n \in 0 .. n /\ t \in Seq(Seq(X)) /\ Len(t) = n + 1
      /\ t[n + 1] = x /\ \A k \in 1 .. n : t[k] = q[k]
  OBVIOUS
<1>3. h[n] \in Seq(X) /\ FlattenSeq(q) = h[n]
  BY <1>1, <1>2
<1> DEFINE g == [k \in 0 .. n + 1 |-> IF k <= n THEN h[k] ELSE h[n] \o x]
<1>4. /\ \A k \in 0 .. n : g[k] = h[k]
      /\ g[n + 1] = h[n] \o x /\ g[n + 1] \in Seq(X)
  BY <1>2, <1>3
<1>5. g \in [0 .. n + 1 -> Seq(X)]
  BY <1>2, <1>3
<1> HIDE DEF g, t
<1>6. Flattens(g, t)
  <2>1. g[0] = <<>>
    BY <1>1, <1>2, <1>4 DEF Flattens
  <2>2. ASSUME NEW k \in 1 .. n + 1 PROVE g[k] = g[k - 1] \o t[k]
    <3>1. CASE k = n + 1
      <4>1. k - 1 = n
        BY <1>2, <3>1
      <4> QED
        BY <1>2, <1>4, <3>1, <4>1, Zenon
    <3>2. CASE k # n + 1
      <4>1. k \in 1 .. n /\ k \in 0 .. n /\ k - 1 \in 0 .. n
        BY <1>2, <3>2
      <4>2. h[k] = h[k - 1] \o q[k]
        BY <1>1, <4>1, Zenon DEF Flattens
      <4> QED
        BY <1>2, <1>4, <4>1, <4>2, Zenon
    <3> QED
      BY <3>1, <3>2
  <2> QED
    BY <1>2, <2>1, <2>2, Zenon DEF Flattens
<1>7. FlattenSeq(t) = g[Len(t)]
  BY <1>2, <1>5, <1>6, JoinIs
<1> QED
  BY <1>2, <1>3, <1>4, <1>7, Zenon DEF t

LEMMA JoinTwice ==
  ASSUME NEW X, NEW a \in Seq(X), NEW b \in Seq(X), NEW c \in Seq(X)
  PROVE  a \o (b \o c) = (a \o b) \o c
BY ConcatAssociative, SMTT(30)

LEMMA JoinOfTail ==
  ASSUME NEW X, NEW q \in Seq(Seq(X)), q # <<>>
  PROVE  /\ FlattenSeq(q) = q[1] \o FlattenSeq(Tail(q))
         /\ FlattenSeq(Tail(q)) \in Seq(X) /\ q[1] \in Seq(X)
<1> DEFINE t == Tail(q)
           n == Len(t)
<1>1. /\ t \in Seq(Seq(X)) /\ n \in Nat /\ Len(q) = n + 1 /\ q[1] \in Seq(X) /\ Len(t) = n
      /\ \A k \in 1 .. n : t[k] = q[k + 1] /\ t[k] \in Seq(X)
  OBVIOUS
<1>2. PICK h \in [0 .. n -> Seq(X)] : Flattens(h, t) /\ FlattenSeq(t) = h[n]
  BY <1>1, JoinRuns
<1> HIDE DEF t
<1> DEFINE g == [k \in 0 .. n + 1 |-> IF k = 0 THEN <<>> ELSE q[1] \o h[k - 1]]
<1> HIDE DEF n
<1>3. g[0] = <<>> /\ \A k \in 1 .. n + 1 : g[k] = q[1] \o h[k - 1]
  <2>1. n \in Nat
    BY <1>1
  <2>2. 0 \in 0 .. n + 1 /\ \A k \in 1 .. n + 1 : k \in 0 .. n + 1 /\ k # 0
    BY <2>1
  <2> QED
    BY <2>2, Zenon
<1>4. \A k \in 1 .. n + 1 : k - 1 \in 0 .. n /\ h[k - 1] \in Seq(X)
  <2>1. n \in Nat
    BY <1>1
  <2>2. \A k \in 1 .. n + 1 : k - 1 \in 0 .. n
    BY <2>1
  <2> QED
    BY <2>2
<1>5. g \in [0 .. n + 1 -> Seq(X)]
  BY <1>1, <1>4
<1> HIDE DEF g
<1>6. ASSUME NEW k \in 1 .. n + 1 PROVE g[k] = g[k - 1] \o q[k]
  <2>1. CASE k = 1
    <3>1. k - 1 = 0 /\ h[0] = <<>>
      BY <1>2, <2>1 DEF Flattens
    <3>2. q[1] \o <<>> = q[1] /\ <<>> \o q[1] = q[1]
      BY <1>1
    <3> QED
      BY <1>3, <2>1, <3>1, <3>2, Zenon
  <2>2. CASE k # 1
    <3> DEFINE l == k - 1
    <3>1. l \in 1 .. n /\ l + 1 = k /\ l \in 1 .. n + 1 /\ l - 1 \in 0 .. n
      BY <1>1, <2>2
    <3>2. /\ g[k] = q[1] \o h[l] /\ g[l] = q[1] \o h[l - 1] /\ q[k] = t[l]
          /\ h[l - 1] \in Seq(X) /\ t[l] \in Seq(X)
      BY <1>1, <1>3, <1>4, <3>1
    <3>3. h[l] = h[l - 1] \o t[l]
      BY <1>1, <1>2, <3>1, Zenon DEF Flattens
    <3> HIDE DEF l
    <3>4. q[1] \o (h[l - 1] \o t[l]) = (q[1] \o h[l - 1]) \o t[l]
      <4> DEFINE a == q[1]
                 b == h[l - 1]
                 c == t[l]
      <4>1. a \in Seq(X) /\ b \in Seq(X) /\ c \in Seq(X)
        BY <1>1, <3>2
      <4> HIDE DEF a, b, c
      <4>2. a \o (b \o c) = (a \o b) \o c
        BY ONLY <4>1, JoinTwice, SMTT(30)
      <4> QED
        BY <4>2 DEF a, b, c
    <3>5. g[k] = g[l] \o q[k]
      BY <3>2, <3>3, <3>4, Zenon
    <3> QED
      BY <3>5 DEF l
  <2> QED
    BY <2>1, <2>2
<1>7. Flattens(g, q)
  BY <1>1, <1>3, <1>6, Zenon DEF Flattens
<1>8. FlattenSeq(q) = g[Len(q)]
  BY <1>1, <1>5, <1>7, JoinIs
<1>9. n + 1 \in 1 .. n + 1 /\ n + 1 - 1 = n /\ n \in 0 .. n
  BY <1>1
<1>10. FlattenSeq(q) = q[1] \o h[n]
  BY <1>1, <1>3, <1>8, <1>9, SMTT(30)
<1> QED
  BY <1>1, <1>2, <1>9, <1>10 DEF t

\* The i-th of the first elements is removed before or after others are appended.
LEMMA RemovedBefore ==
  ASSUME NEW X, NEW a \in Seq(X), NEW b \in Seq(X), NEW i \in 1 .. Len(a)
  PROVE  /\ RemoveAt(a, i) \o b = RemoveAt(a \o b, i)
         /\ i \in 1 .. Len(a \o b)
<1> DEFINE n == Len(a)
           m == Len(b)
           u == SubSeq(a, 1, i - 1)
           v == SubSeq(a, i + 1, n)
           w == SubSeq(a \o b, i + 1, n + m)
<1>1. n \in Nat /\ m \in Nat /\ a \o b \in Seq(X) /\ Len(a \o b) = n + m
  OBVIOUS
<1>2. u \in Seq(X) /\ Len(u) = i - 1 /\ \A k \in 1 .. i - 1 : u[k] = a[k]
  BY <1>1
<1>3. v \in Seq(X) /\ Len(v) = n - i /\ \A k \in 1 .. n - i : v[k] = a[k + i]
  BY <1>1
<1>4. w \in Seq(X) /\ Len(w) = n + m - i /\ \A k \in 1 .. n + m - i : w[k] = (a \o b)[k + i]
  BY <1>1
<1>5. SubSeq(a \o b, 1, i - 1) = u
  BY <1>1, <1>2
<1> HIDE DEF u, v, w
<1>6. w = v \o b
  <2>0. /\ v \o b \in Seq(X) /\ Len(v \o b) = Len(v) + Len(b)
        /\ \A k \in 1 .. Len(v) + Len(b) :
             (v \o b)[k] = IF k <= Len(v) THEN v[k] ELSE b[k - Len(v)]
    BY <1>3, ConcatProperties
  <2>1. v \o b \in Seq(X) /\ Len(v \o b) = n + m - i
    BY <1>1, <1>3, <2>0
  <2>2. ASSUME NEW k \in 1 .. n + m - i PROVE w[k] = (v \o b)[k]
    <3>1. CASE k <= n - i
      <4>1. (v \o b)[k] = a[k + i]
        BY <1>1, <1>3, <2>0, <3>1
      <4>2. (a \o b)[k + i] = a[k + i]
        BY <1>1, <3>1
      <4> QED
        BY <1>4, <4>1, <4>2
    <3>2. CASE k > n - i
      <4>1. (v \o b)[k] = b[k - (n - i)]
        BY <1>1, <1>3, <2>0, <3>2
      <4>2. (a \o b)[k + i] = b[k + i - n] /\ k + i - n = k - (n - i)
        BY <1>1, <3>2
      <4> QED
        BY <1>4, <4>1, <4>2
    <3>3. k <= n - i \/ k > n - i
      BY <1>1
    <3> QED
      BY <3>1, <3>2, <3>3
  <2> QED
    BY <1>4, <2>1, <2>2, SeqEqual
<1>7. u \o (v \o b) = (u \o v) \o b
  BY <1>2, <1>3, JoinTwice, SMTT(30)
<1>8. RemoveAt(a, i) = u \o v /\ RemoveAt(a \o b, i) = u \o w
  BY <1>1, <1>5 DEF RemoveAt, u, v, w
<1> QED
  BY <1>1, <1>6, <1>7, <1>8

\* An element that was just appended is removed.
LEMMA RemovedLast ==
  ASSUME NEW X, NEW a \in Seq(X), NEW x \in X
  PROVE  LET i == Len(a) + 1
         IN  /\ RemoveAt(a \o <<x>>, i) = a
             /\ a \o <<>> = a
             /\ i \in 1 .. Len(a \o <<x>>)
<1> DEFINE n == Len(a)
           s == a \o <<x>>
<1>1. n \in Nat /\ s \in Seq(X) /\ Len(s) = n + 1 /\ \A k \in 1 .. n : s[k] = a[k]
  OBVIOUS
<1> HIDE DEF s
<1>2. SubSeq(s, 1, n) = a
  BY <1>1
<1>3. SubSeq(s, n + 2, n + 1) = <<>>
  BY <1>1
<1>4. n + 1 - 1 = n /\ n + 1 + 1 = n + 2 /\ a \o <<>> = a /\ n + 1 \in 1 .. n + 1
  BY <1>1
<1>5. RemoveAt(s, n + 1) = a
  BY <1>1, <1>2, <1>3, <1>4 DEF RemoveAt
<1> QED
  BY <1>1, <1>4, <1>5 DEF s

\* r is q but for its entry j, which had a single element and has none any more.
Blanked(q, r, j) ==
  /\ Len(r) = Len(q) /\ j \in 1 .. Len(q) /\ r[j] = <<>>
  /\ \A k \in 1 .. Len(q) : k # j => r[k] = q[k]

\* new is old without one of its elements.
MissesOne(new, old) == \E i \in DOMAIN old : new = RemoveAt(old, i)

\* Where one of the sequences had a single element and has none any more, that element
\* is missing from the join.
LEMMA JoinWithout ==
  ASSUME NEW X, NEW q \in Seq(Seq(X)), NEW r \in Seq(Seq(X)),
         NEW j, NEW x \in X, q[j] = <<x>>, Blanked(q, r, j)
  PROVE  MissesOne(FlattenSeq(r), FlattenSeq(q))
<1> DEFINE n == Len(q)
<1>0. /\ n \in Nat /\ \A k \in 1 .. n : q[k] \in Seq(X) /\ r[k] \in Seq(X)
      /\ j \in 1 .. n /\ Len(r) = n
  BY SMTT(30) DEF Blanked
<1>1. PICK h \in [0 .. n -> Seq(X)] : Flattens(h, q) /\ FlattenSeq(q) = h[n]
  BY JoinRuns
<1>2. PICK g \in [0 .. n -> Seq(X)] : Flattens(g, r) /\ FlattenSeq(r) = g[n]
  BY <1>0, JoinRuns
<1> DEFINE i == Len(h[j - 1]) + 1
           Reduced(k) == i \in 1 .. Len(h[k]) /\ g[k] = RemoveAt(h[k], i)
           Right(k) == IF k < j THEN g[k] = h[k] ELSE Reduced(k)
           T == {k \in Nat : k <= n => Right(k)}
<1>3. 0 \in T
  BY <1>0, <1>1, <1>2 DEF Flattens
<1>4. ASSUME NEW k \in T PROVE k + 1 \in T
  <2> DEFINE l == k + 1
  <2> SUFFICES ASSUME l <= n PROVE Right(l)
    OBVIOUS
  <2>1. /\ l \in 1 .. n /\ l - 1 = k /\ k \in 0 .. n /\ l \in Nat /\ j \in Nat
        /\ k < l /\ (l < j => k < j) /\ (l = j => k < j /\ j - 1 = k)
        /\ (l > j => ~(k < j) /\ ~(l < j)) /\ (l = j => ~(l < j))
    BY <1>0
  <2>0. Right(k)
    BY <1>0, <2>1
  <2> HIDE DEF l
  <2>2. /\ h[l] = h[k] \o q[l] /\ g[l] = g[k] \o r[l]
        /\ h[k] \in Seq(X) /\ g[k] \in Seq(X) /\ q[l] \in Seq(X) /\ r[l] \in Seq(X)
    BY <1>0, <1>1, <1>2, <2>1 DEF Flattens
  <2>3. CASE l < j
    <3>1. l # j
      BY <2>1, <2>3
    <3>2. g[k] = h[k] /\ r[l] = q[l]
      BY <2>0, <2>1, <2>3, <3>1 DEF Blanked
    <3> QED
      BY <2>2, <2>3, <3>2
  <2>4. CASE l = j
    <3>1. g[k] = h[k] /\ q[l] = <<x>> /\ r[l] = <<>> /\ i = Len(h[k]) + 1 /\ ~(l < j)
      BY <2>0, <2>1, <2>4 DEF Blanked
    <3> HIDE DEF i
    <3>2. /\ h[k] \o <<>> = h[k] /\ RemoveAt(h[k] \o <<x>>, i) = h[k]
          /\ i \in 1 .. Len(h[k] \o <<x>>)
      BY <2>2, <3>1, RemovedLast
    <3>3. g[l] = RemoveAt(h[l], i) /\ i \in 1 .. Len(h[l])
      BY <2>2, <3>1, <3>2, Zenon
    <3> QED
      BY <3>1, <3>3
  <2>5. CASE l > j
    <3>1. Reduced(k) /\ r[l] = q[l] /\ ~(l < j)
      <4>1. l # j
        BY <2>1, <2>5
      <4> QED
        BY <2>0, <2>1, <2>5, <4>1 DEF Blanked
    <3> HIDE DEF i
    <3>2. /\ RemoveAt(h[k], i) \o q[l] = RemoveAt(h[k] \o q[l], i)
          /\ i \in 1 .. Len(h[k] \o q[l])
      BY <2>2, <3>1, RemovedBefore
    <3>3. Reduced(l)
      BY <2>2, <3>1, <3>2, Zenon
    <3> QED
      BY <3>1, <3>3
  <2>6. l < j \/ l = j \/ l > j
    BY <2>1
  <2>7. Right(l)
    BY <2>3, <2>4, <2>5, <2>6
  <2> QED
    BY <2>7 DEF l
<1>5. T \in SUBSET Nat
  OBVIOUS
<1>6. n \in T
  <2> HIDE DEF T
  <2> QED
    BY <1>0, <1>3, <1>4, <1>5, Induction
<1>7. Reduced(n)
  BY <1>0, <1>6
<1> HIDE DEF i
<1>8. DOMAIN h[n] = 1 .. Len(h[n])
  BY <1>0
<1> QED
  BY <1>1, <1>2, <1>7, <1>8 DEF MissesOne

=============================================================================
