----------------------------- MODULE SumsProofs -----------------------------
(***************************************************************************)
(* What the proofs about sequences of weighted elements rest on.  The      *)
(* library states induction over the naturals for an operator, which       *)
(* cannot be instantiated here; stated for a set it follows from the       *)
(* well-foundedness of <.                                                  *)
(***************************************************************************)
EXTENDS Sums, FiniteSetTheorems, WellFoundedInduction, TLAPS

-----------------------------------------------------------------------------
(* Induction, and the ends of a bounded set *)

\* The order of the numbers, as a relation.
Below == {p \in Nat \X Nat : p[1] < p[2]}

\* A set of naturals that has zero and each successor has them all.
LEMMA SetInduction ==
    ASSUME NEW T, 0 \in T, \A n \in Nat : n \in T => n + 1 \in T
    PROVE  \A n \in Nat : n \in T
<1> SUFFICES ASSUME Nat \ T # {} PROVE FALSE
  OBVIOUS
<1>1. IsWellFoundedOn(Below, Nat)
  BY NatLessThanWellFounded DEF OpToRel, Below
<1>2. PICK n \in Nat \ T : \A m \in Nat \ T : <<m, n>> \notin Below
  BY <1>1, WFMin
<1>3. n - 1 \in Nat
  OBVIOUS
<1>4. <<n - 1, n>> \in Below
  BY <1>3 DEF Below
<1>5. n - 1 \in T
  BY <1>2, <1>3, <1>4
<1> QED BY <1>3, <1>5

\* A set of naturals up to n has a largest element, and a smallest.
LEMMA BoundedMax ==
    ASSUME NEW n \in Nat, NEW S \in SUBSET (0..n), S # {}
    PROVE  Max(S) \in S /\ \A x \in S : x <= Max(S)
<1> DEFINE T == {m \in Nat : \A U \in SUBSET (0..m) : U # {} => \E x \in U : \A y \in U : y <= x}
<1>1. 0 \in T
  <2> SUFFICES ASSUME NEW U \in SUBSET (0..0), U # {}
               PROVE  \E x \in U : \A y \in U : y <= x
    OBVIOUS
  <2>1. PICK x \in U : TRUE
    OBVIOUS
  <2>2. \A y \in U : y = 0
    OBVIOUS
  <2> QED BY <2>1, <2>2
<1>2. ASSUME NEW m \in Nat, m \in T PROVE m + 1 \in T
  <2> SUFFICES ASSUME NEW U \in SUBSET (0..(m + 1)), U # {}
               PROVE  \E x \in U : \A y \in U : y <= x
    OBVIOUS
  <2>1. CASE m + 1 \in U
    BY <2>1
  <2>2. CASE m + 1 \notin U
    <3>1. U \in SUBSET (0..m)
      BY <2>2
    <3> QED BY <1>2, <3>1
  <2> QED BY <2>1, <2>2
<1>3. n \in T
  <2> HIDE DEF T
  <2> QED BY <1>1, <1>2, SetInduction
<1>4. \E x \in S : \A y \in S : x >= y
  BY <1>3
<1>5. Max(S) \in S /\ \A y \in S : Max(S) >= y
  BY <1>4 DEF Max
<1> QED BY <1>5

\* A bounded set of numbers that is not empty has a least.
LEMMA BoundedMin ==
    ASSUME NEW n \in Nat, NEW S \in SUBSET (0..n), S # {}
    PROVE  Min(S) \in S /\ \A x \in S : Min(S) <= x
<1> DEFINE R == {m \in 0..n : n - m \in S}
<1>1. R \in SUBSET (0..n) /\ R # {}
  <2>1. PICK x \in S : TRUE
    OBVIOUS
  <2>2. n - x \in R
    BY <2>1
  <2> QED BY <2>2
<1>2. Max(R) \in R /\ \A x \in R : x <= Max(R)
  BY <1>1, BoundedMax
<1>3. n - Max(R) \in S /\ \A y \in S : n - Max(R) <= y
  <2>1. \A y \in S : n - y \in R
    OBVIOUS
  <2> QED BY <1>2, <2>1
<1>4. Min(S) \in S /\ \A y \in S : Min(S) <= y
  BY <1>3 DEF Min
<1> QED BY <1>4

\* Of numbers there is a highest one.
LEMMA Highest ==
    ASSUME NEW n \in Nat, NEW value, NEW S \in SUBSET (1..n), S # {},
           \A x \in S : value[x] \in Int
    PROVE  \E x \in S : \A y \in S : value[x] >= value[y]
<1> DEFINE top(U) == \E x \in U : \A y \in U : value[x] >= value[y]
           T == {m \in Nat : \A U \in SUBSET S : U # {} /\ U \subseteq 1..m => top(U)}
<1>1. 0 \in T
  BY 1..0 = {}
<1>2. ASSUME NEW m \in Nat, m \in T PROVE m + 1 \in T
  <2> SUFFICES ASSUME NEW U \in SUBSET S, U # {}, U \subseteq 1..(m + 1) PROVE top(U)
    OBVIOUS
  <2> DEFINE V == U \ {m + 1}
  <2>1. V \in SUBSET S /\ V \subseteq 1..m
    OBVIOUS
  <2>2. CASE V = {}
    <3>1. U = {m + 1}
      BY <2>2
    <3>2. value[m + 1] \in Int
      BY <3>1
    <3> QED BY <3>1, <3>2
  <2>3. CASE V # {}
    <3>1. PICK x \in V : \A y \in V : value[x] >= value[y]
      BY <1>2, <2>1, <2>3
    <3>2. CASE m + 1 \notin U
      BY <3>1, <3>2
    <3>3. CASE m + 1 \in U /\ value[x] >= value[m + 1]
      BY <3>1, <3>3
    <3>4. CASE m + 1 \in U /\ ~(value[x] >= value[m + 1])
      <4>1. value[x] \in Int /\ value[m + 1] \in Int /\ \A y \in V : value[y] \in Int
        BY <3>4
      <4>2. \A y \in U : y \in V \/ y = m + 1
        OBVIOUS
      <4>3. \A y \in U : value[m + 1] >= value[y]
        BY <3>1, <3>4, <4>1, <4>2
      <4> QED BY <3>4, <4>3
    <3> QED BY <3>2, <3>3, <3>4
  <2> QED BY <2>2, <2>3
<1>3. n \in T
  <2> HIDE DEF T
  <2> QED BY <1>1, <1>2, SetInduction
<1> QED BY <1>3

-----------------------------------------------------------------------------
(* Folds.  The n-th step of a fold takes a value of A to F[n] of it. *)

\* What a fold has after each step.
Steps(A, base, n, F, h) == /\ h \in [0..n -> A]
                           /\ h[0] = base
                           /\ \A k \in 1..n : h[k] = F[k][h[k - 1]]

\* A sequence of steps can always be gone through.
LEMMA StepsExist ==
    ASSUME NEW A, NEW base \in A, NEW n \in Nat, NEW F \in [1..n -> [A -> A]]
    PROVE  \E h : Steps(A, base, n, F, h)
<1> DEFINE T == {m \in Nat : m <= n => \E h : Steps(A, base, m, F, h)}
<1>1. 0 \in T
  <2>1. Steps(A, base, 0, F, [k \in 0..0 |-> base])
    BY DEF Steps
  <2> QED BY <2>1
<1>2. ASSUME NEW m \in Nat, m \in T PROVE m + 1 \in T
  <2> SUFFICES ASSUME m + 1 <= n PROVE \E h : Steps(A, base, m + 1, F, h)
    OBVIOUS
  <2>1. PICK h : Steps(A, base, m, F, h)
    BY <1>2
  <2> DEFINE g == [k \in 0..(m + 1) |-> IF k <= m THEN h[k] ELSE F[m + 1][h[m]]]
  <2>2. h[m] \in A /\ F[m + 1] \in [A -> A]
    BY <2>1 DEF Steps
  <2>3. g \in [0..(m + 1) -> A]
    BY <2>1, <2>2 DEF Steps
  <2>4. \A k \in 1..(m + 1) : g[k] = F[k][g[k - 1]]
    BY <2>1, <2>2 DEF Steps
  <2>5. g[0] = base
    BY <2>1 DEF Steps
  <2> HIDE DEF g
  <2> QED BY <2>3, <2>4, <2>5 DEF Steps
<1>3. n \in T
  <2> HIDE DEF T
  <2> QED BY <1>1, <1>2, SetInduction
<1> QED BY <1>3

\* F and G agree on the first k positions.
SameSteps(F, G, k) == \A j \in 1..k : F[j] = G[j]

\* They are determined.
LEMMA StepsAgree ==
    ASSUME NEW A, NEW base, NEW m \in Nat, NEW n \in Nat, NEW F, NEW G, NEW g, NEW h,
           Steps(A, base, m, F, g), Steps(A, base, n, G, h),
           NEW k \in Nat, k <= m, k <= n, SameSteps(F, G, k)
    PROVE  g[k] = h[k]
<1> DEFINE T == {j \in Nat : j <= k => g[j] = h[j]}
<1>1. 0 \in T
  BY DEF Steps
<1>2. ASSUME NEW j \in Nat, j \in T PROVE j + 1 \in T
  <2> SUFFICES ASSUME j + 1 <= k PROVE g[j + 1] = h[j + 1]
    OBVIOUS
  <2>1. g[j] = h[j] /\ F[j + 1] = G[j + 1] /\ j + 1 \in 1..m /\ j + 1 \in 1..n
    BY <1>2 DEF SameSteps
  <2>2. g[j + 1] = F[j + 1][g[j]] /\ h[j + 1] = G[j + 1][h[j]]
    BY <2>1 DEF Steps
  <2> QED BY <2>1, <2>2
<1>3. k \in T
  <2> HIDE DEF T
  <2> QED BY <1>1, <1>2, SetInduction
<1> QED BY <1>3

\* A step that changes nothing, and only such after step m.
Idle(A) == [a \in A |-> a]

\* The steps from m + 1 to n change nothing.
IdleAfter(A, F, m, n) == \A k \in (m + 1)..n : F[k] = Idle(A)

\* Steps that change nothing may be left out at the end.
LEMMA IdleSteps ==
    ASSUME NEW A, NEW base, NEW n \in Nat, NEW F, NEW h, Steps(A, base, n, F, h),
           NEW m \in 0..n, IdleAfter(A, F, m, n)
    PROVE  h[n] = h[m]
<1> DEFINE T == {j \in Nat : m + j <= n => h[m + j] = h[m]}
<1>1. 0 \in T
  OBVIOUS
<1>2. ASSUME NEW j \in Nat, j \in T PROVE j + 1 \in T
  <2> SUFFICES ASSUME m + (j + 1) <= n PROVE h[m + (j + 1)] = h[m]
    OBVIOUS
  <2> DEFINE k == m + (j + 1)
  <2>1. k \in 1..n /\ k \in (m + 1)..n /\ k - 1 = m + j /\ k - 1 \in 0..n
    OBVIOUS
  <2>2. h[k] = F[k][h[k - 1]] /\ h[k - 1] \in A
    BY <2>1 DEF Steps
  <2>3. h[k - 1] = h[m]
    BY <1>2, <2>1
  <2>4. F[k] = Idle(A)
    BY <2>1 DEF IdleAfter
  <2> QED BY <2>2, <2>3, <2>4 DEF Idle
<1>3. n - m \in T
  <2>1. n - m \in Nat
    OBVIOUS
  <2> HIDE DEF T
  <2> QED BY <1>1, <1>2, <2>1, SetInduction
<1> QED BY <1>3

\* A fold over the sets of positions, the largest last.
IsFold(base, n, F, f) == f = [S \in SUBSET (1..n) |->
                                 IF S = {} THEN base ELSE F[Max(S)][f[S \ {Max(S)}]]]

\* The fold over sets of positions is a function, and goes from the highest down.
LEMMA FoldExists ==
    ASSUME NEW A, NEW base \in A, NEW n \in Nat, NEW F \in [1..n -> [A -> A]]
    PROVE  \E f \in [SUBSET (1..n) -> A] : IsFold(base, n, F, f)
<1> DEFINE Only(S) == [k \in 1..n |-> IF k \in S THEN F[k] ELSE Idle(A)]
           H(S) == CHOOSE h : Steps(A, base, n, Only(S), h)
           f == [S \in SUBSET (1..n) |-> H(S)[n]]
<1>1. \A S \in SUBSET (1..n) : Steps(A, base, n, Only(S), H(S))
  <2> SUFFICES ASSUME NEW S \in SUBSET (1..n) PROVE Steps(A, base, n, Only(S), H(S))
    OBVIOUS
  <2>1. Only(S) \in [1..n -> [A -> A]]
    BY DEF Idle
  <2>2. \E h : Steps(A, base, n, Only(S), h)
    <3> HIDE DEF Only
    <3> QED BY <2>1, StepsExist
  <2> QED BY <2>2
<1>2. f \in [SUBSET (1..n) -> A]
  <2>1. \A S \in SUBSET (1..n) : H(S)[n] \in A
    <3> HIDE DEF Only, H
    <3> QED BY <1>1 DEF Steps
  <2> HIDE DEF H
  <2> QED BY <2>1
\* The value of f at a set, with the steps that give it.
<1>3. ASSUME NEW S \in SUBSET (1..n)
      PROVE  \E h, G : /\ Steps(A, base, n, G, h)
                       /\ f[S] = h[n]
                       /\ \A k \in 1..n : G[k] = IF k \in S THEN F[k] ELSE Idle(A)
  <2>1. \A k \in 1..n : Only(S)[k] = IF k \in S THEN F[k] ELSE Idle(A)
    OBVIOUS
  <2>2. f[S] = H(S)[n]
    BY DEF f
  <2> HIDE DEF f, Only, H
  <2> QED BY <1>1, <2>1, <2>2
<1> HIDE DEF f
<1>4. f[{}] = base
  <2>1. PICK h, G : /\ Steps(A, base, n, G, h)
                    /\ f[{}] = h[n]
                    /\ \A k \in 1..n : G[k] = IF k \in {} THEN F[k] ELSE Idle(A)
    BY <1>3
  <2>2. IdleAfter(A, G, 0, n)
    BY <2>1 DEF IdleAfter
  <2>3. h[n] = h[0]
    <3>1. 0 \in 0..n
      OBVIOUS
    <3> QED BY <2>1, <2>2, <3>1, IdleSteps
  <2> QED BY <2>1, <2>3 DEF Steps
<1>5. ASSUME NEW S \in SUBSET (1..n), S # {}
      PROVE  f[S] = F[Max(S)][f[S \ {Max(S)}]]
  <2>1. PICK m : m = Max(S)
    OBVIOUS
  <2>2. m \in S /\ m \in 1..n /\ \A x \in S : x <= m
    <3>1. S \in SUBSET (0..n)
      OBVIOUS
    <3> QED BY <1>5, <2>1, <3>1, BoundedMax
  <2>3. PICK U \in SUBSET (1..n) : U = S \ {m}
    OBVIOUS
  <2>4. PICK h, G : /\ Steps(A, base, n, G, h)
                    /\ f[S] = h[n]
                    /\ \A k \in 1..n : G[k] = IF k \in S THEN F[k] ELSE Idle(A)
    BY <1>3
  <2>5. PICK h1, G1 : /\ Steps(A, base, n, G1, h1)
                      /\ f[U] = h1[n]
                      /\ \A k \in 1..n : G1[k] = IF k \in U THEN F[k] ELSE Idle(A)
    BY <1>3
  <2>6. m \in 0..n /\ m - 1 \in 0..n /\ m - 1 \in Nat /\ m - 1 <= n
    BY <2>2
  <2>7. h[n] = h[m]
    <3>1. IdleAfter(A, G, m, n)
      BY <2>2, <2>4 DEF IdleAfter
    <3> QED BY <2>4, <2>6, <3>1, IdleSteps
  <2>8. h1[n] = h1[m - 1]
    <3>1. IdleAfter(A, G1, m - 1, n)
      BY <2>2, <2>3, <2>5 DEF IdleAfter
    <3> QED BY <2>5, <2>6, <3>1, IdleSteps
  <2>9. h[m - 1] = h1[m - 1]
    <3>1. SameSteps(G, G1, m - 1)
      BY <2>2, <2>3, <2>4, <2>5 DEF SameSteps
    <3> QED BY <2>4, <2>5, <2>6, <3>1, StepsAgree
  <2>10. h[m] = F[m][h[m - 1]]
    BY <2>2, <2>4 DEF Steps
  <2> QED BY <2>1, <2>3, <2>4, <2>5, <2>7, <2>8, <2>9, <2>10
<1>6. IsFold(base, n, F, f)
  BY <1>2, <1>4, <1>5 DEF IsFold
<1> QED BY <1>2, <1>6

-----------------------------------------------------------------------------
(* Sums *)

\* What a sum has after each element.
Partial(s, weight, h) == /\ h \in [0..Len(s) -> Nat]
                         /\ h[0] = 0
                         /\ \A k \in 1..Len(s) : h[k] = h[k - 1] + weight[s[k]]

\* The fold that defines a sum adds up one element after the other.
LEMMA SumIsPartial ==
    ASSUME NEW E, NEW s \in Seq(E), NEW weight \in [E -> Nat]
    PROVE  \E h : Partial(s, weight, h) /\ SumOf(s, weight) = h[Len(s)]
<1> DEFINE n == Len(s)
           F == [k \in 1..n |-> [a \in Nat |-> a + weight[s[k]]]]
           D == DOMAIN s
           iter == CHOOSE f : f = [S \in SUBSET D |->
                      IF S = {} THEN 0 ELSE f[S \ {Max(S)}] + weight[s[Max(S)]]]
<1>1. n \in Nat /\ D = 1..n /\ \A k \in 1..n : weight[s[k]] \in Nat
  OBVIOUS
<1>2. SumOf(s, weight) = iter[D]
  BY DEF SumOf, FoldLeft, MapThenFoldSet
<1>3. iter = [S \in SUBSET D |->
                 IF S = {} THEN 0 ELSE iter[S \ {Max(S)}] + weight[s[Max(S)]]]
  <2>1. F \in [1..n -> [Nat -> Nat]]
    BY <1>1
  <2>2. PICK f \in [SUBSET (1..n) -> Nat] : IsFold(0, n, F, f)
    <3> HIDE DEF F, n
    <3> QED BY <1>1, <2>1, FoldExists
  <2>3. ASSUME NEW S \in SUBSET D, S # {}
        PROVE  F[Max(S)][f[S \ {Max(S)}]] = f[S \ {Max(S)}] + weight[s[Max(S)]]
    <3>1. Max(S) \in 1..n
      <4>1. S \in SUBSET (0..n)
        BY <1>1
      <4> QED BY <1>1, <2>3, <4>1, BoundedMax
    <3>2. f[S \ {Max(S)}] \in Nat
      BY <1>1, <2>2
    <3> QED BY <3>1, <3>2
  <2>4. f = [S \in SUBSET D |->
                IF S = {} THEN 0 ELSE f[S \ {Max(S)}] + weight[s[Max(S)]]]
    <3> HIDE DEF F, n
    <3> QED BY <1>1, <2>2, <2>3 DEF IsFold
  <2> HIDE DEF D
  <2> QED BY <2>4
<1> HIDE DEF iter
<1> DEFINE h == [k \in 0..n |-> iter[1..k]]
<1>4. \A k \in 1..n : iter[1..k] = iter[1..(k - 1)] + weight[s[k]]
  <2> SUFFICES ASSUME NEW k \in 1..n PROVE iter[1..k] = iter[1..(k - 1)] + weight[s[k]]
    OBVIOUS
  <2>1. 1..k \in SUBSET D /\ 1..k # {} /\ 1..k \in SUBSET (0..n)
    <3>1. 1..k \in SUBSET D /\ 1..k \in SUBSET (0..n)
      BY <1>1
    <3>2. k \in 1..k
      BY <1>1
    <3> QED BY <3>1, <3>2
  <2>2. Max(1..k) = k
    <3>1. Max(1..k) \in 1..k /\ \A x \in 1..k : x <= Max(1..k)
      BY <1>1, <2>1, BoundedMax
    <3> QED BY <3>1
  <2>3. (1..k) \ {k} = 1..(k - 1)
    OBVIOUS
  <2> QED BY <1>3, <2>1, <2>2, <2>3
<1>5. iter[1..0] = 0
  <2>1. 1..0 = {} /\ {} \in SUBSET D
    OBVIOUS
  <2> QED BY <1>3, <2>1
<1>6. \A k \in 0..n : iter[1..k] \in Nat
  <2> DEFINE T == {k \in Nat : k <= n => iter[1..k] \in Nat}
  <2>1. 0 \in T
    BY <1>5
  <2>2. ASSUME NEW k \in Nat, k \in T PROVE k + 1 \in T
    <3> SUFFICES ASSUME k + 1 <= n PROVE iter[1..(k + 1)] \in Nat
      OBVIOUS
    <3>1. iter[1..k] \in Nat /\ k + 1 \in 1..n /\ (k + 1) - 1 = k
      BY <1>1, <2>2
    <3> QED BY <1>1, <1>4, <3>1
  <2>3. \A k \in Nat : k \in T
    <3> HIDE DEF T
    <3> QED BY <2>1, <2>2, SetInduction
  <2> QED BY <1>1, <2>3
<1>7. Partial(s, weight, h)
  BY <1>1, <1>4, <1>5, <1>6 DEF Partial
<1>8. SumOf(s, weight) = h[Len(s)]
  BY <1>1, <1>2
<1> HIDE DEF h
<1> QED BY <1>7, <1>8

\* Partial sums are numbers.
LEMMA PartialIsNat ==
    ASSUME NEW s, NEW weight, NEW h, Partial(s, weight, h)
    PROVE  \A k \in 0..Len(s) : h[k] \in Nat
  BY DEF Partial

\* Sequences that agree on k elements have the same partial sum there.
LEMMA PartialsAgree ==
    ASSUME NEW s, NEW t, NEW weight, NEW g, NEW h, Len(s) \in Nat, Len(t) \in Nat,
           Partial(s, weight, g), Partial(t, weight, h),
           NEW k \in Nat, k <= Len(s), k <= Len(t), SameSteps(s, t, k)
    PROVE  g[k] = h[k]
<1> DEFINE T == {j \in Nat : j <= k => g[j] = h[j]}
<1>1. 0 \in T
  BY DEF Partial
<1>2. ASSUME NEW j \in Nat, j \in T PROVE j + 1 \in T
  <2> SUFFICES ASSUME j + 1 <= k PROVE g[j + 1] = h[j + 1]
    OBVIOUS
  <2>1. g[j] = h[j] /\ s[j + 1] = t[j + 1] /\ j + 1 \in 1..Len(s) /\ j + 1 \in 1..Len(t)
    BY <1>2 DEF SameSteps
  <2>2. /\ g[j + 1] = g[(j + 1) - 1] + weight[s[j + 1]]
        /\ h[j + 1] = h[(j + 1) - 1] + weight[t[j + 1]]
    BY <2>1 DEF Partial
  <2> QED BY <2>1, <2>2
<1>3. k \in T
  <2> HIDE DEF T
  <2> QED BY <1>1, <1>2, SetInduction
<1> QED BY <1>3

\* Any partial sums end in the sum.
LEMMA PartialSum ==
    ASSUME NEW E, NEW s \in Seq(E), NEW weight \in [E -> Nat], NEW h, Partial(s, weight, h)
    PROVE  SumOf(s, weight) = h[Len(s)]
<1>1. PICK g : Partial(s, weight, g) /\ SumOf(s, weight) = g[Len(s)]
  BY SumIsPartial
<1>2. Len(s) \in Nat /\ SameSteps(s, s, Len(s))
  BY DEF SameSteps
<1>3. Len(s) <= Len(s)
  BY <1>2
<1> QED BY <1>1, <1>2, <1>3, PartialsAgree

\* Partial sums do not decrease.
LEMMA PartialGrows ==
    ASSUME NEW E, NEW s \in Seq(E), NEW weight \in [E -> Nat], NEW h, Partial(s, weight, h),
           NEW i \in 0..Len(s), NEW j \in i..Len(s)
    PROVE  h[i] <= h[j]
<1> DEFINE T == {k \in Nat : i + k <= Len(s) => h[i] <= h[i + k]}
<1>1. 0 \in T
  <2>1. h[i] \in Nat /\ i + 0 = i
    BY PartialIsNat
  <2> QED BY <2>1
<1>2. ASSUME NEW k \in Nat, k \in T PROVE k + 1 \in T
  <2> SUFFICES ASSUME i + (k + 1) <= Len(s) PROVE h[i] <= h[i + (k + 1)]
    OBVIOUS
  <2> DEFINE m == i + (k + 1)
  <2>1. m \in 1..Len(s) /\ m - 1 = i + k /\ s[m] \in E /\ m - 1 \in 0..Len(s)
    OBVIOUS
  <2>2. h[m] = h[m - 1] + weight[s[m]] /\ h[m - 1] \in Nat /\ weight[s[m]] \in Nat /\ h[i] \in Nat
    BY <2>1 DEF Partial
  <2>3. h[i] <= h[m - 1]
    BY <1>2, <2>1
  <2> QED BY <2>2, <2>3
<1>3. j - i \in T
  <2>1. j - i \in Nat
    OBVIOUS
  <2> HIDE DEF T
  <2> QED BY <1>1, <1>2, <2>1, SetInduction
<1> QED BY <1>3

\* The sum of a slice is the difference of the partial sums at its ends.
LEMMA SumOfSlice ==
    ASSUME NEW E, NEW s \in Seq(E), NEW weight \in [E -> Nat], NEW h, Partial(s, weight, h),
           NEW i \in 0..Len(s), NEW j \in i..Len(s)
    PROVE  SumOf(SubSeq(s, i + 1, j), weight) = h[j] - h[i]
<1> DEFINE c == SubSeq(s, i + 1, j)
           n == j - i
           g == [k \in 0..n |-> h[i + k] - h[i]]
<1>1. c \in Seq(E) /\ Len(c) = n /\ n \in Nat /\ \A k \in 1..n : c[k] = s[i + k]
  OBVIOUS
<1>2. g \in [0..n -> Nat]
  <2> SUFFICES ASSUME NEW k \in 0..n PROVE h[i + k] - h[i] \in Nat
    OBVIOUS
  <2>1. i + k \in i..Len(s) /\ i + k \in 0..Len(s)
    OBVIOUS
  <2>2. h[i] <= h[i + k]
    BY <2>1, PartialGrows
  <2>3. h[i] \in Nat /\ h[i + k] \in Nat
    BY <2>1, PartialIsNat
  <2> QED BY <2>2, <2>3
<1>3. g[0] = 0
  <2>1. h[i] \in Nat /\ i + 0 = i /\ 0 \in 0..n
    BY <1>1, PartialIsNat
  <2> QED BY <2>1
<1>4. ASSUME NEW k \in 1..n PROVE g[k] = g[k - 1] + weight[c[k]]
  <2>1. i + k \in 1..Len(s) /\ (i + k) - 1 = i + (k - 1) /\ i + (k - 1) \in 0..Len(s)
    OBVIOUS
  <2>2. s[i + k] \in E
    BY <2>1
  <2>3. h[i + k] = h[i + (k - 1)] + weight[s[i + k]] /\ weight[s[i + k]] \in Nat
    BY <2>1, <2>2 DEF Partial
  <2>4. h[i] \in Nat /\ h[i + k] \in Nat /\ h[i + (k - 1)] \in Nat
    BY <2>1, PartialIsNat
  <2>5. g[k] = h[i + k] - h[i] /\ g[k - 1] = h[i + (k - 1)] - h[i]
    OBVIOUS
  <2>6. c[k] = s[i + k]
    BY <1>1
  <2> HIDE DEF c, g, n
  <2> QED BY <2>3, <2>4, <2>5, <2>6
<1>5. Partial(c, weight, g)
  <2> HIDE DEF c, g, n
  <2> QED BY <1>1, <1>2, <1>3, <1>4 DEF Partial
<1>6. SumOf(c, weight) = g[Len(c)]
  <2> HIDE DEF c, g, n
  <2> QED BY <1>1, <1>5, PartialSum
<1>7. g[n] = h[j] - h[i]
  BY <1>1
<1> QED BY <1>1, <1>6, <1>7

\* The same with the positions of the first and the last element.
LEMMA SumOfRange ==
    ASSUME NEW E, NEW s \in Seq(E), NEW weight \in [E -> Nat], NEW h, Partial(s, weight, h),
           NEW from \in 1..(Len(s) + 1), NEW to \in (from - 1)..Len(s)
    PROVE  /\ SumOf(SubSeq(s, from, to), weight) = h[to] - h[from - 1]
           /\ h[from - 1] <= h[to]
           /\ h[to] \in Nat /\ h[from - 1] \in Nat
<1> DEFINE i == from - 1
<1>1. i \in 0..Len(s) /\ to \in i..Len(s) /\ i + 1 = from /\ to \in 0..Len(s)
  OBVIOUS
<1> HIDE DEF i
<1>2. SumOf(SubSeq(s, i + 1, to), weight) = h[to] - h[i]
  BY <1>1, SumOfSlice
<1>3. h[i] <= h[to]
  BY <1>1, PartialGrows
<1>4. h[i] \in Nat /\ h[to] \in Nat
  BY <1>1, PartialIsNat
<1> QED BY <1>1, <1>2, <1>3, <1>4 DEF i

\* What weighs nothing adds nothing.
LEMMA SumOfZeros ==
    ASSUME NEW E, NEW s \in Seq(E), NEW weight \in [E -> Nat], \A e \in E : weight[e] = 0
    PROVE  SumOf(s, weight) = 0
<1>1. PICK h : Partial(s, weight, h) /\ SumOf(s, weight) = h[Len(s)]
  BY SumIsPartial
<1> DEFINE U == {n \in Nat : n <= Len(s) => h[n] = 0}
<1>2. 0 \in U
  BY <1>1 DEF Partial
<1>3. ASSUME NEW n \in Nat, n \in U PROVE n + 1 \in U
  <2> SUFFICES ASSUME n + 1 <= Len(s) PROVE h[n + 1] = 0
    OBVIOUS
  <2>1. n + 1 \in 1..Len(s) /\ (n + 1) - 1 = n /\ n <= Len(s) /\ s[n + 1] \in E
    OBVIOUS
  <2>2. h[n] = 0 /\ weight[s[n + 1]] = 0
    BY <1>3, <2>1
  <2>3. h[n + 1] = h[n] + weight[s[n + 1]]
    BY <1>1, <2>1 DEF Partial
  <2> QED BY <2>2, <2>3
<1>4. \A n \in Nat : n \in U
  <2> HIDE DEF U
  <2> QED BY <1>2, <1>3, SetInduction
<1>5. Len(s) \in Nat
  OBVIOUS
<1> QED BY <1>1, <1>4, <1>5

\* The longer of two beginnings weighs no less.
LEMMA PrefixGrows ==
    ASSUME NEW E, NEW s \in Seq(E), NEW weight \in [E -> Nat], NEW j \in 0..Len(s),
           NEW n \in j..Len(s)
    PROVE  SumOf(SubSeq(s, 1, j), weight) <= SumOf(SubSeq(s, 1, n), weight)
<1>1. PICK h : Partial(s, weight, h)
  BY SumIsPartial
<1>2. /\ 1 \in 1..(Len(s) + 1) /\ 1 - 1 = 0 /\ n \in 0..Len(s)
      /\ j \in (1 - 1)..Len(s) /\ n \in (1 - 1)..Len(s)
  OBVIOUS
<1>3. /\ SumOf(SubSeq(s, 1, j), weight) = h[j] - h[1 - 1]
      /\ SumOf(SubSeq(s, 1, n), weight) = h[n] - h[1 - 1]
      /\ h[j] \in Nat /\ h[n] \in Nat /\ h[1 - 1] \in Nat
  BY <1>1, <1>2, SumOfRange
<1>4. h[j] <= h[n]
  BY <1>1, PartialGrows
<1> QED BY <1>3, <1>4

\* A beginning and what follows it, up to some point, are a longer beginning.
LEMMA SliceJoin ==
    ASSUME NEW E, NEW s \in Seq(E), NEW a \in 0..Len(s), NEW m \in a..Len(s), NEW n \in 0..(m - a)
    PROVE  SubSeq(s, 1, a) \o SubSeq(SubSeq(s, a + 1, m), 1, n) = SubSeq(s, 1, a + n)
<1> DEFINE p == SubSeq(s, 1, a)
           q == SubSeq(s, a + 1, m)
           r == SubSeq(q, 1, n)
<1>1. Len(s) \in Nat /\ a \in Nat /\ m \in Nat /\ n \in Nat
  OBVIOUS
<1>2. p \in Seq(E) /\ Len(p) = a /\ \A j \in 1..a : p[j] = s[j]
  BY <1>1
<1>3. q \in Seq(E) /\ Len(q) = m - a /\ \A j \in 1..(m - a) : q[j] = s[a + j]
  BY <1>1
<1> HIDE DEF p, q
<1>4. r \in Seq(E) /\ Len(r) = n /\ \A j \in 1..n : r[j] = q[j]
  BY <1>1, <1>3
<1> HIDE DEF r
<1>5. Len(p \o r) = a + n /\ p \o r \in Seq(E)
  BY <1>1, <1>2, <1>4
<1>6. \A j \in 1..(a + n) : (p \o r)[j] = s[j]
  <2> SUFFICES ASSUME NEW j \in 1..(a + n) PROVE (p \o r)[j] = s[j]
    OBVIOUS
  <2>1. CASE j <= a
    BY <1>1, <1>2, <1>4, <2>1
  <2>2. CASE j > a
    <3>1. PICK d \in 1..n : j = a + d
      <4>1. j - a \in 1..n /\ j = a + (j - a)
        BY <1>1, <2>2
      <4> QED BY <4>1
    <3>2. (p \o r)[Len(p) + d] = r[d]
      BY <1>1, <1>2, <1>4
    <3>3. q[d] = s[a + d]
      BY <1>1, <1>3
    <3>4. (p \o r)[a + d] = s[a + d]
      BY <1>2, <1>4, <3>2, <3>3
    <3> QED BY <3>1, <3>4
  <2>3. j <= a \/ j > a
    BY <1>1
  <2> QED BY <2>1, <2>2, <2>3
<1>7. /\ SubSeq(s, 1, a + n) \in Seq(E) /\ Len(SubSeq(s, 1, a + n)) = a + n
      /\ \A j \in 1..(a + n) : SubSeq(s, 1, a + n)[j] = s[j]
  BY <1>1
<1> QED BY <1>5, <1>6, <1>7 DEF p, q, r

\* One more element adds its weight, and no elements have none.
LEMMA SumOfRangeGrows ==
    ASSUME NEW E, NEW s \in Seq(E), NEW weight \in [E -> Nat],
           NEW i \in 1..(Len(s) + 1), NEW j \in i..(Len(s) + 1)
    PROVE  /\ SumOf(SubSeq(s, i, j - 1), weight) \in Nat
           /\ j <= Len(s) => SumOf(SubSeq(s, i, j), weight)
                               = SumOf(SubSeq(s, i, j - 1), weight) + weight[s[j]]
           /\ SumOf(SubSeq(s, i, i - 1), weight) = 0
<1>1. PICK h : Partial(s, weight, h)
  BY SumIsPartial
<1>2. /\ j - 1 \in (i - 1)..Len(s) /\ j - 1 \in 0..Len(s)
      /\ i - 1 \in 0..Len(s) /\ i - 1 \in (i - 1)..Len(s)
  OBVIOUS
<1>3. h[j - 1] \in Nat /\ h[i - 1] \in Nat
  BY <1>1, <1>2, PartialIsNat
<1>4. SumOf(SubSeq(s, i, j - 1), weight) = h[j - 1] - h[i - 1] /\ h[i - 1] <= h[j - 1]
  BY <1>1, <1>2, SumOfRange
<1>5. ASSUME j <= Len(s)
      PROVE  SumOf(SubSeq(s, i, j), weight) = SumOf(SubSeq(s, i, j - 1), weight) + weight[s[j]]
  <2>1. j \in 1..Len(s) /\ j \in (i - 1)..Len(s) /\ s[j] \in E
    BY <1>5
  <2>2. h[j] = h[j - 1] + weight[s[j]] /\ weight[s[j]] \in Nat
    BY <1>1, <2>1 DEF Partial
  <2>3. SumOf(SubSeq(s, i, j), weight) = h[j] - h[i - 1]
    BY <1>1, <2>1, SumOfRange
  <2> QED BY <1>3, <1>4, <2>2, <2>3
<1>6. SumOf(SubSeq(s, i, i - 1), weight) = 0
  <2>1. SumOf(SubSeq(s, i, i - 1), weight) = h[i - 1] - h[i - 1]
    BY <1>1, <1>2, SumOfRange
  <2> QED BY <1>3, <2>1
<1>7. SumOf(SubSeq(s, i, j - 1), weight) \in Nat
  BY <1>3, <1>4
<1> QED BY <1>5, <1>6, <1>7

\* A sum of numbers is a number.
LEMMA SumIsNat ==
    ASSUME NEW E, NEW s \in Seq(E), NEW weight \in [E -> Nat]
    PROVE  SumOf(s, weight) \in Nat
<1>1. PICK h : Partial(s, weight, h) /\ SumOf(s, weight) = h[Len(s)]
  BY SumIsPartial
<1>2. Len(s) \in 0..Len(s)
  OBVIOUS
<1> QED BY <1>1, <1>2, PartialIsNat

\* Nothing adds up to zero.
LEMMA SumEmpty ==
    ASSUME NEW E, NEW weight \in [E -> Nat]
    PROVE  SumOf(<<>>, weight) = 0
<1>1. <<>> \in Seq(E) /\ Len(<<>>) = 0
  OBVIOUS
<1>2. PICK h : Partial(<<>>, weight, h) /\ SumOf(<<>>, weight) = h[Len(<<>>)]
  BY <1>1, SumIsPartial
<1> QED BY <1>1, <1>2 DEF Partial

\* The first k elements and the rest.
LEMMA SumSplit ==
    ASSUME NEW E, NEW s \in Seq(E), NEW weight \in [E -> Nat], NEW k \in 0..Len(s)
    PROVE  SumOf(s, weight) = SumOf(SubSeq(s, 1, k), weight)
                              + SumOf(SubSeq(s, k + 1, Len(s)), weight)
<1>1. PICK h : Partial(s, weight, h) /\ SumOf(s, weight) = h[Len(s)]
  BY SumIsPartial
<1>2. 0 \in 0..Len(s) /\ k \in 0..Len(s) /\ Len(s) \in k..Len(s) /\ 0 + 1 = 1
  OBVIOUS
<1>3. SumOf(SubSeq(s, 0 + 1, k), weight) = h[k] - h[0]
  BY <1>1, <1>2, SumOfSlice
<1>4. SumOf(SubSeq(s, k + 1, Len(s)), weight) = h[Len(s)] - h[k]
  BY <1>1, <1>2, SumOfSlice
<1>5. h[0] = 0 /\ h[k] \in Nat /\ h[Len(s)] \in Nat
  <2>1. h[0] = 0
    BY <1>1 DEF Partial
  <2>2. \A j \in 0..Len(s) : h[j] \in Nat
    BY <1>1, PartialIsNat
  <2>3. k \in 0..Len(s) /\ Len(s) \in 0..Len(s)
    BY <1>2
  <2> QED BY <2>1, <2>2, <2>3
<1> QED BY <1>1, <1>2, <1>3, <1>4, <1>5

\* Two sequences joined weigh what they weigh apart.
LEMMA SumConcat ==
    ASSUME NEW E, NEW s \in Seq(E), NEW t \in Seq(E), NEW weight \in [E -> Nat]
    PROVE  SumOf(s \o t, weight) = SumOf(s, weight) + SumOf(t, weight)
<1> DEFINE u == s \o t
<1>1. u \in Seq(E) /\ Len(s) \in 0..Len(u)
  OBVIOUS
<1>2. SubSeq(u, 1, Len(s)) = s
  OBVIOUS
<1>3. SubSeq(u, Len(s) + 1, Len(u)) = t
  OBVIOUS
<1> HIDE DEF u
<1>4. SumOf(u, weight) = SumOf(SubSeq(u, 1, Len(s)), weight)
                         + SumOf(SubSeq(u, Len(s) + 1, Len(u)), weight)
  BY <1>1, SumSplit
<1> QED BY <1>2, <1>3, <1>4 DEF u

\* One element weighs what it weighs.
LEMMA SumSingle ==
    ASSUME NEW E, NEW e \in E, NEW weight \in [E -> Nat]
    PROVE  SumOf(<<e>>, weight) = weight[e]
<1>1. <<e>> \in Seq(E) /\ Len(<<e>>) = 1 /\ <<e>>[1] = e /\ 1 \in 1..1
  OBVIOUS
<1>2. PICK h : Partial(<<e>>, weight, h) /\ SumOf(<<e>>, weight) = h[Len(<<e>>)]
  BY <1>1, SumIsPartial
<1>3. h[1] = h[1 - 1] + weight[e] /\ h[0] = 0
  BY <1>1, <1>2 DEF Partial
<1> QED BY <1>1, <1>2, <1>3

\* One more element adds its weight.
LEMMA SumAppend ==
    ASSUME NEW E, NEW s \in Seq(E), NEW e \in E, NEW weight \in [E -> Nat]
    PROVE  SumOf(Append(s, e), weight) = SumOf(s, weight) + weight[e]
<1>1. Append(s, e) = s \o <<e>> /\ <<e>> \in Seq(E)
  OBVIOUS
<1>2. SumOf(s \o <<e>>, weight) = SumOf(s, weight) + SumOf(<<e>>, weight)
  BY <1>1, SumConcat
<1>3. SumOf(<<e>>, weight) = weight[e]
  BY SumSingle
<1> QED BY <1>1, <1>2, <1>3

-----------------------------------------------------------------------------
(* What a loop keeps *)

\* What is kept after each element.
Selected(s, T, h) ==
    /\ DOMAIN h = 0..Len(s)
    /\ h[0] = <<>>
    /\ \A k \in 1..Len(s) : h[k] = IF s[k] \in T THEN Append(h[k - 1], s[k]) ELSE h[k - 1]

\* The fold that keeps elements goes from one to the next.
LEMMA KeepIsSelected ==
    ASSUME NEW E, NEW s \in Seq(E), NEW T
    PROVE  \E h : Selected(s, T, h) /\ KeepIn(s, T) = h[Len(s)] /\ h \in [0..Len(s) -> Seq(E)]
<1> DEFINE n == Len(s)
           F == [k \in 1..n |-> [a \in Seq(E) |-> IF s[k] \in T THEN Append(a, s[k]) ELSE a]]
           D == DOMAIN s
           iter == CHOOSE f : f = [S \in SUBSET D |->
                      IF S = {} THEN <<>>
                      ELSE IF s[Max(S)] \in T THEN Append(f[S \ {Max(S)}], s[Max(S)])
                                              ELSE f[S \ {Max(S)}]]
<1>1. n \in Nat /\ D = 1..n /\ \A k \in 1..n : s[k] \in E
  OBVIOUS
<1>2. KeepIn(s, T) = iter[D]
  BY DEF KeepIn, FoldLeft, MapThenFoldSet
<1>3. iter = [S \in SUBSET D |->
                 IF S = {} THEN <<>>
                 ELSE IF s[Max(S)] \in T THEN Append(iter[S \ {Max(S)}], s[Max(S)])
                                         ELSE iter[S \ {Max(S)}]]
  <2>1. F \in [1..n -> [Seq(E) -> Seq(E)]]
    BY <1>1
  <2>2. PICK f \in [SUBSET (1..n) -> Seq(E)] : IsFold(<<>>, n, F, f)
    <3>1. <<>> \in Seq(E)
      OBVIOUS
    <3> HIDE DEF F, n
    <3> QED BY <1>1, <2>1, <3>1, FoldExists
  <2>3. ASSUME NEW S \in SUBSET D, S # {}
        PROVE  F[Max(S)][f[S \ {Max(S)}]]
                  = IF s[Max(S)] \in T THEN Append(f[S \ {Max(S)}], s[Max(S)])
                                       ELSE f[S \ {Max(S)}]
    <3>1. Max(S) \in 1..n
      <4>1. S \in SUBSET (0..n)
        BY <1>1
      <4> QED BY <1>1, <2>3, <4>1, BoundedMax
    <3>2. f[S \ {Max(S)}] \in Seq(E)
      BY <1>1, <2>2
    <3> QED BY <3>1, <3>2
  <2>4. f = [S \in SUBSET D |->
                IF S = {} THEN <<>>
                ELSE IF s[Max(S)] \in T THEN Append(f[S \ {Max(S)}], s[Max(S)])
                                        ELSE f[S \ {Max(S)}]]
    <3> HIDE DEF F, n
    <3> QED BY <1>1, <2>2, <2>3 DEF IsFold
  <2> HIDE DEF D
  <2> QED BY <2>4
<1> HIDE DEF iter
<1> DEFINE h == [k \in 0..n |-> iter[1..k]]
<1>4. \A k \in 1..n : iter[1..k] = IF s[k] \in T THEN Append(iter[1..(k - 1)], s[k])
                                                 ELSE iter[1..(k - 1)]
  <2> SUFFICES ASSUME NEW k \in 1..n
               PROVE  iter[1..k] = IF s[k] \in T THEN Append(iter[1..(k - 1)], s[k])
                                                 ELSE iter[1..(k - 1)]
    OBVIOUS
  <2>1. 1..k \in SUBSET D /\ 1..k # {} /\ 1..k \in SUBSET (0..n)
    <3>1. 1..k \in SUBSET D /\ 1..k \in SUBSET (0..n)
      BY <1>1
    <3>2. k \in 1..k
      BY <1>1
    <3> QED BY <3>1, <3>2
  <2>2. Max(1..k) = k
    <3>1. Max(1..k) \in 1..k /\ \A x \in 1..k : x <= Max(1..k)
      BY <1>1, <2>1, BoundedMax
    <3> QED BY <3>1
  <2>3. (1..k) \ {k} = 1..(k - 1)
    OBVIOUS
  <2> QED BY <1>3, <2>1, <2>2, <2>3
<1>5. iter[1..0] = <<>>
  <2>1. 1..0 = {} /\ {} \in SUBSET D
    OBVIOUS
  <2> QED BY <1>3, <2>1
<1>6. \A k \in 0..n : iter[1..k] \in Seq(E)
  <2> DEFINE U == {k \in Nat : k <= n => iter[1..k] \in Seq(E)}
  <2>1. 0 \in U
    <3>1. <<>> \in Seq(E)
      OBVIOUS
    <3>2. iter[1..0] \in Seq(E)
      BY <1>5, <3>1
    <3> QED BY <3>2
  <2>2. ASSUME NEW k \in Nat, k \in U PROVE k + 1 \in U
    <3> SUFFICES ASSUME k + 1 <= n PROVE iter[1..(k + 1)] \in Seq(E)
      OBVIOUS
    <3>1. iter[1..k] \in Seq(E) /\ k + 1 \in 1..n /\ (k + 1) - 1 = k /\ s[k + 1] \in E
      BY <1>1, <2>2
    <3>2. iter[1..(k + 1)] = IF s[k + 1] \in T THEN Append(iter[1..k], s[k + 1]) ELSE iter[1..k]
      <4> HIDE DEF n
      <4> QED BY <1>4, <3>1
    <3>3. PICK a \in Seq(E) : a = iter[1..k]
      BY <3>1
    <3>4. Append(a, s[k + 1]) \in Seq(E)
      BY <3>1
    <3> QED BY <3>2, <3>3, <3>4
  <2>3. \A k \in Nat : k \in U
    <3> HIDE DEF U
    <3> QED BY <2>1, <2>2, SetInduction
  <2> QED BY <1>1, <2>3
<1>7. Selected(s, T, h)
  BY <1>1, <1>4, <1>5 DEF Selected
<1>8. KeepIn(s, T) = h[Len(s)] /\ h \in [0..Len(s) -> Seq(E)]
  BY <1>1, <1>2, <1>6
<1> HIDE DEF h
<1> QED BY <1>7, <1>8

\* Sequences that agree on k elements keep the same of them.
LEMMA SelectedAgree ==
    ASSUME NEW s, NEW t, NEW T, NEW g, NEW h, Len(s) \in Nat, Len(t) \in Nat,
           Selected(s, T, g), Selected(t, T, h),
           NEW k \in Nat, k <= Len(s), k <= Len(t), SameSteps(s, t, k)
    PROVE  g[k] = h[k]
<1> DEFINE U == {j \in Nat : j <= k => g[j] = h[j]}
<1>1. 0 \in U
  BY DEF Selected
<1>2. ASSUME NEW j \in Nat, j \in U PROVE j + 1 \in U
  <2> SUFFICES ASSUME j + 1 <= k PROVE g[j + 1] = h[j + 1]
    OBVIOUS
  <2>1. /\ g[j] = h[j] /\ s[j + 1] = t[j + 1] /\ j + 1 \in 1..Len(s) /\ j + 1 \in 1..Len(t)
        /\ (j + 1) - 1 = j
    BY <1>2 DEF SameSteps
  <2> QED BY <2>1 DEF Selected
<1>3. k \in U
  <2> HIDE DEF U
  <2> QED BY <1>1, <1>2, SetInduction
<1> QED BY <1>3

\* What is kept is made of the same elements.
LEMMA KeepIsSeq ==
    ASSUME NEW E, NEW s \in Seq(E), NEW T
    PROVE  KeepIn(s, T) \in Seq(E)
<1>1. PICK h : KeepIn(s, T) = h[Len(s)] /\ h \in [0..Len(s) -> Seq(E)]
  BY KeepIsSelected
<1>2. Len(s) \in 0..Len(s)
  OBVIOUS
<1> QED BY <1>1, <1>2

\* Of no elements the loop keeps none.
LEMMA KeepEmpty == \A T : KeepIn(<<>>, T) = <<>>
<1> SUFFICES ASSUME NEW T PROVE KeepIn(<<>>, T) = <<>>
  OBVIOUS
<1> DEFINE s == <<>>
<1>1. s \in Seq({}) /\ Len(s) = 0
  OBVIOUS
<1> HIDE DEF s
<1>2. PICK h : Selected(s, T, h) /\ KeepIn(s, T) = h[Len(s)]
  BY <1>1, KeepIsSelected
<1>3. KeepIn(s, T) = <<>>
  BY <1>1, <1>2 DEF Selected
<1> QED BY <1>3 DEF s

\* Of one more element, the loop keeps one more or none.
LEMMA KeepAppend ==
    ASSUME NEW E, NEW s \in Seq(E), NEW e \in E, NEW T
    PROVE  KeepIn(Append(s, e), T) = IF e \in T THEN Append(KeepIn(s, T), e) ELSE KeepIn(s, T)
<1> DEFINE t == Append(s, e)
<1>1. PICK g : Selected(s, T, g) /\ KeepIn(s, T) = g[Len(s)] /\ g \in [0..Len(s) -> Seq(E)]
  BY KeepIsSelected
<1>2. /\ t \in Seq(E) /\ Len(t) = Len(s) + 1 /\ Len(s) \in Nat /\ t[Len(s) + 1] = e
      /\ \A k \in 1..Len(s) : t[k] = s[k]
  OBVIOUS
<1> HIDE DEF t
<1>3. PICK h : Selected(t, T, h) /\ KeepIn(t, T) = h[Len(t)]
  BY <1>2, KeepIsSelected
<1>4. g[Len(s)] = h[Len(s)]
  <2>1. SameSteps(s, t, Len(s)) /\ Len(s) <= Len(s) /\ Len(s) <= Len(t)
    BY <1>2 DEF SameSteps
  <2> QED BY <1>1, <1>2, <1>3, <2>1, SelectedAgree
<1>5. h[Len(s) + 1] = IF e \in T THEN Append(h[Len(s)], e) ELSE h[Len(s)]
  <2>1. Len(s) + 1 \in 1..Len(t) /\ (Len(s) + 1) - 1 = Len(s)
    BY <1>2
  <2> QED BY <1>2, <1>3, <2>1 DEF Selected
<1> QED BY <1>1, <1>2, <1>3, <1>4, <1>5 DEF t

\* A set of sequences that has the empty one, and each with one more element, has
\* them all.
LEMMA SequenceSetInduction ==
    ASSUME NEW E, NEW P, <<>> \in P, \A s \in Seq(E), e \in E : s \in P => Append(s, e) \in P
    PROVE  \A s \in Seq(E) : s \in P
<1> DEFINE T == {n \in Nat : \A s \in Seq(E) : Len(s) = n => s \in P}
<1>1. 0 \in T
  BY Z3
<1>2. ASSUME NEW n \in Nat, n \in T PROVE n + 1 \in T
  <2> SUFFICES ASSUME NEW s \in Seq(E), Len(s) = n + 1 PROVE s \in P
    OBVIOUS
  <2> DEFINE front == SubSeq(s, 1, n)
             last == s[n + 1]
  <2>1. front \in Seq(E) /\ Len(front) = n /\ last \in E
    OBVIOUS
  <2>2. s = Append(front, last)
    OBVIOUS
  <2> HIDE DEF front, last
  <2>3. front \in P
    BY <1>2, <2>1
  <2> QED BY <2>1, <2>2, <2>3
<1>3. \A n \in Nat : n \in T
  <2> HIDE DEF T
  <2> QED BY <1>1, <1>2, SetInduction
<1> QED BY <1>3

\* What is kept is no longer than the sequence and weighs no more.
LEMMA KeepShrinks ==
    ASSUME NEW E, NEW s \in Seq(E), NEW T
    PROVE  /\ KeepIn(s, T) \in Seq(E)
           /\ Len(KeepIn(s, T)) <= Len(s)
           /\ \A weight \in [E -> Nat] : SumOf(KeepIn(s, T), weight) <= SumOf(s, weight)
<1> DEFINE Q(r) == /\ KeepIn(r, T) \in Seq(E)
                   /\ Len(KeepIn(r, T)) <= Len(r)
                   /\ \A weight \in [E -> Nat] : SumOf(KeepIn(r, T), weight) <= SumOf(r, weight)
           P == {r \in Seq(E) : Q(r)}
<1>1. <<>> \in P
  <2>1. <<>> \in Seq(E) /\ \A weight \in [E -> Nat] : SumOf(<<>>, weight) = 0
    BY SumEmpty
  <2>2. KeepIn(<<>>, T) = <<>>
    BY KeepEmpty
  <2>3. Len(KeepIn(<<>>, T)) <= Len(<<>>)
    <3>1. Len(<<>>) = 0
      OBVIOUS
    <3> QED BY <2>2, <3>1
  <2>4. \A weight \in [E -> Nat] : SumOf(KeepIn(<<>>, T), weight) <= SumOf(<<>>, weight)
    BY <2>1, <2>2
  <2> QED BY <2>1, <2>2, <2>3, <2>4
<1>2. ASSUME NEW r \in Seq(E), NEW e \in E, r \in P PROVE Append(r, e) \in P
  <2> DEFINE k == KeepIn(r, T)
             l == KeepIn(Append(r, e), T)
  <2>1. k \in Seq(E) /\ (l = IF e \in T THEN Append(k, e) ELSE k)
    BY KeepAppend, KeepIsSeq
  <2>2. Append(r, e) \in Seq(E) /\ Len(Append(r, e)) = Len(r) + 1
    OBVIOUS
  <2>3. Q(r)
    BY <1>2
  <2> HIDE DEF l, k
  <2>4. l \in Seq(E) /\ Len(k) <= Len(r) /\ Len(l) <= Len(k) + 1
    BY <2>1, <2>3 DEF k
  <2>5. ASSUME NEW weight \in [E -> Nat] PROVE SumOf(l, weight) <= SumOf(Append(r, e), weight)
    <3>1. /\ SumOf(Append(r, e), weight) = SumOf(r, weight) + weight[e]
          /\ SumOf(Append(k, e), weight) = SumOf(k, weight) + weight[e]
      BY <2>1, SumAppend
    <3>2. SumOf(k, weight) \in Nat /\ SumOf(r, weight) \in Nat /\ weight[e] \in Nat
      BY <2>1, SumIsNat
    <3>3. SumOf(k, weight) <= SumOf(r, weight)
      BY <2>3 DEF k
    <3> QED BY <2>1, <3>1, <3>2, <3>3
  <2>6. Len(l) <= Len(Append(r, e))
    BY <2>1, <2>2, <2>4
  <2> QED BY <2>2, <2>4, <2>5, <2>6 DEF l
<1>3. s \in P
  <2> HIDE DEF P
  <2> QED BY <1>1, <1>2, SequenceSetInduction
<1> QED BY <1>3

\* Elements kept twice are those kept both times; and all are, if all may be.
LEMMA KeepTwice ==
    ASSUME NEW E, NEW s \in Seq(E), NEW T, NEW U
    PROVE  /\ KeepIn(KeepIn(s, T), U) = KeepIn(s, T \cap U)
           /\ E \subseteq T => KeepIn(s, T) = s
<1> DEFINE Q(r) == /\ KeepIn(KeepIn(r, T), U) = KeepIn(r, T \cap U)
                   /\ E \subseteq T => KeepIn(r, T) = r
           P == {r \in Seq(E) : Q(r)}
<1>1. <<>> \in P
  <2>1. <<>> \in Seq(E)
    OBVIOUS
  <2>2. \A V : KeepIn(<<>>, V) = <<>>
    BY KeepEmpty
  <2> QED BY <2>1, <2>2
<1>2. ASSUME NEW r \in Seq(E), NEW e \in E, r \in P PROVE Append(r, e) \in P
  <2> DEFINE a == Append(r, e)
             k == KeepIn(r, T)
  <2>1. a \in Seq(E) /\ k \in Seq(E) /\ Q(r)
    BY <1>2, KeepIsSeq
  <2>2. KeepIn(a, T) = IF e \in T THEN Append(k, e) ELSE k
    BY KeepAppend
  <2>3. KeepIn(a, T \cap U) = IF e \in T \cap U THEN Append(KeepIn(r, T \cap U), e)
                                               ELSE KeepIn(r, T \cap U)
    BY KeepAppend
  <2> HIDE DEF k
  <2>4. KeepIn(Append(k, e), U) = IF e \in U THEN Append(KeepIn(k, U), e) ELSE KeepIn(k, U)
    BY <2>1, KeepAppend
  <2>5. KeepIn(k, U) = KeepIn(r, T \cap U) /\ (E \subseteq T => k = r)
    BY <2>1 DEF k
  <2> HIDE DEF a
  <2>6. KeepIn(KeepIn(a, T), U) = KeepIn(a, T \cap U)
    <3>1. CASE e \notin T
      <4>1. KeepIn(a, T) = k /\ KeepIn(a, T \cap U) = KeepIn(r, T \cap U)
        BY <2>2, <2>3, <3>1
      <4> QED BY <2>5, <4>1
    <3>2. CASE e \in T /\ e \notin U
      <4>1. KeepIn(a, T) = Append(k, e) /\ KeepIn(a, T \cap U) = KeepIn(r, T \cap U)
        BY <2>2, <2>3, <3>2
      <4> QED BY <2>4, <2>5, <3>2, <4>1
    <3>3. CASE e \in T /\ e \in U
      <4>1. /\ KeepIn(a, T) = Append(k, e)
            /\ KeepIn(a, T \cap U) = Append(KeepIn(r, T \cap U), e)
        BY <2>2, <2>3, <3>3
      <4> QED BY <2>4, <2>5, <3>3, <4>1
    <3> QED BY <3>1, <3>2, <3>3
  <2>7. E \subseteq T => KeepIn(a, T) = a
    BY <2>2, <2>5 DEF a
  <2> QED BY <2>1, <2>6, <2>7 DEF a
<1>3. s \in P
  <2> HIDE DEF P
  <2> QED BY <1>1, <1>2, SequenceSetInduction
<1> QED BY <1>3

\* No element that was there once is kept twice.
LEMMA KeepOnce ==
    ASSUME NEW E, NEW s \in Seq(E), NEW T, IsInjective(s)
    PROVE  IsInjective(KeepIn(s, T))
<1> DEFINE Q(r) == /\ KeepIn(r, T) \in Seq(E)
                   /\ \A i \in 1..Len(KeepIn(r, T)) : \E j \in 1..Len(r) : KeepIn(r, T)[i] = r[j]
                   /\ IsInjective(r) => IsInjective(KeepIn(r, T))
           P == {r \in Seq(E) : Q(r)}
<1>1. <<>> \in P
  <2>1. <<>> \in Seq(E)
    OBVIOUS
  <2>2. KeepIn(<<>>, T) = <<>>
    BY KeepEmpty
  <2> QED BY <2>1, <2>2
<1>2. ASSUME NEW r \in Seq(E), NEW e \in E, r \in P PROVE Append(r, e) \in P
  <2> DEFINE a == Append(r, e)
             k == KeepIn(r, T)
             l == KeepIn(a, T)
  <2>1. Q(r) /\ k \in Seq(E)
    BY <1>2
  <2>2. l = IF e \in T THEN Append(k, e) ELSE k
    BY KeepAppend
  <2> HIDE DEF l, k
  <2>3. /\ a \in Seq(E) /\ Len(a) = Len(r) + 1 /\ a[Len(r) + 1] = e
        /\ \A i \in 1..Len(r) : a[i] = r[i] /\ Len(r) \in Nat
    OBVIOUS
  <2> HIDE DEF a
  <2>4. \A i \in 1..Len(k) : \E j \in 1..Len(r) : k[i] = r[j]
    BY <2>1 DEF k
  <2>5. l \in Seq(E) /\ \A i \in 1..Len(l) : \/ i \in 1..Len(k) /\ l[i] = k[i]
                                             \/ i = Len(k) + 1 /\ l[i] = e
    BY <2>1, <2>2
  <2>6. ASSUME NEW i \in 1..Len(l) PROVE \E j \in 1..Len(a) : l[i] = a[j]
    <3>1. CASE i \in 1..Len(k) /\ l[i] = k[i]
      <4>1. PICK j \in 1..Len(r) : k[i] = r[j]
        BY <2>4, <3>1
      <4>2. j \in 1..Len(a) /\ a[j] = r[j]
        BY <2>3
      <4> QED BY <3>1, <4>1, <4>2
    <3>2. CASE l[i] = e
      <4>1. Len(r) + 1 \in 1..Len(a)
        BY <2>3
      <4> QED BY <2>3, <3>2, <4>1
    <3> QED BY <2>5, <3>1, <3>2
  <2>7. ASSUME IsInjective(a) PROVE IsInjective(l)
    <3>1. \A i, j \in 1..(Len(r) + 1) : a[i] = a[j] => i = j
      BY <2>3, <2>7 DEF IsInjective
    <3>2. IsInjective(r)
      BY <2>3, <3>1 DEF IsInjective
    <3>3. \A i, j \in 1..Len(k) : k[i] = k[j] => i = j
      BY <2>1, <3>2 DEF k, IsInjective
    <3>4. \A i \in 1..Len(k) : k[i] # e
      <4> SUFFICES ASSUME NEW i \in 1..Len(k), k[i] = e PROVE FALSE
        OBVIOUS
      <4>1. PICK j \in 1..Len(r) : k[i] = r[j]
        BY <2>4
      <4>2. j \in 1..(Len(r) + 1) /\ Len(r) + 1 \in 1..(Len(r) + 1) /\ a[j] = e /\ j # Len(r) + 1
        BY <2>3, <4>1
      <4> QED BY <2>3, <3>1, <4>2
    <3>5. \A i, j \in 1..Len(l) : l[i] = l[j] => i = j
      BY <2>5, <3>3, <3>4
    <3> QED BY <2>5, <3>5 DEF IsInjective
  <2> QED BY <2>3, <2>5, <2>6, <2>7 DEF l, a
<1>3. s \in P
  <2> HIDE DEF P
  <2> QED BY <1>1, <1>2, SequenceSetInduction
<1> QED BY <1>3

-----------------------------------------------------------------------------
(* Sequences without repetition, and the sets they list *)

\* What Append does to the elements, and when it repeats none.
LEMMA AppendOnce ==
    ASSUME NEW E, NEW s \in Seq(E), NEW e \in E
    PROVE  /\ ToSet(Append(s, e)) = ToSet(s) \cup {e}
           /\ IsInjective(s) /\ e \notin ToSet(s) => IsInjective(Append(s, e))
<1> DEFINE a == Append(s, e)
<1>1. /\ a \in Seq(E) /\ Len(s) \in Nat /\ Len(a) = Len(s) + 1 /\ a[Len(s) + 1] = e
      /\ \A j \in 1..Len(s) : a[j] = s[j]
      /\ DOMAIN a = 1..(Len(s) + 1) /\ DOMAIN s = 1..Len(s)
  OBVIOUS
<1> HIDE DEF a
<1>2. \A j \in 1..(Len(s) + 1) : j \in 1..Len(s) \/ j = Len(s) + 1
  BY <1>1
<1>3. \A j \in 1..Len(s) : j \in 1..(Len(s) + 1) /\ j # Len(s) + 1
  BY <1>1
<1>4. Len(s) + 1 \in 1..(Len(s) + 1)
  BY <1>1
<1>5. ToSet(a) = ToSet(s) \cup {e}
  <2>1. ASSUME NEW x \in ToSet(a) PROVE x \in ToSet(s) \cup {e}
    <3>1. PICK j \in 1..(Len(s) + 1) : x = a[j]
      BY <1>1, <2>1 DEF ToSet
    <3> QED BY <1>1, <1>2, <3>1 DEF ToSet
  <2>2. ASSUME NEW x \in ToSet(s) \cup {e} PROVE x \in ToSet(a)
    <3>1. CASE x = e
      BY <1>1, <1>4, <3>1 DEF ToSet
    <3>2. CASE x \in ToSet(s)
      <4>1. PICK j \in 1..Len(s) : x = s[j]
        BY <1>1, <3>2 DEF ToSet
      <4> QED BY <1>1, <1>3, <4>1 DEF ToSet
    <3> QED BY <2>2, <3>1, <3>2
  <2> QED BY <2>1, <2>2
<1>6. ASSUME IsInjective(s), e \notin ToSet(s) PROVE IsInjective(a)
  <2>1. \A j \in 1..Len(s) : s[j] # e
    BY <1>1, <1>6 DEF ToSet
  <2>2. \A j, n \in 1..Len(s) : s[j] = s[n] => j = n
    BY <1>1, <1>6 DEF IsInjective
  <2>3. \A j, n \in 1..(Len(s) + 1) : a[j] = a[n] => j = n
    BY <1>1, <1>2, <2>1, <2>2
  <2> QED BY <1>1, <2>3 DEF IsInjective
<1> QED BY <1>5, <1>6 DEF a

\* A sequence of a set's size that repeats nothing lists all of the set.
LEMMA FullList ==
    ASSUME NEW S, IsFiniteSet(S), NEW f \in [1..Cardinality(S) -> S], IsInjective(f)
    PROVE  f \in Seq(S) /\ ToSet(f) = S
<1> DEFINE n == Cardinality(S)
<1>1. n \in Nat
  BY FS_CardinalityType
<1>2. IsFiniteSet(1..n) /\ Cardinality(1..n) = n
  <2>1. Cardinality(1..n) = IF 1 > n THEN 0 ELSE n - 1 + 1
    BY <1>1, FS_Interval
  <2>2. IsFiniteSet(1..n)
    BY <1>1, FS_Interval
  <2> QED BY <1>1, <2>1, <2>2
<1>3. f \in Injection(1..n, S)
  BY DEF Injection
<1>4. f \in Surjection(1..n, S)
  <2> HIDE DEF n
  <2>1. Cardinality(1..n) = Cardinality(S)
    BY <1>2 DEF n
  <2> QED BY <1>3, <2>1, FS_Injection
<1>5. \A x \in S : \E j \in 1..n : f[j] = x
  BY <1>4 DEF Surjection
<1>6. DOMAIN f = 1..n /\ \A j \in 1..n : f[j] \in S
  OBVIOUS
<1> HIDE DEF n
<1>7. f \in [1..n -> S]
  BY DEF n
<1>8. ToSet(f) = S
  BY <1>5, <1>6 DEF ToSet
<1> QED BY <1>1, <1>7, <1>8

\* SetToSeq is such a list.
LEMMA SetListed ==
    ASSUME NEW S, IsFiniteSet(S)
    PROVE  SetToSeq(S) \in Seq(S) /\ IsInjective(SetToSeq(S)) /\ ToSet(SetToSeq(S)) = S
<1>1. ExistsBijection(1..Cardinality(S), S)
  BY FS_CardinalityType
<1>2. \E f \in [1..Cardinality(S) -> S] : IsInjective(f)
  BY <1>1 DEF ExistsBijection, Bijection, Injection
<1>3. SetToSeq(S) \in [1..Cardinality(S) -> S] /\ IsInjective(SetToSeq(S))
  BY <1>2 DEF SetToSeq
<1> QED BY <1>3, FullList

\* And so are all of SetToSeqs.
LEMMA AllListed ==
    ASSUME NEW S, IsFiniteSet(S), NEW f \in SetToSeqs(S)
    PROVE  f \in Seq(S) /\ IsInjective(f) /\ ToSet(f) = S
<1>1. f \in [1..Cardinality(S) -> S] /\ IsInjective(f)
  BY DEF SetToSeqs, IsInjective
<1> QED BY <1>1, FullList

\* The elements of a sequence are finitely many.
LEMMA ElementsFinite ==
    ASSUME NEW E, NEW s \in Seq(E)
    PROVE  IsFiniteSet(ToSet(s))
<1>1. Len(s) \in Nat /\ DOMAIN s = 1..Len(s)
  OBVIOUS
<1>2. s \in [1..Len(s) -> ToSet(s)]
  BY <1>1 DEF ToSet
<1>3. s \in Surjection(1..Len(s), ToSet(s))
  BY <1>1, <1>2 DEF Surjection, ToSet
<1> QED BY <1>1, <1>3, FS_NatSurjection DEF ExistsSurjection

\* What is kept are the elements that may be.
LEMMA KeepSet ==
    ASSUME NEW E, NEW s \in Seq(E), NEW T
    PROVE  ToSet(KeepIn(s, T)) = ToSet(s) \cap T
<1> DEFINE Q(r) == ToSet(KeepIn(r, T)) = ToSet(r) \cap T
           P == {r \in Seq(E) : Q(r)}
<1>1. <<>> \in P
  <2>1. <<>> \in Seq(E) /\ ToSet(<<>>) = {}
    BY DEF ToSet
  <2>2. KeepIn(<<>>, T) = <<>>
    BY KeepEmpty
  <2> QED BY <2>1, <2>2
<1>2. ASSUME NEW r \in Seq(E), NEW e \in E, r \in P PROVE Append(r, e) \in P
  <2> DEFINE a == Append(r, e)
             kept == KeepIn(r, T)
             l == KeepIn(a, T)
  <2>1. a \in Seq(E) /\ ToSet(a) = ToSet(r) \cup {e}
    BY AppendOnce
  <2>2. kept \in Seq(E) /\ ToSet(kept) = ToSet(r) \cap T
    BY <1>2, KeepIsSeq
  <2>3. l = IF e \in T THEN Append(kept, e) ELSE kept
    BY KeepAppend
  <2> HIDE DEF a, kept, l
  <2>4. ToSet(Append(kept, e)) = ToSet(kept) \cup {e}
    BY <2>2, AppendOnce
  <2>5. ToSet(l) = ToSet(a) \cap T
    <3>1. CASE e \in T
      <4>1. l = Append(kept, e)
        BY <2>3, <3>1
      <4> QED BY <2>1, <2>2, <2>4, <3>1, <4>1
    <3>2. CASE e \notin T
      <4>1. l = kept
        BY <2>3, <3>2
      <4> QED BY <2>1, <2>2, <3>2, <4>1
    <3> QED BY <3>1, <3>2
  <2> QED BY <2>1, <2>5 DEF a, l
<1>3. s \in P
  <2> HIDE DEF P
  <2> QED BY <1>1, <1>2, SequenceSetInduction
<1> QED BY <1>3

\* What is kept and what is not weigh together what there was.
LEMMA SumParts ==
    ASSUME NEW E, NEW s \in Seq(E), NEW T, NEW weight \in [E -> Nat]
    PROVE  SumOf(s, weight) = SumOf(KeepIn(s, T), weight) + SumOf(KeepIn(s, E \ T), weight)
<1> DEFINE U == E \ T
           Q(r) == SumOf(r, weight) = SumOf(KeepIn(r, T), weight) + SumOf(KeepIn(r, U), weight)
           P == {r \in Seq(E) : Q(r)}
<1>1. <<>> \in P
  <2>1. <<>> \in Seq(E) /\ SumOf(<<>>, weight) = 0
    BY SumEmpty
  <2>2. \A V : KeepIn(<<>>, V) = <<>>
    BY KeepEmpty
  <2>3. KeepIn(<<>>, T) = <<>> /\ KeepIn(<<>>, U) = <<>>
    BY <2>2
  <2> HIDE DEF U
  <2> QED BY <2>1, <2>3
<1>2. ASSUME NEW r \in Seq(E), NEW e \in E, r \in P PROVE Append(r, e) \in P
  <2> DEFINE a == Append(r, e)
             g == KeepIn(r, T)
             h == KeepIn(r, U)
  <2>1. a \in Seq(E) /\ g \in Seq(E) /\ h \in Seq(E)
    BY KeepIsSeq
  <2>2. SumOf(r, weight) = SumOf(g, weight) + SumOf(h, weight)
    BY <1>2
  <2>3. /\ KeepIn(a, T) = IF e \in T THEN Append(g, e) ELSE g
        /\ KeepIn(a, U) = IF e \in U THEN Append(h, e) ELSE h
    BY KeepAppend
  <2>4. SumOf(a, weight) = SumOf(r, weight) + weight[e]
    BY SumAppend
  <2>5. e \in U <=> e \notin T
    OBVIOUS
  <2> HIDE DEF a, g, h, U
  <2>6. /\ SumOf(Append(g, e), weight) = SumOf(g, weight) + weight[e]
        /\ SumOf(Append(h, e), weight) = SumOf(h, weight) + weight[e]
    BY <2>1, SumAppend
  <2>7. /\ SumOf(r, weight) \in Nat /\ SumOf(g, weight) \in Nat /\ SumOf(h, weight) \in Nat
        /\ weight[e] \in Nat
    BY <2>1, SumIsNat
  <2>8. SumOf(a, weight) = SumOf(KeepIn(a, T), weight) + SumOf(KeepIn(a, U), weight)
    <3>1. CASE e \in T
      <4>1. KeepIn(a, T) = Append(g, e) /\ KeepIn(a, U) = h
        BY <2>3, <2>5, <3>1
      <4> QED BY <2>2, <2>4, <2>6, <2>7, <4>1
    <3>2. CASE e \notin T
      <4>1. KeepIn(a, T) = g /\ KeepIn(a, U) = Append(h, e)
        BY <2>3, <2>5, <3>2
      <4> QED BY <2>2, <2>4, <2>6, <2>7, <4>1
    <3> QED BY <3>1, <3>2
  <2> QED BY <2>1, <2>8 DEF a
<1>3. s \in P
  <2> HIDE DEF P
  <2> QED BY <1>1, <1>2, SequenceSetInduction
<1> QED BY <1>3

\* A sequence without repetition of the elements of {e} is <<e>>, or empty.
LEMMA OnlyOne ==
    ASSUME NEW E, NEW s \in Seq(E), IsInjective(s), NEW e, ToSet(s) = {e}
    PROVE  s = <<e>>
<1>1. Len(s) \in Nat /\ DOMAIN s = 1..Len(s)
  OBVIOUS
<1>2. \A j \in 1..Len(s) : s[j] = e
  BY <1>1 DEF ToSet
<1>3. PICK j \in 1..Len(s) : s[j] = e
  BY <1>1 DEF ToSet
<1>4. \A n \in 1..Len(s) : n = j
  BY <1>1, <1>2 DEF IsInjective
<1>5. Len(s) = 1
  <2>1. 1 \in 1..Len(s) /\ Len(s) \in 1..Len(s)
    BY <1>1, <1>3
  <2>2. 1 = j /\ Len(s) = j
    BY <1>4, <2>1
  <2> QED BY <2>2
<1>6. s[1] = e
  BY <1>2, <1>5
<1> QED BY <1>5, <1>6

\* In a sequence without repetition an element weighs once.
LEMMA SumWithout ==
    ASSUME NEW E, NEW weight \in [E -> Nat]
    PROVE  \A s \in Seq(E) : IsInjective(s) =>
              \A e \in ToSet(s) :
                 SumOf(s, weight) = weight[e] + SumOf(KeepIn(s, E \ {e}), weight)
<1> SUFFICES ASSUME NEW s \in Seq(E), IsInjective(s), NEW e \in ToSet(s)
             PROVE  SumOf(s, weight) = weight[e] + SumOf(KeepIn(s, E \ {e}), weight)
  OBVIOUS
<1> DEFINE one == KeepIn(s, {e})
<1>1. one \in Seq(E) /\ IsInjective(one) /\ ToSet(one) = ToSet(s) \cap {e}
  BY KeepIsSeq, KeepOnce, KeepSet
<1>2. e \in E
  BY DEF ToSet
<1> HIDE DEF one
<1>3. ToSet(one) = {e}
  BY <1>1
<1>4. one = <<e>>
  BY <1>1, <1>3, OnlyOne
<1>5. SumOf(one, weight) = weight[e]
  BY <1>2, <1>4, SumSingle
<1>6. SumOf(s, weight) = SumOf(one, weight) + SumOf(KeepIn(s, E \ {e}), weight)
  BY SumParts DEF one
<1> QED BY <1>5, <1>6

\* Sequences without repetition of the same elements weigh the same.
LEMMA SumOfSet ==
    ASSUME NEW E, NEW s \in Seq(E), NEW r \in Seq(E), IsInjective(s), IsInjective(r),
           ToSet(s) = ToSet(r), NEW weight \in [E -> Nat]
    PROVE  SumOf(s, weight) = SumOf(r, weight)
<1>0. \A b \in Seq(E) : IsInjective(b) =>
         \A x \in ToSet(b) : SumOf(b, weight) = weight[x] + SumOf(KeepIn(b, E \ {x}), weight)
  BY SumWithout
<1> DEFINE Q(a) == \A b \in Seq(E) :
                     IsInjective(a) /\ IsInjective(b) /\ ToSet(a) = ToSet(b)
                       => SumOf(a, weight) = SumOf(b, weight)
           P == {a \in Seq(E) : Q(a)}
<1>1. <<>> \in P
  <2>1. <<>> \in Seq(E) /\ ToSet(<<>>) = {}
    BY DEF ToSet
  <2>2. ASSUME NEW b \in Seq(E), ToSet(b) = {} PROVE b = <<>>
    <3>1. Len(b) \in Nat /\ DOMAIN b = 1..Len(b)
      OBVIOUS
    <3>2. Len(b) = 0
      <4> SUFFICES ASSUME Len(b) # 0 PROVE FALSE
        OBVIOUS
      <4>1. 1 \in DOMAIN b
        BY <3>1
      <4>2. b[1] \in ToSet(b)
        BY <4>1 DEF ToSet
      <4> QED BY <2>2, <4>2
    <3> QED BY <3>2
  <2> QED BY <2>1, <2>2
<1>2. ASSUME NEW a \in Seq(E), NEW e \in E, a \in P PROVE Append(a, e) \in P
  <2> DEFINE l == Append(a, e)
  <2>1. l \in Seq(E) /\ ToSet(l) = ToSet(a) \cup {e}
    BY AppendOnce
  <2>2. SumOf(l, weight) = SumOf(a, weight) + weight[e]
    BY SumAppend
  <2>3. ASSUME IsInjective(l) PROVE IsInjective(a) /\ e \notin ToSet(a)
    <3>1. /\ Len(a) \in Nat /\ DOMAIN a = 1..Len(a) /\ DOMAIN l = 1..(Len(a) + 1)
          /\ l[Len(a) + 1] = e /\ \A j \in 1..Len(a) : l[j] = a[j]
      OBVIOUS
    <3> HIDE DEF l
    <3>2. \A j, n \in 1..(Len(a) + 1) : l[j] = l[n] => j = n
      BY <2>3, <3>1 DEF IsInjective
    <3>3. \A j \in 1..Len(a) : j \in 1..(Len(a) + 1) /\ Len(a) + 1 \in 1..(Len(a) + 1)
                               /\ j # Len(a) + 1
      BY <3>1
    <3>4. IsInjective(a)
      BY <3>1, <3>2, <3>3 DEF IsInjective
    <3>5. \A j \in 1..Len(a) : a[j] # e
      BY <3>1, <3>2, <3>3
    <3> QED BY <3>1, <3>4, <3>5 DEF ToSet
  <2>4. ASSUME NEW b \in Seq(E), IsInjective(l), IsInjective(b), ToSet(l) = ToSet(b)
        PROVE  SumOf(l, weight) = SumOf(b, weight)
    <3> DEFINE c == KeepIn(b, E \ {e})
    <3>1. c \in Seq(E) /\ IsInjective(c) /\ ToSet(c) = ToSet(b) \cap (E \ {e})
      BY <2>4, KeepIsSeq, KeepOnce, KeepSet
    <3>2. e \in ToSet(b)
      BY <2>1, <2>4
    <3>3. SumOf(b, weight) = weight[e] + SumOf(c, weight)
      BY <1>0, <2>4, <3>2
    <3>4. ToSet(a) \subseteq E
      BY DEF ToSet
    <3> HIDE DEF c, l
    <3>5. IsInjective(a) /\ e \notin ToSet(a)
      BY <2>3, <2>4
    <3>6. ToSet(a) = ToSet(c)
      BY <2>1, <2>4, <3>1, <3>4, <3>5
    <3>7. SumOf(a, weight) = SumOf(c, weight)
      BY <1>2, <3>1, <3>5, <3>6
    <3>8. SumOf(a, weight) \in Nat /\ weight[e] \in Nat
      BY SumIsNat
    <3> QED BY <2>2, <3>3, <3>7, <3>8
  <2> QED BY <2>1, <2>4
<1>3. s \in P
  <2> HIDE DEF P
  <2> QED BY <1>1, <1>2, SequenceSetInduction
<1> QED BY <1>3

\* If the weight of one element changes, the sum changes by as much.
LEMMA SumReweighed ==
    ASSUME NEW E, NEW s \in Seq(E), IsInjective(s), NEW e \in ToSet(s), NEW weight \in [E -> Nat],
           NEW w \in [E -> Nat], \A x \in E : x # e => w[x] = weight[x]
    PROVE  SumOf(s, w) + weight[e] = SumOf(s, weight) + w[e]
<1> DEFINE rest == KeepIn(s, E \ {e})
<1>1. e \in E
  BY DEF ToSet
<1>2. w \in [E -> Nat] /\ \A x \in E : x # e => w[x] = weight[x]
  OBVIOUS
<1>3. rest \in Seq(E) /\ ToSet(rest) = ToSet(s) \cap (E \ {e})
  BY KeepIsSeq, KeepSet
<1>4. ASSUME NEW v \in [E -> Nat] PROVE SumOf(s, v) = v[e] + SumOf(rest, v)
  <2>1. \A b \in Seq(E) : IsInjective(b) =>
           \A x \in ToSet(b) : SumOf(b, v) = v[x] + SumOf(KeepIn(b, E \ {x}), v)
    BY SumWithout
  <2> QED BY <2>1
<1> HIDE DEF rest
<1>5. SumOf(rest, w) = SumOf(rest, weight)
  <2> DEFINE Q(a) == e \notin ToSet(a) => SumOf(a, w) = SumOf(a, weight)
             P == {a \in Seq(E) : Q(a)}
  <2>1. <<>> \in P
    <3>1. SumOf(<<>>, w) = 0 /\ SumOf(<<>>, weight) = 0
      BY <1>2, SumEmpty
    <3> QED BY <3>1
  <2>2. ASSUME NEW a \in Seq(E), NEW x \in E, a \in P PROVE Append(a, x) \in P
    <3>1. ToSet(Append(a, x)) = ToSet(a) \cup {x}
      BY AppendOnce
    <3>2. /\ SumOf(Append(a, x), w) = SumOf(a, w) + w[x]
          /\ SumOf(Append(a, x), weight) = SumOf(a, weight) + weight[x]
      BY <1>2, SumAppend
    <3> QED BY <1>2, <2>2, <3>1, <3>2
  <2>3. rest \in P
    <3> HIDE DEF P
    <3> QED BY <1>3, <2>1, <2>2, SequenceSetInduction
  <2> QED BY <1>3, <2>3
<1>6. SumOf(rest, weight) \in Nat /\ weight[e] \in Nat /\ w[e] \in Nat
  BY <1>1, <1>3, SumIsNat
<1>7. /\ SumOf(s, w) = w[e] + SumOf(rest, w)
      /\ SumOf(s, weight) = weight[e] + SumOf(rest, weight)
  BY <1>2, <1>4
<1> QED BY <1>5, <1>6, <1>7

\* The smaller of two numbers.
LEMMA MinOfTwo ==
    ASSUME NEW a \in Nat, NEW b \in Nat
    PROVE  /\ Min({a, b}) \in Nat /\ Min({a, b}) <= a /\ Min({a, b}) <= b
           /\ Min({a, b}) = a \/ Min({a, b}) = b
<1>1. {a, b} \in SUBSET (0..(a + b)) /\ {a, b} # {}
  OBVIOUS
<1>2. Min({a, b}) \in {a, b} /\ \A x \in {a, b} : Min({a, b}) <= x
  <2> DEFINE S == {a, b}
             n == a + b
  <2>1. n \in Nat /\ S \in SUBSET (0..n) /\ S # {}
    BY <1>1
  <2> HIDE DEF S, n
  <2>2. Min(S) \in S /\ \A x \in S : Min(S) <= x
    BY <2>1, BoundedMin
  <2> QED BY <2>2 DEF S
<1> QED BY <1>2

-----------------------------------------------------------------------------
(* Sequences joined, and reordered *)

\* What has been joined after each sequence.
Joined(seqs, h) == /\ DOMAIN h = 0..Len(seqs)
                   /\ h[0] = <<>>
                   /\ \A k \in 1..Len(seqs) : h[k] = h[k - 1] \o seqs[k]

\* FlattenSeq goes from one sequence to the next.
LEMMA FlattenIsJoined ==
    ASSUME NEW E, NEW seqs \in Seq(Seq(E))
    PROVE  \E h \in [0..Len(seqs) -> Seq(E)] : Joined(seqs, h) /\ FlattenSeq(seqs) = h[Len(seqs)]
<1> DEFINE n == Len(seqs)
           F == [k \in 1..n |-> [a \in Seq(E) |-> a \o seqs[k]]]
           flat == CHOOSE f : f = [k \in 1..n |-> IF k = 1 THEN seqs[k] ELSE f[k - 1] \o seqs[k]]
<1>1. n \in Nat /\ (\A k \in 1..n : seqs[k] \in Seq(E)) /\ <<>> \in Seq(E)
  OBVIOUS
<1>2. F \in [1..n -> [Seq(E) -> Seq(E)]]
  BY <1>1
<1>3. PICK h : Steps(Seq(E), <<>>, n, F, h)
  <2> HIDE DEF F, n
  <2> QED BY <1>1, <1>2, StepsExist
<1>4. h \in [0..n -> Seq(E)] /\ h[0] = <<>> /\ \A k \in 1..n : h[k] = F[k][h[k - 1]]
  BY <1>3 DEF Steps
<1> HIDE DEF n
<1>5. \A k \in 1..n : k - 1 \in 0..n /\ h[k - 1] \in Seq(E) /\ h[k] = h[k - 1] \o seqs[k]
  <2> SUFFICES ASSUME NEW k \in 1..n
               PROVE  k - 1 \in 0..n /\ h[k - 1] \in Seq(E) /\ h[k] = h[k - 1] \o seqs[k]
    OBVIOUS
  <2>1. k - 1 \in 0..n /\ h[k - 1] \in Seq(E)
    BY <1>1, <1>4
  <2>2. F[k][h[k - 1]] = h[k - 1] \o seqs[k]
    BY <2>1
  <2> QED BY <1>4, <2>1, <2>2
<1> HIDE DEF F
<1>6. Joined(seqs, h)
  BY <1>4, <1>5 DEF Joined, n
<1>7. CASE n = 0
  <2>1. FlattenSeq(seqs) = seqs /\ seqs = <<>>
    BY <1>7 DEF FlattenSeq, n
  <2> QED BY <1>4, <1>6, <1>7, <2>1 DEF n
<1>8. CASE n # 0
  <2>1. FlattenSeq(seqs) = flat[n]
    BY <1>8 DEF FlattenSeq, n
  <2> DEFINE g == [k \in 1..n |-> h[k]]
  <2>2. g = [k \in 1..n |-> IF k = 1 THEN seqs[k] ELSE g[k - 1] \o seqs[k]]
    <3>1. ASSUME NEW k \in 1..n
          PROVE  h[k] = IF k = 1 THEN seqs[k] ELSE g[k - 1] \o seqs[k]
      <4>1. CASE k = 1
        <5>1. <<>> \o seqs[1] = seqs[1]
          BY <1>1, <4>1
        <5>2. h[k] = h[k - 1] \o seqs[k]
          BY <1>5
        <5>3. h[1] = h[0] \o seqs[1]
          <6>1. k - 1 = 0
            BY <4>1
          <6> QED BY <4>1, <5>2, <6>1
        <5> QED BY <1>4, <4>1, <5>1, <5>3
      <4>2. CASE k # 1
        <5>1. k - 1 \in 1..n
          BY <1>1, <4>2
        <5> QED BY <1>5, <4>2, <5>1
      <4> QED BY <4>1, <4>2
    <3> HIDE DEF n
    <3> QED BY <3>1
  <2>3. flat = [k \in 1..n |-> IF k = 1 THEN seqs[k] ELSE flat[k - 1] \o seqs[k]]
    <3> HIDE DEF g, n
    <3> QED BY <2>2
  <2> HIDE DEF flat
  <2> DEFINE U == {k \in Nat : k + 1 <= n => flat[k + 1] = h[k + 1]}
  <2>4. 0 \in U
    <3>1. flat[1] = seqs[1]
      <4>1. 1 \in 1..n
        BY <1>1, <1>8
      <4> HIDE DEF n
      <4> QED BY <2>3, <4>1
    <3>2. <<>> \o seqs[1] = seqs[1] /\ h[1] = h[0] \o seqs[1]
      <4>1. 1 \in 1..n /\ 1 - 1 = 0
        BY <1>1, <1>8
      <4>2. h[1] = h[1 - 1] \o seqs[1]
        BY <1>5, <4>1
      <4> QED BY <1>1, <4>1, <4>2
    <3>3. 0 + 1 = 1
      OBVIOUS
    <3> QED BY <1>4, <3>1, <3>2, <3>3
  <2>5. ASSUME NEW k \in Nat, k \in U PROVE k + 1 \in U
    <3> SUFFICES ASSUME (k + 1) + 1 <= n PROVE flat[(k + 1) + 1] = h[(k + 1) + 1]
      BY <2>5
    <3> DEFINE m == (k + 1) + 1
    <3>1. m \in 1..n /\ m # 1 /\ m - 1 = k + 1 /\ k + 1 <= n
      BY <1>1
    <3>2. flat[m - 1] = h[m - 1]
      BY <2>5, <3>1
    <3> HIDE DEF m, n
    <3>3. flat[m] = flat[m - 1] \o seqs[m]
      BY <2>3, <3>1
    <3>4. h[m] = h[m - 1] \o seqs[m]
      BY <1>5, <3>1
    <3> QED BY <3>2, <3>3, <3>4 DEF m
  <2>6. \A k \in Nat : k \in U
    <3> HIDE DEF U
    <3> QED BY <2>4, <2>5, SetInduction
  <2>7. flat[n] = h[n]
    <3>1. n - 1 \in Nat /\ (n - 1) + 1 = n /\ n <= n
      BY <1>1, <1>8
    <3>2. n - 1 \in U
      BY <2>6, <3>1
    <3> HIDE DEF n
    <3> QED BY <3>1, <3>2
  <2> QED BY <1>4, <1>6, <2>1, <2>7 DEF n
<1> QED BY <1>7, <1>8

\* Nothing joined is nothing.
LEMMA FlattenEmpty == FlattenSeq(<<>>) = <<>>
  BY DEF FlattenSeq

\* A sequence more is joined at the end.
LEMMA FlattenAppend ==
    ASSUME NEW E, NEW seqs \in Seq(Seq(E)), NEW s \in Seq(E)
    PROVE  /\ FlattenSeq(seqs) \in Seq(E)
           /\ FlattenSeq(Append(seqs, s)) = FlattenSeq(seqs) \o s
<1> DEFINE n == Len(seqs)
           more == Append(seqs, s)
<1>0. n \in Nat
  OBVIOUS
<1>1. /\ n \in Nat /\ more \in Seq(Seq(E)) /\ Len(more) = n + 1 /\ more[n + 1] = s
      /\ \A k \in 1..n : more[k] = seqs[k]
  OBVIOUS
<1>2. PICK g \in [0..n -> Seq(E)] : Joined(seqs, g) /\ FlattenSeq(seqs) = g[n]
  BY FlattenIsJoined
<1> HIDE DEF more
<1>3. PICK h \in [0..(n + 1) -> Seq(E)] : Joined(more, h) /\ FlattenSeq(more) = h[n + 1]
  <2>1. PICK h \in [0..Len(more) -> Seq(E)] : Joined(more, h) /\ FlattenSeq(more) = h[Len(more)]
    BY <1>1, FlattenIsJoined
  <2> QED BY <1>1, <2>1
<1>4. g[0] = <<>> /\ \A k \in 1..n : g[k] = g[k - 1] \o seqs[k]
  BY <1>2 DEF Joined
<1>5. h[0] = <<>> /\ \A k \in 1..(n + 1) : h[k] = h[k - 1] \o more[k]
  BY <1>1, <1>3 DEF Joined
<1> HIDE DEF n
<1> DEFINE U == {k \in Nat : k <= n => g[k] = h[k]}
<1>6. 0 \in U
  BY <1>4, <1>5
<1>7. ASSUME NEW k \in Nat, k \in U PROVE k + 1 \in U
  <2> SUFFICES ASSUME k + 1 <= n PROVE g[k + 1] = h[k + 1]
    BY <1>7
  <2>1. k + 1 \in 1..n /\ k + 1 \in 1..(n + 1) /\ (k + 1) - 1 = k /\ k <= n
    BY <1>1
  <2>2. g[k + 1] = g[k] \o seqs[k + 1] /\ h[k + 1] = h[k] \o more[k + 1]
    BY <1>4, <1>5, <2>1
  <2> QED BY <1>1, <1>7, <2>1, <2>2
<1>8. \A k \in Nat : k \in U
  <2> HIDE DEF U
  <2> QED BY <1>6, <1>7, SetInduction
<1>9. g[n] = h[n]
  <2>1. n \in U
    BY <1>1, <1>8
  <2> QED BY <1>1, <2>1
<1>10. h[n + 1] = h[n] \o s
  <2>1. n + 1 \in 1..(n + 1) /\ (n + 1) - 1 = n
    BY <1>0
  <2> QED BY <1>1, <1>5, <2>1
<1>11. n \in 0..n
  BY <1>0
<1> QED BY <1>2, <1>3, <1>9, <1>10, <1>11 DEF more

\* What sequences joined are made of.
LEMMA FlattenElements ==
    ASSUME NEW E, NEW seqs \in Seq(Seq(E))
    PROVE  /\ FlattenSeq(seqs) \in Seq(E)
           /\ ToSet(FlattenSeq(seqs)) = UNION {ToSet(r) : r \in ToSet(seqs)}
<1> DEFINE Q(a) == /\ FlattenSeq(a) \in Seq(E)
                   /\ ToSet(FlattenSeq(a)) = UNION {ToSet(r) : r \in ToSet(a)}
           P == {a \in Seq(Seq(E)) : Q(a)}
<1>1. <<>> \in P
  <2>1. <<>> \in Seq(Seq(E)) /\ <<>> \in Seq(E) /\ ToSet(<<>>) = {}
    BY DEF ToSet
  <2> QED BY <2>1, FlattenEmpty
<1>2. ASSUME NEW a \in Seq(Seq(E)), NEW s \in Seq(E), a \in P PROVE Append(a, s) \in P
  <2> DEFINE f == FlattenSeq(a)
             b == Append(a, s)
  <2>1. f \in Seq(E) /\ ToSet(f) = UNION {ToSet(r) : r \in ToSet(a)}
    BY <1>2
  <2>2. b \in Seq(Seq(E)) /\ ToSet(b) = ToSet(a) \cup {s}
    BY AppendOnce
  <2>3. FlattenSeq(b) = f \o s
    BY FlattenAppend
  <2> HIDE DEF f, b
  <2>4. f \o s \in Seq(E) /\ ToSet(f \o s) = ToSet(f) \cup ToSet(s)
    <3> DEFINE c == f \o s
    <3>1. /\ c \in Seq(E) /\ Len(c) = Len(f) + Len(s) /\ Len(f) \in Nat /\ Len(s) \in Nat
          /\ \A j \in 1..Len(f) : c[j] = f[j]
          /\ \A j \in 1..Len(s) : c[Len(f) + j] = s[j]
      BY <2>1
    <3>2. DOMAIN c = 1..Len(c) /\ DOMAIN f = 1..Len(f) /\ DOMAIN s = 1..Len(s)
      BY <2>1, <3>1
    <3> HIDE DEF c
    <3>3. ASSUME NEW x \in ToSet(c) PROVE x \in ToSet(f) \cup ToSet(s)
      <4>1. PICK j \in 1..Len(c) : x = c[j]
        BY <3>2 DEF ToSet
      <4>2. CASE j \in 1..Len(f)
        BY <3>1, <3>2, <4>1, <4>2 DEF ToSet
      <4>3. CASE j \notin 1..Len(f)
        <5>1. j - Len(f) \in 1..Len(s) /\ Len(f) + (j - Len(f)) = j
          BY <3>1, <4>1, <4>3
        <5>2. c[j] = s[j - Len(f)]
          BY <3>1, <5>1
        <5> QED BY <3>2, <4>1, <5>1, <5>2 DEF ToSet
      <4> QED BY <4>2, <4>3
    <3>4. ASSUME NEW x \in ToSet(f) PROVE x \in ToSet(c)
      <4>1. PICK j \in 1..Len(f) : x = f[j]
        BY <3>2 DEF ToSet
      <4>2. j \in 1..Len(c) /\ c[j] = x
        BY <3>1, <4>1
      <4> QED BY <3>2, <4>2 DEF ToSet
    <3>5. ASSUME NEW x \in ToSet(s) PROVE x \in ToSet(c)
      <4>1. PICK j \in 1..Len(s) : x = s[j]
        BY <3>2 DEF ToSet
      <4>2. Len(f) + j \in 1..Len(c) /\ c[Len(f) + j] = x
        BY <3>1, <4>1
      <4> QED BY <3>2, <4>2 DEF ToSet
    <3>6. ToSet(c) = ToSet(f) \cup ToSet(s)
      BY <3>3, <3>4, <3>5
    <3> QED BY <3>1, <3>6 DEF c
  <2>5. UNION {ToSet(r) : r \in ToSet(b)} = (UNION {ToSet(r) : r \in ToSet(a)}) \cup ToSet(s)
    BY <2>2
  <2>6. FlattenSeq(b) \in Seq(E) /\ ToSet(FlattenSeq(b)) = UNION {ToSet(r) : r \in ToSet(b)}
    BY <2>1, <2>3, <2>4, <2>5
  <2> QED BY <2>2, <2>6 DEF b
<1>3. seqs \in P
  <2> HIDE DEF P
  <2> QED BY <1>1, <1>2, SequenceSetInduction
<1> QED BY <1>3

\* A sequence in another order has the same elements, and repeats none it did not.
LEMMA Reordered ==
    ASSUME NEW E, NEW s \in Seq(E), NEW p \in SetToSeqs(DOMAIN s)
    PROVE  LET o == [k \in DOMAIN s |-> s[p[k]]] IN
           /\ o \in Seq(E)
           /\ ToSet(o) = ToSet(s)
           /\ IsInjective(s) => IsInjective(o)
<1> DEFINE n == Len(s)
           o == [k \in DOMAIN s |-> s[p[k]]]
<1>1. n \in Nat /\ DOMAIN s = 1..n
  OBVIOUS
<1>2. IsFiniteSet(1..n) /\ Cardinality(1..n) = n
  <2>1. Cardinality(1..n) = IF 1 > n THEN 0 ELSE n - 1 + 1
    BY <1>1, FS_Interval
  <2>2. IsFiniteSet(1..n)
    BY <1>1, FS_Interval
  <2> QED BY <1>1, <2>1, <2>2
<1>3. IsInjective(p) /\ ToSet(p) = DOMAIN s
  BY <1>1, <1>2, AllListed
<1>4. p \in [1..n -> 1..n]
  BY <1>1, <1>2 DEF SetToSeqs
<1> HIDE DEF n
<1>5. DOMAIN o = 1..n /\ \A k \in 1..n : o[k] = s[p[k]] /\ p[k] \in 1..n /\ s[p[k]] \in E
  BY <1>1, <1>4
<1>6. o \in Seq(E)
  <2>1. o \in [1..n -> E]
    BY <1>1, <1>5
  <2> QED BY <1>1, <2>1
<1> HIDE DEF o
<1>7. ToSet(o) = ToSet(s)
  <2>1. \A x \in 1..n : \E k \in 1..n : p[k] = x
    BY <1>1, <1>3, <1>4 DEF ToSet
  <2>2. ToSet(o) \subseteq ToSet(s)
    BY <1>1, <1>5 DEF ToSet
  <2>3. ASSUME NEW x \in ToSet(s) PROVE x \in ToSet(o)
    <3>1. PICK m \in 1..n : x = s[m]
      BY <1>1 DEF ToSet
    <3>2. PICK k \in 1..n : p[k] = m
      BY <2>1
    <3> QED BY <1>5, <3>1, <3>2 DEF ToSet
  <2> QED BY <2>2, <2>3
<1>8. ASSUME IsInjective(s) PROVE IsInjective(o)
  <2>1. ASSUME NEW k \in 1..n, NEW m \in 1..n, o[k] = o[m] PROVE k = m
    <3>1. p[k] = p[m]
      BY <1>1, <1>5, <1>8, <2>1 DEF IsInjective
    <3> QED BY <1>3, <1>4, <3>1 DEF IsInjective
  <2> QED BY <1>5, <2>1 DEF IsInjective
<1> QED BY <1>6, <1>7, <1>8 DEF o

\* What is kept stays in order.
LEMMA KeepOrder ==
    ASSUME NEW E, NEW s \in Seq(E), NEW T, NEW a \in Nat \ {0}, NEW b \in Nat, a < b,
           b <= Len(KeepIn(s, T))
    PROVE  \E p \in 1..Len(s), q \in 1..Len(s) :
              p < q /\ s[p] = KeepIn(s, T)[a] /\ s[q] = KeepIn(s, T)[b]
<1> DEFINE Q(r) == b <= Len(KeepIn(r, T)) =>
                      \E p \in 1..Len(r), q \in 1..Len(r) :
                         p < q /\ r[p] = KeepIn(r, T)[a] /\ r[q] = KeepIn(r, T)[b]
           P == {r \in Seq(E) : Q(r)}
<1>1. <<>> \in P
  <2>1. <<>> \in Seq(E) /\ Len(<<>>) = 0
    OBVIOUS
  <2>2. Len(KeepIn(<<>>, T)) = 0
    BY <2>1, KeepEmpty
  <2>3. ~(b <= Len(KeepIn(<<>>, T)))
    BY <2>2
  <2> QED BY <2>1, <2>3
<1>2. ASSUME NEW r \in Seq(E), NEW e \in E, r \in P PROVE Append(r, e) \in P
  <2> DEFINE old == KeepIn(r, T)
             more == Append(r, e)
             new == KeepIn(more, T)
  <2>1. old \in Seq(E) /\ ToSet(old) \subseteq ToSet(r)
    BY KeepIsSeq, KeepSet
  <2>2. new = IF e \in T THEN Append(old, e) ELSE old
    BY KeepAppend
  <2>3. /\ more \in Seq(E) /\ Len(more) = Len(r) + 1 /\ Len(r) \in Nat /\ more[Len(r) + 1] = e
        /\ \A p \in 1..Len(r) : more[p] = r[p] /\ p \in 1..Len(more)
    OBVIOUS
  <2>4. b <= Len(old) => \E p \in 1..Len(r), q \in 1..Len(r) : p < q /\ r[p] = old[a] /\ r[q] = old[b]
    BY <1>2
  <2> HIDE DEF old, more, new
  <2>5. ASSUME b <= Len(new)
        PROVE  \E p \in 1..Len(more), q \in 1..Len(more) : p < q /\ more[p] = new[a] /\ more[q] = new[b]
    <3>1. CASE b <= Len(old)
      <4>1. new[a] = old[a] /\ new[b] = old[b]
        BY <2>1, <2>2, <3>1
      <4>2. PICK p \in 1..Len(r), q \in 1..Len(r) : p < q /\ r[p] = old[a] /\ r[q] = old[b]
        BY <2>4, <3>1
      <4> QED BY <2>3, <4>1, <4>2
    <3>2. CASE b > Len(old)
      <4>1. new = Append(old, e) /\ b = Len(old) + 1
        BY <2>1, <2>2, <2>5, <3>2
      <4>2. a \in 1..Len(old) /\ new[a] = old[a] /\ new[b] = e
        BY <2>1, <4>1
      <4>3. old[a] \in ToSet(r)
        <5>1. a \in DOMAIN old
          BY <2>1, <4>2
        <5>2. old[a] \in ToSet(old)
          BY <5>1 DEF ToSet
        <5> QED BY <2>1, <5>2
      <4>4. PICK p \in 1..Len(r) : r[p] = old[a]
        BY <4>3 DEF ToSet
      <4>5. p < Len(r) + 1 /\ Len(r) + 1 \in 1..Len(more) /\ p \in 1..Len(more)
        BY <2>3, <4>4
      <4> QED BY <2>3, <4>2, <4>4, <4>5
    <3>3. b <= Len(old) \/ b > Len(old)
      BY <2>1
    <3> QED BY <3>1, <3>2, <3>3
  <2> QED BY <2>3, <2>5 DEF more, new
<1>3. s \in P
  <2> HIDE DEF P
  <2> QED BY <1>1, <1>2, SequenceSetInduction
<1> QED BY <1>3

\* Each sequence holds one element, however often.
OneEach(seqs, key) == \A k \in 1..Len(seqs) : \A d \in 1..Len(seqs[k]) : seqs[k][d] = key[k]

\* The elements are those of the first n keys, in the order of these.
InOrderOf(s, key, n) ==
    \A a \in 1..Len(s), b \in 1..Len(s) : a <= b =>
       \E p \in 1..n, q \in 1..n : p <= q /\ s[a] = key[p] /\ s[b] = key[q]

\* If the sequences joined hold one element each, the whole is in their order.
LEMMA JoinedInOrder ==
    ASSUME NEW E, NEW seqs \in Seq(Seq(E)), NEW key, OneEach(seqs, key)
    PROVE  InOrderOf(FlattenSeq(seqs), key, Len(seqs))
<1>1. PICK h \in [0..Len(seqs) -> Seq(E)] : Joined(seqs, h) /\ FlattenSeq(seqs) = h[Len(seqs)]
  BY FlattenIsJoined
<1> DEFINE U == {n \in Nat : n <= Len(seqs) => InOrderOf(h[n], key, n)}
<1>2. Len(seqs) \in Nat /\ \A k \in 1..Len(seqs) : seqs[k] \in Seq(E)
  OBVIOUS
<1>3. 0 \in U
  <2>1. h[0] = <<>>
    BY <1>1 DEF Joined
  <2>2. 1..Len(h[0]) = {}
    BY <2>1
  <2> QED BY <2>2 DEF InOrderOf
<1>4. ASSUME NEW n \in Nat, n \in U PROVE n + 1 \in U
  <2> SUFFICES ASSUME n + 1 <= Len(seqs) PROVE InOrderOf(h[n + 1], key, n + 1)
    OBVIOUS
  <2> DEFINE x == h[n]
             y == seqs[n + 1]
             z == h[n + 1]
  <2>1. n + 1 \in 1..Len(seqs) /\ (n + 1) - 1 = n /\ n <= Len(seqs) /\ n \in 0..Len(seqs)
    BY <1>2
  <2>2. x \in Seq(E) /\ y \in Seq(E) /\ z = x \o y
    BY <1>1, <1>2, <2>1 DEF Joined
  <2>3. \A j \in 1..Len(x), m \in 1..Len(x) : j <= m =>
           \E p \in 1..n, q \in 1..n : p <= q /\ x[j] = key[p] /\ x[m] = key[q]
    BY <1>4, <2>1 DEF InOrderOf
  <2>4. \A d \in 1..Len(y) : y[d] = key[n + 1]
    BY <2>1 DEF OneEach
  <2> HIDE DEF x, y, z
  <2>5. Len(z) = Len(x) + Len(y) /\ Len(x) \in Nat /\ Len(y) \in Nat
    BY <2>2
  <2>6. \A j \in 1..Len(z) : \/ j \in 1..Len(x) /\ z[j] = x[j]
                             \/ j > Len(x) /\ z[j] = key[n + 1]
    <3> SUFFICES ASSUME NEW j \in 1..Len(z), ~(j \in 1..Len(x)) PROVE j > Len(x) /\ z[j] = key[n + 1]
      BY <2>2, <2>5
    <3>1. j - Len(x) \in 1..Len(y) /\ j = Len(x) + (j - Len(x)) /\ j > Len(x)
      BY <2>5
    <3>2. z[j] = y[j - Len(x)]
      BY <2>2, <3>1
    <3> QED BY <2>4, <3>1, <3>2
  <2>7. ASSUME NEW j \in 1..Len(z), NEW m \in 1..Len(z), j <= m
        PROVE  \E p \in 1..(n + 1), q \in 1..(n + 1) : p <= q /\ z[j] = key[p] /\ z[m] = key[q]
    <3>0. \A p \in 1..n : p \in 1..(n + 1) /\ p <= n + 1
      OBVIOUS
    <3>1. CASE m \in 1..Len(x) /\ z[m] = x[m]
      <4>1. j \in 1..Len(x) /\ z[j] = x[j]
        BY <2>5, <2>6, <2>7, <3>1
      <4>2. PICK p \in 1..n, q \in 1..n : p <= q /\ x[j] = key[p] /\ x[m] = key[q]
        BY <2>3, <2>7, <3>1, <4>1
      <4> QED BY <3>0, <3>1, <4>1, <4>2
    <3>2. CASE m > Len(x) /\ z[m] = key[n + 1]
      <4>0. n + 1 \in 1..(n + 1) /\ n + 1 <= n + 1
        OBVIOUS
      <4>1. CASE j \in 1..Len(x) /\ z[j] = x[j]
        <5>1. PICK p \in 1..n : x[j] = key[p]
          <6>1. j <= j
            OBVIOUS
          <6> QED BY <2>3, <4>1, <6>1
        <5> QED BY <3>0, <3>2, <4>0, <4>1, <5>1
      <4>2. CASE z[j] = key[n + 1]
        BY <3>2, <4>0, <4>2
      <4> QED BY <2>6, <4>1, <4>2
    <3> QED BY <2>6, <3>1, <3>2
  <2> QED BY <2>7 DEF z, InOrderOf
<1>5. InOrderOf(h[Len(seqs)], key, Len(seqs))
  <2>1. \A n \in Nat : n \in U
    <3> HIDE DEF U
    <3> QED BY <1>3, <1>4, SetInduction
  <2> QED BY <1>2, <2>1
<1> QED BY <1>1, <1>5
=============================================================================
