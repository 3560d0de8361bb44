---------------------------- MODULE InductionFacts -----------------------------
(***************************************************************************)
(* Facts about data that the proofs of the other modules rest on.  The     *)
(* induction theorems of the library take an operator as a parameter, which*)
(* no prover here can instantiate; these take a set or a function, and are *)
(* proved from the well-foundedness of the natural numbers:                *)
(*   - induction over numbers and over the parts of a finite set;          *)
(*   - the existence of functions defined by recursion;                    *)
(*   - sums over finite sets;                                              *)
(*   - sorting.                                                            *)
(***************************************************************************)
EXTENDS Sorting, SequencesExt, FiniteSetTheorems, WellFoundedInduction, TLAPS

-------------------------------------------------------------------------------
(* Induction and recursion.                                                *)

\* A set of numbers that has 0, and with every number the next one, has all.
LEMMA NatSet ==
    ASSUME NEW S \in SUBSET Nat, 0 \in S, \A n \in S : n + 1 \in S
    PROVE  S = Nat
<1> DEFINE T == Nat \ S
<1> SUFFICES ASSUME T # {} PROVE FALSE
  OBVIOUS
<1>1. PICK x \in T : \A y \in T : <<y, x>> \notin OpToRel(<, Nat)
  BY NatLessThanWellFounded, WFMin, Zenon
<1>2. x \in Nat /\ x # 0 /\ x - 1 \in Nat
  OBVIOUS
<1>3. <<x - 1, x>> \in OpToRel(<, Nat)
  BY <1>2 DEF OpToRel
<1>4. x - 1 \in S
  BY <1>1, <1>2, <1>3
<1> QED
  BY <1>2, <1>4

\* The iteration of a step from c, in V throughout.
Steps(V) == [V \X Nat -> V]
Iteration(f, V, c, step) ==
    /\ f \in [Nat -> V]
    /\ f[0] = c
    /\ \A n \in Nat : f[n + 1] = step[<<f[n], n>>]

\* Every step can be iterated.
LEMMA Iterates ==
    ASSUME NEW V, NEW c \in V, NEW step \in Steps(V)
    PROVE  \E f : Iteration(f, V, c, step)
<1> USE DEF Steps
<1> DEFINE Part(n) == {g \in [0..n -> V] :
                        g[0] = c /\ \A k \in 0..(n - 1) : g[k + 1] = step[<<g[k], k>>]}
<1>1. \A n \in Nat : Part(n) # {}
  <2> DEFINE S == {n \in Nat : Part(n) # {}}
  <2>1. 0 \in S
    <3>1. [k \in 0..0 |-> c] \in Part(0)
      OBVIOUS
    <3> QED
      BY <3>1
  <2>2. ASSUME NEW n \in S PROVE n + 1 \in S
    <3>1. PICK g : g \in Part(n)
      BY <2>2
    <3>a. n \in Nat /\ g \in [0..n -> V] /\ g[0] = c
      BY <3>1
    <3>b. \A k \in 0..(n - 1) : g[k + 1] = step[<<g[k], k>>]
      BY <3>1
    <3> DEFINE x == step[<<g[n], n>>]
               h == [k \in 0..(n + 1) |-> IF k = n + 1 THEN x ELSE g[k]]
    <3>c. x \in V
      BY <3>a
    <3> HIDE DEF x
    <3>2. h \in [0..(n + 1) -> V]
      BY <3>a, <3>c
    <3>d. h[n + 1] = x
      BY <3>a
    <3>e. \A k \in 0..n : h[k] = g[k]
      BY <3>a
    <3>3. h[0] = c
      BY <3>a, <3>e
    <3> HIDE DEF h
    <3>4. ASSUME NEW k \in 0..n PROVE h[k + 1] = step[<<h[k], k>>]
      <4>1. CASE k = n
        <5>1. h[k] = g[n] /\ h[k + 1] = x
          BY <3>d, <3>e, <4>1
        <5> QED
          BY <5>1, <4>1 DEF x
      <4>2. CASE k # n
        <5>1. k \in 0..(n - 1) /\ k + 1 \in 0..n
          BY <3>a, <4>2
        <5>2. h[k] = g[k] /\ h[k + 1] = g[k + 1]
          BY <3>e, <5>1
        <5> QED
          BY <3>b, <5>1, <5>2
      <4> QED
        BY <4>1, <4>2
    <3>5. h \in Part(n + 1)
      <4>1. 0..((n + 1) - 1) = 0..n
        BY <3>a
      <4> QED
        BY <3>2, <3>3, <3>4, <4>1
    <3> HIDE DEF Part
    <3> QED
      BY <3>a, <3>5
  <2> HIDE DEF Part
  <2>3. S = Nat
    <3> HIDE DEF S
    <3>1. S \in SUBSET Nat
      BY DEF S
    <3> QED
      BY <2>1, <2>2, <3>1, NatSet
  <2> QED
    BY <2>3
<1>2. ASSUME NEW n \in Nat, NEW m \in Nat, NEW g \in Part(n), NEW h \in Part(m)
      PROVE  \A k \in Nat : k <= n /\ k <= m => g[k] = h[k]
  <2> DEFINE S == {k \in Nat : k <= n /\ k <= m => g[k] = h[k]}
  <2>1. 0 \in S
    OBVIOUS
  <2>2. ASSUME NEW k \in S PROVE k + 1 \in S
    <3>1. CASE k + 1 <= n /\ k + 1 <= m
      <4>1. k \in 0..(n - 1) /\ k \in 0..(m - 1) /\ g[k] = h[k]
        BY <3>1, <2>2
      <4>2. g[k + 1] = step[<<g[k], k>>] /\ h[k + 1] = step[<<h[k], k>>]
        BY <4>1
      <4> QED
        BY <4>1, <4>2
    <3> QED
      BY <3>1
  <2>3. S = Nat
    BY <2>1, <2>2, NatSet
  <2> QED
    BY <2>3
<1> DEFINE pick(n) == CHOOSE g : g \in Part(n)
           f == [n \in Nat |-> pick(n)[n]]
<1> HIDE DEF Part
<1>3. \A n \in Nat : pick(n) \in Part(n)
  BY <1>1
<1> HIDE DEF pick
<1>4. f \in [Nat -> V]
  <2>1. \A n \in Nat : pick(n) \in [0..n -> V]
    BY <1>3 DEF Part
  <2> QED
    BY <2>1
<1>5. f[0] = c
  <2>1. pick(0)[0] = c
    BY <1>3 DEF Part
  <2> QED
    BY <2>1
<1>6. ASSUME NEW n \in Nat PROVE f[n + 1] = step[<<f[n], n>>]
  <2>0. n + 1 \in Nat /\ n <= n + 1 /\ n <= n
    OBVIOUS
  <2>1. pick(n) \in Part(n) /\ pick(n + 1) \in Part(n + 1)
    BY <1>3, <2>0
  <2>2. pick(n + 1)[n] = pick(n)[n]
    BY <1>2, <2>0, <2>1
  <2>3. pick(n + 1)[n + 1] = step[<<pick(n + 1)[n], n>>]
    <3>1. n \in 0..((n + 1) - 1)
      OBVIOUS
    <3> QED
      BY <2>1, <3>1 DEF Part
  <2>4. f[n + 1] = pick(n + 1)[n + 1] /\ f[n] = pick(n)[n]
    BY <2>0
  <2> HIDE DEF f
  <2> QED
    BY <2>2, <2>3, <2>4
<1> HIDE DEF f
<1> QED
  BY <1>4, <1>5, <1>6 DEF Iteration

\* The powers of an integer, defined by recursion.
LEMMA Powers ==
    ASSUME NEW c \in Int, NEW P,
           P = CHOOSE d : d = [n \in Nat |-> IF n = 0 THEN 1 ELSE c * d[n - 1]]
    PROVE  P \in [Nat -> Int] /\ P[0] = 1 /\ \A n \in Nat : P[n + 1] = c * P[n]
<1> DEFINE step == [p \in Int \X Nat |-> c * p[1]]
           Rec(d) == [n \in Nat |-> IF n = 0 THEN 1 ELSE c * d[n - 1]]
<1>1. step \in Steps(Int) /\ \A x \in Int, n \in Nat : step[<<x, n>>] = c * x
  BY DEF Steps
<1>2. 1 \in Int
  OBVIOUS
<1> HIDE DEF step
<1>3. PICK F : Iteration(F, Int, 1, step)
  BY ONLY <1>1, <1>2, Iterates, Zenon
<1>4. F \in [Nat -> Int] /\ F[0] = 1 /\ \A n \in Nat : F[n + 1] = c * F[n]
  BY <1>1, <1>3 DEF Iteration
<1>5. F = Rec(F)
  <2>1. Rec(F) = [n \in Nat |-> Rec(F)[n]] /\ F = [n \in Nat |-> F[n]]
    BY <1>4
  <2>2. ASSUME NEW n \in Nat PROVE Rec(F)[n] = F[n]
    <3>1. CASE n = 0
      BY <1>4, <3>1
    <3>2. CASE n # 0
      <4>1. n - 1 \in Nat /\ (n - 1) + 1 = n
        BY <3>2
      <4>2. F[n] = c * F[n - 1]
        BY <1>4, <4>1
      <4> QED
        BY <3>2, <4>2
    <3> QED
      BY <3>1, <3>2
  <2> HIDE DEF Rec
  <2> QED
    BY <2>1, <2>2
<1>6. P = Rec(P)
  <2>1. P = CHOOSE d : d = Rec(d)
    OBVIOUS
  <2> HIDE DEF Rec
  <2> QED
    BY <1>5, <2>1
<1>7. P = [n \in Nat |-> P[n]] /\ \A n \in Nat : P[n] = IF n = 0 THEN 1 ELSE c * P[n - 1]
  <2>1. Rec(P) = [n \in Nat |-> Rec(P)[n]]
        /\ \A n \in Nat : Rec(P)[n] = IF n = 0 THEN 1 ELSE c * P[n - 1]
    OBVIOUS
  <2> HIDE DEF Rec
  <2> QED
    BY <1>6, <2>1
<1>8. P[0] = 1
  BY <1>7
<1>9. \A n \in Nat : P[n + 1] = c * P[n]
  <2> TAKE n \in Nat
  <2>1. n + 1 \in Nat /\ n + 1 # 0 /\ (n + 1) - 1 = n
    OBVIOUS
  <2> QED
    BY <1>7, <2>1
<1>10. \A n \in Nat : P[n] \in Int
  <2> DEFINE S == {n \in Nat : P[n] \in Int}
  <2>1. 0 \in S /\ \A n \in S : n + 1 \in S
    BY <1>8, <1>9
  <2>2. S \in SUBSET Nat
    OBVIOUS
  <2> HIDE DEF S
  <2>3. S = Nat
    BY <2>1, <2>2, NatSet
  <2> QED
    BY <2>3 DEF S
<1> QED
  BY <1>7, <1>8, <1>9, <1>10

\* A set of parts of a finite set that has the empty part, and every part that
\* has it without one of its elements, has all parts.
LEMMA SubsetInduction ==
    ASSUME NEW S, IsFiniteSet(S), NEW G \in SUBSET SUBSET S, {} \in G,
           \A T \in SUBSET S : \A x \in T : T \ {x} \in G => T \in G
    PROVE  S \in G
<1> DEFINE N == {n \in Nat : \A T \in SUBSET S : Cardinality(T) <= n => T \in G}
<1>1. \A T \in SUBSET S : IsFiniteSet(T) /\ Cardinality(T) \in Nat
  BY FS_Subset, FS_CardinalityType
<1>2. 0 \in N
  <2> SUFFICES ASSUME NEW T \in SUBSET S, Cardinality(T) <= 0 PROVE T \in G
    OBVIOUS
  <2>1. T = {}
    BY <1>1, FS_EmptySet
  <2> QED
    BY <2>1
<1>3. ASSUME NEW n \in N PROVE n + 1 \in N
  <2> SUFFICES ASSUME NEW T \in SUBSET S, Cardinality(T) <= n + 1 PROVE T \in G
    OBVIOUS
  <2>1. ASSUME NEW x \in T PROVE T \in G
    <3>1. Cardinality(T \ {x}) = Cardinality(T) - 1
      BY <1>1, FS_RemoveElement
    <3>2. T \ {x} \in SUBSET S /\ Cardinality(T \ {x}) <= n
      BY <1>1, <3>1
    <3>3. T \ {x} \in G
      BY <3>2
    <3> QED
      BY <3>3
  <2> QED
    BY <2>1
<1>4. N = Nat
  <2> HIDE DEF N
  <2>1. N \in SUBSET Nat
    BY DEF N
  <2> QED
    BY <1>2, <1>3, <2>1, NatSet
<1>5. S \in SUBSET S /\ Cardinality(S) <= Cardinality(S) /\ Cardinality(S) \in Nat
  BY <1>1
<1> QED
  BY <1>4, <1>5

-------------------------------------------------------------------------------
(* Sums.                                                                   *)

\* What the fold of the library makes of a sum, one element at a time.
SumStep(f, s, g) == IF s = {} THEN 0 ELSE f[CHOOSE x \in s : TRUE] + g[s \ {CHOOSE x \in s : TRUE}]

PartialSums(g, S, f) ==
    /\ g \in [SUBSET S -> Int]
    /\ \A s \in SUBSET S : g[s] = SumStep(f, s, g)

\* The recursive function in the definition of a sum exists.
LEMMA SumIter ==
    ASSUME NEW S, IsFiniteSet(S), NEW f, \A x \in S : f[x] \in Int
    PROVE  \E g : PartialSums(g, S, f) /\ SumFunctionOnSet(f, S) = g[S]
<1> DEFINE V == [SUBSET S -> Int]
           c == [s \in SUBSET S |-> 0]
           pick(s) == CHOOSE x \in s : TRUE
           next(g) == [s \in SUBSET S |-> IF s = {} THEN 0 ELSE f[pick(s)] + g[s \ {pick(s)}]]
           step == [p \in V \X Nat |-> next(p[1])]
<1>1. \A s \in SUBSET S : s # {} => pick(s) \in s
  OBVIOUS
<1> HIDE DEF pick
<1>2. \A g \in V : next(g) \in V
  <2> TAKE g \in V
  <2>1. \A s \in SUBSET S : s # {} => f[pick(s)] + g[s \ {pick(s)}] \in Int
    <3> TAKE s \in SUBSET S
    <3> HAVE s # {}
    <3>1. f[pick(s)] \in Int
      BY <1>1
    <3>2. s \ {pick(s)} \in SUBSET S
      OBVIOUS
    <3>3. g[s \ {pick(s)}] \in Int
      BY <3>2
    <3> QED
      BY <3>1, <3>3
  <2> QED
    BY <2>1
<1>3. c \in V
  OBVIOUS
<1> HIDE DEF V, next
<1>4. step \in Steps(V)
  BY <1>2 DEF Steps
<1>5. \A g \in V, n \in Nat : step[<<g, n>>] = next(g)
  OBVIOUS
<1> HIDE DEF step, c
<1>a. PICK F : Iteration(F, V, c, step)
  BY <1>3, <1>4, Iterates
<1>6. F \in [Nat -> V] /\ F[0] = c /\ \A n \in Nat : F[n + 1] = step[<<F[n], n>>]
  BY <1>a DEF Iteration
<1>7. \A n \in Nat : F[n + 1] = next(F[n])
  BY <1>5, <1>6
<1> DEFINE size(s) == Cardinality(s)
           G == [s \in SUBSET S |-> F[size(s)][s]]
<1>8. \A s \in SUBSET S : IsFiniteSet(s) /\ size(s) \in Nat
  BY FS_Subset, FS_CardinalityType
<1>9. G \in V
  BY <1>8, <1>6 DEF V
<1>10. \A s \in SUBSET S : s # {} => size(s) = size(s \ {pick(s)}) + 1
  <2> TAKE s \in SUBSET S
  <2> HAVE s # {}
  <2>1. size(s \ {pick(s)}) = size(s) - 1
    BY <1>1, <1>8, FS_RemoveElement DEF size
  <2> HIDE DEF size
  <2> QED
    BY <1>8, <2>1
<1> HIDE DEF size
<1>11. ASSUME NEW s \in SUBSET S
       PROVE  G[s] = IF s = {} THEN 0 ELSE f[pick(s)] + G[s \ {pick(s)}]
  <2>1. CASE s = {}
    <3>1. size({}) = 0
      BY FS_EmptySet DEF size
    <3> QED
      BY <3>1, <2>1, <1>6 DEF c
  <2>2. CASE s # {}
    <3>1. s \ {pick(s)} \in SUBSET S /\ size(s \ {pick(s)}) \in Nat
      BY <1>8
    <3>2. F[size(s)] = next(F[size(s \ {pick(s)})])
      BY <1>7, <1>10, <2>2, <3>1
    <3>3. F[size(s)][s] = f[pick(s)] + F[size(s \ {pick(s)})][s \ {pick(s)}]
      BY <2>2, <3>2 DEF next
    <3>4. G[s] = F[size(s)][s] /\ G[s \ {pick(s)}] = F[size(s \ {pick(s)})][s \ {pick(s)}]
      BY <3>1
    <3> HIDE DEF G
    <3> QED
      BY <2>2, <3>3, <3>4
  <2> QED
    BY <2>1, <2>2
<1> HIDE DEF G
<1> DEFINE Rec(g) == [s \in SUBSET S |-> IF s = {} THEN 0 ELSE f[CHOOSE x \in s : TRUE] + g[s \ {CHOOSE x \in s : TRUE}]]
           I == CHOOSE g : g = Rec(g)
<1>12. G = Rec(G)
  <2>1. G = [s \in SUBSET S |-> G[s]]
    BY <1>9 DEF V
  <2> QED
    BY <1>11, <2>1 DEF pick
<1>13. I = Rec(I)
  <2> HIDE DEF Rec
  <2> QED
    BY <1>12
<1>14. SumFunctionOnSet(f, S) = I[S]
  BY DEF SumFunctionOnSet, FoldFunctionOnSet, MapThenFoldSet
<1>15. \A s \in SUBSET S : I[s] = SumStep(f, s, I)
  <2> HIDE DEF I
  <2> TAKE s \in SUBSET S
  <2>1. Rec(I)[s] = SumStep(f, s, I)
    BY DEF SumStep
  <2> HIDE DEF Rec
  <2> QED
    BY <1>13, <2>1
<1>16. I \in [SUBSET S -> Int]
  <2> DEFINE Agree == {n \in Nat : \A s \in SUBSET S : size(s) <= n => I[s] = G[s]}
  <2> HIDE DEF I, Rec
  <2>1. 0 \in Agree
    <3> SUFFICES ASSUME NEW s \in SUBSET S, size(s) <= 0 PROVE I[s] = G[s]
      OBVIOUS
    <3>1. s = {}
      BY <1>8, FS_EmptySet DEF size
    <3> QED
      BY <3>1, <1>15, <1>11 DEF SumStep
  <2>2. ASSUME NEW n \in Agree PROVE n + 1 \in Agree
    <3> SUFFICES ASSUME NEW s \in SUBSET S, size(s) <= n + 1 PROVE I[s] = G[s]
      OBVIOUS
    <3>1. CASE s = {}
      BY <3>1, <1>15, <1>11 DEF SumStep
    <3>2. CASE s # {}
      <4>1. s \ {pick(s)} \in SUBSET S /\ size(s \ {pick(s)}) <= n
        BY <1>8, <1>10, <3>2
      <4>2. I[s \ {pick(s)}] = G[s \ {pick(s)}]
        BY <4>1
      <4>3. I[s] = f[pick(s)] + I[s \ {pick(s)}]
        BY <1>15, <3>2 DEF SumStep, pick
      <4> QED
        BY <1>11, <3>2, <4>2, <4>3
    <3> QED
      BY <3>1, <3>2
  <2>3. Agree = Nat
    <3> HIDE DEF Agree
    <3>1. Agree \in SUBSET Nat
      BY DEF Agree
    <3> QED
      BY <2>1, <2>2, <3>1, NatSet
  <2>4. \A s \in SUBSET S : I[s] = G[s]
    <3> TAKE s \in SUBSET S
    <3>1. size(s) \in Nat /\ size(s) <= size(s)
      BY <1>8
    <3> QED
      BY <2>3, <3>1
  <2>5. \E T : I = [s \in SUBSET S |-> T[s]]
    <3>1. I = Rec(I)
      BY <1>13
    <3>2. Rec(I) = [s \in SUBSET S |-> Rec(I)[s]]
      BY DEF Rec
    <3> QED
      BY <3>1, <3>2
  <2>6. \A s \in SUBSET S : I[s] \in Int
    BY <2>4, <1>9 DEF V
  <2> QED
    BY <2>5, <2>6
<1> HIDE DEF I
<1> QED
  BY <1>14, <1>15, <1>16 DEF PartialSums

\* A sum of nothing is 0.
LEMMA SumEmpty ==
    ASSUME NEW f
    PROVE  SumFunctionOnSet(f, {}) = 0
<1>1. PICK g : PartialSums(g, {}, f) /\ SumFunctionOnSet(f, {}) = g[{}]
  BY SumIter, FS_EmptySet
<1> QED
  BY <1>1 DEF SumStep, PartialSums

\* The sum over a set is what it is as a part of any larger one.
LEMMA SumIterAgree ==
    ASSUME NEW S, IsFiniteSet(S), NEW f, \A x \in S : f[x] \in Int,
           NEW g, PartialSums(g, S, f)
    PROVE  \A s \in SUBSET S : SumFunctionOnSet(f, s) = g[s]
<1> SUFFICES ASSUME NEW T \in SUBSET S PROVE SumFunctionOnSet(f, T) = g[T]
  OBVIOUS
<1>1. IsFiniteSet(T) /\ \A x \in T : f[x] \in Int
  BY FS_Subset
<1>2. PICK h : PartialSums(h, T, f) /\ SumFunctionOnSet(f, T) = h[T]
  BY <1>1, SumIter
<1>a. /\ \A s \in SUBSET T : h[s] = SumStep(f, s, h)
      /\ \A s \in SUBSET S : g[s] = SumStep(f, s, g)
  BY <1>2 DEF PartialSums
<1> DEFINE Agree == {n \in Nat : \A s \in SUBSET T : Cardinality(s) <= n => h[s] = g[s]}
<1>3. \A s \in SUBSET T : IsFiniteSet(s) /\ Cardinality(s) \in Nat /\ s \in SUBSET S
  BY <1>1, FS_Subset, FS_CardinalityType
<1>4. 0 \in Agree
  <2> SUFFICES ASSUME NEW s \in SUBSET T, Cardinality(s) <= 0 PROVE h[s] = g[s]
    OBVIOUS
  <2>1. s = {}
    BY <1>3, FS_EmptySet
  <2> QED
    BY <2>1, <1>a, <1>3 DEF SumStep
<1>5. ASSUME NEW n \in Agree PROVE n + 1 \in Agree
  <2> SUFFICES ASSUME NEW s \in SUBSET T, Cardinality(s) <= n + 1 PROVE h[s] = g[s]
    OBVIOUS
  <2>1. CASE s = {}
    BY <2>1, <1>a, <1>3 DEF SumStep
  <2>2. CASE s # {}
    <3> DEFINE x == CHOOSE x \in s : TRUE
    <3>1. x \in s
      BY <2>2
    <3> HIDE DEF x
    <3>2. Cardinality(s \ {x}) = Cardinality(s) - 1
      BY <1>3, <3>1, FS_RemoveElement
    <3>3. s \ {x} \in SUBSET T /\ Cardinality(s \ {x}) <= n
      BY <1>3, <3>2
    <3>4. h[s \ {x}] = g[s \ {x}]
      BY <3>3
    <3>5. h[s] = f[x] + h[s \ {x}] /\ g[s] = f[x] + g[s \ {x}]
      BY <1>a, <1>3, <2>2 DEF SumStep, x
    <3> QED
      BY <3>4, <3>5
  <2> QED
    BY <2>1, <2>2
<1>6. Agree = Nat
  <2> HIDE DEF Agree
  <2>1. Agree \in SUBSET Nat
    BY DEF Agree
  <2> QED
    BY <1>4, <1>5, <2>1, NatSet
<1>7. Cardinality(T) \in Nat /\ Cardinality(T) <= Cardinality(T) /\ T \in SUBSET T
  BY <1>3
<1> QED
  BY <1>2, <1>6, <1>7

\* Any element may be taken out of a sum first.
LEMMA SumRemove ==
    ASSUME NEW S, IsFiniteSet(S), NEW f, \A x \in S : f[x] \in Int, NEW a \in S
    PROVE  /\ SumFunctionOnSet(f, S) \in Int
           /\ SumFunctionOnSet(f, S) = f[a] + SumFunctionOnSet(f, S \ {a})
<1>1. PICK g : PartialSums(g, S, f) /\ SumFunctionOnSet(f, S) = g[S]
  BY SumIter
<1>a. g \in [SUBSET S -> Int] /\ \A s \in SUBSET S : g[s] = SumStep(f, s, g)
  BY <1>1 DEF PartialSums
<1>2. \A s \in SUBSET S : SumFunctionOnSet(f, s) = g[s]
  BY <1>1, SumIterAgree
<1>3. \A s \in SUBSET S : IsFiniteSet(s) /\ Cardinality(s) \in Nat
  BY FS_Subset, FS_CardinalityType
<1> DEFINE N == {n \in Nat : \A s \in SUBSET S : Cardinality(s) <= n =>
                        \A x \in s : g[s] = f[x] + g[s \ {x}]}
<1>4. 0 \in N
  <2> SUFFICES ASSUME NEW s \in SUBSET S, Cardinality(s) <= 0, NEW x \in s PROVE FALSE
    OBVIOUS
  <2> QED
    BY <1>3, FS_EmptySet
<1>5. ASSUME NEW n \in N PROVE n + 1 \in N
  <2> SUFFICES ASSUME NEW s \in SUBSET S, Cardinality(s) <= n + 1, NEW x \in s
               PROVE  g[s] = f[x] + g[s \ {x}]
    OBVIOUS
  <2> DEFINE y == CHOOSE y \in s : TRUE
  <2>1. y \in s
    OBVIOUS
  <2>2. g[s] = f[y] + g[s \ {y}]
    BY <1>a DEF SumStep
  <2> HIDE DEF y
  <2>3. CASE x = y
    BY <2>2, <2>3
  <2>4. CASE x # y
    <3>1. Cardinality(s \ {y}) = Cardinality(s) - 1 /\ Cardinality(s \ {x}) = Cardinality(s) - 1
      BY <1>3, <2>1, FS_RemoveElement
    <3>2. Cardinality(s \ {y}) <= n /\ Cardinality(s \ {x}) <= n
      BY <1>3, <3>1
    <3>3. g[s \ {y}] = f[x] + g[(s \ {y}) \ {x}]
      BY <2>4, <3>2
    <3>4. g[s \ {x}] = f[y] + g[(s \ {x}) \ {y}]
      BY <2>1, <2>4, <3>2
    <3> DEFINE rest == g[(s \ {x}) \ {y}]
    <3>5. g[(s \ {y}) \ {x}] = rest
      <4>1. (s \ {y}) \ {x} = (s \ {x}) \ {y}
        OBVIOUS
      <4> QED
        BY <4>1
    <3>6. f[x] \in Int /\ f[y] \in Int /\ rest \in Int
      <4>1. (s \ {x}) \ {y} \in SUBSET S
        OBVIOUS
      <4> QED
        BY <4>1, <2>1, <1>a
    <3> HIDE DEF rest
    <3>7. g[s] = f[y] + (f[x] + rest) /\ f[x] + g[s \ {x}] = f[x] + (f[y] + rest)
      BY <2>2, <3>3, <3>4, <3>5
    <3> QED
      BY <3>6, <3>7
  <2> QED
    BY <2>3, <2>4
<1>6. N = Nat
  <2> HIDE DEF N
  <2>1. N \in SUBSET Nat
    BY DEF N
  <2> QED
    BY <1>4, <1>5, <2>1, NatSet
<1>7. S \in SUBSET S /\ Cardinality(S) <= Cardinality(S) /\ Cardinality(S) \in Nat
  BY <1>3
<1>8. g[S] = f[a] + g[S \ {a}]
  BY <1>6, <1>7
<1> QED
  BY <1>2, <1>7, <1>8, <1>a

\* A sum of integers is an integer.
LEMMA SumInt ==
    ASSUME NEW S, IsFiniteSet(S), NEW f, \A x \in S : f[x] \in Int
    PROVE  SumFunctionOnSet(f, S) \in Int
<1>1. CASE S = {}
  BY <1>1, SumEmpty
<1>2. ASSUME NEW x \in S PROVE SumFunctionOnSet(f, S) \in Int
  BY SumRemove
<1> QED
  BY <1>1, <1>2

\* A common factor may be taken out of a sum.
LEMMA SumScaled ==
    ASSUME NEW S, IsFiniteSet(S), NEW f, NEW g, NEW c \in Int,
           \A x \in S : f[x] \in Int /\ g[x] \in Int /\ f[x] = c * g[x]
    PROVE  SumFunctionOnSet(f, S) = c * SumFunctionOnSet(g, S)
<1> DEFINE G == {T \in SUBSET S : SumFunctionOnSet(f, T) = c * SumFunctionOnSet(g, T)}
<1>1. {} \in G
  BY SumEmpty
<1>2. ASSUME NEW T \in SUBSET S, NEW x \in T, T \ {x} \in G PROVE T \in G
  <2> DEFINE a == SumFunctionOnSet(g, T \ {x})
  <2>1. IsFiniteSet(T) /\ IsFiniteSet(T \ {x})
    BY FS_Subset
  <2>2. SumFunctionOnSet(f, T) = f[x] + SumFunctionOnSet(f, T \ {x})
    BY <2>1, SumRemove
  <2>3. SumFunctionOnSet(g, T) = g[x] + a
    BY <2>1, SumRemove
  <2>4. a \in Int
    BY <2>1, SumInt
  <2>5. SumFunctionOnSet(f, T \ {x}) = c * a /\ f[x] = c * g[x] /\ g[x] \in Int
    BY <1>2
  <2> HIDE DEF a
  <2>6. c * g[x] + c * a = c * (g[x] + a)
    BY <2>4, <2>5
  <2> QED
    BY <2>2, <2>3, <2>5, <2>6
<1>3. G \in SUBSET SUBSET S
  OBVIOUS
<1>4. S \in G
  <2> HIDE DEF G
  <2> QED
    BY <1>1, <1>2, <1>3, SubsetInduction
<1> QED
  BY <1>4

-------------------------------------------------------------------------------
(* Sorting.                                                                *)

\* ahead[x] is what comes before x in a strict total order.
IsOrder(S, ahead) ==
    /\ ahead \in [S -> SUBSET S]
    /\ \A x \in S : x \notin ahead[x]
    /\ \A x, y \in S : x # y => x \in ahead[y] \/ y \in ahead[x]
    /\ \A x, y \in S : x \in ahead[y] => ahead[x] \subseteq ahead[y]

\* SortedBy lists every element once, in order.
LEMMA SortedByOrder ==
    ASSUME NEW S, IsFiniteSet(S), NEW ahead, IsOrder(S, ahead)
    PROVE  /\ Cardinality(S) \in Nat
           /\ SortedBy(S, ahead) \in [1..Cardinality(S) -> S]
           /\ \A k \in 1..Cardinality(S) : Cardinality(ahead[SortedBy(S, ahead)[k]]) = k - 1
           /\ \A x \in S : \E k \in 1..Cardinality(S) : SortedBy(S, ahead)[k] = x
           /\ \A k, l \in 1..Cardinality(S) :
                 k < l <=> SortedBy(S, ahead)[k] \in ahead[SortedBy(S, ahead)[l]]
<1> DEFINE n == Cardinality(S)
           rank == [x \in S |-> Cardinality(ahead[x])]
<1>1. n \in Nat /\ IsFiniteSet(0..(n - 1)) /\ Cardinality(0..(n - 1)) = n
  <2>1. n \in Nat
    BY FS_CardinalityType
  <2> HIDE DEF n
  <2> QED
    BY <2>1, FS_Interval
<1>2. \A x \in S : /\ ahead[x] \in SUBSET S /\ x \notin ahead[x]
                   /\ IsFiniteSet(ahead[x]) /\ rank[x] \in Nat /\ rank[x] = Cardinality(ahead[x])
  <2> TAKE x \in S
  <2>1. ahead[x] \in SUBSET S /\ x \notin ahead[x]
    BY DEF IsOrder
  <2> QED
    BY <2>1, FS_Subset, FS_CardinalityType
<1>3. \A x \in S : rank[x] \in 0..(n - 1)
  <2> TAKE x \in S
  <2>1. rank[x] <= n /\ (n = rank[x] => ahead[x] = S)
    BY <1>2, FS_Subset
  <2>2. rank[x] # n
    BY <1>2, <2>1
  <2> HIDE DEF n, rank
  <2> QED
    BY <1>1, <1>2, <2>1, <2>2
<1>4. ASSUME NEW x \in S, NEW y \in S, x \in ahead[y] PROVE rank[x] < rank[y]
  <2>1. ahead[x] \subseteq ahead[y] /\ ahead[x] # ahead[y]
    BY <1>2, <1>4 DEF IsOrder
  <2>2. rank[x] <= rank[y] /\ rank[x] # rank[y]
    BY <1>2, <2>1, FS_Subset
  <2> HIDE DEF rank
  <2> QED
    BY <1>2, <2>2
<1>5. \A x, y \in S : x \in ahead[y] <=> rank[x] < rank[y]
  <2> HIDE DEF rank
  <2> QED
    BY <1>2, <1>4 DEF IsOrder
<1>6. \A x, y \in S : rank[x] = rank[y] => x = y
  <2> HIDE DEF rank
  <2> QED
    BY <1>2, <1>4 DEF IsOrder
<1>7. rank \in Injection(S, 0..(n - 1))
  <2>1. rank \in [S -> 0..(n - 1)]
    <3>1. rank = [x \in S |-> rank[x]]
      OBVIOUS
    <3> HIDE DEF rank
    <3> QED
      BY <1>3, <3>1
  <2> HIDE DEF rank
  <2> QED
    BY <1>6, <2>1 DEF Injection, IsInjective
<1>8. rank \in Surjection(S, 0..(n - 1))
  <2> HIDE DEF rank
  <2> QED
    BY <1>1, <1>7, FS_Injection
<1>9. \A k \in 1..n : \E x \in S : rank[x] = k - 1
  <2>1. \A k \in 1..n : k - 1 \in 0..(n - 1)
    BY <1>1
  <2> HIDE DEF rank, n
  <2> QED
    BY <2>1, <1>8 DEF Surjection
<1> DEFINE s == SortedBy(S, ahead)
<1>10. \A k \in 1..n : s[k] \in S /\ rank[s[k]] = k - 1
  <2> TAKE k \in 1..n
  <2>1. \E x \in S : Cardinality(ahead[x]) = k - 1
    BY <1>9
  <2>2. s[k] = CHOOSE x \in S : Cardinality(ahead[x]) = k - 1
    BY DEF SortedBy
  <2>3. s[k] \in S /\ Cardinality(ahead[s[k]]) = k - 1
    <3> HIDE DEF s
    <3> QED
      BY <2>1, <2>2
  <2> HIDE DEF s
  <2> QED
    BY <2>3
<1>11. s \in [1..n -> S]
  <2>1. s = [k \in 1..n |-> s[k]]
    BY DEF SortedBy
  <2> HIDE DEF s, n
  <2> QED
    BY <1>10, <2>1
<1> HIDE DEF rank, s, n
<1>12. \A x \in S : \E k \in 1..n : s[k] = x
  <2> TAKE x \in S
  <2>1. rank[x] + 1 \in 1..n /\ (rank[x] + 1) - 1 = rank[x]
    BY <1>1, <1>3
  <2>2. s[rank[x] + 1] = x
    BY <1>6, <1>10, <2>1
  <2> QED
    BY <2>1, <2>2
<1>13. \A k, l \in 1..n : k < l <=> s[k] \in ahead[s[l]]
  BY <1>1, <1>5, <1>10
<1>14. \A k \in 1..n : Cardinality(ahead[s[k]]) = k - 1
  BY <1>2, <1>10
<1> QED
  BY <1>1, <1>11, <1>12, <1>13, <1>14 DEF n, s

-------------------------------------------------------------------------------
(* Concatenation.                                                          *)

\* flat is the first n of the sequences seqs one after the other, the k-th from
\* position off[k] + 1 on.
Concatenates(flat, seqs, n, off, A) ==
    /\ off \in [1..(n + 1) -> Nat] /\ off[1] = 0
    /\ \A k \in 1..n : off[k + 1] = off[k] + Len(seqs[k])
    /\ flat \in Seq(A) /\ Len(flat) = off[n + 1]
    /\ \A k \in 1..n : \A i \in 1..Len(seqs[k]) :
          off[k] + i \in 1..Len(flat) /\ flat[off[k] + i] = seqs[k][i]
    /\ \A j \in 1..Len(flat) : \E k \in 1..n : \E i \in 1..Len(seqs[k]) : j = off[k] + i

\* What the library's append gives, element by element.
LEMMA AppendedFacts ==
    ASSUME NEW A, NEW s \in Seq(A), NEW t \in Seq(A)
    PROVE  /\ s \o t \in Seq(A) /\ Len(s \o t) = Len(s) + Len(t)
           /\ Len(s) \in Nat /\ Len(t) \in Nat
           /\ \A i \in 1..Len(s) : i \in 1..(Len(s) + Len(t)) /\ (s \o t)[i] = s[i]
           /\ \A i \in 1..Len(t) : Len(s) + i \in 1..(Len(s) + Len(t)) /\ (s \o t)[Len(s) + i] = t[i]
<1>1. s \o t \in Seq(A) /\ Len(s \o t) = Len(s) + Len(t) /\ Len(s) \in Nat /\ Len(t) \in Nat
  OBVIOUS
<1>2. \A i \in 1..Len(s) : i \in 1..(Len(s) + Len(t)) /\ (s \o t)[i] = s[i]
  BY <1>1
<1>3. ASSUME NEW i \in 1..Len(t) PROVE Len(s) + i \in 1..(Len(s) + Len(t)) /\ (s \o t)[Len(s) + i] = t[i]
  <2> DEFINE j == Len(s) + i
  <2>1. j \in 1..(Len(s) + Len(t)) /\ ~(j <= Len(s)) /\ j - Len(s) = i
    BY <1>1
  <2> HIDE DEF j
  <2>2. (s \o t)[j] = t[j - Len(s)]
    BY <1>1, <2>1
  <2> QED
    BY <2>1, <2>2 DEF j
<1> QED
  BY <1>1, <1>2, <1>3

\* One more sequence at the end.
LEMMA ConcatenateOne ==
    ASSUME NEW A, NEW seqs \in Seq(Seq(A)), NEW n \in Nat, n + 1 \in 1..Len(seqs),
           NEW flat, NEW off, Concatenates(flat, seqs, n, off, A)
    PROVE  \E o : Concatenates(flat \o seqs[n + 1], seqs, n + 1, o, A)
<1> DEFINE t == seqs[n + 1]
           new == flat \o t
           o == [k \in 1..(n + 2) |-> IF k = n + 2 THEN Len(flat) + Len(t) ELSE off[k]]
<1>1. t \in Seq(A) /\ flat \in Seq(A)
  BY DEF Concatenates
<1> HIDE DEF t
<1>2. /\ new \in Seq(A) /\ Len(new) = Len(flat) + Len(t) /\ Len(flat) \in Nat /\ Len(t) \in Nat
      /\ \A i \in 1..Len(flat) : i \in 1..(Len(flat) + Len(t)) /\ new[i] = flat[i]
      /\ \A i \in 1..Len(t) : Len(flat) + i \in 1..(Len(flat) + Len(t)) /\ new[Len(flat) + i] = t[i]
  BY <1>1, AppendedFacts
<1>3. /\ off \in [1..(n + 1) -> Nat] /\ off[1] = 0 /\ Len(flat) = off[n + 1]
      /\ \A k \in 1..n : off[k + 1] = off[k] + Len(seqs[k])
  BY DEF Concatenates
<1>4. /\ \A k \in 1..(n + 1) : o[k] = off[k]
      /\ o[n + 2] = Len(flat) + Len(t)
      /\ o \in [1..(n + 2) -> Nat]
  BY <1>2, <1>3
<1>5. \A k \in 1..n : \A i \in 1..Len(seqs[k]) :
          off[k] + i \in 1..Len(flat) /\ flat[off[k] + i] = seqs[k][i]
  BY DEF Concatenates
<1>6. \A j \in 1..Len(flat) : \E k \in 1..n : \E i \in 1..Len(seqs[k]) : j = off[k] + i
  BY DEF Concatenates
<1> HIDE DEF o, new
<1>7. \A k \in 1..(n + 1) : o[k + 1] = o[k] + Len(seqs[k])
  <2> TAKE k \in 1..(n + 1)
  <2>1. CASE k = n + 1
    <3>1. o[k + 1] = Len(flat) + Len(t) /\ o[k] = Len(flat)
      BY <1>3, <1>4, <2>1
    <3> QED
      BY <2>1, <3>1 DEF t
  <2>2. CASE k # n + 1
    <3>1. k \in 1..n /\ k + 1 \in 1..(n + 1)
      BY <2>2
    <3> QED
      BY <1>3, <1>4, <3>1
  <2> QED
    BY <2>1, <2>2
<1>8. ASSUME NEW k \in 1..(n + 1), NEW i \in 1..Len(seqs[k])
      PROVE  o[k] + i \in 1..Len(new) /\ new[o[k] + i] = seqs[k][i]
  <2>1. CASE k = n + 1
    <3>1. o[k] = Len(flat) /\ seqs[k] = t
      BY <1>3, <1>4, <2>1 DEF t
    <3> QED
      BY <1>2, <3>1
  <2>2. CASE k # n + 1
    <3>1. k \in 1..n /\ o[k] = off[k]
      BY <1>4, <2>2
    <3>2. off[k] + i \in 1..Len(flat) /\ flat[off[k] + i] = seqs[k][i]
      BY <1>5, <3>1
    <3> QED
      BY <1>2, <3>1, <3>2
  <2> QED
    BY <2>1, <2>2
<1>9. ASSUME NEW j \in 1..Len(new)
      PROVE  \E k \in 1..(n + 1) : \E i \in 1..Len(seqs[k]) : j = o[k] + i
  <2>1. CASE j \in 1..Len(flat)
    <3>1. PICK k \in 1..n : \E i \in 1..Len(seqs[k]) : j = off[k] + i
      BY <1>6, <2>1
    <3>2. k \in 1..(n + 1) /\ o[k] = off[k]
      BY <1>4
    <3> QED
      BY <3>1, <3>2
  <2>2. CASE j \notin 1..Len(flat)
    <3>1. j - Len(flat) \in 1..Len(t) /\ j = Len(flat) + (j - Len(flat))
      BY <1>2, <2>2
    <3>2. n + 1 \in 1..(n + 1) /\ o[n + 1] = Len(flat) /\ seqs[n + 1] = t
      BY <1>3, <1>4 DEF t
    <3> QED
      BY <3>1, <3>2
  <2> QED
    BY <2>1, <2>2
<1>10. Concatenates(new, seqs, n + 1, o, A)
  <2>1. (n + 1) + 1 = n + 2 /\ 1 \in 1..(n + 1)
    OBVIOUS
  <2>2. o[1] = 0 /\ Len(new) = o[(n + 1) + 1] /\ o \in [1..((n + 1) + 1) -> Nat]
    BY <1>2, <1>3, <1>4, <2>1
  <2> QED
    BY <1>2, <1>7, <1>8, <1>9, <2>2 DEF Concatenates
<1> QED
  BY <1>10 DEF new, t

\* FlattenSeq puts its sequences one after the other.
LEMMA FlattenConcatenates ==
    ASSUME NEW A, NEW seqs \in Seq(Seq(A))
    PROVE  \E off : Concatenates(FlattenSeq(seqs), seqs, Len(seqs), off, A)
<1> DEFINE n == Len(seqs)
<1>0. n \in Nat
  OBVIOUS
<1>1. CASE n = 0
  <2>1. FlattenSeq(seqs) = <<>>
    BY <1>1 DEF FlattenSeq
  <2> DEFINE off == [k \in 1..1 |-> 0]
  <2>2. Concatenates(<<>>, seqs, 0, off, A)
    BY DEF Concatenates
  <2> QED
    BY <1>1, <2>1, <2>2
<1>2. CASE n # 0
  <2> DEFINE grown(s, k) == IF k + 2 \in 1..n THEN s \o seqs[k + 2] ELSE s
             step == [p \in Seq(A) \X Nat |-> grown(p[1], p[2])]
             Rec(f) == [i \in 1..n |-> IF i = 1 THEN seqs[i] ELSE f[i - 1] \o seqs[i]]
  <2>1. \A k \in 1..n : seqs[k] \in Seq(A)
    OBVIOUS
  <2>2. \A s \in Seq(A), k \in Nat : grown(s, k) \in Seq(A)
    BY <2>1
  <2> HIDE DEF grown
  <2>3. step \in Steps(Seq(A)) /\ \A s \in Seq(A), k \in Nat : step[<<s, k>>] = grown(s, k)
    BY <2>2 DEF Steps
  <2>4. seqs[1] \in Seq(A)
    BY <1>0, <1>2, <2>1
  <2> HIDE DEF step
  <2>5. PICK F : Iteration(F, Seq(A), seqs[1], step)
    <3> DEFINE V == Seq(A)
               c == seqs[1]
    <3>1. c \in V /\ step \in Steps(V)
      BY <2>3, <2>4
    <3> HIDE DEF V, c
    <3>2. \E f : Iteration(f, V, c, step)
      BY <3>1, Iterates
    <3> QED
      BY <3>2 DEF V, c
  <2>6. F \in [Nat -> Seq(A)] /\ F[0] = seqs[1] /\ \A k \in Nat : F[k + 1] = grown(F[k], k)
    BY <2>3, <2>5 DEF Iteration
  <2> DEFINE G == [i \in 1..n |-> F[i - 1]]
  <2>7. G = Rec(G)
    <3>1. ASSUME NEW i \in 1..n PROVE G[i] = Rec(G)[i]
      <4>1. CASE i = 1
        BY <2>6, <4>1
      <4>2. CASE i # 1
        <5>1. i - 2 \in Nat /\ (i - 2) + 1 = i - 1 /\ (i - 2) + 2 = i /\ i - 1 \in 1..n
          BY <1>0, <4>2
        <5>2. F[(i - 2) + 1] = grown(F[i - 2], i - 2)
          BY <2>6, <5>1
        <5>3. grown(F[i - 2], i - 2) = F[i - 2] \o seqs[i]
          BY <5>1 DEF grown
        <5>4. G[i] = F[i - 1] /\ G[i - 1] = F[i - 2]
          <6>1. (i - 1) - 1 = i - 2
            BY <5>1
          <6> QED
            BY <5>1, <6>1
        <5>5. Rec(G)[i] = G[i - 1] \o seqs[i]
          BY <4>2
        <5> HIDE DEF G, Rec
        <5> QED
          BY <5>1, <5>2, <5>3, <5>4, <5>5
      <4> QED
        BY <4>1, <4>2
    <3>2. G = [i \in 1..n |-> G[i]] /\ Rec(G) = [i \in 1..n |-> Rec(G)[i]]
      OBVIOUS
    <3> HIDE DEF G, Rec
    <3> QED
      BY <3>1, <3>2
  <2> DEFINE f == CHOOSE g : g = Rec(g)
  <2>8. FlattenSeq(seqs) = f[n]
    BY <1>2 DEF FlattenSeq
  <2>9. f = Rec(f)
    <3> HIDE DEF Rec, G
    <3> QED
      BY <2>7
  <2>10. \A i \in 1..n : f[i] = IF i = 1 THEN seqs[i] ELSE f[i - 1] \o seqs[i]
    <3>1. \A i \in 1..n : Rec(f)[i] = IF i = 1 THEN seqs[i] ELSE f[i - 1] \o seqs[i]
      OBVIOUS
    <3> HIDE DEF f, Rec
    <3> QED
      BY <2>9, <3>1
  <2> HIDE DEF f
  <2> DEFINE S == {k \in Nat : k + 1 <= n => \E off : Concatenates(f[k + 1], seqs, k + 1, off, A)}
  <2>11. 0 \in S
    <3> DEFINE off == [k \in 1..2 |-> IF k = 1 THEN 0 ELSE Len(seqs[1])]
    <3>1. f[1] = seqs[1] /\ 1 \in 1..n
      BY <1>0, <1>2, <2>10
    <3>2. Len(seqs[1]) \in Nat
      BY <2>4
    <3>3. off \in [1..2 -> Nat] /\ off[1] = 0 /\ off[2] = Len(seqs[1])
      BY <3>2
    <3> HIDE DEF off
    <3>4. \A k \in 1..1 : k = 1
      OBVIOUS
    <3>5. \A i \in 1..Len(seqs[1]) : 0 + i = i
      BY <3>2
    <3>6. Concatenates(seqs[1], seqs, 1, off, A)
      <4>1. 1 + 1 = 2 /\ 1 \in 1..1
        OBVIOUS
      <4>2. \A k \in 1..1 : off[k + 1] = off[k] + Len(seqs[k])
        BY <3>2, <3>3, <3>4
      <4>3. \A k \in 1..1 : \A i \in 1..Len(seqs[k]) :
          off[k] + i \in 1..Len(seqs[1]) /\ seqs[1][off[k] + i] = seqs[k][i]
        BY <3>3, <3>4, <3>5
      <4>4. \A j \in 1..Len(seqs[1]) : \E k \in 1..1 : \E i \in 1..Len(seqs[k]) : j = off[k] + i
        BY <3>3, <3>5, <4>1
      <4> QED
        BY <2>4, <3>3, <4>1, <4>2, <4>3, <4>4 DEF Concatenates
    <3>7. Concatenates(f[0 + 1], seqs, 0 + 1, off, A)
      BY <3>1, <3>6
    <3> QED
      BY <3>7
  <2>12. ASSUME NEW k \in S PROVE k + 1 \in S
    <3> SUFFICES ASSUME (k + 1) + 1 <= n
                 PROVE  \E off : Concatenates(f[(k + 1) + 1], seqs, (k + 1) + 1, off, A)
      OBVIOUS
    <3>1. k + 1 <= n /\ k + 1 \in Nat /\ (k + 1) + 1 \in 1..n /\ (k + 1) + 1 # 1
          /\ ((k + 1) + 1) - 1 = k + 1
      BY <1>0
    <3>2. PICK off : Concatenates(f[k + 1], seqs, k + 1, off, A)
      BY <3>1
    <3>3. f[(k + 1) + 1] = f[k + 1] \o seqs[(k + 1) + 1]
      BY <2>10, <3>1
    <3> DEFINE m == k + 1
    <3>4. m \in Nat /\ m + 1 \in 1..Len(seqs) /\ Concatenates(f[m], seqs, m, off, A)
      BY <3>1, <3>2
    <3> HIDE DEF m, n
    <3>5. \E o : Concatenates(f[m] \o seqs[m + 1], seqs, m + 1, o, A)
      BY <3>4, ConcatenateOne
    <3> QED
      BY <3>3, <3>5 DEF m
  <2>13. S = Nat
    <3>1. S \in SUBSET Nat
      OBVIOUS
    <3> HIDE DEF S
    <3> QED
      BY <2>11, <2>12, <3>1, NatSet
  <2>14. n - 1 \in S /\ (n - 1) + 1 = n
    <3> HIDE DEF S
    <3>1. n - 1 \in Nat /\ (n - 1) + 1 = n
      BY <1>0, <1>2
    <3> QED
      BY <2>13, <3>1
  <2>15. \E off : Concatenates(f[n], seqs, n, off, A)
    <3>1. \E off : Concatenates(f[(n - 1) + 1], seqs, (n - 1) + 1, off, A)
      BY <1>0, <2>14
    <3> QED
      BY <2>14, <3>1
  <2> QED
    BY <2>8, <2>15
<1> QED
  BY <1>1, <1>2

\* SetToSeq lists every element of a finite set.
LEMMA SetToSeqLists ==
    ASSUME NEW S, IsFiniteSet(S)
    PROVE  LET c == Cardinality(S)
               f == SetToSeq(S)
           IN  /\ c \in Nat /\ f \in [1..c -> S] /\ f \in Seq(S) /\ Len(f) = c
               /\ \A k, l \in 1..c : f[k] = f[l] => k = l
               /\ \A x \in S : \E k \in 1..c : f[k] = x
<1> DEFINE c == Cardinality(S)
           f == SetToSeq(S)
<1>1. c \in Nat /\ ExistsBijection(1..c, S)
  BY FS_CardinalityType
<1>2. \E g \in [1..c -> S] : IsInjective(g)
  <2>1. PICK g : g \in Bijection(1..c, S)
    BY <1>1 DEF ExistsBijection
  <2> QED
    BY <2>1 DEF Bijection, Injection
<1>3. f \in [1..c -> S] /\ IsInjective(f)
  BY <1>2 DEF SetToSeq
<1> HIDE DEF f
<1>4. f \in Injection(1..c, S)
  BY <1>3 DEF Injection
<1>5. IsFiniteSet(1..c) /\ Cardinality(1..c) = c
  <2>1. 1 \in Int /\ c \in Int
    BY <1>1
  <2>2. IsFiniteSet(1..c) /\ Cardinality(1..c) = IF 1 > c THEN 0 ELSE c - 1 + 1
    BY <2>1, FS_Interval
  <2> QED
    BY <1>1, <2>2
<1>6. f \in Surjection(1..c, S)
  BY <1>4, <1>5, FS_Injection
<1>7. \A x \in S : \E k \in 1..c : f[k] = x
  BY <1>6 DEF Surjection
<1>8. \A k, l \in 1..c : f[k] = f[l] => k = l
  BY <1>3 DEF IsInjective
<1>9. f \in Seq(S) /\ Len(f) = c
  BY <1>1, <1>3
<1> QED
  BY <1>1, <1>3, <1>7, <1>8, <1>9 DEF f
===============================================================================
