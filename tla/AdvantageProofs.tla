---------------------------- MODULE AdvantageProofs ----------------------------
(***************************************************************************)
(* What the chains and the two passes of GAE compute, for batches of any   *)
(* size, with any chains, turn numbers, rewards, values and discounts.     *)
(***************************************************************************)
EXTENDS Advantage, InductionFacts

-------------------------------------------------------------------------------
(* Chains.                                                                 *)

\* A sequence of n rows with turn numbers.
IsBatch(batch, n) ==
    /\ n \in Nat
    /\ DOMAIN batch = 1..n
    /\ \A i \in 1..n : batch[i].turn_id \in Int

Preceding(batch, i) ==
    [j \in Group(batch, i) |-> {k \in Group(batch, i) : InOrder(batch, k, j)}]

LEMMA GroupFacts ==
    ASSUME NEW batch, NEW n, IsBatch(batch, n), NEW i \in 1..n
    PROVE  /\ Group(batch, i) \subseteq 1..n /\ i \in Group(batch, i)
           /\ IsFiniteSet(Group(batch, i))
           /\ \A j \in Group(batch, i) :
                 Group(batch, j) = Group(batch, i) /\ ChainOf(batch, j) = ChainOf(batch, i)
<1>1. Group(batch, i) \subseteq 1..n /\ i \in Group(batch, i)
  BY DEF Group, IsBatch
<1>2. IsFiniteSet(1..n)
  <2>1. n \in Int /\ 1 \in Int
    BY DEF IsBatch
  <2> QED
    BY <2>1, FS_Interval
<1>3. \A j \in Group(batch, i) : Group(batch, j) = Group(batch, i)
  BY DEF Group
<1>4. \A j \in Group(batch, i) : ChainOf(batch, j) = ChainOf(batch, i)
  BY <1>3, Zenon DEF ChainOf
<1> QED
  BY <1>1, <1>2, <1>3, <1>4, FS_Subset

LEMMA RowsAreOrdered ==
    ASSUME NEW batch, NEW n, IsBatch(batch, n), NEW i \in 1..n
    PROVE  IsOrder(Group(batch, i), Preceding(batch, i))
<1> DEFINE g == Group(batch, i)
           before == Preceding(batch, i)
<1>1. \A j, k \in g : k \in before[j] <=> InOrder(batch, k, j)
  BY DEF Preceding
<1>2. before \in [g -> SUBSET g]
  BY DEF Preceding
<1>3. \A j \in g : j \in Int /\ batch[j].turn_id \in Int
  <2>1. g \subseteq 1..n
    BY GroupFacts
  <2> HIDE DEF g
  <2>2. \A j \in 1..n : j \in Int /\ batch[j].turn_id \in Int
    BY DEF IsBatch
  <2> QED
    BY <2>1, <2>2
<1> HIDE DEF g, before
<1>4. \A j \in g : j \notin before[j]
  BY <1>1, <1>3 DEF InOrder
<1>5. \A j, k \in g : j # k => j \in before[k] \/ k \in before[j]
  BY <1>1, <1>3 DEF InOrder
<1>6. \A j, k \in g : j \in before[k] => before[j] \subseteq before[k]
  <2> SUFFICES ASSUME NEW j \in g, NEW k \in g, j \in before[k], NEW l \in before[j]
               PROVE  l \in before[k]
    OBVIOUS
  <2>1. l \in g
    BY <1>2
  <2> QED
    BY <1>1, <1>3, <2>1 DEF InOrder
<1> QED
  BY <1>2, <1>4, <1>5, <1>6 DEF IsOrder, g, before

\* get_multiagent_episode_structure: a chain has every row of its agent in its
\* environment once, by turn number and, where that repeats, by index.
LEMMA ChainFacts ==
    ASSUME NEW batch, NEW n, IsBatch(batch, n), NEW i \in 1..n
    PROVE  LET c == ChainOf(batch, i)
               m == Cardinality(Group(batch, i))
           IN  /\ m \in Nat
               /\ c \in [1..m -> Group(batch, i)] /\ DOMAIN c = 1..m /\ Len(c) = m
               /\ \A j \in Group(batch, i) : \E t \in 1..m : c[t] = j
               /\ \A s, t \in 1..m : s < t <=> InOrder(batch, c[s], c[t])
               /\ \A s, t \in 1..m : c[s] = c[t] => s = t
<1> DEFINE g == Group(batch, i)
           before == Preceding(batch, i)
           c == ChainOf(batch, i)
           m == Cardinality(g)
<1>1. c = SortedBy(g, before)
  BY Zenon DEF ChainOf, Preceding
<1>2. IsFiniteSet(g) /\ IsOrder(g, before)
  BY GroupFacts, RowsAreOrdered
<1>3. \A j, k \in g : k \in before[j] <=> InOrder(batch, k, j)
  BY DEF Preceding
<1> HIDE DEF g, before
<1>4. /\ m \in Nat /\ SortedBy(g, before) \in [1..m -> g]
      /\ \A x \in g : \E k \in 1..m : SortedBy(g, before)[k] = x
      /\ \A k, l \in 1..m :
            k < l <=> SortedBy(g, before)[k] \in before[SortedBy(g, before)[l]]
  BY <1>2, SortedByOrder
<1> HIDE DEF c, m
<1>5. /\ m \in Nat /\ c \in [1..m -> g]
      /\ \A x \in g : \E k \in 1..m : c[k] = x
      /\ \A k, l \in 1..m : k < l <=> c[k] \in before[c[l]]
  BY <1>1, <1>4
<1>6. \A s, t \in 1..m : s < t <=> InOrder(batch, c[s], c[t])
  BY <1>3, <1>5
<1>7. \A s, t \in 1..m : c[s] = c[t] => s = t
  <2> SUFFICES ASSUME NEW s \in 1..m, NEW t \in 1..m, c[s] = c[t] PROVE s = t
    OBVIOUS
  <2>1. (s < t <=> s < s) /\ (t < s <=> s < s)
    BY <1>6
  <2> QED
    BY <1>5, <2>1
<1>8. c \in Seq(g) /\ Len(c) = m
  BY <1>5
<1> QED
  BY <1>5, <1>6, <1>7, <1>8 DEF g, c, m

LEMMA PlaceFacts ==
    ASSUME NEW batch, NEW n, IsBatch(batch, n), NEW i \in 1..n
    PROVE  LET c == ChainOf(batch, i)
           IN  /\ \A j \in Group(batch, i) : Place(c, j) \in DOMAIN c /\ c[Place(c, j)] = j
               /\ \A t \in DOMAIN c : Place(c, c[t]) = t
<1> DEFINE c == ChainOf(batch, i)
<1>1. \A j \in Group(batch, i) : \E t \in DOMAIN c : c[t] = j
  BY ChainFacts
<1>2. \A s, t \in DOMAIN c : c[s] = c[t] => s = t
  BY ChainFacts
<1> HIDE DEF c
<1> QED
  BY <1>1, <1>2 DEF Place, c

\* The chain that TurnAdvantages finds a row in is the chain of its agent.
LEMMA OwnChain ==
    ASSUME NEW batch, NEW n, IsBatch(batch, n), NEW i \in 1..n
    PROVE  /\ ChainOf(batch, i) \in EpisodeStructure(batch)
           /\ (CHOOSE c \in EpisodeStructure(batch) : \E t \in DOMAIN c : c[t] = i) = ChainOf(batch, i)
<1>1. EpisodeStructure(batch) = {ChainOf(batch, j) : j \in 1..n}
  BY DEF EpisodeStructure, IsBatch
<1>2. \E t \in DOMAIN ChainOf(batch, i) : ChainOf(batch, i)[t] = i
  BY PlaceFacts, GroupFacts
<1>3. ASSUME NEW j \in 1..n, NEW t \in DOMAIN ChainOf(batch, j), ChainOf(batch, j)[t] = i
      PROVE  ChainOf(batch, j) = ChainOf(batch, i)
  <2>1. i \in Group(batch, j)
    BY <1>3, ChainFacts
  <2> QED
    BY <2>1, GroupFacts
<1> QED
  BY <1>1, <1>2, <1>3

-------------------------------------------------------------------------------
(* The turn-level pass.                                                    *)

\* A recursion from the end of a sequence back has a solution.
LEMMA BackwardRecursion ==
    ASSUME NEW m \in Nat, NEW a \in [1..m -> Int], NEW b \in [1..m -> Int]
    PROVE  \E g \in [1..m -> Int] :
              \A t \in 1..m : g[t] = IF t = m THEN 0 ELSE a[t] + b[t] * g[t + 1]
<1> DEFINE back(x, k) == IF (m - 1) - k \in 1..m THEN a[(m - 1) - k] + b[(m - 1) - k] * x ELSE 0
           step == [p \in Int \X Nat |-> back(p[1], p[2])]
<1>1. \A x \in Int, k \in Nat : back(x, k) \in Int
  OBVIOUS
<1> HIDE DEF back
<1>2. step \in Steps(Int) /\ \A x \in Int, k \in Nat : step[<<x, k>>] = back(x, k)
  BY <1>1 DEF Steps
<1> HIDE DEF step
<1>3. PICK F : Iteration(F, Int, 0, step)
  <2>1. 0 \in Int
    OBVIOUS
  <2> QED
    BY ONLY <1>2, <2>1, Iterates, Zenon
<1>4. /\ F \in [Nat -> Int] /\ F[0] = 0
      /\ \A k \in Nat : F[k + 1] = back(F[k], k)
  BY <1>2, <1>3 DEF Iteration
<1> DEFINE g == [t \in 1..m |-> F[m - t]]
<1>5. g \in [1..m -> Int]
  BY <1>4
<1>6. ASSUME NEW t \in 1..m PROVE g[t] = IF t = m THEN 0 ELSE a[t] + b[t] * g[t + 1]
  <2>1. CASE t = m
    BY <1>4, <2>1
  <2>2. CASE t # m
    <3> DEFINE k == m - (t + 1)
    <3>1. k \in Nat /\ k + 1 = m - t /\ (m - 1) - k = t /\ t + 1 \in 1..m
      BY <2>2
    <3>2. g[t] = F[k + 1] /\ g[t + 1] = F[k]
      BY <3>1
    <3> HIDE DEF k, g
    <3>3. F[k + 1] = back(F[k], k)
      BY <1>4, <3>1
    <3>4. back(F[k], k) = a[t] + b[t] * F[k]
      BY <3>1 DEF back
    <3> QED
      BY <2>2, <3>2, <3>3, <3>4
  <2> QED
    BY <2>1, <2>2
<1> HIDE DEF g
<1> QED
  BY <1>5, <1>6

LEMMA LiveIsBit ==
    ASSUME NEW batch, NEW i
    PROVE  Live(batch, i) \in {0, 1}
BY DEF Live

\* The reward of the row, and the value of the next row where there is one, less
\* its own value.
Delta(batch, chain, rewards, values, t) ==
    rewards[chain[t]] + Gamma * values[chain[t + 1]] * Live(batch, chain[t]) - values[chain[t]]

\* The recursion that the advantages along a chain of m rows satisfy.
SolvesChain(adv, m, batch, chain, rewards, values) ==
    /\ adv \in [1..m -> Int]
    /\ \A t \in 1..m :
          adv[t] = IF t = m THEN 0
                   ELSE Delta(batch, chain, rewards, values, t)
                          + Gamma * Lambda * Live(batch, chain[t]) * adv[t + 1]

LEMMA ChainAdvantagesRecursion ==
    ASSUME NEW batch, NEW n, NEW m \in Nat, NEW c \in [1..m -> 1..n],
           NEW rewards \in [1..n -> Int], NEW values \in [1..n -> Int]
    PROVE  SolvesChain(ChainAdvantages(batch, c, rewards, values), m, batch, c, rewards, values)
<1> DEFINE a == [t \in 1..m |-> IF t = m THEN 0 ELSE Delta(batch, c, rewards, values, t)]
           b == [t \in 1..m |-> Gamma * Lambda * Live(batch, c[t])]
           Rec(g) == [t \in DOMAIN c |->
                        IF t = Len(c) THEN 0
                        ELSE rewards[c[t]] + Gamma * values[c[t + 1]] * Live(batch, c[t]) - values[c[t]]
                                + Gamma * Lambda * Live(batch, c[t]) * g[t + 1]]
<1>1. DOMAIN c = 1..m /\ Len(c) = m
  <2> DEFINE T == 1..n
  <2>1. c \in [1..m -> T]
    OBVIOUS
  <2> HIDE DEF T
  <2>2. c \in Seq(T)
    BY <2>1
  <2> QED
    BY <2>1, <2>2
<1>2. \A t \in 1..m : Live(batch, c[t]) \in Int
  BY LiveIsBit
<1>3. a \in [1..m -> Int]
  <2>1. ASSUME NEW t \in 1..m, t # m PROVE Delta(batch, c, rewards, values, t) \in Int
    <3>1. t + 1 \in 1..m
      BY <2>1
    <3>2. c[t] \in 1..n /\ c[t + 1] \in 1..n
      BY <3>1
    <3>3. rewards[c[t]] \in Int /\ values[c[t]] \in Int /\ values[c[t + 1]] \in Int
      BY <3>2
    <3>4. Live(batch, c[t]) \in Int /\ Gamma \in Int
      BY <1>2, GammaAssumption
    <3>5. Gamma * values[c[t + 1]] \in Int
      BY <3>3, <3>4
    <3>6. Gamma * values[c[t + 1]] * Live(batch, c[t]) \in Int
      BY <3>4, <3>5
    <3> QED
      BY <3>3, <3>6 DEF Delta
  <2> QED
    BY <2>1
<1>4. b \in [1..m -> Int]
  <2>1. \A t \in 1..m : Gamma * Lambda * Live(batch, c[t]) \in Int
    BY <1>2, GammaAssumption
  <2> QED
    BY <2>1
<1>5. PICK g \in [1..m -> Int] :
              \A t \in 1..m : g[t] = IF t = m THEN 0 ELSE a[t] + b[t] * g[t + 1]
  <2> HIDE DEF a, b
  <2> QED
    BY <1>3, <1>4, BackwardRecursion
<1>6. \A h : \A t \in 1..m : Rec(h)[t] = IF t = m THEN 0 ELSE a[t] + b[t] * h[t + 1]
  BY <1>1 DEF Delta
<1>7. g = Rec(g)
  <2>1. Rec(g) = [t \in 1..m |-> Rec(g)[t]]
    BY <1>1
  <2> HIDE DEF Rec
  <2>2. \A t \in 1..m : Rec(g)[t] = g[t]
    BY <1>5, <1>6
  <2> QED
    BY <2>1, <2>2
<1> DEFINE adv == CHOOSE h : h = Rec(h)
<1>8. ChainAdvantages(batch, c, rewards, values) = adv
  BY DEF ChainAdvantages
<1>9. adv = Rec(adv)
  <2> HIDE DEF Rec
  <2> QED
    BY <1>7
<1>10. adv = [t \in 1..m |-> adv[t]]
  <2>1. Rec(adv) = [t \in 1..m |-> Rec(adv)[t]]
    BY <1>1
  <2> HIDE DEF adv, Rec
  <2> QED
    BY <1>9, <2>1
<1>11. \A t \in 1..m : adv[t] = IF t = m THEN 0 ELSE a[t] + b[t] * adv[t + 1]
  <2> HIDE DEF adv, Rec, a, b
  <2> QED
    BY <1>6, <1>9
<1>12. \A t \in 1..m : adv[t] \in Int
  <2> HIDE DEF adv, a, b
  <2> DEFINE S == {k \in Nat : m - k \in 1..m => adv[m - k] \in Int}
  <2>1. 0 \in S
    BY <1>11
  <2>2. ASSUME NEW k \in S PROVE k + 1 \in S
    <3>1. CASE m - (k + 1) \in 1..m
      <4> DEFINE t == m - (k + 1)
      <4>1. t \in 1..m /\ t # m /\ t + 1 = m - k /\ m - k \in 1..m
        BY <3>1
      <4>2. adv[t + 1] \in Int
        BY <4>1
      <4> HIDE DEF t
      <4>3. adv[t] = a[t] + b[t] * adv[t + 1]
        BY <1>11, <4>1
      <4>4. adv[t] \in Int
        BY <1>3, <1>4, <4>1, <4>2, <4>3
      <4> QED
        BY <4>4 DEF t
    <3> QED
      BY <3>1
  <2>3. S = Nat
    <3> HIDE DEF S
    <3>1. S \in SUBSET Nat
      BY DEF S
    <3> QED
      BY <2>1, <2>2, <3>1, NatSet
  <2> TAKE t \in 1..m
  <2>4. m - t \in Nat /\ m - (m - t) = t
    OBVIOUS
  <2> QED
    BY <2>3, <2>4
<1> HIDE DEF adv, Rec
<1>13. adv \in [1..m -> Int]
  BY <1>10, <1>12
<1>14. \A t \in 1..m : adv[t] = IF t = m THEN 0
                    ELSE Delta(batch, c, rewards, values, t)
                            + Gamma * Lambda * Live(batch, c[t]) * adv[t + 1]
  BY <1>11
<1> QED
  BY <1>8, <1>13, <1>14 DEF SolvesChain

\* compute_gae_advantage_return_core, turn level: the last row of a chain has
\* advantage 0; any other has its temporal difference and, unless its episode is
\* over, the discounted advantage of the next row of its chain.
THEOREM TurnAdvantagesRecursion ==
    ASSUME NEW batch, NEW n, IsBatch(batch, n), NEW i \in 1..n,
           NEW rewards \in [1..n -> Int], NEW values \in [1..n -> Int]
    PROVE  LET c   == ChainOf(batch, i)
               t   == Place(c, i)
               adv == TurnAdvantages(batch, rewards, values)
           IN  /\ adv[i] \in Int
               /\ t = Len(c) => adv[i] = 0
               /\ t # Len(c) =>
                     adv[i] = Delta(batch, c, rewards, values, t)
                                + Gamma * Lambda * Live(batch, i) * adv[c[t + 1]]
<1> DEFINE c(j) == ChainOf(batch, j)
           adv == TurnAdvantages(batch, rewards, values)
           along(j) == ChainAdvantages(batch, c(j), rewards, values)
<1>1. ASSUME NEW j \in 1..n PROVE adv[j] = along(j)[Place(c(j), j)]
  <2> DEFINE chains == EpisodeStructure(batch)
             byChain == [chain \in chains |-> ChainAdvantages(batch, chain, rewards, values)]
             own == CHOOSE d \in chains : \E t \in DOMAIN d : d[t] = j
  <2>1. adv[j] = byChain[own][Place(own, j)]
    BY DEF TurnAdvantages, IsBatch
  <2>2. own = c(j) /\ c(j) \in chains
    BY OwnChain
  <2>3. byChain[c(j)] = along(j)
    BY <2>2
  <2> QED
    BY <2>1, <2>2, <2>3
<1> DEFINE m == Cardinality(Group(batch, i))
           t == Place(c(i), i)
<1>2. /\ m \in Nat /\ c(i) \in [1..m -> 1..n] /\ Len(c(i)) = m /\ DOMAIN c(i) = 1..m
      /\ t \in 1..m /\ c(i)[t] = i
      /\ \A s \in 1..m : Place(c(i), c(i)[s]) = s /\ c(c(i)[s]) = c(i)
  <2>1. /\ m \in Nat /\ c(i) \in [1..m -> Group(batch, i)] /\ Len(c(i)) = m /\ DOMAIN c(i) = 1..m
    BY ChainFacts
  <2>2. Group(batch, i) \subseteq 1..n /\ i \in Group(batch, i)
    BY GroupFacts
  <2>3. t \in 1..m /\ c(i)[t] = i /\ \A s \in 1..m : Place(c(i), c(i)[s]) = s
    BY <2>1, <2>2, PlaceFacts
  <2>4. \A s \in 1..m : c(c(i)[s]) = c(i)
    BY <2>1, GroupFacts
  <2> HIDE DEF m, t, c
  <2> QED
    BY <2>1, <2>2, <2>3, <2>4
<1>3. /\ along(i) \in [1..m -> Int]
      /\ \A s \in 1..m : along(i)[s] =
            IF s = m THEN 0
            ELSE Delta(batch, c(i), rewards, values, s)
                    + Gamma * Lambda * Live(batch, c(i)[s]) * along(i)[s + 1]
  <2> HIDE DEF m, t, c
  <2>1. m \in Nat /\ c(i) \in [1..m -> 1..n]
    BY <1>2
  <2>2. SolvesChain(along(i), m, batch, c(i), rewards, values)
    BY <2>1, ChainAdvantagesRecursion
  <2> HIDE DEF along
  <2> QED
    BY <2>2 DEF SolvesChain
<1>4. adv[i] = along(i)[t]
  BY <1>1
<1>5. ASSUME t # m PROVE t + 1 \in 1..m /\ adv[c(i)[t + 1]] = along(i)[t + 1]
  <2> DEFINE j == c(i)[t + 1]
  <2> HIDE DEF m, t, c
  <2>1. t + 1 \in 1..m /\ j \in 1..n
    BY <1>2, <1>5
  <2>2. adv[j] = along(j)[Place(c(j), j)]
    BY <1>1, <2>1
  <2>3. c(j) = c(i) /\ Place(c(i), j) = t + 1
    BY <1>2, <2>1
  <2> QED
    BY <2>1, <2>2, <2>3
<1> HIDE DEF adv, along, c, m, t
<1>6. adv[i] \in Int /\ (t = m => adv[i] = 0)
  BY <1>2, <1>3, <1>4
<1>7. ASSUME t # m
      PROVE  adv[i] = Delta(batch, c(i), rewards, values, t)
                        + Gamma * Lambda * Live(batch, i) * adv[c(i)[t + 1]]
  BY <1>2, <1>3, <1>4, <1>5, <1>7
<1> QED
  BY <1>2, <1>6, <1>7 DEF adv, along, c, t

\* The token-level pass gives a row with a next row its advantage and its value.
LEMMA ReturnsAgree ==
    ASSUME NEW batch, NEW n, IsBatch(batch, n), NEW i \in 1..n,
           NEW rewards \in [1..n -> Int], NEW values \in [1..n -> Int],
           Place(ChainOf(batch, i), i) # Len(ChainOf(batch, i))
    PROVE  Returns(batch, rewards, values)[i] = TurnAdvantages(batch, rewards, values)[i] + values[i]
<1> DEFINE c == ChainOf(batch, i)
           t == Place(c, i)
           adv == TurnAdvantages(batch, rewards, values)
           m == Cardinality(Group(batch, i))
<1>1. Returns(batch, rewards, values)[i] =
        rewards[i] + NextValue(batch, c, values, t) + LastGaeLam(batch, c, adv, t)
  BY DEF Returns, IsBatch
<1>2. /\ m \in Nat /\ c \in [1..m -> Group(batch, i)] /\ Len(c) = m /\ DOMAIN c = 1..m
      /\ Group(batch, i) \subseteq 1..n /\ t \in 1..m /\ c[t] = i
  <2>1. /\ m \in Nat /\ c \in [1..m -> Group(batch, i)] /\ Len(c) = m /\ DOMAIN c = 1..m
    BY ChainFacts
  <2>2. Group(batch, i) \subseteq 1..n /\ i \in Group(batch, i)
    BY GroupFacts
  <2>3. t \in DOMAIN c /\ c[t] = i
    BY <2>2, PlaceFacts
  <2> HIDE DEF m, t, c
  <2> QED
    BY <2>1, <2>2, <2>3
<1>3. adv[i] = Delta(batch, c, rewards, values, t) + Gamma * Lambda * Live(batch, i) * adv[c[t + 1]]
  BY TurnAdvantagesRecursion
<1>4. t # Len(c)
  OBVIOUS
<1> HIDE DEF c, t, m
<1>5. c[t + 1] \in 1..n
  BY <1>2, <1>4
<1>6. adv[c[t + 1]] \in Int
  BY <1>5, TurnAdvantagesRecursion
<1> HIDE DEF adv
<1> DEFINE x == adv[c[t + 1]]
           y == values[c[t + 1]]
           k == Live(batch, i)
<1>7. Returns(batch, rewards, values)[i] = rewards[i] + Gamma * y * k + Gamma * Lambda * x * k
  BY <1>1, <1>2, <1>4 DEF NextValue, LastGaeLam
<1>8. adv[i] = rewards[i] + Gamma * y * k - values[i] + Gamma * Lambda * k * x
  BY <1>2, <1>3 DEF Delta
<1>9. /\ rewards[i] \in Int /\ values[i] \in Int /\ x \in Int /\ y \in Int /\ k \in {0, 1}
      /\ Gamma \in Int /\ Lambda \in Int
  BY <1>5, <1>6, LiveIsBit, GammaAssumption
<1> HIDE DEF x, y, k
<1>10. Gamma * y * k \in Int /\ Gamma * Lambda * x * k = Gamma * Lambda * k * x
       /\ Gamma * Lambda * k * x \in Int
  BY <1>9
<1> DEFINE p == Gamma * y * k
           q == Gamma * Lambda * k * x
<1>11. /\ p \in Int /\ q \in Int
       /\ Returns(batch, rewards, values)[i] = rewards[i] + p + q
       /\ adv[i] = rewards[i] + p - values[i] + q
  BY <1>7, <1>8, <1>10
<1> HIDE DEF p, q
<1> QED
  BY <1>9, <1>11 DEF adv

-------------------------------------------------------------------------------
(* The rows after a row in its chain.                                      *)

Later(batch, i) == {k \in Group(batch, i) : InOrder(batch, i, k)}
Following(batch, i) == ChainOf(batch, i)[Place(ChainOf(batch, i), i) + 1]

\* The row after a row in its chain is the first of those after it.
LEMMA FollowingFacts ==
    ASSUME NEW batch, NEW n, IsBatch(batch, n), NEW i \in 1..n
    PROVE  LET c == ChainOf(batch, i)
               x == Following(batch, i)
           IN  /\ Place(c, i) = Len(c) <=> Later(batch, i) = {}
               /\ Later(batch, i) # {} =>
                     /\ x \in Later(batch, i) /\ x \in 1..n /\ i \notin Later(batch, i)
                     /\ Later(batch, i) = {x} \cup Later(batch, x)
<1> DEFINE c == ChainOf(batch, i)
           g == Group(batch, i)
           m == Cardinality(g)
           t == Place(c, i)
           After(j) == Later(batch, j)
<1>2. g \subseteq 1..n /\ i \in g /\ \A j \in g : Group(batch, j) = g
  BY GroupFacts
<1>3. /\ m \in Nat /\ c \in [1..m -> g] /\ Len(c) = m /\ DOMAIN c = 1..m
      /\ \A j \in g : \E u \in 1..m : c[u] = j
      /\ \A u, v \in 1..m : u < v <=> InOrder(batch, c[u], c[v])
  BY ChainFacts
<1>4. t \in 1..m /\ c[t] = i
  BY <1>2, <1>3, PlaceFacts
<1>5. \A j \in g : After(j) = {k \in g : InOrder(batch, j, k)}
  BY <1>2 DEF Later
<1>0. Following(batch, i) = c[t + 1]
  BY DEF Following
<1> HIDE DEF c, g, m, t, After
<1>6. \A u, v \in 1..m : c[v] \in After(c[u]) <=> u < v
  BY <1>3, <1>5
<1>7. \A u \in 1..m : \A j \in After(c[u]) : \E v \in 1..m : c[v] = j /\ u < v
  <2> TAKE u \in 1..m
  <2> TAKE j \in After(c[u])
  <2>1. j \in g
    BY <1>3, <1>5
  <2>2. PICK v \in 1..m : c[v] = j
    BY <1>3, <2>1
  <2> QED
    BY <1>6, <2>2
<1>8. t = m => After(i) = {}
  BY <1>3, <1>4, <1>7
<1>9. ASSUME t # m
      PROVE  /\ c[t + 1] \in After(i) /\ c[t + 1] \in 1..n /\ i \notin After(i)
             /\ After(i) = {c[t + 1]} \cup After(c[t + 1])
  <2> DEFINE x == c[t + 1]
  <2>1. t + 1 \in 1..m /\ t < t + 1
    BY <1>3, <1>4, <1>9
  <2>2. x \in After(i) /\ i \notin After(i) /\ x \in g
    BY <1>3, <1>4, <1>6, <2>1
  <2>3. After(i) \subseteq {x} \cup After(x)
    <3> SUFFICES ASSUME NEW j \in After(i), j # x PROVE j \in After(x)
      OBVIOUS
    <3>1. PICK v \in 1..m : c[v] = j /\ t < v
      BY <1>4, <1>7
    <3>2. t + 1 < v
      BY <2>1, <3>1, <1>4
    <3> QED
      BY <1>6, <2>1, <3>1, <3>2
  <2>4. After(x) \subseteq After(i)
    <3> SUFFICES ASSUME NEW j \in After(x) PROVE j \in After(i)
      OBVIOUS
    <3>1. PICK v \in 1..m : c[v] = j /\ t + 1 < v
      BY <1>7, <2>1
    <3>2. t < v
      BY <1>4, <3>1
    <3> QED
      BY <1>4, <1>6, <3>1, <3>2
  <2> QED
    BY <1>2, <2>2, <2>3, <2>4
<1>10. t = Len(c) <=> After(i) = {}
  BY <1>3, <1>8, <1>9
<1>11. After(i) # {} => t # m
  BY <1>8
<1> QED
  BY <1>0, <1>9, <1>10, <1>11 DEF c, t, After

\* What holds of the last row of every chain, and of a row when it holds of the
\* next, holds of all rows.
LEMMA AlongChains ==
    ASSUME NEW batch, NEW n, IsBatch(batch, n), NEW S,
           \A i \in 1..n : Later(batch, i) = {} => i \in S,
           \A i \in 1..n : Later(batch, i) # {} /\ Following(batch, i) \in S => i \in S
    PROVE  \A i \in 1..n : i \in S
<1> SUFFICES ASSUME NEW i \in 1..n PROVE i \in S
  OBVIOUS
<1> DEFINE c == ChainOf(batch, i)
           g == Group(batch, i)
           m == Cardinality(g)
           U == {d \in Nat : \A t \in 1..m : t = m - d => c[t] \in S}
<1>1. g \subseteq 1..n /\ i \in g
  BY GroupFacts
<1>2. /\ m \in Nat /\ c \in [1..m -> g] /\ Len(c) = m /\ DOMAIN c = 1..m
      /\ \A j \in g : \E u \in 1..m : c[u] = j
  BY ChainFacts
<1>3. \A t \in 1..m : Place(c, c[t]) = t
  BY <1>2, PlaceFacts
<1>4. \A t \in 1..m : c[t] \in 1..n /\ ChainOf(batch, c[t]) = c
  BY <1>1, <1>2, GroupFacts
<1> HIDE DEF c, g, m
<1>5. \A t \in 1..m : /\ t = m => Later(batch, c[t]) = {}
                      /\ t # m => /\ Later(batch, c[t]) # {}
                                  /\ Following(batch, c[t]) = c[t + 1]
  <2> TAKE t \in 1..m
  <2>1. t = Len(c) <=> Later(batch, c[t]) = {}
    BY <1>3, <1>4, FollowingFacts
  <2>2. Following(batch, c[t]) = c[t + 1]
    BY <1>3, <1>4 DEF Following
  <2> QED
    BY <1>2, <2>1, <2>2
<1>6. 0 \in U
  BY <1>2, <1>4, <1>5
<1>7. ASSUME NEW d \in U PROVE d + 1 \in U
  <2> SUFFICES ASSUME NEW t \in 1..m, t = m - (d + 1) PROVE c[t] \in S
    OBVIOUS
  <2>1. t # m /\ t + 1 \in 1..m /\ t + 1 = m - d
    BY <1>2
  <2>2. c[t + 1] \in S
    BY <1>7, <2>1
  <2> QED
    BY <1>4, <1>5, <2>1, <2>2
<1>8. U = Nat
  <2>1. U \in SUBSET Nat
    OBVIOUS
  <2> HIDE DEF U
  <2> QED
    BY <1>6, <1>7, <2>1, NatSet
<1>9. PICK u \in 1..m : c[u] = i
  BY <1>1, <1>2
<1>10. m - u \in Nat /\ u = m - (m - u)
  BY <1>2
<1>11. m - u \in U
  BY <1>8, <1>10
<1> QED
  BY <1>9, <1>10, <1>11

\* A row with none after it is the one that LastIndex finds in its chain.
LEMMA LastIsLast ==
    ASSUME NEW batch, NEW n, IsBatch(batch, n), NEW i \in 1..n,
           NEW j \in Group(batch, i), Later(batch, j) = {}
    PROVE  LastIndex(batch, Group(batch, i)) = j
<1> DEFINE group == Group(batch, i)
           IsLast(k) == \A l \in group \ {k} :
                            \/ batch[l].turn_id < batch[k].turn_id
                            \/ batch[l].turn_id = batch[k].turn_id /\ l < k
<1>1. /\ \A k \in group : batch[k].turn_id \in Int /\ k \in Int
      /\ \A k \in group : Group(batch, k) = group
  BY GroupFacts, SMTT(20) DEF IsBatch
<1>2. \A k \in group : ~InOrder(batch, j, k)
  BY <1>1 DEF Later
<1>3. IsLast(j)
  BY <1>1, <1>2 DEF InOrder
<1>4. ASSUME NEW k \in group, IsLast(k) PROVE k = j
  <2> SUFFICES ASSUME k # j PROVE FALSE
    OBVIOUS
  <2>1. \/ batch[j].turn_id < batch[k].turn_id
        \/ batch[j].turn_id = batch[k].turn_id /\ j < k
    BY <1>4
  <2> QED
    BY <1>2, <2>1 DEF InOrder
<1>5. LastIndex(batch, group) = CHOOSE k \in group : IsLast(k)
  BY DEF LastIndex
<1> HIDE DEF IsLast, group
<1>6. j \in group
  BY DEF group
<1> QED
  BY <1>3, <1>4, <1>5, <1>6 DEF group

LEMMA ChainEnds ==
    ASSUME NEW batch, NEW n, IsBatch(batch, n), NEW i \in 1..n
    PROVE  \E j \in Group(batch, i) : Later(batch, j) = {}
<1> DEFINE S == {k \in 1..n : \E j \in Group(batch, k) : Later(batch, j) = {}}
<1>1. \A k \in 1..n : Later(batch, k) = {} => k \in S
  BY GroupFacts
<1>2. ASSUME NEW k \in 1..n, Later(batch, k) # {}, Following(batch, k) \in S
      PROVE  k \in S
  <2>1. Following(batch, k) \in Group(batch, k)
    BY <1>2, FollowingFacts DEF Later
  <2>2. Group(batch, Following(batch, k)) = Group(batch, k)
    BY <2>1, GroupFacts
  <2> QED
    BY <1>2, <2>2
<1> HIDE DEF S
<1>3. i \in S
  BY <1>1, <1>2, AlongChains
<1> QED
  BY <1>3 DEF S

\* remove_last_turn_in_episode_multiagent keeps the rows with a row after them.
LEMMA KeptRows ==
    ASSUME NEW batch, NEW n, IsBatch(batch, n)
    PROVE  RemoveLastTurn(batch) = {i \in 1..n : Later(batch, i) # {}}
<1>1. DOMAIN batch = 1..n
  BY DEF IsBatch
<1>2. ASSUME NEW i \in 1..n
      PROVE  LastIndex(batch, Group(batch, i)) \in 1..n
             /\ Later(batch, LastIndex(batch, Group(batch, i))) = {}
  <2>1. PICK j \in Group(batch, i) : Later(batch, j) = {}
    BY ChainEnds
  <2> QED
    BY <2>1, LastIsLast, GroupFacts
<1>3. ASSUME NEW i \in 1..n, Later(batch, i) = {}
      PROVE  LastIndex(batch, Group(batch, i)) = i
  BY <1>3, LastIsLast, GroupFacts
<1> QED
  BY <1>1, <1>2, <1>3 DEF RemoveLastTurn

\* A row's advantage by that of the next row x of its chain.
GaeStep(batch, i, x, rewards, values, next) ==
    (rewards[i] + Gamma * values[x] * Live(batch, i) - values[i])
      + Gamma * Lambda * Live(batch, i) * next

\* The recursion of GAE in terms of the rows.
LEMMA AdvantageOfRow ==
    ASSUME NEW batch, NEW n, IsBatch(batch, n), NEW i \in 1..n,
           NEW rewards \in [1..n -> Int], NEW values \in [1..n -> Int]
    PROVE  LET x   == Following(batch, i)
               adv == TurnAdvantages(batch, rewards, values)
           IN  /\ adv[i] \in Int
               /\ Later(batch, i) = {} => adv[i] = 0
               /\ Later(batch, i) # {} =>
                     adv[i] = GaeStep(batch, i, x, rewards, values, adv[x])
<1> DEFINE c == ChainOf(batch, i)
           t == Place(c, i)
           adv == TurnAdvantages(batch, rewards, values)
<1>1. /\ adv[i] \in Int
      /\ t = Len(c) => adv[i] = 0
      /\ t # Len(c) => adv[i] = Delta(batch, c, rewards, values, t)
                                  + Gamma * Lambda * Live(batch, i) * adv[c[t + 1]]
  BY TurnAdvantagesRecursion
<1>2. t = Len(c) <=> Later(batch, i) = {}
  BY FollowingFacts
<1>3. c[t] = i /\ Following(batch, i) = c[t + 1]
  BY GroupFacts, PlaceFacts DEF Following
<1> HIDE DEF adv, c, t
<1> QED
  BY <1>1, <1>2, <1>3 DEF Delta, GaeStep, adv

===============================================================================
