---------------------------- MODULE AdvantageStepProofs --------------------------
(***************************************************************************)
(* Theorems about AdvantageStep for batches of any size, with any chains,  *)
(* turn numbers and discounts: which rows the trainer drops, that GAE      *)
(* computes its defining sum, and that its two passes agree.               *)
(***************************************************************************)
EXTENDS AdvantageStep, AdvantageProofs

-------------------------------------------------------------------------------
(* The order of the rows of a chain.                                       *)

\* Rows have turn numbers.
BatchInv == batch \in [1..Rows -> {r \in Row : <<r.env, r.agent>> \in Chains}]

LEMMA RowNumbers ==
    ASSUME BatchInv
    PROVE  /\ Rows \in Nat /\ DOMAIN batch = 1..Rows /\ IsFiniteSet(1..Rows)
           /\ \A i \in 1..Rows : batch[i].turn_id \in Nat
<1>1. Rows \in Nat /\ TurnIds \subseteq Nat
  BY RowsAssumption
<1>2. IsFiniteSet(1..Rows)
  BY <1>1, FS_Interval
<1>3. \A i \in 1..Rows : batch[i] \in Row
  BY DEF BatchInv
<1>4. \A i \in 1..Rows : batch[i].turn_id \in TurnIds
  BY <1>3 DEF Row
<1> QED
  BY <1>1, <1>2, <1>4 DEF BatchInv

\* After orders the rows of a chain strictly and totally.
LEMMA AfterOrders ==
    ASSUME BatchInv, NEW i \in 1..Rows
    PROVE  /\ After(i) \subseteq Group(batch, i) \ {i}
           /\ \A j \in Group(batch, i) \ {i} : j \in After(i) \/ i \in After(j)
           /\ \A j \in After(i) : i \notin After(j) /\ After(j) \subseteq After(i)
<1>1. /\ DOMAIN batch = 1..Rows /\ Rows \in Nat
      /\ \A j \in 1..Rows : batch[j].turn_id \in Nat /\ j \in Nat
  BY RowNumbers
<1>2. After(i) \subseteq Group(batch, i) \ {i}
  BY <1>1 DEF After, Group
<1>3. \A j \in Group(batch, i) \ {i} : j \in After(i) \/ i \in After(j)
  BY <1>1 DEF After, Group
<1>4. ASSUME NEW j \in After(i) PROVE i \notin After(j)
  BY <1>1, <1>4 DEF After
<1>5. ASSUME NEW j \in After(i), NEW k \in After(j) PROVE k \in After(i)
  BY <1>1, <1>5 DEF After
<1> QED
  BY <1>2, <1>3, <1>4, <1>5

LEMMA RowsAreBatch ==
    ASSUME BatchInv
    PROVE  IsBatch(batch, Rows)
BY RowNumbers DEF IsBatch

LEMMA AfterIsLater ==
    ASSUME BatchInv, NEW i \in 1..Rows
    PROVE  After(i) = Later(batch, i)
BY RowNumbers DEF After, Later, Group, InOrder

-------------------------------------------------------------------------------
(* The reference: the next row, and the sum from it on.                    *)

\* The row after a row in its chain is the first of those after it.
LEMMA NextInChain ==
    ASSUME BatchInv, NEW i \in 1..Rows, After(i) # {}
    PROVE  LET x == Following(batch, i)
           IN  /\ x \in After(i) /\ x \in 1..Rows /\ i \notin After(i)
               /\ After(i) = {x} \cup After(x)
               /\ NextRow(i) = x
<1> DEFINE x == Following(batch, i)
<1>1. IsBatch(batch, Rows) /\ After(i) = Later(batch, i)
  BY RowsAreBatch, AfterIsLater
<1>2. /\ x \in Later(batch, i) /\ x \in 1..Rows /\ i \notin Later(batch, i)
      /\ Later(batch, i) = {x} \cup Later(batch, x)
  BY <1>1, FollowingFacts
<1>3. After(x) = Later(batch, x)
  BY <1>2, AfterIsLater
<1> HIDE DEF x
<1>4. x \in After(i) /\ After(i) = {x} \cup After(x)
  BY <1>1, <1>2, <1>3
<1>5. Between(i, x) = {}
  <2> SUFFICES ASSUME NEW j \in Between(i, x) PROVE FALSE
    OBVIOUS
  <2>1. j \in After(i) /\ x \in After(j)
    BY DEF Between
  <2>2. j = x \/ j \in After(x)
    BY <1>4, <2>1
  <2>3. j \in 1..Rows /\ x \in 1..Rows
    BY <1>2, <2>1, RowNumbers DEF After
  <2> QED
    BY <2>1, <2>2, <2>3, AfterOrders
<1>6. ASSUME NEW j \in After(i), Between(i, j) = {} PROVE j = x
  <2>1. j # x => x \in Between(i, j)
    BY <1>4, <1>6 DEF Between
  <2> QED
    BY <1>6, <2>1
<1>7. NextRow(i) = x
  BY <1>4, <1>5, <1>6 DEF NextRow
<1> QED
  BY <1>1, <1>2, <1>4, <1>7 DEF x

LEMMA NextRowFacts ==
    ASSUME BatchInv, NEW i \in 1..Rows, After(i) # {}
    PROVE  LET x == NextRow(i)
           IN  /\ x \in 1..Rows /\ x \in After(i) /\ After(i) = {x} \cup After(x)
               /\ i \notin After(i) /\ x \notin After(x)
               /\ Between(i, x) = {}
               /\ \A k \in After(x) : /\ Between(i, k) = {x} \cup Between(x, k)
                                     /\ x \notin Between(x, k)
<1> DEFINE x == NextRow(i)
<1>1. x \in After(i) /\ After(i) = {x} \cup After(x)
  BY NextInChain
<1>2. x \in 1..Rows
  BY <1>1, RowNumbers DEF After
<1>3. i \notin After(i) /\ x \notin After(x) /\ i \notin After(x)
  BY <1>1, <1>2, AfterOrders
<1> HIDE DEF x
<1>4. \A k \in After(x) : Between(i, k) = {x} \cup Between(x, k) /\ x \notin Between(x, k)
  BY <1>1, <1>3 DEF Between
<1>5. Between(i, x) = {}
  <2> SUFFICES ASSUME NEW j \in After(i), x \in After(j) PROVE FALSE
    BY DEF Between
  <2>1. j = x \/ j \in After(x)
    BY <1>1
  <2>2. CASE j \in After(x)
    BY <1>2, <2>2, AfterOrders
  <2> QED
    BY <1>3, <2>1, <2>2
<1> QED
  BY <1>1, <1>2, <1>3, <1>4, <1>5 DEF x

LEMMA AfterIsFinite ==
    ASSUME BatchInv, NEW i \in 1..Rows
    PROVE  /\ After(i) \subseteq 1..Rows
           /\ IsFiniteSet(After(i)) /\ Cardinality(After(i)) \in Nat
           /\ \A k : /\ IsFiniteSet(Between(i, k)) /\ Cardinality(Between(i, k)) \in Nat
                     /\ Between(i, k) \subseteq 1..Rows
<1>1. After(i) \subseteq 1..Rows /\ IsFiniteSet(1..Rows)
  BY RowNumbers DEF After
<1>2. IsFiniteSet(After(i))
  BY <1>1, FS_Subset
<1>3. \A k : Between(i, k) \subseteq After(i)
  BY DEF Between
<1>4. \A k : IsFiniteSet(Between(i, k))
  BY <1>2, <1>3, FS_Subset
<1> QED
  BY <1>1, <1>2, <1>3, <1>4, FS_CardinalityType

\* The distance to a row is one more than from the next row.
LEMMA DistanceStep ==
    ASSUME BatchInv, NEW i \in 1..Rows, After(i) # {}
    PROVE  /\ Distance(i, i) = 0
           /\ \A k \in After(i) : /\ Distance(i, k) = Distance(NextRow(i), k) + 1
                                  /\ Distance(NextRow(i), k) \in Nat
<1> DEFINE x == NextRow(i)
<1>1. /\ x \in 1..Rows /\ After(i) = {x} \cup After(x) /\ i \notin After(i) /\ x \notin After(x)
      /\ Between(i, x) = {}
      /\ \A k \in After(x) : Between(i, k) = {x} \cup Between(x, k) /\ x \notin Between(x, k)
  BY NextRowFacts
<1> HIDE DEF x
<1>2. \A k : IsFiniteSet(Between(x, k)) /\ Cardinality(Between(x, k)) \in Nat
  BY <1>1, AfterIsFinite
<1>3. Distance(i, i) = 0 /\ Distance(x, x) = 0
  BY DEF Distance
<1>4. Distance(i, x) = 1
  BY <1>1, FS_EmptySet DEF Distance
<1>5. ASSUME NEW k \in After(x)
      PROVE  Distance(i, k) = Distance(x, k) + 1 /\ Distance(x, k) \in Nat
  <2>1. Cardinality({x} \cup Between(x, k)) = Cardinality(Between(x, k)) + 1
    <3>1. x \notin Between(x, k) /\ {x} \cup Between(x, k) = Between(x, k) \cup {x}
      BY <1>1
    <3> QED
      BY <1>2, <3>1, FS_AddElement
  <2>2. k # i /\ k # x
    BY <1>1
  <2>3. Distance(i, k) = Cardinality(Between(i, k)) + 1
    BY <2>2 DEF Distance
  <2>4. Distance(x, k) = Cardinality(Between(x, k)) + 1
    BY <2>2 DEF Distance
  <2>5. Cardinality(Between(i, k)) = Cardinality(Between(x, k)) + 1
    BY <1>1, <2>1
  <2> QED
    BY <1>2, <2>3, <2>4, <2>5
<1> QED
  BY <1>1, <1>3, <1>4, <1>5 DEF x

\* What is reached from a row is the row and, unless it ends its episode, what
\* is reached from the next.
LEMMA ReachesStep ==
    ASSUME BatchInv, NEW i \in 1..Rows, After(i) # {}, NEW k
    PROVE  /\ Reaches(i, k) <=> k = i \/ (~batch[i].done /\ Reaches(NextRow(i), k))
           /\ Reaches(NextRow(i), k) => k \in After(i)
<1> DEFINE x == NextRow(i)
<1>1. /\ x \in 1..Rows /\ After(i) = {x} \cup After(x) /\ i \notin After(i) /\ x \notin After(x)
      /\ Between(i, x) = {}
      /\ \A j \in After(x) : Between(i, j) = {x} \cup Between(x, j)
  BY NextRowFacts
<1> HIDE DEF x
<1>2. Reaches(x, k) => k \in After(i)
  BY <1>1 DEF Reaches
<1>3. CASE k = i
  <2>1. Reaches(i, k)
    BY <1>3 DEF Reaches
  <2> QED
    BY <1>2, <1>3, <2>1 DEF x
<1>4. CASE k = x
  <2>1. Reaches(i, x) <=> After(x) # {} /\ ~batch[i].done
    BY <1>1 DEF Reaches
  <2>2. Reaches(x, x) <=> After(x) # {}
    BY DEF Reaches
  <2>3. x # i
    BY <1>1
  <2> QED
    BY <1>2, <1>4, <2>1, <2>2, <2>3 DEF x
<1>5. CASE k \in After(x)
  <2>1. Between(i, k) = {x} \cup Between(x, k) /\ k # i /\ k # x /\ k \in After(i)
    BY <1>1, <1>5
  <2>2. Reaches(i, k) <=> /\ After(k) # {} /\ ~batch[i].done
                          /\ \A j \in {x} \cup Between(x, k) : ~batch[j].done
    BY <2>1 DEF Reaches
  <2>3. Reaches(x, k) <=> /\ After(k) # {} /\ ~batch[x].done
                          /\ \A j \in Between(x, k) : ~batch[j].done
    BY <1>5, <2>1 DEF Reaches
  <2> QED
    BY <1>2, <2>1, <2>2, <2>3 DEF x
<1>6. CASE k # i /\ k # x /\ k \notin After(x)
  BY <1>1, <1>6 DEF Reaches, x
<1> QED
  BY <1>2, <1>3, <1>4, <1>5, <1>6 DEF x

\* (Gamma * Lambda) ^ n is defined for every n.
LEMMA DiscountRecursion ==
    /\ Discount \in [Nat -> Int]
    /\ Discount[0] = 1
    /\ \A n \in Nat : Discount[n + 1] = Gamma * Lambda * Discount[n]
<1> DEFINE c == Gamma * Lambda
<1>1. c \in Int
  BY GammaAssumption
<1>2. Discount = CHOOSE d : d = [n \in Nat |-> IF n = 0 THEN 1 ELSE c * d[n - 1]]
  BY DEF Discount
<1> HIDE DEF c
<1>3. /\ Discount \in [Nat -> Int] /\ Discount[0] = 1
      /\ \A n \in Nat : Discount[n + 1] = c * Discount[n]
  BY <1>1, <1>2, Powers
<1> QED
  BY <1>3 DEF c

RowsTyped == rewards \in [1..Rows -> Int] /\ values \in [1..Rows -> Int]

LEMMA TDErrorType ==
    ASSUME BatchInv, RowsTyped, NEW i \in 1..Rows, After(i) # {}
    PROVE  TDError(i) \in Int
<1>1. NextRow(i) \in 1..Rows
  BY NextRowFacts
<1>2. rewards[i] \in Int /\ values[i] \in Int /\ values[NextRow(i)] \in Int /\ Gamma \in Int
  BY <1>1, GammaAssumption DEF RowsTyped
<1>3. Gamma * values[NextRow(i)] \in Int
  BY <1>2
<1> QED
  BY <1>2, <1>3 DEF TDError

ReachedFrom(i) == {j \in DOMAIN batch : Reaches(i, j)}
Terms(i) == [k \in ReachedFrom(i) |-> Discount[Distance(i, k)] * TDError(k)]

LEMMA ReachedFromFacts ==
    ASSUME BatchInv, RowsTyped, NEW i \in 1..Rows
    PROVE  /\ IsFiniteSet(ReachedFrom(i)) /\ ReachedFrom(i) \subseteq 1..Rows
           /\ \A k \in ReachedFrom(i) : k = i \/ k \in After(i)
           /\ \A k \in ReachedFrom(i) : Distance(i, k) \in Nat /\ TDError(k) \in Int
                                        /\ Terms(i)[k] \in Int
<1>1. DOMAIN batch = 1..Rows /\ IsFiniteSet(1..Rows)
  BY RowNumbers
<1>2. IsFiniteSet(ReachedFrom(i)) /\ ReachedFrom(i) \subseteq 1..Rows
  BY <1>1, FS_Subset DEF ReachedFrom
<1>3. \A k \in ReachedFrom(i) : (k = i \/ k \in After(i)) /\ After(k) # {}
  BY DEF ReachedFrom, Reaches
<1>4. ASSUME NEW k \in ReachedFrom(i)
      PROVE  Distance(i, k) \in Nat /\ TDError(k) \in Int /\ Terms(i)[k] \in Int
  <2>1. Distance(i, k) \in Nat
    BY AfterIsFinite DEF Distance
  <2>2. TDError(k) \in Int
    BY <1>2, <1>3, TDErrorType
  <2>3. Discount[Distance(i, k)] \in Int
    BY <2>1, DiscountRecursion
  <2>4. Terms(i)[k] = Discount[Distance(i, k)] * TDError(k)
    BY DEF Terms
  <2> QED
    BY <2>1, <2>2, <2>3, <2>4
<1> QED
  BY <1>2, <1>3, <1>4

\* The defining sum, unrolled by one row.
LEMMA LambdaSumRecursion ==
    ASSUME BatchInv, RowsTyped, NEW i \in 1..Rows
    PROVE  /\ LambdaSum(i) \in Int
           /\ After(i) = {} => LambdaSum(i) = 0
           /\ After(i) # {} =>
                 LambdaSum(i) = TDError(i) + IF batch[i].done THEN 0
                                             ELSE Gamma * Lambda * LambdaSum(NextRow(i))
<1> DEFINE R(j) == ReachedFrom(j)
<1>1. \A j \in 1..Rows : LambdaSum(j) = SumFunctionOnSet(Terms(j), R(j))
  BY DEF LambdaSum, SumFunction, Terms, ReachedFrom
<1>2. \A j \in 1..Rows : IsFiniteSet(R(j)) /\ \A k \in R(j) : Terms(j)[k] \in Int
  BY ReachedFromFacts
<1>3. \A j \in 1..Rows : LambdaSum(j) \in Int
  <2> HIDE DEF R
  <2> QED
    BY <1>1, <1>2, SumInt
<1>4. ASSUME After(i) = {} PROVE LambdaSum(i) = 0
  <2>1. R(i) = {}
    BY <1>4 DEF ReachedFrom, Reaches
  <2> QED
    BY <1>1, <2>1, SumEmpty
<1>5. ASSUME After(i) # {}
      PROVE  LambdaSum(i) = TDError(i) + IF batch[i].done THEN 0
                                         ELSE Gamma * Lambda * LambdaSum(NextRow(i))
  <2> DEFINE x == NextRow(i)
             c == Gamma * Lambda
  <2>1. x \in 1..Rows /\ i \notin After(i)
    BY <1>5, NextRowFacts
  <2>2. \A k : Reaches(i, k) <=> k = i \/ (~batch[i].done /\ Reaches(x, k))
    BY <1>5, ReachesStep
  <2>3. \A k : Reaches(x, k) => k \in After(i)
    BY <1>5, ReachesStep
  <2> HIDE DEF x
  <2>4. i \in DOMAIN batch
    BY RowNumbers
  <2>5. i \in R(i) /\ R(i) \ {i} = IF batch[i].done THEN {} ELSE R(x)
    BY <2>1, <2>2, <2>3, <2>4 DEF ReachedFrom
  <2>6. LambdaSum(i) = Terms(i)[i] + SumFunctionOnSet(Terms(i), R(i) \ {i})
    <3> HIDE DEF R
    <3> QED
      BY <1>1, <1>2, <2>5, SumRemove
  <2>7. Terms(i)[i] = TDError(i) /\ TDError(i) \in Int
    <3>1. Terms(i)[i] = Discount[0] * TDError(i)
      BY <1>5, <2>5, DistanceStep DEF Terms
    <3> QED
      BY <1>5, <3>1, DiscountRecursion, TDErrorType
  <2>8. CASE batch[i].done
    BY <2>5, <2>6, <2>7, <2>8, SumEmpty
  <2>9. CASE ~batch[i].done
    <3>1. R(i) \ {i} = R(x)
      BY <2>5, <2>9
    <3>2. ASSUME NEW k \in R(x)
          PROVE  Terms(i)[k] \in Int /\ Terms(x)[k] \in Int /\ Terms(i)[k] = c * Terms(x)[k]
      <4>1. k \in R(i) /\ k \in After(i)
        BY <2>3, <3>1, <3>2 DEF ReachedFrom
      <4>2. Distance(i, k) = Distance(x, k) + 1 /\ Distance(x, k) \in Nat
        BY <1>5, <4>1, DistanceStep DEF x
      <4>3. Discount[Distance(i, k)] = c * Discount[Distance(x, k)]
        BY <4>2, DiscountRecursion
      <4>4. Discount[Distance(x, k)] \in Int /\ TDError(k) \in Int /\ c \in Int
        <5>1. Discount[Distance(x, k)] \in Int
          BY <4>2, DiscountRecursion
        <5>2. TDError(k) \in Int
          BY <2>1, ReachedFromFacts
        <5> QED
          BY <5>1, <5>2, GammaAssumption
      <4>5. Terms(i)[k] = Discount[Distance(i, k)] * TDError(k)
        BY <4>1 DEF Terms
      <4>6. Terms(x)[k] = Discount[Distance(x, k)] * TDError(k)
        BY DEF Terms
      <4> DEFINE d == Discount[Distance(x, k)]
                 e == TDError(k)
      <4>7. Terms(i)[k] = (c * d) * e /\ Terms(x)[k] = d * e /\ d \in Int /\ e \in Int /\ c \in Int
        BY <4>3, <4>4, <4>5, <4>6
      <4> HIDE DEF d, e, c
      <4>8. (c * d) * e = c * (d * e) /\ d * e \in Int /\ c * (d * e) \in Int
        BY <4>7
      <4> QED
        BY <4>7, <4>8
    <3>3. SumFunctionOnSet(Terms(i), R(x)) = c * SumFunctionOnSet(Terms(x), R(x))
      <4>1. IsFiniteSet(R(x)) /\ c \in Int
        BY <1>2, <2>1, GammaAssumption
      <4> HIDE DEF c, R
      <4> QED
        BY <3>2, <4>1, SumScaled
    <3>4. SumFunctionOnSet(Terms(x), R(x)) = LambdaSum(x)
      BY <1>1, <2>1
    <3> QED
      BY <2>6, <2>7, <2>9, <3>1, <3>3, <3>4 DEF x
  <2> QED
    BY <2>8, <2>9
<1> QED
  BY <1>3, <1>4, <1>5

\* GAE's recursion computes GAE's sum.
LEMMA AdvantagesAreSums ==
    ASSUME BatchInv, RowsTyped
    PROVE  \A i \in 1..Rows : TurnAdvantages(batch, rewards, values)[i] = LambdaSum(i)
<1> DEFINE adv == TurnAdvantages(batch, rewards, values)
           S == {i \in 1..Rows : adv[i] = LambdaSum(i)}
<1>1. IsBatch(batch, Rows) /\ \A i \in 1..Rows : After(i) = Later(batch, i)
  BY RowsAreBatch, AfterIsLater
<1>2. ASSUME NEW i \in 1..Rows, Later(batch, i) = {} PROVE i \in S
  <2>1. adv[i] = 0
    BY <1>1, <1>2, AdvantageOfRow DEF RowsTyped
  <2> QED
    BY <1>1, <1>2, <2>1, LambdaSumRecursion
<1>3. ASSUME NEW i \in 1..Rows, Later(batch, i) # {}, Following(batch, i) \in S
      PROVE  i \in S
  <2> DEFINE x == Following(batch, i)
  <2>1. x = NextRow(i) /\ x \in 1..Rows /\ adv[x] = LambdaSum(x)
    BY <1>1, <1>3, NextInChain
  <2>2. adv[x] \in Int
    BY <1>1, <2>1, AdvantageOfRow DEF RowsTyped
  <2>3. adv[i] = GaeStep(batch, i, x, rewards, values, adv[x])
    BY <1>1, <1>3, AdvantageOfRow DEF RowsTyped
  <2>4. LambdaSum(i) = TDError(i) + IF batch[i].done THEN 0 ELSE Gamma * Lambda * LambdaSum(x)
    BY <1>1, <1>3, <2>1, LambdaSumRecursion
  <2>5. TDError(i) = rewards[i] - values[i] + IF batch[i].done THEN 0 ELSE Gamma * values[x]
    BY <2>1 DEF TDError
  <2> HIDE DEF x, adv
  <2>6. /\ rewards[i] \in Int /\ values[i] \in Int /\ values[x] \in Int
        /\ Gamma \in Int /\ Lambda \in Int
    BY <2>1, GammaAssumption DEF RowsTyped
  <2> DEFINE p == Gamma * values[x]
             q == Gamma * Lambda * adv[x]
  <2>7. p \in Int /\ q \in Int
    BY <2>2, <2>6
  <2>8. CASE batch[i].done
    <3>1. Live(batch, i) = 0
      BY <2>8 DEF Live
    <3>2. p * 0 = 0 /\ Gamma * Lambda * 0 * adv[x] = 0
      BY <2>2, <2>6, <2>7
    <3>3. adv[i] = rewards[i] + 0 - values[i] + 0
      BY <2>3, <3>1, <3>2 DEF GaeStep
    <3> QED
      BY <2>4, <2>5, <2>6, <2>8, <3>3
  <2>9. CASE ~batch[i].done
    <3>1. Live(batch, i) = 1
      BY <2>9 DEF Live
    <3>2. p * 1 = p /\ Gamma * Lambda * 1 * adv[x] = q
      BY <2>2, <2>6, <2>7
    <3>3. adv[i] = rewards[i] + p - values[i] + q
      BY <2>3, <3>1, <3>2 DEF GaeStep
    <3>4. LambdaSum(i) = rewards[i] - values[i] + p + q
      BY <2>1, <2>4, <2>5, <2>9
    <3> HIDE DEF p, q
    <3> QED
      BY <2>6, <2>7, <3>3, <3>4
  <2> QED
    BY <2>8, <2>9
<1> HIDE DEF S
<1>4. \A i \in 1..Rows : i \in S
  BY <1>1, <1>2, <1>3, AlongChains
<1> QED
  BY <1>4 DEF S

-------------------------------------------------------------------------------
(* The step of the trainer.                                                *)

StepInv ==
    /\ BatchInv
    /\ RowsTyped
    /\ stage \in {"values", "advantage", "strip", "train"}
    /\ stage # "values" => /\ advantages = TurnAdvantages(batch, rewards, values)
                           /\ returns = Returns(batch, rewards, values)
    /\ stage = "strip" => trained = RemoveLastTurn(batch)
    /\ stage = "train" => trained \subseteq RemoveLastTurn(batch)

LEMMA StepInvHolds == Spec => []StepInv
<1>1. Init => StepInv
  <2> SUFFICES ASSUME Init PROVE StepInv
    OBVIOUS
  <2>1. Zero \in [1..Rows -> Int] /\ \A k \in 1..Rows : Unit(k) \in [1..Rows -> Int]
    BY DEF Zero, Unit
  <2>2. RowsTyped
    BY <2>1 DEF Init, RowsTyped
  <2> QED
    BY <2>2 DEF Init, StepInv, BatchInv
<1>2. StepInv /\ [Next]_vars => StepInv'
  <2> SUFFICES ASSUME StepInv, [Next]_vars PROVE StepInv'
    OBVIOUS
  <2>1. CASE ComputeAdvantage
    BY <2>1 DEF ComputeAdvantage, StepInv, BatchInv, RowsTyped
  <2>2. CASE Strip
    BY <2>2 DEF Strip, StepInv, BatchInv, RowsTyped
  <2>3. CASE Sample
    <3>1. trained' \subseteq trained /\ trained = RemoveLastTurn(batch)
      BY <2>3 DEF Sample, StepInv
    <3> QED
      BY <2>3, <3>1 DEF Sample, StepInv, BatchInv, RowsTyped
  <2>4. CASE Trained \/ UNCHANGED vars
    BY <2>4 DEF Trained, vars, StepInv, BatchInv, RowsTyped
  <2> QED
    BY <2>1, <2>2, <2>3, <2>4 DEF Next
<1> QED
  BY <1>1, <1>2, PTL DEF Spec

\* For batches of any size, with any chains, turn numbers and discounts: the
\* rows that remove_last_turn_in_episode_multiagent drops (ray_trainer.py:96)
\* are the rows that have no next row for GAE to look at.
THEOREM DropsRowsWithoutNextHolds == Spec => []DropsRowsWithoutNext
<1>1. StepInv => DropsRowsWithoutNext
  <2> SUFFICES ASSUME StepInv PROVE RemoveLastTurn(batch) = {i \in DOMAIN batch : After(i) # {}}
    BY DEF StepInv, DropsRowsWithoutNext
  <2>1. BatchInv
    BY DEF StepInv
  <2>2. DOMAIN batch = 1..Rows /\ IsBatch(batch, Rows)
    BY <2>1, RowNumbers, RowsAreBatch
  <2>3. \A i \in 1..Rows : After(i) = Later(batch, i)
    BY <2>1, AfterIsLater
  <2> QED
    BY <2>2, <2>3, KeptRows
<1> QED
  BY <1>1, StepInvHolds, PTL

\* Likewise: the advantage of every row is the discounted sum of the temporal
\* differences of its own agent's turns, up to the end of the episode
\* (core_algos.py:293).
THEOREM AdvantageIsLambdaSumHolds == Spec => []AdvantageIsLambdaSum
<1>1. StepInv => AdvantageIsLambdaSum
  BY AdvantagesAreSums, RowNumbers DEF StepInv, AdvantageIsLambdaSum
<1> QED
  BY <1>1, StepInvHolds, PTL

\* Likewise: on the first token of every row that is trained on the returns of
\* the token-level pass are the turn's advantage plus the value
\* (core_algos.py:316).
THEOREM TokensAgreeWithTurnsHolds == Spec => []TokensAgreeWithTurns
<1>1. StepInv => TokensAgreeWithTurns
  <2> SUFFICES ASSUME StepInv, stage = "train", NEW i \in trained
               PROVE  returns[i] = advantages[i] + values[i]
    BY DEF TokensAgreeWithTurns
  <2>1. /\ BatchInv /\ RowsTyped /\ i \in RemoveLastTurn(batch)
        /\ advantages = TurnAdvantages(batch, rewards, values)
        /\ returns = Returns(batch, rewards, values)
    BY DEF StepInv
  <2>2. i \in 1..Rows /\ After(i) # {}
    BY <2>1, RowsAreBatch, KeptRows, AfterIsLater
  <2>3. Place(ChainOf(batch, i), i) # Len(ChainOf(batch, i))
    BY <2>1, <2>2, RowsAreBatch, AfterIsLater, FollowingFacts
  <2> QED
    BY <2>1, <2>2, <2>3, RowsAreBatch, ReturnsAgree DEF RowsTyped
<1> QED
  BY <1>1, StepInvHolds, PTL
===============================================================================
