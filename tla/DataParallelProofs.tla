-------------------------- MODULE DataParallelProofs --------------------------
(***************************************************************************)
(* Theorems about SeqlenBalancing and DataParallel, for every size of the  *)
(* batch and of the groups, all lengths of the rows and any order in which *)
(* the ranks run.                                                          *)
(***************************************************************************)
EXTENDS DataParallel, InductionFacts

-------------------------------------------------------------------------------
(* Rearranged sequences.                                                   *)

IsPermutation(p, n) ==
    /\ p \in [1..n -> 1..n]
    /\ \A i, j \in 1..n : p[i] = p[j] => i = j
    /\ \A j \in 1..n : \E i \in 1..n : p[i] = j

\* A sequence is not changed by its evaluation.
LEMMA EvaluatedIsSame ==
    ASSUME NEW A, NEW s \in Seq(A)
    PROVE  Evaluated(s) = s
<1>1. SubSeq(s, 1, Len(s)) \in Seq(A) /\ Len(SubSeq(s, 1, Len(s))) = Len(s)
  OBVIOUS
<1>2. \A i \in 1..Len(s) : SubSeq(s, 1, Len(s))[i] = s[i]
  OBVIOUS
<1>3. SubSeq(s, 1, Len(s)) = s
  BY <1>1, <1>2
<1> QED
  BY <1>3 DEF Evaluated

\* SortedBy of the positions 1 to n is a permutation, in order.
LEMMA PlacesArePermutation ==
    ASSUME NEW n \in Nat, NEW ahead, IsOrder(1..n, ahead)
    PROVE  /\ IsPermutation(SortedBy(1..n, ahead), n)
           /\ \A i, j \in 1..n :
                 i < j <=> SortedBy(1..n, ahead)[i] \in ahead[SortedBy(1..n, ahead)[j]]
<1>1. IsFiniteSet(1..n) /\ Cardinality(1..n) = n
  BY FS_Interval
<1> DEFINE p == SortedBy(1..n, ahead)
           S == 1..n
<1>2. /\ p \in [1..n -> 1..n]
      /\ \A x \in 1..n : \E k \in 1..n : p[k] = x
      /\ \A k, l \in 1..n : k < l <=> p[k] \in ahead[p[l]]
  <2> DEFINE m == Cardinality(S)
  <2>1. IsFiniteSet(S) /\ IsOrder(S, ahead)
    BY <1>1
  <2>2. m = n
    BY <1>1
  <2> HIDE DEF S
  <2>3. /\ SortedBy(S, ahead) \in [1..m -> S]
        /\ \A x \in S : \E k \in 1..m : SortedBy(S, ahead)[k] = x
        /\ \A k, l \in 1..m :
              k < l <=> SortedBy(S, ahead)[k] \in ahead[SortedBy(S, ahead)[l]]
    BY <2>1, SortedByOrder
  <2> HIDE DEF m
  <2> QED
    BY <2>2, <2>3 DEF S
<1> HIDE DEF p
<1>3. \A x \in 1..n : x \notin ahead[x]
  BY DEF IsOrder
<1>4. \A i, j \in 1..n : p[i] = p[j] => i = j
  <2> SUFFICES ASSUME NEW i \in 1..n, NEW j \in 1..n, p[i] = p[j] PROVE i = j
    OBVIOUS
  <2>1. p[i] \in 1..n /\ p[i] \notin ahead[p[j]] /\ p[j] \notin ahead[p[i]]
    BY <1>2, <1>3
  <2>2. ~(i < j) /\ ~(j < i)
    BY <1>2, <2>1
  <2> QED
    BY <2>2
<1> QED
  BY <1>2, <1>4 DEF IsPermutation, p

\* Arranged has the elements of the sequence, each at another place.
LEMMA ArrangedFacts ==
    ASSUME NEW A, NEW s \in Seq(A), NEW ahead, IsOrder(1..Len(s), ahead)
    PROVE  \E p : /\ IsPermutation(p, Len(s))
                  /\ Arranged(s, ahead) \in Seq(A) /\ Len(Arranged(s, ahead)) = Len(s)
                  /\ \A i \in 1..Len(s) : Arranged(s, ahead)[i] = s[p[i]]
                  /\ \A i, j \in 1..Len(s) : i < j <=> p[i] \in ahead[p[j]]
<1> DEFINE n == Len(s)
           p == SortedBy(1..n, ahead)
           t == [k \in 1..n |-> s[p[k]]]
<1>1. n \in Nat /\ DOMAIN s = 1..n
  OBVIOUS
<1>2. IsPermutation(p, n) /\ \A i, j \in 1..n : i < j <=> p[i] \in ahead[p[j]]
  BY <1>1, PlacesArePermutation, Zenon
<1>3. Arranged(s, ahead) = Evaluated(t)
  BY <1>1 DEF Arranged
<1> HIDE DEF p
<1>4. t \in Seq(A) /\ Len(t) = n /\ \A i \in 1..n : t[i] = s[p[i]]
  BY <1>1, <1>2 DEF IsPermutation
<1>5. Evaluated(t) = t
  <2> HIDE DEF t
  <2> QED
    BY <1>4, EvaluatedIsSame
<1> QED
  BY <1>2, <1>3, <1>4, <1>5

-------------------------------------------------------------------------------
(* Sums of lengths.                                                        *)

\* The sums over two sets without a common element add up.
LEMMA SumUnion ==
    ASSUME NEW S, IsFiniteSet(S), NEW f, \A x \in S : f[x] \in Int,
           NEW A \in SUBSET S, NEW B \in SUBSET S, A \cap B = {}
    PROVE  SumFunctionOnSet(f, A \cup B) = SumFunctionOnSet(f, A) + SumFunctionOnSet(f, B)
<1> DEFINE G == {T \in SUBSET A : SumFunctionOnSet(f, T \cup B)
                                    = SumFunctionOnSet(f, T) + SumFunctionOnSet(f, B)}
<1>1. SumFunctionOnSet(f, B) \in Int
  BY SumInt, FS_Subset
<1>2. {} \in G
  <2>1. {} \cup B = B
    OBVIOUS
  <2>2. SumFunctionOnSet(f, {}) = 0
    BY SumEmpty
  <2> QED
    BY <1>1, <2>1, <2>2
<1>3. ASSUME NEW T \in SUBSET A, NEW x \in T, T \ {x} \in G PROVE T \in G
  <2> DEFINE U == T \cup B
             V == T \ {x}
  <2>1. IsFiniteSet(T) /\ IsFiniteSet(U) /\ IsFiniteSet(V)
    <3>1. T \subseteq S /\ U \subseteq S /\ V \subseteq S
      OBVIOUS
    <3> QED
      BY <3>1, FS_Subset
  <2>2. x \in U /\ U \ {x} = V \cup B
    OBVIOUS
  <2>3. \A y \in U : f[y] \in Int
    OBVIOUS
  <2>4. SumFunctionOnSet(f, U) = f[x] + SumFunctionOnSet(f, U \ {x})
    <3> HIDE DEF U
    <3> QED
      BY <2>1, <2>2, <2>3, SumRemove
  <2>5. SumFunctionOnSet(f, T) = f[x] + SumFunctionOnSet(f, V)
    BY <2>1, SumRemove
  <2>6. SumFunctionOnSet(f, V \cup B) = SumFunctionOnSet(f, V) + SumFunctionOnSet(f, B)
    BY <1>3
  <2>7. f[x] \in Int /\ SumFunctionOnSet(f, V) \in Int
    BY <2>1, SumInt
  <2> HIDE DEF U, V
  <2>8. SumFunctionOnSet(f, U) = f[x] + SumFunctionOnSet(f, V \cup B)
    BY <2>2, <2>4
  <2>9. SumFunctionOnSet(f, U) = SumFunctionOnSet(f, T) + SumFunctionOnSet(f, B)
    BY <1>1, <2>5, <2>6, <2>7, <2>8
  <2> QED
    BY <2>9 DEF U
<1>4. G \in SUBSET SUBSET A /\ IsFiniteSet(A)
  BY FS_Subset
<1>5. A \in G
  <2> HIDE DEF G
  <2> QED
    BY <1>2, <1>3, <1>4, SubsetInduction
<1> QED
  BY <1>5

\* A sum of positive numbers is positive, unless it is empty.
LEMMA SumPositive ==
    ASSUME NEW S, IsFiniteSet(S), NEW f, \A x \in S : f[x] \in Nat \ {0},
           NEW A \in SUBSET S
    PROVE  /\ SumFunctionOnSet(f, A) \in Nat
           /\ SumFunctionOnSet(f, A) = 0 <=> A = {}
<1> DEFINE G == {T \in SUBSET A : SumFunctionOnSet(f, T) \in Nat}
<1>1. {} \in G
  BY SumEmpty
<1>2. ASSUME NEW T \in SUBSET A, NEW x \in T PROVE
        SumFunctionOnSet(f, T) = f[x] + SumFunctionOnSet(f, T \ {x}) /\ f[x] \in Nat \ {0}
  <2>1. T \subseteq S /\ f[x] \in Nat \ {0}
    OBVIOUS
  <2>2. IsFiniteSet(T) /\ \A y \in T : f[y] \in Int
    BY <2>1, FS_Subset
  <2> QED
    BY <2>1, <2>2, SumRemove
<1>3. ASSUME NEW T \in SUBSET A, NEW x \in T, T \ {x} \in G PROVE T \in G
  BY <1>2, <1>3
<1>4. G \in SUBSET SUBSET A /\ IsFiniteSet(A)
  BY FS_Subset
<1>5. \A T \in SUBSET A : T \in G
  <2> TAKE T \in SUBSET A
  <2> DEFINE H == {U \in SUBSET T : U \in G}
  <2>1. IsFiniteSet(T) /\ H \in SUBSET SUBSET T
    BY <1>4, FS_Subset
  <2>2. {} \in H
    BY <1>1
  <2>3. ASSUME NEW U \in SUBSET T, NEW x \in U, U \ {x} \in H PROVE U \in H
    BY <1>3, <2>3
  <2>4. T \in H
    <3> HIDE DEF H
    <3> QED
      BY <2>1, <2>2, <2>3, SubsetInduction
  <2> QED
    BY <2>4
<1>6. A # {} => SumFunctionOnSet(f, A) # 0
  <2> SUFFICES ASSUME NEW x \in A PROVE SumFunctionOnSet(f, A) # 0
    OBVIOUS
  <2>1. A \ {x} \in G
    BY <1>5
  <2>2. SumFunctionOnSet(f, A) = f[x] + SumFunctionOnSet(f, A \ {x}) /\ f[x] \in Nat \ {0}
    BY <1>2
  <2> QED
    BY <2>1, <2>2
<1> QED
  BY <1>5, <1>6, SumEmpty

-------------------------------------------------------------------------------
(* The sets of karmarkar_karp and their order.                             *)

Sets(m) == [sum : Int, items : Seq(1..m)]

\* Set.__lt__ looks at the sum, the number of items and the first item.
First(a) == IF a.items = <<>> THEN 0 ELSE Head(a.items)

LEMMA SetKey ==
    ASSUME NEW m \in Nat, NEW a \in Sets(m)
    PROVE  a.sum \in Int /\ Len(a.items) \in Nat /\ First(a) \in Int
<1>1. a.sum \in Int /\ a.items \in Seq(1..m)
  BY DEF Sets
<1>2. a.items # <<>> => Head(a.items) \in 1..m
  BY <1>1
<1> QED
  BY <1>1, <1>2 DEF First

LEMMA SetLessByKey ==
    ASSUME NEW m \in Nat, NEW a \in Sets(m), NEW b \in Sets(m)
    PROVE  SetLess(a, b) <=>
              \/ a.sum < b.sum
              \/ a.sum = b.sum /\ Len(a.items) < Len(b.items)
              \/ a.sum = b.sum /\ Len(a.items) = Len(b.items) /\ First(a) < First(b)
<1>1. a.items \in Seq(1..m) /\ b.items \in Seq(1..m)
  BY DEF Sets
<1>2. Len(a.items) = Len(b.items) => (a.items = <<>> <=> b.items = <<>>)
  BY <1>1
<1> QED
  BY <1>2 DEF SetLess, First

\* A strict order, of which sets with equal keys are not part.
LEMMA SetOrder ==
    ASSUME NEW m \in Nat, NEW a \in Sets(m), NEW b \in Sets(m), NEW c \in Sets(m)
    PROVE  /\ ~SetLess(a, a)
           /\ SetLess(a, b) => ~SetLess(b, a) /\ a.sum <= b.sum
           /\ ~SetLess(a, b) => b.sum <= a.sum
           /\ SetLess(a, b) /\ ~SetLess(c, b) => SetLess(a, c)
           /\ SetLess(a, b) /\ ~SetLess(a, c) => SetLess(c, b)
           /\ ~SetLess(a, b) /\ ~SetLess(b, c) => ~SetLess(a, c)
           /\ ~SetLess(a, b) /\ ~SetLess(b, a) =>
                 a.sum = b.sum /\ Len(a.items) = Len(b.items) /\ First(a) = First(b)
<1> DEFINE Before(x, y) == \/ x.sum < y.sum
                           \/ x.sum = y.sum /\ Len(x.items) < Len(y.items)
                           \/ x.sum = y.sum /\ Len(x.items) = Len(y.items) /\ First(x) < First(y)
<1>1. \A x \in {a, b, c} : x.sum \in Int /\ Len(x.items) \in Nat /\ First(x) \in Int
  BY SetKey
<1>2. \A x, y \in {a, b, c} : SetLess(x, y) <=> Before(x, y)
  BY SetLessByKey
<1> QED
  BY <1>1, <1>2, SMTT(20)

\* sorted(self.sets, reverse=True) has every set once, by decreasing sums.
LEMMA DecreasingFacts ==
    ASSUME NEW m \in Nat, NEW sets \in Seq(Sets(m))
    PROVE  \E p : /\ IsPermutation(p, Len(sets))
                  /\ Decreasing(sets) \in Seq(Sets(m)) /\ Len(Decreasing(sets)) = Len(sets)
                  /\ \A i \in 1..Len(sets) : Decreasing(sets)[i] = sets[p[i]]
                  /\ \A i, j \in 1..Len(sets) :
                        i < j => Decreasing(sets)[j].sum <= Decreasing(sets)[i].sum
<1> DEFINE n == Len(sets)
           ahead == [i \in DOMAIN sets |->
               {j \in DOMAIN sets : \/ SetLess(sets[i], sets[j])
                                    \/ ~SetLess(sets[j], sets[i]) /\ j < i}]
<1>1. n \in Nat /\ DOMAIN sets = 1..n /\ \A i \in 1..n : sets[i] \in Sets(m)
  OBVIOUS
<1>2. ahead \in [1..n -> SUBSET (1..n)]
  BY <1>1
<1>3. \A i, j \in 1..n : j \in ahead[i] <=> \/ SetLess(sets[i], sets[j])
                                            \/ ~SetLess(sets[j], sets[i]) /\ j < i
  BY <1>1
<1>4. Decreasing(sets) = Arranged(sets, ahead)
  BY DEF Decreasing
<1> HIDE DEF ahead
<1>5. \A i \in 1..n : i \notin ahead[i]
  BY <1>1, <1>3, SetOrder
<1>6. \A i, j \in 1..n : i # j => i \in ahead[j] \/ j \in ahead[i]
  BY <1>1, <1>3, SetOrder
<1>7. ASSUME NEW i \in 1..n, NEW j \in 1..n, NEW k \in 1..n, i \in ahead[j], k \in ahead[i]
      PROVE  k \in ahead[j]
  <2>1. sets[i] \in Sets(m) /\ sets[j] \in Sets(m) /\ sets[k] \in Sets(m)
    BY <1>1
  <2>2. SetLess(sets[j], sets[i]) \/ (~SetLess(sets[i], sets[j]) /\ i < j)
    BY <1>3, <1>7
  <2>3. SetLess(sets[i], sets[k]) \/ (~SetLess(sets[k], sets[i]) /\ k < i)
    BY <1>3, <1>7
  <2>4. CASE SetLess(sets[j], sets[i])
    <3>1. ~SetLess(sets[k], sets[i])
      BY <2>1, <2>3, SetOrder
    <3>2. SetLess(sets[j], sets[k])
      BY <2>1, <2>4, <3>1, SetOrder
    <3> QED
      BY <1>3, <3>2
  <2>5. CASE ~SetLess(sets[i], sets[j]) /\ i < j /\ SetLess(sets[i], sets[k])
    <3>1. SetLess(sets[j], sets[k])
      BY <2>1, <2>5, SetOrder
    <3> QED
      BY <1>3, <3>1
  <2>6. CASE ~SetLess(sets[i], sets[j]) /\ i < j /\ ~SetLess(sets[k], sets[i]) /\ k < i
    <3>1. ~SetLess(sets[k], sets[j])
      BY <2>1, <2>6, SetOrder
    <3>2. k < j
      BY <1>1, <2>6
    <3> QED
      BY <1>3, <3>1, <3>2
  <2> QED
    BY <2>2, <2>3, <2>4, <2>5, <2>6
<1>8. IsOrder(1..n, ahead)
  <2>1. \A i, j \in 1..n : i \in ahead[j] => ahead[i] \subseteq ahead[j]
    BY <1>2, <1>7
  <2> QED
    BY <1>2, <1>5, <1>6, <2>1 DEF IsOrder
<1> DEFINE t == Arranged(sets, ahead)
<1>9. PICK p : /\ IsPermutation(p, n)
               /\ t \in Seq(Sets(m)) /\ Len(t) = n
               /\ \A i \in 1..n : t[i] = sets[p[i]]
               /\ \A i, j \in 1..n : i < j <=> p[i] \in ahead[p[j]]
  BY <1>8, ArrangedFacts
<1> HIDE DEF t
<1>10. ASSUME NEW i \in 1..n, NEW j \in 1..n, i < j PROVE t[j].sum <= t[i].sum
  <2>1. p[i] \in 1..n /\ p[j] \in 1..n /\ p[i] \in ahead[p[j]]
    BY <1>9, <1>10 DEF IsPermutation
  <2>2. SetLess(sets[p[j]], sets[p[i]]) \/ ~SetLess(sets[p[i]], sets[p[j]])
    BY <1>3, <2>1
  <2>3. sets[p[j]].sum <= sets[p[i]].sum
    BY <1>1, <2>1, <2>2, SetOrder
  <2> QED
    BY <1>9, <2>3
<1> QED
  BY <1>4, <1>9, <1>10 DEF t

-------------------------------------------------------------------------------
(* The states of karmarkar_karp, each a split of some rows over k sets.    *)

IsLengths(length) == length \in Seq(Nat \ {0})

RowsOf(s) == UNION {ToSet(s[i].items) : i \in DOMAIN s}

\* Every row is in one place.
Apart(s) ==
    \A i, j \in 1..Len(s) : \A x \in 1..Len(s[i].items), y \in 1..Len(s[j].items) :
        s[i].items[x] = s[j].items[y] => i = j /\ x = y

\* With equal_size the sets are equally large; otherwise none is left empty as
\* long as one has two rows.
Shaped(s, even) ==
    IF even THEN \A i, j \in 1..Len(s) : Len(s[i].items) = Len(s[j].items)
    ELSE \/ \A i \in 1..Len(s) : s[i].items # <<>>
         \/ \A i \in 1..Len(s) : Len(s[i].items) <= 1

Summed(s, length) ==
    \A i \in 1..Len(s) : s[i].sum = SumFunctionOnSet(length, ToSet(s[i].items))

\* No two sums differ by more than d.
Near(s, d) == \A i, j \in 1..Len(s) : s[i].sum - s[j].sum <= d

IsSplit(s, length, k, even, d) ==
    /\ s \in Seq(Sets(Len(length))) /\ Len(s) = k
    /\ Summed(s, length)
    /\ Apart(s)
    /\ Near(s, d)
    /\ Shaped(s, even)
    /\ RowsOf(s) # {}

Descending(s) == \A i, j \in 1..Len(s) : i < j => s[j].sum <= s[i].sum

IsState(s, length, k, even, d) == IsSplit(s, length, k, even, d) /\ Descending(s)

LEMMA SetsOfState ==
    ASSUME NEW m \in Nat, NEW k, NEW s \in Seq(Sets(m)), Len(s) = k
    PROVE  \A i \in 1..k : s[i] \in Sets(m) /\ s[i].items \in Seq(1..m) /\ s[i].sum \in Int
<1>1. \A i \in 1..k : s[i] \in Sets(m)
  OBVIOUS
<1> QED
  BY <1>1 DEF Sets

\* A row of a state is an item of one of its sets.
HasRow(s, k, row) == \E i \in 1..k : \E x \in 1..Len(s[i].items) : s[i].items[x] = row

LEMMA RowsAreItems ==
    ASSUME NEW m \in Nat, NEW k, NEW s \in Seq(Sets(m)), Len(s) = k
    PROVE  \A row : row \in RowsOf(s) <=> HasRow(s, k, row)
<1>1. DOMAIN s = 1..k
  OBVIOUS
<1>2. \A i \in 1..k : s[i].items \in Seq(1..m)
  BY SetsOfState
<1>3. \A i \in 1..k : DOMAIN s[i].items = 1..Len(s[i].items)
  BY <1>2
<1> QED
  BY <1>1, <1>3 DEF RowsOf, ToSet, HasRow

\* State.__init__ and State.merge sort the sets; the split stays as it is.
LEMMA SortedSplit ==
    ASSUME NEW length, IsLengths(length), NEW k \in Nat, NEW even \in BOOLEAN, NEW d \in Int,
           NEW s, IsSplit(s, length, k, even, d)
    PROVE  IsState(Decreasing(s), length, k, even, d) /\ RowsOf(Decreasing(s)) = RowsOf(s)
<1> DEFINE m == Len(length)
           t == Decreasing(s)
<1>1. /\ m \in Nat /\ s \in Seq(Sets(m)) /\ Len(s) = k
      /\ Summed(s, length) /\ Apart(s) /\ Near(s, d) /\ Shaped(s, even)
  BY DEF IsLengths, IsSplit
<1>2. PICK p : /\ IsPermutation(p, k)
               /\ t \in Seq(Sets(m)) /\ Len(t) = k
               /\ \A i \in 1..k : t[i] = s[p[i]]
               /\ \A i, j \in 1..k : i < j => t[j].sum <= t[i].sum
  <2> HIDE DEF m
  <2> QED
    BY <1>1, DecreasingFacts
<1> HIDE DEF t, m
<1>3. /\ \A i \in 1..k : p[i] \in 1..k /\ t[i] = s[p[i]]
      /\ \A i, j \in 1..k : p[i] = p[j] => i = j
      /\ \A j \in 1..k : \E i \in 1..k : p[i] = j
  BY <1>2 DEF IsPermutation
<1>4. Summed(t, length)
  <2>1. ASSUME NEW i \in 1..k PROVE t[i].sum = SumFunctionOnSet(length, ToSet(t[i].items))
    <3>1. p[i] \in 1..k /\ t[i] = s[p[i]]
      BY <1>3
    <3>2. s[p[i]].sum = SumFunctionOnSet(length, ToSet(s[p[i]].items))
      BY <1>1, <3>1 DEF Summed
    <3> QED
      BY <3>1, <3>2
  <2> QED
    BY <1>2, <2>1 DEF Summed
<1>5. Apart(t)
  <2>1. \A i, j \in 1..k : \A x \in 1..Len(s[i].items), y \in 1..Len(s[j].items) :
            s[i].items[x] = s[j].items[y] => i = j /\ x = y
    BY <1>1 DEF Apart
  <2> SUFFICES ASSUME NEW i \in 1..k, NEW j \in 1..k,
                      NEW x \in 1..Len(t[i].items), NEW y \in 1..Len(t[j].items),
                      t[i].items[x] = t[j].items[y]
               PROVE  i = j /\ x = y
    BY <1>2 DEF Apart
  <2>2. /\ p[i] \in 1..k /\ p[j] \in 1..k
        /\ x \in 1..Len(s[p[i]].items) /\ y \in 1..Len(s[p[j]].items)
        /\ s[p[i]].items[x] = s[p[j]].items[y]
    BY <1>3
  <2> DEFINE a == p[i]
             b == p[j]
  <2> HIDE DEF a, b
  <2>3. a \in 1..k /\ b \in 1..k
    BY <2>2 DEF a, b
  <2>4. \A v \in 1..Len(s[a].items), w \in 1..Len(s[b].items) :
            s[a].items[v] = s[b].items[w] => a = b /\ v = w
    BY <2>1, <2>3
  <2>5. a = b /\ x = y
    BY <2>2, <2>4 DEF a, b
  <2> QED
    BY <1>3, <2>5 DEF a, b
<1>6. Near(t, d)
  <2>1. \A i, j \in 1..k : s[i].sum - s[j].sum <= d
    BY <1>1 DEF Near
  <2>2. \A i, j \in 1..k : t[i].sum - t[j].sum <= d
    BY ONLY <1>3, <2>1
  <2> QED
    BY <1>2, <2>2 DEF Near
<1>7. Shaped(t, even)
  <2>1. CASE even
    <3>1. \A i, j \in 1..k : Len(s[i].items) = Len(s[j].items)
      BY <1>1, <2>1 DEF Shaped
    <3>2. \A i, j \in 1..k : Len(t[i].items) = Len(t[j].items)
      <4> TAKE i, j \in 1..k
      <4>1. p[i] \in 1..k /\ p[j] \in 1..k /\ t[i] = s[p[i]] /\ t[j] = s[p[j]]
        BY <1>3
      <4>2. Len(s[p[i]].items) = Len(s[p[j]].items)
        BY <3>1, <4>1
      <4> QED
        BY <4>1, <4>2, Zenon
    <3> QED
      BY <1>2, <2>1, <3>2 DEF Shaped
  <2>2. CASE ~even
    <3>1. \/ \A i \in 1..k : s[i].items # <<>>
          \/ \A i \in 1..k : Len(s[i].items) <= 1
      BY <1>1, <2>2 DEF Shaped
    <3>2. \/ \A i \in 1..k : t[i].items # <<>>
          \/ \A i \in 1..k : Len(t[i].items) <= 1
      <4>1. \A i \in 1..k : p[i] \in 1..k /\ t[i].items = s[p[i]].items
        BY <1>3
      <4>2. CASE \A i \in 1..k : s[i].items # <<>>
        BY <4>1, <4>2
      <4>3. CASE \A i \in 1..k : Len(s[i].items) <= 1
        BY <4>1, <4>3
      <4> QED
        BY <3>1, <4>2, <4>3
    <3> QED
      BY <1>2, <2>2, <3>2 DEF Shaped
  <2> QED
    BY <2>1, <2>2
<1>8. RowsOf(t) = RowsOf(s)
  <2>1. \A row : row \in RowsOf(t) <=>
            \E i \in 1..k : \E x \in 1..Len(t[i].items) : t[i].items[x] = row
    <3>1. \A row : row \in RowsOf(t) <=> HasRow(t, k, row)
      BY <1>1, <1>2, RowsAreItems
    <3> QED
      BY <3>1 DEF HasRow
  <2>2. \A row : row \in RowsOf(s) <=>
            \E i \in 1..k : \E x \in 1..Len(s[i].items) : s[i].items[x] = row
    <3>1. \A row : row \in RowsOf(s) <=> HasRow(s, k, row)
      BY <1>1, RowsAreItems
    <3> QED
      BY <3>1 DEF HasRow
  <2>3. ASSUME NEW row \in RowsOf(t) PROVE row \in RowsOf(s)
    <3>1. PICK i \in 1..k : \E x \in 1..Len(t[i].items) : t[i].items[x] = row
      BY <2>1
    <3>2. p[i] \in 1..k /\ t[i] = s[p[i]]
      BY <1>3
    <3> QED
      BY <2>2, <3>1, <3>2
  <2>4. ASSUME NEW row \in RowsOf(s) PROVE row \in RowsOf(t)
    <3>1. PICK j \in 1..k : \E x \in 1..Len(s[j].items) : s[j].items[x] = row
      BY <2>2
    <3>2. PICK i \in 1..k : p[i] = j
      BY <1>3
    <3>3. t[i] = s[j]
      BY <1>3, <3>2
    <3> QED
      BY <2>1, <3>1, <3>3
  <2> QED
    BY <2>3, <2>4
<1>9. Descending(t)
  BY <1>2 DEF Descending
<1> QED
  BY <1>2, <1>4, <1>5, <1>6, <1>7, <1>8, <1>9 DEF IsState, IsSplit, m, t

\* A sequence of rows.
LEMMA ItemFacts ==
    ASSUME NEW m \in Nat, NEW a \in Seq(1..m)
    PROVE  /\ Len(a) \in Nat /\ DOMAIN a = 1..Len(a)
           /\ \A x \in 1..Len(a) : a[x] \in 1..m
           /\ a = <<>> <=> Len(a) = 0
           /\ ToSet(a) \in SUBSET (1..m)
           /\ ToSet(a) = {} <=> a = <<>>
           /\ \A row : row \in ToSet(a) <=> \E x \in 1..Len(a) : a[x] = row
<1> DEFINE S == 1..m
<1>1. a \in Seq(S)
  OBVIOUS
<1> HIDE DEF S
<1>2. Len(a) \in Nat /\ DOMAIN a = 1..Len(a) /\ \A x \in 1..Len(a) : a[x] \in S
  BY <1>1
<1>3. a = <<>> <=> Len(a) = 0
  BY <1>1
<1>4. \A row : row \in ToSet(a) <=> \E x \in 1..Len(a) : a[x] = row
  BY <1>2 DEF ToSet
<1>5. Len(a) # 0 => a[1] \in ToSet(a)
  <2>1. Len(a) # 0 => 1 \in 1..Len(a)
    BY <1>2
  <2> QED
    BY <1>4, <2>1
<1>6. Len(a) = 0 => ToSet(a) = {}
  <2>1. Len(a) = 0 => \A x : x \notin 1..Len(a)
    OBVIOUS
  <2> QED
    BY <1>4, <2>1
<1>7. ToSet(a) \in SUBSET S
  BY <1>2, <1>4
<1> QED
  BY <1>2, <1>3, <1>4, <1>5, <1>6, <1>7 DEF S

\* A sum is positive, unless the set is empty.
LEMMA SetSums ==
    ASSUME NEW length, IsLengths(length), NEW s \in Seq(Sets(Len(length))), Summed(s, length)
    PROVE  \A i \in 1..Len(s) : s[i].sum \in Nat /\ (s[i].sum = 0 <=> s[i].items = <<>>)
<1> DEFINE m == Len(length)
<1>1. m \in Nat /\ \A x \in 1..m : length[x] \in Nat \ {0}
  BY DEF IsLengths
<1>2. IsFiniteSet(1..m)
  BY <1>1, FS_Interval
<1> TAKE i \in 1..Len(s)
<1> DEFINE items == s[i].items
<1>3. items \in Seq(1..m)
  BY <1>1, SetsOfState
<1>4. s[i].sum = SumFunctionOnSet(length, ToSet(items))
  BY DEF Summed
<1> HIDE DEF m, items
<1>5. ToSet(items) \in SUBSET (1..m) /\ (ToSet(items) = {} <=> items = <<>>)
  BY <1>1, <1>3, ItemFacts
<1>6. SumFunctionOnSet(length, ToSet(items)) \in Nat
      /\ (SumFunctionOnSet(length, ToSet(items)) = 0 <=> ToSet(items) = {})
  BY <1>1, <1>2, <1>5, SumPositive
<1> QED
  BY <1>4, <1>5, <1>6 DEF items

\* The largest set of one state joins the smallest of the other.
LEMMA PairedFacts ==
    ASSUME NEW m \in Nat, NEW k \in Nat, NEW s \in Seq(Sets(m)), NEW t \in Seq(Sets(m)),
           Len(s) = k, Len(t) = k
    PROVE  /\ Paired(s, t) \in Seq(Sets(m)) /\ Len(Paired(s, t)) = k
           /\ \A i \in 1..k : /\ k + 1 - i \in 1..k
                              /\ Paired(s, t)[i] = MergeSets(s[i], t[k + 1 - i])
<1> DEFINE u == [i \in 1..k |-> MergeSets(s[i], t[k + 1 - i])]
<1>1. \A i \in 1..k : k + 1 - i \in 1..k
  OBVIOUS
<1>2. \A i \in 1..k : s[i] \in Sets(m) /\ t[i] \in Sets(m)
  OBVIOUS
<1>3. \A a, b \in Sets(m) : MergeSets(a, b) \in Sets(m)
  <2> TAKE a, b \in Sets(m)
  <2>1. a.sum \in Int /\ b.sum \in Int /\ a.items \in Seq(1..m) /\ b.items \in Seq(1..m)
    BY DEF Sets
  <2>2. a.sum + b.sum \in Int /\ a.items \o b.items \in Seq(1..m)
    BY <2>1
  <2> QED
    BY <2>2 DEF MergeSets, Sets
<1>4. \A i \in 1..k : MergeSets(s[i], t[k + 1 - i]) \in Sets(m)
  BY <1>1, <1>2, <1>3
<1>5. u \in Seq(Sets(m)) /\ Len(u) = k
  BY <1>4
<1>6. Evaluated(u) = u
  <2> HIDE DEF u
  <2> QED
    BY <1>5, EvaluatedIsSame
<1>7. Paired(s, t) = u
  BY <1>6 DEF Paired
<1>8. \A i \in 1..k : u[i] = MergeSets(s[i], t[k + 1 - i])
  OBVIOUS
<1> HIDE DEF u
<1> QED
  BY <1>1, <1>5, <1>7, <1>8

\* w is a and b, one after the other.
IsJoin(w, a, b) ==
    /\ Len(w) = Len(a) + Len(b)
    /\ ToSet(w) = ToSet(a) \cup ToSet(b)
    /\ \A x \in 1..Len(w) : \/ x \in 1..Len(a) /\ w[x] = a[x]
                            \/ x - Len(a) \in 1..Len(b) /\ w[x] = b[x - Len(a)]
    /\ \A x \in 1..Len(a) : \E y \in 1..Len(w) : w[y] = a[x]
    /\ \A x \in 1..Len(b) : \E y \in 1..Len(w) : w[y] = b[x]

LEMMA JoinedItems ==
    ASSUME NEW m \in Nat, NEW a \in Seq(1..m), NEW b \in Seq(1..m)
    PROVE  IsJoin(a \o b, a, b)
<1> DEFINE S == 1..m
           c == a \o b
<1>1. /\ c \in Seq(S) /\ Len(c) = Len(a) + Len(b) /\ Len(a) \in Nat /\ Len(b) \in Nat
      /\ \A i \in 1..Len(a) : i \in 1..(Len(a) + Len(b)) /\ c[i] = a[i]
      /\ \A i \in 1..Len(b) : Len(a) + i \in 1..(Len(a) + Len(b)) /\ c[Len(a) + i] = b[i]
  <2>1. a \in Seq(S) /\ b \in Seq(S)
    OBVIOUS
  <2> HIDE DEF S
  <2> QED
    BY <2>1, AppendedFacts
<1>2. a \in Seq(S) /\ b \in Seq(S)
  OBVIOUS
<1> HIDE DEF S, c
<1>3. \A x \in 1..Len(c) : \/ x \in 1..Len(a) /\ c[x] = a[x]
                           \/ x - Len(a) \in 1..Len(b) /\ c[x] = b[x - Len(a)]
  <2> TAKE x \in 1..Len(c)
  <2>1. CASE x <= Len(a)
    BY <1>1, <2>1
  <2>2. CASE ~(x <= Len(a))
    <3>1. x - Len(a) \in 1..Len(b) /\ Len(a) + (x - Len(a)) = x
      BY <1>1, <2>2
    <3>2. c[Len(a) + (x - Len(a))] = b[x - Len(a)]
      BY <1>1, <3>1
    <3> QED
      BY <3>1, <3>2
  <2> QED
    BY <2>1, <2>2
<1>4. \A x \in 1..Len(a) : x \in 1..Len(c) /\ c[x] = a[x]
  BY <1>1
<1>5. \A x \in 1..Len(b) : Len(a) + x \in 1..Len(c) /\ c[Len(a) + x] = b[x]
  BY <1>1
<1>6. ToSet(c) = ToSet(a) \cup ToSet(b)
  <2>1. DOMAIN a = 1..Len(a) /\ DOMAIN b = 1..Len(b) /\ DOMAIN c = 1..Len(c)
    BY <1>1, <1>2
  <2>2. ASSUME NEW e \in ToSet(c) PROVE e \in ToSet(a) \cup ToSet(b)
    BY <1>3, <2>1 DEF ToSet
  <2>3. ASSUME NEW e \in ToSet(a) PROVE e \in ToSet(c)
    BY <1>4, <2>1 DEF ToSet
  <2>4. ASSUME NEW e \in ToSet(b) PROVE e \in ToSet(c)
    BY <1>5, <2>1 DEF ToSet
  <2> QED
    BY <2>2, <2>3, <2>4
<1>7. IsJoin(c, a, b)
  BY <1>1, <1>3, <1>4, <1>5, <1>6 DEF IsJoin
<1> QED
  BY <1>7 DEF c

\* State.merge: two states without a common row make a state of the rows of both.
LEMMA MergedState ==
    ASSUME NEW length, IsLengths(length), NEW k \in Nat, NEW even \in BOOLEAN, NEW d \in Int,
           NEW s, IsState(s, length, k, even, d), NEW t, IsState(t, length, k, even, d),
           RowsOf(s) \cap RowsOf(t) = {}
    PROVE  /\ IsState(Merge(s, t), length, k, even, d)
           /\ RowsOf(Merge(s, t)) = RowsOf(s) \cup RowsOf(t)
<1> DEFINE m == Len(length)
           u == Paired(s, t)
           o(i) == k + 1 - i
<1>1. /\ m \in Nat /\ length \in Seq(Nat \ {0})
      /\ s \in Seq(Sets(m)) /\ Len(s) = k /\ Summed(s, length) /\ Apart(s) /\ Near(s, d)
      /\ Shaped(s, even) /\ RowsOf(s) # {} /\ Descending(s)
      /\ t \in Seq(Sets(m)) /\ Len(t) = k /\ Summed(t, length) /\ Apart(t) /\ Near(t, d)
      /\ Shaped(t, even) /\ RowsOf(t) # {} /\ Descending(t)
  BY DEF IsLengths, IsState, IsSplit
<1>2. /\ u \in Seq(Sets(m)) /\ Len(u) = k
      /\ \A i \in 1..k : o(i) \in 1..k /\ u[i] = MergeSets(s[i], t[o(i)])
  <2> HIDE DEF m
  <2>1. /\ Paired(s, t) \in Seq(Sets(m)) /\ Len(Paired(s, t)) = k
        /\ \A i \in 1..k : /\ k + 1 - i \in 1..k
                           /\ Paired(s, t)[i] = MergeSets(s[i], t[k + 1 - i])
    BY <1>1, PairedFacts
  <2> QED
    BY <2>1, Zenon
<1>3. /\ \A i \in 1..k : s[i].sum \in Nat /\ (s[i].sum = 0 <=> s[i].items = <<>>)
      /\ \A i \in 1..k : t[i].sum \in Nat /\ (t[i].sum = 0 <=> t[i].items = <<>>)
  BY <1>1, SetSums
<1> HIDE DEF m
<1>4. /\ \A i \in 1..k : s[i].items \in Seq(1..m)
      /\ \A i \in 1..k : t[i].items \in Seq(1..m)
      /\ \A row : row \in RowsOf(s) <=>
            \E i \in 1..k : \E x \in 1..Len(s[i].items) : s[i].items[x] = row
      /\ \A row : row \in RowsOf(t) <=>
            \E i \in 1..k : \E x \in 1..Len(t[i].items) : t[i].items[x] = row
  <2>1. \A i \in 1..k : s[i].items \in Seq(1..m)
    BY <1>1, SetsOfState
  <2>2. \A i \in 1..k : t[i].items \in Seq(1..m)
    BY <1>1, SetsOfState
  <2>3. \A row : row \in RowsOf(s) <=>
            \E i \in 1..k : \E x \in 1..Len(s[i].items) : s[i].items[x] = row
    <3>1. \A row : row \in RowsOf(s) <=> HasRow(s, k, row)
      BY <1>1, RowsAreItems
    <3> QED
      BY <3>1 DEF HasRow
  <2>4. \A row : row \in RowsOf(t) <=>
            \E i \in 1..k : \E x \in 1..Len(t[i].items) : t[i].items[x] = row
    <3>1. \A row : row \in RowsOf(t) <=> HasRow(t, k, row)
      BY <1>1, RowsAreItems
    <3> QED
      BY <3>1 DEF HasRow
  <2> QED
    BY <2>1, <2>2, <2>3, <2>4
<1> HIDE DEF u
<1>5. \A i \in 1..k : /\ u[i].sum = s[i].sum + t[o(i)].sum
                      /\ u[i].items = s[i].items \o t[o(i)].items
  <2> TAKE i \in 1..k
  <2> DEFINE a == s[i]
             b == t[o(i)]
             c == u[i]
  <2>1. c = MergeSets(a, b)
    BY <1>2
  <2> HIDE DEF a, b, c
  <2>2. c.sum = a.sum + b.sum /\ c.items = a.items \o b.items
    BY <2>1 DEF MergeSets
  <2> QED
    BY <2>2 DEF a, b, c
<1>6. /\ \A i \in 1..k : u[i].items \in Seq(1..m)
      /\ \A row : row \in RowsOf(u) <=>
            \E i \in 1..k : \E x \in 1..Len(u[i].items) : u[i].items[x] = row
  <2>1. \A i \in 1..k : u[i].items \in Seq(1..m)
    BY <1>1, <1>2, SetsOfState
  <2>2. \A row : row \in RowsOf(u) <=>
            \E i \in 1..k : \E x \in 1..Len(u[i].items) : u[i].items[x] = row
    <3>1. \A row : row \in RowsOf(u) <=> HasRow(u, k, row)
      BY <1>1, <1>2, RowsAreItems
    <3> QED
      BY <3>1 DEF HasRow
  <2> QED
    BY <2>1, <2>2
<1>7. \A i \in 1..k :
          /\ Len(u[i].items) = Len(s[i].items) + Len(t[o(i)].items)
          /\ ToSet(u[i].items) = ToSet(s[i].items) \cup ToSet(t[o(i)].items)
          /\ \A x \in 1..Len(u[i].items) :
                \/ x \in 1..Len(s[i].items) /\ u[i].items[x] = s[i].items[x]
                \/ /\ x - Len(s[i].items) \in 1..Len(t[o(i)].items)
                   /\ u[i].items[x] = t[o(i)].items[x - Len(s[i].items)]
          /\ \A x \in 1..Len(s[i].items) :
                \E y \in 1..Len(u[i].items) : u[i].items[y] = s[i].items[x]
          /\ \A x \in 1..Len(t[o(i)].items) :
                \E y \in 1..Len(u[i].items) : u[i].items[y] = t[o(i)].items[x]
  <2> TAKE i \in 1..k
  <2> DEFINE a == s[i].items
             b == t[o(i)].items
  <2>1. a \in Seq(1..m) /\ b \in Seq(1..m) /\ u[i].items = a \o b
    BY <1>2, <1>4, <1>5
  <2> HIDE DEF a, b
  <2>2. /\ Len(u[i].items) = Len(a) + Len(b)
        /\ ToSet(u[i].items) = ToSet(a) \cup ToSet(b)
        /\ \A x \in 1..Len(u[i].items) :
              \/ x \in 1..Len(a) /\ u[i].items[x] = a[x]
              \/ x - Len(a) \in 1..Len(b) /\ u[i].items[x] = b[x - Len(a)]
        /\ \A x \in 1..Len(a) : \E y \in 1..Len(u[i].items) : u[i].items[y] = a[x]
        /\ \A x \in 1..Len(b) : \E y \in 1..Len(u[i].items) : u[i].items[y] = b[x]
    <3>1. IsJoin(a \o b, a, b)
      BY <1>1, <2>1, JoinedItems
    <3>2. IsJoin(u[i].items, a, b)
      BY <2>1, <3>1
    <3> QED
      BY <3>2 DEF IsJoin
  <2> QED
    BY <2>2 DEF a, b
<1>8. \A i, j \in 1..k : o(i) = o(j) => i = j
  OBVIOUS
<1>9. \A i, j \in 1..k : i < j => o(j) < o(i)
  OBVIOUS
<1> HIDE DEF o
<1>10. Apart(u)
  <2> SUFFICES ASSUME NEW i \in 1..k, NEW j \in 1..k,
                      NEW x \in 1..Len(u[i].items), NEW y \in 1..Len(u[j].items),
                      u[i].items[x] = u[j].items[y]
               PROVE  i = j /\ x = y
    BY <1>2 DEF Apart
  <2> DEFINE a == s[i].items
             b == t[o(i)].items
             e == s[j].items
             f == t[o(j)].items
             v == x - Len(a)
             w == y - Len(e)
  <2>1. \/ x \in 1..Len(a) /\ u[i].items[x] = a[x]
        \/ v \in 1..Len(b) /\ u[i].items[x] = b[v]
    BY <1>7
  <2>2. \/ y \in 1..Len(e) /\ u[j].items[y] = e[y]
        \/ w \in 1..Len(f) /\ u[j].items[y] = f[w]
    BY <1>7
  <2>3. \A z \in 1..Len(a) : a[z] \in RowsOf(s)
    BY <1>4
  <2>4. \A z \in 1..Len(e) : e[z] \in RowsOf(s)
    BY <1>4
  <2>5. \A z \in 1..Len(b) : b[z] \in RowsOf(t)
    BY <1>2, <1>4
  <2>6. \A z \in 1..Len(f) : f[z] \in RowsOf(t)
    BY <1>2, <1>4
  <2>7. \A p \in 1..Len(a), q \in 1..Len(e) : a[p] = e[q] => i = j /\ p = q
    BY <1>1 DEF Apart
  <2>8. \A p \in 1..Len(b), q \in 1..Len(f) : b[p] = f[q] => o(i) = o(j) /\ p = q
    <3>1. o(i) \in 1..k /\ o(j) \in 1..k
      BY <1>2
    <3>2. \A g, h \in 1..k : \A p \in 1..Len(t[g].items), q \in 1..Len(t[h].items) :
              t[g].items[p] = t[h].items[q] => g = h /\ p = q
      BY <1>1 DEF Apart
    <3> QED
      BY <3>1, <3>2
  <2>9. Len(a) \in Nat /\ Len(e) \in Nat /\ (i = j => a = e)
    BY <1>4
  <2> HIDE DEF a, b, e, f
  <2>10. CASE x \in 1..Len(a) /\ u[i].items[x] = a[x]
    BY <2>2, <2>3, <2>6, <2>7, <2>10
  <2>11. CASE v \in 1..Len(b) /\ u[i].items[x] = b[v]
    <3>1. w \in 1..Len(f) /\ u[j].items[y] = f[w]
      BY <2>2, <2>4, <2>5, <2>11
    <3>2. o(i) = o(j) /\ v = w
      BY <2>8, <2>11, <3>1
    <3>3. i = j
      BY <1>8, <3>2
    <3> QED
      BY <2>9, <3>2, <3>3
  <2> QED
    BY <2>1, <2>10, <2>11
<1>11. Summed(u, length)
  <2>1. IsFiniteSet(1..m) /\ \A x \in 1..m : length[x] \in Int
    BY <1>1, FS_Interval DEF m
  <2> SUFFICES ASSUME NEW i \in 1..k
               PROVE  u[i].sum = SumFunctionOnSet(length, ToSet(u[i].items))
    BY <1>2 DEF Summed
  <2> DEFINE a == s[i].items
             b == t[o(i)].items
  <2>2. a \in Seq(1..m) /\ b \in Seq(1..m)
    BY <1>2, <1>4
  <2>3. \A z \in 1..Len(a) : a[z] \in RowsOf(s)
    BY <1>4
  <2>4. \A z \in 1..Len(b) : b[z] \in RowsOf(t)
    BY <1>2, <1>4
  <2>5. /\ s[i].sum = SumFunctionOnSet(length, ToSet(a))
        /\ t[o(i)].sum = SumFunctionOnSet(length, ToSet(b))
    BY <1>1, <1>2 DEF Summed
  <2>6. ToSet(u[i].items) = ToSet(a) \cup ToSet(b)
    BY <1>7
  <2> HIDE DEF a, b
  <2>7. ToSet(a) \in SUBSET (1..m) /\ ToSet(b) \in SUBSET (1..m)
    BY <1>1, <2>2, ItemFacts
  <2>8. ToSet(a) \cap ToSet(b) = {}
    <3>1. /\ \A row : row \in ToSet(a) <=> \E x \in 1..Len(a) : a[x] = row
          /\ \A row : row \in ToSet(b) <=> \E x \in 1..Len(b) : b[x] = row
      BY <1>1, <2>2, ItemFacts
    <3> QED
      BY <2>3, <2>4, <3>1
  <2>9. SumFunctionOnSet(length, ToSet(a) \cup ToSet(b))
          = SumFunctionOnSet(length, ToSet(a)) + SumFunctionOnSet(length, ToSet(b))
    <3> DEFINE S == 1..m
               A == ToSet(a)
               B == ToSet(b)
    <3>1. /\ IsFiniteSet(S) /\ \A x \in S : length[x] \in Int
          /\ A \in SUBSET S /\ B \in SUBSET S /\ A \cap B = {}
      BY <2>1, <2>7, <2>8
    <3> HIDE DEF S, A, B
    <3>2. SumFunctionOnSet(length, A \cup B)
            = SumFunctionOnSet(length, A) + SumFunctionOnSet(length, B)
      BY <3>1, SumUnion
    <3> QED
      BY <3>2 DEF A, B
  <2> QED
    BY <1>5, <2>5, <2>6, <2>9
<1>12. Near(u, d)
  <2>1. /\ \A i, j \in 1..k : s[i].sum - s[j].sum <= d
        /\ \A i, j \in 1..k : t[i].sum - t[j].sum <= d
    BY <1>1 DEF Near
  <2>2. /\ \A i, j \in 1..k : i < j => s[j].sum <= s[i].sum
        /\ \A i, j \in 1..k : i < j => t[j].sum <= t[i].sum
    BY <1>1 DEF Descending
  <2> SUFFICES ASSUME NEW i \in 1..k, NEW j \in 1..k
               PROVE  u[i].sum - u[j].sum <= d
    BY <1>2 DEF Near
  <2>3. /\ o(i) \in 1..k /\ o(j) \in 1..k
        /\ s[i].sum \in Nat /\ s[j].sum \in Nat /\ t[o(i)].sum \in Nat /\ t[o(j)].sum \in Nat
        /\ u[i].sum = s[i].sum + t[o(i)].sum /\ u[j].sum = s[j].sum + t[o(j)].sum
    BY <1>2, <1>3, <1>5
  <2>4. s[i].sum - s[j].sum <= d /\ t[o(i)].sum - t[o(j)].sum <= d /\ s[i].sum - s[i].sum <= d
    BY <2>1, <2>3
  <2>5. CASE i = j
    BY <2>3, <2>4, <2>5
  <2>6. CASE i < j
    <3>1. t[o(i)].sum <= t[o(j)].sum
      BY <1>9, <2>2, <2>3, <2>6
    <3> QED
      BY <2>3, <2>4, <3>1
  <2>7. CASE j < i
    <3>1. s[i].sum <= s[j].sum
      BY <2>2, <2>7
    <3> QED
      BY <2>3, <2>4, <3>1
  <2> QED
    BY <2>5, <2>6, <2>7
<1>13. Shaped(u, even)
  <2> DEFINE sl(i) == Len(s[i].items)
             tl(i) == Len(t[i].items)
             ul(i) == Len(u[i].items)
  <2>1. \A i \in 1..k : o(i) \in 1..k /\ ul(i) = sl(i) + tl(o(i))
    BY <1>2, <1>7
  <2>2. \A i \in 1..k : sl(i) \in Nat /\ (s[i].items = <<>> <=> sl(i) = 0)
    BY <1>1, <1>4, ItemFacts
  <2>3. \A i \in 1..k : tl(i) \in Nat /\ (t[i].items = <<>> <=> tl(i) = 0)
    BY <1>1, <1>4, ItemFacts
  <2>4. \A i \in 1..k : ul(i) \in Nat /\ (u[i].items = <<>> <=> ul(i) = 0)
    BY <1>1, <1>6, ItemFacts
  <2>5. /\ \A i, j \in 1..k : i < j /\ sl(j) > 0 => sl(i) > 0
        /\ \A i, j \in 1..k : i < j /\ tl(j) > 0 => tl(i) > 0
    <3>1. ASSUME NEW i \in 1..k, NEW j \in 1..k, i < j, sl(j) > 0 PROVE sl(i) > 0
      <4>1. s[j].sum <= s[i].sum
        BY <1>1, <3>1 DEF Descending
      <4>2. s[j].items # <<>>
        BY <2>2, <3>1
      <4>3. s[j].sum > 0
        BY <1>3, <4>2
      <4>4. s[i].items # <<>>
        BY <1>3, <4>1, <4>3
      <4> QED
        BY <2>2, <4>4
    <3>2. ASSUME NEW i \in 1..k, NEW j \in 1..k, i < j, tl(j) > 0 PROVE tl(i) > 0
      <4>1. t[j].sum <= t[i].sum
        BY <1>1, <3>2 DEF Descending
      <4>2. t[j].items # <<>>
        BY <2>3, <3>2
      <4>3. t[j].sum > 0
        BY <1>3, <4>2
      <4>4. t[i].items # <<>>
        BY <1>3, <4>1, <4>3
      <4> QED
        BY <2>3, <4>4
    <3> QED
      BY <3>1, <3>2
  <2>6. CASE even
    <3>1. /\ \A i, j \in 1..k : sl(i) = sl(j)
          /\ \A i, j \in 1..k : tl(i) = tl(j)
      BY <1>1, <2>6 DEF Shaped
    <3> HIDE DEF sl, tl, ul
    <3>2. \A i, j \in 1..k : ul(i) = ul(j)
      BY <2>1, <2>2, <2>3, <3>1
    <3> QED
      BY <1>2, <2>6, <3>2 DEF Shaped, ul
  <2>7. CASE ~even
    <3>1. /\ \/ \A i \in 1..k : sl(i) > 0
             \/ \A i \in 1..k : sl(i) <= 1
          /\ \/ \A i \in 1..k : tl(i) > 0
             \/ \A i \in 1..k : tl(i) <= 1
      <4>1. /\ \/ \A i \in 1..k : s[i].items # <<>>
               \/ \A i \in 1..k : sl(i) <= 1
            /\ \/ \A i \in 1..k : t[i].items # <<>>
               \/ \A i \in 1..k : tl(i) <= 1
        BY <1>1, <2>7 DEF Shaped
      <4> HIDE DEF sl, tl
      <4>2. (\A i \in 1..k : s[i].items # <<>>) => \A i \in 1..k : sl(i) > 0
        BY <2>2
      <4>3. (\A i \in 1..k : t[i].items # <<>>) => \A i \in 1..k : tl(i) > 0
        BY <2>3
      <4> QED
        BY <4>1, <4>2, <4>3
    <3>2. \/ \A i \in 1..k : ul(i) > 0
          \/ \A i \in 1..k : ul(i) <= 1
      <4> HIDE DEF sl, tl, ul
      <4>1. CASE \A i \in 1..k : sl(i) > 0
        BY <2>1, <2>2, <2>3, <4>1
      <4>2. CASE \A i \in 1..k : tl(i) > 0
        BY <2>1, <2>2, <2>3, <4>2
      <4>3. ASSUME NEW i \in 1..k, ~(ul(i) <= 1),
                   \A g \in 1..k : sl(g) <= 1, \A g \in 1..k : tl(g) <= 1
            PROVE  \A j \in 1..k : ul(j) > 0
        <5>1. sl(i) > 0 /\ tl(o(i)) > 0
          <6>1. sl(i) <= 1 /\ tl(o(i)) <= 1 /\ ul(i) = sl(i) + tl(o(i)) /\ ul(i) > 1
            BY <2>1, <2>4, <4>3
          <6>2. sl(i) \in Nat /\ tl(o(i)) \in Nat
            BY <2>1, <2>2, <2>3
          <6> QED
            BY <6>1, <6>2
        <5> TAKE j \in 1..k
        <5>2. CASE i = j
          BY <2>1, <2>2, <2>3, <5>1, <5>2
        <5>3. CASE j < i
          <6>1. sl(j) > 0
            BY <2>5, <5>1, <5>3
          <6>2. ul(j) = sl(j) + tl(o(j)) /\ sl(j) \in Nat /\ tl(o(j)) \in Nat
            BY <2>1, <2>2, <2>3
          <6> QED
            BY <6>1, <6>2
        <5>4. CASE i < j
          <6>1. o(j) < o(i) /\ o(j) \in 1..k /\ o(i) \in 1..k
            BY <1>9, <2>1, <5>4
          <6>2. tl(o(j)) > 0
            BY <2>5, <5>1, <6>1
          <6>3. ul(j) = sl(j) + tl(o(j)) /\ sl(j) \in Nat /\ tl(o(j)) \in Nat
            BY <2>1, <2>2, <2>3
          <6> QED
            BY <6>2, <6>3
        <5> QED
          BY <5>2, <5>3, <5>4
      <4> QED
        BY <3>1, <4>1, <4>2, <4>3
    <3>3. \/ \A i \in 1..k : u[i].items # <<>>
          \/ \A i \in 1..k : Len(u[i].items) <= 1
      <4>1. CASE \A i \in 1..k : ul(i) > 0
        BY <2>4, <4>1
      <4>2. CASE \A i \in 1..k : ul(i) <= 1
        BY <4>2
      <4> QED
        BY <3>2, <4>1, <4>2
    <3> QED
      BY <1>2, <2>7, <3>3 DEF Shaped
  <2> QED
    BY <2>6, <2>7
<1>14. RowsOf(u) = RowsOf(s) \cup RowsOf(t)
  <2>1. ASSUME NEW row \in RowsOf(u) PROVE row \in RowsOf(s) \cup RowsOf(t)
    <3>1. PICK i \in 1..k : \E x \in 1..Len(u[i].items) : u[i].items[x] = row
      BY <1>6
    <3>2. PICK x \in 1..Len(u[i].items) : u[i].items[x] = row
      BY <3>1
    <3>3. o(i) \in 1..k
      BY <1>2
    <3>4. \/ \E z \in 1..Len(s[i].items) : s[i].items[z] = row
          \/ \E z \in 1..Len(t[o(i)].items) : t[o(i)].items[z] = row
      BY <1>7, <3>2
    <3> QED
      BY <1>4, <3>3, <3>4
  <2>2. ASSUME NEW row \in RowsOf(s) PROVE row \in RowsOf(u)
    <3>1. PICK i \in 1..k : \E x \in 1..Len(s[i].items) : s[i].items[x] = row
      BY <1>4
    <3>2. PICK x \in 1..Len(s[i].items) : s[i].items[x] = row
      BY <3>1
    <3>3. \E y \in 1..Len(u[i].items) : u[i].items[y] = s[i].items[x]
      BY <1>7
    <3> QED
      BY <1>6, <3>2, <3>3
  <2>3. ASSUME NEW row \in RowsOf(t) PROVE row \in RowsOf(u)
    <3>1. PICK j \in 1..k : \E x \in 1..Len(t[j].items) : t[j].items[x] = row
      BY <1>4
    <3>2. o(j) \in 1..k /\ o(o(j)) = j
      BY <1>1 DEF o
    <3>3. \E y \in 1..Len(u[o(j)].items) : u[o(j)].items[y] = row
      <4> DEFINE i == o(j)
      <4>1. i \in 1..k /\ o(i) = j
        BY <3>2
      <4> HIDE DEF i
      <4>2. PICK x \in 1..Len(t[j].items) : t[j].items[x] = row
        BY <3>1
      <4>3. \A z \in 1..Len(t[o(i)].items) :
                \E y \in 1..Len(u[i].items) : u[i].items[y] = t[o(i)].items[z]
        BY <1>7, <4>1
      <4>4. \E y \in 1..Len(u[i].items) : u[i].items[y] = row
        BY <4>1, <4>2, <4>3
      <4> QED
        BY <4>4 DEF i
    <3> QED
      BY <1>6, <3>2, <3>3
  <2> QED
    BY <2>1, <2>2, <2>3
<1>15. IsSplit(u, length, k, even, d)
  BY <1>1, <1>2, <1>10, <1>11, <1>12, <1>13, <1>14 DEF IsSplit, m
<1>16. Merge(s, t) = Decreasing(u)
  BY DEF Merge, u
<1> QED
  BY <1>14, <1>15, <1>16, SortedSplit

-------------------------------------------------------------------------------
(* The heap of states.                                                     *)

IsStates(Q, length, k, even, d) ==
    /\ IsFiniteSet(Q) /\ Q # {}
    /\ \A s \in Q : IsState(s, length, k, even, d)
    /\ \A s, t \in Q : s # t => RowsOf(s) \cap RowsOf(t) = {}
    /\ UNION {RowsOf(s) : s \in Q} = 1..Len(length)

\* The first set of a state is not empty.
LEMMA LargestNotEmpty ==
    ASSUME NEW length, IsLengths(length), NEW k \in Nat, NEW even \in BOOLEAN, NEW d \in Int,
           NEW s, IsState(s, length, k, even, d)
    PROVE  /\ 1 \in 1..k /\ s[1] \in Sets(Len(length)) /\ Spread(s) \in Int
           /\ s[1].items # <<>> /\ First(s[1]) \in RowsOf(s)
<1> DEFINE m == Len(length)
<1>1. /\ m \in Nat /\ s \in Seq(Sets(m)) /\ Len(s) = k
      /\ Summed(s, length) /\ RowsOf(s) # {} /\ Descending(s)
  BY DEF IsLengths, IsState, IsSplit
<1>2. \A i \in 1..k : s[i].sum \in Nat /\ (s[i].sum = 0 <=> s[i].items = <<>>)
  BY <1>1, SetSums
<1> HIDE DEF m
<1>3. \A i \in 1..k : s[i] \in Sets(m) /\ s[i].items \in Seq(1..m) /\ s[i].sum \in Int
  BY <1>1, SetsOfState
<1>4. \A row : row \in RowsOf(s) <=> HasRow(s, k, row)
  BY <1>1, RowsAreItems
<1>5. PICK row : HasRow(s, k, row)
  BY <1>1, <1>4
<1>6. PICK i \in 1..k : \E x \in 1..Len(s[i].items) : s[i].items[x] = row
  BY <1>5 DEF HasRow
<1>7. 1 \in 1..k /\ k \in 1..k
  OBVIOUS
<1>8. s[i].items # <<>>
  BY <1>1, <1>3, <1>6, ItemFacts
<1>9. s[i].sum <= s[1].sum
  <2>1. CASE i = 1
    BY <1>2, <2>1
  <2>2. CASE i # 1
    BY <1>1, <1>7, <2>2 DEF Descending
  <2> QED
    BY <2>1, <2>2
<1>10. s[1].items # <<>>
  BY <1>2, <1>7, <1>8, <1>9
<1> DEFINE a == s[1].items
<1>11. a \in Seq(1..m) /\ a # <<>> /\ First(s[1]) = Head(a)
  BY <1>3, <1>7, <1>10 DEF First
<1>12. Spread(s) \in Int
  <2>1. Spread(s) = s[1].sum - s[k].sum
    BY <1>1 DEF Spread
  <2> QED
    BY <1>3, <1>7, <2>1
<1> HIDE DEF a
<1>13. 1 \in 1..Len(a) /\ Head(a) = a[1]
  <2>1. Len(a) \in Nat /\ Len(a) # 0
    BY <1>1, <1>11, ItemFacts
  <2> QED
    BY <1>11, <2>1
<1>14. HasRow(s, k, Head(a))
  BY <1>7, <1>13 DEF HasRow, a
<1> QED
  BY <1>3, <1>4, <1>7, <1>10, <1>11, <1>12, <1>14 DEF m

\* State.__lt__ is a strict total order of states without a common row.
LEMMA PopFacts ==
    ASSUME NEW length, IsLengths(length), NEW k \in Nat, NEW even \in BOOLEAN, NEW d \in Int,
           NEW Q, IsFiniteSet(Q), Q # {},
           \A s \in Q : IsState(s, length, k, even, d),
           \A s, t \in Q : s # t => RowsOf(s) \cap RowsOf(t) = {}
    PROVE  Pop(Q) \in Q
<1> DEFINE m == Len(length)
           ahead == [s \in Q |-> {t \in Q : t # s /\ PoppedBefore(t, s)}]
<1>1. m \in Nat
  BY DEF IsLengths
<1>2. \A s \in Q : /\ s[1] \in Sets(m) /\ Spread(s) \in Int
                   /\ s[1].items # <<>> /\ First(s[1]) \in RowsOf(s)
  BY LargestNotEmpty
<1> HIDE DEF m
<1>3. ASSUME NEW s \in Q, NEW t \in Q, s # t PROVE PoppedBefore(s, t) \/ PoppedBefore(t, s)
  <2>1. First(s[1]) # First(t[1])
    BY <1>2, <1>3
  <2>2. SetLess(s[1], t[1]) \/ SetLess(t[1], s[1])
    BY <1>1, <1>2, <2>1, SetOrder
  <2> QED
    BY <1>2, <2>2 DEF PoppedBefore
<1>4. ASSUME NEW s \in Q, NEW t \in Q, PoppedBefore(s, t) PROVE ~PoppedBefore(t, s)
  <2>1. SetLess(t[1], s[1]) => ~SetLess(s[1], t[1])
    BY <1>1, <1>2, SetOrder
  <2> QED
    BY <1>2, <1>4, <2>1 DEF PoppedBefore
<1>5. ASSUME NEW s \in Q, NEW t \in Q, NEW u \in Q, PoppedBefore(s, t), PoppedBefore(t, u)
      PROVE  PoppedBefore(s, u)
  <2>1. SetLess(t[1], s[1]) /\ SetLess(u[1], t[1]) => SetLess(u[1], s[1])
    <3>1. SetLess(t[1], s[1]) => ~SetLess(s[1], t[1])
      BY <1>1, <1>2, SetOrder
    <3>2. SetLess(u[1], t[1]) /\ ~SetLess(s[1], t[1]) => SetLess(u[1], s[1])
      BY <1>1, <1>2, SetOrder
    <3> QED
      BY <3>1, <3>2
  <2>2. Spread(s) \in Int /\ Spread(t) \in Int /\ Spread(u) \in Int
    BY <1>2
  <2> QED
    BY <1>5, <2>1, <2>2 DEF PoppedBefore
<1>6. ahead \in [Q -> SUBSET Q] /\ \A s \in Q : \A t \in Q : t \in ahead[s] <=> t # s /\ PoppedBefore(t, s)
  OBVIOUS
<1> HIDE DEF ahead
<1>7. IsOrder(Q, ahead)
  <2>1. \A s \in Q : s \notin ahead[s]
    BY <1>6
  <2>2. \A s, t \in Q : s # t => s \in ahead[t] \/ t \in ahead[s]
    BY <1>3, <1>6
  <2>3. ASSUME NEW s \in Q, NEW t \in Q, s \in ahead[t], NEW u \in ahead[s] PROVE u \in ahead[t]
    <3>1. u \in Q /\ u # s /\ PoppedBefore(u, s) /\ s # t /\ PoppedBefore(s, t)
      BY <1>6, <2>3
    <3>2. PoppedBefore(u, t)
      BY <1>5, <3>1
    <3>3. u # t
      BY <1>4, <3>1
    <3> QED
      BY <1>6, <3>1, <3>2, <3>3
  <2> QED
    BY <1>6, <2>1, <2>2, <2>3 DEF IsOrder
<1> DEFINE n == Cardinality(Q)
           first == SortedBy(Q, ahead)[1]
<1>8. /\ n \in Nat /\ SortedBy(Q, ahead) \in [1..n -> Q]
      /\ \A i \in 1..n : Cardinality(ahead[SortedBy(Q, ahead)[i]]) = i - 1
  BY <1>7, SortedByOrder
<1>9. n # 0
  BY FS_EmptySet
<1> HIDE DEF n
<1>10. 1 \in 1..n
  BY <1>8, <1>9
<1>11. first \in Q /\ Cardinality(ahead[first]) = 0
  BY <1>8, <1>10
<1> HIDE DEF first
<1>12. ahead[first] = {}
  <2>1. ahead[first] \in SUBSET Q
    BY <1>6, <1>11
  <2>2. IsFiniteSet(ahead[first])
    BY <2>1, FS_Subset
  <2> QED
    BY <1>11, <2>2, FS_EmptySet
<1>13. \A t \in Q \ {first} : PoppedBefore(first, t)
  BY <1>3, <1>6, <1>11, <1>12
<1> QED
  BY <1>11, <1>13 DEF Pop

\* Two states are replaced by one, until one is left.
LEMMA MergeFirstTwoFacts ==
    ASSUME NEW length, IsLengths(length), NEW k \in Nat, NEW even \in BOOLEAN, NEW d \in Int,
           NEW Q, IsStates(Q, length, k, even, d), Cardinality(Q) # 1
    PROVE  /\ IsStates(MergeFirstTwo(Q), length, k, even, d)
           /\ Cardinality(MergeFirstTwo(Q)) = Cardinality(Q) - 1
<1>1. /\ IsFiniteSet(Q) /\ Q # {} /\ \A s \in Q : IsState(s, length, k, even, d)
      /\ \A s, t \in Q : s # t => RowsOf(s) \cap RowsOf(t) = {}
      /\ UNION {RowsOf(s) : s \in Q} = 1..Len(length)
  BY DEF IsStates
<1> DEFINE s == Pop(Q)
           Q1 == Q \ {s}
           t == Pop(Q1)
           Q2 == Q1 \ {t}
           u == Merge(s, t)
<1>2. s \in Q
  BY <1>1, PopFacts
<1>3. IsFiniteSet(Q1) /\ Cardinality(Q1) = Cardinality(Q) - 1 /\ Cardinality(Q) \in Nat
  <2> HIDE DEF s
  <2> QED
    BY <1>1, <1>2, FS_RemoveElement, FS_CardinalityType
<1>4. Q1 # {}
  <2> HIDE DEF s
  <2>1. Q1 = {} => Cardinality(Q1) = 0
    BY FS_EmptySet
  <2> HIDE DEF Q1
  <2> QED
    BY <1>3, <2>1
<1>5. t \in Q1
  <2> HIDE DEF s
  <2>1. /\ \A v \in Q1 : IsState(v, length, k, even, d)
        /\ \A v, w \in Q1 : v # w => RowsOf(v) \cap RowsOf(w) = {}
    BY <1>1
  <2> HIDE DEF Q1
  <2> QED
    BY <1>3, <1>4, <2>1, PopFacts
<1>6. MergeFirstTwo(Q) = Q2 \cup {u}
  <2>1. Q \ {s, t} = Q2
    <3> HIDE DEF s, t
    <3> QED
      OBVIOUS
  <2> QED
    BY <2>1 DEF MergeFirstTwo
<1> HIDE DEF s, t
<1>7. s \in Q /\ t \in Q /\ s # t
  BY <1>2, <1>5
<1>8. IsState(u, length, k, even, d) /\ RowsOf(u) = RowsOf(s) \cup RowsOf(t)
  BY <1>1, <1>7, MergedState
<1> HIDE DEF u
<1>9. \A v \in Q2 : v \in Q /\ RowsOf(v) \cap RowsOf(u) = {}
  BY <1>1, <1>7, <1>8
<1>10. \A v \in Q : RowsOf(v) # {}
  BY <1>1 DEF IsState, IsSplit
<1>11. u \notin Q2
  BY <1>7, <1>8, <1>9, <1>10
<1>12. IsFiniteSet(Q2) /\ Cardinality(Q2) = Cardinality(Q1) - 1
  BY <1>3, <1>5, FS_RemoveElement
<1> DEFINE R == Q2 \cup {u}
<1>13. IsFiniteSet(R) /\ Cardinality(R) = Cardinality(Q2) + 1
  BY <1>11, <1>12, FS_AddElement
<1>14. Cardinality(R) = Cardinality(Q) - 1
  <2> HIDE DEF R, Q2, Q1
  <2> QED
    BY <1>3, <1>12, <1>13
<1>15. \A v \in R : IsState(v, length, k, even, d)
  BY <1>1, <1>8
<1>16. \A v, w \in R : v # w => RowsOf(v) \cap RowsOf(w) = {}
  BY <1>1, <1>9
<1>7a. UNION {RowsOf(v) : v \in R} = UNION {RowsOf(v) : v \in Q}
  <2>1. ASSUME NEW x, NEW v \in R, x \in RowsOf(v) PROVE \E w \in Q : x \in RowsOf(w)
    BY <1>7, <1>8, <2>1
  <2>2. ASSUME NEW x, NEW v \in Q, x \in RowsOf(v) PROVE \E w \in R : x \in RowsOf(w)
    <3>1. CASE v = s \/ v = t
      BY <1>8, <2>2, <3>1
    <3>2. CASE ~(v = s \/ v = t)
      <4>1. v \in R
        BY <3>2
      <4> QED
        BY <2>2, <4>1
    <3> QED
      BY <3>1, <3>2
  <2> HIDE DEF R
  <2> QED
    BY <2>1, <2>2
<1>18. R # {}
  OBVIOUS
<1> HIDE DEF R
<1>19. IsStates(R, length, k, even, d)
  BY <1>1, <1>13, <1>15, <1>16, <1>7a, <1>18 DEF IsStates
<1> QED
  BY <1>6, <1>14, <1>19 DEF R

-------------------------------------------------------------------------------
(* The first states.                                                       *)

\* c blocks of the same size, numbered from 1: block g ends at g * size.
LEMMA Blocks ==
    ASSUME NEW c \in Nat, NEW size \in Nat \ {0}
    PROVE  /\ c * size \in Nat /\ (c * size) \div size = c
           /\ \A g \in 1..c : /\ (g - 1) * size \in Nat /\ g * size = (g - 1) * size + size
                              /\ g * size <= c * size
           /\ \A g, h \in 1..c : \A i, j \in 1..size :
                 (g - 1) * size + i = (h - 1) * size + j => g = h /\ i = j
           /\ \A x \in 1..(c * size) : \E g \in 1..c : \E i \in 1..size : x = (g - 1) * size + i
<1>1. \A a, b \in Nat : a * b \in Nat
  OBVIOUS
<1>2. \A a \in Nat, b \in Nat : a <= b => a * size <= b * size
  OBVIOUS
<1>3. \A g \in 1..c : /\ (g - 1) * size \in Nat /\ g * size = (g - 1) * size + size
                      /\ g * size <= c * size
  <2> TAKE g \in 1..c
  <2>1. g \in Nat /\ g - 1 \in Nat /\ g <= c
    OBVIOUS
  <2>2. (g - 1) * size \in Nat /\ g * size <= c * size
    BY <1>1, <1>2, <2>1
  <2>3. g * size = (g - 1) * size + size
    BY <2>1
  <2> QED
    BY <2>2, <2>3
<1>4. (c * size) \div size = c
  OBVIOUS
<1>5. ASSUME NEW g \in 1..c, NEW h \in 1..c, NEW i \in 1..size, NEW j \in 1..size,
             (g - 1) * size + i = (h - 1) * size + j, g < h
      PROVE  FALSE
  <2>1. g \in Nat /\ h - 1 \in Nat /\ g <= h - 1
    BY <1>5
  <2>2. g * size <= (h - 1) * size
    BY <1>2, <2>1
  <2>3. g * size = (g - 1) * size + size /\ (g - 1) * size \in Nat /\ (h - 1) * size \in Nat
    BY <1>3
  <2> DEFINE p == (g - 1) * size
             q == (h - 1) * size
             r == g * size
  <2>4. p + i = q + j /\ r <= q /\ r = p + size /\ p \in Nat /\ q \in Nat
    BY <1>5, <2>2, <2>3
  <2> HIDE DEF p, q, r
  <2> QED
    BY <2>4
<1>6. ASSUME NEW g \in 1..c, NEW h \in 1..c, NEW i \in 1..size, NEW j \in 1..size,
             (g - 1) * size + i = (h - 1) * size + j
      PROVE  g = h /\ i = j
  <2>1. ~(g < h)
    BY <1>5, <1>6
  <2>2. ~(h < g)
    BY <1>5, <1>6
  <2>3. g = h
    BY <2>1, <2>2
  <2>4. (g - 1) * size \in Nat
    BY <1>3
  <2> DEFINE p == (g - 1) * size
  <2>5. p + i = p + j /\ p \in Nat
    BY <1>6, <2>3, <2>4
  <2> HIDE DEF p
  <2> QED
    BY <2>3, <2>5
<1>7. ASSUME NEW x \in 1..(c * size)
      PROVE  \E g \in 1..c : \E i \in 1..size : x = (g - 1) * size + i
  <2> DEFINE q == (x - 1) \div size
             r == (x - 1) % size
  <2>1. x \in Nat /\ x - 1 \in Nat /\ x <= c * size
    BY <1>1
  <2>2. q \in Nat /\ r \in 0..(size - 1) /\ x - 1 = size * q + r
    BY <2>1
  <2> HIDE DEF q, r
  <2>3. q * size = size * q /\ q * size \in Nat
    BY <2>2
  <2>4. q < c
    <3> SUFFICES ASSUME c <= q PROVE FALSE
      BY <2>2
    <3>1. c * size <= q * size
      BY <1>2, <2>2
    <3>2. c * size \in Nat
      BY <1>1
    <3> DEFINE y == c * size
               z == q * size
    <3>3. y <= z /\ x <= y /\ x - 1 = z + r /\ y \in Nat /\ z \in Nat
      BY <2>1, <2>2, <2>3, <3>1, <3>2
    <3> HIDE DEF y, z
    <3> QED
      BY <2>1, <2>2, <3>3
  <2>5. q + 1 \in 1..c /\ r + 1 \in 1..size
    BY <2>2, <2>4
  <2>6. (q + 1) - 1 = q
    BY <2>2
  <2>7. x = ((q + 1) - 1) * size + (r + 1)
    <3> DEFINE z == q * size
    <3>1. x - 1 = z + r /\ z \in Nat
      BY <2>2, <2>3
    <3>2. ((q + 1) - 1) * size = z
      BY <2>6
    <3> HIDE DEF z
    <3> QED
      BY <2>1, <2>2, <3>1, <3>2
  <2> QED
    BY <2>5, <2>7
<1>8. c * size \in Nat
  BY <1>1
<1> QED
  BY <1>3, <1>4, <1>6, <1>7, <1>8

\* The rows by their lengths are a permutation.
LEMMA ByLengthPermutes ==
    ASSUME NEW length, IsLengths(length)
    PROVE  IsPermutation(ByLength(length), Len(length)) /\ ByLength(length) \in Seq(1..Len(length))
           /\ Len(ByLength(length)) = Len(length)
<1> DEFINE m == Len(length)
           ahead == [j \in DOMAIN length |->
               {i \in DOMAIN length : length[i] < length[j] \/ (length[i] = length[j] /\ i < j)}]
           p == SortedBy(1..m, ahead)
<1>1. m \in Nat /\ DOMAIN length = 1..m /\ \A i \in 1..m : length[i] \in Nat
  BY DEF IsLengths
<1>2. /\ ahead \in [1..m -> SUBSET (1..m)]
      /\ \A i, j \in 1..m : i \in ahead[j] <=> length[i] < length[j] \/ (length[i] = length[j] /\ i < j)
  BY <1>1
<1>3. ByLength(length) = Evaluated(p)
  BY <1>1 DEF ByLength
<1> HIDE DEF ahead, m
<1>4. IsOrder(1..m, ahead)
  <2>1. \A i \in 1..m : i \notin ahead[i]
    BY <1>1, <1>2
  <2>2. \A i, j \in 1..m : i # j => i \in ahead[j] \/ j \in ahead[i]
    BY <1>1, <1>2
  <2>3. \A i, j, h \in 1..m : i \in ahead[j] /\ h \in ahead[i] => h \in ahead[j]
    BY <1>1, <1>2
  <2> QED
    BY <1>2, <2>1, <2>2, <2>3 DEF IsOrder
<1>5. IsPermutation(p, m)
  BY <1>1, <1>4, PlacesArePermutation
<1> HIDE DEF p
<1>6. p \in Seq(1..m) /\ Len(p) = m
  <2> DEFINE A == 1..m
  <2>1. p \in [1..m -> A]
    BY <1>5 DEF IsPermutation
  <2> HIDE DEF A
  <2>2. p \in Seq(A) /\ Len(p) = m
    BY <1>1, <2>1
  <2> QED
    BY <2>2 DEF A
<1>7. Evaluated(p) = p
  BY <1>6, EvaluatedIsSame
<1> QED
  BY <1>3, <1>5, <1>6, <1>7 DEF m

\* The bound on the differences of sums: that of two lengths if every set of a
\* first state has a row, otherwise a length.
Bounds(d, length, even) ==
    /\ d \in Nat
    /\ \A x, y \in 1..Len(length) : length[x] - length[y] <= d
    /\ ~even => \A x \in 1..Len(length) : length[x] <= d

Singles(items, length, k) ==
    [i \in 1..k |->
        IF i <= Len(items) THEN [sum |-> length[items[i]], items |-> <<items[i]>>] ELSE EmptySet]

\* State.__init__ with one row for each set, or for some of them.
LEMMA FirstState ==
    ASSUME NEW length, IsLengths(length), NEW k \in Nat, NEW even \in BOOLEAN,
           NEW d, Bounds(d, length, even),
           NEW items \in Seq(1..Len(length)), Len(items) \in 1..k, even => Len(items) = k,
           \A x, y \in 1..Len(items) : items[x] = items[y] => x = y
    PROVE  /\ IsState(StateOf(items, length, k), length, k, even, d)
           /\ RowsOf(StateOf(items, length, k)) = ToSet(items)
<1> DEFINE m == Len(length)
           n == Len(items)
           u == Singles(items, length, k)
<1>1. /\ m \in Nat /\ \A x \in 1..m : length[x] \in Nat \ {0}
      /\ n \in 1..k /\ \A x \in 1..n : items[x] \in 1..m
      /\ IsFiniteSet(1..m)
  <2>1. m \in Nat /\ \A x \in 1..m : length[x] \in Nat \ {0}
    BY DEF IsLengths
  <2>2. IsFiniteSet(1..m)
    BY <2>1, FS_Interval
  <2> QED
    BY <2>1, <2>2
<1>2. StateOf(items, length, k) = Decreasing(u)
  BY DEF StateOf, Singles
<1>3. /\ \A i \in 1..n : u[i] = [sum |-> length[items[i]], items |-> <<items[i]>>]
      /\ \A i \in 1..k : ~(i \in 1..n) => u[i] = [sum |-> 0, items |-> <<>>]
  BY DEF Singles, EmptySet
<1>4. DOMAIN u = 1..k /\ u = [i \in 1..k |-> u[i]]
  BY DEF Singles
<1> HIDE DEF u, m
<1>5. \A i \in 1..n : /\ u[i].sum = length[items[i]] /\ u[i].items = <<items[i]>>
                      /\ Len(u[i].items) = 1 /\ u[i].items[1] = items[i]
  <2> TAKE i \in 1..n
  <2>1. u[i] = [sum |-> length[items[i]], items |-> <<items[i]>>]
    BY <1>3
  <2> QED
    BY <2>1
<1>6. \A i \in 1..k : ~(i \in 1..n) => /\ u[i].sum = 0 /\ u[i].items = <<>>
                                       /\ Len(u[i].items) = 0
  <2> TAKE i \in 1..k
  <2> HAVE ~(i \in 1..n)
  <2>1. u[i] = [sum |-> 0, items |-> <<>>]
    BY <1>3
  <2> QED
    BY <2>1
<1>7. \A i \in 1..k : u[i] \in Sets(m)
  <2> TAKE i \in 1..k
  <2>1. CASE i \in 1..n
    <3>1. items[i] \in 1..m /\ length[items[i]] \in Int
      BY <1>1, <2>1
    <3>2. <<items[i]>> \in Seq(1..m)
      BY <3>1
    <3> DEFINE w == length[items[i]]
               l == <<items[i]>>
    <3>3. u[i] = [sum |-> w, items |-> l]
      BY <1>3, <2>1
    <3>4. w \in Int /\ l \in Seq(1..m)
      BY <3>1, <3>2
    <3> HIDE DEF w, l
    <3> QED
      BY <3>3, <3>4 DEF Sets
  <2>2. CASE ~(i \in 1..n)
    <3>1. u[i] = [sum |-> 0, items |-> <<>>]
      BY <1>3, <2>2
    <3>2. <<>> \in Seq(1..m) /\ 0 \in Int
      OBVIOUS
    <3> QED
      BY <3>1, <3>2 DEF Sets
  <2> QED
    BY <2>1, <2>2
<1>8. u \in Seq(Sets(m)) /\ Len(u) = k
  <2> DEFINE S == Sets(m)
  <2>1. \A i \in 1..k : u[i] \in S
    BY <1>7
  <2> HIDE DEF S
  <2>2. u \in [1..k -> S]
    BY <1>4, <2>1
  <2>3. u \in Seq(S) /\ Len(u) = k
    BY <2>2
  <2> QED
    BY <2>3 DEF S
<1>9. Summed(u, length)
  <2> SUFFICES ASSUME NEW i \in 1..k
               PROVE  u[i].sum = SumFunctionOnSet(length, ToSet(u[i].items))
    BY <1>8 DEF Summed
  <2>1. CASE i \in 1..n
    <3> DEFINE x == items[i]
    <3>1. x \in 1..m /\ u[i].sum = length[x] /\ u[i].items = <<x>>
      BY <1>1, <1>5, <2>1
    <3> HIDE DEF x
    <3>2. ToSet(<<x>>) = {x}
      BY DEF ToSet
    <3>3. IsFiniteSet({x}) /\ length[x] \in Int /\ \A y \in {x} : length[y] \in Int
      <4>1. IsFiniteSet({x})
        BY FS_Singleton
      <4>2. length[x] \in Int
        BY <1>1, <3>1
      <4> QED
        BY <4>1, <4>2
    <3> DEFINE S == {x}
    <3>4. S \ {x} = {} /\ x \in S
      OBVIOUS
    <3>5. SumFunctionOnSet(length, S) = length[x] + SumFunctionOnSet(length, S \ {x})
      <4>1. IsFiniteSet(S) /\ \A y \in S : length[y] \in Int
        BY <3>3
      <4> HIDE DEF S
      <4> QED
        BY <3>4, <4>1, SumRemove
    <3>6. SumFunctionOnSet(length, {}) = 0
      BY SumEmpty
    <3>7. SumFunctionOnSet(length, S \ {x}) = 0
      BY <3>4, <3>6
    <3> HIDE DEF S
    <3>8. SumFunctionOnSet(length, S) = length[x]
      BY <3>3, <3>5, <3>7
    <3> QED
      BY <3>1, <3>2, <3>8 DEF S
  <2>2. CASE ~(i \in 1..n)
    <3>1. ToSet(<<>>) = {}
      BY DEF ToSet
    <3> QED
      BY <1>6, <2>2, <3>1, SumEmpty
  <2> QED
    BY <2>1, <2>2
<1>10. Apart(u)
  <2> SUFFICES ASSUME NEW i \in 1..k, NEW j \in 1..k,
                      NEW x \in 1..Len(u[i].items), NEW y \in 1..Len(u[j].items),
                      u[i].items[x] = u[j].items[y]
               PROVE  i = j /\ x = y
    BY <1>8 DEF Apart
  <2>1. i \in 1..n
    <3> SUFFICES ASSUME ~(i \in 1..n) PROVE FALSE
      OBVIOUS
    <3>1. Len(u[i].items) = 0
      BY <1>6
    <3> QED
      BY <3>1
  <2>2. j \in 1..n
    <3> SUFFICES ASSUME ~(j \in 1..n) PROVE FALSE
      OBVIOUS
    <3>1. Len(u[j].items) = 0
      BY <1>6
    <3> QED
      BY <3>1
  <2>3. x = 1 /\ y = 1
    <3>1. Len(u[i].items) = 1 /\ Len(u[j].items) = 1
      BY <1>5, <2>1, <2>2
    <3> QED
      BY <3>1
  <2>4. items[i] = items[j]
    BY <1>5, <2>1, <2>2, <2>3
  <2> QED
    BY <2>1, <2>2, <2>3, <2>4
<1>11. Near(u, d)
  <2>1. d \in Nat /\ \A x, y \in 1..m : length[x] - length[y] <= d
    BY DEF Bounds, m
  <2> SUFFICES ASSUME NEW i \in 1..k, NEW j \in 1..k
               PROVE  u[i].sum - u[j].sum <= d
    BY <1>8 DEF Near
  <2>2. CASE i \in 1..n /\ j \in 1..n
    <3>1. u[i].sum = length[items[i]] /\ u[j].sum = length[items[j]]
      BY <1>5, <2>2
    <3>2. items[i] \in 1..m /\ items[j] \in 1..m
      BY <1>1, <2>2
    <3> QED
      BY <2>1, <3>1, <3>2
  <2>3. CASE ~(i \in 1..n /\ j \in 1..n)
    <3>1. ~even
      BY <2>3
    <3>2. \A x \in 1..m : length[x] <= d
      BY <3>1 DEF Bounds, m
    <3>3. u[i].sum \in Nat /\ u[i].sum <= d
      <4>1. CASE i \in 1..n
        <5>1. u[i].sum = length[items[i]] /\ items[i] \in 1..m
          BY <1>1, <1>5, <4>1
        <5> QED
          BY <1>1, <3>2, <5>1
      <4>2. CASE ~(i \in 1..n)
        BY <1>6, <2>1, <4>2
      <4> QED
        BY <4>1, <4>2
    <3>4. u[j].sum \in Nat
      <4>1. CASE j \in 1..n
        <5>1. u[j].sum = length[items[j]] /\ items[j] \in 1..m
          BY <1>1, <1>5, <4>1
        <5> QED
          BY <1>1, <5>1
      <4>2. CASE ~(j \in 1..n)
        BY <1>6, <4>2
      <4> QED
        BY <4>1, <4>2
    <3> QED
      BY <2>1, <3>3, <3>4
  <2> QED
    BY <2>2, <2>3
<1>12. Shaped(u, even)
  <2>1. CASE even
    <3>1. \A i \in 1..k : Len(u[i].items) = 1
      BY <1>5, <2>1
    <3> QED
      BY <1>8, <2>1, <3>1 DEF Shaped
  <2>2. CASE ~even
    <3>1. \A i \in 1..k : Len(u[i].items) <= 1
      <4> TAKE i \in 1..k
      <4>1. CASE i \in 1..n
        <5>1. Len(u[i].items) = 1
          BY <1>5, <4>1
        <5> QED
          BY <5>1
      <4>2. CASE ~(i \in 1..n)
        <5>1. Len(u[i].items) = 0
          BY <1>6, <4>2
        <5> QED
          BY <5>1
      <4> QED
        BY <4>1, <4>2
    <3> QED
      BY <1>8, <2>2, <3>1 DEF Shaped
  <2> QED
    BY <2>1, <2>2
<1>13. RowsOf(u) = ToSet(items)
  <2>1. \A row : row \in RowsOf(u) <=> HasRow(u, k, row)
    BY <1>1, <1>8, RowsAreItems
  <2>2. \A row : row \in ToSet(items) <=> \E x \in 1..n : items[x] = row
    BY <1>1, ItemFacts DEF m
  <2>3. ASSUME NEW row \in RowsOf(u) PROVE row \in ToSet(items)
    <3>1. PICK i \in 1..k : \E x \in 1..Len(u[i].items) : u[i].items[x] = row
      BY <2>1 DEF HasRow
    <3>2. PICK x \in 1..Len(u[i].items) : u[i].items[x] = row
      BY <3>1
    <3>3. i \in 1..n
      <4> SUFFICES ASSUME ~(i \in 1..n) PROVE FALSE
        OBVIOUS
      <4>1. Len(u[i].items) = 0
        BY <1>6
      <4> QED
        BY <4>1
    <3>4. x = 1
      <4>1. Len(u[i].items) = 1
        BY <1>5, <3>3
      <4> QED
        BY <4>1
    <3> QED
      BY <1>5, <2>2, <3>2, <3>3, <3>4
  <2>4. ASSUME NEW row \in ToSet(items) PROVE row \in RowsOf(u)
    <3>1. PICK i \in 1..n : items[i] = row
      BY <2>2
    <3>2. i \in 1..k /\ 1 \in 1..Len(u[i].items) /\ u[i].items[1] = row
      BY <1>1, <1>5, <3>1
    <3>3. HasRow(u, k, row)
      BY <3>2 DEF HasRow
    <3> QED
      BY <2>1, <3>3
  <2> QED
    BY <2>3, <2>4
<1>14. RowsOf(u) # {}
  <2>1. 1 \in 1..n
    BY <1>1
  <2>2. \A row : row \in ToSet(items) <=> \E x \in 1..n : items[x] = row
    BY <1>1, ItemFacts DEF m
  <2>3. items[1] \in ToSet(items)
    BY <2>1, <2>2
  <2> QED
    BY <1>13, <2>3
<1>15. IsSplit(u, length, k, even, d)
  BY <1>8, <1>9, <1>10, <1>11, <1>12, <1>14 DEF IsSplit, m
<1>16. d \in Int
  BY DEF Bounds
<1> QED
  BY <1>2, <1>13, <1>15, <1>16, SortedSplit

\* The part of a sequence after its first a elements, up to the b-th.
LEMMA PartFacts ==
    ASSUME NEW A, NEW s \in Seq(A), NEW a \in Nat, NEW b \in Nat, a <= b, b <= Len(s)
    PROVE  /\ SubSeq(s, a + 1, b) \in Seq(A) /\ Len(SubSeq(s, a + 1, b)) = b - a
           /\ \A i \in 1..(b - a) : a + i \in 1..Len(s) /\ SubSeq(s, a + 1, b)[i] = s[a + i]
  OBVIOUS

\* With equal_size c states of k rows each, otherwise c states of one row.
Sized(length, k, even, c) == Len(length) = c * (IF even THEN k ELSE 1)

\* The rows by their lengths are cut into the first states.
LEMMA FirstStates ==
    ASSUME NEW length, IsLengths(length), NEW k \in Nat \ {0}, NEW even \in BOOLEAN,
           NEW d, Bounds(d, length, even), NEW c \in Nat \ {0},
           Sized(length, k, even, c)
    PROVE  IsStates(InitialStates(length, k, even), length, k, even, d)
<1> DEFINE m == Len(length)
           size == IF even THEN k ELSE 1
           sorted == ByLength(length)
           part(g) == SubSeq(sorted, (g - 1) * size + 1, g * size)
           state(g) == StateOf(part(g), length, k)
           Q == {state(g) : g \in 1..c}
<1>1. m \in Nat /\ size \in Nat \ {0} /\ m = c * size /\ size \in 1..k /\ (even => size = k)
  BY DEF IsLengths, Sized
<1>2. sorted \in Seq(1..m) /\ Len(sorted) = m /\ IsPermutation(sorted, m)
  BY ByLengthPermutes
<1>3. InitialStates(length, k, even) = {state(g) : g \in 1..(m \div size)}
  BY DEF InitialStates
<1> HIDE DEF size, sorted, m
<1>4. /\ m \div size = c
      /\ \A g \in 1..c : /\ (g - 1) * size \in Nat /\ g * size = (g - 1) * size + size
                         /\ g * size <= m
      /\ \A g, h \in 1..c : \A i, j \in 1..size :
            (g - 1) * size + i = (h - 1) * size + j => g = h /\ i = j
      /\ \A x \in 1..m : \E g \in 1..c : \E i \in 1..size : x = (g - 1) * size + i
  <2>1. c \in Nat /\ size \in Nat \ {0}
    BY <1>1
  <2>2. /\ (c * size) \div size = c
        /\ \A g \in 1..c : /\ (g - 1) * size \in Nat /\ g * size = (g - 1) * size + size
                           /\ g * size <= c * size
        /\ \A g, h \in 1..c : \A i, j \in 1..size :
              (g - 1) * size + i = (h - 1) * size + j => g = h /\ i = j
        /\ \A x \in 1..(c * size) : \E g \in 1..c : \E i \in 1..size : x = (g - 1) * size + i
    BY ONLY <2>1, Blocks
  <2>3. m = c * size
    BY <1>1
  <2> QED
    BY ONLY <2>2, <2>3
<1>5. InitialStates(length, k, even) = Q
  BY <1>3, <1>4
<1>6. \A g \in 1..c : /\ part(g) \in Seq(1..m) /\ Len(part(g)) = size
                      /\ \A i \in 1..size : /\ (g - 1) * size + i \in 1..m
                                            /\ part(g)[i] = sorted[(g - 1) * size + i]
  <2> TAKE g \in 1..c
  <2> DEFINE a == (g - 1) * size
             b == g * size
             S == 1..m
  <2>1. a \in Nat /\ b = a + size /\ b <= m
    BY <1>4
  <2>2. b \in Nat /\ a <= b /\ b - a = size /\ sorted \in Seq(S) /\ b <= Len(sorted)
    <3> HIDE DEF a, b, S
    <3>1. sorted \in Seq(S)
      BY <1>2 DEF S
    <3> QED
      BY <1>1, <1>2, <2>1, <3>1
  <2> HIDE DEF a, b, S
  <2>3. /\ SubSeq(sorted, a + 1, b) \in Seq(S) /\ Len(SubSeq(sorted, a + 1, b)) = b - a
        /\ \A i \in 1..(b - a) : a + i \in 1..Len(sorted) /\ SubSeq(sorted, a + 1, b)[i] = sorted[a + i]
    BY <2>1, <2>2, PartFacts
  <2>4. part(g) = SubSeq(sorted, a + 1, b)
    BY DEF a, b
  <2> HIDE DEF part
  <2>5. /\ part(g) \in Seq(S) /\ Len(part(g)) = size
        /\ \A i \in 1..size : a + i \in 1..m /\ part(g)[i] = sorted[a + i]
    BY <1>2, <2>2, <2>3, <2>4
  <2> QED
    BY <2>5 DEF a, S
<1> HIDE DEF part
<1>7. /\ \A x \in 1..m : sorted[x] \in 1..m
      /\ \A x, y \in 1..m : sorted[x] = sorted[y] => x = y
      /\ \A row \in 1..m : \E x \in 1..m : sorted[x] = row
  BY <1>2 DEF IsPermutation
<1> DEFINE pos(g, i) == (g - 1) * size + i
<1>7a. /\ \A g \in 1..c : \A i \in 1..size : pos(g, i) \in 1..m /\ part(g)[i] = sorted[pos(g, i)]
       /\ \A g, h \in 1..c : \A i, j \in 1..size : pos(g, i) = pos(h, j) => g = h /\ i = j
  BY <1>4, <1>6
<1> HIDE DEF pos
<1>8. \A g, h \in 1..c : \A i, j \in 1..size : part(g)[i] = part(h)[j] => g = h /\ i = j
  <2> TAKE g, h \in 1..c
  <2> TAKE i, j \in 1..size
  <2> HAVE part(g)[i] = part(h)[j]
  <2> DEFINE x == pos(g, i)
             y == pos(h, j)
  <2>1. x \in 1..m /\ part(g)[i] = sorted[x] /\ y \in 1..m /\ part(h)[j] = sorted[y]
    BY <1>7a
  <2> HIDE DEF x, y
  <2>2. x = y
    BY <1>7, <2>1
  <2> QED
    BY <1>7a, <2>2 DEF x, y
<1>9. \A g \in 1..c : IsState(state(g), length, k, even, d) /\ RowsOf(state(g)) = ToSet(part(g))
  <2> TAKE g \in 1..c
  <2>1. part(g) \in Seq(1..Len(length)) /\ Len(part(g)) \in 1..k /\ (even => Len(part(g)) = k)
    BY <1>1, <1>6 DEF m
  <2>2. \A x, y \in 1..Len(part(g)) : part(g)[x] = part(g)[y] => x = y
    BY <1>6, <1>8
  <2> DEFINE items == part(g)
  <2>3. /\ items \in Seq(1..Len(length)) /\ Len(items) \in 1..k /\ (even => Len(items) = k)
        /\ \A x, y \in 1..Len(items) : items[x] = items[y] => x = y
    BY <2>1, <2>2
  <2> HIDE DEF items
  <2>4. /\ IsState(StateOf(items, length, k), length, k, even, d)
        /\ RowsOf(StateOf(items, length, k)) = ToSet(items)
    BY <2>3, FirstState
  <2> QED
    BY <2>4 DEF items
<1>10. \A g \in 1..c : \A row : row \in RowsOf(state(g)) <=> \E i \in 1..size : part(g)[i] = row
  <2> TAKE g \in 1..c
  <2>1. part(g) \in Seq(1..m) /\ Len(part(g)) = size
    BY <1>6
  <2>2. \A row : row \in ToSet(part(g)) <=> \E i \in 1..size : part(g)[i] = row
    BY <1>1, <2>1, ItemFacts
  <2> QED
    BY <1>9, <2>2
<1> HIDE DEF state
<1>11. IsFiniteSet(Q) /\ Q # {}
  <2>1. IsFiniteSet(1..c)
    BY FS_Interval
  <2>2. IsFiniteSet(Q)
    <3> DEFINE f == [g \in 1..c |-> state(g)]
    <3>1. Q = {f[g] : g \in 1..c}
      OBVIOUS
    <3>2. f \in Surjection(1..c, Q)
      BY <3>1 DEF Surjection
    <3> QED
      BY <2>1, <3>2, FS_Surjection
  <2>3. 1 \in 1..c
    OBVIOUS
  <2> QED
    BY <2>2, <2>3
<1>12. \A s \in Q : IsState(s, length, k, even, d)
  BY <1>9
<1>13. \A s, t \in Q : s # t => RowsOf(s) \cap RowsOf(t) = {}
  <2> SUFFICES ASSUME NEW g \in 1..c, NEW h \in 1..c, state(g) # state(h)
               PROVE  RowsOf(state(g)) \cap RowsOf(state(h)) = {}
    OBVIOUS
  <2>1. g # h
    OBVIOUS
  <2> QED
    BY <1>8, <1>10, <2>1
<1>14. UNION {RowsOf(s) : s \in Q} = 1..m
  <2>1. ASSUME NEW g \in 1..c, NEW row \in RowsOf(state(g)) PROVE row \in 1..m
    <3>1. PICK i \in 1..size : part(g)[i] = row
      BY <1>10
    <3> DEFINE x == pos(g, i)
    <3>2. x \in 1..m /\ part(g)[i] = sorted[x]
      BY <1>7a
    <3> HIDE DEF x
    <3> QED
      BY <1>7, <3>1, <3>2
  <2>2. ASSUME NEW row \in 1..m PROVE \E g \in 1..c : row \in RowsOf(state(g))
    <3>1. PICK x \in 1..m : sorted[x] = row
      BY <1>7
    <3>2. PICK g \in 1..c : \E i \in 1..size : x = (g - 1) * size + i
      BY <1>4
    <3>3. PICK i \in 1..size : x = (g - 1) * size + i
      BY <3>2
    <3>4. part(g)[i] = row
      BY <1>6, <3>1, <3>3
    <3> QED
      BY <1>10, <3>4
  <2> QED
    BY <2>1, <2>2
<1> QED
  BY <1>5, <1>11, <1>12, <1>13, <1>14 DEF IsStates, m

-------------------------------------------------------------------------------
(* The result of karmarkar_karp.                                           *)

\* The state that is left in the end.
IsFinal(s, length, k, even, d) ==
    /\ IsState(s, length, k, even, d) /\ RowsOf(s) = 1..Len(length)
    /\ KarmarkarKarp(length, k, even) = [i \in 1..k |-> s[i].items]

\* The states are merged until one is left, which has all rows.
LEMMA FinalState ==
    ASSUME NEW length, IsLengths(length), NEW k \in Nat \ {0}, NEW even \in BOOLEAN,
           NEW d, Bounds(d, length, even), NEW c \in Nat \ {0},
           Sized(length, k, even, c)
    PROVE  \E s : IsFinal(s, length, k, even, d)
<1> DEFINE initial == InitialStates(length, k, even)
           C == Cardinality(initial)
           V == {Q \in SUBSET Seq(Sets(Len(length))) : IsStates(Q, length, k, even, d)}
           next(Q) == IF Cardinality(Q) = 1 THEN Q ELSE MergeFirstTwo(Q)
           step == [p \in V \X Nat |-> next(p[1])]
           Rec(f) == [n \in 0..(C - 1) |-> IF n = 0 THEN initial ELSE MergeFirstTwo(f[n - 1])]
           after == CHOOSE f : f = Rec(f)
           final == CHOOSE s \in after[C - 1] : TRUE
<1>1. \A Q : Q \in V <=> IsStates(Q, length, k, even, d)
  BY DEF IsStates, IsState, IsSplit
<1>2. initial \in V
  BY <1>1, FirstStates
<1>3. d \in Int
  BY DEF Bounds
<1>4. \A Q \in V : next(Q) \in V /\ Cardinality(Q) \in Nat /\ Cardinality(Q) # 0
  <2> TAKE Q \in V
  <2>1. IsStates(Q, length, k, even, d) /\ IsFiniteSet(Q) /\ Q # {}
    BY <1>1 DEF IsStates
  <2>2. Cardinality(Q) \in Nat /\ Cardinality(Q) # 0
    BY <2>1, FS_CardinalityType, FS_EmptySet
  <2>3. Cardinality(Q) # 1 => IsStates(MergeFirstTwo(Q), length, k, even, d)
    BY <1>3, <2>1, MergeFirstTwoFacts
  <2> QED
    BY <1>1, <2>2, <2>3
<1>5. KarmarkarKarp(length, k, even) = [i \in 1..k |-> final[i].items]
  BY DEF KarmarkarKarp
<1>6. \A Q \in V : Cardinality(Q) # 1 => /\ next(Q) = MergeFirstTwo(Q)
                                         /\ Cardinality(MergeFirstTwo(Q)) = Cardinality(Q) - 1
  <2> TAKE Q \in V
  <2> HAVE Cardinality(Q) # 1
  <2>1. IsStates(Q, length, k, even, d)
    BY <1>1
  <2>2. k \in Nat
    OBVIOUS
  <2>3. /\ IsStates(MergeFirstTwo(Q), length, k, even, d)
        /\ Cardinality(MergeFirstTwo(Q)) = Cardinality(Q) - 1
    BY ONLY IsLengths(length), even \in BOOLEAN, Cardinality(Q) # 1, <1>3, <2>1, <2>2,
            MergeFirstTwoFacts
  <2> QED
    BY <2>3
<1> HIDE DEF next, initial, V
<1>7. C \in Nat \ {0}
  BY <1>2, <1>4
<1>8. step \in Steps(V) /\ \A Q \in V, n \in Nat : step[<<Q, n>>] = next(Q)
  BY <1>4 DEF Steps
<1> HIDE DEF step
<1>9. PICK F : Iteration(F, V, initial, step)
  BY <1>2, <1>8, Iterates
<1>10. F \in [Nat -> V] /\ F[0] = initial /\ \A n \in Nat : F[n + 1] = next(F[n])
  BY <1>8, <1>9 DEF Iteration
<1> HIDE DEF C
<1>11. \A n \in Nat : n <= C - 1 => Cardinality(F[n]) = C - n
  <2> DEFINE S == {n \in Nat : n <= C - 1 => Cardinality(F[n]) = C - n}
  <2>1. 0 \in S
    BY <1>7, <1>10 DEF C
  <2>2. ASSUME NEW n \in S PROVE n + 1 \in S
    <3> SUFFICES ASSUME n + 1 <= C - 1 PROVE Cardinality(F[n + 1]) = C - (n + 1)
      OBVIOUS
    <3>1. n \in Nat /\ Cardinality(F[n]) = C - n /\ F[n] \in V
      BY <1>7, <1>10
    <3>2. Cardinality(F[n]) # 1
      BY <1>7, <3>1
    <3>3. F[n + 1] = MergeFirstTwo(F[n]) /\ Cardinality(MergeFirstTwo(F[n])) = Cardinality(F[n]) - 1
      BY <1>6, <1>10, <3>1, <3>2
    <3> QED
      BY <1>7, <3>1, <3>3
  <2>3. S = Nat
    <3>1. S \in SUBSET Nat
      OBVIOUS
    <3> HIDE DEF S
    <3> QED
      BY <2>1, <2>2, <3>1, NatSet
  <2> QED
    BY <2>3
<1>12. \A n \in Nat : n + 1 <= C - 1 => F[n + 1] = MergeFirstTwo(F[n])
  <2> TAKE n \in Nat
  <2> HAVE n + 1 <= C - 1
  <2>1. F[n] \in V /\ Cardinality(F[n]) = C - n
    BY <1>7, <1>10, <1>11
  <2>2. Cardinality(F[n]) # 1
    BY <1>7, <2>1
  <2> QED
    BY <1>6, <1>10, <2>1, <2>2
<1>13. after = Rec(after)
  <2> DEFINE G == [n \in 0..(C - 1) |-> F[n]]
  <2>1. ASSUME NEW n \in 0..(C - 1) PROVE G[n] = Rec(G)[n]
    <3>1. CASE n = 0
      BY <1>10, <3>1
    <3>2. CASE n # 0
      <4>1. n - 1 \in 0..(C - 1) /\ n - 1 \in Nat /\ (n - 1) + 1 = n /\ n <= C - 1
        BY <1>7, <3>2
      <4>2. F[(n - 1) + 1] = MergeFirstTwo(F[n - 1])
        BY <1>12, <4>1
      <4>3. G[n - 1] = F[n - 1] /\ G[n] = F[n]
        BY <4>1
      <4>4. Rec(G)[n] = MergeFirstTwo(G[n - 1])
        BY <3>2
      <4> HIDE DEF G, Rec
      <4> QED
        BY <4>1, <4>2, <4>3, <4>4
    <3> QED
      BY <3>1, <3>2
  <2>2. G = [n \in 0..(C - 1) |-> G[n]] /\ Rec(G) = [n \in 0..(C - 1) |-> Rec(G)[n]]
    OBVIOUS
  <2>3. G = Rec(G)
    <3> HIDE DEF G, Rec
    <3> QED
      BY <2>1, <2>2
  <2> HIDE DEF G, Rec
  <2> QED
    BY <2>3
<1>14. \A n \in 0..(C - 1) : after[n] = IF n = 0 THEN initial ELSE MergeFirstTwo(after[n - 1])
  <2>1. \A n \in 0..(C - 1) :
            Rec(after)[n] = IF n = 0 THEN initial ELSE MergeFirstTwo(after[n - 1])
    OBVIOUS
  <2> HIDE DEF after, Rec
  <2> QED
    BY <1>13, <2>1
<1> HIDE DEF after
<1>15. \A n \in Nat : n <= C - 1 => after[n] = F[n]
  <2> DEFINE S == {n \in Nat : n <= C - 1 => after[n] = F[n]}
  <2>1. 0 \in S
    BY <1>7, <1>10, <1>14
  <2>2. ASSUME NEW n \in S PROVE n + 1 \in S
    <3> SUFFICES ASSUME n + 1 <= C - 1 PROVE after[n + 1] = F[n + 1]
      OBVIOUS
    <3>1. n \in Nat /\ n + 1 \in 0..(C - 1) /\ n + 1 # 0 /\ (n + 1) - 1 = n /\ after[n] = F[n]
      BY <1>7
    <3>2. after[n + 1] = MergeFirstTwo(after[n])
      BY <1>14, <3>1
    <3> QED
      BY <1>12, <3>1, <3>2
  <2>3. S = Nat
    <3>1. S \in SUBSET Nat
      OBVIOUS
    <3> HIDE DEF S
    <3> QED
      BY <2>1, <2>2, <3>1, NatSet
  <2> QED
    BY <2>3
<1> DEFINE Z == F[C - 1]
<1>16. after[C - 1] = Z /\ Z \in V /\ Cardinality(Z) = 1
  <2>1. C - 1 \in Nat /\ C - 1 <= C - 1 /\ C - (C - 1) = 1
    BY <1>7
  <2> QED
    BY <1>10, <1>11, <1>15, <2>1
<1> HIDE DEF Z
<1>17. IsStates(Z, length, k, even, d)
  BY <1>1, <1>16
<1>18. PICK s : Z = {s}
  BY <1>16, <1>17, FS_Singleton DEF IsStates
<1>19. final = s
  BY <1>16, <1>18
<1>20. IsState(s, length, k, even, d)
  BY <1>17, <1>18 DEF IsStates
<1>21. RowsOf(s) = 1..Len(length)
  <2>1. UNION {RowsOf(t) : t \in Z} = 1..Len(length)
    BY <1>17 DEF IsStates
  <2> QED
    BY <1>18, <2>1
<1> HIDE DEF final
<1>22. KarmarkarKarp(length, k, even) = [i \in 1..k |-> s[i].items]
  BY <1>5, <1>19
<1>23. IsFinal(s, length, k, even, d)
  BY <1>20, <1>21, <1>22 DEF IsFinal
<1> QED
  BY <1>23

\* A set of rows, in their order.
LEMMA AscendingFacts ==
    ASSUME NEW m \in Nat, NEW rows \in SUBSET (1..m)
    PROVE  /\ Ascending(rows) \in Seq(1..m) /\ Len(Ascending(rows)) = Cardinality(rows)
           /\ ToSet(Ascending(rows)) = rows
           /\ \A x, y \in 1..Cardinality(rows) : Ascending(rows)[x] = Ascending(rows)[y] => x = y
<1> DEFINE ahead == [i \in rows |-> {j \in rows : j < i}]
           n == Cardinality(rows)
           p == SortedBy(rows, ahead)
<1>1. \A i, j \in rows : i \in Int /\ j \in Int
  OBVIOUS
<1>2. ahead \in [rows -> SUBSET rows] /\ \A i, j \in rows : i \in ahead[j] <=> i < j
  OBVIOUS
<1>3. Ascending(rows) = Evaluated(p)
  BY DEF Ascending
<1>4. IsFiniteSet(rows)
  <2>1. IsFiniteSet(1..m)
    BY FS_Interval
  <2> QED
    BY <2>1, FS_Subset
<1> HIDE DEF ahead
<1>5. IsOrder(rows, ahead)
  <2>1. \A i \in rows : i \notin ahead[i]
    BY <1>1, <1>2
  <2>2. \A i, j \in rows : i # j => i \in ahead[j] \/ j \in ahead[i]
    BY <1>1, <1>2
  <2>3. ASSUME NEW i \in rows, NEW j \in rows, i \in ahead[j], NEW h \in ahead[i]
        PROVE  h \in ahead[j]
    <3>1. h \in rows /\ h < i /\ i < j
      BY <1>2, <2>3
    <3>2. h < j
      <4>1. h \in Int /\ i \in Int /\ j \in Int
        BY <1>1, <3>1
      <4> QED
        BY <3>1, <4>1
    <3> QED
      BY <1>2, <3>1, <3>2
  <2> QED
    BY <1>2, <2>1, <2>2, <2>3 DEF IsOrder
<1>6. /\ n \in Nat /\ SortedBy(rows, ahead) \in [1..n -> rows]
      /\ \A x \in rows : \E i \in 1..n : SortedBy(rows, ahead)[i] = x
      /\ \A i, j \in 1..n : i < j <=> SortedBy(rows, ahead)[i] \in ahead[SortedBy(rows, ahead)[j]]
  BY <1>4, <1>5, SortedByOrder
<1> HIDE DEF p, n
<1>7. /\ n \in Nat /\ p \in [1..n -> rows]
      /\ \A x \in rows : \E i \in 1..n : p[i] = x
      /\ \A i, j \in 1..n : i < j <=> p[i] \in ahead[p[j]]
  BY <1>6 DEF p
<1>8. \A i, j \in 1..n : p[i] = p[j] => i = j
  <2> SUFFICES ASSUME NEW i \in 1..n, NEW j \in 1..n, p[i] = p[j] PROVE i = j
    OBVIOUS
  <2>1. p[i] \in rows /\ p[i] \notin ahead[p[j]] /\ p[j] \notin ahead[p[i]]
    BY <1>1, <1>2, <1>7
  <2>2. ~(i < j) /\ ~(j < i)
    BY <1>7, <2>1
  <2> QED
    BY <1>7, <2>2
<1>9. p \in Seq(1..m) /\ Len(p) = n /\ DOMAIN p = 1..n
  <2> DEFINE S == 1..m
  <2>1. rows \in SUBSET S
    OBVIOUS
  <2> HIDE DEF S
  <2>2. p \in [1..n -> S]
    BY <1>7, <2>1
  <2>3. p \in Seq(S) /\ Len(p) = n /\ DOMAIN p = 1..n
    BY <1>7, <2>2
  <2> QED
    BY <2>3 DEF S
<1>10. Evaluated(p) = p
  BY <1>9, EvaluatedIsSame
<1>11. ToSet(p) = rows
  <2>1. \A x \in 1..n : p[x] \in rows
    BY <1>7
  <2>2. ToSet(p) = {p[x] : x \in 1..n}
    BY <1>9 DEF ToSet
  <2> QED
    BY <1>7, <2>1, <2>2
<1> QED
  BY <1>3, <1>8, <1>9, <1>10, <1>11 DEF n

\* A state of all rows, when there is one for every set, has no empty set.
LEMMA NoneEmpty ==
    ASSUME NEW length, IsLengths(length), NEW k \in Nat, NEW even \in BOOLEAN, NEW d \in Int,
           NEW s, IsState(s, length, k, even, d), RowsOf(s) = 1..Len(length), k <= Len(length)
    PROVE  \A i \in 1..k : s[i].items # <<>>
<1> DEFINE m == Len(length)
<1>1. /\ m \in Nat /\ s \in Seq(Sets(m)) /\ Len(s) = k /\ Shaped(s, even) /\ Apart(s)
      /\ k <= m /\ RowsOf(s) = 1..m
  BY DEF IsLengths, IsState, IsSplit
<1>2. 1 \in 1..k /\ s[1].items # <<>>
  BY LargestNotEmpty
<1> HIDE DEF m
<1>3. \A i \in 1..k : s[i].items \in Seq(1..m)
  BY <1>1, SetsOfState
<1>4. \A i \in 1..k : Len(s[i].items) \in Nat /\ (s[i].items = <<>> <=> Len(s[i].items) = 0)
  BY <1>1, <1>3, ItemFacts
<1>5. CASE even
  <2>1. \A i \in 1..k : Len(s[i].items) = Len(s[1].items)
    BY <1>1, <1>2, <1>5 DEF Shaped
  <2> QED
    BY <1>2, <1>4, <2>1
<1>6. CASE ~even
  <2>1. SUFFICES ASSUME \A i \in 1..k : Len(s[i].items) <= 1, NEW e \in 1..k, s[e].items = <<>>
                 PROVE  FALSE
    BY <1>1, <1>6 DEF Shaped
  <2>2. \A row \in 1..m : HasRow(s, k, row)
    BY <1>1, RowsAreItems
  <2>3. \A row \in 1..m : \E i \in 1..k : 1 \in 1..Len(s[i].items) /\ s[i].items[1] = row
    <3> TAKE row \in 1..m
    <3>1. PICK i \in 1..k : \E x \in 1..Len(s[i].items) : s[i].items[x] = row
      BY <2>2 DEF HasRow
    <3>2. PICK x \in 1..Len(s[i].items) : s[i].items[x] = row
      BY <3>1
    <3>3. x = 1
      <4>1. Len(s[i].items) \in Nat /\ Len(s[i].items) <= 1
        BY <1>4, <2>1
      <4> QED
        BY <4>1
    <3> QED
      BY <3>2, <3>3
  <2> DEFINE T == (1..k) \ {e}
             f == [row \in 1..m |-> CHOOSE i \in 1..k : 1 \in 1..Len(s[i].items) /\ s[i].items[1] = row]
  <2>4. \A row \in 1..m : /\ f[row] \in 1..k /\ 1 \in 1..Len(s[f[row]].items)
                          /\ s[f[row]].items[1] = row
    BY <2>3
  <2>5. Len(s[e].items) = 0
    BY <1>4, <2>1
  <2>6. \A row \in 1..m : f[row] # e
    <3> TAKE row \in 1..m
    <3> HIDE DEF f
    <3>1. 1 \in 1..Len(s[f[row]].items)
      BY <2>4
    <3>2. ~(1 \in 1..Len(s[e].items))
      BY <2>5
    <3> QED
      BY <3>1, <3>2
  <2>7. f \in [1..m -> T]
    <3>1. f = [row \in 1..m |-> f[row]]
      OBVIOUS
    <3> HIDE DEF f
    <3> QED
      BY <2>4, <2>6, <3>1
  <2> HIDE DEF f
  <2>8. f \in Injection(1..m, T)
    BY <2>4, <2>7 DEF Injection, IsInjective
  <2>9. IsFiniteSet(1..k) /\ Cardinality(1..k) = k /\ Cardinality(1..m) = m
    BY <1>1, FS_Interval
  <2>10. IsFiniteSet(T) /\ Cardinality(T) = k - 1
    BY <2>1, <2>9, FS_RemoveElement
  <2> HIDE DEF T
  <2>11. Cardinality(1..m) <= Cardinality(T)
    BY <2>8, <2>10, FS_Injection
  <2> QED
    BY <1>1, <2>9, <2>10, <2>11
<1> QED
  BY <1>5, <1>6

\* Sets of the same size share the rows evenly.
LEMMA EvenSets ==
    ASSUME NEW length, IsLengths(length), NEW k \in Nat, NEW even \in BOOLEAN, even, NEW d \in Int,
           NEW s, IsState(s, length, k, even, d), RowsOf(s) = 1..Len(length),
           NEW c \in Nat, Len(length) = c * k
    PROVE  \A i \in 1..k : Len(s[i].items) = c
<1> DEFINE m == Len(length)
           e == Len(s[1].items)
<1>1. /\ m \in Nat /\ s \in Seq(Sets(m)) /\ Len(s) = k /\ Shaped(s, even) /\ Apart(s)
      /\ RowsOf(s) = 1..m
  <2>1. m \in Nat
    BY DEF IsLengths
  <2>2. IsSplit(s, length, k, even, d) /\ RowsOf(s) = 1..m
    BY DEF IsState
  <2> HIDE DEF m
  <2>3. s \in Seq(Sets(m)) /\ Len(s) = k /\ Shaped(s, even) /\ Apart(s)
    BY <2>2 DEF IsSplit, m
  <2> QED
    BY <2>1, <2>2, <2>3
<1>2. 1 \in 1..k /\ s[1].items # <<>>
  BY LargestNotEmpty
<1> HIDE DEF m
<1>3. \A i \in 1..k : s[i].items \in Seq(1..m)
  BY <1>1, SetsOfState
<1>4. e \in Nat \ {0}
  BY <1>1, <1>2, <1>3, ItemFacts
<1>5. \A i \in 1..k : Len(s[i].items) = e
  BY <1>1, <1>2 DEF Shaped
<1> HIDE DEF e
<1>6. \A row \in 1..m : \E i \in 1..k : \E x \in 1..e : s[i].items[x] = row
  <2>1. \A row \in 1..m : HasRow(s, k, row)
    BY <1>1, RowsAreItems
  <2> QED
    BY <1>5, <2>1 DEF HasRow
<1>7. \A i \in 1..k : \A x \in 1..e : s[i].items[x] \in 1..m
  BY <1>1, <1>3, <1>5, ItemFacts
<1>8. ASSUME NEW i \in 1..k, NEW j \in 1..k, NEW x \in 1..e, NEW y \in 1..e,
             s[i].items[x] = s[j].items[y]
      PROVE  i = j /\ x = y
  <2>1. x \in 1..Len(s[i].items) /\ y \in 1..Len(s[j].items)
    BY <1>5
  <2> QED
    BY <1>1, <1>8, <2>1 DEF Apart
<1> DEFINE pos(i, x) == (i - 1) * e + x
           set(row) == CHOOSE i \in 1..k : \E x \in 1..e : s[i].items[x] = row
           at_(row) == CHOOSE x \in 1..e : s[set(row)].items[x] = row
           f == [row \in 1..m |-> pos(set(row), at_(row))]
<1>9. \A row \in 1..m : set(row) \in 1..k /\ at_(row) \in 1..e /\ s[set(row)].items[at_(row)] = row
  <2> TAKE row \in 1..m
  <2>1. set(row) \in 1..k /\ \E x \in 1..e : s[set(row)].items[x] = row
    BY <1>6
  <2> HIDE DEF set
  <2> QED
    BY <2>1
<1>10. /\ k * e \in Nat
       /\ \A i \in 1..k : \A x \in 1..e : pos(i, x) \in 1..(k * e)
       /\ \A i, j \in 1..k : \A x, y \in 1..e : pos(i, x) = pos(j, y) => i = j /\ x = y
       /\ \A z \in 1..(k * e) : \E i \in 1..k : \E x \in 1..e : z = pos(i, x)
  <2>1. /\ k * e \in Nat
        /\ \A g \in 1..k : /\ (g - 1) * e \in Nat /\ g * e = (g - 1) * e + e
                           /\ g * e <= k * e
        /\ \A g, h \in 1..k : \A i, j \in 1..e :
              (g - 1) * e + i = (h - 1) * e + j => g = h /\ i = j
        /\ \A x \in 1..(k * e) : \E g \in 1..k : \E i \in 1..e : x = (g - 1) * e + i
    BY <1>4, Blocks
  <2>2. \A i \in 1..k : \A x \in 1..e : pos(i, x) \in 1..(k * e)
    <3> TAKE i \in 1..k
    <3> TAKE x \in 1..e
    <3> DEFINE a == (i - 1) * e
               b == i * e
               n == k * e
    <3>1. a \in Nat /\ b = a + e /\ b <= n /\ n \in Nat
      BY <2>1
    <3> HIDE DEF a, b, n
    <3>2. a + x \in 1..n
      BY <1>4, <3>1
    <3> QED
      BY <3>2 DEF a, n
  <2> QED
    BY <2>1, <2>2
<1> HIDE DEF pos, set, at_
<1>11. \A row \in 1..m : f[row] = pos(set(row), at_(row)) /\ f[row] \in 1..(k * e)
  BY <1>9, <1>10
<1>12. f \in [1..m -> 1..(k * e)]
  <2>1. f = [row \in 1..m |-> f[row]]
    OBVIOUS
  <2> HIDE DEF f
  <2> QED
    BY <1>11, <2>1
<1> HIDE DEF f
<1>13. \A r, q \in 1..m : f[r] = f[q] => r = q
  <2> TAKE r, q \in 1..m
  <2> HAVE f[r] = f[q]
  <2>1. pos(set(r), at_(r)) = pos(set(q), at_(q))
    BY <1>11
  <2>2. set(r) = set(q) /\ at_(r) = at_(q)
    BY <1>9, <1>10, <2>1
  <2> QED
    BY <1>9, <2>2
<1>14. \A z \in 1..(k * e) : \E row \in 1..m : f[row] = z
  <2> TAKE z \in 1..(k * e)
  <2>1. PICK i \in 1..k : \E x \in 1..e : z = pos(i, x)
    BY <1>10
  <2>2. PICK x \in 1..e : z = pos(i, x)
    BY <2>1
  <2> DEFINE row == s[i].items[x]
  <2>3. row \in 1..m
    BY <1>7
  <2>4. set(row) = i /\ at_(row) = x
    <3>1. s[set(row)].items[at_(row)] = s[i].items[x] /\ set(row) \in 1..k /\ at_(row) \in 1..e
      BY <1>9, <2>3
    <3> QED
      BY <1>8, <3>1
  <2> HIDE DEF row
  <2> QED
    BY <1>11, <2>2, <2>3, <2>4
<1>15. f \in Bijection(1..m, 1..(k * e))
  BY <1>12, <1>13, <1>14 DEF Bijection, Injection, Surjection, IsInjective
<1>16. m = k * e
  <2> DEFINE n == k * e
  <2>1. n \in Nat /\ f \in Bijection(1..m, 1..n)
    BY <1>10, <1>15
  <2> HIDE DEF n
  <2>2. IsFiniteSet(1..m) /\ Cardinality(1..m) = m /\ Cardinality(1..n) = n
    BY <1>1, <2>1, FS_Interval
  <2>3. Cardinality(1..n) = Cardinality(1..m)
    BY <2>1, <2>2, FS_Bijection DEF ExistsBijection
  <2> QED
    BY <2>2, <2>3 DEF n
<1>17. c = e
  <2>1. k * e = k * c /\ k \in Nat \ {0}
    BY <1>2, <1>16 DEF m
  <2>2. \A a \in Nat \ {0}, b, g \in Nat : a * b = a * g => b = g
    OBVIOUS
  <2> QED
    BY <1>4, <2>1, <2>2
<1> QED
  BY <1>5, <1>17

\* The positions 1 to m in k parts, none of them empty.
IsPartition(P, m, k) ==
    /\ P \in Seq(Seq(1..m)) /\ Len(P) = k
    /\ \A i \in 1..k : P[i] # <<>>
    /\ \A i, j \in 1..k : \A x \in 1..Len(P[i]), y \in 1..Len(P[j]) :
          P[i][x] = P[j][y] => i = j /\ x = y
    /\ \A row \in 1..m : \E i \in 1..k : \E x \in 1..Len(P[i]) : P[i][x] = row

\* No two parts differ by more than d in their tokens.
Even(P, k, length, d) ==
    \A i, j \in 1..k : Tokens(P[i], length) - Tokens(P[j], length) <= d

\* get_seqlen_balanced_partitions: every row is in one part, and no part is
\* empty, as the assertions in it demand.
THEOREM PartitionsBalanced ==
    ASSUME NEW length, IsLengths(length), NEW k \in Nat \ {0}, NEW even \in BOOLEAN,
           NEW d, Bounds(d, length, even), NEW c \in Nat \ {0},
           Sized(length, k, even, c), k <= Len(length)
    PROVE  /\ IsPartition(BalancedPartitions(length, k, even), Len(length), k)
           /\ even => \A i \in 1..k : Len(BalancedPartitions(length, k, even)[i]) = c
           /\ Even(BalancedPartitions(length, k, even), k, length, d)
<1> DEFINE m == Len(length)
           P == BalancedPartitions(length, k, even)
<1>1. m \in Nat /\ d \in Int /\ k <= m /\ k \in Nat
  BY DEF IsLengths, Bounds
<1>2. PICK s : /\ IsState(s, length, k, even, d) /\ RowsOf(s) = 1..m
               /\ KarmarkarKarp(length, k, even) = [i \in 1..k |-> s[i].items]
  <2>1. PICK s : IsFinal(s, length, k, even, d)
    BY FinalState
  <2> QED
    BY <2>1 DEF IsFinal
<1>3. IsSplit(s, length, k, even, d)
  BY <1>2 DEF IsState
<1>4. \A i \in 1..k : s[i].items # <<>>
  BY <1>1, <1>2, NoneEmpty
<1> DEFINE rows(i) == ToSet(s[i].items)
           F == [i \in 1..k |-> Ascending(rows(i))]
           parts == KarmarkarKarp(length, k, even)
<1>5. P = Evaluated(F)
  <2>1. P = Evaluated([i \in 1..k |-> Ascending(ToSet(parts[i]))])
    BY DEF BalancedPartitions
  <2>2. \A i \in 1..k : parts[i] = s[i].items
    BY <1>2
  <2> HIDE DEF parts, P
  <2>3. [i \in 1..k |-> Ascending(ToSet(parts[i]))] = F
    BY <2>2
  <2> QED
    BY <2>1, <2>3
<1> HIDE DEF P, m, parts
<1>6. /\ s \in Seq(Sets(m)) /\ Len(s) = k /\ Summed(s, length) /\ Apart(s) /\ Near(s, d)
  BY <1>3 DEF IsSplit, m
<1>7. \A i \in 1..k : s[i].items \in Seq(1..m)
  BY <1>1, <1>6, SetsOfState
<1>8. \A i \in 1..k : /\ rows(i) \in SUBSET (1..m) /\ rows(i) # {}
                      /\ \A row : row \in rows(i) <=> \E x \in 1..Len(s[i].items) : s[i].items[x] = row
  BY <1>1, <1>4, <1>7, ItemFacts
<1> HIDE DEF rows
<1>9. \A i \in 1..k : /\ F[i] \in Seq(1..m) /\ Len(F[i]) = Cardinality(rows(i))
                      /\ ToSet(F[i]) = rows(i)
                      /\ \A x, y \in 1..Cardinality(rows(i)) : F[i][x] = F[i][y] => x = y
  BY <1>1, <1>8, AscendingFacts
<1>10. F \in Seq(Seq(1..m)) /\ Len(F) = k
  BY <1>1, <1>9
<1>11. P = F
  <2> HIDE DEF F
  <2> QED
    BY <1>5, <1>10, EvaluatedIsSame
<1> HIDE DEF F
<1>12. \A i \in 1..k : /\ P[i] \in Seq(1..m) /\ Len(P[i]) = Cardinality(rows(i))
                       /\ ToSet(P[i]) = rows(i)
                       /\ \A x, y \in 1..Len(P[i]) : P[i][x] = P[i][y] => x = y
                       /\ \A row : row \in rows(i) <=> \E x \in 1..Len(P[i]) : P[i][x] = row
  <2> TAKE i \in 1..k
  <2>1. /\ P[i] \in Seq(1..m) /\ Len(P[i]) = Cardinality(rows(i))
        /\ ToSet(P[i]) = rows(i)
        /\ \A x, y \in 1..Cardinality(rows(i)) : P[i][x] = P[i][y] => x = y
    BY <1>9, <1>11
  <2>2. \A row : row \in ToSet(P[i]) <=> \E x \in 1..Len(P[i]) : P[i][x] = row
    BY <1>1, <2>1, ItemFacts
  <2> QED
    BY <2>1, <2>2
<1>13. ASSUME NEW i \in 1..k, NEW j \in 1..k, NEW row, row \in rows(i), row \in rows(j)
       PROVE  i = j
  <2>1. PICK x \in 1..Len(s[i].items) : s[i].items[x] = row
    BY <1>8, <1>13
  <2>2. PICK y \in 1..Len(s[j].items) : s[j].items[y] = row
    BY <1>8, <1>13
  <2> QED
    BY <1>6, <2>1, <2>2 DEF Apart
<1>14. IsPartition(P, m, k)
  <2>1. ASSUME NEW i \in 1..k PROVE P[i] # <<>>
    <3> DEFINE a == P[i]
    <3>1. a \in Seq(1..m) /\ ToSet(a) # {}
      BY <1>8, <1>12
    <3> HIDE DEF a
    <3>2. a # <<>>
      BY <1>1, <3>1, ItemFacts
    <3> QED
      BY <3>2 DEF a
  <2>2. ASSUME NEW i \in 1..k, NEW j \in 1..k, NEW x \in 1..Len(P[i]), NEW y \in 1..Len(P[j]),
               P[i][x] = P[j][y]
        PROVE  i = j /\ x = y
    <3>1. P[i][x] \in rows(i) /\ P[j][y] \in rows(j)
      BY <1>12
    <3>2. i = j
      BY <1>13, <2>2, <3>1
    <3> QED
      BY <1>12, <2>2, <3>2
  <2>3. ASSUME NEW row \in 1..m PROVE \E i \in 1..k : \E x \in 1..Len(P[i]) : P[i][x] = row
    <3>1. HasRow(s, k, row)
      BY <1>1, <1>2, <1>6, RowsAreItems
    <3>2. PICK i \in 1..k : row \in rows(i)
      BY <1>8, <3>1 DEF HasRow
    <3> QED
      BY <1>12, <3>2
  <2> QED
    BY <1>10, <1>11, <2>1, <2>2, <2>3 DEF IsPartition
<1>15. ASSUME even, NEW i \in 1..k PROVE Len(P[i]) = c
  <2>1. m = c * k
    BY <1>15 DEF m, Sized
  <2>2. Len(s[i].items) = c
    BY <1>1, <1>2, <1>15, <2>1, EvenSets DEF m
  <2> DEFINE items == s[i].items
  <2>3. Cardinality(1..c) = c /\ IsFiniteSet(1..c)
    BY FS_Interval
  <2>4. items \in Seq(1..m) /\ Len(items) = c /\ \A row : row \in rows(i) <=> \E x \in 1..c : items[x] = row
    BY <1>7, <1>8, <2>2
  <2>5. \A x, y \in 1..c : items[x] = items[y] => x = y
    BY <1>6, <2>2 DEF Apart
  <2> HIDE DEF items
  <2>6. items \in Bijection(1..c, rows(i))
    <3>1. items \in [1..c -> rows(i)]
      BY <2>4
    <3> QED
      BY <2>4, <2>5, <3>1 DEF Bijection, Injection, Surjection, IsInjective
  <2>7. Cardinality(rows(i)) = Cardinality(1..c)
    BY <2>3, <2>6, FS_Bijection DEF ExistsBijection
  <2> QED
    BY <1>12, <2>3, <2>7
<1>16. Even(P, k, length, d)
  <2>1. \A i \in 1..k : Tokens(P[i], length) = s[i].sum
    <3> TAKE i \in 1..k
    <3>1. s[i].sum = SumFunctionOnSet(length, rows(i))
      BY <1>6 DEF Summed, rows
    <3>2. Tokens(P[i], length) = SumFunctionOnSet(length, ToSet(P[i]))
      BY DEF Tokens
    <3> QED
      BY <1>12, <3>1, <3>2
  <2>2. \A i, j \in 1..k : s[i].sum - s[j].sum <= d
    BY <1>6 DEF Near
  <2> QED
    BY <2>1, <2>2 DEF Even
<1> QED
  BY <1>14, <1>15, <1>16 DEF P, m

\* A partition in another order is a partition.
LEMMA ReorderedPartition ==
    ASSUME NEW m \in Nat, NEW k \in Nat, NEW P, IsPartition(P, m, k),
           NEW p, IsPermutation(p, k), NEW R \in Seq(Seq(1..m)), Len(R) = k,
           \A i \in 1..k : R[i] = P[p[i]]
    PROVE  IsPartition(R, m, k)
<1>1. /\ \A i \in 1..k : p[i] \in 1..k
      /\ \A i, j \in 1..k : p[i] = p[j] => i = j
      /\ \A j \in 1..k : \E i \in 1..k : p[i] = j
  BY DEF IsPermutation
<1>2. /\ \A i \in 1..k : P[i] # <<>>
      /\ \A i, j \in 1..k : \A x \in 1..Len(P[i]), y \in 1..Len(P[j]) :
            P[i][x] = P[j][y] => i = j /\ x = y
      /\ \A row \in 1..m : \E i \in 1..k : \E x \in 1..Len(P[i]) : P[i][x] = row
  BY DEF IsPartition
<1>3. ASSUME NEW i \in 1..k PROVE R[i] # <<>>
  <2> DEFINE a == p[i]
  <2>1. a \in 1..k /\ R[i] = P[a]
    BY <1>1
  <2> HIDE DEF a
  <2>2. P[a] # <<>>
    BY <1>2, <2>1
  <2> QED
    BY <2>1, <2>2
<1>4. ASSUME NEW i \in 1..k, NEW j \in 1..k, NEW x \in 1..Len(R[i]), NEW y \in 1..Len(R[j]),
             R[i][x] = R[j][y]
      PROVE  i = j /\ x = y
  <2>1. /\ p[i] \in 1..k /\ p[j] \in 1..k /\ R[i] = P[p[i]] /\ R[j] = P[p[j]]
        /\ x \in 1..Len(P[p[i]]) /\ y \in 1..Len(P[p[j]]) /\ P[p[i]][x] = P[p[j]][y]
    BY <1>1, <1>4
  <2>2. p[i] = p[j] /\ x = y
    <3> DEFINE a == p[i]
               b == p[j]
    <3>1. /\ a \in 1..k /\ b \in 1..k /\ x \in 1..Len(P[a]) /\ y \in 1..Len(P[b])
          /\ P[a][x] = P[b][y]
      BY <2>1
    <3> HIDE DEF a, b
    <3>2. \A g, h \in 1..k : \A u \in 1..Len(P[g]), v \in 1..Len(P[h]) :
            P[g][u] = P[h][v] => g = h /\ u = v
      BY <1>2
    <3>3. a = b /\ x = y
      BY ONLY <3>1, <3>2, Zenon
    <3> QED
      BY <3>3 DEF a, b
  <2> QED
    BY <1>1, <2>2
<1>5. ASSUME NEW row \in 1..m PROVE \E i \in 1..k : \E x \in 1..Len(R[i]) : R[i][x] = row
  <2>1. PICK j \in 1..k : \E x \in 1..Len(P[j]) : P[j][x] = row
    BY <1>2
  <2>2. PICK i \in 1..k : p[i] = j
    BY <1>1
  <2>3. R[i] = P[j]
    BY <2>2
  <2> QED
    BY <2>1, <2>3
<1> QED
  BY <1>3, <1>4, <1>5 DEF IsPartition

\* rearrange_micro_batches: every row is in one micro-batch, none of them is
\* empty, and they are even.
THEOREM MicroBatchesBalanced ==
    ASSUME NEW length, IsLengths(length), NEW n \in Nat \ {0}, n <= Len(length),
           NEW even \in BOOLEAN, ~even, NEW d, Bounds(d, length, even)
    PROVE  /\ IsPartition(MicroBatches(length, n), Len(length), n)
           /\ Even(MicroBatches(length, n), n, length, d)
<1> DEFINE m == Len(length)
           P == BalancedPartitions(length, n, even)
           W == [i \in 1..n |-> Workload(P[i], length)]
           work == Evaluated(W)
           ahead == [i \in 1..n |-> {j \in 1..n : \/ work[j] > work[i]
                                                  \/ work[j] = work[i] /\ P[j][1] > P[i][1]}]
           R == MicroBatches(length, n)
<1>1. m \in Nat \ {0} /\ \A x \in 1..m : length[x] \in Nat \ {0}
  BY DEF IsLengths
<1>2. Sized(length, n, even, m)
  BY <1>1 DEF Sized
<1>3. IsPartition(P, m, n) /\ Even(P, n, length, d)
  BY <1>1, <1>2, PartitionsBalanced
<1>4. R = Arranged(P, ahead)
  <2>1. even = FALSE
    OBVIOUS
  <2>2. P = BalancedPartitions(length, n, FALSE)
    BY <2>1
  <2> HIDE DEF P
  <2>3. R = LET parts == P
                work_1  == Evaluated([i \in 1..n |-> Workload(parts[i], length)])
            IN  Arranged(parts, [i \in 1..n |->
            {j \in 1..n : \/ work_1[j] > work_1[i]
                          \/ work_1[j] = work_1[i] /\ parts[j][1] > parts[i][1]}])
    BY <2>2 DEF MicroBatches
  <2> QED
    BY <2>3
<1> HIDE DEF P, R, m
<1>5. /\ P \in Seq(Seq(1..m)) /\ Len(P) = n
      /\ \A i \in 1..n : P[i] # <<>>
      /\ \A i, j \in 1..n : \A x \in 1..Len(P[i]), y \in 1..Len(P[j]) :
            P[i][x] = P[j][y] => i = j /\ x = y
  BY <1>3 DEF IsPartition
<1>6. \A i \in 1..n : P[i] \in Seq(1..m) /\ 1 \in 1..Len(P[i]) /\ P[i][1] \in 1..m
  <2> TAKE i \in 1..n
  <2> DEFINE a == P[i]
  <2>1. a \in Seq(1..m) /\ a # <<>>
    BY <1>5
  <2> HIDE DEF a
  <2>2. Len(a) \in Nat \ {0} /\ \A x \in 1..Len(a) : a[x] \in 1..m
    BY <1>1, <2>1, ItemFacts
  <2>3. a \in Seq(1..m) /\ 1 \in 1..Len(a) /\ a[1] \in 1..m
    BY <2>1, <2>2
  <2> QED
    BY <2>3 DEF a
<1>7. \A i, j \in 1..n : P[i][1] = P[j][1] => i = j
  BY <1>5, <1>6
<1>8. \A i \in 1..n : Workload(P[i], length) \in Int
  <2> TAKE i \in 1..n
  <2> DEFINE squares == [x \in DOMAIN length |-> length[x] * length[x]]
  <2>1. \A x \in 1..m : squares[x] \in Int
    <3>1. DOMAIN length = 1..m
      BY DEF IsLengths, m
    <3>2. \A a \in Nat : a * a \in Int
      OBVIOUS
    <3> QED
      BY <1>1, <3>1, <3>2
  <2> HIDE DEF squares
  <2> DEFINE rows == ToSet(P[i])
  <2>2. rows \in SUBSET (1..m)
    <3> DEFINE a == P[i]
    <3>1. a \in Seq(1..m)
      BY <1>5
    <3> HIDE DEF a
    <3>2. ToSet(a) \in SUBSET (1..m)
      BY <1>1, <3>1, ItemFacts
    <3> QED
      BY <3>2 DEF a
  <2> HIDE DEF rows
  <2>3. IsFiniteSet(1..m)
    BY <1>1, FS_Interval
  <2>4. IsFiniteSet(rows) /\ \A x \in rows : squares[x] \in Int
    BY <2>1, <2>2, <2>3, FS_Subset
  <2>5. SumFunctionOnSet(squares, rows) \in Int
    BY <2>4, SumInt
  <2> QED
    BY <2>5 DEF Workload, squares, rows
<1>9. W \in Seq(Int) /\ \A i \in 1..n : W[i] \in Int
  BY <1>8
<1>10. work = W
  <2> HIDE DEF W
  <2> QED
    BY <1>9, EvaluatedIsSame
<1> HIDE DEF W, work
<1>11. \A i, j \in 1..n : j \in ahead[i] <=> \/ work[j] > work[i]
                                             \/ work[j] = work[i] /\ P[j][1] > P[i][1]
  OBVIOUS
<1>12. ahead \in [1..n -> SUBSET (1..n)]
  OBVIOUS
<1> HIDE DEF ahead
<1>13. \A i \in 1..n : work[i] \in Int /\ P[i][1] \in Int
  BY <1>6, <1>9, <1>10
<1>14. \A i \in 1..n : i \notin ahead[i]
  BY <1>11, <1>13
<1>15. \A i, j \in 1..n : i # j => i \in ahead[j] \/ j \in ahead[i]
  <2> TAKE i, j \in 1..n
  <2> HAVE i # j
  <2>1. P[i][1] # P[j][1]
    BY <1>7
  <2> QED
    BY <1>11, <1>13, <2>1
<1>16. ASSUME NEW i \in 1..n, NEW j \in 1..n, NEW l \in 1..n, i \in ahead[j], l \in ahead[i]
       PROVE  l \in ahead[j]
  <2>1. work[i] > work[j] \/ (work[i] = work[j] /\ P[i][1] > P[j][1])
    BY <1>11, <1>16
  <2>2. work[l] > work[i] \/ (work[l] = work[i] /\ P[l][1] > P[i][1])
    BY <1>11, <1>16
  <2> DEFINE a == P[i][1]
             b == P[j][1]
             e == P[l][1]
  <2>3. a \in Int /\ b \in Int /\ e \in Int /\ work[i] \in Int /\ work[j] \in Int /\ work[l] \in Int
    BY <1>13
  <2>4. (work[l] > work[i] \/ (work[l] = work[i] /\ e > a)) /\ (work[i] > work[j] \/ (work[i] = work[j] /\ a > b))
    BY <2>1, <2>2
  <2> HIDE DEF a, b, e
  <2>5. work[l] > work[j] \/ (work[l] = work[j] /\ e > b)
    BY ONLY <2>3, <2>4
  <2> QED
    BY <1>11, <2>5 DEF b, e
<1>17. IsOrder(1..n, ahead)
  <2>1. \A i, j \in 1..n : i \in ahead[j] => ahead[i] \subseteq ahead[j]
    BY <1>12, <1>16
  <2> QED
    BY <1>12, <1>14, <1>15, <2>1 DEF IsOrder
<1>18. PICK p : /\ IsPermutation(p, n) /\ R \in Seq(Seq(1..m)) /\ Len(R) = n
                /\ \A i \in 1..n : R[i] = P[p[i]]
  <2>1. \E p : /\ IsPermutation(p, Len(P))
               /\ Arranged(P, ahead) \in Seq(Seq(1..m)) /\ Len(Arranged(P, ahead)) = Len(P)
               /\ \A i \in 1..Len(P) : Arranged(P, ahead)[i] = P[p[i]]
               /\ \A i, j \in 1..Len(P) : i < j <=> p[i] \in ahead[p[j]]
    <3>1. IsOrder(1..Len(P), ahead)
      BY <1>5, <1>17
    <3> DEFINE A == Seq(1..m)
    <3>2. P \in Seq(A)
      BY <1>5
    <3> HIDE DEF A
    <3>3. \E p : /\ IsPermutation(p, Len(P))
                 /\ Arranged(P, ahead) \in Seq(A) /\ Len(Arranged(P, ahead)) = Len(P)
                 /\ \A i \in 1..Len(P) : Arranged(P, ahead)[i] = P[p[i]]
                 /\ \A i, j \in 1..Len(P) : i < j <=> p[i] \in ahead[p[j]]
      BY <3>1, <3>2, ArrangedFacts
    <3> QED
      BY <3>3 DEF A
  <2> QED
    BY <1>4, <1>5, <2>1
<1>19. IsPartition(R, m, n)
  BY <1>1, <1>3, <1>18, ReorderedPartition
<1>20. Even(R, n, length, d)
  <2>1. \A i \in 1..n : p[i] \in 1..n
    BY <1>18 DEF IsPermutation
  <2> QED
    BY <1>3, <1>18, <2>1 DEF Even
<1> QED
  BY <1>19, <1>20 DEF R, m

-------------------------------------------------------------------------------
(* Sequences one after the other.                                          *)

\* Sequences of the same length begin at its multiples.
LEMMA EvenOffsets ==
    ASSUME NEW A, NEW seqs, NEW n \in Nat, NEW flat, NEW off, Concatenates(flat, seqs, n, off, A),
           NEW c \in Nat, \A k \in 1..n : Len(seqs[k]) = c
    PROVE  \A k \in 1..(n + 1) : off[k] = (k - 1) * c
<1> DEFINE S == {k \in Nat : k <= n => off[k + 1] = k * c}
<1>1. /\ off \in [1..(n + 1) -> Nat] /\ off[1] = 0
      /\ \A k \in 1..n : off[k + 1] = off[k] + Len(seqs[k])
  BY DEF Concatenates
<1>2. 0 \in S
  BY <1>1
<1>3. ASSUME NEW k \in S PROVE k + 1 \in S
  <2> SUFFICES ASSUME k + 1 <= n PROVE off[(k + 1) + 1] = (k + 1) * c
    OBVIOUS
  <2>1. k \in Nat /\ k + 1 \in 1..n /\ off[k + 1] = k * c
    OBVIOUS
  <2>2. off[(k + 1) + 1] = off[k + 1] + c
    BY <1>1, <2>1
  <2>3. (k + 1) * c = k * c + c
    BY <2>1
  <2> QED
    BY <2>1, <2>2, <2>3
<1>4. S = Nat
  <2>1. S \in SUBSET Nat
    OBVIOUS
  <2> HIDE DEF S
  <2> QED
    BY <1>2, <1>3, <2>1, NatSet
<1> TAKE k \in 1..(n + 1)
<1>5. k - 1 \in Nat /\ k - 1 <= n /\ (k - 1) + 1 = k
  OBVIOUS
<1>6. off[(k - 1) + 1] = (k - 1) * c
  BY <1>4, <1>5
<1> QED
  BY <1>5, <1>6

\* There is one way to put sequences one after the other.
LEMMA ConcatenatesUnique ==
    ASSUME NEW A, NEW B, NEW seqs, NEW n \in Nat, NEW flat, NEW off, Concatenates(flat, seqs, n, off, A),
           NEW flat2, NEW off2, Concatenates(flat2, seqs, n, off2, B)
    PROVE  flat = flat2
<1> DEFINE S == {k \in Nat : k <= n => off[k + 1] = off2[k + 1]}
<1>1. /\ off \in [1..(n + 1) -> Nat] /\ off[1] = 0
      /\ \A k \in 1..n : off[k + 1] = off[k] + Len(seqs[k])
      /\ flat \in Seq(A) /\ Len(flat) = off[n + 1]
      /\ \A k \in 1..n : \A i \in 1..Len(seqs[k]) : flat[off[k] + i] = seqs[k][i]
      /\ \A j \in 1..Len(flat) : \E k \in 1..n : \E i \in 1..Len(seqs[k]) : j = off[k] + i
  BY DEF Concatenates
<1>2. /\ off2 \in [1..(n + 1) -> Nat] /\ off2[1] = 0
      /\ \A k \in 1..n : off2[k + 1] = off2[k] + Len(seqs[k])
      /\ flat2 \in Seq(B) /\ Len(flat2) = off2[n + 1]
      /\ \A k \in 1..n : \A i \in 1..Len(seqs[k]) : flat2[off2[k] + i] = seqs[k][i]
  BY DEF Concatenates
<1>3. 0 \in S
  BY <1>1, <1>2
<1>4. ASSUME NEW k \in S PROVE k + 1 \in S
  <2> SUFFICES ASSUME k + 1 <= n PROVE off[(k + 1) + 1] = off2[(k + 1) + 1]
    OBVIOUS
  <2>1. k + 1 \in 1..n /\ off[k + 1] = off2[k + 1]
    OBVIOUS
  <2> QED
    BY <1>1, <1>2, <2>1
<1>5. S = Nat
  <2>1. S \in SUBSET Nat
    OBVIOUS
  <2> HIDE DEF S
  <2> QED
    BY <1>3, <1>4, <2>1, NatSet
<1>6. \A k \in 1..(n + 1) : off[k] = off2[k]
  <2> TAKE k \in 1..(n + 1)
  <2>1. k - 1 \in S /\ k - 1 <= n /\ (k - 1) + 1 = k
    <3> HIDE DEF S
    <3> QED
      BY <1>5
  <2>2. off[(k - 1) + 1] = off2[(k - 1) + 1]
    BY <2>1
  <2> QED
    BY <2>1, <2>2
<1>7. Len(flat) = Len(flat2)
  <2>1. n + 1 \in 1..(n + 1)
    OBVIOUS
  <2> QED
    BY <1>1, <1>2, <1>6, <2>1
<1>8. \A j \in 1..Len(flat) : flat[j] = flat2[j]
  <2> TAKE j \in 1..Len(flat)
  <2>1. PICK k \in 1..n : \E i \in 1..Len(seqs[k]) : j = off[k] + i
    BY <1>1
  <2>2. PICK i \in 1..Len(seqs[k]) : j = off[k] + i
    BY <2>1
  <2>3. k \in 1..(n + 1) /\ off2[k] = off[k]
    BY <1>6
  <2>4. flat[off[k] + i] = seqs[k][i] /\ flat2[off2[k] + i] = seqs[k][i]
    BY <1>1, <1>2
  <2> QED
    BY <2>2, <2>3, <2>4
<1>9. /\ DOMAIN flat = 1..Len(flat) /\ DOMAIN flat2 = 1..Len(flat2)
      /\ flat = [j \in DOMAIN flat |-> flat[j]] /\ flat2 = [j \in DOMAIN flat2 |-> flat2[j]]
  BY <1>1, <1>2
<1> QED
  BY <1>7, <1>8, <1>9

\* The parts of a partition one after the other are the positions in another
\* order.
LEMMA FlatPermutation ==
    ASSUME NEW m \in Nat, NEW n \in Nat, NEW P, IsPartition(P, m, n),
           NEW flat, NEW off, Concatenates(flat, P, n, off, 1..m)
    PROVE  IsPermutation(flat, m)
<1> DEFINE l == Len(flat)
<1>1. /\ off \in [1..(n + 1) -> Nat] /\ flat \in Seq(1..m)
      /\ \A k \in 1..n : \A i \in 1..Len(P[k]) : off[k] + i \in 1..l /\ flat[off[k] + i] = P[k][i]
      /\ \A j \in 1..l : \E k \in 1..n : \E i \in 1..Len(P[k]) : j = off[k] + i
  BY DEF Concatenates
<1>2. /\ \A i, j \in 1..n : \A x \in 1..Len(P[i]), y \in 1..Len(P[j]) :
            P[i][x] = P[j][y] => i = j /\ x = y
      /\ \A row \in 1..m : \E i \in 1..n : \E x \in 1..Len(P[i]) : P[i][x] = row
  BY DEF IsPartition
<1>3. l \in Nat /\ flat \in [1..l -> 1..m]
  <2> DEFINE A == 1..m
  <2>1. flat \in Seq(A)
    BY <1>1
  <2> HIDE DEF A
  <2>2. Len(flat) \in Nat /\ flat \in [1..Len(flat) -> A]
    BY ONLY <2>1
  <2> QED
    BY <2>2 DEF A
<1> HIDE DEF l
<1>4. ASSUME NEW i \in 1..l, NEW j \in 1..l, flat[i] = flat[j] PROVE i = j
  <2>1. PICK k \in 1..n : \E x \in 1..Len(P[k]) : i = off[k] + x
    BY <1>1
  <2>2. PICK x \in 1..Len(P[k]) : i = off[k] + x
    BY <2>1
  <2>3. PICK h \in 1..n : \E y \in 1..Len(P[h]) : j = off[h] + y
    BY <1>1
  <2>4. PICK y \in 1..Len(P[h]) : j = off[h] + y
    BY <2>3
  <2>5. P[k][x] = P[h][y]
    BY <1>1, <1>4, <2>2, <2>4
  <2>6. \A g1, g2 \in 1..n : \A u1 \in 1..Len(P[g1]), u2 \in 1..Len(P[g2]) :
            P[g1][u1] = P[g2][u2] => g1 = g2 /\ u1 = u2
    BY <1>2
  <2>7. k = h /\ x = y
    BY ONLY <2>5, <2>6, k \in 1..n, h \in 1..n, x \in 1..Len(P[k]), y \in 1..Len(P[h]), Zenon
  <2> QED
    BY <2>2, <2>4, <2>7
<1>5. \A row \in 1..m : \E i \in 1..l : flat[i] = row
  <2> TAKE row \in 1..m
  <2>1. PICK i \in 1..n : \E x \in 1..Len(P[i]) : P[i][x] = row
    BY <1>2
  <2>2. PICK x \in 1..Len(P[i]) : P[i][x] = row
    BY <2>1
  <2> QED
    BY <1>1, <2>2
<1>6. flat \in Bijection(1..l, 1..m)
  BY <1>3, <1>4, <1>5 DEF Bijection, Injection, Surjection, IsInjective
<1>7. l = m
  <2>1. IsFiniteSet(1..l) /\ Cardinality(1..l) = l /\ Cardinality(1..m) = m
    BY <1>3, FS_Interval
  <2>2. Cardinality(1..m) = Cardinality(1..l)
    BY <1>6, <2>1, FS_Bijection DEF ExistsBijection
  <2> QED
    BY <2>1, <2>2
<1> QED
  BY <1>3, <1>4, <1>5, <1>7 DEF IsPermutation

\* flat is the k parts of P, of c rows each, one after the other.
Fills(flat, P, k, c, m) ==
    /\ flat \in Seq(1..m) /\ Len(flat) = m
    /\ \A i \in 1..k : Len(P[i]) = c
    /\ \A i \in 1..k : \A x \in 1..c : flat[(i - 1) * c + x] = P[i][x]

\* flat has the rows in an order that is balanced over k parts of c rows each.
IsBalanced(flat, length, k, c, d) ==
    /\ IsPermutation(flat, Len(length))
    /\ \E P : /\ IsPartition(P, Len(length), k) /\ Even(P, k, length, d)
              /\ Fills(flat, P, k, c, Len(length))

\* _balance_batch: the order is a permutation of the rows, in which the rows of
\* a part stand together.
LEMMA BalancedOrderFacts ==
    ASSUME NEW length, IsLengths(length), NEW k \in Nat \ {0}, NEW c \in Nat \ {0},
           Len(length) = c * k, NEW even \in BOOLEAN, even, NEW d, Bounds(d, length, even)
    PROVE  IsBalanced(BalancedOrder(length, k), length, k, c, d)
<1> DEFINE m == Len(length)
           P == BalancedPartitions(length, k, even)
           flat == BalancedOrder(length, k)
<1>1. m \in Nat /\ k \in Nat
  BY DEF IsLengths
<1>2. Sized(length, k, even, c)
  BY DEF Sized
<1>3. k <= Len(length)
  <2>1. c * k >= k
    <3>1. \A a, b \in Nat \ {0} : a * b >= b
      OBVIOUS
    <3> QED
      BY <3>1
  <2> QED
    BY <1>1, <2>1
<1>4. /\ IsPartition(P, m, k) /\ Even(P, k, length, d)
      /\ \A i \in 1..k : Len(P[i]) = c
  <2>1. /\ IsPartition(BalancedPartitions(length, k, even), Len(length), k)
        /\ even => \A i \in 1..k : Len(BalancedPartitions(length, k, even)[i]) = c
        /\ Even(BalancedPartitions(length, k, even), k, length, d)
    BY ONLY IsLengths(length), k \in Nat \ {0}, even \in BOOLEAN, Bounds(d, length, even),
            c \in Nat \ {0}, <1>2, <1>3, PartitionsBalanced
  <2> QED
    BY <2>1
<1>5. flat = FlattenSeq(P)
  <2>1. even = TRUE
    OBVIOUS
  <2>2. P = BalancedPartitions(length, k, TRUE)
    BY <2>1
  <2> QED
    BY <2>2 DEF BalancedOrder
<1> HIDE DEF P, flat, m
<1>6. P \in Seq(Seq(1..m)) /\ Len(P) = k
  BY <1>4 DEF IsPartition
<1>7. PICK off : Concatenates(flat, P, k, off, 1..m)
  <2> DEFINE A == 1..m
  <2>1. P \in Seq(Seq(A))
    BY <1>6
  <2> HIDE DEF A
  <2>2. \E off : Concatenates(FlattenSeq(P), P, Len(P), off, A)
    BY <2>1, FlattenConcatenates
  <2> QED
    BY <1>5, <1>6, <2>2 DEF A
<1>8. IsPermutation(flat, m)
  BY <1>1, <1>4, <1>7, FlatPermutation
<1>9. \A i \in 1..(k + 1) : off[i] = (i - 1) * c
  <2> DEFINE A == 1..m
  <2>1. Concatenates(flat, P, k, off, A) /\ c \in Nat
    BY <1>7
  <2>2. \A i \in 1..k : Len(P[i]) = c
    BY <1>4
  <2> QED
    BY ONLY <1>1, <2>1, <2>2, EvenOffsets
<1>10. ASSUME NEW i \in 1..k, NEW x \in 1..c PROVE flat[(i - 1) * c + x] = P[i][x]
  <2>1. flat[off[i] + x] = P[i][x]
    BY <1>4, <1>7 DEF Concatenates
  <2>2. off[i] = (i - 1) * c
    BY <1>1, <1>9
  <2> QED
    BY <2>1, <2>2
<1>11. flat \in Seq(1..m) /\ Len(flat) = m
  <2> DEFINE A == 1..m
  <2>1. flat \in [1..m -> A]
    BY <1>8 DEF IsPermutation
  <2> HIDE DEF A
  <2>2. flat \in Seq(A) /\ Len(flat) = m
    BY <1>1, <2>1
  <2> QED
    BY <2>2 DEF A
<1>12. Fills(flat, P, k, c, m)
  BY <1>4, <1>10, <1>11 DEF Fills
<1> QED
  BY <1>4, <1>8, <1>12 DEF IsBalanced, m, flat

-------------------------------------------------------------------------------
(* Numbers and sizes.                                                      *)

\* Division rounded up.
LEMMA CeilDivFacts ==
    ASSUME NEW a \in Nat \ {0}, NEW b \in Nat \ {0}
    PROVE  /\ CeilDiv(a, b) \in Nat \ {0}
           /\ (CeilDiv(a, b) - 1) * b < a /\ a <= CeilDiv(a, b) * b
<1> DEFINE q == (-a) \div b
           r == (-a) % b
<1>1. q \in Int /\ r \in 0..(b - 1) /\ -a = b * q + r
  OBVIOUS
<1> HIDE DEF q, r
<1>2. q < 0
  <2>1. \A x, y \in Nat : x * y >= 0
    OBVIOUS
  <2>2. CASE q >= 0
    <3>1. b * q >= 0
      BY <1>1, <2>1, <2>2
    <3> QED
      BY <1>1, <3>1
  <2> QED
    BY <1>1, <2>2
<1> DEFINE c == -q
<1>3. CeilDiv(a, b) = c /\ c \in Nat \ {0}
  BY <1>1, <1>2 DEF CeilDiv, q
<1>4. c * b = -(b * q) /\ (c - 1) * b = -(b * q) - b
  BY <1>1
<1>5. a <= c * b /\ (c - 1) * b < a
  <2> DEFINE z == b * q
  <2>1. z \in Int /\ -a = z + r /\ c * b = -z /\ (c - 1) * b = -z - b
    BY <1>1, <1>4
  <2> HIDE DEF z, c
  <2> QED
    BY <1>1, <2>1
<1> QED
  BY <1>3, <1>5

\* num_micro_batches is at least one and at most the number of rows, and is
\* either that or large enough for the tokens.
LEMMA MicroBatchCountFacts ==
    ASSUME NEW length, IsLengths(length), length # <<>>, NEW limit \in Nat \ {0}
    PROVE  /\ MicroBatchCount(length, limit) \in 1..Len(length)
           /\ \/ MicroBatchCount(length, limit) = Len(length)
              \/ SumFunctionOnSet(length, 1..Len(length)) <= MicroBatchCount(length, limit) * limit
<1> DEFINE m == Len(length)
           total == SumFunctionOnSet(length, 1..m)
           e == CeilDiv(total, limit)
<1>1. m \in Nat \ {0} /\ DOMAIN length = 1..m /\ \A x \in 1..m : length[x] \in Nat \ {0}
  BY DEF IsLengths
<1>2. ToSet([i \in DOMAIN length |-> i]) = 1..m
  BY <1>1 DEF ToSet
<1>3. MicroBatchCount(length, limit) = Min({m, e})
  BY <1>2 DEF MicroBatchCount, Tokens
<1>4. total \in Nat \ {0}
  <2>1. IsFiniteSet(1..m)
    BY <1>1, FS_Interval
  <2>2. 1 \in 1..m
    BY <1>1
  <2> DEFINE S == 1..m
  <2>3. IsFiniteSet(S) /\ S # {} /\ \A x \in S : length[x] \in Nat \ {0}
    BY <1>1, <2>1, <2>2
  <2> HIDE DEF S
  <2>4. SumFunctionOnSet(length, S) \in Nat /\ (SumFunctionOnSet(length, S) = 0 <=> S = {})
    BY <2>3, SumPositive
  <2> QED
    BY <2>3, <2>4 DEF S
<1> HIDE DEF total
<1>5. e \in Nat \ {0} /\ total <= e * limit
  BY <1>4, CeilDivFacts
<1> HIDE DEF e, m
<1> DEFINE least == Min({m, e})
<1>6. least \in {m, e} /\ \A y \in {m, e} : least <= y
  <2>1. \E x \in {m, e} : \A y \in {m, e} : x <= y
    BY <1>1, <1>5
  <2> QED
    BY <2>1 DEF Min
<1> HIDE DEF least
<1>7. least \in 1..m /\ (least = m \/ least = e)
  BY <1>1, <1>5, <1>6
<1> QED
  BY <1>3, <1>5, <1>7 DEF least, m, total

\* Where the k-th part of a batch of m rows ends that is split into parts of
\* the given size.
PartEnd(k, size, m) == IF k * size < m THEN k * size ELSE m

\* S is rows in c parts of the given size, the last one perhaps smaller.
IsSplitUp(S, rows, size, c, A) ==
    /\ c \in Nat \ {0}
    /\ S \in Seq(Seq(A)) /\ Len(S) = c
    /\ \A k \in 1..c : /\ (k - 1) * size \in Nat
                       /\ S[k] # <<>> /\ Len(S[k]) \in 1..size
                       /\ Len(S[k]) = PartEnd(k, size, Len(rows)) - (k - 1) * size
    /\ \A k \in 1..c : \A x \in 1..Len(S[k]) :
          (k - 1) * size + x \in 1..Len(rows) /\ S[k][x] = rows[(k - 1) * size + x]
    /\ \A z \in 1..Len(rows) : \E k \in 1..c : \E x \in 1..Len(S[k]) : z = (k - 1) * size + x
    /\ \A g, h \in 1..c : \A x \in 1..Len(S[g]), y \in 1..Len(S[h]) :
          (g - 1) * size + x = (h - 1) * size + y => g = h /\ x = y

\* DataProto.split: parts that are not empty, one after the other.
LEMMA SplitFacts ==
    ASSUME NEW A, NEW rows \in Seq(A), rows # <<>>, NEW size \in Nat \ {0},
           NEW c, c = CeilDiv(Len(rows), size)
    PROVE  IsSplitUp(Split(rows, size), rows, size, c, A)
<1> DEFINE m == Len(rows)
           S == Split(rows, size)
           start(k) == (k - 1) * size
           end(k) == PartEnd(k, size, m)
           part(k) == SubSeq(rows, start(k) + 1, end(k))
<1>1. m \in Nat \ {0}
  OBVIOUS
<1>2. S = [k \in 1..c |-> part(k)]
  BY DEF Split, PartEnd
<1> HIDE DEF m, S
<1>3. c \in Nat \ {0} /\ (c - 1) * size < m /\ m <= c * size
  BY <1>1, CeilDivFacts DEF m
<1>4. /\ \A g \in 1..c : /\ (g - 1) * size \in Nat /\ g * size = (g - 1) * size + size
                         /\ g * size <= c * size
      /\ \A g, h \in 1..c : \A i, j \in 1..size :
            (g - 1) * size + i = (h - 1) * size + j => g = h /\ i = j
      /\ \A x \in 1..(c * size) : \E g \in 1..c : \E i \in 1..size : x = (g - 1) * size + i
  <2>1. c \in Nat
    BY <1>3
  <2> QED
    BY <2>1, Blocks
<1>5. ASSUME NEW k \in 1..c
      PROVE  /\ start(k) \in Nat /\ start(k) < m
             /\ end(k) \in Nat /\ start(k) < end(k) /\ end(k) <= m /\ end(k) - start(k) <= size
             /\ end(k) < m => end(k) = start(k) + size
  <2> DEFINE a == (k - 1) * size
             b == k * size
             e == (c - 1) * size
  <2>1. a \in Nat /\ b = a + size
    BY <1>4
  <2>2. a <= e /\ e < m
    <3>1. k - 1 \in Nat /\ c - 1 \in Nat /\ k - 1 <= c - 1
      BY <1>3
    <3>2. \A x, y, z \in Nat : x <= y => x * z <= y * z
      OBVIOUS
    <3> QED
      BY <1>3, <3>1, <3>2
  <2>3. e \in Nat
    BY <1>3
  <2>4. end(k) = IF b < m THEN b ELSE m
    BY DEF PartEnd
  <2>5. start(k) = a
    OBVIOUS
  <2> HIDE DEF a, b, e, end, start
  <2> QED
    BY <1>1, <2>1, <2>2, <2>3, <2>4, <2>5
<1>6. ASSUME NEW k \in 1..c
      PROVE  /\ part(k) \in Seq(A) /\ Len(part(k)) = end(k) - start(k)
             /\ \A x \in 1..(end(k) - start(k)) : /\ start(k) + x \in 1..m
                                                  /\ part(k)[x] = rows[start(k) + x]
  <2> DEFINE a == start(k)
             b == end(k)
  <2>1. a \in Nat /\ b \in Nat /\ a <= b /\ b <= Len(rows)
    BY <1>5 DEF m
  <2> HIDE DEF a, b
  <2>2. /\ SubSeq(rows, a + 1, b) \in Seq(A) /\ Len(SubSeq(rows, a + 1, b)) = b - a
        /\ \A x \in 1..(b - a) : a + x \in 1..Len(rows) /\ SubSeq(rows, a + 1, b)[x] = rows[a + x]
    BY <2>1, PartFacts
  <2> QED
    BY <2>2 DEF a, b, m
<1>7. \A k \in 1..c : S[k] = part(k)
  BY <1>2
<1> HIDE DEF part
<1>8. S \in Seq(Seq(A)) /\ Len(S) = c
  <2> DEFINE B == Seq(A)
  <2>1. \A k \in 1..c : part(k) \in B
    BY <1>6
  <2> HIDE DEF B
  <2>2. S \in Seq(B) /\ Len(S) = c
    BY <1>2, <1>3, <2>1
  <2> QED
    BY <2>2 DEF B
<1> HIDE DEF start, end
<1>9. \A k \in 1..c : Len(S[k]) = end(k) - start(k) /\ Len(S[k]) \in 1..size
  <2> TAKE k \in 1..c
  <2>1. Len(S[k]) = end(k) - start(k)
    BY <1>6, <1>7
  <2>2. end(k) - start(k) \in 1..size
    BY <1>5
  <2> QED
    BY <2>1, <2>2
<1>10. \A k \in 1..c : S[k] # <<>>
  <2> TAKE k \in 1..c
  <2> DEFINE s == S[k]
  <2>1. Len(s) \in 1..size
    BY <1>9
  <2> HIDE DEF s
  <2>2. s # <<>>
    BY <2>1
  <2> QED
    BY <2>2 DEF s
<1>11. \A k \in 1..c : \A x \in 1..Len(S[k]) : start(k) + x \in 1..m /\ S[k][x] = rows[start(k) + x]
  BY <1>6, <1>7, <1>9
<1>12. ASSUME NEW z \in 1..m PROVE \E k \in 1..c : \E x \in 1..Len(S[k]) : z = start(k) + x
  <2> DEFINE n == c * size
  <2>1. n \in Nat /\ m <= n
    BY <1>1, <1>3
  <2>2. z \in 1..n
    <3> HIDE DEF n
    <3> QED
      BY <1>1, <2>1
  <2>3. PICK k \in 1..c : \E x \in 1..size : z = (k - 1) * size + x
    BY <1>4, <2>2
  <2>4. PICK x \in 1..size : z = (k - 1) * size + x
    BY <2>3
  <2>5. z = start(k) + x
    BY <2>4 DEF start
  <2>6. x \in 1..(end(k) - start(k))
    BY <1>1, <1>5, <2>5
  <2> QED
    BY <1>9, <2>5, <2>6
<1>13. ASSUME NEW g \in 1..c, NEW h \in 1..c, NEW x \in 1..Len(S[g]), NEW y \in 1..Len(S[h]),
              start(g) + x = start(h) + y
       PROVE  g = h /\ x = y
  <2>1. x \in 1..size /\ y \in 1..size
    BY <1>9
  <2>2. (g - 1) * size + x = (h - 1) * size + y
    BY <1>13 DEF start
  <2>3. \A i, j \in 1..size : (g - 1) * size + i = (h - 1) * size + j => g = h /\ i = j
    BY ONLY <1>4, g \in 1..c, h \in 1..c
  <2> QED
    BY ONLY <2>1, <2>2, <2>3, Zenon
<1>14. \A k \in 1..c : start(k) \in Nat
  BY <1>5
<1> QED
  <2>1. \A k \in 1..c : /\ start(k) \in Nat
                        /\ S[k] # <<>> /\ Len(S[k]) \in 1..size
                        /\ Len(S[k]) = end(k) - start(k)
    BY <1>9, <1>10, <1>14
  <2> QED
    BY <1>3, <1>8, <1>11, <1>12, <1>13, <2>1 DEF IsSplitUp, start, end, S, m

\* One after the other they are the batch again.
LEMMA SplitConcatenates ==
    ASSUME NEW A, NEW rows \in Seq(A), rows # <<>>, NEW size \in Nat \ {0}
    PROVE  \E off : Concatenates(rows, Split(rows, size), Len(Split(rows, size)), off, A)
<1> DEFINE m == Len(rows)
           S == Split(rows, size)
           c == CeilDiv(m, size)
           start(k) == (k - 1) * size
           end(k) == PartEnd(k, size, m)
           off == [k \in 1..(c + 1) |-> IF k = c + 1 THEN m ELSE start(k)]
<1>1. m \in Nat \ {0}
  OBVIOUS
<1>2. /\ c \in Nat \ {0} /\ Len(S) = c
      /\ \A k \in 1..c : /\ start(k) \in Nat /\ Len(S[k]) \in 1..size
                         /\ Len(S[k]) = end(k) - start(k)
      /\ \A k \in 1..c : \A x \in 1..Len(S[k]) : start(k) + x \in 1..m /\ S[k][x] = rows[start(k) + x]
      /\ \A z \in 1..m : \E k \in 1..c : \E x \in 1..Len(S[k]) : z = start(k) + x
  <2>1. c = CeilDiv(Len(rows), size)
    OBVIOUS
  <2> HIDE DEF c
  <2>2. IsSplitUp(Split(rows, size), rows, size, c, A)
    BY <2>1, SplitFacts
  <2> QED
    BY <2>2 DEF IsSplitUp
<1>3. (c - 1) * size < m /\ m <= c * size
  BY <1>1, CeilDivFacts
<1> HIDE DEF S, c, m
<1>4. \A k \in 1..c : end(k) = IF k = c THEN m ELSE start(k + 1)
  <2> TAKE k \in 1..c
  <2>1. CASE k = c
    <3>1. ~(k * size < m)
      BY <1>1, <1>2, <1>3, <2>1
    <3> QED
      BY <2>1, <3>1 DEF PartEnd
  <2>2. CASE k # c
    <3> DEFINE b == k * size
               e == (c - 1) * size
    <3>1. k \in Nat /\ c - 1 \in Nat /\ k <= c - 1
      BY <1>2, <2>2
    <3>2. \A x, y, z \in Nat : x <= y => x * z <= y * z
      OBVIOUS
    <3>3. b <= e /\ b \in Nat /\ e \in Nat
      BY <3>1, <3>2
    <3>4. b < m
      <4> HIDE DEF b
      <4>1. e < m
        BY <1>3
      <4> HIDE DEF e
      <4> QED
        BY <1>1, <3>3, <4>1
    <3>5. start(k + 1) = b
      <4>1. (k + 1) - 1 = k
        BY <3>1
      <4> QED
        BY <4>1
    <3>6. end(k) = b
      BY <3>4 DEF PartEnd
    <3> QED
      BY <2>2, <3>5, <3>6
  <2> QED
    BY <2>1, <2>2
<1>5. start(1) = 0
  OBVIOUS
<1> HIDE DEF start, end
<1>6. off \in [1..(c + 1) -> Nat] /\ off[1] = 0 /\ off[c + 1] = m
  <2>1. \A k \in 1..(c + 1) : k # c + 1 => k \in 1..c
    BY <1>2
  <2>2. \A k \in 1..(c + 1) : (IF k = c + 1 THEN m ELSE start(k)) \in Nat
    BY <1>1, <1>2, <2>1
  <2>3. 1 \in 1..(c + 1) /\ c + 1 \in 1..(c + 1) /\ 1 # c + 1
    BY <1>2
  <2> QED
    BY <1>5, <2>2, <2>3
<1>7. \A k \in 1..c : off[k] = start(k)
  BY <1>2
<1>8. ASSUME NEW k \in 1..c PROVE off[k + 1] = off[k] + Len(S[k])
  <2>1. start(k) \in Nat /\ off[k] = start(k) /\ Len(S[k]) = end(k) - start(k) /\ Len(S[k]) \in 1..size
    BY <1>2, <1>7
  <2>2. CASE k = c
    <3>1. end(k) = m /\ off[k + 1] = m
      BY <1>4, <1>6, <2>2
    <3> QED
      BY <1>1, <2>1, <3>1
  <2>3. CASE k # c
    <3>1. k + 1 \in 1..c
      BY <1>2, <2>3
    <3>2. end(k) = start(k + 1) /\ off[k + 1] = start(k + 1) /\ start(k + 1) \in Nat
      BY <1>2, <1>4, <1>7, <2>3, <3>1
    <3> QED
      BY <2>1, <3>2
  <2> QED
    BY <2>2, <2>3
<1> HIDE DEF off
<1>9. ASSUME NEW k \in 1..c, NEW x \in 1..Len(S[k])
      PROVE  off[k] + x \in 1..Len(rows) /\ rows[off[k] + x] = S[k][x]
  <2>1. off[k] = start(k)
    BY <1>7
  <2>2. start(k) + x \in 1..m /\ S[k][x] = rows[start(k) + x]
    BY <1>2
  <2> QED
    BY <2>1, <2>2 DEF m
<1>10. \A z \in 1..Len(rows) : \E k \in 1..c : \E x \in 1..Len(S[k]) : z = off[k] + x
  <2> TAKE z \in 1..Len(rows)
  <2>1. PICK k \in 1..c : \E x \in 1..Len(S[k]) : z = start(k) + x
    BY <1>2 DEF m
  <2>2. off[k] = start(k)
    BY <1>7
  <2> QED
    BY <2>1, <2>2
<1>11. Concatenates(rows, S, c, off, A)
  BY <1>6, <1>8, <1>9, <1>10 DEF Concatenates, m
<1> QED
  BY <1>2, <1>11 DEF S

\* Among finitely many numbers one is the greatest and one the least.
LEMMA ExtremeValues ==
    ASSUME NEW n \in Nat \ {0}, NEW f, \A i \in 1..n : f[i] \in Int
    PROVE  /\ \E i \in 1..n : \A j \in 1..n : f[j] <= f[i]
           /\ \E i \in 1..n : \A j \in 1..n : f[i] <= f[j]
<1> DEFINE S == {k \in Nat : k + 1 <= n =>
                    /\ \E i \in 1..(k + 1) : \A j \in 1..(k + 1) : f[j] <= f[i]
                    /\ \E i \in 1..(k + 1) : \A j \in 1..(k + 1) : f[i] <= f[j]}
<1>1. 0 \in S
  <2>1. \A j \in 1..(0 + 1) : j = 1
    OBVIOUS
  <2>2. 1 \in 1..(0 + 1) /\ f[1] \in Int
    OBVIOUS
  <2> QED
    BY <2>1, <2>2
<1>2. ASSUME NEW k \in S PROVE k + 1 \in S
  <2> SUFFICES ASSUME (k + 1) + 1 <= n
               PROVE  /\ \E i \in 1..((k + 1) + 1) : \A j \in 1..((k + 1) + 1) : f[j] <= f[i]
                      /\ \E i \in 1..((k + 1) + 1) : \A j \in 1..((k + 1) + 1) : f[i] <= f[j]
    OBVIOUS
  <2> DEFINE l == (k + 1) + 1
  <2>1. /\ k \in Nat /\ l \in 1..n
        /\ \A j \in 1..l : j = l \/ j \in 1..(k + 1)
        /\ \A j \in 1..(k + 1) : j \in 1..l /\ f[j] \in Int
        /\ l \in 1..l /\ f[l] \in Int
    OBVIOUS
  <2>2. PICK a \in 1..(k + 1) : \A j \in 1..(k + 1) : f[j] <= f[a]
    OBVIOUS
  <2>3. PICK b \in 1..(k + 1) : \A j \in 1..(k + 1) : f[b] <= f[j]
    OBVIOUS
  <2> HIDE DEF l
  <2>4. \E i \in 1..l : \A j \in 1..l : f[j] <= f[i]
    <3>1. CASE f[l] <= f[a]
      <4>1. \A j \in 1..l : f[j] <= f[a]
        BY <2>1, <2>2, <3>1
      <4> QED
        BY <2>1, <4>1
    <3>2. CASE ~(f[l] <= f[a])
      <4>1. \A j \in 1..l : f[j] <= f[l]
        BY <2>1, <2>2, <3>2
      <4> QED
        BY <2>1, <4>1
    <3> QED
      BY <3>1, <3>2
  <2>5. \E i \in 1..l : \A j \in 1..l : f[i] <= f[j]
    <3>1. CASE f[b] <= f[l]
      <4>1. \A j \in 1..l : f[b] <= f[j]
        BY <2>1, <2>3, <3>1
      <4> QED
        BY <2>1, <4>1
    <3>2. CASE ~(f[b] <= f[l])
      <4>1. \A j \in 1..l : f[l] <= f[j]
        BY <2>1, <2>3, <3>2
      <4> QED
        BY <2>1, <4>1
    <3> QED
      BY <3>1, <3>2
  <2> QED
    BY <2>4, <2>5 DEF l
<1>3. S = Nat
  <2>1. S \in SUBSET Nat
    OBVIOUS
  <2> HIDE DEF S
  <2> QED
    BY <1>1, <1>2, <2>1, NatSet
<1>4. n - 1 \in S /\ (n - 1) + 1 = n
  <2> HIDE DEF S
  <2>1. n - 1 \in Nat /\ (n - 1) + 1 = n
    OBVIOUS
  <2> QED
    BY <1>3, <2>1
<1> QED
  BY <1>4

-------------------------------------------------------------------------------
(* Sums over parts.                                                        *)

Whole(Q, n) == UNION {Q[i] : i \in 1..n}

AreDisjoint(Q, S, n) ==
    /\ \A i \in 1..n : Q[i] \in SUBSET S
    /\ \A i, j \in 1..n : i # j => Q[i] \cap Q[j] = {}

\* The sum over each part is between the differences of two sequences.
Enclosed(f, Q, n, low, high) ==
    /\ \A i \in 0..n : low[i] \in Int /\ high[i] \in Int
    /\ low[0] = 0 /\ high[0] = 0
    /\ \A i \in 1..n : /\ low[i] - low[i - 1] <= SumFunctionOnSet(f, Q[i])
                       /\ SumFunctionOnSet(f, Q[i]) <= high[i] - high[i - 1]

\* Then the sum over their union is between the last elements of these.
LEMMA DisjointSums ==
    ASSUME NEW S, IsFiniteSet(S), NEW f, \A x \in S : f[x] \in Int,
           NEW n \in Nat, NEW Q, AreDisjoint(Q, S, n),
           NEW low, NEW high, Enclosed(f, Q, n, low, high)
    PROVE  /\ SumFunctionOnSet(f, Whole(Q, n)) \in Int
           /\ low[n] <= SumFunctionOnSet(f, Whole(Q, n))
           /\ SumFunctionOnSet(f, Whole(Q, n)) <= high[n]
<1>0. /\ \A i \in 1..n : Q[i] \in SUBSET S
      /\ \A i, j \in 1..n : i # j => Q[i] \cap Q[j] = {}
      /\ \A i \in 0..n : low[i] \in Int /\ high[i] \in Int
      /\ low[0] = 0 /\ high[0] = 0
      /\ \A i \in 1..n : /\ low[i] - low[i - 1] <= SumFunctionOnSet(f, Q[i])
                         /\ SumFunctionOnSet(f, Q[i]) <= high[i] - high[i - 1]
  BY DEF AreDisjoint, Enclosed
<1> DEFINE first(k) == UNION {Q[i] : i \in 1..k}
           N == {k \in Nat : k <= n => /\ low[k] <= SumFunctionOnSet(f, first(k))
                                       /\ SumFunctionOnSet(f, first(k)) <= high[k]}
<1>1. 0 \in N
  <2>1. first(0) = {}
    <3>1. \A i : i \notin 1..0
      OBVIOUS
    <3> QED
      BY <3>1
  <2>2. SumFunctionOnSet(f, first(0)) = 0
    BY <2>1, SumEmpty
  <2> HIDE DEF first
  <2>3. low[0] <= SumFunctionOnSet(f, first(0)) /\ SumFunctionOnSet(f, first(0)) <= high[0]
    BY <1>0, <2>2
  <2> QED
    BY <2>3
<1>2. ASSUME NEW k \in N PROVE k + 1 \in N
  <2>0. k + 1 \in Nat
    OBVIOUS
  <2> HIDE DEF first
  <2> SUFFICES ASSUME k + 1 <= n
               PROVE  /\ low[k + 1] <= SumFunctionOnSet(f, first(k + 1))
                      /\ SumFunctionOnSet(f, first(k + 1)) <= high[k + 1]
    BY <2>0
  <2> USE DEF first
  <2>1. /\ k \in Nat /\ k + 1 \in 1..n /\ (k + 1) - 1 = k
        /\ k \in 0..n /\ k + 1 \in 0..n
        /\ low[k] <= SumFunctionOnSet(f, first(k)) /\ SumFunctionOnSet(f, first(k)) <= high[k]
    OBVIOUS
  <2>2. \A i \in 1..(k + 1) : i = k + 1 \/ i \in 1..k
    BY <2>1
  <2>3. \A i \in 1..k : i \in 1..n /\ i # k + 1 /\ i \in 1..(k + 1)
    BY <2>1
  <2>4. first(k + 1) = first(k) \cup Q[k + 1]
    <3>1. k + 1 \in 1..(k + 1)
      BY <2>1
    <3> QED
      BY <2>2, <2>3, <3>1
  <2>5. first(k) \in SUBSET S /\ Q[k + 1] \in SUBSET S
    BY <1>0, <2>1, <2>3
  <2>6. first(k) \cap Q[k + 1] = {}
    BY <1>0, <2>1, <2>3
  <2> DEFINE X == first(k)
             Y == Q[k + 1]
  <2>7. X \in SUBSET S /\ Y \in SUBSET S /\ X \cap Y = {} /\ first(k + 1) = X \cup Y
    BY <2>4, <2>5, <2>6
  <2> HIDE DEF X, Y, first
  <2>8. SumFunctionOnSet(f, X \cup Y) = SumFunctionOnSet(f, X) + SumFunctionOnSet(f, Y)
    BY <2>7, SumUnion
  <2>9. SumFunctionOnSet(f, X) \in Int /\ SumFunctionOnSet(f, Y) \in Int
    <3>1. /\ IsFiniteSet(X) /\ IsFiniteSet(Y)
          /\ \A x \in X : f[x] \in Int
          /\ \A x \in Y : f[x] \in Int
      BY <2>7, FS_Subset
    <3> QED
      BY <3>1, SumInt
  <2>10. /\ low[k + 1] - low[k] <= SumFunctionOnSet(f, Y)
         /\ SumFunctionOnSet(f, Y) <= high[k + 1] - high[k]
    <3>1. /\ low[k + 1] - low[(k + 1) - 1] <= SumFunctionOnSet(f, Q[k + 1])
          /\ SumFunctionOnSet(f, Q[k + 1]) <= high[k + 1] - high[(k + 1) - 1]
      BY <1>0, <2>1
    <3> QED
      BY <2>1, <3>1 DEF Y
  <2>11. /\ low[k + 1] \in Int /\ low[k] \in Int /\ high[k + 1] \in Int /\ high[k] \in Int
    BY <1>0, <2>1
  <2>12. low[k] <= SumFunctionOnSet(f, X) /\ SumFunctionOnSet(f, X) <= high[k]
    BY <2>1 DEF X
  <2> DEFINE a == SumFunctionOnSet(f, X)
             b == SumFunctionOnSet(f, Y)
             e == SumFunctionOnSet(f, first(k + 1))
  <2>13. e = a + b /\ a \in Int /\ b \in Int
    BY <2>7, <2>8, <2>9
  <2>14. /\ low[k + 1] - low[k] <= b /\ b <= high[k + 1] - high[k]
         /\ low[k] <= a /\ a <= high[k]
    BY <2>10, <2>12
  <2> HIDE DEF a, b, e
  <2>15. low[k + 1] <= e /\ e <= high[k + 1]
    BY <2>11, <2>13, <2>14
  <2> QED
    BY <2>15 DEF e
<1>3. N = Nat
  <2>1. N \in SUBSET Nat
    OBVIOUS
  <2> HIDE DEF N
  <2> QED
    BY <1>1, <1>2, <2>1, NatSet
<1>4. n \in N
  <2> HIDE DEF N
  <2> QED
    BY <1>3
<1>5. first(n) = Whole(Q, n)
  BY DEF Whole
<1>6. SumFunctionOnSet(f, first(n)) \in Int
  <2>1. first(n) \in SUBSET S
    BY <1>0
  <2> HIDE DEF first
  <2>2. IsFiniteSet(first(n)) /\ \A x \in first(n) : f[x] \in Int
    BY <2>1, FS_Subset
  <2> QED
    BY <2>2, SumInt
<1>7. low[n] <= SumFunctionOnSet(f, first(n)) /\ SumFunctionOnSet(f, first(n)) <= high[n]
  BY <1>4
<1> HIDE DEF first
<1> QED
  BY <1>5, <1>6, <1>7

\* The rows of each part.
RowSets(P, n) == [i \in 1..n |-> ToSet(P[i])]

\* The rows 1 to m in n sets, none of them empty.
AreParts(Q, m, n) ==
    /\ \A i \in 1..n : Q[i] \in SUBSET (1..m) /\ Q[i] # {}
    /\ \A i, j \in 1..n : \A row \in Q[i] : row \in Q[j] => i = j
    /\ \A row \in 1..m : \E i \in 1..n : row \in Q[i]

LEMMA PartSets ==
    ASSUME NEW m \in Nat, NEW n \in Nat, NEW P, IsPartition(P, m, n)
    PROVE  AreParts(RowSets(P, n), m, n)
<1>1. /\ P \in Seq(Seq(1..m)) /\ Len(P) = n
      /\ \A i \in 1..n : P[i] # <<>>
      /\ \A i, j \in 1..n : \A x \in 1..Len(P[i]), y \in 1..Len(P[j]) :
            P[i][x] = P[j][y] => i = j /\ x = y
      /\ \A row \in 1..m : \E i \in 1..n : \E x \in 1..Len(P[i]) : P[i][x] = row
  BY DEF IsPartition
<1>2. ASSUME NEW i \in 1..n
      PROVE  /\ ToSet(P[i]) \in SUBSET (1..m) /\ ToSet(P[i]) # {}
             /\ \A row : row \in ToSet(P[i]) <=> \E x \in 1..Len(P[i]) : P[i][x] = row
  <2> DEFINE a == P[i]
  <2>1. a \in Seq(1..m) /\ a # <<>>
    <3>1. P \in Seq(Seq(1..m)) /\ Len(P) = n /\ P[i] # <<>>
      BY <1>1
    <3> QED
      BY <3>1
  <2> HIDE DEF a
  <2>2. /\ ToSet(a) \in SUBSET (1..m) /\ ToSet(a) # {}
        /\ \A row : row \in ToSet(a) <=> \E x \in 1..Len(a) : a[x] = row
    BY <2>1, ItemFacts
  <2> QED
    BY <2>2 DEF a
<1>3. ASSUME NEW i \in 1..n, NEW j \in 1..n, NEW row, row \in ToSet(P[i]), row \in ToSet(P[j])
      PROVE  i = j
  <2>1. PICK x \in 1..Len(P[i]) : P[i][x] = row
    BY <1>2, <1>3
  <2>2. PICK y \in 1..Len(P[j]) : P[j][y] = row
    BY <1>2, <1>3
  <2>3. \A g1, g2 \in 1..n : \A u1 \in 1..Len(P[g1]), u2 \in 1..Len(P[g2]) :
            P[g1][u1] = P[g2][u2] => g1 = g2 /\ u1 = u2
    BY <1>1
  <2> QED
    BY ONLY <2>1, <2>2, <2>3, i \in 1..n, j \in 1..n, Zenon
<1>4. \A row \in 1..m : \E i \in 1..n : row \in ToSet(P[i])
  BY <1>1, <1>2
<1> DEFINE Q == RowSets(P, n)
<1>5. \A i \in 1..n : Q[i] = ToSet(P[i])
  BY DEF RowSets
<1> HIDE DEF Q
<1>6. \A i \in 1..n : Q[i] \in SUBSET (1..m) /\ Q[i] # {}
  BY <1>2, <1>5
<1>7. \A i, j \in 1..n : \A row \in Q[i] : row \in Q[j] => i = j
  BY <1>3, <1>5
<1>8. \A row \in 1..m : \E i \in 1..n : row \in Q[i]
  BY <1>4, <1>5
<1> QED
  BY <1>6, <1>7, <1>8 DEF AreParts, Q

\* With as many parts as rows, every part is a single row.
IsSingle(part, m) == \E row \in 1..m : ToSet(part) = {row}

LEMMA SingleParts ==
    ASSUME NEW m \in Nat, NEW P, IsPartition(P, m, m)
    PROVE  \A i \in 1..m : IsSingle(P[i], m)
<1> DEFINE Q == RowSets(P, m)
           f == [row \in 1..m |-> CHOOSE i \in 1..m : row \in Q[i]]
<1>1. /\ \A i \in 1..m : Q[i] \in SUBSET (1..m) /\ Q[i] # {}
      /\ \A i, j \in 1..m : \A row \in Q[i] : row \in Q[j] => i = j
      /\ \A row \in 1..m : \E i \in 1..m : row \in Q[i]
  BY PartSets DEF AreParts
<1> HIDE DEF Q
<1>2. \A row \in 1..m : f[row] \in 1..m /\ row \in Q[f[row]]
  <2> TAKE row \in 1..m
  <2>1. \E i \in 1..m : row \in Q[i]
    BY <1>1
  <2> QED
    BY <2>1
<1>3. f = [row \in 1..m |-> f[row]]
  OBVIOUS
<1> HIDE DEF f
<1>4. f \in [1..m -> 1..m]
  BY <1>2, <1>3
<1>5. \A i \in 1..m : \A row \in Q[i] : row \in 1..m /\ f[row] = i
  BY <1>1, <1>2
<1>6. f \in Surjection(1..m, 1..m)
  <2>1. ASSUME NEW i \in 1..m PROVE \E row \in 1..m : f[row] = i
    <3>1. PICK row : row \in Q[i]
      BY <1>1
    <3> QED
      BY <1>5, <3>1
  <2> QED
    BY <1>4, <2>1 DEF Surjection
<1>7. f \in Injection(1..m, 1..m)
  <2> DEFINE S == 1..m
  <2>1. IsFiniteSet(S) /\ f \in Surjection(S, S)
    BY <1>6, FS_Interval
  <2> HIDE DEF S
  <2>2. f \in Injection(S, S)
    BY <2>1, FS_Surjection
  <2> QED
    BY <2>2 DEF S
<1>8. \A x, y \in 1..m : f[x] = f[y] => x = y
  BY <1>7 DEF Injection, IsInjective
<1> TAKE i \in 1..m
<1>9. PICK row : row \in Q[i]
  BY <1>1
<1>10. row \in 1..m /\ \A x \in Q[i] : x = row
  BY <1>5, <1>8, <1>9
<1>11. Q[i] = {row}
  BY <1>9, <1>10
<1> QED
  BY <1>10, <1>11 DEF Q, RowSets, IsSingle

\* A micro-batch exceeds the limit by less than the longest row.
LEMMA TokensFit ==
    ASSUME NEW length, IsLengths(length), length # <<>>, NEW limit \in Nat \ {0},
           NEW n \in 1..Len(length), MicroBatchCount(length, limit) <= n,
           NEW even \in BOOLEAN, ~even, NEW d, Bounds(d, length, even)
    PROVE  \A i \in 1..n : Tokens(MicroBatches(length, n)[i], length) < limit + d
<1> DEFINE m == Len(length)
           P == MicroBatches(length, n)
           count_ == MicroBatchCount(length, limit)
           S == 1..m
           total == SumFunctionOnSet(length, S)
<1>1. /\ m \in Nat \ {0} /\ n \in Nat \ {0} /\ n <= m /\ d \in Nat
      /\ \A x \in 1..m : length[x] \in Nat \ {0} /\ length[x] <= d
  BY DEF IsLengths, Bounds
<1>2. d >= 1
  <2>1. 1 \in 1..m
    BY <1>1
  <2> QED
    BY <1>1, <2>1
<1>3. IsPartition(P, m, n) /\ Even(P, n, length, d)
  <2>1. n \in Nat \ {0} /\ n <= Len(length)
    BY <1>1
  <2> QED
    BY <2>1, MicroBatchesBalanced
<1>4. count_ \in 1..m /\ (count_ = m \/ total <= count_ * limit)
  BY MicroBatchCountFacts
<1>5. IsFiniteSet(1..m)
  BY <1>1, FS_Interval
<1> HIDE DEF P
<1> DEFINE Q == RowSets(P, n)
<1>6. AreParts(Q, m, n)
  BY <1>1, <1>3, PartSets
<1>7. \A i \in 1..n : Tokens(P[i], length) = SumFunctionOnSet(length, Q[i])
  BY DEF Tokens, RowSets
<1> HIDE DEF Q
<1>8. /\ \A i \in 1..n : Q[i] \in SUBSET S
      /\ \A i, j \in 1..n : i # j => Q[i] \cap Q[j] = {}
      /\ UNION {Q[i] : i \in 1..n} = S
  BY <1>6 DEF AreParts
<1> HIDE DEF m, count_
<1>9. \A i \in 1..n : Tokens(P[i], length) \in Int
  <2> TAKE i \in 1..n
  <2> DEFINE T == Q[i]
  <2>1. T \in SUBSET S
    BY <1>8
  <2> HIDE DEF T
  <2>2. IsFiniteSet(T)
    BY <1>5, <2>1, FS_Subset
  <2>4. \A x \in T : length[x] \in Int
    BY <1>1, <2>1
  <2>3. SumFunctionOnSet(length, T) \in Int
    BY <2>2, <2>4, SumInt
  <2> QED
    BY <1>7, <2>3 DEF T
<1> TAKE i \in 1..n
<1>10. CASE total <= count_ * limit
  <2> SUFFICES ASSUME Tokens(P[i], length) >= limit + d PROVE FALSE
    BY <1>1, <1>9 DEF P
  <2> DEFINE low == [j \in 0..n |-> j * limit + (IF i <= j THEN 1 ELSE 0)]
  <2>1. \A j \in 1..n : Tokens(P[j], length) >= limit + (IF j = i THEN 1 ELSE 0)
    <3> TAKE j \in 1..n
    <3>1. Tokens(P[i], length) - Tokens(P[j], length) <= d
      BY <1>3 DEF Even
    <3> QED
      BY <1>1, <1>2, <1>9, <3>1
  <2>2. low[0] = 0 /\ low[n] = n * limit + 1 /\ \A j \in 0..n : low[j] \in Int
    BY <1>1
  <2>3. \A j \in 1..n : low[j] - low[j - 1] <= Tokens(P[j], length)
    <3> TAKE j \in 1..n
    <3>1. j \in 0..n /\ j - 1 \in 0..n
      BY <1>1
    <3>2. j * limit = (j - 1) * limit + limit
      BY <1>1
    <3> DEFINE a == (j - 1) * limit
               b == j * limit
               v == IF i <= j THEN 1 ELSE 0
               u == IF i <= j - 1 THEN 1 ELSE 0
    <3>3. low[j] = b + v /\ low[j - 1] = a + u
      BY <3>1
    <3>4. v - u = IF j = i THEN 1 ELSE 0
      BY <1>1
    <3>5. a \in Int /\ b = a + limit /\ u \in Int /\ v \in Int
      BY <1>1, <3>2
    <3> HIDE DEF a, b, v, u, low
    <3>6. low[j] - low[j - 1] = limit + (IF j = i THEN 1 ELSE 0)
      BY <3>3, <3>4, <3>5
    <3> QED
      BY <2>1, <3>6
  <2> HIDE DEF low
  <2>4. low[n] <= total
    <3> DEFINE w == [j \in 1..n |-> Tokens(P[j], length)]
    <3>1. \A j \in 1..n : w[j] \in Int /\ w[j] = Tokens(P[j], length)
      BY <1>9
    <3> HIDE DEF w
    <3>2. \E g \in 1..n : \A j \in 1..n : w[j] <= w[g]
      BY <1>1, <3>1, ExtremeValues
    <3>3. PICK most \in Int : \A j \in 1..n : w[j] <= most
      BY <3>1, <3>2
    <3> DEFINE high == [j \in 0..n |-> j * most]
    <3>4. high[0] = 0 /\ \A j \in 0..n : high[j] \in Int
      BY <1>1
    <3>5. \A j \in 1..n : high[j] - high[j - 1] = most
      <4> TAKE j \in 1..n
      <4>1. j \in 0..n /\ j - 1 \in 0..n /\ j * most = (j - 1) * most + most /\ (j - 1) * most \in Int
        BY <1>1
      <4> DEFINE a == (j - 1) * most
                 b == j * most
      <4>2. high[j] = b /\ high[j - 1] = a
        BY <4>1
      <4>3. b = a + most /\ a \in Int
        BY <4>1
      <4> HIDE DEF a, b, high
      <4> QED
        BY <4>2, <4>3
    <3> HIDE DEF high
    <3>6. \A j \in 1..n : /\ low[j] - low[j - 1] <= SumFunctionOnSet(length, Q[j])
                           /\ SumFunctionOnSet(length, Q[j]) <= high[j] - high[j - 1]
      BY <1>7, <2>3, <3>1, <3>3, <3>5
    <3>7. \A j \in 0..n : low[j] \in Int /\ high[j] \in Int
      BY <2>2, <3>4
    <3>8. IsFiniteSet(S) /\ (\A x \in S : length[x] \in Int) /\ n \in Nat
      BY <1>1, <1>5
    <3> HIDE DEF S
    <3>9. Enclosed(length, Q, n, low, high)
      BY <2>2, <3>4, <3>6, <3>7 DEF Enclosed
    <3>10. AreDisjoint(Q, S, n)
      BY <1>8 DEF AreDisjoint
    <3>11. low[n] <= SumFunctionOnSet(length, Whole(Q, n))
      BY <3>8, <3>9, <3>10, DisjointSums
    <3> QED
      BY <1>8, <3>11 DEF Whole
  <2>5. count_ * limit <= n * limit
    <3>1. count_ \in Nat /\ count_ <= n
      BY <1>1, <1>4 DEF count_
    <3>2. \A x, y, z \in Nat : x <= y => x * z <= y * z
      OBVIOUS
    <3> QED
      BY <1>1, <3>1, <3>2
  <2> DEFINE a == count_ * limit
             b == n * limit
  <2>6. a \in Int /\ b \in Int /\ a <= b /\ low[n] = b + 1 /\ total <= a
    BY <1>1, <1>4, <1>10, <2>2, <2>5
  <2>7. total \in Int
    <3> HIDE DEF S
    <3>1. IsFiniteSet(S) /\ \A x \in S : length[x] \in Int
      BY <1>1, <1>5 DEF S
    <3> QED
      BY <3>1, SumInt
  <2> HIDE DEF a, b, total
  <2> QED
    BY <2>4, <2>6, <2>7
<1>11. CASE count_ = m
  <2>1. n = m
    BY <1>1, <1>11 DEF count_
  <2>2. PICK row \in 1..m : ToSet(P[i]) = {row}
    <3>1. IsPartition(P, m, m) /\ m \in Nat /\ i \in 1..m
      BY <1>1, <1>3, <2>1
    <3>2. IsSingle(P[i], m)
      BY <3>1, SingleParts
    <3> QED
      BY <3>2 DEF IsSingle
  <2>3. Tokens(P[i], length) = length[row]
    <3> DEFINE T == {row}
    <3>1. IsFiniteSet(T)
      BY FS_Singleton
    <3>6. \A x \in T : length[x] \in Int
      BY <1>1
    <3>2. T \ {row} = {} /\ row \in T
      OBVIOUS
    <3> HIDE DEF T
    <3>3. SumFunctionOnSet(length, T) = length[row] + SumFunctionOnSet(length, T \ {row})
      BY <3>1, <3>2, <3>6, SumRemove
    <3>4. SumFunctionOnSet(length, T \ {row}) = 0
      BY <3>2, SumEmpty
    <3>5. SumFunctionOnSet(length, T) = length[row]
      BY <1>1, <3>3, <3>4
    <3> QED
      BY <2>2, <3>5 DEF Tokens, T
  <2> QED
    BY <1>1, <2>3 DEF P
<1> QED
  BY <1>4, <1>10, <1>11

-------------------------------------------------------------------------------
(* What a rank computes, and where.                                        *)

\* The rows of h at the positions p.
Picked(h, p) == [i \in 1..Len(p) |-> h[p[i]]]

\* restore_dynamic_batch puts the rows back into their order.
THEOREM RestoreInverts ==
    ASSUME NEW A, NEW h \in Seq(A), NEW n \in Nat, NEW P, IsPartition(P, Len(h), n),
           NEW flat, NEW off, Concatenates(flat, P, n, off, 1..Len(h))
    PROVE  Restore(Picked(h, flat), P) = h
<1> DEFINE m == Len(h)
           data == Picked(h, flat)
           revert == ReverseIdx(flat)
<1>1. m \in Nat /\ DOMAIN h = 1..m /\ h = [i \in 1..m |-> h[i]]
  OBVIOUS
<1> HIDE DEF m
<1>2. IsPermutation(flat, m)
  <2>1. IsPartition(P, m, n) /\ Concatenates(flat, P, n, off, 1..m)
    BY DEF m
  <2> QED
    BY <1>1, <2>1, FlatPermutation
<1>3. FlattenSeq(P) = flat
  <2> DEFINE B == 1..m
  <2>1. P \in Seq(Seq(B)) /\ Len(P) = n
    BY DEF IsPartition, m
  <2>2. Concatenates(flat, P, n, off, B)
    BY DEF m
  <2> HIDE DEF B
  <2>3. PICK o : Concatenates(FlattenSeq(P), P, n, o, B)
    BY <2>1, FlattenConcatenates
  <2> QED
    BY <2>2, <2>3, ConcatenatesUnique
<1>4. /\ flat \in [1..m -> 1..m] /\ DOMAIN flat = 1..m
      /\ \A i, j \in 1..m : flat[i] = flat[j] => i = j
      /\ \A j \in 1..m : \E i \in 1..m : flat[i] = j
  BY <1>2 DEF IsPermutation
<1>5. Len(flat) = m
  BY <1>1, <1>4
<1>6. DOMAIN data = 1..m /\ \A i \in 1..m : data[i] = h[flat[i]]
  BY <1>5 DEF Picked
<1>7. \A j \in 1..m : revert[j] \in 1..m /\ flat[revert[j]] = j
  <2> TAKE j \in 1..m
  <2>1. revert[j] = CHOOSE i \in 1..m : flat[i] = j
    BY <1>4 DEF ReverseIdx
  <2>2. \E i \in 1..m : flat[i] = j
    BY <1>4
  <2> QED
    BY <2>1, <2>2
<1>8. Restore(data, P) = [j \in 1..m |-> data[revert[j]]]
  BY <1>3, <1>6 DEF Restore
<1> HIDE DEF revert, data
<1>9. \A j \in 1..m : data[revert[j]] = h[j]
  BY <1>6, <1>7
<1> QED
  BY <1>1, <1>8, <1>9 DEF data

\* The positions split evenly are a partition.
LEMMA SplitPartition ==
    ASSUME NEW m \in Nat \ {0}, NEW size \in Nat \ {0},
           NEW rows, rows = [i \in 1..m |-> i]
    PROVE  /\ Split(rows, size) \in Seq(Seq(1..m))
           /\ Len(Split(rows, size)) = CeilDiv(m, size) /\ CeilDiv(m, size) \in Nat \ {0}
           /\ IsPartition(Split(rows, size), m, CeilDiv(m, size))
           /\ \E off : Concatenates(rows, Split(rows, size), CeilDiv(m, size), off, 1..m)
<1> DEFINE A == 1..m
           c == CeilDiv(Len(rows), size)
           S == Split(rows, size)
<1>1. rows \in Seq(A) /\ Len(rows) = m /\ rows # <<>> /\ \A z \in 1..m : rows[z] = z
  OBVIOUS
<1> HIDE DEF A
<1>2. IsSplitUp(S, rows, size, c, A)
  BY <1>1, SplitFacts
<1>3. \E off : Concatenates(rows, S, Len(S), off, A)
  BY <1>1, SplitConcatenates
<1> HIDE DEF S, c
<1>4. /\ c \in Nat \ {0}
      /\ S \in Seq(Seq(A)) /\ Len(S) = c
      /\ \A k \in 1..c : (k - 1) * size \in Nat /\ S[k] # <<>>
      /\ \A k \in 1..c : \A x \in 1..Len(S[k]) :
            (k - 1) * size + x \in 1..m /\ S[k][x] = rows[(k - 1) * size + x]
      /\ \A z \in 1..m : \E k \in 1..c : \E x \in 1..Len(S[k]) : z = (k - 1) * size + x
      /\ \A g, h \in 1..c : \A x \in 1..Len(S[g]), y \in 1..Len(S[h]) :
            (g - 1) * size + x = (h - 1) * size + y => g = h /\ x = y
  BY <1>1, <1>2 DEF IsSplitUp
<1> DEFINE at_(k, x) == (k - 1) * size + x
<1>5. /\ \A k \in 1..c : \A x \in 1..Len(S[k]) : at_(k, x) \in 1..m /\ S[k][x] = rows[at_(k, x)]
      /\ \A z \in 1..m : \E k \in 1..c : \E x \in 1..Len(S[k]) : z = at_(k, x)
      /\ \A g, h \in 1..c : \A x \in 1..Len(S[g]), y \in 1..Len(S[h]) :
            at_(g, x) = at_(h, y) => g = h /\ x = y
  BY <1>4, Zenon
<1> HIDE DEF at_
<1>6. \A k \in 1..c : \A x \in 1..Len(S[k]) : S[k][x] = at_(k, x)
  BY <1>1, <1>5
<1>7. ASSUME NEW g \in 1..c, NEW h \in 1..c, NEW x \in 1..Len(S[g]), NEW y \in 1..Len(S[h]),
             S[g][x] = S[h][y]
      PROVE  g = h /\ x = y
  <2>1. at_(g, x) = at_(h, y)
    BY <1>6, <1>7
  <2>2. \A g1, g2 \in 1..c : \A u1 \in 1..Len(S[g1]), u2 \in 1..Len(S[g2]) :
            at_(g1, u1) = at_(g2, u2) => g1 = g2 /\ u1 = u2
    BY <1>5, Zenon
  <2> QED
    BY <2>1, <2>2
<1>8. ASSUME NEW row \in 1..m PROVE \E k \in 1..c : \E x \in 1..Len(S[k]) : S[k][x] = row
  <2>1. PICK k \in 1..c : \E x \in 1..Len(S[k]) : row = at_(k, x)
    BY <1>5
  <2> QED
    BY <1>6, <2>1
<1>9. IsPartition(S, m, c)
  BY <1>4, <1>7, <1>8 DEF IsPartition, A
<1>10. c = CeilDiv(m, size) /\ S = Split(rows, size) /\ A = 1..m
  BY <1>1 DEF A, S, c
<1>11. \E off : Concatenates(rows, S, c, off, A)
  BY <1>3, <1>4
<1> QED
  BY ONLY <1>4, <1>9, <1>10, <1>11

\* The chunks of the rows have q rows each.
IsChunked(rows, q, A) ==
    /\ q \in Nat /\ Len(rows) = DpSize * q
    /\ \A g \in 0..(DpSize - 1) :
          /\ Chunk(rows, g) \in Seq(A) /\ Len(Chunk(rows, g)) = q
          /\ \A x \in 1..q : g * q + x \in 1..Len(rows) /\ Chunk(rows, g)[x] = rows[g * q + x]

\* DataProto.chunk: chunks of the same size, one after the other.
LEMMA ChunkFacts ==
    ASSUME NEW A, NEW rows \in Seq(A), Len(rows) % DpSize = 0
    PROVE  IsChunked(rows, Len(rows) \div DpSize, A)
<1> DEFINE q == Len(rows) \div DpSize
           m == Len(rows)
<1>1. DpSize \in Nat \ {0} /\ m \in Nat
  BY SizesAssumption
<1>2. q \in Nat /\ m = DpSize * q
  <2>1. Len(rows) = DpSize * (Len(rows) \div DpSize) + (Len(rows) % DpSize)
    BY <1>1
  <2>2. Len(rows) \div DpSize \in Nat
    BY <1>1
  <2> QED
    BY <1>1, <2>1, <2>2
<1>3. \A g : Chunk(rows, g) = SubSeq(rows, g * q + 1, (g + 1) * q)
  BY DEF Chunk
<1> HIDE DEF q
<1>4. ASSUME NEW g \in 0..(DpSize - 1)
      PROVE  /\ Chunk(rows, g) \in Seq(A) /\ Len(Chunk(rows, g)) = q
             /\ \A x \in 1..q : g * q + x \in 1..m /\ Chunk(rows, g)[x] = rows[g * q + x]
  <2> DEFINE a == g * q
             b == (g + 1) * q
             e == DpSize * q
  <2>1. a \in Nat /\ b = a + q /\ b \in Nat
    BY <1>1, <1>2
  <2>2. b <= e
    <3>1. \A x, y, z \in Nat : x <= y => x * z <= y * z
      OBVIOUS
    <3>2. g + 1 \in Nat /\ DpSize \in Nat /\ g + 1 <= DpSize
      BY <1>1
    <3> QED
      BY <1>2, <3>1, <3>2
  <2>3. e = m
    BY <1>2
  <2>4. Chunk(rows, g) = SubSeq(rows, a + 1, b)
    BY <1>3
  <2> HIDE DEF a, b, e
  <2>5. a <= b /\ b <= Len(rows) /\ b - a = q
    BY <1>2, <2>1, <2>2, <2>3
  <2> HIDE DEF m
  <2>6. /\ SubSeq(rows, a + 1, b) \in Seq(A) /\ Len(SubSeq(rows, a + 1, b)) = b - a
        /\ \A i \in 1..(b - a) : a + i \in 1..Len(rows) /\ SubSeq(rows, a + 1, b)[i] = rows[a + i]
    BY <2>1, <2>5, PartFacts
  <2> QED
    BY <2>4, <2>5, <2>6 DEF a, m
<1> QED
  BY <1>2, <1>4 DEF IsChunked, q, m

\* No two chunks differ by more than d in their tokens.
LoadsEven(flat, length, d) ==
    \A a, b \in 0..(DpSize - 1) :
        Tokens(Chunk(flat, a), length) - Tokens(Chunk(flat, b), length) <= d

\* The chunks of a balanced batch: SpSize parts in each, so that the tokens of
\* two chunks differ by no more than those of SpSize pairs of parts.
LEMMA ChunkLoads ==
    ASSUME NEW length, IsLengths(length), NEW c \in Nat \ {0}, NEW k, k = DpSize * SpSize,
           Len(length) = c * k, NEW d \in Nat,
           NEW P, IsPartition(P, Len(length), k), Even(P, k, length, d),
           NEW flat, Fills(flat, P, k, c, Len(length))
    PROVE  LoadsEven(flat, length, SpSize * d)
<1> USE DEF Fills
<1> DEFINE m == Len(length)
           q == SpSize * c
<1>1. /\ DpSize \in Nat \ {0} /\ SpSize \in Nat \ {0} /\ k \in Nat \ {0} /\ m \in Nat /\ q \in Nat
      /\ \A x \in 1..m : length[x] \in Nat \ {0}
  <2>1. DpSize \in Nat \ {0} /\ SpSize \in Nat \ {0}
    BY SizesAssumption
  <2>2. \A x, y \in Nat \ {0} : x * y \in Nat \ {0}
    OBVIOUS
  <2> QED
    BY <2>1, <2>2 DEF IsLengths
<1>2. m = q * DpSize
  <2>1. \A x, y, z \in Nat : x * (y * z) = (z * x) * y
    OBVIOUS
  <2> QED
    BY <1>1, <2>1
<1> HIDE DEF m
<1>3. m % DpSize = 0 /\ m \div DpSize = q
  <2>1. (q * DpSize) \div DpSize = q
    BY <1>1, Blocks
  <2>2. m \div DpSize = q
    BY <1>2, <2>1
  <2>3. m = DpSize * (m \div DpSize) + (m % DpSize) /\ m % DpSize \in Int
    BY <1>1
  <2> DEFINE e == DpSize * q
  <2>4. e = m
    BY <1>1, <1>2
  <2>5. m = e + (m % DpSize)
    BY <2>2, <2>3
  <2> HIDE DEF e
  <2> QED
    BY <1>1, <2>2, <2>3, <2>4, <2>5
<1>4. ASSUME NEW a \in 0..(DpSize - 1)
      PROVE  /\ Chunk(flat, a) \in Seq(1..m) /\ Len(Chunk(flat, a)) = q
             /\ \A x \in 1..q : Chunk(flat, a)[x] = flat[a * q + x]
  <2> DEFINE A == 1..m
  <2>1. flat \in Seq(A) /\ Len(flat) = m
    BY DEF m
  <2> HIDE DEF A
  <2>2. Len(flat) % DpSize = 0 /\ Len(flat) \div DpSize = q
    BY <1>3, <2>1
  <2>3. IsChunked(flat, Len(flat) \div DpSize, A)
    BY <2>1, <2>2, ChunkFacts
  <2> HIDE DEF q
  <2> QED
    BY <2>2, <2>3 DEF A, IsChunked
<1> DEFINE part(a, i) == a * SpSize + i
           Q(a) == [i \in 1..SpSize |-> ToSet(P[part(a, i)])]
<1>5. ASSUME NEW a \in 0..(DpSize - 1)
      PROVE  /\ \A i \in 1..SpSize : part(a, i) \in 1..k
             /\ \A i, j \in 1..SpSize : part(a, i) = part(a, j) => i = j
             /\ \A i \in 1..SpSize : \A x \in 1..c : a * q + ((i - 1) * c + x) = (part(a, i) - 1) * c + x
  <2>1. \A i \in 1..SpSize : part(a, i) \in 1..k
    <3> TAKE i \in 1..SpSize
    <3>1. /\ \A g \in 1..DpSize : /\ (g - 1) * SpSize \in Nat /\ g * SpSize = (g - 1) * SpSize + SpSize
                                  /\ g * SpSize <= DpSize * SpSize
      BY <1>1, Blocks
    <3>2. a + 1 \in 1..DpSize /\ (a + 1) - 1 = a
      BY <1>1
    <3> DEFINE u == a * SpSize
               v == (a + 1) * SpSize
    <3>3. u \in Nat /\ v = u + SpSize /\ v <= k
      BY <3>1, <3>2
    <3> HIDE DEF u, v
    <3>4. u + i \in 1..k
      <4>1. i \in 1..SpSize /\ SpSize \in Nat /\ u \in Nat /\ v = u + SpSize /\ v <= k /\ k \in Nat
        BY <1>1, <3>3
      <4> QED
        BY ONLY <4>1
    <3> QED
      BY <3>4 DEF u
  <2>2. \A i, j \in 1..SpSize : part(a, i) = part(a, j) => i = j
    <3>1. a * SpSize \in Int
      BY <1>1
    <3> DEFINE u == a * SpSize
    <3>2. u \in Int /\ \A i : part(a, i) = u + i
      BY <3>1
    <3> HIDE DEF u, part
    <3> QED
      BY <1>1, <3>2
  <2>3. ASSUME NEW i \in 1..SpSize, NEW x \in 1..c
        PROVE a * q + ((i - 1) * c + x) = (part(a, i) - 1) * c + x
    <3>1. \A u, v, w, z, y \in Int : u * (v * w) + ((z - 1) * w + y) = (u * v + z - 1) * w + y
      OBVIOUS
    <3>2. a \in Int /\ SpSize \in Int /\ c \in Int /\ i \in Int /\ x \in Int
      BY <1>1
    <3> QED
      BY <3>1, <3>2
  <2> QED
    BY <2>1, <2>2, <2>3
<1>6. AreParts(RowSets(P, k), m, k)
  BY <1>1, PartSets DEF m
<1>7. \A i \in 1..k : RowSets(P, k)[i] = ToSet(P[i])
  BY DEF RowSets
<1>8. \A i \in 1..k : P[i] \in Seq(1..m) /\ Len(P[i]) = c
  BY DEF IsPartition, m
<1>9. \A i \in 1..k : \A row : row \in ToSet(P[i]) <=> \E x \in 1..c : P[i][x] = row
  <2> TAKE i \in 1..k
  <2> DEFINE s == P[i]
  <2>1. s \in Seq(1..m) /\ Len(s) = c
    BY <1>8
  <2> HIDE DEF s
  <2>2. \A row : row \in ToSet(s) <=> \E x \in 1..Len(s) : s[x] = row
    BY <1>1, <2>1, ItemFacts
  <2> QED
    BY <2>1, <2>2 DEF s
<1> HIDE DEF q, part
<1>10. ASSUME NEW a \in 0..(DpSize - 1)
       PROVE  ToSet(Chunk(flat, a)) = Whole(Q(a), SpSize)
  <2> DEFINE s == Chunk(flat, a)
  <2>1. s \in Seq(1..m) /\ Len(s) = q /\ \A x \in 1..q : s[x] = flat[a * q + x]
    BY <1>4
  <2> HIDE DEF s
  <2>2. \A row : row \in ToSet(s) <=> \E x \in 1..q : s[x] = row
    BY <1>1, <2>1, ItemFacts
  <2>3. /\ \A i \in 1..SpSize : \A x \in 1..c : (i - 1) * c + x \in 1..q
        /\ \A z \in 1..q : \E i \in 1..SpSize : \E x \in 1..c : z = (i - 1) * c + x
    <3>1. /\ \A g \in 1..SpSize : /\ (g - 1) * c \in Nat /\ g * c = (g - 1) * c + c
                                  /\ g * c <= SpSize * c
          /\ \A z \in 1..(SpSize * c) : \E g \in 1..SpSize : \E i \in 1..c : z = (g - 1) * c + i
      BY <1>1, Blocks
    <3>2. ASSUME NEW i \in 1..SpSize, NEW x \in 1..c PROVE (i - 1) * c + x \in 1..q
      <4> DEFINE u == (i - 1) * c
                 v == i * c
      <4>1. u \in Nat /\ v = u + c /\ v <= q
        BY <3>1 DEF q
      <4> HIDE DEF u, v
      <4>2. u + x \in 1..q
        BY <1>1, <4>1
      <4> QED
        BY <4>2 DEF u
    <3> QED
      BY <3>1, <3>2 DEF q
  <2>4. \A i \in 1..SpSize : \A x \in 1..c : s[(i - 1) * c + x] = P[part(a, i)][x]
    <3> TAKE i \in 1..SpSize
    <3> TAKE x \in 1..c
    <3> DEFINE z == (i - 1) * c + x
               j == part(a, i)
    <3>1. z \in 1..q /\ j \in 1..k
      BY <1>5, <2>3
    <3>2. s[z] = flat[a * q + z]
      BY <2>1, <3>1
    <3>3. a * q + z = (j - 1) * c + x
      BY <1>5
    <3>4. flat[(j - 1) * c + x] = P[j][x]
      BY <3>1
    <3> QED
      BY <3>2, <3>3, <3>4
  <2>5. \A row : row \in ToSet(s) <=> \E i \in 1..SpSize : row \in ToSet(P[part(a, i)])
    <3> TAKE row
    <3>1. ASSUME row \in ToSet(s) PROVE \E i \in 1..SpSize : row \in ToSet(P[part(a, i)])
      <4>1. PICK z \in 1..q : s[z] = row
        BY <2>2, <3>1
      <4>2. PICK i \in 1..SpSize : \E x \in 1..c : z = (i - 1) * c + x
        BY <2>3
      <4>3. PICK x \in 1..c : z = (i - 1) * c + x
        BY <4>2
      <4>4. P[part(a, i)][x] = row /\ part(a, i) \in 1..k
        BY <1>5, <2>4, <4>1, <4>3
      <4> QED
        BY <1>9, <4>4
    <3>2. ASSUME NEW i \in 1..SpSize, row \in ToSet(P[part(a, i)]) PROVE row \in ToSet(s)
      <4>1. part(a, i) \in 1..k
        BY <1>5
      <4>2. PICK x \in 1..c : P[part(a, i)][x] = row
        BY <1>9, <3>2, <4>1
      <4>3. s[(i - 1) * c + x] = row /\ (i - 1) * c + x \in 1..q
        BY <2>3, <2>4, <4>2
      <4> QED
        BY <2>2, <4>3
    <3> QED
      BY <3>1, <3>2
  <2>6. \A row : row \in Whole(Q(a), SpSize) <=> \E i \in 1..SpSize : row \in ToSet(P[part(a, i)])
    <3> DEFINE G == Q(a)
    <3>1. \A i \in 1..SpSize : G[i] = ToSet(P[part(a, i)])
      OBVIOUS
    <3> HIDE DEF G
    <3>2. \A row : row \in Whole(G, SpSize) <=> \E i \in 1..SpSize : row \in G[i]
      BY DEF Whole
    <3>3. \A row : row \in Whole(G, SpSize) <=> \E i \in 1..SpSize : row \in ToSet(P[part(a, i)])
      <4> TAKE row
      <4>1. ASSUME row \in Whole(G, SpSize) PROVE \E i \in 1..SpSize : row \in ToSet(P[part(a, i)])
        <5>1. PICK i \in 1..SpSize : row \in G[i]
          BY <3>2, <4>1
        <5>2. row \in ToSet(P[part(a, i)])
          BY <3>1, <5>1
        <5> QED
          BY <5>2
      <4>2. ASSUME NEW i \in 1..SpSize, row \in ToSet(P[part(a, i)]) PROVE row \in Whole(G, SpSize)
        <5>1. row \in G[i]
          BY <3>1, <4>2
        <5> QED
          BY <3>2, <5>1
      <4> QED
        BY <4>1, <4>2
    <3> QED
      BY <3>3 DEF G
  <2> HIDE DEF Q
  <2> QED
    BY <2>5, <2>6 DEF s
<1> DEFINE w == [i \in 1..k |-> Tokens(P[i], length)]
<1>11. \A i \in 1..k : w[i] = SumFunctionOnSet(length, ToSet(P[i])) /\ w[i] \in Int
  <2> TAKE i \in 1..k
  <2> DEFINE T == ToSet(P[i])
  <2>1. T \in SUBSET (1..m)
    BY <1>6, <1>7 DEF AreParts
  <2>2. w[i] = SumFunctionOnSet(length, T)
    BY DEF Tokens
  <2> HIDE DEF T
  <2>3. IsFiniteSet(T)
    <3>1. IsFiniteSet(1..m)
      BY <1>1, FS_Interval
    <3> QED
      BY <2>1, <3>1, FS_Subset
  <2>4. \A x \in T : length[x] \in Int
    BY <1>1, <2>1
  <2>5. SumFunctionOnSet(length, T) \in Int
    BY <2>3, <2>4, SumInt
  <2> QED
    BY <2>2, <2>5 DEF T
<1>12. \A i, j \in 1..k : w[i] - w[j] <= d
  BY DEF Even
<1> HIDE DEF w
<1>13. PICK least \in Int : \A i \in 1..k : least <= w[i] /\ w[i] <= least + d
  <2>1. PICK i \in 1..k : \A j \in 1..k : w[i] <= w[j]
    BY <1>1, <1>11, ExtremeValues
  <2>2. w[i] \in Int
    BY <1>11
  <2>3. ASSUME NEW j \in 1..k PROVE w[i] <= w[j] /\ w[j] <= w[i] + d
    <3>1. w[i] <= w[j] /\ w[j] - w[i] <= d /\ w[i] \in Int /\ w[j] \in Int
      BY <1>11, <1>12, <2>1
    <3> QED
      BY ONLY <3>1, d \in Nat
  <2> QED
    BY <2>2, <2>3
<1> DEFINE low == [j \in 0..SpSize |-> j * least]
           high == [j \in 0..SpSize |-> j * (least + d)]
<1>14. /\ low[0] = 0 /\ high[0] = 0
       /\ \A j \in 0..SpSize : low[j] \in Int /\ high[j] \in Int
  BY <1>1
<1>15. \A j \in 1..SpSize : low[j] - low[j - 1] = least /\ high[j] - high[j - 1] = least + d
  <2> TAKE j \in 1..SpSize
  <2>1. \A y \in Int : j * y = (j - 1) * y + y /\ (j - 1) * y \in Int
    BY <1>1
  <2> DEFINE a1 == (j - 1) * least
             b1 == j * least
             e == least + d
             a2 == (j - 1) * e
             b2 == j * e
  <2>2. low[j] = b1 /\ low[j - 1] = a1 /\ high[j] = b2 /\ high[j - 1] = a2
    BY <1>1
  <2>3. b1 = a1 + least /\ a1 \in Int /\ e \in Int /\ e = least + d
    BY <1>1, <2>1
  <2>4. b2 = a2 + e /\ a2 \in Int
    <3> HIDE DEF e
    <3> QED
      BY <2>1, <2>3
  <2> HIDE DEF a1, b1, a2, b2, e, low, high
  <2> QED
    BY <2>2, <2>3, <2>4
<1> HIDE DEF low, high
<1>16. ASSUME NEW a \in 0..(DpSize - 1)
       PROVE  /\ Tokens(Chunk(flat, a), length) \in Int
              /\ low[SpSize] <= Tokens(Chunk(flat, a), length)
              /\ Tokens(Chunk(flat, a), length) <= high[SpSize]
  <2> DEFINE Qa == Q(a)
             S == 1..m
  <2>1. \A i \in 1..SpSize : Qa[i] = ToSet(P[part(a, i)]) /\ part(a, i) \in 1..k
    BY <1>5
  <2> HIDE DEF Qa
  <2>7. /\ \A i \in 1..k : ToSet(P[i]) \in SUBSET (1..m)
        /\ \A i, j \in 1..k : \A row \in ToSet(P[i]) : row \in ToSet(P[j]) => i = j
    <3> DEFINE R == RowSets(P, k)
    <3>1. /\ \A i \in 1..k : R[i] \in SUBSET (1..m)
          /\ \A i, j \in 1..k : \A row \in R[i] : row \in R[j] => i = j
      BY <1>6 DEF AreParts
    <3>2. \A i \in 1..k : R[i] = ToSet(P[i])
      BY <1>7
    <3> HIDE DEF R
    <3>3. ASSUME NEW i \in 1..k PROVE ToSet(P[i]) \in SUBSET (1..m)
      BY <3>1, <3>2, Zenon
    <3>4. ASSUME NEW i \in 1..k, NEW j \in 1..k, NEW row \in ToSet(P[i]), row \in ToSet(P[j])
          PROVE  i = j
      <4>1. row \in R[i] /\ row \in R[j]
        BY <3>2, <3>4, Zenon
      <4> QED
        BY <3>1, <4>1, Zenon
    <3> QED
      BY <3>3, <3>4
  <2>2. AreDisjoint(Qa, S, SpSize)
    <3>1. \A i \in 1..SpSize : Qa[i] \in SUBSET S
      BY <2>1, <2>7
    <3>2. ASSUME NEW i \in 1..SpSize, NEW j \in 1..SpSize, NEW row, row \in Qa[i], row \in Qa[j]
          PROVE  i = j
      <4>1. part(a, i) = part(a, j)
        <5> DEFINE u == part(a, i)
                   v == part(a, j)
        <5>1. u \in 1..k /\ v \in 1..k /\ row \in ToSet(P[u]) /\ row \in ToSet(P[v])
          BY <2>1, <3>2
        <5> HIDE DEF u, v
        <5>2. u = v
          BY <2>7, <5>1
        <5> QED
          BY <5>2 DEF u, v
      <4> QED
        BY <1>5, <4>1
    <3> QED
      BY <3>1, <3>2 DEF AreDisjoint
  <2>3. Enclosed(length, Qa, SpSize, low, high)
    <3>1. \A i \in 1..SpSize : /\ low[i] - low[i - 1] <= SumFunctionOnSet(length, Qa[i])
                               /\ SumFunctionOnSet(length, Qa[i]) <= high[i] - high[i - 1]
      <4> TAKE i \in 1..SpSize
      <4>1. SumFunctionOnSet(length, Qa[i]) = w[part(a, i)] /\ part(a, i) \in 1..k
        BY <1>11, <2>1
      <4>2. least <= w[part(a, i)] /\ w[part(a, i)] <= least + d
        BY <1>13, <4>1
      <4> QED
        BY <1>15, <4>1, <4>2
    <3> QED
      BY <1>14, <3>1 DEF Enclosed
  <2>8. IsFiniteSet(S)
    <3>1. 1 \in Int /\ m \in Int
      BY <1>1
    <3> QED
      BY <3>1, FS_Interval
  <2>4. IsFiniteSet(S) /\ \A x \in S : length[x] \in Int
    BY <1>1, <2>8
  <2> HIDE DEF S
  <2>5. /\ SumFunctionOnSet(length, Whole(Qa, SpSize)) \in Int
        /\ low[SpSize] <= SumFunctionOnSet(length, Whole(Qa, SpSize))
        /\ SumFunctionOnSet(length, Whole(Qa, SpSize)) <= high[SpSize]
    <3>1. SpSize \in Nat
      BY <1>1
    <3> QED
      BY <2>2, <2>3, <2>4, <3>1, DisjointSums
  <2>6. Tokens(Chunk(flat, a), length) = SumFunctionOnSet(length, Whole(Qa, SpSize))
    BY <1>10 DEF Tokens, Qa
  <2> QED
    BY <2>5, <2>6
<1>17. high[SpSize] - low[SpSize] = SpSize * d /\ high[SpSize] \in Int /\ low[SpSize] \in Int
  <2>1. \A x, y, z \in Int : x * (y + z) - x * y = x * z
    OBVIOUS
  <2>2. high[SpSize] = SpSize * (least + d) /\ low[SpSize] = SpSize * least
    BY <1>1 DEF low, high
  <2> QED
    BY <1>1, <1>14, <2>1, <2>2
<1> DEFINE e == SpSize * d
<1>18. high[SpSize] - low[SpSize] = e
  BY <1>17
<1> HIDE DEF e
<1>19. \A a, b \in 0..(DpSize - 1) :
          Tokens(Chunk(flat, a), length) - Tokens(Chunk(flat, b), length) <= e
  <2> TAKE a, b \in 0..(DpSize - 1)
  <2> DEFINE u == Tokens(Chunk(flat, a), length)
             v == Tokens(Chunk(flat, b), length)
  <2>1. /\ u \in Int /\ low[SpSize] <= u /\ u <= high[SpSize]
        /\ v \in Int /\ low[SpSize] <= v /\ v <= high[SpSize]
    BY <1>16
  <2> HIDE DEF u, v
  <2>2. u - v <= e
    BY <1>17, <1>18, <2>1
  <2> QED
    BY <2>2 DEF u, v
<1> QED
  BY <1>19 DEF e, LoadsEven

LEMMA BalancedLoads ==
    ASSUME NEW length, IsLengths(length), NEW c \in Nat \ {0}, NEW k, k = DpSize * SpSize,
           Len(length) = c * k, NEW d \in Nat, NEW flat, IsBalanced(flat, length, k, c, d)
    PROVE  LoadsEven(flat, length, SpSize * d)
<1>1. PICK P : /\ IsPartition(P, Len(length), k) /\ Even(P, k, length, d)
               /\ Fills(flat, P, k, c, Len(length))
  BY DEF IsBalanced
<1> QED
  BY <1>1, ChunkLoads

-------------------------------------------------------------------------------
(* The inductive invariant.                                                *)

\* The mini-batches of a rank in an update on the first n rows.
Work(n, r) == Repeated(Split(Chunk(SubSeq(order, 1, n), DpRank(r)), MiniSize), PpoEpochs)

\* The first t of the mini-batches a row is in.
Taken(n, row, t) == {u \in 1..t : \E r \in Ranks : row \in ToSet(Work(n, r)[u])}

\* The first t mini-batches of an update on n rows are through.
Stage(n, t) ==
    /\ \A r \in Ranks : t <= Len(Work(n, r)) /\ todo[r] = SubSeq(Work(n, r), t + 1, Len(Work(n, r)))
    /\ \A row \in 1..Rows : trained[row] = Cardinality(Taken(n, row, t))

\* The micro-batches of the mini-batch a rank is at, and the positions in the
\* first p of them.
Plan(r) ==
    IF conf.dynamic THEN idx[r] ELSE Split([i \in DOMAIN Head(todo[r]) |-> i], MicroSize)

Passed(P, p) == FlattenSeq(SubSeq(P, 1, p))

Limit == MaxTokenLen * SpSize

\* The plan of a rank has every row of the mini-batch in it once.
Planned(r) ==
    /\ IsPartition(Plan(r), Len(Head(todo[r])), Len(Plan(r)))
    /\ conf.dynamic =>
          \A k \in 1..Len(Plan(r)) : Tokens(Plan(r)[k], LensOf(Head(todo[r]))) < Limit + Longest

\* A rank is through with the first p micro-batches of its plan.
Progress(r, p) ==
    /\ micro[r] = SubSeq(Plan(r), p + 1, Len(Plan(r)))
    /\ out[r] = Picked(Head(todo[r]), Passed(Plan(r), p))

\* The ranks take up a mini-batch.
Gathering ==
    \A r \in Ranks :
        /\ todo[r] # <<>>
        /\ \/ at[r] = "start" /\ micro[r] = <<>>
           \/ /\ at[r] = "agree" /\ conf.dynamic /\ micro[r] = <<>> /\ out[r] = <<>>
              /\ count[r] = MicroBatchCount(LensOf(Head(todo[r])), Limit)
           \/ at[r] = "pass" /\ ~conf.dynamic /\ Planned(r) /\ Progress(r, 0)

\* They are in the micro-batches, all at the same one.
Passing ==
    \E n \in 1..Rows : \E p \in 0..(n - 1) :
        \A r \in Ranks : /\ at[r] = "pass" /\ todo[r] # <<>>
                         /\ Len(Plan(r)) = n /\ Planned(r) /\ Progress(r, p)

Through(r) == todo[r] # <<>> /\ Planned(r) /\ Progress(r, Len(Plan(r)))

Stepping == pc = "updating" /\ \A r \in Ranks : at[r] = "step" /\ Through(r)

Finished ==
    \A r \in Ranks : /\ at[r] = "done" /\ micro[r] = <<>>
                     /\ pc = "computing" => Through(r)
                     /\ pc = "updating" => todo[r] = <<>>

CallInv ==
    IF InCall THEN Gathering \/ Passing \/ Stepping \/ Finished
    ELSE \A r \in Ranks : at[r] = "done" /\ micro[r] = <<>>

\* The column is united with the batch in its order.
ResultsInv == pc \in {"update", "updating", "done"} => results = order

\* What the call is about.
WorkInv ==
    /\ pc = "computing" =>
          Rows % DpSize = 0 /\ \A r \in Ranks : todo[r] = <<Chunk(order, DpRank(r))>>
    /\ pc \in {"balance", "compute", "computing", "update"} => \A row \in 1..Rows : trained[row] = 0
    /\ pc = "updating" => \E n \in TrainedSizes : /\ n % DpSize = 0
                                                  /\ \E t \in 0..(PpoEpochs * Rows) : Stage(n, t)

OrderInv ==
    /\ IsPermutation(order, Rows)
    /\ conf.balance /\ pc \in {"compute", "computing"} =>
          Rows % (DpSize * SpSize) = 0 /\ order = BalancedOrder(lens, DpSize * SpSize)

Places == {"start", "agree", "pass", "step", "done"}

TypeInv ==
    /\ lens \in [1..Rows -> Lengths]
    /\ conf \in [balance : BOOLEAN, dynamic : BOOLEAN]
    /\ pc \in {"balance", "compute", "computing", "update", "updating", "done", "raised"}
    /\ order \in [1..Rows -> 1..Rows]
    /\ at \in [Ranks -> Places]
    /\ DOMAIN todo = Ranks /\ DOMAIN count = Ranks /\ DOMAIN micro = Ranks
    /\ DOMAIN idx = Ranks /\ DOMAIN out = Ranks
    /\ trained \in [1..Rows -> 0..PpoEpochs]

IInv == TypeInv /\ OrderInv /\ WorkInv /\ CallInv /\ ResultsInv /\ EpochsCoverBatch

-------------------------------------------------------------------------------
(* The ranks, and the lengths of their rows.                               *)

LEMMA Sizes ==
    /\ DpSize \in Nat \ {0} /\ SpSize \in Nat \ {0} /\ Rows \in Nat \ {0}
    /\ MaxTokenLen \in Nat \ {0} /\ MiniSize \in Nat \ {0} /\ MicroSize \in Nat \ {0}
    /\ PpoEpochs \in Nat \ {0} /\ Limit \in Nat \ {0}
    /\ TrainedSizes \in SUBSET (1..Rows) /\ Lengths \in SUBSET (Nat \ {0})
    /\ DpSize * SpSize \in Nat \ {0} /\ Ranks = 0..(DpSize * SpSize - 1)
<1>1. /\ DpSize \in Nat \ {0} /\ SpSize \in Nat \ {0} /\ Rows \in Nat \ {0}
      /\ MaxTokenLen \in Nat \ {0} /\ MiniSize \in Nat \ {0} /\ MicroSize \in Nat \ {0}
      /\ PpoEpochs \in Nat \ {0} /\ TrainedSizes \in SUBSET (1..Rows)
  BY SizesAssumption
<1>2. \A x, y \in Nat \ {0} : x * y \in Nat \ {0}
  OBVIOUS
<1>3. Lengths \in SUBSET (Nat \ {0})
  <2>1. Lengths \subseteq 1..(MaxTokenLen * SpSize)
    BY SizesAssumption
  <2> QED
    BY <2>1
<1> QED
  BY <1>1, <1>2, <1>3 DEF Ranks, Limit

\* The rank of a chunk, and the rank that answers for it.
LEMMA RankFacts ==
    /\ 0 \in Ranks
    /\ \A r \in Ranks : DpRank(r) \in 0..(DpSize - 1)
    /\ \A g \in 0..(DpSize - 1) :
          /\ g * SpSize \in Ranks /\ CollectMask(g * SpSize) /\ DpRank(g * SpSize) = g
          /\ \A r \in Ranks : CollectMask(r) /\ DpRank(r) = g => r = g * SpSize
<1>1. DpSize \in Nat \ {0} /\ SpSize \in Nat \ {0} /\ DpSize * SpSize \in Nat \ {0}
  BY Sizes
<1>2. \A r \in Nat : /\ r = SpSize * (r \div SpSize) + (r % SpSize)
                     /\ r \div SpSize \in Nat /\ r % SpSize \in 0..(SpSize - 1)
  BY <1>1
<1>3. ASSUME NEW r \in Ranks PROVE DpRank(r) \in 0..(DpSize - 1)
  <2> DEFINE q == r \div SpSize
  <2>1. /\ r \in Nat /\ r < DpSize * SpSize
        /\ r = SpSize * q + (r % SpSize) /\ q \in Nat /\ r % SpSize \in 0..(SpSize - 1)
    BY <1>1, <1>2 DEF Ranks
  <2> HIDE DEF q
  <2>2. CASE q >= DpSize
    <3>1. \A x, y, z \in Nat : x <= y => x * z <= z * y
      OBVIOUS
    <3>2. DpSize * SpSize <= SpSize * q
      BY <1>1, <2>1, <2>2, <3>1
    <3> DEFINE u == DpSize * SpSize
               v == SpSize * q
    <3>3. u \in Nat /\ v \in Int /\ u <= v /\ r < u /\ r = v + (r % SpSize)
      BY <1>1, <2>1, <3>2
    <3> HIDE DEF u, v
    <3> QED
      BY <2>1, <3>3
  <2> QED
    BY <1>1, <2>1, <2>2 DEF DpRank, q
<1>4. ASSUME NEW g \in 0..(DpSize - 1)
      PROVE  /\ g * SpSize \in Ranks /\ CollectMask(g * SpSize) /\ DpRank(g * SpSize) = g
             /\ \A r \in Ranks : CollectMask(r) /\ DpRank(r) = g => r = g * SpSize
  <2> DEFINE u == g * SpSize
  <2>1. u \in Nat /\ u \div SpSize = g
    <3>1. g \in Nat
      BY <1>1
    <3> QED
      BY <1>1, <3>1, Blocks
  <2>2. u < DpSize * SpSize
    <3>1. \A h \in 1..DpSize : /\ (h - 1) * SpSize \in Nat /\ h * SpSize = (h - 1) * SpSize + SpSize
                               /\ h * SpSize <= DpSize * SpSize
      BY <1>1, Blocks
    <3>2. g + 1 \in 1..DpSize /\ (g + 1) - 1 = g
      BY <1>1
    <3> DEFINE v == (g + 1) * SpSize
               w == DpSize * SpSize
    <3>3. v = u + SpSize /\ v <= w
      BY <3>1, <3>2
    <3> HIDE DEF u, v, w
    <3>4. w \in Nat
      BY <1>1 DEF w
    <3>5. u < w
      BY <1>1, <2>1, <3>3, <3>4
    <3> QED
      BY <3>5 DEF u, w
  <2>3. u % SpSize = 0
    <3> DEFINE v == SpSize * g
    <3>1. u = SpSize * (u \div SpSize) + (u % SpSize) /\ u % SpSize \in Int
      <4> HIDE DEF u
      <4>1. u \in Nat
        BY <2>1
      <4>2. u = SpSize * (u \div SpSize) + (u % SpSize) /\ u % SpSize \in 0..(SpSize - 1)
        BY <1>2, <4>1
      <4> QED
        BY <1>1, <4>2
    <3>2. v = u
      BY <1>1
    <3>3. u = v + (u % SpSize)
      BY <2>1, <3>1
    <3> HIDE DEF u, v
    <3> QED
      BY <2>1, <3>1, <3>2, <3>3
  <2>4. \A r \in Ranks : CollectMask(r) /\ DpRank(r) = g => r = u
    <3> TAKE r \in Ranks
    <3> HAVE CollectMask(r) /\ DpRank(r) = g
    <3>1. r \in Nat
      BY <1>1 DEF Ranks
    <3>2. r = SpSize * g + 0
      BY <1>2, <3>1 DEF CollectMask, DpRank
    <3> QED
      BY <1>1, <3>2
  <2> HIDE DEF u
  <2>5. u \in Ranks
    BY <1>1, <2>1, <2>2 DEF Ranks
  <2>6. CollectMask(u) /\ DpRank(u) = g
    BY <2>1, <2>3 DEF CollectMask, DpRank
  <2>7. u \in Ranks /\ CollectMask(u) /\ DpRank(u) = g
        /\ \A r \in Ranks : CollectMask(r) /\ DpRank(r) = g => r = u
    BY <2>4, <2>5, <2>6
  <2> QED
    BY <2>7 DEF u
<1>5. 0 \in Ranks
  BY <1>1 DEF Ranks
<1> QED
  BY <1>3, <1>4, <1>5

\* The rows of the batch have positive lengths.
LEMMA LensFacts ==
    ASSUME lens \in [1..Rows -> Lengths]
    PROVE  /\ IsLengths(lens) /\ Len(lens) = Rows
           /\ Longest \in Nat \ {0} /\ Shortest \in Nat \ {0}
           /\ \A i \in 1..Rows : lens[i] \in Nat \ {0} /\ lens[i] <= Longest /\ Shortest <= lens[i]
<1>1. Rows \in Nat \ {0} /\ Lengths \in SUBSET (Nat \ {0})
  BY Sizes
<1>2. DOMAIN lens = 1..Rows /\ \A i \in 1..Rows : lens[i] \in Nat \ {0}
  BY <1>1
<1>3. IsLengths(lens) /\ Len(lens) = Rows
  <2> DEFINE V == Nat \ {0}
  <2>1. lens \in [1..Rows -> V]
    BY <1>1, <1>2
  <2> HIDE DEF V
  <2>2. lens \in Seq(V) /\ Len(lens) = Rows
    BY <1>1, <2>1
  <2> QED
    BY <2>2 DEF IsLengths, V
<1>4. PICK a \in 1..Rows : \A j \in 1..Rows : lens[j] <= lens[a]
  <2>1. \A i \in 1..Rows : lens[i] \in Int
    BY <1>2
  <2> QED
    BY <1>1, <2>1, ExtremeValues
<1>5. PICK b \in 1..Rows : \A j \in 1..Rows : lens[b] <= lens[j]
  <2>1. \A i \in 1..Rows : lens[i] \in Int
    BY <1>2
  <2> QED
    BY <1>1, <2>1, ExtremeValues
<1>6. Longest \in {lens[i] : i \in 1..Rows} /\ \A i \in 1..Rows : lens[i] <= Longest
  <2>1. Longest = CHOOSE n \in {lens[i] : i \in 1..Rows} : \A i \in 1..Rows : lens[i] <= n
    BY <1>2 DEF Longest
  <2>2. \E n \in {lens[i] : i \in 1..Rows} : \A i \in 1..Rows : lens[i] <= n
    BY <1>4
  <2> QED
    BY <2>1, <2>2
<1>7. Shortest \in {lens[i] : i \in 1..Rows} /\ \A i \in 1..Rows : Shortest <= lens[i]
  <2>1. Shortest = CHOOSE n \in {lens[i] : i \in 1..Rows} : \A i \in 1..Rows : n <= lens[i]
    BY <1>2 DEF Shortest
  <2>2. \E n \in {lens[i] : i \in 1..Rows} : \A i \in 1..Rows : n <= lens[i]
    BY <1>5
  <2> QED
    BY <2>1, <2>2
<1> QED
  BY <1>2, <1>3, <1>6, <1>7

\* So have the rows of a mini-batch.
LEMMA LensOfFacts ==
    ASSUME lens \in [1..Rows -> Lengths], NEW h \in Seq(1..Rows), NEW even \in BOOLEAN
    PROVE  /\ IsLengths(LensOf(h)) /\ Len(LensOf(h)) = Len(h)
           /\ h # <<>> => LensOf(h) # <<>>
           /\ Bounds(Longest, LensOf(h), even)
<1> DEFINE m == Len(h)
           length == LensOf(h)
           B == 1..Rows
<1>1. h \in Seq(B)
  OBVIOUS
<1>2. /\ Longest \in Nat \ {0}
      /\ \A i \in B : lens[i] \in Nat \ {0} /\ lens[i] <= Longest
  BY LensFacts
<1> HIDE DEF B
<1>3. m \in Nat /\ DOMAIN h = 1..m /\ \A i \in 1..m : h[i] \in B
  BY <1>1
<1> HIDE DEF m
<1>4. length = [i \in 1..m |-> lens[h[i]]]
  BY <1>3 DEF LensOf
<1>5. \A i \in 1..m : length[i] \in Nat \ {0} /\ length[i] <= Longest
  BY <1>2, <1>3, <1>4
<1>6. IsLengths(length) /\ Len(length) = m
  <2> HIDE DEF length
  <2>1. length = [i \in 1..m |-> length[i]]
    BY <1>4
  <2>2. length \in [1..m -> Nat \ {0}]
    BY <1>5, <2>1
  <2> QED
    BY <1>3, <2>2 DEF IsLengths
<1> HIDE DEF length
<1>7. Bounds(Longest, length, even)
  <2>1. \A x, y \in 1..m : length[x] - length[y] <= Longest
    <3> TAKE x, y \in 1..m
    <3>1. length[x] \in Nat /\ length[x] <= Longest /\ length[y] \in Nat
      BY <1>5
    <3> QED
      BY <1>2, <3>1
  <2> QED
    BY <1>2, <1>5, <1>6, <2>1 DEF Bounds
<1>8. h # <<>> => length # <<>>
  <2>1. h = <<>> <=> m = 0
    BY <1>1 DEF m
  <2>2. length = <<>> => Len(length) = 0
    OBVIOUS
  <2> QED
    BY <1>6, <2>1, <2>2
<1> QED
  BY <1>6, <1>7, <1>8 DEF length, m

-------------------------------------------------------------------------------
(* The first micro-batches of a plan.                                      *)

\* The positions in the first p micro-batches, one after the other.
LEMMA PassedConcatenates ==
    ASSUME NEW A, NEW P \in Seq(Seq(A)), NEW p \in 0..Len(P)
    PROVE  \E off : Concatenates(Passed(P, p), P, p, off, A)
<1> DEFINE B == Seq(A)
           S == SubSeq(P, 1, p)
<1>1. P \in Seq(B) /\ p \in Nat /\ p <= Len(P)
  OBVIOUS
<1> HIDE DEF B
<1>2. S \in Seq(B) /\ Len(S) = p /\ \A k \in 1..p : S[k] = P[k]
  BY <1>1
<1> HIDE DEF S
<1>3. PICK off : Concatenates(FlattenSeq(S), S, p, off, A)
  <2>1. S \in Seq(Seq(A))
    BY <1>2 DEF B
  <2>2. \E off : Concatenates(FlattenSeq(S), S, Len(S), off, A)
    BY <2>1, FlattenConcatenates
  <2> QED
    BY <1>2, <2>2
<1>4. Concatenates(FlattenSeq(S), P, p, off, A)
  <2> DEFINE flat == FlattenSeq(S)
  <2>1. /\ off \in [1..(p + 1) -> Nat] /\ off[1] = 0
        /\ \A k \in 1..p : off[k + 1] = off[k] + Len(S[k])
        /\ flat \in Seq(A) /\ Len(flat) = off[p + 1]
        /\ \A k \in 1..p : \A i \in 1..Len(S[k]) :
              off[k] + i \in 1..Len(flat) /\ flat[off[k] + i] = S[k][i]
        /\ \A j \in 1..Len(flat) : \E k \in 1..p : \E i \in 1..Len(S[k]) : j = off[k] + i
    BY <1>3 DEF Concatenates
  <2> HIDE DEF flat
  <2>2. \A k \in 1..p : off[k + 1] = off[k] + Len(P[k])
    BY <1>2, <2>1
  <2>3. \A k \in 1..p : \A i \in 1..Len(P[k]) :
              off[k] + i \in 1..Len(flat) /\ flat[off[k] + i] = P[k][i]
    <3> TAKE k \in 1..p
    <3>1. S[k] = P[k]
      BY <1>2
    <3> QED
      BY <2>1, <3>1
  <2>4. \A j \in 1..Len(flat) : \E k \in 1..p : \E i \in 1..Len(P[k]) : j = off[k] + i
    <3> TAKE j \in 1..Len(flat)
    <3>1. PICK k \in 1..p : \E i \in 1..Len(S[k]) : j = off[k] + i
      BY <2>1
    <3>2. S[k] = P[k]
      BY <1>2
    <3> QED
      BY <3>1, <3>2
  <2> QED
    BY <2>1, <2>2, <2>3, <2>4 DEF Concatenates, flat
<1> QED
  BY <1>4 DEF Passed, S

\* One more micro-batch.
LEMMA PassedOne ==
    ASSUME NEW A, NEW P \in Seq(Seq(A)), NEW p \in Nat, p < Len(P)
    PROVE  /\ Passed(P, p + 1) = Passed(P, p) \o P[p + 1]
           /\ Passed(P, p) \in Seq(A) /\ P[p + 1] \in Seq(A)
           /\ Passed(P, 0) = <<>>
<1>1. p \in 0..Len(P) /\ p + 1 \in 0..Len(P) /\ p + 1 \in 1..Len(P) /\ p + 1 \in Nat
  OBVIOUS
<1>2. PICK off : Concatenates(Passed(P, p), P, p, off, A)
  BY <1>1, PassedConcatenates
<1>3. PICK o : Concatenates(Passed(P, p) \o P[p + 1], P, p + 1, o, A)
  BY <1>1, <1>2, ConcatenateOne
<1>4. PICK o2 : Concatenates(Passed(P, p + 1), P, p + 1, o2, A)
  BY <1>1, PassedConcatenates
<1>5. Passed(P, p + 1) = Passed(P, p) \o P[p + 1]
  <2> DEFINE n == p + 1
             f1 == Passed(P, p) \o P[p + 1]
             f2 == Passed(P, p + 1)
  <2>1. n \in Nat /\ Concatenates(f1, P, n, o, A) /\ Concatenates(f2, P, n, o2, A)
    BY <1>1, <1>3, <1>4
  <2> HIDE DEF n, f1, f2
  <2>2. f1 = f2
    BY ONLY <2>1, ConcatenatesUnique
  <2> QED
    BY <2>2 DEF f1, f2
<1>6. Passed(P, p) \in Seq(A)
  BY <1>2 DEF Concatenates
<1>7. P[p + 1] \in Seq(A)
  BY <1>1
<1>8. Passed(P, 0) = <<>>
  <2>1. SubSeq(P, 1, 0) = <<>>
    OBVIOUS
  <2> QED
    BY <2>1 DEF Passed, FlattenSeq
<1> QED
  BY <1>5, <1>6, <1>7, <1>8

-------------------------------------------------------------------------------
(* The mini-batches of an update.                                          *)

Mini(n, r, b) == Split(Chunk(SubSeq(order, 1, n), DpRank(r)), MiniSize)[b]

\* Where in the order the x-th row of it is.
PlaceOf(q, r, b, x) == DpRank(r) * q + ((b - 1) * MiniSize + x)

\* The update is on n rows, q of them for each rank, in B mini-batches per epoch.
IsUpdate(n, q, B) ==
    /\ q \in Nat \ {0} /\ B \in Nat \ {0} /\ PpoEpochs * B <= PpoEpochs * Rows
    /\ \A r \in Ranks : \A b \in 1..B :
          /\ Mini(n, r, b) \in Seq(1..Rows) /\ Mini(n, r, b) # <<>>
          /\ Len(Mini(n, r, b)) = PartEnd(b, MiniSize, q) - (b - 1) * MiniSize
          /\ \A x \in 1..Len(Mini(n, r, b)) : /\ PlaceOf(q, r, b, x) \in 1..n
                                              /\ Mini(n, r, b)[x] = order[PlaceOf(q, r, b, x)]

\* No place is in two mini-batches of an epoch, and each one is in one.
PlacesApart(n, q, B) ==
    \A r, s \in Ranks : \A b, h \in 1..B :
        \A x \in 1..Len(Mini(n, r, b)), y \in 1..Len(Mini(n, s, h)) :
            PlaceOf(q, r, b, x) = PlaceOf(q, s, h, y) => DpRank(r) = DpRank(s) /\ b = h

PlacesCovered(n, q, B) ==
    \A i \in 1..n : \E r \in Ranks : \E b \in 1..B : \E x \in 1..Len(Mini(n, r, b)) :
        i = PlaceOf(q, r, b, x)

LEMMA UpdateFacts ==
    ASSUME IsPermutation(order, Rows), NEW n \in TrainedSizes, n % DpSize = 0,
           NEW q, q = n \div DpSize, NEW B, B = CeilDiv(q, MiniSize)
    PROVE  IsUpdate(n, q, B) /\ PlacesApart(n, q, B) /\ PlacesCovered(n, q, B)
<1> DEFINE A == 1..Rows
           rows == SubSeq(order, 1, n)
           chunk(g) == Chunk(rows, g)
           mini(g) == Split(chunk(g), MiniSize)
<1>1. /\ DpSize \in Nat \ {0} /\ MiniSize \in Nat \ {0} /\ Rows \in Nat \ {0} /\ n \in 1..Rows
      /\ PpoEpochs \in Nat \ {0}
  BY Sizes
<1>2. rows \in Seq(A) /\ Len(rows) = n /\ \A i \in 1..n : rows[i] = order[i]
  <2>1. order \in [1..Rows -> A]
    BY DEF IsPermutation
  <2> HIDE DEF A
  <2>2. order \in Seq(A) /\ Len(order) = Rows
    BY <1>1, <2>1
  <2> QED
    BY <1>1, <2>2
<1> HIDE DEF rows
<1>3. IsChunked(rows, q, A)
  <2>1. Len(rows) % DpSize = 0 /\ q = Len(rows) \div DpSize
    BY <1>2
  <2> HIDE DEF A
  <2> QED
    BY <1>2, <2>1, ChunkFacts
<1>4. /\ q \in Nat /\ n = DpSize * q
      /\ \A g \in 0..(DpSize - 1) :
            /\ chunk(g) \in Seq(A) /\ Len(chunk(g)) = q
            /\ \A x \in 1..q : g * q + x \in 1..n /\ chunk(g)[x] = rows[g * q + x]
  BY <1>2, <1>3 DEF IsChunked
<1> HIDE DEF chunk
<1>5. q \in Nat \ {0}
  <2>1. q = 0 => DpSize * q = 0
    BY <1>1
  <2> QED
    BY <1>1, <1>4, <2>1
<1>6. ASSUME NEW g \in 0..(DpSize - 1) PROVE IsSplitUp(mini(g), chunk(g), MiniSize, B, A)
  <2> DEFINE s == chunk(g)
  <2>1. s \in Seq(A) /\ Len(s) = q
    BY <1>4
  <2> HIDE DEF s, A
  <2>2. s # <<>> /\ B = CeilDiv(Len(s), MiniSize)
    BY <1>5, <2>1
  <2>3. IsSplitUp(Split(s, MiniSize), s, MiniSize, B, A)
    BY <1>1, <2>1, <2>2, SplitFacts
  <2> QED
    BY <2>3 DEF s
<1>7. \A r \in Ranks : DpRank(r) \in 0..(DpSize - 1)
  BY RankFacts
<1>8. \A r \in Ranks : \A b : Mini(n, r, b) = mini(DpRank(r))[b]
  BY DEF Mini, rows, chunk
<1> HIDE DEF mini
<1>9. 0 \in 0..(DpSize - 1)
  BY <1>1
<1>10. B \in Nat \ {0} /\ B <= q
  <2>1. B \in Nat \ {0}
    BY <1>6, <1>9 DEF IsSplitUp
  <2>2. (B - 1) * MiniSize < q
    BY <1>1, <1>5, CeilDivFacts
  <2>3. (B - 1) * MiniSize >= B - 1
    <3>1. \A x \in Nat, y \in Nat \ {0} : x * y >= x
      OBVIOUS
    <3>2. B - 1 \in Nat
      BY <2>1
    <3> QED
      BY <1>1, <3>1, <3>2
  <2> DEFINE u == (B - 1) * MiniSize
  <2>4. u \in Int /\ u < q /\ u >= B - 1
    BY <1>1, <2>1, <2>2, <2>3
  <2> HIDE DEF u
  <2> QED
    BY <1>5, <2>1, <2>4
<1>11. q <= Rows
  <2>1. \A x, y \in Nat \ {0} : y <= x * y
    OBVIOUS
  <2> DEFINE u == DpSize * q
  <2>2. q <= u /\ u = n
    BY <1>1, <1>4, <1>5, <2>1
  <2> HIDE DEF u
  <2> QED
    BY <1>1, <1>5, <2>2
<1>12. PpoEpochs * B <= PpoEpochs * Rows
  <2>1. \A x, y, z \in Nat : x <= y => z * x <= z * y
    OBVIOUS
  <2> QED
    BY <1>1, <1>5, <1>10, <1>11, <2>1
<1>13. ASSUME NEW r \in Ranks, NEW b \in 1..B
       PROVE  /\ Mini(n, r, b) \in Seq(A) /\ Mini(n, r, b) # <<>>
              /\ Len(Mini(n, r, b)) = PartEnd(b, MiniSize, q) - (b - 1) * MiniSize
              /\ \A x \in 1..Len(Mini(n, r, b)) : /\ (b - 1) * MiniSize + x \in 1..q
                                                  /\ PlaceOf(q, r, b, x) \in 1..n
                                                  /\ Mini(n, r, b)[x] = order[PlaceOf(q, r, b, x)]
  <2> DEFINE g == DpRank(r)
             M == mini(g)
  <2>1. g \in 0..(DpSize - 1)
    BY <1>7
  <2>2. IsSplitUp(M, chunk(g), MiniSize, B, A) /\ Len(chunk(g)) = q
    BY <1>4, <1>6, <2>1
  <2>3. Mini(n, r, b) = M[b]
    BY <1>8
  <2> HIDE DEF M, g
  <2>4. /\ M \in Seq(Seq(A)) /\ Len(M) = B /\ M[b] # <<>>
        /\ Len(M[b]) = PartEnd(b, MiniSize, q) - (b - 1) * MiniSize
        /\ \A x \in 1..Len(M[b]) : /\ (b - 1) * MiniSize + x \in 1..q
                                   /\ M[b][x] = chunk(g)[(b - 1) * MiniSize + x]
    BY <2>2 DEF IsSplitUp
  <2>5. M[b] \in Seq(A)
    BY <2>4
  <2>6. ASSUME NEW x \in 1..Len(M[b])
        PROVE  PlaceOf(q, r, b, x) \in 1..n /\ M[b][x] = order[PlaceOf(q, r, b, x)]
    <3> DEFINE z == (b - 1) * MiniSize + x
    <3>1. z \in 1..q /\ M[b][x] = chunk(g)[z]
      BY <2>4
    <3>2. PlaceOf(q, r, b, x) = g * q + z
      BY DEF PlaceOf, g
    <3> HIDE DEF z
    <3>3. g * q + z \in 1..n /\ chunk(g)[z] = rows[g * q + z]
      BY <1>4, <2>1, <3>1
    <3> QED
      BY <1>2, <3>1, <3>2, <3>3
  <2> QED
    BY <2>3, <2>4, <2>5, <2>6
<1>14. ASSUME NEW r \in Ranks, NEW s \in Ranks, NEW b \in 1..B, NEW h \in 1..B,
              NEW x \in 1..Len(Mini(n, r, b)), NEW y \in 1..Len(Mini(n, s, h)),
              PlaceOf(q, r, b, x) = PlaceOf(q, s, h, y)
       PROVE  DpRank(r) = DpRank(s) /\ b = h
  <2> DEFINE g == DpRank(r)
             e == DpRank(s)
             z == (b - 1) * MiniSize + x
             w == (h - 1) * MiniSize + y
  <2>1. g \in 0..(DpSize - 1) /\ e \in 0..(DpSize - 1) /\ z \in 1..q /\ w \in 1..q
    BY <1>7, <1>13
  <2>2. g * q + z = e * q + w
    BY <1>14 DEF PlaceOf
  <2>3. g = e /\ z = w
    <3> HIDE DEF g, e, z, w
    <3>1. /\ g + 1 \in 1..DpSize /\ e + 1 \in 1..DpSize
          /\ ((g + 1) - 1) * q + z = ((e + 1) - 1) * q + w
      <4>1. (g + 1) - 1 = g /\ (e + 1) - 1 = e
        BY <1>1, <2>1
      <4> QED
        BY <1>1, <2>1, <2>2, <4>1
    <3>2. \A i, j \in 1..DpSize : \A u, v \in 1..q :
              (i - 1) * q + u = (j - 1) * q + v => i = j /\ u = v
      <4>1. DpSize \in Nat /\ q \in Nat \ {0}
        BY <1>1, <1>5
      <4> QED
        BY ONLY <4>1, Blocks
    <3> DEFINE i == g + 1
               j == e + 1
    <3>3. i \in 1..DpSize /\ j \in 1..DpSize /\ (i - 1) * q + z = (j - 1) * q + w
      BY <3>1
    <3> HIDE DEF i, j
    <3>4. i = j /\ z = w
      BY ONLY <3>2, <3>3, <2>1, Zenon
    <3> QED
      BY <1>1, <2>1, <3>4 DEF i, j
  <2>4. IsSplitUp(mini(g), chunk(g), MiniSize, B, A)
    BY <1>6, <2>1
  <2> DEFINE M == mini(g)
  <2>5. Mini(n, r, b) = M[b] /\ Mini(n, s, h) = M[h]
    BY <1>8, <2>3
  <2>6. x \in 1..Len(M[b]) /\ y \in 1..Len(M[h]) /\ (b - 1) * MiniSize + x = (h - 1) * MiniSize + y
    BY <2>3, <2>5
  <2> HIDE DEF M
  <2>7. \A i, j \in 1..B : \A u \in 1..Len(M[i]), v \in 1..Len(M[j]) :
          (i - 1) * MiniSize + u = (j - 1) * MiniSize + v => i = j /\ u = v
    BY <2>4 DEF IsSplitUp, M
  <2>8. b = h
    BY ONLY <2>6, <2>7, b \in 1..B, h \in 1..B, Zenon
  <2> QED
    BY <2>3, <2>8
<1>15. ASSUME NEW i \in 1..n
       PROVE  \E r \in Ranks : \E b \in 1..B : \E x \in 1..Len(Mini(n, r, b)) : i = PlaceOf(q, r, b, x)
  <2>1. \A z \in 1..(DpSize * q) : \E g \in 1..DpSize : \E x \in 1..q : z = (g - 1) * q + x
    <3>1. DpSize \in Nat /\ q \in Nat \ {0}
      BY <1>1, <1>5
    <3> QED
      BY ONLY <3>1, Blocks
  <2>2. PICK g1 \in 1..DpSize : \E z \in 1..q : i = (g1 - 1) * q + z
    BY <1>4, <2>1
  <2>3. PICK z \in 1..q : i = (g1 - 1) * q + z
    BY <2>2
  <2> DEFINE g == g1 - 1
             r == g * SpSize
             M == mini(g)
  <2>4. g \in 0..(DpSize - 1) /\ i = g * q + z
    BY <1>1, <2>3
  <2>5. r \in Ranks /\ DpRank(r) = g
    BY <2>4, RankFacts
  <2> HIDE DEF g, r
  <2>6. IsSplitUp(M, chunk(g), MiniSize, B, A) /\ Len(chunk(g)) = q
    BY <1>4, <1>6, <2>4
  <2>7. \A b : Mini(n, r, b) = M[b]
    BY <1>8, <2>5
  <2> HIDE DEF M
  <2>8. \A u \in 1..q : \E b \in 1..B : \E x \in 1..Len(M[b]) : u = (b - 1) * MiniSize + x
    BY <2>6 DEF IsSplitUp
  <2>9. PICK b \in 1..B : \E x \in 1..Len(M[b]) : z = (b - 1) * MiniSize + x
    BY <2>8
  <2>10. PICK x \in 1..Len(M[b]) : z = (b - 1) * MiniSize + x
    BY <2>9
  <2>11. x \in 1..Len(Mini(n, r, b)) /\ i = PlaceOf(q, r, b, x)
    BY <2>4, <2>5, <2>7, <2>10 DEF PlaceOf
  <2> QED
    BY <2>5, <2>11
<1> QED
  <2>1. IsUpdate(n, q, B)
    BY <1>5, <1>10, <1>12, <1>13 DEF IsUpdate
  <2>2. PlacesApart(n, q, B)
    BY <1>14 DEF PlacesApart
  <2>3. PlacesCovered(n, q, B)
    BY <1>15 DEF PlacesCovered
  <2> QED
    BY <2>1, <2>2, <2>3

\* The mini-batches of a rank, one epoch after the other.
LEMMA RepeatedFacts ==
    ASSUME NEW A, NEW batches \in Seq(A), NEW n \in Nat
    PROVE  /\ Repeated(batches, n) \in Seq(A)
           /\ Len(Repeated(batches, n)) = n * Len(batches)
           /\ \A e \in 1..n : \A b \in 1..Len(batches) :
                 Repeated(batches, n)[(e - 1) * Len(batches) + b] = batches[b]
<1> DEFINE seqs == [e \in 1..n |-> batches]
           flat == Repeated(batches, n)
           B == Len(batches)
<1>1. B \in Nat /\ seqs \in Seq(Seq(A)) /\ Len(seqs) = n /\ \A e \in 1..n : seqs[e] = batches
  OBVIOUS
<1> HIDE DEF seqs
<1>2. flat = FlattenSeq(seqs)
  BY DEF Repeated, seqs
<1>3. PICK off : Concatenates(flat, seqs, n, off, A)
  <2>1. \E off : Concatenates(FlattenSeq(seqs), seqs, Len(seqs), off, A)
    BY <1>1, FlattenConcatenates
  <2> QED
    BY <1>1, <1>2, <2>1
<1> HIDE DEF flat
<1>4. \A e \in 1..n : Len(seqs[e]) = B
  BY <1>1
<1> HIDE DEF B
<1>5. \A e \in 1..(n + 1) : off[e] = (e - 1) * B
  <2>1. n \in Nat /\ B \in Nat
    BY <1>1
  <2> QED
    BY ONLY <2>1, <1>3, <1>4, EvenOffsets
<1>6. flat \in Seq(A) /\ Len(flat) = off[n + 1]
      /\ \A e \in 1..n : \A b \in 1..Len(seqs[e]) : flat[off[e] + b] = seqs[e][b]
  BY <1>3 DEF Concatenates
<1>7. Len(flat) = n * B
  <2>1. n + 1 \in 1..(n + 1) /\ (n + 1) - 1 = n
    OBVIOUS
  <2> QED
    BY <1>5, <1>6, <2>1
<1>8. \A e \in 1..n : \A b \in 1..B : flat[(e - 1) * B + b] = batches[b]
  <2> TAKE e \in 1..n
  <2> TAKE b \in 1..B
  <2>1. e \in 1..(n + 1)
    OBVIOUS
  <2>2. off[e] = (e - 1) * B
    BY <1>5, <2>1
  <2>3. flat[off[e] + b] = seqs[e][b]
    BY <1>4, <1>6
  <2> QED
    BY <1>1, <2>2, <2>3
<1> QED
  BY <1>6, <1>7, <1>8 DEF flat, B

\* The mini-batches of every rank: the same in each epoch.
IsWork(n, B) ==
    \A r \in Ranks :
        /\ Work(n, r) \in Seq(Seq(1..Rows)) /\ Len(Work(n, r)) = PpoEpochs * B
        /\ \A e \in 1..PpoEpochs : \A b \in 1..B : Work(n, r)[(e - 1) * B + b] = Mini(n, r, b)

LEMMA WorkFacts ==
    ASSUME IsPermutation(order, Rows), NEW n \in TrainedSizes, n % DpSize = 0,
           NEW q, q = n \div DpSize, NEW B, B = CeilDiv(q, MiniSize)
    PROVE  IsWork(n, B)
<1> DEFINE A == 1..Rows
<1>1. IsUpdate(n, q, B)
  BY UpdateFacts
<1>2. /\ DpSize \in Nat \ {0} /\ MiniSize \in Nat \ {0} /\ Rows \in Nat \ {0} /\ n \in 1..Rows
      /\ PpoEpochs \in Nat
  BY Sizes
<1>3. SubSeq(order, 1, n) \in Seq(A) /\ Len(SubSeq(order, 1, n)) = n
  <2>1. order \in [1..Rows -> A]
    BY DEF IsPermutation
  <2> HIDE DEF A
  <2>2. order \in Seq(A) /\ Len(order) = Rows
    BY <1>2, <2>1
  <2> QED
    BY <1>2, <2>2
<1>4. q \in Nat \ {0} /\ B \in Nat \ {0}
  BY <1>1 DEF IsUpdate
<1> HIDE DEF A
<1>5. ASSUME NEW r \in Ranks
      PROVE  /\ Work(n, r) \in Seq(Seq(A)) /\ Len(Work(n, r)) = PpoEpochs * B
             /\ \A e \in 1..PpoEpochs : \A b \in 1..B : Work(n, r)[(e - 1) * B + b] = Mini(n, r, b)
  <2> DEFINE s == Chunk(SubSeq(order, 1, n), DpRank(r))
             S == Split(s, MiniSize)
             D == Seq(A)
  <2>1. s \in Seq(A) /\ Len(s) = q
    <3> DEFINE rows == SubSeq(order, 1, n)
    <3>1. rows \in Seq(A) /\ Len(rows) = n
      BY <1>3
    <3> HIDE DEF rows
    <3>2. IsChunked(rows, q, A)
      BY <3>1, ChunkFacts
    <3>3. DpRank(r) \in 0..(DpSize - 1)
      BY RankFacts
    <3>4. Chunk(rows, DpRank(r)) \in Seq(A) /\ Len(Chunk(rows, DpRank(r))) = q
      BY <3>2, <3>3 DEF IsChunked
    <3> QED
      BY <3>4 DEF rows
  <2>2. Work(n, r) = Repeated(S, PpoEpochs) /\ \A b : Mini(n, r, b) = S[b]
    BY DEF Work, Mini
  <2> HIDE DEF s
  <2>3. s # <<>> /\ B = CeilDiv(Len(s), MiniSize)
    BY <1>4, <2>1
  <2>4. IsSplitUp(S, s, MiniSize, B, A)
    BY <1>2, <2>1, <2>3, SplitFacts
  <2> HIDE DEF S
  <2>5. S \in Seq(D) /\ Len(S) = B
    BY <2>4 DEF IsSplitUp
  <2> HIDE DEF D
  <2>6. /\ Repeated(S, PpoEpochs) \in Seq(D)
        /\ Len(Repeated(S, PpoEpochs)) = PpoEpochs * Len(S)
        /\ \A e \in 1..PpoEpochs : \A b \in 1..Len(S) :
              Repeated(S, PpoEpochs)[(e - 1) * Len(S) + b] = S[b]
    BY <1>2, <2>5, RepeatedFacts
  <2>7. Repeated(S, PpoEpochs) \in Seq(Seq(A))
    BY <2>6 DEF D
  <2>8. \A e \in 1..PpoEpochs : \A b \in 1..B : Repeated(S, PpoEpochs)[(e - 1) * B + b] = S[b]
    BY <2>5, <2>6
  <2>9. Len(Repeated(S, PpoEpochs)) = PpoEpochs * B
    BY <2>5, <2>6
  <2>10. Work(n, r) \in Seq(Seq(A)) /\ Len(Work(n, r)) = PpoEpochs * B
    BY <2>2, <2>7, <2>9
  <2>11. \A e \in 1..PpoEpochs : \A b \in 1..B : Work(n, r)[(e - 1) * B + b] = Mini(n, r, b)
    BY <2>2, <2>8
  <2> QED
    BY <2>10, <2>11
<1> QED
  BY <1>5 DEF IsWork, A

\* The b-th mini-batch of an epoch has the row, on one of the ranks.
HasTheRow(n, row, b) == \E r \in Ranks : row \in ToSet(Mini(n, r, b))

\* It is at a place in the order.
LEMMA RowInBatch ==
    ASSUME IsPermutation(order, Rows), NEW n \in 1..Rows, NEW q, NEW B, IsUpdate(n, q, B),
           Rows \in Nat, NEW i \in 1..Rows, NEW r \in Ranks, NEW b \in 1..B
    PROVE  order[i] \in ToSet(Mini(n, r, b)) <=>
              \E x \in 1..Len(Mini(n, r, b)) : i = PlaceOf(q, r, b, x)
<1> DEFINE M == Mini(n, r, b)
           A == 1..Rows
<1>1. M \in Seq(A) /\ \A x \in 1..Len(M) : /\ PlaceOf(q, r, b, x) \in 1..n
                                           /\ M[x] = order[PlaceOf(q, r, b, x)]
  BY DEF IsUpdate
<1> HIDE DEF M
<1>2. ToSet(M) = {M[x] : x \in 1..Len(M)}
  <2> HIDE DEF A
  <2>1. DOMAIN M = 1..Len(M)
    BY <1>1
  <2> QED
    BY <2>1 DEF ToSet
<1>3. \A j, k \in A : order[j] = order[k] => j = k
  BY DEF IsPermutation
<1>4. \A x \in 1..Len(M) : PlaceOf(q, r, b, x) \in A
  <2> TAKE x \in 1..Len(M)
  <2>1. PlaceOf(q, r, b, x) \in 1..n
    BY <1>1
  <2> HIDE DEF M
  <2> DEFINE p == PlaceOf(q, r, b, x)
  <2>2. p \in 1..n
    BY <2>1
  <2> HIDE DEF p
  <2>3. p \in A
    BY <2>2
  <2> QED
    BY <2>3 DEF p
<1>5. ASSUME order[i] \in ToSet(M) PROVE \E x \in 1..Len(M) : i = PlaceOf(q, r, b, x)
  <2>1. PICK x \in 1..Len(M) : order[i] = M[x]
    BY <1>2, <1>5
  <2>2. order[i] = order[PlaceOf(q, r, b, x)] /\ PlaceOf(q, r, b, x) \in A
    BY <1>1, <1>4, <2>1
  <2>3. i = PlaceOf(q, r, b, x)
    BY <1>3, <2>2
  <2> QED
    BY <2>3
<1>6. ASSUME NEW x \in 1..Len(M), i = PlaceOf(q, r, b, x) PROVE order[i] \in ToSet(M)
  <2>1. M[x] = order[i]
    BY <1>1, <1>6
  <2> QED
    BY <1>2, <2>1
<1> QED
  BY <1>5, <1>6 DEF M

\* A row that is trained on is in one mini-batch of an epoch, another in none.
LEMMA BatchOfRow ==
    ASSUME IsPermutation(order, Rows), NEW n \in 1..Rows, NEW q, NEW B, IsUpdate(n, q, B),
           PlacesApart(n, q, B), PlacesCovered(n, q, B), Rows \in Nat, NEW i \in 1..Rows
    PROVE  /\ i <= n => \E c \in 1..B : \A b \in 1..B : HasTheRow(n, order[i], b) <=> b = c
           /\ i > n => \A b \in 1..B : ~HasTheRow(n, order[i], b)
<1> DEFINE Here(r, b, x) == x \in 1..Len(Mini(n, r, b)) /\ i = PlaceOf(q, r, b, x)
<1>1. \A r \in Ranks : \A b \in 1..B : order[i] \in ToSet(Mini(n, r, b)) <=> \E x : Here(r, b, x)
  <2> TAKE r \in Ranks
  <2> TAKE b \in 1..B
  <2>1. order[i] \in ToSet(Mini(n, r, b)) <=> \E x \in 1..Len(Mini(n, r, b)) : i = PlaceOf(q, r, b, x)
    BY RowInBatch
  <2> QED
    BY <2>1
<1>2. \A b \in 1..B : HasTheRow(n, order[i], b) <=> \E r \in Ranks : \E x : Here(r, b, x)
  BY <1>1 DEF HasTheRow
<1>3. ASSUME i <= n
      PROVE  \E c \in 1..B : \A b \in 1..B : HasTheRow(n, order[i], b) <=> b = c
  <2>1. i \in 1..n
    BY <1>3
  <2>2. PICK s \in Ranks : \E b \in 1..B : \E x : Here(s, b, x)
    BY <2>1 DEF PlacesCovered
  <2>3. PICK c \in 1..B : \E x : Here(s, c, x)
    BY <2>2
  <2>4. PICK y : Here(s, c, y)
    BY <2>3
  <2>5. ASSUME NEW b \in 1..B, NEW r \in Ranks, NEW x, Here(r, b, x) PROVE b = c
    <3>1. PlaceOf(q, r, b, x) = PlaceOf(q, s, c, y)
      BY <2>4, <2>5
    <3>2. x \in 1..Len(Mini(n, r, b)) /\ y \in 1..Len(Mini(n, s, c))
      BY <2>4, <2>5
    <3> QED
      BY <3>1, <3>2 DEF PlacesApart
  <2> HIDE DEF Here
  <2>6. \A b \in 1..B : HasTheRow(n, order[i], b) <=> b = c
    BY <1>2, <2>3, <2>5
  <2> QED
    BY <2>6
<1>4. ASSUME i > n PROVE \A b \in 1..B : ~HasTheRow(n, order[i], b)
  <2>1. ASSUME NEW b \in 1..B, NEW r \in Ranks, NEW x, Here(r, b, x) PROVE FALSE
    <3>1. i \in 1..n
      BY <2>1 DEF IsUpdate
    <3> QED
      BY <1>4, <3>1
  <2> HIDE DEF Here
  <2> QED
    BY <1>2, <2>1
<1> QED
  BY <1>3, <1>4

\* A row that is trained on is in ppo_epochs mini-batches of the update.
LEMMA TakenFacts ==
    ASSUME IsPermutation(order, Rows), NEW n \in TrainedSizes, n % DpSize = 0,
           NEW B, B = CeilDiv(n \div DpSize, MiniSize), NEW i \in 1..Rows
    PROVE  /\ \A t \in 0..(PpoEpochs * B) : Cardinality(Taken(n, order[i], t)) \in 0..PpoEpochs
           /\ i <= n => Cardinality(Taken(n, order[i], PpoEpochs * B)) = PpoEpochs
           /\ i > n => Cardinality(Taken(n, order[i], PpoEpochs * B)) = 0
<1> DEFINE q == n \div DpSize
           T == PpoEpochs * B
           All == Taken(n, order[i], T)
<1>1. IsUpdate(n, q, B) /\ PlacesApart(n, q, B) /\ PlacesCovered(n, q, B)
  BY UpdateFacts
<1>2. IsWork(n, B)
  BY WorkFacts
<1>3. /\ Rows \in Nat /\ n \in 1..Rows /\ PpoEpochs \in Nat /\ B \in Nat \ {0}
  BY <1>1, Sizes DEF IsUpdate
<1> HIDE DEF q
<1>4. T \in Nat
  BY <1>3
<1>5. \A u \in 1..T : \E e \in 1..PpoEpochs : \E b \in 1..B : u = (e - 1) * B + b
  <2>1. PpoEpochs \in Nat /\ B \in Nat \ {0}
    BY <1>3
  <2> QED
    BY ONLY <2>1, Blocks
<1>6. \A e \in 1..PpoEpochs : \A b \in 1..B : (e - 1) * B + b \in 1..T
  <2> TAKE e \in 1..PpoEpochs
  <2> TAKE b \in 1..B
  <2>1. (e - 1) * B \in Nat /\ e * B = (e - 1) * B + B /\ e * B <= PpoEpochs * B
    <3>1. PpoEpochs \in Nat /\ B \in Nat \ {0}
      BY <1>3
    <3> QED
      BY ONLY <3>1, Blocks
  <2> DEFINE u == (e - 1) * B
             v == e * B
  <2>2. u \in Nat /\ v = u + B /\ v <= T
    BY <2>1
  <2> HIDE DEF u, v, T
  <2>3. u + b \in 1..T
    BY <1>3, <1>4, <2>2
  <2> QED
    BY <2>3 DEF u
<1>7. \A e, h \in 1..PpoEpochs : \A b, c \in 1..B :
          (e - 1) * B + b = (h - 1) * B + c => e = h /\ b = c
  <2>1. PpoEpochs \in Nat /\ B \in Nat \ {0}
    BY <1>3
  <2> QED
    BY ONLY <2>1, Blocks
<1>8. \A r \in Ranks : \A e \in 1..PpoEpochs : \A b \in 1..B :
          Work(n, r)[(e - 1) * B + b] = Mini(n, r, b)
  BY <1>2 DEF IsWork
<1> DEFINE slot(e, b) == (e - 1) * B + b
<1>9. \A e \in 1..PpoEpochs : \A b \in 1..B : slot(e, b) \in All <=> HasTheRow(n, order[i], b)
  <2> TAKE e \in 1..PpoEpochs
  <2> TAKE b \in 1..B
  <2>1. slot(e, b) \in 1..T
    BY <1>6
  <2>2. \A r \in Ranks : Work(n, r)[slot(e, b)] = Mini(n, r, b)
    BY <1>8
  <2> HIDE DEF slot, T
  <2> QED
    BY <2>1, <2>2 DEF Taken, HasTheRow
<1>10. \A u \in All : \E e \in 1..PpoEpochs : \E b \in 1..B : u = slot(e, b)
  <2>1. \A u \in All : u \in 1..T
    BY DEF Taken
  <2> QED
    BY <1>5, <2>1
<1>11. \A e, h \in 1..PpoEpochs : \A b, c \in 1..B : slot(e, b) = slot(h, c) => e = h /\ b = c
  BY <1>7
<1> HIDE DEF slot, All
<1>12. ASSUME i <= n PROVE IsFiniteSet(All) /\ Cardinality(All) = PpoEpochs
  <2>1. \E c \in 1..B : \A b \in 1..B : HasTheRow(n, order[i], b) <=> b = c
    BY <1>1, <1>3, <1>12, BatchOfRow
  <2>2. PICK c \in 1..B : \A b \in 1..B : HasTheRow(n, order[i], b) <=> b = c
    BY <2>1
  <2> DEFINE E == 1..PpoEpochs
             f == [e \in E |-> slot(e, c)]
  <2>3. \A e \in E : slot(e, c) \in All
    BY <1>9, <2>2
  <2>4. \A u \in All : \E e \in E : u = slot(e, c)
    <3> TAKE u \in All
    <3>1. PICK e \in E : \E b \in 1..B : u = slot(e, b)
      BY <1>10
    <3>2. PICK b \in 1..B : u = slot(e, b)
      BY <3>1
    <3>3. b = c
      BY <1>9, <2>2, <3>2
    <3> QED
      BY <3>2, <3>3
  <2>5. IsFiniteSet(E) /\ Cardinality(E) = PpoEpochs
    <3>1. 1 \in Int /\ PpoEpochs \in Int
      BY <1>3
    <3>2. /\ IsFiniteSet(1..PpoEpochs)
          /\ Cardinality(1..PpoEpochs) = IF 1 > PpoEpochs THEN 0 ELSE PpoEpochs - 1 + 1
      BY ONLY <3>1, FS_Interval, Zenon
    <3> QED
      BY <1>3, <3>2
  <2>6. f \in Bijection(E, All)
    <3>1. f \in [E -> All]
      BY <2>3
    <3>2. \A e, h \in E : f[e] = f[h] => e = h
      BY <1>11
    <3>3. \A u \in All : \E e \in E : f[e] = u
      BY <2>4
    <3> HIDE DEF f, E
    <3> QED
      BY <3>1, <3>2, <3>3 DEF Bijection, Injection, Surjection, IsInjective
  <2> HIDE DEF E, f
  <2>7. ExistsBijection(E, All)
    BY <2>6 DEF ExistsBijection
  <2> QED
    BY <2>5, <2>7, FS_Bijection
<1>13. ASSUME i > n PROVE IsFiniteSet(All) /\ Cardinality(All) = 0
  <2>1. \A b \in 1..B : ~HasTheRow(n, order[i], b)
    BY <1>1, <1>3, <1>13, BatchOfRow
  <2>2. All = {}
    BY <1>9, <1>10, <2>1
  <2> QED
    BY <2>2, FS_EmptySet
<1>14. ASSUME NEW t \in 0..T PROVE Cardinality(Taken(n, order[i], t)) \in 0..PpoEpochs
  <2>1. IsFiniteSet(All) /\ Cardinality(All) \in 0..PpoEpochs
    <3>1. i <= n \/ i > n
      BY <1>3
    <3> QED
      BY <1>3, <1>12, <1>13, <3>1
  <2>2. Taken(n, order[i], t) \subseteq All
    <3> HIDE DEF T
    <3>1. 1..t \subseteq 1..T
      BY <1>4
    <3> QED
      BY <3>1 DEF Taken, All
  <2> DEFINE U == Taken(n, order[i], t)
  <2> HIDE DEF U
  <2>3. IsFiniteSet(U) /\ Cardinality(U) <= Cardinality(All)
    BY <2>1, <2>2, FS_Subset DEF U
  <2>4. Cardinality(U) \in Nat
    BY <2>3, FS_CardinalityType
  <2> QED
    BY <1>3, <2>1, <2>3, <2>4 DEF U
<1> QED
  BY <1>12, <1>13, <1>14 DEF All, T

-------------------------------------------------------------------------------
(* The mini-batches that are left.                                         *)

\* s is what follows the first t elements of W.
IsRest(s, W, t, A) ==
    /\ s \in Seq(A) /\ Len(s) = Len(W) - t /\ Len(W) - t \in Nat
    /\ s = <<>> <=> t = Len(W)
    /\ t < Len(W) => /\ Head(s) = W[t + 1] /\ W[t + 1] \in A
                     /\ Tail(s) = SubSeq(W, (t + 1) + 1, Len(W))

LEMMA RestFacts ==
    ASSUME NEW A, NEW W \in Seq(A), NEW t \in 0..Len(W), NEW s, s = SubSeq(W, t + 1, Len(W))
    PROVE  IsRest(s, W, t, A)
<1>1. Len(W) \in Nat /\ t \in Nat /\ t <= Len(W)
  OBVIOUS
<1>2. s \in Seq(A) /\ Len(s) = Len(W) - t /\ \A i \in 1..Len(s) : s[i] = W[t + i]
  <2>1. SubSeq(W, t + 1, Len(W)) = [i \in 1..(Len(W) - t) |-> W[t + i]]
    <3>1. Len(W) - (t + 1) + 1 = Len(W) - t
      BY <1>1
    <3>2. \A i \in 1..(Len(W) - t) : (t + 1) + i - 1 = t + i
      BY <1>1
    <3> QED
      BY <1>1, <3>1, <3>2
  <2>2. Len(W) - t \in Nat /\ \A i \in 1..(Len(W) - t) : W[t + i] \in A
    BY <1>1
  <2> QED
    BY <2>1, <2>2
<1> DEFINE l == Len(W)
<1>3. s = <<>> <=> t = l
  <2>1. s \in Seq(A)
    BY <1>2
  <2>2. s = <<>> <=> Len(s) = 0
    BY ONLY <2>1
  <2>3. l \in Nat /\ Len(s) = l - t
    BY <1>1, <1>2
  <2> HIDE DEF l
  <2> QED
    BY <1>1, <2>2, <2>3
<1>4. ASSUME t < Len(W)
      PROVE  /\ Head(s) = W[t + 1] /\ W[t + 1] \in A
             /\ Tail(s) = SubSeq(W, (t + 1) + 1, Len(W))
  <2>1. Len(s) \in Nat \ {0} /\ s[1] = W[t + 1] /\ s # <<>>
    <3>1. Len(s) = l - t /\ l \in Nat /\ t < l
      BY <1>1, <1>2, <1>4
    <3> HIDE DEF l
    <3>2. Len(s) \in Nat \ {0}
      BY <1>1, <3>1
    <3>3. 1 \in 1..Len(s)
      BY <3>2
    <3>4. s # <<>>
      BY <1>3, <3>1
    <3> QED
      BY <1>2, <3>2, <3>3, <3>4
  <2>2. Head(s) = W[t + 1] /\ W[t + 1] \in A
    BY <1>1, <1>2, <1>4, <2>1
  <2>3. Tail(s) = [i \in 1..(Len(s) - 1) |-> s[i + 1]]
    BY <1>2, <2>1
  <2>4. \A i \in 1..(Len(s) - 1) : s[i + 1] = W[(t + 1) + i]
    <3> TAKE i \in 1..(Len(s) - 1)
    <3>1. i + 1 \in 1..Len(s) /\ t + (i + 1) = (t + 1) + i
      BY <1>1, <2>1
    <3> QED
      BY <1>2, <3>1
  <2>5. SubSeq(W, (t + 1) + 1, Len(W)) = [i \in 1..(Len(W) - (t + 1)) |-> W[(t + 1) + i]]
    <3>1. Len(W) - ((t + 1) + 1) + 1 = Len(W) - (t + 1)
      BY <1>1
    <3>2. \A i \in 1..(Len(W) - (t + 1)) : ((t + 1) + 1) + i - 1 = (t + 1) + i
      BY <1>1
    <3> QED
      BY <1>1, <1>4, <3>1, <3>2
  <2>6. Len(s) - 1 = Len(W) - (t + 1)
    BY <1>1, <1>2
  <2> HIDE <1>2
  <2> QED
    BY <2>2, <2>3, <2>4, <2>5, <2>6
<1> QED
  BY <1>1, <1>2, <1>3, <1>4 DEF IsRest

\* The mini-batches that are left after t of them.
LEMMA StageFacts ==
    ASSUME IsPermutation(order, Rows), NEW n \in TrainedSizes, n % DpSize = 0,
           NEW B, B = CeilDiv(n \div DpSize, MiniSize), NEW t \in Nat, Stage(n, t)
    PROVE  /\ PpoEpochs * B \in Nat /\ t \in 0..(PpoEpochs * B) /\ PpoEpochs * B <= PpoEpochs * Rows
           /\ \A r \in Ranks :
                 /\ todo[r] \in Seq(Seq(1..Rows)) /\ Len(todo[r]) = PpoEpochs * B - t
                 /\ todo[r] = <<>> <=> t = PpoEpochs * B
                 /\ t < PpoEpochs * B =>
                       /\ Head(todo[r]) = Work(n, r)[t + 1]
                       /\ Tail(todo[r]) = SubSeq(Work(n, r), (t + 1) + 1, Len(Work(n, r)))
<1> DEFINE A == Seq(1..Rows)
           T == PpoEpochs * B
           q == n \div DpSize
<1>1. IsUpdate(n, q, B)
  BY UpdateFacts
<1>2. IsWork(n, B)
  BY WorkFacts
<1> HIDE DEF q
<1>3. T \in Nat /\ T <= PpoEpochs * Rows
  <2>1. PpoEpochs \in Nat /\ B \in Nat
    BY <1>1, Sizes DEF IsUpdate
  <2> QED
    BY <1>1, <2>1 DEF IsUpdate
<1>4. \A r \in Ranks : /\ Work(n, r) \in Seq(A) /\ Len(Work(n, r)) = T
                       /\ t <= Len(Work(n, r))
                       /\ todo[r] = SubSeq(Work(n, r), t + 1, Len(Work(n, r)))
  BY <1>2 DEF IsWork, Stage
<1> HIDE DEF A, T
<1>5. ASSUME NEW r \in Ranks
      PROVE  /\ todo[r] \in Seq(A) /\ Len(todo[r]) = T - t
             /\ todo[r] = <<>> <=> t = T
             /\ t < T => /\ Head(todo[r]) = Work(n, r)[t + 1]
                         /\ Tail(todo[r]) = SubSeq(Work(n, r), (t + 1) + 1, Len(Work(n, r)))
             /\ t <= T
  <2> DEFINE W == Work(n, r)
             s == todo[r]
  <2>1. W \in Seq(A) /\ Len(W) = T /\ t \in 0..Len(W) /\ s = SubSeq(W, t + 1, Len(W)) /\ t <= T
    BY <1>3, <1>4
  <2> HIDE DEF W, s
  <2>2. IsRest(s, W, t, A)
    BY ONLY <2>1, RestFacts
  <2>3. /\ s \in Seq(A) /\ Len(s) = T - t
        /\ s = <<>> <=> t = T
        /\ t < T => /\ Head(s) = W[t + 1]
                    /\ Tail(s) = SubSeq(W, (t + 1) + 1, Len(W))
    BY <2>1, <2>2 DEF IsRest
  <2> QED
    BY <2>1, <2>3 DEF W, s
<1>6. t \in 0..T
  <2>1. t <= T
    BY <1>5, RankFacts
  <2> QED
    BY <1>3, <2>1
<1> QED
  BY <1>3, <1>5, <1>6 DEF A, T

\* The mini-batches the ranks are at have l rows each.
HeadsAlike(l) ==
    \A r \in Ranks : todo[r] # <<>> =>
        Head(todo[r]) \in Seq(1..Rows) /\ Len(Head(todo[r])) = l /\ Head(todo[r]) # <<>>

\* Every rank has as many mini-batches left as the others, and the next ones
\* have the same number of rows.
LEMMA TodoFacts ==
    ASSUME IsPermutation(order, Rows), WorkInv, InCall
    PROVE  /\ \A r \in Ranks : todo[r] \in Seq(Seq(1..Rows))
           /\ \A r, s \in Ranks : Len(todo[r]) = Len(todo[s]) /\ (todo[r] = <<>> <=> todo[s] = <<>>)
           /\ \E l \in 1..Rows : HeadsAlike(l)
<1> DEFINE A == 1..Rows
<1>1. Rows \in Nat \ {0} /\ DpSize \in Nat \ {0} /\ PpoEpochs \in Nat \ {0} /\ MiniSize \in Nat \ {0}
  BY Sizes
<1>2. CASE pc = "computing"
  <2> DEFINE q == Rows \div DpSize
             h(r) == Chunk(order, DpRank(r))
  <2>1. order \in Seq(A) /\ Len(order) = Rows
    <3>1. order \in [1..Rows -> A]
      BY DEF IsPermutation
    <3> HIDE DEF A
    <3> QED
      BY <1>1, <3>1
  <2>2. Rows % DpSize = 0 /\ \A r \in Ranks : todo[r] = <<h(r)>>
    BY <1>2 DEF WorkInv
  <2>3. IsChunked(order, q, A)
    <3> HIDE DEF A
    <3> QED
      BY <2>1, <2>2, ChunkFacts
  <2>4. /\ q \in Nat /\ Rows = DpSize * q
        /\ \A r \in Ranks : h(r) \in Seq(A) /\ Len(h(r)) = q
    <3>1. \A r \in Ranks : DpRank(r) \in 0..(DpSize - 1)
      BY RankFacts
    <3> QED
      BY <2>1, <2>3, <3>1 DEF IsChunked
  <2> HIDE DEF q, h, A
  <2>5. q \in 1..Rows
    <3>1. q = 0 => DpSize * q = 0
      BY <1>1
    <3>2. \A x, y \in Nat \ {0} : y <= x * y
      OBVIOUS
    <3>3. q # 0
      BY <1>1, <2>4, <3>1
    <3>4. q <= DpSize * q
      BY <1>1, <2>4, <3>2, <3>3
    <3> DEFINE u == DpSize * q
    <3>5. u = Rows /\ q <= u
      BY <2>4, <3>4
    <3> HIDE DEF u
    <3> QED
      BY <1>1, <2>4, <3>3, <3>5
  <2>6. \A r \in Ranks : /\ todo[r] \in Seq(Seq(A)) /\ Len(todo[r]) = 1 /\ todo[r] # <<>>
                         /\ Head(todo[r]) = h(r)
    <3> TAKE r \in Ranks
    <3>1. todo[r] = <<h(r)>> /\ h(r) \in Seq(A)
      BY <2>2, <2>4
    <3> QED
      BY <3>1
  <2>7. HeadsAlike(q)
    <3> SUFFICES ASSUME NEW r \in Ranks
                 PROVE  /\ Head(todo[r]) \in Seq(A) /\ Len(Head(todo[r])) = q
                        /\ Head(todo[r]) # <<>>
      BY DEF HeadsAlike, A
    <3>1. Head(todo[r]) = h(r) /\ h(r) \in Seq(A) /\ Len(h(r)) = q
      BY <2>4, <2>6
    <3>2. h(r) # <<>>
      BY <2>5, <3>1
    <3> QED
      BY <3>1, <3>2
  <2>8. \A r \in Ranks : todo[r] \in Seq(Seq(1..Rows))
    BY <2>6 DEF A
  <2>9. \A r, s \in Ranks : Len(todo[r]) = Len(todo[s]) /\ (todo[r] = <<>> <=> todo[s] = <<>>)
    BY <2>6
  <2> QED
    BY <2>5, <2>7, <2>8, <2>9
<1>3. CASE pc = "updating"
  <2>1. PICK n \in TrainedSizes : n % DpSize = 0 /\ \E t \in 0..(PpoEpochs * Rows) : Stage(n, t)
    BY <1>3 DEF WorkInv
  <2>2. PICK t \in 0..(PpoEpochs * Rows) : Stage(n, t)
    BY <2>1
  <2> DEFINE q == n \div DpSize
             B == CeilDiv(q, MiniSize)
             T == PpoEpochs * B
  <2>3. t \in Nat
    OBVIOUS
  <2>4. /\ T \in Nat /\ t \in 0..T
        /\ \A r \in Ranks :
              /\ todo[r] \in Seq(Seq(1..Rows)) /\ Len(todo[r]) = T - t
              /\ todo[r] = <<>> <=> t = T
              /\ t < T => Head(todo[r]) = Work(n, r)[t + 1]
    BY <2>1, <2>2, <2>3, StageFacts
  <2>5. IsUpdate(n, q, B)
    BY <2>1, UpdateFacts
  <2>6. IsWork(n, B)
    BY <2>1, WorkFacts
  <2> HIDE DEF q, B
  <2>7. q \in Nat /\ B \in Nat \ {0} /\ n \in 1..Rows
    BY <2>5, Sizes DEF IsUpdate
  <2>8. \A r, s \in Ranks : Len(todo[r]) = Len(todo[s]) /\ (todo[r] = <<>> <=> todo[s] = <<>>)
    BY <2>4
  <2>9. CASE t = T
    <3>1. HeadsAlike(1)
      BY <2>4, <2>9 DEF HeadsAlike
    <3>2. 1 \in 1..Rows
      BY <1>1
    <3> QED
      BY <2>4, <2>8, <3>1, <3>2
  <2>10. CASE t < T
    <3>1. \A u \in 1..(PpoEpochs * B) : \E e \in 1..PpoEpochs : \E b \in 1..B : u = (e - 1) * B + b
      <4>1. PpoEpochs \in Nat /\ B \in Nat \ {0}
        BY <1>1, <2>7
      <4> QED
        BY ONLY <4>1, Blocks
    <3>2. t + 1 \in 1..(PpoEpochs * B)
      <4> HIDE DEF T
      <4>1. t + 1 \in 1..T
        BY <2>4, <2>10
      <4> QED
        BY <4>1 DEF T
    <3>3. PICK e \in 1..PpoEpochs : \E b \in 1..B : t + 1 = (e - 1) * B + b
      BY <3>1, <3>2
    <3>4. PICK b \in 1..B : t + 1 = (e - 1) * B + b
      BY <3>3
    <3>5. \A r \in Ranks : Head(todo[r]) = Mini(n, r, b)
      <4> TAKE r \in Ranks
      <4>1. Head(todo[r]) = Work(n, r)[t + 1]
        BY <2>4, <2>10
      <4>2. Work(n, r)[(e - 1) * B + b] = Mini(n, r, b)
        BY <2>6 DEF IsWork
      <4> QED
        BY <3>4, <4>1, <4>2
    <3> DEFINE l == PartEnd(b, MiniSize, q) - (b - 1) * MiniSize
    <3>6. \A r \in Ranks : /\ Mini(n, r, b) \in Seq(A) /\ Mini(n, r, b) # <<>>
                           /\ Len(Mini(n, r, b)) = l
                           /\ \A x \in 1..Len(Mini(n, r, b)) : PlaceOf(q, r, b, x) \in 1..n
      BY <2>5 DEF IsUpdate
    <3> HIDE DEF l
    <3>7. l \in 1..Rows
      <4> DEFINE M == Mini(n, 0, b)
      <4>1. 0 \in Ranks /\ DpRank(0) \in Nat
        BY <1>1, RankFacts
      <4>2. /\ M \in Seq(A) /\ M # <<>> /\ Len(M) = l
            /\ \A x \in 1..Len(M) : PlaceOf(q, 0, b, x) \in 1..n
        BY <3>6, <4>1
      <4> HIDE DEF M
      <4>3. l \in Nat \ {0}
        <5> HIDE DEF A
        <5>1. Len(M) \in Nat /\ Len(M) # 0
          BY <4>2
        <5> QED
          BY <4>2, <5>1
      <4>4. PlaceOf(q, 0, b, l) \in 1..n
        <5>1. l \in 1..Len(M)
          BY <4>2, <4>3
        <5> QED
          BY <4>2, <5>1
      <4> DEFINE u == DpRank(0) * q
                 v == (b - 1) * MiniSize
      <4>5. u \in Nat /\ v \in Nat
        <5>1. \A x, y \in Nat : x * y \in Nat
          OBVIOUS
        <5>2. b - 1 \in Nat
          BY <2>7
        <5> QED
          BY <1>1, <2>7, <4>1, <5>1, <5>2
      <4>6. u + (v + l) \in 1..n
        BY <4>4 DEF PlaceOf
      <4> HIDE DEF u, v
      <4> QED
        BY <1>1, <2>7, <4>3, <4>5, <4>6
    <3>8. HeadsAlike(l)
      BY <3>5, <3>6 DEF HeadsAlike
    <3> QED
      BY <2>4, <2>8, <3>7, <3>8
  <2>11. t = T \/ t < T
    <3> HIDE DEF T
    <3> QED
      BY <2>4
  <2> QED
    BY <2>9, <2>10, <2>11
<1> QED
  BY <1>2, <1>3 DEF InCall

-------------------------------------------------------------------------------
(* The micro-batches of a mini-batch.                                      *)

\* CeilDiv does not make a number larger.
LEMMA CeilDivSmaller ==
    ASSUME NEW a \in Nat \ {0}, NEW b \in Nat \ {0}
    PROVE  CeilDiv(a, b) \in 1..a
<1> DEFINE c == CeilDiv(a, b)
           u == (c - 1) * b
<1>1. c \in Nat \ {0} /\ u < a
  BY CeilDivFacts
<1> HIDE DEF c
<1>2. u >= c - 1
  <2>1. \A x \in Nat, y \in Nat \ {0} : x * y >= x
    OBVIOUS
  <2>2. c - 1 \in Nat
    BY <1>1
  <2> QED
    BY <2>1, <2>2
<1>3. u \in Int
  BY <1>1
<1> HIDE DEF u
<1>4. c \in 1..a
  BY <1>1, <1>2, <1>3
<1> QED
  BY <1>4 DEF c

\* A rank that has passed all its micro-batches has passed every row of the
\* mini-batch, and its output has them in their order.
LEMMA ThroughFacts ==
    ASSUME NEW A, NEW r \in Ranks, NEW h \in Seq(A), h = Head(todo[r]), h # <<>>, Through(r)
    PROVE  /\ Output(r) = h
           /\ \A row : (\E i \in DOMAIN out[r] : out[r][i] = row) <=> row \in ToSet(h)
<1> DEFINE m == Len(h)
           P == Plan(r)
           n == Len(P)
           flat == Passed(P, n)
<1>1. m \in Nat \ {0} /\ DOMAIN h = 1..m
  OBVIOUS
<1>2. IsPartition(P, m, n) /\ out[r] = Picked(h, flat)
  BY DEF Through, Planned, Progress
<1>3. conf.dynamic => P = idx[r]
  BY DEF Plan
<1>4. ~conf.dynamic => P = Split([i \in 1..m |-> i], MicroSize)
  BY <1>1 DEF Plan
<1> HIDE DEF P, m
<1>5. n \in Nat /\ P \in Seq(Seq(1..m))
  BY <1>2 DEF IsPartition
<1>6. PICK off : Concatenates(flat, P, n, off, 1..m)
  <2> DEFINE B == 1..m
  <2>1. P \in Seq(Seq(B))
    BY <1>5
  <2> HIDE DEF B
  <2>2. n \in 0..Len(P)
    BY <1>5
  <2>3. \E off : Concatenates(Passed(P, n), P, n, off, B)
    BY <2>1, <2>2, PassedConcatenates
  <2> QED
    BY <2>3 DEF B
<1> HIDE DEF n, flat
<1>7. IsPermutation(flat, m)
  BY <1>1, <1>2, <1>5, <1>6, FlatPermutation
<1>8. /\ flat \in [1..m -> 1..m] /\ Len(flat) = m
      /\ \A j \in 1..m : \E i \in 1..m : flat[i] = j
  <2>1. flat \in [1..m -> 1..m] /\ \A j \in 1..m : \E i \in 1..m : flat[i] = j
    BY <1>7 DEF IsPermutation
  <2>2. flat \in [1..m -> 1..m] /\ DOMAIN flat = 1..m
    BY <2>1
  <2>3. Len(flat) = m
    BY <1>1, <2>2
  <2> QED
    BY <2>1, <2>3
<1>9. DOMAIN out[r] = 1..m /\ \A i \in 1..m : out[r][i] = h[flat[i]]
  BY <1>2, <1>8 DEF Picked
<1>10. \A row : (\E i \in DOMAIN out[r] : out[r][i] = row) <=> row \in ToSet(h)
  <2> TAKE row
  <2>1. ASSUME NEW i \in 1..m, out[r][i] = row PROVE row \in ToSet(h)
    <3>1. flat[i] \in 1..m /\ h[flat[i]] = row
      BY <1>8, <1>9, <2>1
    <3> QED
      BY <1>1, <3>1 DEF ToSet
  <2>2. ASSUME row \in ToSet(h) PROVE \E i \in 1..m : out[r][i] = row
    <3>1. PICK j \in 1..m : h[j] = row
      BY <1>1, <2>2 DEF ToSet
    <3>2. PICK i \in 1..m : flat[i] = j
      BY <1>8
    <3> QED
      BY <1>9, <3>1, <3>2
  <2> QED
    BY <1>9, <2>1, <2>2
<1>11. Output(r) = h
  <2>1. CASE conf.dynamic
    <3>1. Output(r) = Restore(Picked(h, flat), P)
      BY <1>2, <1>3, <2>1 DEF Output
    <3>2. IsPartition(P, Len(h), n) /\ Concatenates(flat, P, n, off, 1..Len(h))
      BY <1>2, <1>6 DEF m
    <3> QED
      BY <1>5, <3>1, <3>2, RestoreInverts
  <2>2. CASE ~conf.dynamic
    <3> DEFINE rows == [i \in 1..m |-> i]
               S == Split(rows, MicroSize)
               c == CeilDiv(m, MicroSize)
    <3>1. MicroSize \in Nat \ {0}
      BY Sizes
    <3>2. Len(S) = c /\ \E o : Concatenates(rows, S, c, o, 1..m)
      BY <1>1, <3>1, SplitPartition
    <3>3. P = S
      BY <1>4, <2>2
    <3> HIDE DEF S, c, rows
    <3>4. PICK o : Concatenates(rows, P, n, o, 1..m)
      BY <3>2, <3>3 DEF n
    <3>5. flat = rows
      BY <1>5, <1>6, <3>4, ConcatenatesUnique
    <3>6. \A i \in 1..m : flat[i] = i
      BY <3>5 DEF rows
    <3>7. out[r] = [i \in 1..m |-> h[i]]
      BY <1>2, <1>8, <3>6 DEF Picked
    <3>8. [i \in 1..m |-> h[i]] = h
      BY <1>1
    <3> QED
      BY <2>2, <3>7, <3>8 DEF Output
  <2> QED
    BY <2>1, <2>2
<1> QED
  BY <1>10, <1>11

\* What is picked at positions one after the other.
LEMMA PickedJoin ==
    ASSUME NEW A, NEW s \in Seq(A), NEW t \in Seq(A), NEW h
    PROVE  Picked(h, s \o t) = Picked(h, s) \o [i \in DOMAIN t |-> h[t[i]]]
<1> DEFINE a == Len(s)
           b == Len(t)
           u == s \o t
           p == Picked(h, s)
           e == [i \in DOMAIN t |-> h[t[i]]]
<1>1. a \in Nat /\ b \in Nat /\ DOMAIN s = 1..a /\ DOMAIN t = 1..b
  OBVIOUS
<1>2. Len(u) = a + b /\ \A i \in 1..(a + b) : u[i] = IF i <= a THEN s[i] ELSE t[i - a]
  OBVIOUS
<1> HIDE DEF u
<1>3. p = [i \in 1..a |-> h[s[i]]] /\ e = [i \in 1..b |-> h[t[i]]]
  BY <1>1 DEF Picked
<1>4. Picked(h, u) = [i \in 1..(a + b) |-> h[u[i]]]
  BY <1>2 DEF Picked
<1> DEFINE V == {h[x] : x \in A}
<1>5. p \in Seq(V) /\ e \in Seq(V) /\ Len(p) = a /\ Len(e) = b
  <2>1. \A i \in 1..a : h[s[i]] \in V
    <3> TAKE i \in 1..a
    <3>1. s[i] \in A
      BY <1>1
    <3> QED
      BY <3>1
  <2>2. \A i \in 1..b : h[t[i]] \in V
    <3> TAKE i \in 1..b
    <3>1. t[i] \in A
      BY <1>1
    <3> QED
      BY <3>1
  <2> HIDE DEF V, p, e
  <2> QED
    BY <1>1, <1>3, <2>1, <2>2
<1> HIDE DEF p, e, V
<1>6. p \o e = [i \in 1..(a + b) |-> IF i <= a THEN p[i] ELSE e[i - a]]
  <2> HIDE DEF a, b
  <2> DEFINE w == p \o e
  <2>1. w \in Seq(V) /\ Len(w) = a + b
    BY <1>1, <1>5
  <2>2. \A i \in 1..(a + b) : w[i] = IF i <= a THEN p[i] ELSE e[i - a]
    BY <1>1, <1>5
  <2> HIDE DEF w
  <2>3. w = [i \in 1..(a + b) |-> w[i]]
    BY <2>1
  <2>4. w = [i \in 1..(a + b) |-> IF i <= a THEN p[i] ELSE e[i - a]]
    BY <2>2, <2>3
  <2> QED
    BY <2>4 DEF w
<1>7. \A i \in 1..(a + b) : h[u[i]] = IF i <= a THEN p[i] ELSE e[i - a]
  <2> TAKE i \in 1..(a + b)
  <2>1. CASE i <= a
    <3>1. i \in 1..a
      BY <1>1, <2>1
    <3> QED
      BY <1>2, <1>3, <2>1, <3>1
  <2>2. CASE ~(i <= a)
    <3>1. i - a \in 1..b
      BY <1>1, <2>2
    <3> QED
      BY <1>2, <1>3, <2>2, <3>1
  <2> QED
    BY <2>1, <2>2
<1>8. [i \in 1..(a + b) |-> h[u[i]]] = [i \in 1..(a + b) |-> IF i <= a THEN p[i] ELSE e[i - a]]
  BY <1>7
<1> QED
  BY <1>4, <1>6, <1>8 DEF u, p, e

\* Rows split evenly are a plan.
LEMMA StaticPlan ==
    ASSUME NEW m \in Nat \ {0}, NEW P, P = Split([i \in 1..m |-> i], MicroSize)
    PROVE  IsPartition(P, m, Len(P)) /\ Len(P) = CeilDiv(m, MicroSize) /\ Len(P) \in 1..m
<1> DEFINE rows == [i \in 1..m |-> i]
<1>1. MicroSize \in Nat \ {0}
  BY Sizes
<1>2. Len(P) = CeilDiv(m, MicroSize) /\ IsPartition(P, m, CeilDiv(m, MicroSize))
  BY <1>1, SplitPartition
<1>3. CeilDiv(m, MicroSize) \in 1..m
  BY <1>1, CeilDivSmaller
<1> QED
  BY <1>2, <1>3

\* A plan before its first micro-batch.
LEMMA PlanBegins ==
    ASSUME NEW B, NEW P \in Seq(Seq(B))
    PROVE  /\ P = SubSeq(P, 0 + 1, Len(P))
           /\ \A h : Picked(h, Passed(P, 0)) = <<>>
<1>1. P = SubSeq(P, 0 + 1, Len(P))
  <2> DEFINE D == Seq(B)
  <2>1. P \in Seq(D)
    OBVIOUS
  <2> HIDE DEF D
  <2>2. Evaluated(P) = P
    BY <2>1, EvaluatedIsSame
  <2> QED
    BY <2>2 DEF Evaluated
<1>2. Passed(P, 0) = <<>>
  <2>1. SubSeq(P, 1, 0) = <<>>
    OBVIOUS
  <2> QED
    BY <2>1 DEF Passed, FlattenSeq
<1>3. \A h : Picked(h, <<>>) = <<>>
  BY DEF Picked
<1> QED
  BY <1>1, <1>2, <1>3

\* A rank before its next micro-batch, and what a pass makes of it.
InProgress(r, n, p) ==
    /\ n \in Nat /\ Len(micro[r]) = n - p
    /\ micro[r] = <<>> <=> p = n
    /\ \A k \in DOMAIN micro[r] : p + k \in 1..n /\ micro[r][k] = Plan(r)[p + k] /\ micro[r][k] # <<>>
    /\ p + 1 = n => Tail(micro[r]) = <<>>
    /\ p < n =>
          /\ Tail(micro[r]) = SubSeq(Plan(r), (p + 1) + 1, Len(Plan(r)))
          /\ out[r] \o [i \in DOMAIN Head(micro[r]) |-> Head(todo[r])[Head(micro[r])[i]]]
                 = Picked(Head(todo[r]), Passed(Plan(r), p + 1))

LEMMA ProgressFacts ==
    ASSUME NEW r \in Ranks, Planned(r), NEW n, n = Len(Plan(r)),
           NEW p \in Nat, p <= n, Progress(r, p)
    PROVE  InProgress(r, n, p)
<1> DEFINE P == Plan(r)
           h == Head(todo[r])
           B == 1..Len(h)
           s == micro[r]
           D == Seq(B)
<1>1. P \in Seq(Seq(B)) /\ n = Len(P) /\ \A i \in 1..n : P[i] # <<>>
  BY DEF Planned, IsPartition
<1>2. s = SubSeq(P, p + 1, Len(P)) /\ out[r] = Picked(h, Passed(P, p))
  BY DEF Progress
<1> HIDE DEF P, h, B, s
<1>3. n \in Nat /\ p \in 0..Len(P) /\ P \in Seq(D)
  BY <1>1
<1> HIDE DEF D
<1>4. /\ s \in Seq(D) /\ Len(s) = Len(P) - p
      /\ s = <<>> <=> p = Len(P)
      /\ p < Len(P) => /\ Head(s) = P[p + 1] /\ P[p + 1] \in D
                       /\ Tail(s) = SubSeq(P, (p + 1) + 1, Len(P))
  <2>1. P \in Seq(D) /\ p \in 0..Len(P) /\ s = SubSeq(P, p + 1, Len(P))
    BY <1>2, <1>3
  <2>2. IsRest(s, P, p, D)
    BY ONLY <2>1, RestFacts
  <2> QED
    BY <2>2 DEF IsRest
<1>5. ASSUME NEW k \in DOMAIN s PROVE p + k \in 1..n /\ s[k] = P[p + k] /\ s[k] # <<>>
  <2>1. k \in 1..(n - p)
    BY <1>1, <1>4
  <2>2. p + k \in 1..n
    BY <1>3, <2>1
  <2>3. s[k] = P[p + k]
    <3>1. (p + 1) + k - 1 = p + k
      BY <1>3, <2>1
    <3>2. s[k] = P[(p + 1) + k - 1]
      BY <1>1, <1>2, <1>3, <2>1
    <3> QED
      BY <3>1, <3>2
  <2> QED
    BY <1>1, <2>2, <2>3
<1>6. ASSUME p < n
      PROVE  out[r] \o [i \in DOMAIN Head(s) |-> h[Head(s)[i]]] = Picked(h, Passed(P, p + 1))
  <2>1. P \in Seq(Seq(B)) /\ p < Len(P)
    BY <1>1, <1>6
  <2>2. /\ Passed(P, p + 1) = Passed(P, p) \o P[p + 1]
        /\ Passed(P, p) \in Seq(B) /\ P[p + 1] \in Seq(B)
    BY <2>1, PassedOne
  <2> DEFINE u == Passed(P, p)
             t == P[p + 1]
  <2>3. Head(s) = t
    BY <1>4, <2>1
  <2>4. u \in Seq(B) /\ t \in Seq(B)
    BY <2>2
  <2> HIDE DEF u, t
  <2>5. Picked(h, u \o t) = Picked(h, u) \o [i \in DOMAIN t |-> h[t[i]]]
    BY <2>4, PickedJoin
  <2> QED
    BY <1>2, <2>2, <2>3, <2>5 DEF u, t
<1>7. ASSUME p + 1 = n PROVE Tail(s) = <<>>
  <2>1. Len(s) = 1 /\ s \in Seq(D)
    BY <1>1, <1>3, <1>4, <1>7
  <2>2. s # <<>>
    BY <2>1
  <2>3. Tail(s) \in Seq(D) /\ Len(Tail(s)) = 0
    BY ONLY <2>1, <2>2
  <2> DEFINE w == Tail(s)
  <2>4. w \in Seq(D) /\ Len(w) = 0
    BY <2>3
  <2> HIDE DEF w
  <2>5. w = <<>>
    BY ONLY <2>4
  <2> QED
    BY <2>5 DEF w
<1> QED
  BY <1>1, <1>3, <1>4, <1>5, <1>6, <1>7 DEF InProgress, P, h, s

-------------------------------------------------------------------------------
(* The invariant holds at the beginning and in the driver's steps.         *)

LEMMA InitInv == Init => IInv
<1> SUFFICES ASSUME Init PROVE IInv
  OBVIOUS
<1>1. Rows \in Nat \ {0} /\ PpoEpochs \in Nat \ {0}
  BY Sizes
<1>2. TypeInv
  BY <1>1 DEF Init, TypeInv, Places
<1>3. OrderInv
  BY DEF Init, OrderInv, IsPermutation
<1>4. WorkInv
  BY DEF Init, WorkInv
<1>5. CallInv
  BY DEF Init, CallInv, InCall
<1>6. ResultsInv /\ EpochsCoverBatch
  BY DEF Init, ResultsInv, EpochsCoverBatch
<1> QED
  BY <1>2, <1>3, <1>4, <1>5, <1>6 DEF IInv

\* The batch in the order of _balance_batch.
LEMMA BalancedBatch ==
    ASSUME lens \in [1..Rows -> Lengths], NEW k, k = DpSize * SpSize, Rows % k = 0
    PROVE  /\ IsPermutation(BalancedOrder(lens, k), Rows)
           /\ Longest - Shortest \in Nat
           /\ \E c \in Nat \ {0} : Rows = c * k /\ IsBalanced(BalancedOrder(lens, k), lens, k, c, Longest - Shortest)
<1> DEFINE c == Rows \div k
           d == Longest - Shortest
           flat == BalancedOrder(lens, k)
<1>1. k \in Nat \ {0} /\ Rows \in Nat \ {0}
  BY Sizes
<1>2. c \in Nat \ {0} /\ Rows = c * k
  <2>1. Rows = k * c + (Rows % k) /\ c \in Nat
    BY <1>1
  <2> HIDE DEF c
  <2>2. Rows = k * c
    <3> DEFINE u == k * c
    <3>1. u \in Int
      BY <1>1, <2>1
    <3>2. Rows = u + (Rows % k)
      BY <2>1
    <3> HIDE DEF u
    <3>3. Rows = u
      BY <3>1, <3>2
    <3> QED
      BY <3>3 DEF u
  <2>3. c = 0 => k * c = 0
    BY <1>1
  <2>4. k * c = c * k
    BY <1>1, <2>1
  <2> QED
    BY <1>1, <2>1, <2>2, <2>3, <2>4
<1>3. /\ IsLengths(lens) /\ Len(lens) = Rows
      /\ Longest \in Nat \ {0} /\ Shortest \in Nat \ {0}
      /\ \A i \in 1..Rows : lens[i] \in Nat \ {0} /\ lens[i] <= Longest /\ Shortest <= lens[i]
  BY LensFacts
<1>4. d \in Nat
  <2>1. 1 \in 1..Rows
    BY <1>1
  <2>2. lens[1] \in Nat /\ lens[1] <= Longest /\ Shortest <= lens[1]
    BY <1>3, <2>1
  <2> QED
    BY <1>3, <2>2
<1>5. PICK even \in BOOLEAN : even
  OBVIOUS
<1>6. Bounds(d, lens, even)
  <2>1. \A x, y \in 1..Rows : lens[x] - lens[y] <= d
    <3> TAKE x, y \in 1..Rows
    <3>1. lens[x] \in Nat /\ lens[x] <= Longest /\ lens[y] \in Nat /\ Shortest <= lens[y]
      BY <1>3
    <3> QED
      BY <1>3, <3>1
  <2> QED
    BY <1>3, <1>4, <1>5, <2>1 DEF Bounds
<1> HIDE DEF c, d, flat
<1>7. IsBalanced(flat, lens, k, c, d)
  <2>1. IsLengths(lens) /\ Len(lens) = c * k
    BY <1>2, <1>3
  <2> QED
    BY <1>1, <1>2, <1>5, <1>6, <2>1, BalancedOrderFacts DEF flat
<1>8. IsPermutation(flat, Rows)
  BY <1>3, <1>7 DEF IsBalanced
<1> QED
  BY <1>2, <1>4, <1>7, <1>8 DEF d, flat

LEMMA BalanceInv ==
    ASSUME IInv, Balance
    PROVE  IInv'
<1> DEFINE k == DpSize * SpSize
<1>1. TypeInv /\ OrderInv /\ WorkInv /\ CallInv /\ pc = "balance"
  BY DEF IInv, Balance
<1>2. /\ lens' = lens /\ conf' = conf /\ at' = at /\ todo' = todo /\ count' = count /\ micro' = micro
      /\ idx' = idx /\ out' = out /\ results' = results /\ trained' = trained
  BY DEF Balance, callVars
<1>3. \/ pc' = "raised" /\ order' = order
      \/ pc' = "compute" /\ (conf.balance => Rows % k = 0 /\ order' = BalancedOrder(lens, k))
                         /\ (~conf.balance => order' = order)
  BY DEF Balance
<1> HIDE DEF k
<1>4. IsPermutation(order, Rows) /\ lens \in [1..Rows -> Lengths]
  BY <1>1 DEF OrderInv, TypeInv
<1>5. IsPermutation(order', Rows)
  <2>1. CASE order' = order
    BY <1>4, <2>1
  <2>2. CASE Rows % k = 0 /\ order' = BalancedOrder(lens, k)
    <3>1. IsPermutation(BalancedOrder(lens, k), Rows)
      BY <1>4, <2>2, BalancedBatch DEF k
    <3> QED
      BY <2>2, <3>1
  <2>3. order' = order \/ (Rows % k = 0 /\ order' = BalancedOrder(lens, k))
    BY <1>3
  <2> QED
    BY <2>1, <2>2, <2>3
<1>6. OrderInv'
  BY <1>2, <1>3, <1>5 DEF OrderInv, IsPermutation, k
<1>7. TypeInv'
  BY <1>1, <1>2, <1>3, <1>5 DEF TypeInv, IsPermutation
<1>8. WorkInv'
  BY <1>1, <1>2, <1>3 DEF WorkInv
<1>9. CallInv'
  <2>1. \A r \in Ranks : at[r] = "done" /\ micro[r] = <<>>
    BY <1>1 DEF CallInv, InCall
  <2>2. ~(pc' \in {"computing", "updating"})
    BY <1>3
  <2> QED
    BY <1>2, <2>1, <2>2 DEF CallInv, InCall
<1>10. ResultsInv' /\ EpochsCoverBatch'
  BY <1>3 DEF ResultsInv, EpochsCoverBatch
<1> QED
  BY <1>6, <1>7, <1>8, <1>9, <1>10 DEF IInv

\* A call begins with every rank before its first mini-batch.
LEMMA CallBegins ==
    ASSUME pc' \in {"computing", "updating"}, at' = [r \in Ranks |-> "start"],
           \A r \in Ranks : micro'[r] = <<>>, \A r \in Ranks : todo'[r] # <<>>
    PROVE  CallInv'
<1>1. Gathering'
  BY DEF Gathering
<1>2. InCall'
  BY DEF InCall
<1> QED
  BY <1>1, <1>2 DEF CallInv

LEMMA ComputeInv ==
    ASSUME IInv, Compute
    PROVE  IInv'
<1> DEFINE work == [r \in Ranks |-> <<Chunk(order, DpRank(r))>>]
<1>1. TypeInv /\ OrderInv /\ WorkInv /\ CallInv /\ pc = "compute"
  BY DEF IInv, Compute
<1>2. lens' = lens /\ conf' = conf /\ order' = order /\ results' = results /\ trained' = trained
  BY DEF Compute
<1>3. IsPermutation(order, Rows) /\ Rows \in Nat \ {0}
  BY <1>1, Sizes DEF OrderInv
<1>4. Len(order) = Rows
  <2>1. order \in [1..Rows -> 1..Rows]
    BY <1>3 DEF IsPermutation
  <2> QED
    BY <1>3, <2>1
<1>5. \A r \in Ranks : at[r] = "done" /\ micro[r] = <<>>
  BY <1>1 DEF CallInv, InCall
<1>6. CASE Rows % DpSize = 0
  <2>1. /\ pc' = "computing" /\ todo' = work /\ at' = [r \in Ranks |-> "start"]
        /\ count' = count /\ micro' = micro /\ idx' = idx /\ out' = out
    BY <1>4, <1>6 DEF Compute, Call
  <2>2. \A r \in Ranks : todo'[r] = <<Chunk(order, DpRank(r))>>
    BY <2>1
  <2>3. TypeInv'
    BY <1>1, <1>2, <2>1 DEF TypeInv, Places
  <2>4. OrderInv'
    BY <1>1, <1>2, <2>1 DEF OrderInv, IsPermutation
  <2>5. WorkInv'
    <3>1. \A r \in Ranks : todo'[r] = <<Chunk(order, DpRank(r))>>'
      BY <1>2, <2>2 DEF Chunk
    <3>2. \A row \in 1..Rows : trained'[row] = 0
      BY <1>1, <1>2 DEF WorkInv
    <3> QED
      BY <1>6, <2>1, <3>1, <3>2 DEF WorkInv
  <2>6. CallInv'
    <3>1. \A r \in Ranks : todo'[r] # <<>>
      BY <2>2
    <3>2. \A r \in Ranks : micro'[r] = <<>>
      BY <1>5, <2>1
    <3> QED
      BY <2>1, <3>1, <3>2, CallBegins
  <2>7. ResultsInv' /\ EpochsCoverBatch'
    BY <2>1 DEF ResultsInv, EpochsCoverBatch
  <2> QED
    BY <2>3, <2>4, <2>5, <2>6, <2>7 DEF IInv
<1>7. CASE Rows % DpSize # 0
  <2>1. pc' = "raised" /\ at' = at /\ todo' = todo /\ count' = count /\ micro' = micro
            /\ idx' = idx /\ out' = out
    BY <1>4, <1>7 DEF Compute, Call, callVars
  <2>2. TypeInv' /\ OrderInv' /\ WorkInv'
    BY <1>1, <1>2, <2>1 DEF TypeInv, OrderInv, WorkInv, IsPermutation
  <2>3. CallInv'
    BY <1>5, <2>1 DEF CallInv, InCall
  <2>4. ResultsInv' /\ EpochsCoverBatch'
    BY <2>1 DEF ResultsInv, EpochsCoverBatch
  <2> QED
    BY <2>2, <2>3, <2>4 DEF IInv
<1> QED
  BY <1>6, <1>7

\* The stage of an update does not depend on the rest of the state.
LEMMA StageKept ==
    ASSUME order' = order, todo' = todo, trained' = trained, NEW n, NEW t, Stage(n, t)
    PROVE  Stage(n, t)'
<1>1. \A r : Work(n, r)' = Work(n, r)
  BY DEF Work, Chunk
<1>2. \A row : Taken(n, row, t)' = Taken(n, row, t)
  BY <1>1 DEF Taken
<1> QED
  BY <1>1, <1>2 DEF Stage

LEMMA UpdateInv ==
    ASSUME IInv, Update
    PROVE  IInv'
<1>1. TypeInv /\ OrderInv /\ WorkInv /\ CallInv /\ ResultsInv /\ pc = "update"
  BY DEF IInv, Update
<1>2. lens' = lens /\ conf' = conf /\ order' = order /\ results' = results /\ trained' = trained
  BY DEF Update
<1>3. IsPermutation(order, Rows) /\ Rows \in Nat \ {0}
  BY <1>1, Sizes DEF OrderInv
<1>4. PICK n \in TrainedSizes :
          Call("updating", SubSeq(order, 1, n), [r \in Ranks |->
                    Repeated(Split(Chunk(SubSeq(order, 1, n), DpRank(r)), MiniSize), PpoEpochs)])
  BY DEF Update
<1> DEFINE work == [r \in Ranks |-> Work(n, r)]
<1>5. Call("updating", SubSeq(order, 1, n), work)
  BY <1>4 DEF Work
<1>6. n \in 1..Rows
  BY Sizes
<1>7. Len(SubSeq(order, 1, n)) = n
  <2> DEFINE A == 1..Rows
  <2>1. order \in [1..Rows -> A]
    BY <1>3 DEF IsPermutation
  <2> HIDE DEF A
  <2>2. order \in Seq(A) /\ Len(order) = Rows
    BY <1>3, <2>1
  <2> QED
    BY <1>3, <1>6, <2>2
<1>8. \A r \in Ranks : at[r] = "done" /\ micro[r] = <<>>
  BY <1>1 DEF CallInv, InCall
<1>9. ResultsInv'
  BY <1>1, <1>2 DEF ResultsInv
<1> HIDE DEF work
<1>10. CASE n % DpSize = 0
  <2>1. /\ pc' = "updating" /\ todo' = work /\ at' = [r \in Ranks |-> "start"]
        /\ count' = count /\ micro' = micro /\ idx' = idx /\ out' = out
    BY <1>5, <1>7, <1>10 DEF Call
  <2>2. DOMAIN work = Ranks /\ \A r \in Ranks : todo'[r] = Work(n, r)
    BY <2>1 DEF work
  <2> DEFINE q == n \div DpSize
             B == CeilDiv(q, MiniSize)
             A == Seq(1..Rows)
  <2>3. IsUpdate(n, q, B)
    BY <1>3, <1>10, UpdateFacts
  <2>4. IsWork(n, B)
    BY <1>3, <1>10, WorkFacts
  <2> HIDE DEF q, B
  <2>5. \A r \in Ranks : Work(n, r) \in Seq(A) /\ Len(Work(n, r)) = PpoEpochs * B
    BY <2>4 DEF IsWork
  <2>6. PpoEpochs * B \in Nat \ {0}
    <3>1. \A x, y \in Nat \ {0} : x * y \in Nat \ {0}
      OBVIOUS
    <3>2. PpoEpochs \in Nat \ {0} /\ B \in Nat \ {0}
      BY <2>3, Sizes DEF IsUpdate
    <3> QED
      BY <3>1, <3>2
  <2> HIDE DEF A
  <2>7. \A r \in Ranks : /\ Work(n, r) # <<>>
                         /\ Work(n, r) = SubSeq(Work(n, r), 0 + 1, Len(Work(n, r)))
                         /\ 0 <= Len(Work(n, r))
    <3> TAKE r \in Ranks
    <3> DEFINE W == Work(n, r)
               T == PpoEpochs * B
    <3>1. W \in Seq(A) /\ Len(W) = T /\ T \in Nat \ {0}
      BY <2>5, <2>6
    <3> HIDE DEF W, T
    <3>2. Evaluated(W) = W
      BY <3>1, EvaluatedIsSame
    <3>3. W # <<>> /\ W = SubSeq(W, 0 + 1, Len(W)) /\ 0 <= Len(W)
      BY <3>1, <3>2 DEF Evaluated
    <3> QED
      BY <3>3 DEF W
  <2>8. Stage(n, 0)'
    <3>1. \A r : Work(n, r)' = Work(n, r)
      BY <1>2 DEF Work, Chunk
    <3>2. \A row \in 1..Rows : trained'[row] = 0
      BY <1>1, <1>2 DEF WorkInv
    <3>3. \A row \in 1..Rows : Taken(n, row, 0)' = {}
      BY DEF Taken
    <3>4. Cardinality({}) = 0
      BY FS_EmptySet
    <3> QED
      BY <2>2, <2>7, <3>1, <3>2, <3>3, <3>4 DEF Stage
  <2>9. TypeInv'
    BY <1>1, <1>2, <2>1, <2>2 DEF TypeInv, Places
  <2>10. OrderInv'
    BY <1>1, <1>2, <2>1 DEF OrderInv, IsPermutation
  <2>11. WorkInv'
    <3>1. 0 \in 0..(PpoEpochs * Rows)
      <4>1. \A x, y \in Nat : x * y \in Nat
        OBVIOUS
      <4>2. PpoEpochs \in Nat /\ Rows \in Nat
        BY Sizes
      <4> QED
        BY <4>1, <4>2
    <3> QED
      BY <1>10, <2>1, <2>8, <3>1 DEF WorkInv
  <2>12. CallInv'
    <3>1. \A r \in Ranks : todo'[r] # <<>>
      BY <2>2, <2>7
    <3>2. \A r \in Ranks : micro'[r] = <<>>
      BY <1>8, <2>1
    <3> QED
      BY <2>1, <3>1, <3>2, CallBegins
  <2>13. EpochsCoverBatch'
    BY <2>1 DEF EpochsCoverBatch
  <2> QED
    BY <1>9, <2>9, <2>10, <2>11, <2>12, <2>13 DEF IInv
<1>11. CASE n % DpSize # 0
  <2>1. pc' = "raised" /\ at' = at /\ todo' = todo /\ count' = count /\ micro' = micro
            /\ idx' = idx /\ out' = out
    BY <1>5, <1>7, <1>11 DEF Call, callVars
  <2>2. TypeInv' /\ OrderInv' /\ WorkInv'
    BY <1>1, <1>2, <2>1 DEF TypeInv, OrderInv, WorkInv, IsPermutation
  <2>3. CallInv'
    BY <1>8, <2>1 DEF CallInv, InCall
  <2>4. EpochsCoverBatch'
    BY <2>1 DEF EpochsCoverBatch
  <2> QED
    BY <1>9, <2>2, <2>3, <2>4 DEF IInv
<1> QED
  BY <1>10, <1>11

\* The chunks of a batch one after the other are the batch.
LEMMA ChunksConcatenate ==
    ASSUME NEW A, NEW rows \in Seq(A), Len(rows) % DpSize = 0, rows # <<>>,
           NEW seqs, seqs = [i \in 1..DpSize |-> Chunk(rows, i - 1)]
    PROVE  FlattenSeq(seqs) = rows
<1> DEFINE q == Len(rows) \div DpSize
           m == Len(rows)
           flat == FlattenSeq(seqs)
<1>1. DpSize \in Nat \ {0} /\ m \in Nat \ {0}
  BY Sizes
<1>2. IsChunked(rows, q, A)
  BY ChunkFacts
<1> HIDE DEF q, m
<1>3. /\ q \in Nat /\ m = DpSize * q
      /\ \A g \in 0..(DpSize - 1) :
            /\ Chunk(rows, g) \in Seq(A) /\ Len(Chunk(rows, g)) = q
            /\ \A x \in 1..q : g * q + x \in 1..m /\ Chunk(rows, g)[x] = rows[g * q + x]
  BY <1>2 DEF IsChunked, m
<1>4. q \in Nat \ {0}
  <2>1. q = 0 => DpSize * q = 0
    BY <1>1
  <2> QED
    BY <1>1, <1>3, <2>1
<1>5. \A i \in 1..DpSize : /\ seqs[i] \in Seq(A) /\ Len(seqs[i]) = q
                           /\ \A x \in 1..q : seqs[i][x] = rows[(i - 1) * q + x]
  <2> TAKE i \in 1..DpSize
  <2> DEFINE g == i - 1
  <2>1. g \in 0..(DpSize - 1) /\ seqs[i] = Chunk(rows, g)
    BY <1>1
  <2> HIDE DEF g
  <2>2. seqs[i] \in Seq(A) /\ Len(seqs[i]) = q /\ \A x \in 1..q : seqs[i][x] = rows[g * q + x]
    BY <1>3, <2>1
  <2> QED
    BY <2>2 DEF g
<1>6. seqs \in Seq(Seq(A)) /\ Len(seqs) = DpSize
  <2> DEFINE D == Seq(A)
  <2>1. \A i \in 1..DpSize : seqs[i] \in D
    BY <1>5
  <2> HIDE DEF D
  <2>2. seqs \in [1..DpSize -> D]
    BY <2>1
  <2>3. seqs \in Seq(D) /\ Len(seqs) = DpSize
    BY <1>1, <2>2
  <2> QED
    BY <2>3 DEF D
<1>7. PICK off : Concatenates(flat, seqs, DpSize, off, A)
  BY <1>6, FlattenConcatenates
<1> HIDE DEF flat
<1>8. \A i \in 1..(DpSize + 1) : off[i] = (i - 1) * q
  <2>1. DpSize \in Nat /\ q \in Nat /\ \A i \in 1..DpSize : Len(seqs[i]) = q
    BY <1>1, <1>3, <1>5
  <2> QED
    BY ONLY <1>7, <2>1, EvenOffsets
<1>9. flat \in Seq(A) /\ Len(flat) = off[DpSize + 1]
      /\ \A i \in 1..DpSize : \A x \in 1..Len(seqs[i]) : flat[off[i] + x] = seqs[i][x]
  BY <1>7 DEF Concatenates
<1>10. Len(flat) = m
  <2>1. DpSize + 1 \in 1..(DpSize + 1) /\ (DpSize + 1) - 1 = DpSize
    BY <1>1
  <2> QED
    BY <1>3, <1>8, <1>9, <2>1
<1>11. \A i \in 1..DpSize : \A x \in 1..q : flat[(i - 1) * q + x] = rows[(i - 1) * q + x]
  <2> TAKE i \in 1..DpSize
  <2> TAKE x \in 1..q
  <2>1. off[i] = (i - 1) * q
    BY <1>1, <1>8
  <2>2. flat[off[i] + x] = seqs[i][x] /\ seqs[i][x] = rows[(i - 1) * q + x]
    BY <1>5, <1>9
  <2> QED
    BY <2>1, <2>2
<1>12. ASSUME NEW z \in 1..m PROVE flat[z] = rows[z]
  <2>1. \A y \in 1..(DpSize * q) : \E g \in 1..DpSize : \E x \in 1..q : y = (g - 1) * q + x
    <3>1. DpSize \in Nat /\ q \in Nat \ {0}
      BY <1>1, <1>4
    <3> QED
      BY ONLY <3>1, Blocks
  <2>2. PICK g \in 1..DpSize : \E x \in 1..q : z = (g - 1) * q + x
    BY <1>3, <2>1
  <2>3. PICK x \in 1..q : z = (g - 1) * q + x
    BY <2>2
  <2> QED
    BY <1>11, <2>3
<1>13. rows \in Seq(A) /\ Len(rows) = m
  BY DEF m
<1>14. rows = [z \in 1..m |-> rows[z]] /\ flat = [z \in 1..m |-> flat[z]]
  BY <1>9, <1>10, <1>13
<1>15. [z \in 1..m |-> flat[z]] = [z \in 1..m |-> rows[z]]
  BY <1>12
<1> QED
  BY <1>14, <1>15 DEF flat

\* The column that is collected is the batch in its order.
LEMMA CollectedIsOrder ==
    ASSUME IsPermutation(order, Rows), WorkInv, pc = "computing",
           \A r \in Ranks : Through(r)
    PROVE  FlattenSeq([i \in 1..DpSize |->
                    Output(CHOOSE r \in Ranks : CollectMask(r) /\ DpRank(r) = i - 1)]) = order
<1> DEFINE A == 1..Rows
           seqs == [i \in 1..DpSize |-> Chunk(order, i - 1)]
           rank(g) == CHOOSE r \in Ranks : CollectMask(r) /\ DpRank(r) = g
<1>1. Rows \in Nat \ {0} /\ DpSize \in Nat \ {0}
  BY Sizes
<1>2. Rows % DpSize = 0 /\ \A r \in Ranks : todo[r] = <<Chunk(order, DpRank(r))>>
  BY DEF WorkInv
<1>3. order \in Seq(A) /\ Len(order) = Rows /\ order # <<>>
  <2>1. order \in [1..Rows -> A]
    BY DEF IsPermutation
  <2> HIDE DEF A
  <2>2. order \in Seq(A) /\ Len(order) = Rows
    BY <1>1, <2>1
  <2> QED
    BY <1>1, <2>2
<1>4. \E l \in 1..Rows : HeadsAlike(l)
  BY TodoFacts DEF InCall
<1> HIDE DEF A
<1>5. ASSUME NEW g \in 0..(DpSize - 1) PROVE Output(rank(g)) = Chunk(order, g)
  <2> DEFINE r == rank(g)
  <2>1. r \in Ranks /\ DpRank(r) = g
    <3>1. g * SpSize \in Ranks /\ CollectMask(g * SpSize) /\ DpRank(g * SpSize) = g
      BY RankFacts
    <3> QED
      BY <3>1
  <2> HIDE DEF r
  <2> DEFINE h == Chunk(order, g)
  <2>2. todo[r] = <<h>>
    BY <1>2, <2>1
  <2> HIDE DEF h
  <2>3. Head(todo[r]) = h /\ todo[r] # <<>>
    BY <2>2
  <2>4. h \in Seq(A) /\ h # <<>>
    BY <1>4, <2>1, <2>3 DEF HeadsAlike, A
  <2>5. Output(r) = h
    BY <2>1, <2>3, <2>4, ThroughFacts
  <2> QED
    BY <2>5 DEF h, r
<1>6. \A i \in 1..DpSize : Output(rank(i - 1)) = Chunk(order, i - 1)
  <2> TAKE i \in 1..DpSize
  <2>1. i - 1 \in 0..(DpSize - 1)
    BY <1>1
  <2> QED
    BY <1>5, <2>1
<1> HIDE DEF rank
<1>7. [i \in 1..DpSize |-> Output(rank(i - 1))] = seqs
  BY <1>6
<1>8. FlattenSeq(seqs) = order
  BY <1>2, <1>3, ChunksConcatenate
<1> HIDE DEF seqs
<1>9. FlattenSeq([i \in 1..DpSize |-> Output(rank(i - 1))]) = order
  BY <1>7, <1>8
<1> QED
  BY <1>9 DEF rank

LEMMA CollectResultsInv ==
    ASSUME IInv, CollectResults
    PROVE  IInv'
<1>1. TypeInv /\ OrderInv /\ WorkInv /\ CallInv /\ pc = "computing" /\ AllDone
  BY DEF IInv, CollectResults
<1>2. /\ lens' = lens /\ conf' = conf /\ order' = order /\ trained' = trained /\ pc' = "update"
      /\ at' = at /\ todo' = todo /\ count' = count /\ micro' = micro /\ idx' = idx /\ out' = out
      /\ results' = FlattenSeq([i \in 1..DpSize |->
                    Output(CHOOSE r \in Ranks : CollectMask(r) /\ DpRank(r) = i - 1)])
  BY DEF CollectResults, callVars
<1>3. Finished
  <2>1. Gathering \/ Passing \/ Stepping \/ Finished
    BY <1>1 DEF CallInv, InCall
  <2>2. 0 \in Ranks /\ at[0] = "done"
    BY <1>1, RankFacts DEF AllDone
  <2>3. ~Gathering
    BY <2>2 DEF Gathering
  <2>4. ~Passing
    BY <2>2 DEF Passing
  <2>5. ~Stepping
    BY <1>1 DEF Stepping
  <2> QED
    BY <2>1, <2>3, <2>4, <2>5
<1>4. \A r \in Ranks : at[r] = "done" /\ micro[r] = <<>> /\ Through(r)
  BY <1>1, <1>3 DEF Finished
<1>5. results' = order
  <2>1. IsPermutation(order, Rows)
    BY <1>1 DEF OrderInv
  <2> QED
    BY <1>1, <1>2, <1>4, <2>1, CollectedIsOrder
<1>6. TypeInv' /\ OrderInv' /\ WorkInv'
  BY <1>1, <1>2 DEF TypeInv, OrderInv, WorkInv, IsPermutation
<1>7. CallInv'
  BY <1>2, <1>4 DEF CallInv, InCall
<1>8. ResultsInv' /\ EpochsCoverBatch'
  BY <1>2, <1>5 DEF ResultsInv, EpochsCoverBatch
<1> QED
  BY <1>6, <1>7, <1>8 DEF IInv

LEMMA CollectMetricsInv ==
    ASSUME IInv, CollectMetrics
    PROVE  IInv'
<1>1. TypeInv /\ OrderInv /\ WorkInv /\ CallInv /\ ResultsInv /\ pc = "updating" /\ AllDone
  BY DEF IInv, CollectMetrics
<1>2. /\ lens' = lens /\ conf' = conf /\ order' = order /\ trained' = trained /\ pc' = "done"
      /\ at' = at /\ todo' = todo /\ count' = count /\ micro' = micro /\ idx' = idx /\ out' = out
      /\ results' = results
  BY DEF CollectMetrics, callVars
<1>3. Finished
  <2>1. Gathering \/ Passing \/ Stepping \/ Finished
    BY <1>1 DEF CallInv, InCall
  <2>2. 0 \in Ranks /\ at[0] = "done"
    BY <1>1, RankFacts DEF AllDone
  <2>3. ~Gathering
    BY <2>2 DEF Gathering
  <2>4. ~Passing
    BY <2>2 DEF Passing
  <2>5. ~Stepping
    BY <2>2 DEF Stepping
  <2> QED
    BY <2>1, <2>3, <2>4, <2>5
<1>4. \A r \in Ranks : at[r] = "done" /\ micro[r] = <<>> /\ todo[r] = <<>>
  BY <1>1, <1>3 DEF Finished
<1>5. IsPermutation(order, Rows)
  BY <1>1 DEF OrderInv
<1>6. PICK n \in TrainedSizes : n % DpSize = 0 /\ \E t \in 0..(PpoEpochs * Rows) : Stage(n, t)
  BY <1>1 DEF WorkInv
<1>7. PICK t \in 0..(PpoEpochs * Rows) : Stage(n, t)
  BY <1>6
<1> DEFINE B == CeilDiv(n \div DpSize, MiniSize)
<1>8. t = PpoEpochs * B
  <2>1. \A r \in Ranks : todo[r] = <<>> <=> t = PpoEpochs * B
    BY <1>5, <1>6, <1>7, StageFacts
  <2> QED
    BY <1>4, <2>1, RankFacts
<1>9. \A i \in 1..Rows : trained[order[i]] = IF i <= n THEN PpoEpochs ELSE 0
  <2> TAKE i \in 1..Rows
  <2>1. trained[order[i]] = Cardinality(Taken(n, order[i], t))
    BY <1>5, <1>7 DEF Stage, IsPermutation
  <2>2. /\ i <= n => Cardinality(Taken(n, order[i], PpoEpochs * B)) = PpoEpochs
        /\ i > n => Cardinality(Taken(n, order[i], PpoEpochs * B)) = 0
    BY <1>5, <1>6, TakenFacts
  <2>3. n \in Nat /\ i \in Nat
    BY Sizes
  <2>4. i <= n \/ i > n
    BY <2>3
  <2> QED
    BY <1>8, <2>1, <2>2, <2>3, <2>4
<1>10. EpochsCoverBatch'
  BY <1>2, <1>9 DEF EpochsCoverBatch
<1>11. TypeInv' /\ OrderInv' /\ WorkInv'
  BY <1>1, <1>2 DEF TypeInv, OrderInv, WorkInv, IsPermutation
<1>12. CallInv'
  BY <1>2, <1>4 DEF CallInv, InCall
<1>13. ResultsInv'
  BY <1>1, <1>2 DEF ResultsInv
<1> QED
  BY <1>10, <1>11, <1>12, <1>13 DEF IInv

-------------------------------------------------------------------------------
(* The ranks' steps.                                                       *)

\* What a step of the ranks leaves alone that takes up no mini-batch.
LEMMA Framed ==
    ASSUME IInv, lens' = lens, conf' = conf, pc' = pc, order' = order, todo' = todo,
           results' = results, trained' = trained, at' \in [Ranks -> Places],
           DOMAIN count' = Ranks, DOMAIN micro' = Ranks, DOMAIN idx' = Ranks, DOMAIN out' = Ranks
    PROVE  TypeInv' /\ OrderInv' /\ WorkInv' /\ ResultsInv' /\ EpochsCoverBatch'
<1>1. TypeInv /\ OrderInv /\ WorkInv /\ ResultsInv /\ EpochsCoverBatch
  BY DEF IInv
<1>2. TypeInv'
  BY <1>1 DEF TypeInv
<1>3. OrderInv'
  BY <1>1 DEF OrderInv, IsPermutation
<1>4. ResultsInv' /\ EpochsCoverBatch'
  BY <1>1 DEF ResultsInv, EpochsCoverBatch
<1>5. WorkInv'
  <2>1. pc = "computing" =>
            Rows % DpSize = 0 /\ \A r \in Ranks : todo'[r] = <<Chunk(order, DpRank(r))>>'
    BY <1>1 DEF WorkInv, Chunk
  <2>2. pc \in {"balance", "compute", "computing", "update"} => \A row \in 1..Rows : trained'[row] = 0
    BY <1>1 DEF WorkInv
  <2>3. ASSUME pc = "updating"
        PROVE  \E n \in TrainedSizes : n % DpSize = 0 /\ \E t \in 0..(PpoEpochs * Rows) : Stage(n, t)'
    <3>1. PICK n \in TrainedSizes : n % DpSize = 0 /\ \E t \in 0..(PpoEpochs * Rows) : Stage(n, t)
      BY <1>1, <2>3 DEF WorkInv
    <3>2. PICK t \in 0..(PpoEpochs * Rows) : Stage(n, t)
      BY <3>1
    <3>3. Stage(n, t)'
      BY <3>2, StageKept
    <3> QED
      BY <3>1, <3>3
  <2> QED
    BY <2>1, <2>2, <2>3 DEF WorkInv
<1> QED
  BY <1>2, <1>3, <1>4, <1>5

\* A rank's plan depends on its own state.
LEMMA PlanKept ==
    ASSUME lens' = lens, conf' = conf, todo' = todo, idx' = idx, NEW r
    PROVE  /\ Plan(r)' = Plan(r) /\ Planned(r)' = Planned(r)
           /\ \A p : micro'[r] = micro[r] /\ out'[r] = out[r] => Progress(r, p)' = Progress(r, p)
<1>1. Plan(r)' = Plan(r)
  BY DEF Plan
<1>2. Longest' = Longest /\ \A h : LensOf(h)' = LensOf(h)
  BY DEF Longest, LensOf
<1> QED
  BY <1>1, <1>2 DEF Planned, Progress

\* Two ranks do not stand at the start and behind it at the same time.
LEMMA AtStart ==
    ASSUME CallInv, NEW r \in Ranks, at[r] \in {"start", "agree"}
    PROVE  InCall /\ Gathering
<1>1. InCall
  BY DEF CallInv
<1>2. ~Passing
  BY DEF Passing
<1>3. ~Stepping
  BY DEF Stepping
<1>4. ~Finished
  BY DEF Finished
<1> QED
  BY <1>1, <1>2, <1>3, <1>4 DEF CallInv

LEMMA PrepareInv ==
    ASSUME IInv, NEW r \in Ranks, Prepare(r)
    PROVE  IInv'
<1> DEFINE h == Head(todo[r])
<1>1. TypeInv /\ OrderInv /\ WorkInv /\ CallInv /\ at[r] = "start"
  BY DEF IInv, Prepare
<1>2. /\ lens' = lens /\ conf' = conf /\ pc' = pc /\ order' = order /\ todo' = todo
      /\ results' = results /\ trained' = trained /\ idx' = idx
      /\ out' = [out EXCEPT ![r] = <<>>]
  BY DEF Prepare
<1>3. InCall /\ Gathering
  BY <1>1, AtStart
<1>4. \/ /\ conf.dynamic /\ micro' = micro
         /\ at' = [at EXCEPT ![r] = "agree"]
         /\ count' = [count EXCEPT ![r] = MicroBatchCount(LensOf(h), Limit)]
      \/ /\ ~conf.dynamic /\ count' = count
         /\ at' = [at EXCEPT ![r] = "pass"]
         /\ micro' = [micro EXCEPT ![r] = Split([i \in DOMAIN h |-> i], MicroSize)]
  BY DEF Prepare, Limit
<1> HIDE DEF h
<1>5. /\ at \in [Ranks -> Places] /\ DOMAIN count = Ranks /\ DOMAIN micro = Ranks
      /\ DOMAIN idx = Ranks /\ DOMAIN out = Ranks
  BY <1>1 DEF TypeInv
<1>6. /\ at' \in [Ranks -> Places] /\ DOMAIN count' = Ranks /\ DOMAIN micro' = Ranks
      /\ DOMAIN idx' = Ranks /\ DOMAIN out' = Ranks
  BY <1>2, <1>4, <1>5 DEF Places
<1>7. TypeInv' /\ OrderInv' /\ WorkInv' /\ ResultsInv' /\ EpochsCoverBatch'
  BY <1>2, <1>6, Framed
<1>8. todo[r] # <<>> /\ micro[r] = <<>>
  BY <1>1, <1>3 DEF Gathering
<1>9. h \in Seq(1..Rows) /\ h # <<>>
  <2>1. \E l \in 1..Rows : HeadsAlike(l)
    BY <1>1, <1>3, TodoFacts DEF OrderInv
  <2> QED
    BY <1>8, <2>1 DEF HeadsAlike, h
<1>10. /\ todo'[r] # <<>>
       /\ \/ at'[r] = "start" /\ micro'[r] = <<>>
          \/ /\ at'[r] = "agree" /\ conf'.dynamic /\ micro'[r] = <<>> /\ out'[r] = <<>>
             /\ count'[r] = MicroBatchCount(LensOf(Head(todo[r])), Limit)'
          \/ at'[r] = "pass" /\ ~conf'.dynamic /\ Planned(r)' /\ Progress(r, 0)'
  <2>1. CASE conf.dynamic
    <3>1. at'[r] = "agree" /\ micro'[r] = <<>> /\ out'[r] = <<>>
      BY <1>2, <1>4, <1>5, <1>8, <2>1
    <3>2. count'[r] = MicroBatchCount(LensOf(h), Limit)
      BY <1>4, <1>5, <2>1
    <3>3. (MicroBatchCount(LensOf(Head(todo[r])), Limit))' = MicroBatchCount(LensOf(h), Limit)
      <4>1. LensOf(Head(todo[r]))' = LensOf(h)
        BY <1>2 DEF LensOf, h
      <4> QED
        BY <4>1 DEF Limit, MicroBatchCount, Min, CeilDiv, Tokens
    <3> QED
      BY <1>2, <1>8, <2>1, <3>1, <3>2, <3>3
  <2>2. CASE ~conf.dynamic
    <3> DEFINE P == Split([i \in DOMAIN h |-> i], MicroSize)
               m == Len(h)
    <3>1. at'[r] = "pass" /\ micro'[r] = P /\ out'[r] = <<>>
      BY <1>2, <1>4, <1>5, <2>2
    <3>2. m \in Nat \ {0} /\ DOMAIN h = 1..m
      BY <1>9
    <3>3. Plan(r)' = P
      BY <1>2, <2>2 DEF Plan, h
    <3>4. IsPartition(P, m, Len(P))
      BY <3>2, StaticPlan
    <3>5. P \in Seq(Seq(1..m))
      BY <3>4 DEF IsPartition
    <3> HIDE DEF P, m
    <3>6. P = SubSeq(P, 0 + 1, Len(P)) /\ \A g : Picked(g, Passed(P, 0)) = <<>>
      BY <3>5, PlanBegins
    <3>7. Planned(r)'
      <4>1. Len(Head(todo[r]))' = m
        BY <1>2 DEF m, h
      <4>2. IsPartition(Plan(r), Len(Head(todo[r])), Len(Plan(r)))'
        BY <3>3, <3>4, <4>1 DEF IsPartition
      <4> QED
        BY <1>2, <2>2, <4>2 DEF Planned
    <3>8. Progress(r, 0)'
      <4>1. Passed(Plan(r), 0)' = Passed(P, 0)
        BY <3>3 DEF Passed
      <4>2. Picked(Head(todo[r]), Passed(Plan(r), 0))' = Picked(h, Passed(P, 0))
        BY <1>2, <4>1 DEF Picked, h
      <4> QED
        BY <3>1, <3>3, <3>6, <4>2 DEF Progress
    <3> QED
      BY <1>2, <1>8, <2>2, <3>1, <3>7, <3>8
  <2> QED
    BY <2>1, <2>2
<1>11. ASSUME NEW s \in Ranks, s # r
       PROVE  /\ todo'[s] # <<>>
              /\ \/ at'[s] = "start" /\ micro'[s] = <<>>
                 \/ /\ at'[s] = "agree" /\ conf'.dynamic /\ micro'[s] = <<>> /\ out'[s] = <<>>
                    /\ count'[s] = MicroBatchCount(LensOf(Head(todo[s])), Limit)'
                 \/ at'[s] = "pass" /\ ~conf'.dynamic /\ Planned(s)' /\ Progress(s, 0)'
  <2>1. /\ at'[s] = at[s] /\ micro'[s] = micro[s] /\ out'[s] = out[s] /\ count'[s] = count[s]
        /\ todo'[s] = todo[s] /\ conf' = conf
    BY <1>2, <1>4, <1>5, <1>11
  <2>2. Planned(s)' = Planned(s) /\ Progress(s, 0)' = Progress(s, 0)
    BY <1>2, <2>1, PlanKept
  <2>3. MicroBatchCount(LensOf(Head(todo[s])), Limit)' = MicroBatchCount(LensOf(Head(todo[s])), Limit)
    <3>1. LensOf(Head(todo[s]))' = LensOf(Head(todo[s]))
      BY <1>2 DEF LensOf
    <3> QED
      BY <3>1 DEF Limit, MicroBatchCount, Min, CeilDiv, Tokens
  <2>4. /\ todo[s] # <<>>
        /\ \/ at[s] = "start" /\ micro[s] = <<>>
           \/ /\ at[s] = "agree" /\ conf.dynamic /\ micro[s] = <<>> /\ out[s] = <<>>
              /\ count[s] = MicroBatchCount(LensOf(Head(todo[s])), Limit)
           \/ at[s] = "pass" /\ ~conf.dynamic /\ Planned(s) /\ Progress(s, 0)
    BY <1>3 DEF Gathering
  <2> QED
    BY <2>1, <2>2, <2>3, <2>4
<1>12. Gathering'
  BY <1>10, <1>11 DEF Gathering
<1>13. CallInv'
  BY <1>2, <1>3, <1>12 DEF CallInv, InCall
<1> QED
  BY <1>7, <1>13 DEF IInv

\* The number the ranks agree on is the largest of theirs.
LEMMA AgreedIsLargest ==
    ASSUME NEW l \in Nat, \A r \in Ranks : count[r] \in 1..l, NEW n,
           n = CHOOSE c \in {count[s] : s \in Ranks} : \A s \in Ranks : count[s] <= c
    PROVE  n \in 1..l /\ \A r \in Ranks : count[r] <= n
<1> DEFINE k == DpSize * SpSize
           f == [i \in 1..k |-> count[i - 1]]
<1>1. k \in Nat \ {0} /\ Ranks = 0..(k - 1)
  BY Sizes
<1> HIDE DEF k
<1>2. \A i \in 1..k : i - 1 \in Ranks /\ f[i] = count[i - 1] /\ f[i] \in Int
  BY <1>1
<1> HIDE DEF f
<1>3. PICK i \in 1..k : \A j \in 1..k : f[j] <= f[i]
  BY <1>1, <1>2, ExtremeValues
<1>4. \A r \in Ranks : count[r] <= count[i - 1]
  <2> TAKE r \in Ranks
  <2>1. r + 1 \in 1..k /\ (r + 1) - 1 = r
    BY <1>1
  <2>2. f[r + 1] = count[r] /\ f[r + 1] <= f[i] /\ f[i] = count[i - 1]
    BY <1>2, <1>3, <2>1
  <2> QED
    BY <2>2
<1>5. \E c \in {count[s] : s \in Ranks} : \A s \in Ranks : count[s] <= c
  BY <1>2, <1>4
<1>6. n \in {count[s] : s \in Ranks} /\ \A s \in Ranks : count[s] <= n
  BY <1>5
<1> QED
  BY <1>6

LEMMA AgreeInv ==
    ASSUME IInv, Agree
    PROVE  IInv'
<1> DEFINE L(r) == LensOf(Head(todo[r]))
           n == CHOOSE c \in {count[s] : s \in Ranks} : \A s \in Ranks : count[s] <= c
<1>1. TypeInv /\ OrderInv /\ WorkInv /\ CallInv /\ Everyone("agree")
  BY DEF IInv, Agree
<1>2. /\ lens' = lens /\ conf' = conf /\ pc' = pc /\ order' = order /\ todo' = todo
      /\ results' = results /\ trained' = trained /\ count' = count /\ out' = out
      /\ idx' = [r \in Ranks |-> MicroBatches(L(r), n)] /\ micro' = idx'
      /\ at' = [r \in Ranks |-> "pass"]
  BY DEF Agree, Agreed
<1>3. InCall /\ Gathering
  <2>1. 0 \in Ranks /\ at[0] = "agree"
    BY <1>1, RankFacts DEF Everyone
  <2> QED
    BY <1>1, <2>1, AtStart
<1>4. TypeInv' /\ OrderInv' /\ WorkInv' /\ ResultsInv' /\ EpochsCoverBatch'
  <2>1. DOMAIN count = Ranks /\ DOMAIN out = Ranks
    BY <1>1 DEF TypeInv
  <2>2. /\ at' \in [Ranks -> Places] /\ DOMAIN count' = Ranks /\ DOMAIN micro' = Ranks
        /\ DOMAIN idx' = Ranks /\ DOMAIN out' = Ranks
    BY <1>2, <2>1 DEF Places
  <2> QED
    BY <1>2, <2>2, Framed
<1>5. \A r \in Ranks : /\ todo[r] # <<>> /\ conf.dynamic /\ out[r] = <<>>
                       /\ count[r] = MicroBatchCount(L(r), Limit)
  BY <1>1, <1>3 DEF Gathering, Everyone
<1>6. PICK l \in 1..Rows : HeadsAlike(l)
  BY <1>1, <1>3, TodoFacts DEF OrderInv
<1>7. PICK even \in BOOLEAN : ~even
  OBVIOUS
<1>8. \A r \in Ranks : /\ IsLengths(L(r)) /\ Len(L(r)) = l /\ L(r) # <<>>
                       /\ Bounds(Longest, L(r), even)
  <2> TAKE r \in Ranks
  <2> DEFINE h == Head(todo[r])
  <2>1. h \in Seq(1..Rows) /\ Len(h) = l /\ h # <<>>
    BY <1>5, <1>6 DEF HeadsAlike
  <2>2. lens \in [1..Rows -> Lengths]
    BY <1>1 DEF TypeInv
  <2> HIDE DEF h
  <2>3. /\ IsLengths(LensOf(h)) /\ Len(LensOf(h)) = Len(h) /\ (h # <<>> => LensOf(h) # <<>>)
        /\ Bounds(Longest, LensOf(h), even)
    BY <2>1, <2>2, LensOfFacts
  <2> QED
    BY <2>1, <2>3 DEF h
<1> HIDE DEF L
<1>9. Limit \in Nat \ {0} /\ l \in Nat /\ Rows \in Nat
  BY Sizes
<1>10. \A r \in Ranks : count[r] \in 1..l
  <2> TAKE r \in Ranks
  <2> DEFINE length == L(r)
  <2>1. IsLengths(length) /\ length # <<>> /\ Len(length) = l /\ count[r] = MicroBatchCount(length, Limit)
    BY <1>5, <1>8
  <2> HIDE DEF length
  <2> QED
    BY <1>9, <2>1, MicroBatchCountFacts
<1>11. n \in 1..l /\ \A r \in Ranks : count[r] <= n
  BY <1>9, <1>10, AgreedIsLargest
<1> HIDE DEF n
<1>12. \A r \in Ranks : IsPartition(MicroBatches(L(r), n), l, n)
  <2> TAKE r \in Ranks
  <2> DEFINE length == L(r)
  <2>1. IsLengths(length) /\ Len(length) = l /\ Bounds(Longest, length, even)
    BY <1>8
  <2>2. n \in Nat \ {0} /\ n <= Len(length)
    BY <1>9, <1>11, <2>1
  <2> HIDE DEF length
  <2>3. IsPartition(MicroBatches(length, n), Len(length), n)
    BY <1>7, <2>1, <2>2, MicroBatchesBalanced
  <2> QED
    BY <2>1, <2>3 DEF length
<1>13. \A r \in Ranks : \A k \in 1..n : Tokens(MicroBatches(L(r), n)[k], L(r)) < Limit + Longest
  <2> TAKE r \in Ranks
  <2> DEFINE length == L(r)
  <2>1. /\ IsLengths(length) /\ Len(length) = l /\ Bounds(Longest, length, even) /\ length # <<>>
        /\ MicroBatchCount(length, Limit) <= n
    BY <1>5, <1>8, <1>11
  <2>2. n \in 1..Len(length)
    BY <1>11, <2>1
  <2> HIDE DEF length
  <2>3. \A k \in 1..n : Tokens(MicroBatches(length, n)[k], length) < Limit + Longest
    BY <1>7, <1>9, <2>1, <2>2, TokensFit
  <2> QED
    BY <2>3 DEF length
<1>14. ASSUME NEW r \in Ranks
       PROVE  /\ at'[r] = "pass" /\ todo'[r] # <<>>
              /\ Len(Plan(r)') = n /\ Planned(r)' /\ Progress(r, 0)'
  <2> DEFINE P == MicroBatches(L(r), n)
             h == Head(todo[r])
  <2>1. conf'.dynamic /\ Plan(r)' = P /\ micro'[r] = P /\ out'[r] = <<>>
    BY <1>2, <1>5 DEF Plan
  <2>2. IsPartition(P, l, n) /\ \A k \in 1..n : Tokens(P[k], L(r)) < Limit + Longest
    BY <1>12, <1>13
  <2> HIDE DEF P
  <2>3. Len(P) = n /\ P \in Seq(Seq(1..l))
    BY <2>2 DEF IsPartition
  <2>4. P = SubSeq(P, 0 + 1, Len(P)) /\ \A g : Picked(g, Passed(P, 0)) = <<>>
    BY <2>3, PlanBegins
  <2>5. h' = h /\ Len(h) = l /\ LensOf(h)' = L(r) /\ Longest' = Longest
    BY <1>2, <1>5, <1>6 DEF HeadsAlike, L, LensOf, Longest
  <2> HIDE DEF h
  <2>6. Planned(r)'
    <3>1. Planned(r)' = (/\ IsPartition(Plan(r)', Len(h'), Len(Plan(r)'))
                         /\ conf'.dynamic => \A k \in 1..Len(Plan(r)') :
                                Tokens(Plan(r)'[k], LensOf(h)') < Limit + Longest')
      BY DEF Planned, h, IsPartition, Tokens, Limit
    <3> QED
      BY <2>1, <2>2, <2>3, <2>5, <3>1
  <2>7. Progress(r, 0)'
    <3>1. Progress(r, 0)' = (/\ micro'[r] = SubSeq(Plan(r)', 0 + 1, Len(Plan(r)'))
                             /\ out'[r] = Picked(h', Passed(Plan(r)', 0)))
      BY DEF Progress, h, Picked, Passed
    <3> QED
      BY <2>1, <2>4, <3>1
  <2>8. at'[r] = "pass" /\ todo'[r] # <<>>
    BY <1>2, <1>5
  <2> QED
    BY <2>1, <2>3, <2>6, <2>7, <2>8
<1>15. Passing'
  <2>1. n \in 1..Rows /\ 0 \in 0..(n - 1)
    BY <1>9, <1>11
  <2> QED
    BY <1>14, <2>1 DEF Passing
<1>16. CallInv'
  BY <1>2, <1>3, <1>15 DEF CallInv, InCall
<1> QED
  BY <1>4, <1>16 DEF IInv

\* Ranks that stand before a pass stand before the same one.
LEMMA BeforePass ==
    ASSUME IInv, Everyone("pass")
    PROVE  InCall /\ Passing
<1>1. TypeInv /\ OrderInv /\ WorkInv /\ CallInv
  BY DEF IInv
<1>2. 0 \in Ranks /\ at[0] = "pass"
  BY RankFacts DEF Everyone
<1>3. InCall /\ (Gathering \/ Passing)
  <2>1. InCall
    BY <1>1, <1>2 DEF CallInv
  <2>2. ~Stepping
    BY <1>2 DEF Stepping
  <2>3. ~Finished
    BY <1>2 DEF Finished
  <2> QED
    BY <1>1, <2>1, <2>2, <2>3 DEF CallInv
<1>4. ASSUME Gathering PROVE Passing
  <2>1. \A r \in Ranks : at[r] = "pass" /\ ~conf.dynamic /\ todo[r] # <<>> /\ Planned(r) /\ Progress(r, 0)
    BY <1>4 DEF Gathering, Everyone
  <2>2. PICK l \in 1..Rows : HeadsAlike(l)
    BY <1>1, <1>3, TodoFacts DEF OrderInv
  <2> DEFINE n == CeilDiv(l, MicroSize)
  <2>3. l \in Nat \ {0} /\ l <= Rows /\ Rows \in Nat
    BY Sizes
  <2>4. \A r \in Ranks : Len(Plan(r)) = n /\ n \in 1..l
    <3> TAKE r \in Ranks
    <3> DEFINE h == Head(todo[r])
    <3>1. h \in Seq(1..Rows) /\ Len(h) = l
      BY <2>1, <2>2 DEF HeadsAlike
    <3>2. Plan(r) = Split([i \in DOMAIN h |-> i], MicroSize)
      BY <2>1 DEF Plan
    <3> HIDE DEF h
    <3>3. DOMAIN h = 1..l
      BY <3>1
    <3> DEFINE P == Plan(r)
    <3>4. P = Split([i \in 1..l |-> i], MicroSize)
      BY <3>2, <3>3
    <3> HIDE DEF P
    <3>5. Len(P) = CeilDiv(l, MicroSize) /\ Len(P) \in 1..l
      BY <2>3, <3>4, StaticPlan
    <3> QED
      BY <3>5 DEF P
  <2> HIDE DEF n
  <2>5. n \in 1..Rows /\ 0 \in 0..(n - 1)
    BY <1>2, <2>3, <2>4
  <2> QED
    BY <2>1, <2>4, <2>5 DEF Passing
<1> QED
  BY <1>3, <1>4

LEMMA PassInv ==
    ASSUME IInv, Pass
    PROVE  IInv'
<1>1. TypeInv /\ CallInv /\ Everyone("pass") /\ InCall /\ Passing
  BY BeforePass DEF IInv, Pass
<1>2. /\ lens' = lens /\ conf' = conf /\ pc' = pc /\ order' = order /\ todo' = todo
      /\ results' = results /\ trained' = trained /\ count' = count /\ idx' = idx
      /\ out' = [r \in Ranks |->
                    out[r] \o [i \in DOMAIN Head(micro[r]) |-> Head(todo[r])[Head(micro[r])[i]]]]
      /\ micro' = [r \in Ranks |-> Tail(micro[r])]
      /\ at' = [r \in Ranks |-> CASE Len(micro[r]) > 1 -> "pass"
                                  [] Len(micro[r]) <= 1 /\ pc = "computing" -> "done"
                                  [] Len(micro[r]) <= 1 /\ pc = "updating" -> "step"]
  BY DEF Pass
<1>3. PICK n \in 1..Rows : \E p \in 0..(n - 1) :
          \A r \in Ranks : /\ at[r] = "pass" /\ todo[r] # <<>>
                           /\ Len(Plan(r)) = n /\ Planned(r) /\ Progress(r, p)
  BY <1>1 DEF Passing
<1>4. PICK p \in 0..(n - 1) :
          \A r \in Ranks : /\ at[r] = "pass" /\ todo[r] # <<>>
                           /\ Len(Plan(r)) = n /\ Planned(r) /\ Progress(r, p)
  BY <1>3
<1>5. n \in Nat /\ p \in Nat /\ p < n
  BY Sizes
<1>6. \A r \in Ranks :
          /\ Len(micro[r]) = n - p
          /\ p + 1 = n => Tail(micro[r]) = <<>>
          /\ Tail(micro[r]) = SubSeq(Plan(r), (p + 1) + 1, Len(Plan(r)))
          /\ out[r] \o [i \in DOMAIN Head(micro[r]) |-> Head(todo[r])[Head(micro[r])[i]]]
                 = Picked(Head(todo[r]), Passed(Plan(r), p + 1))
  <2> TAKE r \in Ranks
  <2>1. n = Len(Plan(r)) /\ Planned(r) /\ Progress(r, p) /\ p <= n
    BY <1>4, <1>5
  <2>2. InProgress(r, n, p)
    BY <1>5, <2>1, ProgressFacts
  <2> QED
    BY <1>5, <2>2 DEF InProgress
<1>7. \A r \in Ranks : at'[r] = IF p + 1 < n THEN "pass"
                                ELSE IF pc = "computing" THEN "done" ELSE "step"
  <2> TAKE r \in Ranks
  <2>1. at'[r] = CASE Len(micro[r]) > 1 -> "pass"
                   [] Len(micro[r]) <= 1 /\ pc = "computing" -> "done"
                   [] Len(micro[r]) <= 1 /\ pc = "updating" -> "step"
    BY <1>2
  <2>2. Len(micro[r]) = n - p
    BY <1>6
  <2>3. pc = "computing" \/ pc = "updating"
    BY <1>1 DEF InCall
  <2> DEFINE m == Len(micro[r])
  <2>4. m = n - p
    BY <2>2
  <2>5. at'[r] = CASE m > 1 -> "pass"
                   [] m <= 1 /\ pc = "computing" -> "done"
                   [] m <= 1 /\ pc = "updating" -> "step"
    BY <2>1
  <2> HIDE DEF m
  <2>6. CASE p + 1 < n
    <3>1. m > 1 /\ ~(m <= 1)
      BY <1>5, <2>4, <2>6
    <3> QED
      BY <2>5, <2>6, <3>1
  <2>7. CASE ~(p + 1 < n)
    <3>1. ~(m > 1) /\ m <= 1
      BY <1>5, <2>4, <2>7
    <3> QED
      BY <2>3, <2>5, <2>7, <3>1
  <2> QED
    BY <2>6, <2>7
<1>8. TypeInv' /\ OrderInv' /\ WorkInv' /\ ResultsInv' /\ EpochsCoverBatch'
  <2>1. DOMAIN count = Ranks /\ DOMAIN idx = Ranks
    BY <1>1 DEF TypeInv
  <2>2. at' \in [Ranks -> Places]
    <3>1. \A r \in Ranks : at'[r] \in Places
      BY <1>7 DEF Places
    <3> DEFINE place(r) == CASE Len(micro[r]) > 1 -> "pass"
                             [] Len(micro[r]) <= 1 /\ pc = "computing" -> "done"
                             [] Len(micro[r]) <= 1 /\ pc = "updating" -> "step"
    <3>2. at' = [r \in Ranks |-> place(r)]
      BY <1>2
    <3> HIDE DEF place
    <3> QED
      BY <3>1, <3>2
  <2>3. DOMAIN count' = Ranks /\ DOMAIN micro' = Ranks /\ DOMAIN idx' = Ranks /\ DOMAIN out' = Ranks
    BY <1>2, <2>1
  <2> QED
    BY <1>2, <2>2, <2>3, Framed
<1>9. \A r \in Ranks : Progress(r, p + 1)'
  <2> TAKE r \in Ranks
  <2>1. Plan(r)' = Plan(r)
    BY <1>2, PlanKept
  <2>2. micro'[r] = SubSeq(Plan(r), (p + 1) + 1, Len(Plan(r)))
    BY <1>2, <1>6
  <2>3. out'[r] = Picked(Head(todo[r]), Passed(Plan(r), p + 1))
    BY <1>2, <1>6
  <2>4. Picked(Head(todo[r]), Passed(Plan(r), p + 1))' = Picked(Head(todo[r]), Passed(Plan(r), p + 1))
    BY <1>2, <2>1 DEF Picked, Passed
  <2> QED
    BY <2>1, <2>2, <2>3, <2>4 DEF Progress
<1>10. \A r \in Ranks : todo'[r] # <<>> /\ Len(Plan(r)') = n /\ Planned(r)'
  <2> TAKE r \in Ranks
  <2>1. Plan(r)' = Plan(r) /\ Planned(r)' = Planned(r)
    BY <1>2, PlanKept
  <2> QED
    BY <1>2, <1>4, <2>1
<1>11. CASE p + 1 < n
  <2>1. p + 1 \in 0..(n - 1) /\ \A r \in Ranks : at'[r] = "pass"
    BY <1>5, <1>7, <1>11
  <2>2. Passing'
    BY <1>9, <1>10, <2>1 DEF Passing
  <2>3. CallInv'
    BY <1>1, <1>2, <2>2 DEF CallInv, InCall
  <2> QED
    BY <1>8, <2>3 DEF IInv
<1>12. CASE p + 1 = n
  <2>1. \A r \in Ranks : Through(r)'
    <3> TAKE r \in Ranks
    <3>1. Progress(r, p + 1)' /\ Len(Plan(r))' = p + 1 /\ todo'[r] # <<>> /\ Planned(r)'
      BY <1>9, <1>10, <1>12
    <3>2. Progress(r, Len(Plan(r)))'
      BY <3>1 DEF Progress
    <3> QED
      BY <3>1, <3>2 DEF Through
  <2>2. \A r \in Ranks : micro'[r] = <<>> /\ at'[r] = IF pc = "computing" THEN "done" ELSE "step"
    <3>1. ~(p + 1 < n)
      BY <1>5, <1>12
    <3> TAKE r \in Ranks
    <3>2. micro'[r] = Tail(micro[r]) /\ Tail(micro[r]) = <<>>
      BY <1>2, <1>6, <1>12
    <3> QED
      BY <1>7, <3>1, <3>2
  <2>3. CASE pc = "computing"
    <3>1. Finished'
      BY <1>2, <2>1, <2>2, <2>3 DEF Finished
    <3>2. CallInv'
      BY <1>1, <1>2, <3>1 DEF CallInv, InCall
    <3> QED
      BY <1>8, <3>2 DEF IInv
  <2>4. CASE pc = "updating"
    <3>1. Stepping'
      BY <1>2, <2>1, <2>2, <2>4 DEF Stepping
    <3>2. CallInv'
      BY <1>1, <1>2, <3>1 DEF CallInv, InCall
    <3> QED
      BY <1>8, <3>2 DEF IInv
  <2> QED
    BY <1>1, <2>3, <2>4 DEF InCall
<1> QED
  <2>1. p + 1 < n \/ p + 1 = n
    BY <1>5
  <2> QED
    BY <1>11, <1>12, <2>1

\* One rank answers for the gradients of a row.
LEMMA OneAnswers ==
    ASSUME IsPermutation(order, Rows), NEW n \in TrainedSizes, n % DpSize = 0,
           NEW B, B = CeilDiv(n \div DpSize, MiniSize), NEW b \in 1..B, NEW row \in 1..Rows,
           NEW S, S = {r \in Ranks : CollectMask(r) /\ row \in ToSet(Mini(n, r, b))}
    PROVE  /\ HasTheRow(n, row, b) => Cardinality(S) = 1
           /\ ~HasTheRow(n, row, b) => Cardinality(S) = 0
<1> DEFINE q == n \div DpSize
<1>1. IsUpdate(n, q, B) /\ PlacesApart(n, q, B)
  BY UpdateFacts
<1> HIDE DEF q
<1>2. \A r, s \in Ranks : DpRank(r) = DpRank(s) => Mini(n, r, b) = Mini(n, s, b)
  BY DEF Mini
<1>3. PICK i \in 1..Rows : order[i] = row
  BY DEF IsPermutation
<1>4. ASSUME HasTheRow(n, row, b) PROVE Cardinality(S) = 1
  <2>1. PICK s \in Ranks : row \in ToSet(Mini(n, s, b))
    BY <1>4 DEF HasTheRow
  <2> DEFINE g == DpRank(s)
             u == g * SpSize
  <2>2. g \in 0..(DpSize - 1)
    BY RankFacts
  <2> HIDE DEF g
  <2>3. u \in Ranks /\ CollectMask(u) /\ DpRank(u) = g
        /\ \A r \in Ranks : CollectMask(r) /\ DpRank(r) = g => r = u
    BY <2>2, RankFacts
  <2> HIDE DEF u
  <2>4. row \in ToSet(Mini(n, u, b))
    BY <1>2, <2>1, <2>3 DEF g
  <2>5. ASSUME NEW r \in Ranks, CollectMask(r), row \in ToSet(Mini(n, r, b)) PROVE r = u
    <3>1. n \in 1..Rows /\ Rows \in Nat
      BY Sizes
    <3>2. PICK x \in 1..Len(Mini(n, r, b)) : i = PlaceOf(q, r, b, x)
      BY <1>1, <1>3, <2>5, <3>1, RowInBatch
    <3>3. PICK y \in 1..Len(Mini(n, u, b)) : i = PlaceOf(q, u, b, y)
      BY <1>1, <1>3, <2>3, <2>4, <3>1, RowInBatch
    <3>4. x \in 1..Len(Mini(n, r, b)) /\ y \in 1..Len(Mini(n, u, b)) /\ u \in Ranks
      BY <2>3, <3>2, <3>3
    <3>5. PlaceOf(q, r, b, x) = PlaceOf(q, u, b, y)
      BY <3>2, <3>3
    <3>6. DpRank(r) = DpRank(u)
      BY <1>1, <3>4, <3>5 DEF PlacesApart
    <3> QED
      BY <2>3, <2>5, <3>6
  <2>6. S = {u}
    BY <2>3, <2>4, <2>5
  <2> QED
    BY <2>6, FS_Singleton
<1>5. ASSUME ~HasTheRow(n, row, b) PROVE Cardinality(S) = 0
  <2>1. S = {}
    BY <1>5 DEF HasTheRow
  <2> QED
    BY <2>1, FS_EmptySet
<1> QED
  BY <1>4, <1>5

\* One more mini-batch.
LEMMA TakenOne ==
    ASSUME NEW n, NEW row, NEW t \in Nat
    PROVE  /\ (\E r \in Ranks : row \in ToSet(Work(n, r)[t + 1])) =>
                  Cardinality(Taken(n, row, t + 1)) = Cardinality(Taken(n, row, t)) + 1
           /\ ~(\E r \in Ranks : row \in ToSet(Work(n, r)[t + 1])) =>
                  Cardinality(Taken(n, row, t + 1)) = Cardinality(Taken(n, row, t))
<1> DEFINE In(u) == \E r \in Ranks : row \in ToSet(Work(n, r)[u])
           T == Taken(n, row, t)
           U == Taken(n, row, t + 1)
<1>1. T = {u \in 1..t : In(u)} /\ U = {u \in 1..(t + 1) : In(u)}
  BY DEF Taken
<1> HIDE DEF In, T, U
<1>2. IsFiniteSet(T)
  <2>1. IsFiniteSet(1..t)
    BY FS_Interval
  <2>2. T \subseteq 1..t
    BY <1>1
  <2> QED
    BY <2>1, <2>2, FS_Subset
<1>3. t + 1 \notin T
  BY <1>1
<1>4. ASSUME In(t + 1) PROVE Cardinality(U) = Cardinality(T) + 1
  <2>1. U = T \cup {t + 1}
    BY <1>1, <1>4
  <2> QED
    BY <1>2, <1>3, <2>1, FS_AddElement
<1>5. ASSUME ~In(t + 1) PROVE Cardinality(U) = Cardinality(T)
  <2>1. U = T
    BY <1>1, <1>5
  <2> QED
    BY <2>1
<1> QED
  BY <1>4, <1>5 DEF In, T, U

LEMMA TailFacts ==
    ASSUME NEW A, NEW s \in Seq(A), s # <<>>
    PROVE  Tail(s) = <<>> <=> ~(Len(s) > 1)
<1> DEFINE w == Tail(s)
<1>1. w \in Seq(A) /\ Len(w) = Len(s) - 1 /\ Len(s) \in Nat \ {0}
  OBVIOUS
<1> HIDE DEF w
<1>2. w = <<>> <=> Len(w) = 0
  <2>1. w \in Seq(A)
    BY <1>1
  <2> QED
    BY ONLY <2>1
<1>3. Len(w) = 0 <=> ~(Len(s) > 1)
  BY <1>1
<1> QED
  BY <1>2, <1>3 DEF w

\* The mini-batches a step has been on, and those that are left.
LEMMA StepStage ==
    ASSUME IsPermutation(order, Rows), NEW n \in TrainedSizes, n % DpSize = 0,
           NEW t \in Nat, Stage(n, t), \A r \in Ranks : todo[r] # <<>>,
           order' = order, \A r \in Ranks : todo'[r] = Tail(todo[r]),
           \A row \in 1..Rows : trained'[row] = trained[row] +
                Cardinality({r \in Ranks : CollectMask(r) /\ row \in ToSet(Head(todo[r]))})
    PROVE  /\ t + 1 \in 0..(PpoEpochs * Rows)
           /\ Stage(n, t + 1)'
           /\ \A row \in 1..Rows : trained'[row] \in 0..PpoEpochs
<1> DEFINE q == n \div DpSize
           B == CeilDiv(q, MiniSize)
           T == PpoEpochs * B
<1>1. PpoEpochs \in Nat \ {0} /\ Rows \in Nat \ {0}
  BY Sizes
<1>2. /\ T \in Nat /\ t \in 0..T /\ T <= PpoEpochs * Rows
      /\ \A r \in Ranks :
            /\ todo[r] \in Seq(Seq(1..Rows)) /\ Len(todo[r]) = T - t
            /\ todo[r] = <<>> <=> t = T
            /\ t < T => /\ Head(todo[r]) = Work(n, r)[t + 1]
                        /\ Tail(todo[r]) = SubSeq(Work(n, r), (t + 1) + 1, Len(Work(n, r)))
  BY StageFacts
<1>3. IsUpdate(n, q, B)
  BY UpdateFacts
<1>4. IsWork(n, B)
  BY WorkFacts
<1> HIDE DEF q
<1>5. B \in Nat \ {0}
  BY <1>3 DEF IsUpdate
<1>6. t < T
  <2> HIDE DEF T
  <2>1. t # T
    BY <1>2, RankFacts
  <2> QED
    BY <1>2, <2>1
<1>7. t + 1 \in 1..T /\ t + 1 \in 0..(PpoEpochs * Rows) /\ t + 1 \in 0..T
  <2> DEFINE z == PpoEpochs * Rows
  <2>1. z \in Nat /\ T <= z
    BY <1>1, <1>2
  <2> HIDE DEF T, z
  <2>2. t + 1 \in 1..T /\ t + 1 \in 0..z /\ t + 1 \in 0..T
    BY <1>2, <1>6, <2>1
  <2> QED
    BY <2>2 DEF z
<1>8. PICK e \in 1..PpoEpochs : \E b \in 1..B : t + 1 = (e - 1) * B + b
  <2>1. \A u \in 1..(PpoEpochs * B) : \E e \in 1..PpoEpochs : \E b \in 1..B : u = (e - 1) * B + b
    <3>1. PpoEpochs \in Nat /\ B \in Nat \ {0}
      BY <1>1, <1>5
    <3> QED
      BY ONLY <3>1, Blocks
  <2> QED
    BY <1>7, <2>1
<1>9. PICK b \in 1..B : t + 1 = (e - 1) * B + b
  BY <1>8
<1>10. \A r \in Ranks : /\ Head(todo[r]) = Mini(n, r, b) /\ Work(n, r)[t + 1] = Mini(n, r, b)
                        /\ Len(Work(n, r)) = T
  <2> TAKE r \in Ranks
  <2>1. Work(n, r)[(e - 1) * B + b] = Mini(n, r, b) /\ Len(Work(n, r)) = T
    BY <1>4 DEF IsWork
  <2>2. Head(todo[r]) = Work(n, r)[t + 1]
    BY <1>2, <1>6
  <2> QED
    BY <1>9, <2>1, <2>2
<1> HIDE DEF T, B
<1>11. ASSUME NEW row \in 1..Rows PROVE trained'[row] = Cardinality(Taken(n, row, t + 1))
  <2> DEFINE S == {r \in Ranks : CollectMask(r) /\ row \in ToSet(Mini(n, r, b))}
  <2>1. {r \in Ranks : CollectMask(r) /\ row \in ToSet(Head(todo[r]))} = S
    BY <1>10
  <2> HIDE DEF S
  <2>2. trained'[row] = trained[row] + Cardinality(S)
    BY <2>1
  <2>3. (HasTheRow(n, row, b) => Cardinality(S) = 1) /\ (~HasTheRow(n, row, b) => Cardinality(S) = 0)
    BY <1>9, OneAnswers DEF S, B, q
  <2>4. trained[row] = Cardinality(Taken(n, row, t))
    BY DEF Stage
  <2>5. HasTheRow(n, row, b) <=> \E r \in Ranks : row \in ToSet(Work(n, r)[t + 1])
    BY <1>10 DEF HasTheRow
  <2>6. Cardinality(Taken(n, row, t)) \in Nat
    <3>1. IsFiniteSet(1..t)
      <4>1. 1 \in Int /\ t \in Int
        OBVIOUS
      <4> QED
        BY ONLY <4>1, FS_Interval
    <3>2. Taken(n, row, t) \subseteq 1..t
      BY DEF Taken
    <3> QED
      BY <3>1, <3>2, FS_Subset, FS_CardinalityType
  <2>7. CASE HasTheRow(n, row, b)
    <3>1. Cardinality(Taken(n, row, t + 1)) = Cardinality(Taken(n, row, t)) + 1
      BY <2>5, <2>7, TakenOne
    <3> QED
      BY <2>2, <2>3, <2>4, <2>7, <3>1
  <2>8. CASE ~HasTheRow(n, row, b)
    <3>1. Cardinality(Taken(n, row, t + 1)) = Cardinality(Taken(n, row, t))
      BY <2>5, <2>8, TakenOne
    <3> QED
      BY <2>2, <2>3, <2>4, <2>6, <2>8, <3>1
  <2> QED
    BY <2>7, <2>8
<1>12. Stage(n, t + 1)'
  <2>1. \A r : Work(n, r)' = Work(n, r)
    BY DEF Work, Chunk
  <2>2. \A row : Taken(n, row, t + 1)' = Taken(n, row, t + 1)
    BY <2>1 DEF Taken
  <2>3. \A r \in Ranks : /\ t + 1 <= Len(Work(n, r))
                         /\ todo'[r] = SubSeq(Work(n, r), (t + 1) + 1, Len(Work(n, r)))
    <3> TAKE r \in Ranks
    <3>1. Len(Work(n, r)) = T /\ Tail(todo[r]) = SubSeq(Work(n, r), (t + 1) + 1, Len(Work(n, r)))
      BY <1>2, <1>6, <1>10
    <3>2. t + 1 <= T
      BY <1>2, <1>7
    <3>3. t + 1 <= Len(Work(n, r))
      BY <3>1, <3>2
    <3>4. todo'[r] = SubSeq(Work(n, r), (t + 1) + 1, Len(Work(n, r)))
      BY <3>1
    <3> QED
      BY <3>3, <3>4
  <2> QED
    BY <1>11, <2>1, <2>2, <2>3 DEF Stage
<1>13. ASSUME NEW row \in 1..Rows PROVE trained'[row] \in 0..PpoEpochs
  <2>1. PICK i \in 1..Rows : order[i] = row
    BY DEF IsPermutation
  <2>2. \A u \in 0..T : Cardinality(Taken(n, order[i], u)) \in 0..PpoEpochs
    BY TakenFacts DEF T, B, q
  <2> QED
    BY <1>7, <1>11, <2>1, <2>2
<1> QED
  BY <1>7, <1>12, <1>13

\* A rank that is through has no micro-batch left.
LEMMA ThroughDone ==
    ASSUME NEW r \in Ranks, Through(r)
    PROVE  micro[r] = <<>>
<1> DEFINE n == Len(Plan(r))
<1>1. Planned(r) /\ Progress(r, n)
  BY DEF Through
<1>2. n \in Nat
  <2>1. Plan(r) \in Seq(Seq(1..Len(Head(todo[r]))))
    BY <1>1 DEF Planned, IsPartition
  <2> QED
    BY <2>1
<1>3. n = Len(Plan(r)) /\ n <= n
  BY <1>2
<1> HIDE DEF n
<1>4. InProgress(r, n, n)
  BY <1>1, <1>2, <1>3, ProgressFacts
<1> QED
  BY <1>4 DEF InProgress

LEMMA OptimizerStepInv ==
    ASSUME IInv, OptimizerStep
    PROVE  IInv'
<1>1. TypeInv /\ OrderInv /\ WorkInv /\ CallInv /\ Everyone("step")
  BY DEF IInv, OptimizerStep
<1>2. /\ lens' = lens /\ conf' = conf /\ pc' = pc /\ order' = order /\ results' = results
      /\ count' = count /\ micro' = micro /\ idx' = idx /\ out' = out
      /\ trained' = [row \in DOMAIN trained |->
                    trained[row] + Cardinality({r \in Ranks :
                                        CollectMask(r) /\ \E i \in DOMAIN out[r] : out[r][i] = row})]
      /\ todo' = [r \in Ranks |-> Tail(todo[r])]
      /\ at' = [r \in Ranks |-> IF Len(todo[r]) > 1 THEN "start" ELSE "done"]
  BY DEF OptimizerStep
<1>3. 0 \in Ranks /\ at[0] = "step"
  BY <1>1, RankFacts DEF Everyone
<1>4. InCall /\ Stepping
  <2>1. InCall
    BY <1>1, <1>3 DEF CallInv
  <2>2. ~Gathering
    BY <1>3 DEF Gathering
  <2>3. ~Passing
    BY <1>3 DEF Passing
  <2>4. ~Finished
    BY <1>3 DEF Finished
  <2> QED
    BY <1>1, <2>1, <2>2, <2>3, <2>4 DEF CallInv
<1>5. pc = "updating" /\ \A r \in Ranks : Through(r) /\ todo[r] # <<>> /\ Planned(r)
                                          /\ Progress(r, Len(Plan(r)))
  BY <1>4 DEF Stepping, Through
<1>6. IsPermutation(order, Rows)
  BY <1>1 DEF OrderInv
<1>7. /\ \A r \in Ranks : todo[r] \in Seq(Seq(1..Rows))
      /\ \A r, s \in Ranks : Len(todo[r]) = Len(todo[s])
      /\ \E l \in 1..Rows : HeadsAlike(l)
  BY <1>1, <1>4, <1>6, TodoFacts
<1>8. \A r \in Ranks : micro[r] = <<>>
  BY <1>5, ThroughDone
<1>9. \A r \in Ranks : \A row : (\E i \in DOMAIN out[r] : out[r][i] = row) <=> row \in ToSet(Head(todo[r]))
  <2> TAKE r \in Ranks
  <2> DEFINE h == Head(todo[r])
             A == 1..Rows
  <2>1. h \in Seq(A) /\ h # <<>> /\ Through(r) /\ h = Head(todo[r])
    BY <1>5, <1>7 DEF HeadsAlike
  <2> HIDE DEF h, A
  <2>2. \A row : (\E i \in DOMAIN out[r] : out[r][i] = row) <=> row \in ToSet(h)
    BY <2>1, ThroughFacts
  <2> QED
    BY <2>2 DEF h
<1>10. \A row \in 1..Rows : trained'[row] = trained[row] +
                Cardinality({r \in Ranks : CollectMask(r) /\ row \in ToSet(Head(todo[r]))})
  <2> TAKE row \in 1..Rows
  <2>1. DOMAIN trained = 1..Rows
    BY <1>1 DEF TypeInv
  <2>2. {r \in Ranks : CollectMask(r) /\ \E i \in DOMAIN out[r] : out[r][i] = row}
            = {r \in Ranks : CollectMask(r) /\ row \in ToSet(Head(todo[r]))}
    BY <1>9
  <2>3. trained'[row] = trained[row] +
            Cardinality({r \in Ranks : CollectMask(r) /\ \E i \in DOMAIN out[r] : out[r][i] = row})
    BY <1>2, <2>1
  <2> QED
    BY <2>2, <2>3
<1>11. PICK n \in TrainedSizes : n % DpSize = 0 /\ \E t \in 0..(PpoEpochs * Rows) : Stage(n, t)
  BY <1>1, <1>5 DEF WorkInv
<1>12. PICK t \in 0..(PpoEpochs * Rows) : Stage(n, t)
  BY <1>11
<1>13. /\ t + 1 \in 0..(PpoEpochs * Rows)
       /\ Stage(n, t + 1)'
       /\ \A row \in 1..Rows : trained'[row] \in 0..PpoEpochs
  <2>1. t \in Nat
    OBVIOUS
  <2>2. \A r \in Ranks : todo'[r] = Tail(todo[r]) /\ todo[r] # <<>>
    BY <1>2, <1>5
  <2> QED
    BY <1>2, <1>6, <1>10, <1>11, <1>12, <2>1, <2>2, StepStage
<1>14. TypeInv'
  <2>1. /\ lens' \in [1..Rows -> Lengths] /\ conf' \in [balance : BOOLEAN, dynamic : BOOLEAN]
        /\ pc' \in {"balance", "compute", "computing", "update", "updating", "done", "raised"}
        /\ order' \in [1..Rows -> 1..Rows]
        /\ DOMAIN count' = Ranks /\ DOMAIN micro' = Ranks /\ DOMAIN idx' = Ranks /\ DOMAIN out' = Ranks
        /\ DOMAIN trained = 1..Rows
    BY <1>1, <1>2 DEF TypeInv
  <2>2. at' \in [Ranks -> Places]
    BY <1>2 DEF Places
  <2>3. trained' \in [1..Rows -> 0..PpoEpochs]
    <3>1. DOMAIN trained' = 1..Rows
      BY <1>2, <2>1
    <3> DEFINE gain(row) == trained[row] + Cardinality({r \in Ranks :
                                        CollectMask(r) /\ \E i \in DOMAIN out[r] : out[r][i] = row})
    <3>2. trained' = [row \in 1..Rows |-> gain(row)]
      BY <1>2, <2>1
    <3> HIDE DEF gain
    <3> QED
      BY <1>13, <3>2
  <2>4. DOMAIN todo' = Ranks
    BY <1>2
  <2> QED
    BY <2>1, <2>2, <2>3, <2>4 DEF TypeInv
<1>15. OrderInv'
  BY <1>1, <1>2 DEF OrderInv, IsPermutation
<1>16. WorkInv'
  BY <1>2, <1>5, <1>11, <1>13 DEF WorkInv
<1>17. ResultsInv' /\ EpochsCoverBatch'
  BY <1>2, <1>5 DEF IInv, ResultsInv, EpochsCoverBatch
<1>18. \A r \in Ranks : /\ micro'[r] = <<>>
                        /\ todo'[r] = <<>> <=> ~(Len(todo[r]) > 1)
                        /\ at'[r] = IF Len(todo[r]) > 1 THEN "start" ELSE "done"
  <2> TAKE r \in Ranks
  <2> DEFINE A == Seq(1..Rows)
             s == todo[r]
  <2>1. s \in Seq(A) /\ s # <<>>
    BY <1>5, <1>7
  <2> HIDE DEF A, s
  <2>2. Tail(s) = <<>> <=> ~(Len(s) > 1)
    BY <2>1, TailFacts
  <2>3. todo'[r] = Tail(s)
    BY <1>2 DEF s
  <2>4. micro'[r] = <<>>
    BY <1>2, <1>8
  <2> QED
    BY <1>2, <2>2, <2>3, <2>4 DEF s
<1>19. CallInv'
  <2>1. CASE Len(todo[0]) > 1
    <3>1. \A r \in Ranks : Len(todo[r]) > 1
      BY <1>3, <1>7, <2>1
    <3>2. Gathering'
      BY <1>18, <3>1 DEF Gathering
    <3> QED
      BY <1>2, <1>4, <3>2 DEF CallInv, InCall
  <2>2. CASE ~(Len(todo[0]) > 1)
    <3>1. \A r \in Ranks : ~(Len(todo[r]) > 1)
      BY <1>3, <1>7, <2>2
    <3>2. \A r \in Ranks : at'[r] = "done" /\ micro'[r] = <<>> /\ todo'[r] = <<>>
      BY <1>18, <3>1
    <3>3. pc' = "updating"
      BY <1>2, <1>5
    <3>4. Finished'
      BY <3>2, <3>3 DEF Finished
    <3> QED
      BY <1>2, <1>4, <3>4 DEF CallInv, InCall
  <2> QED
    BY <2>1, <2>2
<1> QED
  BY <1>14, <1>15, <1>16, <1>17, <1>19 DEF IInv

LEMMA StutterInv ==
    ASSUME IInv, UNCHANGED vars
    PROVE  IInv'
<1>1. /\ lens' = lens /\ conf' = conf /\ pc' = pc /\ order' = order /\ todo' = todo
      /\ results' = results /\ trained' = trained /\ at' = at /\ count' = count
      /\ micro' = micro /\ idx' = idx /\ out' = out
  BY DEF vars, callVars
<1>2. TypeInv /\ CallInv
  BY DEF IInv
<1>3. TypeInv' /\ OrderInv' /\ WorkInv' /\ ResultsInv' /\ EpochsCoverBatch'
  <2>1. /\ at' \in [Ranks -> Places] /\ DOMAIN count' = Ranks /\ DOMAIN micro' = Ranks
        /\ DOMAIN idx' = Ranks /\ DOMAIN out' = Ranks
    BY <1>1, <1>2 DEF TypeInv
  <2> QED
    BY <1>1, <2>1, Framed
<1>4. \A r : /\ Plan(r)' = Plan(r) /\ Planned(r)' = Planned(r)
             /\ \A p : Progress(r, p)' = Progress(r, p)
  BY <1>1, PlanKept
<1>5. \A r : MicroBatchCount(LensOf(Head(todo[r])), Limit)' = MicroBatchCount(LensOf(Head(todo[r])), Limit)
  <2>1. \A r : LensOf(Head(todo[r]))' = LensOf(Head(todo[r]))
    BY <1>1 DEF LensOf
  <2> QED
    BY <2>1 DEF Limit, MicroBatchCount, Min, CeilDiv, Tokens
<1>6. Gathering => Gathering'
  BY <1>1, <1>4, <1>5 DEF Gathering
<1>7. Passing => Passing'
  BY <1>1, <1>4 DEF Passing
<1>8. \A r : Through(r) => Through(r)'
  <2> TAKE r
  <2> HAVE Through(r)
  <2>1. todo[r] # <<>> /\ Planned(r) /\ Progress(r, Len(Plan(r)))
    BY DEF Through
  <2>2. Progress(r, Len(Plan(r)))'
    BY <1>1, <1>4, <2>1 DEF Progress
  <2> QED
    BY <1>1, <1>4, <2>1, <2>2 DEF Through
<1>9. Stepping => Stepping'
  BY <1>1, <1>8 DEF Stepping
<1>10. Finished => Finished'
  BY <1>1, <1>8 DEF Finished
<1>11. CallInv'
  BY <1>1, <1>2, <1>6, <1>7, <1>9, <1>10 DEF CallInv, InCall
<1> QED
  BY <1>3, <1>11 DEF IInv

\* The invariant is inductive.
THEOREM Invariance == Spec => []IInv
<1>1. ASSUME IInv, [Next]_vars PROVE IInv'
  <2>1. CASE Balance
    BY <1>1, <2>1, BalanceInv
  <2>2. CASE Compute
    BY <1>1, <2>2, ComputeInv
  <2>3. CASE CollectResults
    BY <1>1, <2>3, CollectResultsInv
  <2>4. CASE Update
    BY <1>1, <2>4, UpdateInv
  <2>5. CASE CollectMetrics
    BY <1>1, <2>5, CollectMetricsInv
  <2>6. CASE \E r \in Ranks : Prepare(r)
    BY <1>1, <2>6, PrepareInv
  <2>7. CASE Agree
    BY <1>1, <2>7, AgreeInv
  <2>8. CASE Pass
    BY <1>1, <2>8, PassInv
  <2>9. CASE OptimizerStep
    BY <1>1, <2>9, OptimizerStepInv
  <2>10. CASE Stopped
    BY <1>1, <2>10, StutterInv DEF Stopped
  <2>11. CASE UNCHANGED vars
    BY <1>1, <2>11, StutterInv
  <2> QED
    BY <1>1, <2>1, <2>2, <2>3, <2>4, <2>5, <2>6, <2>7, <2>8, <2>9, <2>10, <2>11 DEF Next
<1> QED
  BY <1>1, InitInv, PTL DEF Spec

-------------------------------------------------------------------------------
(* What the invariant says.                                                *)

\* A rank has no micro-batch left, or those after the first p of its plan.
Within(r) ==
    /\ InCall /\ todo[r] # <<>> /\ Planned(r)
    /\ \E p \in Nat : p < Len(Plan(r)) /\ Progress(r, p)

LEMMA WhereRank ==
    ASSUME IInv, NEW r \in Ranks
    PROVE  /\ micro[r] = <<>> \/ Within(r)
           /\ at[r] = "pass" => Within(r)
<1>1. TypeInv /\ OrderInv /\ WorkInv /\ CallInv
  BY DEF IInv
<1>2. CASE ~InCall
  BY <1>1, <1>2 DEF CallInv
<1>3. CASE InCall /\ Gathering
  <2>1. todo[r] # <<>>
    BY <1>3 DEF Gathering
  <2>2. CASE at[r] = "pass" /\ Planned(r) /\ Progress(r, 0)
    <3> DEFINE P == Plan(r)
               h == Head(todo[r])
               m == Len(h)
               k == Len(P)
    <3>1. h \in Seq(1..Rows) /\ h # <<>>
      <4>1. \E l \in 1..Rows : HeadsAlike(l)
        BY <1>1, <1>3, TodoFacts DEF OrderInv
      <4> QED
        BY <2>1, <4>1 DEF HeadsAlike
    <3>2. IsPartition(P, m, k)
      BY <2>2 DEF Planned
    <3> HIDE DEF P, h
    <3>3. 1 \in 1..m
      BY <3>1
    <3>4. P \in Seq(Seq(1..m)) /\ \E i \in 1..k : \E x \in 1..Len(P[i]) : P[i][x] = 1
      <4> HIDE DEF m, k
      <4> QED
        BY <3>2, <3>3 DEF IsPartition
    <3>5. 0 < k
      <4>1. k \in Nat
        BY <3>4
      <4> QED
        BY <3>4, <4>1
    <3> QED
      BY <1>3, <2>1, <2>2, <3>5 DEF Within, P
  <2>3. CASE at[r] # "pass" /\ micro[r] = <<>>
    BY <2>3
  <2> QED
    BY <1>3, <2>2, <2>3 DEF Gathering
<1>4. CASE InCall /\ Passing
  <2>1. PICK n \in 1..Rows : \E p \in 0..(n - 1) :
            \A s \in Ranks : /\ at[s] = "pass" /\ todo[s] # <<>>
                             /\ Len(Plan(s)) = n /\ Planned(s) /\ Progress(s, p)
    BY <1>4 DEF Passing
  <2>2. PICK p \in 0..(n - 1) :
            \A s \in Ranks : /\ at[s] = "pass" /\ todo[s] # <<>>
                             /\ Len(Plan(s)) = n /\ Planned(s) /\ Progress(s, p)
    BY <2>1
  <2>3. p \in Nat /\ p < n
    BY Sizes
  <2> QED
    BY <1>4, <2>2, <2>3 DEF Within
<1>5. CASE InCall /\ Stepping
  BY <1>5, ThroughDone DEF Stepping
<1>6. CASE InCall /\ Finished
  BY <1>6 DEF Finished
<1> QED
  BY <1>1, <1>2, <1>3, <1>4, <1>5, <1>6 DEF CallInv

\* The micro-batches that are left are parts of the plan.
LEMMA PartsLeft ==
    ASSUME IInv, NEW r \in Ranks
    PROVE  /\ \A k \in DOMAIN micro[r] : micro[r][k] # <<>>
           /\ InCall /\ conf.dynamic => \A k \in DOMAIN micro[r] :
                 Tokens(micro[r][k], LensOf(Head(todo[r]))) < Limit + Longest
           /\ at[r] = "pass" => micro[r] # <<>>
<1>1. CASE Within(r)
  <2>1. PICK p \in Nat : p < Len(Plan(r)) /\ Progress(r, p)
    BY <1>1 DEF Within
  <2> DEFINE n == Len(Plan(r))
  <2>2. Planned(r)
    BY <1>1 DEF Within
  <2>3. n \in Nat
    <3>1. Plan(r) \in Seq(Seq(1..Len(Head(todo[r]))))
      BY <2>2 DEF Planned, IsPartition
    <3> QED
      BY <3>1
  <2>4. n = Len(Plan(r)) /\ p <= n /\ p < n
    BY <2>1, <2>3
  <2>5. conf.dynamic => \A k \in 1..n : Tokens(Plan(r)[k], LensOf(Head(todo[r]))) < Limit + Longest
    BY <2>2 DEF Planned
  <2> HIDE DEF n
  <2>6. /\ micro[r] = <<>> <=> p = n
        /\ \A k \in DOMAIN micro[r] :
              p + k \in 1..n /\ micro[r][k] = Plan(r)[p + k] /\ micro[r][k] # <<>>
    <3>1. InProgress(r, n, p)
      BY <2>1, <2>2, <2>4, ProgressFacts
    <3> QED
      BY <3>1 DEF InProgress
  <2>7. conf.dynamic => \A k \in DOMAIN micro[r] :
            Tokens(micro[r][k], LensOf(Head(todo[r]))) < Limit + Longest
    <3> HAVE conf.dynamic
    <3> TAKE k \in DOMAIN micro[r]
    <3>1. p + k \in 1..n /\ micro[r][k] = Plan(r)[p + k]
      BY <2>6
    <3> QED
      BY <2>5, <3>1
  <2> QED
    BY <2>4, <2>6, <2>7
<1>2. CASE micro[r] = <<>> /\ ~Within(r)
  <2>1. DOMAIN micro[r] = {} /\ at[r] # "pass"
    BY <1>2, WhereRank
  <2> QED
    BY <2>1
<1> QED
  BY <1>1, <1>2, WhereRank

LEMMA InvariantTypeOK == IInv => TypeOK
<1> SUFFICES ASSUME IInv PROVE TypeOK
  OBVIOUS
<1>1. TypeInv /\ OrderInv /\ WorkInv /\ CallInv
  BY DEF IInv
<1>2. ASSUME NEW r \in Ranks, InCall, at[r] # "done" PROVE todo[r] # <<>>
  BY <1>1, <1>2 DEF CallInv, Gathering, Passing, Stepping, Finished, Through
<1>3. ASSUME NEW r \in Ranks, at[r] = "agree" PROVE count[r] \in 1..Len(Head(todo[r]))
  <2> DEFINE h == Head(todo[r])
             length == LensOf(h)
  <2>1. InCall /\ Gathering
    BY <1>1, <1>3, AtStart
  <2>2. todo[r] # <<>> /\ count[r] = MicroBatchCount(length, Limit)
    BY <1>3, <2>1 DEF Gathering
  <2>3. h \in Seq(1..Rows) /\ h # <<>>
    <3>1. \E l \in 1..Rows : HeadsAlike(l)
      BY <1>1, <2>1, TodoFacts DEF OrderInv
    <3> QED
      BY <2>2, <3>1 DEF HeadsAlike
  <2> HIDE DEF h
  <2>4. PICK even \in BOOLEAN : ~even
    OBVIOUS
  <2>5. lens \in [1..Rows -> Lengths]
    BY <1>1 DEF TypeInv
  <2>6. IsLengths(length) /\ Len(length) = Len(h) /\ length # <<>>
    BY <2>3, <2>4, <2>5, LensOfFacts
  <2> HIDE DEF length
  <2>7. MicroBatchCount(length, Limit) \in 1..Len(length)
    <3>1. Limit \in Nat \ {0}
      BY Sizes
    <3> QED
      BY <2>6, <3>1, MicroBatchCountFacts
  <2> QED
    BY <2>2, <2>6, <2>7 DEF h
<1>4. \A r \in Ranks :
          /\ at[r] = "pass" => micro[r] # <<>>
          /\ \A k \in DOMAIN micro[r] : micro[r][k] # <<>>
  BY PartsLeft
<1> QED
  BY <1>1, <1>2, <1>3, <1>4 DEF TypeOK, TypeInv, Places

\* No rank enters a collective another will not.
LEMMA InvariantLockstep == IInv => RanksInLockstep
<1> SUFFICES ASSUME IInv, NEW r \in Ranks, NEW s \in Ranks
             PROVE  /\ InCall => Len(todo[r]) = Len(todo[s])
                    /\ at[r] = "pass" /\ at[s] = "pass" => Len(micro[r]) = Len(micro[s])
                    /\ at[r] = "pass" => at[s] \notin {"step", "done", "agree"}
  BY DEF RanksInLockstep
<1>1. TypeInv /\ OrderInv /\ WorkInv /\ CallInv /\ IsPermutation(order, Rows)
  BY DEF IInv, OrderInv
<1>2. InCall => Len(todo[r]) = Len(todo[s])
  BY <1>1, TodoFacts
<1>3. ASSUME at[r] = "pass" PROVE at[s] \notin {"step", "done", "agree"}
  BY <1>1, <1>3 DEF CallInv, Gathering, Passing, Stepping, Finished
<1>4. ASSUME at[r] = "pass", at[s] = "pass" PROVE Len(micro[r]) = Len(micro[s])
  <2>1. InCall /\ (Gathering \/ Passing)
    BY <1>1, <1>4 DEF CallInv, Stepping, Finished
  <2>2. PICK n, p \in Nat : p <= n /\ \A g \in {r, s} : Len(Plan(g)) = n /\ Planned(g) /\ Progress(g, p)
    <3>1. CASE Passing
      <4>1. PICK n \in 1..Rows : \E p \in 0..(n - 1) :
                \A g \in Ranks : Len(Plan(g)) = n /\ Planned(g) /\ Progress(g, p)
        BY <3>1 DEF Passing
      <4>2. PICK p \in 0..(n - 1) :
                \A g \in Ranks : Len(Plan(g)) = n /\ Planned(g) /\ Progress(g, p)
        BY <4>1
      <4>3. n \in Nat /\ p \in Nat /\ p <= n
        BY Sizes
      <4> QED
        BY <4>2, <4>3
    <3>2. CASE Gathering
      <4>1. \A g \in {r, s} : ~conf.dynamic /\ todo[g] # <<>> /\ Planned(g) /\ Progress(g, 0)
        BY <1>4, <3>2 DEF Gathering
      <4>2. PICK l \in 1..Rows : HeadsAlike(l)
        BY <1>1, <2>1, TodoFacts
      <4>3. l \in Nat \ {0}
        BY Sizes
      <4> DEFINE n == CeilDiv(l, MicroSize)
      <4>4. \A g \in {r, s} : Len(Plan(g)) = n /\ n \in 1..l
        <5> TAKE g \in {r, s}
        <5> DEFINE h == Head(todo[g])
                   P == Plan(g)
        <5>1. h \in Seq(1..Rows) /\ Len(h) = l
          BY <4>1, <4>2 DEF HeadsAlike
        <5>2. P = Split([i \in DOMAIN h |-> i], MicroSize)
          BY <4>1 DEF Plan
        <5> HIDE DEF h
        <5>3. DOMAIN h = 1..l
          BY <5>1
        <5>4. P = Split([i \in 1..l |-> i], MicroSize)
          BY <5>2, <5>3
        <5> HIDE DEF P
        <5>5. Len(P) = CeilDiv(l, MicroSize) /\ Len(P) \in 1..l
          BY <4>3, <5>4, StaticPlan
        <5> QED
          BY <5>5 DEF P
      <4> HIDE DEF n
      <4>5. n \in Nat /\ 0 \in Nat /\ 0 <= n
        BY <4>3, <4>4
      <4> QED
        BY <4>1, <4>4, <4>5
    <3> QED
      BY <2>1, <3>1, <3>2
  <2>3. \A g \in {r, s} : Len(micro[g]) = n - p
    <3> TAKE g \in {r, s}
    <3>1. g \in Ranks /\ n = Len(Plan(g)) /\ Planned(g) /\ Progress(g, p)
      BY <2>2
    <3>2. InProgress(g, n, p)
      BY <2>2, <3>1, ProgressFacts
    <3> QED
      BY <3>2 DEF InProgress
  <2> QED
    BY <2>3
<1> QED
  BY <1>2, <1>3, <1>4

\* The balance of the ranks' loads, and the limit for micro-batches.
LEMMA InvariantLoads == IInv => LoadsBounded
<1> SUFFICES ASSUME IInv PROVE LoadsBounded
  OBVIOUS
<1>1. TypeInv /\ OrderInv /\ WorkInv /\ CallInv
  BY DEF IInv
<1>2. ASSUME pc = "computing", conf.balance, NEW r \in Ranks, NEW s \in Ranks
      PROVE  Load(r) - Load(s) <= SpSize * (Longest - Shortest)
  <2> DEFINE k == DpSize * SpSize
             d == Longest - Shortest
             flat == BalancedOrder(lens, k)
  <2>1. Rows % k = 0 /\ order = flat
    BY <1>1, <1>2 DEF OrderInv
  <2>2. lens \in [1..Rows -> Lengths]
    BY <1>1 DEF TypeInv
  <2>3. d \in Nat /\ \E c \in Nat \ {0} : Rows = c * k /\ IsBalanced(flat, lens, k, c, d)
    BY <2>1, <2>2, BalancedBatch
  <2>4. PICK c \in Nat \ {0} : Rows = c * k /\ IsBalanced(flat, lens, k, c, d)
    BY <2>3
  <2>5. IsLengths(lens) /\ Len(lens) = Rows
    BY <2>2, LensFacts
  <2> HIDE DEF flat, d
  <2> DEFINE length == lens
  <2>6. IsLengths(length) /\ Len(length) = c * k /\ IsBalanced(flat, length, k, c, d)
    BY <2>4, <2>5
  <2> HIDE DEF length
  <2>7. LoadsEven(flat, length, SpSize * d)
    <3>1. k = DpSize * SpSize
      OBVIOUS
    <3> HIDE DEF k
    <3> QED
      BY <2>3, <2>6, <3>1, BalancedLoads
  <2>9. \A a, b \in 0..(DpSize - 1) :
            Tokens(Chunk(flat, a), length) - Tokens(Chunk(flat, b), length) <= SpSize * d
    BY <2>7 DEF LoadsEven
  <2>10. DpRank(r) \in 0..(DpSize - 1) /\ DpRank(s) \in 0..(DpSize - 1)
    BY RankFacts
  <2>11. \A g \in Ranks : Load(g) = Tokens(Chunk(flat, DpRank(g)), length)
    <3> TAKE g \in Ranks
    <3>1. todo[g] = <<Chunk(order, DpRank(g))>>
      BY <1>1, <1>2 DEF WorkInv
    <3>2. Head(todo[g]) = Chunk(flat, DpRank(g))
      BY <2>1, <3>1
    <3> QED
      BY <3>2 DEF Load, length
  <2> QED
    BY <2>9, <2>10, <2>11 DEF d
<1>3. ASSUME InCall, conf.dynamic, NEW r \in Ranks, NEW k \in DOMAIN micro[r]
      PROVE  Tokens(micro[r][k], LensOf(Head(todo[r]))) < MaxTokenLen * SpSize + Longest
  BY <1>3, PartsLeft DEF Limit
<1> QED
  BY <1>2, <1>3 DEF LoadsBounded

-------------------------------------------------------------------------------
(* The theorems.                                                           *)

\* A rank before a pass has a micro-batch for it, and none is empty.
THEOREM TypeCorrect == Spec => []TypeOK
  BY Invariance, InvariantTypeOK, PTL

\* No rank enters a collective another will not, whatever the sizes of the
\* batch and the groups, the lengths of the rows and the speeds of the ranks.
THEOREM Lockstep == Spec => []RanksInLockstep
  BY Invariance, InvariantLockstep, PTL

\* The column a call returns is in the order of the batch.
THEOREM RowOrder == Spec => []ResultsInRowOrder
<1>1. IInv => ResultsInRowOrder
  BY DEF IInv, ResultsInv, ResultsInRowOrder
<1> QED
  BY <1>1, Invariance, PTL

\* The loads of two ranks, and a micro-batch, are within their bounds.
THEOREM LoadBounds == Spec => []LoadsBounded
  BY Invariance, InvariantLoads, PTL

\* Every row that is trained on is in ppo_epochs optimizer steps.
THEOREM EveryRowTrained == Spec => []EpochsCoverBatch
<1>1. IInv => EpochsCoverBatch
  BY DEF IInv
<1> QED
  BY <1>1, Invariance, PTL
===============================================================================
