---------------------------- MODULE SeqlenBalancing ----------------------------
(***************************************************************************)
(* verl/utils/seqlen_balancing.py: the partitions of a batch into parts of *)
(* nearly equal length, with which fit evens out the load of the           *)
(* data-parallel ranks and a rank cuts its rows into micro-batches.        *)
(*                                                                         *)
(* lens is the sequence of the rows' lengths; a part is a set of rows, a   *)
(* sequence of their indices.                                              *)
(***************************************************************************)
EXTENDS SequencesExt, Sorting

-------------------------------------------------------------------------------
(* karmarkar_karp: the largest differencing method.                        *)

EmptySet == [sum |-> 0, items |-> <<>>]

\* Set.__lt__; two sets are compared by their first items last, and no two sets
\* share an item.
SetLess(a, b) ==
    \/ a.sum < b.sum
    \/ a.sum = b.sum /\ Len(a.items) < Len(b.items)
    \/ /\ a.sum = b.sum /\ Len(a.items) = Len(b.items) /\ a.items # <<>>
       /\ Head(a.items) < Head(b.items)

\* sorted(self.sets, reverse=True)
Decreasing(sets) ==
    Arranged(sets, [i \in DOMAIN sets |->
        {j \in DOMAIN sets : \/ SetLess(sets[i], sets[j])
                             \/ ~SetLess(sets[j], sets[i]) /\ j < i}])

\* State.__init__
StateOf(items, lens, k) ==
    Decreasing([i \in 1..k |->
        IF i <= Len(items) THEN [sum |-> lens[items[i]], items |-> <<items[i]>>] ELSE EmptySet])

MergeSets(a, b) == [sum |-> a.sum + b.sum, items |-> a.items \o b.items]

\* The largest set of one state with the smallest of the other.
Paired(s, t) == Evaluated([i \in 1..Len(s) |-> MergeSets(s[i], t[Len(s) + 1 - i])])

\* State.merge
Merge(s, t) == Decreasing(Paired(s, t))

Spread(s) == s[1].sum - s[Len(s)].sum

\* State.__lt__
PoppedBefore(s, t) ==
    \/ Spread(s) > Spread(t)
    \/ Spread(s) = Spread(t) /\ SetLess(t[1], s[1])

Pop(states) == CHOOSE s \in states : \A t \in states \ {s} : PoppedBefore(s, t)

MergeFirstTwo(states) ==
    LET s == Pop(states)
        t == Pop(states \ {s})
    IN  (states \ {s, t}) \cup {Merge(s, t)}

ByLength(lens) ==
    Evaluated(SortedBy(DOMAIN lens, [j \in DOMAIN lens |->
        {i \in DOMAIN lens : lens[i] < lens[j] \/ (lens[i] = lens[j] /\ i < j)}]))

\* With equal_size a state of k rows of neighbouring lengths, otherwise one of
\* each row.
InitialStates(lens, k, equal_size) ==
    LET sorted == ByLength(lens)
        size   == IF equal_size THEN k ELSE 1
    IN  {StateOf(SubSeq(sorted, (g - 1) * size + 1, g * size), lens, k) :
            g \in 1..(Len(lens) \div size)}

KarmarkarKarp(lens, k, equal_size) ==
    LET initial == InitialStates(lens, k, equal_size)
        after[n \in 0..Cardinality(initial) - 1] ==
            IF n = 0 THEN initial ELSE MergeFirstTwo(after[n - 1])
        final == CHOOSE s \in after[Cardinality(initial) - 1] : TRUE
    IN  [i \in 1..k |-> final[i].items]

Ascending(rows) == Evaluated(SortedBy(rows, [i \in rows |-> {j \in rows : j < i}]))

\* get_seqlen_balanced_partitions
BalancedPartitions(lens, k, equal_size) ==
    LET parts == KarmarkarKarp(lens, k, equal_size)
    IN  Evaluated([i \in 1..k |-> Ascending(ToSet(parts[i]))])

\* Mutant: the rows are sorted by length and not dealt out.
BalancedOrder_Sorted(lens, k) == ByLength(lens)

\* _balance_batch: the order in which the rows are chunked over k ranks.
BalancedOrder(lens, k) == FlattenSeq(BalancedPartitions(lens, k, TRUE))

-------------------------------------------------------------------------------
(* rearrange_micro_batches and restore_dynamic_batch.                      *)

Tokens(part, lens) == SumFunctionOnSet(lens, ToSet(part))
Workload(part, lens) == SumFunctionOnSet([i \in DOMAIN lens |-> lens[i] * lens[i]], ToSet(part))

\* Mutant: rounded down.
CeilDiv_Floor(a, b) == a \div b

CeilDiv(a, b) == -((-a) \div b)

\* num_micro_batches, before the ranks agree on a number.
MicroBatchCount(lens, max_token_len) ==
    Min({Len(lens), CeilDiv(Tokens([i \in DOMAIN lens |-> i], lens), max_token_len)})

\* micro_bsz_idx: the heaviest micro-batch first.
MicroBatches(lens, n) ==
    LET parts == BalancedPartitions(lens, n, FALSE)
        work  == Evaluated([i \in 1..n |-> Workload(parts[i], lens)])
    IN  Arranged(parts, [i \in 1..n |->
            {j \in 1..n : \/ work[j] > work[i]
                          \/ work[j] = work[i] /\ parts[j][1] > parts[i][1]}])

\* Mutant: the index list is applied again instead of inverted.
ReverseIdx_Forward(idx_map) == idx_map

\* get_reverse_idx
ReverseIdx(idx_map) ==
    [j \in DOMAIN idx_map |-> CHOOSE i \in DOMAIN idx_map : idx_map[i] = j]

\* restore_dynamic_batch
Restore(data, batch_idx_list) ==
    LET revert == ReverseIdx(FlattenSeq(batch_idx_list))
    IN  [j \in DOMAIN data |-> data[revert[j]]]
===============================================================================
