-------------------------------- MODULE Sorting --------------------------------
(***************************************************************************)
(* Sorting, as list.sort and np.lexsort do it.                             *)
(***************************************************************************)
EXTENDS Integers, FiniteSets, Sequences

\* The elements of S in order; ahead[x] is the set of those that come before x.
SortedBy(S, ahead) ==
    [k \in 1..Cardinality(S) |-> CHOOSE x \in S : Cardinality(ahead[x]) = k - 1]

\* s itself; TLC evaluates its elements here, and not each time they are read.
Evaluated(s) == SubSeq(s, 1, Len(s))

\* The sequence s in another order; ahead[i] is the set of the positions in s
\* that come before position i.
Arranged(s, ahead) ==
    LET place == SortedBy(DOMAIN s, ahead) IN Evaluated([k \in 1..Len(s) |-> s[place[k]]])
===============================================================================
