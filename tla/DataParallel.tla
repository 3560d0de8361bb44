----------------------------- MODULE DataParallel -----------------------------
(***************************************************************************)
(* A batch on its way through a worker group: the driver reorders it for   *)
(* balance, calls compute_log_prob or compute_values, which every rank     *)
(* answers for its chunk in micro-batches, and then update_actor or        *)
(* update_critic on the rows that are trained on                           *)
(* (verl/single_controller/, verl/protocol.py, verl/workers/actor/,        *)
(* verl/workers/critic/).                                                  *)
(*                                                                         *)
(* Ranks run on their own and meet in collectives: the all_reduce over the *)
(* number of micro-batches, the all-gathers of a forward or backward pass, *)
(* the norm of the gradients.  A collective takes place when every rank    *)
(* stands before one of its kind; a rank that misses one blocks the rest.  *)
(* A row is its index in the batch as gathered; what is computed from it   *)
(* is represented by the row itself.                                       *)
(***************************************************************************)
EXTENDS SeqlenBalancing

CONSTANTS
    DpSize,         \* data-parallel ranks of the group
    SpSize,         \* ulysses_sequence_parallel_size
    Rows,           \* rows of the batch
    Lengths,        \* their possible lengths
    TrainedSizes,   \* rows left after the value carriers and the warmup sample
    MaxTokenLen,    \* ppo_max_token_len_per_gpu
    MiniSize,       \* ppo_mini_batch_size, normalised per rank
    MicroSize,      \* ppo_micro_batch_size_per_gpu
    PpoEpochs       \* ppo_epochs

ASSUME SizesAssumption ==
    /\ {DpSize, SpSize, Rows, MaxTokenLen, MiniSize, MicroSize, PpoEpochs} \subseteq Nat \ {0}
    /\ TrainedSizes \subseteq 1..Rows
    /\ MiniSize % MicroSize = 0
    /\ Lengths \subseteq 1..(MaxTokenLen * SpSize)

Ranks     == 0..(DpSize * SpSize - 1)
DpRank(r) == r \div SpSize

VARIABLES
    lens,       \* row -> length
    conf,       \* [balance, dynamic]: trainer.balance_batch, use_dynamic_bsz
    pc,         \* the driver: before or in a call, or through
    order,      \* the batch: the rows in their order
    at,         \* rank -> where it stands
    todo,       \* rank -> mini-batches of this call that are left
    count,      \* rank -> the number of micro-batches it needs
    micro,      \* rank -> micro-batches of the current mini-batch that are left
    idx,        \* rank -> batch_idx_list
    out,        \* rank -> the rows passed in the current mini-batch
    results,    \* the column the call has returned
    trained     \* row -> optimizer steps its gradient was part of

callVars == <<at, todo, count, micro, idx, out>>
vars     == <<lens, conf, pc, order, callVars, results, trained>>

LensOf(rows) == [i \in DOMAIN rows |-> lens[rows[i]]]

-------------------------------------------------------------------------------
(* The driver.                                                             *)

\* _balance_batch asserts that the rows can be divided among all ranks.
Balance ==
    /\ pc = "balance"
    /\ IF conf.balance /\ Rows % (DpSize * SpSize) # 0
       THEN pc' = "raised" /\ UNCHANGED order
       ELSE /\ pc' = "compute"
            /\ order' = IF conf.balance THEN BalancedOrder(lens, DpSize * SpSize) ELSE order
    /\ UNCHANGED <<lens, conf, callVars, results, trained>>

\* DataProto.chunk
Chunk(rows, d) ==
    LET size == Len(rows) \div DpSize IN SubSeq(rows, d * size + 1, (d + 1) * size)

\* Mutant: a mini-batch that is not full is left out.
Split_FullOnly(rows, size) ==
    [k \in 1..(Len(rows) \div size) |-> SubSeq(rows, (k - 1) * size + 1, k * size)]

\* DataProto.split
Split(rows, size) ==
    [k \in 1..CeilDiv(Len(rows), size) |->
        SubSeq(rows, (k - 1) * size + 1, IF k * size < Len(rows) THEN k * size ELSE Len(rows))]

Repeated(batches, n) == FlattenSeq([e \in 1..n |-> batches])

\* dispatch_nd_compute: every rank of a sequence-parallel group gets the chunk
\* of the group, in an update cut into mini-batches.  A batch that cannot be divided is an AssertionError.
Call(next, rows, work) ==
    IF Len(rows) % DpSize = 0
    THEN /\ pc' = next
         /\ todo' = work
         /\ at' = [r \in Ranks |-> "start"]
         /\ UNCHANGED <<count, micro, idx, out>>
    ELSE /\ pc' = "raised"
         /\ UNCHANGED callVars

Compute ==
    /\ pc = "compute"
    /\ Call("computing", order, [r \in Ranks |-> <<Chunk(order, DpRank(r))>>])
    /\ UNCHANGED <<lens, conf, order, results, trained>>

\* The rows trained on are some of the batch; which ones does not matter here,
\* as any row may have any length.
Update ==
    /\ pc = "update"
    /\ \E n \in TrainedSizes :
          LET rows == SubSeq(order, 1, n)
          IN  Call("updating", rows, [r \in Ranks |->
                    Repeated(Split(Chunk(rows, DpRank(r)), MiniSize), PpoEpochs)])
    /\ UNCHANGED <<lens, conf, order, results, trained>>

\* collect_nd_compute_dataproto, from the first rank of each sequence-parallel
\* group; the outputs are put back into the order of the chunk.
Output(r) == IF conf.dynamic THEN Restore(out[r], idx[r]) ELSE out[r]

CollectMask(r) == r % SpSize = 0

AllDone == \A r \in Ranks : at[r] = "done"

CollectResults ==
    /\ pc = "computing"
    /\ AllDone
    /\ results' = FlattenSeq([i \in 1..DpSize |->
                    Output(CHOOSE r \in Ranks : CollectMask(r) /\ DpRank(r) = i - 1)])
    /\ pc' = "update"
    /\ UNCHANGED <<lens, conf, order, callVars, trained>>

CollectMetrics ==
    /\ pc = "updating"
    /\ AllDone
    /\ pc' = "done"
    /\ UNCHANGED <<lens, conf, order, callVars, results, trained>>

-------------------------------------------------------------------------------
(* The ranks.                                                              *)

\* A mini-batch is taken up.  With dynamic batches the ranks must agree on the
\* number of micro-batches first; otherwise the rows are split evenly.
Prepare(r) ==
    /\ at[r] = "start"
    /\ out' = [out EXCEPT ![r] = <<>>]
    /\ LET rows == Head(todo[r])
       IN  IF conf.dynamic
           THEN /\ count' = [count EXCEPT ![r] =
                                MicroBatchCount(LensOf(rows), MaxTokenLen * SpSize)]
                /\ at' = [at EXCEPT ![r] = "agree"]
                /\ UNCHANGED <<micro, idx>>
           ELSE /\ micro' = [micro EXCEPT ![r] = Split([i \in DOMAIN rows |-> i], MicroSize)]
                /\ at' = [at EXCEPT ![r] = "pass"]
                /\ UNCHANGED <<count, idx>>
    /\ UNCHANGED <<lens, conf, pc, order, todo, results, trained>>

Everyone(place) == \A r \in Ranks : at[r] = place

\* Mutant: the ranks of a data-parallel group keep their own numbers.
Agreed_Own(r) == count[r]

\* all_reduce with ReduceOp.MAX
Agreed(r) == CHOOSE n \in {count[s] : s \in Ranks} : \A s \in Ranks : count[s] <= n

Agree ==
    /\ Everyone("agree")
    /\ idx' = [r \in Ranks |-> MicroBatches(LensOf(Head(todo[r])), Agreed(r))]
    /\ micro' = idx'
    /\ at' = [r \in Ranks |-> "pass"]
    /\ UNCHANGED <<lens, conf, pc, order, todo, count, out, results, trained>>

\* One micro-batch through the model, forward and in an update backward.
Pass ==
    /\ Everyone("pass")
    /\ out' = [r \in Ranks |->
                out[r] \o [i \in DOMAIN Head(micro[r]) |-> Head(todo[r])[Head(micro[r])[i]]]]
    /\ micro' = [r \in Ranks |-> Tail(micro[r])]
    /\ at' = [r \in Ranks |-> CASE Len(micro[r]) > 1 -> "pass"
                                [] Len(micro[r]) <= 1 /\ pc = "computing" -> "done"
                                [] Len(micro[r]) <= 1 /\ pc = "updating" -> "step"]
    /\ UNCHANGED <<lens, conf, pc, order, todo, count, idx, results, trained>>

\* _optimizer_step
OptimizerStep ==
    /\ Everyone("step")
    /\ trained' = [row \in DOMAIN trained |->
                    trained[row] + Cardinality({r \in Ranks :
                                        CollectMask(r) /\ \E i \in DOMAIN out[r] : out[r][i] = row})]
    /\ todo' = [r \in Ranks |-> Tail(todo[r])]
    /\ at' = [r \in Ranks |-> IF Len(todo[r]) > 1 THEN "start" ELSE "done"]
    /\ UNCHANGED <<lens, conf, pc, order, count, micro, idx, out, results>>

-------------------------------------------------------------------------------

Init ==
    /\ lens \in [1..Rows -> Lengths]
    /\ conf \in [balance : BOOLEAN, dynamic : BOOLEAN]
    /\ pc = "balance"
    /\ order = [i \in 1..Rows |-> i]
    /\ at = [r \in Ranks |-> "done"]
    /\ todo = [r \in Ranks |-> <<>>]
    /\ count = [r \in Ranks |-> 0]
    /\ micro = [r \in Ranks |-> <<>>]
    /\ idx = [r \in Ranks |-> <<>>]
    /\ out = [r \in Ranks |-> <<>>]
    /\ results = <<>>
    /\ trained = [row \in 1..Rows |-> 0]

Stopped == pc \in {"done", "raised"} /\ UNCHANGED vars

Next ==
    \/ Balance \/ Compute \/ CollectResults \/ Update \/ CollectMetrics
    \/ \E r \in Ranks : Prepare(r)
    \/ Agree \/ Pass \/ OptimizerStep
    \/ Stopped

Spec == Init /\ [][Next]_vars

-------------------------------------------------------------------------------
(* Properties.                                                             *)

InCall == pc \in {"computing", "updating"}

\* Types; a rank before a pass has a micro-batch for it, and no micro-batch is
\* empty, as the assertions of seqlen_balancing demand.
TypeOK ==
    /\ lens \in [1..Rows -> Lengths]
    /\ conf \in [balance : BOOLEAN, dynamic : BOOLEAN]
    /\ pc \in {"balance", "compute", "computing", "update", "updating", "done", "raised"}
    /\ order \in [1..Rows -> 1..Rows]
    /\ at \in [Ranks -> {"start", "agree", "pass", "step", "done"}]
    /\ \A r \in Ranks :
          /\ InCall /\ at[r] # "done" => todo[r] # <<>>
          /\ at[r] = "agree" => count[r] \in 1..Len(Head(todo[r]))
          /\ at[r] = "pass" => micro[r] # <<>>
          /\ \A k \in DOMAIN micro[r] : micro[r][k] # <<>>
    /\ trained \in [1..Rows -> 0..PpoEpochs]

\* However the ranks cut their chunks into micro-batches and sorted those, the
\* column that is united with the batch has each row's result at its place.
ResultsInRowOrder == pc \in {"update", "updating", "done"} => results = order

Longest  == CHOOSE n \in {lens[i] : i \in DOMAIN lens} : \A i \in DOMAIN lens : lens[i] <= n
Shortest == CHOOSE n \in {lens[i] : i \in DOMAIN lens} : \A i \in DOMAIN lens : n <= lens[i]

Load(r) == Tokens(Head(todo[r]), lens)

\* What balancing promises: the loads of two ranks differ by no more than two
\* rows may (for each rank that shares a chunk), and a micro-batch exceeds the
\* token limit by less than one row.
LoadsBounded ==
    /\ pc = "computing" /\ conf.balance =>
          \A r, s \in Ranks : Load(r) - Load(s) <= SpSize * (Longest - Shortest)
    /\ InCall /\ conf.dynamic =>
          \A r \in Ranks : \A k \in DOMAIN micro[r] :
              Tokens(micro[r][k], LensOf(Head(todo[r]))) < MaxTokenLen * SpSize + Longest

\* No rank enters a collective another will not: ranks before a pass have
\* equally many left, and none is beyond the passes while another is in them.
RanksInLockstep ==
    \A r, s \in Ranks :
        /\ InCall => Len(todo[r]) = Len(todo[s])
        /\ at[r] = "pass" /\ at[s] = "pass" => Len(micro[r]) = Len(micro[s])
        /\ at[r] = "pass" => at[s] \notin {"step", "done", "agree"}

\* After an update every row that is trained on was part of exactly ppo_epochs
\* optimizer steps, whatever mini- and micro-batches it was in.  (A step whose
\* gradients have no finite norm is counted; norms are not modelled.)
EpochsCoverBatch ==
    pc = "done" =>
        \E n \in TrainedSizes :
            \A i \in 1..Rows : trained[order[i]] = IF i <= n THEN PpoEpochs ELSE 0
===============================================================================
