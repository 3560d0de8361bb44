----------------------------- MODULE BatchExecutor -----------------------------
(***************************************************************************)
(* BatchExecutor and its callers                                           *)
(* (verl/experimental/agent_loop/agent_loop.py): the agent loop workers    *)
(* have every row of their rollout scored by the reward model, one row     *)
(* after the other; a thread of the executor collects the rows of all      *)
(* workers into batches.                                                   *)
(*                                                                         *)
(* AgentLoopManager's batch_fn concatenates the items, has the reward      *)
(* model's ranks score them and splits the result: the executor gets       *)
(* results in the order of the items, or an exception - always, when the   *)
(* items cannot be divided among the ranks.                                *)
(***************************************************************************)
EXTENDS Naturals, Sequences, FiniteSets

CONSTANTS
    Workers,    \* the agent loop workers
    RowCounts,  \* how many rows a worker's rollout may have
    Ranks,      \* rm_wg.world_size, which is the micro_batch_size
    MaxBatch,   \* max_batch_size; 0: None
    MayFail     \* may the batch function raise?  {FALSE} or BOOLEAN

ASSUME RanksAssumption == Ranks \in Nat \ {0} /\ MaxBatch \in Nat
ASSUME RowCountsAssumption == RowCounts \subseteq Nat \ {0}
ASSUME MayFailAssumption == MayFail \subseteq BOOLEAN
ASSUME WorkersAssumption == IsFiniteSet(Workers)

VARIABLES
    rows,       \* worker -> rows to be scored
    scores,     \* worker -> the scores it has got
    future,     \* worker -> the future of its latest row
    queue,      \* the executor's _q
    pc,         \* its thread: "first", "take", "fill" or "call"
    items       \* the batch being collected

workerVars == <<rows, scores, future>>
vars       == <<workerVars, queue, pc, items>>

\* A task is a row of a worker, and stands for its own score.
Task == [worker : Workers, row : Nat \ {0}]

-------------------------------------------------------------------------------
(* The workers: compute_score, reward_wrapper, submit_task.                *)

\* Mutant: one row too many is submitted.
Submit_PastEnd(w) ==
    /\ Len(scores[w]) <= rows[w]
    /\ future[w] = "set"
    /\ future' = [future EXCEPT ![w] = "pending"]
    /\ queue' = Append(queue, [worker |-> w, row |-> Len(scores[w]) + 1])
    /\ UNCHANGED <<rows, scores, pc, items>>

\* The next row is submitted once the last one has been scored.
Submit(w) ==
    /\ Len(scores[w]) < rows[w]
    /\ future[w] = "set"
    /\ future' = [future EXCEPT ![w] = "pending"]
    /\ queue' = Append(queue, [worker |-> w, row |-> Len(scores[w]) + 1])
    /\ UNCHANGED <<rows, scores, pc, items>>

-------------------------------------------------------------------------------
(* _worker_loop.                                                           *)

TakeFirst ==
    /\ pc = "first"
    /\ queue # <<>>
    /\ items' = <<Head(queue)>>
    /\ queue' = Tail(queue)
    /\ pc' = "take"
    /\ UNCHANGED workerVars

Full(batch) == MaxBatch > 0 /\ Len(batch) >= MaxBatch

\* get_nowait succeeds.
Take ==
    /\ pc = "take"
    /\ queue # <<>>
    /\ items' = Append(items, Head(queue))
    /\ queue' = Tail(queue)
    /\ pc' = IF Full(items') THEN "call" ELSE "take"
    /\ UNCHANGED workerVars

Divisible(batch) == Len(batch) % Ranks = 0

\* get_nowait raises queue.Empty.
FoundEmpty ==
    /\ pc = "take"
    /\ queue = <<>>
    /\ pc' = IF Divisible(items) THEN "call" ELSE "fill"
    /\ UNCHANGED <<workerVars, queue, items>>

\* The blocking get that completes the last micro batch.
Fill ==
    /\ pc = "fill"
    /\ queue # <<>>
    /\ items' = Append(items, Head(queue))
    /\ queue' = Tail(queue)
    /\ pc' = IF Full(items') \/ Divisible(items') THEN "call" ELSE "fill"
    /\ UNCHANGED workerVars

\* Mutant: results are handed out in reverse.
Answer_Reversed(batch, k) == batch[Len(batch) + 1 - k]

Answer(batch, k) == batch[k]

\* Mutant: an exception is set on the first future only.
Failed_FirstOnly(batch) == {batch[1].worker}

Failed(batch) == {batch[k].worker : k \in DOMAIN batch}

\* batch_func, and its results or its exception set on the items' futures.
Call ==
    /\ pc = "call"
    /\ \/ /\ Divisible(items)
          /\ future' = [w \in Workers |-> IF w \in Failed(items) THEN "set" ELSE future[w]]
          /\ scores' = [w \in Workers |->
                LET got == {k \in DOMAIN items : items[k].worker = w}
                IN  IF got = {} THEN scores[w]
                    ELSE Append(scores[w], Answer(items, CHOOSE k \in got : TRUE))]
       \/ /\ TRUE \in MayFail \/ ~Divisible(items)
          /\ future' = [w \in Workers |-> IF w \in Failed(items) THEN "raised" ELSE future[w]]
          /\ UNCHANGED scores
    /\ pc' = "first"
    /\ items' = <<>>
    /\ UNCHANGED <<rows, queue>>

-------------------------------------------------------------------------------

Init ==
    /\ rows \in [Workers -> RowCounts]
    /\ scores = [w \in Workers |-> <<>>]
    /\ future = [w \in Workers |-> "set"]
    /\ queue = <<>>
    /\ pc = "first"
    /\ items = <<>>

Executor == TakeFirst \/ Take \/ FoundEmpty \/ Fill \/ Call

Next == (\E w \in Workers : Submit(w)) \/ Executor

\* The workers' event loops and the executor's thread keep running.
Spec == /\ Init /\ [][Next]_vars
        /\ \A w \in Workers : WF_vars(Submit(w))
        /\ WF_vars(Executor)

-------------------------------------------------------------------------------
(* Properties.                                                             *)

\* Types, and that no worker gets more scores than it has rows.
TypeOK ==
    /\ rows \in [Workers -> RowCounts]
    /\ scores \in [Workers -> Seq(Task)]
    /\ \A w \in Workers : Len(scores[w]) <= rows[w]
    /\ future \in [Workers -> {"set", "pending", "raised"}]
    /\ queue \in Seq(Task)
    /\ pc \in {"first", "take", "fill", "call"}
    /\ items \in Seq(Task)

\* The row a worker waits for is in exactly one place, the queue or the batch
\* being collected, and whatever is there is waited for: no future is dropped,
\* and none is set twice, when the batch function raises either.
InFlight == queue \o items
EveryFutureInFlight ==
    /\ Len(InFlight) = Cardinality({w \in Workers : future[w] = "pending"})
    /\ \A w \in Workers :
          {InFlight[k].row : k \in {j \in DOMAIN InFlight : InFlight[j].worker = w}}
              = IF future[w] = "pending" THEN {Len(scores[w]) + 1} ELSE {}

\* A worker's scores are those of its own rows, in their order, however the
\* rows of the workers were batched.
OwnScores ==
    \A w \in Workers : \A k \in DOMAIN scores[w] : scores[w][k] = [worker |-> w, row |-> k]

\* Every row that is submitted is answered, by a score or an exception.
EveryRowAnswered == \A w \in Workers : future[w] = "pending" ~> future[w] # "pending"
===============================================================================
