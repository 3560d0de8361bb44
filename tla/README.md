# Verlog in TLA+

Verlog trains language-model agents with PPO on long multi-agent games: professors who
interview, vote and hire (`verl/envs/hiring_env`). It is a fork of verl. What it adds is a
rollout whose unit is the *turn*: several environments play concurrently, a shared counter
ends the rollout after a fixed number of turns and in the middle of episodes, and a
turn-level GAE assigns credit over the rows that are left. This directory models that loop,
its credit assignment, the batching of reward-model calls, the passage of a batch through a
data-parallel worker group, the switch of the same processes between training and rollout, and
the checkpoints around it all.

Paths below are relative to the repository's root (`src/` in `PROJECT.json`). Short names:
`agent_loop.py` and `tool_agent_loop.py` are in `verl/experimental/agent_loop/`,
`ray_trainer.py` and `core_algos.py` in `verl/trainer/ppo/`.

## 1. Inventory

### Components that are modelled

**Environment wrapper** (`verl/envs/hiring_env_wrapper.py`).
State: the last observation and info, and whether the episode is over. Operations: `reset`,
`step`, `get_last_obs`. A step after the end of an episode is not passed on: it becomes a
reset with reward 0.0. Correct when the loop above it always acts on the observation that
the environment is really in, as the agent whose turn it is.

**Turn counter** (`Counter`, `agent_loop.py:100`). A Ray actor with `num_turns` and
`batch_size`, reset by the manager and incremented by all workers. An increment is accepted
up to the batch size and says whether it was the last. Correct when granted turns and rows
correspond exactly.

**Agent loop** (`ToolAgentLoop.run`, `tool_agent_loop.py:512-876`). One per worker. State:
the environment (training and validation ones, owned by the worker and kept over rollouts),
the acting agent, the messages, `outputs`, `episode_last_row`. It reserves a turn, generates,
steps, appends a row, and at an episode's end delivers every agent's utility to that agent's
latest row. On leaving it appends three bootstrap rows that carry a value for the trainer.
Correct when every utility reaches the right row once and no row of one episode passes for
one of another.

**Rollout manager** (`AgentLoopManager.generate_sequences`, `agent_loop.py:1004-1052`).
Resets the counter, dispatches to all workers, waits for all with `ray.get`, concatenates.
Correct when it returns exactly the number of real rows that the trainer asked for, or raises.

**Turn-level GAE and the trained rows** (`compute_advantage` and `get_/remove_...multiagent`
in `ray_trainer.py:81-143, 262-308`; `compute_gae_advantage_return_core`,
`core_algos.py:270`). Pure functions on a batch, which they cut into chains of
(environment, agent) ordered by turn. Correct when a row's advantage is the discounted sum of
its own agent's temporal differences up to the end of its own episode, and when the rows
dropped are the ones that only carry a value.

**Reward batching** (`BatchExecutor`, `agent_loop.py:360-428`, called from 754-786). A
thread that collects rows of all workers from a queue until their number divides among the
reward model's ranks. State: the queue, the items collected, the futures. Correct when each
row gets its own score or the exception, and gets it at all.

**Training loop and checkpoints** (`RayPPOTrainer.fit`, `_save_checkpoint`,
`_load_checkpoint`; `verl/utils/checkpoint/`). State in memory: step, epoch, position in the
data, models, the paths this run may rotate out. State on disk: three files per rank and part,
`data.pt`, the tracker file; each is written in its final place. Correct when a killed job resumes with the models and the data position of
one and the same step.

**A batch in a worker group** (`verl/single_controller/`, `verl/protocol.py`,
`verl/utils/seqlen_balancing.py`, `verl/workers/fsdp_workers.py`, `verl/workers/actor/`,
`verl/workers/critic/`). The driver may reorder the rows so that all ranks have about equally
many tokens; a call cuts the batch into chunks by data-parallel rank; every rank cuts its chunk
into mini-batches and micro-batches, of a fixed number of rows or of a number of tokens, and
puts its outputs back in order; the driver concatenates one output per sequence-parallel
group. State: where each rank stands between its collectives, and what it has left to pass.
Correct when no rank enters a collective that another leaves out, every row's result comes
back to that row, and an update trains on every row once in every epoch.

**Hybrid engine** (`AgentLoopManager.wake_up` and `sleep`, `agent_loop.py:1120-1132`;
`verl/workers/rollout/replica.py`, `vllm_rollout/`; `rollout_mode` and `trainer_mode`,
`fsdp_workers.py:636-735`). One process holds a shard of the actor and a worker of an inference
engine. Before a rollout every rank of every replica is woken: it gathers the parameters one by
one, which all ranks have to do together, loads them into its engine, and changes the random state
of the device for the one of generation. After it the prefix cache is reset, the engine's memory
released and the random state changed back. State: the memory of the engines, their prefix caches,
the two random states. Correct when every token comes from the actor as it is at the call, the two
random states survive each other, and no rank waits for a replica that is not woken.

### How they interact

```
 fit --generate_sequences--> manager --run--> worker 1..n --step/reset--> environment 1..n
  |                            |                  |  \
  |                         reset            increment \--generate--> LLM server
  |                            v                  v
  |                            +---> Counter <----+      \--score--> BatchExecutor
  |<--- rows, bootstrap rows --+                                       |
  |                                                              batch function
  +--> balance --> log probs, values --> GAE --> drop bootstrap rows --> update --> checkpoint
            \____ rank 0..n-1 in lockstep, chunk by chunk ____/             |           |
                                                              weights, at wake_up    disk
```

The agent-loop workers are concurrent processes that share the counter, the LLM servers and the
executor, and nothing else. The executor's thread and the workers talk through a queue and
futures. The ranks of a worker group run the same program on different rows and meet in
collectives. The trainer and the checkpoints share the disk with earlier and later runs of the
same job.

### What is hard

- Concurrency: workers race for the last turns of the budget (`tool_agent_loop.py:585`); rows
  of different workers share a scoring batch; replicas wake and sleep concurrently.
- State that outlives a call: a training episode is cut by the budget and resumed by the next
  rollout, with a validation call in between.
- Order: which row is last in a chain is decided in three places by three functions; a batch is
  reordered for balance, cut, sorted by workload and put back.
- Waiting: `ray.get` on every worker, a blocking `queue.get` for the rest of a batch, collectives
  that every rank has to enter equally often, in an update and in the loading of weights.
- Crashes: between any two of some thirty file operations of a checkpoint and inside them, over
  files that are being replaced in place.
- Caches: engine weights and prefixes that outlive the model they were made from.
- Limits: more workers than turns, empty responses, more professors than bootstrap rows, batches
  that the ranks do not divide.

`hazards` in `PROJECT.json` lists these at their lines with the properties that cover them.

### Components that are not modelled

Section 6 says why. In short: `AsyncLLMServerManager`; prompts, loop detection, votes and the
diagnosis of a turn; episode and game logs; the admissions game and the other games; validation
metrics; reward managers, losses, the other estimators, mismatch weights; entry points; reward
model workers; requests to the vLLM and SGLang servers; the sharding managers; the one-step-off
trainer, which cannot finish a step (section 5); Megatron workers, engines
and checkpoints; tools, interactions and other agent loops; datasets, the model merger, other
recipes, scripts, the monitor and the analysis; activation offloading; models and kernels.

## 2. Modules

| Module | Models | Uses |
|---|---|---|
| `EnvWrapper` | the wrapper over an external environment, as operators on its state | |
| `Rollout` | counter, agent loops, manager | `EnvWrapper` |
| `TurnBudget` | abstract: turns 1..N are granted once, delivered, and the rollout closes when all are | |
| `Advantage` | chains, both passes of GAE, removal of value carriers, as operators | `Sorting` |
| `Sorting` | `list.sort` and `np.lexsort`, as operators | |
| `AdvantageStep` | what `fit` does with one batch, for every small batch | `Advantage` |
| `Credit` | rows of a rollout as a batch of GAE | `Rollout`, `Advantage` |
| `BatchExecutor` | the executor's thread and its callers | |
| `Trainer` | `fit` over the runs of a job, saving, loading, crashes | |
| `SeqlenBalancing` | balanced partitions and micro-batches by tokens, as operators | `Sorting` |
| `DataParallel` | a batch through a worker group, rank by rank | `SeqlenBalancing` |
| `HybridEngine` | ranks that switch between training and rollout, under the calls of `fit` | |
| `MCRollout`, `MCAdvantage`, `MCTrainer` | constants and symmetry for TLC | |
| `InductionFacts` | lemmas for induction and recursion, sums, sorting, concatenation | TLAPS |
| `RolloutProofs` | theorems about `Rollout` and `Credit` | `AdvantageProofs` |
| `AdvantageProofs` | what the operators of `Advantage` compute | `InductionFacts` |
| `AdvantageStepProofs` | theorems about `AdvantageStep` | `AdvantageProofs` |
| `BatchExecutorProofs` | theorems about `BatchExecutor` | TLAPS |
| `TrainerProofs` | theorems about `Trainer` | TLAPS |
| `DataParallelProofs` | theorems about `SeqlenBalancing` and `DataParallel` | `InductionFacts` |
| `HybridEngineProofs` | theorems about `HybridEngine` | TLAPS |

### Rollout and EnvWrapper against the code

| Code | Model |
|---|---|
| `Counter.num_turns`, `.batch_size` | `counter` |
| `self.env`, `self.val_env` of a worker | `env`, `valEnv`; `CurrentEnv` is the choice at `agent_loop.py:642` |
| where `run` awaits | `pc`: `start`, `reserve` (awaiting `increment`), `generate` (awaiting the server), `finished`, `crashed` |
| `agent_id`, `messages` | `agent`, `obs` |
| `reserved_turn_fills_counter`, `episode_last_row`, `outputs` | `fills`, `lastRow` (0: no entry), `outputs` |
| code up to the loop | `Begin` |
| `increment` and its two answers | `Reserve`, `Rejected` |
| one iteration, from `generate` to the bottom | `Turn` |
| `generate_sequences` of the manager | `Dispatch`, `Gather`, `Fail` |

`Turn` is one action although the code awaits inside it: nothing a worker touches between two
of its counter calls is visible to another worker. An observation is reduced to its episode
and to whether it is the terminal one; an action to who took it; a reward to how often the
agent's own terminal utility was added (the dict reward that the environment returns exactly
when it really ended). The row fields `episode` and `slot` and the variable `slot` are
history: no guard reads them. `get_last_obs` never takes its fallback branch because
`AgentLoopWorker.__init__` resets each environment first. Prompt truncation, retries inside
the inference engine and profiling are left out. Rewards of steps inside an episode stay on
their own row in the code and are left out; only terminal utilities are routed between rows.

### Advantage against the code

Rewards and values become integers, one number per row. A row's reward sits on its last token,
and a token's advantage depends on the token only through the value that is subtracted, so a
row has one `Returns`. Everything computed is linear in rewards and values; `AdvantageStep`
therefore enumerates unit vectors instead of all vectors. In the discounts it is polynomial;
Gamma = 2 and Lambda = 3 keep different powers apart, so exponents cannot be confused.
`masked_whiten`, an affine map, is left out. The single-agent path is never taken, since this
agent loop gives every row an `agent_id`.

`Credit` concatenates the workers' rows as `DataProto.concat` does and applies both operators
to them. The trainer needs the number of rows exactly: `fit` builds a batch of the prompts and
three times `num_envs` copies and unites it with the rows, which fails for any other number.
`ExactBatch` is that number, with `StripLeavesRealRows` for what remains.

### Trainer against the code

| Code | Model |
|---|---|
| a new process; `_load_checkpoint`, `find_latest_ckpt_path` | `Start`, `Forget`; `Load`, `LoadFrom`, `Loadable` |
| one batch of `fit`; the end of an epoch; the bottom of the loop | `TrainStep`, `EndEpoch`, `NextStep` |
| the decision to save | `Saves`, `Resumable`, `AfterPart` |
| `FSDPCheckpointManager.save_checkpoint`: rotation on rank 0, the folder, a barrier | `Rotate`, `Oldest` |
| `torch.save` of model, optimizer, extra state of a rank, in this order | `OpenFile`, `WriteFile` |
| the barrier behind them, `previous_saved_paths.append` | `EndPart` |
| `torch.save` of `data.pt`; `open(tracker, "w")` and the write | `OpenData`, `WriteData`; `TruncateTracker`, `WriteTracker` |
| the process is killed, also within `shutil.rmtree` | `Crash`, `CrashRotating` |

A model is the number of updates in it and the run that made the last one, an optimizer and a
scheduler likewise: each goes into a file of its own, so `model` has an entry per part, rank and
file. No file of a checkpoint is written aside and renamed: every one is opened in its final
place, which empties it if it was there, and written afterwards, two steps between which the run
can be killed. `Nothing` is what a shard file holds in between, `Torn` what `data.pt` does, and
`EmptyTracker` what the tracker does. Which files a checkpoint consists of (`save_contents`) is the
constant `Files`, the same for all runs of a job. `Crash` can come between any two steps and
leaves the disk; `CrashRotating` leaves any of the files about to be deleted. A step makes one
update of each model. Validation and HDFS are left out.

`manuals` is history and only `Start` reads it, for the bound `MaxManual`: it counts the runs that
were told to start from scratch or from a path instead of resuming automatically. Such a run may go
over the step of the tracked checkpoint again, and what is promised afterwards (`manual`) is less.
The data position belongs to the step only in jobs without such a run, since a folder chosen by
hand may lack `data.pt`, and then the data starts from the front. A tracked checkpoint that such a
run writes over has all its files at every moment, and each written one is of that step; but the
one being written is torn if the run is killed, and the others may be of either run.

### BatchExecutor against the code

`first` is the blocking `get`, `take` the loop of `get_nowait`, `fill` the blocking gets that
complete a micro batch, `call` the batch function with the setting of results. A worker has at
most one row in flight, because `compute_score` of a row is awaited before the next
(`agent_loop.py:754-786`).

### DataParallel and SeqlenBalancing against the code

| Code | Model |
|---|---|
| `_balance_batch`, `karmarkar_karp`, `get_seqlen_balanced_partitions` | `Balance`, `BalancedOrder`, `KarmarkarKarp` |
| `dispatch_nd_compute`, `DataProto.chunk` | `Call`, `Chunk` |
| `DataProto.split` in `update_policy` and `update_critic`, `ppo_epochs` | `Split`, `Repeated` |
| `rearrange_micro_batches` before and after its `all_reduce` | `Prepare`, `Agree`, `MicroBatchCount`, `MicroBatches` |
| one micro-batch forward, in an update also backward | `Pass` |
| `_optimizer_step` | `OptimizerStep` |
| `restore_dynamic_batch` | `Restore`, in `Output` |
| `collect_nd_compute_dataproto`, `concat` | `CollectResults`, `CollectMask` |

A rank is at `start` of a mini-batch, before the agreement (`agree`), before a pass, before the
optimizer step (`step`), or `done`. A collective is an action enabled when every rank stands
before one: the `all_reduce` (MAX) over the numbers of micro-batches, the all-gathers within
a pass, the norm of the gradients. If a rank had fewer passes than another, the other would
stay before a pass for good: TLC would report a deadlock. What is computed from a row is
represented by the row, so a result in the wrong place is a wrong row number. The rows that are
trained on are any prefix whose size is in `TrainedSizes`: which rows the carriers and the
warmup sample take out does not matter, since every row may have every length. A size that the
ranks do not divide is the `AssertionError` of `chunk`, the state `raised`. The heap of
`karmarkar_karp` is a set from which the state with the largest spread is taken; `SetLess` and
`PoppedBefore` are the code's `__lt__`, with which no two elements compare equal.

### HybridEngine against the code

| Code | Model |
|---|---|
| `AgentLoopManager.__init__`, `_build_rollout`, `launch_server` | `Init` |
| `_load_checkpoint` on the workers, with their random states | `Load` |
| `generate_sequences` of the manager | `Call`, `Woken`, `Gathered`, `Asleep`, `Fail` |
| `rollout_mode` up to `resume(tags=["weights"])` | `EnterRolloutMode`, when `MayWake` |
| `full_tensor` of a parameter, called from `load_weights` through a generator | `GatherTensor` |
| `model.load_weights` of that parameter | `LoadTensor` |
| the rest of `rollout_mode` | `EndRolloutMode` |
| a replica's generation for the agent loops (external) | `Generate` |
| `vLLMReplica.sleep`, `reset_prefix_cache` | `ResetPrefixCache` |
| `trainer_mode` | `TrainerMode` |
| `update_actor`, rank by rank, and its return to `fit` | `UpdateActor`, `Updated` |

The mode is that of `configs/train_auton.yaml`: hybrid, asynchronous, vLLM. A weight is the set of the shards' updates it was gathered from, so that a mixed parameter would be
a set of two; memory that was released is `Dropped`, the empty set. The prefix cache is the set of
the weights that its prefixes were computed with, and a generation may hit any of them. A random
state is where it comes from and the number of draws since. `Generate` draws on the ranks of its
replica alike; whatever draws in training (the dropout of the actor, and of a critic on the same
device) is in `UpdateActor`. `Call` alternates as `fit` does: never two validations in a row.
`sampled` and `left` are histories. What the agent loops do with the tokens is in `Rollout`; the
lockstep of the ranks inside an update is in `DataParallel`.

## 3. Runs

| Run | Question | Instance |
|---|---|---|
| `rollout_two` | safety of the rollout and of the credit: current observation, utilities, strippable rows, validation score, what GAE makes of the rows | 2 workers, 2 agents, episodes of up to 2 turns, budget 3, 2 calls in any mode; 600k states |
| `rollout_live` | does it implement `TurnBudget`; are episodes played out; does every call return or raise | 2 workers, 1 agent, budget 3, 3 calls, empty responses possible; 226k states |
| `rollout_phantom` (violation) | is a generation in training ever started from a terminal observation | 1 worker, budget 2, 2 calls |
| `rollout_five` (violation) | does every chain end in a bootstrap row | 1 worker, 5 agents |
| `rollout_spanning` (violation) | does the utility reported for an agent reach a row | 1 worker, budget 1, 2 calls |
| `advantage` | GAE against its defining sum, on all batches | 4 rows, 3 chains, 2 turn numbers; 854k states |
| `executor` | every row is answered, with its own score or the exception | 4 workers on 4 ranks, 2 rows each, failures; 917 states |
| `executor_stall` (violation) | the same with rollouts of different lengths | 2 workers, 2 ranks, 2 or 3 rows |
| `trainer` | does a killed job resume on the right models and data, and on what may it fail; do runs end, in all resume modes | 2 ranks with 2 files each, 3 steps in 2 epochs, 3 runs, one of them by hand, 4 settings; 1.6M states |
| `trainer_keep_one` (violation) | is the tracked checkpoint complete when one is kept | 2 ranks with 3 files each, 4 steps, 2 runs |
| `data_parallel` | do results return to their rows, ranks stay in lockstep, loads stay near each other, epochs cover the batch | 2 data-parallel groups of 2 ranks, 8 rows of length 1 to 3, all settings; 4.5M states |
| `hybrid_engine` | does every token come from the actor as it is; do the two random states survive; does every call return | 2 replicas of 2 ranks, 2 parameters, sleep level 2, 4 calls, from scratch or resumed; 127k states |

Why the bounds are enough.

- *Rollout.* A race for the budget needs two workers and a number of turns they cannot share
  evenly (3). An episode of two turns can end by the environment's choice or by truncation, can
  be cut by the budget after one turn and can be resumed; two calls give train after train,
  validation between, and a resumed episode, and a third (in `rollout_live`) both sides of a
  validation. In `rollout_two` the workers are symmetric and no liveness is checked.
- *Advantage.* Four rows put three rows in one chain beside another chain, repeat turn numbers
  and place `done` inside a chain.
- *Trainer.* Two ranks are what a barrier needs, and two files per rank a shard that is torn in one
  file and whole in another; three runs give a run that resumes from a run that resumed, and one
  run by hand among them (`MaxManual`) a checkpoint written over and a resume from what is left of
  it. Three steps in epochs of two give saves within and at the end of an epoch, a last step inside
  an epoch, and more saves than the checkpoints kept. Saves come from the frequency with its
  offset, from a listed step and at the last step; the expiring allocation is in
  `trainer_keep_one`. The proofs have no bound on any of these.
- *DataParallel.* Eight rows give each group four, in an update two mini-batches of two; 6
  trained rows give a full and a partial mini-batch, 3 the `AssertionError`; the lengths make
  one to three micro-batches, and different numbers in the two groups.
- *HybridEngine.* Two replicas of two ranks are what an all-gather over replicas and a random state
  common to a replica need; two parameters let the ranks load at different speeds; four calls give
  a validation before, between and after training, and caches that would
  outlive an update.

Each bound is a constant with `bound:` at its declaration, or a constant the code also has.

Deadlock is checked except in the two runs of the executor and in `hybrid_engine`, where it is
the normal end: all rows are scored and the thread blocks in `get`; `fit` has returned or
raised. (A wait for good of the ranks would violate `CallReturns`.) Where the system stops in the other modules it
stutters by `Stopped`, `Trained` or `Over`.

### Fairness

- `Rollout`: each worker's step is weakly fair, since its event loop is never blocked, the
  server and the environment answer, and `increment` waits for no one; so are `Gather` and
  `Fail`, which are `ray.get` returning. `Dispatch` is not: the trainer may stop at any time.
- `BatchExecutor`: the thread and each worker's submission.
- `Trainer`: `RunStep`, the process being alive; `Start` and `Crash` are not fair.
- `HybridEngine`: `Next` as a whole. The processes are alive, a collective happens once all ranks
  are in it, and a call has finitely many steps, so no step needs a fairness of its own.
- `DataParallel`: none. A call that hung would be a deadlock, which is checked, and
  `RanksInLockstep` names the reason before it happens.

## 4. What is proved

Every invariant and every action property that a run checks, and the refinement, is a theorem;
what stays with TLC alone is listed at the end of this section. The values the constants have
in the runs play no part: the theorems hold for all that satisfy the named assumptions.

### RolloutProofs: the budget

For all workers, agents, batch sizes, episode lengths and numbers of
calls (assumptions: `Workers` is finite and not empty, `BatchSize` and `MaxSteps` are positive,
`Agents` is not empty, all named in the modules that declare the constants), it proves:

- `TypeCorrect`: `TypeOK`.
- `BudgetCorrect`: `BudgetInv`, the inductive invariant of the budget.
- `NoOverrunHolds`: rows and turns in generation together number exactly the turns granted.
- `ExactBatchHolds`: a training call that completes has exactly `BatchSize` real rows.
- `ActsOnCurrentObsHolds`: every worker acts as the active agent on the current observation.
- `RolloutRefinesTurnBudget`: `Spec` implements `TurnBudget`.

The argument. `ExactBatch` counts rows, and counting is not inductive: a step that appends a
row must know that the turn it fills was open and was only this worker's. `TurnsHeldOnce` says
so without counting: the turn numbers `1..num_turns` and the *places* that hold one (place 0 of
a worker is the turn it is generating, place i its row i) correspond one to one.
`FullWhenLeaving` says that a worker that has left the loop, or is in a turn after which it
will, has seen the counter full. With it, once all workers have finished no turn is open and
all are granted, so rows and budget are in bijection; `CountTurns` turns the bijection into
equal cardinalities. The refinement follows from the same invariant: a `Turn` delivers a turn
that was granted and not delivered, and `Gather` finds all delivered. `ActsOnCurrentObs` is
inductive on top of `TypeOK`. Each step lemma has one case per action.

### BatchExecutorProofs

For all sets of workers (finite), numbers of rows and ranks (positive), every `max_batch_size`
and a batch function that may raise, it proves `EveryFutureInFlightHolds` (no future is dropped,
none is set twice) and `OwnScoresHolds` (a worker's scores are those of its own rows, in order),
both from `ExecutorCorrect`. `OwnScores` alone is not inductive: a row that is collected must be
known to be the next row of its worker. `InFlightInv` says that every task in the queue or the
batch is the next row of a worker that waits, that no two are of one worker, and that every
waiting worker has one; `StartsEmpty` that a new batch overwrites nothing. A get moves one task
from the queue to the batch and keeps the correspondence (`GetKeepsInFlight`); a call removes
the tasks of exactly the workers it answers. That the rows are answered *at all* depends on the
numbers of rows, as `executor_stall` shows, and is liveness.

### RolloutProofs: which rows carry a utility

`UtilityRoutedOnce`: when an episode has ended, each agent's utility is on exactly one row of the
rollout, the agent's last of that episode, and exactly such rows are done. The induction needs
what the loop remembers: `Known` says that `episode_last_row` points to each agent's last row of
the current episode, and that an agent without an entry has none; `Credited` says the same of
the rows already appended, for every episode. A turn is an append, a routing over all agents and
a reset of the record, and `TurnTaken` summarises it once as `TurnOf` so that each invariant needs
to look at its summary only. `NoLeakAcrossEpisodes` follows: the last row of an ended episode
within a chain is done, and bootstrap rows carry no reward.

`StripLeavesRealRows` and `ValidationScore` need `ThreeAgents`, the assumption that the
environment's agents are among `prof_1` to `prof_3`, which is what the code's `range(3)` can
serve; `rollout_five` is what happens without it. Under it every chain of a finished call ends
in the bootstrap row of its own agent (`BootstrapRowIsLast`). `ValidationScore` adds
`EpisodePlayed`: a validation call leaves the loop only after one whole episode (the counter
stays at 0, `CounterIdle`). `EpisodeRunsToEnd` is an action property: no step replaces a
training episode that has not ended, and a validation step changes no training environment.

`CreditIsOwnUtility` and `BootstrapsOnlyUnfinished` put rollout and GAE together. `Chained` carries
what the rows of one worker have (`RowsAreWellChained`) over to the concatenated batch: the rows
after a row in its chain come from the same worker and agent (`LaterInWorker`), each chain ends in a
bootstrap row, and from a row of an ended episode the next row is of the same episode until the done
one. `AdvantageAndValue` goes back along the chain from its end: advantage plus value of a row is the
utility if its episode is over and the bootstrap row's value if not. Besides `ThreeAgents` they need
`Undiscounted`: `Gamma` and `Lambda` are 1, since with a discount the advantage of a row depends on
how many turns follow it. That is the instance `rollout_two` checks; what the recursion does under
other discounts is `AdvantageIsLambdaSum`.

### InductionFacts

The library's induction theorems take an operator as a parameter, which the provers cannot
instantiate. The same strength is had from sets: `NatSet` says that a *set* of numbers with 0 that is
closed under successor has all numbers (by the well-foundedness of `<`), `SubsetInduction` the same of
the parts of a finite set. A proof by induction defines the set of numbers for which its claim holds.
`Iterates` gives a function defined by recursion its equations, from which follow `Powers`, the
sums of the community modules (`SumRemove`, `SumScaled`), their `FlattenSeq` (`FlattenConcatenates`) and,
in the proofs of each module, its own recursions. `SortedByOrder` says that sorting by a strict total
order lists every element once and in order.

### AdvantageProofs and AdvantageStepProofs

For batches of any size, any chains, turn numbers (repeated ones too), integer rewards and values, and
discounts.

- `TurnAdvantagesRecursion`: the loop of the turn-level pass computes GAE's recursion along each chain.
  It rests on `ChainFacts` (each row is in its own chain once, in order of turn number and index).
- `AdvantageIsLambdaSum`: the recursion is the discounted sum of temporal differences up to the end of
  the episode. The sum unrolls by one row (`LambdaSumRecursion`): what is reached from a row is the
  row itself and, unless it ends its episode, what is reached from the next, at one more distance
  each. `AlongChains` then carries the equality from the last row of a chain back.
- `TokensAgreeWithTurns`: `ReturnsAgree`, by the recursion of both passes.
- `DropsRowsWithoutNext`: the rows the trainer drops are those GAE gives no next row. `LastIndex`
  chooses the row with none after it, which exists and is unique since `After` is a strict total
  order on a chain (`AfterOrders`).

### TrainerProofs

For all ranks (finite, not empty), kinds of files, steps, epochs, save settings and numbers of runs.

- `ModelsCorrect`: `ModelInv`, from which `TypeOK` and `ModelMatchesStep` follow. It adds to the
  types that every file on disk that is written has the updates of its step (`ShardsMatch`), and
  what the models have at each `pc`. A torn file cannot be loaded, so it never reaches a model.
- `DataMatchesStep`, from `DataInv`: a position on disk and in memory is congruent to its
  step modulo the epoch's length, through the wrap at the end of an epoch.
- `RunKeepsAtMost`, from `KeepInv`: what this run has opened files of (`made`) is in the list it
  rotates, or being written, and the list leaves room for the one to come.
- `TrackedComplete` and `FailsOnlyOnTornFile`, under `SafeSettings`: a run that moves the tracker
  does not keep only one checkpoint, and a run that saves one part only resumes automatically or
  deletes nothing. The invariant: `SaveInv` (a part that has been saved is on disk by all ranks
  until the other part and the data are), `RecordInv` (the list of a part is increasing and, in a
  run that moves the tracker, its last entry is the tracked step; so rotation, which leaves at
  least the last when two or more are kept, spares it), `PastTracker` (a run that resumed
  automatically writes steps beyond the tracked one only, so what it tears is not tracked) and
  `PositionInv` (a tracked step has its `data.pt`). Both conditions of `SafeSettings` are needed.
  Keeping one is `trainer_keep_one`. A run that saves only its critic never moves the tracker; if it
  started from scratch it could pass the tracked step, record it, and later rotate it out.
- After a run that did not resume automatically (`manual`) the same invariant gives less, as the
  code does: opening a file empties it and keeps it there, so of the tracked checkpoint no file is
  missing and each written one is of its step. `FailsOnlyOnTornFile` says what then makes a job
  fail to resume: a tracker, a `data.pt` or a file of the tracked checkpoint left torn.

### DataParallelProofs

For all numbers of data-parallel and sequence-parallel ranks, rows, lengths, mini-batch and
micro-batch sizes, token limits and epochs (`SizesAssumption`: all positive, a mini-batch divides into
micro-batches, a row fits the token limit, as the code asserts).

The algorithm first, without any state:

- `PartitionsBalanced`: every row is in one part of `get_seqlen_balanced_partitions`, none is empty, and
  the loads of two parts differ by at most `d`, the difference of the longest and the shortest row with
  equal sizes and the longest row otherwise. The invariant of the merges is `IsState`: the sets of a
  state are disjoint, sorted, hold the sums of their rows, are all of one size when sizes are equal,
  and their spread is at most `d`. A merge keeps the last part (`MergedState`) because the largest
  set meets the smallest: of two sets of the result, each is `s[i] + t[k+1-i]`, and the two differences
  have opposite signs. The number of states falls by one per merge to a single one (`FinalState`).
- `MicroBatchesBalanced` and `RestoreInverts`: the same of micro-batches, and that their order is undone.

Then the calls. The properties are not inductive: that two ranks have equally many passes left says
nothing about the next mini-batch. `IInv` says where all ranks are together:

- `OrderInv`: `order` is a permutation of the rows, and balanced when it should be.
- `WorkInv`: what each rank has left is a suffix of its mini-batches (`Stage(n, t)`: `t` are
  through), and a row has been trained on as often as it is in the first `t` mini-batches of some rank.
- `CallInv`: in a call the ranks are all `Gathering` (taking up a mini-batch), all `Passing` (before
  the same micro-batch of plans of one length), all `Stepping` or all `Finished`; each has passed
  exactly the rows of the first part of its plan (`Progress`).

`Agree` takes the ranks to plans of one length because all of them take the largest number, and that
number is one each can cut its rows into: chunks are equally long, and a rank's own number
never exceeds its rows. Without dynamic batches the lengths are equal because the mini-batches are.
`EpochsCoverBatch` is a count (`WorkFacts`, `TakenFacts`): each row is in one mini-batch of one group in
each epoch, and of each group one rank is counted. `ResultsInRowOrder` joins `RestoreInverts` with the
concatenation of the chunks. The bound on loads sums over the `SpSize` parts of a chunk
(`ChunkLoads`), which is where the factor `SpSize` comes from; that on micro-batches is `TokensFit`:
their number is at least the quotient of the tokens and the limit, so that one part is within the limit, and
the others exceed it by less than one row.

### HybridEngineProofs

For all numbers of replicas, ranks of a replica and parameters, both sleep levels, any checkpoints and
any number of calls.

- `TypeCorrect`, whether or not the cache is freed. `full \in [Ranks -> Content]` is what could fail:
  a parameter is gathered while no rank is in an update, since a rank loads in a call only and `fit`
  makes no call before all ranks have returned from the update (`NotTrainedWhileLoading`).
- `OnPolicyHolds`, `TrainingRandomKeptHolds`, `TpRanksDrawAlikeHolds`, with `free_cache_engine`. The
  invariant says where the ranks are at each place of the driver (`PlaceInv`), that what a rank has
  loaded is the actor as it is (`LoadInv`), that a prefix cache is empty outside of the calls and of
  the current weights in them (`CacheInv`, `ResetBeforeSleep`), and follows the two random states
  through the swaps: `TrainingRandom` is the device's state or the one put aside, depending on the
  mode, and always what training has left; `GenerationRandom` is the other of the two, and the ranks
  of a replica have the same.
- `NeverSynced`, without `free_cache_engine`: the engines keep the weights they were launched with.

### Model-checked only

- Liveness: `CallReturns` of `Rollout` and of `HybridEngine`, `EveryRowAnswered`, `RunEnds`.
  These need fairness and ENABLED, which the provers do not handle. `CallReturns` also rules out a
  deadlock in these two modules; in `DataParallel` the absence of one is checked by TLC, and what would
  cause one is excluded by `RanksInLockstep`.

## 5. Findings

1. `rollout_phantom`. When the turn that fills the counter also ends the episode, the loop
   breaks before the reset below it. The next training rollout generates an action for the
   terminal observation, which the wrapper swallows as a reset: a turn of the budget is lost
   to a row without consequence, against the comment at `tool_agent_loop.py:805`.
2. `rollout_five`. Bootstrap rows are added for `range(3)`; with the five professors of
   `slurm/README.md:69` the trainer strips real rows of `prof_4` and `prof_5`.
3. `rollout_spanning`. An agent whose turns of an episode were all in an earlier rollout loses
   its utility, while the diagnosis reports it as delivered.
4. `trainer_keep_one`. Keeping one checkpoint, as a warning recommends, deletes the tracked one
   before its successor exists.
5. `executor_stall`. Rows are scored one at a time per worker; when fewer workers than ranks
   have rows left, the thread waits for more for ever. The executor serves every row only if
   all workers have equally many rows and there are as many workers as ranks, or one rank.

Seen while modelling, and kept in the models without a run of its own:

- A worker that gets no turn, or whose last response is empty, raises while it builds its
  bootstrap rows (`CannotBootstrap`); the call then raises.
- No file of a checkpoint is written aside and renamed. A crash between the truncation and the
  writing of the tracker leaves an empty file, a `ValueError` for all later runs except those with
  `resume_mode=disable`. A crash in `torch.save`, in a run from scratch or from a path that comes by
  the tracked step again, leaves a torn file in the tracked checkpoint: automatic resumes raise
  until it is replaced or the tracker moves on. `FailsOnlyOnTornFile` says that there are no others.
- Checkpoints of earlier runs are never rotated out (`RunKeepsAtMost` is per run).
- A finished job that is started again trains one step beyond `total_training_steps`.
- A run from scratch or from an older checkpoint, saving over the folders of another run, can
  leave a tracked checkpoint that mixes shards of both when it is killed (`manual` in
  `TrackedComplete`). A resume from a folder without `data.pt` starts the data from the front.
- Bootstrap rows repeat the prompt of the last turn: their value is that of the observation
  before the last action, of whichever agent acted last. They also take part in the mean and
  variance of the normalisation of advantages.
- The token limit of a micro-batch is a target: the number of micro-batches is the quotient of
  the sums, and a micro-batch may exceed the limit by less than one row (three rows of length 3
  with limit 5 make two micro-batches, one of 6 tokens). `LoadsBounded` states what holds.
- A partial mini-batch is divided by the accumulation steps of a full one, so its gradient
  weighs less.
- With sequence parallelism the batch is balanced over all ranks but chunked over the groups, so
  the bound on the difference of loads grows with the group. (`fit` asserts that `balance_batch`
  is off for the turn-level rollout; it applies to the base trainer.)
- `wake_up` is what brings the actor's weights to the engines (`docs/advance/agent_loop.rst:86`), but
  `generate_sequences` wakes only with `free_cache_engine` (`agent_loop.py:1023`). Without it the
  engines generate to the end with the weights of `load_format`, by default `dummy`
  (`NeverSynced`), and the random state of training is the one the engine's launch has left.
- The seed per replica that `_build_rollout` prepares (`fsdp_workers.py:598-600`) is not used by the
  asynchronous rollout: the first `trainer_mode`, before any generation, replaces it by the state
  the engine has left. The ranks of a replica still agree, because the engines are seeded alike.
- The one-step-off-policy trainer does not get through a step:
  `recipe/one_step_off_policy/ray_trainer.py:591-599` passes `gamma` and `lam` to
  `compute_advantage`, which in this fork takes neither (`ray_trainer.py:262-272`), a `TypeError`
  before the first update. The `_validate` it inherits reads `config.envs` and `env_idx`
  (`ray_trainer.py:664`, `681`), which its rollout does not provide.

## 6. Not modelled

Modules were written in the order of weight: the rollout and its budget, the trainer's
checkpoints, the advantages and their composition with the rollout, the executor, the worker
group, the hybrid engine; then the proofs. What is left out:

| Component | Properties that would make it correct | Why it is left out |
|---|---|---|
| `AsyncLLMServerManager` (`agent_loop.py:136-199`) | a request stays with its server while cached; load is spread | a worker's private heap and LRU map, without concurrency; no other component depends on which server answers |
| `_validate`'s choice of rows, validation metrics | a metric reads the right rows | that the rows carry the right scores is `ValidationScore`; the rest is statistics |
| The reward path composed: `BatchExecutor` with the row counts of `Rollout` | every row of a rollout is scored | `executor_stall` answers it: the counts of two workers may differ, and then the last rows are not |
| Prompts, loop detection, votes, diagnosis | wording | no state other components read |
| Episode and game logs | one writer per shard | output only |
| The admissions game, other games | rules of the game | a submodule that is not in the tree; third party |
| Reward managers, losses, other estimators, mismatch weights, whitening | numerical identities | stateless real arithmetic |
| Training with the reference policy, KL terms, profiling | as above | no control of its own |
| Requests to vLLM and SGLang servers, reward model, models, kernels | numerical | GPU computation and third-party engines |
| LoRA, the SGLang server, colocated and standalone replicas | weights are loaded before they are used | other paths through the switch that `HybridEngine` models, or replicas without one |
| One-step-off-policy trainer (`recipe/one_step_off_policy/`) | a batch is generated by the model before the last update | its first step raises a `TypeError` (section 5): what a model would say of later states is about no run |
| Sharding managers, activation offloading | copies are complete before they are used | collective or stream operations of libraries without control of their own here |
| Megatron workers, engines and checkpoints, `CheckpointHandler` | as for FSDP | the same protocols as those modelled, for another backend |
| Other dispatch modes, placement, construction of workers; `DataProto`'s union, repeat, padding, serialisation | lengths agree | done once per run, or not on the path of this loop |
| Tools, interactions, other agent loops | - | this loop's `run` does not call them |
| Datasets, model merger, other recipes, scripts, monitor, analysis | - | file input, offline tools, launching |

What could still be added: the sticky sessions of the server manager against an abstract map that
is stable between evictions; the weights of partial mini-batches as integers; the Megatron pipeline options of `rearrange_micro_batches`.
