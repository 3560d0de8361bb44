------------------------------ MODULE HybridEngine ------------------------------
(***************************************************************************)
(* The worker processes that hold both the actor's shards and the workers  *)
(* of the inference engines, switching between training and rollout:       *)
(* AgentLoopManager.wake_up and sleep (agent_loop.py), RolloutReplica,     *)
(* vLLMHttpServer and AsyncActorRolloutRefWorker, under the calls that     *)
(* RayPPOTrainer.fit makes in the asynchronous rollout mode.               *)
(*                                                                         *)
(* A rank is a coroutine that no one else runs beside: what it does        *)
(* between two collectives is one step.  A weight is the number of updates *)
(* of the shards it was gathered from; the tokens of a replica in one call *)
(* are generated in one step, since nothing changes in between.            *)
(***************************************************************************)
EXTENDS Integers, FiniteSets

CONSTANTS
    NumReplicas,    \* rollout replicas: world_size // rollout_world_size
    TpSize,         \* ranks of a replica: rollout_world_size
    NumTensors,     \* parameters of the model
    FreeCache,      \* rollout.free_cache_engine
    SleepLevel,     \* VLLM_SLEEP_LEVEL: 1 keeps the engine's weights, 2 drops them
    Checkpoints,    \* updates in the checkpoints the job may be resumed from
    MaxCalls        \* bound: calls of generate_sequences

ASSUME SizesAssumption ==
    /\ NumReplicas \in Nat \ {0} /\ TpSize \in Nat \ {0} /\ NumTensors \in Nat \ {0}
    /\ FreeCache \in BOOLEAN /\ SleepLevel \in {1, 2}
    /\ Checkpoints \subseteq Nat /\ MaxCalls \in Nat

Replicas == 0..NumReplicas - 1
Ranks    == 0..(NumReplicas * TpSize) - 1
Tensors  == 1..NumTensors

\* workers[world_size * replica_rank : world_size * (replica_rank + 1)]
ReplicaOf(r) == r \div TpSize
Members(i)   == {r \in Ranks : ReplicaOf(r) = i}

\* load_format: dummy.  The weights an engine is launched with.
Dummy == -1

\* A content of engine memory: the updates of the shards it was computed from, all
\* of them equal; none if the memory was dropped.
Dropped == {}
Content == {c \in SUBSET (Nat \cup {Dummy}) : \A m, n \in c : m = n}

\* A random state of a device: where it comes from, and the draws since.  The seed
\* of the engines is one argument for all.
Random == [source : {"default", "checkpoint", "gen_dp_rank", "engine"} \X Nat, draws : Nat]

Default(r)    == [source |-> <<"default", r>>, draws |-> 0]
Recovered(r)  == [source |-> <<"checkpoint", r>>, draws |-> 0]
GenDpRank(r)  == [source |-> <<"gen_dp_rank", ReplicaOf(r)>>, draws |-> 0]
EngineSeed    == [source |-> <<"engine", 0>>, draws |-> 0]

Drawn(s) == [s EXCEPT !.draws = @ + 1]

VARIABLES
    pc,         \* the driver: in fit, or in generate_sequences
    purpose,    \* what the call is for: the first sleep, a validation, training
    calls,      \* calls of generate_sequences so far
    updates,    \* updates of the actor so far
    actor,      \* rank -> updates in its shard
    trained,    \* ranks through with the update
    place,      \* rank -> trainer_mode, in between ("loading"), or rollout_mode
    tensor,     \* rank -> the parameter it loads next
    full,       \* rank -> this parameter gathered, or Dropped
    engine,     \* rank -> parameter -> content of the engine's memory
    cache,      \* replica -> contents its prefix cache was computed from
    reset,      \* replicas whose prefix cache has been reset for this sleep
    served,     \* replicas that have generated in this call
    sampled,    \* history: contents the tokens of this call were computed from
    random,     \* rank -> the device's random state
    torchRandom,    \* rank -> torch_random_states
    genRandom,      \* rank -> gen_random_states
    left            \* history: rank -> the random state that training has left

driver  == <<pc, purpose, calls>>
weights == <<updates, actor, trained>>
loading == <<place, tensor, full, engine>>
serving == <<cache, reset, served, sampled>>
rngs    == <<random, torchRandom, genRandom, left>>
vars    == <<driver, weights, loading, serving, rngs>>

-------------------------------------------------------------------------------
(* The driver.                                                             *)

\* Where fit goes on after a call.
After ==
    CASE purpose = "launch"   -> {"load"}
      [] purpose = "validate" -> {"call"}
      [] purpose = "train"    -> {"call", "train"}

\* _load_checkpoint on all ranks: from scratch, or shards and random states.
Load ==
    /\ pc = "load"
    /\ \/ UNCHANGED <<weights, rngs>>
       \/ \E n \in Checkpoints :
             /\ updates' = n
             /\ actor' = [r \in Ranks |-> n]
             /\ random' = [r \in Ranks |-> Recovered(r)]
             /\ left' = [r \in Ranks |-> Recovered(r)]
             /\ UNCHANGED <<trained, torchRandom, genRandom>>
    /\ pc' = "call"
    /\ UNCHANGED <<purpose, calls, loading, serving>>

\* generate_sequences, for training or for a validation: before the first step
\* and after any other, so never two in a row.
Call(p) ==
    /\ pc = "call"
    /\ calls < MaxCalls
    /\ p = "validate" => purpose # "validate"
    /\ purpose' = p
    /\ calls' = calls + 1
    /\ served' = {}
    /\ sampled' = {}
    /\ pc' = IF FreeCache THEN "wake" ELSE "serve"
    /\ UNCHANGED <<weights, loading, cache, reset, rngs>>

\* wake_up has returned from all replicas; the workers are called.
Woken ==
    /\ pc = "wake"
    /\ \A r \in Ranks : place[r] = "rollout"
    /\ pc' = "serve"
    /\ UNCHANGED <<purpose, calls, weights, loading, serving, rngs>>

\* All workers have returned.
Gathered ==
    /\ pc = "serve"
    /\ IF FreeCache THEN pc' = "sleep" ELSE pc' \in After
    /\ reset' = {}
    /\ UNCHANGED <<purpose, calls, weights, loading, cache, served, sampled, rngs>>

\* An assertion fails in generate_sequences, or a worker raises and ray.get does:
\* the run is over.
Fail ==
    /\ pc \in {"call", "serve"}
    /\ pc' = "failed"
    /\ UNCHANGED <<purpose, calls, weights, loading, serving, rngs>>

\* sleep has returned from all replicas.
Asleep ==
    /\ pc = "sleep"
    /\ \A r \in Ranks : place[r] = "trainer"
    /\ pc' \in After
    /\ UNCHANGED <<purpose, calls, weights, loading, serving, rngs>>

\* update_actor on a rank; the ranks' lockstep inside it is in DataParallel.
UpdateActor(r) ==
    /\ pc = "train"
    /\ r \notin trained
    /\ actor' = [actor EXCEPT ![r] = @ + 1]
    /\ trained' = trained \cup {r}
    /\ random' = [random EXCEPT ![r] = Drawn(@)]
    /\ left' = [left EXCEPT ![r] = Drawn(random[r])]
    /\ UNCHANGED <<driver, updates, loading, serving, torchRandom, genRandom>>

\* Mutant: the driver waits for one rank only.
UpdateEnds_NotWaiting == trained # {}

UpdateEnds == trained = Ranks

\* update_actor has returned from all ranks.
Updated ==
    /\ pc = "train"
    /\ UpdateEnds
    /\ updates' = updates + 1
    /\ trained' = {}
    /\ pc' = "call"
    /\ UNCHANGED <<purpose, calls, actor, loading, serving, rngs>>

\* The last step, or val_only.
End ==
    /\ pc = "call"
    /\ calls > 0
    /\ pc' = "done"
    /\ UNCHANGED <<purpose, calls, weights, loading, serving, rngs>>

-------------------------------------------------------------------------------
(* The ranks.                                                              *)

\* Mutant: the replicas are woken one after the other.
MayWake_InTurn(r) ==
    /\ place[r] = "trainer"
    /\ \A s \in Ranks : ReplicaOf(s) < ReplicaOf(r) => place[s] = "rollout"

\* The calls go to all ranks of all replicas at once.
MayWake(r) == place[r] = "trainer"

\* rollout_mode up to the first parameter: the engine's weights have memory again,
\* which holds what was kept.
EnterRolloutMode(r) ==
    /\ pc = "wake"
    /\ MayWake(r)
    /\ place' = [place EXCEPT ![r] = "loading"]
    /\ tensor' = [tensor EXCEPT ![r] = 1]
    /\ UNCHANGED <<driver, weights, full, engine, serving, rngs>>

\* full_tensor: an all-gather of the shards, which every rank has to reach.
GatherTensor(k) ==
    /\ \A r \in Ranks : place[r] = "loading" /\ tensor[r] = k /\ full[r] = Dropped
    /\ full' = [r \in Ranks |-> {actor[s] : s \in Ranks}]
    /\ UNCHANGED <<driver, weights, place, tensor, engine, serving, rngs>>

\* model.load_weights takes one from the generator.
LoadTensor(r) ==
    /\ place[r] = "loading"
    /\ full[r] # Dropped
    /\ engine' = [engine EXCEPT ![r][tensor[r]] = full[r]]
    /\ full' = [full EXCEPT ![r] = Dropped]
    /\ tensor' = [tensor EXCEPT ![r] = @ + 1]
    /\ UNCHANGED <<driver, weights, place, serving, rngs>>

\* Mutant: the state the training has left is not saved.
EndRolloutMode_KeepsOld(r) ==
    /\ place[r] = "loading"
    /\ tensor[r] = NumTensors + 1
    /\ place' = [place EXCEPT ![r] = "rollout"]
    /\ random' = [random EXCEPT ![r] = genRandom[r]]
    /\ UNCHANGED <<driver, weights, tensor, full, engine, serving, torchRandom, genRandom, left>>

\* The rest of rollout_mode: the generation's random state is put in place.
EndRolloutMode(r) ==
    /\ place[r] = "loading"
    /\ tensor[r] = NumTensors + 1
    /\ place' = [place EXCEPT ![r] = "rollout"]
    /\ torchRandom' = [torchRandom EXCEPT ![r] = random[r]]
    /\ random' = [random EXCEPT ![r] = genRandom[r]]
    /\ UNCHANGED <<driver, weights, tensor, full, engine, serving, genRandom, left>>

\* The weights that a replica's ranks have.
Loaded(i) == {engine[r][k] : r \in Members(i), k \in Tensors}

\* A replica generates for the agent loops: with its ranks' weights, and with any
\* of the prefixes it has cached.
Generate(i) ==
    /\ pc = "serve"
    /\ i \notin served
    /\ \E hits \in SUBSET cache[i] : sampled' = sampled \cup Loaded(i) \cup hits
    /\ cache' = [cache EXCEPT ![i] = @ \cup Loaded(i)]
    /\ random' = [r \in Ranks |-> IF ReplicaOf(r) = i THEN Drawn(random[r]) ELSE random[r]]
    /\ served' = served \cup {i}
    /\ UNCHANGED <<driver, weights, loading, reset, torchRandom, genRandom, left>>

\* Mutant: the cached prefixes outlive the weights they were computed with.
Emptied_Never(i) == cache[i]

\* What is left in a prefix cache after it was reset.
Emptied(i) == {}

\* vLLMReplica.sleep: no request is left to drain, the prefix cache is reset.
ResetPrefixCache(i) ==
    /\ pc = "sleep"
    /\ i \notin reset
    /\ cache' = [cache EXCEPT ![i] = Emptied(i)]
    /\ reset' = reset \cup {i}
    /\ UNCHANGED <<driver, weights, loading, served, sampled, rngs>>

\* Mutant: the training's random state is put back before the other is saved.
SavedRandom_TooLate(r) == torchRandom[r]

\* The random state to go on with in the next rollout.
SavedRandom(r) == random[r]

\* trainer_mode, called for the ranks of a replica when its cache is reset: the
\* engine's memory is released, the training's random state put back.
TrainerMode(r) ==
    /\ pc = "sleep"
    /\ ReplicaOf(r) \in reset
    /\ place[r] = "rollout"
    /\ place' = [place EXCEPT ![r] = "trainer"]
    /\ engine' = IF SleepLevel = 2
                 THEN [engine EXCEPT ![r] = [k \in Tensors |-> Dropped]]
                 ELSE engine
    /\ cache' = [cache EXCEPT ![ReplicaOf(r)] = {Dropped : c \in @}]
    /\ genRandom' = [genRandom EXCEPT ![r] = SavedRandom(r)]
    /\ random' = [random EXCEPT ![r] = torchRandom[r]]
    /\ UNCHANGED <<driver, weights, tensor, full, reset, served, sampled, torchRandom, left>>

-------------------------------------------------------------------------------

\* After init_model and the launch of the servers: engines with memory and dummy
\* weights, seeded; a free_cache_engine manager begins with sleep.
Init ==
    /\ pc = IF FreeCache THEN "sleep" ELSE "load"
    /\ purpose = "launch"
    /\ calls = 0
    /\ updates = 0
    /\ actor = [r \in Ranks |-> 0]
    /\ trained = {}
    /\ place = [r \in Ranks |-> "rollout"]
    /\ tensor = [r \in Ranks |-> 1]
    /\ full = [r \in Ranks |-> Dropped]
    /\ engine = [r \in Ranks |-> [k \in Tensors |-> {Dummy}]]
    /\ cache = [i \in Replicas |-> {}]
    /\ reset = {}
    /\ served = {}
    /\ sampled = {}
    /\ random = [r \in Ranks |-> EngineSeed]
    /\ torchRandom = [r \in Ranks |-> Default(r)]
    /\ genRandom = [r \in Ranks |-> GenDpRank(r)]
    /\ left = [r \in Ranks |-> Default(r)]

Driver ==
    \/ Load \/ Woken \/ Gathered \/ Fail \/ Asleep \/ Updated \/ End
    \/ \E p \in {"validate", "train"} : Call(p)

Rank(r) ==
    \/ EnterRolloutMode(r) \/ LoadTensor(r) \/ EndRolloutMode(r)
    \/ TrainerMode(r) \/ UpdateActor(r)

Next ==
    \/ Driver
    \/ \E r \in Ranks : Rank(r)
    \/ \E k \in Tensors : GatherTensor(k)
    \/ \E i \in Replicas : Generate(i) \/ ResetPrefixCache(i)

\* The processes are alive, and a collective ends once all ranks are in it.
Spec == Init /\ [][Next]_vars /\ WF_vars(Next)

-------------------------------------------------------------------------------
(* Properties.                                                             *)

\* Types.  A parameter in the hands of a rank is of one model: Content has none
\* gathered from shards of different updates.
TypeOK ==
    /\ pc \in {"sleep", "load", "call", "wake", "serve", "train", "failed", "done"}
    /\ purpose \in {"launch", "validate", "train"}
    /\ calls \in 0..MaxCalls
    /\ updates \in Nat
    /\ actor \in [Ranks -> Nat]
    /\ trained \subseteq Ranks
    /\ place \in [Ranks -> {"trainer", "loading", "rollout"}]
    /\ tensor \in [Ranks -> 1..NumTensors + 1]
    /\ full \in [Ranks -> Content]
    /\ engine \in [Ranks -> [Tensors -> Content]]
    /\ cache \in [Replicas -> SUBSET Content]
    /\ reset \subseteq Replicas
    /\ served \subseteq Replicas
    /\ sampled \subseteq Content
    /\ random \in [Ranks -> Random]
    /\ torchRandom \in [Ranks -> Random]
    /\ genRandom \in [Ranks -> Random]
    /\ left \in [Ranks -> Random]

\* Every token of a call is generated by the actor as it is then: by weights that
\* all ranks of all replicas have of the last update, and on cached prefixes
\* computed with these weights.
OnPolicy == pc \in {"serve", "sleep"} => sampled \subseteq {{updates}}

\* Generating in the same process takes no random numbers from the training: it
\* goes on from the state that its last draw, or its checkpoint, has left.
TrainingRandomKept ==
    pc \in {"load", "call", "train"} => \A r \in Ranks : random[r] = left[r]

\* The ranks of a replica, which sample one token together, draw the same random
\* numbers in every call, whatever each has drawn in training.
TpRanksDrawAlike ==
    pc = "serve" =>
        \A r, s \in Ranks : ReplicaOf(r) = ReplicaOf(s) => random[r] = random[s]

\* No rank waits for ever for the others in the loading of the weights: every call
\* comes to its end.
CallReturns == pc = "wake" ~> pc \notin {"wake", "serve", "sleep"}

===============================================================================
