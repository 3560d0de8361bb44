--------------------------- MODULE HybridEngineProofs ---------------------------
(***************************************************************************)
(* Theorems about HybridEngine, for all numbers of replicas, ranks and     *)
(* parameters, both sleep levels and any checkpoints.                      *)
(***************************************************************************)
EXTENDS HybridEngine, TLAPS

\* Between the calls of update_actor the shards are of one model.
ShardsAgree ==
    \A r \in Ranks :
        actor[r] = IF pc = "train" /\ r \in trained THEN updates + 1 ELSE updates

TrainedOnlyInTraining == pc # "train" => trained = {}

\* Where the ranks are: together, but while they are woken or put to sleep.
PlaceInv ==
    IF FreeCache
    THEN /\ pc \in {"load", "call", "train", "done"} => \A r \in Ranks : place[r] = "trainer"
         /\ pc = "serve" => \A r \in Ranks : place[r] = "rollout"
         /\ pc \in {"sleep", "failed"} => \A r \in Ranks : place[r] # "loading"
    ELSE pc \notin {"wake", "sleep"} /\ \A r \in Ranks : place[r] = "rollout"

\* What a rank has loaded is the actor as it is.
LoadInv ==
    \A r \in Ranks :
        /\ full[r] # Dropped =>
              full[r] = {updates} /\ place[r] = "loading" /\ tensor[r] \in Tensors
        /\ place[r] = "loading" =>
              \A k \in Tensors : k < tensor[r] => engine[r][k] = {updates}
        /\ place[r] = "rollout" /\ pc \in {"wake", "serve"} =>
              \A k \in Tensors : engine[r][k] = {updates}

\* What is in a prefix cache was computed by the actor as it is, and nothing is
\* in it after the replica's ranks went to sleep.
CacheInv ==
    \A i \in Replicas :
        /\ pc \in {"load", "call", "wake", "train", "done"} => cache[i] = {}
        /\ pc \in {"serve", "sleep"} => cache[i] \subseteq {{updates}}
        /\ pc = "sleep" /\ i \in reset => cache[i] = {}

ResetBeforeSleep ==
    pc = "sleep" => \A r \in Ranks : place[r] = "trainer" => ReplicaOf(r) \in reset

SampledInv == pc \in {"wake", "serve", "sleep"} => sampled \subseteq {{updates}}

\* The random state that training goes on from, and the one generation does.
TrainingRandom(r)   == IF place[r] = "rollout" THEN torchRandom[r] ELSE random[r]
GenerationRandom(r) == IF place[r] = "rollout" THEN random[r] ELSE genRandom[r]

RandomInv ==
    /\ \A r \in Ranks : TrainingRandom(r) = left[r]
    /\ \A r, s \in Ranks :
          ReplicaOf(r) = ReplicaOf(s) => GenerationRandom(r) = GenerationRandom(s)

IInv ==
    /\ TypeOK
    /\ ShardsAgree
    /\ TrainedOnlyInTraining
    /\ PlaceInv
    /\ FreeCache => LoadInv /\ CacheInv /\ ResetBeforeSleep /\ RandomInv /\ SampledInv

-------------------------------------------------------------------------------
(* Ranks and replicas.                                                     *)

LEMMA QuotientBounds ==
    ASSUME NEW n \in Nat \ {0}, NEW a \in Nat
    PROVE  /\ a \div n \in Nat
           /\ n * (a \div n) <= a
           /\ a < (n * (a \div n)) + n
  OBVIOUS

\* A rank belongs to a replica ...
LEMMA RankHasReplica == \A r \in Ranks : ReplicaOf(r) \in Replicas
<1> SUFFICES ASSUME NEW r \in Ranks PROVE ReplicaOf(r) \in Replicas
  OBVIOUS
<1> DEFINE q == r \div TpSize
<1>1. TpSize \in Nat \ {0} /\ NumReplicas \in Nat \ {0} /\ r \in Nat /\ r < NumReplicas * TpSize
  BY SizesAssumption DEF Ranks
<1>2. q \in Nat /\ TpSize * q <= r
  BY <1>1, QuotientBounds
<1> HIDE DEF q
<1>3. TpSize * q < NumReplicas * TpSize
  BY <1>1, <1>2
<1>4. q < NumReplicas
  <2>1. SUFFICES ASSUME q >= NumReplicas PROVE FALSE
    BY <1>1, <1>2
  <2>2. TpSize * q >= NumReplicas * TpSize
    BY <2>1, <1>1, <1>2
  <2> QED
    BY <2>2, <1>3, <1>1, <1>2
<1> QED
  BY <1>1, <1>2, <1>4 DEF q, ReplicaOf, Replicas

\* ... and every replica has one.
LEMMA ReplicaHasRank == \A i \in Replicas : \E r \in Ranks : ReplicaOf(r) = i
<1> SUFFICES ASSUME NEW i \in Replicas PROVE \E r \in Ranks : ReplicaOf(r) = i
  OBVIOUS
<1> DEFINE r == i * TpSize
           q == r \div TpSize
<1>1. TpSize \in Nat \ {0} /\ NumReplicas \in Nat \ {0} /\ i \in Nat /\ i + 1 <= NumReplicas
  BY SizesAssumption DEF Replicas
<1>2. r \in Nat /\ r + TpSize = (i + 1) * TpSize
  BY <1>1
<1>3. (i + 1) * TpSize <= NumReplicas * TpSize
  BY <1>1
<1>4. r \in Ranks
  BY <1>1, <1>2, <1>3 DEF Ranks
<1>5. q \in Nat /\ TpSize * q <= r /\ r < (TpSize * q) + TpSize
  BY <1>1, <1>2, QuotientBounds
<1>6. q = i
  BY <1>1, <1>5
<1> QED
  BY <1>4, <1>6 DEF ReplicaOf

-------------------------------------------------------------------------------
(* The invariant.                                                          *)

LEMMA Contents ==
    /\ Dropped \in Content
    /\ \A n \in Nat \cup {Dummy} : {n} \in Content /\ {n} # Dropped
  BY DEF Dropped, Content

LEMMA RandomStates ==
    /\ \A r \in Ranks : Default(r) \in Random /\ Recovered(r) \in Random /\ GenDpRank(r) \in Random
    /\ EngineSeed \in Random
    /\ \A s \in Random : Drawn(s) \in Random
<1>1. \A r \in Ranks : r \in Nat /\ ReplicaOf(r) \in Nat
  BY RankHasReplica DEF Ranks, Replicas
<1>2. \A s \in Random : Drawn(s) \in Random
  <2> SUFFICES ASSUME NEW s \in Random PROVE Drawn(s) \in Random
    OBVIOUS
  <2>1. s.draws \in Nat /\ s = [source |-> s.source, draws |-> s.draws]
    BY DEF Random
  <2> QED
    BY <2>1 DEF Random, Drawn
<1> QED
  BY <1>1, <1>2 DEF Default, Recovered, GenDpRank, EngineSeed, Random

LEMMA InvInit == Init => IInv
<1> SUFFICES ASSUME Init PROVE IInv
  OBVIOUS
<1>1. TypeOK
  <2>1. 1 \in 1..NumTensors + 1 /\ 0 \in 0..MaxCalls
    BY SizesAssumption
  <2>2. Dropped \in Content /\ {Dummy} \in Content
    BY Contents
  <2>3. /\ tensor \in [Ranks -> 1..NumTensors + 1] /\ full \in [Ranks -> Content]
        /\ engine \in [Ranks -> [Tensors -> Content]]
    BY <2>1, <2>2 DEF Init
  <2>4. /\ random \in [Ranks -> Random] /\ torchRandom \in [Ranks -> Random]
        /\ genRandom \in [Ranks -> Random] /\ left \in [Ranks -> Random]
    BY RandomStates DEF Init
  <2>5. cache \in [Replicas -> SUBSET Content]
    BY DEF Init
  <2> QED
    BY <2>1, <2>3, <2>4, <2>5 DEF Init, TypeOK
<1>2. ShardsAgree /\ TrainedOnlyInTraining /\ PlaceInv
  BY DEF Init, ShardsAgree, TrainedOnlyInTraining, PlaceInv
<1>3. LoadInv /\ CacheInv /\ ResetBeforeSleep /\ SampledInv
  BY DEF Init, LoadInv, CacheInv, ResetBeforeSleep, SampledInv, Dropped
<1>4. RandomInv
  BY DEF Init, RandomInv, TrainingRandom, GenerationRandom
<1> QED
  BY <1>1, <1>2, <1>3, <1>4 DEF IInv

LEMMA LoadKeeps ==
    ASSUME IInv, Load
    PROVE  IInv'
<1>1. /\ pc = "load" /\ pc' = "call" /\ UNCHANGED <<purpose, calls, loading, serving>>
      /\ UNCHANGED <<trained, torchRandom, genRandom>>
  BY DEF Load, weights, rngs
<1>2. \/ UNCHANGED <<weights, rngs>>
      \/ \E n \in Checkpoints :
            /\ updates' = n /\ actor' = [r \in Ranks |-> n]
            /\ random' = [r \in Ranks |-> Recovered(r)] /\ left' = [r \in Ranks |-> Recovered(r)]
  BY DEF Load
<1>3. TypeOK'
  BY <1>1, <1>2, RandomStates, SizesAssumption
     DEF IInv, TypeOK, loading, serving, weights, rngs
<1>4. ShardsAgree' /\ TrainedOnlyInTraining'
  BY <1>1, <1>2 DEF IInv, ShardsAgree, TrainedOnlyInTraining, weights
<1>5. PlaceInv'
  BY <1>1 DEF IInv, PlaceInv, loading
<1>6. ASSUME FreeCache
      PROVE  LoadInv' /\ CacheInv' /\ ResetBeforeSleep' /\ RandomInv' /\ SampledInv'
  <2>1. \A r \in Ranks : place[r] = "trainer" /\ place' = place
    BY <1>1, <1>6 DEF IInv, PlaceInv, loading
  <2>2. LoadInv'
    BY <1>1, <1>6, <2>1 DEF IInv, LoadInv, loading
  <2>3. CacheInv' /\ ResetBeforeSleep' /\ SampledInv'
    BY <1>1, <1>6 DEF IInv, CacheInv, ResetBeforeSleep, SampledInv, serving
  <2>4. RandomInv'
    <3>1. \A r \in Ranks : random'[r] = left'[r]
      BY <1>2, <1>6, <2>1 DEF IInv, RandomInv, TrainingRandom, rngs
    <3> QED
      BY <1>1, <1>6, <2>1, <3>1 DEF IInv, RandomInv, TrainingRandom, GenerationRandom
  <2> QED
    BY <2>2, <2>3, <2>4
<1> QED
  BY <1>3, <1>4, <1>5, <1>6 DEF IInv

LEMMA AfterWhat == IInv => After \subseteq {"load", "call", "train"}
  BY DEF IInv, TypeOK, After

LEMMA CallKeeps ==
    ASSUME IInv, NEW p \in {"validate", "train"}, Call(p)
    PROVE  IInv'
<1>1. /\ pc = "call" /\ pc' = IF FreeCache THEN "wake" ELSE "serve"
      /\ purpose' = p /\ calls' = calls + 1 /\ calls < MaxCalls
      /\ served' = {} /\ sampled' = {}
      /\ UNCHANGED <<weights, loading, cache, reset, rngs>>
  BY DEF Call
<1>2. TypeOK'
  BY <1>1, SizesAssumption DEF IInv, TypeOK, weights, loading, rngs
<1>3. ShardsAgree' /\ TrainedOnlyInTraining' /\ PlaceInv'
  BY <1>1 DEF IInv, ShardsAgree, TrainedOnlyInTraining, PlaceInv, weights, loading
<1>4. ASSUME FreeCache
      PROVE  LoadInv' /\ CacheInv' /\ ResetBeforeSleep' /\ RandomInv' /\ SampledInv'
  <2>1. \A r \in Ranks : place[r] = "trainer"
    BY <1>1, <1>4 DEF IInv, PlaceInv
  <2> QED
    BY <1>1, <1>4, <2>1 DEF IInv, LoadInv, CacheInv, ResetBeforeSleep, RandomInv, SampledInv,
       TrainingRandom, GenerationRandom, weights, loading, rngs
<1> QED
  BY <1>2, <1>3, <1>4 DEF IInv

\* Steps of the driver that change its place only.
LEMMA DriverKeeps ==
    ASSUME IInv, Woken \/ Gathered \/ Fail \/ Asleep \/ End
    PROVE  IInv'
<1>1. UNCHANGED <<purpose, calls, weights, loading, cache, served, sampled, rngs>>
  BY DEF Woken, Gathered, Fail, Asleep, End, serving
<1>2. \/ pc = "wake" /\ pc' = "serve" /\ reset' = reset /\ \A r \in Ranks : place[r] = "rollout"
      \/ pc = "serve" /\ reset' = {} /\ FreeCache /\ pc' = "sleep"
      \/ pc = "serve" /\ reset' = {} /\ ~FreeCache /\ pc' \in After
      \/ reset' = reset /\ pc' = "failed" /\ pc \in {"call", "serve"}
      \/ pc = "sleep" /\ reset' = reset /\ pc' \in After /\ \A r \in Ranks : place[r] = "trainer"
      \/ pc = "call" /\ reset' = reset /\ pc' = "done"
  BY DEF Woken, Gathered, Fail, Asleep, End, serving
<1>3. pc' \in After => pc' \in {"load", "call", "train"}
  BY AfterWhat
<1>4. TypeOK'
  BY <1>1, <1>2, <1>3 DEF IInv, TypeOK, weights, loading, rngs
<1>5. ShardsAgree' /\ TrainedOnlyInTraining'
  BY <1>1, <1>2, <1>3 DEF IInv, ShardsAgree, TrainedOnlyInTraining, weights
<1>6. PlaceInv'
  BY <1>1, <1>2, <1>3 DEF IInv, PlaceInv, loading
<1>7. ASSUME FreeCache
      PROVE  LoadInv' /\ CacheInv' /\ ResetBeforeSleep' /\ RandomInv' /\ SampledInv'
  <2>1. LoadInv'
    BY <1>1, <1>2, <1>3, <1>7 DEF IInv, LoadInv, PlaceInv, weights, loading
  <2>2. CacheInv'
    <3>1. ASSUME pc = "sleep", pc' \in After, NEW i \in Replicas
          PROVE  i \in reset
      <4>1. \A r \in Ranks : place[r] = "trainer"
        BY <1>2, <1>3, <3>1
      <4>2. PICK r \in Ranks : ReplicaOf(r) = i
        BY ReplicaHasRank
      <4> QED
        BY <1>7, <3>1, <4>1, <4>2 DEF IInv, ResetBeforeSleep
    <3> QED
      BY <1>1, <1>2, <1>3, <1>7, <3>1 DEF IInv, CacheInv, weights
  <2>3. ResetBeforeSleep'
    BY <1>1, <1>2, <1>3, <1>7 DEF IInv, PlaceInv, ResetBeforeSleep, loading
  <2>4. RandomInv'
    BY <1>1, <1>7 DEF IInv, RandomInv, TrainingRandom, GenerationRandom, loading, rngs
  <2>5. SampledInv'
    BY <1>1, <1>2, <1>3, <1>7 DEF IInv, SampledInv, weights
  <2> QED
    BY <2>1, <2>2, <2>3, <2>4, <2>5
<1> QED
  BY <1>4, <1>5, <1>6, <1>7 DEF IInv

LEMMA UpdateActorKeeps ==
    ASSUME IInv, NEW r \in Ranks, UpdateActor(r)
    PROVE  IInv'
<1>1. /\ pc = "train" /\ r \notin trained /\ trained' = trained \cup {r}
      /\ actor' = [actor EXCEPT ![r] = @ + 1]
      /\ random' = [random EXCEPT ![r] = Drawn(@)]
      /\ left' = [left EXCEPT ![r] = Drawn(random[r])]
      /\ UNCHANGED <<driver, updates, loading, serving, torchRandom, genRandom>>
  BY DEF UpdateActor
<1>2. TypeOK'
  BY <1>1, RandomStates DEF IInv, TypeOK, driver, loading, serving
<1>3. ShardsAgree' /\ TrainedOnlyInTraining' /\ PlaceInv'
  BY <1>1 DEF IInv, TypeOK, ShardsAgree, TrainedOnlyInTraining, PlaceInv, driver, loading
<1>4. ASSUME FreeCache
      PROVE  LoadInv' /\ CacheInv' /\ ResetBeforeSleep' /\ RandomInv' /\ SampledInv'
  <2>1. \A s \in Ranks : place[s] = "trainer"
    BY <1>1, <1>4 DEF IInv, PlaceInv
  <2>2. LoadInv' /\ CacheInv' /\ ResetBeforeSleep' /\ SampledInv'
    BY <1>1, <1>4, <2>1 DEF IInv, LoadInv, CacheInv, ResetBeforeSleep, SampledInv,
       driver, loading, serving
  <2>3. RandomInv'
    BY <1>1, <1>4, <2>1 DEF IInv, TypeOK, RandomInv, TrainingRandom, GenerationRandom, loading
  <2> QED
    BY <2>2, <2>3
<1> QED
  BY <1>2, <1>3, <1>4 DEF IInv

LEMMA UpdatedKeeps ==
    ASSUME IInv, Updated
    PROVE  IInv'
<1>1. /\ pc = "train" /\ pc' = "call" /\ trained = Ranks /\ trained' = {}
      /\ updates' = updates + 1
      /\ UNCHANGED <<purpose, calls, actor, loading, serving, rngs>>
  BY DEF Updated, UpdateEnds
<1>2. TypeOK'
  BY <1>1 DEF IInv, TypeOK, loading, serving, rngs
<1>3. ShardsAgree' /\ TrainedOnlyInTraining' /\ PlaceInv'
  BY <1>1 DEF IInv, ShardsAgree, TrainedOnlyInTraining, PlaceInv, loading
<1>4. ASSUME FreeCache
      PROVE  LoadInv' /\ CacheInv' /\ ResetBeforeSleep' /\ RandomInv' /\ SampledInv'
  <2>1. \A s \in Ranks : place[s] = "trainer"
    BY <1>1, <1>4 DEF IInv, PlaceInv
  <2> QED
    BY <1>1, <1>4, <2>1 DEF IInv, LoadInv, CacheInv, ResetBeforeSleep, SampledInv, RandomInv,
       TrainingRandom, GenerationRandom, loading, serving, rngs
<1> QED
  BY <1>2, <1>3, <1>4 DEF IInv

LEMMA EnterKeeps ==
    ASSUME IInv, NEW r \in Ranks, EnterRolloutMode(r)
    PROVE  IInv'
<1>1. /\ pc = "wake" /\ place[r] = "trainer"
      /\ place' = [place EXCEPT ![r] = "loading"]
      /\ tensor' = [tensor EXCEPT ![r] = 1]
      /\ UNCHANGED <<driver, weights, full, engine, serving, rngs>>
  BY DEF EnterRolloutMode, MayWake
<1>2. TypeOK'
  <2>1. 1 \in 1..NumTensors + 1
    BY SizesAssumption
  <2> QED
    BY <1>1, <2>1 DEF IInv, TypeOK, driver, weights, serving, rngs
<1>3. ShardsAgree' /\ TrainedOnlyInTraining' /\ PlaceInv'
  BY <1>1 DEF IInv, ShardsAgree, TrainedOnlyInTraining, PlaceInv, driver, weights
<1>4. ASSUME FreeCache
      PROVE  LoadInv' /\ CacheInv' /\ ResetBeforeSleep' /\ RandomInv' /\ SampledInv'
  <2>1. place'[r] = "loading" /\ \A s \in Ranks : s # r => place'[s] = place[s]
    BY <1>1 DEF IInv, TypeOK
  <2>2. tensor'[r] = 1 /\ \A s \in Ranks : s # r => tensor'[s] = tensor[s]
    BY <1>1 DEF IInv, TypeOK
  <2>3. LoadInv'
    <3>1. \A k \in Tensors : ~(k < 1)
      BY DEF Tensors
    <3> QED
      BY <1>1, <1>4, <2>1, <2>2, <3>1 DEF IInv, LoadInv, driver, weights
  <2>4. CacheInv' /\ ResetBeforeSleep' /\ SampledInv'
    BY <1>1, <1>4 DEF IInv, CacheInv, ResetBeforeSleep, SampledInv, driver, weights, serving
  <2>5. RandomInv'
    BY <1>1, <1>4, <2>1 DEF IInv, RandomInv, TrainingRandom, GenerationRandom, rngs
  <2> QED
    BY <2>3, <2>4, <2>5
<1> QED
  BY <1>2, <1>3, <1>4 DEF IInv

\* The shards are never trained while a rank loads.
LEMMA NotTrainedWhileLoading ==
    ASSUME IInv, NEW r \in Ranks, place[r] = "loading"
    PROVE  FreeCache /\ pc = "wake" /\ \A s \in Ranks : actor[s] = updates
<1>1. FreeCache /\ pc = "wake"
  BY DEF IInv, TypeOK, PlaceInv
<1> QED
  BY <1>1 DEF IInv, ShardsAgree

LEMMA GatherKeeps ==
    ASSUME IInv, NEW k \in Tensors, GatherTensor(k)
    PROVE  IInv'
<1>1. /\ \A r \in Ranks : place[r] = "loading" /\ tensor[r] = k
      /\ full' = [r \in Ranks |-> {actor[s] : s \in Ranks}]
      /\ UNCHANGED <<driver, weights, place, tensor, engine, serving, rngs>>
  BY DEF GatherTensor
<1>2. \A r \in Ranks : full'[r] = {updates}
  <2> SUFFICES ASSUME NEW r \in Ranks PROVE full'[r] = {updates}
    OBVIOUS
  <2>1. \A s \in Ranks : actor[s] = updates
    BY <1>1, NotTrainedWhileLoading
  <2>2. {actor[s] : s \in Ranks} = {updates}
    BY <2>1
  <2> QED
    BY <1>1, <2>2
<1>3. TypeOK'
  <2>1. full' \in [Ranks -> Content]
    BY <1>1, <1>2, Contents DEF IInv, TypeOK
  <2> QED
    BY <1>1, <2>1 DEF IInv, TypeOK, driver, weights, serving, rngs
<1>4. ShardsAgree' /\ TrainedOnlyInTraining' /\ PlaceInv'
  BY <1>1 DEF IInv, ShardsAgree, TrainedOnlyInTraining, PlaceInv, driver, weights
<1>5. ASSUME FreeCache
      PROVE  LoadInv' /\ CacheInv' /\ ResetBeforeSleep' /\ RandomInv' /\ SampledInv'
  <2>1. LoadInv'
    BY <1>1, <1>2, <1>5 DEF IInv, LoadInv, driver, weights
  <2>2. CacheInv' /\ ResetBeforeSleep' /\ SampledInv'
    BY <1>1, <1>5 DEF IInv, CacheInv, ResetBeforeSleep, SampledInv, driver, weights, serving
  <2>3. RandomInv'
    BY <1>1, <1>5 DEF IInv, RandomInv, TrainingRandom, GenerationRandom, rngs
  <2> QED
    BY <2>1, <2>2, <2>3
<1> QED
  BY <1>3, <1>4, <1>5 DEF IInv

LEMMA LoadTensorKeeps ==
    ASSUME IInv, NEW r \in Ranks, LoadTensor(r)
    PROVE  IInv'
<1>1. /\ place[r] = "loading" /\ full[r] # Dropped
      /\ engine' = [engine EXCEPT ![r][tensor[r]] = full[r]]
      /\ full' = [full EXCEPT ![r] = Dropped]
      /\ tensor' = [tensor EXCEPT ![r] = @ + 1]
      /\ UNCHANGED <<driver, weights, place, serving, rngs>>
  BY DEF LoadTensor
<1>2. FreeCache /\ pc = "wake" /\ full[r] = {updates}
  BY <1>1, NotTrainedWhileLoading DEF IInv, LoadInv
<1>3. tensor[r] \in Tensors
  BY <1>1, <1>2 DEF IInv, LoadInv
<1>4. \A s \in Ranks : tensor'[s] = IF s = r THEN tensor[r] + 1 ELSE tensor[s]
  BY <1>1 DEF IInv, TypeOK
<1>5. \A s \in Ranks : full'[s] = IF s = r THEN Dropped ELSE full[s]
  BY <1>1 DEF IInv, TypeOK
<1>6. \A s \in Ranks : \A k \in Tensors :
          engine'[s][k] = IF s = r /\ k = tensor[r] THEN {updates} ELSE engine[s][k]
  BY <1>1, <1>2, <1>3 DEF IInv, TypeOK
<1>7. TypeOK'
  <2>1. tensor' \in [Ranks -> 1..NumTensors + 1]
    BY <1>1, <1>3, SizesAssumption DEF IInv, TypeOK, Tensors
  <2>2. full' \in [Ranks -> Content] /\ engine' \in [Ranks -> [Tensors -> Content]]
    BY <1>1, <1>3, Contents DEF IInv, TypeOK
  <2> QED
    BY <1>1, <2>1, <2>2 DEF IInv, TypeOK, driver, weights, serving, rngs
<1>8. ShardsAgree' /\ TrainedOnlyInTraining' /\ PlaceInv'
  BY <1>1 DEF IInv, ShardsAgree, TrainedOnlyInTraining, PlaceInv, driver, weights
<1>9. LoadInv'
  <2>1. \A k \in Tensors : k < tensor[r] + 1 => k < tensor[r] \/ k = tensor[r]
    BY <1>3 DEF Tensors
  <2> QED
    BY <1>1, <1>2, <1>3, <1>4, <1>5, <1>6, <2>1 DEF IInv, LoadInv, driver, weights
<1>10. CacheInv' /\ ResetBeforeSleep' /\ SampledInv'
  BY <1>1, <1>2 DEF IInv, CacheInv, ResetBeforeSleep, SampledInv, driver, weights, serving
<1>11. RandomInv'
  BY <1>1, <1>2 DEF IInv, RandomInv, TrainingRandom, GenerationRandom, rngs
<1> QED
  BY <1>7, <1>8, <1>9, <1>10, <1>11 DEF IInv

LEMMA EndRolloutModeKeeps ==
    ASSUME IInv, NEW r \in Ranks, EndRolloutMode(r)
    PROVE  IInv'
<1>1. /\ place[r] = "loading" /\ tensor[r] = NumTensors + 1
      /\ place' = [place EXCEPT ![r] = "rollout"]
      /\ torchRandom' = [torchRandom EXCEPT ![r] = random[r]]
      /\ random' = [random EXCEPT ![r] = genRandom[r]]
      /\ UNCHANGED <<driver, weights, tensor, full, engine, serving, genRandom, left>>
  BY DEF EndRolloutMode
<1>2. FreeCache /\ pc = "wake"
  BY <1>1, NotTrainedWhileLoading
<1>3. \A s \in Ranks : place'[s] = IF s = r THEN "rollout" ELSE place[s]
  BY <1>1 DEF IInv, TypeOK
<1>4. \A s \in Ranks :
        /\ random'[s] = IF s = r THEN genRandom[r] ELSE random[s]
        /\ torchRandom'[s] = IF s = r THEN random[r] ELSE torchRandom[s]
  BY <1>1 DEF IInv, TypeOK
<1>5. TypeOK'
  BY <1>1 DEF IInv, TypeOK, driver, weights, serving
<1>6. ShardsAgree' /\ TrainedOnlyInTraining' /\ PlaceInv'
  BY <1>1, <1>2 DEF IInv, ShardsAgree, TrainedOnlyInTraining, PlaceInv, driver, weights
<1>7. LoadInv'
  <2>1. tensor[r] \notin Tensors /\ \A k \in Tensors : k < tensor[r]
    BY <1>1, SizesAssumption DEF Tensors
  <2> QED
    BY <1>1, <1>2, <1>3, <2>1 DEF IInv, LoadInv, driver, weights
<1>8. CacheInv' /\ ResetBeforeSleep' /\ SampledInv'
  BY <1>1, <1>2 DEF IInv, CacheInv, ResetBeforeSleep, SampledInv, driver, weights, serving
<1>9. RandomInv'
  <2>1. \A s \in Ranks : TrainingRandom(s)' = TrainingRandom(s)
    BY <1>1, <1>3, <1>4 DEF TrainingRandom
  <2>2. \A s \in Ranks : GenerationRandom(s)' = GenerationRandom(s)
    BY <1>1, <1>3, <1>4 DEF GenerationRandom
  <2>3. left' = left
    BY <1>1
  <2> QED
    BY <1>2, <2>1, <2>2, <2>3 DEF IInv, RandomInv
<1> QED
  BY <1>2, <1>5, <1>6, <1>7, <1>8, <1>9 DEF IInv

LEMMA GenerateKeeps ==
    ASSUME IInv, NEW i \in Replicas, Generate(i)
    PROVE  IInv'
<1>1. /\ pc = "serve"
      /\ cache' = [cache EXCEPT ![i] = @ \cup Loaded(i)]
      /\ random' = [r \in Ranks |-> IF ReplicaOf(r) = i THEN Drawn(random[r]) ELSE random[r]]
      /\ served' = served \cup {i}
      /\ UNCHANGED <<driver, weights, loading, reset, torchRandom, genRandom, left>>
  BY DEF Generate
<1>2. PICK hits \in SUBSET cache[i] : sampled' = sampled \cup Loaded(i) \cup hits
  BY DEF Generate
<1>3. Loaded(i) \subseteq Content
  BY DEF IInv, TypeOK, Loaded, Members
<1>4. FreeCache => Loaded(i) \subseteq {{updates}}
  BY <1>1 DEF IInv, PlaceInv, LoadInv, Loaded, Members
<1>5. TypeOK'
  <2>1. sampled' \subseteq Content /\ cache' \in [Replicas -> SUBSET Content]
    BY <1>1, <1>2, <1>3 DEF IInv, TypeOK
  <2>2. random' \in [Ranks -> Random]
    BY <1>1, RandomStates DEF IInv, TypeOK
  <2> QED
    BY <1>1, <2>1, <2>2 DEF IInv, TypeOK, driver, weights, loading
<1>6. ShardsAgree' /\ TrainedOnlyInTraining' /\ PlaceInv'
  BY <1>1 DEF IInv, ShardsAgree, TrainedOnlyInTraining, PlaceInv, driver, weights, loading
<1>7. ASSUME FreeCache
      PROVE  LoadInv' /\ CacheInv' /\ ResetBeforeSleep' /\ RandomInv' /\ SampledInv'
  <2>1. LoadInv' /\ ResetBeforeSleep'
    BY <1>1, <1>7 DEF IInv, LoadInv, ResetBeforeSleep, driver, weights, loading
  <2>2. \A j \in Replicas : cache[j] \subseteq {{updates}}
    BY <1>1, <1>7 DEF IInv, CacheInv
  <2>3. \A j \in Replicas : cache'[j] \subseteq {{updates}}
    BY <1>1, <1>4, <1>7, <2>2 DEF IInv, TypeOK
  <2>4. CacheInv'
    BY <1>1, <2>3 DEF CacheInv, driver, weights
  <2>5. SampledInv'
    BY <1>1, <1>2, <1>4, <1>7, <2>2 DEF IInv, SampledInv, driver, weights
  <2>6. RandomInv'
    <3>1. \A r \in Ranks : place[r] = "rollout" /\ place'[r] = "rollout"
      BY <1>1, <1>7 DEF IInv, PlaceInv, loading
    <3> QED
      BY <1>1, <1>7, <3>1 DEF IInv, RandomInv, TrainingRandom, GenerationRandom
  <2> QED
    BY <2>1, <2>4, <2>5, <2>6
<1> QED
  BY <1>5, <1>6, <1>7 DEF IInv

LEMMA ResetKeeps ==
    ASSUME IInv, NEW i \in Replicas, ResetPrefixCache(i)
    PROVE  IInv'
<1>1. /\ pc = "sleep" /\ cache' = [cache EXCEPT ![i] = {}] /\ reset' = reset \cup {i}
      /\ UNCHANGED <<driver, weights, loading, served, sampled, rngs>>
  BY DEF ResetPrefixCache, Emptied
<1>2. \A j \in Replicas : cache'[j] = IF j = i THEN {} ELSE cache[j]
  BY <1>1 DEF IInv, TypeOK
<1>3. TypeOK'
  BY <1>1 DEF IInv, TypeOK, driver, weights, loading, rngs
<1>4. ShardsAgree' /\ TrainedOnlyInTraining' /\ PlaceInv'
  BY <1>1 DEF IInv, ShardsAgree, TrainedOnlyInTraining, PlaceInv, driver, weights, loading
<1>5. ASSUME FreeCache
      PROVE  LoadInv' /\ CacheInv' /\ ResetBeforeSleep' /\ RandomInv' /\ SampledInv'
  <2>1. LoadInv' /\ ResetBeforeSleep' /\ SampledInv'
    BY <1>1, <1>5 DEF IInv, LoadInv, ResetBeforeSleep, SampledInv, driver, weights, loading
  <2>2. CacheInv'
    BY <1>1, <1>2, <1>5 DEF IInv, CacheInv, driver, weights
  <2>3. RandomInv'
    BY <1>1, <1>5 DEF IInv, RandomInv, TrainingRandom, GenerationRandom, loading, rngs
  <2> QED
    BY <2>1, <2>2, <2>3
<1> QED
  BY <1>3, <1>4, <1>5 DEF IInv

LEMMA TrainerModeKeeps ==
    ASSUME IInv, NEW r \in Ranks, TrainerMode(r)
    PROVE  IInv'
<1> DEFINE i == ReplicaOf(r)
<1>1. /\ pc = "sleep" /\ i \in reset /\ place[r] = "rollout"
      /\ place' = [place EXCEPT ![r] = "trainer"]
      /\ engine' = IF SleepLevel = 2
                   THEN [engine EXCEPT ![r] = [k \in Tensors |-> Dropped]]
                   ELSE engine
      /\ cache' = [cache EXCEPT ![i] = {Dropped : c \in @}]
      /\ genRandom' = [genRandom EXCEPT ![r] = random[r]]
      /\ random' = [random EXCEPT ![r] = torchRandom[r]]
      /\ UNCHANGED <<driver, weights, tensor, full, reset, served, sampled, torchRandom, left>>
  BY DEF TrainerMode, SavedRandom
<1>2. FreeCache
  BY <1>1 DEF IInv, PlaceInv
<1>3. i \in Replicas /\ cache[i] = {}
  BY <1>1, <1>2, RankHasReplica DEF IInv, CacheInv
<1>4. cache' = cache
  BY <1>1, <1>3 DEF IInv, TypeOK
<1>5. \A s \in Ranks : place'[s] = IF s = r THEN "trainer" ELSE place[s]
  BY <1>1 DEF IInv, TypeOK
<1>6. \A s \in Ranks :
        /\ random'[s] = IF s = r THEN torchRandom[r] ELSE random[s]
        /\ genRandom'[s] = IF s = r THEN random[r] ELSE genRandom[s]
  BY <1>1 DEF IInv, TypeOK
<1>7. TypeOK'
  <2>1. engine' \in [Ranks -> [Tensors -> Content]]
    BY <1>1, Contents DEF IInv, TypeOK
  <2>2. place' \in [Ranks -> {"trainer", "loading", "rollout"}]
    BY <1>1 DEF IInv, TypeOK
  <2>3. random' \in [Ranks -> Random] /\ genRandom' \in [Ranks -> Random]
    BY <1>1 DEF IInv, TypeOK
  <2> QED
    BY <1>1, <1>4, <2>1, <2>2, <2>3 DEF IInv, TypeOK, driver, weights
<1>8. ShardsAgree' /\ TrainedOnlyInTraining' /\ PlaceInv'
  BY <1>1, <1>2, <1>5 DEF IInv, ShardsAgree, TrainedOnlyInTraining, PlaceInv, driver, weights
<1>9. LoadInv'
  <2>1. \A s \in Ranks : place[s] # "loading" /\ place'[s] # "loading"
    BY <1>1, <1>2, <1>5 DEF IInv, PlaceInv
  <2> QED
    BY <1>1, <1>2, <2>1 DEF IInv, LoadInv, driver, weights
<1>10. CacheInv' /\ SampledInv' /\ ResetBeforeSleep'
  BY <1>1, <1>2, <1>4, <1>5 DEF IInv, CacheInv, SampledInv, ResetBeforeSleep, driver, weights
<1>11. RandomInv'
  <2>1. \A s \in Ranks : TrainingRandom(s)' = TrainingRandom(s)
    BY <1>1, <1>5, <1>6 DEF TrainingRandom
  <2>2. \A s \in Ranks : GenerationRandom(s)' = GenerationRandom(s)
    BY <1>1, <1>5, <1>6 DEF GenerationRandom
  <2> QED
    BY <1>1, <1>2, <2>1, <2>2 DEF IInv, RandomInv
<1> QED
  BY <1>2, <1>7, <1>8, <1>9, <1>10, <1>11 DEF IInv

LEMMA InvNext == IInv /\ [Next]_vars => IInv'
<1> SUFFICES ASSUME IInv, [Next]_vars PROVE IInv'
  OBVIOUS
<1>1. CASE Driver
  BY <1>1, LoadKeeps, DriverKeeps, UpdatedKeeps, CallKeeps DEF Driver
<1>2. CASE \E r \in Ranks : Rank(r)
  BY <1>2, EnterKeeps, LoadTensorKeeps, EndRolloutModeKeeps, TrainerModeKeeps, UpdateActorKeeps
     DEF Rank
<1>3. CASE \E k \in Tensors : GatherTensor(k)
  BY <1>3, GatherKeeps
<1>4. CASE \E i \in Replicas : Generate(i) \/ ResetPrefixCache(i)
  BY <1>4, GenerateKeeps, ResetKeeps
<1>5. CASE UNCHANGED vars
  BY <1>5 DEF vars, driver, weights, loading, serving, rngs, IInv, TypeOK, ShardsAgree,
     TrainedOnlyInTraining, PlaceInv, LoadInv, CacheInv, ResetBeforeSleep, SampledInv,
     RandomInv, TrainingRandom, GenerationRandom
<1> QED
  BY <1>1, <1>2, <1>3, <1>4, <1>5 DEF Next

LEMMA Invariance == Spec => []IInv
  BY InvInit, InvNext, PTL DEF Spec

-------------------------------------------------------------------------------
(* Theorems.                                                               *)

\* Types; with them, that no rank is handed a parameter gathered from shards of
\* different updates (rollout_mode, fsdp_workers.py).
THEOREM TypeCorrect == Spec => []TypeOK
<1>1. IInv => TypeOK
  BY DEF IInv
<1> QED
  BY Invariance, <1>1, PTL

\* With free_cache_engine every token of a call comes from the actor as it is then,
\* whatever was cached before (rollout_mode, and sleep of vLLMHttpServer).
THEOREM OnPolicyHolds ==
    ASSUME FreeCache
    PROVE  Spec => []OnPolicy
<1>1. IInv => OnPolicy
  BY DEF IInv, SampledInv, OnPolicy
<1> QED
  BY Invariance, <1>1, PTL

\* With free_cache_engine a rollout leaves the random state of the training as it
\* was (torch_random_states in rollout_mode and trainer_mode).
THEOREM TrainingRandomKeptHolds ==
    ASSUME FreeCache
    PROVE  Spec => []TrainingRandomKept
<1>1. IInv => TrainingRandomKept
  BY DEF IInv, PlaceInv, RandomInv, TrainingRandom, TrainingRandomKept
<1> QED
  BY Invariance, <1>1, PTL

\* With free_cache_engine the ranks of a replica generate from one random state,
\* whatever each has drawn in training (gen_random_states).
THEOREM TpRanksDrawAlikeHolds ==
    ASSUME FreeCache
    PROVE  Spec => []TpRanksDrawAlike
<1>1. IInv => TpRanksDrawAlike
  BY DEF IInv, PlaceInv, RandomInv, GenerationRandom, TpRanksDrawAlike
<1> QED
  BY Invariance, <1>1, PTL

-------------------------------------------------------------------------------
(* Without free_cache_engine.                                              *)

StillDummy == engine = [r \in Ranks |-> [k \in Tensors |-> {Dummy}]]

DummyInv ==
    /\ pc \notin {"wake", "sleep"}
    /\ \A r \in Ranks : place[r] = "rollout"
    /\ StillDummy

\* Without free_cache_engine the engines are never woken, whoever has trained or
\* resumed: they generate with the weights they were launched with, those of
\* load_format, to the end (AgentLoopManager.generate_sequences).
THEOREM NeverSynced ==
    ASSUME ~FreeCache
    PROVE  Spec => []StillDummy
<1>1. Init => DummyInv
  BY DEF Init, DummyInv, StillDummy
<1>2. DummyInv /\ IInv /\ [Next]_vars => DummyInv'
  <2> SUFFICES ASSUME DummyInv, IInv, [Next]_vars PROVE DummyInv'
    OBVIOUS
  <2> USE DEF DummyInv, StillDummy
  <2>1. CASE Driver
    BY <2>1, AfterWhat DEF Driver, Load, Call, Woken, Gathered, Fail, Asleep, Updated, End, loading
  <2>2. CASE \E r \in Ranks : Rank(r)
    BY <2>2 DEF Rank, EnterRolloutMode, LoadTensor, EndRolloutMode, TrainerMode, UpdateActor,
       driver, loading
  <2>3. CASE \E k \in Tensors : GatherTensor(k)
    <3>1. PICK r \in Ranks : TRUE
      BY ReplicaHasRank, SizesAssumption DEF Replicas
    <3> QED
      BY <2>3, <3>1 DEF GatherTensor
  <2>4. CASE \E i \in Replicas : Generate(i) \/ ResetPrefixCache(i)
    BY <2>4 DEF Generate, ResetPrefixCache, driver, loading
  <2>5. CASE UNCHANGED vars
    BY <2>5 DEF vars, driver, loading
  <2> QED
    BY <2>1, <2>2, <2>3, <2>4, <2>5 DEF Next
<1>3. DummyInv => StillDummy
  BY DEF DummyInv
<1> QED
  BY Invariance, <1>1, <1>2, <1>3, PTL DEF Spec
===============================================================================
