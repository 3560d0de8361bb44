----------------------------- MODULE TrainerProofs -----------------------------
(***************************************************************************)
(* Theorems about Trainer, for every number of ranks, length of the data,  *)
(* frequency of saving and sequence of crashes and restarts.               *)
(***************************************************************************)
EXTENDS Trainer, FiniteSetTheorems, TLAPS

\* Every file on disk that is written, of a finished checkpoint or not, is one of
\* the model of its step: what a run may resume from.
ShardsMatch ==
    \A s \in shards : Whole(s) => s.weights.updates = UpdatesAfter(s.part, s.step)

\* The models have the updates of n steps.
ModelAfter(n) ==
    \A p \in Parts : \A x \in Pieces : model[p][x].updates = UpdatesAfter(p, n)

\* The states from TrainStep to the bottom of the loop.
AfterUpdate ==
    pc \in {"rotate", "write", "data", "position", "truncate", "tracker", "next"}

\* In the loop the models are those of the step before or of this one, and what
\* a checkpoint in the making has is on disk.
LoopInv ==
    /\ Running => epoch < Epochs
    /\ pc = "load" => ModelAfter(0)
    /\ pc = "train" => step > 0 /\ ModelAfter(step - 1)
    /\ AfterUpdate => step > 0 /\ pos > 0 /\ ModelAfter(step)
    /\ pc \in {"write", "position", "truncate", "tracker"} => step \in folders
    /\ pc = "position" => step \in DOMAIN data

\* The inductive invariant of the models.
ModelInv == TypeOK /\ ShardsMatch /\ LoopInv

-------------------------------------------------------------------------------
(* The updates of a step.                                                  *)

LEMMA UpdatesType ==
    ASSUME NEW p \in Parts, NEW n \in Nat
    PROVE  UpdatesAfter(p, n) \in Nat
  BY StepsAssumption DEF UpdatesAfter

\* A step adds one update, but none to the actor while the critic warms up.
LEMMA OneMoreUpdate ==
    ASSUME NEW p \in Parts, step \in Nat \ {0}
    PROVE  UpdatesAfter(p, step) =
              IF p = "critic" \/ ActorTrains
              THEN UpdatesAfter(p, step - 1) + 1 ELSE UpdatesAfter(p, step - 1)
  BY StepsAssumption DEF UpdatesAfter, ActorTrains, Parts

\* Loading yields the model of the step, and the position saved with it.
LEMMA LoadedModel ==
    ASSUME NEW n \in Nat, TypeOK, ShardsMatch,
           Loadable(n), NEW p \in Parts, NEW x \in Pieces
    PROVE  LET w == (CHOOSE s \in Saved(p, n) : s.piece = x).weights
           IN  w \in Weights /\ w.updates = UpdatesAfter(p, n)
<1>1. \E s \in Saved(p, n) : s.piece = x
  BY DEF Loadable, SavedPieces
<1> DEFINE t == CHOOSE s \in Saved(p, n) : s.piece = x
<1>2. t \in Saved(p, n)
  BY <1>1
<1> HIDE DEF t
<1>3. t \in shards /\ t.part = p /\ t.step = n /\ Whole(t)
  BY <1>2 DEF Saved, Loadable
<1>4. t \in Shard
  BY <1>3 DEF TypeOK
<1> QED
  BY <1>3, <1>4 DEF ShardsMatch, Shard, Whole, t

-------------------------------------------------------------------------------
(* The invariant holds at the start and is kept by every action.           *)

LEMMA ModelInvInit == Init => ModelInv
<1> SUFFICES ASSUME Init PROVE ModelInv
  OBVIOUS
<1>1. model \in [Parts -> [Pieces -> Weights]]
  BY DEF Init, Fresh, Weights
<1>2. conf \in Config
  BY ConfigsAssumption DEF Init
<1>3. previous \in [Parts -> Seq(folders)]
  BY DEF Init
<1>4. data = [n \in {} |-> 0] /\ DOMAIN data = {}
  BY DEF Init
<1>5. TypeOK
  <2>1. /\ shards \subseteq Shard /\ folders \subseteq Nat \ {0}
        /\ open \subseteq Pieces /\ wrote \subseteq Pieces /\ made \subseteq Parts \X folders
    BY DEF Init
  <2>2. DOMAIN data \subseteq folders /\ \A n \in DOMAIN data : data[n] \in 1..StepsPerEpoch \cup {Torn}
    BY <1>4
  <2>3. tracker \in {EmptyTracker, NoTracker} \cup folders
    BY DEF Init
  <2>4. pc = "down" /\ part \in Parts /\ run \in Nat /\ manuals \in Nat /\ step \in Nat
    BY DEF Init, Parts
  <2>5. epoch \in 0..Epochs /\ pos \in 0..StepsPerEpoch
    BY StepsAssumption DEF Init
  <2> QED
    BY <1>1, <1>2, <1>3, <2>1, <2>2, <2>3, <2>4, <2>5 DEF TypeOK
<1> QED
  BY <1>5 DEF Init, ModelInv, ShardsMatch, LoopInv, AfterUpdate, Running

LEMMA StartKeeps ==
    ASSUME ModelInv, NEW c \in Configs, Start(c)
    PROVE  ModelInv'
<1>1. Fresh \in [Parts -> [Pieces -> Weights]]
  BY DEF Fresh, Weights
<1>2. c \in Config
  BY ConfigsAssumption
<1>3. /\ pc' = "load" /\ run' = run + 1 /\ conf' = c /\ UNCHANGED disk
      /\ manuals' = manuals \/ manuals' = manuals + 1
      /\ step' = 0 /\ epoch' = 0 /\ pos' = 0 /\ model' = Fresh /\ part' = "actor"
      /\ previous' = [p \in Parts |-> <<>>] /\ made' = {} /\ open' = {} /\ wrote' = {}
  BY DEF Start, Forget
<1>4. previous' \in [Parts -> Seq(folders')]
  BY <1>3 DEF disk
<1>5. TypeOK'
  BY <1>1, <1>2, <1>3, <1>4, StepsAssumption DEF ModelInv, TypeOK, disk, Parts
<1>6. ModelAfter(0)'
  BY <1>3, StepsAssumption DEF Fresh, ModelAfter, UpdatesAfter
<1>7. epoch' < Epochs
  BY <1>3, StepsAssumption
<1> QED
  BY <1>3, <1>5, <1>6, <1>7 DEF ModelInv, ShardsMatch, disk, LoopInv, AfterUpdate

\* The model and the position of a checkpoint.
LEMMA LoadFromKeeps ==
    ASSUME ModelInv, pc = "load", NEW n \in Nat, LoadFrom(n), UNCHANGED <<disk, saving, job>>
    PROVE  ModelInv'
<1>1. CASE Loadable(n)
  <2>1. /\ model' = [p \in Parts |-> [x \in Pieces |->
                        (CHOOSE s \in Saved(p, n) : s.piece = x).weights]]
        /\ pos' = IF n \in DOMAIN data THEN data[n] ELSE 0
        /\ step' = n + 1 /\ pc' = "train" /\ epoch' = epoch
    BY <1>1 DEF LoadFrom
  <2>2. \A p \in Parts, x \in Pieces :
            model'[p][x] \in Weights /\ model'[p][x].updates = UpdatesAfter(p, n)
    BY <1>1, <2>1, LoadedModel DEF ModelInv
  <2>3. model' \in [Parts -> [Pieces -> Weights]]
    <3>1. \A p \in Parts : model'[p] = [x \in Pieces |-> model'[p][x]]
      BY <2>1
    <3> QED
      BY <2>1, <2>2, <3>1
  <2>4. TypeOK'
    <3>1. pos' \in 0..StepsPerEpoch
      BY <1>1, <2>1, StepsAssumption DEF ModelInv, TypeOK, Loadable
    <3> QED
      BY <2>1, <2>3, <3>1 DEF ModelInv, TypeOK, disk, saving, job
  <2>5. ShardsMatch'
    BY DEF ModelInv, ShardsMatch, disk
  <2>6. ModelAfter(n)'
    BY <2>2 DEF ModelAfter
  <2>7. step' - 1 = n /\ step' > 0
    BY <2>1
  <2>8. LoopInv'
    BY <2>1, <2>6, <2>7 DEF ModelInv, LoopInv, AfterUpdate, ModelAfter, Running
  <2> QED
    BY <2>4, <2>5, <2>8 DEF ModelInv
<1>2. CASE ~Loadable(n)
  <2>1. pc' = "failed" /\ UNCHANGED loop
    BY <1>2 DEF LoadFrom
  <2> QED
    BY <2>1 DEF ModelInv, TypeOK, ShardsMatch, LoopInv, AfterUpdate, Running, disk, saving, job, loop
<1> QED
  BY <1>1, <1>2

LEMMA LoadKeeps ==
    ASSUME ModelInv, Load
    PROVE  ModelInv'
<1>1. pc = "load" /\ UNCHANGED <<disk, saving, job>>
  BY DEF Load
<1>2. conf.resume \in {"auto", "disable", "resume_path"}
  BY DEF ModelInv, TypeOK, Config
<1>3. tracker # EmptyTracker => tracker \in Nat
  <2>1. tracker = EmptyTracker \/ tracker = NoTracker \/ tracker \in folders
    BY DEF ModelInv, TypeOK
  <2>2. NoTracker \in Nat /\ folders \subseteq Nat
    BY DEF ModelInv, TypeOK, NoTracker
  <2> QED
    BY <2>1, <2>2
<1> DEFINE chosen == folders \cup {0}
<1>8. chosen \subseteq Nat
  BY DEF ModelInv, TypeOK
<1>4. \/ Scratch
      \/ pc' = "failed" /\ UNCHANGED loop
      \/ \E n \in Nat : LoadFrom(n)
  <2>1. CASE conf.resume = "disable"
    BY <2>1 DEF Load
  <2>2. CASE conf.resume # "disable" /\ tracker = EmptyTracker
    BY <2>2 DEF Load
  <2>3. CASE conf.resume = "auto" /\ tracker # EmptyTracker
    BY <2>3, <1>3 DEF Load
  <2>4. CASE conf.resume = "resume_path" /\ tracker # EmptyTracker
    <3>1. \E n \in chosen : LoadFrom(n)
      BY <2>4 DEF Load
    <3> QED
      BY <3>1, <1>8
  <2> QED
    BY <1>2, <2>1, <2>2, <2>3, <2>4
<1>5. CASE Scratch
  <2>1. pc' = "train" /\ step' = 1 /\ UNCHANGED <<epoch, pos, model>>
    BY <1>5 DEF Scratch
  <2>2. ModelAfter(0) /\ epoch < Epochs
    BY <1>1 DEF ModelInv, LoopInv, Running
  <2>3. TypeOK' /\ ShardsMatch'
    BY <1>1, <2>1 DEF ModelInv, TypeOK, ShardsMatch, disk, saving, job
  <2>4. LoopInv'
    BY <2>1, <2>2 DEF LoopInv, ModelAfter, AfterUpdate
  <2> QED
    BY <2>3, <2>4 DEF ModelInv
<1>6. CASE pc' = "failed" /\ UNCHANGED loop
  BY <1>1, <1>6 DEF ModelInv, TypeOK, ShardsMatch, LoopInv, AfterUpdate, Running, disk, saving, job, loop
<1>7. CASE \E n \in Nat : LoadFrom(n)
  BY <1>1, <1>7, LoadFromKeeps
<1> QED
  BY <1>4, <1>5, <1>6, <1>7

LEMMA EndEpochKeeps ==
    ASSUME ModelInv, EndEpoch
    PROVE  ModelInv'
<1>1. /\ pc = "train" /\ pos' = 0 /\ epoch' = epoch + 1
      /\ pc' = IF epoch + 1 = Epochs THEN "done" ELSE pc
      /\ UNCHANGED <<disk, saving, job, step, model>>
  BY DEF EndEpoch
<1>2. epoch < Epochs
  BY <1>1 DEF ModelInv, LoopInv, Running
<1>3. TypeOK' /\ ShardsMatch'
  BY <1>1, <1>2, StepsAssumption DEF ModelInv, TypeOK, ShardsMatch, disk, saving, job
<1>4. Running' => epoch' < Epochs
  BY <1>1, <1>2, StepsAssumption DEF ModelInv, TypeOK, Running
<1>5. LoopInv'
  BY <1>1, <1>4 DEF ModelInv, LoopInv, AfterUpdate, ModelAfter
<1> QED
  BY <1>3, <1>5 DEF ModelInv

\* The models get one update more, or none.
LEMMA TrainStepKeeps ==
    ASSUME ModelInv, TrainStep
    PROVE  ModelInv'
<1>1. /\ pc = "train" /\ pos < StepsPerEpoch /\ pos' = pos + 1
      /\ model' = [p \in Parts |->
                     IF p = "critic" \/ ActorTrains THEN Updated(model[p]) ELSE model[p]]
      /\ pc' \in {"rotate", "next"} /\ part' = "actor"
      /\ UNCHANGED <<disk, job, step, epoch, previous, made, open, wrote>>
  BY DEF TrainStep
<1>2. /\ step \in Nat \ {0} /\ ModelAfter(step - 1) /\ epoch < Epochs
      /\ run \in Nat /\ model \in [Parts -> [Pieces -> Weights]]
  BY <1>1 DEF ModelInv, LoopInv, Running, TypeOK
<1>3. \A p \in Parts, x \in Pieces :
          model'[p][x] \in Weights /\ model'[p][x].updates = UpdatesAfter(p, step)
  <2>1. SUFFICES ASSUME NEW p \in Parts, NEW x \in Pieces
                 PROVE  /\ model'[p][x] \in Weights
                        /\ model'[p][x].updates = UpdatesAfter(p, step)
    OBVIOUS
  <2>2. /\ model[p][x] \in Weights /\ model[p][x].updates \in Nat
        /\ model[p][x].updates = UpdatesAfter(p, step - 1)
    BY <1>2 DEF ModelAfter, Weights
  <2>3. CASE p = "critic" \/ ActorTrains
    <3>1. model'[p][x] = [run |-> run, updates |-> model[p][x].updates + 1]
      BY <1>1, <2>3 DEF Updated
    <3> QED
      BY <3>1, <2>2, <2>3, <1>2, OneMoreUpdate DEF Weights
  <2>4. CASE ~(p = "critic" \/ ActorTrains)
    <3>1. model'[p][x] = model[p][x]
      BY <1>1, <2>4
    <3> QED
      BY <3>1, <2>2, <2>4, <1>2, OneMoreUpdate
  <2> QED
    BY <2>3, <2>4
<1>4. model' \in [Parts -> [Pieces -> Weights]]
  <2>1. \A p \in Parts : model'[p] = [x \in Pieces |-> model'[p][x]]
    BY <1>1, <1>2 DEF Updated
  <2> QED
    BY <1>1, <1>3, <2>1
<1>5. TypeOK' /\ ShardsMatch'
  BY <1>1, <1>4, StepsAssumption DEF ModelInv, TypeOK, ShardsMatch, disk, job, Parts
<1>6. ModelAfter(step)'
  BY <1>1, <1>3 DEF ModelAfter
<1>7. pos' > 0
  BY <1>1 DEF ModelInv, TypeOK
<1>8. LoopInv'
  BY <1>1, <1>2, <1>6, <1>7 DEF LoopInv, AfterUpdate
<1> QED
  BY <1>5, <1>8 DEF ModelInv

LEMMA NextStepKeeps ==
    ASSUME ModelInv, NextStep
    PROVE  ModelInv'
<1>1. /\ pc = "next" /\ step' = step + 1 /\ pc' \in {"done", "train"}
      /\ UNCHANGED <<disk, saving, job, epoch, pos, model>>
  BY DEF NextStep
<1>2. step \in Nat /\ ModelAfter(step) /\ epoch < Epochs
  BY <1>1 DEF ModelInv, LoopInv, AfterUpdate, Running, TypeOK
<1>3. TypeOK' /\ ShardsMatch'
  BY <1>1 DEF ModelInv, TypeOK, ShardsMatch, disk, saving, job
<1>4. step' - 1 = step /\ step' > 0
  BY <1>1, <1>2
<1> QED
  BY <1>1, <1>2, <1>3, <1>4 DEF ModelInv, LoopInv, AfterUpdate, ModelAfter

-------------------------------------------------------------------------------
(* Saving.                                                                 *)

\* The states of a save that follow a part.
LEMMA AfterPartStates ==
    ASSUME AfterPart, part \in Parts
    PROVE  part' \in Parts /\ pc' \in {"rotate", "data", "next"}
  BY DEF AfterPart, Parts

LEMMA SkipPartKeeps ==
    ASSUME ModelInv, SkipPart
    PROVE  ModelInv'
<1>1. pc = "rotate" /\ UNCHANGED <<disk, loop, job, previous, made, open, wrote>>
  BY DEF SkipPart
<1>2. part' \in Parts /\ pc' \in {"rotate", "data", "next"}
  BY AfterPartStates DEF SkipPart, ModelInv, TypeOK
<1> QED
  BY <1>1, <1>2 DEF ModelInv, TypeOK, ShardsMatch, LoopInv, AfterUpdate, ModelAfter, Running,
     disk, loop, job

\* A sequence of folders is one when there are more of them.
LEMMA SeqOfMore ==
    ASSUME NEW S, NEW T, S \subseteq T, NEW q \in Seq(S)
    PROVE  q \in Seq(T)
  OBVIOUS

LEMMA SeqFrom ==
    ASSUME NEW S, NEW q \in Seq(S), NEW k \in Nat
    PROVE  SubSeq(q, k + 1, Len(q)) \in Seq(S)
  OBVIOUS

LEMMA RotateKeeps ==
    ASSUME ModelInv, Rotate
    PROVE  ModelInv'
<1> DEFINE k == TooMany
<1>1. /\ pc = "rotate" /\ pc' = "write" /\ open' = {} /\ wrote' = {}
      /\ shards' = shards \ Oldest
      /\ previous' = [previous EXCEPT ![part] = SubSeq(@, k + 1, Len(@))]
      /\ folders' = folders \cup {step}
      /\ UNCHANGED <<data, tracker, loop, part, made, job>>
  BY DEF Rotate
<1>2. /\ part \in Parts /\ previous \in [Parts -> Seq(folders)]
      /\ step \in Nat \ {0} /\ folders \subseteq Nat \ {0}
      /\ conf.keep[part] \in Nat
  BY <1>1 DEF ModelInv, TypeOK, LoopInv, AfterUpdate, Config
<1>3. k \in Nat
  BY <1>2 DEF TooMany, Rotates, KeepStart
<1> HIDE DEF k
<1>4. shards' \subseteq shards
  BY <1>1
<1>5. previous' \in [Parts -> Seq(folders')]
  <2>1. SUFFICES ASSUME NEW p \in Parts PROVE previous'[p] \in Seq(folders)
    BY <1>1, <1>2, SeqOfMore
  <2> QED
    BY <1>1, <1>2, <1>3, SeqFrom
<1>6. folders' \subseteq Nat \ {0} /\ step' \in folders'
  BY <1>1, <1>2 DEF loop
<1>7. TypeOK' /\ ShardsMatch'
  BY <1>1, <1>4, <1>5, <1>6 DEF ModelInv, TypeOK, ShardsMatch, loop, job
<1>8. LoopInv'
  BY <1>1, <1>6 DEF ModelInv, LoopInv, AfterUpdate, ModelAfter, Running, loop
<1> QED
  BY <1>7, <1>8 DEF ModelInv

\* A file that is open or written is empty or of this step's model.
LEMMA FileKeeps ==
    ASSUME ModelInv, NEW x \in Pieces, OpenFile(x) \/ WriteFile(x)
    PROVE  ModelInv'
<1>1. PICK w \in {Nothing, model[part][x]} : Put(x, w)
  BY DEF OpenFile, WriteFile
<1> DEFINE new == [part |-> part, step |-> step, piece |-> x, weights |-> w]
<1>2. /\ pc = "write" /\ open' \in {open \cup {x}, open \ {x}} /\ wrote' \in {wrote, wrote \cup {x}}
      /\ made' \in {made, made \cup {<<part, step>>}}
      /\ shards' \subseteq shards \cup {new}
      /\ UNCHANGED <<data, folders, tracker, loop, part, previous, pc, job>>
  BY <1>1 DEF OpenFile, WriteFile, Put
<1>3. /\ part \in Parts /\ step \in Nat /\ step \in folders /\ model[part][x] \in Weights
      /\ model[part][x].updates = UpdatesAfter(part, step)
  BY <1>2 DEF ModelInv, TypeOK, LoopInv, AfterUpdate, ModelAfter
<1>4. /\ new \in Shard
      /\ Whole(new) => new.weights.updates = UpdatesAfter(new.part, new.step)
  BY <1>3 DEF Shard, Whole
<1> HIDE DEF new
<1>5. TypeOK' /\ ShardsMatch'
  BY <1>2, <1>3, <1>4 DEF ModelInv, TypeOK, ShardsMatch, loop, job
<1>6. LoopInv'
  BY <1>2 DEF ModelInv, LoopInv, AfterUpdate, ModelAfter, Running, loop
<1> QED
  BY <1>5, <1>6 DEF ModelInv

LEMMA EndPartKeeps ==
    ASSUME ModelInv, EndPart
    PROVE  ModelInv'
<1>1. /\ pc = "write" /\ UNCHANGED <<disk, loop, made, open, wrote, job>>
      /\ previous' = [previous EXCEPT ![part] = Append(@, step)]
  BY DEF EndPart
<1>2. part' \in Parts /\ pc' \in {"rotate", "data", "next"}
  BY AfterPartStates DEF EndPart, ModelInv, TypeOK
<1>3. /\ part \in Parts /\ previous \in [Parts -> Seq(folders)] /\ step \in folders
  BY <1>1 DEF ModelInv, TypeOK, LoopInv
<1>4. previous' \in [Parts -> Seq(folders)]
  BY <1>1, <1>3
<1>5. TypeOK' /\ ShardsMatch'
  BY <1>1, <1>2, <1>4 DEF ModelInv, TypeOK, ShardsMatch, disk, loop, job
<1>6. LoopInv'
  BY <1>1, <1>2 DEF ModelInv, LoopInv, AfterUpdate, ModelAfter, Running, disk, loop
<1> QED
  BY <1>5, <1>6 DEF ModelInv

LEMMA OpenDataKeeps ==
    ASSUME ModelInv, OpenData
    PROVE  ModelInv'
<1>1. /\ pc = "data" /\ pc' = "position" /\ folders' = folders \cup {step}
      /\ data' = [n \in DOMAIN data \cup {step} |-> IF n = step THEN Torn ELSE data[n]]
      /\ UNCHANGED <<shards, tracker, loop, saving, job>>
  BY DEF OpenData
<1>2. /\ step \in Nat \ {0} /\ made \subseteq Parts \X folders
      /\ previous \in [Parts -> Seq(folders)] /\ folders \subseteq Nat \ {0}
  BY <1>1 DEF ModelInv, TypeOK, LoopInv, AfterUpdate
<1>3. /\ DOMAIN data' \subseteq folders' /\ step \in DOMAIN data'
      /\ \A n \in DOMAIN data' : data'[n] \in 1..StepsPerEpoch \cup {Torn}
  BY <1>1, <1>2 DEF ModelInv, TypeOK
<1>4. previous' \in [Parts -> Seq(folders')] /\ made' \subseteq Parts \X folders'
  BY <1>1, <1>2, SeqOfMore DEF saving
<1>5. folders' \subseteq Nat \ {0} /\ step' \in folders' /\ step' = step
  BY <1>1, <1>2 DEF loop
<1>6. TypeOK' /\ ShardsMatch'
  BY <1>1, <1>3, <1>4, <1>5 DEF ModelInv, TypeOK, ShardsMatch, loop, saving, job
<1>7. LoopInv'
  BY <1>1, <1>3, <1>5 DEF ModelInv, LoopInv, AfterUpdate, ModelAfter, Running, loop
<1> QED
  BY <1>6, <1>7 DEF ModelInv

LEMMA WriteDataKeeps ==
    ASSUME ModelInv, WriteData
    PROVE  ModelInv'
<1>1. /\ pc = "position" /\ pc' = "truncate" /\ data' = [data EXCEPT ![step] = pos]
      /\ UNCHANGED <<shards, folders, tracker, loop, saving, job>>
  BY DEF WriteData
<1>2. pos \in 1..StepsPerEpoch /\ step \in folders
  BY <1>1, StepsAssumption DEF ModelInv, TypeOK, LoopInv, AfterUpdate
<1>3. /\ DOMAIN data' = DOMAIN data
      /\ \A n \in DOMAIN data' : data'[n] = IF n = step THEN pos ELSE data[n]
  BY <1>1
<1>4. TypeOK' /\ ShardsMatch'
  BY <1>1, <1>2, <1>3 DEF ModelInv, TypeOK, ShardsMatch, loop, saving, job
<1>5. LoopInv'
  BY <1>1, <1>2 DEF ModelInv, LoopInv, AfterUpdate, ModelAfter, Running, loop
<1> QED
  BY <1>4, <1>5 DEF ModelInv

LEMMA TrackerKeeps ==
    ASSUME ModelInv, TruncateTracker \/ WriteTracker
    PROVE  ModelInv'
<1>1. /\ \/ pc = "truncate" /\ tracker' = EmptyTracker /\ pc' = "tracker"
         \/ pc = "tracker" /\ tracker' = step /\ pc' = "next"
      /\ UNCHANGED <<shards, data, folders, loop, saving, job>>
  BY DEF TruncateTracker, WriteTracker
<1>2. step \in folders
  BY <1>1 DEF ModelInv, LoopInv
<1>3. tracker' \in {EmptyTracker, NoTracker} \cup folders'
  BY <1>1, <1>2
<1>4. TypeOK' /\ ShardsMatch'
  BY <1>1, <1>3 DEF ModelInv, TypeOK, ShardsMatch, loop, saving, job
<1>5. LoopInv'
  BY <1>1 DEF ModelInv, LoopInv, AfterUpdate, ModelAfter, Running, loop
<1> QED
  BY <1>4, <1>5 DEF ModelInv

\* A crash may leave less than there was; what was in memory is gone.
LEMMA CrashLeaves ==
    ASSUME Crash \/ CrashRotating
    PROVE  /\ pc' = "down" /\ Forget /\ shards' \subseteq shards
           /\ UNCHANGED <<data, folders, tracker, job>>
  BY DEF Crash, CrashRotating, disk

LEMMA CrashKeeps ==
    ASSUME ModelInv, Crash \/ CrashRotating
    PROVE  ModelInv'
<1>1. /\ pc' = "down" /\ shards' \subseteq shards
      /\ UNCHANGED <<data, folders, tracker, job>>
      /\ step' = 0 /\ epoch' = 0 /\ pos' = 0 /\ model' = Fresh /\ part' = "actor"
      /\ previous' = [p \in Parts |-> <<>>] /\ made' = {} /\ open' = {} /\ wrote' = {}
  BY CrashLeaves DEF Forget
<1>2. Fresh \in [Parts -> [Pieces -> Weights]]
  BY DEF Fresh, Weights
<1>3. previous' \in [Parts -> Seq(folders')]
  BY <1>1
<1>4. TypeOK'
  BY <1>1, <1>2, <1>3, StepsAssumption DEF ModelInv, TypeOK, job, Parts
<1> QED
  BY <1>1, <1>4 DEF ModelInv, ShardsMatch, LoopInv, AfterUpdate, Running

LEMMA ModelInvNext == ModelInv /\ [Next]_vars => ModelInv'
<1> SUFFICES ASSUME ModelInv, [Next]_vars PROVE ModelInv'
  OBVIOUS
<1>1. CASE \E c \in Configs : Start(c)
  BY <1>1, StartKeeps
<1>2. CASE RunStep
  BY <1>2, LoadKeeps, EndEpochKeeps, TrainStepKeeps, NextStepKeeps, SkipPartKeeps, RotateKeeps,
     EndPartKeeps, FileKeeps, OpenDataKeeps, WriteDataKeeps, TrackerKeeps DEF RunStep
<1>3. CASE Crash \/ CrashRotating
  BY <1>3, CrashKeeps
<1>4. CASE Over \/ UNCHANGED vars
  BY <1>4 DEF Over, ModelInv, TypeOK, ShardsMatch, LoopInv, AfterUpdate, ModelAfter, Running,
     vars, disk, loop, saving, job
<1> QED
  BY <1>1, <1>2, <1>3, <1>4 DEF Next

-------------------------------------------------------------------------------
(* What it says of the job.                                                *)

\* The inductive invariant: whatever is lost with a crash, every shard on disk
\* is of the model of its step, and the models in the loop are of theirs.
THEOREM ModelsCorrect == Spec => []ModelInv
  BY ModelInvInit, ModelInvNext, PTL DEF Spec

\* The state stays well-formed: the files are in folders that exist, and the
\* tracker names such a folder, nothing, or is torn.
THEOREM TypeCorrect == Spec => []TypeOK
<1>1. ModelInv => TypeOK
  BY DEF ModelInv
<1> QED
  BY <1>1, ModelsCorrect, PTL

\* Through every crash and resume a run trains on models that have received
\* exactly the updates of the steps before it.
THEOREM ModelMatchesStepHolds == Spec => []ModelMatchesStep
<1>1. ModelInv => ModelMatchesStep
  BY DEF ModelInv, LoopInv, ModelAfter, ModelMatchesStep
<1> QED
  BY <1>1, ModelsCorrect, PTL

-------------------------------------------------------------------------------
(* The position in the data.                                               *)

\* A quotient and a remainder are the only ones.
LEMMA QuotientUnique ==
    ASSUME NEW n \in Nat \ {0}, NEW a \in Nat, NEW q \in Int, NEW r \in 0..n - 1,
           a = (n * q) + r
    PROVE  a % n = r
  OBVIOUS

LEMMA Quotient ==
    ASSUME NEW n \in Nat \ {0}, NEW a \in Nat
    PROVE  a = (n * (a \div n)) + (a % n) /\ a % n \in 0..n - 1 /\ a \div n \in Nat
  OBVIOUS

LEMMA NextRemainder ==
    ASSUME NEW n \in Nat \ {0}, NEW a \in Nat
    PROVE  (a + 1) % n = IF a % n = n - 1 THEN 0 ELSE (a % n) + 1
<1> DEFINE q == a \div n
           r == a % n
<1>1. a = (n * q) + r /\ q \in Nat /\ r \in 0..n - 1
  BY Quotient
<1> HIDE DEF q, r
<1>2. CASE r = n - 1
  <2>1. a + 1 = (n * (q + 1)) + 0
    BY <1>1, <1>2
  <2> QED
    BY <2>1, <1>1, <1>2, QuotientUnique
<1>3. CASE r # n - 1
  <2>1. a + 1 = (n * q) + (r + 1) /\ r + 1 \in 0..n - 1
    BY <1>1, <1>3
  <2>2. (a + 1) % n = r + 1
    BY <2>1, <1>1, QuotientUnique
  <2> QED
    BY <2>2, <1>3, <1>1
<1> QED
  BY <1>2, <1>3 DEF r

\* Two counters that go on together.
LEMMA SameRemainder ==
    ASSUME NEW n \in Nat \ {0}, NEW a \in Nat, NEW b \in Nat, a % n = b % n
    PROVE  (a + 1) % n = (b + 1) % n
  BY NextRemainder

\* An epoch's end is the next one's start.
LEMMA WholeEpoch ==
    ASSUME NEW n \in Nat \ {0}
    PROVE  n % n = 0 % n
  OBVIOUS

\* Unless some run was not told to resume automatically: every saved position
\* belongs to its step, the tracker names a checkpoint that has one, and the
\* run's position belongs to the step it is in.
DataInv ==
    ~manual =>
        /\ Running => conf.resume = "auto"
        /\ \A n \in DOMAIN data :
              data[n] # Torn => data[n] % StepsPerEpoch = n % StepsPerEpoch
        /\ tracker > 0 => tracker \in DOMAIN data
        /\ pc \in {"position", "truncate", "tracker"} => step \in DOMAIN data
        /\ pc = "load" => pos = 0
        /\ pc = "train" => pos % StepsPerEpoch = (step - 1) % StepsPerEpoch
        /\ AfterUpdate => pos % StepsPerEpoch = step % StepsPerEpoch

LEMMA LoadKeepsData ==
    ASSUME ModelInv, DataInv, Load
    PROVE  DataInv'
<1> SUFFICES ASSUME ~manual' PROVE DataInv'
  BY DEF DataInv
<1>1. pc = "load" /\ UNCHANGED <<disk, saving, job>>
  BY DEF Load
<1>2. /\ conf.resume = "auto" /\ pos = 0
      /\ \A n \in DOMAIN data :
            data[n] # Torn => data[n] % StepsPerEpoch = n % StepsPerEpoch
      /\ tracker > 0 => tracker \in DOMAIN data
  BY <1>1 DEF DataInv, job, manual, Running
<1>3. \/ pc' = "failed" /\ UNCHANGED loop
      \/ Scratch
      \/ tracker \in folders /\ LoadFrom(tracker)
  BY <1>2 DEF Load
<1>4. (pc' = "failed" \/ pc' = "train")
         /\ (pc' = "train" => pos' % StepsPerEpoch = (step' - 1) % StepsPerEpoch)
  <2>1. CASE pc' = "failed" /\ UNCHANGED loop
    BY <2>1
  <2>2. CASE Scratch
    <3>1. pc' = "train" /\ step' = 1 /\ pos' = 0
      BY <2>2, <1>2 DEF Scratch
    <3> QED
      BY <3>1
  <2>3. CASE tracker \in folders /\ LoadFrom(tracker)
    <3>1. tracker \in Nat /\ tracker > 0
      BY <2>3 DEF ModelInv, TypeOK
    <3>2. tracker \in DOMAIN data
      BY <3>1, <1>2
    <3>3. \/ pc' = "failed"
          \/ /\ pc' = "train" /\ pos' = data[tracker] /\ step' = tracker + 1
             /\ data[tracker] # Torn
      BY <2>3, <3>2 DEF LoadFrom, Loadable
    <3>4. step' = tracker + 1 => step' - 1 = tracker
      BY <3>1
    <3> QED
      BY <3>2, <3>3, <3>4, <1>2
  <2> QED
    BY <1>3, <2>1, <2>2, <2>3
<1> QED
  BY <1>1, <1>2, <1>4 DEF DataInv, disk, job, manual, AfterUpdate, Running

LEMMA DataInvNext ==
    ASSUME ModelInv, DataInv, [Next]_vars
    PROVE  DataInv'
<1> SUFFICES ASSUME ~manual' PROVE DataInv'
  BY DEF DataInv
<1>0. /\ StepsPerEpoch \in Nat \ {0} /\ step \in Nat /\ pos \in Nat /\ manuals \in Nat
      /\ (pc = "train" \/ AfterUpdate) => step > 0
      /\ step > 0 => step - 1 \in Nat /\ (step - 1) + 1 = step /\ (step + 1) - 1 = step
  BY StepsAssumption DEF ModelInv, TypeOK, LoopInv
<1>1. CASE \E c \in Configs : Start(c)
  BY <1>1, <1>0 DEF DataInv, Start, Forget, disk, AfterUpdate, Running, manual
<1>2. CASE Load
  BY <1>2, LoadKeepsData
<1>3. CASE EndEpoch
  <2>1. /\ pc = "train" /\ pos = StepsPerEpoch /\ pos' = 0 /\ (pc' = "done" \/ pc' = pc)
        /\ UNCHANGED <<disk, saving, job, step, model>>
    BY <1>3 DEF EndEpoch
  <2>2. pos' % StepsPerEpoch = (step' - 1) % StepsPerEpoch
    <3>1. pos % StepsPerEpoch = (step - 1) % StepsPerEpoch
      BY <2>1 DEF DataInv, job, manual
    <3>2. pos % StepsPerEpoch = pos' % StepsPerEpoch
      BY <2>1, WholeEpoch, StepsAssumption
    <3> QED
      BY <2>1, <3>1, <3>2
  <2> QED
    BY <2>1, <2>2 DEF DataInv, disk, job, manual, AfterUpdate, Running
<1>4. CASE TrainStep
  <2>1. /\ pc = "train" /\ pos' = pos + 1 /\ (pc' = "rotate" \/ pc' = "next")
        /\ UNCHANGED <<disk, job, step, epoch, previous, made, open, wrote>>
    BY <1>4 DEF TrainStep
  <2>2. ~manual
    BY <2>1 DEF job, manual
  <2>3. pos % StepsPerEpoch = (step - 1) % StepsPerEpoch
    BY <2>1, <2>2 DEF DataInv
  <2>4. (pos + 1) % StepsPerEpoch = step % StepsPerEpoch
    <3>1. step - 1 \in Nat /\ (step - 1) + 1 = step
      BY <2>1, <1>0
    <3>2. (pos + 1) % StepsPerEpoch = ((step - 1) + 1) % StepsPerEpoch
      BY <2>3, <3>1, <1>0, SameRemainder
    <3> QED
      BY <3>1, <3>2
  <2> QED
    BY <2>1, <2>4 DEF DataInv, disk, job, manual, AfterUpdate, Running
<1>5. CASE NextStep
  <2>1. /\ pc = "next" /\ step' = step + 1 /\ (pc' = "done" \/ pc' = "train")
        /\ UNCHANGED <<disk, saving, job, epoch, pos, model>>
    BY <1>5 DEF NextStep
  <2>2. AfterUpdate /\ step' - 1 = step
    BY <2>1, <1>0 DEF AfterUpdate
  <2> QED
    BY <2>1, <2>2 DEF DataInv, disk, job, manual, AfterUpdate, Running
<1>6. CASE SkipPart \/ EndPart
  <2>1. /\ (pc = "rotate" \/ pc = "write") /\ UNCHANGED <<disk, loop, job>>
        /\ pc' \in {"rotate", "data", "next"}
    BY <1>6, AfterPartStates DEF SkipPart, EndPart, ModelInv, TypeOK
  <2> QED
    BY <2>1 DEF DataInv, disk, loop, job, manual, AfterUpdate, Running
<1>7. CASE Rotate \/ \E x \in Pieces : OpenFile(x) \/ WriteFile(x)
  <2>1. /\ (pc = "rotate" \/ pc = "write") /\ pc' = "write"
        /\ UNCHANGED <<data, tracker, loop, job>>
    BY <1>7 DEF Rotate, OpenFile, WriteFile
  <2> QED
    BY <2>1 DEF DataInv, loop, job, manual, AfterUpdate, Running
<1>8. CASE OpenData
  <2>1. /\ pc = "data" /\ pc' = "position"
        /\ data' = [n \in DOMAIN data \cup {step} |-> IF n = step THEN Torn ELSE data[n]]
        /\ UNCHANGED <<tracker, loop, job>>
    BY <1>8 DEF OpenData
  <2> QED
    BY <2>1 DEF DataInv, loop, job, manual, AfterUpdate, Running
<1>9. CASE WriteData
  <2>1. /\ pc = "position" /\ pc' = "truncate" /\ data' = [data EXCEPT ![step] = pos]
        /\ UNCHANGED <<tracker, loop, job>>
    BY <1>9 DEF WriteData
  <2>2. DOMAIN data' = DOMAIN data /\ \A n \in DOMAIN data : data'[n] = IF n = step THEN pos ELSE data[n]
    BY <2>1
  <2> QED
    BY <2>1, <2>2 DEF DataInv, loop, job, manual, AfterUpdate, Running
<1>10. CASE TruncateTracker
  BY <1>10 DEF DataInv, TruncateTracker, loop, job, manual, AfterUpdate, Running, EmptyTracker
<1>11. CASE WriteTracker
  BY <1>11 DEF DataInv, WriteTracker, loop, job, manual, AfterUpdate, Running
<1>12. CASE Crash \/ CrashRotating
  <2>1. pc' = "down" /\ UNCHANGED <<data, tracker, job>>
    BY <1>12, CrashLeaves
  <2> QED
    BY <2>1 DEF DataInv, job, manual, AfterUpdate, Running
<1>13. CASE Over \/ UNCHANGED vars
  BY <1>13 DEF DataInv, Over, vars, disk, loop, saving, job, manual, AfterUpdate, Running
<1> QED
  BY <1>1, <1>2, <1>3, <1>4, <1>5, <1>6, <1>7, <1>8, <1>9, <1>10, <1>11, <1>12, <1>13
     DEF Next, RunStep

\* No batch of the data is trained on twice or skipped, whatever was lost with a
\* crash, as long as the job resumes automatically.
THEOREM DataMatchesStepHolds == Spec => []DataMatchesStep
<1>1. Init => DataInv
  BY DEF Init, DataInv, AfterUpdate, Running, NoTracker, manual
<1>2. ModelInv /\ DataInv /\ [Next]_vars => DataInv'
  BY DataInvNext
<1>3. DataInv => DataMatchesStep
  BY DEF DataInv, DataMatchesStep
<1> QED
  BY <1>1, <1>2, <1>3, ModelsCorrect, PTL DEF Spec

-------------------------------------------------------------------------------
(* The checkpoints a run keeps.                                            *)

Making(p) == pc = "write" /\ part = p

\* Every file this run has opened of a part is of a checkpoint that is recorded
\* or in the making, or is deleted.
OwnRecorded(p) ==
    \A n \in folders :
        <<p, n>> \in made /\ Saved(p, n) # {} =>
            \/ \E i \in DOMAIN previous[p] : previous[p][i] = n
            \/ Making(p) /\ n = step

\* There is room for the one in the making.
Room(p) ==
    conf.keep[p] > 0 =>
        /\ Len(previous[p]) <= conf.keep[p]
        /\ Making(p) => Len(previous[p]) < conf.keep[p]

\* The running one has recorded what it has on disk.
KeepInv == Running => \A p \in Parts : OwnRecorded(p) /\ Room(p)

\* A sequence has no more members than places.
LEMMA FewMembers ==
    ASSUME NEW S, NEW q \in Seq(S)
    PROVE  LET members == {q[i] : i \in DOMAIN q}
           IN  IsFiniteSet(members) /\ Cardinality(members) <= Len(q)
<1> DEFINE members == {q[i] : i \in DOMAIN q}
<1>1. DOMAIN q = 1..Len(q) /\ Len(q) \in Nat
  OBVIOUS
<1>2. IsFiniteSet(DOMAIN q) /\ Cardinality(DOMAIN q) = Len(q)
  <2>1. IsFiniteSet(1..Len(q)) /\ Cardinality(1..Len(q)) = IF 1 > Len(q) THEN 0 ELSE Len(q) - 1 + 1
    BY <1>1, FS_Interval
  <2> QED
    BY <1>1, <2>1
<1>3. [i \in DOMAIN q |-> q[i]] \in Surjection(DOMAIN q, members)
  BY DEF Surjection
<1> QED
  BY <1>2, <1>3, FS_Surjection

LEMMA StartKeepsRecord ==
    ASSUME ModelInv, NEW c \in Configs, Start(c)
    PROVE  KeepInv'
<1>1. pc' = "load" /\ made' = {} /\ previous' = [p \in Parts |-> <<>>] /\ conf' \in Config
  BY ConfigsAssumption DEF Start, Forget
<1>2. ASSUME NEW p \in Parts PROVE OwnRecorded(p)' /\ Room(p)'
  <2>1. previous'[p] = <<>> /\ Len(previous'[p]) = 0 /\ conf'.keep[p] \in Nat
    BY <1>1 DEF Config
  <2> QED
    BY <2>1, <1>1 DEF OwnRecorded, Room, Making
<1> QED
  BY <1>2 DEF KeepInv

\* The oldest are deleted as recorded.
LEMMA RotateKeepsRecord ==
    ASSUME ModelInv, KeepInv, Rotate
    PROVE  KeepInv'
<1> DEFINE k == TooMany
           old == previous[part]
<1>1. /\ pc = "rotate" /\ pc' = "write" /\ shards' = shards \ Oldest
      /\ previous' = [previous EXCEPT ![part] = SubSeq(@, k + 1, Len(@))]
      /\ folders' = folders \cup {step}
      /\ UNCHANGED <<loop, part, made, job>>
  BY DEF Rotate
<1>2. /\ part \in Parts /\ previous \in [Parts -> Seq(folders)] /\ old \in Seq(folders)
      /\ \A p \in Parts : conf.keep[p] \in Nat
  BY DEF ModelInv, TypeOK, Config
<1>3. Len(old) \in Nat /\ k \in 0..Len(old) /\ (conf.keep[part] > 0 => Len(old) - k < conf.keep[part])
  BY <1>2 DEF TooMany, Rotates, KeepStart
<1>4. Oldest = UNION {Saved(part, old[i]) : i \in 1..k}
  BY DEF Oldest
<1> HIDE DEF k, old
<1>5. /\ previous'[part] = SubSeq(old, k + 1, Len(old))
      /\ Len(previous'[part]) = Len(old) - k
      /\ DOMAIN previous'[part] = 1..Len(old) - k
      /\ \A i \in 1..Len(old) - k : previous'[part][i] = old[k + i]
  <2>1. previous'[part] = SubSeq(old, k + 1, Len(old))
    BY <1>1, <1>2 DEF old
  <2>2. /\ Len(SubSeq(old, k + 1, Len(old))) = Len(old) - k
        /\ DOMAIN SubSeq(old, k + 1, Len(old)) = 1..Len(old) - k
        /\ \A i \in 1..Len(old) - k : SubSeq(old, k + 1, Len(old))[i] = old[k + i]
    BY <1>2, <1>3
  <2> QED
    BY <2>1, <2>2
<1>6. \A p \in Parts : p # part => previous'[p] = previous[p]
  BY <1>1, <1>2
<1>7. run' = run /\ conf' = conf /\ step' = step /\ part' = part /\ made' = made
  BY <1>1 DEF loop, job
<1>8. \A p \in Parts : OwnRecorded(p) /\ Room(p) /\ ~Making(p)
  BY <1>1 DEF KeepInv, Running, Making
<1>9. ASSUME NEW p \in Parts PROVE OwnRecorded(p)'
  <2>1. SUFFICES ASSUME NEW n \in folders', <<p, n>> \in made, Saved(p, n)' # {}
                 PROVE  \E i \in DOMAIN previous'[p] : previous'[p][i] = n
    BY <1>7 DEF OwnRecorded
  <2>2. n \in folders /\ Saved(p, n) # {}
    <3>1. <<p, n>> \in Parts \X folders
      BY <2>1 DEF ModelInv, TypeOK
    <3> QED
      BY <3>1, <2>1, <1>1 DEF Saved
  <2>3. PICK i \in DOMAIN previous[p] : previous[p][i] = n
    BY <2>1, <2>2, <1>8 DEF OwnRecorded
  <2>4. CASE p # part
    BY <2>3, <2>4, <1>6
  <2>5. CASE p = part
    <3>1. i \in 1..Len(old) /\ old[i] = n
      BY <2>3, <2>5, <1>2 DEF old
    <3>2. i \notin 1..k
      <4>1. PICK s \in Saved(p, n)' : TRUE
        BY <2>1
      <4>2. s \in Saved(part, n) /\ s \notin Oldest
        BY <4>1, <1>1, <2>5 DEF Saved
      <4> QED
        BY <4>2, <3>1, <1>4
    <3>3. i - k \in 1..Len(old) - k /\ k + (i - k) = i
      BY <3>1, <3>2, <1>3
    <3> QED
      BY <3>1, <3>3, <1>5, <2>5
  <2> QED
    BY <2>4, <2>5
<1>10. ASSUME NEW p \in Parts PROVE Room(p)'
  <2>1. CASE p = part
    BY <2>1, <1>2, <1>3, <1>5, <1>7 DEF Room
  <2>2. CASE p # part
    BY <2>2, <1>6, <1>7, <1>8 DEF Room, Making
  <2> QED
    BY <2>1, <2>2
<1> QED
  BY <1>9, <1>10 DEF KeepInv

LEMMA FileKeepsRecord ==
    ASSUME ModelInv, KeepInv, NEW x \in Pieces, OpenFile(x) \/ WriteFile(x)
    PROVE  KeepInv'
<1>1. PICK w : Put(x, w)
  BY DEF OpenFile, WriteFile
<1> DEFINE new == [part |-> part, step |-> step, piece |-> x, weights |-> w]
<1>2. /\ pc = "write" /\ \A s \in shards' : s \in shards \/ s = new
      /\ UNCHANGED <<folders, loop, part, previous, pc, job>>
      /\ made' \in {made, made \cup {<<part, step>>}}
  BY <1>1 DEF OpenFile, WriteFile, Put
<1>3. part \in Parts /\ new.part = part /\ new.step = step
  BY DEF ModelInv, TypeOK
<1> HIDE DEF new
<1>4. ASSUME NEW p \in Parts PROVE OwnRecorded(p)' /\ Room(p)'
  <2>1. OwnRecorded(p) /\ Room(p)
    BY <1>2 DEF KeepInv, Running
  <2>2. Room(p)'
    BY <2>1, <1>2 DEF Room, Making, job
  <2>3. ASSUME NEW n \in folders, ~(p = part /\ n = step), <<p, n>> \in made', Saved(p, n)' # {}
        PROVE  <<p, n>> \in made /\ Saved(p, n) # {}
    <3>1. <<p, n>> \in made
      BY <2>3, <1>2
    <3>2. Saved(p, n)' \subseteq Saved(p, n)
      BY <2>3, <1>2, <1>3 DEF Saved
    <3> QED
      BY <2>3, <3>1, <3>2
  <2>4. Making(p)' = Making(p) /\ step' = step /\ previous' = previous /\ folders' = folders
    BY <1>2 DEF Making, loop
  <2>5. p = part => Making(p)
    BY <1>2 DEF Making
  <2> QED
    BY <2>1, <2>2, <2>3, <2>4, <2>5 DEF OwnRecorded
<1> QED
  BY <1>4 DEF KeepInv

\* The step just written is recorded.
LEMMA EndPartKeepsRecord ==
    ASSUME ModelInv, KeepInv, EndPart
    PROVE  KeepInv'
<1>1. /\ pc = "write" /\ UNCHANGED <<disk, loop, made, job>>
      /\ previous' = [previous EXCEPT ![part] = Append(@, step)]
  BY DEF EndPart
<1>2. pc' \in {"rotate", "data", "next"}
  BY AfterPartStates DEF EndPart, ModelInv, TypeOK
<1>3. part \in Parts /\ previous \in [Parts -> Seq(folders)] /\ step \in folders
  BY <1>1 DEF ModelInv, TypeOK, LoopInv
<1> DEFINE old == previous[part]
<1>4. /\ old \in Seq(folders) /\ previous'[part] = Append(old, step)
      /\ \A p \in Parts : p # part => previous'[p] = previous[p]
  BY <1>1, <1>3
<1> HIDE DEF old
<1>5. /\ DOMAIN old = 1..Len(old) /\ Len(old) \in Nat
      /\ Len(Append(old, step)) = Len(old) + 1
      /\ DOMAIN Append(old, step) = 1..Len(old) + 1
      /\ \A i \in 1..Len(old) : Append(old, step)[i] = old[i]
      /\ Append(old, step)[Len(old) + 1] = step
  BY <1>3, <1>4
<1>6. ASSUME NEW p \in Parts PROVE OwnRecorded(p)' /\ Room(p)'
  <2>1. OwnRecorded(p) /\ Room(p)
    BY <1>1 DEF KeepInv, Running
  <2>2. shards' = shards /\ folders' = folders /\ made' = made /\ conf' = conf /\ ~Making(p)'
    BY <1>1, <1>2 DEF disk, job, Making
  <2> USE DEF Saved
  <2>3. CASE p # part
    BY <2>1, <2>2, <2>3, <1>4 DEF OwnRecorded, Room, Making
  <2>4. CASE p = part
    <3>1. OwnRecorded(p)'
      <4>1. SUFFICES ASSUME NEW n \in folders, <<p, n>> \in made, Saved(p, n) # {}
                     PROVE  \E i \in DOMAIN previous'[p] : previous'[p][i] = n
        BY <2>2 DEF OwnRecorded
      <4>2. (\E i \in DOMAIN old : old[i] = n) \/ n = step
        BY <2>1, <2>4, <4>1 DEF OwnRecorded, old
      <4> QED
        BY <4>2, <2>4, <1>4, <1>5
    <3>2. Room(p)'
      <4>1. conf.keep[p] > 0 => Len(old) < conf.keep[p]
        BY <2>1, <2>4, <1>1 DEF Room, Making, old
      <4>2. conf.keep[p] \in Nat
        BY DEF ModelInv, TypeOK, Config
      <4> QED
        BY <4>1, <4>2, <2>2, <2>4, <1>4, <1>5 DEF Room
    <3> QED
      BY <3>1, <3>2
  <2> QED
    BY <2>3, <2>4
<1> QED
  BY <1>6 DEF KeepInv

\* What leaves the files and the record alone, outside a part's save.
LEMMA RecordStays ==
    ASSUME KeepInv, Running, pc # "write", pc' # "write",
           \A p \in Parts : \A n \in folders' : <<p, n>> \in made => n \in folders,
           UNCHANGED <<shards, previous, made, job>>
    PROVE  KeepInv'
<1> SUFFICES ASSUME NEW p \in Parts PROVE OwnRecorded(p)' /\ Room(p)'
  BY DEF KeepInv
<1>1. OwnRecorded(p) /\ Room(p)
  BY DEF KeepInv
<1> QED
  BY <1>1 DEF OwnRecorded, Room, Making, Saved, job

LEMMA KeepInvNext ==
    ASSUME ModelInv, KeepInv, [Next]_vars
    PROVE  KeepInv'
<1>1. CASE \E c \in Configs : Start(c)
  BY <1>1, StartKeepsRecord
<1>2. CASE Rotate \/ EndPart \/ \E x \in Pieces : OpenFile(x) \/ WriteFile(x)
  BY <1>2, RotateKeepsRecord, EndPartKeepsRecord, FileKeepsRecord
<1>3. CASE Load
  <2>1. conf.resume \in {"auto", "disable", "resume_path"}
    BY DEF ModelInv, TypeOK, Config
  <2>2. /\ pc = "load" /\ pc' \in {"train", "failed"}
        /\ UNCHANGED <<shards, folders, previous, made, job>>
    BY <1>3, <2>1 DEF Load, LoadFrom, Scratch, disk, saving
  <2> QED
    BY <2>2, RecordStays DEF Running
<1>4. CASE EndEpoch \/ TrainStep \/ NextStep \/ SkipPart \/ OpenData \/ WriteData
             \/ TruncateTracker \/ WriteTracker
  <2>1. /\ pc \in {"train", "next", "rotate", "data", "position", "truncate", "tracker"}
        /\ pc' \in {"train", "done", "rotate", "data", "next", "position", "truncate", "tracker"}
        /\ UNCHANGED <<shards, previous, made, job>>
    BY <1>4, AfterPartStates DEF EndEpoch, TrainStep, NextStep, SkipPart, OpenData, WriteData,
       TruncateTracker, WriteTracker, disk, loop, saving, job, ModelInv, TypeOK
  <2>2. made \subseteq Parts \X folders
    BY DEF ModelInv, TypeOK
  <2> QED
    BY <2>1, <2>2, RecordStays DEF Running
<1>5. CASE Crash \/ CrashRotating
  BY <1>5, CrashLeaves DEF KeepInv, Running
<1>6. CASE Over \/ UNCHANGED vars
  <2>1. pc' = pc /\ UNCHANGED <<disk, loop, saving, job>>
    BY <1>6 DEF Over, vars
  <2>2. ASSUME Running, NEW p \in Parts PROVE OwnRecorded(p)' /\ Room(p)'
    <3>1. OwnRecorded(p) /\ Room(p)
      BY <2>2 DEF KeepInv
    <3> QED
      BY <3>1, <2>1 DEF OwnRecorded, Room, Making, Saved, disk, loop, saving, job
  <2> QED
    BY <2>1, <2>2 DEF KeepInv, Running
<1> QED
  BY <1>1, <1>2, <1>3, <1>4, <1>5, <1>6 DEF Next, RunStep

\* A run never keeps more checkpoints of a part than it was told to, and deletes
\* before it writes.
THEOREM RunKeepsAtMostHolds == Spec => []RunKeepsAtMost
<1>1. Init => KeepInv
  BY DEF Init, KeepInv, Running
<1>2. ModelInv /\ KeepInv /\ [Next]_vars => KeepInv'
  BY KeepInvNext
<1>3. ModelInv /\ KeepInv => RunKeepsAtMost
  <2> SUFFICES ASSUME ModelInv, KeepInv, Running, NEW p \in Parts, conf.keep[p] > 0
               PROVE  Cardinality({n \in folders : <<p, n>> \in made /\ Saved(p, n) # {}})
                         <= conf.keep[p]
    BY DEF RunKeepsAtMost
  <2> DEFINE own == {n \in folders : <<p, n>> \in made /\ Saved(p, n) # {}}
             recorded == {previous[p][i] : i \in DOMAIN previous[p]}
  <2>1. /\ previous[p] \in Seq(folders) /\ Len(previous[p]) \in Nat
        /\ conf.keep[p] \in Nat
    <3>1. previous \in [Parts -> Seq(folders)] /\ conf \in Config
      BY DEF ModelInv, TypeOK
    <3> QED
      BY <3>1 DEF Config
  <2>2. /\ IsFiniteSet(recorded) /\ Cardinality(recorded) <= Len(previous[p])
        /\ Cardinality(recorded) \in Nat
    BY <2>1, FewMembers, FS_CardinalityType
  <2>3. OwnRecorded(p) /\ Room(p)
    BY DEF KeepInv
  <2>4. CASE Making(p)
    <3>1. own \subseteq recorded \cup {step}
      BY <2>3 DEF OwnRecorded
    <3>2. /\ IsFiniteSet(recorded \cup {step})
          /\ Cardinality(recorded \cup {step}) =
                IF step \in recorded THEN Cardinality(recorded) ELSE Cardinality(recorded) + 1
      BY <2>2, FS_AddElement
    <3> HIDE DEF own, recorded
    <3>3. /\ IsFiniteSet(own) /\ Cardinality(own) <= Cardinality(recorded \cup {step})
          /\ Cardinality(own) \in Nat
      BY <3>1, <3>2, FS_Subset, FS_CardinalityType
    <3>4. Len(previous[p]) < conf.keep[p]
      BY <2>3, <2>4 DEF Room
    <3>5. Cardinality(own) <= conf.keep[p]
      BY <3>2, <3>3, <3>4, <2>1, <2>2
    <3> QED
      BY <3>5 DEF own
  <2>5. CASE ~Making(p)
    <3>1. own \subseteq recorded
      BY <2>3, <2>5 DEF OwnRecorded
    <3> HIDE DEF own, recorded
    <3>2. Cardinality(own) <= Cardinality(recorded) /\ Cardinality(own) \in Nat
      BY <3>1, <2>2, FS_Subset, FS_CardinalityType
    <3>3. Len(previous[p]) <= conf.keep[p]
      BY <2>3 DEF Room
    <3>4. Cardinality(own) <= conf.keep[p]
      BY <3>2, <3>3, <2>1, <2>2
    <3> QED
      BY <3>4 DEF own
  <2> QED
    BY <2>4, <2>5
<1> QED
  BY <1>1, <1>2, <1>3, ModelsCorrect, PTL DEF Spec

-------------------------------------------------------------------------------
(* Checkpoints: under which settings the checkpoint that the tracker names  *)
(* can be resumed from at any moment.                                      *)

\* The settings every run of the job is started with.  One that moves the
\* tracker keeps more than the last checkpoint; one that saves one part only, and
\* never moves the tracker, resumes from where it points or deletes nothing.
SafeSettings ==
    \A c \in Configs :
        IF \A p \in Parts : c.save[p]
        THEN \A p \in Parts : c.keep[p] # 1
        ELSE c.resume = "auto" \/ \A p \in Parts : c.keep[p] = 0

\* A part is on disk for a step, every file of every rank.
OnDisk(p, n) == \A x \in Pieces : \E s \in Saved(p, n) : s.piece = x

\* ... as one model.
OneModel(p, n) ==
    /\ \A s \in Saved(p, n) : Whole(s)
    /\ \A s, t \in Saved(p, n) : s.weights = t.weights

Complete(n) == \A p \in Parts : OnDisk(p, n) /\ (manual \/ OneModel(p, n))

\* The part is on disk as this step's model.
Written(p) == OnDisk(p, step) /\ \A s \in Saved(p, step) : s.weights = model[p][s.piece]

\* The part's turn in this step is still to come.
Pending(p) == pc = "train" \/ (pc \in {"rotate", "write"} /\ (part = p \/ part = "actor"))

Finishing == pc \in {"data", "position", "truncate", "tracker"}

\* A save goes from part to part, and all ranks have one model.
SaveInv ==
    /\ pc = "write" => \A x \in wrote :
          /\ \E s \in Saved(part, step) : s.piece = x
          /\ \A s \in Saved(part, step) : s.piece = x => s.weights = model[part][x]
    /\ Resumable /\ pc \in {"rotate", "write"} /\ part = "critic" => Written("actor")
    /\ Finishing => Resumable /\ \A p \in Parts : Written(p)
    /\ Running /\ ~manual => \A p \in Parts : \A x, y \in Pieces : model[p][x] = model[p][y]

\* What a run has recorded of a part: its checkpoints in their order, the last
\* of them the tracker's if it moves the tracker, all after it if it does not and
\* deletes some.
RecordInv(p) ==
    /\ pc = "load" => previous[p] = <<>>
    /\ \A i, j \in DOMAIN previous[p] : i < j => previous[p][i] < previous[p][j]
    /\ \A i \in DOMAIN previous[p] :
          /\ previous[p][i] <= step
          /\ Pending(p) => previous[p][i] < step
          /\ ~Resumable /\ conf.keep[p] > 0 /\ tracker > 0 => previous[p][i] > tracker
    /\ Resumable => LET n == Len(previous[p]) IN
          /\ (Pending(p) \/ pc = "next") /\ n > 0 => previous[p][n] = tracker
          /\ Finishing \/ (pc \in {"rotate", "write"} /\ ~Pending(p)) => n > 0 /\ previous[p][n] = step

\* A run that resumed automatically is past the tracker's checkpoint.
PastTracker ==
    conf.resume = "auto" =>
        /\ pc \in {"train", "rotate", "write", "data", "position", "truncate"} => step > tracker
        /\ pc = "next" => step >= tracker

\* The inductive invariant of the tracked checkpoint.
TrackInv ==
    /\ tracker > 0 => Complete(tracker)
    /\ SaveInv
    /\ Running => conf \in Configs /\ PastTracker /\ \A p \in Parts : RecordInv(p)

\* Where there is a tracker, there is a position in the data.
PositionInv ==
    /\ tracker > 0 => tracker \in DOMAIN data /\ (manual \/ data[tracker] # Torn)
    /\ pc \in {"position", "truncate", "tracker"} => step \in DOMAIN data
    /\ pc \in {"truncate", "tracker"} => data[step] # Torn

Inv == ModelInv /\ DataInv /\ KeepInv /\ TrackInv /\ PositionInv

LEMMA Numbers ==
    ASSUME Inv
    PROVE  /\ step \in Nat /\ tracker \in Int
           /\ tracker \in folders \/ tracker <= 0
           /\ \A p \in Parts :
                 /\ Len(previous[p]) \in Nat /\ DOMAIN previous[p] = 1..Len(previous[p])
                 /\ \A i \in DOMAIN previous[p] : previous[p][i] \in Nat
<1>1. folders \subseteq Nat /\ previous \in [Parts -> Seq(folders)] /\ step \in Nat
  BY DEF Inv, ModelInv, TypeOK
<1>2. tracker = EmptyTracker \/ tracker = NoTracker \/ tracker \in folders
  BY DEF Inv, ModelInv, TypeOK
<1>3. tracker \in Int /\ (tracker \in folders \/ tracker <= 0)
  <2>1. CASE tracker = EmptyTracker
    BY <2>1 DEF EmptyTracker
  <2>2. CASE tracker = NoTracker
    BY <2>2 DEF NoTracker
  <2>3. CASE tracker \in folders
    BY <2>3, <1>1
  <2> QED
    BY <1>2, <2>1, <2>2, <2>3
<1>4. ASSUME NEW p \in Parts
      PROVE  /\ Len(previous[p]) \in Nat /\ DOMAIN previous[p] = 1..Len(previous[p])
             /\ \A i \in DOMAIN previous[p] : previous[p][i] \in Nat
  <2>1. previous[p] \in Seq(folders)
    BY <1>1
  <2>2. Len(previous[p]) \in Nat /\ DOMAIN previous[p] = 1..Len(previous[p])
    BY <2>1
  <2>3. \A i \in DOMAIN previous[p] : previous[p][i] \in folders
    BY <2>1
  <2> QED
    BY <2>2, <2>3, <1>1
<1> QED
  BY <1>1, <1>3, <1>4

\* A checkpoint stays complete when the shards of a part and step do.
LEMMA CompleteStays ==
    ASSUME tracker > 0 => Complete(tracker), tracker' = tracker, manual => manual',
           \A p \in Parts : Saved(p, tracker)' = Saved(p, tracker)
    PROVE  tracker' > 0 => Complete(tracker)'
<1> SUFFICES ASSUME tracker > 0, NEW p \in Parts
             PROVE  OnDisk(p, tracker)' /\ (manual' \/ OneModel(p, tracker)')
  BY DEF Complete
<1>1. OnDisk(p, tracker) /\ (manual \/ OneModel(p, tracker))
  BY DEF Complete
<1>2. OnDisk(p, tracker)'
  BY <1>1 DEF OnDisk
<1>3. OneModel(p, tracker) => OneModel(p, tracker)'
  BY DEF OneModel
<1> QED
  BY <1>1, <1>2, <1>3
-------------------------------------------------------------------------------
(* Starting and resuming.                                                  *)

LEMMA StartKeepsTrack ==
    ASSUME Inv, NEW c \in Configs, Start(c)
    PROVE  TrackInv'
<1>1. /\ pc' = "load" /\ shards' = shards /\ tracker' = tracker /\ conf' = c
      /\ model' = Fresh /\ previous' = [p \in Parts |-> <<>>]
      /\ manual' = (manual \/ c.resume # "auto")
  BY DEF Start, Forget, disk, manual, Inv, ModelInv, TypeOK
<1>2. tracker' > 0 => Complete(tracker)'
  <2>1. \A p \in Parts : Saved(p, tracker)' = Saved(p, tracker)
    BY <1>1 DEF Saved
  <2> QED
    BY <2>1, <1>1, CompleteStays DEF Inv, TrackInv
<1>3. SaveInv'
  BY <1>1 DEF SaveInv, Finishing, Fresh
<1>4. ASSUME NEW p \in Parts PROVE RecordInv(p)'
  <2>1. previous'[p] = <<>>
    BY <1>1
  <2> QED
    BY <2>1, <1>1 DEF RecordInv, Pending, Finishing
<1>5. PastTracker'
  BY <1>1 DEF PastTracker
<1> QED
  BY <1>1, <1>2, <1>3, <1>4, <1>5 DEF TrackInv

\* The tracked checkpoint loads, unless a file of it is torn.
LEMMA TrackedLoads ==
    ASSUME Inv, tracker \in folders
    PROVE  /\ tracker \in Nat \ {0}
           /\ \A p \in Parts : SavedPieces(p, tracker) = Pieces
           /\ ~manual => Loadable(tracker)
<1>1. tracker \in Nat \ {0} /\ shards \subseteq Shard
  BY DEF Inv, ModelInv, TypeOK
<1>2. Complete(tracker) /\ (manual \/ data[tracker] # Torn)
  BY <1>1 DEF Inv, TrackInv, PositionInv
<1>3. ASSUME NEW p \in Parts PROVE SavedPieces(p, tracker) = Pieces
  <2>1. OnDisk(p, tracker)
    BY <1>2 DEF Complete
  <2>2. \A s \in Saved(p, tracker) : s.piece \in Pieces
    BY <1>1 DEF Saved, Shard
  <2> QED
    BY <2>1, <2>2 DEF OnDisk, SavedPieces
<1>4. ~manual => Loadable(tracker)
  BY <1>2, <1>3 DEF Loadable, Complete, OneModel
<1> QED
  BY <1>1, <1>3, <1>4

LEMMA LoadKeepsTrack ==
    ASSUME Inv, Load
    PROVE  TrackInv'
<1>1. /\ pc = "load" /\ UNCHANGED <<disk, saving, job>> /\ pc' \in {"train", "failed"}
  <2>1. conf.resume \in {"auto", "disable", "resume_path"}
    BY DEF Inv, ModelInv, TypeOK, Config
  <2> QED
    BY <2>1 DEF Load, LoadFrom, Scratch
<1>2. tracker' > 0 => Complete(tracker)'
  <2>1. \A p \in Parts : Saved(p, tracker)' = Saved(p, tracker)
    BY <1>1 DEF Saved, disk
  <2> QED
    BY <2>1, <1>1, CompleteStays DEF Inv, TrackInv, disk, job, manual
<1>3. conf.resume = "auto" =>
         \/ pc' = "failed"
         \/ Scratch /\ tracker \notin folders
         \/ tracker \in folders /\ LoadFrom(tracker) /\ pc' = "train"
  BY <1>1 DEF Load
<1>4. conf.resume = "auto" /\ pc' = "train" => step' > tracker
  <2>1. CASE tracker \in folders
    BY <2>1, <1>3, TrackedLoads DEF LoadFrom, Scratch
  <2>2. CASE tracker \notin folders
    <3>1. tracker = NoTracker \/ tracker = EmptyTracker
      BY <2>2 DEF Inv, ModelInv, TypeOK
    <3> QED
      BY <2>2, <3>1, <1>3 DEF Scratch, NoTracker, EmptyTracker
  <2> QED
    BY <2>1, <2>2
<1>5. ASSUME ~manual, pc' = "train", NEW p \in Parts, NEW x \in Pieces, NEW y \in Pieces
      PROVE  model'[p][x] = model'[p][y]
  <2>1. conf.resume = "auto"
    BY <1>1, <1>5 DEF Inv, DataInv, Running
  <2>2. CASE Scratch
    <3>1. model' = model
      BY <2>2 DEF Scratch
    <3> QED
      BY <3>1, <1>1, <1>5 DEF Inv, TrackInv, SaveInv, Running
  <2>3. CASE tracker \in folders /\ LoadFrom(tracker)
    <3> DEFINE pick(z) == CHOOSE s \in Saved(p, tracker) : s.piece = z
    <3>1. model'[p][x] = pick(x).weights /\ model'[p][y] = pick(y).weights
      BY <2>3, <1>5, TrackedLoads DEF LoadFrom
    <3>2. /\ \E s \in Saved(p, tracker) : s.piece = x
          /\ \E s \in Saved(p, tracker) : s.piece = y
          /\ OneModel(p, tracker)
      BY <2>3, <1>5, TrackedLoads DEF Inv, TrackInv, Complete, OnDisk
    <3>3. pick(x) \in Saved(p, tracker) /\ pick(y) \in Saved(p, tracker)
      BY <3>2
    <3> HIDE DEF pick
    <3> QED
      BY <3>1, <3>2, <3>3 DEF OneModel
  <2> QED
    BY <2>1, <2>2, <2>3, <1>3, <1>5
<1>6. SaveInv'
  BY <1>1, <1>5 DEF SaveInv, Finishing, Running, job, manual
<1>7. Running' => Running
  BY <1>1 DEF Running
<1>8. ASSUME pc' = "train", NEW p \in Parts PROVE RecordInv(p)'
  <2>1. previous'[p] = <<>>
    BY <1>1 DEF Inv, TrackInv, RecordInv, Running, saving
  <2> QED
    BY <2>1, <1>8 DEF RecordInv, Pending, Finishing
<1>9. Running' => pc' = "train"
  BY <1>1 DEF Running
<1>10. pc' = "train" => PastTracker'
  BY <1>1, <1>4 DEF PastTracker, disk, job, manual
<1> QED
  BY <1>1, <1>2, <1>6, <1>7, <1>8, <1>9, <1>10 DEF Inv, TrackInv, job, manual

-------------------------------------------------------------------------------
(* The loop.                                                               *)

LEMMA EndEpochKeepsTrack ==
    ASSUME Inv, EndEpoch
    PROVE  TrackInv'
<1>1. /\ pc = "train" /\ (pc' = "train" \/ pc' = "done")
      /\ UNCHANGED <<disk, saving, job, step, model>>
  BY DEF EndEpoch
<1>2. tracker' > 0 => Complete(tracker)'
  <2>1. \A p \in Parts : Saved(p, tracker)' = Saved(p, tracker)
    BY <1>1 DEF Saved, disk
  <2> QED
    BY <2>1, <1>1, CompleteStays DEF Inv, TrackInv, disk, job, manual
<1>3. SaveInv'
  BY <1>1 DEF Inv, TrackInv, SaveInv, Finishing, Running, job, manual
<1>4. ASSUME pc' = "train", NEW p \in Parts PROVE RecordInv(p)'
  <2>1. RecordInv(p)
    BY <1>1 DEF Inv, TrackInv, Running
  <2> QED
    BY <2>1, <1>1, <1>4 DEF RecordInv, Pending, Finishing, disk, saving, job, manual, Resumable
<1>5. PastTracker'
  BY <1>1 DEF Inv, TrackInv, PastTracker, Running, disk, job, manual
<1> QED
  BY <1>1, <1>2, <1>3, <1>4, <1>5 DEF Inv, TrackInv, Running, job, manual

LEMMA TrainStepKeepsTrack ==
    ASSUME Inv, TrainStep
    PROVE  TrackInv'
<1>1. /\ pc = "train" /\ (pc' = "rotate" \/ pc' = "next") /\ part' = "actor"
      /\ model' = [p \in Parts |->
                     IF p = "critic" \/ ActorTrains THEN Updated(model[p]) ELSE model[p]]
      /\ UNCHANGED <<disk, job, step, previous>>
  BY DEF TrainStep
<1>2. tracker' > 0 => Complete(tracker)'
  <2>1. \A p \in Parts : Saved(p, tracker)' = Saved(p, tracker)
    BY <1>1 DEF Saved, disk
  <2> QED
    BY <2>1, <1>1, CompleteStays DEF Inv, TrackInv, disk, job, manual
<1>3. ASSUME ~manual, NEW p \in Parts, NEW x \in Pieces, NEW y \in Pieces
      PROVE  model'[p][x] = model'[p][y]
  <2>1. model[p][x] = model[p][y]
    BY <1>1, <1>3 DEF Inv, TrackInv, SaveInv, Running
  <2>2. CASE p = "critic" \/ ActorTrains
    <3>1. model'[p] = Updated(model[p])
      BY <1>1, <2>2
    <3> QED
      BY <2>1, <3>1 DEF Updated
  <2>3. CASE ~(p = "critic" \/ ActorTrains)
    <3>1. model'[p] = model[p]
      BY <1>1, <2>3
    <3> QED
      BY <2>1, <3>1
  <2> QED
    BY <2>2, <2>3
<1>4. SaveInv'
  BY <1>1, <1>3 DEF SaveInv, Finishing, job, manual
<1>5. ASSUME NEW p \in Parts PROVE RecordInv(p)'
  <2>1. RecordInv(p)
    BY <1>1 DEF Inv, TrackInv, Running
  <2> QED
    BY <2>1, <1>1 DEF RecordInv, Pending, Finishing, disk, job, manual, Resumable
<1>6. PastTracker'
  <2>1. PastTracker
    BY <1>1 DEF Inv, TrackInv, Running
  <2> QED
    BY <2>1, <1>1, Numbers DEF PastTracker, disk, job, manual
<1> QED
  BY <1>1, <1>2, <1>4, <1>5, <1>6 DEF Inv, TrackInv, Running, job, manual

LEMMA NextStepKeepsTrack ==
    ASSUME Inv, NextStep
    PROVE  TrackInv'
<1>1. /\ pc = "next" /\ step' = step + 1 /\ (pc' = "done" \/ pc' = "train")
      /\ UNCHANGED <<disk, saving, job, model>>
  BY DEF NextStep
<1>2. tracker' > 0 => Complete(tracker)'
  <2>1. \A p \in Parts : Saved(p, tracker)' = Saved(p, tracker)
    BY <1>1 DEF Saved, disk
  <2> QED
    BY <2>1, <1>1, CompleteStays DEF Inv, TrackInv, disk, job, manual
<1>3. SaveInv'
  BY <1>1 DEF Inv, TrackInv, SaveInv, Finishing, Running, job, manual
<1>5. ASSUME pc' = "train", NEW p \in Parts PROVE RecordInv(p)'
  <2>1. RecordInv(p)
    BY <1>1 DEF Inv, TrackInv, Running
  <2> QED
    BY <2>1, <1>1, <1>5, Numbers DEF RecordInv, Pending, Finishing, disk, saving, job, manual, Resumable
<1>6. PastTracker'
  <2>1. PastTracker
    BY <1>1 DEF Inv, TrackInv, Running
  <2> QED
    BY <2>1, <1>1, Numbers DEF PastTracker, disk, job, manual
<1> QED
  BY <1>1, <1>2, <1>3, <1>5, <1>6 DEF Inv, TrackInv, Running, job, manual

-------------------------------------------------------------------------------
(* Saving.                                                                 *)

\* Only a run that does not move the tracker leaves out a part.
LEMMA SkipPartKeepsTrack ==
    ASSUME Inv, SkipPart
    PROVE  TrackInv'
<1>1. /\ pc = "rotate" /\ ~Resumable /\ UNCHANGED <<disk, loop, job, previous>>
      /\ (pc' = "rotate" \/ pc' = "next") /\ part \in Parts
  BY DEF SkipPart, AfterPart, Resumable, Inv, ModelInv, TypeOK
<1>2. tracker' > 0 => Complete(tracker)'
  <2>1. \A p \in Parts : Saved(p, tracker)' = Saved(p, tracker)
    BY <1>1 DEF Saved, disk
  <2> QED
    BY <2>1, <1>1, CompleteStays DEF Inv, TrackInv, disk, job, manual
<1>3. SaveInv'
  BY <1>1 DEF Inv, TrackInv, SaveInv, Finishing, Running, loop, job, manual, Resumable
<1>4. ASSUME NEW p \in Parts PROVE RecordInv(p)'
  <2>1. RecordInv(p) /\ ~Resumable'
    BY <1>1 DEF Inv, TrackInv, Running, Resumable, job, manual
  <2>2. Pending(p)' => Pending(p)
    BY <1>1 DEF SkipPart, AfterPart, Pending, Parts
  <2> QED
    BY <2>1, <2>2, <1>1 DEF RecordInv, Finishing, disk, loop, job
<1>5. PastTracker'
  <2>1. PastTracker
    BY <1>1 DEF Inv, TrackInv, Running
  <2> QED
    BY <2>1, <1>1, Numbers DEF PastTracker, disk, loop, job, manual
<1> QED
  BY <1>1, <1>2, <1>3, <1>4, <1>5 DEF Inv, TrackInv, Running, job, manual

\* What is deleted is older than the tracker's checkpoint, or newer than it.
LEMMA RotationSpares ==
    ASSUME Inv, SafeSettings, pc = "rotate", tracker > 0,
           NEW i \in DOMAIN previous[part], i <= TooMany
    PROVE  previous[part][i] # tracker
<1> DEFINE n == Len(previous[part])
<1>1. part \in Parts /\ conf \in Configs /\ conf.keep[part] \in Nat
  BY DEF Inv, ModelInv, TypeOK, TrackInv, Running, Config
<1>2. RecordInv(part) /\ Room(part) /\ Pending(part)
  BY <1>1 DEF Inv, KeepInv, TrackInv, Running, Pending
<1>3. DOMAIN previous[part] = 1..n /\ n \in Nat /\ \A j \in 1..n : previous[part][j] \in Nat
  BY <1>1, Numbers
<1>4. CASE ~Resumable
  <2>1. conf.keep[part] > 0
    BY <1>1, <1>3 DEF TooMany, Rotates
  <2>2. previous[part][i] > tracker
    BY <2>1, <1>2, <1>4 DEF RecordInv
  <2> QED
    BY <2>2, <1>3, Numbers
<1>5. CASE Resumable
  <2>0. conf.keep[part] # 1
    BY <1>1, <1>5 DEF SafeSettings, Resumable
  <2>1. conf.keep[part] > 0 /\ i = 1 /\ n > 1
    <3>1. i \in 1..n /\ i <= IF Rotates THEN KeepStart ELSE 0
      BY <1>3 DEF TooMany
    <3>2. conf.keep[part] > 0 /\ n >= conf.keep[part] /\ i <= n - conf.keep[part] + 1
      BY <3>1, <1>1, <1>3 DEF Rotates, KeepStart
    <3>3. n <= conf.keep[part]
      BY <3>2, <1>2 DEF Room
    <3> QED
      BY <2>0, <3>1, <3>2, <3>3, <1>1, <1>3
  <2>2. previous[part][n] = tracker
    BY <2>1, <1>2, <1>5, <1>3 DEF RecordInv
  <2>3. previous[part][1] < previous[part][n]
    BY <2>1, <1>2, <1>3 DEF RecordInv
  <2> QED
    BY <2>1, <2>2, <2>3, <1>3
<1> QED
  BY <1>4, <1>5

LEMMA OldestSpares ==
    ASSUME Inv, SafeSettings, pc = "rotate", tracker > 0
    PROVE  \A s \in Oldest : s.step # tracker
<1> SUFFICES ASSUME NEW i \in 1..TooMany PROVE previous[part][i] # tracker
  BY DEF Oldest, Saved
<1>1. part \in Parts /\ conf.keep[part] \in Nat
  BY DEF Inv, ModelInv, TypeOK, Config
<1>2. i \in DOMAIN previous[part] /\ i <= TooMany
  BY <1>1, Numbers DEF TooMany, Rotates, KeepStart
<1> QED
  BY <1>2, RotationSpares

LEMMA RotateKeepsTrack ==
    ASSUME Inv, SafeSettings, Rotate
    PROVE  TrackInv'
<1> DEFINE k == TooMany
           old == previous[part]
<1>1. /\ pc = "rotate" /\ pc' = "write" /\ wrote' = {}
      /\ shards' = shards \ Oldest
      /\ previous' = [previous EXCEPT ![part] = SubSeq(@, k + 1, Len(@))]
      /\ UNCHANGED <<data, tracker, loop, part, job>>
  BY DEF Rotate
<1>2. /\ part \in Parts /\ previous \in [Parts -> Seq(folders)] /\ old \in Seq(folders)
      /\ \A p \in Parts : conf.keep[p] \in Nat
  BY DEF Inv, ModelInv, TypeOK, Config
<1>3. Len(old) \in Nat /\ k \in 0..Len(old)
  BY <1>2 DEF TooMany, Rotates, KeepStart
<1>4. Oldest \subseteq {s \in shards : s.part = part}
  BY DEF Oldest, Saved
<1> HIDE DEF k, old
<1>5. /\ previous'[part] = SubSeq(old, k + 1, Len(old))
      /\ Len(previous'[part]) = Len(old) - k
      /\ DOMAIN previous'[part] = 1..Len(old) - k
      /\ \A i \in 1..Len(old) - k : previous'[part][i] = old[k + i]
  <2>1. previous'[part] = SubSeq(old, k + 1, Len(old))
    BY <1>1, <1>2 DEF old
  <2>2. /\ Len(SubSeq(old, k + 1, Len(old))) = Len(old) - k
        /\ DOMAIN SubSeq(old, k + 1, Len(old)) = 1..Len(old) - k
        /\ \A i \in 1..Len(old) - k : SubSeq(old, k + 1, Len(old))[i] = old[k + i]
    BY <1>2, <1>3
  <2> QED
    BY <2>1, <2>2
<1>6. \A p \in Parts : p # part => previous'[p] = previous[p]
  BY <1>1, <1>2
<1>7. \A p \in Parts : p # part => \A n : Saved(p, n)' = Saved(p, n)
  BY <1>1, <1>4 DEF Saved
<1>8. tracker' > 0 => Complete(tracker)'
  <2>1. CASE tracker > 0
    <3>1. \A p \in Parts : Saved(p, tracker)' = Saved(p, tracker)
      BY <2>1, <1>1, OldestSpares DEF Saved
    <3> QED
      BY <3>1, <1>1, CompleteStays DEF Inv, TrackInv, job, manual
  <2> QED
    BY <2>1, <1>1
<1>9. SaveInv'
  <2>1. SaveInv
    BY DEF Inv, TrackInv
  <2>2. part = "critic" => (Written("actor") => Written("actor")')
    <3>1. ASSUME part = "critic" PROVE Saved("actor", step)' = Saved("actor", step)
      BY <3>1, <1>7, <1>1 DEF Parts, loop
    <3> QED
      BY <3>1, <1>1 DEF Written, OnDisk, loop
  <2> QED
    BY <2>1, <2>2, <1>1 DEF SaveInv, Finishing, Running, Resumable, loop, job, manual
<1>10. ASSUME NEW p \in Parts PROVE RecordInv(p)'
  <2>1. /\ RecordInv(p) /\ (Pending(p)' <=> Pending(p)) /\ (Resumable' <=> Resumable)
        /\ ~Finishing /\ ~Finishing'
    BY <1>1 DEF Inv, TrackInv, Running, Pending, Resumable, Finishing, job, manual
  <2>2. CASE p # part
    BY <2>1, <2>2, <1>1, <1>6 DEF RecordInv, loop, job, manual
  <2>3. CASE p = part
    <3>1. /\ \A i, j \in 1..Len(old) : i < j => old[i] < old[j]
          /\ \A i \in 1..Len(old) : old[i] <= step /\ old[i] < step
                                   /\ (~Resumable /\ conf.keep[p] > 0 /\ tracker > 0 => old[i] > tracker)
          /\ Resumable /\ Len(old) > 0 => old[Len(old)] = tracker
          /\ Pending(p)
      BY <2>1, <2>3, <1>1, <1>2 DEF RecordInv, Pending, old
    <3>2. \A i \in 1..Len(old) - k : k + i \in 1..Len(old)
      BY <1>3
    <3>3. k + (Len(old) - k) = Len(old)
      BY <1>3
    <3>4. \A i, j \in DOMAIN previous'[p] : i < j => previous'[p][i] < previous'[p][j]
      <4> SUFFICES ASSUME NEW i \in 1..Len(old) - k, NEW j \in 1..Len(old) - k, i < j
                   PROVE  previous'[part][i] < previous'[part][j]
        BY <2>3, <1>5
      <4>1. k + i < k + j /\ k + i \in 1..Len(old) /\ k + j \in 1..Len(old)
        BY <1>3
      <4>2. old[k + i] < old[k + j]
        BY <4>1, <3>1
      <4> QED
        BY <4>2, <1>5
    <3>5. \A i \in DOMAIN previous'[p] :
             /\ previous'[p][i] <= step' /\ previous'[p][i] < step'
             /\ (~Resumable /\ conf.keep[p] > 0 /\ tracker > 0 => previous'[p][i] > tracker)
      BY <2>3, <3>1, <3>2, <1>5, <1>1 DEF loop
    <3>6. Resumable /\ Len(previous'[p]) > 0 => previous'[p][Len(previous'[p])] = tracker
      <4> SUFFICES ASSUME Resumable, Len(old) - k > 0
                   PROVE  previous'[part][Len(old) - k] = tracker
        BY <2>3, <1>5
      <4>1. Len(old) - k \in 1..Len(old) - k /\ Len(old) > 0
        BY <1>3
      <4> QED
        BY <4>1, <3>1, <3>3, <1>5
    <3> QED
      BY <2>1, <3>1, <3>4, <3>5, <3>6, <1>1 DEF RecordInv, loop, job, manual
  <2> QED
    BY <2>2, <2>3
<1>11. PastTracker'
  <2>1. PastTracker
    BY <1>1 DEF Inv, TrackInv, Running
  <2> QED
    BY <2>1, <1>1 DEF PastTracker, loop, job, manual
<1> QED
  BY <1>1, <1>8, <1>9, <1>10, <1>11 DEF Inv, TrackInv, Running, job, manual

\* A run that writes over the tracked checkpoint did not resume automatically;
\* each file is replaced by one of the same step.
LEMMA FileKeepsTrack ==
    ASSUME Inv, NEW x \in Pieces, OpenFile(x) \/ WriteFile(x)
    PROVE  TrackInv'
<1>1. PICK w : Put(x, w) /\ (WriteFile(x) => w = model[part][x])
  BY DEF OpenFile, WriteFile
<1> DEFINE new == [part |-> part, step |-> step, piece |-> x, weights |-> w]
<1>2. /\ pc = "write"
      /\ shards' = {s \in shards : ~(s.part = part /\ s.step = step /\ s.piece = x)} \cup {new}
      /\ UNCHANGED <<data, folders, tracker, loop, part, previous, pc, job>>
  BY <1>1 DEF OpenFile, WriteFile, Put
<1>3. \/ wrote' = wrote /\ x \notin wrote
      \/ wrote' = wrote \cup {x} /\ w = model[part][x]
  BY <1>1 DEF OpenFile, WriteFile
<1>4. new.part = part /\ new.step = step /\ new.piece = x /\ new.weights = w
  OBVIOUS
<1> HIDE DEF new
<1>5. \A p \in Parts : \A n : p # part \/ n # step => Saved(p, n)' = Saved(p, n)
  BY <1>2, <1>4 DEF Saved
<1>6. Saved(part, step)' = {s \in Saved(part, step) : s.piece # x} \cup {new}
  BY <1>2, <1>4 DEF Saved, loop
<1>7. tracker' > 0 => Complete(tracker)'
  <2>1. CASE step # tracker
    <3>1. \A p \in Parts : Saved(p, tracker)' = Saved(p, tracker)
      BY <2>1, <1>2, <1>5
    <3> QED
      BY <3>1, <1>2, CompleteStays DEF Inv, TrackInv, job, manual
  <2>2. CASE step = tracker
    <3>1. manual
      <4>1. conf.resume # "auto"
        BY <2>2, <1>2, Numbers DEF Inv, TrackInv, PastTracker, Running
      <4> QED
        BY <4>1, <1>2 DEF Inv, DataInv, Running
    <3>2. ASSUME tracker > 0, NEW p \in Parts PROVE OnDisk(p, tracker)'
      <4>1. OnDisk(p, tracker)
        BY <3>2 DEF Inv, TrackInv, Complete
      <4>2. CASE p # part
        BY <4>1, <4>2, <1>2, <1>5 DEF OnDisk
      <4>3. CASE p = part
        <5>1. \A y \in Pieces : \E s \in Saved(part, step)' : s.piece = y
          BY <4>1, <4>3, <2>2, <1>4, <1>6 DEF OnDisk
        <5> QED
          BY <5>1, <4>3, <2>2, <1>2 DEF OnDisk, loop
      <4> QED
        BY <4>2, <4>3
    <3> QED
      BY <3>1, <3>2, <1>2 DEF Complete, job, manual
  <2> QED
    BY <2>1, <2>2
<1>8. SaveInv'
  <2>1. SaveInv
    BY DEF Inv, TrackInv
  <2>2. ASSUME NEW y \in wrote'
        PROVE  /\ \E s \in Saved(part, step)' : s.piece = y
               /\ \A s \in Saved(part, step)' : s.piece = y => s.weights = model[part][y]
    BY <2>1, <1>2, <1>3, <1>4, <1>6 DEF SaveInv
  <2>3. part = "critic" => (Written("actor") => Written("actor")')
    <3>1. ASSUME part = "critic" PROVE Saved("actor", step)' = Saved("actor", step)
      BY <3>1, <1>2, <1>5 DEF Parts, loop
    <3> QED
      BY <3>1, <1>2 DEF Written, OnDisk, loop
  <2>4. \A y \in wrote' :
           /\ (\E s \in Saved(part, step) : s.piece = y)'
           /\ (\A s \in Saved(part, step) : s.piece = y => s.weights = model[part][y])'
    BY <2>2, <1>2 DEF loop
  <2> QED
    BY <2>1, <2>3, <2>4, <1>2 DEF SaveInv, Finishing, Running, Resumable, loop, job, manual
<1>9. ASSUME NEW p \in Parts PROVE RecordInv(p)'
  <2>1. RecordInv(p)
    BY <1>2 DEF Inv, TrackInv, Running
  <2> QED
    BY <2>1, <1>2 DEF RecordInv, Pending, Finishing, Resumable, loop, job, manual
<1>10. PastTracker'
  BY <1>2 DEF Inv, TrackInv, PastTracker, Running, loop, job, manual
<1> QED
  BY <1>2, <1>7, <1>8, <1>9, <1>10 DEF Inv, TrackInv, Running, job, manual

\* Behind the barrier the part is written.
LEMMA EndPartKeepsTrack ==
    ASSUME Inv, SafeSettings, EndPart
    PROVE  TrackInv'
<1>1. /\ pc = "write" /\ wrote = Pieces /\ UNCHANGED <<disk, loop, job>>
      /\ previous' = [previous EXCEPT ![part] = Append(@, step)]
      /\ part \in Parts
      /\ \/ part = "actor" /\ part' = "critic" /\ pc' = "rotate"
         \/ part = "critic" /\ part' = "critic" /\ pc' = IF Resumable THEN "data" ELSE "next"
  BY DEF EndPart, AllWrote, AfterPart, Inv, ModelInv, TypeOK, Parts
<1>2. Written(part)
  <2>1. SaveInv /\ shards \subseteq Shard
    BY DEF Inv, TrackInv, ModelInv, TypeOK
  <2>2. \A s \in Saved(part, step) : s.piece \in Pieces
    BY <2>1 DEF Saved, Shard
  <2> QED
    BY <2>1, <2>2, <1>1 DEF SaveInv, Written, OnDisk
<1>3. tracker' > 0 => Complete(tracker)'
  <2>1. \A p \in Parts : Saved(p, tracker)' = Saved(p, tracker)
    BY <1>1 DEF Saved, disk
  <2> QED
    BY <2>1, <1>1, CompleteStays DEF Inv, TrackInv, disk, job, manual
<1>4. SaveInv'
  <2>1. \A p \in Parts : Written(p) => Written(p)'
    BY <1>1 DEF Written, OnDisk, Saved, disk, loop
  <2>2. SaveInv
    BY DEF Inv, TrackInv
  <2>3. pc' = "data" => Resumable /\ \A p \in Parts : Written(p)
    BY <2>2, <1>1, <1>2 DEF SaveInv, Parts
  <2>4. "actor" \in Parts /\ Resumable' = Resumable /\ Running
    BY <1>1 DEF Parts, Resumable, Running, job, manual
  <2> QED
    BY <1>1, <1>2, <2>1, <2>2, <2>3, <2>4 DEF SaveInv, Finishing, loop, job, manual
<1> DEFINE old == previous[part]
<1>5. /\ Len(old) \in Nat /\ DOMAIN old = 1..Len(old)
      /\ \A p \in Parts : p # part => previous'[p] = previous[p]
      /\ previous'[part] = Append(old, step)
      /\ DOMAIN previous'[part] = 1..Len(old) + 1 /\ Len(previous'[part]) = Len(old) + 1
      /\ \A i \in 1..Len(old) : previous'[part][i] = old[i]
      /\ previous'[part][Len(old) + 1] = step
  <2>1. previous \in [Parts -> Seq(folders)] /\ part \in Parts
    BY DEF Inv, ModelInv, TypeOK
  <2>2. previous'[part] = Append(old, step) /\ old \in Seq(folders)
    BY <2>1, <1>1
  <2>3. /\ Len(old) \in Nat /\ DOMAIN old = 1..Len(old)
        /\ DOMAIN Append(old, step) = 1..Len(old) + 1 /\ Len(Append(old, step)) = Len(old) + 1
        /\ \A i \in 1..Len(old) : Append(old, step)[i] = old[i]
        /\ Append(old, step)[Len(old) + 1] = step
    BY <2>2
  <2> QED
    BY <2>1, <2>2, <2>3, <1>1
<1>6. ~Resumable /\ conf.keep[part] > 0 => step > tracker
  BY <1>1 DEF Inv, TrackInv, PastTracker, SafeSettings, Running, Resumable
<1>7. RecordInv(part) /\ Pending(part)
  BY <1>1 DEF Inv, TrackInv, Running, Pending
<1>8. \A i \in 1..Len(old) :
         /\ old[i] \in Nat /\ old[i] < step
         /\ \A j \in 1..Len(old) : i < j => old[i] < old[j]
         /\ ~Resumable /\ conf.keep[part] > 0 /\ tracker > 0 => old[i] > tracker
  BY <1>1, <1>5, <1>7, Numbers DEF RecordInv
<1> HIDE DEF old
<1>9. ASSUME NEW p \in Parts PROVE RecordInv(p)'
  <2>1. /\ RecordInv(p) /\ step' = step /\ tracker' = tracker
        /\ Resumable' = Resumable /\ conf' = conf
    BY <1>1 DEF Inv, TrackInv, Running, Resumable, disk, loop, job, manual
  <2>2. CASE p # part
    <3>1. Pending(p)' = Pending(p) \/ pc' \in {"data", "next"}
      BY <1>1, <2>2 DEF Pending, Parts
    <3>2. previous'[p] = previous[p] /\ pc' # "load" /\ (pc' = "next" => ~Resumable)
      BY <1>1, <1>5, <2>2
    <3>3. part = "critic" => ~Pending(p)
      BY <1>1, <2>2 DEF Pending, Parts
    <3>4. pc' \in {"data", "next"} => part = "critic" /\ ~Pending(p)'
      BY <1>1 DEF Pending
    <3> QED
      BY <2>1, <3>1, <3>2, <3>3, <3>4, <1>1 DEF RecordInv, Finishing
  <2>3. CASE p = part
    <3>1. ~Pending(p)' /\ pc' # "load" /\ (pc' = "next" => ~Resumable)
      BY <1>1, <2>3 DEF Pending
    <3>2. \A i, j \in DOMAIN previous'[p] : i < j => previous'[p][i] < previous'[p][j]
      <4> SUFFICES ASSUME NEW i \in 1..Len(old) + 1, NEW j \in 1..Len(old) + 1, i < j
                   PROVE  previous'[part][i] < previous'[part][j]
        BY <2>3, <1>5
      <4>1. i \in 1..Len(old)
        BY <1>5
      <4>2. CASE j = Len(old) + 1
        BY <4>1, <4>2, <1>5, <1>8
      <4>3. CASE j # Len(old) + 1
        <5>1. j \in 1..Len(old)
          BY <4>3, <1>5
        <5> QED
          BY <4>1, <5>1, <1>5, <1>8
      <4> QED
        BY <4>2, <4>3
    <3>3. \A i \in DOMAIN previous'[p] :
             /\ previous'[p][i] <= step
             /\ ~Resumable /\ conf.keep[p] > 0 /\ tracker > 0 => previous'[p][i] > tracker
      <4> SUFFICES ASSUME NEW i \in 1..Len(old) + 1
                   PROVE  /\ previous'[part][i] <= step
                          /\ ~Resumable /\ conf.keep[part] > 0 /\ tracker > 0 =>
                                previous'[part][i] > tracker
        BY <2>3, <1>5
      <4>1. CASE i = Len(old) + 1
        BY <4>1, <1>5, <1>6, Numbers
      <4>2. CASE i # Len(old) + 1
        <5>1. i \in 1..Len(old)
          BY <4>2, <1>5
        <5> QED
          BY <5>1, <1>5, <1>8, Numbers
      <4> QED
        BY <4>1, <4>2
    <3>4. Len(previous'[p]) > 0 /\ previous'[p][Len(previous'[p])] = step
      BY <2>3, <1>5
    <3> QED
      BY <2>1, <3>1, <3>2, <3>3, <3>4 DEF RecordInv
  <2> QED
    BY <2>2, <2>3
<1>10. PastTracker'
  <2>1. PastTracker
    BY <1>1 DEF Inv, TrackInv, Running
  <2> QED
    BY <2>1, <1>1, Numbers DEF PastTracker, disk, loop, job, manual
<1> QED
  BY <1>1, <1>3, <1>4, <1>9, <1>10 DEF Inv, TrackInv, Running, job, manual

LEMMA DataKeepsTrack ==
    ASSUME Inv, OpenData \/ WriteData
    PROVE  TrackInv'
<1>1. /\ \/ pc = "data" /\ pc' = "position"
         \/ pc = "position" /\ pc' = "truncate"
      /\ UNCHANGED <<shards, tracker, loop, saving, job>>
  BY DEF OpenData, WriteData
<1>2. tracker' > 0 => Complete(tracker)'
  <2>1. \A p \in Parts : Saved(p, tracker)' = Saved(p, tracker)
    BY <1>1 DEF Saved
  <2> QED
    BY <2>1, <1>1, CompleteStays DEF Inv, TrackInv, job, manual
<1>3. SaveInv'
  <2>1. \A p \in Parts : Written(p) => Written(p)'
    BY <1>1 DEF Written, OnDisk, Saved, loop
  <2> QED
    BY <2>1, <1>1 DEF Inv, TrackInv, SaveInv, Finishing, Running, Resumable, loop, job, manual
<1>4. ASSUME NEW p \in Parts PROVE RecordInv(p)'
  <2>1. RecordInv(p) /\ Finishing
    BY <1>1 DEF Inv, TrackInv, Running, Finishing
  <2> QED
    BY <2>1, <1>1 DEF RecordInv, Pending, Finishing, Resumable, loop, saving, job, manual
<1>5. PastTracker'
  BY <1>1 DEF Inv, TrackInv, PastTracker, Running, loop, job, manual
<1> QED
  BY <1>1, <1>2, <1>3, <1>4, <1>5 DEF Inv, TrackInv, Running, job, manual

LEMMA TruncateKeepsTrack ==
    ASSUME Inv, TruncateTracker
    PROVE  TrackInv'
<1>1. /\ pc = "truncate" /\ pc' = "tracker" /\ tracker' = EmptyTracker
      /\ UNCHANGED <<shards, loop, saving, job>>
  BY DEF TruncateTracker
<1>2. ~(tracker' > 0)
  BY <1>1 DEF EmptyTracker
<1>3. SaveInv'
  <2>1. \A p \in Parts : Written(p) => Written(p)'
    BY <1>1 DEF Written, OnDisk, Saved, loop
  <2> QED
    BY <2>1, <1>1 DEF Inv, TrackInv, SaveInv, Finishing, Running, Resumable, loop, job, manual
<1>4. ASSUME NEW p \in Parts PROVE RecordInv(p)'
  <2>1. RecordInv(p) /\ Finishing
    BY <1>1 DEF Inv, TrackInv, Running, Finishing
  <2> QED
    BY <2>1, <1>1, <1>2 DEF RecordInv, Pending, Finishing, Resumable, loop, saving, job, manual
<1>5. PastTracker'
  BY <1>1 DEF PastTracker
<1> QED
  BY <1>1, <1>2, <1>3, <1>4, <1>5 DEF Inv, TrackInv, Running, job, manual

\* The tracker names a checkpoint of which both parts are written.
LEMMA WriteTrackerKeepsTrack ==
    ASSUME Inv, WriteTracker
    PROVE  TrackInv'
<1>1. /\ pc = "tracker" /\ pc' = "next" /\ tracker' = step
      /\ UNCHANGED <<shards, loop, saving, job>>
  BY DEF WriteTracker
<1>2. Resumable /\ \A p \in Parts : Written(p)
  BY <1>1 DEF Inv, TrackInv, SaveInv, Finishing
<1>3. Complete(step)
  <2> SUFFICES ASSUME NEW p \in Parts, ~manual,
                      NEW s \in Saved(p, step), NEW t \in Saved(p, step)
               PROVE  s.weights = t.weights /\ Whole(s)
    BY <1>2 DEF Complete, OneModel, Written
  <2>1. s.weights = model[p][s.piece] /\ t.weights = model[p][t.piece]
    BY <1>2 DEF Written
  <2>2. s.piece \in Pieces /\ t.piece \in Pieces
    <3>1. shards \subseteq Shard
      BY DEF Inv, ModelInv, TypeOK
    <3> QED
      BY <3>1 DEF Saved, Shard
  <2>3. model[p][s.piece] = model[p][t.piece]
    BY <2>2, <1>1 DEF Inv, TrackInv, SaveInv, Running
  <2>4. model[p][s.piece] \in Weights
    BY <2>2 DEF Inv, ModelInv, TypeOK
  <2> QED
    BY <2>1, <2>3, <2>4 DEF Whole, Weights, Nothing
<1>4. Complete(tracker)'
  <2> SUFFICES ASSUME NEW p \in Parts
               PROVE  OnDisk(p, tracker)' /\ (manual' \/ OneModel(p, tracker)')
    BY DEF Complete
  <2>1. Saved(p, tracker)' = Saved(p, step)
    BY <1>1 DEF Saved
  <2> QED
    BY <2>1, <1>1, <1>3 DEF Complete, OnDisk, OneModel, job, manual
<1>5. SaveInv'
  BY <1>1 DEF Inv, TrackInv, SaveInv, Finishing, Running, loop, job, manual
<1>6. ASSUME NEW p \in Parts PROVE RecordInv(p)'
  <2>1. RecordInv(p) /\ Finishing
    BY <1>1 DEF Inv, TrackInv, Running, Finishing
  <2> QED
    BY <2>1, <1>1, <1>2 DEF RecordInv, Pending, Finishing, Resumable, loop, saving, job, manual
<1>7. PastTracker'
  BY <1>1, Numbers DEF PastTracker, loop
<1> QED
  BY <1>1, <1>4, <1>5, <1>6, <1>7 DEF Inv, TrackInv, Running, job, manual

\* A kill in the middle of a rotation spares the tracked checkpoint, too.
LEMMA CrashKeepsTrack ==
    ASSUME Inv, SafeSettings, Crash \/ CrashRotating
    PROVE  TrackInv'
<1>1. /\ pc' = "down" /\ UNCHANGED <<data, folders, tracker, job>>
  BY CrashLeaves
<1>2. ASSUME tracker > 0, NEW p \in Parts PROVE Saved(p, tracker)' = Saved(p, tracker)
  <2>1. CASE Crash
    BY <2>1 DEF Crash, disk, Saved
  <2>2. CASE CrashRotating
    BY <2>2, <1>2, OldestSpares DEF CrashRotating, Saved
  <2> QED
    BY <2>1, <2>2
<1>3. tracker' > 0 => Complete(tracker)'
  BY <1>1, <1>2, CompleteStays DEF Inv, TrackInv, job, manual
<1> QED
  BY <1>1, <1>3 DEF TrackInv, SaveInv, Finishing, Running

LEMMA StutterKeepsTrack ==
    ASSUME Inv, Over \/ UNCHANGED vars
    PROVE  TrackInv'
<1>1. pc' = pc /\ UNCHANGED <<disk, loop, saving, job>>
  BY DEF Over, vars
<1>2. tracker' > 0 => Complete(tracker)'
  <2>1. \A p \in Parts : Saved(p, tracker)' = Saved(p, tracker)
    BY <1>1 DEF Saved, disk
  <2> QED
    BY <2>1, <1>1, CompleteStays DEF Inv, TrackInv, disk, job, manual
<1>3. \A p \in Parts : Written(p)' <=> Written(p)
  BY <1>1 DEF Written, OnDisk, Saved, disk, loop
<1>4. "actor" \in Parts
  BY DEF Parts
<1>5. ASSUME pc = "write", NEW x \in wrote
      PROVE  /\ (\E s \in Saved(part, step) : s.piece = x)'
             /\ (\A s \in Saved(part, step) : s.piece = x => s.weights = model[part][x])'
  BY <1>1, <1>5 DEF Inv, TrackInv, SaveInv, Saved, disk, loop, saving
<1>6. SaveInv'
  BY <1>1, <1>3, <1>4, <1>5 DEF Inv, TrackInv, SaveInv, Finishing, Running, Resumable,
     loop, saving, job, manual
<1>7. ASSUME Running, NEW p \in Parts PROVE RecordInv(p)'
  <2>1. RecordInv(p)
    BY <1>7 DEF Inv, TrackInv
  <2> QED
    BY <2>1, <1>1 DEF RecordInv, Pending, Finishing, Resumable, disk, loop, saving, job, manual
<1>8. Running => PastTracker'
  BY <1>1 DEF Inv, TrackInv, PastTracker, disk, loop, job, manual
<1> QED
  BY <1>1, <1>2, <1>6, <1>7, <1>8 DEF Inv, TrackInv, Running, job, manual

LEMMA PositionInvNext ==
    ASSUME Inv, [Next]_vars
    PROVE  PositionInv'
<1> USE DEF Inv, PositionInv
<1>1. CASE \E c \in Configs : Start(c)
  BY <1>1 DEF Start, disk, manual, ModelInv, TypeOK
<1>2. CASE Load
  <2>1. conf.resume \in {"auto", "disable", "resume_path"}
    BY DEF ModelInv, TypeOK, Config
  <2>2. UNCHANGED <<disk, job>> /\ (pc' = "train" \/ pc' = "failed")
    BY <1>2, <2>1 DEF Load, LoadFrom, Scratch
  <2> QED
    BY <2>2 DEF disk, job, manual
<1>3. CASE EndEpoch \/ TrainStep \/ NextStep \/ SkipPart \/ Rotate \/ EndPart
             \/ \E x \in Pieces : OpenFile(x) \/ WriteFile(x)
  <2>1. /\ UNCHANGED <<data, tracker, job>>
        /\ pc' \in {"train", "done", "rotate", "next", "write", "data"}
    BY <1>3, AfterPartStates DEF EndEpoch, TrainStep, NextStep, SkipPart, Rotate, EndPart,
       OpenFile, WriteFile, disk, ModelInv, TypeOK
  <2> QED
    BY <2>1 DEF job, manual
<1>4. CASE OpenData
  <2>1. /\ pc = "data" /\ pc' = "position" /\ UNCHANGED <<tracker, step, manuals>>
        /\ data' = [n \in DOMAIN data \cup {step} |-> IF n = step THEN Torn ELSE data[n]]
    BY <1>4 DEF OpenData, loop, job, manual
  <2>2. ~manual => step > tracker
    BY <2>1 DEF DataInv, TrackInv, PastTracker, Running
  <2>3. step \in Nat /\ tracker \in Int
    BY Numbers
  <2> QED
    BY <2>1, <2>2, <2>3 DEF manual
<1>5. CASE WriteData
  <2>1. /\ pc = "position" /\ pc' = "truncate" /\ data' = [data EXCEPT ![step] = pos]
        /\ pos # Torn /\ UNCHANGED <<tracker, step, manuals>>
    BY <1>5 DEF WriteData, loop, job, manual, ModelInv, TypeOK, Torn
  <2>2. DOMAIN data' = DOMAIN data /\ \A n \in DOMAIN data : data'[n] = IF n = step THEN pos ELSE data[n]
    BY <2>1
  <2> QED
    BY <2>1, <2>2 DEF manual
<1>6. CASE TruncateTracker
  BY <1>6 DEF TruncateTracker, loop, job, manual, EmptyTracker
<1>7. CASE WriteTracker
  BY <1>7 DEF WriteTracker, loop, job, manual
<1>8. CASE Crash \/ CrashRotating
  BY <1>8, CrashLeaves DEF job, manual
<1>9. CASE Over \/ UNCHANGED vars
  BY <1>9 DEF Over, vars, disk, loop, job, manual
<1> QED
  BY <1>1, <1>2, <1>3, <1>4, <1>5, <1>6, <1>7, <1>8, <1>9 DEF Next, RunStep

LEMMA InvInit == Init => Inv
<1> SUFFICES ASSUME Init PROVE Inv
  OBVIOUS
<1>1. ModelInv
  BY ModelInvInit
<1>2. DataInv
  BY DEF Init, DataInv, AfterUpdate, Running, NoTracker, manual
<1>3. KeepInv
  BY DEF Init, KeepInv, Running
<1>4. TrackInv
  BY DEF Init, TrackInv, SaveInv, Finishing, Running, NoTracker
<1>5. PositionInv
  BY DEF Init, PositionInv, NoTracker
<1> QED
  BY <1>1, <1>2, <1>3, <1>4, <1>5 DEF Inv

LEMMA InvNext ==
    ASSUME SafeSettings, Inv, [Next]_vars
    PROVE  Inv'
<1>1. ModelInv' /\ DataInv' /\ KeepInv'
  BY ModelInvNext, DataInvNext, KeepInvNext DEF Inv
<1>2. TrackInv'
  <2>1. CASE \E c \in Configs : Start(c)
    BY <2>1, StartKeepsTrack
  <2>2. CASE RunStep
    BY <2>2, LoadKeepsTrack, EndEpochKeepsTrack, TrainStepKeepsTrack, NextStepKeepsTrack,
       SkipPartKeepsTrack, RotateKeepsTrack, EndPartKeepsTrack, FileKeepsTrack,
       DataKeepsTrack, TruncateKeepsTrack, WriteTrackerKeepsTrack DEF RunStep
  <2>3. CASE Crash \/ CrashRotating
    BY <2>3, CrashKeepsTrack
  <2>4. CASE Over \/ UNCHANGED vars
    BY <2>4, StutterKeepsTrack
  <2> QED
    BY <2>1, <2>2, <2>3, <2>4 DEF Next
<1> QED
  BY <1>1, <1>2, PositionInvNext DEF Inv

-------------------------------------------------------------------------------
(* What it says of the job.                                                *)

\* If no run that moves the tracker keeps only the last checkpoint, and one that
\* saves one part only resumes automatically or deletes nothing, the checkpoint
\* the tracker names can be resumed from at any moment, in the middle of a save,
\* of a rotation and of a later run; after a run that did not resume automatically
\* none of its files is missing and those that are written are of its step.
THEOREM TrackedCompleteHolds == ASSUME SafeSettings PROVE Spec => []TrackedComplete
<1>1. Inv => TrackedComplete
  <2>0. SUFFICES ASSUME Inv, tracker > 0 PROVE TrackedComplete
    BY DEF TrackedComplete
  <2>1. Complete(tracker) /\ tracker \in DOMAIN data /\ (manual \/ data[tracker] # Torn)
    BY <2>0 DEF Inv, TrackInv, PositionInv
  <2> SUFFICES ASSUME NEW p \in Parts
               PROVE  /\ SavedPieces(p, tracker) = Pieces
                      /\ \A s \in Saved(p, tracker) :
                            Whole(s) => s.weights.updates = UpdatesAfter(p, tracker)
                      /\ \/ manual
                         \/ /\ \A s \in Saved(p, tracker) : Whole(s)
                            /\ Cardinality({s.weights : s \in Saved(p, tracker)}) = 1
    BY <2>1 DEF TrackedComplete
  <2>2. tracker \in folders
    BY <2>0, <2>1 DEF Inv, ModelInv, TypeOK
  <2>3. SavedPieces(p, tracker) = Pieces
    BY <2>0, <2>2, TrackedLoads
  <2>4. ASSUME ~manual
        PROVE  /\ \A s \in Saved(p, tracker) : Whole(s)
               /\ Cardinality({s.weights : s \in Saved(p, tracker)}) = 1
    <3>1. OneModel(p, tracker)
      BY <2>1, <2>4 DEF Complete
    <3>2. PICK t \in Saved(p, tracker) : TRUE
      <4>1. PICK r \in Ranks : TRUE
        BY RanksAssumption
      <4>2. PICK f \in Files : TRUE
        BY FilesAssumption
      <4>3. <<r, f>> \in Pieces
        BY <4>1, <4>2 DEF Pieces
      <4> QED
        BY <4>3, <2>3 DEF SavedPieces
    <3>3. {s.weights : s \in Saved(p, tracker)} = {t.weights}
      BY <3>1, <3>2 DEF OneModel
    <3> QED
      BY <3>1, <3>3, FS_Singleton DEF OneModel
  <2>5. \A s \in Saved(p, tracker) : Whole(s) => s.weights.updates = UpdatesAfter(p, tracker)
    BY <2>0 DEF Inv, ModelInv, ShardsMatch, Saved
  <2> QED
    BY <2>3, <2>4, <2>5
<1>2. Inv /\ [Next]_vars => Inv'
  BY InvNext
<1> QED
  BY <1>1, <1>2, InvInit, PTL DEF Spec

\* ... and then a job fails to resume automatically only on a torn tracker, or on
\* a torn file of the tracked checkpoint after a run that did not resume
\* automatically.
THEOREM FailsOnlyOnTornFileHolds == ASSUME SafeSettings PROVE Spec => []FailsOnlyOnTornFile
<1>1. Init => FailsOnlyOnTornFile
  BY DEF Init, FailsOnlyOnTornFile
<1>2. Inv /\ FailsOnlyOnTornFile /\ [Next]_vars => FailsOnlyOnTornFile'
  <2> SUFFICES ASSUME Inv, FailsOnlyOnTornFile, [Next]_vars,
                      pc' = "failed", conf'.resume = "auto"
               PROVE  FailsOnlyOnTornFile'
    BY DEF FailsOnlyOnTornFile
  <2>1. CASE Load
    <3>1. conf.resume = "auto" /\ UNCHANGED <<shards, data, tracker, manuals>>
      BY <2>1 DEF Load, job, manual, disk
    <3>2. tracker = EmptyTracker \/ (tracker \in folders /\ LoadFrom(tracker))
      BY <2>1, <3>1 DEF Load, Scratch
    <3>3. CASE tracker = EmptyTracker
      BY <3>1, <3>3 DEF FailsOnlyOnTornFile
    <3>4. CASE tracker \in folders /\ LoadFrom(tracker)
      <4>1. ~Loadable(tracker)
        BY <3>4 DEF LoadFrom
      <4>2. manual /\ tracker \in DOMAIN data
        BY <3>4, <4>1, TrackedLoads DEF Inv, PositionInv
      <4>3. data[tracker] = Torn \/ \E p \in Parts : \E s \in Saved(p, tracker) : ~Whole(s)
        BY <3>4, <4>1, TrackedLoads DEF Loadable
      <4> QED
        BY <4>2, <4>3, <3>1 DEF FailsOnlyOnTornFile, Saved, manual
    <3> QED
      BY <3>2, <3>3, <3>4
  <2>2. CASE Over \/ UNCHANGED vars
    BY <2>2 DEF FailsOnlyOnTornFile, Over, vars, disk, job, Saved, manual
  <2>3. CASE \E c \in Configs : Start(c)
    BY <2>3 DEF Start
  <2>4. CASE RunStep /\ ~Load
    <3>1. part \in Parts /\ pc' # "failed"
      BY <2>4, AfterPartStates DEF RunStep, EndEpoch, TrainStep, NextStep, SkipPart, Rotate,
         EndPart, OpenFile, WriteFile, OpenData, WriteData, TruncateTracker, WriteTracker,
         Inv, ModelInv, TypeOK
    <3> QED
      BY <3>1
  <2>5. CASE Crash \/ CrashRotating
    BY <2>5, CrashLeaves
  <2> QED
    BY <2>1, <2>2, <2>3, <2>4, <2>5 DEF Next
<1>3. Inv /\ [Next]_vars => Inv'
  BY InvNext
<1> QED
  BY <1>1, <1>2, <1>3, InvInit, PTL DEF Spec
=================================================================================
