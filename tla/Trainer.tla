-------------------------------- MODULE Trainer --------------------------------
(***************************************************************************)
(* RayPPOTrainer.fit (verl/trainer/ppo/ray_trainer.py) over the life of a  *)
(* training job: runs that resume from a checkpoint, train, save and may   *)
(* be killed at any point, with the sharded saving and loading of          *)
(* FSDPCheckpointManager (verl/utils/checkpoint/).                         *)
(*                                                                         *)
(* The checkpoint directory survives a run; the driver's counters, the     *)
(* models and the managers' previous_saved_paths do not.  A model, an      *)
(* optimizer and a scheduler are abstracted to the number of updates in    *)
(* them and the run that made the last one.  A file is opened, which       *)
(* empties it, in one step and written in another; no file is written      *)
(* aside and renamed.                                                      *)
(***************************************************************************)
EXTENDS Integers, Sequences, FiniteSets

CONSTANTS
    Ranks,          \* the processes of a worker group
    Files,          \* checkpoint.save_contents: model 1, optim 2, extra_state 3
    StepsPerEpoch,  \* len(train_dataloader)
    Epochs,         \* trainer.total_epochs
    TotalSteps,     \* total_training_steps
    SaveFreq,       \* trainer.save_freq; 0 or less: no periodic checkpoints
    SaveFreqOffset, \* trainer.save_freq_offset
    SaveSteps,      \* trainer.save_steps
    EsiExpires,     \* what should_save_ckpt_esi may answer: {FALSE} or BOOLEAN
    CriticWarmup,   \* trainer.critic_warmup
    Configs,        \* the checkpoint settings a run may be started with
    MaxRuns,        \* bound: runs of the job
    MaxManual       \* bound: those among them that do not resume automatically

ASSUME RanksAssumption == IsFiniteSet(Ranks) /\ Ranks # {}
ASSUME FilesAssumption == Files \subseteq 1..3 /\ Files # {}
ASSUME StepsAssumption ==
    /\ StepsPerEpoch \in Nat \ {0} /\ Epochs \in Nat \ {0} /\ TotalSteps \in Nat \ {0}
    /\ SaveFreq \in Int /\ SaveFreqOffset \in Nat /\ SaveSteps \subseteq Nat
    /\ EsiExpires \subseteq BOOLEAN /\ CriticWarmup \in Nat

Parts == {"actor", "critic"}

\* What a checkpoint of a part consists of: every rank's files.
Pieces == Ranks \X Files

\* save_*_checkpoint, max_*_ckpt_to_keep (0: null) and resume_mode of a run.
Config == [save : [Parts -> BOOLEAN], keep : [Parts -> Nat],
           resume : {"auto", "disable", "resume_path"}]

ASSUME ConfigsAssumption == Configs \subseteq Config

\* latest_checkpointed_iteration.txt: absent, opened for writing and still
\* empty, or the number of a step.
NoTracker    == 0
EmptyTracker == -1

\* A data.pt opened for writing and not yet written.
Torn == -1

VARIABLES
    \* disk
    shards,         \* the ranks' files
    data,           \* step -> dataloader position in its data.pt
    folders,        \* steps with a global_step_ folder
    tracker,        \* latest_checkpointed_iteration.txt
    \* the run
    pc,             \* where fit stands
    part,           \* the part being saved
    run,            \* runs started
    conf,           \* the run's settings
    manuals,        \* history: runs so far not told to resume automatically
    step,           \* global_steps
    epoch,          \* epochs finished by this run
    pos,            \* batches the dataloader has yielded in this epoch
    model,          \* part -> rank and kind of file -> what would go into it
    previous,       \* part -> rank 0's previous_saved_paths, as steps
    made,           \* history: the parts and steps this run has opened files of
    open,           \* the part's files that are open
    wrote           \* ... and that are written

disk    == <<shards, data, folders, tracker>>
loop    == <<step, epoch, pos, model>>
saving  == <<part, previous, made, open, wrote>>
job     == <<run, conf, manuals>>
vars    == <<disk, loop, saving, job, pc>>

Weights == [run : Nat, updates : Nat]

\* What is in a file that was opened and never written.
Nothing == [run |-> -1, updates |-> -1]

Shard   == [part : Parts, step : Nat, piece : Pieces, weights : Weights \cup {Nothing}]

Whole(s) == s.weights # Nothing

Fresh == [p \in Parts |-> [x \in Pieces |-> [run |-> 0, updates |-> 0]]]

Saved(p, n) == {s \in shards : s.part = p /\ s.step = n}
SavedPieces(p, n) == {s.piece : s \in Saved(p, n)}

-------------------------------------------------------------------------------
(* Resuming.                                                               *)

\* The memory of processes that have just started.
Forget ==
    /\ step' = 0
    /\ epoch' = 0
    /\ pos' = 0
    /\ model' = Fresh
    /\ part' = "actor"
    /\ previous' = [p \in Parts |-> <<>>]
    /\ made' = {}
    /\ open' = {}
    /\ wrote' = {}

\* A run is started: by the user, or again after the last one ended.
Start(c) ==
    /\ pc \in {"down", "done", "failed"}
    /\ run < MaxRuns
    /\ run' = run + 1
    /\ conf' = c
    /\ IF c.resume = "auto"
       THEN manuals' = manuals
       ELSE manuals < MaxManual /\ manuals' = manuals + 1
    /\ pc' = "load"
    /\ Forget
    /\ UNCHANGED disk

Scratch ==
    /\ pc' = "train"
    /\ step' = 1
    /\ UNCHANGED <<epoch, pos, model>>

\* torch.load finds every file, and none that was opened and not written; only
\* data.pt may be missing.
Loadable(n) ==
    /\ \A p \in Parts : SavedPieces(p, n) = Pieces /\ \A s \in Saved(p, n) : Whole(s)
    /\ n \in DOMAIN data => data[n] # Torn

\* load_checkpoint on every rank, then the dataloader's state if there is any.
LoadFrom(n) ==
    IF Loadable(n)
    THEN /\ model' = [p \in Parts |-> [x \in Pieces |->
                        (CHOOSE s \in Saved(p, n) : s.piece = x).weights]]
         /\ pos' = IF n \in DOMAIN data THEN data[n] ELSE 0
         /\ step' = n + 1
         /\ pc' = "train"
         /\ UNCHANGED epoch
    ELSE /\ pc' = "failed"
         /\ UNCHANGED loop

\* find_latest_ckpt_path reads the tracker in every mode but "disable"; an empty
\* one is a ValueError.  A path that does not exist fails to load.
Load ==
    /\ pc = "load"
    /\ CASE conf.resume = "disable" -> Scratch
         [] conf.resume # "disable" /\ tracker = EmptyTracker ->
                pc' = "failed" /\ UNCHANGED loop
         [] conf.resume = "auto" /\ tracker # EmptyTracker ->
                IF tracker \in folders THEN LoadFrom(tracker) ELSE Scratch
         [] conf.resume = "resume_path" /\ tracker # EmptyTracker ->
                \E n \in folders \cup {0} : LoadFrom(n)
    /\ UNCHANGED <<disk, saving, job>>

-------------------------------------------------------------------------------
(* The training loop.                                                      *)

\* The dataloader is exhausted: the next epoch, or the end of fit.
EndEpoch ==
    /\ pc = "train"
    /\ pos = StepsPerEpoch
    /\ epoch' = epoch + 1
    /\ pos' = 0
    /\ pc' = IF epoch + 1 = Epochs THEN "done" ELSE pc
    /\ UNCHANGED <<disk, saving, job, step, model>>

IsSaveStep ==
    SaveFreq > 0 /\ step >= SaveFreqOffset /\ (step - SaveFreqOffset) % SaveFreq = 0

IsLastStep == step >= TotalSteps

Saves(esi) ==
    step \in SaveSteps \/ (SaveFreq > 0 /\ (IsLastStep \/ IsSaveStep \/ esi))

Updated(weights) ==
    [x \in Pieces |-> [run |-> run, updates |-> weights[x].updates + 1]]

\* Mutant: the actor is updated in the last warmup step.
ActorTrains_Early == step >= CriticWarmup

ActorTrains == step > CriticWarmup

\* One batch, up to the decision to save.
TrainStep ==
    /\ pc = "train"
    /\ pos < StepsPerEpoch
    /\ pos' = pos + 1
    /\ model' = [p \in Parts |->
                    IF p = "critic" \/ ActorTrains THEN Updated(model[p]) ELSE model[p]]
    /\ \E esi \in EsiExpires : pc' = IF Saves(esi) THEN "rotate" ELSE "next"
    /\ part' = "actor"
    /\ UNCHANGED <<disk, job, step, epoch, previous, made, open, wrote>>

\* The bottom of the loop.
NextStep ==
    /\ pc = "next"
    /\ step' = step + 1
    /\ pc' = IF IsLastStep THEN "done" ELSE "train"
    /\ UNCHANGED <<disk, saving, job, epoch, pos, model>>

-------------------------------------------------------------------------------
(* Saving.                                                                 *)

Resumable == \A p \in Parts : conf.save[p]

\* Mutant: the tracker follows a checkpoint that cannot be resumed from.
AfterPart_AlwaysTracks ==
    IF part = "actor"
    THEN part' = "critic" /\ pc' = "rotate"
    ELSE part' = part /\ pc' = "data"

\* What follows a part: the other one, then data and tracker if the
\* checkpoint can be resumed from.
AfterPart ==
    IF part = "actor"
    THEN part' = "critic" /\ pc' = "rotate"
    ELSE part' = part /\ pc' = IF Resumable THEN "data" ELSE "next"

SkipPart ==
    /\ pc = "rotate"
    /\ ~conf.save[part]
    /\ AfterPart
    /\ UNCHANGED <<disk, loop, job, previous, made, open, wrote>>

Rotates ==
    conf.keep[part] > 0 /\ Len(previous[part]) >= conf.keep[part]

\* Mutant: one checkpoint too few is rotated out.
KeepStart_OneShort == Len(previous[part]) - conf.keep[part]

KeepStart == Len(previous[part]) - conf.keep[part] + 1

\* The oldest of this run's checkpoints of the part that make room for the one
\* to come, and their files.
TooMany == IF Rotates THEN KeepStart ELSE 0
Oldest == UNION {Saved(part, previous[part][i]) : i \in 1..TooMany}

\* Rank 0 deletes their directories; then the folder is made and the ranks meet.
Rotate ==
    /\ pc = "rotate"
    /\ conf.save[part]
    /\ shards' = shards \ Oldest
    /\ previous' = [previous EXCEPT ![part] = SubSeq(@, TooMany + 1, Len(@))]
    /\ folders' = folders \cup {step}
    /\ open' = {}
    /\ wrote' = {}
    /\ pc' = "write"
    /\ UNCHANGED <<data, tracker, loop, part, made, job>>

\* A file of the part is there with this in it, instead of whatever was.
Put(x, weights) ==
    shards' = {s \in shards : ~(s.part = part /\ s.step = step /\ s.piece = x)}
                \cup {[part |-> part, step |-> step, piece |-> x, weights |-> weights]}

\* torch.save of a rank's next file: it is opened in its final place ...
OpenFile(x) ==
    /\ pc = "write"
    /\ x \notin open \cup wrote
    /\ \A f \in Files : f < x[2] => <<x[1], f>> \in wrote
    /\ Put(x, Nothing)
    /\ made' = made \cup {<<part, step>>}
    /\ open' = open \cup {x}
    /\ UNCHANGED <<data, folders, tracker, loop, part, previous, wrote, pc, job>>

\* ... and written.
WriteFile(x) ==
    /\ pc = "write"
    /\ x \in open
    /\ Put(x, model[part][x])
    /\ open' = open \ {x}
    /\ wrote' = wrote \cup {x}
    /\ UNCHANGED <<data, folders, tracker, loop, part, previous, made, pc, job>>

\* Mutant: the driver waits for one rank only.
AllWrote_NoBarrier == \E r \in Ranks : \A f \in Files : <<r, f>> \in wrote

\* Mutant: the barrier also waits for the driver.
AllWrote_AndDriver == Cardinality(wrote) = Cardinality(Pieces) + 1

AllWrote == wrote = Pieces

EndPart ==
    /\ pc = "write"
    /\ AllWrote
    /\ previous' = [previous EXCEPT ![part] = Append(@, step)]
    /\ AfterPart
    /\ UNCHANGED <<disk, loop, made, open, wrote, job>>

\* torch.save of the dataloader's state: data.pt is opened ...
OpenData ==
    /\ pc = "data"
    /\ data' = [n \in DOMAIN data \cup {step} |-> IF n = step THEN Torn ELSE data[n]]
    /\ folders' = folders \cup {step}
    /\ pc' = "position"
    /\ UNCHANGED <<shards, tracker, loop, saving, job>>

\* Mutant: the position saved is the one before this step's batch.
WriteData_BeforeBatch ==
    /\ pc = "position"
    /\ data' = [data EXCEPT ![step] = pos - 1]
    /\ pc' = "truncate"
    /\ UNCHANGED <<shards, folders, tracker, loop, saving, job>>

\* ... and written.
WriteData ==
    /\ pc = "position"
    /\ data' = [data EXCEPT ![step] = pos]
    /\ pc' = "truncate"
    /\ UNCHANGED <<shards, folders, tracker, loop, saving, job>>

\* open(tracker, "w") ...
TruncateTracker ==
    /\ pc = "truncate"
    /\ tracker' = EmptyTracker
    /\ pc' = "tracker"
    /\ UNCHANGED <<shards, data, folders, loop, saving, job>>

\* Mutant: the number written is that of the next step.
WriteTracker_NextStep ==
    /\ pc = "tracker"
    /\ tracker' = step + 1
    /\ pc' = "next"
    /\ UNCHANGED <<shards, data, folders, loop, saving, job>>

\* ... and the step's number.
WriteTracker ==
    /\ pc = "tracker"
    /\ tracker' = step
    /\ pc' = "next"
    /\ UNCHANGED <<shards, data, folders, loop, saving, job>>

-------------------------------------------------------------------------------

Running == pc \notin {"down", "done", "failed"}

\* The job is killed, or any of its processes dies and takes the run with it.
Crash ==
    /\ Running
    /\ pc' = "down"
    /\ Forget
    /\ UNCHANGED <<disk, job>>

\* ... in the middle of shutil.rmtree too.
CrashRotating ==
    /\ pc = "rotate"
    /\ conf.save[part]
    /\ \E deleted \in SUBSET Oldest : shards' = shards \ deleted
    /\ pc' = "down"
    /\ Forget
    /\ UNCHANGED <<data, folders, tracker, job>>

Over ==
    /\ ~Running
    /\ run = MaxRuns
    /\ UNCHANGED vars

Init ==
    /\ shards = {}
    /\ data = [n \in {} |-> 0]
    /\ folders = {}
    /\ tracker = NoTracker
    /\ pc = "down"
    /\ part = "actor"
    /\ run = 0
    /\ conf \in Configs
    /\ manuals = 0
    /\ step = 0
    /\ epoch = 0
    /\ pos = 0
    /\ model = Fresh
    /\ previous = [p \in Parts |-> <<>>]
    /\ made = {}
    /\ open = {}
    /\ wrote = {}

RunStep ==
    \/ Load \/ EndEpoch \/ TrainStep \/ NextStep
    \/ SkipPart \/ Rotate \/ EndPart
    \/ \E x \in Pieces : OpenFile(x) \/ WriteFile(x)
    \/ OpenData \/ WriteData \/ TruncateTracker \/ WriteTracker

Next ==
    \/ \E c \in Configs : Start(c)
    \/ RunStep
    \/ Crash
    \/ CrashRotating
    \/ Over

\* A run that is not killed goes on; nothing makes anyone start another.
Spec == Init /\ [][Next]_vars /\ WF_vars(RunStep)

-------------------------------------------------------------------------------
(* Properties.                                                             *)

\* Types, and what they already say of the disk: a checkpoint's files are in a
\* folder that exists, and the tracker names such a folder or none.
TypeOK ==
    /\ shards \subseteq Shard
    /\ DOMAIN data \subseteq folders
    /\ \A n \in DOMAIN data : data[n] \in 1..StepsPerEpoch \cup {Torn}
    /\ folders \subseteq Nat \ {0}
    /\ tracker \in {EmptyTracker, NoTracker} \cup folders
    /\ pc \in {"down", "load", "train", "next", "rotate", "write", "data",
               "position", "truncate", "tracker", "done", "failed"}
    /\ part \in Parts
    /\ run \in Nat
    /\ conf \in Config
    /\ manuals \in Nat
    /\ step \in Nat
    /\ epoch \in 0..Epochs
    /\ pos \in 0..StepsPerEpoch
    /\ model \in [Parts -> [Pieces -> Weights]]
    /\ previous \in [Parts -> Seq(folders)]
    /\ made \subseteq Parts \X folders
    /\ open \subseteq Pieces
    /\ wrote \subseteq Pieces

\* The updates a part has received after n steps.
UpdatesAfter(p, n) ==
    IF p = "critic" THEN n ELSE IF n > CriticWarmup THEN n - CriticWarmup ELSE 0

\* Some run was not told to resume automatically.
manual == manuals > 0

\* The checkpoint the tracker names can be resumed from at any moment, in the
\* middle of a save, a rotation or a later run: every rank's files and data.pt
\* are there, written to the end, and those of a part are of one model, the one
\* of that step.  A run that did not resume automatically may go over the
\* step again and be killed while it writes over these files; even then none is
\* missing, and each is of the step or was left torn.
TrackedComplete ==
    tracker > 0 =>
        /\ tracker \in DOMAIN data
        /\ manual \/ data[tracker] # Torn
        /\ \A p \in Parts :
              /\ SavedPieces(p, tracker) = Pieces
              /\ \A s \in Saved(p, tracker) :
                    Whole(s) => s.weights.updates = UpdatesAfter(p, tracker)
              /\ \/ manual
                 \/ /\ \A s \in Saved(p, tracker) : Whole(s)
                    /\ Cardinality({s.weights : s \in Saved(p, tracker)}) = 1

\* Through every crash and resume a run trains, in each step, on weights,
\* optimizers and schedulers that have received exactly the updates of the steps
\* before it.
ModelMatchesStep ==
    pc = "train" =>
        \A p \in Parts : \A x \in Pieces :
            model[p][x].updates = UpdatesAfter(p, step - 1)

\* ... and on the batch of the data that belongs to it: no batch is trained on
\* twice or skipped, whatever was lost with a crash.  (A user may also choose a
\* checkpoint whose data.pt was never written; its data starts from the front.)
DataMatchesStep ==
    pc = "train" /\ ~manual => pos % StepsPerEpoch = (step - 1) % StepsPerEpoch

\* The files of a part that a run has written and not deleted belong to at most
\* max_ckpt_to_keep checkpoints.
RunKeepsAtMost ==
    Running => \A p \in Parts :
        conf.keep[p] > 0 =>
            Cardinality({n \in folders : <<p, n>> \in made /\ Saved(p, n) # {}})
                <= conf.keep[p]

\* A job fails to resume automatically only on a file that a kill left torn: the
\* tracker, or, if a run that did not resume automatically has been writing over
\* the tracked checkpoint, one of that.
FailsOnlyOnTornFile ==
    pc = "failed" /\ conf.resume = "auto" =>
        \/ tracker = EmptyTracker
        \/ /\ manual
           /\ tracker \in DOMAIN data
           /\ \/ data[tracker] = Torn
              \/ \E p \in Parts : \E s \in Saved(p, tracker) : ~Whole(s)

\* A run that nobody kills comes to an end.
RunEnds == pc = "load" ~> ~Running

===============================================================================
