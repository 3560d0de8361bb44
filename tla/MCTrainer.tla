------------------------------- MODULE MCTrainer -------------------------------
(***************************************************************************)
(* Model checking of Trainer: the sets of settings with which the runs of  *)
(* a job are started.                                                      *)
(***************************************************************************)
EXTENDS Trainer, TLC

Both == [p \in Parts |-> TRUE]
Probe == [actor |-> FALSE, critic |-> TRUE]
Keep(n) == [p \in Parts |-> n]

\* Both parts saved and the last two checkpoints kept, in a run that starts from
\* the latest checkpoint, from one the user chooses or from none; and critic
\* snapshots for analysis (configs/checkpointing/critic_only.yaml), all of them
\* kept, taken from any checkpoint on.
Settings ==
    {[save |-> Both, keep |-> Keep(2), resume |-> mode] :
        mode \in {"auto", "disable", "resume_path"}}
    \cup {[save |-> Probe, keep |-> Keep(0), resume |-> "resume_path"]}

\* What the deprecation warning of remove_previous_ckpt_in_save recommends.
KeepOne == {[save |-> Both, keep |-> Keep(1), resume |-> "auto"]}

===============================================================================
