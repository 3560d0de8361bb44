-------------------------------- MODULE Credit ---------------------------------
(***************************************************************************)
(* Rollout and Advantage composed: what the rows a training rollout has    *)
(* gathered are worth to the trainer.  The workers' rows are concatenated  *)
(* into one batch, GAE runs over its chains, and the last row of each      *)
(* chain is dropped.                                                       *)
(***************************************************************************)
EXTENDS Rollout, Advantage, SequencesExt

\* DataProto.concat of the workers' rows, each with its worker's env_idx.
Batch ==
    LET part(w) == [i \in DOMAIN outputs[w] |->
                       [env |-> w, agent |-> outputs[w][i].agent,
                        turn_id |-> outputs[w][i].turn_id, done |-> outputs[w][i].done,
                        row |-> outputs[w][i]]]
        order   == SetToSeq(Workers)
    IN  FlattenSeq([k \in DOMAIN order |-> part(order[k])])

Zeros(batch) == [i \in DOMAIN batch |-> 0]
Credits(batch) == [i \in DOMAIN batch |-> batch[i].row.credit]

EpisodeOver(row) == Over(env[row.env], row.row.episode)

Gathered == Training /\ AllFinished

\* With nothing discounted and a critic that knows nothing, every row that is
\* trained on has as its advantage exactly its own agent's utility in its own
\* episode, once, if the episode has ended, and nothing otherwise: not another
\* agent's, not that of the episode before or after, whatever agents acted how
\* often and wherever the budget cut the rollout.
CreditIsOwnUtility ==
    Gathered =>
        LET batch == Batch
            adv   == TurnAdvantages(batch, Credits(batch), Zeros(batch))
        IN  \A i \in RemoveLastTurn(batch) :
                adv[i] = IF EpisodeOver(batch[i]) THEN 1 ELSE 0

\* 4 ^ n
Weight[n \in Nat] == IF n = 0 THEN 1 ELSE 4 * Weight[n - 1]

\* Values that tell the rows apart in any sum of a few of them.
Distinct(batch) == [i \in DOMAIN batch |-> Weight[i]]

BootRow(batch, i) ==
    CHOOSE j \in DOMAIN batch : /\ batch[j].row.boot
                                /\ batch[j].env = batch[i].env
                                /\ batch[j].agent = batch[i].agent

\* The value of another row enters a trained row's advantage only where it has
\* to: in an episode the rollout left unfinished, and then it is the value of
\* the bootstrap row of the same agent and environment.
BootstrapsOnlyUnfinished ==
    Gathered =>
        LET batch  == Batch
            values == Distinct(batch)
            adv    == TurnAdvantages(batch, Zeros(batch), values)
        IN  \A i \in RemoveLastTurn(batch) :
                adv[i] + values[i] =
                    IF EpisodeOver(batch[i]) THEN 0 ELSE values[BootRow(batch, i)]
===============================================================================
