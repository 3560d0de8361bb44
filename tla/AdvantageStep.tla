----------------------------- MODULE AdvantageStep -----------------------------
(***************************************************************************)
(* What RayPPOTrainer.fit does with one gathered batch between the critic's*)
(* values and the updates: compute_advantage, the removal of the rows that *)
(* only carry a value, and the random part of the batch that is trained on *)
(* during the critic's warmup.                                             *)
(*                                                                         *)
(* The batch is any sequence of rows.  Rewards and values are unit vectors:*)
(* what is computed from them is linear, so agreement with a reference on  *)
(* each of them is agreement on all.                                       *)
(***************************************************************************)
EXTENDS Advantage, FiniteSets, FiniteSetsExt

CONSTANTS
    Chains,     \* the (env_idx, agent_id) pairs in the batch
    TurnIds,    \* the turn_ids in the batch
    Rows,       \* bound: the number of rows
    Ratio       \* trainer.critic_warmup_batch_divide_ratio

ASSUME RowsAssumption == Rows \in Nat \ {0} /\ TurnIds \subseteq Nat
ASSUME RatioAssumption == Ratio \in Nat \ {0}

VARIABLES
    stage,      \* "values", "advantage", "strip" or "train"
    batch,
    rewards,    \* token_level_rewards, summed over a row
    values,     \* the value at a row's first response token
    advantages, \* turn_advantages
    returns,
    trained     \* the indices in batch4train

vars == <<stage, batch, rewards, values, advantages, returns, trained>>

Row == [env : {c[1] : c \in Chains}, agent : {c[2] : c \in Chains},
        turn_id : TurnIds, done : BOOLEAN]
Zero == [i \in 1..Rows |-> 0]
Unit(k) == [Zero EXCEPT ![k] = 1]

Init ==
    /\ stage = "values"
    /\ batch \in [1..Rows -> {r \in Row : <<r.env, r.agent>> \in Chains}]
    /\ \E k \in 1..Rows : \/ rewards = Unit(k) /\ values = Zero
                          \/ rewards = Zero /\ values = Unit(k)
    /\ advantages = Zero
    /\ returns = Zero
    /\ trained = {}

ComputeAdvantage ==
    /\ stage = "values"
    /\ stage' = "advantage"
    /\ advantages' = TurnAdvantages(batch, rewards, values)
    /\ returns' = Returns(batch, rewards, values)
    /\ UNCHANGED <<batch, rewards, values, trained>>

Strip ==
    /\ stage = "advantage"
    /\ stage' = "strip"
    /\ trained' = RemoveLastTurn(batch)
    /\ UNCHANGED <<batch, rewards, values, advantages, returns>>

WarmupSize(n) == Max({1, n \div Ratio})

\* During the critic's warmup a random part of the rows, otherwise all of them.
Sample ==
    /\ stage = "strip"
    /\ stage' = "train"
    /\ \/ UNCHANGED trained
       \/ \E part \in SUBSET trained :
             /\ Cardinality(part) = Min({WarmupSize(Cardinality(trained)), Cardinality(trained)})
             /\ trained' = part
    /\ UNCHANGED <<batch, rewards, values, advantages, returns>>

Trained == stage = "train" /\ UNCHANGED vars

Next == ComputeAdvantage \/ Strip \/ Sample \/ Trained

Spec == Init /\ [][Next]_vars

-------------------------------------------------------------------------------
(* Properties, by a reference that knows no chains but only which row of   *)
(* an agent comes after which.                                             *)

After(i) == {j \in DOMAIN batch : /\ batch[j].env = batch[i].env
                                  /\ batch[j].agent = batch[i].agent
                                  /\ \/ batch[i].turn_id < batch[j].turn_id
                                     \/ batch[i].turn_id = batch[j].turn_id /\ i < j}
Between(i, k) == {j \in After(i) : k \in After(j)}
NextRow(i) == CHOOSE j \in After(i) : Between(i, j) = {}

\* (Gamma * Lambda) ^ n
Discount[n \in Nat] == IF n = 0 THEN 1 ELSE Gamma * Lambda * Discount[n - 1]

TDError(k) ==
    rewards[k] - values[k] + IF batch[k].done THEN 0 ELSE Gamma * values[NextRow(k)]

\* k is i, or is reached from i without passing the end of an episode, and has
\* a row after it.
Reaches(i, k) ==
    /\ k = i \/ k \in After(i)
    /\ After(k) # {}
    /\ k # i => ~batch[i].done /\ \A j \in Between(i, k) : ~batch[j].done

Distance(i, k) == IF k = i THEN 0 ELSE Cardinality(Between(i, k)) + 1

LambdaSum(i) ==
    SumFunction([k \in {j \in DOMAIN batch : Reaches(i, j)} |->
                    Discount[Distance(i, k)] * TDError(k)])

\* GAE's defining sum: a row's advantage is the discounted sum of the temporal
\* differences of its own agent's turns from that turn on to the end of the
\* episode, however rows of chains are interleaved and turn numbers repeated.
\* Nothing after a done enters it.
AdvantageIsLambdaSum ==
    stage # "values" => \A i \in DOMAIN batch : advantages[i] = LambdaSum(i)

\* The token-level pass recomputes the turn-level result by other formulas: on
\* the first token of every row that is trained on the two agree, so that the
\* critic's target is the advantage plus the value.
TokensAgreeWithTurns ==
    stage = "train" => \A i \in trained : returns[i] = advantages[i] + values[i]

\* The rows dropped, found by one function, are the rows whose advantage GAE,
\* in another module, has forced to 0 for want of a next row.
DropsRowsWithoutNext ==
    stage = "strip" => trained = {i \in DOMAIN batch : After(i) # {}}
===============================================================================
