------------------------------- MODULE Advantage -------------------------------
(***************************************************************************)
(* The multi-agent turn-level GAE of Verlog as operators on a batch:       *)
(* get_multiagent_episode_structure, compute_gae_advantage_return_core and *)
(* remove_last_turn_in_episode_multiagent (verl/trainer/ppo/).             *)
(*                                                                         *)
(* A batch is a sequence of rows [env, agent, turn_id, done]; rewards and  *)
(* values are functions on its indices.  A row's reward sits on its last   *)
(* response token, so a token's advantage depends on the token only by the *)
(* value that is subtracted.  Advantages are linear in rewards and values  *)
(* and polynomial in the discounts: integers tell apart what reals do.     *)
(* masked_whiten, the affine normalisation that follows, is left out.      *)
(***************************************************************************)
EXTENDS Sequences, Sorting

CONSTANTS
    Gamma,      \* algorithm.step_gamma
    Lambda      \* algorithm.step_lam

\* The last row's next value is values / step_gamma * step_gamma.
ASSUME GammaAssumption == Gamma \in Int \ {0} /\ Lambda \in Int

\* Mutant: rows are grouped by environment only.
Group_AnyAgent(batch, i) == {j \in DOMAIN batch : batch[j].env = batch[i].env}

Group(batch, i) ==
    {j \in DOMAIN batch : batch[j].env = batch[i].env /\ batch[j].agent = batch[i].agent}

\* np.lexsort by turn_id, then by index.
InOrder(batch, j, k) ==
    \/ batch[j].turn_id < batch[k].turn_id
    \/ batch[j].turn_id = batch[k].turn_id /\ j < k

\* get_multiagent_episode_structure: the chains, and the one row i is in.
ChainOf(batch, i) ==
    LET group == Group(batch, i)
    IN  SortedBy(group, [j \in group |-> {k \in group : InOrder(batch, k, j)}])
EpisodeStructure(batch) == {ChainOf(batch, i) : i \in DOMAIN batch}

Place(chain, i) == CHOOSE t \in DOMAIN chain : chain[t] = i

\* Mutant: the value of the next row is used across the end of an episode.
Live_Always(batch, i) == 1

\* next_non_terminal
Live(batch, i) == IF batch[i].done THEN 0 ELSE 1

\* ep_advantages, from the last row of the chain, whose advantage is 0, back.
ChainAdvantages(batch, chain, rewards, values) ==
    LET adv[t \in DOMAIN chain] ==
            IF t = Len(chain) THEN 0
            ELSE LET i     == chain[t]
                     delta == rewards[i] + Gamma * values[chain[t + 1]] * Live(batch, i) - values[i]
                 IN  delta + Gamma * Lambda * Live(batch, i) * adv[t + 1]
    IN  adv

TurnAdvantages(batch, rewards, values) ==
    LET chains == EpisodeStructure(batch)
        adv    == [chain \in chains |-> ChainAdvantages(batch, chain, rewards, values)]
    IN  [i \in DOMAIN batch |->
            LET chain == CHOOSE c \in chains : \E t \in DOMAIN c : c[t] = i
            IN  adv[chain][Place(chain, i)]]

\* nextvalues
NextValue(batch, chain, values, t) ==
    IF t = Len(chain) THEN values[chain[t]]
    ELSE Gamma * values[chain[t + 1]] * Live(batch, chain[t])

\* Mutant: lastgaelam is the row's own advantage.
LastGaeLam_Own(batch, chain, adv, t) == Gamma * Lambda * adv[chain[t]]

\* lastgaelam
LastGaeLam(batch, chain, adv, t) ==
    IF t = Len(chain) THEN 0
    ELSE Gamma * Lambda * adv[chain[t + 1]] * Live(batch, chain[t])

\* returns: the same for every token of a row, whose advantage is the row's
\* return less the value at the token.
Returns(batch, rewards, values) ==
    LET adv == TurnAdvantages(batch, rewards, values)
    IN  [i \in DOMAIN batch |->
            LET chain == ChainOf(batch, i)
                t     == Place(chain, i)
            IN  rewards[i] + NextValue(batch, chain, values, t) + LastGaeLam(batch, chain, adv, t)]

\* Mutant: of rows with the same turn_id the first one is dropped.
LastIndex_First(batch, group) ==
    CHOOSE i \in group : \A j \in group \ {i} :
        \/ batch[j].turn_id < batch[i].turn_id
        \/ batch[j].turn_id = batch[i].turn_id /\ i < j

\* max_indices[-1]
LastIndex(batch, group) ==
    CHOOSE i \in group : \A j \in group \ {i} :
        \/ batch[j].turn_id < batch[i].turn_id
        \/ batch[j].turn_id = batch[i].turn_id /\ j < i

\* remove_last_turn_in_episode_multiagent: the indices that are kept.
RemoveLastTurn(batch) ==
    DOMAIN batch \ {LastIndex(batch, Group(batch, i)) : i \in DOMAIN batch}
===============================================================================
