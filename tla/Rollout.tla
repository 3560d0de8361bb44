-------------------------------- MODULE Rollout --------------------------------
(***************************************************************************)
(* One training run's calls of AgentLoopManager.generate_sequences         *)
(* (verl/experimental/agent_loop/agent_loop.py) with the agent loop that   *)
(* every worker executes in them, ToolAgentLoop.run                        *)
(* (verl/experimental/agent_loop/tool_agent_loop.py).                      *)
(*                                                                         *)
(* The workers run concurrently and share one Ray actor, the Counter of    *)
(* real turns.  Each worker owns a training environment, whose episode     *)
(* survives from one rollout to the next, and a validation environment.    *)
(* A rollout produces rows: one per turn taken, and one "bootstrap" row    *)
(* for each of three agents, which the trainer uses as a value and strips. *)
(***************************************************************************)
EXTENDS EnvWrapper, Sequences, FiniteSets

CONSTANTS
    Workers,        \* agent_loop_workers, one environment (env_idx) each
    BatchSize,      \* meta_info["gen_batch_size"]: real turns per training rollout
    EmptyResponses, \* may the LLM server answer with zero tokens?  {FALSE} or BOOLEAN
    MaxRollouts     \* bound: calls of generate_sequences

ASSUME WorkersAssumption == IsFiniteSet(Workers) /\ Workers # {}
ASSUME BatchSizeAssumption == BatchSize \in Nat \ {0}
ASSUME EmptyResponsesAssumption == EmptyResponses \subseteq BOOLEAN

VARIABLES
    phase,          \* the manager: "ready", in a "train" or "val" call, or "failed"
    rollouts,       \* calls of generate_sequences so far
    counter,        \* the Counter actor: [num_turns, batch_size]
    env,            \* worker -> its training environment
    valEnv,         \* worker -> its validation environment
    pc,             \* worker -> where ToolAgentLoop.run stands
    agent,          \* worker -> agent_id
    obs,            \* worker -> messages, from which the prompt is built
    slot,           \* worker -> the turn number its reservation was given (history)
    fills,          \* worker -> reserved_turn_fills_counter
    lastRow,        \* worker -> episode_last_row; 0 where the dict has no entry
    outputs         \* worker -> outputs

managerVars == <<phase, rollouts>>
envVars     == <<env, valEnv>>
loopVars    == <<pc, agent, obs, slot, fills, lastRow, outputs>>
vars        == <<managerVars, counter, envVars, loopVars>>

-------------------------------------------------------------------------------

\* for end_agent_id in range(3): f"prof_{end_agent_id+1}"
BootAgents == <<"prof_1", "prof_2", "prof_3">>

AgentIds == Agents \cup {BootAgents[k] : k \in 1..Len(BootAgents)}

\* AgentLoopOutput, reduced to what the trainer groups, orders and credits by.
\*   episode  the episode in which env.step executed the row's action (history)
\*   prompt   the observation the prompt was built from
\*   slot     the turn number granted by the counter; 0 outside training (history)
\*   credit   how many times the agent's own terminal utility was added to rewards
\*   boot     the row is a bootstrap row
\*   empty    response_ids is empty
Row == [agent : AgentIds, episode : Nat, prompt : Observation, turn_id : Nat,
        slot : Nat, done : BOOLEAN, credit : Nat, boot : BOOLEAN, empty : BOOLEAN]

NoRows == [a \in Agents |-> 0]

Training   == phase = "train"
Validation == phase = "val"

\* Mutant: validation plays on the training environment.
CurrentEnv_Shared(w) == env[w]

CurrentEnv(w) == IF Validation THEN valEnv[w] ELSE env[w]

-------------------------------------------------------------------------------
(* Rows.                                                                   *)

TurnRow(w, e, ended, empty) ==
    [agent |-> agent[w], episode |-> e.episode, prompt |-> obs[w],
     turn_id |-> Len(outputs[w]), slot |-> slot[w], done |-> ended,
     credit |-> IF ended THEN 1 ELSE 0, boot |-> FALSE, empty |-> empty]

\* Mutant: the closing agent is not skipped.
RouteUtilities_CloserTwice(rows, last, closer) ==
    [i \in DOMAIN rows |->
        IF \E a \in Agents : last[a] = i
        THEN [rows[i] EXCEPT !.credit = @ + 1, !.done = TRUE]
        ELSE rows[i]]

\* Mutant: the rows credited are not marked done.
RouteUtilities_NotDone(rows, last, closer) ==
    [i \in DOMAIN rows |->
        IF \E a \in Agents \ {closer} : last[a] = i
        THEN [rows[i] EXCEPT !.credit = @ + 1]
        ELSE rows[i]]

\* The closing agent's utility rides on its own row; every other agent's is
\* added to that agent's latest row of the episode, which becomes done.
\* (The reward is a dict exactly when the environment really ended.)
RouteUtilities(rows, last, closer) ==
    [i \in DOMAIN rows |->
        IF \E a \in Agents \ {closer} : last[a] = i
        THEN [rows[i] EXCEPT !.credit = @ + 1, !.done = TRUE]
        ELSE rows[i]]

\* Mutant: bootstrap rows carry no utility, in validation either.
BootstrapRow_NoUtility(rows, a, credited) ==
    [agent |-> a, episode |-> rows[Len(rows)].episode,
     prompt |-> rows[Len(rows)].prompt, turn_id |-> Len(rows), slot |-> 0,
     done |-> TRUE, credit |-> 0, boot |-> TRUE, empty |-> FALSE]

\* Mutant: bootstrap rows do not take the next turn number.
BootstrapRow_FirstTurn(rows, a, credited) ==
    [agent |-> a, episode |-> rows[Len(rows)].episode,
     prompt |-> rows[Len(rows)].prompt, turn_id |-> 0, slot |-> 0,
     done |-> TRUE, credit |-> IF a \in credited THEN 1 ELSE 0,
     boot |-> TRUE, empty |-> FALSE]

\* After a validation episode each bootstrap row carries reward.get(agent, 0.0);
\* in training it carries 0.0.
BootstrapRow(rows, a, credited) ==
    [agent |-> a, episode |-> rows[Len(rows)].episode,
     prompt |-> rows[Len(rows)].prompt, turn_id |-> Len(rows), slot |-> 0,
     done |-> TRUE, credit |-> IF a \in credited THEN 1 ELSE 0,
     boot |-> TRUE, empty |-> FALSE]

WithBootstrap(rows, credited) ==
    rows \o [k \in 1..Len(BootAgents) |-> BootstrapRow(rows, BootAgents[k], credited)]

\* A bootstrap row copies last_prompt_ids, unbound before the first turn, and
\* outputs[-1].response_ids[0], which an empty response does not have.
CannotBootstrap(rows) == rows = <<>> \/ rows[Len(rows)].empty

LeaveLoop(w, rows, credited) ==
    IF CannotBootstrap(rows)
    THEN /\ pc' = [pc EXCEPT ![w] = "crashed"]
         /\ outputs' = [outputs EXCEPT ![w] = rows]
    ELSE /\ pc' = [pc EXCEPT ![w] = "finished"]
         /\ outputs' = [outputs EXCEPT ![w] = WithBootstrap(rows, credited)]

-------------------------------------------------------------------------------
(* The agent loop of worker w.                                             *)

\* Up to the loop: validation resets its environment, training resumes from
\* the cached last observation.
Begin(w) ==
    /\ pc[w] = "start"
    /\ IF Validation
       THEN \E active \in Agents :
               /\ valEnv' = [valEnv EXCEPT ![w] = Reset(@, active)]
               /\ pc' = [pc EXCEPT ![w] = "generate"]
               /\ UNCHANGED env
       ELSE /\ pc' = [pc EXCEPT ![w] = "reserve"]
            /\ UNCHANGED envVars
    /\ LET e == IF Validation THEN valEnv'[w] ELSE env[w]
       IN  /\ agent' = [agent EXCEPT ![w] = e.active]
           /\ obs' = [obs EXCEPT ![w] = GetLastObs(e)]
    /\ outputs' = [outputs EXCEPT ![w] = <<>>]
    /\ lastRow' = [lastRow EXCEPT ![w] = NoRows]
    /\ slot' = [slot EXCEPT ![w] = 0]
    /\ fills' = [fills EXCEPT ![w] = FALSE]
    /\ UNCHANGED <<managerVars, counter>>

\* Mutant: the fullness test is off by one.
Accepts_OffByOne(c) == c.num_turns <= c.batch_size

\* Counter.increment, awaited by the worker before it generates.
Accepts(c) == c.num_turns + 1 <= c.batch_size

Reserve(w) ==
    /\ pc[w] = "reserve"
    /\ Accepts(counter)
    /\ counter' = [counter EXCEPT !.num_turns = @ + 1]
    /\ slot' = [slot EXCEPT ![w] = counter.num_turns + 1]
    /\ fills' = [fills EXCEPT ![w] = counter.num_turns + 1 >= counter.batch_size]
    /\ pc' = [pc EXCEPT ![w] = "generate"]
    /\ UNCHANGED <<managerVars, envVars, agent, obs, lastRow, outputs>>

\* Mutant: a rejected worker asks the counter again.
Rejected_Retries(w) ==
    /\ pc[w] = "reserve"
    /\ ~Accepts(counter)
    /\ UNCHANGED vars

\* The counter is full: leave the loop and add the bootstrap rows.
Rejected(w) ==
    /\ pc[w] = "reserve"
    /\ ~Accepts(counter)
    /\ LeaveLoop(w, outputs[w], {})
    /\ UNCHANGED <<managerVars, counter, envVars, agent, obs, slot, fills, lastRow>>

\* Mutant: the exit on a full counter comes before the row is kept.
TurnRows_LostClosingRow(w, e, ended, empty) ==
    LET rows == Append(outputs[w], TurnRow(w, e, ended, empty))
    IN  IF fills[w] /\ ended THEN outputs[w]
        ELSE IF ended THEN RouteUtilities(rows, lastRow[w], agent[w]) ELSE rows

\* What a turn leaves in outputs and episode_last_row before the loop decides
\* how to go on.
TurnRows(w, e, ended, empty) ==
    LET rows == Append(outputs[w], TurnRow(w, e, ended, empty))
    IN  IF ended THEN RouteUtilities(rows, lastRow[w], agent[w]) ELSE rows

TurnLastRow(w, ended) ==
    IF ended THEN NoRows ELSE [lastRow[w] EXCEPT ![agent[w]] = Len(outputs[w]) + 1]

\* Mutant: the training environment follows the validation environment.
SetEnv_Both(w, e) ==
    /\ env' = [env EXCEPT ![w] = e]
    /\ IF Validation THEN valEnv' = [valEnv EXCEPT ![w] = e] ELSE UNCHANGED valEnv

SetEnv(w, e) ==
    IF Validation
    THEN valEnv' = [valEnv EXCEPT ![w] = e] /\ UNCHANGED env
    ELSE env' = [env EXCEPT ![w] = e] /\ UNCHANGED valEnv

\* The environment w's loop goes on with: after the end of a training episode
\* that did not fill the counter it has been reset.
NextEnvs(e, resets) == IF resets THEN {Reset(e, active) : active \in Agents} ELSE {e}

\* One iteration from server_manager.generate to the bottom of the loop.  The
\* awaits inside it touch nothing another worker can see.
Turn(w) ==
    /\ pc[w] = "generate"
    /\ \E active \in Agents, terminated \in BOOLEAN, empty \in EmptyResponses :
         LET before == CurrentEnv(w)
             after  == Step(before, agent[w], active, terminated)
             ended  == Ends(before, terminated)
             rows   == TurnRows(w, after, ended, empty)
             leaves == fills[w] \/ (ended /\ Validation)
         IN  \E e \in NextEnvs(after, ended /\ ~leaves) :
               /\ SetEnv(w, e)
               /\ agent' = [agent EXCEPT ![w] = e.active]
               /\ obs' = [obs EXCEPT ![w] = GetLastObs(e)]
               /\ lastRow' = [lastRow EXCEPT ![w] = TurnLastRow(w, ended)]
               /\ IF leaves
                  THEN LeaveLoop(w, rows, IF Validation THEN Agents ELSE {})
                  ELSE /\ outputs' = [outputs EXCEPT ![w] = rows]
                       /\ pc' = [pc EXCEPT ![w] = IF Validation THEN "generate" ELSE "reserve"]
    /\ UNCHANGED <<managerVars, counter, slot, fills>>

-------------------------------------------------------------------------------
(* AgentLoopManager.generate_sequences.                                    *)

\* Counter.reset, then one generate_sequences call per worker.
Dispatch(mode) ==
    /\ phase = "ready"
    /\ rollouts < MaxRollouts
    /\ phase' = mode
    /\ rollouts' = rollouts + 1
    /\ counter' = [num_turns |-> 0, batch_size |-> BatchSize]
    /\ pc' = [w \in Workers |-> "start"]
    /\ outputs' = [w \in Workers |-> <<>>]
    /\ UNCHANGED <<envVars, agent, obs, slot, fills, lastRow>>

AllFinished == \A w \in Workers : pc[w] = "finished"

\* ray.get of every worker's rows.
Gather ==
    /\ phase \in {"train", "val"}
    /\ AllFinished
    /\ phase' = "ready"
    /\ UNCHANGED <<rollouts, counter, envVars, loopVars>>

\* A worker's exception comes out of ray.get and ends the training process.
Fail ==
    /\ phase \in {"train", "val"}
    /\ \E w \in Workers : pc[w] = "crashed"
    /\ phase' = "failed"
    /\ UNCHANGED <<rollouts, counter, envVars, loopVars>>

\* The process has died, or has made its last call.
Stopped ==
    /\ \/ phase = "failed"
       \/ phase = "ready" /\ rollouts = MaxRollouts
    /\ UNCHANGED vars

-------------------------------------------------------------------------------

Init ==
    /\ phase = "ready"
    /\ rollouts = 0
    /\ counter = [num_turns |-> 0, batch_size |-> 0]
    /\ \E active \in [Workers -> Agents] :
          /\ env = [w \in Workers |-> FirstReset(active[w])]
          /\ valEnv = env
          /\ agent = active
    /\ pc = [w \in Workers |-> "start"]
    /\ obs = [w \in Workers |-> [episode |-> 1, terminal |-> FALSE]]
    /\ slot = [w \in Workers |-> 0]
    /\ fills = [w \in Workers |-> FALSE]
    /\ lastRow = [w \in Workers |-> NoRows]
    /\ outputs = [w \in Workers |-> <<>>]

WorkerStep(w) ==
    /\ phase \in {"train", "val"}
    /\ Begin(w) \/ Reserve(w) \/ Rejected(w) \/ Turn(w)

Next ==
    \/ \E mode \in {"train", "val"} : Dispatch(mode)
    \/ \E w \in Workers : WorkerStep(w)
    \/ Gather
    \/ Fail
    \/ Stopped

\* Every worker's event loop keeps running and ray.get returns; nothing makes
\* the trainer ask for another rollout.
Fairness ==
    /\ \A w \in Workers : WF_vars(WorkerStep(w))
    /\ WF_vars(Gather)
    /\ WF_vars(Fail)

Spec == Init /\ [][Next]_vars /\ Fairness
-------------------------------------------------------------------------------
(* Properties.                                                             *)

\* The type of every variable; an environment that was never reset has none.
TypeOK ==
    /\ phase \in {"ready", "train", "val", "failed"}
    /\ rollouts \in Nat
    /\ counter \in [num_turns : Nat, batch_size : Nat]
    /\ env \in [Workers -> EnvState]
    /\ valEnv \in [Workers -> EnvState]
    /\ pc \in [Workers -> {"start", "reserve", "generate", "finished", "crashed"}]
    /\ agent \in [Workers -> Agents]
    /\ obs \in [Workers -> Observation]
    /\ slot \in [Workers -> Nat]
    /\ fills \in [Workers -> BOOLEAN]
    /\ lastRow \in [Workers -> [Agents -> Nat]]
    /\ outputs \in [Workers -> Seq(Row)]

\* The turns taken, as <<worker, index into its outputs>>.
RealIndices(w) == {i \in DOMAIN outputs[w] : ~outputs[w][i].boot}
RealRows == UNION {{<<w, i>> : i \in RealIndices(w)} : w \in Workers}

\* The rows of worker w's chain of agent a: get_multiagent_episode_structure
\* and remove_last_turn_in_episode_multiagent group by (env_idx, agent_id) and
\* order by turn_id.
Chain(w, a) == {i \in DOMAIN outputs[w] : outputs[w][i].agent = a}
ChainAgents(w) == {outputs[w][i].agent : i \in DOMAIN outputs[w]}
LastOfChain(w, a) ==
    CHOOSE i \in Chain(w, a) :
        \A j \in Chain(w, a) \ {i} :
            \/ outputs[w][j].turn_id < outputs[w][i].turn_id
            \/ outputs[w][j].turn_id = outputs[w][i].turn_id /\ j < i

\* A training rollout that completes has exactly the real rows the trainer
\* asked for, however the workers raced for the counter: no turn is taken
\* beyond the budget, and no reservation is lost (tool_agent_loop.py:573).
ExactBatch == Training /\ AllFinished => Cardinality(RealRows) = BatchSize

\* Turn t of the budget is held at <<w, 0>> while worker w generates it and at
\* <<w, i>> once it is row i of w's outputs.
Holds(w, i) == IF i = 0 THEN pc[w] = "generate"
               ELSE i \in DOMAIN outputs[w] /\ ~outputs[w][i].boot
TurnAt(w, i) == IF i = 0 THEN slot[w] ELSE outputs[w][i].slot
Places(w) == 0..Len(outputs[w])

\* The inductive invariant behind the budget properties: the turns granted so
\* far and the places that hold one correspond one to one, and a worker that is
\* through, or about to be, has seen the whole budget granted.
TurnsHeldOnce ==
    /\ \A w \in Workers : \A i \in Places(w) :
          Holds(w, i) => TurnAt(w, i) \in 1..counter.num_turns
    /\ \A v, w \in Workers : \A i \in Places(v), j \in Places(w) :
          Holds(v, i) /\ Holds(w, j) /\ TurnAt(v, i) = TurnAt(w, j) => v = w /\ i = j
    /\ \A t \in 1..counter.num_turns :
          \E w \in Workers : \E i \in Places(w) : Holds(w, i) /\ TurnAt(w, i) = t

FullWhenLeaving ==
    \A w \in Workers :
        pc[w] = "finished" \/ (pc[w] = "generate" /\ fills[w]) =>
            counter.num_turns = BatchSize

BudgetInv ==
    Training => /\ counter.batch_size = BatchSize
                /\ counter.num_turns <= BatchSize
                /\ \A w \in Workers : pc[w] = "start" => outputs[w] = <<>>
                /\ TurnsHeldOnce
                /\ FullWhenLeaving

\* No worker's turns overrun the shared budget at any moment: the rows there are
\* and the turns being generated are exactly the turns the counter has granted.
TurnPlaces == RealRows \cup {<<w, 0>> : w \in {v \in Workers : pc[v] = "generate"}}
NoOverrun ==
    Training => /\ Cardinality(TurnPlaces) = counter.num_turns
                /\ counter.num_turns <= BatchSize

\* The worker always answers the current observation of its environment, as the
\* agent whose turn it is, across episode ends, resets, and rollouts that left
\* an episode unfinished.
ActsOnCurrentObs ==
    \A w \in Workers :
        (Training \/ Validation) /\ pc[w] \in {"reserve", "generate"} =>
            /\ agent[w] = CurrentEnv(w).active
            /\ obs[w] = GetLastObs(CurrentEnv(w))

\* The last row, in this rollout, of an agent's turns in an episode.
LastInEpisode(w, i) ==
    \A j \in DOMAIN outputs[w] :
        /\ ~outputs[w][j].boot
        /\ outputs[w][j].agent = outputs[w][i].agent
        /\ outputs[w][j].episode = outputs[w][i].episode
        => j <= i

Over(e, episode) == episode < e.episode \/ e.done

\* Every agent's terminal utility reaches its chain exactly once: on its last
\* row of that episode, which is the row marked done.  No row of an unfinished
\* episode is credited or done.
UtilityRoutedOnce ==
    \A w \in Workers :
        Training /\ pc[w] # "start" =>
            \A i \in DOMAIN outputs[w] :
                LET row  == outputs[w][i]
                    paid == Over(env[w], row.episode) /\ LastInEpisode(w, i)
                IN  ~row.boot => /\ row.credit = (IF paid THEN 1 ELSE 0)
                                 /\ row.done = paid

\* GAE multiplies the next row's value by 1 - done: two neighbouring rows of a
\* chain that belong to different episodes are always separated by done, and a
\* bootstrap row of a training rollout carries no reward.
NoLeakAcrossEpisodes ==
    \A w \in Workers :
        Training /\ pc[w] = "finished" =>
            \A i, j \in DOMAIN outputs[w] :
                /\ outputs[w][j].boot => outputs[w][j].credit = 0
                /\ /\ i < j
                   /\ outputs[w][i].agent = outputs[w][j].agent
                   /\ outputs[w][i].episode # outputs[w][j].episode
                   => \E k \in i..j-1 : /\ outputs[w][k].agent = outputs[w][i].agent
                                        /\ outputs[w][k].done

\* Stripping the last row of every chain leaves exactly the real rows.  True
\* when the environment's agents are among prof_1, prof_2 and prof_3.
StripLeavesRealRows ==
    Training /\ AllFinished =>
        \A w \in Workers :
            {LastOfChain(w, a) : a \in ChainAgents(w)}
              = {i \in DOMAIN outputs[w] : outputs[w][i].boot}

\* A finished validation call has played one whole episode per worker from its
\* first observation, and the last row of every agent's chain carries that
\* agent's own utility, which is what the validation metric reads.
ValidationScore ==
    Validation /\ AllFinished =>
        \A w \in Workers :
            /\ counter.num_turns = 0
            /\ \A i, j \in DOMAIN outputs[w] : outputs[w][i].episode = outputs[w][j].episode
            /\ ~outputs[w][1].prompt.terminal
            /\ valEnv[w].done
            /\ \A a \in Agents : outputs[w][LastOfChain(w, a)].credit = 1

\* A training episode is played to its end: its environment moves on to another
\* episode only when the old one is over, and validation never touches it.
EpisodeRunsToEnd ==
    [][\A w \in Workers :
          /\ env'[w].episode # env[w].episode =>
                \/ env[w].done
                \/ \E i \in DOMAIN outputs'[w] : /\ outputs'[w][i].episode = env[w].episode
                                                /\ outputs'[w][i].done
          /\ Validation => env'[w] = env[w]]_vars

\* The workers, the counter and the manager together keep the promise of
\* TurnBudget: reserved turns are granted, appended rows are delivered.
GrantedTurns == IF Training THEN 1..counter.num_turns ELSE {}
DeliveredTurns ==
    IF Training THEN {outputs[x[1]][x[2]].slot : x \in RealRows} ELSE {}

Budget == INSTANCE TurnBudget WITH
    N <- BatchSize, open <- Training, granted <- GrantedTurns,
    delivered <- DeliveredTurns, aborted <- phase = "failed"

BudgetSpec == Budget!Spec

\* Every call of generate_sequences returns or raises.
CallReturns == phase \in {"train", "val"} ~> phase \in {"ready", "failed"}

-------------------------------------------------------------------------------
(* What comments and documents say of the loop and the loop does not do.   *)

\* tool_agent_loop.py:805: after an episode's end "the next generation must
\* start from a fresh episode rather than the terminal observation".
FreshEpisodeAfterEnd ==
    \A w \in Workers : Training /\ pc[w] = "generate" => ~obs[w].terminal

\* tool_agent_loop.py:778: one bootstrap row per agent "so every (env, agent)
\* chain ends with a strippable terminal row".
EveryChainEndsInBootstrap ==
    Training /\ AllFinished =>
        \A w \in Workers : \A a \in ChainAgents(w) : outputs[w][LastOfChain(w, a)].boot

\* hiring_episode_logging.py:302: the utility reported for an agent that took a
\* turn in the episode is the "trainable delivered reward": some row carries it.
ReportedUtilityDelivered ==
    \A w \in Workers :
        Training /\ pc[w] = "finished" /\ env[w].done =>
            \A a \in env[w].acted :
                \E i \in DOMAIN outputs[w] : /\ outputs[w][i].agent = a
                                            /\ outputs[w][i].episode = env[w].episode
                                            /\ outputs[w][i].credit = 1

===============================================================================
