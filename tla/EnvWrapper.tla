------------------------------ MODULE EnvWrapper ------------------------------
(***************************************************************************)
(* verl/envs/hiring_env_wrapper.py: AsyncTickerEnvWrapper.  The wrapper    *)
(* caches the last observation of the admissions environment, remembers    *)
(* that an episode has ended, and turns a step taken after the end into a  *)
(* reset.  The wrapped environment (the git submodule hiring_env) is       *)
(* external: it is any environment that names an active agent with every   *)
(* observation, pays every agent its utility in the terminal step, and     *)
(* truncates an episode after max_steps steps.                             *)
(*                                                                         *)
(* Observations are abstracted to the episode they belong to and to        *)
(* whether they are the terminal one.                                      *)
(***************************************************************************)
EXTENDS Naturals

CONSTANTS
    Agents,     \* config["professor_ids"]: the environment's agents
    MaxSteps    \* config["max_steps"]: the environment truncates here

ASSUME AgentsAssumption == Agents # {}
ASSUME MaxStepsAssumption == MaxSteps \in Nat \ {0}

-------------------------------------------------------------------------------

\* The cached last_obs / last_info carry the episode, the active agent and
\* whether the observation is terminal (which is episode_done).  `steps' is
\* the external environment's own step count.  `acted' is history: the agents
\* that have taken a turn in the episode.
EnvState == [episode : Nat \ {0}, steps : Nat, active : Agents,
             done : BOOLEAN, acted : SUBSET Agents]

Observation == [episode : Nat \ {0}, terminal : BOOLEAN]

\* Mutant: the environment is made and not reset.
FirstReset_NoReset(active) ==
    [episode |-> 0, steps |-> 0, active |-> active, done |-> FALSE, acted |-> {}]

\* make_env followed by the first reset, as AgentLoopWorker.__init__ does.
FirstReset(active) ==
    [episode |-> 1, steps |-> 0, active |-> active, done |-> FALSE, acted |-> {}]

GetLastObs(e) == [episode |-> e.episode, terminal |-> e.done]

Reset(e, active) ==
    [episode |-> e.episode + 1, steps |-> 0, active |-> active,
     done |-> FALSE, acted |-> {}]

\* The step ends the episode.  A step on an episode that is already over is
\* answered by a reset: reward 0.0, neither terminated nor truncated.
Ends(e, terminated) == ~e.done /\ (terminated \/ e.steps + 1 = MaxSteps)

Step(e, actor, active, terminated) ==
    IF e.done
    THEN Reset(e, active)
    ELSE [e EXCEPT !.steps  = @ + 1,
                   !.active = active,
                   !.done   = Ends(e, terminated),
                   !.acted  = @ \cup {actor}]
===============================================================================
