SPECIFICATION Spec
CONSTANTS
    Workers = {w1}
    Agents = {"prof_1", "prof_2", "prof_3", "prof_4", "prof_5"}
    MaxSteps = 2
    BatchSize = 2
    EmptyResponses = {FALSE}
    MaxRollouts = 1
INVARIANT EveryChainEndsInBootstrap
