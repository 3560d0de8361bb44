SPECIFICATION Spec
CONSTANTS
    NumReplicas = 2
    TpSize = 2
    NumTensors = 2
    FreeCache = TRUE
    SleepLevel = 2
    Checkpoints = {3}
    MaxCalls = 4
INVARIANTS TypeOK OnPolicy TrainingRandomKept TpRanksDrawAlike
PROPERTY CallReturns
CHECK_DEADLOCK FALSE
