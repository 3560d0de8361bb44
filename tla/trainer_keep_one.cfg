SPECIFICATION Spec
CONSTANTS
    Ranks = {r0, r1}
    Files = {1, 2, 3}
    StepsPerEpoch = 2
    Epochs = 2
    TotalSteps = 4
    SaveFreq = 1
    SaveFreqOffset = 0
    SaveSteps = {}
    EsiExpires = {FALSE, TRUE}
    CriticWarmup = 0
    Configs <- KeepOne
    MaxRuns = 2
    MaxManual = 0
INVARIANT TrackedComplete
