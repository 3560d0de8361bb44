SPECIFICATION Spec
CONSTANTS
    Ranks = {r0, r1}
    Files = {1, 2}
    StepsPerEpoch = 2
    Epochs = 2
    TotalSteps = 3
    SaveFreq = 2
    SaveFreqOffset = 1
    SaveSteps = {2}
    EsiExpires = {FALSE}
    CriticWarmup = 1
    Configs <- Settings
    MaxRuns = 3
    MaxManual = 1
INVARIANTS TypeOK TrackedComplete ModelMatchesStep DataMatchesStep RunKeepsAtMost
    FailsOnlyOnTornFile
PROPERTY RunEnds
