SPECIFICATION Spec
CONSTANTS
    Workers = {w1, w2}
    Agents = {"prof_1", "prof_2"}
    MaxSteps = 2
    BatchSize = 3
    EmptyResponses = {FALSE}
    MaxRollouts = 2
    Gamma = 1
    Lambda = 1
SYMMETRY WorkerSymmetry
INVARIANTS TypeOK ActsOnCurrentObs UtilityRoutedOnce NoLeakAcrossEpisodes
    StripLeavesRealRows ValidationScore CreditIsOwnUtility BootstrapsOnlyUnfinished
