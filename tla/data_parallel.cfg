SPECIFICATION Spec
CONSTANTS
    DpSize = 2
    SpSize = 2
    Rows = 8
    Lengths = {1, 2, 3}
    TrainedSizes = {3, 6, 8}
    MaxTokenLen = 2
    MiniSize = 2
    MicroSize = 1
    PpoEpochs = 2
INVARIANTS TypeOK ResultsInRowOrder LoadsBounded RanksInLockstep EpochsCoverBatch
