SPECIFICATION Spec
CONSTANTS
    Workers = {w1, w2}
    RowCounts = {2, 3}
    Ranks = 2
    MaxBatch = 0
    MayFail = {FALSE}
PROPERTY EveryRowAnswered
CHECK_DEADLOCK FALSE
