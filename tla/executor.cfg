SPECIFICATION Spec
CONSTANTS
    Workers = {w1, w2, w3, w4}
    RowCounts = {2}
    Ranks = 4
    MaxBatch = 0
    MayFail = {TRUE, FALSE}
INVARIANTS TypeOK EveryFutureInFlight OwnScores
PROPERTY EveryRowAnswered
CHECK_DEADLOCK FALSE
