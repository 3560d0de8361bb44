SPECIFICATION Spec
CONSTANTS
    Workers = {w1, w2}
    Agents = {"prof_1"}
    MaxSteps = 2
    BatchSize = 3
    EmptyResponses = {TRUE, FALSE}
    MaxRollouts = 3
PROPERTIES BudgetSpec EpisodeRunsToEnd CallReturns
INVARIANTS ExactBatch NoOverrun BudgetInv
