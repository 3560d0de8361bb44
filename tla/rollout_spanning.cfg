SPECIFICATION Spec
CONSTANTS
    Workers = {w1}
    Agents = {"prof_1", "prof_2"}
    MaxSteps = 2
    BatchSize = 1
    EmptyResponses = {FALSE}
    MaxRollouts = 2
INVARIANT ReportedUtilityDelivered
