SPECIFICATION Spec
CONSTANTS
    Gamma = 2
    Lambda = 3
    Chains <- ThreeChains
    TurnIds = {0, 1}
    Rows = 4
    Ratio = 2
INVARIANTS AdvantageIsLambdaSum TokensAgreeWithTurns DropsRowsWithoutNext
