CONSTANTS
    NEAR = 1
    RESET = 4
    ErrorValues <- MCErrors
    MaxError = 5
    InitialA = 2
SPECIFICATION Spec
INVARIANTS StatisticsBounded GolombBounded
