SPECIFICATION Spec
CONSTANTS
    Configs <- MCConfigs
    Genes = {0, 3, 9}
    Pixels = {0, 1}
    Receivers = 2
    InitialCoins = 250
    Times = {0, 1}
    W8 = 3
    W16 = 2
INVARIANTS  ContractsKeepBooks SqrtIsFloor
CHECK_DEADLOCK FALSE
