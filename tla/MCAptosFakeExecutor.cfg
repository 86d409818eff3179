SPECIFICATION Spec
CONSTANTS
    Accounts = {1, 2}
    Blocks <- MCBlocks
    Functions <- MCFunctions
    EnvParallel = TRUE
    EnvTrace = TRUE
    Balance = 5
    MaxTime = 3
    MaxOps = 5
INVARIANTS   NewBlockAdvances
CHECK_DEADLOCK FALSE
