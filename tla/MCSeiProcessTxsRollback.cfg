SPECIFICATION FairSpec
CONSTANTS
    NumTxs = 3
    Keys <- MCKeys
    Touches <- MCTouches
    Clean = Clean
INVARIANT RolledBackOnFailure
