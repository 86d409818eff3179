SPECIFICATION FairSpec
CONSTANTS
    v1 = v1
    v2 = v2
    v3 = v3
    Voters <- MCVoters
    weight <- MCWeight
    ShardOf <- MCShardOf
    ShardOrder = 1
    RatioBits = 3
    NumNames = 2
    MaxCases = 1
    FinalizesPerCase = 2
INVARIANTS
    CountedOncePerFinalize
    ResultComplete
PROPERTY
    FinalizeCompletes
CHECK_DEADLOCK FALSE
