SPECIFICATION FairSpec
CONSTANTS
    A = A
    B = B
    C = C
    Blocks <- MCBlocks
    TxsOf <- MCTxsOf
    PrioritizedMsg <- MCPrioritized
    MaxGas = 8
    GasRange = 16
    NoBlock = NoBlock
    NoInfo = NoInfo
    NoResponse = NoResponse
    MaxHeight = 2
INVARIANTS
    TypeOK
    OneSignal
    SignalledRunComplete
    BlockProcessedOnce
    GasCheckExact
PROPERTIES
    ImplementsChain
    FinalizeAnswered
\* MaxHeight ends the behaviour.
CHECK_DEADLOCK FALSE
