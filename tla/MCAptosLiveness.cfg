SPECIFICATION FairBlockSpec
CONSTANTS
    Programs <- LivePrograms
    NumTxns <- LiveNumTxns
    ReadsOf <- MCReadsOf
    VM <- MCVM
    GasLimit <- MCGasLimit
    DataKeys <- MCData
    FieldKeys <- MCField
    ModuleKeys <- MCModule
    BaseValue = 0
    Configs <- MCConfigs
    Workers = {w1, w2}
    NoEntry = NoEntry
    NoRecord = NoRecord
PROPERTY BlockReturns
