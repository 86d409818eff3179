SPECIFICATION BlockSpec
CONSTANTS
    Programs <- MCPrograms
    NumTxns <- MCNumTxns
    ReadsOf <- MCReadsOf
    VM <- MCVM
    GasLimit <- MCGasLimit
    DataKeys <- MCData
    FieldKeys <- MCField
    ModuleKeys <- MCModule
    BaseValue = 0
    Configs <- MCConfigs
    Workers = {w1, w2}
    NoEntry = NoEntry
    NoRecord = NoRecord
SYMMETRY Sym
INVARIANTS
    CommitsExclusive
    CommittedOnce
    NoTaskAtLastCommit
    ReexecutionFinal
    MaterializedIsSequential
    AnswerIsSequential
    FailedBlockAnswered
PROPERTIES
    CommittedStable
