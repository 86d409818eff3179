SPECIFICATION Spec
CHECK_DEADLOCK FALSE
CONSTANTS
    W16 = 3
    AdminGasId = 100
    Configs <- MCConfigs
INVARIANTS
    SupportedNeverPanics
    FinalStoreIsInOrder
    
    
PROPERTY
    RunEnds
