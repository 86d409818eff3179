SPECIFICATION Spec
CONSTANTS
    Owners = {o1, o2}
    ShardOf <- MCShardOf
    Genes = {4, 9}
    NewBorn = 100
    MaxMints = 2
    MaxBreeds = 2
    MaxRegisters = 2
INVARIANTS EveryKittyHeldOnce GenesOfParents
SYMMETRY MCSymmetry
CHECK_DEADLOCK FALSE
