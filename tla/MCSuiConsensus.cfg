SPECIFICATION Spec
CHECK_DEADLOCK FALSE
CONSTANTS
    Certs = {1, 2, 3, 4}
    Objects <- MCObjects
    Uses <- MCUses
    Capacity = 1
    None = 0
INVARIANTS
    InOnePlace
    ExecutedInDecidedOrder
PROPERTY
    EveryCertificateAnswered
