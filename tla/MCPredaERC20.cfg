SPECIFICATION Spec
CONSTANTS
    Addresses = {a1, a2}
    InitialBalance = 1
    Amounts = {0, 1, 2}
    MaxPayments = 2
    MaxRelays = 3
    MaxSupply = 4
INVARIANTS
    Conservation
PROPERTIES
    ImplementsLedger
