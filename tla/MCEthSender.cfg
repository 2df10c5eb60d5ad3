CONSTANTS
    WithdrawalBlocks <- MCWithdrawalBlocks
    MaxInFlight = 2
    MaxBlocks = 2
    MaxPrice = 2
    MaxCrashes = 1
    MaxReorgs = 0
    MaxErrors = 0
    MaxLost = 0
    MaxRaises = 1
SPECIFICATION Spec
INVARIANTS
    NeverFails
    OneOperationPerNonce
    QueueMatches
PROPERTIES
    FIFO
