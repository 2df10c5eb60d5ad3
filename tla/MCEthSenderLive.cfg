CONSTANTS
    WithdrawalBlocks = {}
    MaxInFlight = 2
    MaxBlocks = 2
    MaxPrice = 1
    MaxCrashes = 1
    MaxReorgs = 1
    MaxErrors = 1
    MaxLost = 1
    MaxRaises = 0
SPECIFICATION FairSpec
CONSTRAINT OneFault
INVARIANTS
    QueueContinuesTable
    ConfirmedIsFinal
    LossIsBounded
PROPERTIES
    AllConfirmed
