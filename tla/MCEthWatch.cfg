SPECIFICATION FairSpec
CONSTANTS
    t1 = t1
    t2 = t2
    t3 = t3
    Txs <- MCTxs
    Confirmations = 1
    Expiration = 2
    MaxRequested = 1
    MaxBlock = 6
    MaxEvents = 2
    MaxReorgs = 1
    MaxErrors = 1
    MaxRestarts = 1
INVARIANTS
    QueueIsContractQueue
    SeenIsKept
PROPERTIES
    AllTaken
CHECK_DEADLOCK FALSE
