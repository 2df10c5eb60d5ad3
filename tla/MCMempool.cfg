SPECIFICATION FairSpec
CONSTANTS
    Genesis <- MCGenesis
    Inputs <- MCInputs
    Chunks <- MCChunks
    MaxBlockChunks = 12
    MaxWithdrawals = 1
    PriorityChunks <- MCPriorityChunks
    MaxSubmitted = 3
    MaxCrashes = 1
INVARIANTS
    LateAccountsHarmless
    NothingForgotten
PROPERTIES
    AcceptedIsExecuted
CHECK_DEADLOCK FALSE
