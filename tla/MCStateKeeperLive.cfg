CONSTANTS
    Alice = Alice
    Bob = Bob
    Validator = Validator
    K1 = K1
    NoKey = NoKey
    ZeroAddress = ZeroAddress
    MaxAccountId = 3
    FeeAccountId = 0
    Genesis <- MCGenesis
    Variants <- MCLiveVariants
    PriorityOps <- MCLivePriorityOps
    BlockSizes <- MCBlockSizes
    Chunks <- MCChunks
    Gas <- MCGas
    GasLimit = 4
    MaxWithdrawals = 1
    MaxIterations = 1
    FastIterations = 0
    UsizeValues = 1024
    MaxSubmitted = 1
    MaxTxs = 2
    MaxPriorityOps = 2
    ChannelCapacity = 2
    MaxCrashes = 1
SPECIFICATION FairSpec
PROPERTY
    PriorityOpsProcessed
CHECK_DEADLOCK FALSE
