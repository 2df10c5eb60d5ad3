CONSTANTS
    Alice = Alice
    Bob = Bob
    Validator = Validator
    K1 = K1
    NoKey = NoKey
    ZeroAddress = ZeroAddress
    MaxAccountId = 3
    FeeAccountId = 0
    Genesis <- MCGenesis
    Variants <- MCVariants
    PriorityOps <- MCPriorityOps
    BlockSizes <- MCBlockSizes
    Chunks <- MCChunks
    Gas <- MCGas
    GasLimit = 5
    MaxWithdrawals = 1
    MaxIterations = 1
    FastIterations = 0
    UsizeValues = 1024
    MaxSubmitted = 2
    MaxTxs = 2
    MaxPriorityOps = 2
    ChannelCapacity = 2
    MaxCrashes = 1
SPECIFICATION Spec
INVARIANTS
    OpenBlockSound
    RangesContiguous
    DatabaseFollowsKeeper
    
    SuccessOnce
    BatchAtomic
PROPERTIES
    CommitsInOrder
CHECK_DEADLOCK FALSE
