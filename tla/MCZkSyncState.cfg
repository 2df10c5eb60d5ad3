CONSTANTS
    Alice = Alice
    Bob = Bob
    Carol = Carol
    Validator = Validator
    K1 = K1
    K2 = K2
    NoKey = NoKey
    ZeroAddress = ZeroAddress
    MaxAccountId = 3
    FeeAccountId = 0
    Genesis <- MCGenesis
    Txs <- MCTxs
    Batches <- MCBatches
    Blocks <- MCBlocks
    PriorityOps <- MCPriorityOps
    MaxDeposited = 6
SPECIFICATION Spec
INVARIANTS
    WellFormed
    Conservation
    NoReplay
    BatchUndone
    UpdatesTell
    ProverAgrees
    ReplayAgrees
CHECK_DEADLOCK FALSE
