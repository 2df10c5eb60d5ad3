SPECIFICATION FairRestoreSpec
CONSTANTS
    Alice = Alice
    Bob = Bob
    Carol = Carol
    Owners = {Alice, Bob, Carol}
    PublicDatas <- MCPublicDatas
    PriorityExpiration = 2
    ExpectVerificationIn = 0
    MaxHeight = 4
    MaxRequests = 0
    MaxCommits = 3
    EthBlocksStep = 0
    EndEthBlocksOffset = 1
    MaxCrashes = 1
INVARIANTS
    FollowsContract
PROPERTIES
    CatchesUp
CHECK_DEADLOCK FALSE
