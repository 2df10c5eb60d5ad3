SPECIFICATION FairSpec
CONSTANTS
    Alice = Alice
    Bob = Bob
    Owners = {Alice, Bob}
    PublicDatas <- MCPublicDatas
    PriorityExpiration = 2
    ExpectVerificationIn = 0
    MaxHeight = 3
    MaxRequests = 2
    MaxCommits = 3
INVARIANTS
    FundsFollow
    QueueFollowsBlocks
PROPERTIES
    RequestsAnswered
CHECK_DEADLOCK FALSE
