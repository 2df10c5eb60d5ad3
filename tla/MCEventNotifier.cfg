CONSTANTS
    Txs = {t1}
    PriorityOps = {p1}
    Account = account
    Subscribers = {s1}
    MaxBlock = 2
    MaxRestarts = 1
    WatchUnconfirmed = FALSE
SPECIFICATION FairSpec
INVARIANTS
    SubscriptionsServed
PROPERTIES
    AllAnswered
CHECK_DEADLOCK FALSE
