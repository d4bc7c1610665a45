CONSTANTS
    Decisions = {d1, d2}
    Invalid = {invalid}
    WebhookEnabled = TRUE
    MaxRetries = 2
    Partitions <- OnePartition
    DeadLetterPartition = 0
    Rejectable <- DeadLetterTopic
    MaxExits = 1
    MaxAlerts = 3

SPECIFICATION FairSpec

INVARIANTS
    AlerterInv
    EveryAlertLogged
    OnlyExitsDropAlerts
    RetriesBounded

PROPERTY
    NeverBlocked
