CONSTANTS
    Transactions = {"t1", "t2"}
    Decisions <- AllDecisions
    Unstorable <- LongVersion
    Invalid = {invalid}
    Partitions <- OnePartition
    DeadLetterPartition = 0
    Rejectable <- DeadLetterTopic
    MaxExits = 2
    MaxScored = 3

SPECIFICATION FairSpec

INVARIANTS
    StoreInv
    CommittedIsStored
    SettledRowIsNewest

PROPERTIES
    RefinesLatestDecision
    EveryDecisionStored
