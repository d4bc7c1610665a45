CONSTANTS
    Customers <- MCCustomers
    Events <- FewEvents
    Malformed = {malformed}
    Partitions <- TwoPartitions
    DeadLetterPartition = 0
    PartitionOf <- CustomerPartition
    Rejectable <- DecisionTopics
    EarliestTime = 0
    VelocityWindow = 5
    HighAmountThreshold = 2500
    VelocityCountThreshold = 5
    ReviewScoreThreshold = 40
    DeclineScoreThreshold = 70
    ModelPercent <- ShippedPercent
    Artifact <- FraudLogregV1
    Log1p <- Log1pOfAmount
    MaxExits = 1
    MaxRaw = 2

SPECIFICATION Spec

INVARIANTS
    TypeOK
    DetectorInv
    CommittedIsHandled
    MemoryIsReplay

PROPERTY
    CommitsOneByOne
