CONSTANTS
    Customers <- MCCustomers
    Events <- AllEvents
    Malformed = {malformed}
    Partitions <- OnePartition
    DeadLetterPartition = 0
    PartitionOf <- SharedPartition
    Rejectable = {}
    EarliestTime = 0
    VelocityWindow = 5
    HighAmountThreshold = 2500
    VelocityCountThreshold = 5
    ReviewScoreThreshold = 40
    DeclineScoreThreshold = 70
    ModelPercent <- ShippedPercent
    Artifact <- FraudLogregV1
    Log1p <- Log1pOfAmount
    MaxExits = 0
    MaxRaw = 2

SPECIFICATION FairSpec

PROPERTY
    EveryMessageCommitted
