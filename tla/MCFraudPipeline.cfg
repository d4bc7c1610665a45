CONSTANTS
    Customers <- MCCustomers
    Events <- MCEvents
    Malformed = {malformed}
    Partitions = {0}
    DeadLetterPartition = 0
    PartitionOf <- SharedPartition
    Rejectable = {}
    EarliestTime = 0
    VelocityWindow = 5
    HighAmountThreshold = 2500
    VelocityCountThreshold = 5
    ReviewScoreThreshold = 40
    DeclineScoreThreshold = 70
    ModelPercent <- ShippedPercent
    Artifact <- FraudLogregV1
    Log1p <- Log1pOfAmount
    MaxExits = 2
    MaxRaw = 2

SPECIFICATION FairPipelineSpec

INVARIANTS
    PipelineInv
    FlaggedRowIsAlerted
    TornOnlyByExits
    ScoredInOrder
    DuplicatesOnlyFromExits

PROPERTIES
    EveryTransactionIsDecided
    EveryMessageCommitted
