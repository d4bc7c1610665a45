CONSTANTS
    Customers <- MCCustomers
    Events <- MCEvents
    EarliestTime = 0
    VelocityWindow = 2
    HighAmountThreshold = 2500
    VelocityCountThreshold = 3
    ReviewScoreThreshold = 40
    DeclineScoreThreshold = 70
    ModelPercent <- ShippedPercent
    Artifact <- FraudLogregV1
    Log1p <- Log1pOfAmount
    MaxArrivals = 5

SPECIFICATION Spec

\* The run ends when the bound on the arrivals is reached.
CHECK_DEADLOCK FALSE

INVARIANTS
    WindowInv
    CountIsUnexpired
    InOrderCountIsWindowCount
    NoveltyMatchesHistory
    FirstAfterRestartIsNoHarder
    RelearningCostsOnlyNovelty
