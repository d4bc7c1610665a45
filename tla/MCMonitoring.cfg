CONSTANTS
    CONSUMER_GROUPS <- TwoGroups
    Detector = "fraud-detector-v1"
    Stages = {"validation"}
    Partitions = {0}
    MaxOffset = 2
    Window = 2
    LagThreshold = 0
    ForTicks = 1

SPECIFICATION FairSpec

INVARIANTS
    MonitoringInv
    AlarmsAreRecent

PROPERTIES
    LagNeverUnderstated
    StuckIsAlerted
    CaughtUpIsResolved
