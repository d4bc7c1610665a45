CONSTANTS
    CONSUMER_GROUPS <- OneGroup
    Detector = "fraud-detector-v1"
    Stages = {"delivery"}
    Partitions = {0}
    MaxOffset = 1
    Window = 3
    LagThreshold = 0
    ForTicks = 1

SPECIFICATION FairSpec

PROPERTY EveryFailureIsAlerted
