CONSTANTS
    Letters <- MCLetters
    Fits <- Repaired
    Limits = {0, 2}
    MaxCrashes = 2

SPECIFICATION FairReplaySpec

INVARIANT
    ReplayInv

PROPERTY
    EveryRunEnds
