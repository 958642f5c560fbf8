SPECIFICATION Spec
CONSTANTS
    SectorLen = 2
    BlockLen = 4
    WindowLen = 16
    Sizes <- MCSizes
    ReadinessAttempts = 5
    BridgePolls = 3
    MaxBadBlocks = 0
    SilentClearFault = TRUE
INVARIANT
    SuccessLeavesSavesZero
