SPECIFICATION Spec
CONSTANTS
    SectorLen = 2
    BlockLen = 4
    WindowLen = 16
    Sizes <- MCSizes
    ReadinessAttempts = 5
    BridgePolls = 3
    MaxBadBlocks = 1
    SilentClearFault = FALSE
INVARIANTS
    IInv
    TypeOK
    ProgramsErasedTarget
    VerifiedMeansWhole
    SuccessLeavesSavesZero
    FlashTouchedOnlyAfterSetup
    FailureNeedsFault
    HigherWindowsKept
PROPERTIES
    AlwaysReturns
    FinalClearAttempted
    MeetsContract
