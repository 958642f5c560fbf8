SPECIFICATION Spec
CONSTANTS
    NoBank = NoBank
    Commands <- MCCommands
    Cards <- MCCards
    LossyClose = FALSE
INVARIANTS
    TypeOK
    BackupHoldsOriginal
    WritesInOrder
    SuccessIsTruthful
    NeighbourSavesKept
    CheckedRangeFits
    FaultCodesNeedFault
    CleanupAttempted
PROPERTIES
    PayloadAfterReadiness
    AlwaysReturns
