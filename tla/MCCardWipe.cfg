SPECIFICATION Spec
CONSTANTS
    SectorLen = 1
    BlockLen = 2
    WindowLen = 8
    ReadinessAttempts = 5
    MaxWarm = 7
    MaxFaults = 2
INVARIANTS
    TypeOK
    SuccessMeansWiped
    DestructiveInStep
PROPERTIES
    EraseOnlyAfterPreflight
    EveryRunEnds
    CleanBridgeRecovers
