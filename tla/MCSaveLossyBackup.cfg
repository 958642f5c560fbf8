SPECIFICATION Spec
CONSTANTS
    NoBank = NoBank
    Commands <- MCCommands
    Cards <- MCCards
    LossyClose = TRUE
INVARIANTS
    BackupHoldsOriginal
