SPECIFICATION Spec
CONSTANTS
    NoBank = NoBank
    Commands <- MCCommands
    Cards <- MCCards
    LossyClose = FALSE
INVARIANTS
    RejectionFinishesSession
