SPECIFICATION LiveSpec
CONSTANTS
    MaxMoves = 3
    TipAt <- Reorg
    MayStop = TRUE
    MaxFaults = 1
INVARIANTS
    OutageIsBounded
PROPERTIES
    TipSettles
    SilentStreamFails
CHECK_DEADLOCK FALSE
