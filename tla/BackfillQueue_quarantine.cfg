SPECIFICATION LiveSpec
CONSTANTS
    Slot = {1, 2}
    Instance = {"i", "j", "k"}
    SlotOf <- Of
    None = None
    MayReturn = FALSE
    MaxMoves = 1
    MaxChanges = 0
    MaxFaults = 1
PROPERTY
    OthersReachTip
CHECK_DEADLOCK FALSE
