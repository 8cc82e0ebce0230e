SPECIFICATION LiveSpec
CONSTANTS
    Slot = {1, 2}
    Instance = {"i", "j", "k"}
    SlotOf <- Of
    None = None
    MayReturn = FALSE
    MaxMoves = 2
    MaxChanges = 1
    MaxFaults = 2
INVARIANTS
    WorkIsCarried
    DeferredIsScheduled
PROPERTIES
    HistoryReachesTip
CHECK_DEADLOCK FALSE
