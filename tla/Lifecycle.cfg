SPECIFICATION LiveSpec
CONSTANTS
    Block = {"g", "a", "b", "c"}
    Parent <- Tree
    NoBlock = "none"
    Genesis = "a"
    Instance = {"i", "j", "k"}
    SlotOf <- Slot
    ActiveAt <- Active
    Slots = {1}
    WorkerId = {1, 2, 3}
    Attempts = 2
    MaxMoves = 2
    MaxFaults = 2
INVARIANTS
    OneStreamPerSlot
    NoActivationLost
    NoBlockBetween
PROPERTY
    StreamsSettle
