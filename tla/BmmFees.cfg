SPECIFICATION LiveSpec
CONSTANTS
    MaxBlocks = 2
    Slot = {"s"}
    Activation <- FromTheFirst
    SampleTries = 2
    FeeTries = 2
    Disputed = {1}
    MaxFaults = 1
INVARIANTS
    NoBlockSkipped
PROPERTIES
    JobsEnd
    LateEvidenceIsUsed
CHECK_DEADLOCK FALSE
