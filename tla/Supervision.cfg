SPECIFICATION LiveSpec
CONSTANTS
    MaxFaults = 3
    MaxStarts = 1
INVARIANTS
    StopHasCause
    UnclosedIsExplained
PROPERTIES
    ServiceEnds
    EnforcerReturns
CHECK_DEADLOCK FALSE
