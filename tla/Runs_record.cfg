SPECIFICATION Spec
CHECK_DEADLOCK FALSE
CONSTANTS
    e = e
    n1 = n1
    n2 = n2
    Session = {e, n1, n2}
    Source = {"enforcer", "node"}
    SourceOf <- Sources
    Streaming = "enforcer"
    Tip = {a, b}
    NoTip = "none"
    Worker = {"tip", "history", "fees"}
    Startup <- AtStartup
    Late <- OnItsOwn
    Reports <- Reporters
    LoggedOnly = {"tip"}
    DegradedAfter <- AfterOne
    Terminal = "reason"
    MaxClock = 3
    MaxCaptured = 2
    MaxFailures = 1
INVARIANTS
    StatusOwned
    StatusTipIsLast
    ErrorTellsOutcome
    SequencesDense
    GapStartsAtLastTip
PROPERTY
    ClosedRunsFrozen
SYMMETRY Alike
