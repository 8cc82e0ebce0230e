SPECIFICATION LiveSpec
CONSTANTS
    Block <- HookBlock
    NoBlock = "none"
    Parent <- HookParent
    Height <- HookHeight
    Ancestors <- HookAncestors
    StartHeight = 1
    StartHash = "none"
    GlobalScope = FALSE
    PageBlocks = 2
    Tip = {"a1", "b2", "b3"}
    Page <- HookPage
    Fact = {"f", "f2"}
    Reports <- HookReports
    Process = {"p1"}
    NoProcess = "nobody"
INVARIANTS
    CoveredTipCertified
    WalkRecorded
    OneRepairSuffices
PROPERTIES
    LedgerSpec
    QuarantineHolds
    HistoryCatchesUp
