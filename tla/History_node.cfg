SPECIFICATION Spec
CONSTANTS
    Block <- ForkBlock
    NoBlock = "none"
    Parent <- ForkParent
    Height <- ForkHeight
    Ancestors <- ForkAncestors
    StartHeight = 1
    StartHash = "a1"
    GlobalScope = TRUE
    PageBlocks = 2
    Tip = {"g", "a1", "a2", "b2"}
    Page <- ForkPage
    Fact = {"f", "f2"}
    Reports <- ForkReports
    Process = {"p1"}
    NoProcess = "nobody"
INVARIANTS
    StartIdentity
