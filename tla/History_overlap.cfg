SPECIFICATION Spec
CONSTANTS
    Block <- ShortBlock
    NoBlock = "none"
    Parent <- ShortParent
    Height <- ShortHeight
    Ancestors <- ShortAncestors
    StartHeight = 1
    StartHash = "none"
    GlobalScope = TRUE
    PageBlocks = 1
    Tip = {"a1", "b2"}
    Page <- ShortPage
    Fact = {"f", "f2"}
    Reports <- ShortReports
    Process = {p1, p2}
    NoProcess = nobody
INVARIANTS
    CertifiedPrefix
    CompletionIsCertifiable
PROPERTIES
    CertifiedUnambiguously
SYMMETRY Processes
