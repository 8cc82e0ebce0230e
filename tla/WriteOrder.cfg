SPECIFICATION LiveSpec
CONSTANTS
    Writer = {"e1", "e2", "n"}
    Source = {"enforcer", "node"}
    SourceOf <- ThreeSourceOf
    Fact = {"f", "g"}
    Batch <- Batches
    MaxId = 1
    PageLimit = 1
    Nobody = "nobody"
INVARIANTS
    NothingSkipped
    DurableBeforeLive
PROPERTIES
    FeedSpec
    WriterNotBlocked
