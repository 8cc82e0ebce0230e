SPECIFICATION SchemaLiveSpec
CONSTANTS
    old1 = old1
    old2 = old2
    new = new
    None = None
    Process = {old1, old2, new}
    Contract <- MCContract
    Known <- MCKnown
    Last = 3
INVARIANTS
    NoMigrationRepeats
    OneContract
PROPERTIES
    StartupEnds
CHECK_DEADLOCK FALSE
