SPECIFICATION FairWorkerSpec
CONSTANTS
    Calls = {c1}
    MaxExchanges = 2
    Bounded = TRUE
    AutoCompact = TRUE
    EditHooks = FALSE
    MaxSequence = 10
    MaxEntries = 1
    Sqlite = FALSE
    SaveStep = TRUE
    SaveRun = FALSE
    SaveShutdown = FALSE
    MaxAutoCompactions = 2
    MaxAdmission = 1
    MaxRestarts = 0
CHECK_DEADLOCK FALSE
INVARIANTS
    ReportsHonest
    NoToolsAfterStorageFailure
PROPERTIES
    RequestSettles
