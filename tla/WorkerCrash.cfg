SPECIFICATION WorkerSpec
CONSTANTS
    Calls = {c1}
    MaxExchanges = 2
    Bounded = TRUE
    AutoCompact = FALSE
    EditHooks = TRUE
    MaxSequence = 2
    MaxEntries = 3
    Sqlite = TRUE
    SaveStep = FALSE
    SaveRun = TRUE
    SaveShutdown = TRUE
    MaxAutoCompactions = 1
    MaxAdmission = 2
    MaxRestarts = 1
CHECK_DEADLOCK FALSE
INVARIANTS
    NoReplay
    DiskAccounts
    DiskReopens
PROPERTIES
    EvidenceFrozen
