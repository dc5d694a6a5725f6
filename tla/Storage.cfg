SPECIFICATION StorageSpec
CONSTANTS
    ReadBytes = {"a", "LF", "CR", "E2", "80", "A8"}
    MaxText = 3
    ReadBudgets = {0, 5, 12}
    EditBytes = {"a", "b"}
    MaxFile = 3
    EditOlds <- MCOlds
    EditNews <- MCNews
    EditLimit = 4
    MaxOutside = 1
    PreviewBytes = {"a", "CR", "LF"}
    MaxPreview = 4
    PreviewNews <- MCPreviewNews
    ContextMax = 1
    ShownHalf = 2
    DisplayBytes = 1
    FocusBack = 1
    ScalarSlack = 1
    States = {s1, s2}
    NoState = NoState
    Ids = {i1, i2, i3}
    None = None
    MaxArchives = 1
    MaxRevision = 4
    MaxCrashes = 2
    Summaries = {"t1"}
    NoText = NoText
    Retained = 1
    MaxAttempts = 2
    MaxJsonDeaths = 1
    SnapStates <- MCSnapStates
    ArchiveNames = {a1, a2}
    Absent = Absent
    ChunkBytes = 6
    OverlapBytes = 2
    MaxArchiveText = 7
    PageBytes = {2, 3}
    OldArchives = {o1, o2}
    MaxDeaths = 2
    PagesOf <- MCPages
    MaxTokens = 2
    MaxWrites = 4
SYMMETRY Interchangeable
INVARIANTS
    TextIsExact
    ArchivesAccount
    ArchiveSearchTrue
    FileIsAsReported
PROPERTIES
    BackendsKeepContract
    ExportsSound
CHECK_DEADLOCK FALSE
