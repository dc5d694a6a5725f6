SPECIFICATION HostSpec
CONSTANTS
    OrdinaryCapacity = 1
    LifecycleSlots = 5
    MetadataSlots = 1
    Soft = 3
    EventMax = 2
    HistoryMax = 1
    WriteCapacity = 10
    Names = {"status"}
    MaxWindowErrors = 1
    Wrap = 3
    Callers = {"a", "b"}
    CaptureLimit = 1
    MaxEvents = 3
    Calls = {"c1", "c2"}
    MaxSessions = 1
    MaxIds = 2
    MaxBytes = 2
    MaxCalls = 3
    MaxExecutions = 3
    MaxEpoch = 3
    Files <- MCFiles
    Module <- MCModule
    Directories = {"d1", "d2"}
    Selections <- MCSelections
    MaxModels = 1
    ToolSets <- MCToolSets
    Batches <- MCBatches
    Types = {"ReadOnly", "SerialWrite"}
    MaxBatches = 1
    Properties <- MCProperties
    Schemas <- MCSchemas
    DepthLimit = 2
    Handlers = {h1, h2, h3}
    Publishers = {p1}
    MaxClears = 1
INVARIANTS
    ProcessesAccounted
    CallsAnswered
    SubscribersServed
PROPERTIES
    OutboxKeepsAccounts
    ProgramReportsHonest
    PluginRoutesSound
CHECK_DEADLOCK FALSE
