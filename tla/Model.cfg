SPECIFICATION ModelSpec
CONSTANTS
    LineWindow = 1
    MaxChunk = 2
    MaxBytes = 6
    MaxRetryAttempts = 2
    InitialBackoff = 2
    MaxBackoff = 3
    MaxDeltas = 2
    MaxCalls = 2
    Drivers = {"sse", "http", "fetch"}
    MaxItems = 2
    Terminals = {"response.completed", "error"}
    ItemShapes <- MCItemShapes
    CallIndexes = {0, 2}
    CallIds = {"", "A", "B"}
    FinishReasons = {"", "tool_calls", "length"}
    MaxAttempts = 2
    Dialects = {"chat", "responses"}
    UserParts <- MCUserParts
    ToolParts <- MCToolParts
    MaxResponses = 1
    MaxPatches = 1
    Costs <- MCCosts
    TokenMax = 7
    MaxCommits = 3
    SectionNames = {"a", "b", "c"}
    Texts <- MCTexts
    Titles = {"", "T"}
    MaxLength = 3
    Sessions <- MCSessions
    WireRecords <- MCWireRecords
    MaxAlterations = 2
    PayloadCapacity = 1
    SignalCapacity = 1
    QueryCapacity = 1
    HandlerErrors = {"plain"}
    MaxFrames = 2
    MaxConnects = 2
    MaxRetries = 2
    Managers = {"m1", "m2"}
    Allocs = {"A", "B"}
    Layouts <- MCLayouts
    NoAlloc = "-"
    HubRequests <- MCRequests
    Incarnations = {"l1"}
    MaxAllocRevision = 2
    MaxManagerDeaths = 1
    Launches = {"plain", "local", "remote"}
    MaxStarts = 2
    MaxHubDeaths = 2
INVARIANTS
    EventsAreTheText
    AssembledAsSent
    RenderedFaithfully
    TokensCountedOnce
    HubTrafficAccounted
    WorkersSupervised
PROPERTIES
    OneWholeAnswer
    WrittenIsReadBack
    AllocationsSound
CHECK_DEADLOCK FALSE
