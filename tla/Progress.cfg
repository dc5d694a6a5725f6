SPECIFICATION ProgressSpec
CONSTANTS
    OrdinaryCapacity = 1
    LifecycleSlots = 5
    MetadataSlots = 1
    Soft = 2
    EventMax = 1
    HistoryMax = 1
    WriteCapacity = 1
    Names = {"status"}
    MaxWindowErrors = 0
    Wrap = 2
    Callers = {"a"}
    CaptureLimit = 1
    MaxEvents = 2
    MaxRetryAttempts = 1
    InitialBackoff = 2
    MaxBackoff = 3
    MaxDeltas = 1
    MaxCalls = 1
    Drivers = {"sse", "http", "fetch"}
    PayloadCapacity = 1
    SignalCapacity = 1
    QueryCapacity = 1
    HandlerErrors = {"plain"}
    MaxFrames = 1
    MaxConnects = 1
    MaxRetries = 2
PROPERTIES
    OutboxProgress
    HandleProgress
    CallEnds
    RunMovesOn
    ExchangeEnds
CHECK_DEADLOCK FALSE
