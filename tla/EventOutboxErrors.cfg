SPECIFICATION Spec
CONSTANTS
    OrdinaryCapacity = 1
    LifecycleSlots = 8
    MetadataSlots = 1
    Soft = 1
    EventMax = 1
    HistoryMax = 1
    WriteCapacity = 1
    Names = {"status"}
    MaxWindowErrors = 5
    Wrap = 2
CHECK_DEADLOCK FALSE
INVARIANT LifecycleAdmitted
