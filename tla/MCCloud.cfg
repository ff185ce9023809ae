SPECIFICATION SpecCloud
CONSTANTS
    Classes <- MCClasses
    Stream <- MCStream
    ClassOf <- MCClassOf
    MaxBytes = 3
    SegCap = 2
    MaxPeek = 2
    MaxRecords = 4
    MaxFaults = 1
    Intents = {"mode", "chargenow"}
    Edge = {"chargenow"}
    Flaws = {"forged"}
    Burst = 2
    RefillEvery = 2
    TTL = 1
    DiagGap = 2
    SyncEvery = 3
    SyncAfter = 1
    Requests = {101}
    MaxTime = 5
    Scenes <- MCScenes
    MaxLines = 2
    MaxFiles = 2
    FlushEvery = 2
    MaxEvents = 8
    MaxTroubles = 3
CHECK_DEADLOCK FALSE
INVARIANTS
    NothingIsLost
    CommandsAreAccounted
    JournalIsWhole
PROPERTIES
    IsClassQueue
    CloudSettles
