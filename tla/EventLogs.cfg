SPECIFICATION LogsSpec
CONSTANTS
    MaxEvents = 3
    MaxBatch = 2
    MaxBuffered = 2
    ReplayLimit = 4
    SplitSnapshot = FALSE
    MaxConnections = 3
    MaxFaults = 1
    MaxHarnessEvents = 3
    MaxHubEvents = 1
    MaxMessages = 1
    MaxResumes = 1
    MaxCrashes = 1
    MaxFailures = 1
    Batch = 2
    Window = 4
    Kinds <- AllKinds
    MaxTaskEvents = 3
    MaxSilent = 1
    MaxRetries = 1
    MaxRefusals = 1
    MaxRestarts = 1
CHECK_DEADLOCK FALSE
INVARIANTS
    RestIsProjected
    NothingOrphaned
PROPERTIES
    FeedImplementsReader
    FeedConverges
    DeletionCompletes
    IngestionImplementsReader
    ActivityArrives
