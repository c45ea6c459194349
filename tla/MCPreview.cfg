CONSTANTS
    NodeCount = 2
    Values = {1, 2}
    Configured = 1
    QueueCapacity = 1
    PoolCapacity = 2
    RingCapacity = 2
    MaximumAttempts = 2
    MaximumNumber = 3
    MaximumFailures = 2
    MaximumRecoveries = 2
    MaximumLinks = 3
    MaximumChanges = 2
    MaximumFaults = 2
    Cameras = {"c1", "c2"}
    Selections <- MCSelections
    MaxSubscriptions = 2
    MaxConnections = 3
    MaxRequests = 2
SPECIFICATION MCPreviewSpec
PROPERTIES
    SamplesOnlyForReaders
CHECK_DEADLOCK FALSE
