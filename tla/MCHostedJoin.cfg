\* A join that waits without a limit outlasts the deadline.
SPECIFICATION MCSpec
CONSTANTS
    Connections = {1}
    RequestIds = {1}
    QueryWorkers = {"query"}
    Keys = {"status.changed"}
    Coalesced = {"status.changed"}
    StatusKey = "status.changed"
    MaximumConnections = 1
    MaximumInFlight = 1
    RememberedIds = 1
    QueueCapacity = 1
    OutboundCapacity = 2
    PushCapacity = 1
    IngressCapacity = 1
    MaximumFrames = 1
    MaximumPublishes = 0
    Components <- MCComponents
    Phase <- MCPhase
    Unlimited <- MCUnlimited
    Reasons = {"service stop"}
    MaximumControls = 1
    Installers = {i1, i2}
    MaximumInstances = 3
    Parts = {"status", "alarms", "version"}
    MaximumLinks = 2
    MaximumChanges = 1
    MaximumFaults = 1
CHECK_DEADLOCK FALSE
PROPERTY JoinsHonorDeadline
