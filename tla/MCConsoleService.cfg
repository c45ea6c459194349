SPECIFICATION MCSpec
CONSTANTS
    Connections = {c1, c2}
    RequestIds = {1, 2}
    QueryWorkers = {"query"}
    Keys = {"status.changed", "alarm.changed"}
    Coalesced = {"status.changed"}
    StatusKey = "status.changed"
    MaximumConnections = 2
    MaximumInFlight = 1
    RememberedIds = 1
    QueueCapacity = 1
    OutboundCapacity = 2
    PushCapacity = 1
    IngressCapacity = 1
    MaximumFrames = 2
    MaximumPublishes = 1
    Requests = {r1, r2, r3}
    MaximumPending = 2
    MaximumGeneration = 3
    Appliers = 2
    Sections = {"live", "system"}
    RestartSections = {"system"}
    RestoredSections = {"system"}
    Values = {0, 1}
    HistoryLimit = 2
    MaximumRevision = 3
    MaximumMishaps = 3
    Cameras = {1, 2}
    Triggering = {1}
    RingCapacity <- PipelineRingCapacity
    MaximumLeases = 3
    MaximumReferences <- PipelineReferences
    PreEvent = 1
    PostEvent = 1
    MergeGap = 0
    MaximumDuration = 4
    MaximumActiveEvents = 2
    TriggersPerEvent = 3
    LastTime = 5
    MaximumTriggers = 3
    Losing = {2}
    Behind = 1
    Disorder = 1
CHECK_DEADLOCK FALSE
SYMMETRY Symmetry
INVARIANTS
    NothingStranded
    NeverAsleep
    AppliersFollowEffective
    CompleteHasEveryFrame
