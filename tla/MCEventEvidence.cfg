SPECIFICATION MCSpec
CONSTANTS
    Events = {e1}
    Sources = {s1, s2}
    PendingCapacity = 1
    QueueCapacity = 1
    MaximumRestarts = 2
    FrozenEvents = {f1, f2, f3}
    Windows <- MCWindows
    KeyFrameCount = 3
    PendingEvents = 2
    JobCapacity = 4
    SaveCapacity = 1
    White = 24
    Parts = 8
    Plugins = {"classical"}
    MaxRegionPixels = 4
    Configs <- MCConfigs
    Frames <- MCFrames
    Cameras = {"left", "right"}
    LeaseEvents = {"e1"}
    BlockBytes <- MCBlockBytes
    MaximumBytes = 3
    BlockFrames = 2
    BlockSpan = 2
    BlockQueueCapacity = 1
    MaximumLeases = 1
    Pre = 1
    Post = 1
    LastTime = 4
INVARIANTS
    ConfirmationReachesRow
    StopLosesNothing
    CommittedShowsOnset
    SlowDriftIsNoBreak
PROPERTIES
    ConfirmedStays
    FrozenEventsFinish
    ProtectedBlocksStay
\* After the last start the process may end for good.
CHECK_DEADLOCK FALSE
