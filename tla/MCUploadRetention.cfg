SPECIFICATION MCSpec
CONSTANTS
    ChunkCount = 3
    MaximumLate = 2
    MaximumChanges = 2
    Order <- MCOrder
    Volume = 5
    OtherData = {0, 3}
    WarningLevel = 3
    CriticalLevel = 2
    StopLevel = 1
    EventLimits = {1, 2}
    DeletionsPerRun = 1
    MaximumFailures = 1
    MaximumCrashes = 1
CHECK_DEADLOCK FALSE
INVARIANTS
    CompletedIsHeld
    DeletedByRight
PROPERTIES
    ClaimedIsDeleted
