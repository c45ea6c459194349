SPECIFICATION MCSpec
CONSTANTS
    Events = {e1}
    Files <- OneFile
    UploadPolicy = "all"
    MaximumAttempts = 1
    JobCapacity = 2
    HistoryCapacity = 2
    MaximumRestarts = 1
    MaximumRequests = 1
    Ids = {"c1", "c2", "c3"}
    Sizes <- MCSizes
    QueueCapacity = 2
    QueueBytes = 3
    ResultCapacity = 2
    ResultBytes = 3
    MaximumDelay = 2
    MaximumDeliveries = 4
INVARIANTS
    UploadedHasNoOpenJob
    RepeatedOnlyWhenForgotten
PROPERTIES
    SessionServesQueue
\* After the last start the process may end for good, and so may the uplink.
CHECK_DEADLOCK FALSE
