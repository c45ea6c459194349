SPECIFICATION MCSpec
CONSTANTS
    e1 = e1
    e2 = e2
    s1 = s1
    Events = {e1, e2}
    Sources = {s1}
    PendingCapacity = 1
    QueueCapacity = 1
    MaximumRestarts = 1
    Readers = {"query", "uplink"}
    FileCount = 2
    Thumbnail = 2
    MaximumFaults = 2
    ipc = ipc
    uplink = uplink
    CommandThreads = {ipc, uplink}
    Slots = {"CAM01"}
    ParameterValues = {"p1", "p2"}
    SectionValues = {0, 1}
    RevisionLimit = 3
SYMMETRY Symmetry
INVARIANTS
    CommittedHasDirectory
    FailedHasCause
PROPERTIES
    EvidenceSurvives
    EditsOwnPart
\* After the last start the process may end for good.
CHECK_DEADLOCK FALSE
