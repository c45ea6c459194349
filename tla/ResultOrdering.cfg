SPECIFICATION OrderingSpec
CONSTANTS
    Cameras = {1, 2}
    LastTime = 2
    ResultCapacity = 1
    Detecting = {1}
    Operated = {2}
    MaximumReconfigurations = 1
INVARIANTS
    RowsFollowManager
PROPERTIES
    DeliversInOrder
\* After the stop nothing happens any more.
CHECK_DEADLOCK FALSE
