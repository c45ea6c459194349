SPECIFICATION MCSpec
CONSTANTS
    Alarms <- MCAlarms
    Threads = {"health", "storage", "time", "lifecycle", "lane", "frames", "reconfigure"}
    ActiveCapacity = 2
    MetricSources <- MCSources
    Gauges = {"cpu"}
    Disks = {"event"}
    ProvidedBy <- MCProvided
    Cameras = {"c1"}
    WarningRounds = 1
    AlarmRounds = 1
    RefreshCapacity = 1
    FailureLimit = 2
    BacklogLimit = 2
    DegradeWindows = 2
    RecoveryWindows = 2
    LogThreads = {"t1", "t2"}
    LogNames = {"a"}
    LogCapacity = 1
    RecentCapacity = 2
    QueryLimit = 1
    MaxFileStates = 1
    MaxFiles = 2
    RecordsPerFile = 1
    RetentionDays = 1
    LastDay = 2
    MaxRecords = 3
    CurrentVersion = 6
    MaximumSuffix = 1
    MaximumCrashes = 1
    MaximumRestores = 1
INVARIANTS
    AlarmsFollowJudgement
    ClocksAreJudged
    FailureAlarmIsTrue
    CursorMissesNothing
    RowsSurvive
\* Monitors, lanes, the logger and the service end for good.
CHECK_DEADLOCK FALSE
