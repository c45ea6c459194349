---------------------------- MODULE HealthMonitor ----------------------------
(* The health monitor (monitoring.cpp): its thread asks every source for its  *)
(* metrics, keeps the last good ones, judges them against the thresholds and  *)
(* raises or clears alarms only where its judgement changed; the storage      *)
(* maintenance thread (service main.cpp) reports on the volume of the events. *)
(* A metric is the level it has against the thresholds.                       *)
EXTENDS AlarmRegistry

CONSTANTS
    MetricSources,   \* the sources in the order they are asked
    Gauges,          \* metrics with one threshold: cpu and memory
    Disks,           \* volumes with three thresholds
    ProvidedBy       \* the source that reports a gauge or a disk

HealthThreads == {"health", "storage"}

\* Processor and memory are gauges; "storage" is how the maintenance thread signs.
ASSUME HealthAssumption ==
    /\ Gauges # {} /\ Gauges \intersect Disks = {} /\ "storage" \notin Disks
    /\ MetricSources \in Seq(ToSet(MetricSources))
    /\ DOMAIN ProvidedBy = Gauges \union Disks
    /\ HealthThreads \subseteq Threads

GaugeLevels == {"absent", "normal", "high"}
DiskLevels == {"absent", "normal", "warning", "critical", "stop"}
Levels(metric) == IF metric \in Gauges THEN GaugeLevels ELSE DiskLevels
Metrics == Gauges \union Disks

VARIABLES
    levels,          \* the metrics kept, as levels
    failedSources,   \* failed_sources_
    high,            \* cpu_alarm_active_, memory_alarm_active_
    diskStates,      \* disk_states_
    unasked,         \* sources not yet asked in this round
    monitor,         \* "sampling", "judging", "waiting" or "ended"
    monitorStop,     \* request_stop was called
    lastFailed,      \* sources whose last answer was not good
    judged,          \* the levels the last judgement goes by
    unjudged         \* the metrics it has not come to yet

healthVars == <<levels, failedSources, high, diskStates, unasked, monitor,
    monitorStop, lastFailed, judged, unjudged>>

SampleFailed(source) == <<"SYS_MONITORING_SAMPLE_FAILED", source>>
UsageHigh(gauge) == <<"SYS_USAGE_HIGH", gauge>>
DiskCodes == [warning |-> "STORAGE_LOW_SPACE", critical |-> "STORAGE_CRITICAL_SPACE",
              stop |-> "STORAGE_STOP_SAVE"]
DiskAlarm(level, disk) == <<DiskCodes[level], disk>>
LowSpace == <<"STORAGE_LOW_SPACE", "storage">>
MaintenanceFailed == <<"STORAGE_MAINTENANCE_FAILED", "storage">>

HealthAlarms ==
    {SampleFailed(s) : s \in ToSet(MetricSources)} \union {UsageHigh(g) : g \in Gauges}
    \union {DiskAlarm(l, d) : l \in DOMAIN DiskCodes, d \in Disks}

\* The answers of one source: nothing, or a level for each of its metrics.
Provided(source) == {m \in Metrics : ProvidedBy[m] = source}
Answered(source, new) ==
    \A m \in Metrics : IF m \in Provided(source) THEN new[m] \in Levels(m) ELSE new[m] = levels[m]

SampleGood(source) ==
    /\ \E new \in [Metrics -> GaugeLevels \union DiskLevels] :
         Answered(source, new) /\ levels' = new
    /\ failedSources' = failedSources \ {source}
    /\ lastFailed' = lastFailed \ {source}
    /\ Plan("health", If(source \in failedSources, Clear(SampleFailed(source))))

\* The old metrics are kept.
SampleBad(source) ==
    /\ failedSources' = failedSources \union {source}
    /\ lastFailed' = lastFailed \union {source}
    /\ Plan("health", If(source \notin failedSources, Raise(SampleFailed(source))))
    /\ UNCHANGED levels

Sample ==
    /\ monitor = "sampling" /\ unasked # <<>> /\ ~monitorStop
    /\ SampleGood(Head(unasked)) \/ SampleBad(Head(unasked))
    /\ unasked' = Tail(unasked)
    /\ UNCHANGED <<high, diskStates, monitor, monitorStop, judged, unjudged>>

\* A round that was not stopped is judged: the metrics as they are now, against
\* the thresholds as they are now.
BeginJudging ==
    /\ monitor = "sampling" /\ unasked = <<>> /\ Idle("health")
    /\ monitor' = "judging" /\ judged' = levels /\ unjudged' = Metrics
    /\ UNCHANGED <<levels, failedSources, high, diskStates, unasked, monitorStop, lastFailed>>
    /\ UNCHANGED registryVars

IsHigh(gauge) == judged[gauge] = "high"
GaugeCalls(gauge) ==
    If(IsHigh(gauge) /\ ~high[gauge], Raise(UsageHigh(gauge)))
    \o If(~IsHigh(gauge) /\ high[gauge], Clear(UsageHigh(gauge)))

DiskStateOf(disk) == IF judged[disk] = "absent" THEN "unavailable" ELSE judged[disk]

\* A plausible slip: a volume that recovers from a worse level to a better one.
DiskCallsOfNewLevel(disk) ==
    IF DiskStateOf(disk) = diskStates[disk] THEN <<>>
    ELSE IF judged[disk] \in DOMAIN DiskCodes THEN <<Raise(DiskAlarm(judged[disk], disk))>>
    ELSE <<Clear(DiskAlarm("warning", disk)), Clear(DiskAlarm("critical", disk)),
           Clear(DiskAlarm("stop", disk))>>

\* A volume that changed its state loses its old alarm and gets the new one.
DiskCalls(disk) ==
    IF DiskStateOf(disk) = diskStates[disk] THEN <<>>
    ELSE <<Clear(DiskAlarm("warning", disk)), Clear(DiskAlarm("critical", disk)),
           Clear(DiskAlarm("stop", disk))>>
         \o If(judged[disk] \in DOMAIN DiskCodes,
               Raise(DiskAlarm(judged[disk], disk)))

\* One metric after the other, the gauges first.
Judge(metric) ==
    /\ monitor = "judging"
    /\ metric \in Gauges \/ unjudged \subseteq Disks
    /\ IF metric \in Gauges
       THEN /\ Plan("health", GaugeCalls(metric))
            /\ high' = [high EXCEPT ![metric] = IsHigh(metric)]
            /\ UNCHANGED diskStates
       ELSE /\ Plan("health", DiskCalls(metric))
            /\ diskStates' = [diskStates EXCEPT ![metric] = DiskStateOf(metric)]
            /\ UNCHANGED high
    /\ unjudged' = unjudged \ {metric}
    /\ monitor' = IF unjudged' = {} THEN "waiting" ELSE "judging"
    /\ UNCHANGED <<levels, failedSources, unasked, monitorStop, lastFailed, judged>>

\* The interval is over, or the thresholds were changed.
StartRound ==
    /\ monitor = "waiting" /\ Idle("health") /\ ~monitorStop
    /\ monitor' = "sampling" /\ unasked' = MetricSources
    /\ UNCHANGED <<levels, failedSources, high, diskStates, monitorStop, lastFailed, judged, unjudged>>
    /\ UNCHANGED registryVars

\* New thresholds: what is kept is judged by them from now on.
Reconfigure ==
    /\ \E new \in [Metrics -> GaugeLevels \union DiskLevels] :
         /\ \A m \in Metrics : new[m] \in Levels(m) /\ (new[m] = "absent" <=> levels[m] = "absent")
         /\ levels' = new
    /\ UNCHANGED <<failedSources, high, diskStates, unasked, monitor, monitorStop, lastFailed, judged,
                   unjudged>>
    /\ UNCHANGED registryVars

RequestStop ==
    /\ ~monitorStop /\ monitorStop' = TRUE
    /\ UNCHANGED <<levels, failedSources, high, diskStates, unasked, monitor, lastFailed, judged, unjudged>>
    /\ UNCHANGED registryVars

\* A round that is stopped before all sources were asked judges nothing.
EndMonitor ==
    /\ monitorStop /\ Idle("health")
    /\ monitor = "waiting" \/ (monitor = "sampling" /\ unasked # <<>>)
    /\ monitor' = "ended"
    /\ UNCHANGED <<levels, failedSources, high, diskStates, unasked, monitorStop, lastFailed, judged,
                   unjudged>>
    /\ UNCHANGED registryVars

\* One run of the storage maintenance thread and what it found.
MaintenanceRun ==
    /\ \/ Plan("storage", <<Raise(MaintenanceFailed)>>)
       \/ Plan("storage", <<Raise(LowSpace)>>)
       \/ Plan("storage", <<Clear(LowSpace)>>)
    /\ UNCHANGED healthVars

HealthInit ==
    /\ levels = [m \in Metrics |-> "absent"] /\ judged = levels
    /\ failedSources = {} /\ lastFailed = {}
    /\ high = [g \in Gauges |-> FALSE] /\ diskStates = [d \in Disks |-> "normal"]
    /\ unasked = MetricSources /\ unjudged = {} /\ monitor = "sampling" /\ monitorStop = FALSE

HealthNext ==
    \/ Sample \/ BeginJudging \/ StartRound \/ Reconfigure \/ RequestStop \/ EndMonitor
    \/ MaintenanceRun
    \/ \E metric \in unjudged : Judge(metric)

HealthCall == (\E t \in HealthThreads : Call(t)) /\ UNCHANGED healthVars

HealthOthers == OthersCall(HealthAlarms) /\ UNCHANGED healthVars

HealthSpec ==
    /\ RegistryInit /\ HealthInit
    /\ [][HealthNext \/ HealthCall \/ HealthOthers]_<<healthVars, registryVars>>

--------------------------------------------------------------------------------

HealthTypeOK ==
    /\ \A m \in Metrics : levels[m] \in Levels(m) /\ judged[m] \in Levels(m)
    /\ failedSources \subseteq ToSet(MetricSources) /\ lastFailed \subseteq ToSet(MetricSources)
    /\ high \in [Gauges -> BOOLEAN] /\ diskStates \in [Disks -> (DiskLevels \ {"absent"}) \union {"unavailable"}]
    /\ monitor \in {"sampling", "judging", "waiting", "ended"} /\ monitorStop \in BOOLEAN
    /\ unjudged \subseteq Metrics

\* What the metrics and the answers of the sources call for.
CalledFor ==
    {SampleFailed(s) : s \in lastFailed}
    \union {UsageHigh(g) : g \in {x \in Gauges : judged[x] = "high"}}
    \union {DiskAlarm(judged[d], d) : d \in {x \in Disks : judged[x] \in DOMAIN DiskCodes}}

\* The monitor only speaks when its judgement changes, and several threads fill
\* the registry: whenever it has judged every metric and made its calls,
\* exactly the alarms its last judgement calls for are active, except those a
\* full registry refused.
AlarmsFollowJudgement ==
    unjudged = {} /\ Idle("health") =>
        /\ raised \intersect HealthAlarms \subseteq CalledFor
        /\ ~overflowed => CalledFor \subseteq raised

\* An alarm the registry had no room for is raised once there is room: not so,
\* the monitor remembers the judgement and not the answer of the registry.
RefusedIsRaisedLater ==
    Idle("health") /\ monitor = "waiting" /\ Cardinality(raised) < ActiveCapacity
        => CalledFor \subseteq raised
================================================================================
