------------------------------- MODULE TimeSync -------------------------------
(* Time synchronisation: the worker of TimeSyncRuntime (time_sync_runtime.cpp) *)
(* samples the system clock and the cameras' clocks, publishes a clock model   *)
(* for each, and lets TimeSyncAlarmMonitor (time_sync_monitor.cpp) raise and   *)
(* clear alarms about their quality; the lifecycle component                   *)
(* (time_sync_service.cpp) starts and stops both.  A model is its source, its  *)
(* state and the level of its error against the two thresholds.  The monitor's  *)
(* reconfigure is left out: nothing in the service calls it.                   *)
EXTENDS AlarmRegistry

CONSTANTS
    Cameras,             \* cameras with a clock
    WarningRounds,       \* rounds until an error is a warning
    AlarmRounds,         \* rounds until an error is an alarm
    RefreshCapacity      \* time_sync_control_capacity

TimeThreads == {"time", "lifecycle"}

ASSUME TimeSyncAssumption ==
    /\ WarningRounds \in Nat /\ AlarmRounds \in Nat /\ RefreshCapacity \in Nat
    /\ "time.system" \notin Cameras /\ TimeThreads \subseteq Threads

System == "time.system"
Entities == {System} \union Cameras
SystemSources == {"PTP_SOFTWARE", "NTP"}
Errors == {"fine", "warning", "alarm"}
Worse(a, b) == IF "alarm" \in {a, b} THEN "alarm" ELSE IF "warning" \in {a, b} THEN "warning" ELSE "fine"

VARIABLES
    syncRuntime,         \* state of the runtime
    worker,              \* where its thread is
    models,              \* the published models
    jumped,              \* jump_detected
    refreshes,           \* pending_refresh_requests
    firstSample,         \* first_sample_complete
    clocks,              \* per entity, what the alarm monitor remembers
    unheard,             \* clocks that who holds the monitor's lock has still to come to
    component            \* where the lifecycle component is

timeVars == <<syncRuntime, worker, models, jumped, refreshes, firstSample, clocks, unheard, component>>

Model(source, state, error) == [source |-> source, state |-> state, error |-> error]
NoModel == Model("UNKNOWN", "UNKNOWN", "fine")
\* The uncertainty of the receive clock is far beyond both thresholds.
ReceiveModel == Model("RECEIVE_CLOCK", "DEGRADED", "alarm")
\* A detected jump of the wall clock is never forgotten.
Degraded(model) == IF jumped' THEN Model(model.source, "DEGRADED", "alarm") ELSE model

\* Without a usable sample the receive clock stands in.
SystemModels ==
    {ReceiveModel} \union {Degraded(Model(s, q, e)) :
        s \in SystemSources, q \in {"SYNCED", "DEGRADED"}, e \in Errors}

\* A camera's clock is its own hardware's, or goes by the system's.
CameraModels(system) ==
    {ReceiveModel} \union {Degraded(Model("PTP_HARDWARE", "SYNCED", e)) : e \in Errors}
    \union {IF system.source \in SystemSources
              THEN Degraded(Model(system.source, system.state, Worse(e, system.error)))
              ELSE Degraded(Model("OFFSET_MODEL", "DEGRADED", e)) : e \in Errors}

NothingSeen == [known |-> FALSE, source |-> "UNKNOWN", warningFor |-> 0, alarmFor |-> 0,
                warning |-> FALSE, alarm |-> FALSE]

Warning(entity) == <<"TIME_SYNC_WARNING_THRESHOLD_EXCEEDED", entity>>
Alarm(entity) == <<"TIME_SYNC_ALARM_THRESHOLD_EXCEEDED", entity>>
SourceChanged(entity) == <<"TIME_SYNC_SOURCE_CHANGED", entity>>
TimeAlarms == {Warning(e) : e \in Entities} \union {Alarm(e) : e \in Entities}

\* clear_thresholds
ThresholdsCleared(entity) ==
    If(clocks[entity].warning, Clear(Warning(entity)))
    \o If(clocks[entity].alarm, Clear(Alarm(entity)))

\* Rounds an error has lasted, counted up to the bound that matters.
Lasting(holds, rounds, bound) ==
    IF ~holds THEN 0 ELSE IF rounds > bound THEN rounds ELSE rounds + 1

\* What the monitor remembers after a model whose error counts.
Observed(entity, model) ==
    LET old == clocks[entity]
        warningFor == Lasting(model.error # "fine", old.warningFor, WarningRounds)
        alarmFor == Lasting(model.error = "alarm", old.alarmFor, AlarmRounds)
        alarmDue == alarmFor > AlarmRounds
        warningDue == warningFor > WarningRounds
    IN  [known |-> TRUE, source |-> model.source,
         warningFor |-> warningFor, alarmFor |-> alarmFor, alarm |-> alarmDue,
         warning |-> ~alarmDue /\ model.error # "fine" /\ (old.warning \/ warningDue)]

\* A plausible slip: the warning is left when the alarm takes its place.
ChangesWithWarningLeft(entity, new) ==
    LET old == clocks[entity]
    IN  If(~old.alarm /\ new.alarm, Raise(Alarm(entity)))
        \o If(~old.warning /\ new.warning, Raise(Warning(entity)))
        \o If(new.warningFor = 0 /\ old.warning, Clear(Warning(entity)))
        \o If(old.alarm /\ ~new.alarm, Clear(Alarm(entity)))

\* The calls between the two: an alarm that ends is cleared before the warning
\* returns, and a warning an alarm replaces goes after the alarm came.
Changes(entity, new) ==
    LET old == clocks[entity]
    IN  If(old.alarm /\ ~new.alarm, Clear(Alarm(entity)))
        \o If(~old.alarm /\ new.alarm, Raise(Alarm(entity)))
        \o If(old.warning /\ ~new.warning, Clear(Warning(entity)))
        \o If(~old.warning /\ new.warning, Raise(Warning(entity)))

\* A change of source is an alarm raised and cleared at once.
HasNewSource(entity) == clocks[entity].known /\ clocks[entity].source # models[entity].source

ObserveCalls(entity) ==
    If(HasNewSource(entity), Raise(SourceChanged(entity)))
    \o If(HasNewSource(entity), Clear(SourceChanged(entity)))
    \o Changes(entity, Observed(entity, models[entity]))

\* One round: the clocks are read and sampled, and the models published.
SampleClocks ==
    /\ worker = "sampling"
    /\ jumped' \in {jumped, TRUE}
    /\ \E system \in SystemModels : \E cameras \in [Cameras -> UNION {CameraModels(m) : m \in SystemModels}] :
         /\ \A c \in Cameras : cameras[c] \in CameraModels(system)
         /\ models' = [e \in Entities |-> IF e = System THEN system ELSE cameras[e]]
    /\ worker' = "observing"
    /\ UNCHANGED <<syncRuntime, refreshes, firstSample, clocks, unheard, component, registryVars>>

\* Nobody is at work under the lock of the alarm monitor.
Unlocked == worker # "observed" /\ unheard = {} /\ Idle("time") /\ Idle("lifecycle")

\* The monitor is given the models, and its lock for as long as it looks at them.
BeginObserving ==
    /\ worker = "observing" /\ Unlocked
    /\ unheard' = Entities /\ worker' = "observed"
    /\ UNCHANGED <<syncRuntime, models, jumped, refreshes, firstSample, clocks, component, registryVars>>

\* One clock after the other, the system's first.
Observe(entity) ==
    /\ worker = "observed"
    /\ entity = System \/ System \notin unheard
    /\ Plan("time", ObserveCalls(entity))
    /\ clocks' = [clocks EXCEPT ![entity] = Observed(entity, models[entity])]
    /\ unheard' = unheard \ {entity}
    /\ UNCHANGED <<syncRuntime, worker, models, jumped, refreshes, firstSample, component>>

\* The lock is let go; nothing else waits for the rest of the round.
FinishRound ==
    /\ worker = "observed" /\ unheard = {} /\ Idle("time")
    /\ firstSample' = TRUE /\ worker' = "waiting"
    /\ UNCHANGED <<syncRuntime, models, jumped, refreshes, clocks, unheard, component, registryVars>>

StopAsked == syncRuntime = "stop requested"

\* The period is over or a refresh was asked for, which this round serves.
NextRound ==
    /\ worker = "waiting" /\ ~StopAsked
    /\ refreshes' = IF refreshes > 0 THEN refreshes - 1 ELSE 0
    /\ worker' = "sampling"
    /\ UNCHANGED <<syncRuntime, models, jumped, firstSample, clocks, unheard, component, registryVars>>

\* Stopped models claim nothing but the receive clock.
SyncWorkerEnds ==
    /\ worker \in {"waiting", "starting"} /\ StopAsked
    /\ models' = [e \in Entities |-> ReceiveModel]
    /\ worker' = "ended" /\ syncRuntime' = "stopped"
    /\ UNCHANGED <<jumped, refreshes, firstSample, clocks, unheard, component, registryVars>>

FirstRound ==
    /\ worker = "starting" /\ ~StopAsked
    /\ worker' = "sampling"
    /\ UNCHANGED <<syncRuntime, models, jumped, refreshes, firstSample, clocks, unheard, component, registryVars>>

\* An exception ends the worker.
FailWorker ==
    /\ worker = "sampling"
    /\ worker' = "ended" /\ syncRuntime' = "failed"
    /\ UNCHANGED <<models, jumped, refreshes, firstSample, clocks, unheard, component, registryVars>>

RequestRefresh ==
    /\ syncRuntime = "running" /\ worker # "ended" /\ refreshes < RefreshCapacity
    /\ refreshes' = refreshes + 1
    /\ UNCHANGED <<syncRuntime, worker, models, jumped, firstSample, clocks, unheard, component, registryVars>>

StartSync ==
    /\ component = "new"
    /\ syncRuntime' = "running" /\ worker' = "starting" /\ component' = "starting"
    /\ UNCHANGED <<models, jumped, refreshes, firstSample, clocks, unheard, registryVars>>

Started ==
    /\ component = "starting" /\ (firstSample \/ worker = "ended")
    /\ component' = IF syncRuntime = "failed" THEN "start failed" ELSE "started"
    /\ UNCHANGED <<syncRuntime, worker, models, jumped, refreshes, firstSample, clocks, unheard, registryVars>>

AskedToStop == IF syncRuntime = "running" THEN "stop requested" ELSE syncRuntime

\* The first sample does not come in time; start() asks the worker to stop.
StartTimesOut ==
    /\ component = "starting" /\ ~firstSample /\ worker # "ended"
    /\ syncRuntime' = AskedToStop /\ refreshes' = 0 /\ component' = "start failed"
    /\ UNCHANGED <<worker, models, jumped, firstSample, clocks, unheard, registryVars>>

StopSync ==
    /\ component \in {"new", "started", "start failed"}
    /\ syncRuntime' = AskedToStop /\ refreshes' = 0 /\ component' = "stopping"
    /\ UNCHANGED <<worker, models, jumped, firstSample, clocks, unheard, registryVars>>

\* The runtime was never started, or its worker has ended.
WorkerGone == component = "stopping" /\ (syncRuntime = "created" \/ worker = "ended")

\* The answer of the join, and the lock of the monitor for its stop().
BeginWithdrawing(answer) ==
    /\ Unlocked
    /\ unheard' = Entities
    /\ component' = answer
    /\ UNCHANGED <<models, jumped, refreshes, firstSample, clocks, worker, registryVars>>

Join ==
    /\ WorkerGone
    /\ syncRuntime' = IF syncRuntime = "created" THEN "stopped" ELSE syncRuntime
    /\ BeginWithdrawing(IF syncRuntime = "failed" THEN "failed" ELSE "joined")

\* The deadline passes; the alarms are withdrawn all the same.
SyncJoinTimesOut ==
    /\ component = "stopping" /\ ~WorkerGone
    /\ UNCHANGED syncRuntime
    /\ BeginWithdrawing("timed out")

\* The monitor withdraws its alarms of one clock after the other and forgets them.
Withdraw(entity) ==
    /\ worker # "observed"
    /\ Plan("lifecycle", ThresholdsCleared(entity))
    /\ clocks' = [clocks EXCEPT ![entity] = NothingSeen]
    /\ unheard' = unheard \ {entity}
    /\ UNCHANGED <<syncRuntime, worker, models, jumped, refreshes, firstSample, component>>

TimeInit ==
    /\ syncRuntime = "created" /\ worker = "none" /\ component = "new"
    /\ models = [e \in Entities |-> NoModel] /\ jumped = FALSE
    /\ refreshes = 0 /\ firstSample = FALSE
    /\ clocks = [e \in Entities |-> NothingSeen] /\ unheard = {}

TimeNext ==
    \/ SampleClocks \/ BeginObserving \/ FinishRound \/ NextRound \/ FirstRound \/ SyncWorkerEnds
    \/ FailWorker \/ RequestRefresh \/ StartSync \/ Started \/ StartTimesOut
    \/ StopSync \/ Join \/ SyncJoinTimesOut
    \/ \E entity \in unheard : Observe(entity) \/ Withdraw(entity)

TimeCall == (\E t \in TimeThreads : Call(t)) /\ UNCHANGED timeVars

TimeOthers ==
    /\ OthersCall(TimeAlarms \union {SourceChanged(e) : e \in Entities})
    /\ UNCHANGED timeVars

TimeSpec ==
    /\ RegistryInit /\ TimeInit
    /\ [][TimeNext \/ TimeCall \/ TimeOthers]_<<timeVars, registryVars>>

--------------------------------------------------------------------------------

TimeTypeOK ==
    /\ syncRuntime \in {"created", "running", "stop requested", "stopped", "failed"}
    /\ worker \in {"none", "starting", "sampling", "observing", "observed", "waiting", "ended"}
    /\ component \in {"new", "starting", "started", "start failed", "stopping", "joined", "failed", "timed out"}
    /\ refreshes \in 0..RefreshCapacity /\ unheard \subseteq Entities /\ jumped \in BOOLEAN /\ firstSample \in BOOLEAN

\* Between two calls of the monitor at most one of a clock's two alarms is
\* active, it is active when its error has lasted (unless the registry refused
\* it), and once the component has been joined nothing is claimed about any
\* clock: its alarms are gone and every published model is the receive clock's.
\* A worker that outlives the deadline raises nothing, unless alarms are due at
\* once.
ClocksAreJudged ==
    /\ unheard = {} /\ Idle("time") /\ Idle("lifecycle") => \A e \in Entities :
         /\ ~(Warning(e) \in raised /\ Alarm(e) \in raised)
         /\ Alarm(e) \in raised => clocks[e].alarmFor > AlarmRounds
         /\ Warning(e) \in raised => clocks[e].warningFor > WarningRounds
         /\ clocks[e].alarmFor > AlarmRounds /\ ~overflowed => Alarm(e) \in raised
         /\ clocks[e].warningFor > WarningRounds /\ ~overflowed
              => Warning(e) \in raised \/ Alarm(e) \in raised
    /\ unheard = {} /\ Idle("time") /\ Idle("lifecycle") =>
         /\ component \in {"joined", "failed"} => raised \intersect TimeAlarms = {}
         /\ component = "timed out" /\ WarningRounds > 0 /\ AlarmRounds > 0 =>
              raised \intersect TimeAlarms = {}
    /\ component = "joined" => \A e \in Entities : models[e] \in {NoModel, ReceiveModel}
================================================================================
