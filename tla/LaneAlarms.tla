------------------------------- MODULE LaneAlarms -------------------------------
(* One camera's algorithm lane as its alarms tell it: detector failures in a     *)
(* row, missed processing slots counted in windows, degradation to manual        *)
(* triggers, and reconfigurations that replace the lane (event_runtime.cpp).     *)
(*                                                                               *)
(* The lane's worker, the thread that submits frames and the one that            *)
(* reconfigures change the lane under its lock and call the alarm registry       *)
(* after they let it go, so the calls of one may overtake those of another.      *)
(* What the lane detects is in Detection, the order of results in                *)
(* ResultOrdering.                                                               *)
EXTENDS AlarmRegistry

CONSTANTS
    FailureLimit,    \* consecutive_failure_limit
    BacklogLimit,    \* consecutive_backlog_limit
    DegradeWindows,  \* backlog_degrade_window_limit
    RecoveryWindows  \* backlog_recovery_window_limit

ASSUME LaneAlarmsAssumption ==
    /\ FailureLimit \in Nat \ {0} /\ BacklogLimit \in Nat \ {0}
    /\ DegradeWindows \in Nat \ {0} /\ RecoveryWindows \in Nat \ {0}

VARIABLES
    lane,        \* the camera's lane in the current pipeline
    laneWorker,  \* its worker between two frames, and in the two sections it locks
    accepting,   \* EventRuntimeImpl::accepting
    swapping     \* a reconfiguration drains the old threads

laneVars == <<lane, laneWorker, accepting, swapping>>

ProcessFailed == <<"ALGORITHM_PROCESS_FAILED", "camera">>
QueueBacklog == <<"ALGORITHM_QUEUE_BACKLOG", "camera">>
LaneDegraded == <<"ALGORITHM_DEGRADED", "camera">>
LaneAlarmCodes == {ProcessFailed, QueueBacklog, LaneDegraded}
LaneThreads == {"lane", "frames", "reconfigure"}

ASSUME LaneThreadsAssumption == LaneThreads \subseteq Threads

UpTo(limit, n) == IF n > limit THEN limit ELSE n

\* Counters stop at their limit: beyond it nothing more is decided by them.
LaneStates ==
    [configured : BOOLEAN, slot : BOOLEAN, failures : 0..FailureLimit,
     skipped : 0..BacklogLimit, bad : 0..DegradeWindows, healthy : 0..RecoveryWindows,
     backlog : BOOLEAN, degraded : BOOLEAN]

NewLane(configured, backlog) ==
    [configured |-> configured, slot |-> FALSE, failures |-> 0, skipped |-> 0,
     bad |-> 0, healthy |-> 0, backlog |-> backlog, degraded |-> FALSE]

WorkerIdle == [state |-> "idle", missed |-> 0, report |-> FALSE]

-----------------------------------------------------------------------------
(* The worker *)

StartFrame ==
    /\ laneWorker.state = "idle" /\ Idle("lane") /\ lane.slot
    /\ laneWorker' = [laneWorker EXCEPT !.state = "detecting"]
    /\ lane' = [lane EXCEPT !.slot = FALSE]
    /\ UNCHANGED <<accepting, swapping, registryVars>>

FailureCalls(failures) == If(failures = FailureLimit, Raise(ProcessFailed))
SuccessCalls == If(lane.failures = FailureLimit, Clear(ProcessFailed))

\* Delivering the result may find the queue full, which degrades the lane at once.
Detect(failed, missed, refused) ==
    /\ laneWorker.state = "detecting" /\ ~lane.degraded
    /\ LET failures == IF failed THEN UpTo(FailureLimit, lane.failures + 1) ELSE 0
       IN  /\ lane' = [lane EXCEPT !.failures = failures, !.degraded = refused]
           /\ Plan("lane", IF failed THEN FailureCalls(failures) ELSE SuccessCalls)
    /\ laneWorker' = [state |-> "counting", missed |-> missed, report |-> refused]
    /\ UNCHANGED <<accepting, swapping>>

\* A manual trigger, and every frame of a degraded lane, passes without detection.
PassThrough(refused) ==
    /\ laneWorker.state = "detecting"
    /\ lane' = [lane EXCEPT !.degraded = @ \/ refused]
    /\ laneWorker' = [state |-> "counting", missed |-> 0, report |-> refused /\ ~lane.degraded]
    /\ UNCHANGED <<accepting, swapping, registryVars>>

Missed(l, missed) ==
    LET skipped == UpTo(BacklogLimit, l.skipped + missed)
        limited == missed > 0 /\ skipped = BacklogLimit /\ DegradeWindows = 1
    IN  [l EXCEPT !.skipped = skipped,
                  !.backlog = @ \/ missed > 0,
                  !.bad = IF limited THEN 1 ELSE @,
                  !.degraded = @ \/ limited]

Count ==
    /\ laneWorker.state = "counting"
    /\ lane' = Missed(lane, laneWorker.missed)
    /\ laneWorker' = WorkerIdle
    /\ Plan("lane", If(lane'.backlog /\ ~lane.backlog, Raise(QueueBacklog))
                    \o If(laneWorker.report \/ lane'.degraded # lane.degraded, Raise(LaneDegraded)))
    /\ UNCHANGED <<accepting, swapping>>

-----------------------------------------------------------------------------
(* The thread that submits frames *)

\* One window of the backlog ends.
NextWindow(l) ==
    LET bad == IF l.skipped = BacklogLimit THEN UpTo(DegradeWindows, l.bad + 1) ELSE 0
        healthy == IF l.skipped = 0 /\ ~l.slot THEN UpTo(RecoveryWindows, l.healthy + 1) ELSE 0
    IN  [l EXCEPT !.bad = bad, !.healthy = healthy, !.skipped = 0,
                  !.degraded = @ \/ bad = DegradeWindows,
                  !.backlog = @ /\ healthy < RecoveryWindows]

Windows(l, elapsed) ==
    LET after[n \in 0..elapsed] == IF n = 0 THEN l ELSE NextWindow(after[n - 1])
    IN  after[elapsed]

SubmitFrame(elapsed) ==
    /\ accepting /\ lane.configured
    /\ LET l == Windows(lane, elapsed)
       IN  /\ lane' = [lane EXCEPT !.slot = TRUE, !.skipped = l.skipped, !.bad = l.bad,
                                   !.healthy = l.healthy, !.degraded = l.degraded,
                                   !.backlog = l.backlog]
           /\ Plan("frames", If(lane.backlog /\ ~l.backlog, Clear(QueueBacklog))
                             \o If(l.degraded /\ ~lane.degraded, Raise(LaneDegraded)))
    /\ UNCHANGED <<laneWorker, accepting, swapping>>

-----------------------------------------------------------------------------
(* The thread that reconfigures *)

StartSwap ==
    /\ accepting /\ Idle("reconfigure")
    /\ accepting' = FALSE /\ swapping' = TRUE
    /\ UNCHANGED <<lane, laneWorker, registryVars>>

Drained == ~lane.slot /\ laneWorker = WorkerIdle /\ Idle("lane")

RecoveredNever == <<>>
Recovered == If(lane.failures = FailureLimit, Clear(ProcessFailed))

\* The new pipeline has a lane for the camera or not; the backlog goes over.
Swap(configured) ==
    /\ swapping /\ Drained
    /\ lane' = NewLane(configured, configured /\ lane.configured /\ lane.backlog)
    /\ Plan("reconfigure", If(lane.backlog /\ ~configured, Clear(QueueBacklog)) \o Recovered)
    /\ accepting' = TRUE /\ swapping' = FALSE
    /\ UNCHANGED laneWorker

\* The candidates of the new pipeline refuse what the old ones hand over: the
\* threads have ended and the runtime accepts no frame any more.
SwapFails ==
    /\ swapping /\ Drained
    /\ swapping' = FALSE
    /\ UNCHANGED <<lane, laneWorker, accepting, registryVars>>

LaneInit ==
    /\ lane = NewLane(TRUE, FALSE)
    /\ laneWorker = WorkerIdle
    /\ accepting = TRUE
    /\ swapping = FALSE

LaneNext ==
    \/ StartFrame \/ Count
    \/ \E refused \in BOOLEAN : PassThrough(refused)
    \/ \E failed, refused \in BOOLEAN, missed \in 0..BacklogLimit : Detect(failed, missed, refused)
    \/ \E elapsed \in 0..(RecoveryWindows + 1) : SubmitFrame(elapsed)
    \/ StartSwap \/ SwapFails
    \/ \E configured \in BOOLEAN : Swap(configured)

LaneCall == (\E t \in LaneThreads : Call(t)) /\ UNCHANGED laneVars

LaneSpec == RegistryInit /\ LaneInit /\ [][LaneNext \/ LaneCall]_<<laneVars, registryVars>>

-----------------------------------------------------------------------------
LaneTypeOK ==
    /\ lane \in LaneStates
    /\ laneWorker \in [state : {"idle", "detecting", "counting"},
                       missed : 0..BacklogLimit, report : BOOLEAN]
    /\ accepting \in BOOLEAN /\ swapping \in BOOLEAN

\* Between the calls of its threads no camera shows the alarm of a detector that
\* keeps failing unless the detector of its present lane does: the first success
\* clears it, and so does a reconfiguration that replaces or removes the lane.
FailureAlarmIsTrue ==
    (\A t \in LaneThreads : Idle(t)) /\ ProcessFailed \in raised => lane.failures = FailureLimit

\* Not properties of the code: a degradation alarm ends with the degradation,
\* and the backlog alarm tells the backlog.
DegradedAlarmEnds ==
    (\A t \in LaneThreads : Idle(t)) /\ LaneDegraded \in raised => lane.degraded

BacklogAlarmIsTrue ==
    (\A t \in LaneThreads : Idle(t)) /\ QueueBacklog \in raised => lane.backlog
================================================================================
