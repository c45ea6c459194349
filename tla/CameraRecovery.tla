---------------------------- MODULE CameraRecovery -----------------------------
(***************************************************************************)
(* RecoveringCameraSession: a thread that opens the camera, streams from   *)
(* it and, when something fails, waits and tries again, with the state     *)
(* machine of the camera and its reconnect controller in                   *)
(* CameraSessionController.  A stop comes from another thread and takes    *)
(* three steps; it shares only the controller's lock with the session.     *)
(* Delays are left to the scheduler: a wait ends at any time.  The library *)
(* offers this session, but the service does not use it: its cameras are   *)
(* connected by CameraControl.                                             *)
(***************************************************************************)
EXTENDS Naturals

CONSTANT MaximumRecoveries  \* ReconnectPolicy::maximum_attempts

ASSUME RecoveryAssumption == MaximumRecoveries \in Nat \ {0}

VARIABLES
    cameraState,  \* of CameraSessionController
    reconnect,    \* its ReconnectController: attempts, a scheduled delay, and
                  \* whether the wait for it was told to end
    told,         \* the controller's stop_requested_
    handle,       \* the device of this round
    thread,       \* the session's thread: its next step and the error in hand
    begun,        \* connection_attempts_ > 0
    stopping,     \* stop_token and the closed pool and queue
    stopper       \* the thread in request_stop

recoveryVars == <<cameraState, reconnect, told, handle, thread, begun, stopping, stopper>>

CameraStates == {"disabled", "disconnected", "connecting", "connected", "starting",
                 "streaming", "recovering", "faulted"}

(* is_camera_transition_allowed *)
Successors == [s \in CameraStates |->
    CASE s = "disabled"     -> {"disconnected"}
      [] s = "disconnected" -> {"disabled", "connecting"}
      [] s = "connecting"   -> {"disabled", "disconnected", "connected", "recovering", "faulted"}
      [] s = "connected"    -> {"disabled", "disconnected", "starting", "recovering", "faulted"}
      [] s = "starting"     -> {"disabled", "disconnected", "streaming", "recovering", "faulted"}
      [] s = "streaming"    -> {"disabled", "disconnected", "recovering", "faulted"}
      [] s = "recovering"   -> {"disabled", "disconnected", "connecting", "faulted"}
      [] s = "faulted"      -> {"disabled", "disconnected"}]

Allowed(target) == target \in Successors[cameraState]

FreshReconnect == [attempts |-> 0, scheduled |-> FALSE, cancelled |-> FALSE]

Cancelled == [reconnect EXCEPT !.scheduled = FALSE, !.cancelled = TRUE]

At(step) == thread.at = step

Goto(step) == thread' = [at |-> step, retryable |-> FALSE]

(* recover_from: the error is handled next. *)
FailWith == \E retryable \in BOOLEAN : thread' = [at |-> "failed", retryable |-> retryable]

(* An accepted transition of apply_transition_locked. *)
Enter(target) ==
    /\ cameraState' = target
    /\ reconnect' = CASE target = "streaming" -> FreshReconnect
                      [] target = "disconnected" /\ cameraState = "faulted" -> FreshReconnect
                      [] target = "disconnected" /\ cameraState # "faulted" -> Cancelled
                      [] OTHER -> reconnect
    /\ told' = (told /\ target \notin {"streaming", "connecting"})

--------------------------------------------------------------------------------
(* transition_to between two calls of the device; a refusal ends the session. *)
Advance(step, target, next) ==
    /\ At(step)
    /\ IF Allowed(target)
       THEN Enter(target) /\ Goto(next)
       ELSE UNCHANGED <<cameraState, reconnect, told>> /\ Goto("end")

LeaveDisconnected ==
    /\ Advance("begin", "connecting", "loop")
    /\ UNCHANGED <<handle, begun, stopping, stopper>>

Loop ==
    /\ At("loop")
    /\ IF stopping.token THEN Goto("end") /\ UNCHANGED begun
                         ELSE Goto("open") /\ begun' = TRUE
    /\ UNCHANGED <<cameraState, reconnect, told, handle, stopping, stopper>>

(* create_device and connect *)
Open ==
    /\ At("open")
    /\ \/ handle' = "connected" /\ Goto("connected")
       \/ handle' = "none" /\ FailWith
    /\ UNCHANGED <<cameraState, reconnect, told, begun, stopping, stopper>>

SayConnected ==
    /\ Advance("connected", "connected", "starting")
    /\ handle' = IF Allowed("connected") THEN handle ELSE "none"
    /\ UNCHANGED <<begun, stopping, stopper>>

SayStarting ==
    /\ Advance("starting", "starting", "startStream")
    /\ handle' = IF Allowed("starting") THEN handle ELSE "none"
    /\ UNCHANGED <<begun, stopping, stopper>>

StartStream ==
    /\ At("startStream")
    /\ \/ handle' = "acquiring" /\ Goto("streaming")
       \/ handle' = "none" /\ FailWith
    /\ UNCHANGED <<cameraState, reconnect, told, begun, stopping, stopper>>

SayStreaming ==
    /\ Advance("streaming", "streaming", "capture")
    /\ handle' = IF Allowed("streaming") THEN handle ELSE "none"
    /\ UNCHANGED <<begun, stopping, stopper>>

(* The acquisition worker ends with an error, or because of the stop; then *)
(* stream and device are stopped whatever they answer.                     *)
StreamEnds ==
    /\ At("capture")
    /\ handle' = "none"
    /\ IF stopping.token THEN Goto("end") ELSE FailWith
    /\ UNCHANGED <<cameraState, reconnect, told, begun, stopping, stopper>>

(* A call of the device throws: run() handles the failure and ends. *)
Throw ==
    /\ thread.at \in {"open", "startStream", "capture"}
    /\ handle' = "none"
    /\ thread' = [at |-> "thrown", retryable |-> TRUE]
    /\ UNCHANGED <<cameraState, reconnect, told, begun, stopping, stopper>>

(* handle_failure: back to recovering while attempts are left, else faulted. *)
Retries == thread.retryable /\ ~told

MaySchedule == reconnect.scheduled \/ reconnect.attempts < MaximumRecoveries

Scheduled ==
    IF reconnect.scheduled THEN reconnect
    ELSE [attempts |-> reconnect.attempts + 1, scheduled |-> TRUE, cancelled |-> FALSE]

FailureTarget ==
    IF Retries /\ (MaySchedule \/ ~Allowed("recovering")) THEN "recovering" ELSE "faulted"

Handle ==
    /\ thread.at \in {"failed", "thrown"}
    /\ IF Allowed(FailureTarget)
       THEN /\ cameraState' = FailureTarget
            /\ reconnect' = IF FailureTarget = "recovering" THEN Scheduled ELSE reconnect
       ELSE UNCHANGED <<cameraState, reconnect>>
    /\ Goto(IF At("failed") /\ Allowed(FailureTarget) THEN "judge" ELSE "end")
    /\ UNCHANGED <<told, handle, begun, stopping, stopper>>

(* recover_from looks at the state again before it waits. *)
Judge ==
    /\ At("judge")
    /\ Goto(IF cameraState = "recovering" THEN "wait" ELSE "end")
    /\ UNCHANGED <<cameraState, reconnect, told, handle, begun, stopping, stopper>>

(* wait_for_scheduled: the delay elapsed and nobody cancelled the wait. *)
WaitReady == reconnect.scheduled /\ ~reconnect.cancelled /\ ~stopping.token

Wait ==
    /\ At("wait")
    /\ IF WaitReady
       THEN reconnect' = [reconnect EXCEPT !.scheduled = FALSE] /\ Goto("retry")
       ELSE UNCHANGED reconnect /\ Goto("end")
    /\ UNCHANGED <<cameraState, told, handle, begun, stopping, stopper>>

(* A retry that trusts the wait it has just ended. *)
MayRetryOnceReady == ~At("completed")

(* wait_for_retry takes the controller's lock only after the wait. *)
MayRetry == ~told /\ cameraState = "recovering"

Retry ==
    /\ At("retry")
    /\ IF MayRetry THEN Enter("connecting") /\ Goto("loop")
                   ELSE UNCHANGED <<cameraState, reconnect, told>> /\ Goto("end")
    /\ UNCHANGED <<handle, begun, stopping, stopper>>

(* finish *)
End ==
    /\ At("end")
    /\ Goto("completed")
    /\ stopping' = [stopping EXCEPT !.closed = TRUE]
    /\ UNCHANGED <<cameraState, reconnect, told, handle, begun, stopper>>

--------------------------------------------------------------------------------
(* request_stop: the tokens, then the pool and the queue, then the controller. *)
AskThread ==
    /\ stopper = "idle"
    /\ IF At("completed")
       THEN stopper' = "returned" /\ UNCHANGED stopping
       ELSE stopper' = "close" /\ stopping' = [stopping EXCEPT !.token = TRUE]
    /\ UNCHANGED <<cameraState, reconnect, told, handle, thread, begun>>

CloseQueue ==
    /\ stopper = "close"
    /\ stopper' = "controller"
    /\ stopping' = [stopping EXCEPT !.closed = TRUE]
    /\ UNCHANGED <<cameraState, reconnect, told, handle, thread, begun>>

(* CameraSessionController::request_stop *)
AskController ==
    /\ stopper = "controller"
    /\ stopper' = "returned"
    /\ told' = TRUE
    /\ cameraState' = IF Allowed("disconnected") THEN "disconnected" ELSE cameraState
    /\ reconnect' = IF cameraState = "faulted" THEN FreshReconnect ELSE Cancelled
    /\ UNCHANGED <<handle, thread, begun, stopping>>

RecoveryInit ==
    /\ cameraState = "disconnected"
    /\ reconnect = FreshReconnect
    /\ told = FALSE
    /\ handle = "none"
    /\ thread = [at |-> "begin", retryable |-> FALSE]
    /\ begun = FALSE
    /\ stopping = [token |-> FALSE, closed |-> FALSE]
    /\ stopper = "idle"

RecoveryNext ==
    \/ LeaveDisconnected \/ Loop \/ Open \/ SayConnected \/ SayStarting \/ StartStream \/ SayStreaming
    \/ StreamEnds \/ Throw \/ Handle \/ Judge \/ Wait \/ Retry \/ End
    \/ AskThread \/ CloseQueue \/ AskController

RecoverySpec == RecoveryInit /\ [][RecoveryNext]_recoveryVars

--------------------------------------------------------------------------------
RecoveryTypeOK ==
    /\ cameraState \in CameraStates
    /\ reconnect \in [attempts : 0 .. MaximumRecoveries, scheduled : BOOLEAN, cancelled : BOOLEAN]
    /\ told \in BOOLEAN /\ begun \in BOOLEAN
    /\ handle \in {"none", "connected", "acquiring"}
    /\ thread.retryable \in BOOLEAN
    /\ stopping \in [token : BOOLEAN, closed : BOOLEAN]
    /\ stopper \in {"idle", "close", "controller", "returned"}

(* Once request_stop has returned, the session's thread - wherever the stop *)
(* caught it: in a call of the device, before a transition, in a wait or    *)
(* just past one - takes the camera's state nowhere any more.  The one      *)
(* exception is a stop that comes before the thread's first transition.     *)
StopIsFinal ==
    [][stopper = "returned" /\ cameraState' # cameraState => At("begin")]_recoveryVars

(* An ended session's state says so.  It does not hold: a session stopped   *)
(* before its first transition ends Connecting, and one whose device throws *)
(* ends Recovering with a retry scheduled that nobody waits for.            *)
EndsAtRest ==
    At("completed") /\ stopper \in {"idle", "returned"}
        => cameraState \in {"disconnected", "faulted"}
=============================================================================
