----------------------------- MODULE CameraControl -----------------------------
(***************************************************************************)
(* One camera: its control session, the adapter's device, the acquisition  *)
(* worker that reads frames into pooled buffers, the queue that drops its  *)
(* oldest frame and the forwarder that hands frames to the observers.      *)
(* CameraStartup connects and starts the camera; afterwards an operator's  *)
(* commands do, one at a time under the session's lock.  Worker and        *)
(* forwarder run beside a command, which waits for both before it touches  *)
(* the stream.  Every call of the vendor's library may fail.               *)
(*                                                                         *)
(* Parameters are nodes written one after the other; a configuration gives *)
(* every node its value.  Frames are their sequence numbers.               *)
(***************************************************************************)
EXTENDS Integers, Sequences, SequencesExt

CONSTANTS
    NodeCount,        \* parameter nodes of the device
    Values,           \* configurations of the camera
    Configured,       \* the one CameraStartup applies
    QueueCapacity,    \* of the acquisition queue
    PoolCapacity,     \* buffers of a frame pool
    RingCapacity,     \* frames the observers keep
    MaximumAttempts,  \* startup_retry_count + 1
    MaximumNumber,    \* bound: frames of one worker
    MaximumFailures   \* bound: failures of the device and of waiting for a worker

ASSUME CameraAssumption ==
    /\ NodeCount \in Nat \ {0} /\ Configured \in Values
    /\ QueueCapacity \in Nat \ {0} /\ QueueCapacity <= PoolCapacity
    /\ PoolCapacity \in Nat /\ RingCapacity \in Nat
    /\ MaximumAttempts \in Nat \ {0}
    /\ MaximumNumber \in Nat /\ MaximumFailures \in Nat

VARIABLES
    session,    \* what the control keeps: device, state, capabilities, actual
    device,     \* what the adapter and the camera keep: streaming, faulted, nodes
    worker,     \* the acquisition worker
    queue,      \* the acquisition queue
    forwarder,  \* the forwarding thread and the frame in its hand
    observed,   \* the observers: the newest frame and the buffers they keep,
                \* and the frame last seen on this connection
    command,    \* the command that holds the session
    phase,      \* of the service
    attempts,   \* of CameraStartup
    failures,
    crashed

cameraVars == <<session, device, worker, queue, forwarder, observed,
                command, phase, attempts, failures, crashed>>

Nodes == 1 .. NodeCount

Parameters == [Nodes -> Values]

Uniform(value) == [n \in Nodes |-> value]

States == {"disconnected", "connected", "acquiring"}

Operations == {"connect", "update", "start", "stop", "disconnect"}

NoCommand == [op |-> "none", step |-> "none", then |-> <<>>, target |-> Configured,
              resume |-> FALSE, joined |-> TRUE]

NoWorker == [state |-> "none", stop |-> FALSE, capturing |-> FALSE, number |-> 0]

FreshWorker == [NoWorker EXCEPT !.state = "running"]

NoFrame == 0

NoForwarder == [state |-> "none", frame |-> NoFrame]

Idle == command.op = "none"

Running(op, step) == ~crashed /\ command.op = op /\ command.step = step

\* The device fails, once more.
Failing == failures < MaximumFailures /\ failures' = failures + 1

Succeeding == UNCHANGED failures

-----------------------------------------------------------------------------
(* The end of a command *)

Begin(op, then, target) ==
    command' = [NoCommand EXCEPT !.op = op, !.step = "begin", !.then = then, !.target = target]

\* start_slot: connect, apply the configuration, start.
StartSlot == Begin("connect", <<"update", "start">>, Configured)

\* CameraStartup::start: the disconnection after a failure is over.
RetryStartup ==
    IF attempts < MaximumAttempts
    THEN attempts' = attempts + 1 /\ StartSlot /\ UNCHANGED phase
    ELSE phase' = "serving" /\ command' = NoCommand /\ UNCHANGED attempts

Succeed ==
    IF command.then # <<>>
    THEN Begin(Head(command.then), Tail(command.then), command.target) /\ UNCHANGED <<phase, attempts>>
    ELSE CASE phase = "starting" /\ command.op = "disconnect" -> RetryStartup
           [] phase = "starting" /\ command.op # "disconnect" ->
                phase' = "serving" /\ command' = NoCommand /\ UNCHANGED attempts
           [] phase = "stopping" ->
                phase' = "stopped" /\ command' = NoCommand /\ UNCHANGED attempts
           [] OTHER -> command' = NoCommand /\ UNCHANGED <<phase, attempts>>

Fail ==
    CASE phase = "starting" /\ command.op = "disconnect" -> RetryStartup
      [] phase = "starting" /\ command.op # "disconnect" ->
           Begin("disconnect", <<>>, Configured) /\ UNCHANGED <<phase, attempts>>
      [] phase = "stopping" -> phase' = "stopped" /\ command' = NoCommand /\ UNCHANGED attempts
      [] OTHER -> command' = NoCommand /\ UNCHANGED <<phase, attempts>>

Proceed(step) == command' = [command EXCEPT !.step = step] /\ UNCHANGED <<phase, attempts>>

-----------------------------------------------------------------------------
(* The stream: acquisition worker, queue, forwarder *)

deliveryVars == <<worker, queue, forwarder, observed>>

\* prepare_frame_delivery and start_frame_delivery: a pool, a queue, a worker
\* and a forwarder of their own; the frames kept so far are of an older pool.
DeliveryStarted ==
    /\ worker' = FreshWorker
    /\ queue' = [frames |-> <<>>, closed |-> FALSE]
    /\ forwarder' = [NoForwarder EXCEPT !.state = "running"]
    /\ observed' = [observed EXCEPT !.kept = 0]

DeliveryReset ==
    /\ worker' = NoWorker
    /\ queue' = [frames |-> <<>>, closed |-> TRUE]
    /\ forwarder' = NoForwarder

Present(flag) == IF flag THEN 1 ELSE 0

InUse == Len(queue.frames) + observed.kept + Present(worker.capturing)
         + Present(forwarder.frame # NoFrame)

\* AcquisitionWorker::run: a buffer is taken, then the device is read.
TakeBuffer ==
    /\ ~crashed /\ worker.state = "running" /\ ~worker.capturing /\ ~worker.stop
    /\ InUse < PoolCapacity
    /\ worker' = [worker EXCEPT !.capturing = TRUE]
    /\ UNCHANGED <<session, device, queue, forwarder, observed, command, phase, attempts, failures,
                   crashed>>

Ended(w) == [w EXCEPT !.state = "ended", !.capturing = FALSE]

SeenWithBuffer == worker.stop /\ InUse < PoolCapacity

\* The request to stop wakes the worker that waits for a buffer.
StopSeen == worker.stop

EndWorker ==
    /\ ~crashed /\ worker.state = "running" /\ ~worker.capturing
    /\ StopSeen
    /\ worker' = Ended(worker)
    /\ UNCHANGED <<session, device, queue, forwarder, observed, command, phase, attempts, failures,
                   crashed>>

\* AcquisitionQueue::push: the oldest frame makes room.
Enqueued(frames, number) ==
    Append(IF Len(frames) = QueueCapacity THEN Tail(frames) ELSE frames, number)

Capture ==
    /\ ~crashed /\ worker.capturing /\ device.streaming /\ worker.number < MaximumNumber
    /\ LET number == worker.number + 1 IN
       IF queue.closed
       THEN worker' = Ended([worker EXCEPT !.number = number]) /\ UNCHANGED queue
       ELSE /\ worker' = [worker EXCEPT !.number = number, !.capturing = FALSE]
            /\ queue' = [queue EXCEPT !.frames = Enqueued(@, number)]
    /\ UNCHANGED <<session, device, forwarder, observed, command, phase, attempts, failures, crashed>>

\* No frame in time: the buffer goes back, the worker goes on.
CaptureTimesOut ==
    /\ ~crashed /\ worker.capturing /\ device.streaming
    /\ worker' = [worker EXCEPT !.capturing = FALSE]
    /\ UNCHANGED <<session, device, queue, forwarder, observed, command, phase, attempts, failures,
                   crashed>>

\* The stream broke, or its format changed: the worker ends, the state stays.
CaptureFails ==
    /\ ~crashed /\ worker.capturing
    /\ IF device.streaming THEN Failing ELSE Succeeding
    /\ worker' = Ended(worker)
    /\ UNCHANGED <<session, device, queue, forwarder, observed, command, phase, attempts, crashed>>

Worker == TakeBuffer \/ EndWorker \/ Capture \/ CaptureTimesOut \/ CaptureFails

\* forward_frames
TakeQueued ==
    /\ ~crashed /\ forwarder.state = "running" /\ forwarder.frame = NoFrame
    /\ ~worker.stop /\ queue.frames # <<>>
    /\ forwarder' = [forwarder EXCEPT !.frame = Head(queue.frames)]
    /\ queue' = [queue EXCEPT !.frames = Tail(@)]
    /\ UNCHANGED <<session, device, worker, observed, command, phase, attempts, failures, crashed>>

\* The observers keep a frame they have no newer one than.
Observe ==
    /\ ~crashed /\ forwarder.frame # NoFrame
    /\ forwarder' = [forwarder EXCEPT !.frame = NoFrame]
    /\ observed' = [observed EXCEPT
            !.seen = forwarder.frame,
            !.last = Max({@, forwarder.frame}),
            !.kept = IF forwarder.frame > observed.last THEN Min({@ + 1, RingCapacity}) ELSE @]
    /\ UNCHANGED <<session, device, worker, queue, command, phase, attempts, failures, crashed>>

EndForwarder ==
    /\ ~crashed /\ forwarder.state = "running" /\ forwarder.frame = NoFrame
    /\ worker.stop \/ (queue.frames = <<>> /\ worker.state = "ended")
    /\ forwarder' = [forwarder EXCEPT !.state = "ended"]
    /\ UNCHANGED <<session, device, worker, queue, observed, command, phase, attempts, failures,
                   crashed>>

Forwarder == TakeQueued \/ Observe \/ EndForwarder

-----------------------------------------------------------------------------
(* Waiting for worker and forwarder: stop_frame_delivery *)

WaitsFor(op) == op \in {"update", "stop", "disconnect"}

\* The worker is told to stop and the queue closed.
HaltDelivery ==
    /\ ~crashed /\ command.step = "begin" /\ WaitsFor(command.op) /\ session.device
    /\ IF command.op = "stop" THEN session.state # "connected" ELSE session.state = "acquiring"
    /\ worker' = [worker EXCEPT !.stop = TRUE]
    /\ queue' = [queue EXCEPT !.closed = TRUE]
    /\ Proceed("joining")
    /\ UNCHANGED <<session, device, forwarder, observed, failures, crashed>>

\* AcquisitionWorker::join gives up; the worker's destructor still waits.
JoinTimesOut ==
    /\ ~crashed /\ command.step = "joining" /\ command.joined
    /\ worker.state = "running" /\ Failing
    /\ command' = [command EXCEPT !.joined = FALSE]
    /\ UNCHANGED <<session, device, worker, queue, forwarder, observed, phase, attempts, crashed>>

\* Nothing of the old delivery runs any more.
DeliveryOver == worker.state # "running" /\ forwarder.state # "running"

Joined ==
    /\ ~crashed /\ command.step = "joining" /\ DeliveryOver
    /\ DeliveryReset
    /\ IF command.joined THEN Proceed("halted") ELSE Fail
    /\ UNCHANGED <<session, device, observed, failures, crashed>>

-----------------------------------------------------------------------------
(* connect *)

ConnectedAlready ==
    /\ Running("connect", "begin") /\ session.device
    /\ Succeed /\ Succeeding
    /\ UNCHANGED <<session, device, deliveryVars, crashed>>

\* create_device, connect or refresh_cache failed.
ConnectFails ==
    /\ Running("connect", "begin") /\ ~session.device
    /\ Fail /\ Failing
    /\ UNCHANGED <<session, device, deliveryVars, crashed>>

\* A new handle: no fault, no stream; the camera kept its nodes.
Connect ==
    /\ Running("connect", "begin") /\ ~session.device
    /\ device' = [device EXCEPT !.streaming = FALSE, !.faulted = FALSE]
    /\ session' = [device |-> TRUE, state |-> "connected", capabilities |-> TRUE,
                   actual |-> device.nodes]
    /\ observed' = [observed EXCEPT !.seen = NoFrame]
    /\ Succeed /\ Succeeding
    /\ UNCHANGED <<worker, queue, forwarder, crashed>>

-----------------------------------------------------------------------------
(* update: apply_validated_parameters and apply_locked *)

UpdateAtRest ==
    /\ Running("update", "begin") /\ session.device /\ session.state # "acquiring"
    /\ Proceed("apply") /\ Succeeding
    /\ UNCHANGED <<session, device, deliveryVars, crashed>>

NeedsDevice ==
    /\ ~crashed /\ command.step = "begin" /\ command.op \in {"update", "start", "stop"}
    /\ ~session.device
    /\ Fail /\ Succeeding
    /\ UNCHANGED <<session, device, deliveryVars, crashed>>

UpdateHalted ==
    /\ Running("update", "halted")
    /\ device' = [device EXCEPT !.streaming = FALSE]
    /\ session' = [session EXCEPT !.state = "connected"]
    /\ command' = [command EXCEPT !.step = "apply", !.resume = TRUE]
    /\ Succeeding
    /\ UNCHANGED <<deliveryVars, phase, attempts, crashed>>

\* The device does not stop: delivery begins again and the update fails.
UpdateNotHalted ==
    /\ Running("update", "halted") /\ device.streaming
    /\ Failing /\ Fail
    /\ DeliveryStarted \/ (DeliveryReset /\ UNCHANGED observed)
    /\ UNCHANGED <<session, device, crashed>>

\* Nodes 1 .. k - 1 of a configuration are written, node k is not.
Written(nodes, configuration, k) ==
    [n \in Nodes |-> IF n < k THEN configuration[n] ELSE nodes[n]]

\* The old nodes are written back up to node j; only all of them, read back, will do.
FaultNever(j) == FALSE

Faulted(j) == j # NodeCount + 2

ApplyRefused ==
    /\ ~crashed /\ command.step = "apply"
    /\ IF device.faulted THEN Succeeding ELSE Failing
    /\ Proceed("refused")
    /\ UNCHANGED <<session, device, deliveryVars, crashed>>

Apply ==
    /\ ~crashed /\ command.step = "apply" /\ ~device.faulted
    /\ device' = [device EXCEPT !.nodes = Uniform(command.target)]
    /\ session' = [session EXCEPT !.actual = Uniform(command.target)]
    /\ Proceed("applied") /\ Succeeding
    /\ UNCHANGED <<deliveryVars, crashed>>

\* restore_or_fault: node k or, after the last, the read-back failed, and then
\* node j of the way back or, after the last, its read-back or nothing.
ApplyFails ==
    /\ ~crashed /\ command.step = "apply" /\ ~device.faulted /\ Failing
    /\ \E k \in 1 .. NodeCount + 1, j \in 1 .. NodeCount + 2 :
         device' = [device EXCEPT
             !.nodes = Written(Written(@, Uniform(command.target), k), device.nodes, j),
             !.faulted = Faulted(j)]
    /\ Proceed("refused")
    /\ UNCHANGED <<session, deliveryVars, crashed>>

UpdateEnds ==
    /\ ~crashed /\ command.step \in {"applied", "refused"} /\ ~command.resume
    /\ IF command.step = "applied" THEN Succeed ELSE Fail
    /\ Succeeding
    /\ UNCHANGED <<session, device, deliveryVars, crashed>>

Resume ==
    /\ ~crashed /\ command.step \in {"applied", "refused"} /\ command.resume
    /\ ~device.streaming
    /\ device' = [device EXCEPT !.streaming = TRUE]
    /\ session' = [session EXCEPT !.state = "acquiring"]
    /\ DeliveryStarted
    /\ IF command.step = "applied" THEN Succeed ELSE Fail
    /\ Succeeding
    /\ UNCHANGED crashed

\* start_acquisition failed, or the delivery's threads could not be made and
\* the device was, or was not, stopped.
StreamNotStarted ==
    /\ Failing
    /\ \E streaming \in BOOLEAN : device' = [device EXCEPT !.streaming = @ \/ streaming]
    /\ Fail
    /\ UNCHANGED <<session, deliveryVars, crashed>>

ResumeFails ==
    /\ ~crashed /\ command.step \in {"applied", "refused"} /\ command.resume
    /\ StreamNotStarted

-----------------------------------------------------------------------------
(* start, stop, disconnect *)

StartedAlready ==
    /\ Running("start", "begin") /\ session.device /\ session.state = "acquiring"
    /\ Succeed /\ Succeeding
    /\ UNCHANGED <<session, device, deliveryVars, crashed>>

StartAcquisition ==
    /\ Running("start", "begin") /\ session.device /\ session.state # "acquiring"
    /\ ~device.streaming
    /\ device' = [device EXCEPT !.streaming = TRUE]
    /\ session' = [session EXCEPT !.state = "acquiring"]
    /\ DeliveryStarted
    /\ Succeed /\ Succeeding
    /\ UNCHANGED crashed

\* A device that still streams refuses to start.
StartRefused ==
    /\ Running("start", "begin") /\ session.device /\ session.state # "acquiring"
    /\ device.streaming
    /\ Fail /\ Succeeding
    /\ UNCHANGED <<session, device, deliveryVars, crashed>>

StartFails ==
    /\ Running("start", "begin") /\ session.device /\ session.state # "acquiring"
    /\ StreamNotStarted

StoppedAlready ==
    /\ Running("stop", "begin") /\ session.device /\ session.state = "connected"
    /\ Succeed /\ Succeeding
    /\ UNCHANGED <<session, device, deliveryVars, crashed>>

Stop ==
    /\ Running("stop", "halted")
    /\ device' = [device EXCEPT !.streaming = FALSE]
    /\ session' = [session EXCEPT !.state = "connected"]
    /\ Succeed /\ Succeeding
    /\ UNCHANGED <<deliveryVars, crashed>>

\* The device does not stop, or not close: without delivery, the state stays.
DeviceStays ==
    /\ ~crashed
    /\ \/ command.op \in {"stop", "disconnect"} /\ command.step = "halted"
       \/ command.op = "disconnect" /\ command.step = "begin"
          /\ session.device /\ session.state # "acquiring"
    /\ \E streaming \in BOOLEAN :
         device' = [device EXCEPT !.streaming = @ /\ streaming]
    /\ command.op = "stop" => device'.streaming = device.streaming
    /\ Failing /\ Fail
    /\ UNCHANGED <<session, deliveryVars, crashed>>

DisconnectedAlready ==
    /\ Running("disconnect", "begin") /\ ~session.device
    /\ Succeed /\ Succeeding
    /\ UNCHANGED <<session, device, deliveryVars, crashed>>

Disconnect ==
    /\ \/ Running("disconnect", "halted")
       \/ Running("disconnect", "begin") /\ session.device /\ session.state # "acquiring"
    /\ device' = [device EXCEPT !.streaming = FALSE, !.faulted = FALSE]
    /\ session' = [session EXCEPT !.device = FALSE, !.state = "disconnected"]
    /\ Succeed /\ Succeeding
    /\ UNCHANGED <<deliveryVars, crashed>>

-----------------------------------------------------------------------------
(* Commands and the life of the service *)

Request(op, target) ==
    /\ ~crashed /\ phase = "serving" /\ Idle
    /\ Begin(op, IF op = "connect" THEN <<"update">> ELSE <<>>, target)
    /\ UNCHANGED <<session, device, deliveryVars, phase, attempts, failures, crashed>>

\* capture_snapshot asks for the capabilities it remembers, not for a device.
SnapshotWithoutDevice ==
    /\ ~crashed /\ phase = "serving" /\ Idle
    /\ session.capabilities /\ ~session.device
    /\ crashed' = TRUE
    /\ UNCHANGED <<session, device, deliveryVars, command, phase, attempts, failures>>

\* CameraStartup::join
Shutdown ==
    /\ ~crashed /\ phase = "serving" /\ Idle
    /\ phase' = "stopping"
    /\ Begin("disconnect", <<>>, Configured)
    /\ UNCHANGED <<session, device, deliveryVars, attempts, failures, crashed>>

CameraUnused ==
    /\ session = [device |-> FALSE, state |-> "disconnected", capabilities |-> FALSE,
                  actual |-> Uniform(Configured)]
    /\ device \in [streaming : {FALSE}, faulted : {FALSE}, nodes : {Uniform(v) : v \in Values}]
    /\ worker = NoWorker
    /\ queue = [frames |-> <<>>, closed |-> TRUE]
    /\ forwarder = NoForwarder
    /\ observed = [last |-> NoFrame, seen |-> NoFrame, kept |-> 0]
    /\ attempts = 1
    /\ failures = 0
    /\ crashed = FALSE

CameraInit ==
    /\ CameraUnused
    /\ command = [NoCommand EXCEPT !.op = "connect", !.step = "begin", !.then = <<"update", "start">>]
    /\ phase = "starting"

Commanding ==
    \/ HaltDelivery \/ Joined
    \/ ConnectedAlready \/ ConnectFails \/ Connect
    \/ NeedsDevice \/ UpdateAtRest \/ UpdateHalted \/ UpdateNotHalted
    \/ ApplyRefused \/ Apply \/ ApplyFails \/ UpdateEnds \/ Resume \/ ResumeFails
    \/ StartedAlready \/ StartAcquisition \/ StartRefused \/ StartFails
    \/ StoppedAlready \/ Stop \/ DeviceStays \/ DisconnectedAlready \/ Disconnect

Operator ==
    \/ \E op \in Operations, target \in Values :
         (op \notin {"connect", "update"} => target = Configured) /\ Request(op, target)
    \/ SnapshotWithoutDevice

CameraNext == Worker \/ Forwarder \/ Commanding \/ JoinTimesOut \/ Operator \/ Shutdown

\* The threads of the worker, of the forwarder and of the command run.
CameraSpec ==
    /\ CameraInit /\ [][CameraNext]_cameraVars
    /\ WF_cameraVars(Worker) /\ WF_cameraVars(Forwarder) /\ WF_cameraVars(Commanding)

-----------------------------------------------------------------------------
(* Properties *)

\* The variables keep their types, and neither the queue nor the pool of
\* the current worker ever holds more than its capacity (AcquisitionQueue::push,
\* FrameBufferPool::acquire).
CameraTypeOK ==
    /\ session \in [device : BOOLEAN, state : States, capabilities : BOOLEAN, actual : Parameters]
    /\ device \in [streaming : BOOLEAN, faulted : BOOLEAN, nodes : Parameters]
    /\ worker \in [state : {"none", "running", "ended"}, stop : BOOLEAN, capturing : BOOLEAN,
                   number : 0 .. MaximumNumber]
    /\ queue.frames \in Seq(1 .. MaximumNumber) /\ Len(queue.frames) <= QueueCapacity
    /\ forwarder \in [state : {"none", "running", "ended"}, frame : 0 .. MaximumNumber]
    /\ observed \in [last : 0 .. MaximumNumber, seen : 0 .. MaximumNumber, kept : 0 .. RingCapacity]
    /\ InUse <= PoolCapacity
    /\ command.op \in Operations \cup {"none"}
    /\ phase \in {"starting", "serving", "stopping", "stopped"}
    /\ attempts \in 1 .. MaximumAttempts
    /\ failures \in 0 .. MaximumFailures
    /\ crashed \in BOOLEAN

\* A worker only runs while the device exists and streams: no command stops,
\* reconfigures or drops the device under a worker that may be inside it, even
\* when waiting for that worker timed out (stop_frame_delivery, ~AcquisitionWorker).
WorkerHasStream ==
    worker.state = "running" => session.device /\ device.streaming

\* The parameters shown for a camera are the ones the device has, whichever
\* write, read-back or restart failed in an update, unless the device is
\* faulted and must be connected again (apply_locked, restore_or_fault).
ShownIsActual ==
    session.device /\ ~device.faulted => session.actual = device.nodes

\* The observers are given no frame once a stop, a disconnection or the stop
\* before an update is through: only of a camera that counts as acquiring.
FramesWhileAcquiring ==
    [][Observe => session.state = "acquiring"]_cameraVars

\* A command ends, although it waits for a worker that may wait for a buffer
\* and for a forwarder that may hold one.
CommandsEnd == command.op # "none" ~> (Idle \/ crashed)

\* Within one connection the frames the observers are given have growing
\* numbers, so that the rings take them (docs/architecture/domain-model.md:43).
NumbersGrow ==
    [][Observe => forwarder.frame > observed.seen]_cameraVars

\* A snapshot is refused while the camera is disconnected (docs/error-codes.md:157).
SnapshotNeedsDevice == ~crashed

=============================================================================
