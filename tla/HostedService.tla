------------------------------ MODULE HostedService ------------------------------
(***************************************************************************)
(* The service process: the host that the service control manager calls,   *)
(* the runtime that starts and stops the components in order, and the      *)
(* local IPC server among them.  Three threads meet here: service_main,    *)
(* which creates, starts and shuts the service down; the control handler,  *)
(* which may ask for a stop at any moment; and the threads of a component. *)
(* A start that is cancelled or fails is rolled back, a shutdown asks      *)
(* every component to stop before it waits for the first, and one deadline *)
(* is shared by all waits.                                                 *)
(*                                                                         *)
(* The components other than the IPC server are what the runtime sees of   *)
(* them: their start, request_stop and join succeed or fail.  A start or a *)
(* join runs as long as it likes; a join gives up at the deadline, but for *)
(* the components that wait for a thread or a device without a limit.      *)
(***************************************************************************)
EXTENDS IpcServer

CONSTANTS
    Components,      \* in the order create_hosted_service registers them
    Phase,           \* of each component, a number that grows with the phase
    Unlimited,       \* components whose join waits without a limit (logging, camera-startup,
                     \* storage-maintenance)
    Reasons,         \* reasons of a stop
    MaximumControls  \* bound: stop controls the manager sends

Ipc == "ipc"

ASSUME HostAssumption ==
    /\ Components \in Seq(DOMAIN Phase) /\ Contains(Components, Ipc)
    /\ \A name \in DOMAIN Phase : Phase[name] \in Nat
    /\ Unlimited \subseteq DOMAIN Phase \ {Ipc}
    /\ MaximumControls \in Nat

VARIABLES
    host,       \* where service_main is, whether the handler finds the service,
                \* and what is reported in the end
    handler,    \* the control handler and the reason in its hand
    slot,       \* stop_slot: the reason of the first request
    runtime,    \* state, cancel (startup_stop_source_), started (started_indices_, which
                \* grow), next: the component to start
    winding,    \* a rollback or shutdown under way
    components  \* what each component is

serviceVars == <<host, handler, slot, runtime, winding, components>>
hostVars == <<ipcVars, serviceVars>>

NoReason == "none"
Indices == DOMAIN Components
IsIpc(i) == Components[i] = Ipc

NotWinding == [doing |-> "nothing", rest |-> {}, all |-> {}, why |-> "none",
               error |-> FALSE, overdue |-> FALSE]

-----------------------------------------------------------------------------
(* A stop is asked for *)

\* ServiceRuntime::request_stop.
StopRequested == [runtime EXCEPT
    !.cancel = TRUE,
    !.state = IF @ \in {"starting", "running"} THEN "stop requested" ELSE @]

\* Mutant of SlotAfter: the reason is kept once there is a service to tell.
SlotWhenPublished(reason) ==
    IF slot = NoReason /\ host.published THEN reason ELSE slot

SlotAfter(reason) == IF slot = NoReason THEN reason ELSE slot

\* The manager's control: the slot takes the first reason, ...
Control(reason) ==
    /\ handler.at = "idle" /\ handler.controls > 0 /\ host.at # "reported"
    /\ handler' = [at |-> "relaying", controls |-> handler.controls - 1]
    /\ slot' = SlotAfter(reason)
    /\ UNCHANGED <<ipcVars, host, runtime, winding, components>>

\* ... then the service is told, if it is published by now.
Relay ==
    /\ handler.at = "relaying"
    /\ handler' = [handler EXCEPT !.at = "idle"]
    /\ runtime' = IF host.published THEN StopRequested ELSE runtime
    /\ UNCHANGED <<ipcVars, host, slot, winding, components>>

-----------------------------------------------------------------------------
(* Rolling back and shutting down *)

Reported(result) == [at |-> "reported", published |-> FALSE, result |-> result]

\* Whose turn it is: in a rollback the component that was started last, in a
\* shutdown the last one of the earliest phase.
Turn(rest, why) ==
    LET phase(i) == Phase[Components[i]]
        candidates == IF why = "shutdown" THEN {i \in rest : \A j \in rest : phase(i) <= phase(j)}
                      ELSE rest
    IN  CHOOSE i \in candidates : \A j \in candidates : j <= i

Wind(all, why) ==
    winding' = [doing |-> "stopping", rest |-> all, all |-> all, why |-> why,
                error |-> FALSE, overdue |-> FALSE]

OnTurn == Turn(winding.rest, winding.why)

DeadlinePasses ==
    /\ winding.doing # "nothing" /\ ~winding.overdue
    /\ winding' = [winding EXCEPT !.overdue = TRUE]
    /\ UNCHANGED <<ipcVars, host, handler, slot, runtime, components>>

Winding(doing) ==
    winding.doing = doing /\ UNCHANGED <<host, handler, slot, runtime>>

\* A component's request_stop may throw.
StopComponent ==
    /\ Winding("stopping") /\ winding.rest # {}
    /\ LET i == OnTurn IN
       IF IsIpc(i)
       THEN /\ CallRequestStop
            /\ winding' = [winding EXCEPT !.doing = "in request_stop"]
            /\ UNCHANGED components
       ELSE /\ \E error \in BOOLEAN :
                   winding' = [winding EXCEPT !.rest = @ \ {i}, !.error = @ \/ error]
            /\ components' = [components EXCEPT ![i] = "stopping"]
            /\ UNCHANGED ipcVars

IpcStopAsked ==
    /\ Winding("in request_stop") /\ caller.at = "outside"
    /\ winding' = [winding EXCEPT !.doing = "stopping", !.rest = @ \ {OnTurn}]
    /\ components' = [components EXCEPT ![OnTurn] = "stopping"]
    /\ UNCHANGED ipcVars

AllAsked ==
    /\ Winding("stopping") /\ winding.rest = {}
    /\ winding' = [winding EXCEPT !.doing = "joining", !.rest = winding.all]
    /\ UNCHANGED <<ipcVars, components>>

\* A join ends with the component over, with an error of its own, or late; the
\* first that is late ends the waiting.
Joined(result) ==
    LET i == OnTurn IN
    /\ components' = IF result = "done" THEN [components EXCEPT ![i] = "over"] ELSE components
    /\ winding' = IF winding.overdue \/ result = "timeout"
                  THEN [winding EXCEPT !.doing = "joining", !.rest = {}, !.error = TRUE]
                  ELSE [winding EXCEPT !.doing = "joining", !.rest = @ \ {i},
                                       !.error = @ \/ result # "done"]

JoinComponent ==
    /\ Winding("joining") /\ winding.rest # {}
    /\ IF winding.overdue
       THEN /\ winding' = [winding EXCEPT !.rest = {}, !.error = TRUE]
            /\ UNCHANGED <<ipcVars, components>>
       ELSE IF IsIpc(OnTurn)
       THEN CallJoin /\ winding' = [winding EXCEPT !.doing = "in join"] /\ UNCHANGED components
       ELSE /\ winding' = [winding EXCEPT !.doing = "in component join"]
            /\ UNCHANGED <<ipcVars, components>>

OtherJoined ==
    /\ Winding("in component join") /\ ~IsIpc(OnTurn)
    /\ \E result \in {"done", "failed"} : Joined(result)
    /\ UNCHANGED ipcVars

JoinGivesUp ==
    /\ Winding("in component join") /\ ~IsIpc(OnTurn)
    /\ winding.overdue /\ Components[OnTurn] \notin Unlimited
    /\ Joined("timeout")
    /\ UNCHANGED ipcVars

IpcJoined ==
    /\ Winding("in join") /\ caller.at = "outside"
    /\ Joined(caller.result)
    /\ UNCHANGED ipcVars

\* The state the runtime is left in.
Unwound ==
    /\ winding.doing = "joining" /\ winding.rest = {}
    /\ winding' = NotWinding
    /\ runtime' = [runtime EXCEPT
           !.state = IF winding.error \/ winding.why = "start failed" THEN "failed" ELSE "stopped"]
    /\ host' = [host EXCEPT !.at = IF winding.why = "shutdown" THEN "ending" ELSE "started"]
    /\ UNCHANGED <<ipcVars, handler, slot, components>>

-----------------------------------------------------------------------------
(* service_main *)

HostAt(place) == host.at = place /\ UNCHANGED handler

\* The factory fails, or the service is stored where the handler finds it.
CreateService ==
    /\ HostAt("creating")
    /\ host' \in {Reported("start failed"), [host EXCEPT !.at = "created", !.published = TRUE]}
    /\ UNCHANGED <<ipcVars, slot, runtime, winding, components>>

\* A stop that came before the service was stored.
CheckSlot ==
    /\ HostAt("created")
    /\ host' = [host EXCEPT !.at = "starting"]
    /\ runtime' = IF slot = NoReason THEN runtime ELSE StopRequested
    /\ UNCHANGED <<ipcVars, slot, winding, components>>

BeginStart ==
    /\ HostAt("starting") /\ runtime.state = "created"
    /\ runtime' = [runtime EXCEPT !.state = "starting"]
    /\ UNCHANGED <<ipcVars, host, slot, winding, components>>

Undo(all, why) == Wind(all, why) /\ host' = [host EXCEPT !.at = "winding"]

\* The stop is looked at before a component is started ...
StartNext ==
    /\ HostAt("starting") /\ runtime.state # "created" /\ runtime.next \in Indices
    /\ IF runtime.cancel
       THEN Undo(runtime.started, "cancelled") /\ UNCHANGED <<ipcVars, components>>
       ELSE /\ host' = [host EXCEPT !.at = "in start"]
            /\ IF IsIpc(runtime.next) THEN CallStart ELSE UNCHANGED ipcVars
            /\ components' = [components EXCEPT ![runtime.next] = "starting"]
            /\ UNCHANGED winding
    /\ UNCHANGED <<slot, runtime>>

\* Mutant of StartedWith: a component that started while the stop came is
\* taken for one that did not start.
StartedUnlessCancelled(ok) ==
    IF ok /\ ~runtime.cancel THEN runtime.started \cup {runtime.next} ELSE runtime.started

StartedWith(ok) == IF ok THEN runtime.started \cup {runtime.next} ELSE runtime.started

\* ... and again when its start returns.
ComponentStarted(ok) ==
    LET started == StartedWith(ok) IN
    /\ runtime' = [runtime EXCEPT !.started = started, !.next = @ + 1]
    /\ components' = [components EXCEPT ![runtime.next] = IF ok THEN "running" ELSE "failed"]
    /\ IF runtime.cancel THEN Undo(started, "cancelled")
       ELSE IF ~ok THEN Undo(runtime.started, "start failed")
       ELSE host' = [host EXCEPT !.at = "starting"] /\ UNCHANGED winding

IpcStarted ==
    /\ HostAt("in start") /\ IsIpc(runtime.next)
    /\ caller.at = "outside" /\ ComponentStarted(caller.result = "done")
    /\ UNCHANGED <<ipcVars, slot>>

\* The start of another component has no deadline.
OtherStarted ==
    /\ HostAt("in start") /\ ~IsIpc(runtime.next)
    /\ \E ok \in BOOLEAN : ComponentStarted(ok)
    /\ UNCHANGED <<ipcVars, slot>>

\* A stop that comes after the last component is found by the exchange.
EndStart ==
    /\ HostAt("starting") /\ runtime.state # "created" /\ runtime.next \notin Indices
    /\ IF runtime.state = "starting"
       THEN /\ runtime' = [runtime EXCEPT !.state = "running"]
            /\ host' = [host EXCEPT !.at = "started"]
            /\ UNCHANGED winding
       ELSE Undo(runtime.started, "cancelled") /\ UNCHANGED runtime
    /\ UNCHANGED <<ipcVars, slot, components>>

\* A status that cannot be reported stops the service.
AfterStart ==
    /\ HostAt("started")
    /\ \/ /\ runtime.state = "failed"
          /\ host' = Reported("start failed")
          /\ UNCHANGED <<slot, runtime>>
       \/ /\ runtime.state # "failed"
          /\ host' = [host EXCEPT !.at = "serving"]
          /\ \/ UNCHANGED <<slot, runtime>>
             \/ /\ \E reason \in Reasons : slot' = SlotAfter(reason)
                /\ runtime' = StopRequested
    /\ UNCHANGED <<ipcVars, winding, components>>

\* A service that runs waits for the slot; one that was cancelled does not.
StopServing ==
    /\ HostAt("serving")
    /\ slot # NoReason \/ runtime.state = "stopped"
    /\ runtime' = StopRequested
    /\ host' = [host EXCEPT !.at = "shutting down"]
    /\ UNCHANGED <<ipcVars, slot, winding, components>>

Shutdown ==
    /\ HostAt("shutting down")
    /\ IF runtime.state = "stopped"
       THEN host' = [host EXCEPT !.at = "ending"] /\ UNCHANGED <<runtime, winding>>
       ELSE /\ runtime' = [runtime EXCEPT !.state = "draining"]
            /\ Undo(runtime.started, "shutdown")
    /\ UNCHANGED <<ipcVars, slot, components>>

ReportStopped ==
    /\ HostAt("ending")
    /\ host' = Reported(IF runtime.state = "stopped" THEN "stopped" ELSE "stop failed")
    /\ UNCHANGED <<ipcVars, slot, runtime, winding, components>>

-----------------------------------------------------------------------------
HostInit ==
    /\ IpcInit
    /\ host = [at |-> "creating", published |-> FALSE, result |-> "none"]
    /\ handler = [at |-> "idle", controls |-> MaximumControls]
    /\ slot = NoReason
    /\ runtime = [state |-> "created", cancel |-> FALSE, started |-> {}, next |-> 1]
    /\ winding = NotWinding
    /\ components = [i \in Indices |-> "off"]

Wait ==
    \/ StopComponent \/ IpcStopAsked \/ AllAsked
    \/ JoinComponent \/ JoinGivesUp \/ IpcJoined \/ Unwound

ServiceMain ==
    \/ CreateService \/ CheckSlot \/ BeginStart \/ StartNext \/ IpcStarted \/ EndStart
    \/ AfterStart \/ StopServing \/ Shutdown \/ ReportStopped
    \/ Wait
    \/ Caller(winding.overdue) /\ UNCHANGED serviceVars

\* service_main goes on when a component lets it.
ComponentReturns == OtherStarted \/ OtherJoined

Server == IpcThreads /\ UNCHANGED serviceVars

HostNext ==
    \/ ServiceMain \/ ComponentReturns \/ Relay \/ DeadlinePasses
    \/ \E reason \in Reasons : Control(reason)
    \/ Server

\* service_main and the handler run, the deadline comes, and the server's
\* threads run, except that a command's handler may never return.  A component
\* need not return from its start or its join; clients, peers that read and
\* publishers owe nothing; the manager need not ask for a stop.
HostFairness ==
    /\ WF_hostVars(ServiceMain) /\ WF_hostVars(Relay) /\ WF_hostVars(DeadlinePasses)
    /\ WF_hostVars(EventThread /\ UNCHANGED serviceVars)
    /\ WF_hostVars(PostDrain /\ UNCHANGED serviceVars)
    /\ \A w \in Workers : WF_hostVars((TakeCommand(w) \/ EndWorker(w)) /\ UNCHANGED serviceVars)

HostSpec == HostInit /\ [][HostNext]_hostVars /\ HostFairness

-----------------------------------------------------------------------------
(* A service that calls itself stopped has nothing running: every          *)
(* component whose start succeeded was stopped and joined, and if the IPC  *)
(* server is one of them its threads are over and its connections gone.    *)
(* The start may be cancelled between any two steps, while a component is  *)
(* being started, or after the last one.                                   *)
StoppedIsStopped ==
    runtime.state = "stopped" =>
        /\ \A i \in Indices : components[i] \in {"off", "failed", "over"}
        /\ (\E i \in Indices : IsIpc(i) /\ components[i] = "over") => AllOver /\ Open = {}

(* A stop the service control manager asked for, at whatever moment, ends  *)
(* the service: it is reported stopped or failed, unless a component holds *)
(* service_main for ever where the runtime has no limit: in a start, or in *)
(* a join that waits for its thread or device.  The IPC server and every   *)
(* other component may hang in their join: the deadline ends it.           *)
Held ==
    \/ host.at = "in start" /\ ~IsIpc(runtime.next)
    \/ winding.doing = "in component join" /\ Components[OnTurn] \in Unlimited

StopIsHonoured ==
    []<>~Held => ((handler.controls < MaximumControls) ~> (host.at = "reported"))

(* The interface of a component says that its join must honor the          *)
(* deadline: a join that is under way when the deadline passes returns.    *)
JoinsHonorDeadline ==
    (winding.doing = "in component join" /\ winding.overdue)
        ~> (winding.doing # "in component join")
=============================================================================
