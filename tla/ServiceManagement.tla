---------------------------- MODULE ServiceManagement ----------------------------
(***************************************************************************)
(* Installing, uninstalling and restarting the Windows service.            *)
(* ServiceManager does each in several calls of the service control        *)
(* manager, each of which opens the service anew; between two of them the  *)
(* service, the recovery actions of the manager, an administrator and the  *)
(* other two commands act.  The console restarts the service, the other    *)
(* two are run from a command line.                                        *)
(*                                                                         *)
(* The service is what the manager holds of it - the registration with its *)
(* base configuration, its settings and the access of interactive users -  *)
(* and the state and number of its process.                                *)
(***************************************************************************)
EXTENDS Integers

CONSTANTS
    Installers,       \* the installations that are run
    MaximumInstances  \* bound: processes of the service

ASSUME ManagementAssumption == MaximumInstances \in Nat

VARIABLES
    service,  \* what the service control manager holds
    install,  \* each installation: its step and whether it created the service
    removal,  \* the step of the uninstallation
    restart   \* the step of the restart and the process it is to replace

managementVars == <<service, install, removal, restart>>

NoService ==
    [presence |-> "missing", settings |-> FALSE, access |-> FALSE, state |-> "stopped",
     instance |-> 0]

-----------------------------------------------------------------------------
(* WindowsServiceManagerApi, as operators on the service *)

Known(s) == s.presence # "missing"

Created(s) == [NoService EXCEPT !.presence = "present", !.instance = s.instance]

\* The recovery actions are among the settings.
Configured(s) == [s EXCEPT !.settings = TRUE]

Granted(s) == [s EXCEPT !.access = TRUE]

\* A service that is starting or stopping does not take the request, which
\* counts as made.
StopSent(s) == IF s.state = "running" THEN [s EXCEPT !.state = "stopping"] ELSE s

MayStart(s) ==
    s.presence = "present" /\ s.state = "stopped" /\ s.instance < MaximumInstances

Started(s) == [s EXCEPT !.state = "starting", !.instance = @ + 1]

\* A deleted service goes when its process has ended and its handles are closed.
Removed(s) ==
    IF s.presence = "missing" THEN s ELSE [s EXCEPT !.presence = "marked_for_delete"]

-----------------------------------------------------------------------------
(* install *)

Installs(i, step) == install[i].step = step

To(i, step) == install' = [install EXCEPT ![i].step = step]

BeginInstall(i) ==
    /\ Installs(i, "query")
    /\ CASE service.presence = "marked_for_delete" -> To(i, "failed")
         [] service.presence = "missing" -> To(i, "create")
         [] service.presence = "present" -> To(i, "update")
    /\ UNCHANGED <<service, removal, restart>>

RegisterService(i) ==
    /\ Installs(i, "create")
    /\ \/ /\ service.presence = "missing"
          /\ service' = Created(service)
          /\ install' = [install EXCEPT ![i] = [step |-> "configure", created |-> TRUE]]
       \/ To(i, "failed") /\ UNCHANGED service
    /\ UNCHANGED <<removal, restart>>

UpdateService(i) ==
    /\ Installs(i, "update")
    /\ \/ service.presence = "present" /\ To(i, "configure")
       \/ To(i, "failed")
    /\ UNCHANGED <<service, removal, restart>>

\* The service this run has created is removed again, whoever uses it by now.
RollsBack(i) ==
    /\ service' = IF install[i].created THEN Removed(service) ELSE service
    /\ To(i, "failed")

Configure(i) ==
    /\ Installs(i, "configure")
    /\ \/ service.presence = "present" /\ service' = Configured(service) /\ To(i, "access")
       \/ RollsBack(i)
    /\ UNCHANGED <<removal, restart>>

GrantAccess(i) ==
    /\ Installs(i, "access")
    /\ \/ service.presence = "present" /\ service' = Granted(service) /\ To(i, "installed")
       \/ RollsBack(i)
    /\ UNCHANGED <<removal, restart>>

-----------------------------------------------------------------------------
(* uninstall *)

QueryRemoval ==
    /\ removal = "query"
    /\ removal' = IF service.presence = "present" THEN "state" ELSE "removed"
    /\ UNCHANGED <<service, install, restart>>

\* query_state, and request_stop unless it has stopped.
StateOfRemoval ==
    /\ removal = "state"
    /\ \/ removal' = IF ~Known(service) THEN "failed"
                     ELSE IF service.state = "stopped" THEN "delete" ELSE "stop"
       \/ removal' = "failed"
    /\ UNCHANGED <<service, install, restart>>

StopForRemoval ==
    /\ removal = "stop"
    /\ \/ Known(service) /\ service' = StopSent(service) /\ removal' = "wait"
       \/ removal' = "failed" /\ UNCHANGED service
    /\ UNCHANGED <<install, restart>>

\* wait_for_stopped asks again when it finds the service running; it gives up
\* after thirty seconds.
WaitForRemoval ==
    /\ removal = "wait"
    /\ \/ Known(service) /\ service.state = "stopped" /\ removal' = "delete" /\ UNCHANGED service
       \/ Known(service) /\ service.state = "running"
             /\ service' = StopSent(service) /\ UNCHANGED removal
       \/ removal' = "failed" /\ UNCHANGED service
    /\ UNCHANGED <<install, restart>>

DeleteService ==
    /\ removal = "delete"
    /\ \/ service' = Removed(service) /\ removal' = "removed"
       \/ removal' = "failed" /\ UNCHANGED service
    /\ UNCHANGED <<install, restart>>

-----------------------------------------------------------------------------
(* restart *)

NotRunning(s) == s.state # "running"

HasStopped(s) == s.state = "stopped"

RestartTo(step) == restart' = [restart EXCEPT !.step = step]

\* The console asks again after a restart has ended.
QueryRestart ==
    /\ restart.step \in {"idle", "failed", "restarted"}
    /\ restart' = IF service.presence = "present" THEN [step |-> "state", replaces |-> 0]
                  ELSE [step |-> "failed", replaces |-> 0]
    /\ restart' # restart
    /\ UNCHANGED <<service, install, removal>>

StateOfRestart ==
    /\ restart.step = "state" /\ Known(service)
    /\ restart' = [step |-> IF HasStopped(service) THEN "start" ELSE "stop",
                   replaces |-> IF service.state = "stopped" THEN 0 ELSE service.instance]
    /\ UNCHANGED <<service, install, removal>>

StopForRestart ==
    /\ restart.step = "stop" /\ Known(service)
    /\ service' = StopSent(service) /\ RestartTo("stopping")
    /\ UNCHANGED <<install, removal>>

\* The stop is not asked for again.
SeesStopped ==
    /\ restart.step = "stopping" /\ Known(service)
    /\ HasStopped(service)
    /\ RestartTo("start")
    /\ UNCHANGED <<service, install, removal>>

\* One that runs already counts as started.
StartForRestart ==
    /\ restart.step = "start" /\ Known(service)
    /\ \/ MayStart(service) /\ service' = Started(service)
       \/ service.state # "stopped" /\ UNCHANGED service
    /\ RestartTo("starting")
    /\ UNCHANGED <<install, removal>>

SeesRunning ==
    /\ restart.step = "starting" /\ Known(service)
    /\ service.state = "running"
    /\ RestartTo("restarted")
    /\ UNCHANGED <<service, install, removal>>

\* A call fails, the deadline passes or the console ends.
RestartFails ==
    /\ restart.step \in {"state", "stop", "stopping", "start", "starting"}
    /\ restart' = [step |-> "failed", replaces |-> 0]
    /\ UNCHANGED <<service, install, removal>>

-----------------------------------------------------------------------------
(* The service and the service control manager *)

Changes(to) == service' = to /\ UNCHANGED <<install, removal, restart>>

ServiceRuns == service.state = "starting" /\ Changes([service EXCEPT !.state = "running"])

\* It stops when asked to, by itself, or fails.
ServiceStops ==
    /\ service.state \in {"starting", "running", "stopping"}
    /\ Changes([service EXCEPT !.state = "stopped"])

ServiceStopsItself ==
    service.state \in {"starting", "running"} /\ Changes([service EXCEPT !.state = "stopping"])

\* A process that ends without success is started again, by the settings.
RecoveryStarts ==
    /\ service.settings /\ service.instance > 0 /\ MayStart(service)
    /\ Changes(Started(service))

AdministratorStarts == MayStart(service) /\ Changes(Started(service))

ServiceGoes ==
    /\ service.presence = "marked_for_delete" /\ service.state = "stopped"
    /\ Changes([NoService EXCEPT !.instance = service.instance])

-----------------------------------------------------------------------------

ManagementInit ==
    /\ service \in {NoService, Granted(Configured(Created(NoService)))}
    /\ install = [i \in Installers |-> [step |-> "query", created |-> FALSE]]
    /\ removal = "query"
    /\ restart = [step |-> "idle", replaces |-> 0]

InstallNext ==
    \E i \in Installers :
        BeginInstall(i) \/ RegisterService(i) \/ UpdateService(i) \/ Configure(i) \/ GrantAccess(i)

RemovalNext ==
    QueryRemoval \/ StateOfRemoval \/ StopForRemoval \/ WaitForRemoval \/ DeleteService

RestartNext ==
    \/ QueryRestart \/ StateOfRestart \/ StopForRestart \/ SeesStopped \/ StartForRestart
    \/ SeesRunning \/ RestartFails

ManagementNext ==
    \/ InstallNext \/ RemovalNext \/ RestartNext
    \/ ServiceRuns \/ ServiceStops \/ ServiceStopsItself \/ RecoveryStarts
    \/ AdministratorStarts \/ ServiceGoes

ManagementSpec == ManagementInit /\ [][ManagementNext]_managementVars

-----------------------------------------------------------------------------
(* Properties *)

ManagementTypeOK ==
    /\ service.presence \in {"missing", "present", "marked_for_delete"}
    /\ service.state \in {"stopped", "starting", "running", "stopping"}
    /\ service.instance \in 0..MaximumInstances
    /\ \A i \in Installers :
          install[i].step \in {"query", "create", "update", "configure", "access", "installed",
                               "failed"}

\* A restart the console reports as done has replaced the process that was
\* there: what runs is a later one, although a stop request is ignored by a
\* service that is starting and a start request by one that is there
\* (ServiceManager::restart, request_stop, request_start).
RestartedIsFresh ==
    [][restart'.step = "restarted" /\ restart.step # "restarted"
        => service.state = "running" /\ service.instance > restart.replaces]_managementVars

\* A service whose installation succeeded is there until it is uninstalled.
\* It is not: another installation that created it fails later and removes it.
InstalledStays ==
    (\E i \in Installers : install[i].step = "installed") /\ removal = "query"
        => service.presence = "present"

\* An uninstallation that succeeds leaves no process.  It may: the service is
\* started between the look at its state and its deletion.
UninstalledIsStopped ==
    [][removal = "delete" /\ removal' = "removed" => service.state = "stopped"]_managementVars
================================================================================
