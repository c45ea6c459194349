---------------------------- MODULE MCHostedService ----------------------------
(* The service between the service control manager and the console: its start   *)
(* and stop with three components, the tools that install, restart and remove   *)
(* it, and the dashboard that shows its state.  The three share no step; a      *)
(* behaviour is one of them.                                                    *)
EXTENDS HostedService, ServiceManagement, Dashboard

VARIABLE active

MCComponents == <<"camera", "ipc", "monitoring">>
MCPhase == [camera |-> 1, monitoring |-> 2, ipc |-> 3]
MCUnlimited == {"camera"}

MCInit ==
    /\ active \in {"host", "tools", "dashboard"}
    /\ HostInit /\ ManagementInit /\ DashboardInit
    /\ active = "tools" \/ service = NoService

MCVars == <<active, hostVars, managementVars, dashboardVars>>

MCNext ==
    /\ \/ active = "host" /\ HostNext /\ UNCHANGED <<managementVars, dashboardVars>>
       \/ active = "tools" /\ ManagementNext /\ UNCHANGED <<hostVars, dashboardVars>>
       \/ active = "dashboard" /\ DashboardNext /\ UNCHANGED <<hostVars, managementVars>>
    /\ UNCHANGED active

\* HostFairness, for the behaviours of the service.
Host(Action) == active = "host" /\ Action /\ UNCHANGED <<active, managementVars, dashboardVars>>

MCSpec ==
    /\ MCInit /\ [][MCNext]_MCVars
    /\ WF_MCVars(Host(ServiceMain)) /\ WF_MCVars(Host(Relay)) /\ WF_MCVars(Host(DeadlinePasses))
    /\ WF_MCVars(Host(EventThread /\ UNCHANGED serviceVars))
    /\ WF_MCVars(Host(PostDrain /\ UNCHANGED serviceVars))
    /\ \A w \in Workers :
         WF_MCVars(Host((TakeCommand(w) \/ EndWorker(w)) /\ UNCHANGED serviceVars))
=================================================================================
