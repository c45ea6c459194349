-------------------------- MODULE MCCamerasAndConsole --------------------------
(* One camera with two parameter nodes and a pool the observers can exhaust,  *)
(* one recovering session, one client of the console of each kind, and the    *)
(* preview of the camera and another.  The four share no step; a behaviour is *)
(* one of them.                                                               *)
EXTENDS CameraControl, CameraRecovery, ConsoleClients, Preview

VARIABLE active

MCSelections == {{"c1"}, {"c1", "c2"}}

MCInit ==
    /\ active \in {"control", "recovery", "console", "preview"}
    /\ RecoveryInit /\ ClientsInit /\ PreviewInit
    /\ \/ active = "control" /\ CameraInit
       \/ active # "control" /\ CameraUnused /\ command = NoCommand /\ phase = "stopped"
          /\ device.nodes = Uniform(Configured)
    /\ active # "console" => client.kind = "events"
    /\ active # "preview" => selected = {"c1"}

MCVars == <<active, cameraVars, recoveryVars, clientsVars, previewVars>>

Control(Action) ==
    active = "control" /\ Action /\ UNCHANGED <<active, recoveryVars, clientsVars, previewVars>>

Console(Action) ==
    active = "console" /\ Action /\ UNCHANGED <<active, cameraVars, recoveryVars, previewVars>>

MCNext ==
    /\ \/ active = "control" /\ CameraNext
          /\ UNCHANGED <<recoveryVars, clientsVars, previewVars>>
       \/ active = "recovery" /\ RecoveryNext
          /\ UNCHANGED <<cameraVars, clientsVars, previewVars>>
       \/ active = "console" /\ ClientsNext
          /\ UNCHANGED <<cameraVars, recoveryVars, previewVars>>
       \/ active = "preview" /\ PreviewNext
          /\ UNCHANGED <<cameraVars, recoveryVars, clientsVars>>
    /\ UNCHANGED active

MCSpec ==
    /\ MCInit /\ [][MCNext]_MCVars
    /\ WF_MCVars(Control(Worker)) /\ WF_MCVars(Control(Forwarder)) /\ WF_MCVars(Control(Commanding))
    /\ WF_MCVars(Console(Refresh)) /\ WF_MCVars(Console(Listing(Serve)))
    /\ WF_MCVars(Console(Listing(Deliver))) /\ WF_MCVars(Console(Listing(ExpireStray)))

\* The preview alone: its encoder runs and frames of every camera keep coming.
MCPreviewSpec ==
    /\ MCInit /\ active = "preview" /\ [][MCNext]_MCVars
    /\ WF_MCVars(active = "preview" /\ EncoderStep
                 /\ UNCHANGED <<active, cameraVars, recoveryVars, clientsVars>>)
    /\ WF_MCVars(active = "preview" /\ (\E c \in Cameras : Submit(c))
                 /\ UNCHANGED <<active, cameraVars, recoveryVars, clientsVars>>)
================================================================================
