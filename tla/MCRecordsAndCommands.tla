-------------------------- MODULE MCRecordsAndCommands --------------------------
(* Two events that compete for the JPEG thread and the persistence queue, the  *)
(* checks of one committed event, and the commands of two threads that edit    *)
(* one configuration.  A behaviour is one of the three.                        *)
EXTENDS EventRecords, EventInspection, SystemCommands, TLC

VARIABLE active

Symmetry == Permutations(Events) \cup Permutations(CommandThreads)

MCInit ==
    /\ active \in {"records", "inspection", "commands"}
    /\ RecordsInit /\ InspectionInit /\ CommandsInit
    /\ document.sections["event"] = 0
    /\ \A slot \in Slots : document.cameras[slot] = Unbound

MCNext ==
    /\ \/ active = "records" /\ RecordsNext /\ UNCHANGED <<inspectionVars, commandVars>>
       \/ active = "inspection" /\ InspectionNext /\ UNCHANGED <<recordVars, commandVars>>
       \/ active = "commands" /\ CommandsNext /\ UNCHANGED <<recordVars, inspectionVars>>
    /\ UNCHANGED active

MCSpec == MCInit /\ [][MCNext]_<<active, recordVars, inspectionVars, commandVars>>

=================================================================================
