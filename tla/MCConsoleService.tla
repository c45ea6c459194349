---------------------------- MODULE MCConsoleService ----------------------------
(* Both ends of the console's connection, the configuration it edits, and the  *)
(* event windows of the cameras it watches.  The four never share a step; a    *)
(* behaviour is one of them.                                                   *)
EXTENDS IpcServer, IpcClient, ConfigRepository, EventWindows, TLC

VARIABLE behaviour

\* Connections are only told apart by their identity.
Symmetry == Permutations(Connections)

MCInit ==
    /\ behaviour \in {"server", "client", "configuration", "windows"}
    /\ IpcInit /\ ClientInit /\ ConfigInit /\ WindowsInit
    /\ behaviour # "configuration" => file.schema = 8 /\ \A s \in Sections : effective[s] = 0

MCNext ==
    /\ \/ behaviour = "server" /\ IpcNext /\ UNCHANGED <<clientVars, configVars, windowVars>>
       \/ behaviour = "client" /\ ClientNext /\ UNCHANGED <<ipcVars, configVars, windowVars>>
       \/ behaviour = "configuration" /\ ConfigNext /\ UNCHANGED <<ipcVars, clientVars, windowVars>>
       \/ behaviour = "windows" /\ WindowsNext /\ UNCHANGED <<ipcVars, clientVars, configVars>>
    /\ UNCHANGED behaviour

MCSpec ==
    MCInit /\ [][MCNext]_<<behaviour, ipcVars, clientVars, configVars, windowVars>>
=================================================================================
