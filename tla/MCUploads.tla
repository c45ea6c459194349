-------------------------------- MODULE MCUploads --------------------------------
(* Both users of the host: the jobs that bring evidence to it and the commands   *)
(* it sends.  Two command ids may carry two contents each and a third a garbled  *)
(* one; the cache has room for two results, and for one next to a large one.     *)
(* The two share no step; a behaviour is one of them.                            *)
EXTENDS UploadJobs, UplinkCommands

VARIABLE active

OneFile == <<"raw">>

MCSizes == [small |-> 1, large |-> 2]

MCInit == active \in {"uploads", "commands"} /\ UploadsInit /\ UplinkInit

MCNext ==
    /\ \/ active = "uploads" /\ UploadsNext /\ UNCHANGED uplinkVars
       \/ active = "commands" /\ UplinkNext /\ UNCHANGED uploadVars
    /\ UNCHANGED active

MCVars == <<active, uploadVars, uplinkVars>>

MCSpec ==
    /\ MCInit /\ [][MCNext]_MCVars
    /\ WF_MCVars(active = "uploads" /\ Worker /\ UNCHANGED <<active, uplinkVars>>)
    /\ WF_MCVars(active = "commands" /\ UplinkWorker /\ UNCHANGED <<active, uploadVars>>)
==================================================================================
