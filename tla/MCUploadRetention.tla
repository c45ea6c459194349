--------------------------- MODULE MCUploadRetention ---------------------------
(* What happens to an event's files once it is saved: their upload chunk by   *)
(* chunk, and their deletion.  The two never share a step; a behaviour is one *)
(* of them.                                                                   *)
EXTENDS ChunkedUpload, StorageMaintenance

VARIABLE active

MCOrder == <<"e1", "e2">>

MCInit ==
    /\ active \in {"upload", "retention"}
    /\ ChunkedInit /\ StorageInit
    /\ active = "upload" => others = 0 /\ limit = 1

MCNext ==
    /\ \/ active = "upload" /\ ChunkedNext /\ UNCHANGED storageVars
       \/ active = "retention" /\ StorageNext /\ UNCHANGED chunkedVars
    /\ UNCHANGED active

MCVars == <<active, chunkedVars, storageVars>>

MCSpec == MCInit /\ [][MCNext]_MCVars /\ WF_MCVars(active = "retention" /\ Maintain /\ UNCHANGED <<active, chunkedVars>>)
================================================================================
