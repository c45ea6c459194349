------------------------- MODULE StorageMaintenance -------------------------
(***************************************************************************)
(* The policy of the event volume: StoragePolicyManager                    *)
(* (storage_policy.cpp), the retention rows of EventMetadataDatabase       *)
(* (metadata_database.cpp) and the thread that runs the policy             *)
(* (main.cpp, StorageMaintenanceLifecycleComponent).                       *)
(*                                                                         *)
(* An event is deleted in four steps, each of which can fail or be the     *)
(* last one before a crash: its row is claimed, its directory is moved     *)
(* below .deletions, the moved tree is removed, the row is completed.  The *)
(* other writers of those rows (operators, the uploader, the indexing at   *)
(* a restart) act between any two of them.                                 *)
(*                                                                         *)
(* Every event takes one unit of the volume.  Temporary directories, byte  *)
(* counts and error texts are left out.                                    *)
(***************************************************************************)
EXTENDS Integers, Sequences, FiniteSets, SequencesExt

CONSTANTS
    Order,              \* the events, oldest candidate time first
    Volume,             \* units of the event volume
    OtherData,          \* units other data may take of it
    WarningLevel,       \* available units at or below which each level begins
    CriticalLevel,
    StopLevel,
    EventLimits,        \* values of maximum_event_bytes an operator may set
    DeletionsPerRun,    \* maximum_deletions_per_run
    MaximumFailures,    \* bound: file operations and queries that fail
    MaximumCrashes      \* bound: crashes of the process

ASSUME StorageAssumption ==
    /\ StopLevel < CriticalLevel /\ CriticalLevel < WarningLevel
    /\ DeletionsPerRun \in Nat \ {0}

VARIABLES
    rows,           \* event -> its row of events joined with event_retention
    disk,           \* event -> where its files are
    others,         \* units of the volume that other data takes
    expired,        \* the events older than the retention age
    limit,          \* options.maximum_event_bytes
    policy,         \* StoragePolicySnapshot: its level, and is the limit passed
    maintenance,    \* the maintenance thread: place, events left, slots left
    mishaps,        \* failures and crashes so far (bounded)
    received        \* history: the events the host has received

storageVars == <<rows, disk, others, expired, limit, policy, maintenance, mishaps, received>>

Stored == ToSet(Order)

Levels == {"normal", "warning", "critical", "stopSave"}

-----------------------------------------------------------------------------
(* The snapshot *)

Available ==
    Volume - others
           - Cardinality({e \in Stored : disk[e] \in {"original", "staging"}})

Classify(available) ==
    CASE available <= StopLevel     -> "stopSave"
      [] available <= CriticalLevel -> "critical"
      [] available <= WarningLevel  -> "warning"
      [] OTHER                      -> "normal"

RetainedEvents ==
    Cardinality({e \in Stored : rows[e].indexed /\ rows[e].deletion # "Deleted"})

Measured == [level |-> Classify(Available), over |-> RetainedEvents > limit]

WatermarkPressure == policy.level # "normal"

CapacityPressure == policy.over

-----------------------------------------------------------------------------
(* The rows *)

Candidate(e) ==
    /\ rows[e].upload = "Uploaded" /\ rows[e].storage = "Present"
    /\ rows[e].retention = "released" /\ rows[e].deletion = "Active"

InOrder(events) == SelectSeq(Order, LAMBDA e : e \in events)

UpTo(list, n) == SubSeq(list, 1, IF Len(list) < n THEN Len(list) ELSE n)

RetentionCandidates(agedOnly, n) ==
    UpTo(InOrder({e \in Stored : Candidate(e) /\ (agedOnly => e \in expired)}), n)

DeletionWorkPendingOnly ==
    UpTo(InOrder({e \in Stored : rows[e].deletion = "DeletePending"}), DeletionsPerRun)

DeletionWork ==
    UpTo(InOrder({e \in Stored :
                    rows[e].deletion \in {"DeletePending", "DeleteFailed"}}),
         DeletionsPerRun)

ClaimableAsQueried(e) == TRUE

\* The claim checks again what the query of the candidates found.
Claimable(e) == rows[e].deletion = "DeleteFailed" \/ Candidate(e)

\* set_retention_policy: a claimed event can no longer be locked.  A new row
\* is "kept" (deletion_allowed = 0).
SetRetentionPolicy(e, retention) ==
    /\ rows[e].indexed
    /\ rows[e].deletion = "Active"
    /\ retention # rows[e].retention
    /\ rows' = [rows EXCEPT ![e].retention = retention]
    /\ UNCHANGED <<disk, others, expired, limit, policy, maintenance, mishaps, received>>

-----------------------------------------------------------------------------
(* The maintenance thread *)

MaintenanceAt(place) == maintenance.at = place

PolicyUnlocked == MaintenanceAt("waiting")

Fault == mishaps.failures < MaximumFailures

Noted == [mishaps EXCEPT !.failures = @ + 1]

unmaintained == <<others, expired, limit, received>>

Waiting == [at |-> "waiting", for |-> "nothing", list |-> <<>>, slots |-> 0]

\* A query or a refresh fails: the run ends with the error and its alarm.
RunFails ==
    /\ maintenance.at \in {"waiting", "refresh", "choose", "claim"}
    /\ Fault
    /\ mishaps' = Noted
    /\ maintenance' = Waiting
    /\ UNCHANGED <<rows, disk, policy, unmaintained>>

BeginRun ==
    /\ MaintenanceAt("waiting")
    /\ maintenance' = [at |-> "claim", for |-> "work", list |-> DeletionWork,
                       slots |-> DeletionsPerRun - Len(DeletionWork)]
    /\ UNCHANGED <<rows, disk, policy, mishaps,
                   unmaintained>>

Wanted(e) == WatermarkPressure \/ CapacityPressure \/ e \in expired

NextInList == [maintenance EXCEPT !.list = Tail(@), !.at = "claim"]

\* After an event of deletion_work the next one follows; after a candidate
\* the snapshot is measured again first.
AfterDeletion ==
    IF maintenance.for = "work" THEN NextInList
    ELSE [maintenance EXCEPT !.list = Tail(@), !.at = "refresh"]

ListDone ==
    /\ MaintenanceAt("claim")
    /\ maintenance.list # <<>> =>
         maintenance.for = "candidates" /\ ~Wanted(Head(maintenance.list))
    /\ maintenance' =
         IF maintenance.for = "work"
         THEN [maintenance EXCEPT !.at = "refresh"]
         ELSE [maintenance EXCEPT !.at = "refresh", !.for = "report", !.list = <<>>]
    /\ UNCHANGED <<rows, disk, policy, mishaps,
                   unmaintained>>

ResumePending ==
    /\ MaintenanceAt("claim")
    /\ maintenance.for = "work" /\ maintenance.list # <<>>
    /\ rows[Head(maintenance.list)].deletion = "DeletePending"
    /\ maintenance' = [maintenance EXCEPT !.at = "move"]
    /\ UNCHANGED <<rows, disk, policy, mishaps,
                   unmaintained>>

\* begin_deletion
BeginDeletion ==
    /\ MaintenanceAt("claim")
    /\ maintenance.list # <<>>
    /\ LET e == Head(maintenance.list)
       IN /\ \/ maintenance.for = "work" /\ rows[e].deletion # "DeletePending"
             \/ maintenance.for = "candidates" /\ Wanted(e)
          /\ IF Claimable(e)
             THEN /\ rows' = [rows EXCEPT ![e].deletion = "DeletePending"]
                  /\ maintenance' = [maintenance EXCEPT !.at = "move"]
             ELSE /\ rows' = rows
                  /\ maintenance' = NextInList
    /\ UNCHANGED <<disk, policy, mishaps, unmaintained>>


\* delete_event looks where the files are and does what is left to do.
MoveAside ==
    /\ MaintenanceAt("move")
    /\ LET e == Head(maintenance.list)
       IN /\ disk' = [disk EXCEPT ![e] = IF @ = "original" THEN "staging" ELSE @]
          /\ maintenance' = [maintenance EXCEPT
                 !.at = IF disk'[e] = "staging" THEN "remove" ELSE "complete"]
    /\ UNCHANGED <<rows, policy, mishaps, unmaintained>>

RemoveTree ==
    /\ MaintenanceAt("remove")
    /\ disk' = [disk EXCEPT ![Head(maintenance.list)] = "removed"]
    /\ maintenance' = [maintenance EXCEPT !.at = "complete"]
    /\ UNCHANGED <<rows, policy, mishaps, unmaintained>>

CompleteDeletion ==
    /\ MaintenanceAt("complete")
    /\ rows' = [rows EXCEPT ![Head(maintenance.list)].deletion = "Deleted",
                            ![Head(maintenance.list)].storage = "Missing"]
    /\ maintenance' = AfterDeletion
    /\ UNCHANGED <<disk, policy, mishaps, unmaintained>>

\* A step of delete_event fails: fail_deletion, which may fail as well, and
\* then the row stays DeletePending.
DeletionFails ==
    /\ maintenance.at \in {"move", "remove", "complete"}
    /\ Fault
    /\ mishaps' = Noted
    /\ \/ rows' = [rows EXCEPT ![Head(maintenance.list)].deletion = "DeleteFailed"]
       \/ rows' = rows
    /\ maintenance' = AfterDeletion
    /\ UNCHANGED <<disk, policy, unmaintained>>

\* refresh_snapshot after the pending work and after every candidate
Refresh ==
    /\ MaintenanceAt("refresh")
    /\ policy' = Measured
    /\ maintenance' =
         CASE maintenance.for = "work"   -> [maintenance EXCEPT !.at = "choose"]
           [] maintenance.for = "candidates" -> [maintenance EXCEPT !.at = "claim"]
           [] maintenance.for = "report" -> [maintenance EXCEPT !.at = "report"]
    /\ UNCHANGED <<rows, disk, mishaps, unmaintained>>

\* Without pressure only events past the retention age are asked for.
Choose ==
    /\ MaintenanceAt("choose")
    /\ maintenance' =
         [maintenance EXCEPT
            !.at = "claim", !.for = "candidates",
            !.list = IF maintenance.slots = 0 THEN <<>>
                     ELSE RetentionCandidates(~WatermarkPressure /\ ~CapacityPressure,
                                              maintenance.slots)]
    /\ UNCHANGED <<rows, disk, policy, mishaps,
                   unmaintained>>

\* The thread raises or clears STORAGE_LOW_SPACE and tells the rolling cache
\* the level, which NvmeCache models at its side.
Report ==
    /\ MaintenanceAt("report")
    /\ maintenance' = Waiting
    /\ UNCHANGED <<rows, disk, policy, mishaps, unmaintained>>

Maintain ==
    \/ BeginRun \/ ResumePending \/ BeginDeletion \/ MoveAside \/ RemoveTree
    \/ CompleteDeletion \/ ListDone \/ Refresh \/ Choose \/ Report

-----------------------------------------------------------------------------
(* The other users of the volume and of the rows *)

Indexed == [indexed |-> TRUE, upload |-> "Pending", storage |-> "Present",
            retention |-> "kept", deletion |-> "Active"]

\* submit_persistence asks admit_large_write, which waits for a run to end
\* and answers from the last snapshot; the event is then written and indexed
\* (EventRecords models that transaction).
SaveEvent(e) ==
    /\ disk[e] = "none"
    /\ PolicyUnlocked
    /\ policy.level # "stopSave"
    /\ disk' = [disk EXCEPT ![e] = "original"]
    /\ rows' = [rows EXCEPT ![e] = Indexed]
    /\ UNCHANGED <<policy, maintenance, mishaps, unmaintained>>

\* The upload of the event completes; a later job makes it pending again.
UploadCompletes(e) ==
    /\ rows[e].upload = "Pending" /\ rows[e].indexed
    /\ disk[e] = "original"
    /\ rows' = [rows EXCEPT ![e].upload = "Uploaded"]
    /\ received' = received \cup {e}
    /\ UNCHANGED <<disk, others, expired, limit, policy, maintenance, mishaps>>

EnqueueAgain(e) ==
    /\ rows[e].upload = "Uploaded"
    /\ rows' = [rows EXCEPT ![e].upload = "Pending"]
    /\ UNCHANGED <<disk, policy, maintenance, mishaps,
                   unmaintained>>

OthersWrite(units) ==
    /\ units # others
    /\ others' = units
    /\ UNCHANGED <<rows, disk, expired, limit, policy, maintenance, mishaps, received>>

\* Events pass the retention age oldest first.
Expire ==
    /\ \E k \in 1..Len(Order) :
         /\ expired = ToSet(UpTo(Order, k - 1))
         /\ expired' = expired \cup {Order[k]}
    /\ UNCHANGED <<rows, disk, others, limit, policy, maintenance, mishaps, received>>

\* reconfigure_limits measures at once and keeps the old limit when it cannot.
ReconfigureLimits(value) ==
    /\ PolicyUnlocked
    /\ value # limit
    /\ limit' = value
    /\ UNCHANGED <<rows, disk, others, expired, maintenance, mishaps, received>>
    /\ policy' = Measured'

-----------------------------------------------------------------------------
(* A crash, or the end of the process, and the next start: reconcile indexes *)
(* every directory in its place from its manifest, which was written before  *)
(* any upload, and marks each row by where its directory is.                 *)

Reindexed(e) ==
    IF disk[e] = "original"
    THEN [rows[e] EXCEPT !.upload = "Pending", !.storage = "Present"]
    ELSE [rows[e] EXCEPT !.storage = "Missing"]

Restart ==
    /\ mishaps.crashes < MaximumCrashes
    /\ mishaps' = [mishaps EXCEPT !.crashes = @ + 1]
    /\ rows' = [e \in Stored |-> Reindexed(e)]
    /\ policy' = Measured
    /\ maintenance' = Waiting
    /\ UNCHANGED <<disk, others, expired, limit, received>>

-----------------------------------------------------------------------------

NotIndexed == [indexed |-> FALSE, upload |-> "Pending", storage |-> "Missing",
               retention |-> "kept", deletion |-> "Active"]

StorageInit ==
    /\ rows = [e \in Stored |-> NotIndexed]
    /\ disk = [e \in Stored |-> "none"]
    /\ others \in OtherData
    /\ expired = {}
    /\ limit \in EventLimits
    /\ policy = Measured
    /\ maintenance = Waiting
    /\ mishaps = [failures |-> 0, crashes |-> 0]
    /\ received = {}

StorageNext ==
    \/ Maintain \/ RunFails \/ DeletionFails
    \/ \E e \in Stored : \/ SaveEvent(e)
                         \/ UploadCompletes(e) \/ EnqueueAgain(e)
                         \/ \E retention \in {"kept", "released", "locked"} :
                              SetRetentionPolicy(e, retention)
    \/ \E units \in OtherData : OthersWrite(units)
    \/ Expire
    \/ \E value \in EventLimits : ReconfigureLimits(value)
    \/ Restart

\* The thread waits at most thirty seconds between two runs.
StorageFairness == WF_storageVars(Maintain)

StorageSpec == StorageInit /\ [][StorageNext]_storageVars /\ StorageFairness

-----------------------------------------------------------------------------
(* Properties *)

\* Files are only moved aside for deletion when the host has received the
\* event, an operator allowed its deletion and nobody has locked it: neither
\* a lock or a new upload job set between the query of the candidates and
\* the claim, nor a restart in the middle of a deletion, loses evidence
\* (storage_policy.cpp:401-421, metadata_database.cpp:2726-2733).
DeletedByRight ==
    \A e \in Stored : disk[e] \in {"staging", "removed"} =>
        /\ e \in received
        /\ rows[e].retention = "released"
        /\ rows[e].deletion # "Active"

\* A deletion that was begun is finished, over failures and crashes, as long
\* as the process runs (storage_policy.cpp:351-389).
ClaimedIsDeleted ==
    \A e \in Stored :
        rows[e].deletion \in {"DeletePending", "DeleteFailed"}
            ~> rows[e].deletion = "Deleted"

=============================================================================
