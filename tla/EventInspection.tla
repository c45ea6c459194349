---------------------------- MODULE EventInspection ----------------------------
(***************************************************************************)
(* The checks of a committed event's files (storage/src/event_inspector.cpp *)
(* and the event commands of service/core/src/system_commands.cpp).        *)
(*                                                                         *)
(* A command reads the event's row, then its files one by one, and only    *)
(* then marks the row: verified, or failed.  Several threads do so at the  *)
(* same time, while the event is being committed, uploaded or deleted and  *)
(* while its files may get damaged.                                        *)
(*                                                                         *)
(* One event with its manifest and some files.  A file is altered when its *)
(* digest does not match any more and cut when its length does not either; *)
(* the manifest check compares lengths, reading a file compares digests.   *)
(* The formats of blocks, manifests and archives are left out.             *)
(***************************************************************************)
EXTENDS Integers, Sequences

CONSTANTS
    Readers,        \* the threads that execute the event commands
    FileCount,      \* the files of the event, numbered as they are read
    Thumbnail,      \* the first key frame, which a summary reads
    MaximumFaults   \* bound: damages, failures of an export

ASSUME InspectionAssumption ==
    /\ FileCount \in Nat
    /\ Thumbnail \in 1..FileCount
    /\ MaximumFaults \in Nat

VARIABLES
    record,      \* the event's row
    place,       \* where its directory is
    content,     \* file -> its content
    retention,   \* deletion_state of the event's retention row
    reading,     \* reader -> the check it makes
    faults,      \* faults so far (bounded)
    suspected,   \* history: something happened that may mark the event failed
    starts       \* whether the last start of the service succeeded

inspectionVars == <<record, place, content, retention, reading, faults, suspected, starts>>

EventFiles == 1..FileCount

NoCheck == [kind |-> "none", step |-> "none", unread |-> <<>>]

Kinds == {"get", "summary", "manifest", "export", "upload"}

\* What a check reads after the manifest.
Unread(kind) ==
    CASE kind \in {"get", "export", "upload"} -> [f \in EventFiles |-> f]
      [] kind = "summary"                     -> <<Thumbnail>>
      [] kind = "manifest"                    -> <<>>

AnyRecord(kind) == kind = "upload" => record.upload = "Pending"

\* A record without artifacts is answered without looking at files; only an
\* upload that is queued is attempted.
Available(kind) ==
    /\ record.artifacts
    /\ kind = "upload" => record.upload = "Pending"

-----------------------------------------------------------------------------
(* Commit: the directory is moved into place, then the row is written. *)

CommitDirectory ==
    /\ place = "staging"
    /\ place' = "committed"
    /\ UNCHANGED <<record, content, retention, reading, faults, suspected, starts>>

Indexed(r) == [r EXCEPT !.committed = TRUE, !.artifacts = TRUE, !.storage = "Present"]

WriteRow ==
    /\ place = "committed"
    /\ ~record.committed
    /\ record' = [Indexed(record) EXCEPT !.upload = "Pending"]
    /\ UNCHANGED <<place, content, retention, reading, faults, suspected, starts>>

-----------------------------------------------------------------------------
(* The checks *)

BeginCheck(r, kind) ==
    /\ starts
    /\ reading[r] = NoCheck
    /\ Available(kind)
    /\ reading' = [reading EXCEPT ![r] =
           [kind |-> kind, step |-> IF kind = "upload" THEN "files" ELSE "manifest",
            unread |-> Unread(kind)]]
    /\ UNCHANGED <<record, place, content, retention, faults, suspected, starts>>

\* get_manifest and an upload leave the row alone when they cannot read.
AfterFailure(kind) ==
    IF kind = "manifest" THEN NoCheck ELSE [kind |-> kind, step |-> "failed", unread |-> <<>>]

ManifestVerifies ==
    /\ place = "committed"
    /\ \A f \in EventFiles : content[f] # "cut"

ReadManifest(r) ==
    /\ reading[r].step = "manifest"
    /\ reading' = [reading EXCEPT ![r] =
           CASE ManifestVerifies /\ reading[r].kind = "manifest" -> NoCheck
             [] ManifestVerifies -> [reading[r] EXCEPT !.step = "files"]
             [] OTHER            -> AfterFailure(reading[r].kind)]
    /\ UNCHANGED <<record, place, content, retention, faults, suspected, starts>>

\* read_verified_file
Reads(f) == place = "committed" /\ content[f] = "whole"

ReadFile(r) ==
    /\ reading[r].step = "files"
    /\ reading[r].unread # <<>>
    /\ reading' = [reading EXCEPT ![r] =
           IF Reads(Head(reading[r].unread))
           THEN [reading[r] EXCEPT !.unread = Tail(@)]
           ELSE AfterFailure(reading[r].kind)]
    /\ UNCHANGED <<record, place, content, retention, faults, suspected, starts>>

\* The archive is written as the files are read: its staging directory, its
\* volume or its limits may refuse it, and that ends the check like a file
\* that does not match.
ExportFails(r) ==
    /\ faults < MaximumFaults
    /\ reading[r].step \in {"manifest", "files"}
    /\ reading[r].kind = "export"
    /\ reading' = [reading EXCEPT ![r] = AfterFailure("export")]
    /\ faults' = faults + 1
    /\ suspected' = TRUE
    /\ UNCHANGED <<record, place, content, retention, starts>>

\* mark_event_integrity_verified after event.get and event.export; a summary
\* says nothing of the files it did not read.
Finish(r) ==
    /\ reading[r].step = "files"
    /\ reading[r].unread = <<>>
    /\ record' =
         CASE reading[r].kind \in {"get", "export"} /\ record.committed ->
                [record EXCEPT !.integrity = "Verified", !.storage = "Present",
                               !.artifacts = TRUE]
           [] reading[r].kind = "upload" /\ record.upload = "Pending" ->
                [record EXCEPT !.upload = "Uploaded"]
           [] OTHER -> record
    /\ reading' = [reading EXCEPT ![r] = NoCheck]
    /\ UNCHANGED <<place, content, retention, faults, suspected, starts>>

\* mark_event_integrity_failed changes committed rows only and leaves their
\* open upload jobs to an operator.
MarkFailed(r) ==
    /\ reading[r].step = "failed"
    /\ record' =
         IF record.committed
         THEN [record EXCEPT !.integrity = "Failed", !.storage = "Damaged",
                             !.artifacts = FALSE, !.upload = "ManualIntervention"]
         ELSE record
    /\ reading' = [reading EXCEPT ![r] = NoCheck]
    /\ UNCHANGED <<place, content, retention, faults, suspected, starts>>

-----------------------------------------------------------------------------
(* What happens meanwhile *)

ClaimDeletion ==
    /\ starts
    /\ retention = "Active"
    /\ record.upload = "Uploaded"
    /\ record.storage = "Present"
    /\ retention' = "DeletePending"
    /\ suspected' = TRUE
    /\ UNCHANGED <<record, place, content, reading, faults, starts>>

MoveAside ==
    /\ starts
    /\ retention = "DeletePending"
    /\ place = "committed"
    /\ place' = "deleted"
    /\ UNCHANGED <<record, content, retention, reading, faults, suspected, starts>>

\* complete_deletion leaves artifacts_available as it is.
CompleteDeletion ==
    /\ starts
    /\ retention = "DeletePending"
    /\ place = "deleted"
    /\ retention' = "Deleted"
    /\ record' = [record EXCEPT !.storage = "Missing"]
    /\ UNCHANGED <<place, content, reading, faults, suspected, starts>>

DamageFile(f, how) ==
    /\ faults < MaximumFaults
    /\ content[f] # how
    /\ content' = [content EXCEPT ![f] = how]
    /\ faults' = faults + 1
    /\ suspected' = TRUE
    /\ UNCHANGED <<record, place, retention, reading, starts>>

\* A row that says failed cannot announce its artifacts again: the schema
\* refuses it and the start of the service ends there.
Restart ==
    /\ starts
    /\ reading' = [r \in Readers |-> NoCheck]
    /\ starts' = (place = "committed" => ManifestVerifies /\ record.integrity # "Failed")
    /\ record' = IF starts' /\ place = "committed" THEN Indexed(record)
                 ELSE IF starts' /\ record.committed THEN [record EXCEPT !.storage = "Missing"]
                 ELSE record
    /\ UNCHANGED <<place, content, retention, faults, suspected>>

-----------------------------------------------------------------------------

InspectionInit ==
    /\ record = [committed |-> FALSE, integrity |-> "Unverified", storage |-> "Collecting",
                 artifacts |-> FALSE, upload |-> "NotQueued"]
    /\ place = "staging"
    /\ content = [f \in EventFiles |-> "whole"]
    /\ retention = "Active"
    /\ reading = [r \in Readers |-> NoCheck]
    /\ faults = 0
    /\ suspected = FALSE
    /\ starts = TRUE

CheckNext(r) ==
    \/ \E kind \in Kinds : BeginCheck(r, kind)
    \/ ReadManifest(r) \/ ReadFile(r) \/ ExportFails(r) \/ Finish(r) \/ MarkFailed(r)

InspectionNext ==
    \/ \E r \in Readers : CheckNext(r)
    \/ CommitDirectory \/ WriteRow
    \/ ClaimDeletion \/ MoveAside \/ CompleteDeletion
    \/ \E f \in EventFiles, how \in {"altered", "cut"} : DamageFile(f, how)
    \/ Restart

InspectionSpec == InspectionInit /\ [][InspectionNext]_inspectionVars

-----------------------------------------------------------------------------
(* Properties *)

\* An event is marked failed, and its uploads are given up, only if a file was
\* damaged, an export failed for another reason or the event was claimed for
\* deletion; a check that overlaps the commit never does it
\* (system_commands.cpp:2121-2153).
FailedHasCause == record.integrity = "Failed" => suspected

\* Not so: an event is marked failed only if a file of it is damaged.
FailedIsDamaged ==
    record.integrity = "Failed" => \E f \in EventFiles : content[f] # "whole"

\* Not so: what was deleted after its upload is never reported damaged.
DeletedStaysQuiet == retention = "Deleted" => record.storage = "Missing"

\* Not so: a failed check of one event never ends the next start.
StartsAfterChecks ==
    starts \/ \E f \in EventFiles : content[f] # "whole"

=============================================================================
