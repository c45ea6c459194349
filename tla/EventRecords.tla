------------------------------ MODULE EventRecords ------------------------------
(***************************************************************************)
(* An event between its first candidate and its committed evidence: the    *)
(* row the metadata database keeps of it, its directory on disk, and the   *)
(* three threads of the event runtime that move it along.                  *)
(*   event thread        opens the row, merges triggers, applies decisions *)
(*                       and freezes the window (process_result, freeze);  *)
(*   JPEG thread         hands the event to persistence;                   *)
(*   persistence thread  writes the directory and commits the row.         *)
(* The database runs one statement or transaction at a time.  Whoever      *)
(* changes a row after reading it does so in two calls, and the other      *)
(* threads may come in between.                                            *)
(*                                                                         *)
(* The process may end at any time, by a crash or a stop.  The next start  *)
(* recovers the transaction directories and reconciles the rows with the   *)
(* directories, before any thread runs.                                    *)
(*                                                                         *)
(* Left out: trigger counts, times and all other columns no property       *)
(* needs, human review, errors of SQLite itself, NVMe leases, and a crash  *)
(* inside recover_pending or reconcile, which start over unharmed.         *)
(***************************************************************************)
EXTENDS Integers, Sequences, FiniteSets

CONSTANTS
    Events,            \* canonical events
    Sources,           \* candidate events that may merge into one canonical event
    PendingCapacity,   \* events that may wait for their key frames
    QueueCapacity,     \* events that may wait for the persistence thread
    MaximumRestarts    \* bound: process starts explored
    
ASSUME RecordsAssumption ==
    /\ IsFiniteSet(Events)
    /\ PendingCapacity \in Nat
    /\ QueueCapacity \in Nat
    /\ MaximumRestarts \in Nat

VARIABLES
    row,       \* row[e]: the events row, NoRow before there is one
    disk,      \* disk[e]: where e's files are and what they hold
    outcome,   \* outcome[e][s]: the decision of source s, "absent" before it merges
    mapped,    \* mapped[e]: the sources the runtime still maps to e
    stage,     \* stage[e]: how far the runtime is with e
    snapshot,  \* snapshot[e]: the decision e's metadata was frozen with
    applying,  \* the decision the event thread is writing to a row
    writer,    \* the event the persistence thread works on
    queue,     \* events that wait for the persistence thread
    service,   \* "down", "loading", "recovered", "running" or "failed"
    restarts

rowVars     == <<row, disk>>
runtimeVars == <<outcome, mapped, stage, snapshot, applying, writer, queue>>
processVars == <<service, restarts>>
recordVars  == <<row, disk, outcome, mapped, stage, snapshot, applying, writer,
                 queue, service, restarts>>

-----------------------------------------------------------------------------
(* Values *)

Terminal  == {"Confirmed", "Timeout", "Rejected"}
Decisions == Terminal \cup {"Candidate"}

\* The priority in which the decisions of merged sources are combined.
Rank(d) ==
    CASE d = "Confirmed" -> 4
      [] d = "Candidate" -> 3
      [] d = "Timeout"   -> 2
      [] OTHER           -> 1

Persistence ==
    {"Collecting", "Encoding", "Queued", "Writing", "Committed", "Incomplete"}

\* directory is FALSE while relative_directory is still empty.
Rows ==
    [decision : Decisions, persistence : Persistence,
     storage : {"Collecting", "Present", "Missing", "Damaged"},
     directory : BOOLEAN, integrity : {"Unverified", "Verified", "Failed"}]

NoRow == [persistence |-> "absent"]

HasRow(e) == row[e] # NoRow

\* "partial" and "complete" are transaction directories, without a manifest
\* and with one.
Places == {"nowhere", "partial", "complete", "committed", "quarantined"}

\* "altered" files still have the lengths of their manifest, "truncated" do not.
Contents == {"intact", "altered", "truncated"}

Disks == [place : Places, content : Contents]

Stages ==
    {"unborn", "collecting", "encoding", "submitting", "queued", "writing",
     "published", "failing", "over"}

\* A thread without a task.
Nobody == [event |-> "none"]

DecisionTasks == [event : Events, source : Sources, persistence : Persistence]
WriterTasks   == [event : Events, decision : Decisions]

-----------------------------------------------------------------------------
(* Statements of the database *)

\* artifacts_available is a function of two other columns, and the schema's
\* CHECK refuses a row whose integrity check failed but whose artifacts are
\* available.
ArtifactsAvailable(r) == r.persistence = "Committed" /\ r.integrity # "Failed"

RefusedBySchema(r, persistence) ==
    persistence = "Committed" /\ r.integrity = "Failed"

\* Mutant of LifecycleDecision: a late source may downgrade a confirmed event.
LifecycleDecisionPlain(current, decision) == decision

LifecycleDecision(current, decision) ==
    IF current = "Confirmed" THEN current ELSE decision

\* update_event_lifecycle writes both states as its caller gives them.
UpdateLifecycle(r, decision, persistence) ==
    IF RefusedBySchema(r, persistence) THEN r
    ELSE [r EXCEPT !.decision = LifecycleDecision(@, decision),
                   !.persistence = persistence,
                   !.storage = CASE persistence = "Committed"  -> "Present"
                                 [] persistence = "Incomplete" -> "Damaged"
                                 [] OTHER                      -> "Collecting"]

CollectingRow(decision) ==
    [decision |-> decision, persistence |-> "Collecting", storage |-> "Collecting",
     directory |-> FALSE, integrity |-> "Unverified"]

\* Mutant of IndexedRow: the manifest's decision always wins.
IndexedRowFromManifest(r, decision) ==
    [r EXCEPT !.decision = decision, !.persistence = "Committed",
              !.storage = "Present", !.directory = TRUE]

\* index_manifest keeps the decision of a row that is no candidate any more.
IndexedRow(r, decision) ==
    IF r = NoRow
    THEN [CollectingRow(decision) EXCEPT
             !.persistence = "Committed", !.storage = "Present", !.directory = TRUE]
    ELSE [r EXCEPT !.decision = IF @ = "Candidate" THEN decision ELSE @,
                   !.persistence = "Committed",
                   !.storage = "Present",
                   !.directory = TRUE]

-----------------------------------------------------------------------------
(* The event thread *)

Running == service = "running"

EventThreadIdle == Running /\ applying = Nobody

AggregateOf(outcomes, sources) ==
    LET decided == {outcomes[s] : s \in sources} \ {"absent"}
    IN  IF decided = {} THEN "Rejected"
        ELSE CHOOSE d \in decided : \A other \in decided : Rank(d) >= Rank(other)

\* start_candidate_window: the first source opens the row, a later one that
\* falls into the open window merges.  Both bring the row back to Collecting.
StartOrMerge(e, s) ==
    LET outcomes == [outcome[e] EXCEPT ![s] = "Candidate"]
        sources  == mapped[e] \cup {s}
        decision == AggregateOf(outcomes, sources)
    IN  /\ EventThreadIdle
        /\ stage[e] \in {"unborn", "collecting"}
        /\ outcome[e][s] = "absent"
        /\ outcome' = [outcome EXCEPT ![e] = outcomes]
        /\ mapped' = [mapped EXCEPT ![e] = sources]
        /\ stage' = [stage EXCEPT ![e] = "collecting"]
        /\ row' = [row EXCEPT ![e] =
               UpdateLifecycle(IF HasRow(e) THEN @ ELSE CollectingRow(decision),
                               decision, "Collecting")]
        /\ UNCHANGED <<disk, snapshot, applying, writer, queue>>
        /\ UNCHANGED processVars

\* apply_candidate_decision up to the read of the row ...
ReadForDecision(e, s, decision) ==
    /\ EventThreadIdle
    /\ s \in mapped[e]
    /\ outcome[e][s] = "Candidate"
    /\ outcome' = [outcome EXCEPT ![e][s] = decision]
    /\ applying' = [event |-> e, source |-> s, persistence |-> row[e].persistence]
    /\ UNCHANGED <<mapped, stage, snapshot, writer, queue>>
    /\ UNCHANGED <<rowVars, processVars>>

\* ... and from there on: the persistence state that was read is written back,
\* and a source whose window is closed is no longer mapped.
WriteDecision ==
    LET e == applying.event IN
    /\ Running
    /\ applying # Nobody
    /\ row' = [row EXCEPT ![e] =
           UpdateLifecycle(@, AggregateOf(outcome[e], mapped[e]), applying.persistence)]
    /\ mapped' = IF stage[e] = "collecting" THEN mapped
                 ELSE [mapped EXCEPT ![e] = @ \ {applying.source}]
    /\ applying' = Nobody
    /\ UNCHANGED <<disk, outcome, stage, snapshot, writer, queue>>
    /\ UNCHANGED processVars

\* freeze releases the sources that are decided.
Undecided(e) == {s \in mapped[e] : outcome[e][s] \notin Terminal}

Pending == {e \in Events : stage[e] = "encoding"}

\* freeze: the window closes, the metadata is frozen with the row's decision,
\* and the key frames go to the JPEG thread.
Freeze(e) ==
    /\ EventThreadIdle
    /\ stage[e] = "collecting"
    /\ Cardinality(Pending) < PendingCapacity
    /\ snapshot' = [snapshot EXCEPT ![e] = row[e].decision]
    /\ row' = [row EXCEPT ![e] = UpdateLifecycle(@, @.decision, "Encoding")]
    /\ stage' = [stage EXCEPT ![e] = "encoding"]
    /\ mapped' = [mapped EXCEPT ![e] = Undecided(e)]
    /\ UNCHANGED <<disk, outcome, applying, writer, queue>>
    /\ UNCHANGED processVars

\* No key frames could be selected, or too many events wait for theirs.
FreezeFails(e) ==
    /\ EventThreadIdle
    /\ stage[e] = "collecting"
    /\ row' = [row EXCEPT ![e] = UpdateLifecycle(@, "Candidate", "Incomplete")]
    /\ stage' = [stage EXCEPT ![e] = "over"]
    /\ mapped' = [mapped EXCEPT ![e] = Undecided(e)]
    /\ UNCHANGED <<disk, outcome, snapshot, applying, writer, queue>>
    /\ UNCHANGED processVars

-----------------------------------------------------------------------------
(* The JPEG thread *)

\* A key frame could not be encoded, or the storage policy admits no large
\* write: the event ends with the decision it was frozen with.
EncodingFails(e) ==
    /\ Running
    /\ stage[e] = "encoding"
    /\ row' = [row EXCEPT ![e] = UpdateLifecycle(@, snapshot[e], "Incomplete")]
    /\ stage' = [stage EXCEPT ![e] = "over"]
    /\ UNCHANGED <<disk, outcome, mapped, snapshot, applying, writer, queue>>
    /\ UNCHANGED processVars

\* Mutant of MarkQueued: the event is marked queued and never submitted.
MarkQueuedUnsubmitted(e) ==
    /\ Running
    /\ stage[e] = "encoding"
    /\ row' = [row EXCEPT ![e] = UpdateLifecycle(@, snapshot[e], "Queued")]
    /\ stage' = [stage EXCEPT ![e] = "queued"]
    /\ UNCHANGED <<disk, outcome, mapped, snapshot, applying, writer, queue>>
    /\ UNCHANGED processVars

\* submit_persistence: the row is queued first ...
MarkQueued(e) ==
    /\ Running
    /\ stage[e] = "encoding"
    /\ row' = [row EXCEPT ![e] = UpdateLifecycle(@, snapshot[e], "Queued")]
    /\ stage' = [stage EXCEPT ![e] = "submitting"]
    /\ UNCHANGED <<disk, outcome, mapped, snapshot, applying, writer, queue>>
    /\ UNCHANGED processVars

\* ... and then the event, if the queue has room.
Submit(e) ==
    /\ Running
    /\ stage[e] = "submitting"
    /\ Len(queue) < QueueCapacity
    /\ queue' = Append(queue, e)
    /\ stage' = [stage EXCEPT ![e] = "queued"]
    /\ UNCHANGED <<outcome, mapped, snapshot, applying, writer>>
    /\ UNCHANGED <<rowVars, processVars>>

SubmitRefused(e) ==
    /\ Running
    /\ stage[e] = "submitting"
    /\ Len(queue) >= QueueCapacity
    /\ row' = [row EXCEPT ![e] = UpdateLifecycle(@, "Rejected", "Incomplete")]
    /\ stage' = [stage EXCEPT ![e] = "over"]
    /\ UNCHANGED <<disk, outcome, mapped, snapshot, applying, writer, queue>>
    /\ UNCHANGED processVars

-----------------------------------------------------------------------------
(* The persistence thread *)

\* writing_observer reads the row ...
TakeJob ==
    /\ Running
    /\ writer = Nobody
    /\ queue # <<>>
    /\ writer' = [event |-> Head(queue), decision |-> row[Head(queue)].decision]
    /\ queue' = Tail(queue)
    /\ UNCHANGED <<outcome, mapped, stage, snapshot, applying>>
    /\ UNCHANGED <<rowVars, processVars>>

\* ... and writes back the decision it read.
MarkWriting ==
    LET e == writer.event IN
    /\ Running
    /\ writer # Nobody
    /\ stage[e] = "queued"
    /\ row' = [row EXCEPT ![e] = UpdateLifecycle(@, writer.decision, "Writing")]
    /\ stage' = [stage EXCEPT ![e] = "writing"]
    /\ UNCHANGED <<disk, outcome, mapped, snapshot, applying, writer, queue>>
    /\ UNCHANGED processVars

\* persist: the transaction directory, its files, the manifest last.
WriteTransaction ==
    LET e == writer.event IN
    /\ Running
    /\ writer # Nobody
    /\ stage[e] = "writing"
    /\ \/ /\ disk[e].place = "nowhere"
          /\ disk' = [disk EXCEPT ![e].place = "partial"]
       \/ /\ disk[e].place = "partial"
          /\ disk' = [disk EXCEPT ![e].place = "complete"]
    /\ UNCHANGED <<row, runtimeVars, processVars>>

\* The move into place is the commit.
Publish ==
    LET e == writer.event IN
    /\ Running
    /\ writer # Nobody
    /\ stage[e] = "writing"
    /\ disk[e].place = "complete"
    /\ disk' = [disk EXCEPT ![e].place = "committed"]
    /\ stage' = [stage EXCEPT ![e] = "published"]
    /\ UNCHANGED <<row, outcome, mapped, snapshot, applying, writer, queue>>
    /\ UNCHANGED processVars

\* A failed write leaves the transaction directory as it is.
PersistFails ==
    LET e == writer.event IN
    /\ Running
    /\ writer # Nobody
    /\ stage[e] = "writing"
    /\ stage' = [stage EXCEPT ![e] = "failing"]
    /\ UNCHANGED <<outcome, mapped, snapshot, applying, writer, queue>>
    /\ UNCHANGED <<rowVars, processVars>>

JobOver(e) ==
    /\ stage' = [stage EXCEPT ![e] = "over"]
    /\ writer' = Nobody
    /\ UNCHANGED <<outcome, mapped, snapshot, applying, queue>>

\* Mutant of CommitRow: the row is committed before the directory is in place.
CommitRowEarly ==
    LET e == writer.event IN
    /\ Running
    /\ writer # Nobody
    /\ stage[e] = "published" \/ (stage[e] = "writing" /\ disk[e].place = "complete")
    /\ row' = [row EXCEPT ![e] = IndexedRow(@, snapshot[e])]
    /\ JobOver(e)
    /\ UNCHANGED <<disk, processVars>>

\* persistence_completed
CommitRow ==
    LET e == writer.event IN
    /\ Running
    /\ writer # Nobody
    /\ stage[e] = "published"
    /\ row' = [row EXCEPT ![e] = IndexedRow(@, snapshot[e])]
    /\ JobOver(e)
    /\ UNCHANGED <<disk, processVars>>

RecordFailure ==
    LET e == writer.event IN
    /\ Running
    /\ writer # Nobody
    /\ stage[e] = "failing"
    /\ row' = [row EXCEPT ![e] = UpdateLifecycle(@, "Rejected", "Incomplete")]
    /\ JobOver(e)
    /\ UNCHANGED <<disk, processVars>>

-----------------------------------------------------------------------------
(* The files, and the checks that find them damaged *)

\* The disk loses what was written: external to the program.
Damage(e, content) ==
    /\ disk[e].place \in {"complete", "committed"}
    /\ disk[e].content = "intact"
    /\ disk' = [disk EXCEPT ![e].content = content]
    /\ UNCHANGED <<row, runtimeVars, processVars>>

\* event.get and event.export check every file of an event whose artifacts
\* are available, and record what they find.
Inspect(e) ==
    /\ Running
    /\ HasRow(e)
    /\ ArtifactsAvailable(row[e])
    /\ row' = [row EXCEPT ![e] =
           IF disk[e] = [place |-> "committed", content |-> "intact"]
           THEN [@ EXCEPT !.integrity = "Verified", !.storage = "Present"]
           ELSE [@ EXCEPT !.integrity = "Failed", !.storage = "Damaged"]]
    /\ UNCHANGED <<disk, runtimeVars, processVars>>

-----------------------------------------------------------------------------
(* The end of the process and the next start *)

\* Everything in memory is gone; an event the runtime was busy with has no
\* thread any more.
Down ==
    /\ service \in {"loading", "recovered", "running"}
    /\ restarts < MaximumRestarts
    /\ service' = "down"
    /\ outcome' = [e \in Events |-> [s \in Sources |-> "absent"]]
    /\ mapped' = [e \in Events |-> {}]
    /\ stage' = [e \in Events |-> IF stage[e] = "unborn" THEN "unborn" ELSE "over"]
    /\ applying' = Nobody
    /\ writer' = Nobody
    /\ queue' = <<>>
    /\ UNCHANGED <<rowVars, snapshot, restarts>>

\* A failed start may be repeated.
Boot ==
    /\ service \in {"down", "failed"}
    /\ restarts < MaximumRestarts
    /\ service' = "loading"
    /\ restarts' = restarts + 1
    /\ UNCHANGED <<rowVars, runtimeVars>>

\* Mutant of RecoveredPlace: whole transactions are set aside as well.
RecoveredPlaceStrict(d) ==
    IF d.place \in {"partial", "complete"} THEN "quarantined" ELSE d.place

\* recover_pending commits a whole transaction and sets any other aside.
RecoveredPlace(d) ==
    CASE d.place = "partial" -> "quarantined"
      [] d.place = "complete" ->
             IF d.content = "truncated" THEN "quarantined" ELSE "committed"
      [] OTHER -> d.place

RecoverPending ==
    /\ service = "loading"
    /\ service' = "recovered"
    /\ disk' = [e \in Events |-> [disk[e] EXCEPT !.place = RecoveredPlace(disk[e])]]
    /\ UNCHANGED <<row, runtimeVars, restarts>>

Committed == {e \in Events : disk[e].place = "committed"}

\* Why a committed directory cannot be indexed: its files do not have the
\* lengths of the manifest, or the schema refuses the row.
Indexable(e) ==
    /\ disk[e].content # "truncated"
    /\ HasRow(e) => ~RefusedBySchema(row[e], "Committed")

\* The directory of a row, the event root itself while the path is empty.
DirectoryExists(e) == row[e].directory => disk[e].place = "committed"

ReconciledRow(e) ==
    IF e \in Committed THEN IndexedRow(row[e], snapshot[e])
    ELSE IF ~HasRow(e) THEN NoRow
    ELSE [row[e] EXCEPT !.storage =
              IF DirectoryExists(e) THEN "Present" ELSE "Missing"]

\* reconcile: every committed directory is indexed, then every row's storage
\* state is set by whether its directory exists.
Reconcile ==
    /\ service = "recovered"
    /\ \A e \in Committed : Indexable(e)
    /\ row' = [e \in Events |-> ReconciledRow(e)]
    /\ service' = "running"
    /\ UNCHANGED <<disk, runtimeVars, restarts>>

\* The first directory that cannot be indexed ends reconcile and the start.
\* The directories before it have been indexed.
ReconcileFails(indexed) ==
    /\ service = "recovered"
    /\ \E e \in Committed : ~Indexable(e)
    /\ \A e \in indexed : e \in Committed /\ Indexable(e)
    /\ row' = [e \in Events |->
                  IF e \in indexed THEN IndexedRow(row[e], snapshot[e]) ELSE row[e]]
    /\ service' = "failed"
    /\ UNCHANGED <<disk, runtimeVars, restarts>>

-----------------------------------------------------------------------------

RecordsInit ==
    /\ row = [e \in Events |-> NoRow]
    /\ disk = [e \in Events |-> [place |-> "nowhere", content |-> "intact"]]
    /\ outcome = [e \in Events |-> [s \in Sources |-> "absent"]]
    /\ mapped = [e \in Events |-> {}]
    /\ stage = [e \in Events |-> "unborn"]
    /\ snapshot = [e \in Events |-> "Candidate"]
    /\ applying = Nobody
    /\ writer = Nobody
    /\ queue = <<>>
    /\ service = "running"
    /\ restarts = 0

EventThread ==
    \/ \E e \in Events, s \in Sources : StartOrMerge(e, s)
    \/ \E e \in Events, s \in Sources, d \in Terminal : ReadForDecision(e, s, d)
    \/ WriteDecision
    \/ \E e \in Events : Freeze(e) \/ FreezeFails(e)

JpegThread(e) == EncodingFails(e) \/ MarkQueued(e) \/ Submit(e) \/ SubmitRefused(e)

PersistenceThread ==
    TakeJob \/ MarkWriting \/ WriteTransaction \/ Publish \/ PersistFails
        \/ CommitRow \/ RecordFailure

RunningNext ==
    \/ EventThread
    \/ \E e \in Events : JpegThread(e)
    \/ PersistenceThread
    \/ \E e \in Events, content \in Contents \ {"intact"} : Damage(e, content)
    \/ \E e \in Events : Inspect(e)

StartNext ==
    \/ Boot
    \/ RecoverPending
    \/ Reconcile
    \/ \E indexed \in SUBSET Events : ReconcileFails(indexed)

RecordsNext == RunningNext \/ Down \/ StartNext

RecordsSpec == RecordsInit /\ [][RecordsNext]_recordVars

\* The JPEG and the persistence thread keep running while the process does.
\* Nothing is assumed of the cameras, so nothing of the event thread either.
FairRecordsSpec ==
    /\ RecordsSpec
    /\ \A e \in Events : WF_recordVars(JpegThread(e))
    /\ WF_recordVars(PersistenceThread)

-----------------------------------------------------------------------------
(* Properties *)

\* Every variable keeps its type, and no queue outgrows its capacity.
RecordsTypeOK ==
    /\ row \in [Events -> Rows \cup {NoRow}]
    /\ disk \in [Events -> Disks]
    /\ outcome \in [Events -> [Sources -> Decisions \cup {"absent"}]]
    /\ mapped \in [Events -> SUBSET Sources]
    /\ stage \in [Events -> Stages]
    /\ snapshot \in [Events -> Decisions]
    /\ applying \in DecisionTasks \cup {Nobody}
    /\ writer \in WriterTasks \cup {Nobody}
    /\ queue \in Seq(Events)
    /\ Len(queue) <= QueueCapacity
    /\ Cardinality(Pending) <= PendingCapacity
    /\ service \in {"down", "loading", "recovered", "running", "failed"}
    /\ restarts \in 0 .. MaximumRestarts

\* A row that is Confirmed stays so, whatever late sources, frozen snapshots,
\* failed writes and restarts write to it (update_event_lifecycle and
\* index_manifest).
ConfirmedStays ==
    [][\A e \in Events :
          HasRow(e) /\ row[e].decision = "Confirmed"
              => HasRow(e)' /\ row'[e].decision = "Confirmed"]_recordVars

\* A confirmation is never lost on its way to the row: once a source of the
\* event is Confirmed and the event thread has applied it, so is the row.  The
\* exception is an event whose files are known to be damaged: the schema
\* refuses its update.
ConfirmationReachesRow ==
    \A e \in Events, s \in Sources :
        /\ outcome[e][s] = "Confirmed"
        /\ applying # Nobody => applying.event # e
        /\ row[e].integrity # "Failed"
        => row[e].decision = "Confirmed"

\* Whoever reads a Committed row may open the event's directory: it is there
\* whenever the row says Committed, at any moment of any run.
CommittedHasDirectory ==
    \A e \in Events :
        HasRow(e) /\ row[e].persistence = "Committed" => disk[e].place = "committed"

\* Evidence that was written in full is never set aside nor left half-way: its
\* directory is complete or committed for ever, unless it lost its bytes.
EvidenceSurvives ==
    [][\A e \in Events :
          /\ disk[e].place \in {"complete", "committed"}
          /\ disk[e].content # "truncated"
          => disk'[e].place \in {"complete", "committed"}]_recordVars

\* When a start has succeeded no transaction is left open, every committed
\* directory is found through a Committed row, and a row whose directory is
\* gone is Missing.
RestartIndexes ==
    [][service # "running" /\ service' = "running" =>
          \A e \in Events :
              /\ disk'[e].place \notin {"partial", "complete"}
              /\ disk'[e].place = "committed" =>
                     /\ HasRow(e)'
                     /\ row'[e].persistence = "Committed"
                     /\ row'[e].storage = "Present"
              /\ HasRow(e)' /\ row'[e].directory /\ disk'[e].place # "committed" =>
                     row'[e].storage = "Missing"]_recordVars

\* A frozen event is finished or given up: no failed encoding, refused
\* submission or failed write leaves it waiting for a thread for ever.
FrozenEventsFinish ==
    \A e \in Events : stage[e] = "encoding" ~> stage[e] = "over"

-----------------------------------------------------------------------------
(* What the documents say and the code does not keep *)

\* The persistence state only moves forward, so a row never leaves Committed
\* while the process runs.
CommittedIsFinal ==
    [][\A e \in Events :
          HasRow(e) /\ row[e].persistence = "Committed"
              => row'[e].persistence = "Committed"]_recordVars

\* Timeout, Rejected and Confirmed end the decision of a candidate, and the row
\* shows the combined decision of its sources: no row goes back to Candidate
\* once all of its sources are decided.
TerminalIsFinal ==
    [][\A e \in Events :
          /\ HasRow(e)
          /\ row[e].decision \in Terminal
          /\ \A s \in Sources : outcome[e][s] \in Terminal
          => row'[e].decision # "Candidate"]_recordVars

\* A directory that cannot be reconciled keeps its facts and the recovery goes
\* on: damaged evidence of one event never ends a start of the service.
StartsWithDamage == service # "failed"

=============================================================================
