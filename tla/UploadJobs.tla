------------------------------- MODULE UploadJobs -------------------------------
(***************************************************************************)
(* The persistent upload jobs of committed events: a row of upload_jobs    *)
(* for the alarm, the manifest and every file of an event.  They are made  *)
(* by three threads, one part at a time,                                   *)
(*   persistence   when it has committed the event,                        *)
(*   command       when an operator has reviewed it,                       *)
(*   boot          for every event of the last run, before anything else,  *)
(* and carried out by the one worker of the scheduler, which claims a job  *)
(* in the database, executes it and records its outcome.  A failed         *)
(* integrity check and an operator's retry change the same rows.           *)
(*                                                                         *)
(* Every call of the database is one transaction.  Nothing else of the     *)
(* process survives its end.                                               *)
(*                                                                         *)
(* Left out: the byte budget next to the job budget, retry delays (a job   *)
(* that waits may be due or not), the age of jobs of equal priority,       *)
(* checkpoints, chunks, errors of SQLite itself, and exceptions thrown by   *)
(* the executor.                                                           *)
(***************************************************************************)
EXTENDS Integers, Sequences, FiniteSets

CONSTANTS
    Events,
    Files,             \* kinds of the files of an event, in the manifest's order
    UploadPolicy,      \* "all", "confirmed" or "never"
    MaximumAttempts,   \* executions of a job before it waits for an operator
    JobCapacity,       \* jobs that are not Completed
    HistoryCapacity,   \* jobs of any state
    MaximumRestarts,   \* bound: process starts explored
    MaximumRequests    \* bound: reviews and retries explored

FileKinds == {"keyframe", "replay", "raw"}

Parts == <<"alarm", "manifest">> \o Files

Kinds == {"alarm", "manifest"} \cup FileKinds

ASSUME UploadsAssumption ==
    /\ IsFiniteSet(Events)
    /\ Files \in Seq(FileKinds)
    /\ \A i, j \in 1 .. Len(Files) : Files[i] = Files[j] => i = j
    /\ UploadPolicy \in {"all", "confirmed", "never"}
    /\ MaximumAttempts \in Nat \ {0}
    /\ JobCapacity \in Nat
    /\ HistoryCapacity \in Nat
    /\ MaximumRestarts \in Nat
    /\ MaximumRequests \in Nat

VARIABLES
    event,      \* event[e]: the events row, NoEvent until it is committed
    job,        \* job[e][p]: the job of part p, NoJob while there is none
    damaged,    \* damaged[e]: the files have changed since the manifest
    received,   \* received[e]: what the upper computer has acknowledged or stored
    enqueuer,   \* enqueuer[t]: the event thread t is making jobs for
    retrying,   \* the event whose retry the command thread has admitted
    claim,      \* the job the scheduler's worker executes
    recovered,  \* the worker has taken back the jobs of the last run
    service,    \* "down", "boot", "running", "stopping" or "failed"
    unvisited,  \* events the boot loop has still to visit
    restarts, requests

uploadVars == <<event, job, damaged, received, enqueuer, retrying, claim,
                recovered, service, unvisited, restarts, requests>>
outside    == <<damaged, received>>
process    == <<recovered, service, unvisited, restarts, requests>>

-----------------------------------------------------------------------------
(* Values *)

EventRows ==
    [decision : {"Candidate", "Confirmed"}, reviewed : {"no", "Confirmed", "Rejected"},
     upload : {"Pending", "Uploaded", "ManualIntervention"}, failed : BOOLEAN]

NoEvent == [decision |-> "none"]

Exists(e) == event[e] # NoEvent

\* storage_state is Present and the artifacts are available until an
\* integrity check fails.
Present(e) == Exists(e) /\ ~event[e].failed

Waiting == {"Pending", "RetryWait"}
Open    == Waiting \cup {"InProgress"}
Stuck   == {"PermanentFailed", "ManualIntervention"}

Jobs == [state : Open \cup Stuck \cup {"Completed"}, attempts : Nat,
         payload : {"Candidate", "Confirmed"}]

NoJob == [state |-> "none"]

HasJob(e, p) == job[e][p] # NoJob

Priority(p) ==
    CASE p = "alarm"    -> 500
      [] p = "keyframe" -> 400
      [] p = "manifest" -> 300
      [] p = "replay"   -> 200
      [] OTHER          -> 100

PartsOf == {Parts[i] : i \in 1 .. Len(Parts)}

AllJobs == {j \in Events \X PartsOf : HasJob(j[1], j[2])}

InState(states) == {j \in AllJobs : job[j[1]][j[2]].state \in states}

Threads == {"persistence", "command", "boot"}

Nobody == [event |-> "none"]

\* next is the position of the part to be enqueued next.
EnqueueTasks == [event : Events, payload : {"Candidate", "Confirmed"},
                 next : 1 .. Len(Parts)]

Outcomes == {"none", "succeeded", "retryable", "permanent", "manual",
             "changed", "marking"}

Claims == [event : Events, part : PartsOf, outcome : Outcomes]

Alive == service \in {"running", "stopping"}

-----------------------------------------------------------------------------
(* Making jobs: enqueue_committed_event_uploads *)

\* A review does not change the decision the policy looks at.
Admits(decision) ==
    \/ UploadPolicy = "all"
    \/ UploadPolicy = "confirmed" /\ decision = "Confirmed"

TaskFor(e, row) ==
    IF Admits(row.decision) /\ ~row.failed
    THEN [event |-> e, payload |-> row.decision, next |-> 1]
    ELSE Nobody

NextPart(t) ==
    LET task == enqueuer[t] IN
    IF task.next = Len(Parts) THEN Nobody ELSE [task EXCEPT !.next = @ + 1]

\* The job thread t asks for has these contents already.
EnqueueDuplicate(t) ==
    LET e == enqueuer[t].event
        p == Parts[enqueuer[t].next]
    IN  /\ enqueuer[t] # Nobody
        /\ HasJob(e, p)
        /\ job[e][p].payload = enqueuer[t].payload
        /\ enqueuer' = [enqueuer EXCEPT ![t] = NextPart(t)]
        /\ UNCHANGED <<event, job, retrying, claim, outside, process>>

\* An error ends the task.  It ends the start as well.
EnqueueStops(t) ==
    /\ enqueuer' = [enqueuer EXCEPT ![t] = Nobody]
    /\ service' = IF t = "boot" THEN "failed" ELSE service
    /\ UNCHANGED <<event, job, retrying, claim, outside>>
    /\ UNCHANGED <<recovered, unvisited, restarts, requests>>

\* UPLOAD_JOB_CONFLICT: the same key, but the decision has changed since.
EnqueueConflict(t) ==
    LET e == enqueuer[t].event
        p == Parts[enqueuer[t].next]
    IN  /\ enqueuer[t] # Nobody
        /\ HasJob(e, p)
        /\ job[e][p].payload # enqueuer[t].payload
        /\ EnqueueStops(t)

AtCapacity == Cardinality(InState(Open \cup Stuck)) >= JobCapacity

HistoryFull == Cardinality(AllJobs) >= HistoryCapacity

\* UPLOAD_ENQUEUE_FAILED
EnqueueRefused(t) ==
    /\ enqueuer[t] # Nobody
    /\ ~HasJob(enqueuer[t].event, Parts[enqueuer[t].next])
    /\ AtCapacity \/ (HistoryFull /\ InState({"Completed"}) = {})
    /\ EnqueueStops(t)

\* A full history gives up a Completed job, the oldest one.
Prunable == IF HistoryFull THEN {{j} : j \in InState({"Completed"})} ELSE {{}}

NewJob(payload) == [state |-> "Pending", attempts |-> 0, payload |-> payload]

\* The job and the event's upload state change in one transaction.
EnqueueNew(t, pruned) ==
    LET task == enqueuer[t]
        e == task.event
        p == Parts[task.next]
    IN  /\ task # Nobody
        /\ ~HasJob(e, p)
        /\ ~AtCapacity
        /\ pruned \in Prunable
        /\ job' = [f \in Events |-> [q \in PartsOf |->
               CASE f = e /\ q = p       -> NewJob(task.payload)
                 [] <<f, q>> \in pruned  -> NoJob
                 [] OTHER                -> job[f][q]]]
        /\ event' = [event EXCEPT ![e].upload = "Pending"]
        /\ enqueuer' = [enqueuer EXCEPT ![t] = NextPart(t)]
        /\ UNCHANGED <<retrying, claim, outside, process>>

\* The event runtime commits an event.
Commit(e, decision) ==
    LET row == [decision |-> decision, reviewed |-> "no",
                upload |-> "Pending", failed |-> FALSE]
    IN  /\ Alive
        /\ enqueuer["persistence"] = Nobody
        /\ ~Exists(e)
        /\ event' = [event EXCEPT ![e] = row]
        /\ enqueuer' = [enqueuer EXCEPT !["persistence"] = TaskFor(e, row)]
        /\ UNCHANGED <<job, retrying, claim, outside, process>>

\* A source of the event decides after it was committed.  The schema lets no
\* row change its decision once the integrity check has failed.
DecideLate(e) ==
    /\ Alive
    /\ Present(e)
    /\ event[e].decision = "Candidate"
    /\ event' = [event EXCEPT ![e].decision = "Confirmed"]
    /\ UNCHANGED <<job, enqueuer, retrying, claim, outside, process>>

CommandIdle == Alive /\ enqueuer["command"] = Nobody /\ retrying = Nobody

\* event.confirm and event.reject; the same review again is accepted as well.
Review(e, verdict) ==
    /\ CommandIdle
    /\ Exists(e)
    /\ event[e].reviewed \in {"no", verdict}
    /\ requests < MaximumRequests
    /\ requests' = requests + 1
    /\ event' = [event EXCEPT ![e].reviewed = verdict]
    /\ enqueuer' = [enqueuer EXCEPT !["command"] = TaskFor(e, event[e])]
    /\ UNCHANGED <<job, retrying, claim, outside>>
    /\ UNCHANGED <<recovered, service, unvisited, restarts>>

-----------------------------------------------------------------------------
(* The worker of the scheduler *)

Moved(jobs, from, to) ==
    [e \in Events |-> [p \in PartsOf |->
        IF jobs[e][p] # NoJob /\ jobs[e][p].state \in from
        THEN [jobs[e][p] EXCEPT !.state = to] ELSE jobs[e][p]]]

\* recover_upload_jobs
RecoveredJobs == Moved(job, {"InProgress"}, "RetryWait")

Recover ==
    /\ service = "running"
    /\ ~recovered
    /\ recovered' = TRUE
    /\ job' = RecoveredJobs
    /\ UNCHANGED <<event, enqueuer, retrying, claim, outside>>
    /\ UNCHANGED <<service, unvisited, restarts, requests>>

\* claim_next_upload_job: the highest priority that is due.  A Pending job is
\* always due, one that waits for its retry may be.
Claim(e, p) ==
    /\ service = "running"
    /\ recovered
    /\ claim = Nobody
    /\ <<e, p>> \in InState(Waiting)
    /\ \A other \in InState({"Pending"}) : Priority(other[2]) <= Priority(p)
    /\ job' = [job EXCEPT ![e][p].state = "InProgress", ![e][p].attempts = @ + 1]
    /\ claim' = [event |-> e, part |-> p, outcome |-> "none"]
    /\ UNCHANGED <<event, enqueuer, retrying, outside, process>>

\* What the executor may answer once it is connected.  The job of the manifest
\* carries no checksum, which the executor refuses (UPLOAD_JOB_INVALID); a
\* file that has changed is found before its upload is completed.
Answers(e, p) ==
    CASE p = "alarm"    -> {"succeeded", "retryable", "permanent"}
      [] p = "manifest" -> {"manual"}
      [] OTHER          -> {"retryable", "permanent", "manual"}
                           \cup (IF damaged[e] THEN {"changed"} ELSE {"succeeded"})

\* The executor: offline it answers at once.  An answer that was lost leaves
\* the part with the receiver, but no changed file and no refused manifest.
Execute(answer, arrived) ==
    LET e == claim.event
        p == claim.part
    IN  /\ Alive
        /\ claim # Nobody
        /\ claim.outcome = "none"
        /\ answer \in Answers(e, p) \cup {"retryable"}
        /\ answer = "succeeded" => arrived
        /\ arrived => /\ "succeeded" \in Answers(e, p)
                      /\ answer # "manual"
        /\ claim' = [claim EXCEPT !.outcome = answer]
        /\ received' = IF arrived THEN [received EXCEPT ![e] = @ \cup {p}] ELSE received
        /\ UNCHANGED <<event, job, damaged, enqueuer, retrying, process>>

ClaimedJob == job[claim.event][claim.part]

\* A result is only recorded while its job is still in progress.  If not, all
\* jobs that are are taken back (persist_outcome).
ResultRefused ==
    /\ Alive
    /\ claim # Nobody
    /\ claim.outcome \notin {"none", "marking"}
    /\ ClaimedJob = NoJob \/ ClaimedJob.state # "InProgress"
    /\ job' = RecoveredJobs
    /\ claim' = Nobody
    /\ UNCHANGED <<event, enqueuer, retrying, outside, process>>

RecordsResult(answers) ==
    /\ Alive
    /\ claim # Nobody
    /\ claim.outcome \in answers
    /\ ClaimedJob # NoJob
    /\ ClaimedJob.state = "InProgress"

AllDone(jobs, e) ==
    \A p \in PartsOf : jobs[e][p] # NoJob => jobs[e][p].state = "Completed"

\* Mutant of Complete: jobs that are stuck do not count.
CompleteIgnoringStuck ==
    LET e == claim.event
        jobs == [job EXCEPT ![e][claim.part].state = "Completed"]
    IN  /\ RecordsResult({"succeeded"})
        /\ job' = jobs
        /\ event' = IF \A p \in PartsOf : jobs[e][p] # NoJob => jobs[e][p].state \notin Open
                    THEN [event EXCEPT ![e].upload = "Uploaded"] ELSE event
        /\ claim' = Nobody
        /\ UNCHANGED <<enqueuer, retrying, outside, process>>

\* complete_upload_job
Complete ==
    LET e == claim.event
        jobs == [job EXCEPT ![e][claim.part].state = "Completed"]
    IN  /\ RecordsResult({"succeeded"})
        /\ job' = jobs
        /\ event' = IF AllDone(jobs, e)
                    THEN [event EXCEPT ![e].upload = "Uploaded"] ELSE event
        /\ claim' = Nobody
        /\ UNCHANGED <<enqueuer, retrying, outside, process>>

\* A stop interrupts the last attempt without using it up.
FailedState(answer, attempts) ==
    CASE answer = "retryable" /\ (attempts < MaximumAttempts \/ service = "stopping")
                              -> "RetryWait"
      [] answer = "permanent" -> "PermanentFailed"
      [] OTHER                -> "ManualIntervention"

\* fail_upload_job; a source that has changed condemns the event in a second
\* transaction.
Fail ==
    /\ RecordsResult({"retryable", "permanent", "manual", "changed"})
    /\ job' = [job EXCEPT ![claim.event][claim.part].state =
                   FailedState(claim.outcome, ClaimedJob.attempts)]
    /\ claim' = IF claim.outcome = "changed"
                THEN [claim EXCEPT !.outcome = "marking"] ELSE Nobody
    /\ UNCHANGED <<event, enqueuer, retrying, outside, process>>

\* mark_event_integrity_failed: the row and its jobs in one transaction.
Condemn(e) ==
    /\ event' = [event EXCEPT ![e].failed = TRUE, ![e].upload = "ManualIntervention"]
    /\ job' = [job EXCEPT ![e] = Moved(job, Open, "ManualIntervention")[e]]

MarkChanged ==
    /\ Alive
    /\ claim # Nobody
    /\ claim.outcome = "marking"
    /\ Condemn(claim.event)
    /\ claim' = Nobody
    /\ UNCHANGED <<enqueuer, retrying, outside, process>>

-----------------------------------------------------------------------------
(* Damage, its discovery, and the operator's retry *)

\* The disk loses what was written: external to the program.
Damage(e) ==
    /\ Exists(e)
    /\ ~damaged[e]
    /\ damaged' = [damaged EXCEPT ![e] = TRUE]
    /\ UNCHANGED <<event, job, received, enqueuer, retrying, claim, process>>

\* event.get and event.export check the files of an available event.
InspectFails(e) ==
    /\ CommandIdle
    /\ Present(e)
    /\ damaged[e]
    /\ Condemn(e)
    /\ UNCHANGED <<enqueuer, retrying, claim, outside, process>>

\* event.retryUpload reads the row ...
RetryAdmitted(e) ==
    /\ CommandIdle
    /\ Present(e)
    /\ requests < MaximumRequests
    /\ requests' = requests + 1
    /\ retrying' = [event |-> e]
    /\ UNCHANGED <<event, job, enqueuer, claim, outside>>
    /\ UNCHANGED <<recovered, service, unvisited, restarts>>

\* ... and then releases the jobs, in a call of its own.
RetryEvent ==
    LET e == retrying.event
        released == Moved(job, Stuck \cup {"RetryWait"}, "Pending")
    IN  /\ Alive
        /\ retrying # Nobody
        /\ job' = [job EXCEPT ![e] = [p \in PartsOf |->
               IF HasJob(e, p) /\ job[e][p].state \in Stuck \cup {"RetryWait"}
               THEN [released[e][p] EXCEPT !.attempts = 0] ELSE job[e][p]]]
        /\ retrying' = Nobody
        /\ UNCHANGED <<event, enqueuer, claim, outside, process>>

-----------------------------------------------------------------------------
(* The end of the process and the next start *)

RequestStop ==
    /\ service = "running"
    /\ service' = "stopping"
    /\ UNCHANGED <<event, job, enqueuer, retrying, claim, outside>>
    /\ UNCHANGED <<recovered, unvisited, restarts, requests>>

Down ==
    /\ service # "down"
    /\ restarts < MaximumRestarts
    /\ service' = "down"
    /\ enqueuer' = [t \in Threads |-> Nobody]
    /\ retrying' = Nobody
    /\ claim' = Nobody
    /\ recovered' = FALSE
    /\ unvisited' = {}
    /\ UNCHANGED <<event, job, outside, restarts, requests>>

Boot ==
    /\ service = "down"
    /\ restarts < MaximumRestarts
    /\ service' = "boot"
    /\ restarts' = restarts + 1
    /\ unvisited' = {e \in Events : Present(e)}
    /\ UNCHANGED <<event, job, enqueuer, retrying, claim, outside>>
    /\ UNCHANGED <<recovered, requests>>

BootVisits(e) ==
    /\ service = "boot"
    /\ enqueuer["boot"] = Nobody
    /\ e \in unvisited
    /\ unvisited' = unvisited \ {e}
    /\ enqueuer' = [enqueuer EXCEPT !["boot"] = TaskFor(e, event[e])]
    /\ UNCHANGED <<event, job, retrying, claim, outside>>
    /\ UNCHANGED <<recovered, service, restarts, requests>>

\* reconcile comes after the loop.  It indexes every manifest again, which
\* brings the event's first upload state back, and it fails if the schema
\* refuses one of them.
BootReconciles ==
    /\ service = "boot"
    /\ enqueuer["boot"] = Nobody
    /\ unvisited = {}
    /\ IF \E e \in Events : Exists(e) /\ event[e].failed
       THEN service' = "failed" /\ event' = event
       ELSE /\ service' = "running"
            /\ event' = [e \in Events |->
                   IF Exists(e) THEN [event[e] EXCEPT !.upload = "Pending"] ELSE NoEvent]
    /\ UNCHANGED <<job, enqueuer, retrying, claim, outside>>
    /\ UNCHANGED <<recovered, unvisited, restarts, requests>>

-----------------------------------------------------------------------------

UploadsInit ==
    /\ event = [e \in Events |-> NoEvent]
    /\ job = [e \in Events |-> [p \in PartsOf |-> NoJob]]
    /\ damaged = [e \in Events |-> FALSE]
    /\ received = [e \in Events |-> {}]
    /\ enqueuer = [t \in Threads |-> Nobody]
    /\ retrying = Nobody
    /\ claim = Nobody
    /\ recovered = FALSE
    /\ service = "running"
    /\ unvisited = {}
    /\ restarts = 0
    /\ requests = 0

Enqueuing(t) ==
    \/ EnqueueDuplicate(t)
    \/ EnqueueConflict(t)
    \/ EnqueueRefused(t)
    \/ \E pruned \in Prunable : EnqueueNew(t, pruned)

Worker ==
    \/ Recover
    \/ \E e \in Events, p \in PartsOf : Claim(e, p)
    \/ \E answer \in Outcomes, arrived \in BOOLEAN : Execute(answer, arrived)
    \/ ResultRefused
    \/ Complete
    \/ Fail
    \/ MarkChanged

Operators ==
    \/ \E e \in Events, verdict \in {"Confirmed", "Rejected"} : Review(e, verdict)
    \/ \E e \in Events : InspectFails(e)
    \/ \E e \in Events : RetryAdmitted(e)
    \/ RetryEvent

Environment ==
    \/ \E e \in Events, decision \in {"Candidate", "Confirmed"} : Commit(e, decision)
    \/ \E e \in Events : DecideLate(e)
    \/ \E e \in Events : Damage(e)

Lifetime == RequestStop \/ Down \/ Boot \/ BootReconciles \/ \E e \in Events : BootVisits(e)

UploadsNext ==
    Worker \/ Operators \/ Environment \/ Lifetime \/ \E t \in Threads : Enqueuing(t)

UploadsSpec == UploadsInit /\ [][UploadsNext]_uploadVars

\* The worker's thread keeps running while the process does.
FairUploadsSpec == UploadsSpec /\ WF_uploadVars(Worker)

-----------------------------------------------------------------------------
(* Properties *)

\* Every variable keeps its type, the jobs stay within both capacities, and
\* only the boot loop works while the process starts.
UploadsTypeOK ==
    /\ event \in [Events -> EventRows \cup {NoEvent}]
    /\ job \in [Events -> [PartsOf -> Jobs \cup {NoJob}]]
    /\ damaged \in [Events -> BOOLEAN]
    /\ received \in [Events -> SUBSET PartsOf]
    /\ enqueuer \in [Threads -> EnqueueTasks \cup {Nobody}]
    /\ retrying \in [event : Events] \cup {Nobody}
    /\ claim \in Claims \cup {Nobody}
    /\ recovered \in BOOLEAN
    /\ service \in {"down", "boot", "running", "stopping", "failed"}
    /\ unvisited \subseteq {e \in Events : Exists(e)}
    /\ restarts \in 0 .. MaximumRestarts
    /\ requests \in 0 .. MaximumRequests

\* The job table keeps both limits, whoever adds to it: jobs that still need
\* work or an operator, and jobs of any state.
JobsWithinCapacity ==
    /\ Cardinality(InState(Open \cup Stuck)) <= JobCapacity
    /\ Cardinality(AllJobs) <= HistoryCapacity

\* The upload state of an event is never ahead of its jobs: while it says
\* Uploaded, every job there is of the event is Completed.  Enqueueing a part,
\* a retry and a failed check all have to take it back (the transactions of
\* enqueue_upload_job, complete_upload_job and mark_event_integrity_failed).
UploadedHasNoOpenJob ==
    \A e \in Events :
        Exists(e) /\ event[e].upload = "Uploaded" => AllDone(job, e)

\* No job is left in progress without the worker: once the worker has taken
\* back the jobs of the last run, the only one is the job it holds, whatever
\* checks, retries and refused results happened meanwhile.
InProgressIsClaimed ==
    recovered =>
        \A j \in InState({"InProgress"}) :
            claim # Nobody /\ claim.event = j[1] /\ claim.part = j[2]

\* A job that still needs work or an operator is never dropped, by no pruning
\* of the history and no restart.
UnfinishedJobsStay ==
    [][\A e \in Events, p \in PartsOf :
          HasJob(e, p) /\ job[e][p].state # "Completed" => HasJob(e, p)']_uploadVars

\* A start that succeeds finishes what the last run left: every part of every
\* event the policy admits has a job, or the receiver has it already.
StartEnqueuesEvidence ==
    [][service = "boot" /\ service' = "running" =>
          \A e \in Events :
              Present(e) /\ Admits(event[e].decision) =>
                  \A p \in PartsOf : HasJob(e, p) \/ p \in received[e]]_uploadVars

\* No job is retried for ever: every open job is Completed or waits for an
\* operator at last, unless the process ends first.
JobsSettle ==
    \A e \in Events, p \in PartsOf :
        (HasJob(e, p) /\ job[e][p].state \in Open)
            ~> (service # "running" \/ ~HasJob(e, p) \/ job[e][p].state \notin Open)

-----------------------------------------------------------------------------
(* What the documents say and the code does not keep *)

\* An event that is Uploaded is with the upper computer, every part of it:
\* only then may it be deleted to make room.
UploadedWasReceived ==
    \A e \in Events :
        Exists(e) /\ event[e].upload = "Uploaded" => PartsOf \subseteq received[e]

\* An event whose integrity check failed is not uploaded any more: its jobs
\* wait for an operator.
FailedIsNotUploaded ==
    \A e \in Events :
        Exists(e) /\ event[e].failed =>
            \A p \in PartsOf : HasJob(e, p) => job[e][p].state \notin Open

\* Under the policy "confirmed" a review that confirms an event makes its jobs.
ReviewedIsEnqueued ==
    \A e \in Events :
        /\ UploadPolicy = "confirmed"
        /\ Present(e)
        /\ event[e].reviewed = "Confirmed"
        /\ enqueuer["command"] = Nobody
        => HasJob(e, "alarm")

\* The manifest of an undamaged event is uploaded like every other part: its
\* job waits for an operator only after its last attempt.
ManifestIsSent ==
    \A e \in Events :
        /\ HasJob(e, "manifest")
        /\ job[e]["manifest"].state = "ManualIntervention"
        /\ ~damaged[e]
        => job[e]["manifest"].attempts >= MaximumAttempts

=============================================================================
