---------------------------- MODULE UploadJobsProofs ----------------------------
(***************************************************************************)
(* Proofs about UploadJobs for every set of events, list of files, policy, *)
(* capacity and number of restarts: the types and the two capacities, that *)
(* no event says Uploaded before its jobs are done, that no job is left in *)
(* progress, that no unfinished job is lost, and that a start which        *)
(* succeeds has made or finished every job the policy asks for.            *)
(* Proofs about UplinkCommands for every capacity of its queue and of its  *)
(* cache: what is retained are the results of the last commands, and a     *)
(* command is repeated only when its own had to go.                        *)
(***************************************************************************)
EXTENDS UploadJobs, UplinkCommands, FiniteSetTheorems, SequenceTheorems,
        WellFoundedInduction, TLAPS

USE UploadsAssumption

-----------------------------------------------------------------------------
(* Parts, rows and tasks *)

LEMMA Concatenation ==
  ASSUME NEW S, NEW s \in Seq(S), NEW r \in Seq(S)
  PROVE  s \o r \in Seq(S) /\ Len(s \o r) = Len(s) + Len(r)
  OBVIOUS

LEMMA PartsFacts ==
  /\ Len(Parts) \in Nat /\ Len(Parts) >= 2
  /\ \A i \in 1 .. Len(Parts) : Parts[i] \in PartsOf
  /\ \A p \in PartsOf : \E i \in 1 .. Len(Parts) : p = Parts[i]
  /\ PartsOf \subseteq Kinds
  <1> DEFINE first == <<"alarm", "manifest">>
  <1>1. first \in Seq(Kinds) /\ Files \in Seq(Kinds) /\ Len(first) = 2
    BY DEF Kinds, FileKinds
  <1>2. Parts = first \o Files
    BY DEF Parts
  <1> HIDE DEF first
  <1>3. Parts \in Seq(Kinds) /\ Len(Parts) = 2 + Len(Files)
    <2>1. first \o Files \in Seq(Kinds) /\ Len(first \o Files) = Len(first) + Len(Files)
      BY <1>1, Concatenation
    <2> QED
      BY <1>1, <1>2, <2>1
  <1>4. Len(Files) \in Nat /\ \A i \in 1 .. Len(Parts) : Parts[i] \in Kinds
    BY <1>1, <1>3
  <1> QED
    BY <1>3, <1>4 DEF PartsOf

LEMMA PartsFinite == IsFiniteSet(PartsOf)
  <1>1. IsFiniteSet({"alarm"}) /\ IsFiniteSet({"manifest"}) /\ IsFiniteSet({"keyframe"})
        /\ IsFiniteSet({"replay"}) /\ IsFiniteSet({"raw"})
    BY FS_Singleton
  <1>2. IsFiniteSet({"alarm"} \cup {"manifest"} \cup {"keyframe"} \cup {"replay"} \cup {"raw"})
    BY <1>1, FS_Union
  <1>3. Kinds = {"alarm"} \cup {"manifest"} \cup {"keyframe"} \cup {"replay"} \cup {"raw"}
    BY DEF Kinds, FileKinds
  <1>4. IsFiniteSet(Kinds)
    BY <1>2, <1>3
  <1> QED
    BY <1>4, PartsFacts, FS_Subset

LEMMA NoJobIsNoJob == \A j \in Jobs : j # NoJob /\ j.state # "none"
  BY DEF Jobs, NoJob, Open, Waiting, Stuck

LEMMA NoEventIsNoRow == \A r \in EventRows : r # NoEvent
  BY DEF EventRows, NoEvent

\* A job whose state alone has changed is still a job.
LEMMA StateChanged ==
  ASSUME NEW j \in Jobs, NEW s \in Open \cup Stuck \cup {"Completed"}
  PROVE  /\ [j EXCEPT !.state = s] \in Jobs
         /\ [j EXCEPT !.state = s].state = s
         /\ [j EXCEPT !.state = s] # NoJob
  <1>1. [j EXCEPT !.state = s] \in Jobs /\ [j EXCEPT !.state = s].state = s
    BY DEF Jobs
  <1> QED
    BY <1>1, NoJobIsNoJob

LEMMA MovedJobs ==
  ASSUME NEW jobs \in [Events -> [PartsOf -> Jobs \cup {NoJob}]], NEW from,
         NEW to \in Open \cup Stuck \cup {"Completed"}
  PROVE  /\ Moved(jobs, from, to) \in [Events -> [PartsOf -> Jobs \cup {NoJob}]]
         /\ \A e \in Events, p \in PartsOf :
               LET j == jobs[e][p]
                   k == Moved(jobs, from, to)[e][p]
               IN  /\ k = NoJob <=> j = NoJob
                   /\ j # NoJob /\ j.state \in from => k.state = to
                   /\ ~(j # NoJob /\ j.state \in from) => k = j
  <1>1. ASSUME NEW e \in Events, NEW p \in PartsOf
        PROVE  LET j == jobs[e][p]
                   k == Moved(jobs, from, to)[e][p]
               IN  /\ k \in Jobs \cup {NoJob}
                   /\ k = NoJob <=> j = NoJob
                   /\ j # NoJob /\ j.state \in from => k.state = to
                   /\ ~(j # NoJob /\ j.state \in from) => k = j
    <2> DEFINE j == jobs[e][p]
    <2>1. j \in Jobs \cup {NoJob}
      OBVIOUS
    <2>2. Moved(jobs, from, to)[e][p] =
             IF j # NoJob /\ j.state \in from THEN [j EXCEPT !.state = to] ELSE j
      BY DEF Moved
    <2> HIDE DEF j
    <2>3. CASE j # NoJob /\ j.state \in from
      <3>1. j \in Jobs
        BY <2>1, <2>3
      <3>2. [j EXCEPT !.state = to] \in Jobs /\ [j EXCEPT !.state = to].state = to
            /\ [j EXCEPT !.state = to] # NoJob
        BY <3>1, StateChanged
      <3> QED
        BY <2>2, <2>3, <3>2 DEF j
    <2>4. CASE ~(j # NoJob /\ j.state \in from)
      BY <2>1, <2>2, <2>4 DEF j
    <2> QED
      BY <2>3, <2>4
  <1> QED
    BY <1>1 DEF Moved

LEMMA TaskForIsTask ==
  ASSUME NEW e \in Events, NEW row \in EventRows
  PROVE  /\ TaskFor(e, row) \in EnqueueTasks \cup {Nobody}
         /\ Admits(row.decision) /\ ~row.failed =>
                /\ TaskFor(e, row) \in EnqueueTasks
                /\ TaskFor(e, row).event = e
                /\ TaskFor(e, row).next = 1
  BY PartsFacts DEF TaskFor, EnqueueTasks, EventRows

LEMMA NobodyIsNoTask == \A task \in EnqueueTasks : task # Nobody
  BY DEF EnqueueTasks, Nobody

LEMMA NobodyIsNoClaim == \A c \in Claims : c # Nobody
  BY DEF Claims, Nobody

LEMMA NextPartIsTask ==
  ASSUME NEW t \in Threads, enqueuer[t] \in EnqueueTasks
  PROVE  /\ enqueuer[t].next = Len(Parts) => NextPart(t) = Nobody
         /\ enqueuer[t].next # Len(Parts) =>
                /\ NextPart(t) \in EnqueueTasks
                /\ NextPart(t).event = enqueuer[t].event
                /\ NextPart(t).next = enqueuer[t].next + 1
         /\ NextPart(t) \in EnqueueTasks \cup {Nobody}
  <1> DEFINE task == enqueuer[t]
             next == [task EXCEPT !.next = @ + 1]
  <1>1. task.next \in 1 .. Len(Parts)
    BY DEF EnqueueTasks
  <1>2. CASE task.next = Len(Parts)
    BY <1>2 DEF NextPart
  <1>3. CASE task.next # Len(Parts)
    <2>1. task.next + 1 \in 1 .. Len(Parts)
      BY <1>1, <1>3, PartsFacts
    <2>2. next \in EnqueueTasks /\ next.event = task.event /\ next.next = task.next + 1
      BY <2>1 DEF EnqueueTasks
    <2> QED
      BY <1>3, <2>2 DEF NextPart
  <1> QED
    BY <1>2, <1>3

\* What the thread asks for is a part of an event.
LEMMA TaskPart ==
  ASSUME UploadsTypeOK, NEW t \in Threads, enqueuer[t] # Nobody
  PROVE  /\ enqueuer[t] \in EnqueueTasks
         /\ enqueuer[t].event \in Events
         /\ enqueuer[t].payload \in {"Candidate", "Confirmed"}
         /\ Parts[enqueuer[t].next] \in PartsOf
  <1>1. enqueuer[t] \in EnqueueTasks
    BY DEF UploadsTypeOK
  <1>2. enqueuer[t].next \in 1 .. Len(Parts)
    BY <1>1 DEF EnqueueTasks
  <1> QED
    BY <1>1, <1>2, PartsFacts DEF EnqueueTasks

-----------------------------------------------------------------------------
(* What the statements do to the table of jobs *)

JobTable == [Events -> [PartsOf -> Jobs \cup {NoJob}]]

States == Open \cup Stuck \cup {"Completed"}

\* The same jobs are there, and none that was Completed is anything else.
KeepsJobs(jobs, next) ==
    /\ next \in JobTable
    /\ \A e \in Events, p \in PartsOf :
          /\ next[e][p] = NoJob <=> jobs[e][p] = NoJob
          /\ jobs[e][p] # NoJob /\ jobs[e][p].state = "Completed" =>
                 next[e][p].state = "Completed"

WithJob(jobs, e, p, j) == [jobs EXCEPT ![e][p] = j]

WithState(jobs, e, p, s) == [jobs EXCEPT ![e][p].state = s]

WithClaim(jobs, e, p) ==
    [jobs EXCEPT ![e][p].state = "InProgress", ![e][p].attempts = @ + 1]

WithEventMoved(jobs, e, from, to) == [jobs EXCEPT ![e] = Moved(jobs, from, to)[e]]

LEMMA WithJobFacts ==
  ASSUME NEW jobs \in JobTable, NEW e \in Events, NEW p \in PartsOf, NEW j \in Jobs
  PROVE  /\ WithJob(jobs, e, p, j) \in JobTable
         /\ WithJob(jobs, e, p, j)[e][p] = j
         /\ \A f \in Events, q \in PartsOf :
                f # e \/ q # p => WithJob(jobs, e, p, j)[f][q] = jobs[f][q]
  BY DEF JobTable, WithJob

LEMMA WithStateFacts ==
  ASSUME NEW jobs \in JobTable, NEW e \in Events, NEW p \in PartsOf,
         jobs[e][p] # NoJob, NEW s \in States
  PROVE  /\ WithState(jobs, e, p, s) \in JobTable
         /\ WithState(jobs, e, p, s)[e][p] \in Jobs
         /\ WithState(jobs, e, p, s)[e][p].state = s
         /\ \A f \in Events, q \in PartsOf :
                f # e \/ q # p => WithState(jobs, e, p, s)[f][q] = jobs[f][q]
  <1> DEFINE j == jobs[e][p]
             moved == [j EXCEPT !.state = s]
  <1>1. j \in Jobs
    BY DEF JobTable
  <1>2. WithState(jobs, e, p, s) = WithJob(jobs, e, p, moved)
    BY DEF JobTable, WithState, WithJob
  <1> HIDE DEF j
  <1>3. moved \in Jobs /\ moved.state = s
    BY <1>1, StateChanged DEF States
  <1> HIDE DEF moved
  <1> QED
    BY <1>2, <1>3, WithJobFacts

LEMMA WithClaimFacts ==
  ASSUME NEW jobs \in JobTable, NEW e \in Events, NEW p \in PartsOf, jobs[e][p] # NoJob
  PROVE  /\ WithClaim(jobs, e, p) \in JobTable
         /\ WithClaim(jobs, e, p)[e][p] \in Jobs
         /\ WithClaim(jobs, e, p)[e][p].state = "InProgress"
         /\ \A f \in Events, q \in PartsOf :
                f # e \/ q # p => WithClaim(jobs, e, p)[f][q] = jobs[f][q]
  <1> DEFINE j == jobs[e][p]
             moved == [j EXCEPT !.state = "InProgress", !.attempts = @ + 1]
  <1>1. j \in Jobs
    BY DEF JobTable
  <1>2. WithClaim(jobs, e, p) = WithJob(jobs, e, p, moved)
    BY DEF JobTable, WithClaim, WithJob
  <1> HIDE DEF j
  <1>3. "InProgress" \in Open \cup Stuck \cup {"Completed"} /\ j.attempts + 1 \in Nat
    BY <1>1 DEF Jobs, Open
  <1>4. moved \in Jobs /\ moved.state = "InProgress"
    BY <1>1, <1>3 DEF Jobs
  <1> HIDE DEF moved
  <1> QED
    BY <1>2, <1>4, WithJobFacts

LEMMA WithEventMovedFacts ==
  ASSUME NEW jobs \in JobTable, NEW e \in Events, NEW from, NEW to \in States
  PROVE  LET next == WithEventMoved(jobs, e, from, to)
         IN  /\ next \in JobTable
             /\ \A p \in PartsOf :
                   /\ next[e][p] = NoJob <=> jobs[e][p] = NoJob
                   /\ jobs[e][p] # NoJob /\ jobs[e][p].state \in from =>
                          next[e][p].state = to
                   /\ ~(jobs[e][p] # NoJob /\ jobs[e][p].state \in from) =>
                          next[e][p] = jobs[e][p]
             /\ \A f \in Events : f # e => next[f] = jobs[f]
  <1> DEFINE moved == Moved(jobs, from, to)
  <1>1. /\ moved \in JobTable
        /\ \A p \in PartsOf :
              /\ moved[e][p] = NoJob <=> jobs[e][p] = NoJob
              /\ jobs[e][p] # NoJob /\ jobs[e][p].state \in from => moved[e][p].state = to
              /\ ~(jobs[e][p] # NoJob /\ jobs[e][p].state \in from) =>
                     moved[e][p] = jobs[e][p]
    BY MovedJobs DEF JobTable, States
  <1>2. WithEventMoved(jobs, e, from, to) = [jobs EXCEPT ![e] = moved[e]]
    BY DEF WithEventMoved
  <1> HIDE DEF moved
  <1>3. [jobs EXCEPT ![e] = moved[e]] \in JobTable
    BY <1>1 DEF JobTable
  <1> QED
    BY <1>1, <1>2, <1>3 DEF JobTable

\* event.retryUpload
RetriedJobs(e) ==
    [job EXCEPT ![e] = [p \in PartsOf |->
        IF HasJob(e, p) /\ job[e][p].state \in Stuck \cup {"RetryWait"}
        THEN [Moved(job, Stuck \cup {"RetryWait"}, "Pending")[e][p] EXCEPT !.attempts = 0]
        ELSE job[e][p]]]

LEMMA RetriedJobsMove ==
  ASSUME job \in JobTable, NEW e \in Events
  PROVE  /\ RetriedJobs(e) \in JobTable
         /\ \A p \in PartsOf :
               IF HasJob(e, p) /\ job[e][p].state \in Stuck \cup {"RetryWait"}
               THEN RetriedJobs(e)[e][p] # NoJob /\ RetriedJobs(e)[e][p].state = "Pending"
               ELSE RetriedJobs(e)[e][p] = job[e][p]
         /\ \A f \in Events : f # e => RetriedJobs(e)[f] = job[f]
  <1> DEFINE stuck == Stuck \cup {"RetryWait"}
             moved == Moved(job, stuck, "Pending")
             jobs == [p \in PartsOf |-> IF HasJob(e, p) /\ job[e][p].state \in stuck
                                        THEN [moved[e][p] EXCEPT !.attempts = 0]
                                        ELSE job[e][p]]
  <1>1. RetriedJobs(e) = [job EXCEPT ![e] = jobs]
    BY DEF RetriedJobs
  <1>2. /\ moved \in JobTable
        /\ \A p \in PartsOf : HasJob(e, p) /\ job[e][p].state \in stuck =>
              moved[e][p].state = "Pending" /\ moved[e][p] # NoJob
    BY MovedJobs DEF JobTable, HasJob, Open, Waiting
  <1> HIDE DEF moved
  <1>3. ASSUME NEW p \in PartsOf
        PROVE  /\ jobs[p] \in Jobs \cup {NoJob}
               /\ IF HasJob(e, p) /\ job[e][p].state \in stuck
                  THEN jobs[p] # NoJob /\ jobs[p].state = "Pending"
                  ELSE jobs[p] = job[e][p]
    <2>1. CASE HasJob(e, p) /\ job[e][p].state \in stuck
      <3>1. moved[e][p] \in Jobs /\ moved[e][p].state = "Pending"
        BY <1>2, <2>1 DEF JobTable
      <3>2. [moved[e][p] EXCEPT !.attempts = 0] \in Jobs
            /\ [moved[e][p] EXCEPT !.attempts = 0].state = "Pending"
        BY <3>1 DEF Jobs
      <3> QED
        BY <2>1, <3>2, NoJobIsNoJob
    <2>2. CASE ~(HasJob(e, p) /\ job[e][p].state \in stuck)
      BY <2>2 DEF JobTable
    <2> QED
      BY <2>1, <2>2
  <1>4. jobs \in [PartsOf -> Jobs \cup {NoJob}]
    BY <1>3
  <1> HIDE DEF jobs
  <1> QED
    BY <1>1, <1>3, <1>4 DEF JobTable

LEMMA OneJobKept ==
  ASSUME NEW jobs \in JobTable, NEW next \in JobTable,
         NEW e \in Events, NEW p \in PartsOf, jobs[e][p] # NoJob,
         next[e][p] \in Jobs,
         jobs[e][p].state = "Completed" => next[e][p].state = "Completed",
         \A f \in Events, q \in PartsOf : f # e \/ q # p => next[f][q] = jobs[f][q]
  PROVE  KeepsJobs(jobs, next)
  BY NoJobIsNoJob DEF KeepsJobs

\* What EnqueueNew leaves in the table.
LEMMA NewJobTable ==
  ASSUME UploadsTypeOK, NEW t \in Threads, NEW pruned \in Prunable, EnqueueNew(t, pruned)
  PROVE  LET e == enqueuer[t].event
             p == Parts[enqueuer[t].next]
         IN  /\ e \in Events /\ p \in PartsOf
             /\ job' \in JobTable
             /\ job[e][p] = NoJob
             /\ job'[e][p] \in Jobs /\ job'[e][p].state = "Pending"
             /\ \A f \in Events, q \in PartsOf : f # e \/ q # p =>
                    /\ <<f, q>> \in pruned => job'[f][q] = NoJob
                    /\ <<f, q>> \notin pruned => job'[f][q] = job[f][q]
  <1> DEFINE e == enqueuer[t].event
             p == Parts[enqueuer[t].next]
             new == NewJob(enqueuer[t].payload)
  <1>1. e \in Events /\ p \in PartsOf /\ enqueuer[t].payload \in {"Candidate", "Confirmed"}
    BY TaskPart DEF EnqueueNew
  <1>2. new \in Jobs /\ new.state = "Pending"
    BY <1>1 DEF NewJob, Jobs, Open, Waiting
  <1>3. job' = [f \in Events |-> [q \in PartsOf |->
               CASE f = e /\ q = p       -> new
                 [] <<f, q>> \in pruned  -> NoJob
                 [] OTHER                -> job[f][q]]]
    BY DEF EnqueueNew
  <1>4. job[e][p] = NoJob
    BY DEF EnqueueNew, HasJob
  <1>5. job \in JobTable
    BY DEF UploadsTypeOK, JobTable
  <1>6. \A j \in pruned : job[j[1]][j[2]] # NoJob
    BY DEF Prunable, InState, AllJobs, HasJob
  <1> HIDE DEF e, p, new
  <1>7. ASSUME NEW f \in Events, NEW q \in PartsOf
        PROVE  /\ job'[f][q] \in Jobs \cup {NoJob}
               /\ f = e /\ q = p => job'[f][q] = new
               /\ f # e \/ q # p =>
                    /\ <<f, q>> \in pruned => job'[f][q] = NoJob
                    /\ <<f, q>> \notin pruned => job'[f][q] = job[f][q]
    <2>1. job[f][q] \in Jobs \cup {NoJob}
      BY <1>5 DEF JobTable
    <2>2. job'[f][q] = CASE f = e /\ q = p       -> new
                         [] <<f, q>> \in pruned  -> NoJob
                         [] OTHER                -> job[f][q]
      BY <1>3
    <2>3. ~(f = e /\ q = p /\ <<f, q>> \in pruned)
      BY <1>4, <1>6
    <2> QED
      BY <1>2, <2>1, <2>2, <2>3
  <1>8. job' \in JobTable
    <2>1. job' = [f \in Events |-> [q \in PartsOf |-> job'[f][q]]]
      BY <1>3
    <2>2. \A f \in Events : [q \in PartsOf |-> job'[f][q]] \in [PartsOf -> Jobs \cup {NoJob}]
      BY <1>7
    <2> QED
      BY <2>1, <2>2 DEF JobTable
  <1> QED
    BY <1>1, <1>2, <1>4, <1>7, <1>8 DEF e, p, new

RowUploads(r, u) == [r EXCEPT !.upload = u]

RowFails(r, u) == [r EXCEPT !.failed = TRUE, !.upload = u]

LEMMA RowChanged ==
  ASSUME NEW r \in EventRows \cup {NoEvent},
         NEW u \in {"Pending", "Uploaded", "ManualIntervention"}
  PROVE  /\ RowUploads(r, u) \in EventRows \cup {NoEvent}
         /\ RowFails(r, u) \in EventRows \cup {NoEvent}
         /\ r # NoEvent => RowUploads(r, u) # NoEvent /\ RowFails(r, u) # NoEvent
         /\ RowUploads(r, u) # NoEvent => RowUploads(r, u).upload = u
         /\ RowFails(r, u) # NoEvent => RowFails(r, u).upload = u
  <1> USE DEF RowUploads, RowFails
  <1>1. CASE r \in EventRows
    <2>1. /\ [r EXCEPT !.upload = u] \in EventRows
          /\ [r EXCEPT !.failed = TRUE, !.upload = u] \in EventRows
      BY <1>1 DEF EventRows
    <2> QED
      BY <1>1, <2>1, NoEventIsNoRow DEF EventRows
  <1>2. CASE r = NoEvent
    BY <1>2, NoEventIsNoRow DEF NoEvent
  <1> QED
    BY <1>1, <1>2

-----------------------------------------------------------------------------
(* Types *)

\* The service starts with nothing in its tables.
THEOREM UploadsInitTypes == UploadsInit => UploadsTypeOK
  <1> SUFFICES ASSUME UploadsInit PROVE UploadsTypeOK
    OBVIOUS
  <1>1. /\ event \in [Events -> EventRows \cup {NoEvent}]
        /\ job \in [Events -> [PartsOf -> Jobs \cup {NoJob}]]
    BY DEF UploadsInit
  <1>2. /\ restarts \in 0 .. MaximumRestarts /\ requests \in 0 .. MaximumRequests
    BY DEF UploadsInit
  <1>3. /\ damaged \in [Events -> BOOLEAN] /\ received \in [Events -> SUBSET PartsOf]
        /\ enqueuer \in [Threads -> EnqueueTasks \cup {Nobody}]
    BY DEF UploadsInit
  <1> QED
    BY <1>1, <1>2, <1>3 DEF UploadsInit, UploadsTypeOK

WithUpload(e, u) == [event EXCEPT ![e].upload = u]

WithFailure(e, u) == [event EXCEPT ![e].failed = TRUE, ![e].upload = u]

Uploaded(row) == row # NoEvent /\ row.upload = "Uploaded"

\* The rows keep their type, no event is ever forgotten, and none becomes
\* Uploaded before its jobs are done.
LEMMA RowsStay ==
  ASSUME UploadsTypeOK, UploadsNext
  PROVE  /\ event' \in [Events -> EventRows \cup {NoEvent}]
         /\ \A e \in Events : Exists(e) => Exists(e)'
         /\ \A e \in Events : Uploaded(event'[e]) => Uploaded(event[e]) \/ AllDone(job', e)
  <1> DEFINE RowOK ==
               /\ event' \in [Events -> EventRows \cup {NoEvent}]
               /\ \A e \in Events : event[e] # NoEvent => event'[e] # NoEvent
               /\ \A e \in Events :
                     Uploaded(event'[e]) => Uploaded(event[e]) \/ AllDone(job', e)
  <1>0. event \in [Events -> EventRows \cup {NoEvent}]
    BY DEF UploadsTypeOK
  <1>1. ASSUME NEW e \in Events, NEW r \in EventRows \cup {NoEvent},
               event' = [event EXCEPT ![e] = r], event[e] # NoEvent => r # NoEvent,
               Uploaded(r) => Uploaded(event[e]) \/ AllDone(job', e)
        PROVE  RowOK
    BY <1>0, <1>1
  <1>2. ASSUME event' = event
        PROVE  RowOK
    BY <1>0, <1>2
  <1>3. ASSUME NEW e \in Events, NEW u \in {"Pending", "Uploaded", "ManualIntervention"},
               u = "Uploaded" => AllDone(job', e)
        PROVE  /\ event' = WithUpload(e, u) => RowOK
               /\ event' = WithFailure(e, u) => RowOK
    <2> DEFINE r == event[e]
    <2>1. r \in EventRows \cup {NoEvent}
      BY <1>0
    <2>2. /\ WithUpload(e, u) = [event EXCEPT ![e] = RowUploads(r, u)]
          /\ WithFailure(e, u) = [event EXCEPT ![e] = RowFails(r, u)]
      BY <1>0 DEF WithUpload, WithFailure, RowUploads, RowFails
    <2> HIDE DEF r
    <2>3. /\ RowUploads(r, u) \in EventRows \cup {NoEvent}
          /\ RowFails(r, u) \in EventRows \cup {NoEvent}
          /\ r # NoEvent => RowUploads(r, u) # NoEvent /\ RowFails(r, u) # NoEvent
      BY <2>1, RowChanged
    <2>4. Uploaded(RowUploads(r, u)) \/ Uploaded(RowFails(r, u)) => u = "Uploaded"
      BY <2>1, RowChanged DEF Uploaded
    <2> QED
      BY <1>1, <1>3, <2>2, <2>3, <2>4 DEF r
  <1>4. ASSUME NEW t \in Threads, Enqueuing(t)
        PROVE  RowOK
    <2>1. ASSUME NEW pruned \in Prunable, EnqueueNew(t, pruned)
          PROVE  RowOK
      <3> DEFINE e == enqueuer[t].event
      <3>1. e \in Events
        BY <2>1, TaskPart DEF EnqueueNew
      <3>2. event' = WithUpload(e, "Pending")
        BY <2>1 DEF EnqueueNew, WithUpload
      <3> HIDE DEF e
      <3> QED
        BY <1>3, <3>1, <3>2
    <2>2. EnqueueDuplicate(t) \/ EnqueueConflict(t) \/ EnqueueRefused(t) => event' = event
      BY DEF EnqueueDuplicate, EnqueueConflict, EnqueueRefused, EnqueueStops
    <2> QED
      BY <1>2, <1>4, <2>1, <2>2 DEF Enqueuing
  <1>5. ASSUME NEW e \in Events, Condemn(e)
        PROVE  RowOK
    <2>1. event' = WithFailure(e, "ManualIntervention")
      BY <1>5 DEF Condemn, WithFailure
    <2> QED
      BY <1>3, <2>1
  <1>6. ASSUME Worker
        PROVE  RowOK
    <2>1. ASSUME Complete
          PROVE  RowOK
      <3>1. claim.event \in Events
        BY <2>1 DEF Complete, RecordsResult, UploadsTypeOK, Claims
      <3>2. \/ event' = event
            \/ event' = WithUpload(claim.event, "Uploaded") /\ AllDone(job', claim.event)
        BY <2>1 DEF Complete, WithUpload
      <3> QED
        BY <1>2, <1>3, <3>1, <3>2
    <2>2. ASSUME MarkChanged
          PROVE  RowOK
      <3>1. claim.event \in Events
        BY <2>2 DEF MarkChanged, UploadsTypeOK, Claims
      <3> QED
        BY <1>5, <2>2, <3>1 DEF MarkChanged
    <2>3. /\ Recover \/ ResultRefused \/ Fail => event' = event
          /\ \A e \in Events, p \in PartsOf : Claim(e, p) => event' = event
          /\ \A answer \in Outcomes, arrived \in BOOLEAN :
                 Execute(answer, arrived) => event' = event
      BY DEF Recover, Claim, Execute, ResultRefused, Fail
    <2> QED
      BY <1>2, <1>6, <2>1, <2>2, <2>3 DEF Worker
  <1>7. ASSUME Operators
        PROVE  RowOK
    <2>1. ASSUME NEW e \in Events, NEW verdict \in {"Confirmed", "Rejected"},
                 Review(e, verdict)
          PROVE  RowOK
      <3>1. event[e] \in EventRows /\ event' = [event EXCEPT ![e].reviewed = verdict]
        BY <2>1 DEF Review, Exists, UploadsTypeOK
      <3>2. /\ [event[e] EXCEPT !.reviewed = verdict] \in EventRows
            /\ Uploaded([event[e] EXCEPT !.reviewed = verdict]) => Uploaded(event[e])
        BY <3>1, NoEventIsNoRow DEF EventRows, Uploaded
      <3>3. event' = [event EXCEPT ![e] = [event[e] EXCEPT !.reviewed = verdict]]
        BY <1>0, <3>1
      <3> QED
        BY <1>1, <3>2, <3>3, NoEventIsNoRow
    <2>2. ASSUME NEW e \in Events, InspectFails(e)
          PROVE  RowOK
      BY <1>5, <2>2 DEF InspectFails
    <2>3. (\E e \in Events : RetryAdmitted(e)) \/ RetryEvent => event' = event
      BY DEF RetryAdmitted, RetryEvent
    <2> QED
      BY <1>2, <1>7, <2>1, <2>2, <2>3 DEF Operators
  <1>8. ASSUME Environment
        PROVE  RowOK
    <2>1. ASSUME NEW e \in Events, NEW decision \in {"Candidate", "Confirmed"},
                 Commit(e, decision)
          PROVE  RowOK
      <3> DEFINE row == [decision |-> decision, reviewed |-> "no",
                         upload |-> "Pending", failed |-> FALSE]
      <3>1. row \in EventRows /\ ~Uploaded(row)
        BY DEF EventRows, Uploaded
      <3>2. event' = [event EXCEPT ![e] = row]
        BY <2>1 DEF Commit
      <3> HIDE DEF row
      <3> QED
        BY <1>1, <3>1, <3>2, NoEventIsNoRow
    <2>2. ASSUME NEW e \in Events, DecideLate(e)
          PROVE  RowOK
      <3>1. event[e] \in EventRows /\ event' = [event EXCEPT ![e].decision = "Confirmed"]
        BY <2>2 DEF DecideLate, Present, Exists, UploadsTypeOK
      <3>2. /\ [event[e] EXCEPT !.decision = "Confirmed"] \in EventRows
            /\ Uploaded([event[e] EXCEPT !.decision = "Confirmed"]) => Uploaded(event[e])
        BY <3>1, NoEventIsNoRow DEF EventRows, Uploaded
      <3>3. event' = [event EXCEPT ![e] = [event[e] EXCEPT !.decision = "Confirmed"]]
        BY <1>0, <3>1
      <3> QED
        BY <1>1, <3>2, <3>3, NoEventIsNoRow
    <2>3. (\E e \in Events : Damage(e)) => event' = event
      BY DEF Damage
    <2> QED
      BY <1>2, <1>8, <2>1, <2>2, <2>3 DEF Environment
  <1>9. ASSUME Lifetime
        PROVE  RowOK
    <2>1. ASSUME BootReconciles
          PROVE  RowOK
      <3>1. \A e \in Events : event[e] # NoEvent =>
                /\ RowUploads(event[e], "Pending") \in EventRows \cup {NoEvent}
                /\ RowUploads(event[e], "Pending") # NoEvent
                /\ ~Uploaded(RowUploads(event[e], "Pending"))
        BY <1>0, RowChanged DEF Uploaded
      <3>2. \/ event' = event
            \/ event' = [e \in Events |-> IF event[e] # NoEvent
                            THEN RowUploads(event[e], "Pending") ELSE NoEvent]
        BY <2>1 DEF BootReconciles, Exists, RowUploads
      <3> QED
        BY <1>2, <3>1, <3>2 DEF Uploaded
    <2>2. RequestStop \/ Down \/ Boot \/ (\E e \in Events : BootVisits(e)) => event' = event
      BY DEF RequestStop, Down, Boot, BootVisits
    <2> QED
      BY <1>2, <1>9, <2>1, <2>2 DEF Lifetime
  <1>10. RowOK
    BY <1>4, <1>6, <1>7, <1>8, <1>9 DEF UploadsNext
  <1> QED
    BY <1>10 DEF Exists

\* Every step keeps the types.  Only EnqueueNew adds a job or gives one up.
LEMMA StepTypes ==
  ASSUME UploadsTypeOK, UploadsNext
  PROVE  /\ UploadsTypeOK'
         /\ \/ KeepsJobs(job, job')
            \/ \E t \in Threads : \E pruned \in Prunable : EnqueueNew(t, pruned)
  <1> DEFINE KeptJobs == KeepsJobs(job, job')
  <1>0. job \in JobTable /\ KeepsJobs(job, job)
    BY DEF UploadsTypeOK, JobTable, KeepsJobs
  <1> USE RowsStay
  <1>1. ASSUME NEW t \in Threads, EnqueueDuplicate(t)
        PROVE  UploadsTypeOK' /\ KeptJobs
    <2>1. NextPart(t) \in EnqueueTasks \cup {Nobody}
      BY <1>1, TaskPart, NextPartIsTask DEF EnqueueDuplicate
    <2> QED
      BY <1>0, <1>1, <2>1 DEF EnqueueDuplicate, UploadsTypeOK, outside, process
  <1>2. ASSUME NEW t \in Threads, EnqueueStops(t)
        PROVE  UploadsTypeOK' /\ KeptJobs
    BY <1>0, <1>2 DEF EnqueueStops, UploadsTypeOK, outside
  <1>3. ASSUME NEW t \in Threads, NEW pruned \in Prunable, EnqueueNew(t, pruned)
        PROVE  UploadsTypeOK'
    <2>1. job' \in JobTable
      BY <1>3, NewJobTable
    <2>2. NextPart(t) \in EnqueueTasks \cup {Nobody}
      BY <1>3, TaskPart, NextPartIsTask DEF EnqueueNew
    <2>5. enqueuer' \in [Threads -> EnqueueTasks \cup {Nobody}]
      BY <1>3, <2>2 DEF EnqueueNew, UploadsTypeOK
    <2> QED
      BY <1>3, <2>1, <2>5 DEF EnqueueNew, UploadsTypeOK, outside, process, JobTable
  <1>4. CASE Recover
    <2>1. job' \in JobTable /\ KeptJobs
      BY <1>0, <1>4, MovedJobs
         DEF Recover, RecoveredJobs, JobTable, KeepsJobs, Open, Waiting
    <2> QED
      BY <1>4, <2>1 DEF Recover, UploadsTypeOK, outside, JobTable
  <1>5. ASSUME NEW e \in Events, NEW p \in PartsOf, Claim(e, p)
        PROVE  UploadsTypeOK' /\ KeptJobs
    <2>1. job[e][p] # NoJob /\ job[e][p].state \in Waiting
      BY <1>5 DEF Claim, InState, AllJobs, HasJob
    <2>2. job' \in JobTable /\ KeptJobs
      <3>1. job' = WithClaim(job, e, p)
        BY <1>5 DEF Claim, WithClaim
      <3>2. /\ job' \in JobTable /\ job'[e][p] \in Jobs
            /\ \A f \in Events, q \in PartsOf :
                   f # e \/ q # p => job'[f][q] = job[f][q]
        BY <1>0, <2>1, <3>1, WithClaimFacts
      <3> QED
        BY <1>0, <2>1, <3>2, OneJobKept DEF Waiting
    <2>3. claim' \in Claims
      BY <1>5 DEF Claim, Claims, Outcomes
    <2> QED
      BY <1>5, <2>2, <2>3 DEF Claim, UploadsTypeOK, outside, process, JobTable
  <1>6. ASSUME NEW answer \in Outcomes, NEW arrived \in BOOLEAN, Execute(answer, arrived)
        PROVE  UploadsTypeOK' /\ KeptJobs
    <2>1. claim \in Claims
      BY <1>6 DEF Execute, UploadsTypeOK
    <2>2. [claim EXCEPT !.outcome = answer] \in Claims /\ claim.part \in PartsOf
          /\ claim.event \in Events
      BY <2>1 DEF Claims
    <2>3. received' \in [Events -> SUBSET PartsOf]
      BY <1>6, <2>2 DEF Execute, UploadsTypeOK
    <2> QED
      BY <1>0, <1>6, <2>2, <2>3 DEF Execute, UploadsTypeOK, process
  <1>7. CASE ResultRefused
    <2>1. job' \in JobTable /\ KeptJobs
      BY <1>0, <1>7, MovedJobs
         DEF ResultRefused, RecoveredJobs, JobTable, KeepsJobs, Open, Waiting
    <2> QED
      BY <1>7, <2>1 DEF ResultRefused, UploadsTypeOK, outside, process, JobTable
  <1>8. ASSUME NEW answers, RecordsResult(answers)
        PROVE  /\ claim \in Claims /\ claim.event \in Events /\ claim.part \in PartsOf
               /\ job[claim.event][claim.part] # NoJob
               /\ job[claim.event][claim.part].state = "InProgress"
    BY <1>8 DEF RecordsResult, UploadsTypeOK, Claims, ClaimedJob
  <1>9. CASE Complete
    <2> DEFINE e == claim.event
               p == claim.part
               jobs == WithState(job, e, p, "Completed")
    <2>0. e \in Events /\ p \in PartsOf /\ job[e][p] # NoJob /\ "Completed" \in States
      BY <1>8, <1>9 DEF Complete, States
    <2>2. job' = jobs
      BY <1>9 DEF Complete, WithState
    <2> HIDE DEF e, p
    <2>1. jobs \in JobTable /\ KeepsJobs(job, jobs)
      <3>1. /\ jobs \in JobTable
            /\ jobs[e][p] \in Jobs
            /\ jobs[e][p].state = "Completed"
            /\ \A f \in Events, q \in PartsOf :
                   f # e \/ q # p => jobs[f][q] = job[f][q]
        BY <1>0, <2>0, WithStateFacts
      <3> HIDE DEF jobs
      <3> QED
        BY <1>0, <2>0, <3>1, OneJobKept
    <2> HIDE DEF jobs
    <2> QED
      BY <1>9, <2>1, <2>2 DEF Complete, UploadsTypeOK, outside, process, JobTable
  <1>10. CASE Fail
    <2> DEFINE s == FailedState(claim.outcome, ClaimedJob.attempts)
               e == claim.event
               p == claim.part
               jobs == WithState(job, e, p, s)
    <2>1. s \in States
      BY DEF FailedState, States, Open, Waiting, Stuck
    <2>2. job' = jobs
      BY <1>10 DEF Fail, WithState
    <2>0. /\ e \in Events /\ p \in PartsOf
          /\ job[e][p] # NoJob /\ job[e][p].state = "InProgress"
      BY <1>8, <1>10 DEF Fail
    <2> HIDE DEF s, e, p
    <2>3. jobs \in JobTable /\ KeepsJobs(job, jobs)
      <3>1. /\ jobs \in JobTable
            /\ jobs[e][p] \in Jobs
            /\ \A f \in Events, q \in PartsOf :
                   f # e \/ q # p => jobs[f][q] = job[f][q]
        BY <1>0, <2>0, <2>1, WithStateFacts
      <3> HIDE DEF jobs
      <3> QED
        BY <1>0, <2>0, <3>1, OneJobKept
    <2>4. [claim EXCEPT !.outcome = "marking"] \in Claims
      BY <1>8, <1>10 DEF Fail, Claims, Outcomes
    <2> HIDE DEF jobs
    <2> QED
      BY <1>10, <2>2, <2>3, <2>4 DEF Fail, UploadsTypeOK, outside, process, JobTable
  <1>11. ASSUME NEW e \in Events, Condemn(e)
         PROVE  job' \in JobTable /\ KeptJobs
    <2>1. job' = WithEventMoved(job, e, Open, "ManualIntervention")
      BY <1>11 DEF Condemn, WithEventMoved
    <2>2. job' \in JobTable /\ KeptJobs
      <3>1. "ManualIntervention" \in States /\ "Completed" \notin Open
        BY DEF States, Stuck, Open, Waiting
      <3>2. /\ job' \in JobTable
            /\ \A p \in PartsOf :
                  /\ job'[e][p] = NoJob <=> job[e][p] = NoJob
                  /\ ~(job[e][p] # NoJob /\ job[e][p].state \in Open) =>
                         job'[e][p] = job[e][p]
            /\ \A f \in Events : f # e => job'[f] = job[f]
        BY <1>0, <2>1, <3>1, WithEventMovedFacts
      <3> QED
        BY <3>1, <3>2 DEF KeepsJobs
    <2> QED
      BY <2>2
  <1>12. CASE MarkChanged
    <2>1. claim.event \in Events /\ Condemn(claim.event)
      BY <1>12 DEF MarkChanged, UploadsTypeOK, Claims
    <2> QED
      BY <1>11, <1>12, <2>1 DEF MarkChanged, UploadsTypeOK, outside, process, JobTable
  <1>13. ASSUME NEW e \in Events, NEW verdict \in {"Confirmed", "Rejected"},
                Review(e, verdict)
         PROVE  UploadsTypeOK' /\ KeptJobs
    <2>1. event[e] \in EventRows
      BY <1>13 DEF Review, Exists, UploadsTypeOK
    <2>3. TaskFor(e, event[e]) \in EnqueueTasks \cup {Nobody}
      BY <2>1, TaskForIsTask
    <2>5. enqueuer' \in [Threads -> EnqueueTasks \cup {Nobody}]
      BY <1>13, <2>3 DEF Review, UploadsTypeOK
    <2>6. requests' \in 0 .. MaximumRequests
      BY <1>13 DEF Review, UploadsTypeOK
    <2> QED
      BY <1>0, <1>13, <2>5, <2>6 DEF Review, UploadsTypeOK, outside
  <1>14. ASSUME NEW e \in Events, InspectFails(e)
         PROVE  UploadsTypeOK' /\ KeptJobs
    <2>1. Condemn(e)
      BY <1>14 DEF InspectFails
    <2> QED
      BY <1>11, <1>14, <2>1 DEF InspectFails, UploadsTypeOK, outside, process, JobTable
  <1>15. ASSUME NEW e \in Events, RetryAdmitted(e)
         PROVE  UploadsTypeOK' /\ KeptJobs
    <2>1. retrying' \in [event : Events] /\ requests' \in 0 .. MaximumRequests
      BY <1>15 DEF RetryAdmitted, UploadsTypeOK
    <2> QED
      BY <1>0, <1>15, <2>1 DEF RetryAdmitted, UploadsTypeOK, outside
  <1>16. CASE RetryEvent
    <2>1. retrying.event \in Events
      BY <1>16 DEF RetryEvent, UploadsTypeOK
    <2>2. job' = RetriedJobs(retrying.event)
      BY <1>16 DEF RetryEvent, RetriedJobs
    <2>3. job' \in JobTable /\ KeptJobs
      BY <1>0, <2>1, <2>2, RetriedJobsMove DEF KeepsJobs, HasJob, Stuck
    <2> QED
      BY <1>16, <2>3 DEF RetryEvent, UploadsTypeOK, outside, process, JobTable
  <1>17. ASSUME NEW e \in Events, NEW decision \in {"Candidate", "Confirmed"},
                Commit(e, decision)
         PROVE  UploadsTypeOK' /\ KeptJobs
    <2> DEFINE row == [decision |-> decision, reviewed |-> "no",
                       upload |-> "Pending", failed |-> FALSE]
    <2>1. row \in EventRows
      BY DEF EventRows
    <2>2. TaskFor(e, row) \in EnqueueTasks \cup {Nobody}
      BY <2>1, TaskForIsTask
    <2> HIDE DEF row
    <2>3. enqueuer' = [enqueuer EXCEPT !["persistence"] = TaskFor(e, row)]
      BY <1>17 DEF Commit, row
    <2>4. enqueuer' \in [Threads -> EnqueueTasks \cup {Nobody}]
      BY <2>2, <2>3 DEF UploadsTypeOK
    <2> QED
      BY <1>0, <1>17, <2>4 DEF Commit, UploadsTypeOK, outside, process
  <1>18. ASSUME NEW e \in Events, DecideLate(e)
         PROVE  UploadsTypeOK' /\ KeptJobs
    BY <1>0, <1>18 DEF DecideLate, UploadsTypeOK, outside, process
  <1>19. ASSUME NEW e \in Events, Damage(e)
         PROVE  UploadsTypeOK' /\ KeptJobs
    BY <1>0, <1>19 DEF Damage, UploadsTypeOK, process
  <1>20. CASE RequestStop
    BY <1>0, <1>20 DEF RequestStop, UploadsTypeOK, outside
  <1>21. CASE Down
    BY <1>0, <1>21 DEF Down, UploadsTypeOK, outside
  <1>22. CASE Boot
    <2>1. restarts' \in 0 .. MaximumRestarts
      BY <1>22 DEF Boot, UploadsTypeOK
    <2>2. unvisited' \subseteq {e \in Events : Exists(e)'}
      BY <1>22 DEF Boot, Present
    <2> QED
      BY <1>0, <1>22, <2>1, <2>2 DEF Boot, UploadsTypeOK, outside
  <1>23. CASE BootReconciles
    BY <1>0, <1>23 DEF BootReconciles, UploadsTypeOK, outside
  <1>24. ASSUME NEW e \in Events, BootVisits(e)
         PROVE  UploadsTypeOK' /\ KeptJobs
    <2>1. event[e] \in EventRows
      BY <1>24 DEF BootVisits, UploadsTypeOK, Exists
    <2>2. TaskFor(e, event[e]) \in EnqueueTasks \cup {Nobody}
      BY <2>1, TaskForIsTask
    <2> QED
      BY <1>0, <1>24, <2>2 DEF BootVisits, UploadsTypeOK, outside
  <1>25. ASSUME NEW t \in Threads, Enqueuing(t)
         PROVE  /\ UploadsTypeOK'
                /\ KeptJobs \/ \E u \in Threads : \E pruned \in Prunable : EnqueueNew(u, pruned)
    BY <1>1, <1>2, <1>3, <1>25 DEF Enqueuing, EnqueueConflict, EnqueueRefused
  <1>26. CASE Worker
    BY <1>4, <1>5, <1>6, <1>7, <1>9, <1>10, <1>12, <1>26 DEF Worker
  <1>27. CASE Operators
    BY <1>13, <1>14, <1>15, <1>16, <1>27 DEF Operators
  <1>28. CASE Environment
    BY <1>17, <1>18, <1>19, <1>28 DEF Environment
  <1>29. CASE Lifetime
    BY <1>20, <1>21, <1>22, <1>23, <1>24, <1>29 DEF Lifetime
  <1> QED
    BY <1>25, <1>26, <1>27, <1>28, <1>29 DEF UploadsNext

\* Every variable keeps its type, and the boot loop visits events only that are
\* in the table.
THEOREM UploadsTypesAlways == UploadsSpec => []UploadsTypeOK
  <1>1. UploadsTypeOK /\ [UploadsNext]_uploadVars => UploadsTypeOK'
    <2>1. CASE UploadsNext
      BY <2>1, StepTypes
    <2>2. CASE UNCHANGED uploadVars
      BY <2>2 DEF uploadVars, outside, process, UploadsTypeOK, Exists
    <2> QED
      BY <2>1, <2>2
  <1> QED
    BY <1>1, UploadsInitTypes, PTL DEF UploadsSpec

\* No pruning of the history and no restart drops a job that still needs work
\* or an operator (enqueue_upload_job, recover_upload_jobs).
THEOREM UnfinishedJobsStayAlways == UploadsSpec => UnfinishedJobsStay
  <1> DEFINE Stay == \A e \in Events, p \in PartsOf :
                        HasJob(e, p) /\ job[e][p].state # "Completed" => HasJob(e, p)'
  <1>1. ASSUME UploadsTypeOK, UploadsNext
        PROVE  Stay
    <2>1. CASE KeepsJobs(job, job')
      BY <2>1 DEF KeepsJobs, HasJob
    <2>2. ASSUME NEW t \in Threads, NEW pruned \in Prunable, EnqueueNew(t, pruned)
          PROVE  Stay
      <3>1. \A j \in pruned : job[j[1]][j[2]].state = "Completed"
        BY DEF Prunable, InState
      <3>2. PICK e \in Events, p \in PartsOf :
                /\ job'[e][p] \in Jobs
                /\ \A f \in Events, q \in PartsOf :
                       (f # e \/ q # p) /\ <<f, q>> \notin pruned =>
                           job'[f][q] = job[f][q]
        BY <1>1, <2>2, NewJobTable
      <3> QED
        BY <3>1, <3>2, NoJobIsNoJob DEF HasJob
    <2> QED
      BY <1>1, <2>1, <2>2, StepTypes
  <1>2. UploadsTypeOK /\ [UploadsNext]_uploadVars => [Stay]_uploadVars
    BY <1>1
  <1>3. UploadsSpec => [][Stay]_uploadVars
    BY <1>2, UploadsTypesAlways, PTL DEF UploadsSpec
  <1> QED
    BY <1>3 DEF UnfinishedJobsStay

-----------------------------------------------------------------------------
(* Capacities *)

LEMMA JobsFinite ==
  /\ IsFiniteSet(AllJobs)
  /\ \A states : InState(states) \subseteq AllJobs
  <1>1. IsFiniteSet(Events \X PartsOf)
    BY PartsFinite, FS_Product
  <1> QED
    BY <1>1, FS_Subset DEF AllJobs, InState

Unfinished == InState(Open \cup Stuck)

\* The job table never exceeds a limit, whichever thread adds to it and
\* whatever the worker, the checks and the operator do to its jobs.
THEOREM JobsWithinCapacityAlways == UploadsSpec => []JobsWithinCapacity
  <1>1. ASSUME UploadsInit
        PROVE  JobsWithinCapacity
    <2>1. AllJobs = {}
      BY <1>1 DEF UploadsInit, AllJobs, HasJob
    <2>2. InState(Open \cup Stuck) = {}
      BY <2>1 DEF InState
    <2>3. Cardinality(AllJobs) = 0 /\ Cardinality(InState(Open \cup Stuck)) = 0
      BY <2>1, <2>2, FS_EmptySet
    <2> QED
      BY <2>3 DEF JobsWithinCapacity
  <1>2. ASSUME UploadsTypeOK, JobsWithinCapacity, KeepsJobs(job, job')
        PROVE  JobsWithinCapacity'
    <2>1. AllJobs' = AllJobs
      BY <1>2 DEF AllJobs, HasJob, KeepsJobs
    <2>2. Unfinished' \subseteq Unfinished
      <3> SUFFICES ASSUME NEW e \in Events, NEW p \in PartsOf,
                          job'[e][p] # NoJob, job'[e][p].state \in Open \cup Stuck
                   PROVE  job[e][p] # NoJob /\ job[e][p].state \in Open \cup Stuck
        BY DEF Unfinished, InState, AllJobs, HasJob
      <3>1. job[e][p] # NoJob /\ job[e][p] \in Jobs
        BY <1>2 DEF KeepsJobs, UploadsTypeOK
      <3>2. job[e][p].state # "Completed"
        BY <1>2, <3>1 DEF KeepsJobs, Open, Stuck, Waiting
      <3> QED
        BY <3>1, <3>2 DEF Jobs
    <2>3. /\ IsFiniteSet(Unfinished) /\ Cardinality(Unfinished') <= Cardinality(Unfinished)
          /\ Cardinality(Unfinished) \in Nat /\ Cardinality(Unfinished') \in Nat
      BY <2>2, JobsFinite, FS_Subset, FS_CardinalityType DEF Unfinished
    <2> QED
      BY <1>2, <2>1, <2>3 DEF JobsWithinCapacity, Unfinished
  <1>3. ASSUME UploadsTypeOK, JobsWithinCapacity, NEW t \in Threads,
               NEW pruned \in Prunable, EnqueueNew(t, pruned)
        PROVE  JobsWithinCapacity'
    <2>1. PICK e \in Events, p \in PartsOf :
              /\ job[e][p] = NoJob
              /\ \A f \in Events, q \in PartsOf : f # e \/ q # p =>
                    /\ <<f, q>> \in pruned => job'[f][q] = NoJob
                    /\ <<f, q>> \notin pruned => job'[f][q] = job[f][q]
      BY <1>3, NewJobTable
    <2> DEFINE new == <<e, p>>
    <2>2. Unfinished' \subseteq Unfinished \cup {new}
      BY <2>1 DEF Unfinished, InState, AllJobs, HasJob
    <2>3. AllJobs' \subseteq (AllJobs \ pruned) \cup {new}
      BY <2>1 DEF AllJobs, HasJob
    <2>4. Cardinality(Unfinished) < JobCapacity
      <3>1. Cardinality(Unfinished) \in Nat
        BY JobsFinite, FS_Subset, FS_CardinalityType DEF Unfinished
      <3> QED
        BY <1>3, <3>1 DEF EnqueueNew, AtCapacity, Unfinished
    <2>5. Cardinality(AllJobs \ pruned) < HistoryCapacity
      <3>1. Cardinality(AllJobs) \in Nat
        BY JobsFinite, FS_CardinalityType
      <3>2. CASE ~HistoryFull
        <4>1. pruned = {}
          BY <3>2 DEF Prunable
        <4>2. AllJobs \ pruned = AllJobs
          BY <4>1
        <4>3. Cardinality(AllJobs) < HistoryCapacity
          BY <3>1, <3>2 DEF HistoryFull
        <4>4. Cardinality(AllJobs \ pruned) = Cardinality(AllJobs)
          BY <4>2
        <4> QED
          BY <4>3, <4>4
      <3>3. CASE HistoryFull
        <4>1. PICK j \in AllJobs : pruned = {j}
          BY <3>3 DEF Prunable, InState
        <4>2. Cardinality(AllJobs \ {j}) = Cardinality(AllJobs) - 1
          BY JobsFinite, FS_RemoveElement
        <4>3. Cardinality(AllJobs) <= HistoryCapacity
          BY <1>3 DEF JobsWithinCapacity
        <4> QED
          BY <3>1, <4>1, <4>2, <4>3
      <3> QED
        BY <3>2, <3>3
    <2>6. ASSUME NEW S, IsFiniteSet(S), NEW T \in SUBSET (S \cup {new}),
                 NEW n \in Nat, Cardinality(S) < n
          PROVE  Cardinality(T) <= n
      <3>1. IsFiniteSet(S \cup {new}) /\ Cardinality(S \cup {new}) <= Cardinality(S) + 1
        <4>1. /\ IsFiniteSet(S \cup {new})
              /\ Cardinality(S \cup {new}) =
                    IF new \in S THEN Cardinality(S) ELSE Cardinality(S) + 1
          BY <2>6, FS_AddElement
        <4>2. Cardinality(S) \in Nat
          BY <2>6, FS_CardinalityType
        <4> QED
          BY <4>1, <4>2
      <3>2. IsFiniteSet(T) /\ Cardinality(T) <= Cardinality(S \cup {new})
        BY <3>1, FS_Subset
      <3>3. /\ Cardinality(S) \in Nat /\ Cardinality(T) \in Nat
            /\ Cardinality(S \cup {new}) \in Nat
        BY <2>6, <3>1, <3>2, FS_CardinalityType
      <3> QED
        BY <2>6, <3>1, <3>2, <3>3
    <2> HIDE DEF new
    <2>7. IsFiniteSet(Unfinished) /\ IsFiniteSet(AllJobs \ pruned)
      BY JobsFinite, FS_Subset DEF Unfinished
    <2>8. Cardinality(Unfinished') <= JobCapacity
      BY <2>2, <2>4, <2>6, <2>7
    <2>9. Cardinality(AllJobs') <= HistoryCapacity
      BY <2>3, <2>5, <2>6, <2>7
    <2> QED
      BY <2>8, <2>9 DEF JobsWithinCapacity, Unfinished
  <1>4. UploadsTypeOK /\ JobsWithinCapacity /\ [UploadsNext]_uploadVars
            => JobsWithinCapacity'
    <2>1. CASE UploadsNext
      BY <1>2, <1>3, <2>1, StepTypes
    <2>2. CASE UNCHANGED uploadVars
      BY <2>2 DEF uploadVars, JobsWithinCapacity, InState, AllJobs, HasJob
    <2> QED
      BY <2>1, <2>2
  <1> QED
    BY <1>1, <1>4, UploadsTypesAlways, PTL DEF UploadsSpec

-----------------------------------------------------------------------------
(* The upload state of an event *)

\* An event says Uploaded only while every job it has is Completed.
THEOREM UploadedHasNoOpenJobAlways == UploadsSpec => []UploadedHasNoOpenJob
  <1>1. UploadsInit => UploadedHasNoOpenJob
    BY DEF UploadsInit, UploadedHasNoOpenJob, Exists
  <1>2. ASSUME UploadsTypeOK, UploadedHasNoOpenJob, UploadsNext
        PROVE  UploadedHasNoOpenJob'
    <2> SUFFICES ASSUME NEW e \in Events, Uploaded(event'[e])
                 PROVE  AllDone(job', e)
      BY DEF UploadedHasNoOpenJob, Exists, Uploaded
    <2>1. CASE AllDone(job', e)
      BY <2>1
    <2>2. CASE ~AllDone(job', e)
      <3>1. Uploaded(event[e])
        BY <1>2, <2>2, RowsStay
      <3>2. AllDone(job, e)
        BY <1>2, <3>1 DEF UploadedHasNoOpenJob, Exists, Uploaded
      <3>3. CASE KeepsJobs(job, job')
        BY <3>2, <3>3 DEF KeepsJobs, AllDone
      <3>4. ASSUME NEW t \in Threads, NEW pruned \in Prunable, EnqueueNew(t, pruned)
            PROVE  FALSE
        <4> DEFINE f == enqueuer[t].event
                   p == Parts[enqueuer[t].next]
        <4>1. /\ f \in Events /\ p \in PartsOf
              /\ \A g \in Events, q \in PartsOf : g # f \/ q # p =>
                    /\ <<g, q>> \in pruned => job'[g][q] = NoJob
                    /\ <<g, q>> \notin pruned => job'[g][q] = job[g][q]
          BY <1>2, <3>4, NewJobTable
        <4>2. event' = WithUpload(f, "Pending")
          BY <3>4 DEF EnqueueNew, WithUpload
        <4> HIDE DEF f, p
        <4>3. CASE e = f
          <5> DEFINE r == event[f]
          <5>1. r \in EventRows \cup {NoEvent}
            BY <1>2, <4>1 DEF UploadsTypeOK
          <5>2. event'[f] = RowUploads(r, "Pending")
            BY <1>2, <4>1, <4>2 DEF WithUpload, UploadsTypeOK, RowUploads
          <5> HIDE DEF r
          <5>3. ~Uploaded(event'[f])
            BY <5>1, <5>2, RowChanged DEF Uploaded
          <5> QED
            BY <4>3, <5>3
        <4>4. CASE e # f
          BY <2>2, <3>2, <4>1, <4>4 DEF AllDone
        <4> QED
          BY <4>3, <4>4
      <3> QED
        BY <1>2, <3>3, <3>4, StepTypes
    <2> QED
      BY <2>1, <2>2
  <1>3. UploadsTypeOK /\ UploadedHasNoOpenJob /\ [UploadsNext]_uploadVars
            => UploadedHasNoOpenJob'
    <2>1. CASE UNCHANGED uploadVars
      BY <2>1 DEF uploadVars, UploadedHasNoOpenJob, Exists, AllDone
    <2> QED
      BY <1>2, <2>1
  <1> QED
    BY <1>1, <1>3, UploadsTypesAlways, PTL DEF UploadsSpec

-----------------------------------------------------------------------------
(* The worker, its claim and the receiver *)

\* A job is Completed only when the receiver has its part, and so is the
\* success of the claim that will complete it.
Receipts ==
    /\ \A e \in Events, p \in PartsOf :
          HasJob(e, p) /\ job[e][p].state = "Completed" => p \in received[e]
    /\ claim # Nobody /\ claim.outcome = "succeeded" => claim.part \in received[claim.event]

JobsInv == UploadsTypeOK /\ InProgressIsClaimed /\ Receipts

InProgress(jobs, e, p) == jobs[e][p] # NoJob /\ jobs[e][p].state = "InProgress"

Completed(jobs, e, p) == jobs[e][p] # NoJob /\ jobs[e][p].state = "Completed"

\* No job becomes InProgress or Completed.
NoneAdvances(next) ==
    \A e \in Events, p \in PartsOf :
        /\ InProgress(next, e, p) => InProgress(job, e, p)
        /\ Completed(next, e, p) => Completed(job, e, p)

LEMMA JobsInvExpanded ==
  /\ InProgressIsClaimed <=>
        (recovered => \A e \in Events, p \in PartsOf : InProgress(job, e, p) =>
                          claim # Nobody /\ claim.event = e /\ claim.part = p)
  /\ Receipts <=>
        /\ \A e \in Events, p \in PartsOf : Completed(job, e, p) => p \in received[e]
        /\ claim # Nobody /\ claim.outcome = "succeeded" =>
               claim.part \in received[claim.event]
  <1>1. /\ \A e \in Events, p \in PartsOf :
              InProgress(job, e, p) => <<e, p>> \in InState({"InProgress"})
        /\ \A j \in InState({"InProgress"}) :
              j[1] \in Events /\ j[2] \in PartsOf /\ InProgress(job, j[1], j[2])
    BY DEF InState, AllJobs, HasJob, InProgress
  <1>2. ASSUME InProgressIsClaimed, recovered, NEW e \in Events, NEW p \in PartsOf,
               InProgress(job, e, p)
        PROVE  claim # Nobody /\ claim.event = e /\ claim.part = p
    <2>1. PICK j \in InState({"InProgress"}) : j = <<e, p>>
      BY <1>1, <1>2
    <2> QED
      BY <1>2, <2>1 DEF InProgressIsClaimed
  <1>3. ASSUME recovered => \A e \in Events, p \in PartsOf : InProgress(job, e, p) =>
                          claim # Nobody /\ claim.event = e /\ claim.part = p
        PROVE  InProgressIsClaimed
    BY <1>1, <1>3 DEF InProgressIsClaimed
  <1>4. Receipts <=>
        /\ \A e \in Events, p \in PartsOf : Completed(job, e, p) => p \in received[e]
        /\ claim # Nobody /\ claim.outcome = "succeeded" =>
               claim.part \in received[claim.event]
    BY DEF Receipts, Completed, HasJob
  <1> QED
    BY <1>2, <1>3, <1>4

\* Taking back the jobs in progress leaves none.
LEMMA RecoveredFacts ==
  ASSUME UploadsTypeOK
  PROVE  /\ NoneAdvances(RecoveredJobs)
         /\ \A e \in Events, p \in PartsOf : ~InProgress(RecoveredJobs, e, p)
  <1>1. job \in JobTable /\ "RetryWait" \in Open \cup Stuck \cup {"Completed"}
    BY DEF UploadsTypeOK, JobTable, Open, Waiting
  <1>2. \A e \in Events, p \in PartsOf :
           LET j == job[e][p]
               k == RecoveredJobs[e][p]
           IN  /\ k = NoJob <=> j = NoJob
               /\ j # NoJob /\ j.state \in {"InProgress"} => k.state = "RetryWait"
               /\ ~(j # NoJob /\ j.state \in {"InProgress"}) => k = j
    BY <1>1, MovedJobs DEF RecoveredJobs, JobTable
  <1> QED
    BY <1>2 DEF NoneAdvances, InProgress, Completed

LEMMA CondemnFacts ==
  ASSUME UploadsTypeOK, NEW e \in Events, Condemn(e)
  PROVE  NoneAdvances(job') /\ \A p \in PartsOf : ~InProgress(job', e, p)
  <1>1. job \in JobTable /\ "ManualIntervention" \in States
    BY DEF UploadsTypeOK, JobTable, States, Stuck
  <1>2. job' = WithEventMoved(job, e, Open, "ManualIntervention")
    BY DEF Condemn, WithEventMoved
  <1>3. /\ \A p \in PartsOf :
              /\ job'[e][p] = NoJob <=> job[e][p] = NoJob
              /\ job[e][p] # NoJob /\ job[e][p].state \in Open =>
                     job'[e][p].state = "ManualIntervention"
              /\ ~(job[e][p] # NoJob /\ job[e][p].state \in Open) => job'[e][p] = job[e][p]
        /\ \A f \in Events : f # e => job'[f] = job[f]
    BY <1>1, <1>2, WithEventMovedFacts
  <1> QED
    BY <1>3 DEF NoneAdvances, InProgress, Completed, Open

LEMMA RetryFacts ==
  ASSUME UploadsTypeOK, RetryEvent
  PROVE  NoneAdvances(job')
  <1> DEFINE e == retrying.event
  <1>1. job \in JobTable /\ e \in Events /\ job' = RetriedJobs(e)
    BY DEF UploadsTypeOK, JobTable, RetryEvent, RetriedJobs
  <1> HIDE DEF e
  <1>2. /\ \A p \in PartsOf :
              IF HasJob(e, p) /\ job[e][p].state \in Stuck \cup {"RetryWait"}
              THEN job'[e][p] # NoJob /\ job'[e][p].state = "Pending"
              ELSE job'[e][p] = job[e][p]
        /\ \A f \in Events : f # e => job'[f] = job[f]
    BY <1>1, RetriedJobsMove
  <1> QED
    BY <1>2 DEF NoneAdvances, InProgress, Completed

LEMMA EnqueueFacts ==
  ASSUME UploadsTypeOK, NEW t \in Threads, NEW pruned \in Prunable, EnqueueNew(t, pruned)
  PROVE  NoneAdvances(job')
  <1>1. PICK e \in Events, p \in PartsOf :
            /\ job'[e][p].state = "Pending"
            /\ \A f \in Events, q \in PartsOf : f # e \/ q # p =>
                  /\ <<f, q>> \in pruned => job'[f][q] = NoJob
                  /\ <<f, q>> \notin pruned => job'[f][q] = job[f][q]
    BY NewJobTable
  <1> QED
    BY <1>1 DEF NoneAdvances, InProgress, Completed

\* The claimed job, once its result is recorded.
LEMMA RecordedFacts ==
  ASSUME UploadsTypeOK, NEW answers, RecordsResult(answers), NEW s \in States \ {"InProgress"},
         job' = WithState(job, claim.event, claim.part, s)
  PROVE  /\ \A e \in Events, p \in PartsOf :
               InProgress(job', e, p) =>
                   InProgress(job, e, p) /\ ~(e = claim.event /\ p = claim.part)
         /\ \A e \in Events, p \in PartsOf :
               Completed(job', e, p) =>
                   \/ Completed(job, e, p)
                   \/ s = "Completed" /\ e = claim.event /\ p = claim.part
  <1> DEFINE c == claim.event
             d == claim.part
  <1>1. c \in Events /\ d \in PartsOf /\ job[c][d] # NoJob /\ job \in JobTable
        /\ job' = WithState(job, c, d, s)
    BY DEF RecordsResult, UploadsTypeOK, Claims, ClaimedJob, JobTable
  <1> HIDE DEF c, d
  <1>2. /\ job'[c][d].state = s
        /\ \A f \in Events, q \in PartsOf : f # c \/ q # d => job'[f][q] = job[f][q]
    BY <1>1, WithStateFacts
  <1> QED
    BY <1>2 DEF InProgress, Completed, c, d

LEMMA JobsInvStep ==
  ASSUME JobsInv, UploadsNext
  PROVE  InProgressIsClaimed' /\ Receipts'
  <1> DEFINE
        Claimed == recovered => \A e \in Events, p \in PartsOf : InProgress(job, e, p) =>
                       claim # Nobody /\ claim.event = e /\ claim.part = p
        Received == /\ \A e \in Events, p \in PartsOf :
                          Completed(job, e, p) => p \in received[e]
                    /\ claim # Nobody /\ claim.outcome = "succeeded" =>
                           claim.part \in received[claim.event]
  <1>0. UploadsTypeOK /\ Claimed /\ Received
    BY JobsInvExpanded DEF JobsInv
  <1>1. ASSUME NoneAdvances(job'), recovered' = recovered, claim' = claim,
               received' = received
        PROVE  Claimed' /\ Received'
    <2>1. \A e \in Events, p \in PartsOf :
             /\ InProgress(job', e, p) => InProgress(job, e, p)
             /\ Completed(job', e, p) => Completed(job, e, p)
      BY <1>1 DEF NoneAdvances
    <2>2. /\ \A e \in Events, p \in PartsOf : InProgress(job, e, p)' <=> InProgress(job', e, p)
          /\ \A e \in Events, p \in PartsOf : Completed(job, e, p)' <=> Completed(job', e, p)
      BY DEF InProgress, Completed
    <2>3. Claimed'
      BY <1>0, <1>1, <2>1, <2>2
    <2>4. Received'
      BY <1>0, <1>1, <2>1, <2>2
    <2> QED
      BY <2>3, <2>4
  <1>2. ASSUME job' = job, recovered' = recovered, claim' = claim, received' = received
        PROVE  Claimed' /\ Received'
    <2>1. NoneAdvances(job')
      BY <1>2 DEF NoneAdvances, InProgress, Completed
    <2> QED
      BY <1>1, <1>2, <2>1
  <1>3. ASSUME NEW t \in Threads, Enqueuing(t)
        PROVE  Claimed' /\ Received'
    <2>1. ASSUME NEW pruned \in Prunable, EnqueueNew(t, pruned)
          PROVE  Claimed' /\ Received'
      <3>1. NoneAdvances(job')
        BY <1>0, <2>1, EnqueueFacts
      <3> QED
        BY <1>1, <2>1, <3>1 DEF EnqueueNew, outside, process
    <2>2. ASSUME EnqueueDuplicate(t) \/ EnqueueConflict(t) \/ EnqueueRefused(t)
          PROVE  Claimed' /\ Received'
      BY <1>2, <2>2 DEF EnqueueDuplicate, EnqueueConflict, EnqueueRefused, EnqueueStops,
                        outside, process
    <2> QED
      BY <1>3, <2>1, <2>2 DEF Enqueuing
  <1>4. ASSUME Recover
        PROVE  Claimed' /\ Received'
    <2>1. job' = RecoveredJobs /\ claim' = claim /\ received' = received
      BY <1>4 DEF Recover, outside
    <2> QED
      BY <1>0, <2>1, RecoveredFacts DEF NoneAdvances, InProgress, Completed
  <1>5. ASSUME NEW e \in Events, NEW p \in PartsOf, Claim(e, p)
        PROVE  Claimed' /\ Received'
    <2>1. job[e][p] # NoJob /\ job \in JobTable
      BY <1>0, <1>5 DEF Claim, InState, AllJobs, HasJob, UploadsTypeOK, JobTable
    <2>2. job' = WithClaim(job, e, p)
      BY <1>5 DEF Claim, WithClaim
    <2>3. /\ job'[e][p].state = "InProgress"
          /\ \A f \in Events, q \in PartsOf : f # e \/ q # p => job'[f][q] = job[f][q]
      BY <2>1, <2>2, WithClaimFacts
    <2>4. \A f \in Events, q \in PartsOf : ~InProgress(job, f, q)
      BY <1>0, <1>5 DEF Claim
    <2>5. claim' = [event |-> e, part |-> p, outcome |-> "none"] /\ received' = received
      BY <1>5 DEF Claim, outside
    <2>6. claim' # Nobody /\ claim'.event = e /\ claim'.part = p
          /\ claim'.outcome # "succeeded"
      BY <2>5 DEF Nobody
    <2> QED
      BY <1>0, <2>3, <2>4, <2>5, <2>6 DEF InProgress, Completed
  <1>6. ASSUME NEW answer \in Outcomes, NEW arrived \in BOOLEAN, Execute(answer, arrived)
        PROVE  Claimed' /\ Received'
    <2>1. claim \in Claims /\ claim' = [claim EXCEPT !.outcome = answer]
          /\ job' = job /\ recovered' = recovered
      BY <1>0, <1>6 DEF Execute, UploadsTypeOK, process
    <2>2. /\ claim'.event = claim.event /\ claim'.part = claim.part
          /\ claim'.outcome = answer /\ claim' # Nobody
          /\ claim.event \in Events /\ claim.part \in PartsOf
      BY <2>1 DEF Claims, Nobody
    <2>3. /\ \A e \in Events : received[e] \subseteq received'[e]
          /\ arrived => claim.part \in received'[claim.event]
      BY <1>0, <1>6, <2>2 DEF Execute, UploadsTypeOK
    <2>4. answer = "succeeded" => arrived
      BY <1>6 DEF Execute
    <2> QED
      BY <1>0, <2>1, <2>2, <2>3, <2>4 DEF InProgress, Completed
  <1>7. ASSUME ResultRefused
        PROVE  Claimed' /\ Received'
    <2>1. job' = RecoveredJobs /\ claim' = Nobody /\ received' = received
      BY <1>7 DEF ResultRefused, outside
    <2> QED
      BY <1>0, <2>1, RecoveredFacts DEF NoneAdvances, InProgress, Completed
  <1>8. ASSUME Complete
        PROVE  Claimed' /\ Received'
    <2>1. /\ RecordsResult({"succeeded"}) /\ "Completed" \in States \ {"InProgress"}
          /\ job' = WithState(job, claim.event, claim.part, "Completed")
          /\ claim' = Nobody /\ received' = received /\ recovered' = recovered
      BY <1>8 DEF Complete, WithState, outside, process, States
    <2>2. /\ \A e \in Events, p \in PartsOf : InProgress(job', e, p) =>
                 InProgress(job, e, p) /\ ~(e = claim.event /\ p = claim.part)
          /\ \A e \in Events, p \in PartsOf : Completed(job', e, p) =>
                 Completed(job, e, p) \/ (e = claim.event /\ p = claim.part)
      BY <1>0, <2>1, RecordedFacts
    <2>3. claim # Nobody /\ claim.outcome = "succeeded"
      BY <2>1 DEF RecordsResult
    <2> QED
      BY <1>0, <2>1, <2>2, <2>3 DEF InProgress, Completed
  <1>9. ASSUME Fail
        PROVE  Claimed' /\ Received'
    <2> DEFINE s == FailedState(claim.outcome, ClaimedJob.attempts)
    <2>1. s \in States \ {"InProgress", "Completed"}
      BY DEF FailedState, States, Open, Waiting, Stuck
    <2>2. /\ RecordsResult({"retryable", "permanent", "manual", "changed"})
          /\ job' = WithState(job, claim.event, claim.part, s)
          /\ claim' \in {[claim EXCEPT !.outcome = "marking"], Nobody}
          /\ received' = received /\ recovered' = recovered
      BY <1>9 DEF Fail, WithState, outside, process
    <2> HIDE DEF s
    <2>3. /\ \A e \in Events, p \in PartsOf : InProgress(job', e, p) =>
                 InProgress(job, e, p) /\ ~(e = claim.event /\ p = claim.part)
          /\ \A e \in Events, p \in PartsOf : Completed(job', e, p) => Completed(job, e, p)
      BY <1>0, <2>1, <2>2, RecordedFacts
    <2>4. claim' # Nobody => claim'.outcome # "succeeded"
      BY <1>0, <2>2 DEF RecordsResult, UploadsTypeOK, Claims
    <2> QED
      BY <1>0, <2>2, <2>3, <2>4 DEF InProgress, Completed
  <1>10. ASSUME MarkChanged
         PROVE  Claimed' /\ Received'
    <2>1. claim.event \in Events /\ Condemn(claim.event) /\ claim' = Nobody
          /\ received' = received /\ recovered' = recovered
      BY <1>0, <1>10 DEF MarkChanged, UploadsTypeOK, Claims, outside, process
    <2>2. NoneAdvances(job') /\ \A p \in PartsOf : ~InProgress(job', claim.event, p)
      BY <1>0, <2>1, CondemnFacts
    <2> QED
      BY <1>0, <2>1, <2>2 DEF NoneAdvances, InProgress, Completed
  <1>11. ASSUME Operators
         PROVE  Claimed' /\ Received'
    <2>1. ASSUME NEW e \in Events, InspectFails(e)
          PROVE  Claimed' /\ Received'
      <3>1. Condemn(e) /\ claim' = claim /\ received' = received /\ recovered' = recovered
        BY <2>1 DEF InspectFails, outside, process
      <3> QED
        BY <1>0, <1>1, <3>1, CondemnFacts
    <2>2. ASSUME RetryEvent
          PROVE  Claimed' /\ Received'
      <3>1. claim' = claim /\ received' = received /\ recovered' = recovered
        BY <2>2 DEF RetryEvent, outside, process
      <3> QED
        BY <1>0, <1>1, <2>2, <3>1, RetryFacts
    <2>3. ASSUME \/ \E e \in Events, verdict \in {"Confirmed", "Rejected"} : Review(e, verdict)
                 \/ \E e \in Events : RetryAdmitted(e)
          PROVE  Claimed' /\ Received'
      BY <1>2, <2>3 DEF Review, RetryAdmitted, outside
    <2> QED
      BY <1>11, <2>1, <2>2, <2>3 DEF Operators
  <1>12. ASSUME Environment
         PROVE  Claimed' /\ Received'
    BY <1>2, <1>12 DEF Environment, Commit, DecideLate, Damage, outside, process
  <1>13. ASSUME Lifetime
         PROVE  Claimed' /\ Received'
    <2>1. ASSUME Down
          PROVE  Claimed' /\ Received'
      <3>1. job' = job /\ received' = received /\ claim' = Nobody /\ recovered' = FALSE
        BY <2>1 DEF Down, outside
      <3> QED
        BY <1>0, <3>1 DEF InProgress, Completed
    <2>2. ASSUME RequestStop \/ Boot \/ BootReconciles \/ \E e \in Events : BootVisits(e)
          PROVE  Claimed' /\ Received'
      BY <1>2, <2>2 DEF RequestStop, Boot, BootReconciles, BootVisits, outside
    <2> QED
      BY <1>13, <2>1, <2>2 DEF Lifetime
  <1>14. Claimed' /\ Received'
    BY <1>0, <1>3, <1>4, <1>5, <1>6, <1>7, <1>8, <1>9, <1>10, <1>11, <1>12, <1>13, JobsInvExpanded
       DEF JobsInv, UploadsNext, Worker
  <1>15. /\ InProgressIsClaimed' <=> Claimed'
         /\ Receipts' <=> Received'
    BY JobsInvExpanded, PTL
  <1> QED
    BY <1>14, <1>15

LEMMA JobsInvAlways == UploadsSpec => []JobsInv
  <1>1. UploadsInit => JobsInv
    BY UploadsInitTypes DEF UploadsInit, JobsInv, InProgressIsClaimed, Receipts, HasJob, Nobody
  <1>2. JobsInv /\ [UploadsNext]_uploadVars => JobsInv'
    <2>1. CASE UploadsNext
      BY <2>1, JobsInvStep, StepTypes DEF JobsInv
    <2>2. CASE UNCHANGED uploadVars
      <3>1. UploadsTypeOK => UploadsTypeOK'
        BY <2>2 DEF uploadVars, UploadsTypeOK, Exists
      <3>2. InProgressIsClaimed => InProgressIsClaimed'
        BY <2>2 DEF uploadVars, InProgressIsClaimed, InState, AllJobs, HasJob
      <3>3. Receipts => Receipts'
        BY <2>2 DEF uploadVars, Receipts, HasJob
      <3> QED
        BY <3>1, <3>2, <3>3 DEF JobsInv
    <2> QED
      BY <2>1, <2>2
  <1> QED
    BY <1>1, <1>2, PTL DEF UploadsSpec

\* Once the worker has taken back the jobs of the last run, a job in progress
\* is the one it holds, whatever checks, retries and refused results happened.
THEOREM InProgressIsClaimedAlways == UploadsSpec => []InProgressIsClaimed
  <1>1. JobsInv => InProgressIsClaimed
    BY DEF JobsInv
  <1> QED
    BY <1>1, JobsInvAlways, PTL

-----------------------------------------------------------------------------
(* The next start *)

Held(e, p) == HasJob(e, p) \/ p \in received[e]

\* How far the boot loop has come with event e.
Visited(e) ==
    \/ e \in unvisited
    \/ \A p \in PartsOf : Held(e, p)
    \/ /\ enqueuer["boot"] # Nobody
       /\ enqueuer["boot"].event = e
       /\ \A i \in 1 .. enqueuer["boot"].next - 1 : Held(e, Parts[i])

BootInv ==
    /\ service \in {"down", "boot"} =>
           enqueuer["persistence"] = Nobody /\ enqueuer["command"] = Nobody
    /\ service = "boot" =>
           \A e \in Events : Present(e) /\ Admits(event[e].decision) => Visited(e)

\* What a job or the receiver holds, it holds after every step.
LEMMA HeldStays ==
  ASSUME JobsInv, UploadsNext, NEW e \in Events, NEW p \in PartsOf, Held(e, p)
  PROVE  Held(e, p)'
  <1>0. UploadsTypeOK /\ (p \in received[e] \/ HasJob(e, p))
    BY DEF Held, JobsInv
  <1>1. received[e] \subseteq received'[e]
    <2>1. ASSUME NEW answer \in Outcomes, NEW arrived \in BOOLEAN, Execute(answer, arrived)
          PROVE  received[e] \subseteq received'[e]
      BY <2>1 DEF JobsInv, UploadsTypeOK, Execute
    <2>2. \A t \in Threads : Enqueuing(t) => received' = received
      BY DEF Enqueuing, EnqueueDuplicate, EnqueueConflict, EnqueueRefused, EnqueueStops,
             EnqueueNew, outside
    <2>3. \/ \E answer \in Outcomes, arrived \in BOOLEAN : Execute(answer, arrived)
          \/ (Worker => received' = received)
      BY DEF Worker, Recover, Claim, ResultRefused, Complete, Fail, MarkChanged, outside
    <2>4. Operators \/ Environment => received' = received
      BY DEF Operators, Review, InspectFails, RetryAdmitted, RetryEvent,
             Environment, Commit, DecideLate, Damage, outside
    <2>5. Lifetime => received' = received
      BY DEF Lifetime, RequestStop, Down, Boot, BootReconciles, BootVisits, outside
    <2> QED
      BY <2>1, <2>2, <2>3, <2>4, <2>5 DEF UploadsNext
  <1>2. CASE KeepsJobs(job, job')
    BY <1>1, <1>2 DEF Held, HasJob, KeepsJobs
  <1>3. ASSUME NEW t \in Threads, NEW pruned \in Prunable, EnqueueNew(t, pruned)
        PROVE  Held(e, p)'
    <2>1. UploadsTypeOK
      BY DEF JobsInv
    <2>2. PICK f \in Events, q \in PartsOf :
              /\ job'[f][q] \in Jobs
              /\ \A g \in Events, r \in PartsOf :
                     (g # f \/ r # q) /\ <<g, r>> \notin pruned =>
                         job'[g][r] = job[g][r]
      BY <1>3, <2>1, NewJobTable
    <2>3. CASE <<e, p>> \in pruned
      <3>1. HasJob(e, p) /\ job[e][p].state = "Completed"
        BY <2>3 DEF Prunable, InState, AllJobs
      <3> QED
        BY <1>1, <3>1 DEF JobsInv, Receipts, Held
    <2>4. CASE <<e, p>> \notin pruned
      BY <1>1, <2>2, <2>4, NoJobIsNoJob DEF Held, HasJob
    <2> QED
      BY <2>3, <2>4
  <1> QED
    BY <1>2, <1>3, StepTypes DEF JobsInv

\* While the process starts, the rows keep what the policy looks at.
LEMMA BootRows ==
  ASSUME UploadsTypeOK, service = "boot", UploadsNext, service' = "boot", NEW e \in Events
  PROVE  /\ Present(e)' => Present(e)
         /\ Present(e)' => event'[e].decision = event[e].decision
  <1>1. CASE event' = event
    BY <1>1 DEF Present, Exists
  <1>2. ASSUME NEW t \in Threads, NEW pruned \in Prunable, EnqueueNew(t, pruned)
        PROVE  /\ Present(e)' => Present(e)
               /\ Present(e)' => event'[e].decision = event[e].decision
    <2> DEFINE f == enqueuer[t].event
               r == event[e]
    <2>1. f \in Events /\ event' = [event EXCEPT ![f].upload = "Pending"]
      BY <1>2, TaskPart DEF EnqueueNew
    <2>2. r \in EventRows \cup {NoEvent}
      BY DEF UploadsTypeOK
    <2>3. event'[e] \in {r, [r EXCEPT !.upload = "Pending"]}
      BY <2>1 DEF UploadsTypeOK
    <2> HIDE DEF f, r
    <2>4. CASE r = NoEvent
      <3>1. [r EXCEPT !.upload = "Pending"] = NoEvent
        BY <2>4 DEF NoEvent
      <3> QED
        BY <2>3, <2>4, <3>1 DEF Present, Exists
    <2>5. CASE r \in EventRows
      <3>1. /\ [r EXCEPT !.upload = "Pending"].failed = r.failed
            /\ [r EXCEPT !.upload = "Pending"].decision = r.decision
        BY <2>5 DEF EventRows
      <3> QED
        BY <2>3, <2>5, <3>1, NoEventIsNoRow DEF Present, Exists, r
    <2> QED
      BY <2>2, <2>4, <2>5
  <1>3. event' = event \/ \E t \in Threads : \E pruned \in Prunable : EnqueueNew(t, pruned)
    <2>1. \A t \in Threads : Enqueuing(t) =>
             event' = event \/ \E pruned \in Prunable : EnqueueNew(t, pruned)
      BY DEF Enqueuing, EnqueueDuplicate, EnqueueConflict, EnqueueRefused, EnqueueStops
    <2>2. Worker \/ Operators => event' = event
      BY DEF Worker, Recover, Claim, Execute, ResultRefused, Complete, Fail, MarkChanged,
             Operators, Review, InspectFails, RetryAdmitted, RetryEvent, RecordsResult,
             CommandIdle, Alive
    <2>3. Environment \/ Lifetime => event' = event
      BY DEF Environment, Commit, DecideLate, Damage, Alive, Lifetime, RequestStop, Down,
             Boot, BootReconciles, BootVisits
    <2> QED
      BY <2>1, <2>2, <2>3 DEF UploadsNext
  <1> QED
    BY <1>1, <1>2, <1>3

\* A part that the boot loop has dealt with brings it one part further.
LEMMA BootAdvances ==
  ASSUME JobsInv, UploadsNext, NEW e \in Events, Visited(e),
         enqueuer["boot"] # Nobody,
         job'[enqueuer["boot"].event][Parts[enqueuer["boot"].next]] # NoJob,
         enqueuer' = [enqueuer EXCEPT !["boot"] = NextPart("boot")],
         unvisited' = unvisited
  PROVE  Visited(e)'
  <1> DEFINE task == enqueuer["boot"]
             n == task.next
  <1>0. "boot" \in Threads /\ UploadsTypeOK /\ enqueuer'["boot"] = NextPart("boot")
    BY DEF Threads, JobsInv, UploadsTypeOK
  <1>1. task \in EnqueueTasks /\ n \in 1 .. Len(Parts) /\ task.event \in Events
    BY <1>0 DEF UploadsTypeOK, EnqueueTasks
  <1>2. \A p \in PartsOf : Held(e, p) => Held(e, p)'
    BY HeldStays
  <1>3. CASE e \in unvisited
    BY <1>3 DEF Visited
  <1>4. CASE \A p \in PartsOf : Held(e, p)
    BY <1>2, <1>4 DEF Visited
  <1>5. CASE task.event = e /\ \A i \in 1 .. n - 1 : Held(e, Parts[i])
    <2>1. \A i \in 1 .. n : Held(e, Parts[i])'
      <3> SUFFICES ASSUME NEW i \in 1 .. n PROVE Held(e, Parts[i])'
        OBVIOUS
      <3>1. CASE i = n
        <4>1. job'[e][Parts[i]] # NoJob
          BY <1>5, <3>1
        <4> QED
          BY <4>1 DEF Held, HasJob
      <3>2. CASE i # n
        <4>1. i \in 1 .. n - 1 /\ i \in 1 .. Len(Parts)
          BY <1>1, <3>2, PartsFacts
        <4>2. Parts[i] \in PartsOf /\ Held(e, Parts[i])
          BY <1>5, <4>1, PartsFacts
        <4> QED
          BY <1>2, <4>2
      <3> QED
        BY <3>1, <3>2
    <2>2. CASE n = Len(Parts)
      <3>1. \A p \in PartsOf : Held(e, p)'
        BY <2>1, <2>2, PartsFacts
      <3> QED
        BY <3>1 DEF Visited
    <2>3. CASE n # Len(Parts)
      <3>1. /\ enqueuer'["boot"] \in EnqueueTasks
            /\ enqueuer'["boot"].event = e /\ enqueuer'["boot"].next = n + 1
        BY <1>0, <1>1, <1>5, <2>3, NextPartIsTask
      <3>2. enqueuer'["boot"] # Nobody
        BY <3>1, NobodyIsNoTask
      <3>3. enqueuer'["boot"].next - 1 = n
        BY <1>1, <3>1
      <3> QED
        BY <2>1, <3>1, <3>2, <3>3 DEF Visited
    <2> QED
      BY <2>2, <2>3
  <1> QED
    BY <1>3, <1>4, <1>5 DEF Visited

LEMMA BootInvStep ==
  ASSUME JobsInv, BootInv, UploadsNext
  PROVE  BootInv'
  <1> DEFINE Starting == service \in {"down", "boot"}
             Others == enqueuer["persistence"] = Nobody /\ enqueuer["command"] = Nobody
             Loop == \A e \in Events : Present(e) /\ Admits(event[e].decision) => Visited(e)
  <1>0. /\ UploadsTypeOK
        /\ Starting => Others
        /\ service = "boot" => Loop
        /\ {"persistence", "command", "boot"} \subseteq Threads
    BY DEF JobsInv, BootInv, Threads
  <1>1. ASSUME NEW t \in Threads, Enqueuing(t), Starting'
        PROVE  t = "boot" /\ Starting /\ Others /\ service' = service
               /\ enqueuer' = [enqueuer EXCEPT !["boot"] = NextPart("boot")]
               /\ enqueuer["boot"] # Nobody
               /\ unvisited' = unvisited
               /\ job'[enqueuer["boot"].event][Parts[enqueuer["boot"].next]] # NoJob
    <2>1. /\ enqueuer[t] # Nobody
          /\ \/ service' = service
             \/ service' = "failed"
      BY <1>1 DEF Enqueuing, EnqueueDuplicate, EnqueueConflict, EnqueueRefused,
                  EnqueueStops, EnqueueNew, process
    <2>2. Starting /\ Others /\ t = "boot" /\ service' = service
      BY <1>0, <1>1, <2>1 DEF Threads
    <2>3. ASSUME EnqueueStops("boot")
          PROVE  FALSE
      BY <1>1, <2>3 DEF EnqueueStops
    <2>4. CASE EnqueueDuplicate("boot")
      BY <2>1, <2>2, <2>4 DEF EnqueueDuplicate, process, HasJob
    <2>5. ASSUME NEW pruned \in Prunable, EnqueueNew("boot", pruned)
          PROVE  /\ enqueuer' = [enqueuer EXCEPT !["boot"] = NextPart("boot")]
                 /\ unvisited' = unvisited
                 /\ job'[enqueuer["boot"].event][Parts[enqueuer["boot"].next]] # NoJob
      <3>1. job'[enqueuer["boot"].event][Parts[enqueuer["boot"].next]] \in Jobs
        BY <1>0, <2>5, NewJobTable
      <3>2. /\ enqueuer' = [enqueuer EXCEPT !["boot"] = NextPart("boot")]
            /\ unvisited' = unvisited
        BY <2>5 DEF EnqueueNew, process
      <3> QED
        BY <3>1, <3>2, NoJobIsNoJob
    <2> QED
      BY <1>1, <2>1, <2>2, <2>3, <2>4, <2>5
         DEF Enqueuing, EnqueueConflict, EnqueueRefused
  <1>2. ASSUME Worker \/ Operators \/ Environment, Starting'
        PROVE  Starting /\ service' = service /\ enqueuer' = enqueuer
               /\ unvisited' = unvisited
    <2>1. CASE Worker
      BY <1>2, <2>1 DEF Worker, Recover, Claim, Execute, ResultRefused, Complete, Fail,
                        MarkChanged, RecordsResult, Alive, process
    <2>2. CASE Operators
      BY <1>2, <2>2 DEF Operators, Review, InspectFails, RetryAdmitted, RetryEvent,
                        CommandIdle, Alive, process
    <2>3. CASE Environment
      BY <1>2, <2>3 DEF Environment, Commit, DecideLate, Damage, Alive, process
    <2> QED
      BY <1>2, <2>1, <2>2, <2>3
  <1>3. ASSUME Starting'
        PROVE  Others'
    <2>1. ASSUME NEW t \in Threads, Enqueuing(t)
          PROVE  Others'
      BY <1>0, <1>1, <1>3, <2>1 DEF UploadsTypeOK
    <2>2. CASE Worker \/ Operators \/ Environment
      BY <1>0, <1>2, <1>3, <2>2
    <2>3. ASSUME Lifetime
          PROVE  Others'
      <3>1. CASE Down
        BY <1>0, <3>1 DEF Down
      <3>2. CASE Boot \/ RequestStop \/ BootReconciles
        BY <1>0, <1>3, <3>2 DEF Boot, RequestStop, BootReconciles
      <3>3. ASSUME NEW e \in Events, BootVisits(e)
            PROVE  Others'
        BY <1>0, <3>3 DEF BootVisits, UploadsTypeOK
      <3> QED
        BY <2>3, <3>1, <3>2, <3>3 DEF Lifetime
    <2> QED
      BY <2>1, <2>2, <2>3 DEF UploadsNext
  <1>4. ASSUME service' = "boot", NEW e \in Events, Present(e)', Admits(event'[e].decision)
        PROVE  Visited(e)'
    <2>1. CASE Boot
      <3>1. Present(e) /\ unvisited' = {f \in Events : Present(f)}
        BY <1>4, <2>1 DEF Boot, Present, Exists
      <3> QED
        BY <3>1 DEF Visited
    <2>2. ASSUME ~Boot
          PROVE  Visited(e)'
      <3>1. service = "boot"
        <4>1. ASSUME NEW t \in Threads, Enqueuing(t)
              PROVE  service = "boot"
          BY <1>1, <1>4, <4>1
        <4>2. CASE Worker \/ Operators \/ Environment
          BY <1>2, <1>4, <4>2
        <4>3. CASE Lifetime
          BY <1>4, <2>2, <4>3 DEF Lifetime, RequestStop, Down, BootReconciles, BootVisits
        <4> QED
          BY <4>1, <4>2, <4>3 DEF UploadsNext
      <3>2. Present(e) /\ Admits(event[e].decision)
        BY <1>0, <1>4, <3>1, BootRows
      <3>3. Visited(e)
        BY <1>0, <3>1, <3>2
      <3>4. \A p \in PartsOf : Held(e, p) => Held(e, p)'
        BY HeldStays
      <3>5. ASSUME NEW t \in Threads, Enqueuing(t)
            PROVE  Visited(e)'
        BY <1>1, <1>4, <3>3, <3>5, BootAdvances
      <3>6. CASE enqueuer' = enqueuer /\ unvisited' = unvisited
        <4>1. \A i \in 1 .. enqueuer["boot"].next - 1 :
                  enqueuer["boot"] # Nobody => Parts[i] \in PartsOf
          BY <1>0, PartsFacts DEF UploadsTypeOK, EnqueueTasks
        <4> QED
          BY <3>3, <3>4, <3>6, <4>1 DEF Visited
      <3>7. ASSUME NEW f \in Events, BootVisits(f)
            PROVE  Visited(e)'
        <4>1. /\ unvisited' = unvisited \ {f} /\ enqueuer["boot"] = Nobody
              /\ enqueuer' = [enqueuer EXCEPT !["boot"] = TaskFor(f, event[f])]
          BY <3>7 DEF BootVisits
        <4>2. CASE e # f
          BY <3>3, <3>4, <4>1, <4>2 DEF Visited
        <4>3. CASE e = f
          <5>1. event[e] \in EventRows /\ ~event[e].failed
            BY <1>0, <3>2 DEF Present, Exists, UploadsTypeOK
          <5>2. /\ TaskFor(e, event[e]) \in EnqueueTasks
                /\ TaskFor(e, event[e]).event = e /\ TaskFor(e, event[e]).next = 1
            BY <3>2, <5>1, TaskForIsTask
          <5>3. enqueuer'["boot"] = TaskFor(e, event[e])
            BY <1>0, <4>1, <4>3 DEF UploadsTypeOK
          <5> QED
            BY <5>2, <5>3, NobodyIsNoTask DEF Visited
        <4> QED
          BY <4>2, <4>3
      <3>8. CASE Lifetime
        BY <1>4, <2>2, <3>1, <3>6, <3>7, <3>8
           DEF Lifetime, RequestStop, Down, BootReconciles
      <3> QED
        BY <1>2, <1>4, <3>5, <3>6, <3>8 DEF UploadsNext
    <2> QED
      BY <2>1, <2>2
  <1> QED
    BY <1>3, <1>4 DEF BootInv

\* A start that succeeds has made every job the policy asks for, or the
\* receiver has the part already: the boot loop finishes what a crash in the
\* middle of enqueue_committed_event_uploads left.
THEOREM StartEnqueuesEvidenceAlways == UploadsSpec => StartEnqueuesEvidence
  <1> DEFINE Finished == service = "boot" /\ service' = "running" =>
                \A e \in Events : Present(e) /\ Admits(event[e].decision) =>
                    \A p \in PartsOf : HasJob(e, p) \/ p \in received[e]
  <1>1. UploadsInit => BootInv
    BY DEF UploadsInit, BootInv
  <1>2. JobsInv /\ BootInv /\ [UploadsNext]_uploadVars => BootInv'
    <2>1. CASE UNCHANGED uploadVars
      BY <2>1 DEF uploadVars, BootInv, Present, Exists, Visited, Held, HasJob
    <2> QED
      BY <2>1, BootInvStep
  <1>3. ASSUME UploadsTypeOK, BootInv, UploadsNext
        PROVE  Finished
    <2>1. SUFFICES ASSUME service = "boot", service' = "running"
                   PROVE  \A e \in Events : Present(e) /\ Admits(event[e].decision) =>
                              \A p \in PartsOf : Held(e, p)
      BY DEF Held
    <2>2. BootReconciles
      <3>1. \A t \in Threads : ~Enqueuing(t)
        BY <2>1 DEF Enqueuing, EnqueueDuplicate, EnqueueConflict, EnqueueRefused,
                    EnqueueStops, EnqueueNew, process
      <3>2. ~Worker /\ ~Operators
        BY <2>1 DEF Worker, Recover, Claim, Execute, ResultRefused, Complete, Fail,
                    MarkChanged, RecordsResult, Alive, Operators, Review, InspectFails,
                    RetryAdmitted, RetryEvent, CommandIdle
      <3>3. ~Environment
        BY <2>1 DEF Environment, Commit, DecideLate, Damage, Alive, process
      <3> QED
        BY <1>3, <2>1, <3>1, <3>2, <3>3
           DEF UploadsNext, Lifetime, RequestStop, Down, Boot, BootVisits
    <2>3. unvisited = {} /\ enqueuer["boot"] = Nobody
      BY <2>2 DEF BootReconciles
    <2> QED
      BY <1>3, <2>1, <2>3 DEF BootInv, Visited
  <1>4. JobsInv /\ BootInv /\ [UploadsNext]_uploadVars => [Finished]_uploadVars
    BY <1>3 DEF JobsInv
  <1>5. UploadsSpec => [][Finished]_uploadVars
    BY <1>1, <1>2, <1>4, JobsInvAlways, PTL DEF UploadsSpec
  <1> QED
    BY <1>5 DEF StartEnqueuesEvidence

HIDE UploadsAssumption

-----------------------------------------------------------------------------
(* UplinkCommands: sums of bytes.  Induction over the length of a list is    *)
(* the search for the least length that fails.                               *)

LEMMA LeastNumber ==
    ASSUME NEW S, S \subseteq Nat, S # {}
    PROVE  \E m \in S : \A n \in S : m <= n
<1> DEFINE less == {pair \in Nat \X Nat : pair[1] < pair[2]}
<1>1. IsWellFoundedOn(less, Nat)
  BY NatLessThanWellFounded DEF OpToRel
<1> HIDE DEF less
<1>2. \E m \in S : \A n \in S : <<n, m>> \notin less
  BY <1>1, WFMin
<1>3. ASSUME NEW m \in S, NEW n \in S, <<n, m>> \notin less
      PROVE  m <= n
  <2>1. m \in Nat /\ n \in Nat /\ <<n, m>> \in Nat \X Nat
    OBVIOUS
  <2>2. ~(n < m)
    BY <1>3, <2>1 DEF less
  <2> QED BY <2>1, <2>2
<1> QED BY <1>2, <1>3

LEMMA SizeTypes == ASSUME NEW command PROVE SizeOf(command) \in Nat \ {0}
BY UplinkAssumption DEF SizeOf, Contents

\* f holds the bytes of every beginning of the list, up to the first n of it.
SumsUpTo(f, list, n) ==
    f = [k \in 0 .. n |-> IF k = 0 THEN 0 ELSE f[k - 1] + SizeOf(list[k])]

SameSizes(a, b, m) == \A k \in 1 .. m : SizeOf(a[k]) = SizeOf(b[k])

LEMMA SumsAgree ==
    ASSUME NEW a, NEW b, NEW i \in Nat, NEW j \in Nat, NEW f, NEW g,
           SumsUpTo(f, a, i), SumsUpTo(g, b, j),
           NEW m \in Nat, m <= i, m <= j,
           SameSizes(a, b, m)
    PROVE  f[m] = g[m]
<1> DEFINE wrong == {n \in 0 .. m : f[n] # g[n]}
<1> SUFFICES ASSUME wrong # {} PROVE FALSE
  OBVIOUS
<1>1. wrong \subseteq Nat
  OBVIOUS
<1>2. PICK n \in wrong : \A other \in wrong : n <= other
  BY <1>1, LeastNumber
<1>3. n \in 0 .. i /\ n \in 0 .. j /\ n \in 0 .. m /\ n \in Nat
  OBVIOUS
<1>4. f[n] = (IF n = 0 THEN 0 ELSE f[n - 1] + SizeOf(a[n]))
  BY <1>3 DEF SumsUpTo
<1>5. g[n] = (IF n = 0 THEN 0 ELSE g[n - 1] + SizeOf(b[n]))
  BY <1>3 DEF SumsUpTo
<1>6. n # 0
  BY <1>4, <1>5
<1>7. n - 1 \notin wrong /\ n - 1 \in 0 .. m
  BY <1>2, <1>3, <1>6
<1>8. f[n - 1] = g[n - 1] /\ SizeOf(a[n]) = SizeOf(b[n])
  BY <1>3, <1>6, <1>7 DEF SameSizes
<1> QED BY <1>4, <1>5, <1>6, <1>8

LEMMA SumsExist ==
    ASSUME NEW list, NEW m \in Nat
    PROVE  \E f \in [0 .. m -> Nat] : SumsUpTo(f, list, m)
<1> DEFINE wrong == {n \in Nat : ~ \E f \in [0 .. n -> Nat] : SumsUpTo(f, list, n)}
<1> SUFFICES ASSUME wrong # {} PROVE FALSE
  OBVIOUS
<1>1. PICK n \in wrong : \A other \in wrong : n <= other
  BY LeastNumber
<1>2. n \in Nat /\ ~ \E f \in [0 .. n -> Nat] : SumsUpTo(f, list, n)
  OBVIOUS
<1>3. n # 0
  <2> SUFFICES ASSUME n = 0 PROVE FALSE
    OBVIOUS
  <2> DEFINE f == [k \in 0 .. 0 |-> 0]
  <2>1. f \in [0 .. n -> Nat]
    OBVIOUS
  <2>2. SumsUpTo(f, list, n)
    BY DEF SumsUpTo
  <2> QED BY <1>2, <2>1, <2>2
<1>4. n - 1 \in Nat /\ n - 1 \notin wrong
  BY <1>1, <1>2, <1>3
<1>5. PICK f \in [0 .. n - 1 -> Nat] : SumsUpTo(f, list, n - 1)
  BY <1>4
<1>s. SizeOf(list[n]) \in Nat
  BY SizeTypes
<1>6. PICK g : g = [k \in 0 .. n |-> IF k = n THEN f[n - 1] + SizeOf(list[n]) ELSE f[k]]
  OBVIOUS
<1>7. f[n - 1] \in Nat
  BY <1>4, <1>5
<1>8. g \in [0 .. n -> Nat]
  BY <1>2, <1>5, <1>6, <1>7, <1>s
<1>9. ASSUME NEW k \in 0 .. n
      PROVE  g[k] = (IF k = 0 THEN 0 ELSE g[k - 1] + SizeOf(list[k]))
  <2>1. CASE k = n
    <3>1. g[k - 1] = f[n - 1] /\ g[k] = f[n - 1] + SizeOf(list[n])
      BY <1>2, <1>3, <1>6, <2>1
    <3> QED BY <1>3, <2>1, <3>1
  <2>2. CASE k # n
    <3>1. k \in 0 .. n - 1
      BY <1>2, <2>2
    <3>2. f[k] = (IF k = 0 THEN 0 ELSE f[k - 1] + SizeOf(list[k]))
      BY <1>5, <3>1 DEF SumsUpTo
    <3>3. g[k] = f[k] /\ (k # 0 => g[k - 1] = f[k - 1])
      BY <1>2, <1>6, <2>2, <3>1
    <3> QED BY <3>2, <3>3
  <2> QED BY <2>1, <2>2
<1>10. g = [k \in 0 .. n |-> g[k]]
  BY <1>6
<1>11. SumsUpTo(g, list, n)
  BY <1>9, <1>10 DEF SumsUpTo
<1> QED BY <1>2, <1>8, <1>11

LEMMA BytesAreSummed ==
    ASSUME NEW list, Len(list) \in Nat, NEW f, SumsUpTo(f, list, Len(list))
    PROVE  Bytes(list) = f[Len(list)]
<1>1. ASSUME NEW g, SumsUpTo(g, list, Len(list)) PROVE g = f
  <2>1. ASSUME NEW k \in 0 .. Len(list) PROVE g[k] = f[k]
    <3>1. k \in Nat /\ k <= Len(list) /\ SameSizes(list, list, k)
      BY DEF SameSizes
    <3> QED BY <1>1, <3>1, SumsAgree
  <2>2. g = [k \in 0 .. Len(list) |-> g[k]] /\ f = [k \in 0 .. Len(list) |-> f[k]]
    BY <1>1 DEF SumsUpTo
  <2> QED BY <2>1, <2>2
<1>2. f = CHOOSE g : SumsUpTo(g, list, Len(list))
  BY <1>1
<1> QED BY <1>2 DEF Bytes, SumsUpTo

LEMMA BytesTypes == ASSUME NEW C, NEW list \in Seq(C) PROVE Bytes(list) \in Nat
<1>1. PICK f \in [0 .. Len(list) -> Nat] : SumsUpTo(f, list, Len(list))
  BY SumsExist
<1> QED BY <1>1, BytesAreSummed

\* Lists of the same length and sizes have the same bytes.
LEMMA BytesSame ==
    ASSUME NEW A, NEW a \in Seq(A), NEW B, NEW b \in Seq(B), Len(a) = Len(b),
           \A k \in 1 .. Len(a) : SizeOf(a[k]) = SizeOf(b[k])
    PROVE  Bytes(a) = Bytes(b)
<1>l. PICK l \in Nat : l = Len(a) /\ l = Len(b)
  OBVIOUS
<1>1. PICK f \in [0 .. l -> Nat] : SumsUpTo(f, a, l)
  BY SumsExist
<1>2. PICK g \in [0 .. l -> Nat] : SumsUpTo(g, b, l)
  BY SumsExist
<1>s. SameSizes(a, b, l)
  BY <1>l DEF SameSizes
<1>3. f[l] = g[l]
  <2>1. l <= l
    OBVIOUS
  <2>2. SumsUpTo(f, a, l) /\ SumsUpTo(g, b, l)
    BY <1>1, <1>2
  <2> QED BY <1>s, <2>1, <2>2, SumsAgree
<1> QED BY <1>l, <1>1, <1>2, <1>3, BytesAreSummed

LEMMA BytesOfAppended ==
    ASSUME NEW C, NEW list \in Seq(C), NEW command \in C
    PROVE  Bytes(Append(list, command)) = Bytes(list) + SizeOf(command)
<1> DEFINE longer == Append(list, command)
<1>1. /\ longer \in Seq(C) /\ Len(longer) = Len(list) + 1 /\ longer[Len(list) + 1] = command
      /\ \A k \in 1 .. Len(list) : longer[k] = list[k]
  OBVIOUS
<1> HIDE DEF longer
<1>l. PICK l \in Nat : l = Len(list) /\ l + 1 = Len(longer)
  BY <1>1
<1>2. PICK f \in [0 .. l -> Nat] : SumsUpTo(f, list, l)
  BY SumsExist
<1>3. PICK g \in [0 .. l + 1 -> Nat] : SumsUpTo(g, longer, l + 1)
  <2>1. l + 1 \in Nat
    OBVIOUS
  <2> QED BY <2>1, SumsExist
<1>s. SameSizes(list, longer, l)
  BY <1>l, <1>1 DEF SameSizes
<1>4. f[l] = g[l]
  <2>1. l + 1 \in Nat /\ l <= l /\ l <= l + 1
    OBVIOUS
  <2>2. SumsUpTo(f, list, l) /\ SumsUpTo(g, longer, l + 1)
    BY <1>2, <1>3
  <2> QED BY <1>s, <2>1, <2>2, SumsAgree
<1>5. g[l + 1] = g[l] + SizeOf(command)
  <2>1. l + 1 \in 0 .. l + 1 /\ l + 1 # 0 /\ (l + 1) - 1 = l
    OBVIOUS
  <2>2. g[l + 1] = (IF l + 1 = 0 THEN 0 ELSE g[(l + 1) - 1] + SizeOf(longer[l + 1]))
    BY <1>3, <2>1 DEF SumsUpTo
  <2> QED BY <1>l, <1>1, <2>1, <2>2
<1>6. Bytes(list) = f[l] /\ Bytes(longer) = g[l + 1]
  BY <1>l, <1>1, <1>2, <1>3, BytesAreSummed
<1> QED BY <1>l, <1>4, <1>5, <1>6 DEF longer

-----------------------------------------------------------------------------
(* The cache of results *)

GoodCommands == [id : Ids, content : Contents]

Results == [id : Ids, content : Contents, outcome : CommandOutcomes]

UplinkTypes ==
    /\ commands \in Seq(Commands)
    /\ work = [command |-> work.command, answer |-> work.answer]
    /\ work.command \in Commands
    /\ handled \in Seq(GoodCommands)
    /\ results \in Seq(Results)

Forgotten == Len(handled) - Len(results)

\* The results that are retained are those of the last commands handled.
LatestRetained ==
    /\ Len(results) <= Len(handled)
    /\ \A k \in 1 .. Len(results) :
          /\ results[k].id = handled[Forgotten + k].id
          /\ results[k].content = handled[Forgotten + k].content

\* What is forgotten would not fit, with all that came after it.
ForgottenByNeed ==
    \A i \in 1 .. Forgotten :
        \/ Len(handled) - i + 1 > ResultCapacity
        \/ Bytes(SubSeq(handled, i, Len(handled))) > ResultBytes

CacheInv == UplinkTypes /\ LatestRetained /\ ForgottenByNeed /\ RepeatedOnlyWhenForgotten

\* Kept drops the oldest results, and none that it need not.
LEMMA KeptIsLongest ==
    ASSUME NEW list \in Seq(Results), NEW size \in Nat, size <= ResultBytes
    PROVE  \E k \in 1 .. Len(list) + 1 :
             /\ Kept(list, size) = SubSeq(list, k, Len(list))
             /\ \A i \in 1 .. k - 1 : ~LeavesRoom(SubSeq(list, i, Len(list)), size)
<1> DEFINE l == Len(list)
           from(i) == SubSeq(list, i, l)
           fits == {i \in 1 .. l + 1 : LeavesRoom(from(i), size)}
           fit(rest) ==
             /\ LeavesRoom(rest, size)
             /\ \A longer \in Suffixes(list) : LeavesRoom(longer, size) => Len(longer) <= Len(rest)
<1>l. l \in Nat
  OBVIOUS
<1>1. ASSUME NEW i \in 1 .. l + 1 PROVE from(i) \in Seq(Results) /\ Len(from(i)) = l - i + 1
  BY SubSeqProperties
<1>2. from(l + 1) = <<>>
  <2>1. Len(from(l + 1)) = 0 /\ from(l + 1) \in Seq(Results)
    BY <1>l, <1>1
  <2> QED BY <2>1, EmptySeq
<1>3. Suffixes(list) = {from(i) : i \in 1 .. l + 1}
  <2>1. Suffixes(list) = {from(i) : i \in 1 .. l} \cup {from(l + 1)}
    BY <1>2 DEF Suffixes
  <2> HIDE DEF from
  <2>2. 1 .. l + 1 = (1 .. l) \cup {l + 1}
    BY <1>l
  <2> QED BY <2>1, <2>2
<1> HIDE DEF from
<1>4. LeavesRoom(<<>>, size)
  <2>1. <<>> \in Seq(Results) /\ Len(<<>>) = 0
    BY EmptySeq
  <2>2. PICK f \in [0 .. 0 -> Nat] : SumsUpTo(f, <<>>, 0)
    BY SumsExist
  <2>3. f[0] = 0
    BY <2>2 DEF SumsUpTo
  <2>4. Bytes(<<>>) = 0
    BY <2>1, <2>2, <2>3, BytesAreSummed
  <2>5. ResultCapacity \in Nat \ {0} /\ ResultBytes \in Nat
    BY UplinkAssumption
  <2> QED BY <2>1, <2>4, <2>5 DEF LeavesRoom
<1>5. l + 1 \in fits
  BY <1>l, <1>2, <1>4
<1>f. fits \subseteq Nat /\ fits # {}
  <2>1. fits \subseteq 1 .. l + 1
    OBVIOUS
  <2>2. fits # {}
    BY <1>5
  <2> HIDE DEF fits
  <2> QED BY <1>l, <2>1, <2>2
<1>6. PICK least \in fits : \A i \in fits : least <= i
  <2> HIDE DEF fits
  <2> QED BY <1>f, LeastNumber
<1>7. fit(from(least)) /\ from(least) \in Suffixes(list)
  <2>1. ASSUME NEW longer \in Suffixes(list), LeavesRoom(longer, size)
        PROVE  Len(longer) <= Len(from(least))
    <3>1. PICK i \in 1 .. l + 1 : longer = from(i)
      BY <1>3
    <3>2. i \in fits
      BY <2>1, <3>1
    <3>3. least <= i /\ least \in 1 .. l + 1
      BY <1>6, <3>2
    <3> QED BY <1>l, <1>1, <3>1, <3>3
  <2> QED BY <1>3, <2>1
<1>8. Kept(list, size) \in Suffixes(list) /\ fit(Kept(list, size))
  <2>1. Kept(list, size) = CHOOSE rest \in Suffixes(list) : fit(rest)
    BY DEF Kept
  <2> HIDE DEF fit
  <2> QED BY <1>7, <2>1
<1>9. PICK k \in 1 .. l + 1 : Kept(list, size) = from(k)
  BY <1>3, <1>8
<1>10. ASSUME NEW i \in 1 .. k - 1, LeavesRoom(from(i), size) PROVE FALSE
  <2>1. i \in 1 .. l + 1 /\ from(i) \in Suffixes(list)
    BY <1>l, <1>3
  <2>2. Len(from(i)) <= Len(from(k))
    BY <1>8, <1>9, <1>10, <2>1
  <2> QED BY <1>l, <1>1, <2>1, <2>2
<1> QED BY <1>9, <1>10 DEF from

\* A part of a list is the part of what the list was before its last command.
LEMMA PartOfAppended ==
    ASSUME NEW C, NEW list \in Seq(C), NEW command \in C,
           NEW i \in 1 .. Len(list) + 1, NEW j \in 0 .. Len(list), i <= j + 1
    PROVE  SubSeq(Append(list, command), i, j) = SubSeq(list, i, j)
<1> DEFINE longer == Append(list, command)
<1>l. PICK l \in Nat : l = Len(list)
  OBVIOUS
<1>1. /\ longer \in Seq(C) /\ Len(longer) = l + 1 /\ longer[l + 1] = command
      /\ \A k \in 1 .. l : longer[k] = list[k]
  BY <1>l
<1> HIDE DEF longer
<1>2. /\ SubSeq(longer, i, j) \in Seq(C) /\ Len(SubSeq(longer, i, j)) = j - i + 1
      /\ \A k \in 1 .. j - i + 1 : SubSeq(longer, i, j)[k] = longer[i + k - 1]
  BY <1>l, <1>1, SubSeqProperties
<1>3. /\ SubSeq(list, i, j) \in Seq(C) /\ Len(SubSeq(list, i, j)) = j - i + 1
      /\ \A k \in 1 .. j - i + 1 : SubSeq(list, i, j)[k] = list[i + k - 1]
  BY <1>l, SubSeqProperties
<1>4. ASSUME NEW k \in 1 .. j - i + 1 PROVE SubSeq(longer, i, j)[k] = SubSeq(list, i, j)[k]
  BY <1>l, <1>1, <1>2, <1>3
<1>5. SubSeq(longer, i, j) = SubSeq(list, i, j)
  BY <1>2, <1>3, <1>4, SeqEqual
<1> QED BY <1>5 DEF longer

\* The bytes from a command on grow by the command that is appended.
LEMMA BytesFromGrow ==
    ASSUME NEW C, NEW list \in Seq(C), NEW command \in C, NEW i \in 1 .. Len(list) + 1
    PROVE  Bytes(SubSeq(Append(list, command), i, Len(list) + 1))
             = Bytes(SubSeq(list, i, Len(list))) + SizeOf(command)
<1> DEFINE longer == Append(list, command)
<1>l. PICK l \in Nat : l = Len(list)
  OBVIOUS
<1> DEFINE part == SubSeq(list, i, l)
           grown == Append(part, command)
<1>1. /\ longer \in Seq(C) /\ Len(longer) = l + 1 /\ longer[l + 1] = command
      /\ \A k \in 1 .. l : longer[k] = list[k]
  BY <1>l
<1> HIDE DEF longer
<1>2. /\ SubSeq(longer, i, l + 1) \in Seq(C) /\ Len(SubSeq(longer, i, l + 1)) = l - i + 2
      /\ \A k \in 1 .. l - i + 2 : SubSeq(longer, i, l + 1)[k] = longer[i + k - 1]
  BY <1>l, <1>1, SubSeqProperties
<1>3. /\ part \in Seq(C) /\ Len(part) = l - i + 1
      /\ \A k \in 1 .. l - i + 1 : part[k] = list[i + k - 1]
  BY <1>l, SubSeqProperties
<1> HIDE DEF part
<1>4. /\ grown \in Seq(C) /\ Len(grown) = l - i + 2
      /\ \A k \in 1 .. l - i + 1 : grown[k] = part[k]
      /\ grown[l - i + 2] = command
  BY <1>l, <1>3
<1> HIDE DEF grown
<1>5. ASSUME NEW k \in 1 .. l - i + 2 PROVE SubSeq(longer, i, l + 1)[k] = grown[k]
  <2>1. CASE k = l - i + 2
    BY <1>l, <1>1, <1>2, <1>4, <2>1
  <2>2. CASE k # l - i + 2
    <3>1. k \in 1 .. l - i + 1 /\ i + k - 1 \in 1 .. l
      BY <1>l, <2>2
    <3> QED BY <1>1, <1>2, <1>3, <1>4, <3>1
  <2> QED BY <2>1, <2>2
<1>6. SubSeq(longer, i, l + 1) = grown
  BY <1>2, <1>4, <1>5, SeqEqual
<1>7. Bytes(grown) = Bytes(part) + SizeOf(command)
  BY <1>3, BytesOfAppended DEF grown
<1> QED BY <1>l, <1>6, <1>7 DEF longer, part

\* A command that is handled for the first time is retained, and what has to go
\* for it would not have fitted with it.
LEMMA ExecutingKeepsCache ==
    ASSUME CacheInv, NEW command, command = work.command, command # Garbled,
           Retained(command.id) = {}, NEW outcome \in CommandOutcomes,
           ExecuteCommand(command, outcome)
    PROVE  /\ handled' \in Seq(GoodCommands) /\ results' \in Seq(Results)
           /\ LatestRetained' /\ ForgottenByNeed' /\ RepeatedOnlyWhenForgotten'
<1> DEFINE size == SizeOf(command)
           result == [id |-> command.id, content |-> command.content, outcome |-> outcome]
<1>1. command \in GoodCommands /\ result \in Results
  BY DEF CacheInv, UplinkTypes, Commands, GoodCommands, Results
<1>2. size \in Nat \ {0} /\ size <= ResultBytes
  <2>1. command.content \in Contents
    BY <1>1 DEF GoodCommands
  <2> QED BY <2>1, SizeTypes, UplinkAssumption DEF SizeOf, Contents
<1>3. ResultCapacity \in Nat /\ ResultBytes \in Nat
  BY UplinkAssumption
<1>4. handled \in Seq(GoodCommands) /\ results \in Seq(Results)
  BY DEF CacheInv, UplinkTypes
<1> HIDE DEF size, result
<1>5. PICK h \in Nat : h = Len(handled)
  BY <1>4
<1>6. PICK l \in Nat : l = Len(results)
  BY <1>4
<1>7. /\ l <= h /\ Forgotten = h - l
      /\ \A m \in 1 .. l : /\ results[m].id = handled[h - l + m].id
                          /\ results[m].content = handled[h - l + m].content
  BY <1>5, <1>6 DEF CacheInv, LatestRetained, Forgotten
<1>8. PICK k \in 1 .. l + 1 :
        /\ Kept(results, size) = SubSeq(results, k, l)
        /\ \A i \in 1 .. k - 1 : ~LeavesRoom(SubSeq(results, i, l), size)
  BY <1>2, <1>4, <1>6, KeptIsLongest
<1> DEFINE kept == SubSeq(results, k, l)
<1>9. kept \in Seq(Results) /\ Len(kept) = l - k + 1
      /\ \A m \in 1 .. l - k + 1 : kept[m] = results[k + m - 1]
  BY <1>4, <1>6, SubSeqProperties
<1>10. results' = Append(kept, result)
  BY <1>8 DEF ExecuteCommand, size, result
<1> HIDE DEF kept
<1>11. /\ results' \in Seq(Results) /\ Len(results') = l - k + 2
       /\ \A m \in 1 .. l - k + 1 : results'[m] = results[k + m - 1]
       /\ results'[l - k + 2] = result
  <2>1. kept \in Seq(Results) /\ result \in Results /\ Len(kept) + 1 = l - k + 2
    BY <1>1, <1>6, <1>9
  <2>2. /\ results' \in Seq(Results) /\ Len(results') = Len(kept) + 1
        /\ \A m \in 1 .. Len(kept) : results'[m] = kept[m]
        /\ results'[Len(kept) + 1] = result
    BY <1>10, <2>1
  <2> QED BY <1>9, <2>1, <2>2
<1>12. handled' = Append(handled, command)
  BY DEF ExecuteCommand
<1>13. /\ handled' \in Seq(GoodCommands) /\ Len(handled') = h + 1
       /\ \A m \in 1 .. h : handled'[m] = handled[m]
       /\ handled'[h + 1] = command
  BY <1>1, <1>4, <1>5, <1>12
<1>14. Forgotten' = h - l + k - 1
  <2>1. Forgotten' = Len(handled') - Len(results')
    BY DEF Forgotten
  <2> QED BY <1>11, <1>13, <2>1
<1>15. LatestRetained'
  <2>1. Len(results') <= Len(handled')
    BY <1>7, <1>11, <1>13
  <2>2. ASSUME NEW m \in 1 .. Len(results')
        PROVE  /\ results'[m].id = handled'[Forgotten' + m].id
               /\ results'[m].content = handled'[Forgotten' + m].content
    <3>1. CASE m = l - k + 2
      <4>1. Forgotten' + m = h + 1
        BY <1>14, <3>1
      <4> QED BY <1>11, <1>13, <3>1, <4>1 DEF result
    <3>2. CASE m # l - k + 2
      <4>1. /\ m \in 1 .. l - k + 1 /\ k + m - 1 \in 1 .. l
            /\ Forgotten' + m = h - l + (k + m - 1) /\ Forgotten' + m \in 1 .. h
        BY <1>7, <1>11, <1>14, <3>2
      <4>2. results'[m] = results[k + m - 1] /\ handled'[Forgotten' + m] = handled[h - l + (k + m - 1)]
        BY <1>11, <1>13, <4>1
      <4> QED BY <1>7, <4>1, <4>2
    <3> QED BY <3>1, <3>2
  <2> QED BY <2>1, <2>2 DEF LatestRetained
<1>16. ASSUME NEW i \in 1 .. h + 1
       PROVE  /\ Bytes(SubSeq(handled, i, h)) \in Nat
              /\ Bytes(SubSeq(handled', i, h + 1)) = Bytes(SubSeq(handled, i, h)) + size
  <2>1. SubSeq(handled, i, h) \in Seq(GoodCommands)
    BY <1>4, <1>5, SubSeqProperties
  <2> QED BY <1>1, <1>4, <1>5, <1>12, <2>1, BytesTypes, BytesFromGrow DEF size
<1>17. ForgottenByNeed'
  <2>1. ASSUME NEW i \in 1 .. h - l + k - 1
        PROVE  \/ (h + 1) - i + 1 > ResultCapacity
               \/ Bytes(SubSeq(handled', i, h + 1)) > ResultBytes
    <3>1. i \in 1 .. h + 1 /\ i \in 1 .. h
      BY <1>7
    <3>2. CASE i <= h - l
      <4>1. \/ h - i + 1 > ResultCapacity
            \/ Bytes(SubSeq(handled, i, h)) > ResultBytes
        BY <1>5, <1>7, <3>2 DEF CacheInv, ForgottenByNeed
      <4> QED BY <1>2, <1>3, <1>16, <3>1, <4>1
    <3>3. CASE i > h - l
      <4> DEFINE r == i - (h - l)
                 old == SubSeq(results, r, l)
                 same == SubSeq(handled, i, h)
      <4>1. r \in 1 .. k - 1 /\ r \in 1 .. l /\ l - r + 1 = h - i + 1
        BY <1>7, <3>3
      <4> HIDE DEF r
      <4>2. /\ old \in Seq(Results) /\ Len(old) = l - r + 1
            /\ \A m \in 1 .. l - r + 1 : old[m] = results[r + m - 1]
        BY <1>4, <1>6, <4>1, SubSeqProperties
      <4>3. /\ same \in Seq(GoodCommands) /\ Len(same) = h - i + 1
            /\ \A m \in 1 .. h - i + 1 : same[m] = handled[i + m - 1]
        BY <1>4, <1>5, <3>1, SubSeqProperties
      <4> HIDE DEF old, same
      <4>4. ASSUME NEW m \in 1 .. Len(old) PROVE SizeOf(old[m]) = SizeOf(same[m])
        <5>1. r + m - 1 \in 1 .. l /\ h - l + (r + m - 1) = i + m - 1
          BY <4>1, <4>2 DEF r
        <5>2. old[m].content = same[m].content
          BY <1>7, <4>1, <4>2, <4>3, <5>1
        <5> QED BY <5>2 DEF SizeOf
      <4>5. Bytes(old) = Bytes(same)
        BY <4>1, <4>2, <4>3, <4>4, BytesSame
      <4>6. ~LeavesRoom(old, size)
        BY <1>8, <4>1 DEF old
      <4>7. Len(old) >= ResultCapacity \/ Bytes(old) > ResultBytes - size
        <5>1. Len(old) \in Nat /\ Bytes(old) \in Nat
          BY <4>2, BytesTypes
        <5> QED BY <1>2, <1>3, <4>6, <5>1 DEF LeavesRoom
      <4>8. Bytes(same) \in Nat /\ Bytes(SubSeq(handled', i, h + 1)) = Bytes(same) + size
        BY <1>16, <3>1 DEF same
      <4> QED BY <1>2, <1>3, <4>1, <4>2, <4>5, <4>7, <4>8
    <3> QED BY <1>7, <3>2, <3>3
  <2> QED BY <1>13, <1>14, <2>1 DEF ForgottenByNeed
<1>18. RepeatedOnlyWhenForgotten'
  <2>1. ASSUME NEW i \in DOMAIN handled', NEW j \in DOMAIN handled', i < j,
               handled'[i].id = handled'[j].id
        PROVE  \/ j - i > ResultCapacity
               \/ Bytes(SubSeq(handled', i, j - 1)) > ResultBytes
    <3>1. i \in 1 .. h /\ j \in 1 .. h + 1 /\ handled'[i] = handled[i]
      BY <1>13, <2>1
    <3>2. SubSeq(handled', i, j - 1) = SubSeq(handled, i, j - 1)
      BY <1>1, <1>4, <1>5, <1>12, <2>1, <3>1, PartOfAppended
    <3>3. CASE j = h + 1
      <4>1. handled[i].id = command.id
        BY <1>13, <2>1, <3>1, <3>3
      <4>2. i <= h - l
        <5> SUFFICES ASSUME i > h - l PROVE FALSE
          BY <1>7, <3>1
        <5>1. i - (h - l) \in 1 .. l /\ (h - l) + (i - (h - l)) = i
          BY <1>7, <3>1
        <5>2. results[i - (h - l)].id = command.id
          BY <1>7, <4>1, <5>1
        <5>3. i - (h - l) \in Retained(command.id)
          BY <1>4, <1>6, <5>1, <5>2 DEF Retained
        <5> QED BY <5>3
      <4>3. \/ h - i + 1 > ResultCapacity
            \/ Bytes(SubSeq(handled, i, h)) > ResultBytes
        BY <1>5, <1>7, <3>1, <4>2 DEF CacheInv, ForgottenByNeed
      <4>4. j - 1 = h /\ j - i = h - i + 1
        BY <3>1, <3>3
      <4> QED BY <3>2, <4>3, <4>4
    <3>4. CASE j # h + 1
      <4>1. i \in DOMAIN handled /\ j \in DOMAIN handled /\ handled'[j] = handled[j]
        BY <1>4, <1>5, <1>13, <3>1, <3>4
      <4> QED BY <2>1, <3>1, <3>2, <4>1 DEF CacheInv, RepeatedOnlyWhenForgotten
    <3> QED BY <3>3, <3>4
  <2> QED BY <2>1 DEF RepeatedOnlyWhenForgotten
<1> QED BY <1>11, <1>13, <1>15, <1>17, <1>18

\* Where no command is handled for the first time the cache stays as it is.
LEMMA CacheStays ==
    ASSUME CacheInv, UNCHANGED <<results, handled>>
    PROVE  /\ handled' \in Seq(GoodCommands) /\ results' \in Seq(Results)
           /\ LatestRetained' /\ ForgottenByNeed' /\ RepeatedOnlyWhenForgotten'
BY DEF CacheInv, UplinkTypes, LatestRetained, ForgottenByNeed, RepeatedOnlyWhenForgotten, Forgotten

LEMMA UplinkKeepsCache == CacheInv /\ [UplinkNext]_uplinkVars => CacheInv'
<1> SUFFICES ASSUME CacheInv, [UplinkNext]_uplinkVars PROVE CacheInv'
  OBVIOUS
<1> DEFINE workTypes == /\ work = [command |-> work.command, answer |-> work.answer]
                        /\ work.command \in Commands
           list == commands \in Seq(Commands)
           cache == /\ handled \in Seq(GoodCommands) /\ results \in Seq(Results)
                    /\ LatestRetained /\ ForgottenByNeed /\ RepeatedOnlyWhenForgotten
<1>t. workTypes /\ list
  BY DEF CacheInv, UplinkTypes
<1>g. Garbled \in Commands
  BY DEF Commands
<1>s. ASSUME UNCHANGED <<results, handled>> PROVE cache'
  BY <1>s, CacheStays
<1>e. ASSUME workTypes', list', cache' PROVE CacheInv'
  BY <1>e DEF CacheInv, UplinkTypes
<1>1. ASSUME NEW command \in Commands, Enqueue(command) PROVE CacheInv'
  <2>1. workTypes' /\ UNCHANGED <<results, handled>>
    BY <1>1, <1>t DEF Enqueue
  <2>2. list'
    BY <1>1, <1>t DEF Enqueue
  <2> QED BY <1>s, <1>e, <2>1, <2>2
<1>2. ASSUME TakeCommand PROVE CacheInv'
  <2>1. workTypes' /\ UNCHANGED <<results, handled>>
    BY <1>2, <1>t DEF TakeCommand
  <2>2. list'
    BY <1>2, <1>t DEF TakeCommand
  <2> QED BY <1>s, <1>e, <2>1, <2>2
<1>3. ASSUME HandleCommand PROVE CacheInv'
  <2>1. ASSUME NEW answer, Answered(answer) PROVE workTypes' /\ list'
    BY <1>t, <2>1 DEF Answered
  <2>2. CASE \E answer : Answered(answer) /\ UNCHANGED <<results, handled>>
    BY <1>s, <1>e, <2>1, <2>2
  <2>3. ASSUME work.command # Garbled, Retained(work.command.id) = {},
               NEW outcome \in CommandOutcomes, ExecuteCommand(work.command, outcome)
        PROVE  CacheInv'
    <3>1. Answered(outcome)
      BY <2>3 DEF ExecuteCommand
    <3>2. cache'
      BY <2>3, ExecutingKeepsCache
    <3> QED BY <1>e, <2>1, <3>1, <3>2
  <2> QED BY <1>3, <2>2, <2>3 DEF HandleCommand
<1>4. ASSUME SendResult PROVE CacheInv'
  <2>1. workTypes' /\ list' /\ UNCHANGED <<results, handled>>
    BY <1>4, <1>t, <1>g DEF SendResult
  <2> QED BY <1>s, <1>e, <2>1
<1>5. ASSUME End PROVE CacheInv'
  <2>1. workTypes' /\ list' /\ UNCHANGED <<results, handled>>
    BY <1>5, <1>t, EmptySeq DEF End
  <2> QED BY <1>s, <1>e, <2>1
<1>6. CASE UNCHANGED <<commands, work, results, handled>>
  <2>1. workTypes' /\ list'
    BY <1>6, <1>t
  <2> QED BY <1>6, <1>s, <1>e, <2>1
<1>7. \/ \E command \in Commands : Enqueue(command)
      \/ TakeCommand \/ HandleCommand \/ SendResult \/ End
      \/ UNCHANGED <<commands, work, results, handled>>
  BY DEF UplinkNext, uplinkVars, UplinkWorker, AlarmFails, Start, StopUplink, CancelTransport, Check,
         Connect, ConnectFails, SendStatus, NoCommand, Beat, Wake, StopServing, Leave, BackOff, Throw
<1> QED BY <1>1, <1>2, <1>3, <1>4, <1>5, <1>6, <1>7

LEMMA UplinkStartsEmpty == UplinkInit => CacheInv
<1> SUFFICES ASSUME UplinkInit PROVE CacheInv
  OBVIOUS
<1>1. commands = <<>> /\ results = <<>> /\ handled = <<>> /\ Len(<<>>) = 0
  BY EmptySeq DEF UplinkInit
<1>2. UplinkTypes
  BY <1>1, EmptySeq DEF UplinkInit, UplinkTypes, Commands
<1>3. Forgotten = 0
  BY <1>1 DEF Forgotten
<1> QED BY <1>1, <1>2, <1>3 DEF CacheInv, LatestRetained, ForgottenByNeed, RepeatedOnlyWhenForgotten

\* A command that is delivered again is executed again, or its id executes
\* another content, only when results that came after its own had to push it out
\* of the cache: for every capacity of the queue and of the cache, every size of
\* a command that fits the cache and any number of deliveries
\* (runtime.cpp:459, 549).
THEOREM RepeatedOnlyWhenForgottenAlways == UplinkSpec => []RepeatedOnlyWhenForgotten
<1>1. CacheInv => RepeatedOnlyWhenForgotten
  BY DEF CacheInv
<1> QED BY <1>1, UplinkStartsEmpty, UplinkKeepsCache, PTL DEF UplinkSpec

==============================================================================
