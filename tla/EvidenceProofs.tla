---------------------------- MODULE EvidenceProofs ----------------------------
(***************************************************************************)
(* Theorems about evidence after it was found: the blocks of the rolling   *)
(* cache that events lease, the key frames on their way to the disk        *)
(* through failures and a stop, and which they are, the chunked upload of  *)
(* a file and the deletion of what was uploaded.                           *)
(***************************************************************************)
EXTENDS NvmeCache, KeyFrames, ChunkedUpload, StorageMaintenance, FiniteSetTheorems,
        NaturalsInduction, WellFoundedInduction, TLAPS

-----------------------------------------------------------------------------
(* The chunked upload *)

UploadRequests ==
    [kind : {"metadata", "create", "status", "complete"}, chunk : {0}, content : {"none"}]
        \cup [kind : {"chunk"}, chunk : Chunks, content : Contents]

Servers ==
    [state : {"none", "Uploading", "Completed"}, chunks : [Chunks -> Contents \cup {"none"}]]

\* What the host has completed is whole; this is the reason the edge may count
\* a job as completed on the strength of an earlier look at the host's state.
HostSound(s) == s \in Servers /\ (s.state = "Completed" => Whole(s.chunks))

Sources == [content : [Chunks -> Contents], intact : BOOLEAN, changes : Int]

Attempts ==
    [at : {"idle", "metadata", "create", "status", "reading", "sending", "complete"},
     next : Int, content : Contents \cup {"none"}, received : SUBSET Chunks,
     whole : BOOLEAN, completed : BOOLEAN]

ChunkedTypes ==
    /\ source \in Sources
    /\ edge \in Attempts
    /\ edge.at = "sending" => edge.next \in Chunks /\ edge.content \in Contents
    /\ late \subseteq UploadRequests

UploadInv ==
    /\ ChunkedTypes
    /\ HostSound(server)
    /\ edge.completed => server.state = "Completed"
    /\ job = "completed" => server.state = "Completed"

\* A request, whenever it arrives, leaves a sound host sound and never takes a
\* completion back; and a completion it answers with ok has happened.
LEMMA ServerKeepsSound ==
    ASSUME HostSound(server), NEW request \in UploadRequests
    PROVE  /\ HostSound(ServerAfter(request))
           /\ server.state = "Completed" => ServerAfter(request).state = "Completed"
           /\ request.kind = "complete" /\ ServerAnswer(request) = "ok"
                => ServerAfter(request).state = "Completed"
<1> USE DEF HostSound, Servers
<1>1. CASE request.kind = "create" /\ server.state = "none"
  BY <1>1 DEF ServerAfter
<1>2. CASE request.kind = "chunk" /\ server.state = "Uploading" /\ ServerAnswer(request) = "ok"
  <2>1. request.chunk \in Chunks /\ request.content \in Contents
    BY <1>2 DEF UploadRequests
  <2>2. ServerAfter(request) = [server EXCEPT !.chunks[request.chunk] = request.content]
    BY <1>2 DEF ServerAfter
  <2> QED BY <1>2, <2>1, <2>2
<1>3. CASE request.kind = "complete" /\ ServerAnswer(request) = "ok"
  <2>1. ServerAfter(request) = [server EXCEPT !.state = "Completed"]
    BY <1>3 DEF ServerAfter
  <2>2. server.state = "Completed" \/ Whole(server.chunks)
    BY <1>3 DEF ServerAnswer
  <2> QED BY <2>1, <2>2
<1>4. CASE ~(request.kind = "create" /\ server.state = "none")
           /\ ~(request.kind = "chunk" /\ server.state = "Uploading" /\ ServerAnswer(request) = "ok")
           /\ ~(request.kind = "complete" /\ ServerAnswer(request) = "ok")
  BY <1>4 DEF ServerAfter
<1> QED BY <1>1, <1>2, <1>3, <1>4

\* The requests an attempt makes are requests.
LEMMA RequestsAreTyped ==
    ASSUME ChunkedTypes
    PROVE  /\ \A kind \in {"metadata", "create", "status", "complete"} :
                Request(kind) \in UploadRequests /\ Request(kind).kind = kind
           /\ edge.at = "sending" =>
                [kind |-> "chunk", chunk |-> edge.next, content |-> edge.content] \in UploadRequests
BY DEF ChunkedTypes, Attempts, Sources, UploadRequests, Request

\* A failed request ends the attempt, and the host at most gains by it.
LEMMA FailsKeeps ==
    ASSUME UploadInv, NEW request \in UploadRequests, Fails(request)
    PROVE  UploadInv'
<1>1. HostSound(ServerAfter(request)) /\
      (server.state = "Completed" => ServerAfter(request).state = "Completed")
  BY ServerKeepsSound DEF UploadInv
<1>2. server' \in {server, ServerAfter(request)} /\ late' \in {late, late \cup {request}}
  BY DEF Fails, Unanswered, Answered
<1>3. edge' = NoAttempt /\ job' # "completed"
  BY DEF Fails, Retryable, Outcome
<1>4. source' = source
  BY DEF Fails
<1>5. ChunkedTypes'
  BY <1>2, <1>3, <1>4 DEF UploadInv, ChunkedTypes, Attempts, Sources, NoAttempt
<1> QED BY <1>1, <1>2, <1>3, <1>5 DEF UploadInv, NoAttempt, HostSound

LEMMA UploadInvInit == ChunkedInit => UploadInv
BY DEF ChunkedInit, UploadInv, ChunkedTypes, Attempts, Sources, HostSound, Servers, NoAttempt, Contents

LEMMA UploadInvNext == UploadInv /\ [ChunkedNext]_chunkedVars => UploadInv'
<1> SUFFICES ASSUME UploadInv, [ChunkedNext]_chunkedVars
             PROVE  UploadInv'
  OBVIOUS
<1> USE DEF UploadInv
<1>q. ASSUME NEW kind \in {"metadata", "create", "status", "complete"}, Fails(Request(kind))
      PROVE  UploadInv'
  BY <1>q, RequestsAreTyped, FailsKeeps
<1>h. ASSUME server' = server
      PROVE  HostSound(server)'
  BY <1>h DEF HostSound
<1>a. ASSUME NEW kind \in {"metadata", "create", "status", "complete"}, Answered(Request(kind))
      PROVE  /\ HostSound(server)' /\ late' = late
             /\ server.state = "Completed" => server'.state = "Completed"
             /\ kind = "complete" /\ ServerAnswer(Request(kind)) = "ok" => server'.state = "Completed"
  BY <1>a, RequestsAreTyped, ServerKeepsSound DEF Answered, HostSound
<1>n. ASSUME edge' = NoAttempt, UNCHANGED <<source, late>>
      PROVE  ChunkedTypes' /\ ~edge'.completed
  BY <1>n DEF ChunkedTypes, Attempts, Sources, NoAttempt
<1>1. CASE Claim
  <2>1. ChunkedTypes' /\ ~edge'.completed
    <3>1. edge' \in {NoAttempt, [NoAttempt EXCEPT !.at = "metadata"]} /\ UNCHANGED <<source, late>>
      BY <1>1 DEF Claim, Outcome
    <3>2. NoAttempt \in Attempts /\ NoAttempt.at = "idle" /\ ~NoAttempt.completed
      BY DEF NoAttempt, Attempts
    <3>3. /\ [NoAttempt EXCEPT !.at = "metadata"] \in Attempts
          /\ [NoAttempt EXCEPT !.at = "metadata"].at = "metadata"
          /\ ~[NoAttempt EXCEPT !.at = "metadata"].completed
      BY <3>2 DEF Attempts
    <3> QED BY <3>1, <3>2, <3>3 DEF ChunkedTypes
  <2> QED BY <1>1, <1>h, <2>1 DEF Claim, Outcome
<1>2. CASE ClaimOffline
  BY <1>2, <1>n, <1>h DEF ClaimOffline, Retryable, Outcome
<1>3. CASE SendMetadata
  <2>1. CASE Answered(Request("metadata")) /\ GoesTo("create") /\ UNCHANGED <<source, acknowledged>>
    BY <2>1, <1>a DEF GoesTo, ChunkedTypes, Attempts, Sources
  <2> QED BY <1>3, <1>q, <2>1 DEF SendMetadata
<1>4. CASE CreateUpload
  <2>1. CASE Answered(Request("create")) /\ GoesTo("status") /\ UNCHANGED <<source, acknowledged>>
    BY <2>1, <1>a DEF GoesTo, ChunkedTypes, Attempts, Sources
  <2> QED BY <1>4, <1>q, <2>1 DEF CreateUpload
<1>5. CASE GetStatus
  <2>1. CASE /\ Answered(Request("status"))
             /\ edge' = [edge EXCEPT !.at = "reading", !.received = Resumed,
                                     !.completed = server.state = "Completed"]
             /\ UNCHANGED <<source, job, acknowledged>>
    <3>1. Resumed \subseteq Chunks
      BY DEF Resumed, Received
    <3>2. ChunkedTypes'
      BY <2>1, <3>1, <1>a DEF ChunkedTypes, Attempts, Sources
    <3>3. edge'.completed = (server.state = "Completed") /\ job' = job
      BY <2>1 DEF ChunkedTypes, Attempts
    <3>4. /\ HostSound(server)'
          /\ server.state = "Completed" => server'.state = "Completed"
      BY <2>1, <1>a
    <3> QED BY <3>2, <3>3, <3>4
  <2> QED BY <1>5, <1>q, <2>1 DEF GetStatus
<1>6. CASE ReadChunk
  <2>1. source.content[edge.next] \in Contents /\ edge.next \in Int
    BY <1>6 DEF ReadChunk, ChunkedTypes, Attempts, Sources
  <2>2. ChunkedTypes' /\ edge'.completed = edge.completed
    <3> DEFINE whole == edge.whole /\ source.content[edge.next] = "declared"
    <3>1. edge.next \in Chunks /\ UNCHANGED <<source, late>>
      BY <1>6 DEF ReadChunk
    <3>2. CASE edge' = [edge EXCEPT !.next = edge.next + 1, !.whole = whole]
      <4>1. edge.at = "reading"
        BY <1>6 DEF ReadChunk, EdgeAt
      <4>2. edge.next + 1 \in Int /\ whole \in BOOLEAN
        BY <2>1
      <4>3. edge' \in Attempts /\ edge'.at = "reading" /\ edge'.completed = edge.completed
        <5> HIDE DEF whole
        <5> QED BY <3>2, <4>1, <4>2 DEF ChunkedTypes, Attempts
      <4> QED BY <3>1, <4>3 DEF ChunkedTypes
    <3>3. CASE edge' = [edge EXCEPT !.at = "sending", !.content = source.content[edge.next],
                                    !.whole = whole]
      BY <2>1, <3>1, <3>3 DEF ChunkedTypes, Attempts, Sources
    <3> QED BY <1>6, <3>2, <3>3 DEF ReadChunk
  <2> QED BY <1>6, <1>h, <2>2 DEF ReadChunk
<1>7. CASE SendChunk
  <2> DEFINE put == [kind |-> "chunk", chunk |-> edge.next, content |-> edge.content]
  <2>1. put \in UploadRequests
    BY <1>7, RequestsAreTyped DEF SendChunk, EdgeAt
  <2>2. CASE /\ Answered(put)
             /\ edge' = [edge EXCEPT !.at = "reading", !.content = "none",
                                     !.received = @ \cup {edge.next}, !.next = @ + 1]
             /\ UNCHANGED <<source, job>>
    <3>1. /\ HostSound(server)' /\ late' = late
          /\ server.state = "Completed" => server'.state = "Completed"
      BY <2>1, <2>2, ServerKeepsSound DEF Answered, HostSound
    <3>2. edge.next \in Chunks
      BY <1>7 DEF SendChunk, EdgeAt, ChunkedTypes, Attempts, Sources
    <3>3. ChunkedTypes' /\ edge'.completed = edge.completed
      <4>1. edge' = [edge EXCEPT !.at = "reading", !.content = "none",
                                 !.received = edge.received \cup {edge.next},
                                 !.next = edge.next + 1]
        BY <2>2
      <4>2. edge.next \in Int /\ edge.received \cup {edge.next} \in SUBSET Chunks
        BY <3>2 DEF ChunkedTypes, Attempts, Sources
      <4>3. edge.next + 1 \in Int
        BY <4>2
      <4>4. edge' \in Attempts /\ edge'.at = "reading" /\ edge'.completed = edge.completed
        BY <4>1, <4>2, <4>3 DEF ChunkedTypes, Attempts
      <4> QED BY <2>2, <3>1, <4>4 DEF ChunkedTypes
    <3> QED BY <2>2, <3>1, <3>3
  <2>3. CASE Fails(put)
    BY <2>1, <2>3, FailsKeeps
  <2> QED BY <1>7, <2>2, <2>3 DEF SendChunk
<1>8. CASE SourceChanged
  BY <1>8, <1>n, <1>h DEF SourceChanged, Outcome
<1>9. CASE SourceVerified
  <2>1. CASE AlreadyCompleted /\ Outcome("completed")
    BY <1>9, <2>1, <1>n, <1>h DEF SourceVerified, AlreadyCompleted, Outcome
  <2>2. CASE GoesTo("complete")
    <3>1. ChunkedTypes' /\ edge'.completed = edge.completed
      BY <1>9, <2>2 DEF SourceVerified, GoesTo, ChunkedTypes, Attempts, Sources
    <3> QED BY <1>9, <2>2, <3>1, <1>h DEF SourceVerified, GoesTo
  <2> QED BY <1>9, <2>1, <2>2 DEF SourceVerified
<1>10. CASE CompleteUpload
  <2>1. CASE /\ Answered(Request("complete")) /\ ServerAnswer(Request("complete")) = "ok"
             /\ Outcome("completed") /\ UNCHANGED <<source, acknowledged>>
    BY <2>1, <1>a, <1>n DEF Outcome
  <2> QED BY <1>10, <1>q, <2>1 DEF CompleteUpload
<1>11. CASE Interrupted
  BY <1>11, <1>n, <1>h DEF Interrupted, Outcome
<1>12. CASE Retry
  BY <1>12, <1>n, <1>h DEF Retry, Outcome
<1>13. CASE Arrive
  <2>1. PICK request \in late : server' = ServerAfter(request) /\ late' = late \ {request}
    BY <1>13 DEF Arrive
  <2>2. request \in UploadRequests
    BY DEF ChunkedTypes, Attempts, Sources
  <2>3. HostSound(server)' /\ (server.state = "Completed" => server'.state = "Completed")
    BY <2>1, <2>2, ServerKeepsSound DEF HostSound
  <2>4. ChunkedTypes' /\ UNCHANGED <<job, edge>>
    BY <1>13, <2>1 DEF Arrive, ChunkedTypes
  <2> QED BY <2>3, <2>4
<1>14. CASE SourceChanges
  <2>1. source' \in Sources
    <3>1. CASE \E c \in Chunks, content \in Contents :
                  source' = [source EXCEPT !.content[c] = content, !.changes = @ + 1]
      <4>1. PICK c \in Chunks, content \in Contents :
                   source' = [source EXCEPT !.content[c] = content, !.changes = source.changes + 1]
        BY <3>1
      <4>2. [source.content EXCEPT ![c] = content] \in [Chunks -> Contents]
        BY DEF ChunkedTypes, Sources
      <4>3. source' = [source EXCEPT !.content = [source.content EXCEPT ![c] = content],
                                     !.changes = source.changes + 1]
        BY <4>1 DEF ChunkedTypes, Attempts, Sources
      <4>4. source.changes + 1 \in Int
        BY DEF ChunkedTypes, Sources
      <4> QED BY <4>2, <4>3, <4>4 DEF ChunkedTypes, Sources
    <3>2. CASE source' = [source EXCEPT !.intact = ~source.intact, !.changes = source.changes + 1]
      <4>1. source.changes + 1 \in Int /\ (~source.intact) \in BOOLEAN
        BY DEF ChunkedTypes, Sources
      <4> QED BY <3>2, <4>1 DEF ChunkedTypes, Sources
    <3> QED BY <1>14, <3>1, <3>2 DEF SourceChanges
  <2>2. ChunkedTypes'
    BY <1>14, <2>1 DEF SourceChanges, ChunkedTypes
  <2> QED BY <1>14, <1>h, <2>2 DEF SourceChanges
<1>15. CASE UNCHANGED chunkedVars
  BY <1>15, <1>h DEF chunkedVars, ChunkedTypes, Attempts, Sources
<1> QED
  BY <1>1, <1>2, <1>3, <1>4, <1>5, <1>6, <1>7, <1>8, <1>9, <1>10, <1>11, <1>12, <1>13,
     <1>14, <1>15 DEF ChunkedNext

\* A job the edge counts as completed is a file the host holds whole, whichever
\* requests were lost or late and however the file changed meanwhile
\* (qt_transport.cpp:740-833), for any number of chunks.
THEOREM CompletedIsHeldAlways == ChunkedSpec => []CompletedIsHeld
<1>1. UploadInv => CompletedIsHeld
  BY DEF UploadInv, HostSound, CompletedIsHeld
<1> QED BY <1>1, UploadInvInit, UploadInvNext, PTL DEF ChunkedSpec

-----------------------------------------------------------------------------
(* Deletion *)

RetentionRows ==
    [indexed : BOOLEAN, upload : {"Pending", "Uploaded"}, storage : {"Present", "Missing"},
     retention : {"kept", "released", "locked"},
     deletion : {"Active", "DeletePending", "DeleteFailed", "Deleted"}]

Places == {"none", "original", "staging", "removed"}

MaintenanceSteps ==
    {"waiting", "claim", "refresh", "choose", "report", "move", "remove", "complete"}

MaintenanceTypes ==
    /\ maintenance.at \in MaintenanceSteps
    /\ maintenance.at # "waiting" => maintenance.for \in {"work", "candidates", "report"}
    /\ maintenance = [at |-> maintenance.at, for |-> maintenance.for,
                      list |-> maintenance.list, slots |-> maintenance.slots]

RetentionTypes ==
    /\ rows \in [Stored -> RetentionRows]
    /\ disk \in [Stored -> Places]
    /\ MaintenanceTypes

\* The row of an event says Uploaded only if the host has it and it was saved.
UploadIsReceipt(e) ==
    rows[e].upload = "Uploaded" => e \in received /\ disk[e] # "none"

\* A claim is only made by right, and only the claimed lose their right to be
\* kept: nobody can lock a claimed event, and no step makes it Active again.
ClaimIsRight(e) ==
    rows[e].deletion # "Active" =>
        e \in received /\ disk[e] # "none" /\ rows[e].retention = "released"

\* Files leave their place after the claim ...
MovedIsClaimed(e) == disk[e] \in {"staging", "removed"} => rows[e].deletion # "Active"

\* ... for the thread that moves them works on an event that is claimed.
WorkIsClaimed ==
    maintenance.at \in {"move", "remove", "complete"} /\ Head(maintenance.list) \in Stored
        => rows[Head(maintenance.list)].deletion # "Active"

RetentionInv ==
    /\ RetentionTypes
    /\ \A e \in Stored : UploadIsReceipt(e) /\ ClaimIsRight(e) /\ MovedIsClaimed(e)
    /\ WorkIsClaimed

LEMMA RetentionInvInit == StorageInit => RetentionInv
BY DEF StorageInit, RetentionInv, RetentionTypes, MaintenanceTypes, RetentionRows, Places, MaintenanceSteps,
       NotIndexed, Waiting, UploadIsReceipt, ClaimIsRight, MovedIsClaimed, WorkIsClaimed

\* A step of the maintenance thread that leaves rows and files alone keeps the
\* invariant unless it goes on to work on an event that was not claimed.
LEMMA ThreadMoves ==
    ASSUME RetentionInv, UNCHANGED <<rows, disk, received>>,
           RetentionTypes',
           maintenance'.at \in {"waiting", "claim", "refresh", "choose", "report"}
    PROVE  RetentionInv'
BY DEF RetentionInv, UploadIsReceipt, ClaimIsRight, MovedIsClaimed, WorkIsClaimed

\* The row of one event changes, and every event keeps its right.
LEMMA RowChanges ==
    ASSUME RetentionInv, NEW e, NEW r \in RetentionRows,
           rows' = [rows EXCEPT ![e] = r], received \subseteq received',
           \A f \in Stored \ {e} : disk'[f] = disk[f],
           RetentionTypes',
           e \in Stored => UploadIsReceipt(e)' /\ ClaimIsRight(e)' /\ MovedIsClaimed(e)',
           WorkIsClaimed'
    PROVE  RetentionInv'
<1>2. \A f \in Stored \ {e} : rows'[f] = rows[f]
  BY DEF RetentionInv, RetentionTypes
<1>3. ASSUME NEW f \in Stored
      PROVE  UploadIsReceipt(f)' /\ ClaimIsRight(f)' /\ MovedIsClaimed(f)'
  <2>1. CASE f = e
    BY <2>1, <1>3
  <2>2. CASE f # e
    BY <2>2, <1>2, <1>3 DEF RetentionInv, UploadIsReceipt, ClaimIsRight, MovedIsClaimed
  <2> QED BY <2>1, <2>2
<1> QED BY <1>3 DEF RetentionInv

LEMMA RetentionInvNext == RetentionInv /\ [StorageNext]_storageVars => RetentionInv'
<1> SUFFICES ASSUME RetentionInv, [StorageNext]_storageVars
             PROVE  RetentionInv'
  OBVIOUS
<1>t. /\ RetentionTypes /\ MaintenanceTypes /\ WorkIsClaimed
      /\ \A e \in Stored : UploadIsReceipt(e) /\ ClaimIsRight(e) /\ MovedIsClaimed(e)
  BY DEF RetentionInv, RetentionTypes
<1>r. \A e \in Stored :
        /\ rows[e] \in RetentionRows
        /\ rows[e] = [indexed |-> rows[e].indexed, upload |-> rows[e].upload,
                      storage |-> rows[e].storage, retention |-> rows[e].retention,
                      deletion |-> rows[e].deletion]
  BY <1>t DEF RetentionTypes, RetentionRows
<1>w. ASSUME NEW m \in MaintenanceSteps, maintenance' = [maintenance EXCEPT !.at = m],
             maintenance.at # "waiting"
      PROVE  MaintenanceTypes' /\ maintenance'.at = m /\ maintenance'.list = maintenance.list
  BY <1>w, <1>t DEF MaintenanceTypes
\* The deletion state of one row changes to a claim of some kind.
<1>c. ASSUME NEW e \in Stored, NEW to \in {"DeletePending", "DeleteFailed"},
             rows' = [rows EXCEPT ![e].deletion = to],
             e \in received, disk[e] # "none", rows[e].retention = "released",
             UNCHANGED <<disk, received>>, MaintenanceTypes',
             maintenance'.at \in {"move", "remove", "complete"} =>
                 Head(maintenance'.list) = e
      PROVE  RetentionInv'
  <2> DEFINE r == [rows[e] EXCEPT !.deletion = to]
  <2>1. r \in RetentionRows /\ r.deletion = to /\ r.upload = rows[e].upload
        /\ r.retention = rows[e].retention
    BY <1>r DEF RetentionRows
  <2>2. rows' = [rows EXCEPT ![e] = r] /\ rows'[e] = r
    BY <1>c, <1>t DEF RetentionTypes
  <2> HIDE DEF r
  <2>3. RetentionTypes'
    BY <1>t, <1>c, <2>1, <2>2 DEF RetentionTypes
  <2>4. UploadIsReceipt(e)' /\ ClaimIsRight(e)' /\ MovedIsClaimed(e)'
    BY <1>t, <1>c, <2>1, <2>2 DEF UploadIsReceipt, ClaimIsRight, MovedIsClaimed
  <2>5. WorkIsClaimed'
    BY <1>c, <2>1, <2>2 DEF WorkIsClaimed
  <2>6. received \subseteq received' /\ \A f \in Stored \ {e} : disk'[f] = disk[f]
    BY <1>c
  <2> QED BY <2>1, <2>2, <2>3, <2>4, <2>5, <2>6, RowChanges
<1>1. CASE BeginRun \/ ListDone \/ Refresh \/ Choose \/ Report \/ RunFails
  <2>1. /\ maintenance'.at \in {"waiting", "claim", "refresh", "choose", "report"}
        /\ MaintenanceTypes'
    <3>1. CASE BeginRun
      BY <3>1 DEF BeginRun, MaintenanceTypes, MaintenanceSteps
    <3>2. CASE ListDone
      <4>1. maintenance.for = "work" => maintenance' = [maintenance EXCEPT !.at = "refresh"]
        BY <3>2 DEF ListDone
      <4>2. maintenance.for # "work" =>
              maintenance' = [maintenance EXCEPT !.at = "refresh", !.for = "report", !.list = <<>>]
        BY <3>2 DEF ListDone
      <4>3. maintenance.at = "claim"
        BY <3>2 DEF ListDone, MaintenanceAt
      <4> QED BY <1>t, <4>1, <4>2, <4>3 DEF MaintenanceTypes, MaintenanceSteps
    <3>3. CASE Refresh
      <4>1. \E m \in {"choose", "claim", "report"} : maintenance' = [maintenance EXCEPT !.at = m]
        BY <3>3, <1>t DEF Refresh, MaintenanceAt, MaintenanceTypes
      <4>2. maintenance.at = "refresh"
        BY <3>3 DEF Refresh, MaintenanceAt
      <4> QED BY <1>w, <4>1, <4>2 DEF MaintenanceSteps
    <3>4. CASE Choose
      <4> DEFINE list == IF maintenance.slots = 0 THEN <<>>
                         ELSE RetentionCandidates(~WatermarkPressure /\ ~CapacityPressure,
                                                  maintenance.slots)
      <4>1. maintenance' = [maintenance EXCEPT !.at = "claim", !.for = "candidates", !.list = list]
        BY <3>4 DEF Choose
      <4> HIDE DEF list
      <4> QED BY <1>t, <4>1 DEF MaintenanceTypes, MaintenanceSteps
    <3>5. CASE Report \/ RunFails
      BY <3>5 DEF Report, RunFails, Waiting, MaintenanceTypes, MaintenanceSteps
    <3> QED BY <1>1, <3>1, <3>2, <3>3, <3>4, <3>5
  <2>2. UNCHANGED <<rows, disk, received>>
    BY <1>1 DEF BeginRun, ListDone, Refresh, Choose, Report, RunFails, unmaintained
  <2>3. RetentionTypes'
    BY <1>t, <2>1, <2>2 DEF RetentionTypes
  <2> QED BY <2>1, <2>2, <2>3, ThreadMoves
<1>2. CASE ResumePending
  <2>1. maintenance'.at = "move" /\ maintenance'.list = maintenance.list /\ MaintenanceTypes'
    BY <1>2, <1>w DEF ResumePending, MaintenanceAt, MaintenanceSteps
  <2> QED
    BY <1>2, <1>t, <2>1
       DEF ResumePending, unmaintained, RetentionInv, RetentionTypes, UploadIsReceipt,
           ClaimIsRight, MovedIsClaimed, WorkIsClaimed
<1>3. CASE BeginDeletion
  <2>0. maintenance.at = "claim" /\ UNCHANGED <<disk, received>>
    BY <1>3 DEF BeginDeletion, MaintenanceAt, unmaintained
  <2>e. PICK e : e = Head(maintenance.list)
    OBVIOUS
  <2>1. CASE Claimable(e) /\ rows' = [rows EXCEPT ![e].deletion = "DeletePending"]
             /\ maintenance' = [maintenance EXCEPT !.at = "move"]
    <3>1. maintenance'.at = "move" /\ maintenance'.list = maintenance.list /\ MaintenanceTypes'
      BY <2>0, <2>1, <1>w DEF MaintenanceSteps
    <3>2. CASE e \in Stored
      <4>4. e \in received /\ disk[e] # "none" /\ rows[e].retention = "released"
        BY <1>t, <2>1, <3>2 DEF Claimable, Candidate, UploadIsReceipt, ClaimIsRight
      <4> QED BY <1>t, <2>0, <2>1, <2>e, <3>1, <3>2, <4>4, <1>c
    <3>3. CASE e \notin Stored
      <4>1. rows' = rows
        BY <2>1, <3>3, <1>t DEF RetentionTypes
      <4>2. RetentionTypes' /\ WorkIsClaimed'
        BY <1>t, <2>0, <2>e, <3>1, <3>3, <4>1 DEF RetentionTypes, WorkIsClaimed
      <4> QED
        BY <1>t, <2>0, <4>1, <4>2
           DEF RetentionInv, UploadIsReceipt, ClaimIsRight, MovedIsClaimed
    <3> QED BY <3>2, <3>3
  <2>2. CASE rows' = rows /\ maintenance' = NextInList
    <3>1. maintenance'.at = "claim" /\ MaintenanceTypes'
      BY <1>t, <2>0, <2>2 DEF NextInList, MaintenanceTypes, MaintenanceSteps
    <3> QED BY <1>t, <2>0, <2>2, <3>1, ThreadMoves DEF RetentionTypes
  <2> QED BY <1>3, <2>e, <2>1, <2>2 DEF BeginDeletion
<1>4. CASE MoveAside
  <2> DEFINE e == Head(maintenance.list)
  <2>0. maintenance.at = "move" /\ UNCHANGED <<rows, received>>
        /\ disk' = [disk EXCEPT ![e] = IF disk[e] = "original" THEN "staging" ELSE disk[e]]
    BY <1>4, <1>t DEF MoveAside, MaintenanceAt, unmaintained, RetentionTypes
  <2>1. maintenance'.at \in {"remove", "complete"} /\ maintenance'.list = maintenance.list
        /\ MaintenanceTypes'
    <3>1. \E m \in {"remove", "complete"} : maintenance' = [maintenance EXCEPT !.at = m]
      BY <1>4 DEF MoveAside
    <3> QED BY <2>0, <3>1, <1>w DEF MaintenanceSteps
  <2>2. RetentionTypes' /\ WorkIsClaimed'
    <3>1. disk' \in [Stored -> Places]
      BY <1>t, <2>0 DEF RetentionTypes, Places
    <3> QED BY <1>t, <2>0, <2>1, <3>1 DEF RetentionTypes, WorkIsClaimed
  <2>3. ASSUME NEW f \in Stored
        PROVE  UploadIsReceipt(f)' /\ ClaimIsRight(f)' /\ MovedIsClaimed(f)'
    <3>1. disk'[f] # disk[f] => f = e /\ disk[f] = "original" /\ disk'[f] = "staging"
      BY <2>0, <1>t DEF RetentionTypes
    <3>2. f = e => rows[f].deletion # "Active"
      BY <2>0, <1>t DEF WorkIsClaimed
    <3> QED
      BY <1>t, <2>0, <3>1, <3>2 DEF UploadIsReceipt, ClaimIsRight, MovedIsClaimed
  <2> QED BY <2>2, <2>3 DEF RetentionInv
<1>5. CASE RemoveTree
  <2> DEFINE e == Head(maintenance.list)
  <2>0. maintenance.at = "remove" /\ UNCHANGED <<rows, received>>
        /\ disk' = [disk EXCEPT ![e] = "removed"]
    BY <1>5 DEF RemoveTree, MaintenanceAt, unmaintained
  <2>1. maintenance'.at = "complete" /\ maintenance'.list = maintenance.list /\ MaintenanceTypes'
    BY <1>5, <2>0, <1>w DEF RemoveTree, MaintenanceSteps
  <2>2. RetentionTypes' /\ WorkIsClaimed'
    <3>1. disk' \in [Stored -> Places]
      BY <1>t, <2>0 DEF RetentionTypes, Places
    <3> QED BY <1>t, <2>0, <2>1, <3>1 DEF RetentionTypes, WorkIsClaimed
  <2>3. ASSUME NEW f \in Stored
        PROVE  UploadIsReceipt(f)' /\ ClaimIsRight(f)' /\ MovedIsClaimed(f)'
    <3>1. disk'[f] # disk[f] => f = e /\ disk'[f] = "removed"
      BY <2>0, <1>t DEF RetentionTypes
    <3>2. f = e => rows[f].deletion # "Active"
      BY <2>0, <1>t DEF WorkIsClaimed
    <3> QED
      BY <1>t, <2>0, <3>1, <3>2 DEF UploadIsReceipt, ClaimIsRight, MovedIsClaimed
  <2> QED BY <2>2, <2>3 DEF RetentionInv
<1>d. ASSUME maintenance' = AfterDeletion, maintenance.at # "waiting"
      PROVE  maintenance'.at \in {"claim", "refresh"} /\ MaintenanceTypes'
  <2>1. CASE maintenance.for = "work"
    BY <1>t, <1>d, <2>1 DEF AfterDeletion, NextInList, MaintenanceTypes, MaintenanceSteps
  <2>2. CASE maintenance.for # "work"
    BY <1>t, <1>d, <2>2 DEF AfterDeletion, MaintenanceTypes, MaintenanceSteps
  <2> QED BY <2>1, <2>2
<1>6. CASE CompleteDeletion
  <2>1. maintenance.at = "complete" /\ maintenance' = AfterDeletion /\ UNCHANGED <<disk, received>>
    BY <1>6 DEF CompleteDeletion, MaintenanceAt, unmaintained
  <2>2. maintenance'.at \in {"claim", "refresh"} /\ MaintenanceTypes'
    BY <2>1, <1>d
  <2>e. PICK e : e = Head(maintenance.list)
    OBVIOUS
  <2>3. CASE e \in Stored
    <3> DEFINE r == [rows[e] EXCEPT !.deletion = "Deleted", !.storage = "Missing"]
    <3>1. r \in RetentionRows /\ r.deletion = "Deleted" /\ r.upload = rows[e].upload
          /\ r.retention = rows[e].retention
      BY <1>r, <2>3 DEF RetentionRows
    <3>2. rows' = [rows EXCEPT ![e] = r]
      BY <1>6, <1>t, <2>e, <2>3 DEF CompleteDeletion, RetentionTypes
    <3>3. rows'[e] = r
      BY <1>t, <2>3, <3>2 DEF RetentionTypes
    <3>4. rows[e].deletion # "Active"
      BY <1>t, <2>1, <2>e, <2>3 DEF WorkIsClaimed
    <3> HIDE DEF r
    <3>5. RetentionTypes' /\ WorkIsClaimed'
      BY <1>t, <2>1, <2>2, <3>1, <3>2 DEF RetentionTypes, WorkIsClaimed
    <3>6. UploadIsReceipt(e)' /\ ClaimIsRight(e)' /\ MovedIsClaimed(e)'
      BY <1>t, <2>1, <2>3, <3>1, <3>3, <3>4 DEF UploadIsReceipt, ClaimIsRight, MovedIsClaimed
    <3>7. received \subseteq received' /\ \A f \in Stored \ {e} : disk'[f] = disk[f]
      BY <2>1
    <3> QED BY <3>1, <3>2, <3>5, <3>6, <3>7, RowChanges
  <2>4. CASE e \notin Stored
    <3>1. rows' = rows
      BY <1>6, <1>t, <2>e, <2>4 DEF CompleteDeletion, RetentionTypes
    <3> QED BY <1>t, <2>1, <2>2, <3>1, ThreadMoves DEF RetentionTypes
  <2> QED BY <2>3, <2>4
<1>7. CASE DeletionFails
  <2>1. maintenance.at \in {"move", "remove", "complete"} /\ maintenance' = AfterDeletion
        /\ UNCHANGED <<disk, received>>
    BY <1>7 DEF DeletionFails, unmaintained
  <2>2. maintenance'.at \in {"claim", "refresh"} /\ MaintenanceTypes'
    BY <2>1, <1>d
  <2>e. PICK e : e = Head(maintenance.list)
    OBVIOUS
  <2>3. CASE rows' = [rows EXCEPT ![e].deletion = "DeleteFailed"] /\ e \in Stored
    <3>1. rows[e].deletion # "Active"
      BY <1>t, <2>1, <2>e, <2>3 DEF WorkIsClaimed
    <3>2. e \in received /\ disk[e] # "none" /\ rows[e].retention = "released"
      BY <1>t, <2>3, <3>1 DEF ClaimIsRight
    <3> QED BY <2>1, <2>2, <2>3, <3>2, <1>c
  <2>4. CASE rows' = rows
    BY <1>t, <2>1, <2>2, <2>4, ThreadMoves DEF RetentionTypes
  <2>5. CASE rows' = [rows EXCEPT ![e].deletion = "DeleteFailed"] /\ e \notin Stored
    BY <1>t, <2>5, <2>4 DEF RetentionTypes
  <2> QED BY <1>7, <2>e, <2>3, <2>4, <2>5 DEF DeletionFails
\* The users of the rows act on one event and leave the thread where it is.
<1>u. ASSUME NEW e \in Stored, NEW r \in RetentionRows,
             rows' = [rows EXCEPT ![e] = r], received \subseteq received',
             UNCHANGED <<disk, maintenance>>,
             r.deletion = rows[e].deletion,
             r.deletion # "Active" => r.retention = rows[e].retention,
             r.upload = "Uploaded" => e \in received' /\ disk[e] # "none"
      PROVE  RetentionInv'
  <2>1. rows'[e] = r /\ \A f \in Stored : rows'[f].deletion = rows[f].deletion
    BY <1>t, <1>u DEF RetentionTypes
  <2>2. RetentionTypes' /\ WorkIsClaimed'
    <3>1. MaintenanceTypes'
      BY <1>t, <1>u DEF MaintenanceTypes
    <3> QED BY <1>t, <1>u, <2>1, <3>1 DEF RetentionTypes, WorkIsClaimed
  <2>3. UploadIsReceipt(e)' /\ ClaimIsRight(e)' /\ MovedIsClaimed(e)'
    BY <1>t, <1>u, <2>1 DEF UploadIsReceipt, ClaimIsRight, MovedIsClaimed
  <2>4. \A f \in Stored \ {e} : disk'[f] = disk[f]
    BY <1>u
  <2> QED BY <1>u, <2>2, <2>3, <2>4, RowChanges
<1>8. ASSUME NEW e \in Stored, SaveEvent(e)
      PROVE  RetentionInv'
  <2>1. /\ disk[e] = "none" /\ disk' = [disk EXCEPT ![e] = "original"]
        /\ maintenance.at = "waiting" /\ UNCHANGED <<maintenance, received>>
        /\ rows' = [rows EXCEPT ![e] = Indexed]
    BY <1>8 DEF SaveEvent, PolicyUnlocked, MaintenanceAt, unmaintained
  <2>2. Indexed \in RetentionRows /\ Indexed.upload = "Pending" /\ Indexed.deletion = "Active"
    BY DEF Indexed, RetentionRows
  <2>3. rows'[e] = Indexed /\ disk'[e] = "original"
    BY <1>t, <2>1 DEF RetentionTypes
  <2>4. RetentionTypes' /\ WorkIsClaimed'
    <3>1. disk' \in [Stored -> Places]
      BY <1>t, <2>1 DEF RetentionTypes, Places
    <3>2. MaintenanceTypes'
      BY <1>t, <2>1 DEF MaintenanceTypes
    <3> QED BY <1>t, <2>1, <2>2, <3>1, <3>2 DEF RetentionTypes, WorkIsClaimed
  <2>5. UploadIsReceipt(e)' /\ ClaimIsRight(e)' /\ MovedIsClaimed(e)'
    BY <2>2, <2>3 DEF UploadIsReceipt, ClaimIsRight, MovedIsClaimed
  <2>6. received \subseteq received' /\ \A f \in Stored \ {e} : disk'[f] = disk[f]
    BY <1>t, <2>1 DEF RetentionTypes
  <2> QED BY <2>1, <2>2, <2>4, <2>5, <2>6, RowChanges
<1>9. ASSUME NEW e \in Stored, UploadCompletes(e)
      PROVE  RetentionInv'
  <2> DEFINE r == [rows[e] EXCEPT !.upload = "Uploaded"]
  <2>1. r \in RetentionRows /\ r.deletion = rows[e].deletion /\ r.retention = rows[e].retention
    BY <1>r DEF RetentionRows
  <2>2. rows' = [rows EXCEPT ![e] = r]
    BY <1>9, <1>t DEF UploadCompletes, RetentionTypes
  <2> HIDE DEF r
  <2>3. received \subseteq received' /\ UNCHANGED <<disk, maintenance>>
        /\ e \in received' /\ disk[e] # "none"
    BY <1>9 DEF UploadCompletes
  <2> QED BY <2>1, <2>2, <2>3, <1>u
<1>10. ASSUME NEW e \in Stored, EnqueueAgain(e)
       PROVE  RetentionInv'
  <2> DEFINE r == [rows[e] EXCEPT !.upload = "Pending"]
  <2>1. r \in RetentionRows /\ r.deletion = rows[e].deletion /\ r.retention = rows[e].retention
        /\ r.upload = "Pending"
    BY <1>r DEF RetentionRows
  <2>2. rows' = [rows EXCEPT ![e] = r]
    BY <1>10, <1>t DEF EnqueueAgain, RetentionTypes
  <2> HIDE DEF r
  <2>3. received \subseteq received' /\ UNCHANGED <<disk, maintenance>>
    BY <1>10 DEF EnqueueAgain, unmaintained
  <2> QED BY <2>1, <2>2, <2>3, <1>u
<1>11. ASSUME NEW e \in Stored, NEW retention \in {"kept", "released", "locked"},
              SetRetentionPolicy(e, retention)
       PROVE  RetentionInv'
  <2> DEFINE r == [rows[e] EXCEPT !.retention = retention]
  <2>1. r \in RetentionRows /\ r.deletion = rows[e].deletion /\ r.upload = rows[e].upload
    BY <1>r DEF RetentionRows
  <2>2. rows' = [rows EXCEPT ![e] = r] /\ rows[e].deletion = "Active"
    BY <1>11, <1>t DEF SetRetentionPolicy, RetentionTypes
  <2> HIDE DEF r
  <2>3. received \subseteq received' /\ UNCHANGED <<disk, maintenance, received>>
    BY <1>11 DEF SetRetentionPolicy
  <2>4. r.upload = "Uploaded" => e \in received' /\ disk[e] # "none"
    BY <1>t, <2>1, <2>3 DEF UploadIsReceipt
  <2> QED BY <2>1, <2>2, <2>3, <2>4, <1>u
<1>12. CASE Restart
  <2>1. /\ UNCHANGED <<disk, received>> /\ maintenance' = Waiting
        /\ rows' = [e \in Stored |-> Reindexed(e)]
    BY <1>12 DEF Restart
  <2>2. ASSUME NEW e \in Stored
        PROVE  /\ rows'[e] \in RetentionRows /\ rows'[e].deletion = rows[e].deletion
               /\ rows'[e].retention = rows[e].retention
               /\ rows'[e].upload = "Uploaded" => rows[e].upload = "Uploaded"
    <3>1. rows'[e] = Reindexed(e)
      BY <2>1
    <3>2. CASE disk[e] = "original"
      BY <1>r, <3>1, <3>2 DEF Reindexed, RetentionRows
    <3>3. CASE disk[e] # "original"
      BY <1>r, <3>1, <3>3 DEF Reindexed, RetentionRows
    <3> QED BY <3>2, <3>3
  <2>3. MaintenanceTypes' /\ WorkIsClaimed'
    BY <2>1 DEF Waiting, MaintenanceTypes, MaintenanceSteps, WorkIsClaimed
  <2>4. rows' \in [Stored -> RetentionRows]
    <3>1. \A e \in Stored : Reindexed(e) \in RetentionRows
      BY <2>1, <2>2
    <3> QED BY <2>1, <3>1
  <2> QED
    BY <1>t, <2>1, <2>2, <2>3, <2>4
       DEF RetentionInv, RetentionTypes, UploadIsReceipt, ClaimIsRight, MovedIsClaimed
<1>13. CASE \/ Expire \/ \E units \in OtherData : OthersWrite(units)
            \/ \E value \in EventLimits : ReconfigureLimits(value)
            \/ UNCHANGED storageVars
  <2>1. UNCHANGED <<rows, disk, maintenance, received>>
    BY <1>13 DEF Expire, OthersWrite, ReconfigureLimits, storageVars
  <2> QED
    BY <1>t, <2>1
       DEF RetentionInv, RetentionTypes, MaintenanceTypes, UploadIsReceipt, ClaimIsRight,
           MovedIsClaimed, WorkIsClaimed
<1> QED
  BY <1>1, <1>2, <1>3, <1>4, <1>5, <1>6, <1>7, <1>8, <1>9, <1>10, <1>11, <1>12, <1>13
     DEF StorageNext, Maintain

\* Files are moved aside only of events the host has received, that an
\* operator released and that are claimed, for any number of events and
\* whatever fails in between (storage_policy.cpp:401-421).
THEOREM DeletedByRightAlways == StorageSpec => []DeletedByRight
<1>1. RetentionInv => DeletedByRight
  BY DEF RetentionInv, ClaimIsRight, MovedIsClaimed, DeletedByRight
<1> QED BY <1>1, RetentionInvInit, RetentionInvNext, PTL DEF StorageSpec

-----------------------------------------------------------------------------
(* The rolling cache *)

\* The index and the leases agree: a block the index lists is attached to every
\* lease whose window it meets, so the one condition the writer looks at when
\* it reclaims, that a block is in no lease_blocks row, is enough.
LeasesHoldBlocks ==
    \A e \in LeaseEvents, b \in index :
        Leased(e) /\ Overlaps(lease[e], b) => <<e, b>> \in attached

LeaseInv == DOMAIN lease = LeaseEvents /\ LeasesHoldBlocks

LEMMA LeaseInvInit == NvmeInit => LeaseInv
BY DEF NvmeInit, LeaseInv, LeasesHoldBlocks

\* What the writer removes was in no lease.
LEMMA ReclaimedIsFree ==
    ASSUME LeaseInv, NEW b \in Oldest(Reclaimable), NEW e \in LeaseEvents, Leased(e)
    PROVE  ~Overlaps(lease[e], b)
<1>1. b \in index /\ <<e, b>> \notin attached
  BY DEF Oldest, Reclaimable
<1> QED BY <1>1 DEF LeaseInv, LeasesHoldBlocks

\* A file of a block the index lists goes only by a reclaim.
LEMMA FilesGoByReclaim ==
    ASSUME NvmeNext, NEW b \in files, b \notin files'
    PROVE  b \in Oldest(Reclaimable)
<1>1. ASSUME NEW c \in Cameras, NEW t \in Times, SubmitFrame(c, t)
      PROVE  FALSE
  BY <1>1 DEF SubmitFrame
<1>2. CASE Start \/ StartFails \/ RequestStop \/ JoinTimesOut
           \/ \E w \in Watermarks : SetStorageWatermark(w)
  BY <1>2 DEF Start, StartFails, RequestStop, JoinTimesOut, SetStorageWatermark
<1>3. CASE TakeBlock \/ EndWriter \/ HaveRoom \/ WriteBlock \/ WriteFails
           \/ RegisterBlock \/ RegisterFails
  BY <1>3 DEF TakeBlock, EndWriter, HaveRoom, WriteBlock, WriteFails, RegisterBlock,
              RegisterFails
<1>4. CASE ReclaimOldest
  BY <1>4 DEF ReclaimOldest
<1>5. CASE ReclaimFails
  BY <1>5 DEF ReclaimFails
<1>6. CASE (\E e \in LeaseEvents, t \in Times : ProtectEventWindow(e, t))
           \/ (\E e \in LeaseEvents : ReleaseEvent(e))
  BY <1>6 DEF ProtectEventWindow, ReleaseEvent, LeasesOnly
<1> QED BY <1>1, <1>2, <1>3, <1>4, <1>5, <1>6 DEF NvmeNext, Writer

LEMMA LeaseInvNext == LeaseInv /\ [NvmeNext]_nvmeVars => LeaseInv'
<1> SUFFICES ASSUME LeaseInv, [NvmeNext]_nvmeVars
             PROVE  LeaseInv'
  OBVIOUS
<1>h. ASSUME UNCHANGED <<lease, attached>>, index' \subseteq index
      PROVE  LeaseInv'
  BY <1>h DEF LeaseInv, LeasesHoldBlocks, Leased
<1>1. ASSUME NEW c \in Cameras, NEW t \in Times, SubmitFrame(c, t)
      PROVE  LeaseInv'
  BY <1>1, <1>h DEF SubmitFrame
<1>2. CASE Start \/ StartFails \/ RequestStop \/ JoinTimesOut
           \/ (\E w \in Watermarks : SetStorageWatermark(w)) \/ UNCHANGED nvmeVars
  BY <1>2, <1>h
     DEF Start, StartFails, RequestStop, JoinTimesOut, SetStorageWatermark, nvmeVars
<1>3. CASE TakeBlock \/ EndWriter \/ HaveRoom \/ WriteBlock \/ WriteFails \/ RegisterFails
           \/ ReclaimOldest \/ ReclaimFails
  BY <1>3, <1>h
     DEF TakeBlock, EndWriter, HaveRoom, WriteBlock, WriteFails, RegisterFails,
         ReclaimOldest, ReclaimFails, WriterAt
<1>4. CASE RegisterBlock
  <2>1. PICK b : b = blockWriter.block
    OBVIOUS
  <2>2. /\ lease' = lease /\ index' = index \cup {b}
        /\ attached' = attached \cup (LeasesOn(b) \X {b})
    BY <1>4, <2>1 DEF RegisterBlock
  <2>3. ASSUME NEW e \in LeaseEvents, Leased(e), Overlaps(lease[e], b)
        PROVE  <<e, b>> \in attached'
    <3>1. e \in LeasesOn(b)
      BY <2>3 DEF LeasesOn
    <3> QED BY <2>2, <3>1
  <2> QED BY <2>2, <2>3 DEF LeaseInv, LeasesHoldBlocks, Leased
<1>5. ASSUME NEW e \in LeaseEvents, NEW t \in Times, ProtectEventWindow(e, t)
      PROVE  LeaseInv'
  <2> DEFINE window == [start |-> t - Pre, end |-> t + Post]
  <2>1. /\ lease' = [lease EXCEPT ![e] = window] /\ index' = index
        /\ attached' = attached \cup ({e} \X {b \in index : Overlaps(window, b)})
    BY <1>5 DEF ProtectEventWindow, LeasesOnly
  <2> HIDE DEF window
  <2>2. DOMAIN lease' = LeaseEvents /\ lease'[e] = window
        /\ \A f \in LeaseEvents \ {e} : lease'[f] = lease[f]
    BY <2>1 DEF LeaseInv
  <2>3. ASSUME NEW f \in LeaseEvents, NEW b \in index, Leased(f)', Overlaps(lease'[f], b)
        PROVE  <<f, b>> \in attached'
    <3>1. CASE f = e
      BY <2>1, <2>2, <2>3, <3>1
    <3>2. CASE f # e
      BY <2>1, <2>2, <2>3, <3>2 DEF LeaseInv, LeasesHoldBlocks, Leased
    <3> QED BY <3>1, <3>2
  <2> QED BY <2>1, <2>2, <2>3 DEF LeaseInv, LeasesHoldBlocks, Leased, Overlaps
<1>6. ASSUME NEW e \in LeaseEvents, ReleaseEvent(e)
      PROVE  LeaseInv'
  <2>1. /\ lease' = [lease EXCEPT ![e] = NoLease] /\ index' = index
        /\ attached' = {pair \in attached : pair[1] # e}
    BY <1>6 DEF ReleaseEvent, LeasesOnly
  <2>2. DOMAIN lease' = LeaseEvents /\ lease'[e] = NoLease
        /\ \A f \in LeaseEvents \ {e} : lease'[f] = lease[f]
    BY <2>1 DEF LeaseInv
  <2>3. ASSUME NEW f \in LeaseEvents, NEW b \in index, Leased(f)', Overlaps(lease'[f], b)
        PROVE  <<f, b>> \in attached'
    <3>1. f # e
      BY <2>2, <2>3 DEF Leased
    <3>2. <<f, b>> \in attached
      BY <2>2, <2>3, <3>1 DEF LeaseInv, LeasesHoldBlocks, Leased
    <3> QED BY <2>1, <3>1, <3>2
  <2> QED BY <2>1, <2>2, <2>3 DEF LeaseInv, LeasesHoldBlocks, Leased, Overlaps
<1> QED BY <1>1, <1>2, <1>3, <1>4, <1>5, <1>6 DEF NvmeNext, Writer

\* A block that an event has a lease on keeps its file, whichever of the two
\* came first and whatever the writer reclaims meanwhile (nvme_cache.cpp:294,
\* nvme_index.cpp:428, 561), for any number of cameras, events and blocks.
THEOREM ProtectedBlocksStayAlways == NvmeSpec => ProtectedBlocksStay
<1> DEFINE Kept == \A e \in LeaseEvents, b \in files \cap index :
             Leased(e) /\ lease'[e] = lease[e] /\ Overlaps(lease[e], b) => b \in files'
<1>1. LeaseInv /\ [NvmeNext]_nvmeVars => [Kept]_nvmeVars
  <2> SUFFICES ASSUME LeaseInv, NvmeNext, NEW e \in LeaseEvents, NEW b \in files \cap index,
                      Leased(e), Overlaps(lease[e], b)
               PROVE  b \in files'
    OBVIOUS
  <2> QED BY FilesGoByReclaim, ReclaimedIsFree
<1> QED
  BY <1>1, LeaseInvInit, LeaseInvNext, PTL DEF NvmeSpec, ProtectedBlocksStay

-----------------------------------------------------------------------------
(* The key frames *)

\* Sequences of jobs, counted.
JobsWith(F) == [event : FrozenEvents, frame : F]

Positions(s, e) == {i \in 1..Len(s) : s[i].event = e}

LEMMA PositionsFinite ==
    ASSUME NEW F, NEW s \in Seq(JobsWith(F)), NEW e
    PROVE  /\ IsFiniteSet(Positions(s, e)) /\ Cardinality(Positions(s, e)) \in Nat
           /\ Cardinality(Positions(s, e)) = 0 <=> Positions(s, e) = {}
<1>1. IsFiniteSet(1..Len(s))
  BY FS_Interval
<1>2. Positions(s, e) \subseteq 1..Len(s)
  BY DEF Positions
<1>3. IsFiniteSet(Positions(s, e))
  BY <1>1, <1>2, FS_Subset
<1> QED BY <1>3, FS_CardinalityType, FS_EmptySet

LEMMA HeadCounts ==
    ASSUME NEW F, NEW s \in Seq(JobsWith(F)), s # <<>>, NEW e
    PROVE  /\ Tail(s) \in Seq(JobsWith(F)) /\ Head(s) \in JobsWith(F)
           /\ Cardinality(Positions(s, e)) =
                Cardinality(Positions(Tail(s), e)) + (IF Head(s).event = e THEN 1 ELSE 0)
<1> DEFINE T == Positions(Tail(s), e)
           P == Positions(s, e)
           later == [i \in T |-> i + 1]
<1>1. /\ Tail(s) \in Seq(JobsWith(F)) /\ Head(s) \in JobsWith(F)
      /\ Len(s) \in Nat \ {0} /\ Len(Tail(s)) = Len(s) - 1 /\ Head(s) = s[1]
      /\ \A i \in 1..Len(s) - 1 : Tail(s)[i] = s[i + 1]
  OBVIOUS
<1>2. later \in Bijection(T, P \ {1})
  <2>1. \A i \in T : i \in Nat /\ i + 1 \in P \ {1}
    BY <1>1 DEF Positions
  <2>2. \A j \in P \ {1} : j - 1 \in T /\ (j - 1) + 1 = j
    BY <1>1 DEF Positions
  <2>3. later \in [T -> P \ {1}]
    BY <2>1
  <2>4. \A i, j \in T : later[i] = later[j] => i = j
    BY <2>1
  <2>5. \A j \in P \ {1} : \E i \in T : later[i] = j
    BY <2>2
  <2> HIDE DEF later, T, P
  <2> QED BY <2>3, <2>4, <2>5 DEF Bijection, Injection, Surjection, IsInjective
<1>3. IsFiniteSet(T) /\ Cardinality(T) \in Nat /\ IsFiniteSet(P) /\ Cardinality(P) \in Nat
  BY <1>1, PositionsFinite
<1>4. Cardinality(P \ {1}) = Cardinality(T)
  <2>1. ExistsBijection(T, P \ {1})
    BY <1>2 DEF ExistsBijection
  <2> HIDE DEF T, P
  <2> QED BY <1>3, <2>1, FS_Bijection
<1>5. Cardinality(P \ {1}) = IF 1 \in P THEN Cardinality(P) - 1 ELSE Cardinality(P)
  <2> HIDE DEF P
  <2> QED BY <1>3, FS_RemoveElement
<1>6. 1 \in P <=> Head(s).event = e
  BY <1>1 DEF Positions
<1> QED BY <1>1, <1>3, <1>4, <1>5, <1>6

\* The jobs of one event are appended.
LEMMA BlockCounts ==
    ASSUME NEW F, NEW s \in Seq(JobsWith(F)), NEW e \in FrozenEvents,
           NEW n \in Nat, NEW frames, DOMAIN frames = 1..n,
           NEW t, t = [i \in 1..n |-> [event |-> e, frame |-> frames[i]]]
    PROVE  /\ \E G : s \o t \in Seq(JobsWith(G))
           /\ Positions(s, e) = {} => Cardinality(Positions(s \o t, e)) = n
           /\ \A f : f # e => Positions(s \o t, f) = Positions(s, f)
<1> DEFINE G == F \cup {frames[i] : i \in 1..n}
<1>1. JobsWith(F) \subseteq JobsWith(G)
  BY DEF JobsWith
<1>2. \A i \in 1..n : t[i] \in JobsWith(G) /\ t[i].event = e
  BY DEF JobsWith
<1> HIDE DEF G
<1>3. s \in Seq(JobsWith(G))
  BY <1>1
<1>4. t \in Seq(JobsWith(G)) /\ Len(t) = n
  BY <1>2
<1>5. /\ s \o t \in Seq(JobsWith(G)) /\ Len(s) \in Nat /\ Len(s \o t) = Len(s) + n
      /\ \A i \in 1..Len(s) : (s \o t)[i] = s[i]
      /\ \A i \in Len(s) + 1..Len(s) + n : (s \o t)[i] = t[i - Len(s)]
  BY <1>3, <1>4
<1>6. \A i \in Len(s) + 1..Len(s) + n : (s \o t)[i].event = e
  BY <1>2, <1>5
<1>7. ASSUME Positions(s, e) = {}
      PROVE  Cardinality(Positions(s \o t, e)) = n
  <2>1. Positions(s \o t, e) = Len(s) + 1..Len(s) + n
    <3>1. \A i \in 1..Len(s) : s[i].event # e
      BY <1>7 DEF Positions
    <3> QED BY <1>5, <1>6, <3>1 DEF Positions
  <2> QED BY <1>5, <2>1, FS_Interval
<1>8. ASSUME NEW f, f # e
      PROVE  Positions(s \o t, f) = Positions(s, f)
  BY <1>5, <1>6, <1>8 DEF Positions
<1> QED BY <1>5, <1>7, <1>8

LEMMA SelectionIsSequence ==
    ASSUME NEW w \in Windows
    PROVE  \E n \in Nat : /\ Len(Selection(w)) = n /\ DOMAIN Selection(w) = 1..n
                          /\ n = 0 <=> Selection(w) = <<>>
<1>1. IsFiniteSet(Reasoned(w))
  <2>1. Reasoned(w) \subseteq w.frames
    BY DEF Reasoned, NormalReference, Abnormal, CandidateTrigger, HighestScore, PostEvent,
           Earliest, Latest
  <2> QED BY <2>1, KeyFramesAssumption, FS_Subset
<1>2. PICK k \in Nat : k = Cardinality(Reasoned(w))
  BY <1>1, FS_CardinalityType
<1>3. PICK s : s = InTime(Reasoned(w))
  OBVIOUS
<1>4. PICK V : \A i \in 1..k : s[i] \in V
  <2>1. \A i \in 1..k : s[i] \in {s[j] : j \in 1..k}
    OBVIOUS
  <2> QED BY <2>1
<1>5. s \in Seq(V) /\ Len(s) = k
  BY <1>2, <1>3, <1>4 DEF InTime
<1>6. PICK n \in Nat : n = (IF k < KeyFrameCount THEN k ELSE KeyFrameCount)
  BY <1>2, KeyFramesAssumption
<1>7. Selection(w) = SubSeq(s, 1, n)
  BY <1>3, <1>5, <1>6 DEF Selection, FirstOf
<1>8. n <= k
  BY <1>6, KeyFramesAssumption
<1>9. SubSeq(s, 1, n) \in Seq(V) /\ Len(SubSeq(s, 1, n)) = n
  BY <1>5, <1>8
<1> DEFINE chosen == Selection(w)
<1>10. chosen \in Seq(V) /\ Len(chosen) = n
  BY <1>7, <1>9
<1> HIDE DEF chosen
<1>11. DOMAIN chosen = 1..n /\ (n = 0 <=> chosen = <<>>)
  BY <1>10
<1> QED BY <1>10, <1>11 DEF chosen

-----------------------------------------------------------------------------
Stages ==
    {"none", "submitting", "encoding", "complete", "queued", "committed", "incomplete",
     "turned away"}

\* The JPEG worker has a frame of the event in its hands.
Encoding(e) == encoder.state = "encoding" /\ encoder.event = e

\* The frames of the event that are still to be encoded.
FramesLeft(e) == Cardinality(Positions(jobs, e)) + (IF Encoding(e) THEN 1 ELSE 0)

SavesHold(e) == \E i \in 1..Len(saves) : saves[i] = e

Saving(e) == saver.state = "writing" /\ saver.event = e

Entry(v) ==
    /\ v = [stage |-> v.stage, window |-> v.window, encoded |-> v.encoded,
            remaining |-> v.remaining, failed |-> v.failed]
    /\ v.stage \in Stages /\ v.remaining \in Int

EncoderTypes(t) ==
    /\ t = [state |-> t.state, event |-> t.event, frame |-> t.frame]
    /\ t.state \in {"idle", "encoding", "submitting", "ended"}

PathTypes ==
    /\ evidence = [e \in FrozenEvents |-> evidence[e]]
    /\ \A e \in FrozenEvents : Entry(evidence[e])
    /\ selecting = [state |-> selecting.state, event |-> selecting.event, frame |-> selecting.frame]
    /\ selecting.state \in {"idle", "submitting", "ended"}
    /\ selecting.state = "submitting" => selecting.event \in FrozenEvents
    /\ \E F : jobs \in Seq(JobsWith(F))
    /\ EncoderTypes(encoder)
    /\ encoder.state \in {"encoding", "submitting"} => encoder.event \in FrozenEvents
    /\ saves \in Seq(FrozenEvents)
    /\ saver = [state |-> saver.state, event |-> saver.event, frame |-> saver.frame]
    /\ saver.state \in {"idle", "writing", "ended"}
    /\ saver.state = "writing" => saver.event \in FrozenEvents
    /\ stopper \in {"none", "draining", "encoding", "saving", "returned"}
    /\ overdue \in BOOLEAN

\* Where an event is, its stage says.
EventPlaced(e) ==
    /\ evidence[e].stage = "submitting" <=>
         selecting.state = "submitting" /\ selecting.event = e
    /\ evidence[e].stage = "submitting" =>
         /\ evidence[e].window \in Windows
         /\ evidence[e].remaining = Len(Selection(evidence[e].window))
    /\ evidence[e].stage = "encoding" =>
         evidence[e].remaining >= 1 /\ FramesLeft(e) = evidence[e].remaining
    /\ evidence[e].stage # "encoding" => FramesLeft(e) = 0
    /\ evidence[e].stage = "complete" <=>
         encoder.state = "submitting" /\ encoder.event = e
    /\ evidence[e].stage = "queued" <=> SavesHold(e) \/ Saving(e)
    /\ ~(SavesHold(e) /\ Saving(e))

SavedOnce == \A i, j \in 1..Len(saves) : saves[i] = saves[j] => i = j

\* The threads end in the order in which they hand events on, each with its
\* queue empty, unless a join gave up.
EndInOrder ==
    /\ stopper \in {"encoding", "saving", "returned"} => selecting.state = "ended"
    /\ encoder.state = "ended" => jobs = <<>> /\ StopsEncoding
    /\ saver.state = "ended" => saves = <<>> /\ StopsSaving
    /\ ~overdue /\ stopper \in {"saving", "returned"} => encoder.state = "ended"
    /\ ~overdue /\ stopper = "returned" => saver.state = "ended"

NoneTurnedAway == ~overdue => \A e \in FrozenEvents : evidence[e].stage # "turned away"

PathInv ==
    /\ PathTypes
    /\ \A e \in FrozenEvents : EventPlaced(e)
    /\ SavedOnce
    /\ EndInOrder
    /\ NoneTurnedAway

LEMMA PathInvInit == KeyFramesInit => PathInv
<1> SUFFICES ASSUME KeyFramesInit PROVE PathInv
  OBVIOUS
<1>0. /\ \A e \in FrozenEvents : evidence[e] = NotFrozen
      /\ evidence = [e \in FrozenEvents |-> evidence[e]]
      /\ selecting.state = "idle" /\ encoder.state = "idle" /\ saver.state = "idle"
      /\ jobs = <<>> /\ saves = <<>> /\ stopper = "none" /\ overdue = FALSE
  BY DEF KeyFramesInit, FreshThread
<1>1. PathTypes
  <2>1. \A F : jobs \in Seq(JobsWith(F))
    BY <1>0
  <2>2. Entry(NotFrozen)
    BY DEF Entry, NotFrozen, Stages
  <2>3. EncoderTypes(encoder)
    BY DEF KeyFramesInit, FreshThread, EncoderTypes
  <2>4. /\ selecting = [state |-> selecting.state, event |-> selecting.event, frame |-> selecting.frame]
        /\ saver = [state |-> saver.state, event |-> saver.event, frame |-> saver.frame]
    BY DEF KeyFramesInit, FreshThread
  <2>5. saves \in Seq(FrozenEvents)
    BY <1>0
  <2>6. \A e \in FrozenEvents : Entry(evidence[e])
    BY <1>0, <2>2
  <2> QED BY <1>0, <2>1, <2>3, <2>4, <2>5, <2>6 DEF PathTypes
<1>2. ASSUME NEW e \in FrozenEvents
      PROVE  EventPlaced(e)
  <2>1. FramesLeft(e) = 0
    <3>1. Positions(jobs, e) = {}
      BY <1>0 DEF Positions
    <3>2. Cardinality(Positions(jobs, e)) = 0
      BY <3>1, FS_EmptySet
    <3> QED BY <1>0, <3>2 DEF FramesLeft, Encoding
  <2>2. ~SavesHold(e) /\ ~Saving(e)
    BY <1>0 DEF SavesHold, Saving
  <2>3. evidence[e].stage = "none"
    BY <1>0 DEF NotFrozen
  <2> QED BY <1>0, <2>1, <2>2, <2>3 DEF EventPlaced
<1>3. SavedOnce /\ EndInOrder
  BY <1>0 DEF SavedOnce, EndInOrder
<1>4. NoneTurnedAway
  <2>1. NotFrozen.stage = "none"
    BY DEF NotFrozen
  <2> QED BY <1>0, <2>1 DEF NoneTurnedAway
<1> QED BY <1>1, <1>2, <1>3, <1>4 DEF PathInv

\* The table of events after one of them changes.
Table == evidence = [e \in FrozenEvents |-> evidence[e]] /\ \A e \in FrozenEvents : Entry(evidence[e])

LEMMA EntryChanges ==
    ASSUME Table, NEW e \in FrozenEvents, NEW v, Entry(v), evidence' = [evidence EXCEPT ![e] = v]
    PROVE  Table' /\ evidence'[e] = v /\ \A f \in FrozenEvents \ {e} : evidence'[f] = evidence[f]
BY DEF Table

LEMMA StageMoves ==
    ASSUME Table, NEW e \in FrozenEvents, NEW stage \in Stages, MoveTo(e, stage)
    PROVE  /\ Table'
           /\ evidence'[e].stage = stage /\ evidence'[e].window = evidence[e].window
           /\ evidence'[e].remaining = evidence[e].remaining
           /\ \A f \in FrozenEvents \ {e} : evidence'[f] = evidence[f]
<1> DEFINE v == [evidence[e] EXCEPT !.stage = stage]
<1>1. Entry(evidence[e])
  BY DEF Table
<1>2. Entry(v) /\ v.stage = stage /\ v.window = evidence[e].window
      /\ v.remaining = evidence[e].remaining
  BY <1>1 DEF Entry
<1>3. evidence' = [evidence EXCEPT ![e] = v]
  BY DEF MoveTo, Table
<1> HIDE DEF v
<1> QED BY <1>2, <1>3, EntryChanges

\* An event whose entry, frames and place stay.
LEMMA EventStays ==
    ASSUME NEW f \in FrozenEvents, EventPlaced(f), evidence'[f] = evidence[f],
           FramesLeft(f)' = FramesLeft(f),
           (selecting.state = "submitting" /\ selecting.event = f)'
               <=> (selecting.state = "submitting" /\ selecting.event = f),
           (encoder.state = "submitting" /\ encoder.event = f)'
               <=> (encoder.state = "submitting" /\ encoder.event = f),
           SavesHold(f)' \/ Saving(f)' <=> SavesHold(f) \/ Saving(f),
           ~(SavesHold(f)' /\ Saving(f)')
    PROVE  EventPlaced(f)'
BY DEF EventPlaced

\* Submission of an event that is not with the writer: it is queued, refused
\* or, after the stop of the writer, turned away.
LEMMA SubmissionPlaces ==
    ASSUME PathInv, NEW e \in FrozenEvents, ~SavesHold(e), SubmitPersistence(e),
           ~overdue => ~StopsSaving
    PROVE  /\ Table' /\ \A f \in FrozenEvents \ {e} : evidence'[f] = evidence[f]
           /\ evidence'[e].stage \in {"incomplete", "queued", "turned away"}
           /\ evidence'[e].stage = "queued" <=> SavesHold(e)'
           /\ evidence'[e].stage = "turned away" => overdue
           /\ saves' \in Seq(FrozenEvents) /\ SavedOnce'
           /\ StopsSaving => saves' = saves
           /\ \A f \in FrozenEvents \ {e} : SavesHold(f)' <=> SavesHold(f)
<1>t. Table /\ saves \in Seq(FrozenEvents) /\ SavedOnce
  BY DEF PathInv, PathTypes, Table
<1>s. "incomplete" \in Stages /\ "queued" \in Stages /\ "turned away" \in Stages
  BY DEF Stages
<1>1. CASE MoveTo(e, "incomplete") /\ UNCHANGED saves
  BY <1>1, <1>t, <1>s, StageMoves DEF SavesHold, SavedOnce
<1>2. CASE ~StopsSaving /\ MoveTo(e, "queued") /\ saves' = Append(saves, e)
  <2>1. /\ saves' \in Seq(FrozenEvents) /\ Len(saves') = Len(saves) + 1 /\ Len(saves) \in Nat
        /\ \A i \in 1..Len(saves) : saves'[i] = saves[i]
        /\ saves'[Len(saves) + 1] = e
    BY <1>2, <1>t
  <2>2. SavesHold(e)'
    BY <2>1 DEF SavesHold
  <2>3. \A f \in FrozenEvents \ {e} : SavesHold(f)' <=> SavesHold(f)
    BY <2>1 DEF SavesHold
  <2>4. SavedOnce'
    BY <1>t, <2>1 DEF SavedOnce, SavesHold
  <2>5. Table' /\ evidence'[e].stage = "queued"
        /\ \A f \in FrozenEvents \ {e} : evidence'[f] = evidence[f]
    BY <1>2, <1>t, <1>s, StageMoves
  <2> QED BY <1>2, <2>1, <2>2, <2>3, <2>4, <2>5
<1>3. CASE StopsSaving /\ MoveTo(e, "turned away") /\ UNCHANGED saves
  BY <1>3, <1>t, <1>s, StageMoves DEF SavesHold, SavedOnce
<1> QED BY <1>1, <1>2, <1>3 DEF SubmitPersistence

LEMMA NothingOnPathChanges ==
    ASSUME PathInv, UNCHANGED keyFrameVars
    PROVE  PathInv'
<1> USE DEF keyFrameVars
<1>1. PathTypes'
  <2>1. JobsWith(0)' = JobsWith(0) /\ \A F : JobsWith(F)' = JobsWith(F)
    BY DEF JobsWith
  <2> QED BY <2>1 DEF PathInv, PathTypes, Entry, EncoderTypes, Stages
<1>2. ASSUME NEW f \in FrozenEvents
      PROVE  EventPlaced(f)'
  BY EventStays DEF PathInv, EventPlaced, FramesLeft, Positions, Encoding, SavesHold, Saving
<1>3. SavedOnce' /\ EndInOrder' /\ NoneTurnedAway'
  BY DEF PathInv, SavedOnce, EndInOrder, NoneTurnedAway, StopsEncoding, StopsSaving
<1> QED BY <1>1, <1>2, <1>3 DEF PathInv

LEMMA SelectKeepsPath ==
    ASSUME PathInv, NEW e \in FrozenEvents, NEW w \in Windows, SelectKeyFrames(e, w)
    PROVE  PathInv'
<1>t. /\ Table /\ evidence[e].stage = "none" /\ selecting.state = "idle"
      /\ UNCHANGED <<jobs, encoder, saves, saver, stopper, overdue>>
      /\ selecting = [state |-> selecting.state, event |-> selecting.event, frame |-> selecting.frame]
      /\ \A f \in FrozenEvents : EventPlaced(f)
  BY DEF PathInv, PathTypes, Table, SelectKeyFrames
<1>p. /\ FramesLeft(e) = 0 /\ ~SavesHold(e) /\ ~Saving(e)
      /\ ~(encoder.state = "submitting" /\ encoder.event = e)
  BY <1>t DEF EventPlaced
<1>u. /\ \A f : FramesLeft(f)' = FramesLeft(f) /\ SavesHold(f)' = SavesHold(f)
                /\ Saving(f)' = Saving(f)
      /\ SavedOnce'
  BY <1>t DEF FramesLeft, Positions, Encoding, SavesHold, Saving, SavedOnce, PathInv
<1> DEFINE v == [NotFrozen EXCEPT !.stage = "submitting", !.window = w,
                                  !.remaining = Len(Selection(w))]
<1>1. CASE /\ evidence' = [evidence EXCEPT ![e] = v]
           /\ selecting' = [selecting EXCEPT !.state = "submitting", !.event = e]
  <2>1. Entry(v) /\ v.stage = "submitting" /\ v.window = w /\ v.remaining = Len(Selection(w))
    <3>1. PICK k \in Nat : k = Len(Selection(w))
      BY SelectionIsSequence
    <3>2. Entry(NotFrozen)
      BY DEF Entry, NotFrozen, Stages
    <3>3. PICK x : x = NotFrozen
      OBVIOUS
    <3>4. v = [x EXCEPT !.stage = "submitting", !.window = w, !.remaining = k]
      BY <3>1, <3>3
    <3> HIDE DEF v
    <3>5. x = [stage |-> x.stage, window |-> x.window, encoded |-> x.encoded,
               remaining |-> x.remaining, failed |-> x.failed]
      BY <3>2, <3>3 DEF Entry
    <3>6. v.stage = "submitting" /\ v.window = w /\ v.remaining = k
      BY <3>4, <3>5
    <3>7. v = [stage |-> v.stage, window |-> v.window, encoded |-> v.encoded,
               remaining |-> v.remaining, failed |-> v.failed]
      BY <3>4, <3>5
    <3> QED BY <3>1, <3>6, <3>7 DEF Entry, Stages
  <2> HIDE DEF v
  <2>2. Table' /\ evidence'[e] = v /\ \A f \in FrozenEvents \ {e} : evidence'[f] = evidence[f]
    BY <1>1, <1>t, <2>1, EntryChanges
  <2>3. /\ selecting'.state = "submitting" /\ selecting'.event = e
        /\ selecting' = [state |-> selecting'.state, event |-> selecting'.event,
                         frame |-> selecting'.frame]
    BY <1>1, <1>t
  <2>4. EventPlaced(e)'
    BY <1>t, <1>p, <1>u, <2>1, <2>2, <2>3 DEF EventPlaced
  <2>5. ASSUME NEW f \in FrozenEvents \ {e}
        PROVE  EventPlaced(f)'
    BY <1>t, <1>u, <2>2, <2>3, EventStays DEF EventPlaced
  <2>6. PathTypes'
    BY <1>t, <2>2, <2>3 DEF PathInv, PathTypes, Table, EncoderTypes, JobsWith
  <2>7. EndInOrder' /\ NoneTurnedAway'
    BY <1>t, <2>1, <2>2, <2>3 DEF PathInv, EndInOrder, NoneTurnedAway, StopsEncoding, StopsSaving
  <2> QED BY <1>u, <2>4, <2>5, <2>6, <2>7 DEF PathInv
<1>2. CASE MoveTo(e, "incomplete") /\ UNCHANGED selecting
  <2>1. Table' /\ evidence'[e].stage = "incomplete"
        /\ \A f \in FrozenEvents \ {e} : evidence'[f] = evidence[f]
    BY <1>2, <1>t, StageMoves DEF Stages
  <2>4. EventPlaced(e)'
    BY <1>2, <1>t, <1>p, <1>u, <2>1 DEF EventPlaced
  <2>5. ASSUME NEW f \in FrozenEvents \ {e}
        PROVE  EventPlaced(f)'
    BY <1>2, <1>t, <1>u, <2>1, EventStays DEF EventPlaced
  <2>6. PathTypes'
    BY <1>2, <1>t, <2>1 DEF PathInv, PathTypes, Table, EncoderTypes, JobsWith
  <2>7. EndInOrder' /\ NoneTurnedAway'
    BY <1>2, <1>t, <2>1 DEF PathInv, EndInOrder, NoneTurnedAway, StopsEncoding, StopsSaving
  <2> QED BY <1>u, <2>4, <2>5, <2>6, <2>7 DEF PathInv
<1> QED BY <1>1, <1>2 DEF SelectKeyFrames

LEMMA SubmitFramesKeepsPath ==
    ASSUME PathInv, SubmitFrames
    PROVE  PathInv'
<1>1. PICK e \in FrozenEvents : e = selecting.event
  BY DEF PathInv, PathTypes, SubmitFrames
<1>t. /\ Table /\ selecting.state = "submitting" /\ selecting' = FreshThread
      /\ UNCHANGED <<encoder, saver, stopper, overdue>>
      /\ \A f \in FrozenEvents : EventPlaced(f)
  BY DEF PathInv, PathTypes, Table, SubmitFrames
<1>p. /\ evidence[e].stage = "submitting" /\ FramesLeft(e) = 0 /\ ~SavesHold(e) /\ ~Saving(e)
      /\ ~(encoder.state = "submitting" /\ encoder.event = e)
      /\ evidence[e].window \in Windows
      /\ evidence[e].remaining = Len(Selection(evidence[e].window))
  BY <1>1, <1>t DEF EventPlaced
<1>o. ~StopsEncoding /\ ~StopsSaving
  BY <1>t DEF PathInv, EndInOrder, StopsEncoding, StopsSaving
<1>s. selecting'.state = "idle"
      /\ selecting' = [state |-> selecting'.state, event |-> selecting'.event,
                       frame |-> selecting'.frame]
  BY <1>t DEF FreshThread
<1> DEFINE frames == Selection(evidence[e].window)
<1>c. PICK n \in Nat : /\ Len(frames) = n /\ DOMAIN frames = 1..n
                       /\ n = 0 <=> frames = <<>>
  BY <1>p, SelectionIsSequence
<1>2. CASE frames = <<>> /\ SubmitPersistence(e) /\ UNCHANGED jobs
  <2>1. /\ Table' /\ \A f \in FrozenEvents \ {e} : evidence'[f] = evidence[f]
        /\ evidence'[e].stage \in {"incomplete", "queued", "turned away"}
        /\ evidence'[e].stage = "queued" <=> SavesHold(e)'
        /\ evidence'[e].stage = "turned away" => overdue
        /\ saves' \in Seq(FrozenEvents) /\ SavedOnce'
        /\ \A f \in FrozenEvents \ {e} : SavesHold(f)' <=> SavesHold(f)
    BY <1>2, <1>o, <1>p, SubmissionPlaces
  <2>2. \A f : FramesLeft(f)' = FramesLeft(f) /\ Saving(f)' = Saving(f)
    BY <1>2, <1>t DEF FramesLeft, Positions, Encoding, Saving
  <2>4. EventPlaced(e)'
    BY <1>t, <1>p, <1>s, <2>1, <2>2 DEF EventPlaced
  <2>5. ASSUME NEW f \in FrozenEvents \ {e}
        PROVE  EventPlaced(f)'
    <3>1. EventPlaced(f) /\ evidence'[f] = evidence[f] /\ FramesLeft(f)' = FramesLeft(f)
      BY <1>t, <2>1, <2>2
    <3>2. (SavesHold(f)' <=> SavesHold(f)) /\ (Saving(f)' <=> Saving(f))
      BY <2>1, <2>2
    <3>3. ~(SavesHold(f) /\ Saving(f))
      BY <3>1 DEF EventPlaced
    <3> QED BY <1>1, <1>t, <1>s, <3>1, <3>2, <3>3, EventStays
  <2>6. PathTypes'
    BY <1>2, <1>t, <1>s, <2>1 DEF PathInv, PathTypes, Table, EncoderTypes, JobsWith
  <2>7. EndInOrder' /\ NoneTurnedAway'
    BY <1>2, <1>t, <1>o, <1>s, <2>1 DEF PathInv, EndInOrder, NoneTurnedAway, StopsEncoding, StopsSaving
  <2> QED BY <2>1, <2>4, <2>5, <2>6, <2>7 DEF PathInv
<1>3. CASE /\ frames # <<>> /\ UNCHANGED saves /\ MoveTo(e, "encoding")
           /\ jobs' = jobs \o [i \in DOMAIN frames |-> [event |-> e, frame |-> frames[i]]]
  <2>1. /\ Table' /\ evidence'[e].stage = "encoding"
        /\ evidence'[e].remaining = evidence[e].remaining
        /\ \A f \in FrozenEvents \ {e} : evidence'[f] = evidence[f]
    BY <1>3, <1>t, StageMoves DEF Stages
  <2>2. PICK F : jobs \in Seq(JobsWith(F))
    BY DEF PathInv, PathTypes
  <2>3. PICK t : t = [i \in 1..n |-> [event |-> e, frame |-> frames[i]]]
    OBVIOUS
  <2>4. jobs' = jobs \o t
    BY <1>3, <1>c, <2>3
  <2>5. Cardinality(Positions(jobs, e)) = 0 /\ ~Encoding(e)
    BY <1>p, <2>2, PositionsFinite DEF FramesLeft
  <2>6. Positions(jobs, e) = {}
    BY <2>2, <2>5, PositionsFinite
  <2> HIDE DEF frames
  <2>7. /\ \E G : jobs' \in Seq(JobsWith(G))
        /\ Cardinality(Positions(jobs', e)) = n
        /\ \A f : f # e => Positions(jobs', f) = Positions(jobs, f)
    <3>1. DOMAIN frames = 1..n
      BY <1>c
    <3>2. /\ \E G : jobs \o t \in Seq(JobsWith(G))
          /\ Positions(jobs, e) = {} => Cardinality(Positions(jobs \o t, e)) = n
          /\ \A f : f # e => Positions(jobs \o t, f) = Positions(jobs, f)
      BY <2>2, <2>3, <3>1, BlockCounts
    <3> QED BY <2>4, <2>6, <3>2
  <2>8. FramesLeft(e)' = n
    BY <1>t, <2>5, <2>7 DEF FramesLeft, Encoding, Positions
  <2>9. \A f \in FrozenEvents \ {e} : FramesLeft(f)' = FramesLeft(f)
    BY <1>t, <2>7 DEF FramesLeft, Encoding, Positions
  <2>10. \A f : SavesHold(f)' = SavesHold(f) /\ Saving(f)' = Saving(f)
    BY <1>3, <1>t DEF SavesHold, Saving
  <2>11. evidence[e].remaining = n /\ n >= 1
    BY <1>3, <1>c, <1>p DEF frames
  <2>12. EventPlaced(e)'
    BY <1>t, <1>p, <1>s, <2>1, <2>8, <2>10, <2>11 DEF EventPlaced
  <2>13. ASSUME NEW f \in FrozenEvents \ {e}
         PROVE  EventPlaced(f)'
    BY <1>1, <1>t, <1>s, <2>1, <2>9, <2>10, EventStays DEF EventPlaced
  <2>14. PathTypes'
    BY <1>3, <1>t, <1>s, <2>1, <2>7 DEF PathInv, PathTypes, Table, EncoderTypes, JobsWith
  <2>15. EndInOrder' /\ NoneTurnedAway' /\ SavedOnce'
    BY <1>3, <1>t, <1>o, <1>s, <2>1 DEF PathInv, EndInOrder, NoneTurnedAway, StopsEncoding,
      StopsSaving, SavedOnce
  <2> QED BY <2>12, <2>13, <2>14, <2>15 DEF PathInv
<1>4. CASE MoveTo(e, "incomplete") /\ UNCHANGED <<jobs, saves>>
  <2>1. Table' /\ evidence'[e].stage = "incomplete"
        /\ \A f \in FrozenEvents \ {e} : evidence'[f] = evidence[f]
    BY <1>4, <1>t, StageMoves DEF Stages
  <2>2. \A f : /\ FramesLeft(f)' = FramesLeft(f) /\ SavesHold(f)' = SavesHold(f)
               /\ Saving(f)' = Saving(f)
    BY <1>4, <1>t DEF FramesLeft, Positions, Encoding, SavesHold, Saving
  <2>4. EventPlaced(e)'
    BY <1>t, <1>p, <1>s, <2>1, <2>2 DEF EventPlaced
  <2>5. ASSUME NEW f \in FrozenEvents \ {e}
        PROVE  EventPlaced(f)'
    BY <1>1, <1>t, <1>s, <2>1, <2>2, EventStays DEF EventPlaced
  <2>6. PathTypes'
    BY <1>4, <1>t, <1>s, <2>1 DEF PathInv, PathTypes, Table, EncoderTypes, JobsWith
  <2>7. EndInOrder' /\ NoneTurnedAway' /\ SavedOnce'
    BY <1>4, <1>t, <1>o, <1>s, <2>1 DEF PathInv, EndInOrder, NoneTurnedAway, StopsEncoding,
      StopsSaving, SavedOnce
  <2> QED BY <2>4, <2>5, <2>6, <2>7 DEF PathInv
<1> QED BY <1>1, <1>o, <1>2, <1>3, <1>4 DEF SubmitFrames

LEMMA TakeFrameKeepsPath ==
    ASSUME PathInv, TakeFrame
    PROVE  PathInv'
<1>t. /\ encoder.state = "idle" /\ jobs # <<>> /\ jobs' = Tail(jobs)
      /\ UNCHANGED <<evidence, selecting, saves, saver, stopper, overdue>>
      /\ \A f \in FrozenEvents : EventPlaced(f)
  BY DEF PathInv, TakeFrame
<1>1. PICK F : jobs \in Seq(JobsWith(F))
  BY DEF PathInv, PathTypes
<1>2. PICK h : h = Head(jobs)
  OBVIOUS
<1>3. /\ jobs' \in Seq(JobsWith(F)) /\ h \in JobsWith(F)
      /\ \A f : Cardinality(Positions(jobs, f)) =
                  Cardinality(Positions(jobs', f)) + (IF h.event = f THEN 1 ELSE 0)
  BY <1>t, <1>1, <1>2, HeadCounts
<1>4. \A f : Cardinality(Positions(jobs', f)) \in Nat
  BY <1>3, PositionsFinite
<1>5. encoder' = [state |-> "encoding", event |-> h.event, frame |-> {h.frame}]
  BY <1>2 DEF TakeFrame
<1>6. encoder'.state = "encoding" /\ encoder'.event = h.event /\ EncoderTypes(encoder)'
      /\ h.event \in FrozenEvents
  BY <1>3, <1>5 DEF EncoderTypes, JobsWith
<1>7. \A f : FramesLeft(f)' = FramesLeft(f)
  <2> SUFFICES ASSUME NEW f PROVE FramesLeft(f)' = FramesLeft(f)
    OBVIOUS
  <2>1. FramesLeft(f)' = Cardinality(Positions(jobs', f)) + (IF h.event = f THEN 1 ELSE 0)
    BY <1>6 DEF FramesLeft, Encoding, Positions
  <2>2. FramesLeft(f) = Cardinality(Positions(jobs, f))
    <3>1. Cardinality(Positions(jobs, f)) \in Nat
      BY <1>1, PositionsFinite
    <3> QED BY <1>t, <3>1 DEF FramesLeft, Encoding
  <2> QED BY <1>3, <2>1, <2>2
<1>8. \A f : SavesHold(f)' = SavesHold(f) /\ Saving(f)' = Saving(f)
  BY <1>t DEF SavesHold, Saving
<1>9. ASSUME NEW f \in FrozenEvents
      PROVE  EventPlaced(f)'
  BY <1>t, <1>6, <1>7, <1>8, EventStays DEF EventPlaced
<1>10. PathTypes'
  <2>1. \E G : jobs' \in Seq(JobsWith(G))
    BY <1>3
  <2> QED BY <1>t, <1>6, <2>1 DEF PathInv, PathTypes, Entry, JobsWith
<1>11. EndInOrder' /\ NoneTurnedAway' /\ SavedOnce'
  BY <1>t, <1>6 DEF PathInv, EndInOrder, NoneTurnedAway, StopsEncoding, StopsSaving, SavedOnce
<1> QED BY <1>9, <1>10, <1>11 DEF PathInv

LEMMA JpegCompletedKeepsPath ==
    ASSUME PathInv, NEW ok \in BOOLEAN, JpegCompleted(ok)
    PROVE  PathInv'
<1>1. PICK e \in FrozenEvents : e = encoder.event
  BY DEF PathInv, PathTypes, JpegCompleted
<1>t. /\ Table /\ encoder.state = "encoding"
      /\ UNCHANGED <<selecting, jobs, saves, saver, stopper, overdue>>
      /\ \A f \in FrozenEvents : EventPlaced(f)
      /\ EncoderTypes(encoder)
  BY DEF PathInv, PathTypes, Table, JpegCompleted
<1>2. PICK F : jobs \in Seq(JobsWith(F))
  BY DEF PathInv, PathTypes
<1>3. PICK rest \in Nat : rest = Cardinality(Positions(jobs, e))
  BY <1>2, PositionsFinite
<1>4. FramesLeft(e) = rest + 1
  BY <1>1, <1>t, <1>3 DEF FramesLeft, Encoding
<1>5. evidence[e].stage = "encoding" /\ evidence[e].remaining = rest + 1
  BY <1>t, <1>3, <1>4 DEF EventPlaced
<1>p. ~SavesHold(e) /\ ~Saving(e) /\ ~(selecting.state = "submitting" /\ selecting.event = e)
  BY <1>t, <1>5 DEF EventPlaced
<1>6. PICK failed : failed = FailedSoFar(e, ok)
  OBVIOUS
<1>7. PICK shown : shown = IF ok THEN encoder.frame ELSE {}
  OBVIOUS
<1>8. PICK stage \in Stages :
        /\ stage = IF rest > 0 THEN evidence[e].stage ELSE IF failed THEN "incomplete" ELSE "complete"
  BY <1>5 DEF Stages
<1>9. PICK v : v = [stage |-> stage, window |-> evidence[e].window,
                    encoded |-> evidence[e].encoded \cup shown,
                    remaining |-> rest, failed |-> failed]
  OBVIOUS
<1>10. Entry(v) /\ v.stage = stage /\ v.remaining = rest /\ v.window = evidence[e].window
  BY <1>9 DEF Entry
<1>11. evidence' = [evidence EXCEPT ![e] = v]
  <2>1. evidence[e] = [stage |-> evidence[e].stage, window |-> evidence[e].window,
                       encoded |-> evidence[e].encoded, remaining |-> evidence[e].remaining,
                       failed |-> evidence[e].failed]
    BY <1>t DEF Table, Entry
  <2>2. evidence[e].remaining - 1 = rest
    BY <1>3, <1>5
  <2>3. evidence' = [evidence EXCEPT ![e] =
          [evidence[e] EXCEPT !.encoded = evidence[e].encoded \cup shown, !.remaining = rest,
                              !.failed = failed, !.stage = stage]]
    BY <1>1, <1>t, <1>6, <1>7, <1>8, <2>2 DEF JpegCompleted, Table
  <2>4. [evidence[e] EXCEPT !.encoded = evidence[e].encoded \cup shown, !.remaining = rest,
                            !.failed = failed, !.stage = stage] = v
    <3>1. PICK old : old = evidence[e]
      OBVIOUS
    <3>2. PICK new : new = [old EXCEPT !.encoded = old.encoded \cup shown, !.remaining = rest,
                                       !.failed = failed, !.stage = stage]
      OBVIOUS
    <3>3. new = [stage |-> new.stage, window |-> new.window, encoded |-> new.encoded,
                 remaining |-> new.remaining, failed |-> new.failed]
      BY <2>1, <3>1, <3>2
    <3>4. new.stage = stage /\ new.window = old.window /\ new.encoded = old.encoded \cup shown
      BY <2>1, <3>1, <3>2
    <3>5. new.remaining = rest /\ new.failed = failed
      BY <2>1, <3>1, <3>2
    <3>6. new = v
      BY <1>9, <3>1, <3>3, <3>4, <3>5
    <3> QED BY <3>1, <3>2, <3>6
  <2> QED BY <2>3, <2>4
<1>12. Table' /\ evidence'[e] = v /\ \A f \in FrozenEvents \ {e} : evidence'[f] = evidence[f]
  BY <1>t, <1>10, <1>11, EntryChanges
<1>13. encoder' = IF rest = 0 /\ ~failed THEN [encoder EXCEPT !.state = "submitting"] ELSE FreshThread
  BY <1>1, <1>3, <1>5, <1>6 DEF JpegCompleted
<1>14. /\ EncoderTypes(encoder)'
       /\ encoder'.state = IF rest = 0 /\ ~failed THEN "submitting" ELSE "idle"
       /\ encoder'.state = "submitting" => encoder'.event = e
  BY <1>1, <1>t, <1>13 DEF EncoderTypes, FreshThread
<1>15. FramesLeft(e)' = rest
  BY <1>t, <1>3, <1>14 DEF FramesLeft, Encoding, Positions
<1>16. \A f \in FrozenEvents \ {e} : FramesLeft(f)' = FramesLeft(f)
  BY <1>1, <1>t, <1>14 DEF FramesLeft, Encoding, Positions
<1>17. \A f : SavesHold(f)' = SavesHold(f) /\ Saving(f)' = Saving(f)
  BY <1>t DEF SavesHold, Saving
<1>18. EventPlaced(e)'
  <2>1. CASE rest > 0
    <3>1. evidence'[e].stage = "encoding" /\ encoder'.state = "idle"
      BY <1>5, <1>8, <1>10, <1>12, <1>14, <2>1
    <3> QED BY <1>3, <1>t, <1>p, <1>10, <1>12, <1>15, <1>17, <2>1, <3>1 DEF EventPlaced
  <2>2. CASE rest = 0 /\ failed
    <3>1. evidence'[e].stage = "incomplete" /\ encoder'.state = "idle"
      BY <1>8, <1>10, <1>12, <1>14, <2>2
    <3> QED BY <1>t, <1>p, <1>15, <1>17, <2>2, <3>1 DEF EventPlaced
  <2>3. CASE rest = 0 /\ ~failed
    <3>1. evidence'[e].stage = "complete" /\ encoder'.state = "submitting" /\ encoder'.event = e
      BY <1>8, <1>10, <1>12, <1>14, <2>3
    <3> QED BY <1>t, <1>p, <1>15, <1>17, <2>3, <3>1 DEF EventPlaced
  <2> QED BY <1>3, <2>1, <2>2, <2>3
<1>19. ASSUME NEW f \in FrozenEvents \ {e}
       PROVE  EventPlaced(f)'
  <2>1. ~(encoder.state = "submitting" /\ encoder.event = f)
        /\ ~(encoder'.state = "submitting" /\ encoder'.event = f)
    BY <1>t, <1>14
  <2>2. ~(SavesHold(f)' /\ Saving(f)')
    BY <1>t, <1>17 DEF EventPlaced
  <2> QED BY <1>t, <1>12, <1>16, <1>17, <2>1, <2>2, EventStays
<1>20. PathTypes'
  <2>1. \E G : jobs' \in Seq(JobsWith(G))
    BY <1>t, <1>2
  <2> QED BY <1>t, <1>12, <1>14, <2>1 DEF PathInv, PathTypes, Table, JobsWith
<1>21. EndInOrder' /\ NoneTurnedAway' /\ SavedOnce'
  <2>1. evidence'[e].stage # "turned away"
    BY <1>5, <1>8, <1>10, <1>12
  <2>2. encoder'.state # "ended"
    BY <1>14
  <2> QED BY <1>t, <1>12, <2>1, <2>2 DEF PathInv, EndInOrder, NoneTurnedAway, StopsEncoding,
        StopsSaving, SavedOnce
<1> QED BY <1>18, <1>19, <1>20, <1>21 DEF PathInv

LEMMA SubmitCompleteKeepsPath ==
    ASSUME PathInv, SubmitComplete
    PROVE  PathInv'
<1>1. PICK e \in FrozenEvents : e = encoder.event
  BY DEF PathInv, PathTypes, SubmitComplete
<1>t. /\ Table /\ encoder.state = "submitting" /\ encoder' = FreshThread
      /\ SubmitPersistence(e)
      /\ UNCHANGED <<selecting, jobs, saver, stopper, overdue>>
      /\ \A f \in FrozenEvents : EventPlaced(f)
  BY <1>1 DEF PathInv, PathTypes, Table, SubmitComplete
<1>p. /\ evidence[e].stage = "complete" /\ FramesLeft(e) = 0 /\ ~SavesHold(e) /\ ~Saving(e)
      /\ ~(selecting.state = "submitting" /\ selecting.event = e)
  BY <1>1, <1>t DEF EventPlaced
<1>o. ~overdue => ~StopsSaving
  BY <1>t DEF PathInv, EndInOrder, StopsSaving
<1>s. encoder'.state = "idle" /\ EncoderTypes(encoder)'
  BY <1>t DEF FreshThread, EncoderTypes
<1>2. /\ Table' /\ \A f \in FrozenEvents \ {e} : evidence'[f] = evidence[f]
      /\ evidence'[e].stage \in {"incomplete", "queued", "turned away"}
      /\ evidence'[e].stage = "queued" <=> SavesHold(e)'
      /\ evidence'[e].stage = "turned away" => overdue
      /\ saves' \in Seq(FrozenEvents) /\ SavedOnce'
      /\ StopsSaving => saves' = saves
      /\ \A f \in FrozenEvents \ {e} : SavesHold(f)' <=> SavesHold(f)
  BY <1>t, <1>o, <1>p, SubmissionPlaces
<1>3. \A f : FramesLeft(f)' = FramesLeft(f) /\ Saving(f)' = Saving(f)
  BY <1>t, <1>s DEF FramesLeft, Positions, Encoding, Saving
<1>4. EventPlaced(e)'
  BY <1>t, <1>p, <1>s, <1>2, <1>3 DEF EventPlaced
<1>5. ASSUME NEW f \in FrozenEvents \ {e}
      PROVE  EventPlaced(f)'
  <2>1. ~(SavesHold(f)' /\ Saving(f)') /\ (SavesHold(f)' <=> SavesHold(f))
    BY <1>t, <1>2, <1>3 DEF EventPlaced
  <2> QED BY <1>1, <1>t, <1>s, <1>2, <1>3, <2>1, EventStays
<1>6. PathTypes'
  BY <1>t, <1>s, <1>2 DEF PathInv, PathTypes, Table, JobsWith
<1>7. EndInOrder' /\ NoneTurnedAway'
  <2>1. saver.state = "ended" => saves' = <<>>
    BY <1>2 DEF PathInv, EndInOrder
  <2>2. EndInOrder'
    BY <1>t, <1>s, <2>1 DEF PathInv, EndInOrder, StopsEncoding, StopsSaving
  <2>3. NoneTurnedAway'
    BY <1>t, <1>2 DEF PathInv, NoneTurnedAway
  <2> QED BY <2>2, <2>3
<1> QED BY <1>2, <1>4, <1>5, <1>6, <1>7 DEF PathInv

LEMMA TakeSaveKeepsPath ==
    ASSUME PathInv, TakeSave
    PROVE  PathInv'
<1>t. /\ saver.state = "idle" /\ saves # <<>> /\ saves' = Tail(saves)
      /\ UNCHANGED <<evidence, selecting, jobs, encoder, stopper, overdue>>
      /\ \A f \in FrozenEvents : EventPlaced(f)
      /\ saves \in Seq(FrozenEvents) /\ SavedOnce
      /\ saver = [state |-> saver.state, event |-> saver.event, frame |-> saver.frame]
  BY DEF PathInv, PathTypes, TakeSave
<1>1. PICK h : h = Head(saves)
  OBVIOUS
<1>2. /\ Len(saves) \in Nat \ {0} /\ h = saves[1] /\ h \in FrozenEvents
      /\ saves' \in Seq(FrozenEvents) /\ Len(saves') = Len(saves) - 1
      /\ \A i \in 1..Len(saves) - 1 : saves'[i] = saves[i + 1]
  BY <1>t, <1>1
<1>3. saver' = [saver EXCEPT !.state = "writing", !.event = h]
  BY <1>1 DEF TakeSave
<1>4. /\ saver'.state = "writing" /\ saver'.event = h
      /\ saver' = [state |-> saver'.state, event |-> saver'.event, frame |-> saver'.frame]
  BY <1>t, <1>3
<1>5. SavedOnce'
  BY <1>t, <1>2 DEF SavedOnce
<1>6. ~SavesHold(h)'
  BY <1>t, <1>2 DEF SavesHold, SavedOnce
<1>7. ASSUME NEW f \in FrozenEvents, f # h
      PROVE  SavesHold(f)' <=> SavesHold(f)
  <2>1. ASSUME SavesHold(f)' PROVE SavesHold(f)
    BY <1>2, <2>1 DEF SavesHold
  <2>2. ASSUME SavesHold(f) PROVE SavesHold(f)'
    <3>1. PICK i \in 1..Len(saves) : saves[i] = f
      BY <2>2 DEF SavesHold
    <3>2. i # 1
      BY <1>2, <1>7, <3>1
    <3>3. i - 1 \in 1..Len(saves') /\ saves'[i - 1] = f
      BY <1>2, <3>1, <3>2
    <3> QED BY <3>3 DEF SavesHold
  <2> QED BY <2>1, <2>2
<1>8. SavesHold(h) /\ \A f : ~Saving(f)
  BY <1>t, <1>2 DEF SavesHold, Saving
<1>9. \A f : Saving(f)' <=> f = h
  BY <1>4 DEF Saving
<1>10. \A f : FramesLeft(f)' = FramesLeft(f)
  BY <1>t DEF FramesLeft, Positions, Encoding
<1>11. ASSUME NEW f \in FrozenEvents
       PROVE  EventPlaced(f)'
  <2>1. (SavesHold(f)' \/ Saving(f)' <=> SavesHold(f) \/ Saving(f)) /\ ~(SavesHold(f)' /\ Saving(f)')
    BY <1>6, <1>7, <1>8, <1>9
  <2> QED BY <1>t, <1>10, <2>1, EventStays
<1>12. PathTypes'
  BY <1>t, <1>2, <1>4 DEF PathInv, PathTypes, Entry, EncoderTypes, JobsWith
<1>13. EndInOrder' /\ NoneTurnedAway'
  BY <1>t, <1>4 DEF PathInv, EndInOrder, NoneTurnedAway, StopsEncoding, StopsSaving
<1> QED BY <1>5, <1>11, <1>12, <1>13 DEF PathInv

LEMMA PersistenceKeepsPath ==
    ASSUME PathInv, NEW stage \in {"committed", "incomplete"}, PersistenceCompleted(stage)
    PROVE  PathInv'
<1>1. PICK e \in FrozenEvents : e = saver.event
  BY DEF PathInv, PathTypes, PersistenceCompleted
<1>t. /\ Table /\ saver.state = "writing" /\ saver' = FreshThread /\ MoveTo(e, stage)
      /\ UNCHANGED <<selecting, jobs, encoder, saves, stopper, overdue>>
      /\ \A f \in FrozenEvents : EventPlaced(f)
      /\ stage \in Stages
  BY <1>1 DEF PathInv, PathTypes, Table, PersistenceCompleted, Stages
<1>p. /\ Saving(e) /\ ~SavesHold(e) /\ evidence[e].stage = "queued" /\ FramesLeft(e) = 0
      /\ ~(selecting.state = "submitting" /\ selecting.event = e)
      /\ ~(encoder.state = "submitting" /\ encoder.event = e)
  BY <1>1, <1>t DEF EventPlaced, Saving
<1>s. /\ saver'.state = "idle"
      /\ saver' = [state |-> saver'.state, event |-> saver'.event, frame |-> saver'.frame]
  BY <1>t DEF FreshThread
<1>2. /\ Table' /\ evidence'[e].stage = stage
      /\ \A f \in FrozenEvents \ {e} : evidence'[f] = evidence[f]
  BY <1>t, StageMoves
<1>3. \A f : FramesLeft(f)' = FramesLeft(f) /\ SavesHold(f)' = SavesHold(f) /\ ~Saving(f)'
  BY <1>t, <1>s DEF FramesLeft, Positions, Encoding, SavesHold, Saving
<1>4. EventPlaced(e)'
  BY <1>t, <1>p, <1>2, <1>3 DEF EventPlaced
<1>5. ASSUME NEW f \in FrozenEvents \ {e}
      PROVE  EventPlaced(f)'
  <2>1. ~Saving(f)
    BY <1>1 DEF Saving
  <2> QED BY <1>t, <1>2, <1>3, <2>1, EventStays
<1>6. PathTypes'
  BY <1>t, <1>s, <1>2 DEF PathInv, PathTypes, Table, EncoderTypes, JobsWith
<1>7. EndInOrder' /\ NoneTurnedAway' /\ SavedOnce'
  BY <1>t, <1>s, <1>2 DEF PathInv, EndInOrder, NoneTurnedAway, StopsEncoding, StopsSaving, SavedOnce
<1> QED BY <1>4, <1>5, <1>6, <1>7 DEF PathInv

\* Threads that end and the stopper: the events and the queues stay.
LEMMA StopKeepsPath ==
    ASSUME PathInv,
           EncoderEnds \/ SaverEnds \/ RequestDrain \/ EventThreadEnds \/ StopEncoding \/ JoinReturns
    PROVE  PathInv'
<1>0. /\ UNCHANGED <<evidence, jobs, saves>> /\ \A f \in FrozenEvents : EventPlaced(f)
      /\ selecting = [state |-> selecting.state, event |-> selecting.event, frame |-> selecting.frame]
      /\ saver = [state |-> saver.state, event |-> saver.event, frame |-> saver.frame]
      /\ EncoderTypes(encoder)
  BY DEF PathInv, PathTypes, EncoderEnds, SaverEnds, RequestDrain, EventThreadEnds, StopEncoding,
     JoinReturns
<1>1. /\ selecting'.event = selecting.event
      /\ selecting'.state = selecting.state \/ {selecting.state, selecting'.state} \subseteq {"idle", "ended"}
      /\ selecting' = [state |-> selecting'.state, event |-> selecting'.event,
                       frame |-> selecting'.frame]
  BY <1>0 DEF EncoderEnds, SaverEnds, RequestDrain, EventThreadEnds, StopEncoding, JoinReturns
<1>2. /\ encoder'.event = encoder.event /\ EncoderTypes(encoder)'
      /\ encoder'.state = encoder.state \/ {encoder.state, encoder'.state} \subseteq {"idle", "ended"}
  BY <1>0 DEF EncoderEnds, SaverEnds, RequestDrain, EventThreadEnds, StopEncoding, JoinReturns,
     EncoderTypes
<1>3. /\ saver'.event = saver.event
      /\ saver'.state = saver.state \/ {saver.state, saver'.state} \subseteq {"idle", "ended"}
      /\ saver' = [state |-> saver'.state, event |-> saver'.event, frame |-> saver'.frame]
  BY <1>0 DEF EncoderEnds, SaverEnds, RequestDrain, EventThreadEnds, StopEncoding, JoinReturns
<1>4. \A f : FramesLeft(f)' = FramesLeft(f) /\ SavesHold(f)' = SavesHold(f) /\ Saving(f)' = Saving(f)
  BY <1>0, <1>2, <1>3 DEF FramesLeft, Positions, Encoding, SavesHold, Saving
<1>5. ASSUME NEW f \in FrozenEvents
      PROVE  EventPlaced(f)'
  <2>1. ~(SavesHold(f) /\ Saving(f))
    BY <1>0 DEF EventPlaced
  <2> QED BY <1>0, <1>1, <1>2, <1>4, <2>1, EventStays
<1>6. stopper' \in {"none", "draining", "encoding", "saving", "returned"} /\ overdue' \in BOOLEAN
  BY DEF PathInv, PathTypes, EncoderEnds, SaverEnds, RequestDrain, EventThreadEnds, StopEncoding,
     JoinReturns
<1>7. PathTypes'
  BY <1>0, <1>1, <1>2, <1>3, <1>6 DEF PathInv, PathTypes, Entry, JobsWith
<1>8. SavedOnce' /\ (overdue => overdue')
  <2>1. SavedOnce'
    BY <1>0 DEF PathInv, SavedOnce
  <2>2. overdue' = overdue \/ overdue' = (overdue \/ ~Joined)
    BY DEF EncoderEnds, SaverEnds, RequestDrain, EventThreadEnds, StopEncoding, JoinReturns
  <2>3. overdue \in BOOLEAN
    BY DEF PathInv, PathTypes
  <2> QED BY <2>1, <2>2, <2>3
<1>9. NoneTurnedAway'
  BY <1>0, <1>8 DEF PathInv, PathTypes, NoneTurnedAway, EncoderEnds, SaverEnds, RequestDrain,
     EventThreadEnds, StopEncoding, JoinReturns
<1>10. EndInOrder'
  <2> USE DEF EndInOrder, StopsEncoding, StopsSaving
  <2>i. EndInOrder
    BY DEF PathInv
  <2>1. CASE EncoderEnds
    <3>1. encoder'.state = "ended"
      BY <1>0, <2>1 DEF EncoderEnds, EncoderTypes
    <3> QED BY <2>1, <2>i, <3>1 DEF EncoderEnds, EncoderMayEnd
  <2>2. CASE SaverEnds
    <3>1. saver'.state = "ended"
      BY <1>0, <2>2 DEF SaverEnds
    <3> QED BY <2>2, <2>i, <3>1 DEF SaverEnds
  <2>3. CASE RequestDrain
    BY <2>3, <2>i DEF RequestDrain
  <2>4. CASE EventThreadEnds
    BY <2>4, <2>i DEF EventThreadEnds
  <2>5. CASE StopEncoding
    BY <2>5, <2>i DEF StopEncoding
  <2>6. CASE JoinReturns
    BY <2>6, <2>i DEF JoinReturns, Joined
  <2> QED BY <2>1, <2>2, <2>3, <2>4, <2>5, <2>6
<1> QED BY <1>5, <1>7, <1>8, <1>9, <1>10 DEF PathInv

LEMMA PathInvNext == PathInv /\ [KeyFramesNext]_keyFrameVars => PathInv'
<1> SUFFICES ASSUME PathInv, [KeyFramesNext]_keyFrameVars
             PROVE  PathInv'
  OBVIOUS
<1>1. ASSUME NEW e \in FrozenEvents, NEW w \in Windows, SelectKeyFrames(e, w)
      PROVE  PathInv'
  BY <1>1, SelectKeepsPath
<1>2. CASE SubmitFrames
  BY <1>2, SubmitFramesKeepsPath
<1>3. CASE TakeFrame
  BY <1>3, TakeFrameKeepsPath
<1>4. ASSUME NEW ok \in BOOLEAN, JpegCompleted(ok)
      PROVE  PathInv'
  BY <1>4, JpegCompletedKeepsPath
<1>5. CASE SubmitComplete
  BY <1>5, SubmitCompleteKeepsPath
<1>6. CASE TakeSave
  BY <1>6, TakeSaveKeepsPath
<1>7. ASSUME NEW stage \in {"committed", "incomplete"}, PersistenceCompleted(stage)
      PROVE  PathInv'
  BY <1>7, PersistenceKeepsPath
<1>8. CASE \/ EncoderEnds \/ SaverEnds \/ RequestDrain \/ EventThreadEnds \/ StopEncoding
           \/ JoinReturns
  BY <1>8, StopKeepsPath
<1>9. CASE UNCHANGED keyFrameVars
  BY <1>9, NothingOnPathChanges
<1> QED BY <1>1, <1>2, <1>3, <1>4, <1>5, <1>6, <1>7, <1>8, <1>9 DEF KeyFramesNext

\* EventRuntime::join: for every table size, queue capacity, window and number
\* of key frames, a stop whose joins kept their deadlines turns no event away
\* and returns with every frozen event committed or known incomplete.
THEOREM StopLosesNothingAlways == KeyFramesSpec => []StopLosesNothing
<1>1. PathInv => StopLosesNothing
  <2> SUFFICES ASSUME PathInv, ~overdue, NEW e \in FrozenEvents
               PROVE  /\ evidence[e].stage # "turned away"
                      /\ stopper = "returned" => Settled(e)
    BY DEF StopLosesNothing
  <2>1. evidence[e].stage # "turned away" /\ evidence[e].stage \in Stages /\ EventPlaced(e)
    BY DEF PathInv, NoneTurnedAway, PathTypes, Entry
  <2>2. ASSUME stopper = "returned"
        PROVE  Settled(e)
    <3>1. selecting.state = "ended" /\ encoder.state = "ended" /\ saver.state = "ended"
          /\ jobs = <<>> /\ saves = <<>>
      BY <2>2 DEF PathInv, EndInOrder
    <3>2. FramesLeft(e) = 0
      <4>1. Positions(jobs, e) = {}
        BY <3>1 DEF Positions
      <4>2. Cardinality(Positions(jobs, e)) = 0
        BY <4>1, FS_EmptySet
      <4> QED BY <3>1, <4>2 DEF FramesLeft, Encoding
    <3>3. ~SavesHold(e) /\ ~Saving(e)
      BY <3>1 DEF SavesHold, Saving
    <3>4. evidence[e].stage \notin {"submitting", "complete", "queued"}
      BY <2>1, <3>1, <3>3 DEF EventPlaced
    <3>5. evidence[e].stage # "encoding"
      <4>1. evidence[e].stage = "encoding" => evidence[e].remaining >= 1
            /\ FramesLeft(e) = evidence[e].remaining
        BY <2>1 DEF EventPlaced
      <4> QED BY <3>2, <4>1
    <3> QED BY <2>1, <3>4, <3>5 DEF Settled, Stages
  <2> QED BY <2>1, <2>2
<1> QED BY <1>1, PathInvInit, PathInvNext, PTL DEF KeyFramesSpec

-----------------------------------------------------------------------------
(* What an event is committed with *)

\* A set of naturals has its least.
LEMMA LeastNatural ==
    ASSUME NEW S, S \subseteq Nat, S # {}
    PROVE  \E m \in S : \A n \in S : m <= n
<1> DEFINE less == {pair \in Nat \X Nat : pair[1] < pair[2]}
<1>1. IsWellFoundedOn(less, Nat)
  BY NatLessThanWellFounded DEF OpToRel
<1> HIDE DEF less
<1>2. \E m \in S : \A n \in S : <<n, m>> \notin less
  BY <1>1, WFMin
<1>3. ASSUME NEW m \in S, NEW n \in S, <<n, m>> \notin less
      PROVE  m <= n
  <2>1. m \in Nat /\ n \in Nat /\ <<n, m>> \in Nat \X Nat
    OBVIOUS
  <2>2. ~(n < m)
    BY <1>3, <2>1 DEF less
  <2>3. QED BY <2>1, <2>2
<1>4. QED BY <1>2, <1>3

\* The frames of a window, in the order of time and camera.
WindowFrame == [camera : Int, time : Int]

LEMMA FramesOrdered ==
    ASSUME NEW a \in WindowFrame, NEW b \in WindowFrame
    PROVE  /\ ~(Precedes(a, b) /\ Precedes(b, a))
           /\ a = b \/ Precedes(a, b) \/ Precedes(b, a)
           /\ Precedes(a, b) => a.time <= b.time /\ a # b
           /\ a.time < b.time => Precedes(a, b)
<1>1. /\ a.time \in Int /\ a.camera \in Int /\ b.time \in Int /\ b.camera \in Int
      /\ a.time = b.time /\ a.camera = b.camera => a = b
  BY DEF WindowFrame
<1> QED BY <1>1 DEF Precedes

\* The only frame of a set that precedes all others, or that all others precede.
LEMMA EarliestIsOne ==
    ASSUME NEW S \in SUBSET WindowFrame, NEW a \in S, \A g \in S \ {a} : Precedes(a, g)
    PROVE  Earliest(S) = {a}
<1>1. a \in Earliest(S)
  BY DEF Earliest
<1>2. ASSUME NEW f \in Earliest(S), f # a
      PROVE  FALSE
  <2>1. f \in S /\ Precedes(f, a)
    BY <1>2 DEF Earliest
  <2>2. Precedes(a, f) /\ f \in WindowFrame /\ a \in WindowFrame
    BY <1>2, <2>1
  <2> QED BY <2>1, <2>2, FramesOrdered
<1> QED BY <1>1, <1>2

LEMMA LatestIsOne ==
    ASSUME NEW S \in SUBSET WindowFrame, NEW a \in S, \A g \in S \ {a} : Precedes(g, a)
    PROVE  Latest(S) = {a}
<1>1. a \in Latest(S)
  BY DEF Latest
<1>2. ASSUME NEW f \in Latest(S), f # a
      PROVE  FALSE
  <2>1. f \in S /\ Precedes(a, f)
    BY <1>2 DEF Latest
  <2>2. Precedes(f, a) /\ f \in WindowFrame /\ a \in WindowFrame
    BY <1>2, <2>1
  <2> QED BY <2>1, <2>2, FramesOrdered
<1> QED BY <1>1, <1>2

\* Of the quiet frames of one camera before a trigger there is a last one.
LEMMA LastBefore ==
    ASSUME NEW S \in SUBSET WindowFrame, S # {}, NEW t \in WindowFrame,
           \A f \in S : f.camera = t.camera /\ Precedes(f, t)
    PROVE  \E q \in S : Latest(S) = {q} /\ q.time < t.time /\ \A f \in S : f.time <= q.time
<1>1. \A f \in S : /\ f \in WindowFrame /\ f.time \in Int /\ f.camera \in Int
                   /\ f.camera = t.camera /\ f.time < t.time
  BY DEF WindowFrame, Precedes
<1>2. t.time \in Int
  BY DEF WindowFrame
<1> DEFINE ages == {t.time - f.time : f \in S}
<1>3. ages \subseteq Nat /\ ages # {}
  BY <1>1, <1>2
<1>4. PICK least \in ages : \A age \in ages : least <= age
  <2> HIDE DEF ages
  <2> QED BY <1>3, LeastNatural
<1>5. PICK q \in S : least = t.time - q.time
  BY <1>4
<1>6. \A f \in S : f.time <= q.time
  <2> SUFFICES ASSUME NEW f \in S PROVE f.time <= q.time
    OBVIOUS
  <2>1. t.time - q.time <= t.time - f.time
    BY <1>4, <1>5
  <2> QED BY <1>1, <1>2, <2>1
<1>7. \A f \in S \ {q} : Precedes(f, q)
  <2> SUFFICES ASSUME NEW f \in S \ {q} PROVE Precedes(f, q)
    OBVIOUS
  <2>1. f.time <= q.time /\ f.camera = q.camera /\ f \in WindowFrame /\ q \in WindowFrame
    BY <1>1, <1>6
  <2>2. f.time # q.time
    BY <2>1 DEF WindowFrame
  <2>3. f.time < q.time
    BY <1>1, <2>1, <2>2
  <2> QED BY <2>3 DEF Precedes
<1>8. Latest(S) = {q}
  BY <1>7, LatestIsOne
<1> QED BY <1>1, <1>6, <1>8

\* A frame has the place in time that the number of frames before it says, if
\* no other frame has as many.
LEMMA PlaceInTime ==
    ASSUME NEW R, IsFiniteSet(R), NEW f \in R, NEW i \in 1..Cardinality(R),
           Cardinality(Before(f, R)) = i - 1,
           \A g \in R \ {f} : Cardinality(Before(g, R)) # i - 1
    PROVE  InTime(R)[i] = f
<1>1. InTime(R)[i] = CHOOSE g \in R : Cardinality(Before(g, R)) = i - 1
  BY DEF InTime
<1> QED BY <1>1

LEMMA FirstAreSelected ==
    ASSUME NEW w \in Windows, NEW i \in Nat, 1 <= i, i <= KeyFrameCount,
           IsFiniteSet(Reasoned(w)), i <= Cardinality(Reasoned(w))
    PROVE  i \in DOMAIN Selection(w) /\ Selection(w)[i] = InTime(Reasoned(w))[i]
<1>2. PICK k \in Nat : k = Cardinality(Reasoned(w))
  BY FS_CardinalityType
<1>3. PICK s : s = InTime(Reasoned(w))
  OBVIOUS
<1>4. PICK V : \A j \in 1..k : s[j] \in V
  <2>1. \A j \in 1..k : s[j] \in {s[l] : l \in 1..k}
    OBVIOUS
  <2> QED BY <2>1
<1>5. s \in Seq(V) /\ Len(s) = k
  BY <1>2, <1>3, <1>4 DEF InTime
<1>6. PICK n \in Nat : n = (IF k < KeyFrameCount THEN k ELSE KeyFrameCount)
  BY <1>2, KeyFramesAssumption
<1>7. Selection(w) = SubSeq(s, 1, n)
  BY <1>3, <1>5, <1>6 DEF Selection, FirstOf
<1>8. n <= k /\ i <= n
  BY <1>2, <1>6, KeyFramesAssumption
<1>9. DOMAIN SubSeq(s, 1, n) = 1..n /\ SubSeq(s, 1, n)[i] = s[i]
  BY <1>5, <1>8
<1> QED BY <1>3, <1>7, <1>8, <1>9

\* The frames that are encoded for a window.
Chosen(w) == {Selection(w)[i] : i \in DOMAIN Selection(w)}

\* What the selection is made of when the first trigger has its frame: the last
\* quiet frame before it if there is one, the frame, and later frames.
LEMMA ReasonedAroundTrigger ==
    ASSUME NEW w \in Windows, NEW t \in CandidateTrigger(w),
           NEW Q, Q = {f \in w.frames \ w.triggers : f.camera = t.camera /\ Precedes(f, t)}
    PROVE  /\ t \in WindowFrame /\ w.frames \subseteq WindowFrame
           /\ NormalReference(w) = Latest(Q)
           /\ Reasoned(w) = Latest(Q) \cup {t} \cup PostEvent(w)
           /\ \A p \in PostEvent(w) : p \in WindowFrame /\ Precedes(t, p)
<1>1. w.frames \subseteq WindowFrame /\ w.triggers \subseteq WindowFrame
  BY KeyFramesAssumption DEF WindowFrame
<1>2. t \in w.frames \cap w.triggers /\ \A g \in w.triggers \ {t} : Precedes(t, g)
  BY DEF CandidateTrigger, Earliest
<1>3. Abnormal(w) = {t}
  BY <1>1, <1>2, EarliestIsOne DEF Abnormal
<1>4. CandidateTrigger(w) = {t}
  <2>1. Earliest(w.triggers) = {t}
    BY <1>1, <1>2, EarliestIsOne
  <2> QED BY <1>2, <2>1 DEF CandidateTrigger
<1>5. HighestScore(w) = {t}
  BY <1>3 DEF HighestScore
<1>6. NormalReference(w) = Latest(Q)
  BY <1>3 DEF NormalReference
<1>7. ASSUME NEW p \in PostEvent(w)
      PROVE  p \in WindowFrame /\ Precedes(t, p)
  <2>1. PICK l \in Latest(w.triggers) : p \in w.frames /\ p.time > l.time
    BY DEF PostEvent, Earliest
  <2>2. l \in w.triggers
    BY DEF Latest
  <2>3. l \in WindowFrame /\ p \in WindowFrame /\ t \in WindowFrame
    BY <1>1, <1>2, <2>1, <2>2
  <2>4. t.time <= l.time
    <3>1. l = t \/ Precedes(t, l)
      BY <1>2, <2>2
    <3> QED BY <2>3, <3>1, FramesOrdered DEF WindowFrame
  <2>5. t.time < p.time
    BY <2>1, <2>3, <2>4 DEF WindowFrame
  <2> QED BY <2>3, <2>5, FramesOrdered
<1>8. Reasoned(w) = Latest(Q) \cup {t} \cup PostEvent(w)
  BY <1>3, <1>4, <1>5, <1>6 DEF Reasoned
<1> QED BY <1>1, <1>2, <1>6, <1>7, <1>8

\* KeyFrameSelector::select: of two or more key frames one is the frame of the
\* first trigger and one the last quiet frame before it, if the window has them.
LEMMA OnsetIsChosen ==
    ASSUME NEW w \in Windows, KeyFrameCount >= 2, NEW t \in CandidateTrigger(w)
    PROVE  /\ t \in Chosen(w)
           /\ \A f \in w.frames \ w.triggers :
                f.camera = t.camera /\ f.time < t.time =>
                  \E g \in Chosen(w) : g.camera = t.camera /\ g.time < t.time /\ g.time >= f.time
<1>1. PICK Q : Q = {f \in w.frames \ w.triggers : f.camera = t.camera /\ Precedes(f, t)}
  OBVIOUS
<1>2. PICK R : R = Reasoned(w)
  OBVIOUS
<1>3. /\ t \in WindowFrame /\ w.frames \subseteq WindowFrame
      /\ R = Latest(Q) \cup {t} \cup PostEvent(w)
      /\ \A p \in PostEvent(w) : p \in WindowFrame /\ Precedes(t, p)
  BY <1>1, <1>2, ReasonedAroundTrigger
<1>4. Q \in SUBSET WindowFrame
  BY <1>1, <1>3
<1>5. IsFiniteSet(R)
  <2>1. Reasoned(w) \subseteq w.frames
    BY DEF Reasoned, NormalReference, Abnormal, CandidateTrigger, HighestScore, PostEvent,
           Earliest, Latest
  <2> QED BY <1>2, <2>1, KeyFramesAssumption, FS_Subset
<1>6. PICK n \in Nat : n = Cardinality(R)
  BY <1>5, FS_CardinalityType
<1>7. \A f : IsFiniteSet(Before(f, R))
  <2>1. \A f : Before(f, R) \subseteq R
    BY DEF Before
  <2> QED BY <1>5, <2>1, FS_Subset
<1>8. ASSUME NEW f \in R, NEW i \in 1..n, i <= 2, Cardinality(Before(f, R)) = i - 1,
             \A g \in R \ {f} : Cardinality(Before(g, R)) # i - 1
      PROVE  f \in Chosen(w)
  <2>1. InTime(R)[i] = f
    BY <1>5, <1>6, <1>8, PlaceInTime
  <2>2. i \in Nat /\ 1 <= i /\ i <= KeyFrameCount /\ i <= Cardinality(R)
    BY <1>6, <1>8, KeyFramesAssumption
  <2>3. i \in DOMAIN Selection(w) /\ Selection(w)[i] = InTime(R)[i]
    BY <1>2, <1>5, <2>2, FirstAreSelected
  <2> QED BY <2>1, <2>3 DEF Chosen
<1>9. CASE Q = {}
  <2>1. R = {t} \cup PostEvent(w)
    BY <1>3, <1>9 DEF Latest
  <2>2. Before(t, R) = {}
    <3>1. ~Precedes(t, t)
      BY <1>3, FramesOrdered
    <3>2. \A p \in PostEvent(w) : ~Precedes(p, t)
      BY <1>3, FramesOrdered
    <3> QED BY <2>1, <3>1, <3>2 DEF Before
  <2>3. Cardinality(Before(t, R)) = 0
    BY <2>2, FS_EmptySet
  <2>4. ASSUME NEW g \in R \ {t}
        PROVE  Cardinality(Before(g, R)) # 0
    <3>1. t \in Before(g, R)
      BY <1>3, <2>1 DEF Before
    <3> QED BY <1>7, <3>1, FS_EmptySet
  <2>5. n # 0
    BY <1>5, <1>6, <2>1, FS_EmptySet
  <2>6. t \in Chosen(w)
    <3>1. 1 \in 1..n /\ 1 <= 2 /\ 1 - 1 = 0 /\ t \in R
      BY <1>6, <2>1, <2>5
    <3> QED BY <1>8, <2>3, <2>4, <3>1
  <2>7. \A f \in w.frames \ w.triggers : ~(f.camera = t.camera /\ f.time < t.time)
    BY <1>1, <1>9 DEF Precedes
  <2> QED BY <2>6, <2>7
<1>10. CASE Q # {}
  <2>1. PICK q \in Q : Latest(Q) = {q} /\ q.time < t.time /\ \A f \in Q : f.time <= q.time
    BY <1>1, <1>3, <1>4, <1>10, LastBefore
  <2>2. R = {q, t} \cup PostEvent(w) /\ Precedes(q, t) /\ q.camera = t.camera /\ q \in WindowFrame
    BY <1>1, <1>3, <1>4, <2>1
  <2>3. q # t /\ ~Precedes(t, q) /\ ~Precedes(t, t) /\ ~Precedes(q, q)
    BY <1>3, <2>2, FramesOrdered
  <2>4. \A p \in PostEvent(w) : /\ p \in WindowFrame /\ Precedes(t, p) /\ ~Precedes(p, t)
                                /\ Precedes(q, p) /\ ~Precedes(p, q) /\ p # t /\ p # q
    <3> SUFFICES ASSUME NEW p \in PostEvent(w)
                 PROVE  /\ p \in WindowFrame /\ Precedes(t, p) /\ ~Precedes(p, t)
                        /\ Precedes(q, p) /\ ~Precedes(p, q) /\ p # t /\ p # q
      OBVIOUS
    <3>1. p \in WindowFrame /\ Precedes(t, p) /\ ~Precedes(p, t) /\ p # t /\ t.time <= p.time
      BY <1>3, FramesOrdered
    <3>2. q.time < p.time
      BY <1>3, <2>1, <2>2, <3>1 DEF WindowFrame
    <3>3. Precedes(q, p)
      BY <2>2, <3>1, <3>2, FramesOrdered
    <3> QED BY <2>2, <3>1, <3>3, FramesOrdered
  <2>5. Before(q, R) = {} /\ Before(t, R) = {q}
    BY <2>2, <2>3, <2>4 DEF Before
  <2>6. Cardinality(Before(q, R)) = 0 /\ Cardinality(Before(t, R)) = 1
    BY <2>5, FS_EmptySet, FS_Singleton
  <2>7. ASSUME NEW p \in PostEvent(w)
        PROVE  Cardinality(Before(p, R)) \notin {0, 1}
    <3>1. q \in Before(p, R) /\ t \in Before(p, R)
      BY <2>2, <2>4 DEF Before
    <3>2. Cardinality(Before(p, R)) # 0
      BY <1>7, <3>1, FS_EmptySet
    <3>3. Cardinality(Before(p, R)) # 1
      <4>1. \A x : Before(p, R) # {x}
        BY <2>3, <3>1
      <4> QED BY <1>7, <4>1, FS_Singleton
    <3> QED BY <3>2, <3>3
  <2>8. n >= 2
    <3>1. {q, t} \subseteq R /\ Cardinality({q, t}) = 2
      <4>1. Cardinality({q} \cup {t}) = Cardinality({q}) + 1
        BY <2>3, FS_Singleton, FS_AddElement
      <4>2. Cardinality({q}) = 1 /\ {q} \cup {t} = {q, t}
        BY FS_Singleton
      <4> QED BY <2>2, <4>1, <4>2
    <3> QED BY <1>5, <1>6, <3>1, FS_Subset
  <2>9. q \in Chosen(w)
    <3>1. \A g \in R \ {q} : Cardinality(Before(g, R)) # 0
      BY <2>2, <2>6, <2>7
    <3> QED BY <1>6, <1>8, <2>2, <2>6, <2>8, <3>1
  <2>10. t \in Chosen(w)
    <3>1. \A g \in R \ {t} : g = q \/ g \in PostEvent(w)
      BY <2>2
    <3>2. ASSUME NEW g \in R \ {t}
          PROVE  Cardinality(Before(g, R)) # 1
      <4>1. CASE g = q
        BY <2>6, <4>1
      <4>2. CASE g \in PostEvent(w)
        BY <2>7, <4>2
      <4> QED BY <3>1, <4>1, <4>2
    <3> QED BY <1>6, <1>8, <2>2, <2>6, <2>8, <3>2
  <2>11. ASSUME NEW f \in w.frames \ w.triggers, f.camera = t.camera, f.time < t.time
         PROVE  \E g \in Chosen(w) : g.camera = t.camera /\ g.time < t.time /\ g.time >= f.time
    <3>1. f \in Q
      BY <1>1, <2>11 DEF Precedes
    <3>2. f.time <= q.time /\ f.time \in Int /\ q.time \in Int
      BY <1>4, <2>1, <3>1 DEF WindowFrame
    <3> QED BY <2>1, <2>2, <2>9, <3>2
  <2> QED BY <2>10, <2>11
<1> QED BY <1>9, <1>10

-----------------------------------------------------------------------------
(* What was chosen is encoded, or still on its way *)

InHand(e, f) == encoder.state = "encoding" /\ encoder.event = e /\ f \in encoder.frame

Awaits(e, f) == \E i \in 1..Len(jobs) : jobs[i].event = e /\ jobs[i].frame = f

FramesKept(e) ==
    /\ evidence[e].stage = "encoding" =>
         /\ evidence[e].window \in Windows
         /\ ~evidence[e].failed =>
              \A f \in Chosen(evidence[e].window) :
                f \in evidence[e].encoded \/ InHand(e, f) \/ Awaits(e, f)
    /\ evidence[e].stage \in {"complete", "queued", "committed"} =>
         evidence[e].window \in Windows /\ Chosen(evidence[e].window) \subseteq evidence[e].encoded

KeptInv == PathInv /\ \A e \in FrozenEvents : FramesKept(e)

LEMMA KeptInvInit == KeyFramesInit => KeptInv
<1> SUFFICES ASSUME KeyFramesInit PROVE KeptInv
  OBVIOUS
<1>1. ASSUME NEW e \in FrozenEvents
      PROVE  FramesKept(e)
  <2>1. evidence[e].stage = "none"
    BY DEF KeyFramesInit, NotFrozen
  <2> QED BY <2>1 DEF FramesKept
<1> QED BY <1>1, PathInvInit DEF KeptInv

LEMMA FramesStay ==
    ASSUME NEW e \in FrozenEvents, FramesKept(e), evidence'[e] = evidence[e],
           \A f : InHand(e, f) \/ Awaits(e, f) => InHand(e, f)' \/ Awaits(e, f)'
    PROVE  FramesKept(e)'
BY DEF FramesKept

\* Only the stage of an event moves.
LEMMA FramesMove ==
    ASSUME PathInv, NEW e \in FrozenEvents, NEW stage \in Stages, MoveTo(e, stage)
    PROVE  /\ evidence'[e].stage = stage /\ evidence'[e].window = evidence[e].window
           /\ evidence'[e].encoded = evidence[e].encoded
           /\ \A f \in FrozenEvents \ {e} : evidence'[f] = evidence[f]
<1> DEFINE v == [evidence[e] EXCEPT !.stage = stage]
<1>1. Table /\ Entry(evidence[e])
  BY DEF PathInv, PathTypes, Table
<1>2. /\ Entry(v) /\ v.stage = stage /\ v.window = evidence[e].window
      /\ v.encoded = evidence[e].encoded
  BY <1>1 DEF Entry
<1>3. evidence' = [evidence EXCEPT ![e] = v]
  BY <1>1 DEF MoveTo, Table
<1> HIDE DEF v
<1> QED BY <1>1, <1>2, <1>3, EntryChanges

LEMMA SubmissionMoves ==
    ASSUME PathInv, NEW e \in FrozenEvents, SubmitPersistence(e)
    PROVE  /\ evidence'[e].stage \in {"incomplete", "queued", "turned away"}
           /\ evidence'[e].window = evidence[e].window
           /\ evidence'[e].encoded = evidence[e].encoded
           /\ \A f \in FrozenEvents \ {e} : evidence'[f] = evidence[f]
<1>1. PICK stage \in {"incomplete", "queued", "turned away"} : MoveTo(e, stage)
  BY DEF SubmitPersistence
<1>2. stage \in Stages
  BY DEF Stages
<1> QED BY <1>1, <1>2, FramesMove

LEMMA SelectKeepsFrames ==
    ASSUME KeptInv, NEW e \in FrozenEvents, NEW w \in Windows, SelectKeyFrames(e, w)
    PROVE  \A f \in FrozenEvents : FramesKept(f)'
<1>t. /\ PathInv /\ Table /\ UNCHANGED <<jobs, encoder>> /\ \A f \in FrozenEvents : FramesKept(f)
  BY DEF KeptInv, PathInv, PathTypes, Table, SelectKeyFrames
<1>1. /\ evidence'[e].stage \in {"submitting", "incomplete"}
      /\ \A f \in FrozenEvents \ {e} : evidence'[f] = evidence[f]
  <2>1. CASE MoveTo(e, "incomplete")
    <3>1. "incomplete" \in Stages
      BY DEF Stages
    <3> QED BY <1>t, <2>1, <3>1, FramesMove
  <2>2. CASE evidence' = [evidence EXCEPT
                            ![e] = [NotFrozen EXCEPT !.stage = "submitting", !.window = w,
                                                     !.remaining = Len(Selection(w))]]
    <3>1. PICK k : k = Len(Selection(w))
      OBVIOUS
    <3>2. PICK v : v = [NotFrozen EXCEPT !.stage = "submitting", !.window = w, !.remaining = k]
      OBVIOUS
    <3>3. v.stage = "submitting"
      BY <3>2 DEF NotFrozen
    <3>4. evidence' = [evidence EXCEPT ![e] = v]
      BY <2>2, <3>1, <3>2
    <3> QED BY <1>t, <3>3, <3>4 DEF Table
  <2> QED BY <2>1, <2>2 DEF SelectKeyFrames
<1>2. FramesKept(e)'
  BY <1>1 DEF FramesKept
<1>3. \A f, g : (InHand(f, g)' <=> InHand(f, g)) /\ (Awaits(f, g)' <=> Awaits(f, g))
  BY <1>t DEF InHand, Awaits
<1>4. ASSUME NEW f \in FrozenEvents \ {e}
      PROVE  FramesKept(f)'
  BY <1>t, <1>1, <1>3, FramesStay
<1> QED BY <1>2, <1>4

LEMMA SubmitFramesKeepsFrames ==
    ASSUME KeptInv, SubmitFrames
    PROVE  \A f \in FrozenEvents : FramesKept(f)'
<1>1. PICK e \in FrozenEvents : e = selecting.event
  BY DEF KeptInv, PathInv, PathTypes, SubmitFrames
<1>t. /\ PathInv /\ selecting.state = "submitting" /\ UNCHANGED encoder
      /\ \A f \in FrozenEvents : FramesKept(f) /\ EventPlaced(f)
  BY DEF KeptInv, PathInv, SubmitFrames
<1>p. evidence[e].window \in Windows /\ FramesLeft(e) = 0
  BY <1>1, <1>t DEF EventPlaced
<1> DEFINE frames == Selection(evidence[e].window)
<1>c. PICK n \in Nat : DOMAIN frames = 1..n /\ (n = 0 <=> frames = <<>>)
  BY <1>p, SelectionIsSequence
<1>s. "encoding" \in Stages /\ "incomplete" \in Stages /\ "turned away" \in Stages
  BY DEF Stages
<1>2. CASE frames = <<>> /\ SubmitPersistence(e) /\ UNCHANGED jobs
  <2>1. Chosen(evidence[e].window) = {}
    BY <1>2, <1>c DEF Chosen
  <2>2. /\ evidence'[e].stage \in {"incomplete", "queued", "turned away"}
        /\ evidence'[e].window = evidence[e].window
        /\ \A f \in FrozenEvents \ {e} : evidence'[f] = evidence[f]
    BY <1>2, <1>t, SubmissionMoves
  <2>3. FramesKept(e)'
    BY <1>p, <2>1, <2>2 DEF FramesKept
  <2>4. \A f, g : (InHand(f, g)' <=> InHand(f, g)) /\ (Awaits(f, g)' <=> Awaits(f, g))
    BY <1>2, <1>t DEF InHand, Awaits
  <2>5. ASSUME NEW f \in FrozenEvents \ {e}
        PROVE  FramesKept(f)'
    BY <1>t, <2>2, <2>4, FramesStay
  <2> QED BY <2>3, <2>5
<1>3. CASE /\ MoveTo(e, "encoding")
           /\ jobs' = jobs \o [i \in DOMAIN frames |-> [event |-> e, frame |-> frames[i]]]
  <2>1. /\ evidence'[e].stage = "encoding" /\ evidence'[e].window = evidence[e].window
        /\ \A f \in FrozenEvents \ {e} : evidence'[f] = evidence[f]
    BY <1>3, <1>t, <1>s, FramesMove
  <2>2. PICK F : jobs \in Seq(JobsWith(F))
    BY <1>t DEF PathInv, PathTypes
  <2>3. PICK t : t = [i \in 1..n |-> [event |-> e, frame |-> frames[i]]]
    OBVIOUS
  <2>4. jobs' = jobs \o t
    BY <1>3, <1>c, <2>3
  <2>5. \A i \in 1..n : t[i].event = e /\ t[i].frame = frames[i]
    BY <2>3
  <2> HIDE DEF frames
  <2>6. /\ Len(jobs) \in Nat /\ Len(jobs') = Len(jobs) + n
        /\ \A i \in 1..Len(jobs) : jobs'[i] = jobs[i]
        /\ \A i \in 1..n : jobs'[Len(jobs) + i] = t[i]
    <3> DEFINE V == JobsWith(F) \cup {t[i] : i \in 1..n}
    <3>1. jobs \in Seq(V) /\ t \in Seq(V) /\ Len(t) = n
      <4>1. JobsWith(F) \subseteq V /\ \A i \in 1..n : t[i] \in V
        OBVIOUS
      <4> HIDE DEF V
      <4> QED BY <2>2, <2>3, <4>1
    <3> HIDE DEF V
    <3>2. PICK k \in Nat : k = Len(jobs)
      BY <3>1
    <3>3. /\ Len(jobs \o t) = k + n
          /\ \A i \in 1..k : (jobs \o t)[i] = jobs[i]
          /\ \A i \in k + 1..k + n : (jobs \o t)[i] = t[i - k]
      BY <3>1, <3>2
    <3>4. \A i \in 1..n : k + i \in k + 1..k + n /\ (k + i) - k = i
      BY <3>2
    <3> QED BY <2>4, <3>2, <3>3, <3>4
  <2>7. ASSUME NEW f \in Chosen(evidence[e].window)
        PROVE  Awaits(e, f)'
    <3>1. PICK i \in 1..n : f = frames[i]
      BY <1>c DEF Chosen, frames
    <3>2. Len(jobs) + i \in 1..Len(jobs')
      BY <2>6, <3>1
    <3>3. jobs'[Len(jobs) + i].event = e /\ jobs'[Len(jobs) + i].frame = f
      BY <2>5, <2>6, <3>1
    <3> QED BY <3>2, <3>3 DEF Awaits
  <2>8. FramesKept(e)'
    BY <1>p, <2>1, <2>7 DEF FramesKept
  <2>9. ASSUME NEW f, NEW g, InHand(f, g) \/ Awaits(f, g)
        PROVE  InHand(f, g)' \/ Awaits(f, g)'
    <3>1. CASE InHand(f, g)
      BY <1>t, <3>1 DEF InHand
    <3>2. CASE Awaits(f, g)
      <4>1. PICK i \in 1..Len(jobs) : jobs[i].event = f /\ jobs[i].frame = g
        BY <3>2 DEF Awaits
      <4>2. i \in 1..Len(jobs') /\ jobs'[i] = jobs[i]
        BY <2>6, <4>1
      <4> QED BY <4>1, <4>2 DEF Awaits
    <3> QED BY <2>9, <3>1, <3>2
  <2>10. ASSUME NEW f \in FrozenEvents \ {e}
         PROVE  FramesKept(f)'
    BY <1>t, <2>1, <2>9, FramesStay
  <2> QED BY <2>8, <2>10
<1>4. CASE (MoveTo(e, "incomplete") \/ MoveTo(e, "turned away")) /\ UNCHANGED jobs
  <2>1. /\ evidence'[e].stage \in {"incomplete", "turned away"}
        /\ \A f \in FrozenEvents \ {e} : evidence'[f] = evidence[f]
    BY <1>4, <1>t, <1>s, FramesMove
  <2>2. FramesKept(e)'
    BY <2>1 DEF FramesKept
  <2>3. \A f, g : (InHand(f, g)' <=> InHand(f, g)) /\ (Awaits(f, g)' <=> Awaits(f, g))
    BY <1>4, <1>t DEF InHand, Awaits
  <2>4. ASSUME NEW f \in FrozenEvents \ {e}
        PROVE  FramesKept(f)'
    BY <1>t, <2>1, <2>3, FramesStay
  <2> QED BY <2>2, <2>4
<1> QED BY <1>1, <1>2, <1>3, <1>4 DEF SubmitFrames

LEMMA TakeFrameKeepsFrames ==
    ASSUME KeptInv, TakeFrame
    PROVE  \A f \in FrozenEvents : FramesKept(f)'
<1>t. /\ encoder.state = "idle" /\ jobs # <<>> /\ jobs' = Tail(jobs) /\ UNCHANGED evidence
      /\ \A f \in FrozenEvents : FramesKept(f)
  BY DEF KeptInv, TakeFrame
<1>1. PICK F : jobs \in Seq(JobsWith(F))
  BY DEF KeptInv, PathInv, PathTypes
<1>2. PICK h : h = Head(jobs)
  OBVIOUS
<1>3. /\ Len(jobs) \in Nat \ {0} /\ h = jobs[1] /\ Len(jobs') = Len(jobs) - 1
      /\ \A i \in 1..Len(jobs) - 1 : jobs'[i] = jobs[i + 1]
  BY <1>t, <1>1, <1>2
<1>4. encoder' = [state |-> "encoding", event |-> h.event, frame |-> {h.frame}]
  BY <1>2 DEF TakeFrame
<1>5. ASSUME NEW f, NEW g, InHand(f, g) \/ Awaits(f, g)
      PROVE  InHand(f, g)' \/ Awaits(f, g)'
  <2>1. PICK i \in 1..Len(jobs) : jobs[i].event = f /\ jobs[i].frame = g
    BY <1>t, <1>5 DEF InHand, Awaits
  <2>2. CASE i = 1
    <3>1. encoder'.state = "encoding" /\ encoder'.event = f /\ encoder'.frame = {g}
      BY <1>3, <1>4, <2>1, <2>2
    <3> QED BY <3>1 DEF InHand
  <2>3. CASE i # 1
    <3>1. i - 1 \in 1..Len(jobs') /\ jobs'[i - 1] = jobs[i]
      BY <1>3, <2>1, <2>3
    <3> QED BY <2>1, <3>1 DEF Awaits
  <2> QED BY <2>2, <2>3
<1> QED BY <1>t, <1>5, FramesStay

LEMMA JpegCompletedKeepsFrames ==
    ASSUME KeptInv, NEW ok \in BOOLEAN, JpegCompleted(ok)
    PROVE  \A f \in FrozenEvents : FramesKept(f)'
<1>1. PICK e \in FrozenEvents : e = encoder.event
  BY DEF KeptInv, PathInv, PathTypes, JpegCompleted
<1>t. /\ PathInv /\ Table /\ encoder.state = "encoding" /\ UNCHANGED jobs
      /\ \A f \in FrozenEvents : FramesKept(f) /\ EventPlaced(f)
  BY DEF KeptInv, PathInv, PathTypes, Table, JpegCompleted
<1>2. PICK F : jobs \in Seq(JobsWith(F))
  BY <1>t DEF PathInv, PathTypes
<1>3. PICK rest \in Nat : rest = Cardinality(Positions(jobs, e))
  BY <1>2, PositionsFinite
<1>4. FramesLeft(e) = rest + 1
  BY <1>1, <1>t, <1>3 DEF FramesLeft, Encoding
<1>5. evidence[e].stage = "encoding" /\ evidence[e].remaining = rest + 1
  BY <1>t, <1>3, <1>4 DEF EventPlaced
<1>6. PICK failed : failed = FailedSoFar(e, ok)
  OBVIOUS
<1>7. PICK shown : shown = IF ok THEN encoder.frame ELSE {}
  OBVIOUS
<1>8. PICK stage : stage = IF rest > 0 THEN evidence[e].stage ELSE IF failed THEN "incomplete" ELSE "complete"
  OBVIOUS
<1>9. PICK v : v = [evidence[e] EXCEPT !.encoded = evidence[e].encoded \cup shown, !.remaining = rest,
                                       !.failed = failed, !.stage = stage]
  OBVIOUS
<1>10. /\ v.stage = stage /\ v.window = evidence[e].window
       /\ v.encoded = evidence[e].encoded \cup shown /\ v.failed = failed
  <2>1. PICK old : old = evidence[e]
    OBVIOUS
  <2>2. old = [stage |-> old.stage, window |-> old.window, encoded |-> old.encoded,
               remaining |-> old.remaining, failed |-> old.failed]
    BY <1>t, <2>1 DEF Table, Entry
  <2>3. v = [old EXCEPT !.encoded = old.encoded \cup shown, !.remaining = rest,
                        !.failed = failed, !.stage = stage]
    BY <1>9, <2>1
  <2>4. v.stage = stage /\ v.window = old.window /\ v.encoded = old.encoded \cup shown
    BY <2>2, <2>3
  <2>5. v.failed = failed
    BY <2>2, <2>3
  <2> QED BY <2>1, <2>4, <2>5
<1>11. evidence' = [evidence EXCEPT ![e] = v]
  <2>1. evidence[e].remaining - 1 = rest
    BY <1>3, <1>5
  <2> QED BY <1>1, <1>t, <1>6, <1>7, <1>8, <1>9, <2>1 DEF JpegCompleted, Table
<1>12. evidence'[e] = v /\ \A f \in FrozenEvents \ {e} : evidence'[f] = evidence[f]
  BY <1>t, <1>11 DEF Table
<1>13. \A f, g : Awaits(f, g)' <=> Awaits(f, g)
  BY <1>t DEF Awaits
<1>14. FramesKept(e)'
  <2>1. CASE failed
    <3>1. evidence'[e].stage \in {"encoding", "incomplete"} /\ evidence'[e].failed
          /\ evidence'[e].window \in Windows
      BY <1>t, <1>5, <1>8, <1>10, <1>12, <2>1 DEF FramesKept
    <3> QED BY <3>1 DEF FramesKept
  <2>2. CASE ~failed
    <3>1. ok /\ ~evidence[e].failed
      BY <1>6, <2>2 DEF FailedSoFar
    <3>2. /\ evidence[e].window \in Windows
          /\ \A f \in Chosen(evidence[e].window) :
               f \in evidence[e].encoded \/ InHand(e, f) \/ Awaits(e, f)
      BY <1>t, <1>5, <3>1 DEF FramesKept
    <3>3. evidence'[e].window = evidence[e].window
          /\ evidence'[e].encoded = evidence[e].encoded \cup encoder.frame
      BY <1>7, <1>10, <1>12, <3>1
    <3>4. \A f \in Chosen(evidence[e].window) : f \in evidence'[e].encoded \/ Awaits(e, f)
      BY <3>2, <3>3 DEF InHand
    <3>5. CASE rest > 0
      <4>1. evidence'[e].stage = "encoding"
        BY <1>5, <1>8, <1>10, <1>12, <3>5
      <4> QED BY <1>13, <3>2, <3>3, <3>4, <4>1 DEF FramesKept
    <3>6. CASE rest = 0
      <4>1. evidence'[e].stage = "complete"
        BY <1>8, <1>10, <1>12, <2>2, <3>6
      <4>2. \A f : ~Awaits(e, f)
        <5>1. Positions(jobs, e) = {}
          BY <1>2, <1>3, <3>6, PositionsFinite
        <5> QED BY <5>1 DEF Positions, Awaits
      <4> QED BY <3>2, <3>3, <3>4, <4>1, <4>2 DEF FramesKept
    <3> QED BY <1>3, <3>5, <3>6
  <2> QED BY <2>1, <2>2
<1>15. ASSUME NEW f \in FrozenEvents \ {e}
       PROVE  FramesKept(f)'
  <2>1. \A g : ~InHand(f, g)
    BY <1>1 DEF InHand
  <2> QED BY <1>t, <1>12, <1>13, <2>1, FramesStay
<1> QED BY <1>14, <1>15

LEMMA SubmitCompleteKeepsFrames ==
    ASSUME KeptInv, SubmitComplete
    PROVE  \A f \in FrozenEvents : FramesKept(f)'
<1>1. PICK e \in FrozenEvents : e = encoder.event
  BY DEF KeptInv, PathInv, PathTypes, SubmitComplete
<1>t. /\ PathInv /\ encoder.state = "submitting" /\ UNCHANGED jobs /\ SubmitPersistence(e)
      /\ \A f \in FrozenEvents : FramesKept(f) /\ EventPlaced(f)
  BY <1>1 DEF KeptInv, PathInv, SubmitComplete
<1>2. evidence[e].stage = "complete"
  BY <1>1, <1>t DEF EventPlaced
<1>3. /\ evidence'[e].stage \in {"incomplete", "queued", "turned away"}
      /\ evidence'[e].window = evidence[e].window /\ evidence'[e].encoded = evidence[e].encoded
      /\ \A f \in FrozenEvents \ {e} : evidence'[f] = evidence[f]
  BY <1>t, SubmissionMoves
<1>4. FramesKept(e)'
  BY <1>t, <1>2, <1>3 DEF FramesKept
<1>5. \A f, g : ~InHand(f, g) /\ (Awaits(f, g)' <=> Awaits(f, g))
  BY <1>t DEF InHand, Awaits
<1>6. ASSUME NEW f \in FrozenEvents \ {e}
      PROVE  FramesKept(f)'
  BY <1>t, <1>3, <1>5, FramesStay
<1> QED BY <1>4, <1>6

LEMMA PersistenceKeepsFrames ==
    ASSUME KeptInv, NEW stage \in {"committed", "incomplete"}, PersistenceCompleted(stage)
    PROVE  \A f \in FrozenEvents : FramesKept(f)'
<1>1. PICK e \in FrozenEvents : e = saver.event
  BY DEF KeptInv, PathInv, PathTypes, PersistenceCompleted
<1>t. /\ PathInv /\ saver.state = "writing" /\ UNCHANGED <<jobs, encoder>> /\ MoveTo(e, stage)
      /\ \A f \in FrozenEvents : FramesKept(f) /\ EventPlaced(f)
  BY <1>1 DEF KeptInv, PathInv, PersistenceCompleted
<1>2. evidence[e].stage = "queued"
  BY <1>1, <1>t DEF EventPlaced, Saving
<1>3. stage \in Stages
  BY DEF Stages
<1>4. /\ evidence'[e].stage = stage /\ evidence'[e].window = evidence[e].window
      /\ evidence'[e].encoded = evidence[e].encoded
      /\ \A f \in FrozenEvents \ {e} : evidence'[f] = evidence[f]
  BY <1>t, <1>3, FramesMove
<1>5. FramesKept(e)'
  BY <1>t, <1>2, <1>4 DEF FramesKept
<1>6. \A f, g : (InHand(f, g)' <=> InHand(f, g)) /\ (Awaits(f, g)' <=> Awaits(f, g))
  BY <1>t DEF InHand, Awaits
<1>7. ASSUME NEW f \in FrozenEvents \ {e}
      PROVE  FramesKept(f)'
  BY <1>t, <1>4, <1>6, FramesStay
<1> QED BY <1>5, <1>7

\* The steps that neither move an event nor a frame.
LEMMA OthersKeepFrames ==
    ASSUME KeptInv,
           \/ TakeSave \/ EncoderEnds \/ SaverEnds \/ RequestDrain \/ EventThreadEnds
           \/ StopEncoding \/ JoinReturns \/ UNCHANGED keyFrameVars
    PROVE  \A f \in FrozenEvents : FramesKept(f)'
<1>1. /\ UNCHANGED <<evidence, jobs>> /\ \A f \in FrozenEvents : FramesKept(f)
      /\ encoder' = encoder \/ encoder.state = "idle"
  BY DEF KeptInv, TakeSave, EncoderEnds, SaverEnds, RequestDrain, EventThreadEnds, StopEncoding,
     JoinReturns, keyFrameVars
<1>2. \A f, g : (InHand(f, g) => InHand(f, g)') /\ (Awaits(f, g)' <=> Awaits(f, g))
  BY <1>1 DEF InHand, Awaits
<1> QED BY <1>1, <1>2, FramesStay

LEMMA KeptInvNext == KeptInv /\ [KeyFramesNext]_keyFrameVars => KeptInv'
<1> SUFFICES ASSUME KeptInv, [KeyFramesNext]_keyFrameVars
             PROVE  KeptInv'
  OBVIOUS
<1>p. PathInv'
  BY PathInvNext DEF KeptInv
<1>1. \A f \in FrozenEvents : FramesKept(f)'
  <2>1. ASSUME NEW e \in FrozenEvents, NEW w \in Windows, SelectKeyFrames(e, w)
        PROVE  \A f \in FrozenEvents : FramesKept(f)'
    BY <2>1, SelectKeepsFrames
  <2>2. CASE SubmitFrames
    BY <2>2, SubmitFramesKeepsFrames
  <2>3. CASE TakeFrame
    BY <2>3, TakeFrameKeepsFrames
  <2>4. ASSUME NEW ok \in BOOLEAN, JpegCompleted(ok)
        PROVE  \A f \in FrozenEvents : FramesKept(f)'
    BY <2>4, JpegCompletedKeepsFrames
  <2>5. CASE SubmitComplete
    BY <2>5, SubmitCompleteKeepsFrames
  <2>6. ASSUME NEW stage \in {"committed", "incomplete"}, PersistenceCompleted(stage)
        PROVE  \A f \in FrozenEvents : FramesKept(f)'
    BY <2>6, PersistenceKeepsFrames
  <2>7. CASE \/ TakeSave \/ EncoderEnds \/ SaverEnds \/ RequestDrain \/ EventThreadEnds
             \/ StopEncoding \/ JoinReturns \/ UNCHANGED keyFrameVars
    BY <2>7, OthersKeepFrames
  <2> QED BY <2>1, <2>2, <2>3, <2>4, <2>5, <2>6, <2>7 DEF KeyFramesNext
<1> QED BY <1>p, <1>1 DEF KeptInv

\* KeyFrameSelector::select, jpeg_completed and freeze: for every window, every
\* number of key frames from two and every failure and order of the workers, an
\* event that is committed shows its first trigger and the last quiet frame of
\* that camera before it, if its window had them.
THEOREM CommittedShowsOnsetAlways == KeyFramesSpec => []CommittedShowsOnset
<1>1. KeptInv => CommittedShowsOnset
  <2> SUFFICES ASSUME KeptInv, NEW e \in FrozenEvents, evidence[e].stage = "committed",
                      KeyFrameCount >= 2, NEW t \in CandidateTrigger(evidence[e].window)
               PROVE  /\ t \in evidence[e].encoded
                      /\ \A f \in evidence[e].window.frames \ evidence[e].window.triggers :
                           f.camera = t.camera /\ f.time < t.time =>
                             \E g \in evidence[e].encoded :
                               g.camera = t.camera /\ g.time < t.time /\ g.time >= f.time
    BY DEF CommittedShowsOnset
  <2>1. PICK w \in Windows : w = evidence[e].window /\ Chosen(w) \subseteq evidence[e].encoded
    BY DEF KeptInv, FramesKept
  <2>2. /\ t \in Chosen(w)
        /\ \A f \in w.frames \ w.triggers :
             f.camera = t.camera /\ f.time < t.time =>
               \E g \in Chosen(w) : g.camera = t.camera /\ g.time < t.time /\ g.time >= f.time
    BY <2>1, OnsetIsChosen
  <2> QED BY <2>1, <2>2
<1> QED BY <1>1, KeptInvInit, KeptInvNext, PTL DEF KeyFramesSpec

=============================================================================
