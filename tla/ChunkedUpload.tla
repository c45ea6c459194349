----------------------------- MODULE ChunkedUpload -----------------------------
(***************************************************************************)
(* One file of an event on its way to the supervising host: the chunked    *)
(* upload of the edge (upload_file and the executor around it,             *)
(* uplink/transport/src/qt_transport.cpp) against the server of the        *)
(* repository's own simulator (tools/uplink-simulator/src/workspace.cpp).  *)
(*                                                                         *)
(* The edge reads the file once: it hashes every chunk and sends the ones  *)
(* the server does not have.  Any request may be lost, its answer may be   *)
(* lost, or it may reach the server after the edge has given it up; the    *)
(* file may be altered, restored or removed at any moment; the edge may    *)
(* crash.  Every attempt starts from what the server says it has.          *)
(*                                                                         *)
(* A chunk's content is what the manifest declared or something else of    *)
(* the same length.  Requests run one at a time (http_call_mutex), so one  *)
(* file is enough; the scheduler's counting of attempts is in UploadJobs.  *)
(***************************************************************************)
EXTENDS Integers, FiniteSets

CONSTANTS ChunkCount,      \* chunks of the file
          MaximumLate,     \* given-up requests still on their way (a bound)
          MaximumChanges   \* changes of the source file (a bound)

ASSUME ChunkedAssumption ==
    /\ ChunkCount \in Nat \ {0}
    /\ {MaximumLate, MaximumChanges} \subseteq Nat

VARIABLES
    source,        \* the content of the file's chunks; its length; changes so far
    job,           \* what the scheduler knows: due, running or an end
    edge,          \* the attempt under way
    server,        \* the host's upload: its state and its chunks
    late,          \* requests that may still reach the server
    acknowledged,  \* chunks whose receipt the edge has seen (history)
    sentAgain      \* chunks sent after that (history)

chunkedVars == <<source, job, edge, server, late, acknowledged, sentAgain>>

-----------------------------------------------------------------------------
Chunks == 1 .. ChunkCount

Contents == {"declared", "other"}

\* What the simulator answers: done, refused for good, or to be tried again.
Answers == {"ok", "rejected", "retry"}

NoAttempt ==
    [at |-> "idle", next |-> 1, content |-> "none", received |-> {}, whole |-> TRUE, completed |-> FALSE]

Whole(content) == \A c \in Chunks : content[c] = "declared"

Received == {c \in Chunks : server.chunks[c] # "none"}

-----------------------------------------------------------------------------
(* The server *)

\* The same event, the same logical file and the same content are accepted once
\* more; another content for a chunk it has is refused for good.  A chunk that
\* was damaged when it was read therefore stays, and every completion after it
\* fails, although the file may be whole again.
ServerAnswer(request) ==
    CASE request.kind = "metadata" -> "ok"
      [] request.kind = "create" -> "ok"
      [] request.kind = "status" -> "ok"
      [] request.kind = "chunk" ->
            IF server.state = "Completed" \/ server.chunks[request.chunk] \in {"none", request.content}
            THEN "ok" ELSE "rejected"
      [] request.kind = "complete" ->
            IF server.state = "Completed" \/ Whole(server.chunks) THEN "ok" ELSE "retry"

ServerAfter(request) ==
    CASE request.kind = "create" /\ server.state = "none" -> [server EXCEPT !.state = "Uploading"]
      [] request.kind = "chunk" /\ server.state = "Uploading" /\ ServerAnswer(request) = "ok" ->
            [server EXCEPT !.chunks[request.chunk] = request.content]
      [] request.kind = "complete" /\ ServerAnswer(request) = "ok" ->
            [server EXCEPT !.state = "Completed"]
      [] OTHER -> server

\* A request the edge has given up reaches the server after all.
Arrive ==
    \E request \in late :
        /\ server' = ServerAfter(request)
        /\ late' = late \ {request}
        /\ UNCHANGED <<source, job, edge, acknowledged, sentAgain>>

-----------------------------------------------------------------------------
(* One request of the edge *)

\* The answer is read.
Answered(request) == server' = ServerAfter(request) /\ UNCHANGED late

\* Nothing is read: the request or its answer is lost, it is still on its way,
\* or the server is busy or full.
Unanswered(request) ==
    \/ UNCHANGED <<server, late>>
    \/ server' = ServerAfter(request) /\ UNCHANGED late
    \/ /\ Cardinality(late) < MaximumLate
       /\ late' = late \cup {request}
       /\ UNCHANGED server

Request(kind) == [kind |-> kind, chunk |-> 0, content |-> "none"]

\* The attempt is over; what it found out stays in the checkpoint, which no
\* later attempt reads.
Outcome(status) ==
    /\ job' = status
    /\ edge' = NoAttempt

\* A failure that may pass is retried until the attempts are used up.
Retryable == \E status \in {"due", "manual"} : Outcome(status)

Fails(request) ==
    /\ \/ Unanswered(request) /\ Retryable
       \/ Answered(request) /\ ServerAnswer(request) = "retry" /\ Retryable
       \/ Answered(request) /\ ServerAnswer(request) = "rejected" /\ Outcome("failed")
    /\ UNCHANGED <<source, acknowledged>>

EdgeAt(place) == job = "running" /\ edge.at = place

GoesTo(place) == edge' = [edge EXCEPT !.at = place] /\ UNCHANGED job

-----------------------------------------------------------------------------
(* An attempt *)

\* The scheduler's worker claims the job and calls the executor, which looks
\* whether the file is there with the declared length.
Claim ==
    /\ job = "due"
    /\ IF source.intact
       THEN job' = "running" /\ edge' = [NoAttempt EXCEPT !.at = "metadata"]
       ELSE Outcome("manual")
    /\ UNCHANGED <<source, server, late, acknowledged, sentAgain>>

\* The session is down: nothing is opened or read.
ClaimOffline ==
    /\ job = "due"
    /\ Retryable
    /\ UNCHANGED <<source, server, late, acknowledged, sentAgain>>

SendMetadata ==
    /\ EdgeAt("metadata")
    /\ \/ /\ Answered(Request("metadata"))
          /\ GoesTo("create")
          /\ UNCHANGED <<source, acknowledged>>
       \/ Fails(Request("metadata"))
    /\ UNCHANGED sentAgain

CreateUpload ==
    /\ EdgeAt("create")
    /\ \/ /\ Answered(Request("create"))
          /\ GoesTo("status")
          /\ UNCHANGED <<source, acknowledged>>
       \/ Fails(Request("create"))
    /\ UNCHANGED sentAgain

Resumed == Received

GetStatus ==
    /\ EdgeAt("status")
    /\ \/ /\ Answered(Request("status"))
          /\ edge' = [edge EXCEPT !.at = "reading", !.received = Resumed,
                         !.completed = server.state = "Completed"]
          /\ UNCHANGED <<source, job, acknowledged>>
       \/ Fails(Request("status"))
    /\ UNCHANGED sentAgain

\* The next chunk is read into the hash of the whole file; it is skipped when
\* the server has one of that index.  The length is compared while reading.
ReadChunk ==
    /\ EdgeAt("reading")
    /\ edge.next \in Chunks
    /\ source.intact
    /\ LET whole == edge.whole /\ source.content[edge.next] = "declared" IN
          edge' = IF edge.next \in edge.received
                  THEN [edge EXCEPT !.next = @ + 1, !.whole = whole]
                  ELSE [edge EXCEPT !.at = "sending", !.content = source.content[edge.next], !.whole = whole]
    /\ UNCHANGED <<source, job, server, late, acknowledged, sentAgain>>

\* The content that was read goes out, whatever has become of the file since.
SendChunk ==
    LET put == [kind |-> "chunk", chunk |-> edge.next, content |-> edge.content] IN
    /\ EdgeAt("sending")
    /\ \/ /\ Answered(put)
          /\ ServerAnswer(put) = "ok"
          /\ edge' = [edge EXCEPT !.at = "reading", !.content = "none",
                         !.received = @ \cup {edge.next}, !.next = @ + 1]
          /\ acknowledged' = acknowledged \cup {edge.next}
          /\ UNCHANGED <<source, job>>
       \/ Fails(put)
    /\ sentAgain' = sentAgain \cup ({edge.next} \cap acknowledged)

\* A short read, a file whose length has changed, or another hash than the
\* manifest's: the event is marked damaged and an operator has to look at it.
SourceChanged ==
    /\ EdgeAt("reading")
    /\ ~source.intact \/ (edge.next \notin Chunks /\ ~edge.whole)
    /\ Outcome("manual")
    /\ UNCHANGED <<source, server, late, acknowledged, sentAgain>>

\* Mutant of AlreadyCompleted: nothing was missing, so nothing is completed.
AlreadyReceived == edge.received = Chunks

AlreadyCompleted == edge.completed

SourceVerified ==
    /\ EdgeAt("reading")
    /\ edge.next \notin Chunks /\ edge.whole /\ source.intact
    /\ IF AlreadyCompleted THEN Outcome("completed") ELSE GoesTo("complete")
    /\ UNCHANGED <<source, server, late, acknowledged, sentAgain>>

CompleteUpload ==
    /\ EdgeAt("complete")
    /\ \/ /\ Answered(Request("complete"))
          /\ ServerAnswer(Request("complete")) = "ok"
          /\ Outcome("completed")
          /\ UNCHANGED <<source, acknowledged>>
       \/ Fails(Request("complete"))
    /\ UNCHANGED sentAgain

\* A stop between two chunks, or a crash anywhere: the job is due again.
Interrupted ==
    /\ job = "running"
    /\ Outcome("due")
    /\ UNCHANGED <<source, server, late, acknowledged, sentAgain>>

\* event.retryUpload.
Retry ==
    /\ job \in {"manual", "failed"}
    /\ Outcome("due")
    /\ UNCHANGED <<source, server, late, acknowledged, sentAgain>>

-----------------------------------------------------------------------------
(* The file *)

SourceChanges ==
    /\ source.changes < MaximumChanges
    /\ \/ \E c \in Chunks, content \in Contents :
             source' = [source EXCEPT !.content[c] = content, !.changes = @ + 1]
       \/ source' = [source EXCEPT !.intact = ~@, !.changes = @ + 1]
    /\ UNCHANGED <<job, edge, server, late, acknowledged, sentAgain>>

-----------------------------------------------------------------------------
ChunkedInit ==
    /\ source = [content |-> [c \in Chunks |-> "declared"], intact |-> TRUE, changes |-> 0]
    /\ job = "due"
    /\ edge = NoAttempt
    /\ server = [state |-> "none", chunks |-> [c \in Chunks |-> "none"]]
    /\ late = {}
    /\ acknowledged = {} /\ sentAgain = {}

ChunkedNext ==
    \/ Claim \/ ClaimOffline
    \/ SendMetadata \/ CreateUpload \/ GetStatus
    \/ ReadChunk \/ SendChunk
    \/ SourceChanged \/ SourceVerified \/ CompleteUpload
    \/ Interrupted \/ Retry
    \/ Arrive
    \/ SourceChanges

ChunkedSpec == ChunkedInit /\ [][ChunkedNext]_chunkedVars

-----------------------------------------------------------------------------
(* Properties *)

\* A job the edge counts as completed is a file the host holds, completed and
\* with the content the manifest declared, however the source changed and
\* whichever requests were lost or late (qt_transport.cpp:816-833).
CompletedIsHeld ==
    job = "completed" => server.state = "Completed" /\ Whole(server.chunks)

\* A chunk whose receipt was acknowledged is never sent again, not after a
\* failure, a crash or a retry (qt_transport.cpp:740-770).
AcknowledgedStays == sentAgain = {}

=============================================================================
