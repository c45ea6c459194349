------------------------------ MODULE IpcClient ------------------------------
(***************************************************************************)
(* IpcClient (ipc/src/client.cpp): one connection of the console to the    *)
(* service, its reconnections, its four timers and its requests.           *)
(*                                                                         *)
(* Everything runs on one thread, so what interleaves is the order of      *)
(* timers, socket signals and answers; and each handler calls back into    *)
(* the program, which may send, cancel or stop from inside the callback    *)
(* and so change the client under the handler's feet.  A handler is        *)
(* therefore a function from a client to a client with the callback's      *)
(* reaction in the middle.  A callback made by a reaction reacts to        *)
(* nothing, and a handler that completes several requests has one of the   *)
(* completions react.  Frames, byte capacities and delays are left out.    *)
(***************************************************************************)
EXTENDS Integers, FiniteSets

CONSTANTS
    Requests,            \* the requests the program makes, each once
    MaximumPending,      \* maximum_pending_requests
    MaximumGeneration    \* bound: connection attempts

VARIABLES
    client      \* IpcClient::Impl

clientVars == <<client>>

Timers == {"reconnect", "connect", "stable", "requests"}

Pending(c) == {r \in Requests : c.requests[r].status = "pending"}

Without(c, timers) == [c EXCEPT !.timers = @ \ timers]

With(c, timer) == [c EXCEPT !.timers = @ \cup {timer}]

\* schedule_request_timer
RequestTimer(c) ==
    IF Pending(c) = {} THEN Without(c, {"requests"}) ELSE With(c, "requests")

Completed(c, requests) ==
    [c EXCEPT !.requests = [r \in Requests |->
        IF r \in requests
        THEN [c.requests[r] EXCEPT !.status = "completed", !.completions = @ + 1]
        ELSE c.requests[r]]]

OfGeneration(c, generation) ==
    {r \in Pending(c) : c.requests[r].generation = generation}

-----------------------------------------------------------------------------
(* What a callback may do *)

Stopped(c) ==
    IF ~c.started THEN c
    ELSE Completed([c EXCEPT !.started = FALSE, !.timers = {}, !.socket = "none",
                             !.state = "stopped", !.retrying = FALSE],
                   Pending(c))

Cancelled(c, r) ==
    IF r \in Pending(c) THEN Completed(RequestTimer(
        [c EXCEPT !.requests[r].status = "new"]), {r}) ELSE c

\* A write that fails loses the connection as a socket error does; the
\* request itself is refused and never becomes pending.
Lost(c) ==
    IF ~c.started \/ c.state = "retryWait" THEN c
    ELSE [Without(c, {"connect", "stable"}) EXCEPT
            !.socket = "none", !.state = "retryWait", !.retrying = TRUE]

NotAskedToRetry(c) == c

AskedToRetry(c) ==
    IF c.started /\ c.state = "retryWait" THEN With(c, "reconnect") ELSE c

GenerationFailed(c, generation) ==
    Completed(RequestTimer(
        [c EXCEPT !.requests = [r \in Requests |->
            IF r \in OfGeneration(c, generation)
            THEN [c.requests[r] EXCEPT !.status = "new"] ELSE c.requests[r]]]),
        OfGeneration(c, generation))

\* The socket may report the loss of the connection from inside flush(): the
\* requests of the connection are then failed before this one is pending, and
\* only its deadline is left to complete it.
Sent(c, r, outcome) ==
    IF \/ ~c.started \/ c.state # "connected"
       \/ Cardinality(Pending(c)) >= MaximumPending
       \/ c.requests[r].status # "new"
    THEN c
    ELSE LET after == IF outcome = "written" THEN c
                      ELSE GenerationFailed(AskedToRetry(Lost(c)), c.generation)
         IN IF outcome = "refused" THEN after
            ELSE RequestTimer([after EXCEPT !.requests[r].status = "pending",
                                            !.requests[r].generation = c.generation])

Reactions ==
    [kind : {"none", "stop"}]
      \cup [kind : {"send"}, request : Requests, outcome : {"written", "refused", "lost"}]
      \cup [kind : {"cancel"}, request : Requests]

React(c, reaction) ==
    CASE reaction.kind = "none"   -> c
      [] reaction.kind = "stop"   -> Stopped(c)
      [] reaction.kind = "send"   -> Sent(c, reaction.request, reaction.outcome)
      [] reaction.kind = "cancel" -> Cancelled(c, reaction.request)

-----------------------------------------------------------------------------
(* The handlers *)

\* schedule_reconnect: the program is told before the timer is started.
ScheduledReconnect(c, reaction) ==
    IF ~c.started \/ c.state = "retryWait" THEN c
    ELSE AskedToRetry(React(Lost(c), reaction))

\* fail_generation: the requests are taken out before the first completion.
FailedGeneration(c, generation, reaction) ==
    LET failed == GenerationFailed(c, generation)
    IN IF failed.requests = c.requests THEN failed ELSE React(failed, reaction)

\* disconnected, the socket error of a connection and protocol_failure
ConnectionLost(c, told, completed) ==
    FailedGeneration(ScheduledReconnect(c, told), c.generation, completed)

Connected(c, told) ==
    LET up == React([Without(c, {"connect"}) EXCEPT !.state = "connected"], told)
    IN IF up.started /\ up.state = "connected" THEN With(up, "stable") ELSE up

\* connect_now: connectToServer may report its outcome at once, and then the
\* connect timer is started after the connection was made or given up.
ConnectNow(c, told, outcome, toldNext) ==
    LET notified == React([Without(c, Timers \ {"requests"}) EXCEPT
                               !.socket = "none", !.state = "connecting",
                               !.generation = @ + 1], told)
        dialled  == [notified EXCEPT !.socket = "open"]
    IN IF ~notified.started THEN notified
       ELSE With(CASE outcome = "later"  -> dialled
                   [] outcome = "made"   -> Connected(dialled, toldNext)
                   [] outcome = "failed" -> ScheduledReconnect(dialled, toldNext),
                 "connect")

Outcomes == {"later", "made", "failed"}

\* A timer that fires is a single-shot timer: it is off when its handler runs.
Fired(timer) == Without(client, {timer})

Start(told, outcome, toldNext) ==
    /\ ~client.started
    /\ client.generation < MaximumGeneration
    /\ client' = ConnectNow([client EXCEPT !.started = TRUE, !.retrying = FALSE],
                            told, outcome, toldNext)

ReconnectTimer(told, outcome, toldNext) ==
    /\ "reconnect" \in client.timers
    /\ client.generation < MaximumGeneration
    /\ client' = IF client.started
                 THEN ConnectNow(Fired("reconnect"), told, outcome, toldNext)
                 ELSE Fired("reconnect")

ConnectTimer(told) ==
    /\ "connect" \in client.timers
    /\ client' = IF client.state = "connecting"
                 THEN ScheduledReconnect(Fired("connect"), told)
                 ELSE Fired("connect")

\* reset_backoff
Settled(c) ==
    IF c.retrying THEN [Without(c, {"stable"}) EXCEPT !.retrying = FALSE] ELSE c

StableTimer ==
    /\ "stable" \in client.timers
    /\ client' = Settled(Fired("stable"))

\* The requests of every deadline that has passed; a timer that fires early
\* finds none and starts again.
RequestsTimer(expired, completed) ==
    /\ "requests" \in client.timers
    /\ expired \subseteq Pending(client)
    /\ client' =
         LET taken == RequestTimer([Fired("requests") EXCEPT
                 !.requests = [r \in Requests |->
                     IF r \in expired THEN [client.requests[r] EXCEPT !.status = "new"]
                     ELSE client.requests[r]]])
         IN IF expired = {} THEN taken ELSE React(Completed(taken, expired), completed)

ConnectionMade(told) ==
    /\ client.socket = "open"
    /\ client.state = "connecting"
    /\ client' = Connected(client, told)

AttemptFails(told) ==
    /\ client.socket = "open"
    /\ client.state = "connecting"
    /\ client' = ScheduledReconnect(client, told)

\* The service closes the connection, an error is reported or a message does
\* not decode.
ConnectionBreaks(told, completed) ==
    /\ client.socket = "open"
    /\ client.state = "connected"
    /\ client' = ConnectionLost(client, told, completed)

\* A response or a push; the response of a request that is not pending, or was
\* sent on an earlier connection, only counts as a message.
ResponseArrives(r, completed) ==
    /\ client.socket = "open"
    /\ client.state = "connected"
    /\ client.requests[r].generation = client.generation
    /\ client' =
         IF r \in Pending(client)
         THEN React(Completed(RequestTimer([Settled(client) EXCEPT
                        !.requests[r].status = "new"]), {r}), completed)
         ELSE Settled(client)

PushArrives(received) ==
    /\ client.socket = "open"
    /\ client.state = "connected"
    /\ client' = React(Settled(client), received)

\* The program's own calls, outside any callback.
SendRequest(r, outcome) ==
    /\ client' = Sent(client, r, outcome)
    /\ client' # client

CancelRequest(r) ==
    /\ r \in Pending(client)
    /\ client' = Cancelled(client, r)

Stop ==
    /\ client.started
    /\ client' = Stopped(client)

-----------------------------------------------------------------------------

ClientInit ==
    client = [started |-> FALSE, state |-> "stopped", generation |-> 0,
              socket |-> "none", timers |-> {}, retrying |-> FALSE,
              requests |-> [r \in Requests |->
                              [status |-> "new", generation |-> 0, completions |-> 0]]]

Sending ==
    \/ \E r \in Requests, outcome \in {"written", "refused", "lost"} : SendRequest(r, outcome)
    \/ \E r \in Requests : CancelRequest(r)

TimerNext ==
    \/ \E told, next \in Reactions, outcome \in Outcomes : ReconnectTimer(told, outcome, next)
    \/ \E told \in Reactions : ConnectTimer(told)
    \/ StableTimer
    \/ \E expired \in SUBSET Requests, completed \in Reactions :
         RequestsTimer(expired, completed)

SocketNext ==
    \/ \E told \in Reactions : ConnectionMade(told) \/ AttemptFails(told)
    \/ \E told, completed \in Reactions : ConnectionBreaks(told, completed)
    \/ \E r \in Requests, completed \in Reactions : ResponseArrives(r, completed)
    \/ \E received \in Reactions : PushArrives(received)

ClientNext ==
    \/ TimerNext \/ SocketNext \/ Sending \/ Stop
    \/ \E told, next \in Reactions, outcome \in Outcomes : Start(told, outcome, next)

ClientSpec == ClientInit /\ [][ClientNext]_clientVars

-----------------------------------------------------------------------------
(* Properties *)

\* Whatever a callback does in the middle of a handler, every request that was
\* accepted is completed at most once, and as long as it is not completed the
\* timer that will expire it runs (client.cpp:544-609).
CompletedOnce ==
    \A r \in Requests :
        /\ client.requests[r].completions <= 1
        /\ r \in Pending(client) =>
             /\ client.requests[r].completions = 0
             /\ client.started /\ "requests" \in client.timers
        /\ client.requests[r].status = "completed" =>
             client.requests[r].completions = 1

\* A started client is never left with nothing to wait for: it waits to
\* reconnect, for the outcome of an attempt that is bounded in time, or has a
\* connection (client.cpp:274-313, 385-406).
NeverAsleep ==
    client.started =>
        \/ client.state = "retryWait" /\ "reconnect" \in client.timers
        \/ client.state = "connecting" /\ client.socket = "open"
                                       /\ "connect" \in client.timers
        \/ client.state = "connected" /\ client.socket = "open"

=============================================================================
