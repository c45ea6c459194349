-------------------------------- MODULE IpcServer --------------------------------
(***************************************************************************)
(* The local IPC server: one event thread that owns the connections, one   *)
(* thread for serial control commands, two for read-only queries.  They    *)
(* share the two bounded command queues, answer through events posted to   *)
(* the event thread, and end in a handshake: a stop closes the queues, the *)
(* command threads drain them, and the last one lets the event thread      *)
(* flush and leave.  The caller of start, request_stop and join is the     *)
(* service's own thread; HostedService says when it calls.                 *)
(*                                                                         *)
(* Every connection of a run has its own identifier, as in the code.       *)
(* Messages are counted, not spelled out: a response is what is owed to a  *)
(* request, a push is its coalescing key.                                  *)
(***************************************************************************)
EXTENDS Integers, Sequences, SequencesExt

CONSTANTS
    Connections,       \* the connections clients attempt
    RequestIds,        \* requestIds clients use
    QueryWorkers,      \* the threads for read-only queries
    Keys, Coalesced,   \* coalescing keys; those published with coalesce_latest
    StatusKey,         \* "status.changed", published by a stop
    MaximumConnections, MaximumInFlight, RememberedIds,
    QueueCapacity,     \* of a class of commands
    OutboundCapacity, PushCapacity, IngressCapacity,
    MaximumFrames,     \* bound: frames clients send
    MaximumPublishes   \* bound: pushes the service publishes

ASSUME IpcAssumption ==
    /\ "control" \notin QueryWorkers /\ QueryWorkers # {} /\ IsFiniteSet(QueryWorkers)
    /\ 0 \notin Connections
    /\ Coalesced \subseteq Keys /\ StatusKey \in Coalesced
    /\ MaximumConnections \in Nat \ {0} /\ MaximumInFlight \in Nat \ {0}
    /\ RememberedIds \in Nat \ {0}
    /\ OutboundCapacity \in Nat \ {0} /\ PushCapacity \in 1 .. OutboundCapacity
    /\ IngressCapacity \in Nat \ {0}
    /\ MaximumFrames \in Nat /\ MaximumPublishes \in Nat

VARIABLES
    server,   \* started, stopping, accepting (accepting_commands_)
    caller,   \* the thread that starts, stops and joins the server
    loop,     \* the event thread: its phase, the request in its hand, whether
              \* it drains publishes, whether the last flush is scheduled
    posted,   \* events posted to the event thread
    clients,  \* connections
    commands, \* the queue of each class
    workers,  \* what each command thread is at
    ingress,  \* publish_queue_, publish_posted_, a publisher about to post
    budget    \* frames and pushes still to come

ipcVars == <<server, caller, loop, posted, clients, commands, workers, ingress, budget>>

Classes == {"control", "query"}
Workers == {"control"} \cup QueryWorkers
ClassOf(worker) == IF worker = "control" THEN "control" ELSE "query"

NoCommand == [connection |-> 0, id |-> 0, class |-> "none"]
Worker(place) == [at |-> place, command |-> NoCommand]

Absent == [state |-> "absent", recent |-> <<>>, inFlight |-> 0, responses |-> 0,
           pushes |-> <<>>, active |-> "none", closing |-> FALSE]
Gone == [Absent EXCEPT !.state = "gone"]
Open == {c \in Connections : clients[c].state = "open"}

(* The event thread takes events between "listening" and its end.          *)
HasDispatcher == loop.phase \in {"listening", "running"}
WorkersDone == \A w \in Workers : workers[w].at = "done"
Post(event) == IF HasDispatcher THEN Append(posted, event) ELSE posted

-----------------------------------------------------------------------------
(* A connection's outbound side *)

\* The next response, else the next push, else the close that was asked for;
\* nothing while a message is being written.
Pumped(client) ==
    IF client.active # "none" \/ client.state # "open" THEN client
    ELSE IF client.responses > 0
         THEN [client EXCEPT !.responses = @ - 1, !.active = "response"]
    ELSE IF client.pushes # <<>>
         THEN [client EXCEPT !.pushes = Tail(@), !.active = "push"]
    ELSE IF client.closing THEN Gone ELSE client

Outbound(client) ==
    client.responses + Len(client.pushes) + (IF client.active = "none" THEN 0 ELSE 1)

\* A response that has no room ends the connection.
Responded(client, closing) ==
    IF Outbound(client) >= OutboundCapacity THEN Gone
    ELSE Pumped([client EXCEPT !.responses = @ + 1, !.closing = @ \/ closing])

PushFits(client) ==
    /\ Outbound(client) < OutboundCapacity
    /\ Len(client.pushes) + (IF client.active = "push" THEN 1 ELSE 0) < PushCapacity

\* A queued push of the same key takes the new value; a push that does not fit
\* is dropped, the newest first.
Pushed(client, key) ==
    IF client.state # "open" THEN client
    ELSE IF (key \in Coalesced /\ Contains(client.pushes, key)) \/ ~PushFits(client)
         THEN Pumped(client)
    ELSE Pumped([client EXCEPT !.pushes = Append(@, key)])

PublishedTo(key) == [c \in Connections |-> Pushed(clients[c], key)]

-----------------------------------------------------------------------------
(* The event thread *)

Spawned ==
    /\ loop.phase = "spawned"
    /\ loop' = [loop EXCEPT !.phase = "listening"]
    /\ UNCHANGED <<server, caller, posted, clients, commands, workers, ingress, budget>>

\* A thread that waits is woken by whoever ends; one that has looked but not yet
\* gone to sleep is not, for the counters change outside its mutex.
Woken(at) == IF at = "asleep" THEN "joining" ELSE at

Leave ==
    /\ loop' = [loop EXCEPT !.phase = "ended", !.request = NoCommand, !.draining = FALSE]
    /\ clients' = [c \in Connections |-> IF c \in Open THEN Gone ELSE clients[c]]
    /\ posted' = <<>>

ListenFails ==
    /\ loop.phase = "listening" /\ loop.startup = "waiting"
    /\ loop' = [loop EXCEPT !.phase = "ended", !.startup = "error"]
    /\ posted' = <<>>
    /\ caller' = [caller EXCEPT !.at = Woken(@)]
    /\ UNCHANGED <<server, clients, commands, workers, ingress, budget>>

Listen ==
    /\ loop.phase = "listening" /\ loop.startup = "waiting"
    /\ loop' = [loop EXCEPT !.startup = "ready"]
    /\ UNCHANGED <<server, caller, posted, clients, commands, workers, ingress, budget>>

MayFinish == server.stopping /\ WorkersDone

\* begin_event_stop: no further connection, one last push, and the flush if the
\* command threads are gone already.
BeginEventStop ==
    /\ loop' = [loop EXCEPT !.phase = "running", !.closed = TRUE, !.finishing = @ \/ MayFinish]
    /\ clients' = PublishedTo(StatusKey)

\* A stop that came before there was an event loop to post to.
EnterLoop ==
    /\ loop.phase = "listening" /\ loop.startup = "ready"
    /\ IF server.stopping THEN BeginEventStop
       ELSE loop' = [loop EXCEPT !.phase = "running"] /\ UNCHANGED clients
    /\ UNCHANGED <<server, caller, posted, commands, workers, ingress, budget>>

AtLoop == loop.phase = "running" /\ loop.request = NoCommand /\ ~loop.draining

Accept(c) ==
    /\ AtLoop /\ ~loop.closed
    /\ clients[c] = Absent
    /\ clients' = [clients EXCEPT ![c] =
           IF server.stopping \/ Cardinality(Open) >= MaximumConnections THEN Gone
           ELSE [Absent EXCEPT !.state = "open"]]
    /\ UNCHANGED <<server, caller, loop, posted, commands, workers, ingress, budget>>

\* The client closes, its frame cannot be decoded or stays incomplete, its peer
\* is not authorised, a write fails.
ConnectionEnds(c) ==
    /\ AtLoop /\ c \in Open
    /\ clients' = [clients EXCEPT ![c] = Gone]
    /\ UNCHANGED <<server, caller, loop, posted, commands, workers, ingress, budget>>

Remembered(ids, id) ==
    IF Len(ids) < RememberedIds THEN Append(ids, id) ELSE Append(Tail(ids), id)

Frame(c) ==
    /\ AtLoop /\ c \in Open /\ budget.frames > 0
    /\ budget' = [budget EXCEPT !.frames = @ - 1]
    /\ UNCHANGED <<server, caller, posted, commands, workers, ingress>>

\* A request that names its requestId but cannot be read is answered, and the
\* connection closed when its protocol version is not supported.
Unreadable(c) ==
    /\ Frame(c)
    /\ \E closing \in BOOLEAN : clients' = [clients EXCEPT ![c] = Responded(@, closing)]
    /\ UNCHANGED loop

\* handle_frame up to the lock: a stop, a requestId seen before and too many
\* requests in flight are answered at once.  A requestId is remembered before
\* the limits are looked at.
HandleFrame(c, id, class) ==
    LET client == clients[c]
        told == [client EXCEPT !.recent = Remembered(@, id)] IN
    /\ Frame(c)
    /\ IF server.stopping \/ Contains(client.recent, id)
       THEN clients' = [clients EXCEPT ![c] = Responded(@, FALSE)] /\ UNCHANGED loop
       ELSE IF client.inFlight >= MaximumInFlight
       THEN clients' = [clients EXCEPT ![c] = Responded(told, FALSE)] /\ UNCHANGED loop
       ELSE /\ clients' = [clients EXCEPT ![c] = told]
            /\ loop' = [loop EXCEPT !.request = [connection |-> c, id |-> id, class |-> class]]

\* Mutant of Admits: a stop between the first check and the lock is missed.
AdmitsAfterStop(class) == Len(commands[class]) < QueueCapacity

Admits(class) == server.accepting /\ Len(commands[class]) < QueueCapacity

\* The rest of handle_frame, under command_mutex_.
Admit ==
    LET request == loop.request  c == request.connection IN
    /\ loop.phase = "running" /\ request # NoCommand
    /\ loop' = [loop EXCEPT !.request = NoCommand]
    /\ IF Admits(request.class)
       THEN /\ commands' = [commands EXCEPT ![request.class] = Append(@, request)]
            /\ clients' = [clients EXCEPT ![c].inFlight = @ + 1]
       ELSE /\ clients' = [clients EXCEPT ![c] = Responded(@, FALSE)]
            /\ UNCHANGED commands
    /\ UNCHANGED <<server, caller, posted, workers, ingress, budget>>

\* The response of a request: its connection may be gone, the response too
\* large to be sent.
Deliver(event) ==
    LET c == event.connection IN
    /\ event.kind = "response"
    /\ IF c \in Open /\ clients[c].inFlight > 0
       THEN \E sent \in {Gone, Responded([clients[c] EXCEPT !.inFlight = @ - 1], FALSE)} :
               clients' = [clients EXCEPT ![c] = sent]
       ELSE UNCHANGED clients
    /\ UNCHANGED loop

RunPosted ==
    /\ AtLoop /\ posted # <<>>
    /\ posted' = Tail(posted)
    /\ LET event == Head(posted) IN
       \/ Deliver(event)
       \/ event.kind = "stop" /\ BeginEventStop
       \/ /\ event.kind = "finish"
          /\ loop' = [loop EXCEPT !.finishing = @ \/ MayFinish]
          /\ UNCHANGED clients
       \/ /\ event.kind = "drain"
          /\ loop' = [loop EXCEPT !.draining = TRUE]
          /\ UNCHANGED clients
    /\ UNCHANGED <<server, caller, commands, workers, ingress, budget>>

\* One round of drain_publishes: the queue is unlocked while a push is sent.
DrainPublish ==
    /\ loop.phase = "running" /\ loop.draining
    /\ IF ingress.queue = <<>>
       THEN /\ ingress' = [ingress EXCEPT !.flagged = FALSE]
            /\ loop' = [loop EXCEPT !.draining = FALSE]
            /\ UNCHANGED clients
       ELSE /\ ingress' = [ingress EXCEPT !.queue = Tail(@)]
            /\ clients' = PublishedTo(Head(ingress.queue))
            /\ UNCHANGED loop
    /\ UNCHANGED <<server, caller, posted, commands, workers, budget>>

\* A message has been written; a peer that does not read keeps it waiting.
BytesWritten(c) ==
    /\ AtLoop /\ c \in Open /\ clients[c].active # "none"
    /\ clients' = [clients EXCEPT ![c] = Pumped([@ EXCEPT !.active = "none"])]
    /\ UNCHANGED <<server, caller, loop, posted, commands, workers, ingress, budget>>

\* The flush is over: connections are aborted and the event loop quits.
QuitLoop ==
    /\ AtLoop /\ loop.finishing
    /\ Leave
    /\ caller' = [caller EXCEPT !.at = Woken(@)]
    /\ UNCHANGED <<server, commands, workers, ingress, budget>>

\* Identifiers are alike: a client's next one is one it has used or the first
\* that is left.
NextIds(client) == {id \in RequestIds : \A other \in RequestIds :
    other < id => Contains(client.recent, other) \/ Len(client.recent) = RememberedIds}

EventThread ==
    Spawned \/ Listen \/ ListenFails \/ EnterLoop \/ Admit \/ RunPosted \/ DrainPublish \/ QuitLoop

Peers ==
    \E c \in Connections :
        \/ Accept(c) \/ ConnectionEnds(c) \/ Unreadable(c) \/ BytesWritten(c)
        \/ \E id \in NextIds(clients[c]), class \in Classes : HandleFrame(c, id, class)

-----------------------------------------------------------------------------
(* The command threads *)

TakeCommand(w) ==
    LET class == ClassOf(w) IN
    /\ workers[w].at = "waiting" /\ commands[class] # <<>>
    /\ workers' = [workers EXCEPT ![w] = [at |-> "handling", command |-> Head(commands[class])]]
    /\ commands' = [commands EXCEPT ![class] = Tail(@)]
    /\ UNCHANGED <<server, caller, loop, posted, clients, ingress, budget>>

\* The handler returns, or throws and is answered for.
HandleCommand(w) ==
    /\ workers[w].at = "handling"
    /\ posted' = Post([kind |-> "response", connection |-> workers[w].command.connection])
    /\ workers' = [workers EXCEPT ![w] = Worker("waiting")]
    /\ UNCHANGED <<server, caller, loop, clients, commands, ingress, budget>>

EndWorker(w) ==
    /\ workers[w].at = "waiting" /\ commands[ClassOf(w)] = <<>> /\ ~server.accepting
    /\ workers' = [workers EXCEPT ![w] = Worker("done")]
    /\ caller' = [caller EXCEPT !.at = Woken(@)]
    /\ posted' = Post([kind |-> "finish"])
    /\ UNCHANGED <<server, loop, clients, commands, ingress, budget>>

CommandThread(w) == TakeCommand(w) \/ HandleCommand(w) \/ EndWorker(w)

-----------------------------------------------------------------------------
(* Publishers *)

TryPublish(key) ==
    /\ server.started /\ ~server.stopping /\ budget.publishes > 0
    /\ budget' = [budget EXCEPT !.publishes = @ - 1]
    /\ ingress' = IF Len(ingress.queue) >= IngressCapacity THEN ingress
                  ELSE [queue |-> Append(ingress.queue, key), flagged |-> TRUE,
                        posting |-> ingress.posting \/ ~ingress.flagged]
    /\ UNCHANGED <<server, caller, loop, posted, clients, commands, workers>>

PostDrain ==
    /\ ingress.posting
    /\ posted' = Post([kind |-> "drain"])
    /\ ingress' = IF HasDispatcher THEN [ingress EXCEPT !.posting = FALSE]
                  ELSE [queue |-> <<>>, flagged |-> FALSE, posting |-> FALSE]
    /\ UNCHANGED <<server, caller, loop, clients, commands, workers, budget>>

-----------------------------------------------------------------------------
(* The caller: start, request_stop and join *)

CallerAt(place) ==
    caller.at = place /\ UNCHANGED <<clients, commands, ingress, budget>>

Returned(result) == [at |-> "outside", undoing |-> FALSE, result |-> result]

\* A process starts its server once.
CallStart ==
    /\ CallerAt("outside") /\ ~server.started /\ loop.phase = "off"
    /\ server' = [started |-> TRUE, stopping |-> FALSE, accepting |-> TRUE]
    /\ workers' = [w \in Workers |-> Worker("waiting")]
    /\ loop' = [loop EXCEPT !.phase = "spawned"]
    /\ caller' = [at |-> "starting", undoing |-> FALSE, result |-> "none"]
    /\ UNCHANGED posted

\* start waits for the event thread: until it listens, fails or takes too long.
StartReturns ==
    /\ CallerAt("starting")
    /\ \/ loop.startup = "ready" /\ caller' = Returned("done")
       \/ loop.startup # "ready" /\ caller' = [caller EXCEPT !.at = "stopping", !.undoing = TRUE]
    /\ UNCHANGED <<server, loop, posted, workers>>

\* A second request changes nothing.
CallRequestStop ==
    /\ CallerAt("outside") /\ server.started /\ ~server.stopping
    /\ caller' = [at |-> "stopping", undoing |-> FALSE, result |-> "none"]
    /\ UNCHANGED <<server, loop, posted, workers>>

MarkStopping ==
    /\ CallerAt("stopping")
    /\ server' = [server EXCEPT !.stopping = TRUE]
    /\ caller' = [caller EXCEPT !.at = "closing"]
    /\ UNCHANGED <<loop, posted, workers>>

\* The command threads are woken by the stop_token of their wait.
CloseQueues ==
    /\ CallerAt("closing")
    /\ server' = [server EXCEPT !.accepting = FALSE]
    /\ posted' = Post([kind |-> "stop"])
    /\ caller' = IF caller.undoing THEN [caller EXCEPT !.at = "joining"] ELSE Returned("done")
    /\ UNCHANGED <<loop, workers>>

\* join first asks for the stop itself; the service has always done so before.
CallJoin ==
    /\ CallerAt("outside") /\ server.started /\ server.stopping
    /\ caller' = [at |-> "joining", undoing |-> FALSE, result |-> "none"]
    /\ UNCHANGED <<server, loop, posted, workers>>

AllOver == WorkersDone /\ loop.phase = "ended"

JoinEnds ==
    /\ server' = [server EXCEPT !.started = FALSE]
    /\ caller' = Returned(IF caller.undoing THEN "failed" ELSE "done")

LookForEnd ==
    /\ CallerAt("joining")
    /\ IF AllOver THEN JoinEnds ELSE caller' = [caller EXCEPT !.at = "dozing"] /\ UNCHANGED server
    /\ UNCHANGED <<loop, posted, workers>>

FallAsleep ==
    /\ CallerAt("dozing")
    /\ caller' = [caller EXCEPT !.at = "asleep"]
    /\ UNCHANGED <<server, loop, posted, workers>>

\* At the deadline the condition is looked at once more.
JoinTimesOut(overdue) ==
    /\ CallerAt("asleep")
    /\ overdue \/ caller.undoing
    /\ IF AllOver THEN JoinEnds
       ELSE caller' = Returned(IF caller.undoing THEN "failed" ELSE "timeout") /\ UNCHANGED server
    /\ UNCHANGED <<loop, posted, workers>>

Caller(overdue) ==
    \/ StartReturns \/ MarkStopping \/ CloseQueues
    \/ LookForEnd \/ FallAsleep \/ JoinTimesOut(overdue)

-----------------------------------------------------------------------------
IpcInit ==
    /\ server = [started |-> FALSE, stopping |-> FALSE, accepting |-> FALSE]
    /\ caller = Returned("none")
    /\ loop = [phase |-> "off", startup |-> "waiting", closed |-> FALSE, request |-> NoCommand,
               draining |-> FALSE, finishing |-> FALSE]
    /\ posted = <<>>
    /\ clients = [c \in Connections |-> Absent]
    /\ commands = [class \in Classes |-> <<>>]
    /\ workers = [w \in Workers |-> Worker("absent")]
    /\ ingress = [queue |-> <<>>, flagged |-> FALSE, posting |-> FALSE]
    /\ budget = [frames |-> MaximumFrames, publishes |-> MaximumPublishes]

IpcThreads ==
    \/ EventThread \/ Peers \/ PostDrain
    \/ \E w \in Workers : CommandThread(w)
    \/ \E key \in Keys : TryPublish(key)

\* The server by itself: stopped and joined at any moment, with any deadline.
IpcNext ==
    \/ IpcThreads \/ Caller(TRUE)
    \/ CallStart \/ CallRequestStop \/ CallJoin

IpcSpec == IpcInit /\ [][IpcNext]_ipcVars

-----------------------------------------------------------------------------
InQueue(class, c) == {i \in DOMAIN commands[class] : commands[class][i].connection = c}
InHand(c) == {w \in Workers : workers[w].command.connection = c}
InPost(c) == {i \in DOMAIN posted : posted[i].kind = "response" /\ posted[i].connection = c}

OwedTo(c) ==
    /\ clients[c].inFlight <= MaximumInFlight
    /\ clients[c].inFlight =
           Cardinality(InQueue("control", c)) + Cardinality(InQueue("query", c))
           + Cardinality(InHand(c)) + Cardinality(InPost(c))

(* Whatever was accepted has somebody who comes for it.  What a connection *)
(* counts in flight is what is queued, executed and posted for it, within  *)
(* the limit: a count that is not given back would have every later        *)
(* request answered IPC_BUSY.  A queued command has a thread of its class  *)
(* that has not ended, whatever the stop and the handling of a frame       *)
(* interleave to.  A push that was taken has a drain posted, about to be   *)
(* posted or under way, unless the event thread is over.                   *)
NothingStranded ==
    /\ \A c \in Open : OwedTo(c)
    /\ \A class \in Classes : commands[class] # <<>> =>
           \E w \in Workers : ClassOf(w) = class /\ workers[w].at \in {"waiting", "handling"}
    /\ ingress.queue # <<>> =>
           \/ ingress.posting \/ loop.draining \/ loop.phase = "ended"
           \/ \E i \in DOMAIN posted : posted[i].kind = "drain"
=============================================================================
