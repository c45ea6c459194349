----------------------------- MODULE ConsoleClients -----------------------------
(***************************************************************************)
(* The console's clients of the service.  Each has a connection of its     *)
(* own, shows a list - events, alarms, cameras, a configuration - that it  *)
(* queries again every five seconds and after a notification, and sends    *)
(* one operation at a time.  A request occupies a slot until it completes; *)
(* while the slot is taken a refresh is skipped.                           *)
(*                                                                         *)
(* They differ in how a completion finds its slot, in what a skipped       *)
(* refresh leaves behind and in what an operation does to the list.  A     *)
(* behaviour is one client's.  The list is the revision of what the        *)
(* service holds; the request layer below is IpcClient's, which completes  *)
(* every request once.                                                     *)
(***************************************************************************)
EXTENDS Integers

CONSTANTS
    MaximumLinks,    \* bound: connections of the client
    MaximumChanges,  \* bound: revision of the service's list
    MaximumFaults    \* bound: losses inside a write, refusals and expired requests

ASSUME ClientsAssumption ==
    MaximumLinks \in Nat /\ MaximumChanges \in Nat /\ MaximumFaults \in Nat

VARIABLES
    client,  \* its snapshot, its slots and the requests it will see completed
    held,    \* the revision of the list at the service
    push     \* the newest notification on its way

clientsVars == <<client, held, push>>

NoRequest == 0

Unanswered == -1

Refused == -2

NoPush == -1

Asked(what, link) == [what |-> what, link |-> link, answer |-> Unanswered]

NotifiedOf == {"events", "operations", "cameras"}

\* The completion must be of the present connection, too.
MatchesLink == {"operations", "cameras"}

-----------------------------------------------------------------------------
(* The client's steps, as sets of what may come of them *)

\* connection_changed: the slots are emptied, and then IpcClient fails every
\* request of the connection, which finds its slot empty.
Lost(c) ==
    [c EXCEPT !.up = FALSE, !.stale = TRUE, !.list = NoRequest, !.operation = NoRequest,
              !.busy = FALSE,
              !.unknown = @ \/ (c.kind = "cameras" /\ c.operation # NoRequest),
              !.requests = {r \in @ : r.link # c.link}]

Placed(c, what, link) ==
    [c EXCEPT ![what] = link, !.requests = @ \cup {Asked(what, link)}]

\* send_request accepts or refuses; or the socket reports the loss while it
\* writes, and the request is registered and its handle kept all the same.
Sent(c, what) ==
    LET faulty == [c EXCEPT !.faults = @ + 1] IN
    {Placed(c, what, c.link)}
        \cup IF c.faults = MaximumFaults THEN {} ELSE
             {[faulty EXCEPT !.busy = @ /\ what = "list"],
              [Placed(Lost(faulty), what, c.link) EXCEPT
                    !.busy = c.kind = "storage" /\ what = "operation"]}

Refreshed(c) ==
    CASE ~c.up -> {c}
      [] c.up /\ c.list # NoRequest -> {[c EXCEPT !.again = @ \/ c.kind = "events"]}
      [] OTHER -> Sent(c, "list")

\* A camera's line state of this connection is not replaced by an older one.
LineShown(c, revision) ==
    IF c.kind = "cameras" /\ c.shown.link = c.link /\ c.shown.revision > revision
    THEN c.shown ELSE [revision |-> revision, link |-> c.link]

Shows(c, revision) == [c EXCEPT !.shown = LineShown(c, revision), !.stale = FALSE]

QueriedAgain(c) ==
    IF c.again THEN Refreshed([c EXCEPT !.again = FALSE]) ELSE {c}

\* CameraClient::list_completed: an operation of unknown outcome may be
\* confirmed by what is listed.
CamerasListed(c) == {[c EXCEPT !.unknown = unknown] : unknown \in {FALSE, c.unknown}}

\* *_completed of a list
ListCompleted(c, answer) ==
    LET freed == [c EXCEPT !.list = NoRequest]
        stays == c.stale \/ c.kind \in {"operations", "cameras", "algorithm"} IN
    IF answer < 0 THEN QueriedAgain([freed EXCEPT !.stale = stays])
                  ELSE UNION {QueriedAgain(listed) : listed \in CamerasListed(Shows(freed, answer))}

\* AlgorithmClient::operation_completed: only a query shows the new values.
ConfigurationSaved(c) == Refreshed([c EXCEPT !.stale = TRUE])

\* update_completed: the answer of an update is shown.
OperationDone(c, answer) ==
    CASE c.kind = "storage" -> {Shows(c, answer)}
      [] c.kind = "algorithm" -> ConfigurationSaved(c)
      [] OTHER -> Refreshed(c)

\* An export hands the answer to the exporter's thread and stays busy.
Exported(c) ==
    IF c.kind \in {"events", "operations"} /\ ~c.exporting
    THEN {[c EXCEPT !.exporting = TRUE, !.busy = TRUE]} ELSE {}

\* CameraClient::operation_completed
OutcomeUnknown(c) == Refreshed([c EXCEPT !.unknown = TRUE])

OperationCompleted(c, answer, expired) ==
    LET freed == [c EXCEPT !.operation = NoRequest, !.busy = FALSE] IN
    CASE answer >= 0 -> OperationDone(freed, answer) \cup Exported(freed)
      [] answer < 0 /\ expired /\ c.kind = "cameras" -> OutcomeUnknown(freed)
      [] OTHER -> {freed}

FindsSlotOfLink(c, r) ==
    c[r.what] = r.link /\ r.link = c.link

FindsSlot(c, r) ==
    c[r.what] = r.link /\ (c.kind \in MatchesLink => r.link = c.link)

Completed(c, r, answer, expired) ==
    LET rest == [c EXCEPT !.requests = @ \ {r}] IN
    IF ~FindsSlot(c, r) THEN {rest}
    ELSE IF r.what = "list" THEN ListCompleted(rest, answer)
                            ELSE OperationCompleted(rest, answer, expired)

-----------------------------------------------------------------------------
(* Actions *)

\* connection_changed to connected; the camera client looks for devices, which
\* replaces the operation it remembers.
Discovered(c) == IF c.kind = "cameras" /\ c.up /\ c.operation = NoRequest
                 THEN Sent([c EXCEPT !.unknown = FALSE, !.busy = FALSE], "operation") ELSE {c}

Connected ==
    /\ ~client.up /\ client.link < MaximumLinks
    /\ \E c \in Refreshed([client EXCEPT !.up = TRUE, !.link = @ + 1, !.stale = @ \/ client.kind = "cameras"]) :
          client' \in Discovered(c)
    /\ push' = NoPush
    /\ UNCHANGED held

LoseLink ==
    /\ client.up
    /\ client' = Lost(client)
    /\ push' = NoPush
    /\ UNCHANGED held

\* The refresh timer of the console.
Refresh ==
    /\ client.up
    /\ client' \in Refreshed(client)
    /\ UNCHANGED <<held, push>>

\* What the list holds changes by itself; the notification may be dropped.
Change ==
    /\ held < MaximumChanges
    /\ held' = held + 1
    /\ \/ client.up /\ client.kind \in NotifiedOf /\ push' = held'
       \/ UNCHANGED push
    /\ UNCHANGED client

\* The service's lists of alarms and of cameras live in memory.
RestartService ==
    /\ ~client.up /\ client.kind \in MatchesLink /\ held # 0
    /\ held' = 0
    /\ UNCHANGED <<client, push>>

\* push_received; a camera's line state comes with the notification.
Notified ==
    /\ client.up /\ push # NoPush
    /\ IF client.kind = "cameras"
       THEN client' = IF client.shown.link # 0 /\ push > client.shown.revision
                      THEN [client EXCEPT !.shown = [revision |-> push, link |-> client.link]]
                      ELSE client
       ELSE client' \in Refreshed(client)
    /\ push' = NoPush
    /\ UNCHANGED held

MayOperate ==
    /\ client.up /\ client.operation = NoRequest
    /\ client.kind = "operations" => ~client.busy
    /\ client.kind \in {"storage", "algorithm"} => ~client.stale

Operate ==
    /\ MayOperate
    /\ client' \in Sent([client EXCEPT !.busy = TRUE, !.unknown = FALSE], "operation")
    /\ UNCHANGED <<held, push>>

Answered(r, answer) ==
    client' = [client EXCEPT !.requests = (@ \ {r}) \cup {[r EXCEPT !.answer = answer]}]

\* The service answers while the connection lasts; a query and an operation
\* are served by different threads.
Serve(r) ==
    /\ client.up /\ r.link = client.link /\ r.answer = Unanswered
    /\ \/ r.what = "list" /\ Answered(r, held) /\ UNCHANGED held
       \/ r.what = "operation" /\ held < MaximumChanges
          /\ held' = held + 1 /\ Answered(r, held + 1)
       \/ r.what = "operation" /\ Answered(r, Refused) /\ UNCHANGED held
    /\ UNCHANGED push

Deliver(r) ==
    /\ client.up /\ r.link = client.link /\ r.answer # Unanswered
    /\ client' \in Completed(client, r, r.answer, FALSE)
    /\ UNCHANGED <<held, push>>

\* The deadline of a request passes; nothing else completes one that was
\* registered after its connection had failed.
Stray(r) == ~client.up \/ r.link # client.link

Expire(r) ==
    /\ Stray(r) \/ client.faults < MaximumFaults
    /\ \E c \in Completed(client, r, Refused, TRUE) :
          client' = IF Stray(r) THEN c ELSE [c EXCEPT !.faults = client.faults + 1]
    /\ UNCHANGED <<held, push>>

ExportEnds ==
    /\ client.exporting
    /\ client' = [client EXCEPT !.exporting = FALSE, !.busy = FALSE]
    /\ UNCHANGED <<held, push>>

ClientsInit ==
    /\ client \in {[kind |-> k, up |-> FALSE, link |-> 0, list |-> NoRequest, again |-> FALSE,
                    stale |-> TRUE, shown |-> [revision |-> 0, link |-> 0],
                    operation |-> NoRequest, busy |-> FALSE, unknown |-> FALSE,
                    exporting |-> FALSE, requests |-> {}, faults |-> 0] :
                        k \in {"events", "operations", "cameras", "storage", "algorithm"}}
    /\ held = 0 /\ push = NoPush

ClientsNext ==
    \/ Connected \/ LoseLink \/ Refresh \/ Change \/ RestartService \/ Notified \/ Operate
    \/ \E r \in client.requests : Serve(r) \/ Deliver(r) \/ Expire(r)
    \/ ExportEnds

Listing(Action(_)) == \E r \in client.requests : r.what = "list" /\ Action(r)

ExpireStray(r) == Stray(r) /\ Expire(r)

\* The console's event loop runs its timers and reads its socket, and the
\* service answers queries; whether the connection comes back is left open.
ClientsSpec ==
    /\ ClientsInit /\ [][ClientsNext]_clientsVars
    /\ WF_clientsVars(Refresh) /\ WF_clientsVars(Listing(Serve))
    /\ WF_clientsVars(Listing(Deliver)) /\ WF_clientsVars(Listing(ExpireStray))

-----------------------------------------------------------------------------
(* Properties *)

Current == client.shown.revision = held /\ ~client.stale

\* On a connection that lasts, the list comes to be what the service holds and
\* stays so, whatever was lost, refused or expired before: no forgotten request
\* keeps the slot and so every later refresh away (refresh, list_completed,
\* config_completed of the clients that match a completion by its handle).
ListsCatchUp ==
    <>[](client.up /\ client.kind \notin {"operations", "cameras"}) => <>[]Current

\* Within one connection a camera's line state shown never becomes an older
\* one, though notifications overtake the answers of lists (push_received and
\* list_completed of CameraClient).
LineGoesForward ==
    [][client.kind = "cameras" /\ client'.link = client.link /\ client.shown.link = client.link
        => client'.shown.revision >= client.shown.revision]_clientsVars

\* The other two clients catch up as well.  They do not: a request registered
\* after its connection had failed completes unnoticed and keeps its slot, and
\* the list is queried no more until the connection is lost again
\* (alarms_completed, metrics_completed, logs_completed, list_completed).
EveryListCatchesUp == <>[]client.up => <>[]Current

\* An operation under way is shown as pending.  It is not: the completion of a
\* file export that outlived a connection clears it (export_completed).
OperationIsPending ==
    client.operation = client.link /\ client.up => client.busy \/ client.kind = "cameras"

\* A configuration shown never becomes an older one.  It may: the answer of a
\* query made before an update arrives after the update's (config_completed).
ConfigurationGoesForward ==
    [][client.kind = "storage" => client'.shown.revision >= client.shown.revision]_clientsVars
=============================================================================
