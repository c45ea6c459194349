------------------------------- MODULE Dashboard -------------------------------
(***************************************************************************)
(* The state every page of the console shows: status, version and          *)
(* locations of the service, its metrics and its active alarms.            *)
(* ClientStateStore queries the five parts at every connection, queries    *)
(* metrics and alarms again every five seconds and the others only while   *)
(* they are marked stale; a status push changes the status shown, an alarm *)
(* push queries the alarms again - after the query under way, if there is  *)
(* one.  What is queried is an integer, its revision at the service.       *)
(*                                                                         *)
(* Pushes of a connection keep their order; answers are made by threads    *)
(* of the service that read first and reply later, so an answer may arrive *)
(* after a push of something newer.                                        *)
(***************************************************************************)
EXTENDS Integers, Sequences

CONSTANTS
    Parts,           \* what is queried
    MaximumLinks,    \* bound: connections of the console
    MaximumChanges,  \* bound: revision of a part at the service
    MaximumFaults    \* bound: losses inside a write, refusals and expired requests

ASSUME DashboardAssumption ==
    /\ {"status", "alarms"} \subseteq Parts
    /\ Parts \subseteq {"status", "version", "metrics", "alarms", "locations"}
    /\ MaximumLinks \in Nat /\ MaximumChanges \in Nat /\ MaximumFaults \in Nat

VARIABLES
    screen,   \* the snapshot, the request slots and the requests of the client below
    actual,   \* the revision of each part at the service
    pushes,   \* what the service pushed and the console has not received
    noticed   \* the newest revision a push of this connection told of

dashboardVars == <<screen, actual, pushes, noticed>>

NoRequest == 0

Unanswered == -1

Refused == -2

NothingShown == -1

Queried(part, link) == [part |-> part, link |-> link, answer |-> Unanswered]

-----------------------------------------------------------------------------
(* The store's steps, as sets of what may come of them *)

\* connection_changed to anything but connected; IpcClient fails the requests
\* of the connection afterwards, and they find their slots empty.
LinkLost(s) ==
    [s EXCEPT !.up = FALSE, !.stale = Parts, !.slot = [p \in Parts |-> NoRequest],
              !.again = FALSE, !.requests = {r \in @ : r.link # s.link}]

WithRequest(s, part, link) ==
    [s EXCEPT !.slot[part] = link, !.requests = @ \cup {Queried(part, link)}]

\* send_request accepts or refuses, or the loss of the connection is reported
\* while it writes - and, in flush, the handle is kept all the same.
SentBy(s, part) ==
    LET faulty == [s EXCEPT !.faults = @ + 1] IN
    {WithRequest(s, part, s.link)}
        \cup IF s.faults = MaximumFaults THEN {} ELSE
             {[faulty EXCEPT !.stale = @ \cup {part}], LinkLost(faulty),
              WithRequest(LinkLost(faulty), part, s.link)}

Synchronized(s, part) ==
    IF s.up /\ s.slot[part] = NoRequest THEN SentBy(s, part) ELSE {s}

AfterPart(Step(_, _), part, screens) ==
    IF part \in Parts THEN UNION {Step(s, part) : s \in screens} ELSE screens

\* The parts in the order they are queried in.
InOrder(Step(_, _), s) ==
    AfterPart(Step, "locations", AfterPart(Step, "alarms", AfterPart(Step, "metrics",
        AfterPart(Step, "version", AfterPart(Step, "status", {s})))))

\* refresh_dynamic
RefreshedPart(s, part) ==
    IF part \in s.stale \cup {"metrics", "alarms"} THEN Synchronized(s, part) ELSE {s}

\* refresh_after_push
AskedAgain(s) ==
    IF s.up /\ s.again THEN Synchronized([s EXCEPT !.again = FALSE], "alarms") ELSE {s}

\* *_completed of a request that still has its slot
Taken(s, part, answer) ==
    LET freed == [s EXCEPT !.slot[part] = NoRequest]
        shows == IF answer = Refused THEN [freed EXCEPT !.stale = @ \cup {part}]
                 ELSE [freed EXCEPT !.stale = @ \ {part}, !.shown[part] = answer] IN
    IF part = "alarms" THEN AskedAgain(shows) ELSE {shows}

\* current_request
IsCurrent(s, r) == s.up /\ r.link = s.link /\ s.slot[r.part] = r.link

CompletedBy(s, r, answer) ==
    LET rest == [s EXCEPT !.requests = @ \ {r}] IN
    IF IsCurrent(s, r) THEN Taken(rest, r.part, answer) ELSE {rest}

\* An alarm notification that finds a query under way is lost.
NoticedAlarmOnce(s) == Synchronized(s, "alarms")

NoticedAlarm(s) ==
    IF s.slot["alarms"] # NoRequest THEN {[s EXCEPT !.again = TRUE]} ELSE Synchronized(s, "alarms")

\* push_received of status.changed: before the first answer there is nothing to change.
NoticedStatus(s, revision) ==
    IF s.shown["status"] = NothingShown THEN s ELSE [s EXCEPT !.shown["status"] = revision]

-----------------------------------------------------------------------------
(* Actions *)

NothingNoticed == [status |-> 0, alarms |-> 0]

LinkUp ==
    /\ screen.on /\ ~screen.up /\ screen.link < MaximumLinks
    /\ screen' \in InOrder(Synchronized,
          [LinkLost(screen) EXCEPT !.up = TRUE, !.link = @ + 1, !.requests = screen.requests])
    /\ pushes' = <<>> /\ noticed' = NothingNoticed
    /\ UNCHANGED actual

LinkDown ==
    /\ screen.up
    /\ screen' = LinkLost(screen)
    /\ pushes' = <<>> /\ noticed' = NothingNoticed
    /\ UNCHANGED actual

RefreshTimer ==
    /\ screen.up
    /\ screen' \in InOrder(RefreshedPart, screen)
    /\ UNCHANGED <<actual, pushes, noticed>>

StopStore ==
    /\ screen.on
    /\ screen' = [LinkLost(screen) EXCEPT !.on = FALSE, !.requests = {}]
    /\ pushes' = <<>> /\ UNCHANGED <<actual, noticed>>

Told(what, revision) == [what |-> what, revision |-> revision]

\* The server keeps one status push in its queue, the newest.
PushesWith(what, revision) ==
    LET waiting == {i \in DOMAIN pushes : pushes[i].what = "status"} IN
    IF what = "status" /\ waiting # {}
    THEN [i \in DOMAIN pushes |-> IF i \in waiting THEN Told(what, revision) ELSE pushes[i]]
    ELSE Append(pushes, Told(what, revision))

\* ServiceStatusStore::set_state and the alarm registry tell the server, which
\* may have no room for the push; nothing tells of metrics.
PartChanges(part) ==
    /\ part \in {"status", "alarms", "metrics"} \cap Parts /\ actual[part] < MaximumChanges
    /\ actual' = [actual EXCEPT ![part] = @ + 1]
    /\ \/ screen.up /\ part # "metrics" /\ pushes' = PushesWith(part, actual'[part])
       \/ UNCHANGED pushes
    /\ UNCHANGED <<screen, noticed>>

\* Everything queried lives in the memory of the service.
ServiceRestarts ==
    /\ ~screen.up /\ \E p \in Parts : actual[p] # 0
    /\ actual' = [p \in Parts |-> 0]
    /\ UNCHANGED <<screen, pushes, noticed>>

PushReceived ==
    /\ screen.up /\ pushes # <<>>
    /\ LET told == Head(pushes) IN
       /\ noticed' = [noticed EXCEPT ![told.what] = told.revision]
       /\ IF told.what = "status" THEN screen' = NoticedStatus(screen, told.revision)
                                  ELSE screen' \in NoticedAlarm(screen)
       /\ pushes' = IF screen'.up THEN Tail(pushes) ELSE <<>>
    /\ UNCHANGED actual

OnLink(r) == screen.up /\ r.link = screen.link

\* A command thread of the service reads what it will answer with ...
ReadAnswer(r) ==
    /\ OnLink(r) /\ r.answer = Unanswered
    /\ screen' = [screen EXCEPT !.requests = (@ \ {r}) \cup {[r EXCEPT !.answer = actual[r.part]]}]
    /\ UNCHANGED <<actual, pushes, noticed>>

RequestEnds(r, answer) ==
    /\ \E s \in CompletedBy(screen, r, answer) :
          screen' = [s EXCEPT !.faults = IF answer # Refused \/ ~OnLink(r) THEN @
                                         ELSE IF @ < MaximumFaults THEN @ + 1 ELSE @]
    /\ pushes' = IF screen'.up THEN pushes ELSE <<>>
    /\ UNCHANGED <<actual, noticed>>

\* ... and the answer arrives.
AnswerArrives(r) ==
    OnLink(r) /\ r.answer # Unanswered /\ RequestEnds(r, r.answer)

\* The answer is an error or cannot be read, or the deadline passes; the
\* deadline alone completes what was registered after its connection failed.
RequestFails(r) ==
    /\ ~OnLink(r) \/ screen.faults < MaximumFaults
    /\ RequestEnds(r, Refused)

DashboardInit ==
    /\ screen = [on |-> TRUE, up |-> FALSE, link |-> 0, stale |-> Parts, again |-> FALSE,
                 shown |-> [p \in Parts |-> NothingShown], slot |-> [p \in Parts |-> NoRequest],
                 requests |-> {}, faults |-> 0]
    /\ actual = [p \in Parts |-> 0] /\ pushes = <<>> /\ noticed = NothingNoticed

DashboardNext ==
    \/ LinkUp \/ LinkDown \/ RefreshTimer \/ StopStore \/ ServiceRestarts \/ PushReceived
    \/ \E p \in Parts : PartChanges(p)
    \/ \E r \in screen.requests : ReadAnswer(r) \/ AnswerArrives(r) \/ RequestFails(r)

DashboardSpec == DashboardInit /\ [][DashboardNext]_dashboardVars

-----------------------------------------------------------------------------
(* Properties *)

DashboardTypeOK ==
    /\ screen.stale \subseteq Parts /\ screen.link \in 0..MaximumLinks
    /\ screen.slot \in [Parts -> 0..MaximumLinks]
    /\ screen.shown \in [Parts -> NothingShown..MaximumChanges]
    /\ actual \in [Parts -> 0..MaximumChanges]

UpToDate(part) == screen.up /\ part \notin screen.stale /\ screen.slot[part] = NoRequest

\* Alarms shown as up to date, with no query under way, are no older than the
\* last alarm notification received: one that came during a query is not
\* answered by that query (push_received, refresh_after_push).
AlarmsFollowPushes ==
    UpToDate("alarms") => screen.shown["alarms"] >= noticed.alarms

\* The same of the status.  It is not so: a push before the first answer is
\* ignored, a later one is overwritten by an answer read before it, and a
\* status that is not stale is not queried again on that connection.
StatusFollowsPushes ==
    UpToDate("status") => screen.shown["status"] >= noticed.status
================================================================================
