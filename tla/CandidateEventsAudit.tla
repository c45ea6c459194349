------------------------- MODULE CandidateEventsAudit -------------------------
(***************************************************************************)
(* CandidateEvents with a record of what each camera's results really      *)
(* were.  The manager keeps a few time stamps instead of the results; the  *)
(* properties here compare its decisions with the results themselves.      *)
(* The auxiliary variables watch the actions and never restrict them.      *)
(*                                                                         *)
(* Explicit confirm commands are left out: they need no detection results, *)
(* and the event runtime never issues them.  Results come at all Times;    *)
(* signals, commands, clock ticks, stops and reconfigurations at Moments   *)
(* among them, which a small instance may make fewer.                      *)
(***************************************************************************)
EXTENDS CandidateEvents

CONSTANT Moments  \* bound: the times of everything but a result

ASSUME MomentsAssumption == Moments \subseteq Times

VARIABLES
    heard,    \* heard[c][t]: the kind of c's result at t since its last decision
    decided   \* decided[c]: the time of c's last decision no manual result lifted

auditVars == <<tracker, counts, stopped, heard, decided>>

Kinds == {"absent", "normal", "weak", "strong"}

Kind(r) ==
    CASE ~r.triggered -> "normal"
      [] ConfirmationEligible(r) -> "strong"
      [] OTHER -> "weak"

Silence == [t \in Times |-> "absent"]

\* From its first result until now, the camera's results are all of one kind,
\* and none of them is further than two processing periods from the next one.
SustainedRun(results, kind, first, now) ==
    /\ results[first] = kind
    /\ \A t \in Times :
           first <= t /\ t <= now /\ results[t] # "absent" =>
               /\ results[t] = kind
               /\ \/ now - t <= 2 * ProcessingPeriod
                  \/ \E u \in Times : /\ t < u
                                      /\ u - t <= 2 * ProcessingPeriod
                                      /\ results[u] # "absent"

\* The time a step decides c's event at, or NoTime when it decides nothing.
\* A manual result can clear a decided event in the step that decides it.
NewlyDecided(c) ==
    /\ tracker'[c].event # tracker[c].event
    /\ tracker'[c].event.decision # "none"

DecisionAt(c, now) ==
    CASE NewlyDecided(c) -> tracker'[c].event.decidedAt
      [] tracker[c].state = "candidate" /\ tracker'[c].state \notin Outcomes
             /\ tracker'[c].event # tracker[c].event -> now
      [] OTHER -> NoTime

AuditResult(c, r) ==
    LET at == DecisionAt(c, r.time)
        seen == IF at = NoTime THEN heard[c] ELSE Silence
    IN  /\ heard' = [heard EXCEPT ![c] = [seen EXCEPT ![r.time] = Kind(r)]]
        /\ decided' = [decided EXCEPT ![c] =
               IF r.manual /\ ~NewlyDecided(c) THEN NoTime
               ELSE IF at = NoTime THEN @ ELSE at]

AuditOther(now) ==
    /\ heard' = [c \in Cameras |->
           IF DecisionAt(c, now) = NoTime THEN heard[c] ELSE Silence]
    /\ decided' = [c \in Cameras |->
           IF DecisionAt(c, now) = NoTime THEN decided[c] ELSE DecisionAt(c, now)]

AuditInit ==
    /\ Init
    /\ heard = [c \in Cameras |-> Silence]
    /\ decided = [c \in Cameras |-> NoTime]

AuditNext ==
    \/ \E c \in Cameras, r \in Results : Process(c, r) /\ AuditResult(c, r)
    \/ \E c \in Cameras, active \in BOOLEAN, now \in Moments :
           ExternalSignal(c, active, now) /\ AuditOther(now)
    \/ \E c \in Cameras, expected \in 1 .. 2, now \in Moments :
           DecisionCommand(c, "rejected", expected, now) /\ AuditOther(now)
    \/ \E now \in Moments : AdvanceTime(now) /\ AuditOther(now)
    \/ \E now \in Moments : Stop(now) /\ AuditOther(now)
    \/ \E now \in Moments : Reconfigure(now) /\ UNCHANGED <<heard, decided>>

AuditSpec == AuditInit /\ [][AuditNext]_auditVars

-----------------------------------------------------------------------------
(* Properties *)

\* What the manager heard up to a step, the step's own result included.
HeardBy(c) ==
    LET now == tracker'[c].last IN
    IF now = tracker[c].last THEN heard[c]
    ELSE [heard[c] EXCEPT ![now] = heard'[c][now]]

\* After a decision an automatic candidate needs proof that the paper ran
\* normally again: an uninterrupted run of normal results of at least
\* RearmDuration whose last one lies outside the cooldown.  A manual result
\* is the only way around this; a reconfiguration is not.
RearmedByQuiet ==
    [][\A c \in Cameras :
           LET e == tracker'[c].event IN
           /\ e.version = 1
           /\ e # tracker[c].event
           /\ ~e.manual
           /\ decided'[c] # NoTime
           => \E first, last \in Times :
                  /\ last - first >= RearmDuration
                  /\ last >= decided'[c] + Cooldown
                  /\ SustainedRun(heard'[c], "normal", first, last)
                  /\ heard'[c][last] = "normal"]_auditVars

\* An event is confirmed only on evidence of ConfirmationDuration: strong
\* results without a weaker one or a gap among them up to the call that
\* confirms, and the external input active then if it is required.
ConfirmedOnEvidence ==
    [][\A c \in Cameras :
           LET now == IF tracker'[c].last # tracker[c].last
                      THEN tracker'[c].last ELSE tracker'[c].signalTime
           IN  NewlyDecided(c) /\ tracker'[c].state = "confirmed" =>
                   /\ ExternalRequired => tracker'[c].signalActive
                   /\ \E first \in Times :
                          /\ now - first >= ConfirmationDuration
                          /\ SustainedRun(HeardBy(c), "strong", first, now)]_auditVars

=============================================================================
