---------------------------- MODULE CandidateEvents ----------------------------
(***************************************************************************)
(* The candidate state machine of event/src/candidate_event.cpp: for each  *)
(* camera it turns detection results, manual triggers and the external     *)
(* confirmation input into candidate events, decides each of them once     *)
(* (Confirmed, Rejected or Timeout), and after a decision keeps the camera *)
(* from raising another automatic candidate until the paper is quiet.      *)
(*                                                                         *)
(* The manager has no clock of its own.  Every call brings a time, and the *)
(* only order the code relies on is the one it checks, so calls of         *)
(* different operations bring times of Times in any order here too.        *)
(*                                                                         *)
(* Left out: the pre-buffer lease an event holds (module EventWindows),    *)
(* wall clock times, the counts that are only reported, and calls the      *)
(* manager refuses without touching a tracker.                             *)
(***************************************************************************)
EXTENDS Integers, FiniteSets

CONSTANTS
    Cameras,              \* the logical cameras bound to the manager
    Times,                \* monotonic times that calls may bring
    CandidateFrames,      \* triggered results in a row that make a candidate
    ConfirmationDuration, \* how long strong results must last to confirm
    ProcessingPeriod,     \* nominal distance of two results of a camera
    CandidateTimeout,     \* from the candidate's trigger to its deadline
    Cooldown,             \* from a decision to the end of its cooldown
    RearmDuration,        \* how long normal results must last to rearm
    ExternalRequired      \* TRUE when an active external input is needed too

\* What CandidateEventManager::create refuses to be without.
ASSUME ConfigAssumption ==
    /\ Times \subseteq Nat
    /\ CandidateFrames \in Nat \ {0}
    /\ ConfirmationDuration \in Nat \ {0}
    /\ ProcessingPeriod \in Nat \ {0}
    /\ CandidateTimeout \in Nat
    /\ ConfirmationDuration <= CandidateTimeout
    /\ Cooldown \in Nat
    /\ RearmDuration \in Nat
    /\ ExternalRequired \in BOOLEAN

ASSUME CamerasAssumption == IsFiniteSet(Cameras) /\ Cameras # {}

VARIABLES
    tracker,   \* CameraTracker of every camera
    counts,    \* events created, and decided by outcome
    stopped

vars == <<tracker, counts, stopped>>

-----------------------------------------------------------------------------
(* Values *)

NoTime == -1                       \* an empty std::optional<MonotonicTime>
Stamps == Nat \cup {NoTime}

Outcomes == {"confirmed", "rejected", "timeout"}
States   == {"idle", "suspicious", "candidate"} \cup Outcomes

\* level is the confidence against the two thresholds: 0 is below both, 1 is
\* enough for a candidate, 2 is enough to confirm as well.  Nothing reads the
\* confidence of a result that did not trigger.
Results ==
    {r \in [time : Times, triggered : BOOLEAN, manual : BOOLEAN, level : 0 .. 2] :
        ~r.triggered => ~r.manual /\ r.level = 0}

\* A tracker without an event holds NoEvent; a real event has version >= 1.
NoEvent ==
    [trigger |-> NoTime, manual |-> FALSE, deadline |-> NoTime, version |-> 0,
     decision |-> "none", decidedAt |-> NoTime]

Events ==
    [trigger : Stamps, manual : BOOLEAN, deadline : Stamps, version : Nat,
     decision : Outcomes \cup {"none"}, decidedAt : Stamps]

\* streak stops counting at CandidateFrames, the only value it is compared with.
Trackers ==
    [state : States, streak : 0 .. CandidateFrames,
     confirmStart : Stamps, confirmLast : Stamps,
     signalActive : BOOLEAN, signalTime : Stamps,
     cooldown : Stamps, rearm : BOOLEAN,
     recoveryStart : Stamps, recoveryLast : Stamps,
     last : Stamps, event : Events]

NewTracker ==
    [state |-> "idle", streak |-> 0,
     confirmStart |-> NoTime, confirmLast |-> NoTime,
     signalActive |-> FALSE, signalTime |-> NoTime,
     cooldown |-> NoTime, rearm |-> FALSE,
     recoveryStart |-> NoTime, recoveryLast |-> NoTime,
     last |-> NoTime, event |-> NoEvent]

NoCounts == [created |-> 0, confirmed |-> 0, rejected |-> 0, timeout |-> 0]

-----------------------------------------------------------------------------
(* The confirmation and recovery intervals of one tracker *)

CandidateEligible(r) == r.triggered /\ (r.manual \/ r.level >= 1)
ConfirmationEligible(r) == r.triggered /\ r.level = 2

\* Two observations further apart than this do not belong to one interval.
Interrupted(since, now) == now - since > 2 * ProcessingPeriod

ResetConfirmation(k) ==
    [k EXCEPT !.confirmStart = NoTime, !.confirmLast = NoTime]

ObserveConfirmation(k, r) ==
    IF ConfirmationEligible(r)
    THEN [k EXCEPT !.confirmStart =
                       IF @ = NoTime \/ Interrupted(k.confirmLast, r.time)
                       THEN r.time ELSE @,
                   !.confirmLast = r.time]
    ELSE ResetConfirmation(k)

ConfirmationFresh(k, now) ==
    /\ k.confirmLast # NoTime
    /\ now >= k.confirmLast
    /\ ~Interrupted(k.confirmLast, now)

\* Mutant of ConfirmationSatisfied: an interval that ended long ago confirms.
ConfirmationSatisfiedStale(k, now) ==
    /\ k.confirmStart # NoTime
    /\ now - k.confirmStart >= ConfirmationDuration
    /\ ExternalRequired => k.signalActive

ConfirmationSatisfied(k, now) ==
    /\ k.confirmStart # NoTime
    /\ now - k.confirmStart >= ConfirmationDuration
    /\ ConfirmationFresh(k, now)
    /\ ExternalRequired => k.signalActive

ResetRecovery(k) ==
    [k EXCEPT !.recoveryStart = NoTime, !.recoveryLast = NoTime]

\* Mutant of ObserveNormal: a gap does not start the quiet interval over.
ObserveNormalAcrossGaps(k, r) ==
    [k EXCEPT !.recoveryStart = IF @ = NoTime THEN r.time ELSE @,
              !.recoveryLast = r.time,
              !.cooldown = IF r.time >= @ THEN NoTime ELSE @]

\* A normal result extends the quiet interval, or starts it after a gap.
ObserveNormal(k, r) ==
    [k EXCEPT !.recoveryStart =
                  IF @ = NoTime \/ Interrupted(k.recoveryLast, r.time)
                  THEN r.time ELSE @,
              !.recoveryLast = r.time,
              !.cooldown = IF r.time >= @ THEN NoTime ELSE @]

\* A normal result that completes the quiet interval outside the cooldown
\* rearms the camera; a triggered one starts the wait over.
ObserveRecovery(k, r) ==
    LET seen == ObserveNormal(k, r)
    IN  IF r.triggered THEN ResetRecovery(k)
        ELSE IF /\ seen.cooldown = NoTime
                /\ r.time - seen.recoveryStart >= RearmDuration
             THEN ResetRecovery([seen EXCEPT !.rearm = FALSE])
             ELSE seen

LatchRearm(k) == ResetRecovery([k EXCEPT !.rearm = TRUE])

-----------------------------------------------------------------------------
(* Creating, deciding and clearing an event *)

TransitionDecision(k, outcome, now) ==
    LatchRearm([k EXCEPT !.state = outcome,
                         !.event.version = @ + 1,
                         !.event.decision = outcome,
                         !.event.decidedAt = now,
                         !.cooldown = now + Cooldown])

CreateCandidate(k, r) ==
    [k EXCEPT !.state = "candidate",
              !.event = [trigger |-> r.time, manual |-> r.manual,
                         deadline |-> r.time + CandidateTimeout, version |-> 1,
                         decision |-> "none", decidedAt |-> NoTime]]

\* confirm_from_result: the decision carries the later of the two times.
DecisionTime(k, r) ==
    IF ExternalRequired /\ k.signalTime > r.time THEN k.signalTime ELSE r.time

ConfirmFromResult(k, r) ==
    IF ConfirmationSatisfied(k, r.time)
    THEN TransitionDecision(k, "confirmed", DecisionTime(k, r))
    ELSE k

Overdue(k, now) == k.state = "candidate" /\ now >= k.event.deadline

\* Mutant of ExpireCandidate: the deadline itself is still in time.
ExpireCandidateLate(k, now) ==
    IF Overdue(k, now) /\ now # k.event.deadline
    THEN TransitionDecision(k, "timeout", now) ELSE k

ExpireCandidate(k, now) ==
    IF Overdue(k, now) THEN TransitionDecision(k, "timeout", now) ELSE k

\* Back to idle: no event, no streak, no confirmation interval.
GoIdle(k) ==
    ResetConfirmation([k EXCEPT !.state = "idle", !.streak = 0, !.event = NoEvent])

ClearDecided(k) == IF k.state \in Outcomes THEN GoIdle(k) ELSE k

\* A manual trigger is not held back by an earlier decision.
ManualOverride(k, r) ==
    IF k.rearm /\ r.manual
    THEN ResetRecovery([k EXCEPT !.rearm = FALSE, !.cooldown = NoTime])
    ELSE k

\* What process does to the tracker before it looks at the result's kind.
Settled(k, r) ==
    ManualOverride(
        ClearDecided(ExpireCandidate([k EXCEPT !.last = r.time], r.time)), r)

LongerStreak(k) ==
    [k EXCEPT !.streak = IF @ < CandidateFrames THEN @ + 1 ELSE @]

-----------------------------------------------------------------------------
(* process(result): one action per branch of the code *)

One(p) == IF p THEN 1 ELSE 0

\* k is what the tracker of c becomes; made tells that an event was created.
Processed(c, r, k, made) ==
    /\ tracker' = [tracker EXCEPT ![c] = k]
    /\ counts' = [counts EXCEPT
                     !.created = @ + One(made),
                     !.confirmed = @ + One(k.state = "confirmed"),
                     !.timeout = @ + One(Overdue(tracker[c], r.time))]
    /\ UNCHANGED stopped

\* Results that come twice or out of order are refused before they count.
Accepts(c, r) == ~stopped /\ r.time > tracker[c].last

\* A camera that waits to be rearmed only looks for the quiet interval.
ProcessRearming(c, r) ==
    LET k == Settled(tracker[c], r) IN
    /\ Accepts(c, r)
    /\ k.rearm
    /\ Processed(c, r, ObserveRecovery(GoIdle(k), r), FALSE)

\* A triggered result of a camera with a candidate may confirm it.
ProcessCandidateEligible(c, r) ==
    LET k == Settled(tracker[c], r) IN
    /\ Accepts(c, r)
    /\ ~k.rearm
    /\ k.state = "candidate"
    /\ CandidateEligible(r)
    /\ Processed(c, r,
           ConfirmFromResult(ObserveConfirmation(LongerStreak(k), r), r), FALSE)

\* Any other result leaves the candidate waiting and its interval empty.
ProcessCandidateIneligible(c, r) ==
    LET k == Settled(tracker[c], r) IN
    /\ Accepts(c, r)
    /\ ~k.rearm
    /\ k.state = "candidate"
    /\ ~CandidateEligible(r)
    /\ Processed(c, r, ResetConfirmation([k EXCEPT !.streak = 0]), FALSE)

ProcessIneligible(c, r) ==
    LET k == Settled(tracker[c], r) IN
    /\ Accepts(c, r)
    /\ ~k.rearm
    /\ k.state # "candidate"
    /\ ~CandidateEligible(r)
    /\ Processed(c, r, GoIdle(k), FALSE)

\* The tracker of an idle or suspicious camera after an eligible result.
Suspect(k, r) ==
    ObserveConfirmation(LongerStreak([k EXCEPT !.state = "suspicious"]), r)

ReachesCandidate(k, r) == r.manual \/ k.streak >= CandidateFrames

\* The streak is too short for a candidate, or the identifier generator
\* failed: the camera stays suspicious either way.
ProcessSuspicious(c, r, generated) ==
    LET k == Settled(tracker[c], r) IN
    /\ Accepts(c, r)
    /\ ~k.rearm
    /\ k.state # "candidate"
    /\ CandidateEligible(r)
    /\ ~(ReachesCandidate(Suspect(k, r), r) /\ generated)
    /\ Processed(c, r, Suspect(k, r), FALSE)

ProcessTriggered(c, r) ==
    LET k == Settled(tracker[c], r) IN
    /\ Accepts(c, r)
    /\ ~k.rearm
    /\ k.state # "candidate"
    /\ CandidateEligible(r)
    /\ ReachesCandidate(Suspect(k, r), r)
    /\ Processed(c, r, ConfirmFromResult(CreateCandidate(Suspect(k, r), r), r), TRUE)

Process(c, r) ==
    \/ ProcessRearming(c, r)
    \/ ProcessCandidateEligible(c, r)
    \/ ProcessCandidateIneligible(c, r)
    \/ ProcessIneligible(c, r)
    \/ \E generated \in BOOLEAN : ProcessSuspicious(c, r, generated)
    \/ ProcessTriggered(c, r)

-----------------------------------------------------------------------------
(* The other operations *)

\* update_external_signal: the deadline first, then the signal, and only then
\* the question whether the interval confirms.
ExternalSignal(c, active, now) ==
    LET signalled == [ExpireCandidate(tracker[c], now) EXCEPT
                         !.signalActive = active, !.signalTime = now]
        confirms  == /\ signalled.state = "candidate"
                     /\ ConfirmationSatisfied(signalled, now)
    IN  /\ ~stopped
        /\ now >= tracker[c].signalTime
        /\ now >= tracker[c].last
        /\ tracker' = [tracker EXCEPT ![c] =
               IF confirms THEN TransitionDecision(signalled, "confirmed", now)
               ELSE signalled]
        /\ counts' = [counts EXCEPT
               !.confirmed = @ + One(confirms),
               !.timeout = @ + One(Overdue(tracker[c], now))]
        /\ UNCHANGED stopped

\* confirm and reject: a command that comes at or after the deadline times the
\* candidate out instead.
DecisionCommand(c, target, expected, now) ==
    LET k == tracker[c]
        outcome == IF now >= k.event.deadline THEN "timeout" ELSE target
    IN  /\ ~stopped
        /\ k.state = "candidate"
        /\ expected = k.event.version
        /\ now >= k.event.trigger
        /\ tracker' = [tracker EXCEPT ![c] = TransitionDecision(k, outcome, now)]
        /\ counts' = [counts EXCEPT ![outcome] = @ + 1]
        /\ UNCHANGED stopped

AdvanceTime(now) ==
    LET overdue == {c \in Cameras : Overdue(tracker[c], now)}
    IN  /\ ~stopped
        /\ overdue # {}
        /\ tracker' = [c \in Cameras |-> ExpireCandidate(tracker[c], now)]
        /\ counts' = [counts EXCEPT !.timeout = @ + Cardinality(overdue)]
        /\ UNCHANGED stopped

\* stop: an undecided candidate times out, early if need be.
StopTracker(k, now) ==
    CASE k.state = "candidate" ->
             TransitionDecision(k, "timeout",
                 IF now >= k.event.trigger THEN now ELSE k.event.trigger)
      [] k.state = "suspicious" -> GoIdle(k)
      [] OTHER -> k

Stop(now) ==
    LET open == {c \in Cameras : tracker[c].state = "candidate"}
    IN  /\ ~stopped
        /\ stopped' = TRUE
        /\ tracker' = [c \in Cameras |-> StopTracker(tracker[c], now)]
        /\ counts' = [counts EXCEPT !.timeout = @ + Cardinality(open)]

\* rearm_seeds of the stopped manager at the time of its last frame, applied
\* to its successor.  The successor's frames are received after the drain, so
\* the model keeps that time as the one its results must pass.
Reseeded(k, now) ==
    [NewTracker EXCEPT
        !.rearm = k.rearm,
        !.cooldown = IF k.rearm /\ k.cooldown > now THEN k.cooldown ELSE NoTime,
        !.last = now]

Reconfigure(now) ==
    /\ stopped
    /\ \A c \in Cameras : now >= tracker[c].last
    /\ tracker' = [c \in Cameras |-> Reseeded(tracker[c], now)]
    /\ counts' = NoCounts
    /\ stopped' = FALSE

-----------------------------------------------------------------------------

Init ==
    /\ tracker = [c \in Cameras |-> NewTracker]
    /\ counts = NoCounts
    /\ stopped = FALSE

Next ==
    \/ \E c \in Cameras, r \in Results : Process(c, r)
    \/ \E c \in Cameras, active \in BOOLEAN, now \in Times :
           ExternalSignal(c, active, now)
    \/ \E c \in Cameras, target \in {"confirmed", "rejected"},
          expected \in 1 .. 2, now \in Times :
           DecisionCommand(c, target, expected, now)
    \/ \E now \in Times : AdvanceTime(now)
    \/ \E now \in Times : Stop(now)
    \/ \E now \in Times : Reconfigure(now)

Spec == Init /\ [][Next]_vars

-----------------------------------------------------------------------------
(* Properties *)

TypeOK ==
    /\ tracker \in [Cameras -> Trackers]
    /\ counts \in [created : Nat, confirmed : Nat, rejected : Nat, timeout : Nat]
    /\ stopped \in BOOLEAN

\* A camera holds an event exactly while it is a candidate or decided, the
\* event is decided exactly in the decided states, and no camera that holds a
\* candidate, or watches for one, is in a cooldown.
TrackerCoherent(k) ==
    /\ k.event.version = (CASE k.state \in {"idle", "suspicious"} -> 0
                            [] k.state = "candidate" -> 1
                            [] OTHER -> 2)
    /\ k.event.decision = (IF k.state \in Outcomes THEN k.state ELSE "none")
    /\ k.state \in Outcomes => k.rearm
    /\ k.state \in {"suspicious", "candidate"} => ~k.rearm
    /\ k.cooldown # NoTime => k.rearm
    /\ k.recoveryStart # NoTime => k.rearm
    /\ k.state = "idle" => k.streak = 0 /\ k.confirmStart = NoTime
    /\ k.confirmStart = NoTime <=> k.confirmLast = NoTime
    /\ k.recoveryStart = NoTime <=> k.recoveryLast = NoTime

EventMatchesState == \A c \in Cameras : TrackerCoherent(tracker[c])

\* Every event that was created is either a camera's open candidate or was
\* counted once under one outcome: no path decides an event twice, drops one
\* undecided, or decides one that was never created.
OpenCandidates == {c \in Cameras : tracker[c].state = "candidate"}

DecidedOnce ==
    counts.created = counts.confirmed + counts.rejected + counts.timeout
                     + Cardinality(OpenCandidates)

\* Only stop times a candidate out before its deadline, and no candidate is
\* decided before the result that made it.
NoEarlyTimeout ==
    \A c \in Cameras :
        LET e == tracker[c].event IN
        e.decision # "none" =>
            /\ e.decidedAt >= e.trigger
            /\ e.decision = "timeout" /\ ~stopped => e.decidedAt >= e.deadline

\* A decided event is never decided again or edited.  It leaves its tracker
\* only for no event or for one that a later result triggered.
DecisionIsFinal ==
    [][\A c \in Cameras :
           LET e == tracker[c].event IN
           e.decision # "none" =>
               \/ tracker'[c].event \in {e, NoEvent}
               \/ tracker'[c].event.trigger > e.trigger]_vars

=============================================================================
