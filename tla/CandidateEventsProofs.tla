------------------------- MODULE CandidateEventsProofs -------------------------
(***************************************************************************)
(* Proofs about CandidateEvents: its trackers stay coherent, every event   *)
(* is decided once, an automatic candidate comes only after the quiet that *)
(* the last decision asks for, and a confirmation only after strong        *)
(* results.  They hold for every number of cameras, every set of times and *)
(* every configuration that CandidateEventManager::create accepts.         *)
(***************************************************************************)
EXTENDS CandidateEventsAudit, FiniteSetTheorems, TLAPS

Good(k) == k \in Trackers /\ TrackerCoherent(k)

USE ConfigAssumption

-----------------------------------------------------------------------------
(* The operators on one tracker *)

LEMMA NewTrackerGood == Good(NewTracker)
  BY DEF Good, NewTracker, Trackers, TrackerCoherent, NoEvent, Events, States,
         Outcomes, Stamps, NoTime

\* Emptying the two intervals keeps a tracker good.
LEMMA ResetConfirmationGood ==
  ASSUME NEW k, Good(k)
  PROVE  Good(ResetConfirmation(k))
  BY DEF Good, ResetConfirmation, Trackers, TrackerCoherent, Stamps, NoTime

LEMMA ResetRecoveryGood ==
  ASSUME NEW k, Good(k)
  PROVE  Good(ResetRecovery(k))
  BY DEF Good, ResetRecovery, Trackers, TrackerCoherent, Stamps, NoTime

\* Deciding the event of a candidate gives a decided tracker that waits to be
\* rearmed.
LEMMA TransitionDecisionGood ==
  ASSUME NEW k, Good(k), k.state = "candidate",
         NEW outcome \in Outcomes, NEW now \in Nat
  PROVE  /\ Good(TransitionDecision(k, outcome, now))
         /\ TransitionDecision(k, outcome, now).state = outcome
  <1> DEFINE event == [k.event EXCEPT !.version = @ + 1, !.decision = outcome,
                                      !.decidedAt = now]
             next == [k EXCEPT !.state = outcome, !.event = event,
                               !.cooldown = now + Cooldown, !.rearm = TRUE,
                               !.recoveryStart = NoTime, !.recoveryLast = NoTime]
  <1>1. k \in Trackers /\ k.event \in Events /\ k.event.version = 1
    BY DEF Good, Trackers, TrackerCoherent, Outcomes
  <1>2. TransitionDecision(k, outcome, now) = next
    BY <1>1 DEF TransitionDecision, LatchRearm, ResetRecovery, Trackers, Events
  <1>3. event.version = 2 /\ event.decision = outcome
    BY <1>1 DEF Events
  <1>3a. event \in Events
    <2>1. k.event.version + 1 \in Nat
      BY <1>1
    <2>2. outcome \in Outcomes \cup {"none"} /\ now \in Stamps
      BY DEF Stamps
    <2> QED
      BY <1>1, <2>1, <2>2 DEF Events
  <1>4. now + Cooldown \in Stamps /\ NoTime \in Stamps /\ outcome \in States
    BY DEF Stamps, States
  <1>5. next \in Trackers
    BY <1>1, <1>3a, <1>4 DEF Trackers
  <1> HIDE DEF event
  <1>6. TrackerCoherent(next) /\ next.state = outcome
    BY <1>1, <1>3 DEF Good, TrackerCoherent, Trackers, Outcomes
  <1> QED
    BY <1>2, <1>5, <1>6 DEF Good

LEMMA GoIdleGood ==
  ASSUME NEW k, Good(k)
  PROVE  Good(GoIdle(k)) /\ GoIdle(k).state = "idle" /\ GoIdle(k).rearm = k.rearm
  <1> DEFINE next == [k EXCEPT !.state = "idle", !.streak = 0, !.event = NoEvent,
                               !.confirmStart = NoTime, !.confirmLast = NoTime]
  <1>1. k \in Trackers /\ TrackerCoherent(k)
    BY DEF Good
  <1>2. GoIdle(k) = next
    BY <1>1 DEF GoIdle, ResetConfirmation, Trackers
  <1>3. /\ NoEvent \in Events /\ NoEvent.version = 0 /\ NoEvent.decision = "none"
        /\ NoTime \in Stamps /\ "idle" \in States /\ 0 \in 0 .. CandidateFrames
    BY DEF NoEvent, Events, Stamps, NoTime, States
  <1>4. next \in Trackers
    BY <1>1, <1>3 DEF Trackers
  <1>5. TrackerCoherent(next) /\ next.state = "idle" /\ next.rearm = k.rearm
    BY <1>1, <1>3 DEF TrackerCoherent, Trackers, Outcomes
  <1> QED
    BY <1>2, <1>4, <1>5 DEF Good

\* An observation for the confirmation interval is possible in any state but
\* idle, and changes nothing else.
LEMMA ObserveConfirmationGood ==
  ASSUME NEW k, Good(k), k.state # "idle", NEW r \in Results
  PROVE  /\ Good(ObserveConfirmation(k, r))
         /\ ObserveConfirmation(k, r).state = k.state
         /\ ObserveConfirmation(k, r).rearm = k.rearm
         /\ ObserveConfirmation(k, r).streak = k.streak
  <1>1. CASE ConfirmationEligible(r)
    <2> DEFINE start == IF k.confirmStart = NoTime \/ Interrupted(k.confirmLast, r.time)
                        THEN r.time ELSE k.confirmStart
               next == [k EXCEPT !.confirmStart = start, !.confirmLast = r.time]
    <2>1. k \in Trackers /\ TrackerCoherent(k)
      BY DEF Good
    <2>2. ObserveConfirmation(k, r) = next
      BY <1>1, <2>1 DEF ObserveConfirmation, Trackers
    <2>3. r.time \in Nat /\ start \in Nat
      BY <2>1 DEF Results, Trackers, Stamps
    <2> HIDE DEF start
    <2>4. next \in Trackers
      BY <2>1, <2>3 DEF Trackers, Stamps
    <2>5. TrackerCoherent(next)
      BY <2>1, <2>3 DEF TrackerCoherent, Trackers, NoTime
    <2> QED
      BY <2>1, <2>2, <2>4, <2>5 DEF Good, Trackers
  <1>2. CASE ~ConfirmationEligible(r)
    BY <1>2, ResetConfirmationGood DEF ObserveConfirmation, ResetConfirmation, Good, Trackers
  <1> QED
    BY <1>1, <1>2

\* Watching for the quiet interval is only done while the camera waits for it.
LEMMA ObserveRecoveryGood ==
  ASSUME NEW k, Good(k), k.state = "idle", k.rearm, NEW r \in Results
  PROVE  Good(ObserveRecovery(k, r)) /\ ObserveRecovery(k, r).state = "idle"
  <1> DEFINE start == IF k.recoveryStart = NoTime \/ Interrupted(k.recoveryLast, r.time)
                      THEN r.time ELSE k.recoveryStart
             cool == IF r.time >= k.cooldown THEN NoTime ELSE k.cooldown
             seen == [k EXCEPT !.recoveryStart = start, !.recoveryLast = r.time,
                               !.cooldown = cool]
  <1>1. k \in Trackers /\ TrackerCoherent(k)
    BY DEF Good
  <1>2. r.time \in Nat /\ start \in Nat /\ cool \in Stamps
    BY <1>1 DEF Results, Trackers, Stamps
  <1>3. ObserveNormal(k, r) = seen
    BY <1>1 DEF ObserveNormal, Trackers
  <1> HIDE DEF start, cool
  <1>4. seen \in Trackers
    BY <1>1, <1>2 DEF Trackers, Stamps
  <1>5. TrackerCoherent(seen)
    BY <1>1, <1>2 DEF TrackerCoherent, Trackers, NoTime, Outcomes
  <1>6. CASE r.triggered
    BY <1>1, <1>6, ResetRecoveryGood DEF ObserveRecovery, ResetRecovery, Trackers
  <1>7. CASE ~r.triggered /\ seen.cooldown = NoTime
             /\ r.time - seen.recoveryStart >= RearmDuration
    <2> DEFINE done == [k EXCEPT !.recoveryStart = NoTime, !.recoveryLast = NoTime,
                                 !.cooldown = NoTime, !.rearm = FALSE]
    <2>1. ObserveRecovery(k, r) = done
      BY <1>1, <1>3, <1>7 DEF ObserveRecovery, ResetRecovery, Trackers
    <2>2. done \in Trackers
      BY <1>1 DEF Trackers, Stamps
    <2>3. TrackerCoherent(done) /\ done.state = "idle"
      BY <1>1 DEF TrackerCoherent, Trackers, Outcomes
    <2> QED
      BY <2>1, <2>2, <2>3 DEF Good
  <1>8. CASE ~r.triggered /\ ~(seen.cooldown = NoTime
             /\ r.time - seen.recoveryStart >= RearmDuration)
    BY <1>1, <1>3, <1>4, <1>5, <1>8 DEF ObserveRecovery, Good, Trackers
  <1> QED
    BY <1>6, <1>7, <1>8

LEMMA CreateCandidateGood ==
  ASSUME NEW k, Good(k), k.state = "suspicious", NEW r \in Results
  PROVE  Good(CreateCandidate(k, r)) /\ CreateCandidate(k, r).state = "candidate"
  <1> DEFINE event == [trigger |-> r.time, manual |-> r.manual,
                       deadline |-> r.time + CandidateTimeout, version |-> 1,
                       decision |-> "none", decidedAt |-> NoTime]
             next == [k EXCEPT !.state = "candidate", !.event = event]
  <1>1. k \in Trackers /\ TrackerCoherent(k)
    BY DEF Good
  <1>2. CreateCandidate(k, r) = next
    BY DEF CreateCandidate
  <1>3. event \in Events /\ event.version = 1 /\ event.decision = "none"
    <2>1. r.time \in Nat /\ r.manual \in BOOLEAN
      BY DEF Results
    <2>2. r.time + CandidateTimeout \in Nat /\ NoTime \in Stamps
      BY <2>1 DEF Stamps
    <2> QED
      BY <2>1, <2>2 DEF Events, Stamps
  <1> HIDE DEF event
  <1>4. next \in Trackers
    BY <1>1, <1>3 DEF Trackers, States
  <1>5. TrackerCoherent(next) /\ next.state = "candidate"
    BY <1>1, <1>3 DEF TrackerCoherent, Trackers, Outcomes
  <1> QED
    BY <1>2, <1>4, <1>5 DEF Good

LEMMA ConfirmFromResultGood ==
  ASSUME NEW k, Good(k), k.state = "candidate", NEW r \in Results
  PROVE  /\ Good(ConfirmFromResult(k, r))
         /\ ConfirmFromResult(k, r).state \in {"candidate", "confirmed"}
  <1>1. DecisionTime(k, r) \in Nat
    <2>1. r.time \in Nat /\ k.signalTime \in Nat \cup {-1}
      BY DEF Good, Trackers, Stamps, Results, NoTime
    <2> QED
      BY <2>1 DEF DecisionTime
  <1> QED
    BY <1>1, TransitionDecisionGood DEF ConfirmFromResult, Outcomes

LEMMA ExpireCandidateGood ==
  ASSUME NEW k, Good(k), NEW now \in Nat
  PROVE  /\ Good(ExpireCandidate(k, now))
         /\ Overdue(k, now) => ExpireCandidate(k, now).state = "timeout"
         /\ ~Overdue(k, now) => ExpireCandidate(k, now) = k
  BY TransitionDecisionGood DEF ExpireCandidate, Overdue, Outcomes

LEMMA ClearDecidedGood ==
  ASSUME NEW k, Good(k)
  PROVE  /\ Good(ClearDecided(k))
         /\ ClearDecided(k).state = IF k.state \in Outcomes THEN "idle" ELSE k.state
  BY GoIdleGood DEF ClearDecided

LEMMA ManualOverrideGood ==
  ASSUME NEW k, Good(k), k.state \notin Outcomes, NEW r \in Results
  PROVE  Good(ManualOverride(k, r)) /\ ManualOverride(k, r).state = k.state
  <1> DEFINE next == [k EXCEPT !.rearm = FALSE, !.cooldown = NoTime,
                               !.recoveryStart = NoTime, !.recoveryLast = NoTime]
  <1>1. k \in Trackers /\ TrackerCoherent(k)
    BY DEF Good
  <1>2. next \in Trackers
    BY <1>1 DEF Trackers, Stamps
  <1>3. TrackerCoherent(next) /\ next.state = k.state
    BY <1>1 DEF TrackerCoherent, Trackers
  <1>4. CASE k.rearm /\ r.manual
    <2>1. ManualOverride(k, r) = next
      BY <1>1, <1>4 DEF ManualOverride, ResetRecovery, Trackers
    <2> QED
      BY <2>1, <1>2, <1>3 DEF Good
  <1> QED
    BY <1>4 DEF ManualOverride

\* A settled tracker is undecided.  It is a candidate exactly when it was one
\* whose deadline the result has not reached.
LEMMA SettledGood ==
  ASSUME NEW k, Good(k), NEW r \in Results
  PROVE  /\ Good(Settled(k, r))
         /\ Settled(k, r).state \notin Outcomes
         /\ Settled(k, r).state = "candidate"
              <=> k.state = "candidate" /\ ~Overdue(k, r.time)
  <1> DEFINE a == [k EXCEPT !.last = r.time]
             b == ExpireCandidate(a, r.time)
             d == ClearDecided(b)
  <1>1. r.time \in Nat
    BY DEF Results
  <1>2. Good(a) /\ a.state = k.state /\ Overdue(a, r.time) = Overdue(k, r.time)
    BY <1>1 DEF Good, Trackers, TrackerCoherent, Overdue, Stamps
  <1> HIDE DEF a
  <1>3. Good(b)
    BY <1>1, <1>2, ExpireCandidateGood
  <1>4. (Overdue(a, r.time) => b.state = "timeout") /\ (~Overdue(a, r.time) => b = a)
    BY <1>1, <1>2, ExpireCandidateGood
  <1> HIDE DEF b
  <1>5. Good(d) /\ d.state = IF b.state \in Outcomes THEN "idle" ELSE b.state
    BY <1>3, ClearDecidedGood
  <1> HIDE DEF d
  <1>6. d.state \notin Outcomes
    BY <1>5 DEF Outcomes
  <1>7. Good(ManualOverride(d, r)) /\ ManualOverride(d, r).state = d.state
    BY <1>5, <1>6, ManualOverrideGood
  <1>8. Settled(k, r) = ManualOverride(d, r)
    BY DEF Settled, a, b, d
  <1>9. d.state = "candidate" <=> k.state = "candidate" /\ ~Overdue(k, r.time)
    BY <1>2, <1>4, <1>5 DEF Outcomes
  <1> QED
    BY <1>6, <1>7, <1>8, <1>9

LEMMA LongerStreakGood ==
  ASSUME NEW k, Good(k), k.state # "idle"
  PROVE  /\ Good(LongerStreak(k))
         /\ LongerStreak(k).state = k.state
         /\ LongerStreak(k).rearm = k.rearm
  BY DEF Good, LongerStreak, Trackers, TrackerCoherent, Outcomes

LEMMA SuspectGood ==
  ASSUME NEW k, Good(k), k.state \in {"idle", "suspicious"}, ~k.rearm,
         NEW r \in Results
  PROVE  Good(Suspect(k, r)) /\ Suspect(k, r).state = "suspicious"
  <1> DEFINE a == [k EXCEPT !.state = "suspicious"]
  <1>1. Good(a) /\ a.state = "suspicious"
    BY DEF Good, Trackers, TrackerCoherent, States, Outcomes
  <1> HIDE DEF a
  <1>2. Good(LongerStreak(a)) /\ LongerStreak(a).state = "suspicious"
    BY <1>1, LongerStreakGood
  <1> QED
    BY <1>2, ObserveConfirmationGood DEF Suspect, a

-----------------------------------------------------------------------------
(* The actions.  One camera's step is described by Replaced: its tracker    *)
(* becomes a good k, and the counts move by what was created and decided.   *)

IInv == TypeOK /\ EventMatchesState

LEMMA GoodTrackers ==
  IInv <=> /\ tracker \in [Cameras -> Trackers]
           /\ \A c \in Cameras : Good(tracker[c])
           /\ counts \in [created : Nat, confirmed : Nat, rejected : Nat, timeout : Nat]
           /\ stopped \in BOOLEAN
  BY DEF IInv, TypeOK, EventMatchesState, Good

Undecided == counts.created - (counts.confirmed + counts.rejected + counts.timeout)

CountsOK ==
  counts \in [created : Nat, confirmed : Nat, rejected : Nat, timeout : Nat]

\* The balance of one camera's step: what it adds to the events created and
\* not decided is what it adds to the camera's open candidates.
Replaced(c, k) ==
  /\ Good(k)
  /\ tracker' = [tracker EXCEPT ![c] = k]
  /\ stopped' = stopped
  /\ CountsOK'
  /\ Undecided' - Undecided =
        One(k.state = "candidate") - One(tracker[c].state = "candidate")

\* The counts a result adds to.
LEMMA ProcessedReplaces ==
  ASSUME IInv, NEW c \in Cameras, NEW r \in Results, NEW k, Good(k),
         NEW made \in BOOLEAN, Processed(c, r, k, made),
         One(made) - One(k.state = "confirmed") - One(Overdue(tracker[c], r.time))
           = One(k.state = "candidate") - One(tracker[c].state = "candidate")
  PROVE  Replaced(c, k)
  <1> DEFINE x == One(made)
             y == One(k.state = "confirmed")
             z == One(Overdue(tracker[c], r.time))
  <1>1. x \in Nat /\ y \in Nat /\ z \in Nat
    BY DEF One
  <1>2. CountsOK
    BY DEF IInv, TypeOK, CountsOK
  <1>3. counts' = [counts EXCEPT !.created = @ + x, !.confirmed = @ + y,
                                 !.timeout = @ + z]
    BY DEF Processed
  <1> HIDE DEF x, y, z
  <1>4. CountsOK' /\ Undecided' - Undecided = x - y - z
    <2>1. /\ counts.created \in Nat /\ counts.confirmed \in Nat
          /\ counts.rejected \in Nat /\ counts.timeout \in Nat
      BY <1>2 DEF CountsOK
    <2>2. /\ counts'.created = counts.created + x
          /\ counts'.confirmed = counts.confirmed + y
          /\ counts'.rejected = counts.rejected
          /\ counts'.timeout = counts.timeout + z
      BY <1>2, <1>3 DEF CountsOK
    <2>3. CountsOK'
      <3>1. /\ counts.created + x \in Nat /\ counts.confirmed + y \in Nat
            /\ counts.timeout + z \in Nat
        BY <1>1, <2>1
      <3> QED
        BY <1>2, <1>3, <3>1 DEF CountsOK
    <2> QED
      BY <1>1, <2>1, <2>2, <2>3 DEF Undecided
  <1> QED
    BY <1>4 DEF Replaced, Processed, x, y, z

\* process(result), branch by branch.
LEMMA ProcessReplaces ==
  ASSUME IInv, NEW c \in Cameras, NEW r \in Results, Process(c, r)
  PROVE  \E k : Replaced(c, k)
  <1> DEFINE old == tracker[c]
             set == Settled(old, r)
             cand == old.state = "candidate"
             late == Overdue(old, r.time)
  <1>1. Good(old)
    BY GoodTrackers
  <1>2. /\ Good(set)
        /\ set.state \notin Outcomes
        /\ set.state = "candidate" <=> cand /\ ~late
    BY <1>1, SettledGood
  <1>3. late => cand
    BY DEF Overdue
  <1>4. (set.rearm => set.state \notin {"suspicious", "candidate"}) /\ set.state \in States
    BY <1>2 DEF Good, TrackerCoherent, Trackers
  <1> HIDE DEF set, late
  <1>5. CASE ProcessRearming(c, r)
    <2> DEFINE k == ObserveRecovery(GoIdle(set), r)
    <2>1. set.rearm /\ Processed(c, r, k, FALSE)
      BY <1>5 DEF ProcessRearming, set
    <2>2. Good(GoIdle(set)) /\ GoIdle(set).state = "idle" /\ GoIdle(set).rearm
      BY <1>2, <2>1, GoIdleGood
    <2>3. Good(k) /\ k.state = "idle"
      BY <2>2, ObserveRecoveryGood
    <2>4. cand <=> late
      BY <1>2, <1>3, <1>4, <2>1
    <2> HIDE DEF k
    <2>5. One(FALSE) - One(k.state = "confirmed") - One(late)
            = One(k.state = "candidate") - One(cand)
      BY <2>3, <2>4 DEF One
    <2> QED
      BY <2>1, <2>3, <2>5, ProcessedReplaces DEF late
  <1>6. CASE ProcessCandidateEligible(c, r)
    <2> DEFINE seen == ObserveConfirmation(LongerStreak(set), r)
               k == ConfirmFromResult(seen, r)
    <2>1. set.state = "candidate" /\ Processed(c, r, k, FALSE)
      BY <1>6 DEF ProcessCandidateEligible, set
    <2>2. Good(LongerStreak(set)) /\ LongerStreak(set).state = "candidate"
      BY <1>2, <2>1, LongerStreakGood
    <2>3. Good(seen) /\ seen.state = "candidate"
      BY <2>2, ObserveConfirmationGood
    <2> HIDE DEF seen
    <2>4. Good(k) /\ k.state \in {"candidate", "confirmed"}
      BY <2>3, ConfirmFromResultGood
    <2> HIDE DEF k
    <2>5. One(FALSE) - One(k.state = "confirmed") - One(late)
            = One(k.state = "candidate") - One(cand)
      BY <1>2, <2>1, <2>4 DEF One
    <2> QED
      BY <2>1, <2>4, <2>5, ProcessedReplaces DEF late
  <1>7. CASE ProcessCandidateIneligible(c, r)
    <2> DEFINE broken == [set EXCEPT !.streak = 0]
               k == ResetConfirmation(broken)
    <2>1. set.state = "candidate" /\ Processed(c, r, k, FALSE)
      BY <1>7 DEF ProcessCandidateIneligible, set
    <2>2. Good(broken) /\ broken.state = "candidate"
      BY <1>2, <2>1 DEF Good, Trackers, TrackerCoherent
    <2>3. Good(k)
      BY <2>2, ResetConfirmationGood
    <2>4. k.state = "candidate"
      BY <2>2 DEF ResetConfirmation, Good, Trackers
    <2> HIDE DEF k
    <2>5. One(FALSE) - One(k.state = "confirmed") - One(late)
            = One(k.state = "candidate") - One(cand)
      BY <1>2, <2>1, <2>4 DEF One
    <2> QED
      BY <2>1, <2>3, <2>5, ProcessedReplaces DEF late
  <1>8. CASE ProcessIneligible(c, r)
    <2> DEFINE k == GoIdle(set)
    <2>1. set.state # "candidate" /\ Processed(c, r, k, FALSE)
      BY <1>8 DEF ProcessIneligible, set
    <2>2. Good(k) /\ k.state = "idle"
      BY <1>2, GoIdleGood
    <2> HIDE DEF k
    <2>3. One(FALSE) - One(k.state = "confirmed") - One(late)
            = One(k.state = "candidate") - One(cand)
      BY <1>2, <1>3, <2>1, <2>2 DEF One
    <2> QED
      BY <2>1, <2>2, <2>3, ProcessedReplaces DEF late
  <1>9. CASE \E generated \in BOOLEAN : ProcessSuspicious(c, r, generated)
    <2> DEFINE k == Suspect(set, r)
    <2>1. set.state # "candidate" /\ ~set.rearm /\ Processed(c, r, k, FALSE)
      BY <1>9 DEF ProcessSuspicious, set
    <2>2. Good(k) /\ k.state = "suspicious"
      BY <1>2, <1>4, <2>1, SuspectGood DEF States
    <2> HIDE DEF k
    <2>3. One(FALSE) - One(k.state = "confirmed") - One(late)
            = One(k.state = "candidate") - One(cand)
      BY <1>2, <1>3, <2>1, <2>2 DEF One
    <2> QED
      BY <2>1, <2>2, <2>3, ProcessedReplaces DEF late
  <1>10. CASE ProcessTriggered(c, r)
    <2> DEFINE a == Suspect(set, r)
               b == CreateCandidate(a, r)
               k == ConfirmFromResult(b, r)
    <2>1. set.state # "candidate" /\ ~set.rearm /\ Processed(c, r, k, TRUE)
      BY <1>10 DEF ProcessTriggered, set
    <2>2. Good(a) /\ a.state = "suspicious"
      BY <1>2, <1>4, <2>1, SuspectGood DEF States
    <2> HIDE DEF a
    <2>3. Good(b) /\ b.state = "candidate"
      BY <2>2, CreateCandidateGood
    <2> HIDE DEF b
    <2>4. Good(k) /\ k.state \in {"candidate", "confirmed"}
      BY <2>3, ConfirmFromResultGood
    <2> HIDE DEF k
    <2>5. One(TRUE) - One(k.state = "confirmed") - One(late)
            = One(k.state = "candidate") - One(cand)
      BY <1>2, <1>3, <2>1, <2>4 DEF One
    <2> QED
      BY <2>1, <2>4, <2>5, ProcessedReplaces DEF late
  <1> QED
    BY <1>5, <1>6, <1>7, <1>8, <1>9, <1>10 DEF Process

\* The same for the signal and the commands.
LEMMA ExternalSignalReplaces ==
  ASSUME IInv, NEW c \in Cameras, NEW active \in BOOLEAN, NEW now \in Times,
         ExternalSignal(c, active, now)
  PROVE  \E k : Replaced(c, k)
  <1> DEFINE old == tracker[c]
             settled == ExpireCandidate(old, now)
             signalled == [settled EXCEPT !.signalActive = active, !.signalTime = now]
             confirms == /\ signalled.state = "candidate"
                         /\ ConfirmationSatisfied(signalled, now)
             k == IF confirms THEN TransitionDecision(signalled, "confirmed", now)
                  ELSE signalled
             y == One(confirms)
             z == One(Overdue(old, now))
  <1>1. Good(old) /\ CountsOK
    BY GoodTrackers DEF CountsOK
  <1>2. now \in Nat
    OBVIOUS
  <1>3. /\ Good(settled)
        /\ Overdue(old, now) => settled.state = "timeout"
        /\ ~Overdue(old, now) => settled = old
    BY <1>1, <1>2, ExpireCandidateGood
  <1> HIDE DEF settled
  <1>4. Good(signalled) /\ signalled.state = settled.state
    BY <1>2, <1>3 DEF Good, Trackers, TrackerCoherent, Stamps
  <1>5. /\ tracker' = [tracker EXCEPT ![c] = k]
        /\ counts' = [counts EXCEPT !.confirmed = @ + y, !.timeout = @ + z]
        /\ stopped' = stopped
    BY DEF ExternalSignal, settled
  <1> HIDE DEF signalled
  <1>6. /\ Good(k)
        /\ confirms => k.state = "confirmed"
        /\ ~confirms => k.state = settled.state
    BY <1>2, <1>4, TransitionDecisionGood DEF Outcomes
  <1>7. confirms => settled.state = "candidate"
    BY <1>4
  <1>8. Overdue(old, now) => old.state = "candidate"
    BY DEF Overdue
  <1>9. y \in Nat /\ z \in Nat
    BY DEF One
  <1> HIDE DEF k, confirms
  <1>10. -y - z = One(k.state = "candidate") - One(old.state = "candidate")
    BY <1>3, <1>6, <1>7, <1>8 DEF One
  <1> HIDE DEF y, z
  <1>11. CountsOK' /\ Undecided' - Undecided = -y - z
    <2>1. /\ counts.created \in Nat /\ counts.confirmed \in Nat
          /\ counts.rejected \in Nat /\ counts.timeout \in Nat
      BY <1>1 DEF CountsOK
    <2>2. /\ counts'.created = counts.created
          /\ counts'.confirmed = counts.confirmed + y
          /\ counts'.rejected = counts.rejected
          /\ counts'.timeout = counts.timeout + z
      BY <1>1, <1>5 DEF CountsOK
    <2>3. counts.confirmed + y \in Nat /\ counts.timeout + z \in Nat
      BY <1>9, <2>1
    <2>4. CountsOK'
      BY <1>1, <1>5, <2>3 DEF CountsOK
    <2> QED
      BY <1>9, <2>1, <2>2, <2>4 DEF Undecided
  <1> QED
    BY <1>5, <1>6, <1>10, <1>11 DEF Replaced

LEMMA DecisionCommandReplaces ==
  ASSUME IInv, NEW c \in Cameras, NEW target \in {"confirmed", "rejected"},
         NEW expected \in 1 .. 2, NEW now \in Times,
         DecisionCommand(c, target, expected, now)
  PROVE  \E k : Replaced(c, k)
  <1> DEFINE outcome == IF now >= tracker[c].event.deadline THEN "timeout" ELSE target
             k == TransitionDecision(tracker[c], outcome, now)
  <1>1. Good(tracker[c]) /\ CountsOK
    BY GoodTrackers DEF CountsOK
  <1>2. /\ tracker[c].state = "candidate"
        /\ tracker' = [tracker EXCEPT ![c] = k]
        /\ counts' = [counts EXCEPT ![outcome] = @ + 1]
        /\ stopped' = stopped
    BY DEF DecisionCommand
  <1>3. outcome \in Outcomes /\ now \in Nat
    BY DEF Outcomes
  <1> HIDE DEF outcome
  <1>4. Good(k) /\ k.state = outcome
    BY <1>1, <1>2, <1>3, TransitionDecisionGood
  <1> HIDE DEF k
  <1>5. CountsOK' /\ Undecided' - Undecided = -1
    <2>1. /\ counts.created \in Nat /\ counts.confirmed \in Nat
          /\ counts.rejected \in Nat /\ counts.timeout \in Nat
      BY <1>1 DEF CountsOK
    <2>2. CASE outcome = "confirmed"
      <3>1. counts' = [counts EXCEPT !.confirmed = counts.confirmed + 1]
        BY <1>2, <2>2
      <3>2. CountsOK'
        BY <1>1, <2>1, <3>1 DEF CountsOK
      <3> QED
        BY <1>1, <2>1, <3>1, <3>2 DEF Undecided, CountsOK
    <2>3. CASE outcome = "rejected"
      <3>1. counts' = [counts EXCEPT !.rejected = counts.rejected + 1]
        BY <1>2, <2>3
      <3>2. CountsOK'
        BY <1>1, <2>1, <3>1 DEF CountsOK
      <3> QED
        BY <1>1, <2>1, <3>1, <3>2 DEF Undecided, CountsOK
    <2>4. CASE outcome = "timeout"
      <3>1. counts' = [counts EXCEPT !.timeout = counts.timeout + 1]
        BY <1>2, <2>4
      <3>2. CountsOK'
        BY <1>1, <2>1, <3>1 DEF CountsOK
      <3> QED
        BY <1>1, <2>1, <3>1, <3>2 DEF Undecided, CountsOK
    <2> QED
      BY <1>3, <2>2, <2>3, <2>4 DEF Outcomes
  <1>6. One(k.state = "candidate") - One(tracker[c].state = "candidate") = -1
    BY <1>2, <1>3, <1>4 DEF One, Outcomes
  <1> QED
    BY <1>2, <1>4, <1>5, <1>6 DEF Replaced

-----------------------------------------------------------------------------
(* The invariants *)

DecidedInv == IInv /\ Undecided = Cardinality(OpenCandidates)

LEMMA DecidedInvGivesDecidedOnce == DecidedInv => DecidedOnce
  <1> SUFFICES ASSUME DecidedInv PROVE DecidedOnce
    OBVIOUS
  <1>1. IsFiniteSet(OpenCandidates)
    BY CamerasAssumption, FS_Subset DEF OpenCandidates
  <1>2. Cardinality(OpenCandidates) \in Nat
    BY <1>1, FS_CardinalityType
  <1>3. /\ counts.created \in Nat /\ counts.confirmed \in Nat
        /\ counts.rejected \in Nat /\ counts.timeout \in Nat
    BY DEF DecidedInv, IInv, TypeOK
  <1> QED
    BY <1>2, <1>3 DEF DecidedInv, Undecided, DecidedOnce

\* One camera's step: every other tracker stays as it is, and the camera
\* enters or leaves the open candidates as the counts say.
LEMMA ReplacedKeeps ==
  ASSUME DecidedInv, NEW c \in Cameras, NEW k, Replaced(c, k)
  PROVE  DecidedInv'
  <1>1. /\ tracker \in [Cameras -> Trackers]
        /\ \A d \in Cameras : Good(tracker[d])
        /\ stopped \in BOOLEAN
    BY GoodTrackers DEF DecidedInv
  <1>2. /\ Good(k) /\ tracker' = [tracker EXCEPT ![c] = k] /\ stopped' = stopped
        /\ CountsOK'
    BY DEF Replaced
  <1>3. IInv'
    <2>1. \A d \in Cameras : tracker'[d] = IF d = c THEN k ELSE tracker[d]
      BY <1>1, <1>2
    <2>2. tracker' \in [Cameras -> Trackers]
      BY <1>1, <1>2 DEF Good
    <2>3. EventMatchesState'
      BY <1>1, <1>2, <2>1 DEF EventMatchesState, Good
    <2> QED
      BY <1>1, <1>2, <2>2, <2>3 DEF IInv, TypeOK, CountsOK
  <1> DEFINE Open == OpenCandidates
             others == OpenCandidates \ {c}
  <1>4. IsFiniteSet(Open) /\ IsFiniteSet(others)
    BY CamerasAssumption, FS_Subset DEF OpenCandidates
  <1>5. Cardinality(Open) = Cardinality(others) + One(tracker[c].state = "candidate")
    <2>1. CASE tracker[c].state = "candidate"
      <3>1. c \in Open
        BY <2>1 DEF OpenCandidates
      <3>2. Cardinality(others) = Cardinality(Open) - 1
        BY <1>4, <3>1, FS_RemoveElement
      <3>3. Cardinality(Open) \in Nat
        BY <1>4, FS_CardinalityType
      <3>4. Cardinality(others) + 1 = Cardinality(Open)
        BY <3>2, <3>3
      <3> QED
        BY <2>1, <3>4 DEF One
    <2>2. CASE tracker[c].state # "candidate"
      <3>1. others = Open
        BY <2>2 DEF OpenCandidates
      <3>2. Cardinality(Open) \in Nat /\ Cardinality(others) = Cardinality(Open)
        BY <1>4, <3>1, FS_CardinalityType
      <3> QED
        BY <2>2, <3>2 DEF One
    <2> QED
      BY <2>1, <2>2
  <1>6. Cardinality(Open') = Cardinality(others) + One(k.state = "candidate")
    <2>1. c \notin others
      OBVIOUS
    <2>2. CASE k.state = "candidate"
      <3>1. Open' = others \cup {c}
        BY <1>1, <1>2, <2>2 DEF OpenCandidates
      <3> QED
        BY <1>4, <2>1, <2>2, <3>1, FS_AddElement DEF One
    <2>3. CASE k.state # "candidate"
      <3>1. Open' = others
        BY <1>1, <1>2, <2>3 DEF OpenCandidates
      <3> QED
        BY <1>4, <2>3, <3>1, FS_CardinalityType DEF One
    <2> QED
      BY <2>2, <2>3
  <1>7. Undecided = Cardinality(Open) /\ Undecided \in Int /\ Undecided' \in Int
    BY <1>3 DEF DecidedInv, IInv, TypeOK, Undecided
  <1>8. Undecided' - Undecided =
          One(k.state = "candidate") - One(tracker[c].state = "candidate")
    BY DEF Replaced
  <1>9. Cardinality(others) \in Nat /\ One(k.state = "candidate") \in Nat
        /\ One(tracker[c].state = "candidate") \in Nat
    BY <1>4, FS_CardinalityType DEF One
  <1>10. Undecided' = Cardinality(Open')
    BY <1>5, <1>6, <1>7, <1>8, <1>9
  <1> QED
    BY <1>3, <1>10 DEF DecidedInv

\* The steps that reach every camera at once: those of late leave the open
\* candidates, and each of them was counted.
LEMMA TimedOutKeeps ==
  ASSUME DecidedInv, NEW late, late \subseteq OpenCandidates,
         tracker' \in [Cameras -> Trackers],
         \A c \in Cameras : Good(tracker'[c]),
         OpenCandidates' = OpenCandidates \ late,
         counts' = [counts EXCEPT !.timeout = @ + Cardinality(late)],
         stopped' \in BOOLEAN
  PROVE  DecidedInv'
  <1>1. IsFiniteSet(OpenCandidates) /\ IsFiniteSet(late)
    BY CamerasAssumption, FS_Subset DEF OpenCandidates
  <1>2. OpenCandidates \cap late = late
    OBVIOUS
  <1>3. Cardinality(OpenCandidates') = Cardinality(OpenCandidates) - Cardinality(late)
    BY <1>1, <1>2, FS_Difference
  <1> DEFINE n == Cardinality(late)
             m == Cardinality(OpenCandidates)
  <1>4. n \in Nat /\ m \in Nat
    BY <1>1, FS_CardinalityType
  <1>5. /\ counts.created \in Nat /\ counts.confirmed \in Nat
        /\ counts.rejected \in Nat /\ counts.timeout \in Nat /\ CountsOK
    BY DEF DecidedInv, IInv, TypeOK, CountsOK
  <1>6. counts' = [counts EXCEPT !.timeout = @ + n] /\ Undecided = m
    BY DEF DecidedInv
  <1>7. Cardinality(OpenCandidates') = m - n
    BY <1>3
  <1> HIDE DEF n, m
  <1>8. /\ counts'.created = counts.created
        /\ counts'.confirmed = counts.confirmed
        /\ counts'.rejected = counts.rejected
        /\ counts'.timeout = counts.timeout + n
    BY <1>5, <1>6 DEF CountsOK
  <1>9. CountsOK'
    <2>1. counts.timeout + n \in Nat
      BY <1>4, <1>5
    <2> QED
      BY <1>5, <1>6, <2>1 DEF CountsOK
  <1>10. Undecided' = Cardinality(OpenCandidates')
    BY <1>4, <1>5, <1>6, <1>7, <1>8 DEF Undecided
  <1>11. IInv'
    BY <1>9 DEF IInv, TypeOK, EventMatchesState, Good, CountsOK
  <1> QED
    BY <1>10, <1>11 DEF DecidedInv

LEMMA AdvanceTimeKeeps ==
  ASSUME DecidedInv, NEW now \in Times, AdvanceTime(now)
  PROVE  DecidedInv'
  <1> DEFINE overdue == {c \in Cameras : Overdue(tracker[c], now)}
  <1>1. \A c \in Cameras : Good(tracker[c])
    BY GoodTrackers DEF DecidedInv
  <1>2. /\ tracker' = [c \in Cameras |-> ExpireCandidate(tracker[c], now)]
        /\ counts' = [counts EXCEPT !.timeout = @ + Cardinality(overdue)]
        /\ stopped' \in BOOLEAN
    BY DEF AdvanceTime, DecidedInv, IInv, TypeOK
  <1>3. \A c \in Cameras :
          /\ Good(tracker'[c])
          /\ Overdue(tracker[c], now) => tracker'[c].state = "timeout"
          /\ ~Overdue(tracker[c], now) => tracker'[c] = tracker[c]
    BY <1>1, <1>2, ExpireCandidateGood
  <1>4. tracker' \in [Cameras -> Trackers]
    BY <1>2, <1>3 DEF Good
  <1>5. overdue \subseteq OpenCandidates /\ OpenCandidates' = OpenCandidates \ overdue
    BY <1>3 DEF OpenCandidates, Overdue
  <1> QED
    BY <1>2, <1>3, <1>4, <1>5, TimedOutKeeps

LEMMA StopKeeps ==
  ASSUME DecidedInv, NEW now \in Times, Stop(now)
  PROVE  DecidedInv'
  <1>1. \A c \in Cameras : Good(tracker[c])
    BY GoodTrackers DEF DecidedInv
  <1>2. /\ tracker' = [c \in Cameras |-> StopTracker(tracker[c], now)]
        /\ counts' = [counts EXCEPT !.timeout = @ + Cardinality(OpenCandidates)]
        /\ stopped' \in BOOLEAN
    BY DEF Stop, OpenCandidates
  <1>3. ASSUME NEW c \in Cameras
        PROVE  Good(tracker'[c]) /\ tracker'[c].state # "candidate"
    <2> DEFINE k == tracker[c]
               at == IF now >= k.event.trigger THEN now ELSE k.event.trigger
    <2>1. Good(k) /\ now \in Nat
      BY <1>1
    <2>2. at \in Nat
      BY <2>1 DEF Good, Trackers, Events, Stamps, NoTime
    <2>3. tracker'[c] = StopTracker(k, now)
      BY <1>2
    <2> HIDE DEF k
    <2>4. CASE k.state = "candidate"
      <3>1. tracker'[c] = TransitionDecision(k, "timeout", at)
        BY <2>3, <2>4 DEF StopTracker
      <3> HIDE DEF at
      <3> QED
        BY <2>1, <2>2, <2>4, <3>1, TransitionDecisionGood DEF Outcomes
    <2>5. CASE k.state = "suspicious"
      BY <2>1, <2>3, <2>5, GoIdleGood DEF StopTracker
    <2>6. CASE k.state \notin {"candidate", "suspicious"}
      BY <2>1, <2>3, <2>6 DEF StopTracker
    <2> QED
      BY <2>4, <2>5, <2>6
  <1>4. tracker' \in [Cameras -> Trackers]
    BY <1>2, <1>3 DEF Good
  <1>5. OpenCandidates' = OpenCandidates \ OpenCandidates
    BY <1>3 DEF OpenCandidates
  <1> QED
    BY <1>2, <1>3, <1>4, <1>5, TimedOutKeeps

\* A manager without an event has counted nothing.
LEMMA FreshKeeps ==
  ASSUME tracker \in [Cameras -> Trackers],
         \A c \in Cameras : Good(tracker[c]) /\ tracker[c].state = "idle",
         counts = NoCounts, stopped = FALSE
  PROVE  DecidedInv
  <1>1. OpenCandidates = {}
    BY DEF OpenCandidates
  <1>2. Cardinality(OpenCandidates) = 0
    BY <1>1, FS_EmptySet
  <1>3. Undecided = 0 /\ CountsOK
    BY DEF NoCounts, Undecided, CountsOK
  <1> QED
    BY <1>2, <1>3, GoodTrackers DEF DecidedInv, CountsOK

LEMMA ReseededGood ==
  ASSUME NEW k, Good(k), NEW now \in Nat
  PROVE  Good(Reseeded(k, now)) /\ Reseeded(k, now).state = "idle"
  <1> DEFINE cool == IF k.rearm /\ k.cooldown > now THEN k.cooldown ELSE NoTime
             next == [NewTracker EXCEPT !.rearm = k.rearm, !.cooldown = cool, !.last = now]
  <1>1. k.rearm \in BOOLEAN /\ cool \in Stamps /\ (cool # NoTime => k.rearm)
    BY DEF Good, Trackers, Stamps
  <1>2. Reseeded(k, now) = next
    BY DEF Reseeded
  <1> HIDE DEF cool
  <1>3. NewTracker \in Trackers /\ TrackerCoherent(NewTracker)
    BY NewTrackerGood DEF Good
  <1>4. next \in Trackers
    BY <1>1, <1>3 DEF Trackers, Stamps
  <1>5. NewTracker.state = "idle" /\ NewTracker.recoveryStart = NoTime
    BY DEF NewTracker
  <1>6. TrackerCoherent(next) /\ next.state = "idle"
    BY <1>1, <1>3, <1>5 DEF TrackerCoherent, Trackers, Outcomes
  <1> QED
    BY <1>2, <1>4, <1>6 DEF Good

LEMMA ReconfigureKeeps ==
  ASSUME DecidedInv, NEW now \in Times, Reconfigure(now)
  PROVE  DecidedInv'
  <1>1. \A c \in Cameras : Good(tracker[c])
    BY GoodTrackers DEF DecidedInv
  <1>2. /\ tracker' = [c \in Cameras |-> Reseeded(tracker[c], now)]
        /\ counts' = NoCounts /\ stopped' = FALSE
    BY DEF Reconfigure
  <1>3. \A c \in Cameras : Good(tracker'[c]) /\ tracker'[c].state = "idle"
    BY <1>1, <1>2, ReseededGood
  <1>4. OpenCandidates' = {}
    BY <1>3 DEF OpenCandidates
  <1>5. Cardinality(OpenCandidates') = 0
    BY <1>4, FS_EmptySet
  <1>6. Undecided' = 0 /\ CountsOK'
    BY <1>2 DEF NoCounts, Undecided, CountsOK
  <1>7. IInv'
    BY <1>2, <1>3, <1>6 DEF IInv, TypeOK, EventMatchesState, Good, CountsOK
  <1> QED
    BY <1>5, <1>6, <1>7 DEF DecidedInv

LEMMA InitDecidedInv == Init => DecidedInv
  <1> SUFFICES ASSUME Init PROVE DecidedInv
    OBVIOUS
  <1>1. tracker = [c \in Cameras |-> NewTracker]
    BY DEF Init
  <1>2. \A c \in Cameras : Good(tracker[c]) /\ tracker[c].state = "idle"
    BY <1>1, NewTrackerGood DEF NewTracker
  <1>3. tracker \in [Cameras -> Trackers]
    BY <1>1, NewTrackerGood DEF Good
  <1> QED
    BY <1>2, <1>3, FreshKeeps DEF Init

LEMMA NextDecidedInv == DecidedInv /\ [Next]_vars => DecidedInv'
  <1> SUFFICES ASSUME DecidedInv, [Next]_vars PROVE DecidedInv'
    OBVIOUS
  <1>0. IInv
    BY DEF DecidedInv
  <1>1. ASSUME NEW c \in Cameras, NEW r \in Results, Process(c, r)
        PROVE  DecidedInv'
    <2>1. PICK k : Replaced(c, k)
      BY <1>0, <1>1, ProcessReplaces
    <2> QED
      BY <2>1, ReplacedKeeps
  <1>2. ASSUME NEW c \in Cameras, NEW active \in BOOLEAN, NEW now \in Times,
               ExternalSignal(c, active, now)
        PROVE  DecidedInv'
    <2>1. PICK k : Replaced(c, k)
      BY <1>0, <1>2, ExternalSignalReplaces
    <2> QED
      BY <2>1, ReplacedKeeps
  <1>3. ASSUME NEW c \in Cameras, NEW target \in {"confirmed", "rejected"},
               NEW expected \in 1 .. 2, NEW now \in Times,
               DecisionCommand(c, target, expected, now)
        PROVE  DecidedInv'
    <2>1. PICK k : Replaced(c, k)
      BY <1>0, <1>3, DecisionCommandReplaces
    <2> QED
      BY <2>1, ReplacedKeeps
  <1>4. ASSUME NEW now \in Times, AdvanceTime(now)
        PROVE  DecidedInv'
    BY <1>4, AdvanceTimeKeeps
  <1>5. ASSUME NEW now \in Times, Stop(now)
        PROVE  DecidedInv'
    BY <1>5, StopKeeps
  <1>6. ASSUME NEW now \in Times, Reconfigure(now)
        PROVE  DecidedInv'
    BY <1>6, ReconfigureKeeps
  <1>7. CASE UNCHANGED vars
    <2>1. tracker' = tracker /\ counts' = counts /\ stopped' = stopped
      BY <1>7 DEF vars
    <2>2. OpenCandidates' = OpenCandidates /\ Undecided' = Undecided
      BY <2>1 DEF OpenCandidates, Undecided
    <2>3. IInv'
      BY <1>0, <2>1 DEF IInv, TypeOK, EventMatchesState, TrackerCoherent
    <2> QED
      BY <2>2, <2>3 DEF DecidedInv
  <1> QED
    BY <1>1, <1>2, <1>3, <1>4, <1>5, <1>6, <1>7 DEF Next

-----------------------------------------------------------------------------

THEOREM DecidedInvAlways == Spec => []DecidedInv
  BY InitDecidedInv, NextDecidedInv, PTL DEF Spec

\* The variables keep their types in every reachable state.
THEOREM TypeCorrect == Spec => []TypeOK
  BY DecidedInvAlways, PTL DEF DecidedInv, IInv

\* In every reachable state a camera's event, its decision, its rearm latch
\* and its intervals agree with the camera's state.
THEOREM TrackersStayCoherent == Spec => []EventMatchesState
  BY DecidedInvAlways, PTL DEF DecidedInv, IInv

\* Every event that was created is an open candidate or was counted once under
\* one outcome: process, signals, commands, the clock and stop together never
\* lose one or decide one twice.
THEOREM EveryEventDecidedOnce == Spec => []DecidedOnce
  BY DecidedInvAlways, DecidedInvGivesDecidedOnce, PTL


-----------------------------------------------------------------------------
(* The results a camera has had, and the few time stamps its tracker keeps *)
(* of them.                                                                *)

Heard == [Times -> Kinds]

UpTo(h, t) == \A s \in Times : h[s] # "absent" => s <= t

\* The results end in a run of one kind from first to last.
EndsInRun(h, kind, first, last) ==
  /\ first \in Times /\ last \in Times /\ first <= last
  /\ h[last] = kind
  /\ SustainedRun(h, kind, first, last)
  /\ UpTo(h, last)

\* The two intervals of a tracker are runs of the camera's results.
ConfirmationHeard(k, h) ==
  k.state \in {"suspicious", "candidate"} /\ k.confirmStart # NoTime =>
      EndsInRun(h, "strong", k.confirmStart, k.confirmLast)

RecoveryHeard(k, h) ==
  k.recoveryStart # NoTime =>
      EndsInRun(h, "normal", k.recoveryStart, k.recoveryLast)

\* While a camera waits, its cooldown runs from its last decision or is over.
CooldownKept(k, d) ==
  k.rearm /\ d # NoTime =>
      \/ k.cooldown = d + Cooldown
      \/ k.cooldown = NoTime /\ k.last >= d + Cooldown

QuietAfter(h, d) ==
  \E first, last \in Times :
      /\ last - first >= RearmDuration
      /\ last >= d + Cooldown
      /\ SustainedRun(h, "normal", first, last)
      /\ h[last] = "normal"

\* A camera that does not wait any more has been quiet.
RearmEarned(k, h, d) == ~k.rearm /\ d # NoTime => QuietAfter(h, d)

Audited(k, h, d) ==
  /\ h \in Heard /\ d \in Stamps
  /\ UpTo(h, k.last)
  /\ ConfirmationHeard(k, h)
  /\ RecoveryHeard(k, h)
  /\ CooldownKept(k, d)
  /\ RearmEarned(k, h, d)

AuditInv ==
  /\ heard \in [Cameras -> Heard] /\ decided \in [Cameras -> Stamps]
  /\ \A c \in Cameras : Audited(tracker[c], heard[c], decided[c])

-----------------------------------------------------------------------------
(* Runs of results *)

LEMMA SilenceHeard ==
  ASSUME NEW t
  PROVE  Silence \in Heard /\ UpTo(Silence, t)
  BY DEF Silence, Heard, Kinds, UpTo

LEMMA Recorded ==
  ASSUME NEW h \in Heard, NEW last \in Stamps, UpTo(h, last),
         NEW now \in Times, now > last, NEW kind \in Kinds
  PROVE  /\ [h EXCEPT ![now] = kind] \in Heard
         /\ [h EXCEPT ![now] = kind][now] = kind
         /\ \A t \in Times \ {now} : [h EXCEPT ![now] = kind][t] = h[t]
         /\ UpTo([h EXCEPT ![now] = kind], now)
         /\ h[now] = "absent"
  <1>1. \A t \in Times : t \in Nat /\ (h[t] # "absent" => t <= last)
    BY DEF UpTo
  <1>2. last \in Int /\ now \in Int
    BY DEF Stamps, NoTime
  <1> QED
    BY <1>1, <1>2 DEF Heard, UpTo

\* A result starts a run ...
LEMMA RunBegins ==
  ASSUME NEW h \in Heard, NEW last \in Stamps, UpTo(h, last),
         NEW now \in Times, now > last, NEW kind \in Kinds
  PROVE  EndsInRun([h EXCEPT ![now] = kind], kind, now, now)
  <1>1. PICK g : g = [h EXCEPT ![now] = kind]
    OBVIOUS
  <1>2. g[now] = kind /\ UpTo(g, now)
    <2>1. [h EXCEPT ![now] = kind][now] = kind /\ UpTo([h EXCEPT ![now] = kind], now)
      BY Recorded
    <2> QED
      BY <1>1, <2>1
  <1>3. SustainedRun(g, kind, now, now)
    BY <1>2 DEF SustainedRun
  <1> QED
    BY <1>1, <1>2, <1>3 DEF EndsInRun

\* ... or continues the one before it, if it is near enough.
LEMMA RunContinues ==
  ASSUME NEW h \in Heard, NEW kind \in Kinds \ {"absent"}, NEW first, NEW last,
         EndsInRun(h, kind, first, last),
         NEW now \in Times, now > last, ~Interrupted(last, now)
  PROVE  EndsInRun([h EXCEPT ![now] = kind], kind, first, now)
  <1>1. PICK g : g = [h EXCEPT ![now] = kind]
    OBVIOUS
  <1>2. /\ first \in Nat /\ last \in Nat /\ now \in Nat /\ first <= last
        /\ first \in Times /\ last \in Times /\ last \in Stamps
        /\ h[last] = kind /\ SustainedRun(h, kind, first, last) /\ UpTo(h, last)
    BY DEF EndsInRun, Stamps
  <1>3. g[now] = kind /\ UpTo(g, now) /\ \A t \in Times \ {now} : g[t] = h[t]
    <2>1. /\ [h EXCEPT ![now] = kind][now] = kind /\ UpTo([h EXCEPT ![now] = kind], now)
          /\ \A t \in Times \ {now} : [h EXCEPT ![now] = kind][t] = h[t]
      BY <1>2, Recorded
    <2> QED
      BY <1>1, <2>1
  <1>4. now - last <= 2 * ProcessingPeriod
    BY <1>2 DEF Interrupted
  <1>5. SustainedRun(g, kind, first, now)
    <2>1. g[first] = kind
      BY <1>2, <1>3 DEF SustainedRun
    <2>2. ASSUME NEW t \in Times, first <= t, t <= now, g[t] # "absent"
          PROVE  /\ g[t] = kind
                 /\ \/ now - t <= 2 * ProcessingPeriod
                    \/ \E u \in Times : t < u /\ u - t <= 2 * ProcessingPeriod
                                          /\ g[u] # "absent"
      <3>1. CASE t = now
        BY <1>2, <1>3, <3>1
      <3>2. CASE t # now
        <4>1. h[t] # "absent" /\ t <= last /\ g[t] = h[t] /\ t \in Nat
          BY <1>2, <1>3, <2>2, <3>2 DEF UpTo
        <4>2. /\ h[t] = kind
              /\ \/ last - t <= 2 * ProcessingPeriod
                 \/ \E u \in Times : t < u /\ u - t <= 2 * ProcessingPeriod
                                       /\ h[u] # "absent"
          BY <1>2, <2>2, <4>1 DEF SustainedRun
        <4>3. CASE t = last
          BY <1>4, <4>1, <4>2, <4>3
        <4>4. CASE t < last /\ last - t <= 2 * ProcessingPeriod
          <5>1. g[last] # "absent"
            BY <1>2, <1>3
          <5> QED
            BY <1>2, <4>1, <4>2, <4>4, <5>1
        <4>5. CASE \E u \in Times : t < u /\ u - t <= 2 * ProcessingPeriod
                                      /\ h[u] # "absent"
          <5>1. PICK u \in Times : t < u /\ u - t <= 2 * ProcessingPeriod
                                      /\ h[u] # "absent"
            BY <4>5
          <5>2. g[u] # "absent"
            BY <1>3, <5>1
          <5> QED
            BY <4>1, <4>2, <5>1, <5>2
        <4> QED
          BY <1>2, <4>1, <4>2, <4>3, <4>4, <4>5
      <3> QED
        BY <3>1, <3>2
    <2> QED
      BY <2>1, <2>2 DEF SustainedRun
  <1> QED
    BY <1>1, <1>2, <1>3, <1>5 DEF EndsInRun

\* A run lasts a while without a result.
LEMMA RunLasts ==
  ASSUME NEW h \in Heard, NEW kind \in Kinds \ {"absent"}, NEW first, NEW last,
         EndsInRun(h, kind, first, last),
         NEW now \in Times, now >= last, ~Interrupted(last, now)
  PROVE  SustainedRun(h, kind, first, now)
  <1>1. /\ first \in Nat /\ last \in Nat /\ now \in Nat /\ first <= last
        /\ last \in Times
        /\ h[last] = kind /\ SustainedRun(h, kind, first, last) /\ UpTo(h, last)
    BY DEF EndsInRun
  <1>2. now - last <= 2 * ProcessingPeriod
    BY <1>1 DEF Interrupted
  <1>3. ASSUME NEW t \in Times, first <= t, t <= now, h[t] # "absent"
        PROVE  /\ h[t] = kind
               /\ \/ now - t <= 2 * ProcessingPeriod
                  \/ \E u \in Times : t < u /\ u - t <= 2 * ProcessingPeriod
                                        /\ h[u] # "absent"
    <2>1. t <= last /\ t \in Nat
      BY <1>1, <1>3 DEF UpTo
    <2>2. /\ h[t] = kind
          /\ \/ last - t <= 2 * ProcessingPeriod
             \/ \E u \in Times : t < u /\ u - t <= 2 * ProcessingPeriod
                                   /\ h[u] # "absent"
      BY <1>1, <1>3, <2>1 DEF SustainedRun
    <2>3. CASE t = last
      BY <1>2, <2>2, <2>3
    <2>4. CASE t < last
      BY <1>1, <2>1, <2>2, <2>4
    <2> QED
      BY <1>1, <2>1, <2>3, <2>4
  <1> QED
    BY <1>1, <1>3 DEF SustainedRun

\* A quiet that was proved stays proved.
LEMMA QuietStays ==
  ASSUME NEW h \in Heard, NEW d \in Stamps, QuietAfter(h, d), NEW last \in Stamps,
         UpTo(h, last), NEW now \in Times, now > last, NEW kind \in Kinds \ {"absent"}
  PROVE  QuietAfter([h EXCEPT ![now] = kind], d)
  <1>1. PICK g : g = [h EXCEPT ![now] = kind]
    OBVIOUS
  <1>2. PICK a, b \in Times :
            /\ b - a >= RearmDuration /\ b >= d + Cooldown
            /\ SustainedRun(h, "normal", a, b) /\ h[b] = "normal"
    BY DEF QuietAfter
  <1>3. /\ a \in Nat /\ b \in Nat /\ now \in Nat /\ last \in Int
        /\ b <= last /\ a <= b
    BY <1>2 DEF UpTo, Stamps, NoTime
  <1>4. g[now] = kind /\ \A t \in Times \ {now} : g[t] = h[t]
    BY <1>1, Recorded
  <1>5. a # now /\ b # now /\ g[b] = "normal"
    BY <1>2, <1>3, <1>4
  <1>6. SustainedRun(g, "normal", a, b)
    <2>1. g[a] = "normal"
      BY <1>2, <1>4, <1>5 DEF SustainedRun
    <2>2. ASSUME NEW t \in Times, a <= t, t <= b, g[t] # "absent"
          PROVE  /\ g[t] = "normal"
                 /\ \/ b - t <= 2 * ProcessingPeriod
                    \/ \E u \in Times : t < u /\ u - t <= 2 * ProcessingPeriod
                                          /\ g[u] # "absent"
      <3>1. t # now /\ g[t] = h[t]
        BY <1>3, <1>4, <2>2
      <3>2. /\ h[t] = "normal"
            /\ \/ b - t <= 2 * ProcessingPeriod
               \/ \E u \in Times : t < u /\ u - t <= 2 * ProcessingPeriod
                                     /\ h[u] # "absent"
        BY <1>2, <2>2, <3>1 DEF SustainedRun
      <3>3. \A u \in Times : h[u] # "absent" => g[u] # "absent"
        BY <1>4
      <3> QED
        BY <3>1, <3>2, <3>3
    <2> QED
      BY <2>1, <2>2 DEF SustainedRun
  <1> QED
    BY <1>1, <1>2, <1>5, <1>6 DEF QuietAfter

-----------------------------------------------------------------------------
(* The steps of one tracker, as far as the record sees them *)

LEMMA TransitionFields ==
  ASSUME NEW k, Good(k), k.state = "candidate", NEW outcome \in Outcomes, NEW now \in Nat,
         NEW t, t = TransitionDecision(k, outcome, now)
  PROVE  /\ t.state = outcome /\ t.rearm /\ t.recoveryStart = NoTime
         /\ t.cooldown = now + Cooldown
         /\ t.event.decision = outcome /\ t.event.decidedAt = now /\ t.event # k.event
         /\ t.last = k.last /\ t.signalActive = k.signalActive /\ t.signalTime = k.signalTime
  <1> DEFINE event == [k.event EXCEPT !.version = @ + 1, !.decision = outcome,
                                      !.decidedAt = now]
             next == [k EXCEPT !.state = outcome, !.event = event,
                               !.cooldown = now + Cooldown, !.rearm = TRUE,
                               !.recoveryStart = NoTime, !.recoveryLast = NoTime]
  <1>1. k \in Trackers /\ k.event \in Events /\ k.event.version = 1
    BY DEF Good, Trackers, TrackerCoherent, Outcomes
  <1>2. t = next
    BY <1>1 DEF TransitionDecision, LatchRearm, ResetRecovery, Trackers, Events
  <1>3. event.version = 2 /\ event.decision = outcome /\ event.decidedAt = now
    BY <1>1 DEF Events
  <1> HIDE DEF event
  <1> QED
    BY <1>1, <1>2, <1>3 DEF Trackers

LEMMA GoIdleFields ==
  ASSUME NEW k, k \in Trackers, NEW t, t = GoIdle(k)
  PROVE  /\ t.state = "idle" /\ t.event = NoEvent /\ t.confirmStart = NoTime
         /\ t.rearm = k.rearm /\ t.cooldown = k.cooldown
         /\ t.recoveryStart = k.recoveryStart /\ t.recoveryLast = k.recoveryLast
         /\ t.last = k.last /\ t.signalActive = k.signalActive /\ t.signalTime = k.signalTime
  BY DEF GoIdle, ResetConfirmation, Trackers

\* What process finds after its preliminaries.  A camera that waits afterwards
\* waited before or has just timed out; one that does not, although the result
\* is no manual one, did not wait before.
LEMMA SettledFields ==
  ASSUME NEW k, Good(k), NEW r \in Results, NEW s, s = Settled(k, r)
  PROVE  /\ s.last = r.time /\ s.signalActive = k.signalActive /\ s.signalTime = k.signalTime
         /\ s.state \in {"suspicious", "candidate"} =>
              /\ s.state = k.state /\ s.event = k.event
              /\ s.confirmStart = k.confirmStart /\ s.confirmLast = k.confirmLast
         /\ s.rearm => ~r.manual
         /\ ~s.rearm /\ ~r.manual =>
              ~k.rearm /\ ~Overdue(k, r.time) /\ k.state \notin Outcomes
         /\ s.rearm /\ Overdue(k, r.time) =>
              s.cooldown = r.time + Cooldown /\ s.recoveryStart = NoTime
         /\ s.rearm /\ ~Overdue(k, r.time) =>
              /\ k.rearm /\ s.cooldown = k.cooldown
              /\ s.recoveryStart = k.recoveryStart /\ s.recoveryLast = k.recoveryLast
  <1>1. r.time \in Nat /\ k \in Trackers /\ TrackerCoherent(k)
    BY DEF Results, Good
  <1>2. PICK a : a = [k EXCEPT !.last = r.time]
    OBVIOUS
  <1>3. /\ Good(a) /\ a.last = r.time /\ a.state = k.state /\ a.rearm = k.rearm
        /\ a.confirmStart = k.confirmStart /\ a.confirmLast = k.confirmLast
        /\ a.recoveryStart = k.recoveryStart /\ a.recoveryLast = k.recoveryLast
        /\ a.cooldown = k.cooldown /\ a.event = k.event
        /\ a.signalActive = k.signalActive /\ a.signalTime = k.signalTime
    BY <1>1, <1>2 DEF Good, Trackers, TrackerCoherent, Stamps
  <1>4. Overdue(a, r.time) <=> Overdue(k, r.time)
    BY <1>3 DEF Overdue
  <1>5. PICK d : d = ClearDecided(ExpireCandidate(a, r.time))
    OBVIOUS
  <1>6. s = ManualOverride(d, r)
    BY <1>2, <1>5 DEF Settled
  <1>7. CASE Overdue(k, r.time)
    <2>1. PICK b : b = TransitionDecision(a, "timeout", r.time)
      OBVIOUS
    <2>2. /\ Good(b) /\ b.state = "timeout" /\ b.rearm /\ b.recoveryStart = NoTime
          /\ b.cooldown = r.time + Cooldown /\ b.last = r.time
          /\ b.signalActive = k.signalActive /\ b.signalTime = k.signalTime
      <3>1. a.state = "candidate" /\ "timeout" \in Outcomes
        BY <1>3, <1>7 DEF Overdue, Outcomes
      <3> QED
        BY <1>1, <1>3, <2>1, <3>1, TransitionFields, TransitionDecisionGood
    <2>3. d = GoIdle(b)
      BY <1>4, <1>5, <1>7, <2>1, <2>2 DEF ClearDecided, ExpireCandidate, Outcomes
    <2>4. /\ Good(d) /\ d.state = "idle" /\ d.rearm /\ d.recoveryStart = NoTime
          /\ d.cooldown = r.time + Cooldown /\ d.last = r.time
          /\ d.signalActive = k.signalActive /\ d.signalTime = k.signalTime
      BY <2>2, <2>3, GoIdleFields, GoIdleGood DEF Good
    <2> QED
      BY <1>6, <1>7, <2>4 DEF ManualOverride, ResetRecovery, Good, Trackers
  <1>8. CASE ~Overdue(k, r.time) /\ k.state \in Outcomes
    <2>1. d = GoIdle(a)
      BY <1>3, <1>4, <1>5, <1>8 DEF ClearDecided, ExpireCandidate
    <2>2. /\ Good(d) /\ d.state = "idle" /\ d.rearm = k.rearm /\ d.cooldown = k.cooldown
          /\ d.recoveryStart = k.recoveryStart /\ d.recoveryLast = k.recoveryLast
          /\ d.last = r.time
          /\ d.signalActive = k.signalActive /\ d.signalTime = k.signalTime
      BY <1>3, <2>1, GoIdleFields, GoIdleGood DEF Good
    <2>3. k.rearm
      BY <1>1, <1>8 DEF TrackerCoherent
    <2> QED
      BY <1>6, <1>8, <2>2, <2>3 DEF ManualOverride, ResetRecovery, Good, Trackers
  <1>9. CASE ~Overdue(k, r.time) /\ k.state \notin Outcomes
    <2>1. d = a
      BY <1>3, <1>4, <1>5, <1>9 DEF ClearDecided, ExpireCandidate
    <2>2. k.state \in {"suspicious", "candidate"} => ~k.rearm
      BY <1>1 DEF TrackerCoherent
    <2>3. a \in Trackers
      BY <1>3 DEF Good
    <2>4. CASE k.rearm /\ r.manual
      BY <1>3, <1>6, <1>9, <2>1, <2>2, <2>3, <2>4 DEF ManualOverride, ResetRecovery, Trackers
    <2>5. CASE ~(k.rearm /\ r.manual)
      BY <1>1, <1>3, <1>6, <1>9, <2>1, <2>2, <2>5 DEF ManualOverride, Trackers, Results
    <2> QED
      BY <2>4, <2>5
  <1> QED
    BY <1>7, <1>8, <1>9

LEMMA KindOf ==
  ASSUME NEW r \in Results
  PROVE  /\ Kind(r) \in Kinds \ {"absent"}
         /\ ConfirmationEligible(r) <=> Kind(r) = "strong"
         /\ ~r.triggered <=> Kind(r) = "normal"
  BY DEF Kind, Kinds, ConfirmationEligible, Results

\* The confirmation interval after a result is a run of results again.
LEMMA ConfirmationObserved ==
  ASSUME NEW x \in Trackers, NEW r \in Results,
         NEW o, o = ObserveConfirmation(LongerStreak(x), r),
         NEW h \in Heard, NEW last \in Stamps, UpTo(h, last), r.time > last,
         x.confirmStart # NoTime => EndsInRun(h, "strong", x.confirmStart, x.confirmLast)
  PROVE  /\ o.state = x.state /\ o.rearm = x.rearm /\ o.event = x.event /\ o.last = x.last
         /\ o.signalActive = x.signalActive /\ o.signalTime = x.signalTime
         /\ o.confirmStart # NoTime =>
              /\ EndsInRun([h EXCEPT ![r.time] = Kind(r)], "strong", o.confirmStart, r.time)
              /\ o.confirmLast = r.time
              /\ o.confirmStart # r.time => x.confirmStart # NoTime
  <1>1. PICK y : y = LongerStreak(x)
    OBVIOUS
  <1>2. /\ y \in Trackers
        /\ y.state = x.state /\ y.rearm = x.rearm /\ y.event = x.event /\ y.last = x.last
        /\ y.signalActive = x.signalActive /\ y.signalTime = x.signalTime
        /\ y.confirmStart = x.confirmStart /\ y.confirmLast = x.confirmLast
    BY <1>1 DEF LongerStreak, Trackers
  <1>3. CASE ConfirmationEligible(r)
    <2>1. PICK start :
            start = IF y.confirmStart = NoTime \/ Interrupted(y.confirmLast, r.time)
                    THEN r.time ELSE y.confirmStart
      OBVIOUS
    <2>2. o = [y EXCEPT !.confirmStart = start, !.confirmLast = r.time]
      BY <1>1, <1>2, <1>3, <2>1 DEF ObserveConfirmation, Trackers
    <2>3. r.time \in Times /\ r.time \in Nat /\ Kind(r) = "strong"
      BY <1>3, KindOf DEF Results
    <2>4. EndsInRun([h EXCEPT ![r.time] = Kind(r)], "strong", start, r.time)
      <3>0. "strong" \in Kinds \ {"absent"}
        BY DEF Kinds
      <3>1. CASE start = r.time
        BY <2>3, <3>0, <3>1, RunBegins
      <3>2. CASE start # r.time
        <4>1. /\ start = x.confirmStart /\ EndsInRun(h, "strong", start, x.confirmLast)
              /\ ~Interrupted(x.confirmLast, r.time)
          BY <1>2, <2>1, <3>2
        <4>2. x.confirmLast \in Times /\ x.confirmLast <= last
          BY <4>1 DEF EndsInRun, UpTo
        <4>3. r.time > x.confirmLast
          <5>1. last \in Int
            BY DEF Stamps, NoTime
          <5>2. x.confirmLast \in Times /\ r.time \in Times
            BY <2>3, <4>2
          <5>3. x.confirmLast \in Nat /\ r.time \in Nat
            BY <5>2
          <5> QED
            BY <4>2, <5>1, <5>3
        <4> QED
          BY <2>3, <3>0, <4>1, <4>3, RunContinues
      <3> QED
        BY <3>1, <3>2
    <2>5. start # r.time => x.confirmStart # NoTime
      BY <1>2, <2>1
    <2> QED
      BY <1>2, <2>2, <2>4, <2>5 DEF Trackers
  <1>4. CASE ~ConfirmationEligible(r)
    BY <1>1, <1>2, <1>4 DEF ObserveConfirmation, ResetConfirmation, Trackers
  <1> QED
    BY <1>3, <1>4

-----------------------------------------------------------------------------
(* What follows for a camera after a step                                   *)

\* A camera that has just been decided starts from nothing.
LEMMA DecidedAudited ==
  ASSUME NEW k, k.state \in Outcomes, k.rearm, k.recoveryStart = NoTime,
         NEW d \in Nat, k.cooldown = d + Cooldown,
         NEW h \in Heard, UpTo(h, k.last)
  PROVE  Audited(k, h, d)
  BY DEF Audited, ConfirmationHeard, RecoveryHeard, CooldownKept, RearmEarned, Outcomes, Stamps

\* One that does not wait owes a quiet interval to its last decision.
LEMMA FreeAudited ==
  ASSUME NEW k, Good(k), ~k.rearm, NEW h \in Heard, NEW d \in Stamps,
         UpTo(h, k.last), ConfirmationHeard(k, h), d # NoTime => QuietAfter(h, d)
  PROVE  Audited(k, h, d)
  BY DEF Good, TrackerCoherent, Audited, RecoveryHeard, CooldownKept, RearmEarned

\* One that waits observes the quiet interval, and waits no longer only when
\* the interval is long enough and past the cooldown.
LEMMA RecoveryObserved ==
  ASSUME NEW g, Good(g), g.state = "idle", g.rearm, NEW r \in Results, g.last = r.time,
         NEW h \in Heard, NEW last \in Stamps, UpTo(h, last), r.time > last,
         NEW d \in Stamps, RecoveryHeard(g, h), CooldownKept(g, d)
  PROVE  Audited(ObserveRecovery(g, r), [h EXCEPT ![r.time] = Kind(r)], d)
  <1>1. /\ g \in Trackers /\ r.time \in Times /\ r.time \in Nat /\ Kind(r) \in Kinds \ {"absent"}
        /\ g.recoveryStart = NoTime <=> g.recoveryLast = NoTime
    BY KindOf DEF Good, TrackerCoherent, Results
  <1>2. PICK h2 : h2 = [h EXCEPT ![r.time] = Kind(r)]
    OBVIOUS
  <1>3. h2 \in Heard /\ UpTo(h2, r.time)
    BY <1>1, <1>2, Recorded
  <1>4. PICK start :
          start = IF g.recoveryStart = NoTime \/ Interrupted(g.recoveryLast, r.time)
                  THEN r.time ELSE g.recoveryStart
    OBVIOUS
  <1>5. PICK cool : cool = IF r.time >= g.cooldown THEN NoTime ELSE g.cooldown
    OBVIOUS
  <1>6. PICK seen : seen = ObserveNormal(g, r)
    OBVIOUS
  <1>7. /\ seen \in Trackers
        /\ seen.recoveryStart = start /\ seen.recoveryLast = r.time /\ seen.cooldown = cool
        /\ seen.state = "idle" /\ seen.rearm /\ seen.last = r.time
    <2>1. seen = [g EXCEPT !.recoveryStart = start, !.recoveryLast = r.time, !.cooldown = cool]
      BY <1>1, <1>4, <1>5, <1>6 DEF ObserveNormal, Trackers
    <2>2. start \in Stamps /\ cool \in Stamps /\ r.time \in Stamps
      BY <1>1, <1>4, <1>5 DEF Trackers, Stamps
    <2> QED
      BY <1>1, <2>1, <2>2 DEF Trackers
  <1>8. PICK k : k = ObserveRecovery(g, r)
    OBVIOUS
  <1>9. CASE r.triggered
    <2>1. k = ResetRecovery(g)
      BY <1>8, <1>9 DEF ObserveRecovery
    <2>2. /\ k.state = "idle" /\ k.rearm /\ k.recoveryStart = NoTime
          /\ k.cooldown = g.cooldown /\ k.last = r.time
      BY <1>1, <2>1 DEF ResetRecovery, Trackers
    <2>3. CooldownKept(k, d)
      BY <2>2 DEF CooldownKept
    <2> QED
      BY <1>2, <1>3, <1>8, <2>2, <2>3
         DEF Audited, ConfirmationHeard, RecoveryHeard, RearmEarned
  <1>10. ASSUME ~r.triggered
         PROVE  Kind(r) = "normal" /\ EndsInRun(h2, "normal", start, r.time)
    <2>1. Kind(r) = "normal" /\ "normal" \in Kinds \ {"absent"}
      BY <1>10, KindOf DEF Kinds
    <2>2. CASE start = r.time
      BY <1>1, <1>2, <2>1, <2>2, RunBegins
    <2>3. CASE start # r.time
      <3>1. /\ start = g.recoveryStart /\ EndsInRun(h, "normal", start, g.recoveryLast)
            /\ ~Interrupted(g.recoveryLast, r.time)
        BY <1>4, <2>3 DEF RecoveryHeard
      <3>2. g.recoveryLast \in Times /\ g.recoveryLast <= last
        BY <3>1 DEF EndsInRun, UpTo
      <3>3. r.time > g.recoveryLast
        <4>1. last \in Int
          BY DEF Stamps, NoTime
        <4>2. g.recoveryLast \in Times /\ r.time \in Times
          BY <1>1, <3>2
        <4>3. g.recoveryLast \in Nat /\ r.time \in Nat
          BY <4>2
        <4> QED
          BY <3>2, <4>1, <4>3
      <3> QED
        BY <1>1, <1>2, <2>1, <3>1, <3>3, RunContinues
    <2> QED
      BY <2>1, <2>2, <2>3
  <1>11. d # NoTime => \/ cool = d + Cooldown
                       \/ cool = NoTime /\ r.time >= d + Cooldown
    BY <1>1, <1>5 DEF CooldownKept, Stamps, NoTime
  <1>12. CASE ~r.triggered /\ seen.cooldown = NoTime /\ r.time - seen.recoveryStart >= RearmDuration
    <2>1. k = ResetRecovery([seen EXCEPT !.rearm = FALSE])
      BY <1>6, <1>8, <1>12 DEF ObserveRecovery
    <2>2. k.state = "idle" /\ ~k.rearm /\ k.recoveryStart = NoTime /\ k.last = r.time
      BY <1>7, <2>1 DEF ResetRecovery, Trackers
    <2>3. EndsInRun(h2, "normal", start, r.time)
      BY <1>10, <1>12
    <2>4. ASSUME d # NoTime
          PROVE  QuietAfter(h2, d)
      <3>1. r.time >= d + Cooldown
        BY <1>7, <1>11, <1>12, <2>4 DEF Stamps, NoTime
      <3>2. r.time - start >= RearmDuration
        BY <1>7, <1>12
      <3> QED
        BY <2>3, <3>1, <3>2 DEF QuietAfter, EndsInRun
    <2> QED
      BY <1>2, <1>3, <1>8, <2>2, <2>4
         DEF Audited, ConfirmationHeard, RecoveryHeard, CooldownKept, RearmEarned
  <1>13. CASE ~r.triggered /\ ~(seen.cooldown = NoTime /\ r.time - seen.recoveryStart >= RearmDuration)
    <2>1. k = seen
      BY <1>6, <1>8, <1>13 DEF ObserveRecovery
    <2>2. EndsInRun(h2, "normal", start, r.time)
      BY <1>10, <1>13
    <2>3. CooldownKept(k, d)
      BY <1>7, <1>11, <2>1 DEF CooldownKept
    <2> QED
      BY <1>2, <1>3, <1>7, <1>8, <2>1, <2>2, <2>3
         DEF Audited, ConfirmationHeard, RecoveryHeard, RearmEarned
  <1> QED
    BY <1>9, <1>12, <1>13

\* What the evidence for a confirmation at the time of a result is.
ResultConfirms(c, r) ==
  NewlyDecided(c) /\ tracker'[c].state = "confirmed" =>
      /\ ExternalRequired => tracker'[c].signalActive
      /\ \E first \in Times :
            /\ r.time - first >= ConfirmationDuration
            /\ SustainedRun([heard[c] EXCEPT ![r.time] = Kind(r)], "strong", first, r.time)

LEMMA ProcessAudited ==
  ASSUME IInv, IInv', AuditInv, NEW c \in Cameras, NEW r \in Results,
         Process(c, r), AuditResult(c, r)
  PROVE  /\ Audited(tracker'[c], heard'[c], decided'[c])
         /\ tracker'[c].last = r.time
         /\ ResultConfirms(c, r)
  <1>1. PICK k : k = tracker[c]
    OBVIOUS
  <1>2. PICK n : n = tracker'[c]
    OBVIOUS
  <1>3. PICK h : h = heard[c]
    OBVIOUS
  <1>4. PICK d : d = decided[c]
    OBVIOUS
  <1>5. /\ Good(k) /\ Good(n) /\ k \in Trackers /\ TrackerCoherent(k)
        /\ n \in Trackers /\ TrackerCoherent(n)
    <2>1. \A e \in Cameras : Good(tracker[e])
      BY GoodTrackers
    <2>2. \A e \in Cameras : Good(tracker'[e])
      BY DEF IInv, TypeOK, EventMatchesState, Good
    <2> QED
      BY <1>1, <1>2, <2>1, <2>2 DEF Good
  <1>6. /\ h \in Heard /\ d \in Stamps /\ UpTo(h, k.last)
        /\ ConfirmationHeard(k, h) /\ RecoveryHeard(k, h) /\ CooldownKept(k, d)
        /\ RearmEarned(k, h, d)
    BY <1>1, <1>3, <1>4 DEF AuditInv, Audited
  <1>7. /\ r.time \in Times /\ r.time \in Nat /\ r.time > k.last /\ k.last \in Stamps
        /\ Kind(r) \in Kinds \ {"absent"}
    <2>1. Accepts(c, r)
      BY DEF Process, ProcessRearming, ProcessCandidateEligible, ProcessCandidateIneligible,
             ProcessIneligible, ProcessSuspicious, ProcessTriggered
    <2> QED
      BY <1>1, <1>5, <2>1, KindOf DEF Accepts, Results, Trackers
  <1>8. PICK s : s = Settled(k, r)
    OBVIOUS
  <1>9. /\ Good(s) /\ s \in Trackers /\ TrackerCoherent(s) /\ s.state \notin Outcomes
        /\ s.state = "candidate" <=> k.state = "candidate" /\ ~Overdue(k, r.time)
    BY <1>5, <1>8, SettledGood DEF Good
  <1>10. /\ s.last = r.time /\ s.signalActive = k.signalActive /\ s.signalTime = k.signalTime
         /\ s.state \in {"suspicious", "candidate"} =>
              /\ s.state = k.state /\ s.event = k.event
              /\ s.confirmStart = k.confirmStart /\ s.confirmLast = k.confirmLast
         /\ s.rearm => ~r.manual
         /\ ~s.rearm /\ ~r.manual =>
              ~k.rearm /\ ~Overdue(k, r.time) /\ k.state \notin Outcomes
         /\ s.rearm /\ Overdue(k, r.time) =>
              s.cooldown = r.time + Cooldown /\ s.recoveryStart = NoTime
         /\ s.rearm /\ ~Overdue(k, r.time) =>
              /\ k.rearm /\ s.cooldown = k.cooldown
              /\ s.recoveryStart = k.recoveryStart /\ s.recoveryLast = k.recoveryLast
    BY <1>5, <1>8, SettledFields
  \* What is recorded.
  <1>11. PICK at : at = DecisionAt(c, r.time)
    OBVIOUS
  <1>12. PICK new \in BOOLEAN : new <=> NewlyDecided(c)
    OBVIOUS
  <1>13. PICK seen : seen = IF at = NoTime THEN h ELSE Silence
    OBVIOUS
  <1>14. /\ heard'[c] = [seen EXCEPT ![r.time] = Kind(r)]
         /\ decided'[c] = IF r.manual /\ ~new THEN NoTime ELSE IF at = NoTime THEN d ELSE at
    BY <1>3, <1>4, <1>11, <1>12, <1>13 DEF AuditResult, AuditInv
  <1>15. /\ new <=> n.event # k.event /\ n.event.decision # "none"
         /\ new => at = n.event.decidedAt
         /\ ~new /\ k.state # "candidate" => at = NoTime
         /\ ~new /\ n.event = k.event => at = NoTime
         /\ ~new /\ k.state = "candidate" /\ n.state \notin Outcomes /\ n.event # k.event
              => at = r.time
         /\ ~new => at \in {NoTime, r.time}
    <2>1. new <=> n.event # k.event /\ n.event.decision # "none"
      BY <1>1, <1>2, <1>12 DEF NewlyDecided
    <2>2. ASSUME new PROVE at = n.event.decidedAt
      <3>1. tracker'[c].event # tracker[c].event /\ tracker'[c].event.decision # "none"
        BY <1>12, <2>2 DEF NewlyDecided
      <3>2. tracker'[c].state \in Outcomes
        BY <1>2, <1>5, <3>1 DEF TrackerCoherent
      <3>3. at = tracker'[c].event.decidedAt
        BY <1>11, <3>1, <3>2 DEF DecisionAt, NewlyDecided
      <3> QED
        BY <1>2, <3>3
    <2>3. ASSUME ~new, k.state = "candidate", n.state \notin Outcomes, n.event # k.event
          PROVE  at = r.time
      BY <1>1, <1>2, <1>11, <1>12, <2>3 DEF DecisionAt
    <2>4. ASSUME ~new,
                 ~(k.state = "candidate" /\ n.state \notin Outcomes /\ n.event # k.event)
          PROVE  at = NoTime
      BY <1>1, <1>2, <1>11, <1>12, <2>4 DEF DecisionAt
    <2> QED
      BY <2>1, <2>2, <2>3, <2>4
  <1>16. seen \in Heard /\ UpTo(seen, k.last)
    BY <1>6, <1>13, SilenceHeard
  <1>17. /\ [seen EXCEPT ![r.time] = Kind(r)] \in Heard
         /\ UpTo([seen EXCEPT ![r.time] = Kind(r)], r.time)
    BY <1>7, <1>16, Recorded
  <1>18. n.state \notin Outcomes => ~new
    BY <1>5, <1>15 DEF TrackerCoherent
  <1>19. ~new => decided'[c] \in Stamps
    BY <1>6, <1>7, <1>14, <1>15 DEF Stamps
  \* A result that leaves the camera undecided and free.
  <1>20. ASSUME ~n.rearm, n.state \notin Outcomes, n.last = r.time, ~s.rearm,
                ConfirmationHeard(n, [seen EXCEPT ![r.time] = Kind(r)]),
                \/ s.state # "candidate" \/ n.event = k.event
         PROVE  Audited(n, heard'[c], decided'[c]) /\ ResultConfirms(c, r)
    <2>1. ~new
      BY <1>18, <1>20
    <2>2. ASSUME decided'[c] # NoTime
          PROVE  QuietAfter(heard'[c], decided'[c])
      <3>1. ~r.manual
        BY <1>14, <2>1, <2>2
      <3>2. ~k.rearm /\ ~Overdue(k, r.time)
        BY <1>10, <1>20, <3>1
      <3>3. at = NoTime
        BY <1>9, <1>15, <1>20, <2>1, <3>2
      <3>4. decided'[c] = d /\ heard'[c] = [h EXCEPT ![r.time] = Kind(r)]
        BY <1>13, <1>14, <3>1, <3>3
      <3>5. QuietAfter(h, d)
        BY <1>6, <2>2, <3>2, <3>4 DEF RearmEarned
      <3> QED
        BY <1>6, <1>7, <3>4, <3>5, QuietStays
    <2>3. Audited(n, heard'[c], decided'[c])
      BY <1>5, <1>14, <1>17, <1>19, <1>20, <2>1, <2>2, FreeAudited
    <2> QED
      BY <1>12, <2>1, <2>3 DEF ResultConfirms
  \* A result that confirms: o is the candidate as it was before.
  <1>21. ASSUME NEW o, Good(o), o.state = "candidate", o.last = r.time,
                o.signalActive = k.signalActive, k.event.decision = "none",
                ConfirmationSatisfied(o, r.time), n = ConfirmFromResult(o, r),
                o.confirmStart # NoTime =>
                  EndsInRun([h EXCEPT ![r.time] = Kind(r)], "strong", o.confirmStart, r.time)
         PROVE  /\ Audited(n, heard'[c], decided'[c]) /\ n.last = r.time
                /\ ResultConfirms(c, r)
    <2>1. PICK t : t = DecisionTime(o, r)
      OBVIOUS
    <2>2. t \in Nat
      <3>1. o.signalTime \in Nat \cup {-1}
        BY <1>21 DEF Good, Trackers, Stamps, NoTime
      <3> QED
        BY <1>7, <2>1, <3>1 DEF DecisionTime
    <2>3. n = TransitionDecision(o, "confirmed", t)
      BY <1>21, <2>1 DEF ConfirmFromResult
    <2>4. /\ n.state = "confirmed" /\ n.rearm /\ n.recoveryStart = NoTime
          /\ n.cooldown = t + Cooldown /\ n.event.decision = "confirmed"
          /\ n.event.decidedAt = t /\ n.last = r.time /\ n.signalActive = k.signalActive
      BY <1>21, <2>2, <2>3, TransitionFields DEF Outcomes
    <2>5. new /\ at = t
      BY <1>15, <1>21, <2>4
    <2>6. decided'[c] = t
      BY <1>14, <2>2, <2>5 DEF NoTime
    <2>7. Audited(n, heard'[c], decided'[c])
      BY <1>14, <1>17, <2>2, <2>4, <2>6, DecidedAudited DEF Outcomes
    <2>8. /\ o.confirmStart # NoTime /\ r.time - o.confirmStart >= ConfirmationDuration
          /\ ExternalRequired => o.signalActive
      BY <1>21 DEF ConfirmationSatisfied
    <2>9. ResultConfirms(c, r)
      BY <1>2, <1>3, <1>21, <2>4, <2>8 DEF ResultConfirms, EndsInRun
    <2> QED
      BY <2>4, <2>7, <2>9
  \* The branches.
  <1>22. CASE ProcessRearming(c, r)
    <2>1. PICK g : g = GoIdle(s)
      OBVIOUS
    <2>2. s.rearm /\ n = ObserveRecovery(g, r)
      BY <1>1, <1>2, <1>8, <1>22, <2>1 DEF ProcessRearming, Processed, IInv, TypeOK
    <2>3. /\ Good(g) /\ g.state = "idle" /\ g.rearm /\ g.last = r.time
          /\ g.cooldown = s.cooldown /\ g.recoveryStart = s.recoveryStart
          /\ g.recoveryLast = s.recoveryLast /\ g.event = NoEvent
      BY <1>9, <1>10, <2>1, <2>2, GoIdleGood, GoIdleFields
    <2>4. /\ n.state = "idle" /\ n.event = NoEvent /\ n.last = r.time
      <3>1. g \in Trackers
        BY <2>3 DEF Good
      <3> QED
        BY <2>2, <2>3, <3>1 DEF ObserveRecovery, ObserveNormal, ResetRecovery, Trackers
    <2>5. ~new /\ ~r.manual
      BY <1>10, <1>18, <2>2, <2>4 DEF Outcomes
    <2>6. RecoveryHeard(g, seen) /\ CooldownKept(g, decided'[c])
      <3>1. CASE Overdue(k, r.time)
        <4>1. k.state = "candidate" /\ n.event # k.event
          BY <1>5, <2>4, <3>1 DEF Overdue, TrackerCoherent, NoEvent
        <4>2. at = r.time
          BY <1>15, <2>4, <2>5, <4>1 DEF Outcomes
        <4>3. decided'[c] = r.time
          BY <1>7, <1>14, <2>5, <4>2 DEF NoTime
        <4> QED
          BY <1>10, <2>2, <2>3, <3>1, <4>3 DEF RecoveryHeard, CooldownKept
      <3>2. CASE ~Overdue(k, r.time)
        <4>1. k.rearm /\ k.state # "candidate"
          BY <1>5, <1>10, <2>2, <3>2 DEF TrackerCoherent
        <4>2. at = NoTime
          BY <1>15, <2>5, <4>1
        <4>3. decided'[c] = d /\ seen = h
          BY <1>13, <1>14, <2>5, <4>2
        <4>4. RecoveryHeard(g, h)
          BY <1>6, <1>10, <2>2, <2>3, <3>2 DEF RecoveryHeard
        <4>5. CooldownKept(g, d)
          <5>1. g.cooldown = k.cooldown /\ g.last = r.time
            BY <1>10, <2>2, <2>3, <3>2
          <5>2. k.last >= d + Cooldown /\ d # NoTime => r.time >= d + Cooldown
            BY <1>6, <1>7 DEF Stamps, NoTime
          <5> QED
            BY <1>6, <4>1, <5>1, <5>2 DEF CooldownKept
        <4> QED
          BY <4>3, <4>4, <4>5
      <3> QED
        BY <3>1, <3>2
    <2>7. Audited(n, heard'[c], decided'[c])
      BY <1>7, <1>14, <1>16, <1>19, <2>2, <2>3, <2>5, <2>6, RecoveryObserved
    <2> QED
      BY <1>2, <1>12, <2>4, <2>5, <2>7 DEF ResultConfirms
  <1>23. CASE ProcessCandidateEligible(c, r)
    <2>1. PICK o : o = ObserveConfirmation(LongerStreak(s), r)
      OBVIOUS
    <2>2. s.state = "candidate" /\ ~s.rearm /\ n = ConfirmFromResult(o, r)
      BY <1>1, <1>2, <1>8, <1>23, <2>1 DEF ProcessCandidateEligible, Processed, IInv, TypeOK
    <2>3. s.confirmStart # NoTime => EndsInRun(h, "strong", s.confirmStart, s.confirmLast)
      BY <1>6, <1>10, <2>2 DEF ConfirmationHeard
    <2>4. /\ o.state = "candidate" /\ ~o.rearm /\ o.event = k.event /\ o.last = r.time
          /\ o.signalActive = k.signalActive
          /\ o.confirmStart # NoTime =>
               /\ EndsInRun([h EXCEPT ![r.time] = Kind(r)], "strong", o.confirmStart, r.time)
               /\ o.confirmLast = r.time
      BY <1>6, <1>7, <1>9, <1>10, <2>1, <2>2, <2>3, ConfirmationObserved
    <2>5. Good(o)
      <3>1. Good(LongerStreak(s)) /\ LongerStreak(s).state = "candidate"
        BY <1>9, <2>2, LongerStreakGood
      <3> QED
        BY <2>1, <3>1, ObserveConfirmationGood
    <2>6. CASE ConfirmationSatisfied(o, r.time)
      <3>1. k.event.decision = "none"
        BY <1>5, <1>10, <2>2 DEF TrackerCoherent, Outcomes
      <3> QED
        BY <1>2, <1>21, <2>2, <2>4, <2>5, <2>6, <3>1
    <2>7. CASE ~ConfirmationSatisfied(o, r.time)
      <3>1. n = o
        BY <2>2, <2>7 DEF ConfirmFromResult
      <3>2. seen = h
        BY <1>13, <1>15, <1>18, <2>4, <3>1 DEF Outcomes
      <3>3. ConfirmationHeard(n, [seen EXCEPT ![r.time] = Kind(r)])
        BY <2>4, <3>1, <3>2 DEF ConfirmationHeard
      <3> QED
        BY <1>2, <1>20, <2>2, <2>4, <3>1, <3>3 DEF Outcomes
    <2> QED
      BY <2>6, <2>7
  <1>24. CASE ProcessCandidateIneligible(c, r)
    <2>1. s.state = "candidate" /\ ~s.rearm /\ n = ResetConfirmation([s EXCEPT !.streak = 0])
      BY <1>1, <1>2, <1>8, <1>24 DEF ProcessCandidateIneligible, Processed, IInv, TypeOK
    <2>2. /\ n.state = "candidate" /\ ~n.rearm /\ n.event = k.event /\ n.last = r.time
          /\ n.confirmStart = NoTime
      BY <1>9, <1>10, <2>1 DEF ResetConfirmation, Trackers
    <2>3. ConfirmationHeard(n, [seen EXCEPT ![r.time] = Kind(r)])
      BY <2>2 DEF ConfirmationHeard
    <2> QED
      BY <1>2, <1>20, <2>1, <2>2, <2>3 DEF Outcomes
  <1>25. CASE ProcessIneligible(c, r)
    <2>1. s.state # "candidate" /\ ~s.rearm /\ n = GoIdle(s)
      BY <1>1, <1>2, <1>8, <1>25 DEF ProcessIneligible, Processed, IInv, TypeOK
    <2>2. n.state = "idle" /\ ~n.rearm /\ n.last = r.time
      BY <1>9, <1>10, <2>1, GoIdleFields
    <2>3. ConfirmationHeard(n, [seen EXCEPT ![r.time] = Kind(r)])
      BY <2>2 DEF ConfirmationHeard
    <2> QED
      BY <1>2, <1>20, <2>1, <2>2, <2>3 DEF Outcomes
  <1>26. CASE (\E generated \in BOOLEAN : ProcessSuspicious(c, r, generated))
              \/ ProcessTriggered(c, r)
    <2>1. PICK a : a = Suspect(s, r)
      OBVIOUS
    <2>2. PICK b : b = CreateCandidate(a, r)
      OBVIOUS
    <2>3. /\ s.state # "candidate" /\ ~s.rearm
          /\ n = a \/ n = ConfirmFromResult(b, r)
      BY <1>1, <1>2, <1>8, <1>26, <2>1, <2>2
         DEF ProcessSuspicious, ProcessTriggered, Processed, IInv, TypeOK
    <2>4. s.state \in {"idle", "suspicious"}
      BY <1>9, <2>3 DEF Trackers, States
    <2>5. PICK x : x = [s EXCEPT !.state = "suspicious"]
      OBVIOUS
    <2>6. /\ x \in Trackers /\ x.state = "suspicious" /\ ~x.rearm /\ x.last = r.time
          /\ x.confirmStart = s.confirmStart /\ x.confirmLast = s.confirmLast
          /\ x.signalActive = k.signalActive
      BY <1>9, <1>10, <2>3, <2>5 DEF Trackers, States
    <2>7. a = ObserveConfirmation(LongerStreak(x), r)
      BY <2>1, <2>5 DEF Suspect
    <2>8. x.confirmStart # NoTime =>
            k.state = "suspicious" /\ EndsInRun(h, "strong", x.confirmStart, x.confirmLast)
      <3>1. x.confirmStart # NoTime => s.state = "suspicious"
        BY <1>9, <2>4, <2>6 DEF TrackerCoherent
      <3> QED
        BY <1>6, <1>10, <2>6, <3>1 DEF ConfirmationHeard
    <2>9. Good(a) /\ a.state = "suspicious"
      BY <1>9, <2>1, <2>3, <2>4, SuspectGood
    <2>10. /\ Good(b) /\ b.state = "candidate" /\ b.rearm = a.rearm /\ b.last = a.last
           /\ b.signalActive = a.signalActive /\ b.confirmStart = a.confirmStart
           /\ b.confirmLast = a.confirmLast
      BY <2>2, <2>9, CreateCandidateGood DEF CreateCandidate, Good, Trackers
    <2>11. /\ ~a.rearm /\ a.last = r.time /\ a.signalActive = k.signalActive
           /\ a.confirmStart # NoTime =>
                /\ EndsInRun([h EXCEPT ![r.time] = Kind(r)], "strong", a.confirmStart, r.time)
                /\ a.confirmLast = r.time
                /\ a.confirmStart # r.time => x.confirmStart # NoTime
      BY <1>6, <1>7, <2>6, <2>7, <2>8, ConfirmationObserved
    <2>12. CASE (n = a) \/ (n = b /\ ~ConfirmationSatisfied(b, r.time))
      <3>1. /\ n.state \in {"suspicious", "candidate"} /\ ~n.rearm /\ n.last = r.time
            /\ n.confirmStart = a.confirmStart /\ n.confirmLast = a.confirmLast
        BY <2>9, <2>10, <2>11, <2>12
      <3>2. ~new
        BY <1>18, <3>1 DEF Outcomes
      <3>3. x.confirmStart # NoTime => EndsInRun(seen, "strong", x.confirmStart, x.confirmLast)
        BY <1>13, <1>15, <2>8, <3>2
      <3>4. a.confirmStart # NoTime =>
              /\ EndsInRun([seen EXCEPT ![r.time] = Kind(r)], "strong", a.confirmStart, r.time)
              /\ a.confirmLast = r.time
        BY <1>7, <1>16, <2>6, <2>7, <3>3, ConfirmationObserved
      <3>5. ConfirmationHeard(n, [seen EXCEPT ![r.time] = Kind(r)])
        BY <3>1, <3>4 DEF ConfirmationHeard
      <3> QED
        BY <1>2, <1>20, <2>3, <3>1, <3>5 DEF Outcomes
    <2>13. CASE n = ConfirmFromResult(b, r) /\ ConfirmationSatisfied(b, r.time)
      <3>1. /\ a.confirmStart # NoTime /\ a.confirmStart # r.time
        BY <1>7, <2>10, <2>13 DEF ConfirmationSatisfied
      <3>2. k.state = "suspicious"
        BY <2>8, <2>11, <3>1
      <3>3. k.event.decision = "none"
        BY <1>5, <3>2 DEF TrackerCoherent, Outcomes
      <3> QED
        BY <1>2, <1>21, <2>10, <2>11, <2>13, <3>3
    <2> QED
      BY <2>3, <2>12, <2>13 DEF ConfirmFromResult
  <1> QED
    BY <1>22, <1>23, <1>24, <1>25, <1>26 DEF Process

-----------------------------------------------------------------------------
(* The steps that bring no result: each camera's candidate is decided, or   *)
(* its tracker keeps all the record is about.                               *)

Decides(k, n) ==
  /\ k.state = "candidate" /\ n.state \in Outcomes
  /\ n.event # k.event /\ n.event.decision # "none" /\ n.event.decidedAt \in Nat
  /\ n.rearm /\ n.recoveryStart = NoTime
  /\ n.cooldown = n.event.decidedAt + Cooldown
  /\ n.last = k.last

Keeps(k, n) ==
  /\ n.event = k.event \/ (k.state # "candidate" /\ n.event.decision = "none")
  /\ n.last = k.last /\ n.rearm = k.rearm /\ n.cooldown = k.cooldown
  /\ n.recoveryStart = k.recoveryStart /\ n.recoveryLast = k.recoveryLast
  /\ n.state \in {"suspicious", "candidate"} =>
        /\ n.state = k.state
        /\ n.confirmStart = k.confirmStart /\ n.confirmLast = k.confirmLast

\* No camera's event is newly confirmed.
NothingConfirmed == \A c \in Cameras : ~(NewlyDecided(c) /\ tracker'[c].state = "confirmed")

LEMMA OtherAudited ==
  ASSUME IInv', AuditInv, NEW now, AuditOther(now), NEW c \in Cameras,
         Decides(tracker[c], tracker'[c]) \/ Keeps(tracker[c], tracker'[c])
  PROVE  Audited(tracker'[c], heard'[c], decided'[c])
  <1>1. PICK k : k = tracker[c]
    OBVIOUS
  <1>2. PICK n : n = tracker'[c]
    OBVIOUS
  <1>3. PICK at : at = DecisionAt(c, now)
    OBVIOUS
  <1>4. /\ heard[c] \in Heard /\ decided[c] \in Stamps
        /\ Audited(k, heard[c], decided[c])
    BY <1>1 DEF AuditInv
  <1>5. /\ heard'[c] = IF at = NoTime THEN heard[c] ELSE Silence
        /\ decided'[c] = IF at = NoTime THEN decided[c] ELSE at
    BY <1>3 DEF AuditOther
  <1>6. CASE Decides(k, n)
    <2>1. tracker'[c].event # tracker[c].event /\ tracker'[c].event.decision # "none"
      BY <1>1, <1>2, <1>6 DEF Decides
    <2>2. tracker'[c].state \in Outcomes
      BY <1>2, <1>6 DEF Decides
    <2>3. at = n.event.decidedAt
      BY <1>2, <1>3, <2>1, <2>2 DEF DecisionAt, NewlyDecided
    <2>4. at \in Nat
      BY <1>6, <2>3 DEF Decides
    <2>5. heard'[c] = Silence /\ decided'[c] = at
      BY <1>5, <2>4 DEF NoTime
    <2>6. n.state \in Outcomes /\ n.rearm /\ n.recoveryStart = NoTime /\ n.cooldown = at + Cooldown
      BY <1>6, <2>3 DEF Decides
    <2> QED
      BY <1>2, <2>4, <2>5, <2>6, SilenceHeard, DecidedAudited
  <1>7. CASE Keeps(k, n)
    <2>1. at = NoTime
      <3>1. ~(tracker'[c].event # tracker[c].event /\ tracker'[c].event.decision # "none")
        BY <1>1, <1>2, <1>7 DEF Keeps
      <3>2. ~(tracker[c].state = "candidate" /\ tracker'[c].event # tracker[c].event)
        BY <1>1, <1>2, <1>7 DEF Keeps
      <3> QED
        BY <1>3, <3>1, <3>2 DEF DecisionAt, NewlyDecided
    <2>2. heard'[c] = heard[c] /\ decided'[c] = decided[c]
      BY <1>5, <2>1
    <2>3. Audited(n, heard[c], decided[c])
      BY <1>4, <1>7 DEF Keeps, Audited, ConfirmationHeard, RecoveryHeard, CooldownKept, RearmEarned
    <2> QED
      BY <1>2, <2>2, <2>3
  <1> QED
    BY <1>1, <1>2, <1>6, <1>7

\* A tracker that does not change is kept.
LEMMA SameKeeps == ASSUME NEW k PROVE Keeps(k, k)
  BY DEF Keeps

LEMMA TransitionDecides ==
  ASSUME NEW k, Good(k), k.state = "candidate", NEW outcome \in Outcomes, NEW now \in Nat
  PROVE  /\ Decides(k, TransitionDecision(k, outcome, now))
         /\ TransitionDecision(k, outcome, now).state = outcome
  <1>1. PICK t : t = TransitionDecision(k, outcome, now)
    OBVIOUS
  <1>2. /\ t.state = outcome /\ t.rearm /\ t.recoveryStart = NoTime
        /\ t.cooldown = now + Cooldown
        /\ t.event.decision = outcome /\ t.event.decidedAt = now /\ t.event # k.event
        /\ t.last = k.last
    BY <1>1, TransitionFields
  <1>3. outcome # "none"
    BY DEF Outcomes
  <1> QED
    BY <1>1, <1>2, <1>3 DEF Decides

LEMMA ExpireAudited ==
  ASSUME NEW k, Good(k), NEW now \in Nat
  PROVE  LET n == ExpireCandidate(k, now) IN
         /\ Decides(k, n) \/ Keeps(k, n)
         /\ n.state = "confirmed" => n = k
  <1>1. CASE Overdue(k, now)
    <2>1. k.state = "candidate" /\ "timeout" \in Outcomes
      BY <1>1 DEF Overdue, Outcomes
    <2> QED
      BY <1>1, <2>1, TransitionDecides DEF ExpireCandidate
  <1>2. CASE ~Overdue(k, now)
    BY <1>2, SameKeeps DEF ExpireCandidate
  <1> QED
    BY <1>1, <1>2

\* update_external_signal may confirm, on evidence.
LEMMA ExternalSignalAudited ==
  ASSUME IInv, AuditInv, NEW c \in Cameras, NEW active \in BOOLEAN, NEW now \in Times,
         ExternalSignal(c, active, now)
  PROVE  /\ \A e \in Cameras : Decides(tracker[e], tracker'[e]) \/ Keeps(tracker[e], tracker'[e])
         /\ \A e \in Cameras \ {c} : tracker'[e] = tracker[e]
         /\ tracker'[c].last = tracker[c].last /\ tracker'[c].signalTime = now
         /\ NewlyDecided(c) /\ tracker'[c].state = "confirmed" =>
              /\ ExternalRequired => tracker'[c].signalActive
              /\ \E first \in Times :
                    /\ now - first >= ConfirmationDuration
                    /\ SustainedRun(heard[c], "strong", first, now)
  <1>1. PICK k : k = tracker[c]
    OBVIOUS
  <1>2. PICK n : n = tracker'[c]
    OBVIOUS
  <1>3. Good(k) /\ k \in Trackers
    BY <1>1, GoodTrackers DEF Good
  <1>4. now \in Nat
    OBVIOUS
  <1>5. PICK x : x = ExpireCandidate(k, now)
    OBVIOUS
  <1>6. PICK y : y = [x EXCEPT !.signalActive = active, !.signalTime = now]
    OBVIOUS
  <1>7. n = IF y.state = "candidate" /\ ConfirmationSatisfied(y, now)
            THEN TransitionDecision(y, "confirmed", now) ELSE y
    BY <1>1, <1>2, <1>5, <1>6 DEF ExternalSignal, IInv, TypeOK
  <1>8. \A e \in Cameras \ {c} : tracker'[e] = tracker[e]
    BY DEF ExternalSignal, IInv, TypeOK
  <1>9. x \in Trackers
    BY <1>3, <1>4, <1>5, ExpireCandidateGood DEF Good
  <1>10. /\ y.state = x.state /\ y.event = x.event /\ y.last = x.last /\ y.rearm = x.rearm
         /\ y.cooldown = x.cooldown /\ y.recoveryStart = x.recoveryStart
         /\ y.recoveryLast = x.recoveryLast /\ y.confirmStart = x.confirmStart
         /\ y.confirmLast = x.confirmLast /\ y.streak = x.streak
         /\ y.signalActive = active /\ y.signalTime = now
    BY <1>6, <1>9 DEF Trackers
  <1>11. CASE Overdue(k, now)
    <2>1. x = TransitionDecision(k, "timeout", now) /\ k.state = "candidate"
      BY <1>5, <1>11 DEF ExpireCandidate, Overdue
    <2>2. Decides(k, x) /\ x.state = "timeout"
      BY <1>3, <1>4, <2>1, TransitionDecides DEF Outcomes
    <2>3. n = y /\ n.state = "timeout"
      BY <1>7, <1>10, <2>2
    <2>4. Decides(k, n) /\ n.last = k.last
      BY <1>10, <2>2, <2>3 DEF Decides
    <2> QED
      BY <1>1, <1>2, <1>8, <1>10, <2>3, <2>4, SameKeeps
  <1>12. CASE ~Overdue(k, now) /\ ~(y.state = "candidate" /\ ConfirmationSatisfied(y, now))
    <2>1. x = k /\ n = y
      BY <1>5, <1>7, <1>12 DEF ExpireCandidate
    <2>2. Keeps(k, n) /\ n.last = k.last /\ n.event = k.event
      BY <1>10, <2>1 DEF Keeps
    <2> QED
      BY <1>1, <1>2, <1>8, <1>10, <2>1, <2>2, SameKeeps DEF NewlyDecided
  <1>13. CASE ~Overdue(k, now) /\ y.state = "candidate" /\ ConfirmationSatisfied(y, now)
    <2>1. x = k /\ n = TransitionDecision(y, "confirmed", now)
      BY <1>5, <1>7, <1>13 DEF ExpireCandidate
    <2>2. Good(y)
      <3>1. now \in Stamps
        BY <1>4 DEF Stamps
      <3>2. y \in Trackers
        BY <1>6, <1>9, <3>1 DEF Trackers
      <3> QED
        BY <1>3, <1>10, <2>1, <3>2 DEF Good, TrackerCoherent
    <2>3. "confirmed" \in Outcomes
      BY DEF Outcomes
    <2>4. Decides(y, n) /\ n.signalActive = active /\ n.signalTime = now
      BY <1>4, <1>10, <1>13, <2>1, <2>2, <2>3, TransitionDecides, TransitionFields
    <2>5. Decides(k, n) /\ n.last = k.last
      BY <1>10, <2>1, <2>4 DEF Decides
    <2>6. /\ k.state = "candidate" /\ k.confirmStart # NoTime
          /\ now - k.confirmStart >= ConfirmationDuration
          /\ now >= k.confirmLast /\ ~Interrupted(k.confirmLast, now)
          /\ ExternalRequired => active
      BY <1>10, <1>13, <2>1 DEF ConfirmationSatisfied, ConfirmationFresh
    <2>7. EndsInRun(heard[c], "strong", k.confirmStart, k.confirmLast) /\ heard[c] \in Heard
      BY <1>1, <2>6 DEF AuditInv, Audited, ConfirmationHeard
    <2>8. SustainedRun(heard[c], "strong", k.confirmStart, now) /\ k.confirmStart \in Times
      <3>1. "strong" \in Kinds \ {"absent"}
        BY DEF Kinds
      <3> QED
        BY <2>6, <2>7, <3>1, RunLasts DEF EndsInRun
    <2> QED
      BY <1>1, <1>2, <1>8, <2>4, <2>5, <2>6, <2>8, SameKeeps
  <1> QED
    BY <1>11, <1>12, <1>13

\* reject, which may find the candidate overdue, confirms nothing.
LEMMA RejectAudited ==
  ASSUME IInv, NEW c \in Cameras, NEW expected, NEW now \in Times,
         DecisionCommand(c, "rejected", expected, now)
  PROVE  /\ \A e \in Cameras : Decides(tracker[e], tracker'[e]) \/ Keeps(tracker[e], tracker'[e])
         /\ NothingConfirmed
  <1>1. PICK outcome : outcome = IF now >= tracker[c].event.deadline THEN "timeout" ELSE "rejected"
    OBVIOUS
  <1>2. outcome \in Outcomes /\ outcome # "confirmed" /\ now \in Nat
    BY <1>1 DEF Outcomes
  <1>3. /\ tracker[c].state = "candidate" /\ Good(tracker[c])
        /\ tracker'[c] = TransitionDecision(tracker[c], outcome, now)
        /\ \A e \in Cameras \ {c} : tracker'[e] = tracker[e]
    BY <1>1, GoodTrackers DEF DecisionCommand, IInv, TypeOK
  <1>4. Decides(tracker[c], tracker'[c]) /\ tracker'[c].state = outcome
    BY <1>2, <1>3, TransitionDecides
  <1> QED
    BY <1>2, <1>3, <1>4, SameKeeps DEF NothingConfirmed, NewlyDecided

LEMMA AdvanceTimeAudited ==
  ASSUME IInv, NEW now \in Times, AdvanceTime(now)
  PROVE  /\ \A e \in Cameras : Decides(tracker[e], tracker'[e]) \/ Keeps(tracker[e], tracker'[e])
         /\ NothingConfirmed
  <1>1. ASSUME NEW e \in Cameras
        PROVE  /\ Decides(tracker[e], tracker'[e]) \/ Keeps(tracker[e], tracker'[e])
               /\ ~(NewlyDecided(e) /\ tracker'[e].state = "confirmed")
    <2>1. tracker'[e] = ExpireCandidate(tracker[e], now) /\ Good(tracker[e]) /\ now \in Nat
      BY GoodTrackers DEF AdvanceTime
    <2> QED
      BY <2>1, ExpireAudited DEF NewlyDecided
  <1> QED
    BY <1>1 DEF NothingConfirmed

LEMMA StopAudited ==
  ASSUME IInv, NEW now \in Times, Stop(now)
  PROVE  /\ \A e \in Cameras : Decides(tracker[e], tracker'[e]) \/ Keeps(tracker[e], tracker'[e])
         /\ NothingConfirmed
  <1>1. ASSUME NEW e \in Cameras
        PROVE  /\ Decides(tracker[e], tracker'[e]) \/ Keeps(tracker[e], tracker'[e])
               /\ ~(NewlyDecided(e) /\ tracker'[e].state = "confirmed")
    <2>1. PICK k : k = tracker[e]
      OBVIOUS
    <2>2. PICK n : n = tracker'[e]
      OBVIOUS
    <2>3. n = StopTracker(k, now) /\ Good(k) /\ k \in Trackers /\ now \in Nat
      BY <2>1, <2>2, GoodTrackers DEF Stop, Good
    <2>4. CASE k.state = "candidate"
      <3>1. PICK t : t = IF now >= k.event.trigger THEN now ELSE k.event.trigger
        OBVIOUS
      <3>2. k.event.trigger \in Stamps
        BY <2>3 DEF Trackers, Events
      <3>3. t \in Nat
        BY <2>3, <3>1, <3>2 DEF Stamps, NoTime
      <3>4. n = TransitionDecision(k, "timeout", t) /\ "timeout" \in Outcomes
        BY <2>3, <2>4, <3>1 DEF StopTracker, Outcomes
      <3>5. Decides(k, n) /\ n.state = "timeout"
        BY <2>3, <2>4, <3>3, <3>4, TransitionDecides
      <3> QED
        BY <2>1, <2>2, <3>5
    <2>5. CASE k.state = "suspicious"
      <3>1. n = GoIdle(k)
        BY <2>3, <2>5 DEF StopTracker
      <3>2. /\ n.state = "idle" /\ n.event.decision = "none" /\ n.rearm = k.rearm
            /\ n.cooldown = k.cooldown /\ n.recoveryStart = k.recoveryStart
            /\ n.recoveryLast = k.recoveryLast /\ n.last = k.last
        BY <2>3, <3>1, GoIdleFields DEF NoEvent
      <3> QED
        BY <2>1, <2>2, <2>5, <3>2 DEF Keeps
    <2>6. CASE k.state \notin {"suspicious", "candidate"}
      <3>1. n = k
        BY <2>3, <2>6 DEF StopTracker
      <3> QED
        BY <2>1, <2>2, <3>1, SameKeeps DEF NewlyDecided
    <2> QED
      BY <2>4, <2>5, <2>6
  <1> QED
    BY <1>1 DEF NothingConfirmed

\* The successor of a stopped manager remembers what its cameras owe.
LEMMA ReconfigureAudited ==
  ASSUME IInv, AuditInv, NEW now \in Times, Reconfigure(now)
  PROVE  /\ \A e \in Cameras : Audited(tracker'[e], heard[e], decided[e])
         /\ NothingConfirmed
  <1>1. ASSUME NEW e \in Cameras
        PROVE  /\ Audited(tracker'[e], heard[e], decided[e])
               /\ tracker'[e].event.decision = "none"
    <2>1. PICK k : k = tracker[e]
      OBVIOUS
    <2>2. PICK n : n = tracker'[e]
      OBVIOUS
    <2>3. k \in Trackers /\ k.last \in Stamps /\ k.cooldown \in Stamps /\ now \in Nat
      BY <2>1 DEF IInv, TypeOK, Trackers
    <2>4. PICK cool : cool = IF k.rearm /\ k.cooldown > now THEN k.cooldown ELSE NoTime
      OBVIOUS
    <2>5. n = [NewTracker EXCEPT !.rearm = k.rearm, !.cooldown = cool, !.last = now]
      BY <2>1, <2>2, <2>4 DEF Reconfigure, Reseeded
    <2>6. /\ n.state = "idle" /\ n.event.decision = "none" /\ n.recoveryStart = NoTime
          /\ n.rearm = k.rearm /\ n.cooldown = cool /\ n.last = now /\ now >= k.last
      BY <2>1, <2>5 DEF NewTracker, NoEvent, Reconfigure
    <2>7. /\ heard[e] \in Heard /\ decided[e] \in Stamps /\ UpTo(heard[e], k.last)
          /\ CooldownKept(k, decided[e]) /\ RearmEarned(k, heard[e], decided[e])
      BY <2>1 DEF AuditInv, Audited
    <2>8. UpTo(heard[e], n.last)
      <3>1. k.last \in Int /\ now \in Int
        BY <2>3 DEF Stamps, NoTime
      <3>2. ASSUME NEW t \in Times, heard[e][t] # "absent"
            PROVE  t <= n.last
        <4>1. t \in Nat /\ t <= k.last
          BY <2>7, <3>2 DEF UpTo
        <4> QED
          BY <2>6, <3>1, <4>1
      <3> QED
        BY <3>2 DEF UpTo
    <2>9. CooldownKept(n, decided[e])
      <3>1. ASSUME n.rearm, decided[e] # NoTime
            PROVE  \/ n.cooldown = decided[e] + Cooldown
                   \/ n.cooldown = NoTime /\ n.last >= decided[e] + Cooldown
        <4>1. decided[e] + Cooldown \in Nat
          BY <2>7, <3>1 DEF Stamps
        <4>2. \/ k.cooldown = decided[e] + Cooldown
              \/ k.cooldown = NoTime /\ k.last >= decided[e] + Cooldown
          BY <2>6, <2>7, <3>1 DEF CooldownKept
        <4> QED
          BY <2>3, <2>4, <2>6, <3>1, <4>1, <4>2 DEF Stamps, NoTime
      <3> QED
        BY <3>1 DEF CooldownKept
    <2>10. Audited(n, heard[e], decided[e])
      BY <2>6, <2>7, <2>8, <2>9 DEF Audited, ConfirmationHeard, RecoveryHeard, RearmEarned
    <2> QED
      BY <2>2, <2>6, <2>10
  <1> QED
    BY <1>1 DEF NothingConfirmed, NewlyDecided

-----------------------------------------------------------------------------
(* The record, with the invariant of the manager *)

AuditedInv == DecidedInv /\ AuditInv

\* What a step that confirms must have heard.
ConfirmedStep ==
  \A c \in Cameras :
      LET now == IF tracker'[c].last # tracker[c].last
                 THEN tracker'[c].last ELSE tracker'[c].signalTime
      IN  NewlyDecided(c) /\ tracker'[c].state = "confirmed" =>
              /\ ExternalRequired => tracker'[c].signalActive
              /\ \E first \in Times :
                     /\ now - first >= ConfirmationDuration
                     /\ SustainedRun(HeardBy(c), "strong", first, now)

LEMMA AuditInitInv == AuditInit => AuditedInv
  <1> SUFFICES ASSUME AuditInit PROVE AuditedInv
    OBVIOUS
  <1>1. DecidedInv
    BY InitDecidedInv DEF AuditInit
  <1>2. ASSUME NEW c \in Cameras
        PROVE  Audited(tracker[c], heard[c], decided[c])
    <2>1. tracker[c] = NewTracker /\ heard[c] = Silence /\ decided[c] = NoTime
      BY DEF AuditInit, Init
    <2> QED
      BY <2>1, SilenceHeard DEF NewTracker, Audited, ConfirmationHeard, RecoveryHeard,
                                CooldownKept, RearmEarned, Stamps
  <1>3. heard \in [Cameras -> Heard] /\ decided \in [Cameras -> Stamps]
    BY SilenceHeard DEF AuditInit, Stamps
  <1> QED
    BY <1>1, <1>2, <1>3 DEF AuditedInv, AuditInv

LEMMA AuditNextIsNext == AuditNext => Next
  <1> "rejected" \in {"confirmed", "rejected"}
    OBVIOUS
  <1> QED
    BY MomentsAssumption DEF AuditNext, Next

\* A recorded step keeps the invariant, and confirms only on evidence.
LEMMA AuditStep ==
  ASSUME AuditedInv, AuditNext
  PROVE  AuditedInv' /\ ConfirmedStep
  <1>1. DecidedInv' /\ IInv /\ IInv' /\ AuditInv
    BY AuditNextIsNext, NextDecidedInv DEF AuditedInv, DecidedInv
  <1>2. heard \in [Cameras -> Heard] /\ decided \in [Cameras -> Stamps]
    BY <1>1 DEF AuditInv
  <1>3. ASSUME heard' = [c \in Cameras |-> heard'[c]], decided' = [c \in Cameras |-> decided'[c]],
               \A c \in Cameras : Audited(tracker'[c], heard'[c], decided'[c])
        PROVE  AuditedInv'
    <2>1. \A c \in Cameras : heard'[c] \in Heard /\ decided'[c] \in Stamps
      BY <1>3 DEF Audited
    <2>2. heard' \in [Cameras -> Heard] /\ decided' \in [Cameras -> Stamps]
      BY <1>3, <2>1
    <2>3. AuditInv'
      BY <1>3, <2>2 DEF AuditInv
    <2> QED
      BY <1>1, <2>3 DEF AuditedInv
  <1>4. NothingConfirmed => ConfirmedStep
    BY DEF NothingConfirmed, ConfirmedStep
  <1>5. ASSUME NEW now,
               AuditOther(now),
               \A c \in Cameras : Decides(tracker[c], tracker'[c]) \/ Keeps(tracker[c], tracker'[c])
        PROVE  AuditedInv'
    <2>1. heard' = [c \in Cameras |-> heard'[c]] /\ decided' = [c \in Cameras |-> decided'[c]]
      BY <1>5 DEF AuditOther
    <2>2. \A c \in Cameras : Audited(tracker'[c], heard'[c], decided'[c])
      BY <1>1, <1>5, OtherAudited
    <2> QED
      BY <1>3, <2>1, <2>2
  <1>6. ASSUME NEW c \in Cameras, NEW r \in Results, Process(c, r), AuditResult(c, r)
        PROVE  AuditedInv' /\ ConfirmedStep
    <2>1. /\ Audited(tracker'[c], heard'[c], decided'[c])
          /\ tracker'[c].last = r.time /\ ResultConfirms(c, r)
      BY <1>1, <1>6, ProcessAudited
    <2>2. \A e \in Cameras \ {c} : tracker'[e] = tracker[e]
      BY <1>1, <1>6 DEF Process, ProcessRearming, ProcessCandidateEligible,
             ProcessCandidateIneligible, ProcessIneligible, ProcessSuspicious,
             ProcessTriggered, Processed, IInv, TypeOK
    <2>3. /\ \A e \in Cameras \ {c} : heard'[e] = heard[e] /\ decided'[e] = decided[e]
          /\ heard' = [e \in Cameras |-> heard'[e]] /\ decided' = [e \in Cameras |-> decided'[e]]
          /\ heard'[c][r.time] = Kind(r)
      <3>1. PICK seen \in Heard : heard' = [heard EXCEPT ![c] = [seen EXCEPT ![r.time] = Kind(r)]]
        <4>1. (IF DecisionAt(c, r.time) = NoTime THEN heard[c] ELSE Silence) \in Heard
          BY <1>2, SilenceHeard
        <4> QED
          BY <1>6, <4>1 DEF AuditResult
      <3>2. r.time \in Times
        BY DEF Results
      <3>3. heard'[c] = [seen EXCEPT ![r.time] = Kind(r)]
        BY <1>2, <3>1
      <3>4. heard'[c][r.time] = Kind(r)
        BY <3>2, <3>3 DEF Heard
      <3>5. decided' = [e \in Cameras |-> decided'[e]] /\ \A e \in Cameras \ {c} : decided'[e] = decided[e]
        BY <1>2, <1>6 DEF AuditResult
      <3>6. heard' = [e \in Cameras |-> heard'[e]] /\ \A e \in Cameras \ {c} : heard'[e] = heard[e]
        BY <1>2, <3>1
      <3> QED
        BY <3>4, <3>5, <3>6
    <2>4. \A e \in Cameras : Audited(tracker'[e], heard'[e], decided'[e])
      BY <1>1, <2>1, <2>2, <2>3 DEF AuditInv
    <2>5. tracker'[c].last # tracker[c].last
      <3>1. r.time > tracker[c].last
        BY <1>6 DEF Process, ProcessRearming, ProcessCandidateEligible,
             ProcessCandidateIneligible, ProcessIneligible, ProcessSuspicious,
             ProcessTriggered, Accepts
      <3>2. r.time \in Nat
        BY DEF Results
      <3>3. tracker[c].last \in Stamps
        BY <1>1 DEF IInv, TypeOK, Trackers
      <3> QED
        BY <2>1, <3>1, <3>2, <3>3 DEF Stamps, NoTime
    <2>6. HeardBy(c) = [heard[c] EXCEPT ![r.time] = Kind(r)]
      BY <2>1, <2>3, <2>5 DEF HeardBy
    <2>7. ASSUME NEW e \in Cameras
          PROVE  LET now == IF tracker'[e].last # tracker[e].last
                            THEN tracker'[e].last ELSE tracker'[e].signalTime
                 IN  NewlyDecided(e) /\ tracker'[e].state = "confirmed" =>
                         /\ ExternalRequired => tracker'[e].signalActive
                         /\ \E first \in Times :
                                /\ now - first >= ConfirmationDuration
                                /\ SustainedRun(HeardBy(e), "strong", first, now)
      <3>1. CASE e = c
        BY <2>1, <2>5, <2>6, <3>1 DEF ResultConfirms
      <3>2. CASE e # c
        BY <2>2, <3>2 DEF NewlyDecided
      <3> QED
        BY <3>1, <3>2
    <2>8. ConfirmedStep
      BY <2>7 DEF ConfirmedStep
    <2> QED
      BY <1>3, <2>3, <2>4, <2>8
  <1>7. ASSUME NEW c \in Cameras, NEW active \in BOOLEAN, NEW now \in Times,
               ExternalSignal(c, active, now), AuditOther(now)
        PROVE  AuditedInv' /\ ConfirmedStep
    <2>1. /\ \A e \in Cameras : Decides(tracker[e], tracker'[e]) \/ Keeps(tracker[e], tracker'[e])
          /\ \A e \in Cameras \ {c} : tracker'[e] = tracker[e]
          /\ tracker'[c].last = tracker[c].last /\ tracker'[c].signalTime = now
          /\ NewlyDecided(c) /\ tracker'[c].state = "confirmed" =>
               /\ ExternalRequired => tracker'[c].signalActive
               /\ \E first \in Times :
                     /\ now - first >= ConfirmationDuration
                     /\ SustainedRun(heard[c], "strong", first, now)
      BY <1>1, <1>7, ExternalSignalAudited
    <2>2. HeardBy(c) = heard[c]
      BY <2>1 DEF HeardBy
    <2>3. ConfirmedStep
      BY <2>1, <2>2 DEF ConfirmedStep, NewlyDecided
    <2> QED
      BY <1>5, <1>7, <2>1, <2>3
  <1>8. ASSUME NEW c \in Cameras, NEW expected \in 1 .. 2, NEW now \in Times,
               DecisionCommand(c, "rejected", expected, now), AuditOther(now)
        PROVE  AuditedInv' /\ ConfirmedStep
    BY <1>1, <1>4, <1>5, <1>8, RejectAudited
  <1>9. ASSUME NEW now \in Times, AdvanceTime(now), AuditOther(now)
        PROVE  AuditedInv' /\ ConfirmedStep
    BY <1>1, <1>4, <1>5, <1>9, AdvanceTimeAudited
  <1>10. ASSUME NEW now \in Times, Stop(now), AuditOther(now)
         PROVE  AuditedInv' /\ ConfirmedStep
    BY <1>1, <1>4, <1>5, <1>10, StopAudited
  <1>11. ASSUME NEW now \in Times, Reconfigure(now), UNCHANGED <<heard, decided>>
         PROVE  AuditedInv' /\ ConfirmedStep
    <2>1. (\A e \in Cameras : Audited(tracker'[e], heard[e], decided[e])) /\ NothingConfirmed
      BY <1>1, <1>11, ReconfigureAudited
    <2>2. heard' = heard /\ decided' = decided
      BY <1>11
    <2>3. heard' = [c \in Cameras |-> heard'[c]] /\ decided' = [c \in Cameras |-> decided'[c]]
      BY <1>2, <2>2
    <2> QED
      BY <1>3, <1>4, <2>1, <2>2, <2>3
  <1> QED
    BY <1>6, <1>7, <1>8, <1>9, <1>10, <1>11, MomentsAssumption DEF AuditNext

LEMMA AuditedStutters == AuditedInv /\ UNCHANGED auditVars => AuditedInv'
  <1> SUFFICES ASSUME AuditedInv, UNCHANGED auditVars PROVE AuditedInv'
    OBVIOUS
  <1>1. UNCHANGED vars /\ heard' = heard /\ decided' = decided /\ tracker' = tracker
    BY DEF auditVars, vars
  <1>2. DecidedInv'
    BY <1>1, NextDecidedInv DEF AuditedInv
  <1>3. AuditInv'
    BY <1>1 DEF AuditedInv, AuditInv
  <1> QED
    BY <1>2, <1>3 DEF AuditedInv

THEOREM AuditedInvAlways == AuditSpec => []AuditedInv
  BY AuditInitInv, AuditStep, AuditedStutters, PTL DEF AuditSpec

\* After a decision an automatic candidate is raised only once the camera's
\* results were normal, uninterrupted, for RearmDuration and past the cooldown
\* (observe_recovery and the rearm seeds): whatever results, signals, commands,
\* stops and reconfigurations came in between.
THEOREM RearmedByQuietAlways == AuditSpec => RearmedByQuiet
  <1>1. AuditedInv' /\ AuditedInv /\ [AuditNext]_auditVars =>
          [\A c \in Cameras :
             LET e == tracker'[c].event IN
             /\ e.version = 1
             /\ e # tracker[c].event
             /\ ~e.manual
             /\ decided'[c] # NoTime
             => \E first, last \in Times :
                    /\ last - first >= RearmDuration
                    /\ last >= decided'[c] + Cooldown
                    /\ SustainedRun(heard'[c], "normal", first, last)
                    /\ heard'[c][last] = "normal"]_auditVars
    <2> SUFFICES ASSUME AuditedInv', NEW c \in Cameras, tracker'[c].event.version = 1,
                        decided'[c] # NoTime
                 PROVE  \E first, last \in Times :
                            /\ last - first >= RearmDuration
                            /\ last >= decided'[c] + Cooldown
                            /\ SustainedRun(heard'[c], "normal", first, last)
                            /\ heard'[c][last] = "normal"
      OBVIOUS
    <2>1. TrackerCoherent(tracker'[c]) /\ tracker'[c].state \in States
      BY DEF AuditedInv, DecidedInv, IInv, TypeOK, EventMatchesState, Trackers
    <2>2. ~tracker'[c].rearm
      BY <2>1 DEF TrackerCoherent, States, Outcomes
    <2>3. RearmEarned(tracker'[c], heard'[c], decided'[c])
      BY DEF AuditedInv, AuditInv, Audited
    <2>4. QuietAfter(heard'[c], decided'[c])
      BY <2>2, <2>3 DEF RearmEarned
    <2> QED
      BY <2>4 DEF QuietAfter
  <1> QED
    BY <1>1, AuditedInvAlways, PTL DEF AuditSpec, RearmedByQuiet

\* A result or an external signal confirms an event only after strong results
\* without a gap for ConfirmationDuration up to it, and with the external input
\* active where it is required (confirmation_satisfied).
THEOREM ConfirmedOnEvidenceAlways == AuditSpec => ConfirmedOnEvidence
  <1>1. AuditedInv /\ [AuditNext]_auditVars => [ConfirmedStep]_auditVars
    BY AuditStep
  <1> QED
    BY <1>1, AuditedInvAlways, PTL DEF AuditSpec, ConfirmedOnEvidence, ConfirmedStep

=============================================================================
