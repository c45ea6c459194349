------------------------------ MODULE EventWindows ------------------------------
(***************************************************************************)
(* The event windows of a pipeline and the memory rings they lease from.   *)
(* A candidate opens a window from some time before its trigger to some    *)
(* time after it, or widens the windows it meets and joins them to the     *)
(* oldest.  A window leases the frames before its trigger at once from     *)
(* the ring of every camera, and collects the rest when it is frozen,      *)
(* after its end and the merge gap have passed.                            *)
(*                                                                         *)
(* A ring holds the newest frames of its camera and accounts for the       *)
(* leases that keep frames alive for an event after the ring has let go of *)
(* them.  A frame is its receive time.  One unit of time is one frame of   *)
(* every camera, which numbers its frames one by one: a frame that was     *)
(* lost before it reached the ring is a missing number.  The event thread  *)
(* may be behind the cameras, and a call of the window manager joins or    *)
(* closes one window at a time while frames arrive.  A candidate is known  *)
(* by its trigger; when one is opened is CandidateEvents.  Byte counts and *)
(* the notices of a shortage are left out.                                 *)
(***************************************************************************)
EXTENDS Integers, FiniteSets, FiniteSetsExt, Sequences, SequencesExt

CONSTANTS
    RingCapacity,         \* frames a ring holds
    MaximumLeases,        \* leases of one ring at a time
    MaximumReferences,    \* frames of one ring leased at a time, each counted per lease
    Cameras,
    Triggering,           \* bound: cameras whose candidates are explored
    PreEvent,             \* time before the trigger
    PostEvent,            \* time after it
    MergeGap,
    MaximumDuration,      \* of a window
    MaximumActiveEvents,
    TriggersPerEvent,     \* maximum_triggers_per_event
    LastTime,             \* bound: receive times explored
    MaximumTriggers,      \* bound: candidates explored
    Losing,               \* bound: cameras whose frames may be lost, one at a time
    Behind,               \* bound: frames a camera may be ahead of the event thread
    Disorder              \* bound: how far a trigger may lie in the past (0 as deployed)

ASSUME WindowsAssumption ==
    /\ {RingCapacity, MaximumLeases, MaximumReferences} \subseteq Nat \ {0}
    /\ IsFiniteSet(Cameras) /\ Triggering \cup Losing \subseteq Cameras
    /\ PreEvent \in Nat /\ PostEvent \in Nat /\ MergeGap \in Nat
    /\ MaximumDuration \in Nat \ {0}
    /\ PreEvent + PostEvent <= MaximumDuration
    /\ MaximumActiveEvents \in Nat \ {0}
    /\ TriggersPerEvent \in Nat \ {0}
    /\ {LastTime, MaximumTriggers, Behind, Disorder} \subseteq Nat

-----------------------------------------------------------------------------
(* MemoryRing, as operators on a record *)

NoFrame == 0

EmptyRing == [frames |-> {}, newest |-> NoFrame, leases |-> 0, references |-> 0]

\* push: only a newer frame, and the oldest makes room.
PushAccepted(ring, t) == t > ring.newest

WithFrame(ring, t) ==
    LET full == Cardinality(ring.frames) >= RingCapacity IN
    [ring EXCEPT !.frames = {t} \cup IF full THEN @ \ {Min(@)} ELSE @,
                 !.newest = t]

MissingNumber(frames) == frames # {} /\ \E t \in Min(frames) .. Max(frames) : t \notin frames

FramesWithin(ring, start, end) == {t \in ring.frames : start <= t /\ t <= end}

\* lease_window: refused without a frame, or beyond the limits.
LeaseGranted(ring, start, end) ==
    /\ FramesWithin(ring, start, end) # {}
    /\ ring.leases < MaximumLeases
    /\ Cardinality(FramesWithin(ring, start, end)) <= MaximumReferences - ring.references

\* What a lease holds, the part of the request the ring reaches over, and
\* whether that is all of it.
LeaseOf(ring, start, end) ==
    LET frames == FramesWithin(ring, start, end) IN
    [frames |-> frames,
     from |-> Max({Min(ring.frames), start}),
     to |-> Min({ring.newest, end}),
     whole |-> Min(ring.frames) <= start /\ end <= ring.newest /\ ~MissingNumber(frames)]

Leased(ring, lease) ==
    [ring EXCEPT !.leases = @ + 1, !.references = @ + Cardinality(lease.frames)]

\* release
Released(ring, count, references) ==
    [ring EXCEPT !.leases = @ - count, !.references = @ - references]

-----------------------------------------------------------------------------
(* The deployed ring: what plan_memory_ring gives at one frame per unit of *)
(* time, with its margin, and the two frames build_pipeline adds.          *)

PlannedRingFrames == PreEvent + 1

PipelineRingCapacity == PlannedRingFrames + 2

PipelineReferences == PlannedRingFrames * 8

VARIABLES
    ring,      \* the memory ring of each camera
    accepted,  \* accepted[c]: every frame the ring of c has taken
    now,       \* the receive time the event thread has reached
    active,    \* the open windows, oldest first
    frozen,    \* the windows that were closed
    call,      \* what the call that holds the manager has yet to do
    preBuffer, \* preBuffer[c]: frames the candidate of c has leased for itself
    armed,     \* armed[c]: camera c may open a candidate
    triggers,  \* the triggers that got a window
    stopped

windowVars == <<ring, accepted, now, active, frozen, call, preBuffer, armed, triggers, stopped>>

Times == 1 .. LastTime

NoLease == 0

\* No window waits to be joined to another (into) or to be closed (into = 0).
NoCall == [into |-> 0, positions |-> {}]

CallOver == call.positions = {}

\* update_deadline: a window is cut at its longest duration.
Limited(event) ==
    LET hardEnd == event.start + MaximumDuration IN
    [event EXCEPT !.end = Min({@, hardEnd}), !.truncated = @ \/ event.end > hardEnd]

MergeDeadline(event) == Min({event.end + MergeGap, event.start + MaximumDuration})

\* protect_range: one lease from every ring; what is missing is remembered.
Protected(state, start, end) ==
    LET granted(c) == LeaseGranted(state.rings[c], start, end)
        lease(c) == LeaseOf(state.rings[c], start, end) IN
    [event |-> [state.event EXCEPT !.protection = [c \in Cameras |->
            IF granted(c)
            THEN [leases |-> Append(@[c].leases, lease(c)), short |-> @[c].short \/ ~lease(c).whole]
            ELSE [@[c] EXCEPT !.short = TRUE]]],
     rings |-> [c \in Cameras |->
            IF granted(c) THEN Leased(state.rings[c], lease(c)) ELSE state.rings[c]]]

\* A window that now begins earlier protects what it has gained.
Widened(state, oldStart) ==
    IF state.event.start < oldStart THEN Protected(state, state.event.start, oldStart) ELSE state

NewEvent(c, t) ==
    Limited([first |-> [camera |-> c, time |-> t],
             start |-> t - PreEvent,
             end |-> t + PostEvent,
             earliest |-> t,
             latest |-> t,
             truncated |-> FALSE,
             triggers |-> {[camera |-> c, time |-> t]},
             protection |-> [d \in Cameras |-> [leases |-> <<>>, short |-> FALSE]]])

\* The union of two windows under the name of the first.
Union(target, source) ==
    Limited([target EXCEPT
        !.start = Min({@, source.start}),
        !.end = Max({@, source.end}),
        !.earliest = Min({@, source.earliest}),
        !.latest = Max({@, source.latest}),
        !.truncated = @ \/ source.truncated,
        !.triggers = @ \cup source.triggers,
        !.protection = [c \in Cameras |->
            [leases |-> @[c].leases \o source.protection[c].leases,
             short |-> @[c].short \/ source.protection[c].short]]])

\* merge_event_into
MergedInto(state, source) ==
    Widened([state EXCEPT !.event = Union(@, source)], state.event.start)

OverlapsWithGap(event, start, end) ==
    /\ start <= event.end + MergeGap
    /\ event.start <= end + MergeGap

\* respects_trigger_span: no trigger would lie beyond the longest duration.
RespectsTriggerSpan(event, start, t) ==
    Max({event.latest, t}) <= Min({event.start, start}) + MaximumDuration

\* The windows, by position, that the trigger at time t may join.
Matches(t) ==
    {i \in 1 .. Len(active) :
        /\ OverlapsWithGap(active[i], t - PreEvent, t + PostEvent)
        /\ RespectsTriggerSpan(active[i], t - PreEvent, t)}

\* The trigger and these windows fit into one.
FitTogether(positions, t) ==
    /\ Max({t} \cup {active[i].latest : i \in positions})
            <= Min({t - PreEvent} \cup {active[i].start : i \in positions}) + MaximumDuration
    /\ Cardinality(UNION {active[i].triggers : i \in positions}) < TriggersPerEvent

\* The other windows the oldest one takes in, chosen from the oldest on: each
\* that fits together with those before it.
Absorbs(oldest, others, absorbed, t) ==
    \A i \in others :
        i \in absorbed <=> FitTogether({oldest, i} \cup {j \in absorbed : j < i}, t)

-----------------------------------------------------------------------------
(* Frames *)

\* submit_frame: the ring is fed while the event thread works.
Push(c, t) ==
    /\ PushAccepted(ring[c], t)
    /\ t <= ring[c].newest + IF c \in Losing THEN 2 ELSE 1
    /\ t <= now + 1 + Behind
    /\ ring' = [ring EXCEPT ![c] = WithFrame(@, t)]
    /\ accepted' = [accepted EXCEPT ![c] = @ \cup {t}]
    /\ UNCHANGED <<now, active, frozen, call, preBuffer, armed, triggers, stopped>>

-----------------------------------------------------------------------------
(* Candidates *)

\* create_candidate: the candidate leases the time before its trigger for
\* itself, from its own camera.
WithPreBuffer(c, t) ==
    IF LeaseGranted(ring[c], t - PreEvent, t)
    THEN [ring EXCEPT ![c] = Leased(@, LeaseOf(@, t - PreEvent, t))]
    ELSE ring

PreBufferOf(c, t) ==
    IF LeaseGranted(ring[c], t - PreEvent, t)
    THEN Cardinality(FramesWithin(ring[c], t - PreEvent, t))
    ELSE NoLease

MayTrigger(c, t) ==
    /\ c \in Triggering
    /\ CallOver
    /\ armed[c]
    /\ ~stopped
    /\ t \in accepted[c]
    /\ t + Disorder >= now
    /\ [camera |-> c, time |-> t] \notin triggers

OpenCandidate(c, t) ==
    /\ MayTrigger(c, t)
    /\ armed' = [armed EXCEPT ![c] = FALSE]
    /\ preBuffer' = [preBuffer EXCEPT ![c] = PreBufferOf(c, t)]
    /\ UNCHANGED <<accepted, now, frozen, stopped>>

\* start_or_merge without a window to join
StartWindow(c, t) ==
    LET event == NewEvent(c, t)
        state == Protected([event |-> event, rings |-> WithPreBuffer(c, t)], event.start, t) IN
    /\ Cardinality(triggers) < MaximumTriggers
    /\ Matches(t) = {}
    /\ Len(active) < MaximumActiveEvents
    /\ OpenCandidate(c, t)
    /\ active' = Append(active, state.event)
    /\ ring' = state.rings
    /\ UNCHANGED call
    /\ triggers' = triggers \cup {[camera |-> c, time |-> t]}

\* start_or_merge: the oldest window takes the trigger, and then what it
\* absorbs.
MergeWindows(c, t) ==
    LET matches == Matches(t)
        oldest == Min(matches)
        joined == Widened([event |-> Union(active[oldest], NewEvent(c, t)),
                           rings |-> WithPreBuffer(c, t)], active[oldest].start) IN
    /\ Cardinality(triggers) < MaximumTriggers
    /\ matches # {}
    /\ Cardinality(active[oldest].triggers) < TriggersPerEvent
    /\ OpenCandidate(c, t)
    /\ active' = [active EXCEPT ![oldest] = joined.event]
    /\ ring' = joined.rings
    /\ \E absorbed \in SUBSET (matches \ {oldest}) :
        /\ Absorbs(oldest, matches \ {oldest}, absorbed, t)
        /\ call' = [into |-> oldest, positions |-> absorbed]
    /\ triggers' = triggers \cup {[camera |-> c, time |-> t]}

\* A call goes through its windows from the youngest on.
Youngest(i) == i \in call.positions /\ \A j \in call.positions : j <= i

\* The call has one window less to do.
OneDone(i) == call' = [call EXCEPT !.positions = @ \ {i}]

\* start_or_merge takes in the next window.
Absorb(i) ==
    LET merged == MergedInto([event |-> active[call.into], rings |-> ring], active[i]) IN
    /\ Youngest(i)
    /\ call.into # 0
    /\ active' = RemoveAt([active EXCEPT ![call.into] = merged.event], i)
    /\ ring' = merged.rings
    /\ OneDone(i)
    /\ UNCHANGED <<accepted, now, frozen, preBuffer, armed, triggers, stopped>>

\* start_or_merge refuses: the candidate stays without a window.
RefuseTrigger(c, t) ==
    LET matches == Matches(t) IN
    /\ IF matches = {} THEN Len(active) >= MaximumActiveEvents
       ELSE Cardinality(active[Min(matches)].triggers) >= TriggersPerEvent
    /\ OpenCandidate(c, t)
    /\ ring' = WithPreBuffer(c, t)
    /\ UNCHANGED <<active, call, triggers>>

\* The camera is rearmed, or the manager stops: the candidate's lease ends.
Rearm(c) ==
    /\ CallOver
    /\ ~armed[c]
    /\ armed' = [armed EXCEPT ![c] = TRUE]
    /\ preBuffer' = [preBuffer EXCEPT ![c] = NoLease]
    /\ ring' = IF preBuffer[c] = NoLease THEN ring
               ELSE [ring EXCEPT ![c] = Released(@, 1, preBuffer[c])]
    /\ UNCHANGED <<accepted, now, active, frozen, call, triggers, stopped>>

-----------------------------------------------------------------------------
(* Freezing *)

ContinuousFromStart(segments, start, end) ==
    LET reached(before) == Max({start} \cup {s.to : s \in before}) IN
    /\ \E s \in segments : s.from <= start
    /\ \A s \in segments : s.from <= reached({r \in segments : r.from < s.from})

\* The segments reach from the start to the end without a hole between them.
Continuous(segments, start, end) ==
    LET reached(before) == Max({start} \cup {s.to : s \in before}) IN
    /\ \E s \in segments : s.from <= start
    /\ \A s \in segments : s.from <= reached({r \in segments : r.from < s.from})
    /\ reached(segments) >= end

\* freeze_camera: the leases and, for a moment, one more of what came since.
FrozenCamera(r, protection, event) ==
    LET final == IF LeaseGranted(r, event.earliest, event.end)
                 THEN {LeaseOf(r, event.earliest, event.end)} ELSE {}
        segments == ToSet(protection.leases) \cup final
        frames == UNION {s.frames : s \in segments} IN
    [frames |-> frames,
     complete |-> /\ frames # {}
                  /\ ~protection.short
                  /\ ~MissingNumber(frames)
                  /\ Continuous(segments, event.start, event.end)]

FrozenEvent(rings, event, closed) ==
    LET camera == [c \in Cameras |-> FrozenCamera(rings[c], event.protection[c], event)] IN
    [start |-> event.start,
     end |-> event.end,
     truncated |-> event.truncated,
     triggers |-> event.triggers,
     closed |-> closed,
     frames |-> [c \in Cameras |-> camera[c].frames],
     complete |-> \A c \in Cameras : camera[c].complete]

LeasedFrames(leases) == MapThenSumSet(LAMBDA i : Cardinality(leases[i].frames), DOMAIN leases)

\* Windows that are gone give their leases back.
WithoutLeases(rings, events) ==
    [c \in Cameras |-> Released(rings[c],
        MapThenSumSet(LAMBDA event : Len(event.protection[c].leases), events),
        MapThenSumSet(LAMBDA event : LeasedFrames(event.protection[c].leases), events))]

Expired(t) == {i \in 1 .. Len(active) : t > MergeDeadline(active[i])}

\* advance_time with the time of a frame whose result the event thread takes
AdvanceTime(t) ==
    /\ CallOver
    /\ ~stopped
    /\ t > now
    /\ \E c \in Cameras : t \in accepted[c]
    /\ now' = t
    /\ call' = [into |-> 0, positions |-> Expired(t)]
    /\ UNCHANGED <<ring, accepted, active, frozen, preBuffer, armed, triggers, stopped>>

\* advance_time closes the next window, which returns its leases before the one
\* after it is looked at.
FreezeWindow(i) ==
    /\ Youngest(i)
    /\ call.into = 0
    /\ frozen' = frozen \cup {FrozenEvent(ring, active[i], now)}
    /\ ring' = WithoutLeases(ring, {active[i]})
    /\ active' = RemoveAt(active, i)
    /\ OneDone(i)
    /\ UNCHANGED <<accepted, now, preBuffer, armed, triggers, stopped>>

\* stop: every window is frozen as it is; their leases end together. The
\* runtime takes no frames any more when it stops the manager.
StopWindows ==
    /\ CallOver
    /\ ~stopped
    /\ stopped' = TRUE
    /\ frozen' = frozen \cup {FrozenEvent(ring, event, now) : event \in ToSet(active)}
    /\ ring' = WithoutLeases(ring, ToSet(active))
    /\ active' = <<>>
    /\ UNCHANGED <<accepted, now, call, preBuffer, armed, triggers>>

WindowsInit ==
    /\ ring = [c \in Cameras |-> EmptyRing]
    /\ accepted = [c \in Cameras |-> {}]
    /\ now = 0
    /\ active = <<>>
    /\ frozen = {}
    /\ call = NoCall
    /\ preBuffer = [c \in Cameras |-> NoLease]
    /\ armed = [c \in Cameras |-> TRUE]
    /\ triggers = {}
    /\ stopped = FALSE

WindowsNext ==
    \/ \E c \in Cameras, t \in Times :
        Push(c, t) \/ StartWindow(c, t) \/ MergeWindows(c, t) \/ RefuseTrigger(c, t)
    \/ \E c \in Cameras : Rearm(c)
    \/ \E i \in 1 .. Len(active) : Absorb(i)
    \/ \E i \in 1 .. Len(active) : FreezeWindow(i)
    \/ \E t \in Times : AdvanceTime(t)
    \/ StopWindows

WindowsSpec == WindowsInit /\ [][WindowsNext]_windowVars

-----------------------------------------------------------------------------
(* Properties *)

\* Every ring keeps at most its capacity and no more leases than allowed, and
\* its counters are exactly what the open windows and the waiting candidates
\* hold: merging moves leases, freezing and rearming return each once. A lost
\* release would end the protection of every later event.
LeasesAccounted ==
    \A c \in Cameras :
        /\ Cardinality(ring[c].frames) <= RingCapacity
        /\ ring[c].leases \in 0 .. MaximumLeases
        /\ ring[c].references \in 0 .. MaximumReferences
        /\ LET held(i) == active[i].protection[c].leases IN
           /\ ring[c].leases =
                MapThenSumSet(LAMBDA i : Len(held(i)), DOMAIN active)
                    + (IF preBuffer[c] = NoLease THEN 0 ELSE 1)
           /\ ring[c].references =
                MapThenSumSet(LAMBDA i : LeasedFrames(held(i)), DOMAIN active) + preBuffer[c]

\* A window declared complete has, from every camera, every frame the ring ever
\* took between its start and its end, and no number is missing among them:
\* whatever was overwritten, lost or refused a lease meanwhile, and however
\* windows were joined, the loss is known.
CompleteHasEveryFrame ==
    \A w \in frozen : w.complete =>
        \A c \in Cameras :
            /\ {t \in accepted[c] : w.start <= t /\ t <= w.end} \subseteq w.frames[c]
            /\ ~MissingNumber(w.frames[c])

Windows == ToSet(active) \cup frozen

\* A trigger that was accepted is in exactly one window, open or frozen, and
\* that window reaches over the time asked for it unless it was cut at its
\* longest duration; the trigger itself is never cut off.
TriggersWithinWindow ==
    \A trigger \in triggers :
        /\ Cardinality({w \in Windows : trigger \in w.triggers}) = 1
        /\ \A w \in Windows : trigger \in w.triggers =>
            /\ w.start <= trigger.time - PreEvent
            /\ trigger.time <= w.end
            /\ w.truncated \/ trigger.time + PostEvent <= w.end

\* What the requirements say of an undisturbed event: no frame was lost, the
\* event thread kept up with the camera, nothing was merged or cut. The frames
\* from before the trigger to the end of the window are then complete.
UndisturbedIsComplete ==
    \A w \in frozen :
        (w.closed = w.end + MergeGap + 1 /\ Cardinality(w.triggers) = 1 /\ w.start >= 1)
            => w.complete

=============================================================================
