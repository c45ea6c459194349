---------------------------- MODULE ResultOrdering ----------------------------
(***************************************************************************)
(* The lanes of the event runtime and the event thread that collects their *)
(* results.  Every camera has a lane: a slot for the newest frame, a slot  *)
(* for a frame an operator asked for, and a worker that analyses one frame *)
(* at a time and puts the result into one bounded queue.  The event thread *)
(* takes results in the order of their receive times: it reads from every  *)
(* lane the earliest frame it still holds, and takes a result only before  *)
(* that watermark and only if nothing has changed since it began to read.  *)
(*                                                                         *)
(* Taking a result advances the candidate manager, which has a lock of its *)
(* own, and then the rows of the events, under the lifecycle lock; the     *)
(* external confirmation of a camera does the same on its own thread.      *)
(*                                                                         *)
(* A frame is its receive time; what the detector says of it is chosen     *)
(* when its result is processed, and a candidate may expire at any result. *)
(* Left out: the processing period (a frame that waits may be due or not), *)
(* the backlog windows, the degrading of a lane and the counters, windows  *)
(* and freezing (EventRecords) and the trackers behind a candidate         *)
(* (CandidateEvents).                                                      *)
(***************************************************************************)
EXTENDS Integers, FiniteSets

CONSTANTS
    Cameras,                \* numbers, in the order of the camera ids
    LastTime,               \* bound: receive times explored
    ResultCapacity,         \* results that may wait for the event thread
    Detecting,              \* bound: cameras whose results open candidates
    Operated,               \* bound: cameras an operator triggers by hand
    MaximumReconfigurations \* bound: pipelines built after the first

ASSUME OrderingAssumption ==
    /\ IsFiniteSet(Cameras)
    /\ Cameras \subseteq Nat
    /\ LastTime \in Nat \ {0}
    /\ ResultCapacity \in Nat \ {0}
    /\ Detecting \subseteq Cameras
    /\ Operated \subseteq Cameras
    /\ MaximumReconfigurations \in Nat

VARIABLES
    runtime,     \* "created", "running", "reconfiguring", "stopping" or "stopped"
    lane,        \* lane[c]: slots, worker and flags of camera c
    results,     \* the result queue
    unchanged,   \* no progress has been announced since the event thread looked
    eventThread, \* what the event thread is doing, see EventThreads
    eventStop,   \* the event thread may end when the queue is empty
    manager,     \* manager[c]: what the candidate manager decided of camera c's event
    row,         \* row[c]: the decision the rows of that event hold
    signal,      \* the camera whose external confirmation is being applied
    delivered,   \* delivered[c]: the last frame of c the event thread has taken
    pipelines    \* reconfigurations done

orderingVars ==
    <<runtime, lane, results, unchanged, eventThread, eventStop, manager, row, signal,
      delivered, pipelines>>

Times == 1 .. LastTime

NoTime == 0
NoCamera == -1

\* After the last receive time: no lane holds a frame back.
NoMark == LastTime + 1

Lanes ==
    [automatic : Times \cup {NoTime},   \* the newest frame
     manual : Times \cup {NoTime},      \* the frame taken for an operator
     inFlight : Times \cup {NoTime},    \* the frame under analysis
     worker : {"waiting", "analysing", "enqueued", "ended"},
     manualPending : BOOLEAN,           \* the next frame is for an operator
     newest : Times \cup {NoTime}]      \* the last frame submitted

NewLane(newest) ==
    [automatic |-> NoTime, manual |-> NoTime, inFlight |-> NoTime, worker |-> "waiting",
     manualPending |-> FALSE, newest |-> newest]

Results == [camera : Cameras, time : Times]

NoResult == [camera |-> NoCamera, time |-> NoTime]

\* The event thread reads the lanes one by one, takes a result, and processes
\* it in three steps: the manager learns of it, its rows follow and the
\* manager's time advances, the rows of what timed out follow.
EventThreads ==
    [at : {"looking", "reading", "taken", "created", "advanced", "ended"},
     unread : SUBSET Cameras,
     mark : Times \cup {NoMark},
     result : Results \cup {NoResult},
     notices : SUBSET Cameras]

Looking ==
    [at |-> "looking", unread |-> {}, mark |-> NoMark, result |-> NoResult, notices |-> {}]

Decisions == {"None", "Candidate", "Confirmed", "Timeout"}

Earliest(times, none) ==
    IF times = {} THEN none ELSE CHOOSE t \in times : \A u \in times : t <= u

Held(c) == {lane[c].automatic, lane[c].manual, lane[c].inFlight} \ {NoTime}

HeldBackByWorker(c) == {lane[c].inFlight} \ {NoTime}

\* What the watermark reads of a lane.
HeldBack(c) == Held(c)

Before(r, s) ==
    \/ r.time < s.time
    \/ r.time = s.time /\ r.camera < s.camera

-----------------------------------------------------------------------------
(* The lanes *)

\* submit_frame: the ring has refused frames that are not newer. The slot is
\* written and the progress announced while the lane's lock is held.
SubmitFrame(c, t) ==
    /\ runtime = "running"
    /\ t > lane[c].newest
    /\ lane' = [lane EXCEPT ![c] =
            [@ EXCEPT !.automatic = IF lane[c].manualPending THEN NoTime ELSE t,
                      !.manual = IF lane[c].manualPending THEN t ELSE lane[c].manual,
                      !.manualPending = FALSE,
                      !.newest = t]]
    /\ unchanged' = FALSE
    /\ UNCHANGED <<runtime, results, eventThread, eventStop, manager, row, signal, delivered, pipelines>>

\* request_manual_trigger
RequestManualTrigger(c) ==
    /\ runtime = "running"
    /\ ~lane[c].manualPending
    /\ lane[c].manual = NoTime
    /\ lane' = [lane EXCEPT ![c].manualPending = TRUE]
    /\ UNCHANGED <<runtime, results, unchanged, eventThread, eventStop, manager, row, signal, delivered, pipelines>>

LaneOnly == UNCHANGED <<runtime, eventThread, eventStop, manager, row, signal, delivered, pipelines>>

\* run_lane: the operator's frame goes first, and the taking is announced.
TakeFrame(c) ==
    LET manual == lane[c].manual # NoTime IN
    /\ runtime \in {"running", "reconfiguring", "stopping"}
    /\ lane[c].worker = "waiting"
    /\ manual \/ lane[c].automatic # NoTime
    /\ lane' = [lane EXCEPT ![c] =
            [@ EXCEPT !.inFlight = IF manual THEN lane[c].manual ELSE lane[c].automatic,
                      !.manual = NoTime,
                      !.automatic = IF manual THEN lane[c].automatic ELSE NoTime,
                      !.worker = "analysing"]]
    /\ unchanged' = FALSE
    /\ UNCHANGED results
    /\ LaneOnly

QueueFull == Cardinality(results) >= ResultCapacity

\* enqueue_result: a full queue costs the result.
EnqueueResult(c) ==
    /\ lane[c].worker = "analysing"
    /\ lane' = [lane EXCEPT ![c].worker = "enqueued"]
    /\ results' = IF QueueFull THEN results
                  ELSE results \cup {[camera |-> c, time |-> lane[c].inFlight]}
    /\ unchanged' = (unchanged /\ QueueFull)
    /\ LaneOnly

\* The frame is no longer in flight, and then the progress is announced: who
\* reads the lane between the two has to read again.
ClearInFlight(c) ==
    /\ lane[c].worker = "enqueued"
    /\ lane' = [lane EXCEPT ![c].worker = "waiting", ![c].inFlight = NoTime]
    /\ unchanged' = FALSE
    /\ UNCHANGED results
    /\ LaneOnly

\* A worker ends once it is told to stop and both slots are empty.
EndLane(c) ==
    /\ runtime \in {"reconfiguring", "stopping"}
    /\ lane[c].worker = "waiting"
    /\ lane[c].manual = NoTime
    /\ lane[c].automatic = NoTime
    /\ lane' = [lane EXCEPT ![c].worker = "ended"]
    /\ UNCHANGED <<results, unchanged>>
    /\ LaneOnly

Lane(c) == TakeFrame(c) \/ EnqueueResult(c) \/ ClearInFlight(c) \/ EndLane(c)

-----------------------------------------------------------------------------
(* The event thread *)

EventOnly == UNCHANGED <<runtime, lane, eventStop, signal, pipelines>>

\* run_events: remember the generation, then read the lanes.
Look ==
    /\ runtime \in {"running", "reconfiguring", "stopping"}
    /\ eventThread.at = "looking"
    /\ ~unchanged
    /\ unchanged' = TRUE
    /\ eventThread' = [Looking EXCEPT !.at = "reading", !.unread = Cameras]
    /\ UNCHANGED <<results, manager, row, delivered>>
    /\ EventOnly

\* safe_watermark: one lane under its lock, in their order.
ReadLane(c) ==
    /\ eventThread.at = "reading"
    /\ c \in eventThread.unread
    /\ \A d \in eventThread.unread : c <= d
    /\ eventThread' =
            [eventThread EXCEPT !.unread = @ \ {c}, !.mark = Earliest(HeldBack(c) \cup {@}, NoMark)]
    /\ UNCHANGED <<results, unchanged, manager, row, delivered>>
    /\ EventOnly

AllRead == eventThread.at = "reading" /\ eventThread.unread = {}

First(r) == r \in results /\ \A s \in results : s = r \/ Before(r, s)

\* Safe to take: nothing earlier can still come out of a lane.
Ripe(r) == First(r) /\ r.time < eventThread.mark

\* Nothing to take, or something changed: look again, and wait for a change
\* if there was none.
LookAgain ==
    /\ AllRead
    /\ unchanged => ~(\E r \in results : Ripe(r)) /\ ~(eventStop /\ results = {})
    /\ eventThread' = Looking
    /\ UNCHANGED <<results, unchanged, manager, row, delivered>>
    /\ EventOnly

TakeResult(r) ==
    /\ AllRead
    /\ unchanged
    /\ Ripe(r)
    /\ results' = results \ {r}
    /\ delivered' = [delivered EXCEPT ![r.camera] = r.time]
    /\ eventThread' = [Looking EXCEPT !.at = "taken", !.result = r]
    /\ UNCHANGED <<unchanged, manager, row>>
    /\ EventOnly

\* The lifecycle lock, from process to ApplyTimeouts.
LifecycleHeld == eventThread.at \in {"created", "advanced"}

\* process_result: the manager opens a candidate for a detection.
ProcessResult(detected) ==
    LET c == eventThread.result.camera
        opens == detected /\ manager[c] = "None" IN
    /\ eventThread.at = "taken"
    /\ detected => c \in Detecting
    /\ manager' = IF opens THEN [manager EXCEPT ![c] = "Candidate"] ELSE manager
    /\ eventThread' = [Looking EXCEPT !.at = "created", !.notices = IF opens THEN {c} ELSE {}]
    /\ UNCHANGED <<results, unchanged, row, delivered>>
    /\ EventOnly

Undecided == {c \in Cameras : manager[c] = "Candidate"}

Decided(decisions, cameras, decision) ==
    [c \in Cameras |-> IF c \in cameras THEN decision ELSE decisions[c]]

\* start_candidate_window writes the row of the new candidate from the
\* manager's answer; then the manager's time advances and some are late.
AdvanceCandidates(late) ==
    /\ eventThread.at = "created"
    /\ late \subseteq Undecided
    /\ row' = Decided(row, eventThread.notices, "Candidate")
    /\ manager' = Decided(manager, late, "Timeout")
    /\ eventThread' = [eventThread EXCEPT !.at = "advanced", !.notices = late]
    /\ UNCHANGED <<results, unchanged, delivered>>
    /\ EventOnly

\* The rows of what timed out; the loop starts over without waiting.
ApplyTimeouts ==
    /\ eventThread.at = "advanced"
    /\ row' = Decided(row, eventThread.notices, "Timeout")
    /\ eventThread' = Looking
    /\ unchanged' = FALSE
    /\ UNCHANGED <<results, manager, delivered>>
    /\ EventOnly

\* The last result is taken: stop decides what is still open.
EndEvents ==
    /\ AllRead
    /\ unchanged
    /\ eventStop
    /\ results = {}
    /\ manager' = Decided(manager, Undecided, "Timeout")
    /\ row' = Decided(row, Undecided, "Timeout")
    /\ eventThread' = [Looking EXCEPT !.at = "ended"]
    /\ UNCHANGED <<results, unchanged, delivered>>
    /\ EventOnly

EventLoop ==
    \/ Look
    \/ \E c \in Cameras : ReadLane(c)
    \/ LookAgain
    \/ \E r \in results : TakeResult(r)
    \/ \E detected \in BOOLEAN : ProcessResult(detected)
    \/ \E late \in SUBSET Detecting : AdvanceCandidates(late)
    \/ ApplyTimeouts
    \/ EndEvents

-----------------------------------------------------------------------------
(* Commands: external confirmation, reconfiguration, start and stop. All but *)
(* submit_frame hold the reconfiguration mutex.                              *)

\* update_external_confirmation: the manager decides on the signal's thread.
Signal(c, decision) ==
    /\ runtime = "running"
    /\ signal = NoCamera
    /\ manager[c] = "Candidate"
    /\ manager' = [manager EXCEPT ![c] = decision]
    /\ signal' = c
    /\ UNCHANGED <<runtime, lane, results, unchanged, eventThread, eventStop, row, delivered, pipelines>>

\* The row follows once the lifecycle lock is free; a candidate without a row
\* is passed over. RowFreeAlways does not wait.
RowFreeAlways == TRUE

RowFree == ~LifecycleHeld

ApplySignal ==
    /\ signal # NoCamera
    /\ RowFree
    /\ row' = [row EXCEPT ![signal] = IF @ = "None" THEN @ ELSE manager[signal]]
    /\ signal' = NoCamera
    /\ UNCHANGED <<runtime, lane, results, unchanged, eventThread, eventStop, manager, delivered, pipelines>>

Start ==
    /\ runtime = "created"
    /\ runtime' = "running"
    /\ UNCHANGED <<lane, results, unchanged, eventThread, eventStop, manager, row, signal, delivered, pipelines>>

\* No frame is accepted any more and the lanes are told to stop.
BeginDraining ==
    /\ runtime = "running"
    /\ signal = NoCamera
    /\ \/ runtime' = "reconfiguring" /\ pipelines < MaximumReconfigurations
       \/ runtime' = "stopping"
    /\ UNCHANGED <<lane, results, unchanged, eventThread, eventStop, manager, row, signal, delivered, pipelines>>

\* stop_and_drain: only when every worker has ended is the event thread told.
LanesJoined == \A c \in Cameras : lane[c].worker = "ended"

StopEvents ==
    /\ runtime \in {"reconfiguring", "stopping"}
    /\ ~eventStop
    /\ LanesJoined
    /\ eventStop' = TRUE
    /\ unchanged' = FALSE
    /\ UNCHANGED <<runtime, lane, results, eventThread, manager, row, signal, delivered, pipelines>>

\* reconfigure: the new pipeline takes over, its events start afresh.
SwapPipeline ==
    /\ runtime = "reconfiguring"
    /\ eventThread.at = "ended"
    /\ runtime' = "running"
    /\ lane' = [c \in Cameras |-> NewLane(lane[c].newest)]
    /\ results' = {}
    /\ unchanged' = FALSE
    /\ eventThread' = Looking
    /\ eventStop' = FALSE
    /\ manager' = [c \in Cameras |-> "None"]
    /\ row' = [c \in Cameras |-> "None"]
    /\ pipelines' = pipelines + 1
    /\ UNCHANGED <<signal, delivered>>

Stopped ==
    /\ runtime = "stopping"
    /\ eventThread.at = "ended"
    /\ runtime' = "stopped"
    /\ UNCHANGED <<lane, results, unchanged, eventThread, eventStop, manager, row, signal, delivered, pipelines>>

Draining == StopEvents \/ SwapPipeline \/ Stopped

OrderingInit ==
    /\ runtime = "created"
    /\ lane = [c \in Cameras |-> NewLane(NoTime)]
    /\ results = {}
    /\ unchanged = FALSE
    /\ eventThread = Looking
    /\ eventStop = FALSE
    /\ manager = [c \in Cameras |-> "None"]
    /\ row = [c \in Cameras |-> "None"]
    /\ signal = NoCamera
    /\ delivered = [c \in Cameras |-> NoTime]
    /\ pipelines = 0

OrderingNext ==
    \/ \E c \in Cameras, t \in Times : SubmitFrame(c, t)
    \/ \E c \in Operated : RequestManualTrigger(c)
    \/ \E c \in Cameras : Lane(c)
    \/ EventLoop
    \/ \E c \in Cameras, decision \in {"Confirmed", "Timeout"} : Signal(c, decision)
    \/ ApplySignal
    \/ Start
    \/ BeginDraining
    \/ Draining

\* The workers and the event thread run, a signal's thread gets the lock, and
\* a reconfiguration or stop that has begun is carried out.
OrderingSpec ==
    /\ OrderingInit
    /\ [][OrderingNext]_orderingVars
    /\ \A c \in Cameras : WF_orderingVars(Lane(c))
    /\ WF_orderingVars(EventLoop)
    /\ WF_orderingVars(ApplySignal)
    /\ WF_orderingVars(Draining)

-----------------------------------------------------------------------------
(* Properties *)

OrderingTypeOK ==
    /\ runtime \in {"created", "running", "reconfiguring", "stopping", "stopped"}
    /\ lane \in [Cameras -> Lanes]
    /\ results \subseteq Results
    /\ Cardinality(results) <= ResultCapacity
    /\ unchanged \in BOOLEAN
    /\ eventThread \in EventThreads
    /\ eventStop \in BOOLEAN
    /\ manager \in [Cameras -> Decisions]
    /\ row \in [Cameras -> Decisions]
    /\ signal \in Cameras \cup {NoCamera}
    /\ delivered \in [Cameras -> Times \cup {NoTime}]
    /\ pipelines \in 0 .. MaximumReconfigurations

\* What the runtime owes the event thread: the frames in slots and under
\* analysis, and the results in the queue.
Owed ==
    {f \in [camera : Cameras, time : Times] :
        \/ f.time \in Held(f.camera)
        \/ \E r \in results : r.camera = f.camera /\ r.time = f.time}

Ordered == INSTANCE OrderedDelivery WITH owed <- Owed, seen <- delivered

\* The event thread sees the frames of all cameras in one order of time, and
\* every frame it is owed leaves the runtime: slots, workers, queue and
\* watermark implement OrderedDelivery, through every reconfiguration.
DeliversInOrder == Ordered!OrderSpec

\* When the event thread has ended nothing is left behind: no frame in a lane,
\* no result in the queue, no candidate undecided (stop_and_drain).
EndedIsDrained ==
    eventThread.at = "ended" =>
        /\ Owed = {}
        /\ \A c \in Cameras : manager[c] # "Candidate" /\ row[c] = manager[c]

\* The rows say what the manager decided as soon as neither the event thread
\* nor a signal is at work, although each changes the manager and the rows in
\* two steps and the manager's lock is not the lifecycle lock.
RowsFollowManager ==
    ~LifecycleHeld /\ signal = NoCamera => \A c \in Cameras : row[c] = manager[c]

=============================================================================
