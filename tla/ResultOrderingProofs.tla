------------------------- MODULE ResultOrderingProofs -------------------------
(***************************************************************************)
(* Theorems about the way from a camera to the event thread.               *)
(*                                                                         *)
(* ResultOrdering, for any set of cameras, any number of receive times and *)
(* any capacity: its types, that rows follow the manager's decisions, that *)
(* nothing is left behind when the event thread ends, and that lanes,      *)
(* queue and watermark deliver frames in order.                            *)
(*                                                                         *)
(* CameraRecovery, for any number of attempts: its types, and that a stop  *)
(* is final wherever it finds the session.                                 *)
(*                                                                         *)
(* CameraControl, for any nodes, configurations and capacities: that what  *)
(* is shown of a camera is what it has, and that no command touches the    *)
(* stream while its frames are read or handed on.                          *)
(***************************************************************************)
EXTENDS ResultOrdering, CameraRecovery, CameraControl, FiniteSetTheorems, TLAPS

-----------------------------------------------------------------------------
(* The inductive invariant. *)

\* The types; the queue is finite, its bound being a cardinality; and a
\* reconfiguration that has begun is one of those explored.
Types ==
    /\ OrderingTypeOK
    /\ IsFiniteSet(results)
    /\ runtime = "reconfiguring" => pipelines < MaximumReconfigurations

\* A frame is in flight while it is under analysis; a worker that has ended
\* left nothing in its slots; no slot holds what another holds, or a frame
\* newer than the last one submitted.
LaneSound(l) ==
    /\ (l.inFlight = NoTime) <=> (l.worker \in {"waiting", "ended"})
    /\ l.worker = "ended" => l.automatic = NoTime /\ l.manual = NoTime
    /\ l.automatic <= l.newest
    /\ l.manual <= l.newest
    /\ l.inFlight <= l.newest
    /\ l.automatic # NoTime => l.automatic # l.manual /\ l.automatic # l.inFlight
    /\ l.manual # NoTime => l.manual # l.inFlight

ToldToEnd == runtime \in {"reconfiguring", "stopping", "stopped"}

\* Who has ended was told to, and everybody before it has ended.
EndsInOrder ==
    /\ \A c \in Cameras : lane[c].worker = "ended" => ToldToEnd
    /\ eventStop => LanesJoined /\ ToldToEnd
    /\ eventThread.at = "ended" => eventStop /\ results = {}

\* What camera c owes is newer than what was delivered of it.
OwesNewer(c) ==
    /\ delivered[c] <= lane[c].newest
    /\ \A h \in Held(c) : delivered[c] < h
    /\ \A r \in results : r.camera = c => delivered[c] < r.time /\ r.time <= lane[c].newest

\* As long as nothing has changed, the watermark is not after any frame held
\* by a lane that was read.
MarkHolds ==
    eventThread.at = "reading" /\ unchanged =>
        \A c \in Cameras \ eventThread.unread : \A h \in Held(c) : eventThread.mark <= h

OrderInv ==
    /\ \A c \in Cameras : LaneSound(lane[c])
    /\ \A c \in Cameras : OwesNewer(c)
    /\ EndsInOrder
    /\ MarkHolds

\* A signal's camera is decided, and has a row unless its candidate is just
\* being opened.
SignalDecided ==
    signal # NoCamera =>
        /\ runtime = "running"
        /\ manager[signal] \in {"Confirmed", "Timeout"}
        /\ row[signal] = "None" => eventThread.at = "created" /\ signal \in eventThread.notices

\* The cameras whose rows the event thread is about to write.
Noticed == IF LifecycleHeld THEN eventThread.notices ELSE {}

\* Apart from these and the signal's, rows say what the manager decided; these
\* lag behind by exactly one decision.
RowsLag(c) ==
    /\ c \notin Noticed /\ c # signal => row[c] = manager[c]
    /\ eventThread.at = "created" /\ c \in Noticed =>
            /\ row[c] = "None"
            /\ c # signal => manager[c] = "Candidate"
    /\ eventThread.at = "advanced" /\ c \in Noticed =>
            manager[c] = "Timeout" /\ c # signal
    /\ eventThread.at = "ended" => manager[c] # "Candidate"

RowsInv ==
    /\ SignalDecided
    /\ \A c \in Cameras : RowsLag(c)

IInv == Types /\ OrderInv /\ RowsInv

-----------------------------------------------------------------------------
(* Helpers *)

\* Among four numbers one is the least.
LEMMA LeastOfFour ==
    ASSUME NEW a \in Int, NEW b \in Int, NEW c \in Int, NEW d \in Int
    PROVE  \E t \in {a, b, c, d} : \A u \in {a, b, c, d} : t <= u
<1>1. CASE a <= b /\ a <= c /\ a <= d  BY <1>1
<1>2. CASE b <= a /\ b <= c /\ b <= d  BY <1>2
<1>3. CASE c <= a /\ c <= b /\ c <= d  BY <1>3
<1>4. CASE d <= a /\ d <= b /\ d <= c  BY <1>4
<1>5. QED BY <1>1, <1>2, <1>3, <1>4

\* What the watermark becomes when lane c is read: not after what c holds, nor
\* after what it was.
LEMMA ReadingLowersMark ==
    ASSUME OrderingTypeOK, NEW c \in Cameras, NEW mark \in Times \cup {NoMark}
    PROVE  LET m == Earliest(HeldBack(c) \cup {mark}, NoMark) IN
           /\ m \in Times \cup {NoMark}
           /\ m <= mark
           /\ \A h \in Held(c) : m <= h
<1> DEFINE or(t) == IF t = NoTime THEN mark ELSE t
           S == {or(lane[c].automatic), or(lane[c].manual), or(lane[c].inFlight), mark}
<1>1. lane[c] \in Lanes
  BY DEF OrderingTypeOK
<1>2. mark \in Int /\ NoTime \notin Times /\ Times \subseteq Int
  BY OrderingAssumption DEF Times, NoMark, NoTime
<1>3. S \subseteq Times \cup {NoMark} /\ S = HeldBack(c) \cup {mark} /\ Held(c) \subseteq S
  BY <1>1, <1>2 DEF Lanes, HeldBack, Held
<1>4. \E t \in S : \A u \in S : t <= u
  <2> HIDE DEF or
  <2>1. or(lane[c].automatic) \in Int /\ or(lane[c].manual) \in Int /\ or(lane[c].inFlight) \in Int
    BY <1>1, <1>2 DEF or, Lanes, NoTime
  <2>2. QED BY <2>1, <1>2, LeastOfFour
<1> HIDE DEF S
<1>5. Earliest(S, NoMark) \in S /\ \A u \in S : Earliest(S, NoMark) <= u
  BY <1>4 DEF Earliest
<1>6. QED BY <1>3, <1>5 DEF S

-----------------------------------------------------------------------------
(* Types *)

LEMMA InitTypes == OrderingInit => Types
<1> SUFFICES ASSUME OrderingInit PROVE Types
  OBVIOUS
<1>1. IsFiniteSet(results) /\ Cardinality(results) = 0
  BY FS_EmptySet DEF OrderingInit
<1>2. Looking \in EventThreads
  BY DEF Looking, EventThreads
<1>3. lane \in [Cameras -> Lanes]
  BY DEF OrderingInit, NewLane, Lanes
<1>4. /\ manager \in [Cameras -> Decisions]
      /\ row \in [Cameras -> Decisions]
      /\ delivered \in [Cameras -> Times \cup {NoTime}]
      /\ signal \in Cameras \cup {NoCamera}
      /\ eventThread \in EventThreads
      /\ results \subseteq Results
  BY <1>2 DEF OrderingInit, Decisions
<1>5. Cardinality(results) <= ResultCapacity /\ pipelines \in 0 .. MaximumReconfigurations
  BY <1>1, OrderingAssumption DEF OrderingInit
<1>6. QED
  BY <1>1, <1>3, <1>4, <1>5 DEF OrderingInit, Types, OrderingTypeOK

\* What a step on one lane leaves alone keeps its type.
LEMMA LaneStepTypes ==
    ASSUME Types, lane' \in [Cameras -> Lanes], unchanged' \in BOOLEAN,
           results' \subseteq Results, IsFiniteSet(results'),
           Cardinality(results') <= ResultCapacity, LaneOnly
    PROVE  Types'
BY DEF Types, OrderingTypeOK, LaneOnly

\* The actions that replace one lane and perhaps add a result.
LEMMA LanesKeepTypes ==
    ASSUME Types, NEW c \in Cameras, LaneSound(lane[c]),
           Lane(c) \/ RequestManualTrigger(c) \/ \E t \in Times : SubmitFrame(c, t)
    PROVE  Types'
<1>1. lane \in [Cameras -> Lanes] /\ unchanged \in BOOLEAN
  BY DEF Types, OrderingTypeOK
<1>2. results \subseteq Results /\ IsFiniteSet(results) /\ Cardinality(results) <= ResultCapacity
  BY DEF Types, OrderingTypeOK
<1>3. ASSUME NEW l \in Lanes, lane' = [lane EXCEPT ![c] = l], unchanged' \in BOOLEAN, LaneOnly,
             results' = results
      PROVE  Types'
  BY <1>1, <1>2, <1>3, LaneStepTypes
<1>4. ASSUME NEW t \in Times, SubmitFrame(c, t) PROVE Types'
  <2> DEFINE l == [lane[c] EXCEPT !.automatic = IF lane[c].manualPending THEN NoTime ELSE t,
                                  !.manual = IF lane[c].manualPending THEN t ELSE lane[c].manual,
                                  !.manualPending = FALSE,
                                  !.newest = t]
  <2>1. l \in Lanes
    BY <1>1 DEF Lanes
  <2>2. lane' = [lane EXCEPT ![c] = l] /\ unchanged' \in BOOLEAN /\ LaneOnly /\ results' = results
    BY <1>4 DEF SubmitFrame, LaneOnly
  <2>3. QED BY <2>1, <2>2, <1>3
<1>5. CASE RequestManualTrigger(c)
  <2> DEFINE l == [lane[c] EXCEPT !.manualPending = TRUE]
  <2>1. l \in Lanes
    BY <1>1 DEF Lanes
  <2>2. lane' = [lane EXCEPT ![c] = l] /\ unchanged' \in BOOLEAN /\ LaneOnly /\ results' = results
    BY <1>1, <1>5 DEF RequestManualTrigger, LaneOnly
  <2>3. QED BY <2>1, <2>2, <1>3
<1>6. CASE TakeFrame(c)
  <2> DEFINE manual == lane[c].manual # NoTime
             l == [lane[c] EXCEPT !.inFlight = IF manual THEN lane[c].manual ELSE lane[c].automatic,
                                  !.manual = NoTime,
                                  !.automatic = IF manual THEN lane[c].automatic ELSE NoTime,
                                  !.worker = "analysing"]
  <2>1. l \in Lanes
    BY <1>1 DEF Lanes
  <2>2. lane' = [lane EXCEPT ![c] = l] /\ unchanged' \in BOOLEAN /\ LaneOnly /\ results' = results
    BY <1>6 DEF TakeFrame, LaneOnly
  <2>3. QED BY <2>1, <2>2, <1>3
<1>7. CASE EnqueueResult(c)
  <2> DEFINE l == [lane[c] EXCEPT !.worker = "enqueued"]
             r == [camera |-> c, time |-> lane[c].inFlight]
  <2>1. l \in Lanes /\ r \in Results
    BY <1>1, <1>7 DEF EnqueueResult, Lanes, LaneSound, Results
  <2>2. lane' = [lane EXCEPT ![c] = l] /\ unchanged' \in BOOLEAN /\ LaneOnly
    BY <1>1, <1>7 DEF EnqueueResult, QueueFull
  <2> HIDE DEF r, l
  <2>3. CASE QueueFull
    BY <2>1, <2>2, <2>3, <1>3, <1>7 DEF EnqueueResult
  <2>4. CASE ~QueueFull
    <3>1. /\ IsFiniteSet(results \cup {r})
          /\ Cardinality(results \cup {r}) = IF r \in results THEN Cardinality(results)
                                            ELSE Cardinality(results) + 1
      BY <1>2, FS_AddElement
    <3>2. Cardinality(results) + 1 <= ResultCapacity
      BY <1>2, <2>4, FS_CardinalityType, OrderingAssumption DEF QueueFull
    <3>3. results' = results \cup {r}
      BY <1>7, <2>4 DEF EnqueueResult, r
    <3>4. Cardinality(results') <= ResultCapacity
      BY <1>2, <3>1, <3>2, <3>3, FS_CardinalityType, OrderingAssumption
    <3>5. lane' \in [Cameras -> Lanes] /\ results' \subseteq Results
      BY <1>1, <1>2, <2>1, <2>2, <3>3
    <3>6. QED BY <2>2, <3>1, <3>3, <3>4, <3>5, LaneStepTypes
  <2>5. QED BY <2>3, <2>4
<1>8. CASE ClearInFlight(c)
  <2> DEFINE l == [lane[c] EXCEPT !.worker = "waiting", !.inFlight = NoTime]
  <2>1. l \in Lanes
    BY <1>1 DEF Lanes
  <2>2. lane' = [lane EXCEPT ![c] = l] /\ unchanged' \in BOOLEAN /\ LaneOnly /\ results' = results
    BY <1>8 DEF ClearInFlight
  <2>3. QED BY <2>1, <2>2, <1>3
<1>9. CASE EndLane(c)
  <2> DEFINE l == [lane[c] EXCEPT !.worker = "ended"]
  <2>1. l \in Lanes
    BY <1>1 DEF Lanes
  <2>2. lane' = [lane EXCEPT ![c] = l] /\ unchanged' \in BOOLEAN /\ LaneOnly /\ results' = results
    BY <1>1, <1>9 DEF EndLane
  <2>3. QED BY <2>1, <2>2, <1>3
<1>10. QED BY <1>4, <1>5, <1>6, <1>7, <1>8, <1>9 DEF Lane

\* Decisions replaced for some cameras are decisions.
LEMMA DecidedTypes ==
    ASSUME NEW d \in [Cameras -> Decisions], NEW S, NEW x \in Decisions
    PROVE  Decided(d, S, x) \in [Cameras -> Decisions]
BY DEF Decided

\* What a step of the event thread leaves alone keeps its type.
LEMMA EventStepTypes ==
    ASSUME Types, EventOnly,
           eventThread' \in EventThreads, unchanged' \in BOOLEAN,
           results' = results \/ \E r \in results : results' = results \ {r},
           manager' \in [Cameras -> Decisions], row' \in [Cameras -> Decisions],
           delivered' \in [Cameras -> Times \cup {NoTime}]
    PROVE  Types'
<1> USE DEF Types, OrderingTypeOK
<1>1. IsFiniteSet(results') /\ Cardinality(results') <= ResultCapacity
  <2>1. ASSUME NEW r \in results, results' = results \ {r}
        PROVE  IsFiniteSet(results') /\ Cardinality(results') <= ResultCapacity
    <3>1. Cardinality(results) \in Nat /\ Cardinality(results) <= ResultCapacity
      BY FS_CardinalityType
    <3>2. IsFiniteSet(results \ {r}) /\ Cardinality(results \ {r}) = Cardinality(results) - 1
      BY FS_RemoveElement
    <3>3. QED BY <2>1, <3>1, <3>2, OrderingAssumption
  <2>2. QED BY <2>1
<1>2. results' \subseteq Results
  OBVIOUS
<1>3. QED BY <1>1, <1>2 DEF EventOnly

LEMMA EventLoopKeepsTypes == Types /\ EventLoop => Types'
<1> SUFFICES ASSUME Types, EventLoop PROVE Types'
  OBVIOUS
<1>1. /\ eventThread \in EventThreads /\ unchanged \in BOOLEAN
      /\ manager \in [Cameras -> Decisions] /\ row \in [Cameras -> Decisions]
      /\ delivered \in [Cameras -> Times \cup {NoTime}]
      /\ results \subseteq Results
  BY DEF Types, OrderingTypeOK
<1>2. Looking \in EventThreads
  BY DEF Looking, EventThreads
<1>3. CASE Look
  <2>1. eventThread' \in EventThreads
    BY <1>2, <1>3 DEF Look, EventThreads
  <2>2. QED BY <1>1, <1>3, <2>1, EventStepTypes DEF Look
<1>4. ASSUME NEW c \in Cameras, ReadLane(c) PROVE Types'
  <2> DEFINE m == Earliest(HeldBack(c) \cup {eventThread.mark}, NoMark)
  <2>1. eventThread.mark \in Times \cup {NoMark}
    BY <1>1 DEF EventThreads
  <2>2. m \in Times \cup {NoMark}
    BY <2>1, ReadingLowersMark DEF Types
  <2>3. eventThread' = [eventThread EXCEPT !.unread = eventThread.unread \ {c}, !.mark = m]
    BY <1>4 DEF ReadLane
  <2> HIDE DEF m
  <2>4. eventThread' \in EventThreads
    BY <1>1, <2>2, <2>3 DEF EventThreads
  <2>5. QED BY <1>1, <1>4, <2>4, EventStepTypes DEF ReadLane
<1>5. CASE LookAgain
  BY <1>1, <1>2, <1>5, EventStepTypes DEF LookAgain
<1>6. ASSUME NEW r \in results, TakeResult(r) PROVE Types'
  <2>1. r \in Results /\ r.camera \in Cameras /\ r.time \in Times
    BY <1>1 DEF Results
  <2>2. eventThread' \in EventThreads
    BY <1>2, <1>6, <2>1 DEF TakeResult, EventThreads
  <2>3. delivered' \in [Cameras -> Times \cup {NoTime}]
    BY <1>1, <1>6, <2>1 DEF TakeResult
  <2>4. QED BY <1>1, <1>6, <2>2, <2>3, EventStepTypes DEF TakeResult
<1>7. ASSUME NEW detected \in BOOLEAN, ProcessResult(detected) PROVE Types'
  <2> DEFINE c == eventThread.result.camera
             opens == detected /\ manager[c] = "None"
  <2>1. opens => c \in Cameras
    BY <1>7, OrderingAssumption DEF ProcessResult
  <2>2. /\ manager' = IF opens THEN [manager EXCEPT ![c] = "Candidate"] ELSE manager
        /\ eventThread' = [Looking EXCEPT !.at = "created", !.notices = IF opens THEN {c} ELSE {}]
    BY <1>7 DEF ProcessResult
  <2> HIDE DEF opens, c
  <2>3. manager' \in [Cameras -> Decisions]
    BY <1>1, <2>2 DEF Decisions
  <2>4. eventThread' \in EventThreads
    BY <1>2, <2>1, <2>2 DEF EventThreads
  <2>5. QED BY <1>1, <1>7, <2>3, <2>4, EventStepTypes DEF ProcessResult
<1>8. ASSUME NEW late \in SUBSET Detecting, AdvanceCandidates(late) PROVE Types'
  <2>1. manager' \in [Cameras -> Decisions] /\ row' \in [Cameras -> Decisions]
    BY <1>1, <1>8, DecidedTypes DEF AdvanceCandidates, Decisions
  <2>2. eventThread' \in EventThreads
    BY <1>1, <1>8, OrderingAssumption DEF AdvanceCandidates, EventThreads
  <2>3. QED BY <1>1, <1>8, <2>1, <2>2, EventStepTypes DEF AdvanceCandidates
<1>9. CASE ApplyTimeouts
  <2>1. row' \in [Cameras -> Decisions]
    BY <1>1, <1>9, DecidedTypes DEF ApplyTimeouts, Decisions
  <2>2. QED BY <1>1, <1>2, <1>9, <2>1, EventStepTypes DEF ApplyTimeouts
<1>10. CASE EndEvents
  <2>1. manager' \in [Cameras -> Decisions] /\ row' \in [Cameras -> Decisions]
    BY <1>1, <1>10, DecidedTypes DEF EndEvents, Decisions
  <2>2. eventThread' \in EventThreads
    BY <1>2, <1>10 DEF EndEvents, EventThreads
  <2>3. QED BY <1>1, <1>10, <2>1, <2>2, EventStepTypes DEF EndEvents
<1>11. QED BY <1>3, <1>4, <1>5, <1>6, <1>7, <1>8, <1>9, <1>10 DEF EventLoop

Commands ==
    \/ \E c \in Cameras, decision \in {"Confirmed", "Timeout"} : Signal(c, decision)
    \/ ApplySignal
    \/ Start
    \/ BeginDraining
    \/ Draining

LEMMA CommandsKeepTypes == Types /\ Commands => Types'
<1> SUFFICES ASSUME Types, Commands PROVE Types'
  OBVIOUS
<1> USE DEF Types, OrderingTypeOK
<1>1. ASSUME NEW c \in Cameras, NEW decision \in {"Confirmed", "Timeout"}, Signal(c, decision)
      PROVE  Types'
  BY <1>1 DEF Signal, Decisions
<1>2. CASE ApplySignal
  BY <1>2 DEF ApplySignal, Decisions
<1>3. CASE Start
  BY <1>3 DEF Start
<1>4. CASE BeginDraining
  BY <1>4, OrderingAssumption DEF BeginDraining
<1>5. CASE StopEvents
  BY <1>5 DEF StopEvents
<1>6. CASE SwapPipeline
  <2>1. lane' \in [Cameras -> Lanes]
    BY <1>6 DEF SwapPipeline, NewLane, Lanes
  <2>2. IsFiniteSet(results') /\ Cardinality(results') <= ResultCapacity
    BY <1>6, FS_EmptySet, OrderingAssumption DEF SwapPipeline
  <2>3. eventThread' \in EventThreads
    BY <1>6 DEF SwapPipeline, Looking, EventThreads
  <2>4. manager' \in [Cameras -> Decisions] /\ row' \in [Cameras -> Decisions]
    BY <1>6 DEF SwapPipeline, Decisions
  <2>5. pipelines' \in 0 .. MaximumReconfigurations
    BY <1>6, OrderingAssumption DEF SwapPipeline
  <2>6. QED BY <1>6, <2>1, <2>2, <2>3, <2>4, <2>5 DEF SwapPipeline
<1>7. CASE Stopped
  BY <1>7 DEF Stopped
<1>8. QED BY <1>1, <1>2, <1>3, <1>4, <1>5, <1>6, <1>7 DEF Commands, Draining

-----------------------------------------------------------------------------
(* The order of delivery *)

LEMMA InitOrder == OrderingInit => OrderInv
<1> SUFFICES ASSUME OrderingInit PROVE OrderInv
  OBVIOUS
<1>1. \A c \in Cameras : lane[c] = NewLane(NoTime) /\ delivered[c] = NoTime
  BY DEF OrderingInit
<1>2. \A c \in Cameras : LaneSound(lane[c]) /\ Held(c) = {}
  BY <1>1 DEF NewLane, LaneSound, Held, NoTime
<1>3. \A c \in Cameras : OwesNewer(c)
  BY <1>1, <1>2 DEF OwesNewer, OrderingInit, NewLane, NoTime
<1>4. EndsInOrder
  BY <1>1 DEF EndsInOrder, OrderingInit, NewLane, Looking
<1>5. MarkHolds
  BY DEF MarkHolds, OrderingInit, Looking
<1>6. QED BY <1>2, <1>3, <1>4, <1>5 DEF OrderInv

\* A step that replaces lane c by l and may add the result of the frame c has
\* in flight, announced unless nothing becomes known that was not.
LEMMA LaneStepKeepsOrder ==
    ASSUME Types, OrderInv, NEW c \in Cameras, NEW l \in Lanes, LaneOnly,
           lane' = [lane EXCEPT ![c] = l],
           LaneSound(l),
           l.newest >= lane[c].newest,
           \A h \in {l.automatic, l.manual, l.inFlight} \ {NoTime} :
                h \in Held(c) \/ (h > lane[c].newest /\ ~unchanged'),
           l.worker = "ended" => ToldToEnd,
           lane[c].worker = "ended" => l.worker = "ended" /\ results' = results,
           \/ results' = results
           \/ /\ results' = results \cup {[camera |-> c, time |-> lane[c].inFlight]}
              /\ lane[c].inFlight # NoTime
              /\ ~unchanged',
           unchanged' => unchanged
    PROVE  OrderInv'
<1>1. /\ lane \in [Cameras -> Lanes] /\ delivered \in [Cameras -> Times \cup {NoTime}]
      /\ results \subseteq Results /\ unchanged \in BOOLEAN
  BY DEF Types, OrderingTypeOK
<1>2. \A d \in Cameras : lane'[d] = IF d = c THEN l ELSE lane[d]
  BY <1>1
<1>3. \A d \in Cameras : delivered'[d] = delivered[d]
  BY DEF LaneOnly
<1>4. Times \cup {NoTime} \subseteq Nat
  BY OrderingAssumption DEF Times, NoTime
<1>5. \A d \in Cameras : LaneSound(lane[d])'
  BY <1>2 DEF OrderInv, LaneSound
<1>6. ASSUME NEW d \in Cameras PROVE OwesNewer(d)'
  <2>1. OwesNewer(d)
    BY DEF OrderInv
  <2>2. delivered[d] \in Nat /\ lane[d].newest \in Nat /\ l.newest \in Nat
    BY <1>1, <1>4 DEF Lanes
  <2>3. delivered'[d] <= lane'[d].newest /\ lane[d].newest <= lane'[d].newest
    BY <1>2, <1>3, <2>1, <2>2 DEF OwesNewer
  <2>4. ASSUME NEW h \in Held(d)' PROVE delivered'[d] < h
    <3>1. CASE d # c
      BY <1>2, <1>3, <2>1, <2>4, <3>1 DEF OwesNewer, Held
    <3>2. CASE d = c
      <4>1. h \in {l.automatic, l.manual, l.inFlight} \ {NoTime}
        BY <1>2, <2>4, <3>2 DEF Held
      <4>2. h \in Nat
        BY <1>4, <4>1 DEF Lanes
      <4>3. CASE h \in Held(c)
        BY <1>3, <2>1, <3>2, <4>3 DEF OwesNewer
      <4>4. CASE h > lane[c].newest
        BY <1>3, <2>1, <2>2, <3>2, <4>2, <4>4 DEF OwesNewer
      <4>5. QED BY <4>1, <4>3, <4>4
    <3>3. QED BY <3>1, <3>2
  <2>5. ASSUME NEW r \in results', r.camera = d
        PROVE  delivered'[d] < r.time /\ r.time <= lane'[d].newest
    <3>1. CASE r \in results
      <4>1. r.time \in Nat
        BY <1>1, <1>4, <3>1 DEF Results
      <4>2. QED BY <1>3, <2>1, <2>2, <2>3, <2>5, <3>1, <4>1, <1>2 DEF OwesNewer
    <3>2. CASE r = [camera |-> c, time |-> lane[c].inFlight] /\ lane[c].inFlight # NoTime
      <4>1. d = c /\ r.time = lane[c].inFlight
        BY <2>5, <3>2
      <4>2. lane[c].inFlight \in Held(c) /\ lane[c].inFlight \in Nat /\ lane[c].inFlight <= lane[c].newest
        BY <1>1, <1>4, <3>2 DEF Held, OrderInv, LaneSound, Lanes
      <4>3. QED BY <1>2, <1>3, <2>1, <2>2, <2>3, <4>1, <4>2 DEF OwesNewer
    <3>3. QED BY <3>1, <3>2
  <2>6. QED BY <2>3, <2>4, <2>5 DEF OwesNewer
<1>7. EndsInOrder'
  <2>1. EndsInOrder /\ ToldToEnd' = ToldToEnd
    BY DEF OrderInv, ToldToEnd, LaneOnly
  <2>2. \A d \in Cameras : lane'[d].worker = "ended" => ToldToEnd
    BY <1>2, <2>1 DEF EndsInOrder
  <2>3. LanesJoined => LanesJoined'
    BY <1>2 DEF LanesJoined
  <2>4. LanesJoined => results' = results
    BY DEF LanesJoined
  <2>5. QED BY <2>1, <2>2, <2>3, <2>4 DEF EndsInOrder, LaneOnly
<1>8. MarkHolds'
  <2> SUFFICES ASSUME eventThread.at = "reading", unchanged',
                      NEW d \in Cameras \ eventThread.unread, NEW h \in Held(d)'
               PROVE  eventThread.mark <= h
    BY DEF MarkHolds, LaneOnly
  <2>1. h \in Held(d)
    BY <1>2 DEF Held
  <2>2. QED BY <2>1 DEF OrderInv, MarkHolds
<1>9. QED BY <1>5, <1>6, <1>7, <1>8 DEF OrderInv

LEMMA LanesKeepOrder ==
    ASSUME Types, OrderInv, NEW c \in Cameras,
           Lane(c) \/ RequestManualTrigger(c) \/ \E t \in Times : SubmitFrame(c, t)
    PROVE  OrderInv'
<1>1. lane \in [Cameras -> Lanes] /\ lane[c] \in Lanes /\ unchanged \in BOOLEAN
  BY DEF Types, OrderingTypeOK
<1>2. LaneSound(lane[c]) /\ OwesNewer(c)
  BY DEF OrderInv
<1>3. Times \subseteq Nat /\ NoTime \in Nat /\ NoTime \notin Times
  BY OrderingAssumption DEF Times, NoTime
<1>4. /\ lane[c].newest \in Nat /\ lane[c].automatic \in Nat
      /\ lane[c].manual \in Nat /\ lane[c].inFlight \in Nat
  BY <1>1, <1>3 DEF Lanes
<1>5. lane[c].worker = "ended" => ToldToEnd
  BY DEF OrderInv, EndsInOrder
<1>6. ASSUME NEW t \in Times, SubmitFrame(c, t) PROVE OrderInv'
  <2> DEFINE l == [lane[c] EXCEPT !.automatic = IF lane[c].manualPending THEN NoTime ELSE t,
                                  !.manual = IF lane[c].manualPending THEN t ELSE lane[c].manual,
                                  !.manualPending = FALSE,
                                  !.newest = t]
  <2>1. l \in Lanes
    BY <1>1 DEF Lanes
  <2>2. /\ lane' = [lane EXCEPT ![c] = l] /\ LaneOnly /\ results' = results
        /\ ~unchanged' /\ t > lane[c].newest /\ runtime = "running"
    BY <1>6 DEF SubmitFrame, LaneOnly
  <2>3. lane[c].worker # "ended"
    BY <1>5, <2>2 DEF ToldToEnd
  <2>4. l.newest >= lane[c].newest /\ l.worker = lane[c].worker
    BY <1>1, <1>3, <1>4, <2>2 DEF Lanes
  <2>9. LaneSound(l)
    <3>1. /\ l.newest = t /\ l.inFlight = lane[c].inFlight /\ t > NoTime
          /\ \/ l.automatic = NoTime /\ l.manual = t
             \/ l.automatic = t /\ l.manual = lane[c].manual
      BY <1>1, OrderingAssumption DEF Lanes, Times, NoTime
    <3> HIDE DEF l
    <3>2. QED BY <1>2, <1>3, <1>4, <2>2, <2>3, <2>4, <3>1 DEF LaneSound, NoTime
  <2>5. \A h \in {l.automatic, l.manual, l.inFlight} \ {NoTime} : h \in Held(c) \/ h = t
    BY <1>1 DEF Lanes, Held
  <2> HIDE DEF l
  <2>6. QED BY <2>1, <2>2, <2>3, <2>4, <2>5, <2>9, LaneStepKeepsOrder
<1>7. CASE RequestManualTrigger(c)
  <2> DEFINE l == [lane[c] EXCEPT !.manualPending = TRUE]
  <2>1. l \in Lanes
    BY <1>1 DEF Lanes
  <2>2. /\ lane' = [lane EXCEPT ![c] = l] /\ LaneOnly /\ results' = results
        /\ unchanged' = unchanged
    BY <1>1, <1>7 DEF RequestManualTrigger, LaneOnly
  <2>3. LaneSound(l) /\ l.newest >= lane[c].newest /\ l.worker = lane[c].worker
    BY <1>1, <1>2, <1>4 DEF Lanes, LaneSound
  <2>4. \A h \in {l.automatic, l.manual, l.inFlight} \ {NoTime} : h \in Held(c)
    BY <1>1 DEF Lanes, Held
  <2> HIDE DEF l
  <2>5. QED BY <1>5, <2>1, <2>2, <2>3, <2>4, LaneStepKeepsOrder
<1>8. CASE TakeFrame(c)
  <2> DEFINE manual == lane[c].manual # NoTime
             l == [lane[c] EXCEPT !.inFlight = IF manual THEN lane[c].manual ELSE lane[c].automatic,
                                  !.manual = NoTime,
                                  !.automatic = IF manual THEN lane[c].automatic ELSE NoTime,
                                  !.worker = "analysing"]
  <2>1. l \in Lanes
    BY <1>1 DEF Lanes
  <2>2. /\ lane' = [lane EXCEPT ![c] = l] /\ LaneOnly /\ results' = results
        /\ ~unchanged' /\ lane[c].worker = "waiting"
        /\ manual \/ lane[c].automatic # NoTime
    BY <1>8 DEF TakeFrame
  <2>3. LaneSound(l) /\ l.newest >= lane[c].newest /\ l.worker # "ended"
    BY <1>1, <1>2, <1>3, <1>4, <2>2 DEF Lanes, LaneSound
  <2>4. \A h \in {l.automatic, l.manual, l.inFlight} \ {NoTime} : h \in Held(c)
    BY <1>1 DEF Lanes, Held
  <2> HIDE DEF l, manual
  <2>5. QED BY <2>1, <2>2, <2>3, <2>4, LaneStepKeepsOrder
<1>9. CASE EnqueueResult(c)
  <2> DEFINE l == [lane[c] EXCEPT !.worker = "enqueued"]
  <2>1. l \in Lanes
    BY <1>1 DEF Lanes
  <2>2. /\ lane' = [lane EXCEPT ![c] = l] /\ LaneOnly /\ lane[c].worker = "analysing"
        /\ unchanged' => unchanged
    BY <1>9 DEF EnqueueResult
  <2>3. LaneSound(l) /\ l.newest >= lane[c].newest /\ l.worker # "ended"
    BY <1>1, <1>2, <1>4, <2>2 DEF Lanes, LaneSound
  <2>4. \A h \in {l.automatic, l.manual, l.inFlight} \ {NoTime} : h \in Held(c)
    BY <1>1 DEF Lanes, Held
  <2>5. lane[c].inFlight # NoTime
    BY <1>2, <2>2 DEF LaneSound
  <2>6. \/ results' = results
        \/ results' = results \cup {[camera |-> c, time |-> lane[c].inFlight]} /\ ~unchanged'
    BY <1>9 DEF EnqueueResult
  <2> HIDE DEF l
  <2>7. QED BY <2>1, <2>2, <2>3, <2>4, <2>5, <2>6, LaneStepKeepsOrder
<1>10. CASE ClearInFlight(c)
  <2> DEFINE l == [lane[c] EXCEPT !.worker = "waiting", !.inFlight = NoTime]
  <2>1. l \in Lanes
    BY <1>1 DEF Lanes
  <2>2. /\ lane' = [lane EXCEPT ![c] = l] /\ LaneOnly /\ results' = results
        /\ ~unchanged' /\ lane[c].worker = "enqueued"
    BY <1>10 DEF ClearInFlight
  <2>3. LaneSound(l) /\ l.newest >= lane[c].newest /\ l.worker # "ended"
    <3>1. /\ l.newest = lane[c].newest /\ l.inFlight = NoTime /\ l.worker = "waiting"
          /\ l.automatic = lane[c].automatic /\ l.manual = lane[c].manual
      BY <1>1 DEF Lanes
    <3> HIDE DEF l
    <3>2. QED BY <1>2, <1>3, <1>4, <3>1 DEF LaneSound, NoTime
  <2>4. \A h \in {l.automatic, l.manual, l.inFlight} \ {NoTime} : h \in Held(c)
    BY <1>1 DEF Lanes, Held
  <2> HIDE DEF l
  <2>5. QED BY <2>1, <2>2, <2>3, <2>4, LaneStepKeepsOrder
<1>11. CASE EndLane(c)
  <2> DEFINE l == [lane[c] EXCEPT !.worker = "ended"]
  <2>1. l \in Lanes
    BY <1>1 DEF Lanes
  <2>2. /\ lane' = [lane EXCEPT ![c] = l] /\ LaneOnly /\ results' = results
        /\ unchanged' = unchanged /\ lane[c].worker = "waiting" /\ ToldToEnd
    BY <1>11 DEF EndLane, ToldToEnd
  <2>3. LaneSound(l) /\ l.newest >= lane[c].newest
    BY <1>1, <1>2, <1>4, <1>11 DEF Lanes, LaneSound, EndLane
  <2>4. \A h \in {l.automatic, l.manual, l.inFlight} \ {NoTime} : h \in Held(c)
    BY <1>1 DEF Lanes, Held
  <2> HIDE DEF l
  <2>5. QED BY <2>1, <2>2, <2>3, <2>4, LaneStepKeepsOrder
<1>12. QED BY <1>6, <1>7, <1>8, <1>9, <1>10, <1>11 DEF Lane

\* What takes nothing from the queue and leaves the lanes alone keeps what is
\* owed.
LEMMA OwedKept ==
    ASSUME OrderInv, lane' = lane, delivered' = delivered, results' \subseteq results
    PROVE  \A c \in Cameras : LaneSound(lane[c])' /\ OwesNewer(c)' /\ Held(c)' = Held(c)
BY DEF OrderInv, OwesNewer, Held

\* Where each step leaves the event thread.
LEMMA NextAt ==
    ASSUME Types
    PROVE  /\ Look => eventThread'.at = "reading"
           /\ \A c \in Cameras : ReadLane(c) => eventThread'.at = "reading"
           /\ LookAgain \/ ApplyTimeouts => eventThread'.at = "looking"
           /\ \A r \in results : TakeResult(r) => eventThread'.at = "taken"
           /\ \A detected \in BOOLEAN : ProcessResult(detected) => eventThread'.at = "created"
           /\ \A late \in SUBSET Detecting : AdvanceCandidates(late) => eventThread'.at = "advanced"
           /\ EndEvents => eventThread'.at = "ended"
<1>1. eventThread \in EventThreads
  BY DEF Types, OrderingTypeOK
<1>2. Look => eventThread'.at = "reading"
  BY DEF Look, Looking
<1>3. \A c \in Cameras : ReadLane(c) => eventThread'.at = "reading"
  BY <1>1 DEF ReadLane, EventThreads
<1>4. LookAgain \/ ApplyTimeouts => eventThread'.at = "looking"
  BY DEF LookAgain, ApplyTimeouts, Looking
<1>5. \A r \in results : TakeResult(r) => eventThread'.at = "taken"
  BY DEF TakeResult, Looking
<1>6. \A detected \in BOOLEAN : ProcessResult(detected) => eventThread'.at = "created"
  BY DEF ProcessResult, Looking
<1>7. \A late \in SUBSET Detecting : AdvanceCandidates(late) => eventThread'.at = "advanced"
  BY <1>1 DEF AdvanceCandidates, EventThreads
<1>8. EndEvents => eventThread'.at = "ended"
  BY DEF EndEvents, Looking
<1>9. QED BY <1>2, <1>3, <1>4, <1>5, <1>6, <1>7, <1>8

LEMMA EventLoopKeepsOrder == Types /\ OrderInv /\ EventLoop => OrderInv'
<1> SUFFICES ASSUME Types, OrderInv, EventLoop PROVE OrderInv'
  OBVIOUS
<1>1. lane' = lane /\ runtime' = runtime /\ eventStop' = eventStop
  BY DEF EventLoop, Look, ReadLane, LookAgain, TakeResult, ProcessResult, AdvanceCandidates,
         ApplyTimeouts, EndEvents, EventOnly
<1>2. EndsInOrder /\ ToldToEnd' = ToldToEnd /\ LanesJoined' = LanesJoined
  BY <1>1 DEF OrderInv, ToldToEnd, LanesJoined
<1>3. EndsInOrder'
  <2>1. eventThread'.at = "ended" => eventStop /\ results' = {}
    <3>1. EndEvents => eventStop /\ results' = {}
      BY DEF EndEvents
    <3>2. QED BY <3>1, NextAt DEF EventLoop
  <2>2. QED BY <1>1, <1>2, <2>1 DEF EndsInOrder
<1>4. CASE Look
  <2>1. MarkHolds'
    BY <1>4 DEF Look, MarkHolds, Looking
  <2>2. QED BY <1>1, <1>3, <1>4, <2>1, OwedKept DEF Look, OrderInv
<1>5. ASSUME NEW c \in Cameras, ReadLane(c) PROVE OrderInv'
  <2> DEFINE m == Earliest(HeldBack(c) \cup {eventThread.mark}, NoMark)
  <2>1. eventThread.mark \in Times \cup {NoMark} /\ eventThread \in EventThreads
    BY DEF EventThreads, Types, OrderingTypeOK
  <2>2. m \in Times \cup {NoMark} /\ m <= eventThread.mark /\ \A h \in Held(c) : m <= h
    BY <2>1, ReadingLowersMark DEF Types
  <2>3. eventThread' = [eventThread EXCEPT !.unread = eventThread.unread \ {c}, !.mark = m]
    BY <1>5 DEF ReadLane
  <2>4. /\ unchanged' = unchanged /\ delivered' = delivered /\ results' = results
        /\ eventThread.at = "reading"
    BY <1>5 DEF ReadLane
  <2> HIDE DEF m
  <2>5. \A d \in Cameras : Held(d)' = Held(d)
    BY <1>1 DEF Held
  <2>6. eventThread'.mark = m /\ eventThread'.unread = eventThread.unread \ {c}
    BY <2>1, <2>3 DEF EventThreads
  <2>7. \A d \in Cameras : Held(d) \subseteq Int
    BY OrderingAssumption DEF Held, Types, OrderingTypeOK, Lanes, Times, NoTime
  <2>8. ASSUME unchanged, NEW d \in Cameras \ eventThread'.unread, NEW h \in Held(d)
        PROVE  m <= h
    <3>1. CASE d = c
      BY <2>2, <3>1
    <3>2. CASE d # c
      <4>1. d \in Cameras \ eventThread.unread
        BY <2>6, <3>2
      <4>2. eventThread.mark <= h
        BY <2>4, <2>8, <4>1 DEF OrderInv, MarkHolds
      <4>3. m \in Int /\ eventThread.mark \in Int /\ h \in Int
        BY <2>1, <2>2, <2>7, OrderingAssumption DEF Times, NoMark
      <4>4. QED BY <2>2, <4>2, <4>3
    <3>3. QED BY <3>1, <3>2
  <2>9. MarkHolds'
    BY <2>4, <2>5, <2>6, <2>8 DEF MarkHolds
  <2>10. QED BY <1>1, <1>3, <2>4, <2>9, OwedKept DEF OrderInv
<1>6. ASSUME NEW r \in results, TakeResult(r) PROVE OrderInv'
  <2>1. r \in Results /\ r.camera \in Cameras /\ r.time \in Nat
    BY OrderingAssumption DEF Types, OrderingTypeOK, Results, Times
  <2>2. /\ First(r) /\ r.time < eventThread.mark /\ results' = results \ {r}
        /\ delivered' = [delivered EXCEPT ![r.camera] = r.time]
        /\ eventThread.at = "reading" /\ eventThread.unread = {} /\ unchanged
        /\ eventThread'.at = "taken"
    BY <1>6 DEF TakeResult, Ripe, AllRead, Looking
  <2>3. \A d \in Cameras : delivered'[d] = IF d = r.camera THEN r.time ELSE delivered[d]
    BY <2>2 DEF Types, OrderingTypeOK
  <2>4. ASSUME NEW d \in Cameras PROVE OwesNewer(d)'
    <3>1. CASE d # r.camera
      BY <1>1, <2>2, <2>3, <3>1 DEF OrderInv, OwesNewer, Held
    <3>2. CASE d = r.camera
      <4>1. delivered'[d] = r.time /\ r.time <= lane'[d].newest
        BY <1>1, <2>3, <3>2 DEF OrderInv, OwesNewer
      <4>2. ASSUME NEW h \in Held(d)' PROVE r.time < h
        <5>1. h \in Held(d)
          BY <1>1 DEF Held
        <5>2. h \in Int /\ eventThread.mark \in Int
          BY <5>1, OrderingAssumption
          DEF Held, Types, OrderingTypeOK, Lanes, Times, NoTime, EventThreads, NoMark
        <5>3. eventThread.mark <= h
          BY <2>2, <5>1 DEF OrderInv, MarkHolds
        <5>4. QED BY <2>1, <2>2, <5>2, <5>3
      <4>3. ASSUME NEW s \in results', s.camera = d
            PROVE  r.time < s.time /\ s.time <= lane'[d].newest
        <5>1. s \in results /\ s # r /\ s \in Results
          BY <2>2 DEF Types, OrderingTypeOK
        <5>2. s.time # r.time \/ s.camera # r.camera
          BY <2>1, <5>1 DEF Results
        <5>3. Before(r, s)
          BY <2>2, <5>1 DEF First
        <5>4. r.time < s.time
          <6>1. Cameras \subseteq Nat
            BY OrderingAssumption
          <6>2. QED BY <2>1, <3>2, <4>3, <5>3, <6>1 DEF Before
        <5>5. s.time <= lane'[d].newest
          BY <1>1, <4>3, <5>1 DEF OrderInv, OwesNewer
        <5>6. QED BY <5>4, <5>5
      <4>4. QED BY <4>1, <4>2, <4>3 DEF OwesNewer
    <3>3. QED BY <3>1, <3>2
  <2>5. MarkHolds'
    BY <2>2 DEF MarkHolds
  <2>6. QED BY <1>1, <1>3, <2>4, <2>5 DEF OrderInv
<1>7. CASE \/ LookAgain \/ ApplyTimeouts \/ EndEvents
           \/ \E detected \in BOOLEAN : ProcessResult(detected)
           \/ \E late \in SUBSET Detecting : AdvanceCandidates(late)
  <2>1. delivered' = delivered /\ results' = results
    BY <1>7 DEF LookAgain, ApplyTimeouts, EndEvents, ProcessResult, AdvanceCandidates
  <2>2. eventThread'.at # "reading"
    BY <1>7, NextAt
  <2>3. MarkHolds'
    BY <2>2 DEF MarkHolds
  <2>4. QED BY <1>1, <1>3, <2>1, <2>3, OwedKept DEF OrderInv
<1>8. QED BY <1>4, <1>5, <1>6, <1>7 DEF EventLoop

LEMMA NewLaneSound == ASSUME NEW n \in Nat PROVE LaneSound(NewLane(n))
BY DEF NewLane, LaneSound, NoTime

LEMMA CommandsKeepOrder == Types /\ OrderInv /\ Commands => OrderInv'
<1> SUFFICES ASSUME Types, OrderInv, Commands PROVE OrderInv'
  OBVIOUS
<1>1. CASE \/ ApplySignal \/ Start \/ BeginDraining \/ StopEvents \/ Stopped
           \/ \E c \in Cameras, decision \in {"Confirmed", "Timeout"} : Signal(c, decision)
  <2>1. /\ lane' = lane /\ delivered' = delivered /\ results' = results
        /\ eventThread' = eventThread /\ (unchanged' => unchanged)
    BY <1>1 DEF ApplySignal, Start, BeginDraining, StopEvents, Stopped, Signal, Types, OrderingTypeOK
  <2>2. MarkHolds'
    <3>1. \A c \in Cameras : Held(c)' = Held(c)
      BY <2>1 DEF Held
    <3>2. QED BY <2>1, <3>1 DEF OrderInv, MarkHolds
  <2>3. ToldToEnd => ToldToEnd'
    BY <1>1 DEF ApplySignal, Start, BeginDraining, StopEvents, Stopped, Signal, ToldToEnd
  <2>4. eventStop' = eventStop \/ (eventStop' /\ LanesJoined /\ ToldToEnd)
    BY <1>1 DEF ApplySignal, Start, BeginDraining, StopEvents, Stopped, Signal, ToldToEnd
  <2>5. EndsInOrder'
    <3>1. LanesJoined' = LanesJoined
      BY <2>1 DEF LanesJoined
    <3>2. QED BY <2>1, <2>3, <2>4, <3>1 DEF OrderInv, EndsInOrder
  <2>6. QED BY <2>1, <2>2, <2>5, OwedKept DEF OrderInv
<1>2. CASE SwapPipeline
  <2>1. \A c \in Cameras : lane'[c] = NewLane(lane[c].newest) /\ lane[c].newest \in Nat
    BY <1>2, OrderingAssumption DEF SwapPipeline, Types, OrderingTypeOK, Lanes, Times, NoTime
  <2>2. \A c \in Cameras : LaneSound(lane'[c]) /\ Held(c)' = {} /\ lane'[c].newest = lane[c].newest
    <3>1. ASSUME NEW c \in Cameras
          PROVE  /\ lane'[c].automatic = NoTime /\ lane'[c].manual = NoTime
                 /\ lane'[c].inFlight = NoTime /\ lane'[c].worker = "waiting"
                 /\ lane'[c].newest = lane[c].newest /\ LaneSound(lane'[c])
      <4>1. PICK n \in Nat : lane'[c] = NewLane(n) /\ n = lane[c].newest
        BY <2>1
      <4>2. LaneSound(NewLane(n))
        BY NewLaneSound
      <4>3. /\ NewLane(n).automatic = NoTime /\ NewLane(n).manual = NoTime
            /\ NewLane(n).inFlight = NoTime /\ NewLane(n).worker = "waiting" /\ NewLane(n).newest = n
        BY DEF NewLane
      <4>4. QED BY <4>1, <4>2, <4>3
    <3>2. \A c \in Cameras : Held(c)' = {}
      BY <3>1 DEF Held
    <3>3. QED BY <3>1, <3>2
  <2>3. \A c \in Cameras : OwesNewer(c)'
    BY <1>2, <2>2 DEF SwapPipeline, OrderInv, OwesNewer
  <2>4. EndsInOrder'
    BY <1>2, <2>1 DEF SwapPipeline, EndsInOrder, NewLane, Looking
  <2>5. MarkHolds'
    BY <1>2 DEF SwapPipeline, MarkHolds
  <2>6. QED BY <2>2, <2>3, <2>4, <2>5 DEF OrderInv, LaneSound
<1>3. QED BY <1>1, <1>2 DEF Commands, Draining

-----------------------------------------------------------------------------
(* Rows and decisions *)

LEMMA InitRows == OrderingInit => RowsInv
BY DEF OrderingInit, RowsInv, SignalDecided, RowsLag, Noticed, LifecycleHeld, Looking

\* Steps that touch neither a decision nor what the event thread does.
LEMMA RowsUntouched ==
    ASSUME RowsInv, manager' = manager, row' = row, signal' = signal, signal # NoCamera => runtime' = runtime,
           \/ eventThread' = eventThread
           \/ ~LifecycleHeld /\ ~LifecycleHeld' /\ eventThread'.at # "ended"
    PROVE  RowsInv'
<1>1. CASE eventThread' = eventThread
  BY <1>1 DEF RowsInv, SignalDecided, RowsLag, Noticed, LifecycleHeld
<1>2. CASE ~LifecycleHeld /\ ~LifecycleHeld' /\ eventThread'.at # "ended"
  BY <1>2 DEF RowsInv, SignalDecided, RowsLag, Noticed, LifecycleHeld
<1>3. QED BY <1>1, <1>2

LEMMA EventLoopKeepsRows == Types /\ OrderInv /\ RowsInv /\ EventLoop => RowsInv'
<1> SUFFICES ASSUME Types, OrderInv, RowsInv, EventLoop PROVE RowsInv'
  OBVIOUS
<1>1. /\ eventThread \in EventThreads /\ signal' = signal /\ runtime' = runtime
      /\ manager \in [Cameras -> Decisions] /\ row \in [Cameras -> Decisions]
  BY DEF Types, OrderingTypeOK, EventLoop, Look, ReadLane, LookAgain, TakeResult, ProcessResult,
         AdvanceCandidates, ApplyTimeouts, EndEvents, EventOnly
<1>2. SignalDecided /\ \A c \in Cameras : RowsLag(c)
  BY DEF RowsInv
<1>3. signal \in Cameras \/ signal = NoCamera
  BY DEF Types, OrderingTypeOK
<1>4. NoCamera \notin Cameras
  BY OrderingAssumption DEF NoCamera
<1>5. CASE Look
  BY <1>1, <1>5, NextAt, RowsUntouched DEF Look, LifecycleHeld
<1>6. ASSUME NEW c \in Cameras, ReadLane(c) PROVE RowsInv'
  BY <1>1, <1>6, NextAt, RowsUntouched DEF ReadLane, LifecycleHeld
<1>7. CASE LookAgain
  BY <1>1, <1>7, NextAt, RowsUntouched DEF LookAgain, AllRead, LifecycleHeld
<1>8. ASSUME NEW r \in results, TakeResult(r) PROVE RowsInv'
  BY <1>1, <1>8, NextAt, RowsUntouched DEF TakeResult, AllRead, LifecycleHeld
<1>9. ASSUME NEW detected \in BOOLEAN, ProcessResult(detected) PROVE RowsInv'
  <2> DEFINE c == eventThread.result.camera
             opens == detected /\ manager[c] = "None"
  <2>1. opens => c \in Cameras
    BY <1>9, OrderingAssumption DEF ProcessResult
  <2>2. /\ manager' = IF opens THEN [manager EXCEPT ![c] = "Candidate"] ELSE manager
        /\ eventThread' = [Looking EXCEPT !.at = "created", !.notices = IF opens THEN {c} ELSE {}]
        /\ row' = row /\ eventThread.at = "taken"
    BY <1>9 DEF ProcessResult
  <2>3. eventThread'.at = "created" /\ eventThread'.notices = IF opens THEN {c} ELSE {}
    BY <2>2 DEF Looking
  <2>4. opens => manager[c] = "None"
    OBVIOUS
  <2> HIDE DEF opens, c
  <2>5. \A d \in Cameras : manager'[d] = IF opens /\ d = c THEN "Candidate" ELSE manager[d]
    BY <1>1, <2>1, <2>2
  <2>6. Noticed = {} /\ Noticed' = IF opens THEN {c} ELSE {}
    BY <2>2, <2>3 DEF Noticed, LifecycleHeld
  <2>7. SignalDecided'
    BY <1>1, <1>2, <1>3, <2>2, <2>4, <2>5 DEF SignalDecided
  <2>8. opens => c # signal
    BY <1>2, <1>3, <1>4, <2>1, <2>4 DEF SignalDecided
  <2>9. ASSUME NEW d \in Cameras PROVE RowsLag(d)'
    <3>1. CASE opens /\ d = c
      BY <1>1, <1>2, <2>2, <2>3, <2>4, <2>5, <2>6, <2>8, <3>1 DEF RowsLag
    <3>2. CASE ~(opens /\ d = c)
      BY <1>1, <1>2, <2>2, <2>3, <2>5, <2>6, <3>2 DEF RowsLag
    <3>3. QED BY <3>1, <3>2
  <2>10. QED BY <2>7, <2>9 DEF RowsInv
<1>10. ASSUME NEW late \in SUBSET Detecting, AdvanceCandidates(late) PROVE RowsInv'
  <2>1. /\ late \subseteq Undecided /\ eventThread.at = "created" /\ eventThread'.at = "advanced"
        /\ eventThread'.notices = late
        /\ row' = Decided(row, eventThread.notices, "Candidate")
        /\ manager' = Decided(manager, late, "Timeout")
    BY <1>1, <1>10 DEF AdvanceCandidates, EventThreads
  <2>2. Noticed = eventThread.notices /\ Noticed' = late
    BY <2>1 DEF Noticed, LifecycleHeld
  <2>3. \A d \in Cameras : /\ row'[d] = IF d \in Noticed THEN "Candidate" ELSE row[d]
                           /\ manager'[d] = IF d \in late THEN "Timeout" ELSE manager[d]
    BY <2>1, <2>2 DEF Decided
  <2>4. \A d \in late : manager[d] = "Candidate"
    BY <2>1 DEF Undecided
  <2>5. SignalDecided'
    BY <1>1, <1>2, <1>3, <2>1, <2>2, <2>3, <2>4 DEF SignalDecided
  <2>6. ASSUME NEW d \in Cameras PROVE RowsLag(d)'
    BY <1>1, <1>2, <1>3, <1>4, <2>1, <2>2, <2>3, <2>4 DEF RowsLag, SignalDecided
  <2>7. QED BY <2>5, <2>6 DEF RowsInv
<1>11. CASE ApplyTimeouts
  <2>1. /\ eventThread.at = "advanced" /\ eventThread'.at = "looking" /\ manager' = manager
        /\ row' = Decided(row, eventThread.notices, "Timeout")
    BY <1>11, NextAt DEF ApplyTimeouts
  <2>2. Noticed = eventThread.notices /\ Noticed' = {}
    BY <2>1 DEF Noticed, LifecycleHeld
  <2>3. \A d \in Cameras : row'[d] = IF d \in Noticed THEN "Timeout" ELSE row[d]
    BY <2>1, <2>2 DEF Decided
  <2>4. SignalDecided'
    BY <1>1, <1>2, <1>3, <2>1, <2>3 DEF SignalDecided
  <2>5. ASSUME NEW d \in Cameras PROVE RowsLag(d)'
    BY <1>1, <1>2, <2>1, <2>2, <2>3 DEF RowsLag
  <2>6. QED BY <2>4, <2>5 DEF RowsInv
<1>12. CASE EndEvents
  <2>1. /\ eventThread.at = "reading" /\ eventThread'.at = "ended"
        /\ row' = Decided(row, Undecided, "Timeout")
        /\ manager' = Decided(manager, Undecided, "Timeout")
    BY <1>12, NextAt DEF EndEvents, AllRead
  <2>2. Noticed = {} /\ Noticed' = {}
    BY <2>1 DEF Noticed, LifecycleHeld
  <2>3. \A d \in Cameras :
            IF manager[d] = "Candidate" THEN row'[d] = "Timeout" /\ manager'[d] = "Timeout"
            ELSE row'[d] = row[d] /\ manager'[d] = manager[d]
    BY <2>1 DEF Decided, Undecided
  <2>4. SignalDecided'
    BY <1>1, <1>2, <1>3, <2>1, <2>3 DEF SignalDecided
  <2>5. ASSUME NEW d \in Cameras PROVE RowsLag(d)'
    BY <1>1, <1>2, <2>1, <2>2, <2>3 DEF RowsLag
  <2>6. QED BY <2>4, <2>5 DEF RowsInv
<1>13. QED BY <1>5, <1>6, <1>7, <1>8, <1>9, <1>10, <1>11, <1>12 DEF EventLoop

LEMMA CommandsKeepRows == Types /\ OrderInv /\ RowsInv /\ Commands => RowsInv'
<1> SUFFICES ASSUME Types, OrderInv, RowsInv, Commands PROVE RowsInv'
  OBVIOUS
<1>1. manager \in [Cameras -> Decisions] /\ row \in [Cameras -> Decisions]
  BY DEF Types, OrderingTypeOK
<1>2. SignalDecided /\ \A c \in Cameras : RowsLag(c)
  BY DEF RowsInv
<1>3. (signal \in Cameras \/ signal = NoCamera) /\ NoCamera \notin Cameras
  BY OrderingAssumption DEF Types, OrderingTypeOK, NoCamera
<1>4. ASSUME NEW c \in Cameras, NEW decision \in {"Confirmed", "Timeout"}, Signal(c, decision)
      PROVE  RowsInv'
  <2>1. /\ runtime = "running" /\ runtime' = runtime /\ signal = NoCamera /\ signal' = c
        /\ manager[c] = "Candidate" /\ row' = row /\ eventThread' = eventThread
    BY <1>4 DEF Signal
  <2>2. \A d \in Cameras : manager'[d] = IF d = c THEN decision ELSE manager[d]
    BY <1>1, <1>4 DEF Signal
  <2>3. Noticed' = Noticed
    BY <2>1 DEF Noticed, LifecycleHeld
  <2>4. eventThread.at # "ended"
    BY <2>1 DEF OrderInv, EndsInOrder, ToldToEnd
  <2>5. c \notin Noticed => row[c] = "Candidate"
    BY <1>2, <1>3, <2>1 DEF RowsLag
  <2>6. c \in Noticed => eventThread.at = "created" /\ c \in eventThread.notices
    BY <1>2, <2>1 DEF RowsLag, Noticed, LifecycleHeld
  <2>7. SignalDecided'
    BY <1>3, <2>1, <2>2, <2>5, <2>6 DEF SignalDecided
  <2>8. ASSUME NEW d \in Cameras PROVE RowsLag(d)'
    BY <1>2, <1>3, <2>1, <2>2, <2>3, <2>4, <2>6 DEF RowsLag
  <2>9. QED BY <2>7, <2>8 DEF RowsInv
<1>5. CASE ApplySignal
  <2>1. /\ signal \in Cameras /\ ~LifecycleHeld /\ signal' = NoCamera /\ manager' = manager
        /\ eventThread' = eventThread
    BY <1>3, <1>5 DEF ApplySignal, RowFree
  <2>2. row[signal] # "None"
    BY <1>2, <1>3, <2>1 DEF SignalDecided, LifecycleHeld
  <2>3. \A d \in Cameras : row'[d] = IF d = signal THEN manager[d] ELSE row[d]
    BY <1>1, <1>5, <2>2 DEF ApplySignal
  <2>4. Noticed = {} /\ Noticed' = {}
    BY <2>1 DEF Noticed, LifecycleHeld
  <2>5. SignalDecided'
    BY <2>1 DEF SignalDecided
  <2>6. ASSUME NEW d \in Cameras PROVE RowsLag(d)'
    BY <1>2, <2>1, <2>3, <2>4 DEF RowsLag
  <2>7. QED BY <2>5, <2>6 DEF RowsInv
<1>6. CASE Start \/ StopEvents \/ Stopped \/ BeginDraining
  BY <1>2, <1>6, RowsUntouched DEF Start, StopEvents, Stopped, BeginDraining, SignalDecided
<1>7. CASE SwapPipeline
  <2>1. signal = NoCamera
    BY <1>2, <1>7 DEF SwapPipeline, SignalDecided
  <2>2. QED BY <1>7, <2>1 DEF SwapPipeline, RowsInv, SignalDecided, RowsLag, Noticed, LifecycleHeld, Looking
<1>8. QED BY <1>4, <1>5, <1>6, <1>7 DEF Commands, Draining

-----------------------------------------------------------------------------
(* Theorems *)

LEMMA NextKeepsInv == IInv /\ [OrderingNext]_orderingVars => IInv'
<1> SUFFICES ASSUME IInv, [OrderingNext]_orderingVars PROVE IInv'
  OBVIOUS
<1>1. Types /\ OrderInv /\ RowsInv
  BY DEF IInv
<1>2. ASSUME NEW c \in Cameras,
             Lane(c) \/ RequestManualTrigger(c) \/ \E t \in Times : SubmitFrame(c, t)
      PROVE  IInv'
  <2>1. LaneSound(lane[c])
    BY <1>1 DEF OrderInv
  <2>2. /\ manager' = manager /\ row' = row /\ signal' = signal /\ runtime' = runtime
        /\ eventThread' = eventThread
    BY <1>2 DEF Lane, TakeFrame, EnqueueResult, ClearInFlight, EndLane, LaneOnly,
           RequestManualTrigger, SubmitFrame
  <2>3. RowsInv'
    BY <1>1, <2>2, RowsUntouched
  <2>4. QED BY <1>1, <1>2, <2>1, <2>3, LanesKeepTypes, LanesKeepOrder DEF IInv
<1>3. CASE EventLoop
  BY <1>1, <1>3, EventLoopKeepsTypes, EventLoopKeepsOrder, EventLoopKeepsRows DEF IInv
<1>4. CASE Commands
  BY <1>1, <1>4, CommandsKeepTypes, CommandsKeepOrder, CommandsKeepRows DEF IInv
<1>5. CASE UNCHANGED orderingVars
  BY <1>1, <1>5 DEF orderingVars, IInv, Types, OrderingTypeOK, OrderInv, LaneSound, OwesNewer, Held,
     EndsInOrder, LanesJoined, ToldToEnd, MarkHolds, RowsInv, SignalDecided, RowsLag, Noticed,
     LifecycleHeld
<1>6. QED BY <1>2, <1>3, <1>4, <1>5, OrderingAssumption DEF OrderingNext, Commands

LEMMA InvAlways == OrderingSpec => []IInv
<1>1. OrderingInit => IInv
  BY InitTypes, InitOrder, InitRows DEF IInv
<1>2. QED BY <1>1, NextKeepsInv, PTL DEF OrderingSpec

\* Slots, queue, watermark and commands keep their types, and the result queue
\* its capacity, for any number of cameras.
THEOREM OrderingTypesAlways == OrderingSpec => []OrderingTypeOK
<1>1. IInv => OrderingTypeOK
  BY DEF IInv, Types
<1>2. QED BY <1>1, InvAlways, PTL

\* Rows say what the manager decided whenever neither the event thread nor a
\* signal is between the two.
THEOREM RowsFollowManagerAlways == OrderingSpec => []RowsFollowManager
<1>1. IInv => RowsFollowManager
  <2> SUFFICES ASSUME IInv, ~LifecycleHeld, signal = NoCamera, NEW c \in Cameras
               PROVE  row[c] = manager[c]
    BY DEF RowsFollowManager
  <2>1. RowsLag(c) /\ c # signal
    BY OrderingAssumption DEF IInv, RowsInv, NoCamera
  <2>2. QED BY <2>1 DEF RowsLag, Noticed
<1>2. QED BY <1>1, InvAlways, PTL

\* When every lane has ended and the queue is empty, nothing is owed.
LEMMA EndedOwesNothing == IInv /\ eventThread.at = "ended" => Owed = {}
<1> SUFFICES ASSUME IInv, eventThread.at = "ended" PROVE Owed = {}
  OBVIOUS
<1>1. results = {} /\ \A c \in Cameras : lane[c].worker = "ended"
  BY DEF IInv, OrderInv, EndsInOrder, LanesJoined
<1>2. \A c \in Cameras : Held(c) = {}
  BY <1>1 DEF IInv, OrderInv, LaneSound, Held
<1>3. QED BY <1>1, <1>2 DEF Owed

\* The event thread leaves no frame, no result, no open candidate and no row
\* behind the manager.
THEOREM EndedIsDrainedAlways == OrderingSpec => []EndedIsDrained
<1>1. IInv => EndedIsDrained
  <2> SUFFICES ASSUME IInv, eventThread.at = "ended", NEW c \in Cameras
               PROVE  Owed = {} /\ manager[c] # "Candidate" /\ row[c] = manager[c]
    <3>1. Owed = {} /\ (\A c \in Cameras : manager[c] # "Candidate" /\ row[c] = manager[c])
          => EndedIsDrained
      BY DEF EndedIsDrained
    <3>2. QED BY <3>1, EndedOwesNothing DEF EndedIsDrained
  <2>1. RowsLag(c) /\ ToldToEnd /\ SignalDecided
    BY DEF IInv, OrderInv, RowsInv, EndsInOrder
  <2>2. signal = NoCamera
    BY <2>1 DEF SignalDecided, ToldToEnd
  <2>3. c # signal
    BY <2>2, OrderingAssumption DEF NoCamera
  <2>4. QED BY <2>1, <2>3, EndedOwesNothing DEF RowsLag, Noticed, LifecycleHeld
<1>2. QED BY <1>1, InvAlways, PTL

-----------------------------------------------------------------------------
(* ResultOrdering implements the safety of OrderedDelivery.                  *)

Frames == [camera : Cameras, time : Times]

\* A frame is owed while a lane holds it or its result waits.
LEMMA OwedIs ==
    ASSUME results \subseteq Results
    PROVE  /\ Owed \subseteq Frames
           /\ \A f \in Frames : f \in Owed <=> f.time \in Held(f.camera) \/ f \in results
<1>1. \A f \in Frames, r \in results : r.camera = f.camera /\ r.time = f.time <=> r = f
  BY DEF Frames, Results
<1>2. QED BY <1>1 DEF Owed, Frames

\* What does not change what lanes hold and what waits leaves the same frames
\* owed.
LEMMA SameOwed ==
    ASSUME results \subseteq Results, results' = results, \A c \in Cameras : Held(c)' = Held(c)
    PROVE  Owed' = Owed
<1>1. \A f \in Frames : f.camera \in Cameras
  BY DEF Frames
<1>2. QED BY <1>1 DEF Owed, Frames

LEMMA SubmitAccepts ==
    ASSUME IInv, NEW c \in Cameras, NEW t \in Times, SubmitFrame(c, t)
    PROVE  Ordered!OrderNext
<1> DEFINE f == [camera |-> c, time |-> t]
<1>1. /\ lane \in [Cameras -> Lanes] /\ results \subseteq Results /\ Times \subseteq Nat
      /\ delivered \in [Cameras -> Times \cup {NoTime}] /\ NoTime \notin Times /\ NoTime \in Nat
  BY OrderingAssumption DEF IInv, Types, OrderingTypeOK, Times, NoTime
<1>2. /\ t > lane[c].newest /\ results' = results /\ delivered' = delivered
      /\ \A d \in Cameras : d # c => lane'[d] = lane[d]
      /\ lane'[c].inFlight = lane[c].inFlight
      /\ \/ lane'[c].automatic = NoTime /\ lane'[c].manual = t
         \/ lane'[c].automatic = t /\ lane'[c].manual = lane[c].manual
  BY <1>1 DEF SubmitFrame, Lanes
<1>3. f \in Frames /\ f.camera = c /\ f.time = t
  BY DEF Frames
<1>4. LaneSound(lane[c]) /\ OwesNewer(c)
  BY DEF IInv, OrderInv
<1>5. \A h \in Held(c) : h \in Nat /\ h <= lane[c].newest
  BY <1>1, <1>4 DEF Held, LaneSound, Lanes
<1>6. lane[c].newest \in Nat /\ delivered[c] \in Nat
  BY <1>1 DEF Lanes
<1> HIDE DEF f
<1>7. f \notin Owed
  <2>1. t \notin Held(c)
    BY <1>1, <1>2, <1>5, <1>6
  <2>2. f \notin results
    BY <1>1, <1>2, <1>3, <1>4, <1>6 DEF OwesNewer
  <2>3. QED BY <1>1, <1>3, <2>1, <2>2, OwedIs
<1>8. f.time > delivered[f.camera]
  BY <1>1, <1>2, <1>3, <1>4, <1>6 DEF OwesNewer
<1>9. /\ \A d \in Cameras \ {c} : Held(d)' = Held(d)
      /\ t \in Held(c)' /\ Held(c)' \subseteq Held(c) \cup {t}
  BY <1>1, <1>2 DEF Held
<1>10. Owed' \subseteq Frames /\ \A g \in Frames : g \in Owed' <=> g.time \in Held(g.camera)' \/ g \in results
  <2>1. \A g \in Frames, r \in results : r.camera = g.camera /\ r.time = g.time <=> r = g
    BY <1>1 DEF Frames, Results
  <2>2. QED BY <1>2, <2>1 DEF Owed, Frames
<1>11. f \in Owed'
  BY <1>3, <1>9, <1>10
<1>12. Owed' \subseteq Owed \cup {f}
  <2> SUFFICES ASSUME NEW g \in Owed', g \notin Owed PROVE g = f
    OBVIOUS
  <2>1. g \in Frames /\ g.camera \in Cameras /\ g \notin results /\ g.time \in Held(g.camera)'
        /\ g.time \notin Held(g.camera)
    BY <1>1, <1>10, OwedIs DEF Frames
  <2>2. g.camera = c /\ g.time = t
    BY <1>9, <2>1
  <2>3. QED BY <1>3, <2>1, <2>2 DEF Frames
<1>13. \A g \in Owed \ Owed' : g.camera = f.camera
  BY <1>1, <1>3, <1>9, <1>10, OwedIs DEF Frames
<1>14. Ordered!Accept(f)
  BY <1>2, <1>7, <1>8, <1>11, <1>12, <1>13 DEF Ordered!Accept
<1>15. QED BY <1>3, <1>14 DEF Ordered!OrderNext, Ordered!Frames, Frames

LEMMA ClearGivesUp ==
    ASSUME IInv, NEW c \in Cameras, ClearInFlight(c)
    PROVE  Ordered!OrderNext \/ UNCHANGED <<Owed, delivered>>
<1> DEFINE f == [camera |-> c, time |-> lane[c].inFlight]
<1>1. /\ lane \in [Cameras -> Lanes] /\ results \subseteq Results
      /\ LaneSound(lane[c]) /\ lane[c] \in Lanes
  BY DEF IInv, Types, OrderingTypeOK, OrderInv
<1>2. /\ results' = results /\ delivered' = delivered /\ lane[c].worker = "enqueued"
      /\ \A d \in Cameras : d # c => lane'[d] = lane[d]
      /\ lane'[c].inFlight = NoTime /\ lane'[c].automatic = lane[c].automatic
      /\ lane'[c].manual = lane[c].manual
  BY <1>1 DEF ClearInFlight, LaneOnly, Lanes
<1>3. f \in Frames /\ f.camera = c /\ f.time = lane[c].inFlight /\ lane[c].inFlight # NoTime
  BY <1>1, <1>2 DEF Frames, LaneSound, Lanes
<1> HIDE DEF f
<1>4. /\ \A d \in Cameras \ {c} : Held(d)' = Held(d)
      /\ Held(c)' = Held(c) \ {f.time} /\ f.time \in Held(c)
  BY <1>1, <1>2, <1>3 DEF Held, LaneSound
<1>5. Owed' \subseteq Frames /\ \A g \in Frames : g \in Owed' <=> g.time \in Held(g.camera)' \/ g \in results
  <2>1. \A g \in Frames, r \in results : r.camera = g.camera /\ r.time = g.time <=> r = g
    BY <1>1 DEF Frames, Results
  <2>2. QED BY <1>2, <2>1 DEF Owed, Frames
<1>6. \A g \in Frames : g # f /\ g.camera = c => g.time # f.time
  BY <1>3 DEF Frames
<1>7. \A g \in Frames : g.camera \in Cameras
  BY DEF Frames
<1>8. f \in Owed
  BY <1>1, <1>3, <1>4, OwedIs
<1>9. \A g \in Frames \ {f} : g \in Owed' <=> g \in Owed
  BY <1>1, <1>4, <1>5, <1>6, <1>7, OwedIs
<1>10. f \in Owed' <=> f \in results
  BY <1>3, <1>4, <1>5
<1>11. CASE f \in results
  <2>1. Owed' = Owed
    BY <1>1, <1>5, <1>8, <1>9, <1>10, <1>11, OwedIs
  <2>2. QED BY <1>2, <2>1
<1>12. CASE f \notin results
  <2>1. Owed' = Owed \ {f}
    BY <1>1, <1>5, <1>9, <1>10, <1>12, OwedIs
  <2>2. Ordered!GiveUp(f)
    BY <1>2, <1>8, <2>1 DEF Ordered!GiveUp
  <2>3. QED BY <1>3, <2>2 DEF Ordered!OrderNext, Ordered!Frames, Frames
<1>13. QED BY <1>11, <1>12

LEMMA TakeDelivers ==
    ASSUME IInv, NEW r \in results, TakeResult(r)
    PROVE  Ordered!OrderNext
<1>1. /\ lane \in [Cameras -> Lanes] /\ results \subseteq Results /\ r \in Frames
      /\ r.camera \in Cameras /\ r.time \in Int /\ delivered[r.camera] \in Int
      /\ Cameras \subseteq Int /\ Times \subseteq Int
  <2>1. Cameras \subseteq Int /\ Times \subseteq Int /\ Times \cup {NoTime} \subseteq Int
    BY OrderingAssumption DEF Times, NoTime
  <2>2. /\ lane \in [Cameras -> Lanes] /\ results \subseteq Results
        /\ delivered \in [Cameras -> Times \cup {NoTime}]
    BY DEF IInv, Types, OrderingTypeOK
  <2>3. r \in Frames /\ r.camera \in Cameras /\ r.time \in Times
    BY <2>2 DEF Results, Frames
  <2>4. QED BY <2>1, <2>2, <2>3
<1>2. /\ First(r) /\ r.time < eventThread.mark /\ results' = results \ {r} /\ lane' = lane
      /\ delivered' = [delivered EXCEPT ![r.camera] = r.time]
      /\ eventThread.at = "reading" /\ eventThread.unread = {} /\ unchanged
  BY DEF TakeResult, Ripe, AllRead, EventOnly
<1>3. \A d \in Cameras : \A h \in Held(d) : r.time < h
  <2> SUFFICES ASSUME NEW d \in Cameras, NEW h \in Held(d) PROVE r.time < h
    OBVIOUS
  <2>1. eventThread.mark <= h
    BY <1>2 DEF IInv, OrderInv, MarkHolds
  <2>2. h \in Int /\ eventThread.mark \in Int
    BY OrderingAssumption
    DEF Held, IInv, Types, OrderingTypeOK, Lanes, Times, NoTime, EventThreads, NoMark
  <2>3. QED BY <1>1, <1>2, <2>1, <2>2
<1>4. \A g \in Owed : g \in Frames /\ g.camera \in Cameras /\ g.camera \in Int /\ g.time \in Int
  <2>1. \A g \in Frames : g.camera \in Cameras /\ g.time \in Times
    BY DEF Frames
  <2>2. QED BY <1>1, <2>1, OwedIs
<1>5. r \in Owed
  BY <1>1, OwedIs
<1>6. ASSUME NEW g \in Owed PROVE ~Ordered!Precedes(g, r)
  <2>1. CASE g.time \in Held(g.camera)
    BY <1>1, <1>3, <1>4, <2>1 DEF Ordered!Precedes
  <2>2. CASE g \in results
    <3>1. g = r \/ Before(r, g)
      BY <1>2, <2>2 DEF First
    <3>2. r.camera \in Int
      BY <1>1
    <3>3. QED BY <1>1, <1>4, <3>1, <3>2 DEF Before, Ordered!Precedes
  <2>3. QED BY <1>1, <1>4, <2>1, <2>2, OwedIs
<1>7. r.time > delivered[r.camera]
  <2>1. delivered[r.camera] < r.time
    BY <1>1 DEF IInv, OrderInv, OwesNewer
  <2>2. QED BY <1>1, <2>1
<1>8. Owed' \subseteq Frames /\ \A g \in Frames : g \in Owed' <=> g.time \in Held(g.camera) \/ g \in results'
  <2>1. \A g \in Frames, s \in results : s.camera = g.camera /\ s.time = g.time <=> s = g
    BY <1>1 DEF Frames, Results
  <2>2. \A c \in Cameras : Held(c)' = Held(c)
    BY <1>2 DEF Held
  <2>3. \A g \in Frames : g.camera \in Cameras
    BY DEF Frames
  <2>4. Owed' = {f \in Frames : \/ f.time \in Held(f.camera)'
                               \/ \E s \in results' : s.camera = f.camera /\ s.time = f.time}
    BY DEF Owed, Frames
  <2>5. results' \subseteq results
    BY <1>2
  <2>6. \A g \in Frames : (\E s \in results' : s.camera = g.camera /\ s.time = g.time) <=> g \in results'
    BY <2>1, <2>5
  <2>7. QED BY <2>2, <2>3, <2>4, <2>6
<1>9. r.time \notin Held(r.camera)
  <2>1. r.time \in Held(r.camera) => r.time < r.time
    BY <1>1, <1>3
  <2>2. ~(r.time < r.time)
    BY <1>1
  <2>3. QED BY <2>1, <2>2
<1>10. Owed' = Owed \ {r}
  <2>1. results' = results \ {r}
    BY <1>2
  <2>2. \A g \in Frames \ {r} : g \in Owed' <=> g \in Owed
    BY <1>1, <1>8, <2>1, OwedIs
  <2>3. r \notin Owed'
    BY <1>1, <1>8, <1>9, <2>1
  <2>4. Owed \subseteq Frames /\ Owed' \subseteq Frames
    BY <1>1, <1>8, OwedIs
  <2>5. QED BY <2>2, <2>3, <2>4
<1>11. Ordered!Deliver(r)
  BY <1>2, <1>5, <1>6, <1>7, <1>10 DEF Ordered!Deliver
<1>12. QED BY <1>1, <1>11 DEF Ordered!OrderNext, Ordered!Frames, Frames

\* Every step of the runtime accepts, gives up or delivers one frame, or is
\* none of the event thread's business.
LEMMA StepsImplement ==
    IInv /\ [OrderingNext]_orderingVars => Ordered!OrderNext \/ UNCHANGED <<Owed, delivered>>
<1> SUFFICES ASSUME IInv, [OrderingNext]_orderingVars
             PROVE  Ordered!OrderNext \/ UNCHANGED <<Owed, delivered>>
  OBVIOUS
<1>1. /\ lane \in [Cameras -> Lanes] /\ results \subseteq Results
      /\ \A c \in Cameras : LaneSound(lane[c])
  BY DEF IInv, Types, OrderingTypeOK, OrderInv
<1>2. ASSUME lane' = lane, results' = results, delivered' = delivered
      PROVE  UNCHANGED <<Owed, delivered>>
  <2>1. \A c \in Cameras : Held(c)' = Held(c)
    BY <1>2 DEF Held
  <2>2. QED BY <1>1, <1>2, <2>1, SameOwed
<1>3. ASSUME NEW c \in Cameras, RequestManualTrigger(c) \/ TakeFrame(c) \/ EndLane(c)
      PROVE  UNCHANGED <<Owed, delivered>>
  <2>1. results' = results /\ delivered' = delivered
    BY <1>3 DEF RequestManualTrigger, TakeFrame, EndLane, LaneOnly
  <2>2. \A d \in Cameras \ {c} : lane'[d] = lane[d]
    BY <1>1, <1>3 DEF RequestManualTrigger, TakeFrame, EndLane
  <2>3. {lane'[c].automatic, lane'[c].manual, lane'[c].inFlight} \ {NoTime} = Held(c)
    <3>1. CASE RequestManualTrigger(c) \/ EndLane(c)
      BY <1>1, <3>1 DEF RequestManualTrigger, EndLane, Held, Lanes
    <3>2. CASE TakeFrame(c)
      <4>1. lane[c].inFlight = NoTime
        BY <1>1, <3>2 DEF TakeFrame, LaneSound
      <4>2. QED BY <1>1, <3>2, <4>1 DEF TakeFrame, Held, Lanes
    <3>3. QED BY <1>3, <3>1, <3>2
  <2>4. \A d \in Cameras : Held(d)' = Held(d)
    BY <2>2, <2>3 DEF Held
  <2>5. QED BY <1>1, <2>1, <2>4, SameOwed
<1>4. ASSUME NEW c \in Cameras, EnqueueResult(c) PROVE UNCHANGED <<Owed, delivered>>
  <2> DEFINE f == [camera |-> c, time |-> lane[c].inFlight]
  <2>1. /\ delivered' = delivered /\ results \subseteq results' /\ results' \subseteq results \cup {f}
        /\ lane[c].worker = "analysing" /\ lane' = [lane EXCEPT ![c].worker = "enqueued"]
    BY <1>4 DEF EnqueueResult, LaneOnly
  <2>2. \A d \in Cameras : Held(d)' = Held(d)
    BY <1>1, <2>1 DEF Held, Lanes
  <2>3. lane[c].inFlight \in Held(c) /\ lane[c].inFlight \in Times
    BY <1>1, <2>1 DEF LaneSound, Held, Lanes
  <2>4. \A g \in Frames : g.camera \in Cameras
    BY DEF Frames
  <2>5. ASSUME NEW g \in Frames
        PROVE  (\E s \in results' : s.camera = g.camera /\ s.time = g.time)
               => g.time \in Held(g.camera) \/ \E s \in results : s.camera = g.camera /\ s.time = g.time
    BY <2>1, <2>3
  <2>6. QED BY <2>1, <2>2, <2>4, <2>5 DEF Owed, Frames
<1>5. CASE SwapPipeline
  <2>1. Owed = {}
    BY <1>5, EndedOwesNothing DEF SwapPipeline
  <2>2. \A c \in Cameras : Held(c)' = {}
    BY <1>5 DEF SwapPipeline, NewLane, Held
  <2>3. results' = {} /\ delivered' = delivered
    BY <1>5 DEF SwapPipeline
  <2>4. Owed' = {}
    BY <2>2, <2>3 DEF Owed
  <2>5. QED BY <2>1, <2>3, <2>4
<1>6. CASE EventLoop
  <2>1. CASE \E r \in results : TakeResult(r)
    BY <2>1, TakeDelivers
  <2>2. CASE ~\E r \in results : TakeResult(r)
    BY <1>2, <1>6, <2>2 DEF EventLoop, Look, ReadLane, LookAgain, ProcessResult, AdvanceCandidates,
       ApplyTimeouts, EndEvents, EventOnly
  <2>3. QED BY <2>1, <2>2
<1>7. CASE Commands
  BY <1>2, <1>5, <1>7 DEF Commands, Draining, Signal, ApplySignal, Start, BeginDraining, StopEvents, Stopped
<1>8. CASE UNCHANGED orderingVars
  BY <1>2, <1>8 DEF orderingVars
<1>9. QED
  BY <1>3, <1>4, <1>6, <1>7, <1>8, SubmitAccepts, ClearGivesUp, OrderingAssumption
  DEF OrderingNext, Commands, Lane

\* The event thread sees the frames of all cameras in one order of time, no
\* frame twice and none that a later one has overtaken: every step of lanes,
\* queue and watermark is a step of OrderedDelivery.
THEOREM DeliversSafely == OrderingSpec => Ordered!OrderSafety
<1>1. OrderingInit => Ordered!OrderInit
  <2> SUFFICES ASSUME OrderingInit PROVE Owed = {} /\ delivered \in [Cameras -> {0}]
    BY DEF Ordered!OrderInit
  <2>1. \A c \in Cameras : Held(c) = {}
    BY DEF OrderingInit, NewLane, Held
  <2>2. QED BY <2>1 DEF OrderingInit, Owed, NoTime
<1>2. IInv /\ [OrderingNext]_orderingVars => [Ordered!OrderNext]_(Ordered!orderVars)
  BY StepsImplement DEF Ordered!orderVars
<1>3. QED BY <1>1, <1>2, InvAlways, PTL DEF OrderingSpec, Ordered!OrderSafety

-----------------------------------------------------------------------------
(* The session of a camera *)

SessionSteps ==
    {"begin", "loop", "open", "connected", "starting", "startStream", "streaming", "capture",
     "failed", "thrown", "judge", "wait", "retry", "end", "completed"}

SessionThreads == [at : SessionSteps, retryable : BOOLEAN]

Reconnects == [attempts : 0 .. MaximumRecoveries, scheduled : BOOLEAN, cancelled : BOOLEAN]

SessionTypes ==
    /\ RecoveryTypeOK
    /\ thread \in SessionThreads

\* A thread in request_stop has asked the session's thread first, unless that
\* had completed.
StopIsTold ==
    /\ stopper \in {"close", "controller"} => stopping.token
    /\ stopper = "returned" =>
         \/ At("completed")
         \/ stopping.token /\ told /\ cameraState = "disconnected"
         \/ stopping.token /\ thread.at \in {"loop", "end"}

SessionInv == SessionTypes /\ StopIsTold

LEMMA GotoTypes ==
    ASSUME NEW step \in SessionSteps, Goto(step)
    PROVE  thread' \in SessionThreads /\ thread'.at = step
BY DEF Goto, SessionThreads

LEMMA FailTypes ==
    ASSUME FailWith
    PROVE  thread' \in SessionThreads
<1>1. PICK retryable \in BOOLEAN : thread' = [at |-> "failed", retryable |-> retryable]
  BY DEF FailWith
<1>2. "failed" \in SessionSteps
  BY DEF SessionSteps
<1> QED BY <1>1, <1>2 DEF SessionThreads

LEMMA FreshIsReconnect == FreshReconnect \in Reconnects
<1>1. 0 \in 0 .. MaximumRecoveries
  BY RecoveryAssumption
<1> QED BY <1>1 DEF FreshReconnect, Reconnects

LEMMA SessionInvInit == RecoveryInit => SessionInv
<1> SUFFICES ASSUME RecoveryInit PROVE SessionInv
  OBVIOUS
<1>1. reconnect \in Reconnects
  BY FreshIsReconnect DEF RecoveryInit
<1>2. thread \in SessionThreads /\ thread.retryable \in BOOLEAN
  BY DEF RecoveryInit, SessionSteps, SessionThreads
<1> QED
  BY <1>1, <1>2
     DEF RecoveryInit, SessionInv, SessionTypes, StopIsTold, RecoveryTypeOK, Reconnects,
         CameraStates

\* Where a session may go from the state it was stopped in.
LEMMA FromDisconnected ==
    ASSUME cameraState = "disconnected"
    PROVE  \A target \in CameraStates : Allowed(target) <=> target \in {"disabled", "connecting"}
BY DEF Allowed, Successors, CameraStates

\* Every state but the one it leads to allows the stop.
LEMMA StopIsAllowed ==
    ASSUME cameraState \in CameraStates, ~Allowed("disconnected")
    PROVE  cameraState = "disconnected"
BY DEF Allowed, Successors, CameraStates

LEMMA EnterTypes ==
    ASSUME SessionTypes, NEW target \in CameraStates, Enter(target)
    PROVE  cameraState' \in CameraStates /\ reconnect' \in Reconnects /\ told' \in BOOLEAN
<1>1. reconnect \in Reconnects /\ told \in BOOLEAN
  BY DEF SessionTypes, RecoveryTypeOK, Reconnects
<1>2. FreshReconnect \in Reconnects /\ Cancelled \in Reconnects
  BY <1>1, FreshIsReconnect DEF Cancelled, Reconnects
<1>3. reconnect' \in {FreshReconnect, Cancelled, reconnect}
  BY DEF Enter
<1>4. told' \in BOOLEAN
  BY <1>1 DEF Enter
<1> QED BY <1>1, <1>2, <1>3, <1>4 DEF Enter

\* A transition between two calls of the device: after the stop the state does
\* not change, unless the thread had not begun.
LEMMA AdvanceKeeps ==
    ASSUME SessionInv,
           NEW step \in SessionSteps \ {"completed"}, NEW target \in CameraStates \ {"disabled"},
           NEW next \in SessionSteps, Advance(step, target, next),
           target = "connecting" => step = "begin" /\ next = "loop",
           step \notin {"loop", "end"},
           handle' \in {"none", "connected", "acquiring"},
           UNCHANGED <<begun, stopping, stopper>>
    PROVE  SessionInv'
<1>1. thread.at = step /\ SessionTypes /\ StopIsTold
  BY DEF Advance, At, SessionInv
<1>2. CASE Allowed(target)
  <2>1. Enter(target) /\ thread' = [at |-> next, retryable |-> FALSE]
    BY <1>2 DEF Advance, Goto
  <2>2. cameraState' \in CameraStates /\ reconnect' \in Reconnects /\ told' \in BOOLEAN
    BY <1>1, <2>1, EnterTypes
  <2>3. SessionTypes'
    BY <1>1, <2>1, <2>2 DEF SessionTypes, SessionThreads, RecoveryTypeOK, Reconnects
  <2>4. stopper = "returned" => stopping.token /\ target = "connecting"
    <3>1. SUFFICES ASSUME stopper = "returned" PROVE stopping.token /\ target = "connecting"
      OBVIOUS
    <3>2. stopping.token /\ cameraState = "disconnected"
      BY <1>1, <3>1 DEF StopIsTold, At
    <3> QED BY <1>2, <3>2, FromDisconnected
  <2> QED BY <1>1, <2>1, <2>3, <2>4 DEF SessionInv, StopIsTold, At
<1>3. CASE ~Allowed(target)
  <2>1. UNCHANGED <<cameraState, reconnect, told>> /\ thread' = [at |-> "end", retryable |-> FALSE]
    BY <1>3 DEF Advance, Goto
  <2> QED
    BY <1>1, <2>1
       DEF SessionInv, SessionTypes, SessionThreads, RecoveryTypeOK, SessionSteps, StopIsTold, At
<1> QED BY <1>2, <1>3

LEMMA SessionInvNext == SessionInv /\ [RecoveryNext]_recoveryVars => SessionInv'
<1> SUFFICES ASSUME SessionInv, [RecoveryNext]_recoveryVars
             PROVE  SessionInv'
  OBVIOUS
<1>t. SessionTypes /\ StopIsTold /\ reconnect \in Reconnects
  BY DEF SessionInv, SessionTypes, SessionThreads, RecoveryTypeOK, Reconnects
\* The thread moves on, the state stays.
<1>m. ASSUME UNCHANGED <<cameraState, told, stopper, stopping>>, reconnect' \in Reconnects,
             begun' \in BOOLEAN, handle' \in {"none", "connected", "acquiring"},
             thread' \in SessionThreads,
             ~At("completed"),
             thread.at \in {"loop", "end"} => ~stopping.token \/ thread'.at = "end"
      PROVE  SessionInv'
  BY <1>m, <1>t
     DEF SessionInv, SessionTypes, SessionThreads, RecoveryTypeOK, Reconnects, StopIsTold, At
<1>1. CASE LeaveDisconnected
  <2>1. Advance("begin", "connecting", "loop") /\ UNCHANGED <<handle, begun, stopping, stopper>>
    BY <1>1 DEF LeaveDisconnected
  <2>2. handle' \in {"none", "connected", "acquiring"}
    BY <1>t, <2>1 DEF SessionTypes, RecoveryTypeOK
  <2> QED BY <2>1, <2>2, AdvanceKeeps DEF SessionSteps, CameraStates
<1>2. CASE SayConnected
  <2>1. Advance("connected", "connected", "starting") /\ UNCHANGED <<begun, stopping, stopper>>
        /\ handle' \in {"none", handle}
    BY <1>2 DEF SayConnected
  <2>2. handle' \in {"none", "connected", "acquiring"}
    BY <1>t, <2>1 DEF SessionTypes, RecoveryTypeOK
  <2> QED BY <2>1, <2>2, AdvanceKeeps DEF SessionSteps, CameraStates
<1>3. CASE SayStarting
  <2>1. Advance("starting", "starting", "startStream") /\ UNCHANGED <<begun, stopping, stopper>>
        /\ handle' \in {"none", handle}
    BY <1>3 DEF SayStarting
  <2>2. handle' \in {"none", "connected", "acquiring"}
    BY <1>t, <2>1 DEF SessionTypes, RecoveryTypeOK
  <2> QED BY <2>1, <2>2, AdvanceKeeps DEF SessionSteps, CameraStates
<1>4. CASE SayStreaming
  <2>1. Advance("streaming", "streaming", "capture") /\ UNCHANGED <<begun, stopping, stopper>>
        /\ handle' \in {"none", handle}
    BY <1>4 DEF SayStreaming
  <2>2. handle' \in {"none", "connected", "acquiring"}
    BY <1>t, <2>1 DEF SessionTypes, RecoveryTypeOK
  <2> QED BY <2>1, <2>2, AdvanceKeeps DEF SessionSteps, CameraStates
<1>5. CASE Loop
  <2>1. /\ UNCHANGED <<cameraState, reconnect, told, handle, stopping, stopper>>
        /\ thread.at = "loop" /\ begun' \in {TRUE, begun}
        /\ stopping.token => Goto("end")
        /\ ~stopping.token => Goto("open")
    BY <1>5 DEF Loop, At
  <2>2. thread' \in SessionThreads /\ (stopping.token => thread'.at = "end")
    <3>1. "end" \in SessionSteps /\ "open" \in SessionSteps
      BY DEF SessionSteps
    <3> QED BY <2>1, <3>1, GotoTypes
  <2> QED BY <1>t, <1>m, <2>1, <2>2 DEF SessionTypes, RecoveryTypeOK, At
<1>6. CASE Open \/ StartStream \/ StreamEnds \/ Throw
  <2>g. {"connected", "streaming", "end", "thrown"} \subseteq SessionSteps
    BY DEF SessionSteps
  <2>1. /\ UNCHANGED <<cameraState, reconnect, told, begun, stopping, stopper>>
        /\ handle' \in {"none", "connected", "acquiring"}
        /\ thread' \in SessionThreads
        /\ thread.at \in {"open", "startStream", "capture"}
    <3>1. CASE Open
      BY <3>1, <2>g, FailTypes, GotoTypes DEF Open, At
    <3>2. CASE StartStream
      BY <3>2, <2>g, FailTypes, GotoTypes DEF StartStream, At
    <3>3. CASE StreamEnds
      BY <3>3, <2>g, FailTypes, GotoTypes DEF StreamEnds, At
    <3>4. CASE Throw
      BY <3>4, <2>g DEF Throw, SessionThreads
    <3> QED BY <1>6, <3>1, <3>2, <3>3, <3>4
  <2> QED BY <1>t, <1>m, <2>1 DEF SessionTypes, RecoveryTypeOK, At
<1>7. CASE Handle
  <2>1. /\ thread.at \in {"failed", "thrown"} /\ UNCHANGED <<told, handle, begun, stopping, stopper>>
        /\ thread' \in SessionThreads
    BY <1>7 DEF Handle, Goto, SessionSteps, SessionThreads
  <2>2. FailureTarget \in {"recovering", "faulted"}
    BY DEF FailureTarget
  <2>3. CASE Allowed(FailureTarget)
    <3>1. /\ cameraState' = FailureTarget
          /\ reconnect' = IF FailureTarget = "recovering" THEN Scheduled ELSE reconnect
      BY <1>7, <2>3 DEF Handle
    <3>2. cameraState' \in CameraStates
      BY <2>2, <3>1 DEF CameraStates
    <3>3. reconnect' \in Reconnects
      <4>1. CASE FailureTarget = "recovering"
        <5>1. MaySchedule
          BY <2>3, <4>1 DEF FailureTarget
        <5>2. CASE reconnect.scheduled
          BY <1>t, <3>1, <4>1, <5>2 DEF Scheduled
        <5>3. CASE ~reconnect.scheduled
          <6>1. reconnect.attempts + 1 \in 0 .. MaximumRecoveries
            BY <1>t, <5>1, <5>3, RecoveryAssumption DEF MaySchedule, Reconnects
          <6> QED BY <3>1, <4>1, <5>3, <6>1 DEF Scheduled, Reconnects
        <5> QED BY <5>2, <5>3
      <4>2. CASE FailureTarget # "recovering"
        BY <1>t, <3>1, <4>2
      <4> QED BY <4>1, <4>2
    <3>4. stopper # "returned"
      <4>1. SUFFICES ASSUME stopper = "returned" PROVE FALSE
        OBVIOUS
      <4>2. cameraState = "disconnected"
        BY <1>t, <2>1, <4>1 DEF StopIsTold, At
      <4> QED BY <2>2, <2>3, <4>2, FromDisconnected DEF CameraStates
    <3> QED
      BY <1>t, <2>1, <3>2, <3>3, <3>4
         DEF SessionInv, SessionTypes, SessionThreads, RecoveryTypeOK, Reconnects, StopIsTold, At
  <2>4. CASE ~Allowed(FailureTarget)
    <3>1. UNCHANGED <<cameraState, reconnect>>
      BY <1>7, <2>4 DEF Handle
    <3> QED BY <1>t, <1>m, <2>1, <3>1 DEF SessionTypes, RecoveryTypeOK, At
  <2> QED BY <2>3, <2>4
<1>8. CASE Judge
  <2>1. /\ UNCHANGED <<cameraState, reconnect, told, handle, begun, stopping, stopper>>
        /\ thread.at = "judge" /\ thread' \in SessionThreads
    BY <1>8 DEF Judge, Goto, At, SessionSteps, SessionThreads
  <2> QED BY <1>t, <1>m, <2>1 DEF SessionTypes, RecoveryTypeOK, At
<1>9. CASE Wait
  <2>g. {"retry", "end"} \subseteq SessionSteps
    BY DEF SessionSteps
  <2>1. /\ UNCHANGED <<cameraState, told, handle, begun, stopping, stopper>>
        /\ thread.at = "wait" /\ thread' \in SessionThreads
        /\ reconnect' \in {reconnect, [reconnect EXCEPT !.scheduled = FALSE]}
    <3>1. CASE WaitReady
      BY <1>9, <2>g, <3>1, GotoTypes DEF Wait, At
    <3>2. CASE ~WaitReady
      BY <1>9, <2>g, <3>2, GotoTypes DEF Wait, At
    <3> QED BY <3>1, <3>2
  <2>2. reconnect' \in Reconnects
    BY <1>t, <2>1 DEF Reconnects
  <2> QED BY <1>t, <1>m, <2>1, <2>2 DEF SessionTypes, RecoveryTypeOK, At
<1>10. CASE Retry
  <2>g. {"loop", "end"} \subseteq SessionSteps
    BY DEF SessionSteps
  <2>1. /\ thread.at = "retry" /\ UNCHANGED <<handle, begun, stopping, stopper>>
        /\ thread' \in SessionThreads
    <3>1. CASE MayRetry
      BY <1>10, <2>g, <3>1, GotoTypes DEF Retry, At
    <3>2. CASE ~MayRetry
      BY <1>10, <2>g, <3>2, GotoTypes DEF Retry, At
    <3> QED BY <3>1, <3>2
  <2>2. CASE MayRetry
    <3>1. Enter("connecting")
      BY <1>10, <2>2 DEF Retry
    <3>2. cameraState' \in CameraStates /\ reconnect' \in Reconnects /\ told' \in BOOLEAN
      BY <1>t, <3>1, EnterTypes DEF CameraStates
    <3>3. stopper # "returned"
      BY <1>t, <2>1, <2>2 DEF StopIsTold, At, MayRetry
    <3> QED
      BY <1>t, <2>1, <3>2, <3>3
         DEF SessionInv, SessionTypes, SessionThreads, RecoveryTypeOK, Reconnects, StopIsTold
  <2>3. CASE ~MayRetry
    <3>1. UNCHANGED <<cameraState, reconnect, told>>
      BY <1>10, <2>3 DEF Retry
    <3> QED BY <1>t, <1>m, <2>1, <3>1 DEF SessionTypes, RecoveryTypeOK, At
  <2> QED BY <2>2, <2>3
<1>11. CASE End
  <2>1. /\ thread' = [at |-> "completed", retryable |-> FALSE]
        /\ stopping' = [stopping EXCEPT !.closed = TRUE]
        /\ UNCHANGED <<cameraState, reconnect, told, handle, begun, stopper>>
    BY <1>11 DEF End, Goto
  <2>2. stopping' \in [token : BOOLEAN, closed : BOOLEAN] /\ stopping'.token = stopping.token
    BY <1>t, <2>1 DEF SessionTypes, RecoveryTypeOK
  <2> QED
    BY <1>t, <2>1, <2>2
       DEF SessionInv, SessionTypes, SessionThreads, RecoveryTypeOK, SessionSteps, StopIsTold, At
<1>12. CASE AskThread \/ CloseQueue
  <2>1. UNCHANGED <<cameraState, reconnect, told, handle, thread, begun>>
    BY <1>12 DEF AskThread, CloseQueue
  <2>2. /\ stopping' \in [token : BOOLEAN, closed : BOOLEAN]
        /\ stopping.token => stopping'.token
        /\ stopper' \in {"close", "controller"} => stopping'.token
        /\ stopper' = "returned" => At("completed")
        /\ stopper' \in {"close", "controller", "returned"}
    BY <1>12, <1>t DEF AskThread, CloseQueue, SessionTypes, RecoveryTypeOK, StopIsTold
  <2> QED
    BY <1>t, <2>1, <2>2
       DEF SessionInv, SessionTypes, SessionThreads, RecoveryTypeOK, StopIsTold, At
<1>13. CASE AskController
  <2>1. /\ stopper = "controller" /\ stopper' = "returned" /\ told' = TRUE
        /\ reconnect' \in {FreshReconnect, Cancelled}
        /\ UNCHANGED <<handle, thread, begun, stopping>>
    BY <1>13 DEF AskController
  <2>2. cameraState' = "disconnected"
    BY <1>13, <1>t, StopIsAllowed DEF AskController, SessionTypes, RecoveryTypeOK
  <2>3. reconnect' \in Reconnects
    BY <1>t, <2>1, FreshIsReconnect DEF Cancelled, Reconnects
  <2> QED
    BY <1>t, <2>1, <2>2, <2>3
       DEF SessionInv, SessionTypes, SessionThreads, RecoveryTypeOK, Reconnects, CameraStates, StopIsTold, At
<1>14. CASE UNCHANGED recoveryVars
  BY <1>14, <1>t
     DEF recoveryVars, SessionInv, SessionTypes, RecoveryTypeOK, StopIsTold, At
<1> QED
  BY <1>1, <1>2, <1>3, <1>4, <1>5, <1>6, <1>7, <1>8, <1>9, <1>10, <1>11, <1>12, <1>13, <1>14
     DEF RecoveryNext

LEMMA SessionInvAlways == RecoverySpec => []SessionInv
BY SessionInvInit, SessionInvNext, PTL DEF RecoverySpec

\* The state of a camera, its reconnect controller - never more attempts than
\* ReconnectPolicy::maximum_attempts - and the two threads are of their types.
THEOREM RecoveryTypesAlways == RecoverySpec => []RecoveryTypeOK
<1>1. SessionInv => RecoveryTypeOK
  BY DEF SessionInv, SessionTypes
<1> QED BY <1>1, SessionInvAlways, PTL

\* Once request_stop has returned, the thread takes the camera's state nowhere
\* any more, wherever the stop found it (RecoveringCameraSession::request_stop,
\* CameraSessionController::wait_for_retry), for any number of attempts; the
\* one exception is a stop before the thread's first transition.
THEOREM StopIsFinalAlways == RecoverySpec => StopIsFinal
<1> DEFINE Final == stopper = "returned" /\ cameraState' # cameraState => At("begin")
<1>1. SessionInv /\ [RecoveryNext]_recoveryVars => [Final]_recoveryVars
  <2> SUFFICES ASSUME SessionInv, RecoveryNext, stopper = "returned",
                      cameraState' # cameraState
               PROVE  At("begin")
    OBVIOUS
  <2>1. SessionTypes /\ StopIsTold
    BY DEF SessionInv
  <2>2. SayConnected \/ SayStarting \/ SayStreaming \/ LeaveDisconnected \/ Handle \/ Retry
    BY DEF RecoveryNext, Loop, Open, StartStream, StreamEnds, Throw, Judge, Wait, End,
           AskThread, CloseQueue, AskController
  <2>3. ~(At("completed") \/ thread.at \in {"loop", "end"})
    BY <2>2
       DEF SayConnected, SayStarting, SayStreaming, LeaveDisconnected, Advance, Handle, Retry, At
  <2>4. told /\ cameraState = "disconnected"
    BY <2>1, <2>3 DEF StopIsTold
  <2>5. ~SayConnected /\ ~SayStarting /\ ~SayStreaming
    <3>1. ~Allowed("connected") /\ ~Allowed("starting") /\ ~Allowed("streaming")
      BY <2>4, FromDisconnected DEF CameraStates
    <3> QED BY <3>1 DEF SayConnected, SayStarting, SayStreaming, Advance
  <2>6. ~Handle
    <3>1. ~Allowed(FailureTarget)
      BY <2>4, FromDisconnected DEF FailureTarget, CameraStates
    <3> QED BY <3>1 DEF Handle
  <2>7. ~Retry
    BY <2>4 DEF Retry, MayRetry
  <2> QED BY <2>2, <2>5, <2>6, <2>7 DEF LeaveDisconnected, Advance
<1> QED BY <1>1, SessionInvAlways, PTL DEF RecoverySpec, StopIsFinal

-----------------------------------------------------------------------------
(* The control of a camera. *)

Threads == {"none", "running", "ended"}

StreamSteps == {"halted", "apply", "applied", "refused"}

CommandSteps == {"none", "begin", "joining"} \cup StreamSteps

ControlTypes ==
    /\ session \in [device : BOOLEAN, state : States, capabilities : BOOLEAN, actual : Parameters]
    /\ device \in [streaming : BOOLEAN, faulted : BOOLEAN, nodes : Parameters]
    /\ worker \in [state : Threads, stop : BOOLEAN, capturing : BOOLEAN, number : Nat]
    /\ queue \in [frames : Seq(Nat), closed : BOOLEAN]
    /\ forwarder \in [state : Threads, frame : Nat]
    /\ command \in [op : Operations \cup {"none"}, step : CommandSteps, then : Seq(Operations),
                    target : Values, resume : BOOLEAN, joined : BOOLEAN]

Delivering == worker.state = "running" \/ forwarder.state = "running"

\* Delivery runs only on a stream of a camera that counts as acquiring, and
\* never behind the step of a command that touches the stream; a frame is in
\* the hand of a forwarder that runs.
DeliveryHasStream ==
    /\ Delivering => session.device /\ device.streaming /\ session.state = "acquiring"
    /\ forwarder.frame # NoFrame => forwarder.state = "running"

CommandHolds ==
    /\ command.step \in StreamSteps => ~Delivering /\ session.device
    /\ command.step = "joining" => session.device
    /\ command.step \in {"joining", "halted"} /\ command.op = "update"
         => session.state = "acquiring"

ControlInv == ControlTypes /\ DeliveryHasStream /\ CommandHolds /\ ShownIsActual

USE CameraAssumption

LEMMA UniformTypes == ASSUME NEW v \in Values PROVE Uniform(v) \in Parameters
BY DEF Uniform, Parameters

\* A command that ends leaves the next one at its beginning.
LEMMA BeginCommand ==
    ASSUME NEW op \in Operations, NEW then \in Seq(Operations), NEW target \in Values,
           Begin(op, then, target)
    PROVE  /\ command' \in [op : Operations \cup {"none"}, step : CommandSteps, then : Seq(Operations),
                            target : Values, resume : BOOLEAN, joined : BOOLEAN]
           /\ command'.step = "begin"
<1>1. PICK c : /\ c = [NoCommand EXCEPT !.op = op, !.step = "begin", !.then = then, !.target = target]
               /\ command' = c
  BY DEF Begin
<1>2. c = [op |-> op, step |-> "begin", then |-> then, target |-> target, resume |-> FALSE, joined |-> TRUE]
  BY <1>1 DEF NoCommand
<1>3. c.step = "begin"
  BY <1>2
<1>4. c \in [op : Operations \cup {"none"}, step : CommandSteps, then : Seq(Operations),
             target : Values, resume : BOOLEAN, joined : BOOLEAN]
  BY <1>2 DEF CommandSteps, StreamSteps
<1> QED BY <1>1, <1>3, <1>4

CommandOver ==
    /\ command' \in [op : Operations \cup {"none"}, step : CommandSteps, then : Seq(Operations),
                     target : Values, resume : BOOLEAN, joined : BOOLEAN]
    /\ command'.step \in {"begin", "none"}

LEMMA NoCommandOver == ASSUME command' = NoCommand PROVE CommandOver
<1>1. <<>> \in Seq(Operations) /\ Configured \in Values
  OBVIOUS
<1>2. NoCommand \in [op : Operations \cup {"none"}, step : CommandSteps, then : Seq(Operations),
                     target : Values, resume : BOOLEAN, joined : BOOLEAN]
  BY <1>1 DEF NoCommand, CommandSteps, StreamSteps
<1>3. NoCommand.step = "none"
  BY DEF NoCommand
<1> QED BY <1>2, <1>3 DEF CommandOver

LEMMA StartSlotOver == ASSUME StartSlot PROVE CommandOver
<1>1. <<"update", "start">> \in Seq(Operations) /\ "connect" \in Operations /\ Configured \in Values
  BY DEF Operations
<1> QED BY <1>1, BeginCommand DEF StartSlot, CommandOver

LEMMA RetryOver == ASSUME RetryStartup PROVE CommandOver
BY StartSlotOver, NoCommandOver DEF RetryStartup

LEMMA FailOver == ASSUME Fail PROVE CommandOver
<1>1. <<>> \in Seq(Operations) /\ "disconnect" \in Operations
  BY DEF Operations
<1>2. CASE phase = "starting" /\ command.op = "disconnect"
  <2>1. RetryStartup
    BY <1>2 DEF Fail
  <2> QED BY <2>1, RetryOver
<1>3. CASE phase = "starting" /\ command.op # "disconnect"
  <2>1. Begin("disconnect", <<>>, Configured)
    BY <1>3 DEF Fail
  <2> QED BY <1>1, <2>1, BeginCommand DEF CommandOver
<1>4. CASE phase # "starting"
  <2>1. command' = NoCommand
    BY <1>4 DEF Fail
  <2> QED BY <2>1, NoCommandOver
<1> QED BY <1>2, <1>3, <1>4

LEMMA SucceedOver == ASSUME ControlTypes, Succeed PROVE CommandOver
<1>1. CASE command.then # <<>>
  <2>1. Begin(Head(command.then), Tail(command.then), command.target)
    BY <1>1 DEF Succeed
  <2>2. Head(command.then) \in Operations /\ Tail(command.then) \in Seq(Operations)
    BY <1>1 DEF ControlTypes
  <2>3. command.target \in Values
    BY DEF ControlTypes
  <2> QED BY <2>1, <2>2, <2>3, BeginCommand DEF CommandOver
<1>2. CASE command.then = <<>>
  <2>1. CASE phase = "starting" /\ command.op = "disconnect"
    <3>1. RetryStartup
      BY <1>2, <2>1 DEF Succeed
    <3> QED BY <3>1, RetryOver
  <2>2. CASE ~(phase = "starting" /\ command.op = "disconnect")
    <3>1. command' = NoCommand
      BY <1>2, <2>2 DEF Succeed
    <3> QED BY <3>1, NoCommandOver
  <2> QED BY <2>1, <2>2
<1> QED BY <1>1, <1>2

LEMMA ProceedTo ==
    ASSUME ControlTypes, NEW step \in CommandSteps, Proceed(step)
    PROVE  /\ command' \in [op : Operations \cup {"none"}, step : CommandSteps, then : Seq(Operations),
                            target : Values, resume : BOOLEAN, joined : BOOLEAN]
           /\ command'.step = step /\ command'.op = command.op
           /\ command'.target = command.target
BY DEF ControlTypes, Proceed


LEMMA ControlInvInit == CameraInit => ControlInv
<1> SUFFICES ASSUME CameraInit PROVE ControlInv
  OBVIOUS
<1>1. PICK c : /\ c = [NoCommand EXCEPT !.op = "connect", !.step = "begin", !.then = <<"update", "start">>]
               /\ command = c
  BY DEF CameraInit
<1>2. c = [op |-> "connect", step |-> "begin", then |-> <<"update", "start">>, target |-> Configured,
           resume |-> FALSE, joined |-> TRUE]
  BY <1>1 DEF NoCommand
<1>3. c.step = "begin"
  BY <1>2
<1>4. <<"update", "start">> \in Seq(Operations)
  BY DEF Operations
<1>5. command \in [op : Operations \cup {"none"}, step : CommandSteps, then : Seq(Operations),
                   target : Values, resume : BOOLEAN, joined : BOOLEAN]
  <2>1. "connect" \in Operations /\ "begin" \in CommandSteps /\ Configured \in Values
    BY DEF Operations, CommandSteps, StreamSteps
  <2>2. PICK t \in Seq(Operations) : t = <<"update", "start">>
    BY <1>4
  <2>3. c = [op |-> "connect", step |-> "begin", then |-> t, target |-> Configured,
             resume |-> FALSE, joined |-> TRUE]
    BY <1>2, <2>2
  <2>4. c \in [op : Operations \cup {"none"}, step : CommandSteps, then : Seq(Operations),
               target : Values, resume : BOOLEAN, joined : BOOLEAN]
    BY <2>1, <2>2, <2>3
  <2> QED BY <1>1, <2>4
<1>6. /\ session \in [device : BOOLEAN, state : States, capabilities : BOOLEAN, actual : Parameters]
      /\ device \in [streaming : BOOLEAN, faulted : BOOLEAN, nodes : Parameters]
      /\ ~session.device
  BY UniformTypes DEF CameraInit, CameraUnused, States
<1>7. /\ worker \in [state : Threads, stop : BOOLEAN, capturing : BOOLEAN, number : Nat]
      /\ queue \in [frames : Seq(Nat), closed : BOOLEAN]
      /\ forwarder \in [state : Threads, frame : Nat]
      /\ worker.state = "none" /\ forwarder.state = "none" /\ forwarder.frame = NoFrame
  BY DEF CameraInit, CameraUnused, NoWorker, NoForwarder, NoFrame, Threads
<1> QED
  BY <1>1, <1>3, <1>5, <1>6, <1>7
     DEF ControlInv, ControlTypes, DeliveryHasStream, Delivering, CommandHolds, StreamSteps, ShownIsActual

Workers == [state : Threads, stop : BOOLEAN, capturing : BOOLEAN, number : Nat]

LEMMA EndedWorker ==
    ASSUME NEW w \in Workers PROVE Ended(w) \in Workers /\ Ended(w).state = "ended"
<1>1. PICK e : e = [w EXCEPT !.state = "ended", !.capturing = FALSE]
  OBVIOUS
<1>2. e = [state |-> "ended", stop |-> w.stop, capturing |-> FALSE, number |-> w.number]
  BY <1>1 DEF Workers
<1>3. Ended(w) = e
  BY <1>1 DEF Ended
<1> QED BY <1>2, <1>3 DEF Workers, Threads

\* The worker and the forwarder touch neither the session nor the device.
LEMMA StreamKeepsInv == ControlInv /\ (Worker \/ Forwarder) => ControlInv'
<1> SUFFICES ASSUME ControlInv, Worker \/ Forwarder PROVE ControlInv'
  OBVIOUS
<1>t. ControlTypes /\ DeliveryHasStream /\ CommandHolds /\ ShownIsActual
  BY DEF ControlInv
<1>u. UNCHANGED <<session, device, command>>
  BY DEF Worker, TakeBuffer, EndWorker, Capture, CaptureTimesOut, CaptureFails,
         Forwarder, TakeQueued, Observe, EndForwarder
<1>1. /\ worker' \in [state : Threads, stop : BOOLEAN, capturing : BOOLEAN, number : Nat]
      /\ worker'.state = "running" => worker.state = "running"
  <2>1. CASE TakeBuffer \/ EndWorker \/ CaptureTimesOut \/ CaptureFails
    <3>1. worker \in Workers
      BY <1>t DEF ControlTypes, Workers
    <3>2. CASE TakeBuffer \/ CaptureTimesOut
      BY <3>1, <3>2 DEF TakeBuffer, CaptureTimesOut, Workers
    <3>3. CASE EndWorker \/ CaptureFails
      <4>1. worker' = Ended(worker)
        BY <3>3 DEF EndWorker, CaptureFails
      <4> QED BY <3>1, <4>1, EndedWorker DEF Workers
    <3> QED BY <2>1, <3>2, <3>3
  <2>2. CASE Capture
    <3>1. PICK w : /\ w = [worker EXCEPT !.number = worker.number + 1]
                   /\ worker' \in {Ended(w), [worker EXCEPT !.number = worker.number + 1, !.capturing = FALSE]}
      BY <2>2 DEF Capture
    <3>n. worker \in Workers /\ worker.number + 1 \in Nat
      BY <1>t DEF ControlTypes, Workers
    <3>2. w \in Workers /\ w.state = worker.state
      BY <3>1, <3>n DEF Workers
    <3>3. CASE worker' = Ended(w)
      BY <3>2, <3>3, EndedWorker DEF Workers
    <3>4. CASE worker' = [worker EXCEPT !.number = worker.number + 1, !.capturing = FALSE]
      <4>1. worker' = [state |-> worker.state, stop |-> worker.stop, capturing |-> FALSE,
                       number |-> worker.number + 1]
        BY <3>n, <3>4 DEF Workers
      <4> QED BY <3>n, <4>1 DEF Workers
    <3> QED BY <3>1, <3>3, <3>4
  <2>3. CASE Forwarder
    BY <1>t, <2>3 DEF Forwarder, TakeQueued, Observe, EndForwarder, ControlTypes
  <2> QED BY <2>1, <2>2, <2>3 DEF Worker
<1>2. queue' \in [frames : Seq(Nat), closed : BOOLEAN]
  <2>1. CASE Capture
    <3>1. CASE queue.closed
      BY <1>t, <2>1, <3>1 DEF Capture, ControlTypes
    <3>2. CASE ~queue.closed
      <4>1. queue' = [queue EXCEPT !.frames = Enqueued(queue.frames, worker.number + 1)]
        BY <2>1, <3>2 DEF Capture
      <4>2. queue.frames \in Seq(Nat) /\ worker.number + 1 \in Nat
        BY <1>t DEF ControlTypes
      <4>3. Len(queue.frames) = QueueCapacity => Tail(queue.frames) \in Seq(Nat)
        BY <4>2
      <4>4. Enqueued(queue.frames, worker.number + 1) \in Seq(Nat)
        BY <4>2, <4>3 DEF Enqueued
      <4> QED BY <1>t, <4>1, <4>4 DEF ControlTypes
    <3> QED BY <3>1, <3>2
  <2>2. CASE TakeQueued
    <3>1. queue' = [queue EXCEPT !.frames = Tail(queue.frames)] /\ queue.frames # <<>>
      BY <2>2 DEF TakeQueued
    <3>2. Tail(queue.frames) \in Seq(Nat)
      BY <1>t, <3>1 DEF ControlTypes
    <3> QED BY <1>t, <3>1, <3>2 DEF ControlTypes
  <2>3. CASE ~Capture /\ ~TakeQueued
    BY <1>t, <2>3 DEF Worker, TakeBuffer, EndWorker, CaptureTimesOut, CaptureFails,
         Forwarder, Observe, EndForwarder, ControlTypes
  <2> QED BY <2>1, <2>2, <2>3
<1>3. /\ forwarder' \in [state : Threads, frame : Nat]
      /\ forwarder'.state = "running" => forwarder.state = "running"
      /\ forwarder'.frame # NoFrame => forwarder'.state = "running"
  <2>1. CASE Worker
    BY <1>t, <2>1 DEF Worker, TakeBuffer, EndWorker, Capture, CaptureTimesOut, CaptureFails,
         ControlTypes, DeliveryHasStream
  <2>2. CASE TakeQueued
    <3>1. Head(queue.frames) \in Nat
      BY <1>t, <2>2 DEF TakeQueued, ControlTypes
    <3> QED BY <1>t, <2>2, <3>1 DEF TakeQueued, ControlTypes
  <2>3. CASE Observe \/ EndForwarder
    BY <1>t, <2>3 DEF Observe, EndForwarder, ControlTypes, NoFrame, Threads
  <2> QED BY <2>1, <2>2, <2>3 DEF Forwarder
<1>4. ControlTypes'
  BY <1>t, <1>u, <1>1, <1>2, <1>3 DEF ControlTypes
<1>5. DeliveryHasStream' /\ CommandHolds' /\ ShownIsActual'
  BY <1>t, <1>u, <1>1, <1>3 DEF DeliveryHasStream, Delivering, CommandHolds, ShownIsActual
<1> QED BY <1>4, <1>5 DEF ControlInv

LEMMA DeliveryStarts ==
    ASSUME DeliveryStarted
    PROVE  /\ worker' \in Workers
           /\ queue' \in [frames : Seq(Nat), closed : BOOLEAN]
           /\ forwarder' \in [state : Threads, frame : Nat]
           /\ forwarder'.frame = NoFrame
<1>1. worker' \in Workers
  BY DEF DeliveryStarted, FreshWorker, NoWorker, Workers, Threads
<1>2. /\ forwarder' \in [state : Threads, frame : Nat]
      /\ forwarder'.frame = NoFrame
  BY DEF DeliveryStarted, NoForwarder, NoFrame, Threads
<1>3. queue' \in [frames : Seq(Nat), closed : BOOLEAN]
  BY DEF DeliveryStarted
<1> QED BY <1>1, <1>2, <1>3

LEMMA DeliveryStops ==
    ASSUME DeliveryReset
    PROVE  /\ worker' \in Workers
           /\ queue' \in [frames : Seq(Nat), closed : BOOLEAN]
           /\ forwarder' \in [state : Threads, frame : Nat]
           /\ forwarder'.frame = NoFrame /\ ~Delivering'
<1>1. worker' \in Workers /\ worker'.state # "running"
  BY DEF DeliveryReset, NoWorker, Workers, Threads
<1>2. /\ forwarder' \in [state : Threads, frame : Nat]
      /\ forwarder'.frame = NoFrame /\ forwarder'.state # "running"
  BY DEF DeliveryReset, NoForwarder, NoFrame, Threads
<1>3. queue' \in [frames : Seq(Nat), closed : BOOLEAN]
  BY DEF DeliveryReset
<1> QED BY <1>1, <1>2, <1>3 DEF Delivering

\* What a command that is over leaves: everything but the session and the
\* device as the next command expects it.
LEMMA OverKeepsInv ==
    ASSUME CommandOver,
           /\ session' \in [device : BOOLEAN, state : States, capabilities : BOOLEAN, actual : Parameters]
           /\ device' \in [streaming : BOOLEAN, faulted : BOOLEAN, nodes : Parameters],
           /\ worker' \in Workers
           /\ queue' \in [frames : Seq(Nat), closed : BOOLEAN]
           /\ forwarder' \in [state : Threads, frame : Nat],
           DeliveryHasStream', ShownIsActual'
    PROVE  ControlInv'
<1>1. CommandHolds'
  BY DEF CommandOver, CommandHolds, StreamSteps
<1>2. ControlTypes'
  BY DEF CommandOver, ControlTypes, Workers
<1> QED BY <1>1, <1>2 DEF ControlInv

LEMMA RefusalsKeepInv ==
    ASSUME ControlInv, CommandOver, UNCHANGED <<session, device, worker, queue, forwarder>>
    PROVE  ControlInv'
<1>1. ControlTypes /\ DeliveryHasStream /\ ShownIsActual
  BY DEF ControlInv
<1>2. DeliveryHasStream' /\ ShownIsActual'
  BY <1>1 DEF DeliveryHasStream, Delivering, ShownIsActual
<1> QED BY <1>1, <1>2, OverKeepsInv DEF ControlTypes, Workers

\* Commands that find nothing to do or are refused.
NothingDone ==
    \/ ConnectedAlready \/ ConnectFails \/ NeedsDevice \/ UpdateEnds \/ StartedAlready
    \/ StartRefused \/ StoppedAlready \/ DisconnectedAlready

LEMMA NothingDoneKeepsInv == ControlInv /\ NothingDone => ControlInv'
<1> SUFFICES ASSUME ControlInv, NothingDone PROVE ControlInv'
  OBVIOUS
<1>1. UNCHANGED <<session, device, worker, queue, forwarder>>
  BY DEF NothingDone, ConnectedAlready, ConnectFails, NeedsDevice, UpdateEnds, StartedAlready,
         StartRefused, StoppedAlready, DisconnectedAlready, deliveryVars
<1>2. Fail \/ Succeed
  BY DEF NothingDone, ConnectedAlready, ConnectFails, NeedsDevice, UpdateEnds, StartedAlready,
         StartRefused, StoppedAlready, DisconnectedAlready
<1>3. CommandOver
  BY <1>2, FailOver, SucceedOver DEF ControlInv
<1> QED BY <1>1, <1>3, RefusalsKeepInv

LEMMA OperatorKeepsInv == ControlInv /\ (Operator \/ Shutdown \/ JoinTimesOut) => ControlInv'
<1> SUFFICES ASSUME ControlInv, Operator \/ Shutdown \/ JoinTimesOut PROVE ControlInv'
  OBVIOUS
<1>t. ControlTypes /\ DeliveryHasStream /\ CommandHolds /\ ShownIsActual
  BY DEF ControlInv
<1>u. UNCHANGED <<session, device, worker, queue, forwarder>>
  BY DEF Operator, Request, SnapshotWithoutDevice, Shutdown, JoinTimesOut, deliveryVars
<1>1. CASE \E op \in Operations, target \in Values : Request(op, target)
  <2>1. PICK op \in Operations, target \in Values : Request(op, target)
    BY <1>1
  <2>2. <<"update">> \in Seq(Operations) /\ <<>> \in Seq(Operations)
    BY DEF Operations
  <2>3. PICK then \in Seq(Operations) : Begin(op, then, target)
    BY <2>1, <2>2 DEF Request
  <2>4. CommandOver
    BY <2>3, BeginCommand DEF CommandOver
  <2> QED BY <1>u, <2>4, RefusalsKeepInv
<1>2. CASE Shutdown
  <2>1. Begin("disconnect", <<>>, Configured) /\ "disconnect" \in Operations /\ <<>> \in Seq(Operations)
    BY <1>2 DEF Shutdown, Operations
  <2>2. CommandOver
    BY <2>1, BeginCommand DEF CommandOver
  <2> QED BY <1>u, <2>2, RefusalsKeepInv
<1>3. CASE SnapshotWithoutDevice \/ JoinTimesOut
  <2>1. /\ command' \in [op : Operations \cup {"none"}, step : CommandSteps, then : Seq(Operations),
                          target : Values, resume : BOOLEAN, joined : BOOLEAN]
        /\ command'.step = command.step /\ command'.op = command.op
    BY <1>t, <1>3 DEF SnapshotWithoutDevice, JoinTimesOut, ControlTypes
  <2>2. ControlTypes'
    BY <1>t, <1>u, <2>1 DEF ControlTypes
  <2>3. DeliveryHasStream' /\ CommandHolds' /\ ShownIsActual'
    BY <1>t, <1>u, <2>1 DEF DeliveryHasStream, Delivering, CommandHolds, ShownIsActual
  <2> QED BY <2>2, <2>3 DEF ControlInv
<1> QED BY <1>1, <1>2, <1>3 DEF Operator

\* Waiting for the worker and the forwarder.
LEMMA WaitingKeepsInv == ControlInv /\ (HaltDelivery \/ Joined) => ControlInv'
<1> SUFFICES ASSUME ControlInv, HaltDelivery \/ Joined PROVE ControlInv'
  OBVIOUS
<1>t. ControlTypes /\ DeliveryHasStream /\ CommandHolds /\ ShownIsActual
  BY DEF ControlInv
<1>1. CASE HaltDelivery
  <2>1. /\ UNCHANGED <<session, device, forwarder>> /\ session.device
        /\ worker' \in Workers /\ worker'.state = worker.state
        /\ queue' \in [frames : Seq(Nat), closed : BOOLEAN]
    BY <1>1, <1>t DEF HaltDelivery, ControlTypes, Workers
  <2>2. "joining" \in CommandSteps
    BY DEF CommandSteps
  <2>3. /\ command' \in [op : Operations \cup {"none"}, step : CommandSteps, then : Seq(Operations),
                          target : Values, resume : BOOLEAN, joined : BOOLEAN]
        /\ command'.step = "joining" /\ command'.op = command.op
    BY <1>1, <1>t, <2>2, ProceedTo DEF HaltDelivery
  <2>4. command.op = "update" => session.state = "acquiring"
    BY <1>1 DEF HaltDelivery
  <2>5. ControlTypes'
    BY <1>t, <2>1, <2>3 DEF ControlTypes, Workers
  <2>6. DeliveryHasStream' /\ CommandHolds' /\ ShownIsActual'
    BY <1>t, <2>1, <2>3, <2>4
       DEF DeliveryHasStream, Delivering, CommandHolds, StreamSteps, ShownIsActual
  <2> QED BY <2>5, <2>6 DEF ControlInv
<1>2. CASE Joined
  <2>1. DeliveryReset /\ UNCHANGED <<session, device>> /\ command.step = "joining"
    BY <1>2 DEF Joined
  <2>2. DeliveryHasStream' /\ ShownIsActual'
    BY <1>t, <2>1, DeliveryStops DEF DeliveryHasStream, ShownIsActual
  <2>3. CASE command.joined
    <3>1. Proceed("halted") /\ "halted" \in CommandSteps
      BY <1>2, <2>3 DEF Joined, CommandSteps, StreamSteps
    <3>2. /\ command' \in [op : Operations \cup {"none"}, step : CommandSteps, then : Seq(Operations),
                            target : Values, resume : BOOLEAN, joined : BOOLEAN]
          /\ command'.step = "halted" /\ command'.op = command.op
      BY <1>t, <3>1, ProceedTo
    <3>3. CommandHolds'
      BY <1>t, <2>1, <3>2, DeliveryStops DEF CommandHolds
    <3>4. ControlTypes'
      BY <1>t, <2>1, <3>2, DeliveryStops DEF ControlTypes, Workers
    <3> QED BY <2>2, <3>3, <3>4 DEF ControlInv
  <2>4. CASE ~command.joined
    <3>1. CommandOver
      BY <1>2, <2>4, FailOver DEF Joined
    <3> QED BY <1>t, <2>1, <2>2, <3>1, DeliveryStops, OverKeepsInv DEF ControlTypes
  <2> QED BY <2>3, <2>4
<1> QED BY <1>1, <1>2

Sessions == [device : BOOLEAN, state : States, capabilities : BOOLEAN, actual : Parameters]

Devices == [streaming : BOOLEAN, faulted : BOOLEAN, nodes : Parameters]

LEMMA ConnectKeepsInv == ControlInv /\ Connect => ControlInv'
<1> SUFFICES ASSUME ControlInv, Connect PROVE ControlInv'
  OBVIOUS
<1>t. ControlTypes /\ DeliveryHasStream /\ CommandHolds /\ ShownIsActual
  BY DEF ControlInv
<1>1. CommandOver
  BY <1>t, SucceedOver DEF Connect
<1>2. PICK d : d = [device EXCEPT !.streaming = FALSE, !.faulted = FALSE] /\ device' = d
  BY DEF Connect
<1>3. d = [streaming |-> FALSE, faulted |-> FALSE, nodes |-> device.nodes]
  BY <1>t, <1>2 DEF ControlTypes
<1>4. device' \in Devices /\ device'.nodes = device.nodes
  BY <1>t, <1>2, <1>3 DEF ControlTypes, Devices
<1>5. /\ session' \in Sessions /\ session'.actual = device.nodes
      /\ UNCHANGED <<worker, queue, forwarder>> /\ ~Delivering
  BY <1>t DEF Connect, ControlTypes, Sessions, States, DeliveryHasStream, Running
<1>6. DeliveryHasStream' /\ ShownIsActual'
  BY <1>t, <1>4, <1>5 DEF DeliveryHasStream, Delivering, ShownIsActual
<1> QED BY <1>t, <1>1, <1>4, <1>5, <1>6, OverKeepsInv DEF ControlTypes, Sessions, Devices, Workers

\* Commands that leave the camera connected or acquiring with the device's
\* nodes untouched; the delivery is a new one or over.
LEMMA StreamStepKeepsInv ==
    ASSUME ControlInv, CommandOver,
           NEW streaming \in BOOLEAN, NEW state \in States,
           device' = [device EXCEPT !.streaming = streaming],
           session' = [session EXCEPT !.state = state],
           worker' \in Workers, queue' \in [frames : Seq(Nat), closed : BOOLEAN],
           forwarder' \in [state : Threads, frame : Nat],
           forwarder'.frame # NoFrame => forwarder'.state = "running",
           Delivering' => session.device /\ streaming /\ state = "acquiring"
    PROVE  ControlInv'
<1>t. ControlTypes /\ ShownIsActual
  BY DEF ControlInv
<1>1. /\ device' \in Devices /\ device'.streaming = streaming
      /\ device'.faulted = device.faulted /\ device'.nodes = device.nodes
  BY <1>t DEF ControlTypes, Devices
<1>2. /\ session' \in Sessions /\ session'.state = state
      /\ session'.device = session.device /\ session'.actual = session.actual
  BY <1>t DEF ControlTypes, Sessions
<1>3. DeliveryHasStream' /\ ShownIsActual'
  BY <1>t, <1>1, <1>2 DEF DeliveryHasStream, ShownIsActual
<1> QED BY <1>1, <1>2, <1>3, OverKeepsInv DEF Sessions, Devices

LEMMA StreamingKeepsInv ==
    ControlInv /\ (Resume \/ StartAcquisition \/ ResumeFails \/ StartFails \/ Stop \/ UpdateNotHalted) => ControlInv'
<1> SUFFICES ASSUME ControlInv, Resume \/ StartAcquisition \/ ResumeFails \/ StartFails \/ Stop \/ UpdateNotHalted
             PROVE  ControlInv'
  OBVIOUS
<1>t. ControlTypes /\ DeliveryHasStream /\ CommandHolds /\ ShownIsActual
  BY DEF ControlInv
<1>o. CommandOver
  BY <1>t, FailOver, SucceedOver
     DEF Resume, StartAcquisition, ResumeFails, StartFails, Stop, UpdateNotHalted, StreamNotStarted
<1>s. /\ session = [session EXCEPT !.state = session.state] /\ session.state \in States
      /\ device = [device EXCEPT !.streaming = device.streaming] /\ device.streaming \in BOOLEAN
  BY <1>t DEF ControlTypes
<1>a. "acquiring" \in States /\ "connected" \in States
  BY DEF States
<1>1. CASE Resume \/ StartAcquisition
  <2>1. /\ DeliveryStarted /\ session.device
        /\ device' = [device EXCEPT !.streaming = TRUE]
        /\ session' = [session EXCEPT !.state = "acquiring"]
    BY <1>1, <1>t DEF Resume, StartAcquisition, CommandHolds, StreamSteps
  <2> QED BY <1>o, <1>a, <2>1, DeliveryStarts, StreamStepKeepsInv
<1>2. CASE ResumeFails \/ StartFails
  <2>1. ~Delivering
    BY <1>2, <1>t DEF ResumeFails, StartFails, CommandHolds, StreamSteps, DeliveryHasStream
  <2>2. PICK streaming \in BOOLEAN : device' = [device EXCEPT !.streaming = device.streaming \/ streaming]
    BY <1>2 DEF ResumeFails, StartFails, StreamNotStarted
  <2>3. (device.streaming \/ streaming) \in BOOLEAN
    OBVIOUS
  <2>4. UNCHANGED <<session, worker, queue, forwarder>>
    BY <1>2 DEF ResumeFails, StartFails, StreamNotStarted, deliveryVars
  <2>5. /\ worker' \in Workers /\ queue' \in [frames : Seq(Nat), closed : BOOLEAN]
        /\ forwarder' \in [state : Threads, frame : Nat]
        /\ forwarder'.frame # NoFrame => forwarder'.state = "running"
        /\ ~Delivering'
    BY <1>t, <2>1, <2>4 DEF ControlTypes, Workers, DeliveryHasStream, Delivering
  <2>6. session' = [session EXCEPT !.state = session.state]
    BY <1>s, <2>4
  <2> QED BY <1>o, <1>s, <2>2, <2>3, <2>5, <2>6, StreamStepKeepsInv
<1>3. CASE Stop
  <2>1. /\ ~Delivering /\ UNCHANGED <<worker, queue, forwarder>>
        /\ device' = [device EXCEPT !.streaming = FALSE]
        /\ session' = [session EXCEPT !.state = "connected"]
    BY <1>3, <1>t DEF Stop, Running, CommandHolds, StreamSteps, deliveryVars
  <2>2. /\ worker' \in Workers /\ queue' \in [frames : Seq(Nat), closed : BOOLEAN]
        /\ forwarder' \in [state : Threads, frame : Nat]
        /\ forwarder'.frame # NoFrame => forwarder'.state = "running"
        /\ ~Delivering'
    BY <1>t, <2>1 DEF ControlTypes, Workers, DeliveryHasStream, Delivering
  <2> QED BY <1>o, <1>a, <2>1, <2>2, StreamStepKeepsInv
<1>4. CASE UpdateNotHalted
  <2>1. /\ UNCHANGED <<session, device>> /\ device.streaming
        /\ command.step = "halted" /\ command.op = "update"
        /\ DeliveryStarted \/ DeliveryReset
    BY <1>4 DEF UpdateNotHalted, Running
  <2>2. session.device /\ session.state = "acquiring"
    BY <1>t, <2>1 DEF CommandHolds, StreamSteps
  <2>3. /\ worker' \in Workers /\ queue' \in [frames : Seq(Nat), closed : BOOLEAN]
        /\ forwarder' \in [state : Threads, frame : Nat]
        /\ forwarder'.frame # NoFrame => forwarder'.state = "running"
    BY <2>1, DeliveryStarts, DeliveryStops
  <2>4. /\ session' = [session EXCEPT !.state = session.state]
        /\ device' = [device EXCEPT !.streaming = device.streaming]
    BY <1>s, <2>1
  <2> QED BY <1>o, <1>s, <2>1, <2>2, <2>3, <2>4, StreamStepKeepsInv
<1> QED BY <1>1, <1>2, <1>3, <1>4

LEMMA LeavingKeepsInv == ControlInv /\ (DeviceStays \/ Disconnect) => ControlInv'
<1> SUFFICES ASSUME ControlInv, DeviceStays \/ Disconnect PROVE ControlInv'
  OBVIOUS
<1>t. ControlTypes /\ DeliveryHasStream /\ CommandHolds /\ ShownIsActual
  BY DEF ControlInv
<1>o. CommandOver
  BY <1>t, FailOver, SucceedOver DEF DeviceStays, Disconnect
<1>1. ~Delivering /\ UNCHANGED <<worker, queue, forwarder>>
  BY <1>t DEF DeviceStays, Disconnect, Running, CommandHolds, StreamSteps, DeliveryHasStream, deliveryVars
<1>2. /\ worker' \in Workers /\ queue' \in [frames : Seq(Nat), closed : BOOLEAN]
      /\ forwarder' \in [state : Threads, frame : Nat]
      /\ forwarder'.frame # NoFrame => forwarder'.state = "running"
      /\ ~Delivering'
  BY <1>t, <1>1 DEF ControlTypes, Workers, DeliveryHasStream, Delivering
<1>3. CASE DeviceStays
  <2>1. PICK streaming \in BOOLEAN : device' = [device EXCEPT !.streaming = device.streaming /\ streaming]
    BY <1>3 DEF DeviceStays
  <2>2. (device.streaming /\ streaming) \in BOOLEAN
    OBVIOUS
  <2>3. session' = [session EXCEPT !.state = session.state] /\ session.state \in States
    BY <1>t, <1>3 DEF DeviceStays, ControlTypes
  <2> QED BY <1>o, <1>2, <2>1, <2>2, <2>3, StreamStepKeepsInv
<1>4. CASE Disconnect
  <2>1. PICK d, s :
            /\ d = [device EXCEPT !.streaming = FALSE, !.faulted = FALSE] /\ device' = d
            /\ s = [session EXCEPT !.device = FALSE, !.state = "disconnected"] /\ session' = s
    BY <1>4 DEF Disconnect
  <2>2. d = [streaming |-> FALSE, faulted |-> FALSE, nodes |-> device.nodes]
    BY <1>t, <2>1 DEF ControlTypes
  <2>3. s = [device |-> FALSE, state |-> "disconnected", capabilities |-> session.capabilities,
             actual |-> session.actual]
    BY <1>t, <2>1 DEF ControlTypes
  <2>4. d \in Devices
    BY <1>t, <2>2 DEF ControlTypes, Devices
  <2>5. s \in Sessions /\ ~s.device
    BY <1>t, <2>3 DEF ControlTypes, Sessions, States
  <2>6. DeliveryHasStream' /\ ShownIsActual'
    BY <1>2, <2>1, <2>5 DEF DeliveryHasStream, ShownIsActual
  <2> QED BY <1>o, <1>2, <2>1, <2>4, <2>5, <2>6, OverKeepsInv DEF Sessions, Devices
<1> QED BY <1>3, <1>4

\* All nodes written back are the nodes there were before.
LEMMA WrittenTypes ==
    ASSUME NEW nodes \in Parameters, NEW configuration \in Parameters, NEW k \in Nat
    PROVE  Written(nodes, configuration, k) \in Parameters
BY DEF Written, Parameters

LEMMA WrittenBack ==
    ASSUME NEW nodes \in Parameters, NEW others \in Parameters
    PROVE  Written(others, nodes, NodeCount + 2) = nodes
BY DEF Written, Parameters, Nodes

LEMMA UpdateKeepsInv ==
    ControlInv /\ (UpdateAtRest \/ UpdateHalted \/ ApplyRefused \/ Apply \/ ApplyFails) => ControlInv'
<1> SUFFICES ASSUME ControlInv, UpdateAtRest \/ UpdateHalted \/ ApplyRefused \/ Apply \/ ApplyFails
             PROVE  ControlInv'
  OBVIOUS
<1>t. ControlTypes /\ DeliveryHasStream /\ CommandHolds /\ ShownIsActual
  BY DEF ControlInv
<1>1. ~Delivering /\ session.device /\ UNCHANGED <<worker, queue, forwarder>>
  BY <1>t DEF UpdateAtRest, UpdateHalted, ApplyRefused, Apply, ApplyFails, Running, CommandHolds,
              StreamSteps, DeliveryHasStream, deliveryVars
<1>2. /\ worker' \in Workers /\ queue' \in [frames : Seq(Nat), closed : BOOLEAN]
      /\ forwarder' \in [state : Threads, frame : Nat]
      /\ forwarder'.frame # NoFrame => forwarder'.state = "running"
      /\ ~Delivering'
  BY <1>t, <1>1 DEF ControlTypes, Workers, DeliveryHasStream, Delivering
<1>3. /\ command' \in [op : Operations \cup {"none"}, step : CommandSteps, then : Seq(Operations),
                        target : Values, resume : BOOLEAN, joined : BOOLEAN]
      /\ command'.step \in {"apply", "applied", "refused"}
  <2>s. {"apply", "applied", "refused"} \subseteq CommandSteps
    BY DEF CommandSteps, StreamSteps
  <2>1. CASE UpdateAtRest
    <3>1. Proceed("apply")
      BY <2>1 DEF UpdateAtRest
    <3> QED BY <1>t, <2>s, <3>1, ProceedTo
  <2>2. CASE ApplyRefused \/ ApplyFails
    <3>1. Proceed("refused")
      BY <2>2 DEF ApplyRefused, ApplyFails
    <3> QED BY <1>t, <2>s, <3>1, ProceedTo
  <2>3. CASE Apply
    <3>1. Proceed("applied")
      BY <2>3 DEF Apply
    <3> QED BY <1>t, <2>s, <3>1, ProceedTo
  <2>4. CASE UpdateHalted
    <3>1. PICK c : c = [command EXCEPT !.step = "apply", !.resume = TRUE] /\ command' = c
      BY <2>4 DEF UpdateHalted
    <3>2. c = [op |-> command.op, step |-> "apply", then |-> command.then, target |-> command.target,
               resume |-> TRUE, joined |-> command.joined]
      BY <1>t, <3>1 DEF ControlTypes
    <3>3. c.step = "apply"
      BY <3>2
    <3> QED BY <1>t, <2>s, <3>1, <3>2, <3>3 DEF ControlTypes
  <2> QED BY <2>1, <2>2, <2>3, <2>4
<1>4. session' \in Sessions /\ session'.device /\ device' \in Devices /\ ShownIsActual'
  <2>0. session \in Sessions /\ device \in Devices /\ command.target \in Values
    BY <1>t DEF ControlTypes, Sessions, Devices
  <2>1. CASE UpdateAtRest \/ ApplyRefused
    BY <1>t, <1>1, <2>0, <2>1 DEF UpdateAtRest, ApplyRefused, ShownIsActual
  <2>2. CASE UpdateHalted
    <3>1. /\ device' = [device EXCEPT !.streaming = FALSE]
          /\ session' = [session EXCEPT !.state = "connected"]
      BY <2>2 DEF UpdateHalted
    <3>2. /\ device' \in Devices /\ device'.nodes = device.nodes /\ device'.faulted = device.faulted
      BY <2>0, <3>1 DEF Devices
    <3>3. /\ session' \in Sessions /\ session'.actual = session.actual
          /\ session'.device = session.device
      BY <2>0, <3>1 DEF Sessions, States
    <3> QED BY <1>t, <1>1, <3>2, <3>3 DEF ShownIsActual
  <2>3. CASE Apply
    <3>1. PICK u \in Parameters : u = Uniform(command.target)
      BY <2>0, UniformTypes
    <3>2. /\ device' = [device EXCEPT !.nodes = u]
          /\ session' = [session EXCEPT !.actual = u]
      BY <2>3, <3>1 DEF Apply
    <3>3. device' \in Devices /\ device'.nodes = u
      BY <2>0, <3>2 DEF Devices
    <3>4. session' \in Sessions /\ session'.actual = u /\ session'.device = session.device
      BY <2>0, <3>2 DEF Sessions
    <3> QED BY <1>1, <3>3, <3>4 DEF ShownIsActual
  <2>4. CASE ApplyFails
    <3>1. PICK k \in 1 .. NodeCount + 1, j \in 1 .. NodeCount + 2 :
             device' = [device EXCEPT
                 !.nodes = Written(Written(device.nodes, Uniform(command.target), k), device.nodes, j),
                 !.faulted = Faulted(j)]
      BY <2>4 DEF ApplyFails
    <3>n. device.nodes \in Parameters /\ k \in Nat /\ j \in Nat /\ NodeCount \in Nat
      BY <2>0 DEF Devices
    <3>c. Uniform(command.target) \in Parameters
      BY <2>0, UniformTypes
    <3>2. PICK p : p = Written(device.nodes, Uniform(command.target), k)
      OBVIOUS
    <3>3. p \in Parameters
      BY <3>n, <3>c, <3>2, WrittenTypes
    <3>4. PICK q : q = Written(p, device.nodes, j)
      OBVIOUS
    <3>5. q \in Parameters
      BY <3>n, <3>3, <3>4, WrittenTypes
    <3>6. PICK f \in BOOLEAN : f = Faulted(j)
      BY DEF Faulted
    <3>7. ~f => q = device.nodes
      BY <3>n, <3>3, <3>4, <3>6, WrittenBack DEF Faulted
    <3>8. device' = [device EXCEPT !.nodes = q, !.faulted = f]
      BY <3>1, <3>2, <3>4, <3>6
    <3>9. device' = [streaming |-> device.streaming, faulted |-> f, nodes |-> q]
      BY <2>0, <3>8 DEF Devices
    <3>10. device' \in Devices /\ device'.nodes = q /\ device'.faulted = f
      BY <2>0, <3>5, <3>9 DEF Devices
    <3>11. UNCHANGED session /\ ~device.faulted
      BY <2>4 DEF ApplyFails
    <3> QED BY <1>t, <1>1, <2>0, <3>7, <3>10, <3>11 DEF ShownIsActual
  <2> QED BY <2>1, <2>2, <2>3, <2>4
<1>5. ControlTypes'
  BY <1>2, <1>3, <1>4 DEF ControlTypes, Sessions, Devices, Workers
<1>6. DeliveryHasStream' /\ CommandHolds'
  BY <1>2, <1>3, <1>4 DEF DeliveryHasStream, CommandHolds
<1> QED BY <1>4, <1>5, <1>6 DEF ControlInv

LEMMA ControlInvNext == ControlInv /\ [CameraNext]_cameraVars => ControlInv'
<1> SUFFICES ASSUME ControlInv, [CameraNext]_cameraVars PROVE ControlInv'
  OBVIOUS
<1>1. CASE UNCHANGED cameraVars
  BY <1>1 DEF cameraVars, ControlInv, ControlTypes, DeliveryHasStream, Delivering, CommandHolds,
              ShownIsActual
<1>2. CASE CameraNext
  BY <1>2, StreamKeepsInv, NothingDoneKeepsInv, OperatorKeepsInv, WaitingKeepsInv, ConnectKeepsInv,
     StreamingKeepsInv, LeavingKeepsInv, UpdateKeepsInv
     DEF CameraNext, Commanding, NothingDone
<1> QED BY <1>1, <1>2

LEMMA ControlInvAlways == CameraSpec => []ControlInv
BY ControlInvInit, ControlInvNext, PTL DEF CameraSpec

\* The parameters shown for a camera are those its device has, for any number
\* of parameter nodes and configurations, wherever the writing of one, the
\* read-back or the way back fails, unless the device counts as faulted
\* (apply_locked, restore_or_fault).
THEOREM ShownIsActualAlways == CameraSpec => []ShownIsActual
<1>1. ControlInv => ShownIsActual
  BY DEF ControlInv
<1> QED BY <1>1, ControlInvAlways, PTL

\* No command stops, reconfigures or drops the device under a worker that may
\* be reading from it, although waiting for the worker may have timed out
\* (stop_frame_delivery, ~AcquisitionWorker).
THEOREM WorkerHasStreamAlways == CameraSpec => []WorkerHasStream
<1>1. ControlInv => WorkerHasStream
  BY DEF ControlInv, DeliveryHasStream, Delivering, WorkerHasStream
<1> QED BY <1>1, ControlInvAlways, PTL

\* The observers are given frames only of a camera that counts as acquiring:
\* none follows a stop, a disconnection or the stop before an update
\* (forward_frames, stop_frame_delivery).
THEOREM FramesWhileAcquiringAlways == CameraSpec => FramesWhileAcquiring
<1>1. ControlInv /\ [CameraNext]_cameraVars => [Observe => session.state = "acquiring"]_cameraVars
  BY DEF ControlInv, DeliveryHasStream, Delivering, Observe
<1> QED BY <1>1, ControlInvAlways, PTL DEF CameraSpec, FramesWhileAcquiring
=============================================================================
