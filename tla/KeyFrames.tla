------------------------------- MODULE KeyFrames -------------------------------
(***************************************************************************)
(* The key frames of an event, from the frozen window to the transaction   *)
(* store: the event thread selects them and submits them to the JPEG       *)
(* runtime, whose worker encodes one after the other and hands the whole   *)
(* event to the persistence runtime, whose worker writes it.  A stop       *)
(* drains the event thread, then the JPEG worker, then the writer, the     *)
(* last two until a deadline.                                              *)
(*                                                                         *)
(* A frame is its camera, numbered in the order of the identifiers, and    *)
(* its time; a trigger is the frame it was found in.                       *)
(* What EventRecords says of the event's row is left out.                  *)
(***************************************************************************)
EXTENDS Integers, Sequences, FiniteSets

CONSTANTS
    FrozenEvents,
    Windows,         \* what may be frozen: [frames, triggers]
    KeyFrameCount,   \* of the configuration
    PendingEvents,   \* camera_slot_count
    JobCapacity,     \* of the JPEG runtime
    SaveCapacity     \* of the persistence runtime

ASSUME KeyFramesAssumption ==
    /\ \A w \in Windows :
         /\ IsFiniteSet(w.frames) /\ IsFiniteSet(w.triggers) /\ w.triggers # {}
         /\ w.frames \cup w.triggers \subseteq [camera : Int, time : Int]
    /\ KeyFrameCount \in Nat \ {0} /\ PendingEvents \in Nat \ {0}
    /\ JobCapacity \in Nat \ {0} /\ SaveCapacity \in Nat \ {0}

VARIABLES
    evidence,   \* each event: stage, window, key frames encoded, remaining, failed
    selecting,  \* the event thread: its state and the event whose frames it submits
    jobs, encoder, saves, saver,
    stopper,    \* where EventRuntime::join is
    overdue     \* a join reached its deadline

keyFrameVars == <<evidence, selecting, jobs, encoder, saves, saver, stopper, overdue>>

NoEvent == "no event"

NotFrozen == [stage |-> "none", window |-> [frames |-> {}, triggers |-> {}],
              encoded |-> {}, remaining |-> 0, failed |-> FALSE]

FreshThread == [state |-> "idle", event |-> NoEvent, frame |-> {}]

-----------------------------------------------------------------------------
(* KeyFrameSelector::select with the analyses freeze makes of the triggers *)

Precedes(a, b) == a.time < b.time \/ (a.time = b.time /\ a.camera < b.camera)

Earliest(frames) == {f \in frames : \A g \in frames \ {f} : Precedes(f, g)}

Latest(frames) == {f \in frames : \A g \in frames \ {f} : Precedes(g, f)}

Abnormal(w) == Earliest(w.frames \cap w.triggers)

NormalReference(w) ==
    Latest({f \in w.frames \ w.triggers :
              \E a \in Abnormal(w) : f.camera = a.camera /\ Precedes(f, a)})

CandidateTrigger(w) == Earliest(w.triggers) \cap w.frames

\* Both scores are 1 for a trigger's frame and 0 for any other.
HighestScore(w) == IF Abnormal(w) # {} THEN Abnormal(w) ELSE Earliest(w.frames)

PostEvent(w) ==
    Earliest({f \in w.frames : \E t \in Latest(w.triggers) : f.camera = t.camera /\ f.time > t.time})

Reasoned(w) ==
    NormalReference(w) \cup Abnormal(w) \cup CandidateTrigger(w) \cup HighestScore(w) \cup PostEvent(w)

Before(f, frames) == {g \in frames : Precedes(g, f)}

InTime(frames) ==
    [i \in 1..Cardinality(frames) |-> CHOOSE f \in frames : Cardinality(Before(f, frames)) = i - 1]

FirstOf(s) == SubSeq(s, 1, IF Len(s) < KeyFrameCount THEN Len(s) ELSE KeyFrameCount)

Selection(w) == FirstOf(InTime(Reasoned(w)))

-----------------------------------------------------------------------------
(* EventRuntime: the table of pending events *)

AwaitingFrames == {e \in FrozenEvents : evidence[e].stage \in {"submitting", "encoding"}}

MoveTo(e, stage) == evidence' = [evidence EXCEPT ![e].stage = stage]

\* persistence->submit, with the storage admission before it.
StopsSaving == stopper \in {"saving", "returned"}

SubmitPersistence(e) ==
    \/ MoveTo(e, "incomplete") /\ UNCHANGED saves
    \/ /\ ~StopsSaving /\ Len(saves) < SaveCapacity
       /\ MoveTo(e, "queued")
       /\ saves' = Append(saves, e)
    \/ /\ StopsSaving
       /\ MoveTo(e, "turned away") /\ UNCHANGED saves

\* freeze up to the table of pending events: a selection that fails or a full
\* table ends the event.
SelectKeyFrames(e, w) ==
    /\ selecting.state = "idle" /\ evidence[e].stage = "none"
    /\ \/ /\ Cardinality(AwaitingFrames) < PendingEvents
          /\ evidence' = [evidence EXCEPT
                            ![e] = [NotFrozen EXCEPT !.stage = "submitting", !.window = w,
                                                     !.remaining = Len(Selection(w))]]
          /\ selecting' = [selecting EXCEPT !.state = "submitting", !.event = e]
       \/ MoveTo(e, "incomplete") /\ UNCHANGED selecting
    /\ UNCHANGED <<jobs, encoder, saves, saver, stopper, overdue>>

StopsEncoding == stopper \in {"encoding", "saving", "returned"}

\* KeyFrameJpegRuntime::submit: all the frames of the event or none.
Accepts(n) == ~StopsEncoding /\ Len(jobs) + n <= JobCapacity

SubmitFrames ==
    LET e == selecting.event
        frames == Selection(evidence[e].window)
    IN  /\ selecting.state = "submitting"
        /\ selecting' = FreshThread
        /\ IF frames = <<>>
           THEN SubmitPersistence(e) /\ UNCHANGED jobs
           ELSE /\ IF Accepts(Len(frames))
                   THEN /\ jobs' = jobs \o [i \in DOMAIN frames |-> [event |-> e, frame |-> frames[i]]]
                        /\ MoveTo(e, "encoding")
                   ELSE /\ MoveTo(e, IF StopsEncoding THEN "turned away" ELSE "incomplete")
                        /\ UNCHANGED jobs
                /\ UNCHANGED saves
        /\ UNCHANGED <<encoder, saver, stopper, overdue>>

-----------------------------------------------------------------------------
(* The JPEG worker *)

TakeFrame ==
    /\ encoder.state = "idle" /\ jobs # <<>>
    /\ encoder' = [state |-> "encoding", event |-> Head(jobs).event, frame |-> {Head(jobs).frame}]
    /\ jobs' = Tail(jobs)
    /\ UNCHANGED <<evidence, selecting, saves, saver, stopper, overdue>>

FailedSoFarLast(e, ok) == ~ok

FailedSoFar(e, ok) == evidence[e].failed \/ ~ok

\* The encoder's answer and jpeg_completed up to the submission.
JpegCompleted(ok) ==
    LET e == encoder.event
        left == evidence[e].remaining - 1
        failed == FailedSoFar(e, ok)
    IN  /\ encoder.state = "encoding"
        /\ evidence' = [evidence EXCEPT
             ![e].encoded = @ \cup (IF ok THEN encoder.frame ELSE {}),
             ![e].remaining = left,
             ![e].failed = failed,
             ![e].stage = IF left > 0 THEN @ ELSE IF failed THEN "incomplete" ELSE "complete"]
        /\ encoder' = IF left = 0 /\ ~failed THEN [encoder EXCEPT !.state = "submitting"] ELSE FreshThread
        /\ UNCHANGED <<selecting, jobs, saves, saver, stopper, overdue>>

SubmitComplete ==
    /\ encoder.state = "submitting"
    /\ SubmitPersistence(encoder.event)
    /\ encoder' = FreshThread
    /\ UNCHANGED <<selecting, jobs, saver, stopper, overdue>>

EncoderMayEndAtOnce == StopsEncoding

EncoderMayEnd == StopsEncoding /\ jobs = <<>>

EncoderEnds ==
    /\ encoder.state = "idle" /\ EncoderMayEnd
    /\ encoder' = [encoder EXCEPT !.state = "ended"]
    /\ UNCHANGED <<evidence, selecting, jobs, saves, saver, stopper, overdue>>

-----------------------------------------------------------------------------
(* The persistence worker *)

TakeSave ==
    /\ saver.state = "idle" /\ saves # <<>>
    /\ saver' = [saver EXCEPT !.state = "writing", !.event = Head(saves)]
    /\ saves' = Tail(saves)
    /\ UNCHANGED <<evidence, selecting, jobs, encoder, stopper, overdue>>

PersistenceCompleted(stage) ==
    /\ saver.state = "writing"
    /\ MoveTo(saver.event, stage)
    /\ saver' = FreshThread
    /\ UNCHANGED <<selecting, jobs, encoder, saves, stopper, overdue>>

SaverEnds ==
    /\ saver.state = "idle" /\ StopsSaving /\ saves = <<>>
    /\ saver' = [saver EXCEPT !.state = "ended"]
    /\ UNCHANGED <<evidence, selecting, jobs, encoder, saves, stopper, overdue>>

-----------------------------------------------------------------------------
(* EventRuntime::join *)

RequestDrain ==
    /\ stopper = "none"
    /\ stopper' = "draining"
    /\ UNCHANGED <<evidence, selecting, jobs, encoder, saves, saver, overdue>>

EventThreadEnds ==
    /\ stopper = "draining" /\ selecting.state = "idle"
    /\ selecting' = [selecting EXCEPT !.state = "ended"]
    /\ UNCHANGED <<evidence, jobs, encoder, saves, saver, stopper, overdue>>

StopEncoding ==
    /\ stopper = "draining" /\ selecting.state = "ended"
    /\ stopper' = "encoding"
    /\ UNCHANGED <<evidence, selecting, jobs, encoder, saves, saver, overdue>>

Joined == (stopper = "encoding" /\ encoder.state = "ended") \/ (stopper = "saving" /\ saver.state = "ended")

JoinReturns ==
    /\ stopper \in {"encoding", "saving"}
    /\ stopper' = IF stopper = "encoding" THEN "saving" ELSE "returned"
    /\ overdue' = (overdue \/ ~Joined)
    /\ UNCHANGED <<evidence, selecting, jobs, encoder, saves, saver>>

-----------------------------------------------------------------------------

KeyFramesInit ==
    /\ evidence = [e \in FrozenEvents |-> NotFrozen]
    /\ selecting = FreshThread
    /\ jobs = <<>> /\ encoder = FreshThread
    /\ saves = <<>> /\ saver = FreshThread
    /\ stopper = "none" /\ overdue = FALSE

KeyFramesNext ==
    \/ \E e \in FrozenEvents, w \in Windows : SelectKeyFrames(e, w)
    \/ SubmitFrames
    \/ TakeFrame
    \/ \E ok \in BOOLEAN : JpegCompleted(ok)
    \/ SubmitComplete
    \/ EncoderEnds
    \/ TakeSave
    \/ \E stage \in {"committed", "incomplete"} : PersistenceCompleted(stage)
    \/ SaverEnds
    \/ RequestDrain
    \/ EventThreadEnds
    \/ StopEncoding
    \/ JoinReturns

KeyFramesSpec == KeyFramesInit /\ [][KeyFramesNext]_keyFrameVars

-----------------------------------------------------------------------------
(* Properties *)

Settled(e) == evidence[e].stage \in {"none", "committed", "incomplete"}

\* EventRuntime::join: a stop whose joins kept their deadlines turns no event
\* away and returns when every frozen event is committed or known incomplete:
\* the threads are stopped in the order in which they hand the events on.
StopLosesNothing ==
    ~overdue => \A e \in FrozenEvents :
        /\ evidence[e].stage # "turned away"
        /\ stopper = "returned" => Settled(e)

\* jpeg_completed, freeze: an event is only committed with the frame of its
\* first trigger and the last quiet frame before it, if its window has them
\* and the configuration asks for two or more; no encoding failure on the way
\* is forgotten.
CommittedShowsOnset ==
    \A e \in FrozenEvents :
        LET w == evidence[e].window
        IN  evidence[e].stage = "committed" /\ KeyFrameCount >= 2 =>
              /\ CandidateTrigger(w) \subseteq evidence[e].encoded
              /\ \A t \in CandidateTrigger(w), f \in w.frames \ w.triggers :
                   f.camera = t.camera /\ f.time < t.time =>
                     \E g \in evidence[e].encoded :
                        g.camera = t.camera /\ g.time < t.time /\ g.time >= f.time

=============================================================================
