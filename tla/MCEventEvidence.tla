--------------------------- MODULE MCEventEvidence ---------------------------
(* From a frame to evidence on disk: one detector, the key frames of three    *)
(* events, one event with two sources and two restarts, and the rolling cache *)
(* of two cameras.  The four share no step; a behaviour is one of them.       *)
EXTENDS EventRecords, KeyFrames, Detection, NvmeCache

VARIABLE active

-----------------------------------------------------------------------------
(* A detector with a mean, a background and a paper check, in a frame of two  *)
(* times two pixels; a second revision of it; one that looks at a column; one *)
(* to which a step of one level is a break; and one that is not valid.        *)

BaseConfig == [
    plugin |-> "classical", camera |-> "left", revision |-> 1,
    parametersDistinct |-> TRUE, parametersKnown |-> TRUE,
    region |-> [x |-> 0, y |-> 0, width |-> 0, height |-> 0], factor |-> 1,
    paperLevel |-> 4, meanLimit |-> 10, backgroundLimit |-> 6, share |-> 1,
    paperCheck |-> TRUE, meanCheck |-> TRUE, backgroundCheck |-> TRUE]

MCConfigs == {
    BaseConfig,
    [BaseConfig EXCEPT !.revision = 2, !.paperCheck = FALSE, !.factor = 2, !.share = 2,
                       !.backgroundLimit = 4],
    [BaseConfig EXCEPT !.paperCheck = FALSE, !.backgroundCheck = FALSE,
                       !.region = [x |-> 1, y |-> 0, width |-> 1, height |-> 2]],
    [BaseConfig EXCEPT !.camera = "right", !.meanLimit = 1],
    [BaseConfig EXCEPT !.factor = 3]}

MCFrames ==
    [level : Levels, fault : {"none"}, width : {2}, height : {2}]
    \union [level : {White}, fault : {"none", "older"}, width : {1, 2}, height : {2}]
    \union [level : {0}, fault : {"incomplete"}, width : {2}, height : {2}]

-----------------------------------------------------------------------------
MCFrame(camera, time) == [camera |-> camera, time |-> time]

\* A quiet, a trigger's and a later frame; triggers of two cameras of which the
\* first has lost its frame; a window whose frames were all evicted.
MCWindows == {
    [frames |-> {MCFrame(1, 1), MCFrame(1, 2), MCFrame(1, 3), MCFrame(2, 1)},
     triggers |-> {MCFrame(1, 2)}],
    [frames |-> {MCFrame(1, 3), MCFrame(2, 2)},
     triggers |-> {MCFrame(1, 2), MCFrame(2, 3)}],
    [frames |-> {}, triggers |-> {MCFrame(1, 1)}]}

\* Blocks of the right camera are larger.
MCBlockBytes == [c \in Cameras |-> IF c = "left" THEN 1 ELSE 2]

-----------------------------------------------------------------------------
MCInit ==
    /\ active \in {"records", "key frames", "detection", "cache"}
    /\ RecordsInit /\ KeyFramesInit /\ DetectionInit /\ NvmeInit

MCNext ==
    /\ \/ active = "records" /\ RecordsNext
          /\ UNCHANGED <<keyFrameVars, detectionVars, nvmeVars>>
       \/ active = "key frames" /\ KeyFramesNext
          /\ UNCHANGED <<recordVars, detectionVars, nvmeVars>>
       \/ active = "detection" /\ DetectionNext
          /\ UNCHANGED <<recordVars, keyFrameVars, nvmeVars>>
       \/ active = "cache" /\ NvmeNext
          /\ UNCHANGED <<recordVars, keyFrameVars, detectionVars>>
    /\ UNCHANGED active

MCVars == <<active, recordVars, keyFrameVars, detectionVars, nvmeVars>>

Records(Action) ==
    active = "records" /\ Action /\ UNCHANGED <<active, keyFrameVars, detectionVars, nvmeVars>>

MCSpec ==
    /\ MCInit /\ [][MCNext]_MCVars
    /\ \A e \in Events : WF_MCVars(Records(JpegThread(e)))
    /\ WF_MCVars(Records(PersistenceThread))
================================================================================
