-------------------------------- MODULE Detection --------------------------------
(* One lane's detector: DetectorHost (detector_host.cpp), which loads, updates   *)
(* and calls a plugin, with ClassicalVisionDetector as the plugin it holds.      *)
(*                                                                               *)
(* The region a frame shows is one grey level, so the paper fills it or is       *)
(* missing; everything the detector keeps of the past is here: the level of the  *)
(* last frame and the background that it learns slowly, in eight bits.  Debug    *)
(* metrics, confidences and the pixels that changed are left out.                *)
EXTENDS Integers, FiniteSetsExt

CONSTANTS
    White,          \* the highest grey level
    Parts,          \* learning rates are shares of so many parts
    Plugins,        \* names in the registry
    MaxRegionPixels,
    Configs,        \* detector configurations
    Frames          \* what the camera may deliver

ASSUME DetectionAssumption ==
    /\ White \in Nat \ {0} /\ Parts \in Nat \ {0}
    /\ MaxRegionPixels \in Nat
    /\ \A c \in Configs : c.share \in Nat /\ c.backgroundLimit \in Int
    /\ \A f \in Frames : f.level \in 0..White

VARIABLES
    config,      \* the configuration of the active detector, or NoConfig
    mean,        \* previous_mean_: the level of the last frame taken, or Nothing
    background,  \* background_: its level and size
    delivered,   \* trigger_source of the last result process() returned
    calm         \* history: since the background was taken, no frame taken
                 \* differed from the one before it by more than one level

detectionVars == <<config, mean, background, delivered, calm>>

Levels == 0..White
Nothing == -1
NoConfig == [plugin |-> "none"]
NoBackground == [level |-> Nothing, size |-> <<0, 0>>]
TriggerSources == {"none", "paper", "background", "mean"}

Distance(a, b) == IF a < b THEN b - a ELSE a - b

-----------------------------------------------------------------------------
(* Configurations *)

\* The host: an identity, a revision and each parameter once.
WellFormed(c) == c.plugin # "" /\ c.revision > 0 /\ c.parametersDistinct

FullFrame(c) == c.region.width = 0 /\ c.region.height = 0

\* The plugin: only parameters it knows, within their bounds.
Parsed(c) ==
    /\ c.parametersKnown
    /\ (c.region.width = 0) = (c.region.height = 0)
    /\ FullFrame(c) => c.region.x = 0 /\ c.region.y = 0
    /\ c.region.width * c.region.height <= MaxRegionPixels
    /\ c.factor \in {1, 2, 4}
    /\ c.paperLevel \in Levels
    /\ c.meanLimit \in 1..White
    /\ c.backgroundLimit \in 1..White
    /\ c.share \in 0..(Parts - 1)

-----------------------------------------------------------------------------
(* What the detector does with a frame *)

Region(c, frame) ==
    IF FullFrame(c)
    THEN [x |-> 0, y |-> 0, width |-> frame.width, height |-> frame.height]
    ELSE c.region

Fits(region, frame) ==
    /\ region.width > 0 /\ region.height > 0
    /\ region.x + region.width <= frame.width
    /\ region.y + region.height <= frame.height
    /\ region.width * region.height <= MaxRegionPixels

\* The size of what is analysed, after downsampling.
Analysed(c, frame) ==
    LET r == Region(c, frame)
    IN  <<Max({1, r.width \div c.factor}), Max({1, r.height \div c.factor})>>

HasBackground == background.level # Nothing

\* A frame the detector refuses changes nothing it keeps.  Times and numbers are
\* only compared with those of the last frame it took.
Refused(frame) ==
    \/ frame.fault \in {"camera", "incomplete", "format", "library"}
    \/ frame.fault = "older" /\ mean # Nothing
    \/ ~Fits(Region(config, frame), frame)
    \/ HasBackground /\ background.size # Analysed(config, frame)

PaperMissing(level) == config.paperCheck /\ level < config.paperLevel

BackgroundChanged(level) ==
    /\ config.backgroundCheck /\ HasBackground
    /\ Distance(level, background.level) >= config.backgroundLimit

MeanChanged(level) ==
    config.meanCheck /\ mean # Nothing /\ Distance(level, mean) >= config.meanLimit

Source(level) ==
    CASE PaperMissing(level) -> "paper"
      [] ~PaperMissing(level) /\ BackgroundChanged(level) -> "background"
      [] ~PaperMissing(level) /\ ~BackgroundChanged(level) /\ MeanChanged(level) -> "mean"
      [] OTHER -> "none"

\* The background before it learns: a frame with paper is taken as the first one.
Taken(frame) ==
    IF config.backgroundCheck /\ ~HasBackground /\ ~PaperMissing(frame.level)
    THEN [level |-> frame.level, size |-> Analysed(config, frame)]
    ELSE background

\* addWeighted rounds to the nearest level; an exact half goes either way.
LearnedTruncated(level, from) ==
    {(config.share * level + (Parts - config.share) * from) \div Parts}
Learned(level, from) ==
    {n \in Levels :
       2 * Distance(Parts * n, config.share * level + (Parts - config.share) * from) <= Parts}

Learns(frame) ==
    Source(frame.level) = "none" /\ Taken(frame).level # Nothing /\ config.share > 0

DetectFrame(frame) ==
    /\ IF Learns(frame)
       THEN \E n \in Learned(frame.level, Taken(frame).level) :
              background' = [Taken(frame) EXCEPT !.level = n]
       ELSE background' = Taken(frame)
    /\ mean' = frame.level
    /\ calm' = \/ ~HasBackground
               \/ calm /\ Distance(frame.level, mean) <= 1

-----------------------------------------------------------------------------
(* The host *)

Forgotten ==
    /\ mean' = Nothing /\ background' = NoBackground /\ calm' = TRUE
    /\ delivered' = "none"

\* A plugin that is not the built-in one may fail at any step of its creation.
MayFail(c) ==
    c.plugin # "classical" \/ ~WellFormed(c) \/ c.plugin \notin Plugins \/ ~Parsed(c)
MaySucceed(c) == WellFormed(c) /\ c.plugin \in Plugins /\ Parsed(c)

Load(c) ==
    /\ MaySucceed(c)
    /\ config' = c
    /\ Forgotten

Updatable(c) ==
    /\ config # NoConfig
    /\ c.plugin = config.plugin /\ c.camera = config.camera /\ c.revision > config.revision

\* A second detector gets the old configuration, then the new one, and takes
\* the place of the first: it has seen nothing yet.
Update(c) ==
    /\ Updatable(c) /\ MaySucceed(c)
    /\ config' = c
    /\ Forgotten

\* Whatever fails on the way, the active detector stays.
LoadOrUpdateFails(c) ==
    /\ MayFail(c) \/ ~Updatable(c)
    /\ UNCHANGED detectionVars

ProcessRefused(frame) ==
    /\ config # NoConfig => Refused(frame)
    /\ UNCHANGED detectionVars

Process(frame) ==
    /\ config # NoConfig /\ ~Refused(frame)
    /\ DetectFrame(frame)
    /\ delivered' = Source(frame.level)
    /\ UNCHANGED config

\* The call returns after its budget: the host drops the result, but the
\* detector has taken the frame.
ProcessLate(frame) ==
    /\ config # NoConfig /\ ~Refused(frame)
    /\ DetectFrame(frame)
    /\ UNCHANGED <<config, delivered>>

Reset ==
    /\ config # NoConfig
    /\ Forgotten
    /\ UNCHANGED config

DetectionInit ==
    /\ config = NoConfig
    /\ mean = Nothing
    /\ background = NoBackground
    /\ delivered = "none"
    /\ calm = TRUE

DetectionNext ==
    \/ \E c \in Configs : Load(c) \/ Update(c) \/ LoadOrUpdateFails(c)
    \/ \E f \in Frames : ProcessRefused(f) \/ Process(f) \/ ProcessLate(f)
    \/ Reset

DetectionSpec == DetectionInit /\ [][DetectionNext]_detectionVars

-----------------------------------------------------------------------------
DetectionTypeOK ==
    /\ config \in Configs \union {NoConfig}
    /\ mean \in Levels \union {Nothing}
    /\ background.level \in Levels \union {Nothing}
    /\ delivered \in TriggerSources
    /\ calm \in BOOLEAN

\* The widest gap the rounding leaves between the background and a steady web.
Lag(c) == Parts \div (2 * c.share)

\* The background follows: it learns, its limit is wider than the gap that eight
\* bits leave, and no step of one level is a break by itself, which the
\* detector does not learn from.
FollowsDrift(c) ==
    /\ c.share > 0 /\ c.backgroundLimit > Lag(c) + 1
    /\ c.meanCheck => c.meanLimit > 1

\* A web that never changes faster than one grey level per frame is never taken
\* for a break by the comparison with the background, as long as the background
\* follows: it never falls further behind, whatever frames are refused, however
\* long the paper is missing and whatever results come too late.
SlowDriftIsNoBreak ==
    config # NoConfig => (calm /\ FollowsDrift(config) => delivered # "background")
================================================================================
