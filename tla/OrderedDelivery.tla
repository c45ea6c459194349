---------------------------- MODULE OrderedDelivery ----------------------------
(***************************************************************************)
(* What the event thread is promised about the frames of all cameras: it   *)
(* sees them in the order of their receive times, whichever camera was     *)
(* analysed first.  A frame may be given up (a newer one takes its place,  *)
(* the result queue is full), but it is never overtaken by a later one     *)
(* while it is owed, never delivered twice, and never owed for ever.       *)
(***************************************************************************)
EXTENDS Integers

CONSTANTS Cameras, Times

Frames == [camera : Cameras, time : Times]

\* Frames of equal time are taken in the order of their cameras.
Precedes(f, g) ==
    \/ f.time < g.time
    \/ f.time = g.time /\ f.camera < g.camera

VARIABLES
    owed,   \* frames accepted and neither delivered nor given up
    seen    \* seen[c]: the time of the last frame of camera c delivered

orderVars == <<owed, seen>>

OrderInit == owed = {} /\ seen \in [Cameras -> {0}]

\* Older frames of the camera may have to make room.
Accept(f) ==
    /\ f \notin owed
    /\ f.time > seen[f.camera]
    /\ f \in owed'
    /\ owed' \subseteq owed \cup {f}
    /\ \A g \in owed \ owed' : g.camera = f.camera
    /\ UNCHANGED seen

GiveUp(f) ==
    /\ f \in owed
    /\ owed' = owed \ {f}
    /\ UNCHANGED seen

Deliver(f) ==
    /\ f \in owed
    /\ \A g \in owed : ~Precedes(g, f)
    /\ f.time > seen[f.camera]
    /\ owed' = owed \ {f}
    /\ seen' = [seen EXCEPT ![f.camera] = f.time]

OrderNext == \E f \in Frames : Accept(f) \/ GiveUp(f) \/ Deliver(f)

\* No accepted frame is owed for ever.
Served == \A f \in Frames : f \in owed ~> f \notin owed

OrderSafety == OrderInit /\ [][OrderNext]_orderVars

OrderSpec == OrderSafety /\ Served

=============================================================================
