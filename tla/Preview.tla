------------------------------- MODULE Preview -------------------------------
(* The live preview: PreviewRuntime of the service (preview.cpp) samples the  *)
(* cameras' frames for its subscribers, one frame waiting per camera, and one *)
(* thread encodes and delivers them; PreviewClient of the console             *)
(* (preview_client.cpp) subscribes under the identifier of its connection.    *)
(* PreviewRequests are carried out one after the other by the control thread of the  *)
(* IPC server.  Frames, images and rates are left out: a frame is due or not. *)
EXTENDS Naturals, Sequences, FiniteSets

CONSTANTS
    Cameras,
    Selections,            \* the sets of cameras the console may show
    MaxSubscriptions,      \* preview_maximum_subscriptions
    MaxConnections,        \* bound: connections the console opens
    MaxRequests            \* bound: requests under way

NoCamera == "none"

ASSUME PreviewAssumption ==
    /\ IsFiniteSet(Cameras) /\ NoCamera \notin Cameras
    /\ Selections \subseteq SUBSET Cameras
    /\ MaxConnections \in Nat /\ MaxRequests \in Nat

Connections == 1..MaxConnections
NoSelection == {}
PreviewRequests == [op : {"subscribe", "unsubscribe"}, cameras : SUBSET Cameras]

VARIABLES
    \* the console
    connection,     \* its connection, 0 while there is none
    links,          \* connections opened so far
    selected,       \* camera_ids_
    paused,
    subscribed,     \* what the console shows
    asked,          \* its request is under way and will be answered
    unserved,       \* requests of this connection the service has not served
    refused,        \* the last answer was a refusal
    \* the service
    subscriptions,  \* subscriptions_: the cameras of each connection
    waiting,        \* cameras with a frame that waits for the encoder
    pendingSlots,   \* pending_slots_
    encoder,        \* where the encoder's thread is
    round,          \* cameras it has yet to look at in this round
    taken,          \* the camera whose frame it has taken
    previewStop

consoleVars == <<connection, links, selected, paused, subscribed, asked, unserved, refused>>
serviceVars == <<subscriptions, waiting, pendingSlots, encoder, round, taken, previewStop>>
previewVars == <<consoleVars, serviceVars>>

Subscribers(camera) == {c \in Connections : camera \in subscriptions[c]}
Held == {c \in Connections : subscriptions[c] # NoSelection}

--------------------------------------------------------------------------------
\* The console

PreviewRequest(op, cameras) == [op |-> op, cameras |-> cameras]

\* A plausible slip: the request under way is not withdrawn.
AsksUnlessAsking(isPaused, link, cameras) ==
    IF isPaused \/ link = 0 \/ asked
      THEN UNCHANGED <<asked, unserved>>
      ELSE /\ Len(unserved) < MaxRequests
           /\ asked' = TRUE
           /\ unserved' = Append(unserved, PreviewRequest("subscribe", cameras))

\* subscribe: nothing while paused, disconnected or already asking.  A request
\* that is withdrawn is still carried out by the service.
Asks(isPaused, link, cameras) ==
    IF isPaused \/ link = 0
      THEN asked' = FALSE /\ UNCHANGED unserved
      ELSE /\ Len(unserved) < MaxRequests
           /\ asked' = TRUE
           /\ unserved' = Append(unserved, PreviewRequest("subscribe", cameras))

\* connection_changed; the requests of the old connection are gone with it.
PreviewConnect ==
    /\ connection = 0 /\ links < MaxConnections
    /\ connection' = links + 1 /\ links' = links + 1
    /\ subscribed' = FALSE /\ Asks(paused, links + 1, selected)
    /\ UNCHANGED <<selected, paused, refused, serviceVars>>

PreviewDisconnect ==
    /\ connection # 0
    /\ connection' = 0 /\ subscribed' = FALSE /\ asked' = FALSE /\ unserved' = <<>>
    /\ UNCHANGED <<links, selected, paused, refused, serviceVars>>

\* set_camera_ids and set_target_fps withdraw the request and ask again.
Select(cameras) ==
    /\ selected # cameras
    /\ selected' = cameras /\ subscribed' = FALSE
    /\ Asks(paused, connection, cameras)
    /\ UNCHANGED <<connection, links, paused, refused, serviceVars>>

Pause ==
    /\ ~paused /\ paused' = TRUE /\ subscribed' = FALSE /\ asked' = FALSE
    /\ IF connection = 0 THEN UNCHANGED unserved
       ELSE Len(unserved) < MaxRequests /\ unserved' = Append(unserved, PreviewRequest("unsubscribe", {}))
    /\ UNCHANGED <<connection, links, selected, refused, serviceVars>>

ResumePreview ==
    /\ paused /\ paused' = FALSE /\ Asks(FALSE, connection, selected)
    /\ UNCHANGED <<connection, links, selected, subscribed, refused, serviceVars>>

\* subscription_completed does not look at whether the service agreed.
Answer(granted) ==
    IF asked /\ Len(unserved) = 1
      THEN asked' = FALSE /\ subscribed' = TRUE /\ refused' = ~granted
      ELSE UNCHANGED <<asked, subscribed, refused>>

\* The request ran out of time and reached the service all the same.
RequestExpires ==
    /\ asked /\ asked' = FALSE
    /\ UNCHANGED <<connection, links, selected, paused, subscribed, unserved, refused, serviceVars>>

--------------------------------------------------------------------------------
\* The service

\* A new subscriber is refused when there are too many.
Room(subscriber) == subscriber \in Held \/ Cardinality(Held) < MaxSubscriptions

ServePreview ==
    /\ unserved # <<>> /\ unserved' = Tail(unserved)
    /\ LET request == Head(unserved)
       IN  \/ /\ request.op = "subscribe" /\ Room(connection)
              /\ subscriptions' = [subscriptions EXCEPT ![connection] = request.cameras]
              /\ Answer(TRUE)
           \/ /\ request.op = "subscribe" /\ ~Room(connection)
              /\ Answer(FALSE) /\ UNCHANGED subscriptions
           \/ /\ request.op = "unsubscribe"
              /\ subscriptions' = [subscriptions EXCEPT ![connection] = NoSelection]
              /\ UNCHANGED <<asked, subscribed, refused>>
    /\ UNCHANGED <<connection, links, selected, paused, waiting, pendingSlots, encoder,
         round, taken, previewStop>>

\* Every sampled frame notifies, a replacing one too.
Notifies(camera) == TRUE

\* submit: a frame of a camera with subscribers that is due takes the slot and
\* notifies the encoder, without the lock the encoder looks under.
Submit(camera) ==
    /\ encoder # "not started" /\ ~previewStop
    /\ Subscribers(camera) # {}
    /\ waiting' = waiting \union {camera}
    /\ pendingSlots' = IF camera \in waiting THEN pendingSlots ELSE pendingSlots + 1
    /\ encoder' = IF encoder = "asleep" /\ Notifies(camera) THEN "looking" ELSE encoder
    /\ UNCHANGED <<subscriptions, round, taken, previewStop, consoleVars>>

\* The encoder finds work, or goes to sleep in two steps: a notification that
\* comes between them is lost.
Look ==
    /\ encoder = "looking" /\ ~previewStop
    /\ \/ pendingSlots > 0 /\ encoder' = "encoding" /\ round' = Cameras
       \/ pendingSlots = 0 /\ encoder' = "falling asleep" /\ UNCHANGED round
    /\ UNCHANGED <<subscriptions, waiting, pendingSlots, taken, previewStop, consoleVars>>

FallAsleep ==
    /\ encoder = "falling asleep"
    /\ encoder' = IF previewStop THEN "looking" ELSE "asleep"
    /\ UNCHANGED <<subscriptions, waiting, pendingSlots, round, taken, previewStop, consoleVars>>

Take(camera) ==
    /\ encoder = "encoding" /\ taken = NoCamera /\ camera \in round
    /\ round' = round \ {camera}
    /\ taken' = IF camera \in waiting THEN camera ELSE NoCamera
    /\ waiting' = waiting \ {camera}
    /\ UNCHANGED <<subscriptions, pendingSlots, encoder, previewStop, consoleVars>>

\* Encoding may fail; otherwise the subscribers of the moment get the image.
Encode ==
    /\ encoder = "encoding" /\ taken # NoCamera
    /\ taken' = NoCamera /\ pendingSlots' = pendingSlots - 1
    /\ UNCHANGED <<subscriptions, waiting, encoder, round, previewStop, consoleVars>>

EndRound ==
    /\ encoder = "encoding" /\ taken = NoCamera /\ round = {}
    /\ encoder' = "looking"
    /\ UNCHANGED <<subscriptions, waiting, pendingSlots, round, taken, previewStop, consoleVars>>

StartPreview ==
    /\ encoder = "not started" /\ ~previewStop /\ encoder' = "looking"
    /\ UNCHANGED <<subscriptions, waiting, pendingSlots, round, taken, previewStop, consoleVars>>

\* The token wakes a sleeping encoder.
StopPreview ==
    /\ ~previewStop /\ previewStop' = TRUE
    /\ encoder' = IF encoder = "asleep" THEN "looking" ELSE encoder
    /\ UNCHANGED <<subscriptions, waiting, pendingSlots, round, taken, consoleVars>>

EndEncoder ==
    /\ encoder = "looking" /\ previewStop /\ encoder' = "ended"
    /\ UNCHANGED <<subscriptions, waiting, pendingSlots, round, taken, previewStop, consoleVars>>

PreviewInit ==
    /\ connection = 0 /\ links = 0 /\ selected \in Selections /\ paused = FALSE
    /\ subscribed = FALSE /\ asked = FALSE /\ unserved = <<>> /\ refused = FALSE
    /\ subscriptions = [c \in Connections |-> NoSelection]
    /\ waiting = {} /\ pendingSlots = 0
    /\ encoder = "not started" /\ round = {} /\ taken = NoCamera /\ previewStop = FALSE

EncoderStep == Look \/ FallAsleep \/ (\E c \in Cameras : Take(c)) \/ Encode \/ EndRound \/ EndEncoder

PreviewNext ==
    \/ PreviewConnect \/ PreviewDisconnect \/ (\E s \in Selections : Select(s)) \/ Pause \/ ResumePreview
    \/ RequestExpires \/ ServePreview \/ (\E c \in Cameras : Submit(c))
    \/ Look \/ FallAsleep \/ (\E c \in Cameras : Take(c)) \/ Encode \/ EndRound
    \/ StartPreview \/ StopPreview \/ EndEncoder

PreviewSpec == PreviewInit /\ [][PreviewNext]_previewVars

--------------------------------------------------------------------------------

PreviewTypeOK ==
    /\ connection \in 0..MaxConnections /\ links \in 0..MaxConnections
    /\ selected \in Selections /\ {paused, subscribed, asked, refused, previewStop} \subseteq BOOLEAN
    /\ unserved \in Seq(PreviewRequests) /\ subscriptions \in [Connections -> SUBSET Cameras]
    /\ waiting \subseteq Cameras /\ round \subseteq Cameras /\ taken \in Cameras \union {NoCamera}
    /\ pendingSlots = Cardinality(waiting) + (IF taken = NoCamera THEN 0 ELSE 1)

\* The encoder does not sleep for good on a frame that waits although its
\* notification may be lost, as long as subscribed frames keep coming.
WakesForWork ==
    (encoder = "asleep" /\ waiting # {})
        ~> (encoder # "asleep" \/ \A c \in Cameras : Subscribers(c) = {})

\* "No subscriber, no sampling and no encoding": whoever a frame is sampled for
\* is still connected.  Not so: nobody ends the subscription of a connection
\* that is gone.
SamplesOnlyForReaders ==
    [][\A c \in Cameras : Submit(c) => connection \in Subscribers(c)]_previewVars

\* What the console shows as subscribed is what the service holds for it: not
\* so, a refusal is shown as a subscription.
ShownIsHeld ==
    connection # 0 /\ subscribed /\ unserved = <<>> => subscriptions[connection] = selected

\* The same, refusals apart.
ShownIsHeldUnlessRefused ==
    connection # 0 /\ subscribed /\ ~refused /\ unserved = <<>> => subscriptions[connection] = selected
================================================================================
