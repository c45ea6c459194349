---------------------------- MODULE UplinkCommands ----------------------------
(***************************************************************************)
(* The session with the supervising host (uplink/src/runtime.cpp): one     *)
(* worker thread connects, sends status and heartbeats, handles the        *)
(* commands of the host and backs off when the connection is lost.         *)
(*                                                                         *)
(* Commands arrive on the thread of the transport, in a bounded queue that *)
(* survives a reconnection.  The host delivers a command again when it got *)
(* no answer, so the results of the last commands are retained and         *)
(* replayed.  Any send may fail, with or without the host having read it.  *)
(*                                                                         *)
(* A command is its commandId and its content, what the fingerprint is     *)
(* made of; a size stands for its bytes in the queue and in the cache.     *)
(* Metrics and diagnostics are left out.  A process has one runtime: a     *)
(* restart forgets the cache and is a new behaviour of this module.        *)
(***************************************************************************)
EXTENDS Integers, Sequences, FiniteSets, SequencesExt

CONSTANTS Ids,               \* commandIds the host uses
          Sizes,             \* the contents of commands, each with its size
          QueueCapacity,     \* command_queue_capacity
          QueueBytes,        \* command_queue_byte_capacity
          ResultCapacity,    \* command_deduplication_capacity
          ResultBytes,       \* command_deduplication_byte_capacity
          MaximumDelay,      \* maximum_reconnect_delay, in initial delays
          MaximumDeliveries  \* messages the host sends (a bound)

ASSUME UplinkAssumption ==
    /\ Sizes \in [DOMAIN Sizes -> Nat \ {0}]
    /\ {QueueCapacity, ResultCapacity, MaximumDelay} \subseteq Nat \ {0}
    /\ {QueueBytes, ResultBytes, MaximumDeliveries} \subseteq Nat
    /\ \A content \in DOMAIN Sizes : Sizes[content] <= ResultBytes

VARIABLES
    runtime,    \* what start and request_stop have set
    at,         \* where the worker thread is
    link,       \* the state the transport reports
    delay,      \* the next reconnect delay
    commands,   \* the queue of received commands
    work,       \* the command in the worker's hands
    results,    \* the retained results, oldest first
    handled,    \* every command that was handled and not replayed (history)
    deliveries  \* messages the host has sent

uplinkVars == <<runtime, at, link, delay, commands, work, results, handled, deliveries>>

-----------------------------------------------------------------------------
Contents == DOMAIN Sizes

\* A payload that is no command.
Garbled == [id |-> "none", content |-> "garbled"]

Commands == [id : Ids, content : Contents] \cup {Garbled}

\* Carried out, or refused by the executor or before it is called.
CommandOutcomes == {"done", "refused"}

SizeOf(command) == IF command.content \in Contents THEN Sizes[command.content] ELSE 1

Bytes(list) ==
    LET bytes[n \in 0 .. Len(list)] == IF n = 0 THEN 0 ELSE bytes[n - 1] + SizeOf(list[n])
    IN  bytes[Len(list)]

-----------------------------------------------------------------------------
(* The transport's threads *)

Fits(command) ==
    /\ Len(commands) < QueueCapacity
    /\ Bytes(commands) + SizeOf(command) <= QueueBytes

\* The callback of the transport never waits: a command that does not fit, or
\* comes after a stop, is dropped without an answer.
Enqueue(command) ==
    /\ runtime.handler
    /\ deliveries < MaximumDeliveries
    /\ deliveries' = deliveries + 1
    /\ commands' = IF runtime.accepting /\ Fits(command) THEN Append(commands, command) ELSE commands
    /\ UNCHANGED <<runtime, at, link, delay, work, results, handled>>

\* The upload scheduler sends its alarms through the same socket; one that is
\* not acknowledged marks the transport disconnected.
AlarmFails ==
    /\ link = "connected"
    /\ link' = "disconnected"
    /\ UNCHANGED <<runtime, at, delay, commands, work, results, handled, deliveries>>

-----------------------------------------------------------------------------
(* Start and stop *)

Start ==
    /\ ~runtime.started
    /\ runtime' = [runtime EXCEPT !.started = TRUE, !.accepting = TRUE, !.handler = TRUE]
    /\ at' = "checking"
    /\ UNCHANGED <<link, delay, commands, work, results, handled, deliveries>>

StopUplink ==
    /\ runtime.started /\ at # "ended" /\ ~runtime.stopping
    /\ runtime' = [runtime EXCEPT !.accepting = FALSE, !.stopping = TRUE, !.cancelling = TRUE]
    /\ UNCHANGED <<at, link, delay, commands, work, results, handled, deliveries>>

\* request_stop ends with a disconnect, outside the lock: the worker may have
\* passed its check and connect after it.
CancelTransport ==
    /\ runtime.cancelling
    /\ runtime' = [runtime EXCEPT !.cancelling = FALSE]
    /\ link' = "disconnected"
    /\ UNCHANGED <<at, delay, commands, work, results, handled, deliveries>>

-----------------------------------------------------------------------------
(* The uplink-session thread *)

WorkerAt(place) == at = place /\ UNCHANGED <<runtime, deliveries>>

StopSeen == runtime.stopping

Check ==
    /\ WorkerAt("checking")
    /\ at' = IF StopSeen THEN "ending" ELSE "connecting"
    /\ UNCHANGED <<link, delay, commands, work, results, handled>>

Connect ==
    /\ WorkerAt("connecting")
    /\ link' = "connected"
    /\ delay' = 1
    /\ at' = "greeting"
    /\ UNCHANGED <<commands, work, results, handled>>

\* No answer, or a session that was not negotiated as asked.
ConnectFails ==
    /\ WorkerAt("connecting")
    /\ link' = "disconnected"
    /\ at' = "backing off"
    /\ UNCHANGED <<delay, commands, work, results, handled>>

\* The first status goes out before any command is looked at.
SendStatus ==
    /\ WorkerAt("greeting")
    /\ \/ link = "connected" /\ at' = "serving" /\ UNCHANGED link
       \/ at' = "backing off" /\ link' = "disconnected"
    /\ UNCHANGED <<delay, commands, work, results, handled>>

TakeCommand ==
    /\ WorkerAt("serving")
    /\ ~StopSeen
    /\ commands # <<>>
    /\ work' = [command |-> Head(commands), answer |-> "none"]
    /\ commands' = Tail(commands)
    /\ at' = "handling"
    /\ UNCHANGED <<link, delay, results, handled>>

Retained(id) == {i \in DOMAIN results : results[i].id = id}

\* Mutant of LeavesRoom: the new result is counted twice.
LeavesRoomForTwo(list, size) ==
    Len(list) + 1 < ResultCapacity /\ Bytes(list) <= ResultBytes - size

LeavesRoom(list, size) ==
    Len(list) < ResultCapacity /\ Bytes(list) <= ResultBytes - size

\* The oldest results go until the new one has room.
Kept(list, size) ==
    CHOOSE rest \in Suffixes(list) :
        /\ LeavesRoom(rest, size)
        /\ \A longer \in Suffixes(list) : LeavesRoom(longer, size) => Len(longer) <= Len(rest)

Answered(answer) ==
    /\ work' = [work EXCEPT !.answer = answer]
    /\ at' = "answering"
    /\ UNCHANGED <<link, delay, commands>>

ExecuteCommand(command, outcome) ==
    LET result == [id |-> command.id, content |-> command.content, outcome |-> outcome] IN
    /\ results' = Append(Kept(results, SizeOf(command)), result)
    /\ handled' = Append(handled, command)
    /\ Answered(outcome)

\* A payload that is no command is answered with an error; a commandId that is
\* retained is answered from the cache, or refused when its content differs;
\* every other command is executed and its outcome retained, whatever it is.
HandleCommand ==
    LET command == work.command  known == Retained(command.id) IN
    /\ WorkerAt("handling")
    /\ \/ /\ command = Garbled
          /\ Answered("invalid")
          /\ UNCHANGED <<results, handled>>
       \/ /\ \E i \in known :
                Answered(IF results[i].content = command.content THEN results[i].outcome ELSE "conflict")
          /\ UNCHANGED <<results, handled>>
       \/ /\ command # Garbled /\ known = {}
          /\ \E outcome \in CommandOutcomes : ExecuteCommand(command, outcome)

\* An answer that is not acknowledged ends the session.
SendResult ==
    /\ WorkerAt("answering")
    /\ work' = [command |-> Garbled, answer |-> "none"]
    /\ \/ link = "connected" /\ at' = "beating" /\ UNCHANGED link
       \/ at' = "leaving" /\ link' = "disconnected"
    /\ UNCHANGED <<delay, commands, results, handled>>

\* Mutant of NothingQueued: a round may skip the command that waits.
NothingUrgent == TRUE

NothingQueued == commands = <<>>

NoCommand ==
    /\ WorkerAt("serving")
    /\ ~StopSeen
    /\ NothingQueued
    /\ at' = "beating"
    /\ UNCHANGED <<link, delay, commands, work, results, handled>>

\* When it is time: a heartbeat, then the status.
Beat ==
    /\ WorkerAt("beating")
    /\ \/ at' = "waiting" /\ UNCHANGED link
       \/ at' = "leaving" /\ link' = "disconnected"
    /\ UNCHANGED <<delay, commands, work, results, handled>>

\* A command, the next heartbeat or a stop ends the wait.
Wake ==
    /\ WorkerAt("waiting")
    /\ at' = IF StopSeen \/ link # "connected" THEN "leaving" ELSE "serving"
    /\ UNCHANGED <<link, delay, commands, work, results, handled>>

StopServing ==
    /\ WorkerAt("serving")
    /\ StopSeen
    /\ at' = "leaving"
    /\ UNCHANGED <<link, delay, commands, work, results, handled>>

Leave ==
    /\ WorkerAt("leaving")
    /\ link' = "disconnected"
    /\ at' = IF StopSeen THEN "checking" ELSE "backing off"
    /\ UNCHANGED <<delay, commands, work, results, handled>>

BackOff ==
    /\ WorkerAt("backing off")
    /\ IF StopSeen THEN at' = "ending" /\ UNCHANGED delay
       ELSE /\ at' = "checking"
            /\ delay' = IF 2 * delay > MaximumDelay THEN MaximumDelay ELSE 2 * delay
    /\ UNCHANGED <<link, commands, work, results, handled>>

\* An exception ends the session for good: nothing starts the thread again.
Throw ==
    /\ at \in {"connecting", "greeting", "handling", "answering", "beating"}
    /\ at' = "ending"
    /\ UNCHANGED <<runtime, link, delay, commands, work, results, handled, deliveries>>

\* The commands that were not handled are dropped.
End ==
    /\ at = "ending"
    /\ at' = "ended"
    /\ runtime' = [runtime EXCEPT !.accepting = FALSE, !.handler = FALSE]
    /\ link' = "disconnected"
    /\ commands' = <<>>
    /\ UNCHANGED <<delay, work, results, handled, deliveries>>

UplinkWorker ==
    \/ Check \/ Connect \/ ConnectFails \/ SendStatus
    \/ TakeCommand \/ HandleCommand \/ SendResult
    \/ NoCommand \/ Beat \/ Wake \/ StopServing
    \/ Leave \/ BackOff \/ End

-----------------------------------------------------------------------------
UplinkInit ==
    /\ runtime = [started |-> FALSE, accepting |-> FALSE, handler |-> FALSE,
                  stopping |-> FALSE, cancelling |-> FALSE]
    /\ at = "none"
    /\ link = "disconnected"
    /\ delay = 1
    /\ commands = <<>> /\ results = <<>> /\ handled = <<>>
    /\ work = [command |-> Garbled, answer |-> "none"]
    /\ deliveries = 0

UplinkNext ==
    \/ \E command \in Commands : Enqueue(command)
    \/ AlarmFails
    \/ Start \/ StopUplink \/ CancelTransport
    \/ UplinkWorker \/ Throw

\* Every call of the transport and of the executor returns: each has a deadline
\* or a stop token.
UplinkSpec == UplinkInit /\ [][UplinkNext]_uplinkVars /\ WF_uplinkVars(UplinkWorker)

-----------------------------------------------------------------------------
(* Properties *)

\* A command the host delivers again, because its answer was lost, the session
\* broke or the queue held it twice, is not executed again, and its id does not
\* execute another content, unless later results had to push its own out of the
\* cache (runtime.cpp:459, 549; docs/uplink-protocol-v1.md:89).
RepeatedOnlyWhenForgotten ==
    \A i, j \in DOMAIN handled :
        i < j /\ handled[i].id = handled[j].id =>
            \/ j - i > ResultCapacity
            \/ Bytes(SubSeq(handled, i, j - 1)) > ResultBytes

\* While a session stays up every command that was accepted is handled, however
\* often heartbeats and status are due (runtime.cpp:676).
SessionServesQueue ==
    (link = "connected" /\ commands # <<>>) ~> (link # "connected" \/ commands = <<>>)

\* Once a stop is requested the thread ends, in a session, between two or while
\* one is being made (runtime.cpp:612, 665, 832).
StopEndsSession == runtime.stopping ~> at = "ended"

=============================================================================
