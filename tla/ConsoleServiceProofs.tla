-------------------------- MODULE ConsoleServiceProofs --------------------------
(***************************************************************************)
(* Theorems about what stands behind the console: its client, whatever the *)
(* program does in the client's callbacks; the commands that edit the      *)
(* configuration, for every number of threads; the repository that stores  *)
(* and applies it, for every number of components; the service as the      *)
(* service control manager holds it, however often it is restarted; the    *)
(* preview, for any cameras and connections; and the dashboard, however    *)
(* answers, pushes and losses of the connection interleave.                *)
(***************************************************************************)
EXTENDS IpcClient, SystemCommands, ConfigRepository, ServiceManagement, Preview, Dashboard,
        WellFoundedInduction, FiniteSetTheorems, SequenceTheorems, TLAPS

-----------------------------------------------------------------------------
(* The console's client *)

Clients ==
    [started : BOOLEAN, state : {"stopped", "connecting", "connected", "retryWait"},
     generation : Nat, socket : {"none", "open"}, timers : SUBSET Timers, retrying : BOOLEAN,
     requests : [Requests -> [status : {"new", "pending", "completed"}, generation : Nat,
                              completions : Nat]]]

\* Every request is completed once at most, and none is pending once the client
\* has stopped.
Counted(c) ==
    /\ c \in Clients
    /\ \A r \in Requests :
         /\ c.requests[r].status # "completed" => c.requests[r].completions = 0
         /\ c.requests[r].status = "completed" => c.requests[r].completions = 1
         /\ c.requests[r].status = "pending" => c.started

Timed(c) == Pending(c) # {} => "requests" \in c.timers

Accounted(c) == Counted(c) /\ Timed(c)

\* A started client waits for something that will happen.
Awake(c) ==
    c.started =>
        \/ c.state = "retryWait" /\ "reconnect" \in c.timers
        \/ c.state = "connecting" /\ c.socket = "open" /\ "connect" \in c.timers
        \/ c.state = "connected" /\ c.socket = "open"

ClientInv == Accounted(client) /\ Awake(client)

\* From c to d only requests and their timer have changed.
SameConnection(c, d) ==
    /\ d.started = c.started /\ d.state = c.state /\ d.socket = c.socket
    /\ \A timer \in {"reconnect", "connect", "stable"} : timer \in d.timers <=> timer \in c.timers

LEMMA SameStaysAwake ==
    ASSUME NEW c, NEW d, SameConnection(c, d), Awake(c)
    PROVE  Awake(d)
BY DEF SameConnection, Awake

LEMMA WithoutTimers ==
    ASSUME NEW c \in Clients, NEW timers \in SUBSET Timers
    PROVE  /\ Without(c, timers) \in Clients
           /\ Without(c, timers).timers = c.timers \ timers
           /\ \A field \in {"started", "state", "generation", "socket", "retrying", "requests"} :
                  Without(c, timers)[field] = c[field]
BY DEF Without, Clients

LEMMA WithTimer ==
    ASSUME NEW c \in Clients, NEW timer \in Timers
    PROVE  /\ With(c, timer) \in Clients
           /\ With(c, timer).timers = c.timers \cup {timer}
           /\ \A field \in {"started", "state", "generation", "socket", "retrying", "requests"} :
                  With(c, timer)[field] = c[field]
BY DEF With, Clients

\* Fields of a client other than its timers.
LEMMA SameRequestsCount ==
    ASSUME NEW c, NEW d \in Clients, Counted(c), d.requests = c.requests, d.started = c.started
    PROVE  Counted(d) /\ Pending(d) = Pending(c)
BY DEF Counted, Pending

LEMMA RequestTimerAccounts ==
    ASSUME NEW c, Counted(c)
    PROVE  Accounted(RequestTimer(c)) /\ SameConnection(c, RequestTimer(c))
           /\ RequestTimer(c).requests = c.requests /\ RequestTimer(c).generation = c.generation
<1>1. c \in Clients /\ {"requests"} \in SUBSET Timers /\ "requests" \in Timers
  BY DEF Counted, Timers
<1>2. CASE Pending(c) = {}
  <2> DEFINE d == Without(c, {"requests"})
  <2>1. /\ d \in Clients /\ d.requests = c.requests /\ d.started = c.started /\ d.state = c.state
        /\ d.socket = c.socket /\ d.timers = c.timers \ {"requests"} /\ d.generation = c.generation
    BY <1>1, WithoutTimers
  <2>2. RequestTimer(c) = d
    BY <1>2 DEF RequestTimer
  <2> HIDE DEF d
  <2>3. Counted(d) /\ Pending(d) = {}
    BY <1>2, <2>1, SameRequestsCount
  <2>4. QED BY <2>1, <2>2, <2>3 DEF Accounted, Timed, SameConnection
<1>3. CASE Pending(c) # {}
  <2> DEFINE d == With(c, "requests")
  <2>1. /\ d \in Clients /\ d.requests = c.requests /\ d.started = c.started /\ d.state = c.state
        /\ d.socket = c.socket /\ d.timers = c.timers \cup {"requests"} /\ d.generation = c.generation
    BY <1>1, WithTimer
  <2>2. RequestTimer(c) = d
    BY <1>3 DEF RequestTimer
  <2> HIDE DEF d
  <2>3. Counted(d)
    BY <2>1, SameRequestsCount
  <2>4. QED BY <2>1, <2>2, <2>3 DEF Accounted, Timed, SameConnection
<1>4. QED BY <1>2, <1>3

\* Requests that were not completed are.
LEMMA CompletedAccounts ==
    ASSUME NEW c, Counted(c), NEW S, \A r \in S \cap Requests : c.requests[r].status # "completed"
    PROVE  /\ Counted(Completed(c, S)) /\ SameConnection(c, Completed(c, S))
           /\ Completed(c, S).timers = c.timers /\ Completed(c, S).generation = c.generation
           /\ Pending(Completed(c, S)) \subseteq Pending(c) \ S
           /\ \A r \in Requests \ S : Completed(c, S).requests[r] = c.requests[r]
<1> DEFINE d == Completed(c, S)
           requests == [r \in Requests |->
                IF r \in S THEN [c.requests[r] EXCEPT !.status = "completed",
                                                      !.completions = c.requests[r].completions + 1]
                ELSE c.requests[r]]
<1>1. c \in Clients /\ c.requests \in [Requests -> [status : {"new", "pending", "completed"},
                                                  generation : Nat, completions : Nat]]
  BY DEF Counted, Clients
<1>2. ASSUME NEW r \in Requests, r \in S
      PROVE  /\ requests[r] \in [status : {"new", "pending", "completed"},
                                 generation : Nat, completions : Nat]
             /\ requests[r].status = "completed" /\ requests[r].completions = 1
  <2> DEFINE q == c.requests[r]
             n == q.completions + 1
  <2>1. q \in [status : {"new", "pending", "completed"}, generation : Nat, completions : Nat]
    BY <1>1
  <2>2. n \in Nat /\ n = 1
    BY <1>2, <2>1 DEF Counted
  <2>3. requests[r] = [q EXCEPT !.status = "completed", !.completions = n]
    BY <1>2
  <2> HIDE DEF q, n, requests
  <2>4. QED BY <2>1, <2>2, <2>3
<1>3. d = [c EXCEPT !.requests = requests]
  BY DEF Completed
<1>5. \A r \in Requests \ S : requests[r] = c.requests[r]
  OBVIOUS
<1>4. requests \in [Requests -> [status : {"new", "pending", "completed"},
                                 generation : Nat, completions : Nat]]
  <2>1. DOMAIN requests = Requests /\ requests = [r \in Requests |-> requests[r]]
    OBVIOUS
  <2>2. \A r \in Requests : requests[r] \in [status : {"new", "pending", "completed"},
                                             generation : Nat, completions : Nat]
    BY <1>1, <1>2, <1>5
  <2> HIDE DEF requests
  <2>3. QED BY <2>1, <2>2
<1> HIDE DEF requests
<1>6. /\ d \in Clients /\ d.requests = requests /\ d.started = c.started /\ d.state = c.state
      /\ d.socket = c.socket /\ d.timers = c.timers /\ d.generation = c.generation
  BY <1>1, <1>3, <1>4 DEF Clients
<1> HIDE DEF d
<1>7. \A r \in Requests \cap S : d.requests[r].status = "completed" /\ d.requests[r].completions = 1
  BY <1>2, <1>6
<1>8. \A r \in Requests \ S : d.requests[r] = c.requests[r]
  BY <1>5, <1>6
<1>9. Counted(d)
  <2> SUFFICES ASSUME NEW r \in Requests
               PROVE  /\ d.requests[r].status # "completed" => d.requests[r].completions = 0
                      /\ d.requests[r].status = "completed" => d.requests[r].completions = 1
                      /\ d.requests[r].status = "pending" => d.started
    BY <1>6 DEF Counted
  <2>1. CASE r \in S
    BY <1>7, <2>1
  <2>2. CASE r \notin S
    BY <1>6, <1>8, <2>2 DEF Counted
  <2>3. QED BY <2>1, <2>2
<1>10. Pending(d) \subseteq Pending(c) \ S
  BY <1>7, <1>8 DEF Pending
<1>11. SameConnection(c, d)
  BY <1>6 DEF SameConnection
<1>12. QED BY <1>6, <1>8, <1>9, <1>10, <1>11 DEF d

\* Requests that were pending are taken out.
Forgotten(c, S) ==
    [c EXCEPT !.requests = [r \in Requests |->
        IF r \in S THEN [c.requests[r] EXCEPT !.status = "new"] ELSE c.requests[r]]]

LEMMA ForgottenCounts ==
    ASSUME NEW c, Counted(c), NEW S, S \subseteq Pending(c)
    PROVE  /\ Counted(Forgotten(c, S)) /\ SameConnection(c, Forgotten(c, S))
           /\ Forgotten(c, S).timers = c.timers /\ Forgotten(c, S).generation = c.generation
           /\ \A r \in S : Forgotten(c, S).requests[r].status = "new"
           /\ \A r \in Requests \ S : Forgotten(c, S).requests[r] = c.requests[r]
<1> DEFINE d == Forgotten(c, S)
           requests == [r \in Requests |->
                IF r \in S THEN [c.requests[r] EXCEPT !.status = "new"] ELSE c.requests[r]]
<1>1. c \in Clients /\ c.requests \in [Requests -> [status : {"new", "pending", "completed"},
                                                  generation : Nat, completions : Nat]]
      /\ S \subseteq Requests
  BY DEF Counted, Clients, Pending
<1>2. requests \in [Requests -> [status : {"new", "pending", "completed"},
                                 generation : Nat, completions : Nat]]
  BY <1>1
<1>3. d = [c EXCEPT !.requests = requests]
  BY DEF Forgotten
<1>4. \A r \in S : requests[r].status = "new" /\ requests[r].completions = 0
  BY <1>1 DEF Counted, Pending
<1>5. \A r \in Requests \ S : requests[r] = c.requests[r]
  OBVIOUS
<1> HIDE DEF requests
<1>6. /\ d \in Clients /\ d.requests = requests /\ d.started = c.started /\ d.state = c.state
      /\ d.socket = c.socket /\ d.timers = c.timers /\ d.generation = c.generation
  BY <1>1, <1>2, <1>3 DEF Clients
<1> HIDE DEF d
<1>7. Counted(d)
  <2> SUFFICES ASSUME NEW r \in Requests
               PROVE  /\ d.requests[r].status # "completed" => d.requests[r].completions = 0
                      /\ d.requests[r].status = "completed" => d.requests[r].completions = 1
                      /\ d.requests[r].status = "pending" => d.started
    BY <1>6 DEF Counted
  <2>1. CASE r \in S
    BY <1>4, <1>6, <2>1
  <2>2. CASE r \notin S
    BY <1>5, <1>6, <2>2 DEF Counted
  <2>3. QED BY <2>1, <2>2
<1>8. SameConnection(c, d)
  BY <1>6 DEF SameConnection
<1>9. QED BY <1>4, <1>5, <1>6, <1>7, <1>8 DEF d

\* Requests that were pending are taken out, their timer is set and they are
\* completed: what fail_generation and the requests' timer do.
LEMMA EndedRequests ==
    ASSUME NEW c, Counted(c), NEW S, S \subseteq Pending(c)
    PROVE  LET d == Completed(RequestTimer(Forgotten(c, S)), S)
           IN  /\ Accounted(d) /\ SameConnection(c, d) /\ d.generation = c.generation
               /\ \A r \in Requests \ S : d.requests[r] = c.requests[r]
<1> DEFINE f == Forgotten(c, S)
           t == RequestTimer(f)
           d == Completed(t, S)
<1>1. /\ Counted(f) /\ SameConnection(c, f) /\ f.generation = c.generation
      /\ \A r \in S : f.requests[r].status = "new"
      /\ \A r \in Requests \ S : f.requests[r] = c.requests[r]
  BY ForgottenCounts
<1> HIDE DEF f
<1>2. Accounted(t) /\ SameConnection(f, t) /\ t.requests = f.requests /\ t.generation = f.generation
  BY <1>1, RequestTimerAccounts
<1> HIDE DEF t
<1>3. S \subseteq Requests /\ Counted(t) /\ \A r \in S \cap Requests : t.requests[r].status # "completed"
  BY <1>1, <1>2 DEF Accounted, Pending
<1>4. /\ Counted(d) /\ SameConnection(t, d) /\ d.timers = t.timers /\ d.generation = t.generation
      /\ Pending(d) \subseteq Pending(t)
      /\ \A r \in Requests \ S : d.requests[r] = t.requests[r]
  BY <1>3, CompletedAccounts
<1> HIDE DEF d
<1>5. Timed(d)
  BY <1>2, <1>4 DEF Accounted, Timed
<1>6. SameConnection(c, d)
  BY <1>1, <1>2, <1>4 DEF SameConnection
<1>7. /\ Accounted(d) /\ SameConnection(c, d) /\ d.generation = c.generation
      /\ \A r \in Requests \ S : d.requests[r] = c.requests[r]
  BY <1>1, <1>2, <1>4, <1>5, <1>6 DEF Accounted
<1>8. QED BY <1>7 DEF d, t, f

\* The fields a handler sets besides requests and timers.
LEMMA OtherFields ==
    ASSUME NEW c, Accounted(c), NEW d \in Clients, d.requests = c.requests, d.started = c.started,
           "requests" \in c.timers => "requests" \in d.timers
    PROVE  Accounted(d)
BY SameRequestsCount DEF Accounted, Timed

LEMMA StoppedAccounts ==
    ASSUME NEW c, Accounted(c)
    PROVE  Accounted(Stopped(c)) /\ ~Stopped(c).started
<1>1. c \in Clients /\ Counted(c) /\ Pending(c) \subseteq Requests
  BY DEF Accounted, Counted, Pending
<1>2. CASE ~c.started
  BY <1>1, <1>2 DEF Stopped
<1>3. CASE c.started
  <2> DEFINE e == [c EXCEPT !.started = FALSE, !.timers = {}, !.socket = "none",
                            !.state = "stopped", !.retrying = FALSE]
             f == Completed(c, Pending(c))
             d == Completed(e, Pending(c))
  <2>1. Stopped(c) = d
    BY <1>3 DEF Stopped
  <2>2. e \in Clients /\ e.requests = c.requests /\ e.started = FALSE
    BY <1>1 DEF Clients
  <2> HIDE DEF e
  <2>3. Counted(f) /\ Pending(f) = {}
    <3>1. \A r \in Pending(c) \cap Requests : c.requests[r].status # "completed"
      BY DEF Pending
    <3>2. Counted(f) /\ Pending(f) \subseteq Pending(c) \ Pending(c)
      BY <1>1, <3>1, CompletedAccounts
    <3>3. QED BY <3>2
  <2>4. d.requests = f.requests
    BY <1>1, <2>2 DEF Completed, Clients
  <2>5. d = [e EXCEPT !.requests = d.requests]
    BY <2>2 DEF Completed, Clients
  <2>6. f.requests \in [Requests -> [status : {"new", "pending", "completed"},
                                     generation : Nat, completions : Nat]]
    BY <2>3 DEF Counted, Clients
  <2> HIDE DEF d, f
  <2>7. d \in Clients /\ d.started = FALSE
    BY <2>2, <2>4, <2>5, <2>6 DEF Clients
  <2>8. Counted(d) /\ Pending(d) = {}
    BY <2>3, <2>4, <2>7 DEF Counted, Pending
  <2>9. QED BY <2>1, <2>7, <2>8 DEF Accounted, Timed
<1>4. QED BY <1>2, <1>3

LEMMA OneForgotten ==
    ASSUME NEW c \in Clients, NEW r \in Requests
    PROVE  [c EXCEPT !.requests[r].status = "new"] = Forgotten(c, {r})
<1> DEFINE one == [c.requests EXCEPT ![r] = [c.requests[r] EXCEPT !.status = "new"]]
           all == [s \in Requests |->
                IF s \in {r} THEN [c.requests[s] EXCEPT !.status = "new"] ELSE c.requests[s]]
<1>1. c.requests \in [Requests -> [status : {"new", "pending", "completed"},
                                   generation : Nat, completions : Nat]]
  BY DEF Clients
<1>2. one = all
  BY <1>1
<1>3. [c EXCEPT !.requests[r].status = "new"] = [c EXCEPT !.requests = one]
  OBVIOUS
<1>4. Forgotten(c, {r}) = [c EXCEPT !.requests = all]
  BY DEF Forgotten
<1>5. QED BY <1>2, <1>3, <1>4

LEMMA CancelledAccounts ==
    ASSUME NEW c, Accounted(c), NEW r \in Requests
    PROVE  Accounted(Cancelled(c, r)) /\ SameConnection(c, Cancelled(c, r))
<1>1. Counted(c) /\ c \in Clients
  BY DEF Accounted, Counted
<1>2. CASE r \in Pending(c)
  <2>1. Cancelled(c, r) = Completed(RequestTimer(Forgotten(c, {r})), {r})
    BY <1>1, <1>2, OneForgotten DEF Cancelled
  <2>2. {r} \subseteq Pending(c)
    BY <1>2
  <2>3. QED BY <1>1, <2>1, <2>2, EndedRequests
<1>3. CASE r \notin Pending(c)
  BY <1>3 DEF Cancelled, SameConnection
<1>4. QED BY <1>2, <1>3

LEMMA GenerationFailedAccounts ==
    ASSUME NEW c, Accounted(c), NEW generation
    PROVE  /\ Accounted(GenerationFailed(c, generation))
           /\ SameConnection(c, GenerationFailed(c, generation))
           /\ GenerationFailed(c, generation).generation = c.generation
           /\ \A r \in Requests : c.requests[r].status = "new" =>
                  GenerationFailed(c, generation).requests[r] = c.requests[r]
<1>1. Counted(c) /\ OfGeneration(c, generation) \subseteq Pending(c)
  BY DEF Accounted, OfGeneration
<1>2. GenerationFailed(c, generation) =
        Completed(RequestTimer(Forgotten(c, OfGeneration(c, generation))), OfGeneration(c, generation))
  BY DEF GenerationFailed, Forgotten
<1>3. \A r \in Requests : c.requests[r].status = "new" => r \notin OfGeneration(c, generation)
  BY DEF OfGeneration, Pending
<1>4. QED BY <1>1, <1>2, <1>3, EndedRequests

\* The connection is given up: what is left is to tell the program and to wait.
LEMMA LostAccounts ==
    ASSUME NEW c, Accounted(c)
    PROVE  /\ Accounted(Lost(c)) /\ Lost(c).started = c.started
           /\ Lost(c).requests = c.requests /\ Lost(c).generation = c.generation
           /\ c.started => Lost(c).state = "retryWait"
           /\ ~c.started \/ c.state = "retryWait" => Lost(c) = c
<1>1. c \in Clients
  BY DEF Accounted, Counted
<1>2. CASE ~c.started \/ c.state = "retryWait"
  BY <1>2 DEF Lost
<1>3. CASE c.started /\ c.state # "retryWait"
  <2> DEFINE w == Without(c, {"connect", "stable"})
             d == [w EXCEPT !.socket = "none", !.state = "retryWait", !.retrying = TRUE]
  <2>1. {"connect", "stable"} \in SUBSET Timers
    BY DEF Timers
  <2>2. /\ w \in Clients /\ w.requests = c.requests /\ w.started = c.started
        /\ w.timers = c.timers \ {"connect", "stable"} /\ w.generation = c.generation
    BY <1>1, <2>1, WithoutTimers
  <2> HIDE DEF w
  <2>3. /\ d \in Clients /\ d.requests = c.requests /\ d.started = c.started
        /\ d.timers = w.timers /\ d.generation = c.generation /\ d.state = "retryWait"
    BY <2>2 DEF Clients
  <2>4. Lost(c) = d
    BY <1>3 DEF Lost, w
  <2> HIDE DEF d
  <2>5. Accounted(d)
    BY <2>2, <2>3, OtherFields
  <2>6. QED BY <1>3, <2>3, <2>4, <2>5
<1>4. QED BY <1>2, <1>3

LEMMA AskedAccounts ==
    ASSUME NEW c, Accounted(c)
    PROVE  /\ Accounted(AskedToRetry(c)) /\ AskedToRetry(c).started = c.started
           /\ AskedToRetry(c).state = c.state
           /\ AskedToRetry(c).requests = c.requests /\ AskedToRetry(c).generation = c.generation
           /\ c.state = "retryWait" \/ Awake(c) => Awake(AskedToRetry(c))
<1>1. c \in Clients /\ "reconnect" \in Timers
  BY DEF Accounted, Counted, Timers
<1>2. CASE c.started /\ c.state = "retryWait"
  <2> DEFINE d == With(c, "reconnect")
  <2>1. /\ d \in Clients /\ d.requests = c.requests /\ d.started = c.started /\ d.state = c.state
        /\ d.timers = c.timers \cup {"reconnect"} /\ d.generation = c.generation
    BY <1>1, WithTimer
  <2>2. AskedToRetry(c) = d
    BY <1>2 DEF AskedToRetry
  <2> HIDE DEF d
  <2>3. Accounted(d)
    BY <2>1, OtherFields
  <2>4. Awake(d)
    BY <1>2, <2>1 DEF Awake
  <2>5. QED BY <2>1, <2>2, <2>3, <2>4
<1>3. CASE ~(c.started /\ c.state = "retryWait")
  <2>1. AskedToRetry(c) = c
    BY <1>3 DEF AskedToRetry
  <2>2. c.state = "retryWait" => Awake(c)
    BY <1>3 DEF Awake
  <2>3. QED BY <2>1, <2>2
<1>4. QED BY <1>2, <1>3

\* A request is sent: it is pending, or the connection is given up.
LEMMA SentAccounts ==
    ASSUME NEW c, Accounted(c), NEW r \in Requests, NEW outcome
    PROVE  /\ Accounted(Sent(c, r, outcome))
           /\ Awake(c) => Awake(Sent(c, r, outcome))
           /\ c.state # "connected" => Sent(c, r, outcome) = c
<1>1. CASE \/ ~c.started \/ c.state # "connected"
           \/ Cardinality(Pending(c)) >= MaximumPending
           \/ c.requests[r].status # "new"
  BY <1>1 DEF Sent
<1>2. CASE ~(\/ ~c.started \/ c.state # "connected"
             \/ Cardinality(Pending(c)) >= MaximumPending
             \/ c.requests[r].status # "new")
  <2> DEFINE asks == AskedToRetry(Lost(c))
             failed == GenerationFailed(asks, c.generation)
             after == IF outcome = "written" THEN c ELSE failed
             pending == [after EXCEPT !.requests[r].status = "pending",
                                      !.requests[r].generation = c.generation]
  <2>0. c.started /\ c.state = "connected" /\ c.requests[r].status = "new"
        /\ c \in Clients /\ c.generation \in Nat
    BY <1>2 DEF Accounted, Counted, Clients
  <2>1. Sent(c, r, outcome) = IF outcome = "refused" THEN after ELSE RequestTimer(pending)
    BY <1>2 DEF Sent
  <2>2. /\ Accounted(asks) /\ asks.started /\ asks.state = "retryWait" /\ Awake(asks)
        /\ asks.requests = c.requests
    BY <2>0, LostAccounts, AskedAccounts
  <2> HIDE DEF asks
  <2>3. /\ Accounted(failed) /\ Awake(failed) /\ failed.started
        /\ failed.requests[r] = c.requests[r]
    BY <2>0, <2>2, GenerationFailedAccounts, SameStaysAwake DEF SameConnection
  <2> HIDE DEF failed
  <2>4. /\ Accounted(after) /\ after.started /\ after.requests[r] = c.requests[r]
        /\ Awake(c) => Awake(after)
    BY <2>0, <2>3
  <2> HIDE DEF after
  <2>5. Counted(pending) /\ SameConnection(after, pending)
    <3> DEFINE q == [after.requests[r] EXCEPT !.status = "pending", !.generation = c.generation]
               requests == [after.requests EXCEPT ![r] = q]
    <3>1. after \in Clients
          /\ after.requests \in [Requests -> [status : {"new", "pending", "completed"},
                                              generation : Nat, completions : Nat]]
      BY <2>4 DEF Accounted, Counted, Clients
    <3>2. /\ q \in [status : {"new", "pending", "completed"}, generation : Nat, completions : Nat]
          /\ q.status = "pending" /\ q.completions = after.requests[r].completions
      BY <2>0, <3>1
    <3>3. after.requests[r].completions = 0
      BY <2>0, <2>4 DEF Accounted, Counted
    <3>4. pending = [after EXCEPT !.requests = requests]
      BY <3>1 DEF Clients
    <3> HIDE DEF q
    <3>5. /\ requests \in [Requests -> [status : {"new", "pending", "completed"},
                                        generation : Nat, completions : Nat]]
          /\ requests[r] = q /\ \A s \in Requests \ {r} : requests[s] = after.requests[s]
      BY <3>1, <3>2
    <3> HIDE DEF requests
    <3>6. /\ pending \in Clients /\ pending.requests = requests /\ pending.started = after.started
          /\ pending.state = after.state /\ pending.socket = after.socket
          /\ pending.timers = after.timers
      BY <3>1, <3>4, <3>5 DEF Clients
    <3> HIDE DEF pending
    <3>7. ASSUME NEW s \in Requests
          PROVE  /\ requests[s].status # "completed" => requests[s].completions = 0
                 /\ requests[s].status = "completed" => requests[s].completions = 1
      <4>1. CASE s = r
        BY <3>2, <3>3, <3>5, <4>1
      <4>2. CASE s # r
        BY <2>4, <3>5, <4>2 DEF Accounted, Counted
      <4>3. QED BY <4>1, <4>2
    <3>8. Counted(pending)
      BY <2>4, <3>6, <3>7 DEF Counted
    <3>9. QED BY <3>6, <3>8 DEF SameConnection
  <2> HIDE DEF pending
  <2>6. Accounted(RequestTimer(pending)) /\ SameConnection(pending, RequestTimer(pending))
    BY <2>5, RequestTimerAccounts
  <2>7. Awake(c) => Awake(RequestTimer(pending))
    BY <2>4, <2>5, <2>6, SameStaysAwake
  <2>8. QED BY <2>0, <2>1, <2>4, <2>6, <2>7
<1>3. QED BY <1>1, <1>2

\* A callback keeps the client in order whatever it does, and outside a
\* connection it changes only requests or stops the client.
LEMMA ReactAccounts ==
    ASSUME NEW c, Accounted(c), NEW reaction \in Reactions
    PROVE  /\ Accounted(React(c, reaction))
           /\ Awake(c) => Awake(React(c, reaction))
           /\ c.state # "connected" =>
                  ~React(c, reaction).started \/ SameConnection(c, React(c, reaction))
<1>1. CASE reaction.kind = "none"
  BY <1>1 DEF React, SameConnection
<1>2. CASE reaction.kind = "stop"
  BY <1>2, StoppedAccounts DEF React, Awake
<1>3. CASE reaction.kind = "send"
  <2>1. reaction.request \in Requests
    BY <1>3 DEF Reactions
  <2>2. React(c, reaction) = Sent(c, reaction.request, reaction.outcome)
    BY <1>3 DEF React
  <2>3. QED BY <2>1, <2>2, SentAccounts DEF SameConnection
<1>4. CASE reaction.kind = "cancel"
  <2>1. reaction.request \in Requests
    BY <1>4 DEF Reactions
  <2>2. React(c, reaction) = Cancelled(c, reaction.request)
    BY <1>4 DEF React
  <2>3. QED BY <2>1, <2>2, CancelledAccounts, SameStaysAwake
<1>5. QED BY <1>1, <1>2, <1>3, <1>4 DEF Reactions

LEMMA ScheduledAccounts ==
    ASSUME NEW c, Accounted(c), NEW reaction \in Reactions, c.state = "retryWait" => Awake(c)
    PROVE  Accounted(ScheduledReconnect(c, reaction)) /\ Awake(ScheduledReconnect(c, reaction))
<1>1. CASE ~c.started \/ c.state = "retryWait"
  BY <1>1 DEF ScheduledReconnect, Awake
<1>2. CASE ~(~c.started \/ c.state = "retryWait")
  <2> DEFINE lost == Lost(c)
             told == React(lost, reaction)
  <2>1. ScheduledReconnect(c, reaction) = AskedToRetry(told)
    BY <1>2 DEF ScheduledReconnect
  <2>2. Accounted(lost) /\ lost.state = "retryWait"
    BY <1>2, LostAccounts
  <2> HIDE DEF lost
  <2>3. /\ Accounted(told)
        /\ ~told.started \/ told.state = "retryWait"
    BY <2>2, ReactAccounts DEF SameConnection
  <2> HIDE DEF told
  <2>4. told.state = "retryWait" \/ Awake(told)
    BY <2>3 DEF Awake
  <2>5. QED BY <2>1, <2>3, <2>4, AskedAccounts
<1>3. QED BY <1>1, <1>2

LEMMA FailedGenerationAccounts ==
    ASSUME NEW c, Accounted(c), Awake(c), NEW generation, NEW reaction \in Reactions
    PROVE  Accounted(FailedGeneration(c, generation, reaction))
           /\ Awake(FailedGeneration(c, generation, reaction))
<1> DEFINE failed == GenerationFailed(c, generation)
<1>1. Accounted(failed) /\ Awake(failed)
  BY GenerationFailedAccounts, SameStaysAwake
<1>2. FailedGeneration(c, generation, reaction) \in {failed, React(failed, reaction)}
  BY DEF FailedGeneration
<1> HIDE DEF failed
<1>3. QED BY <1>1, <1>2, ReactAccounts

LEMMA ConnectedAccounts ==
    ASSUME NEW c, Accounted(c), c.socket = "open", NEW told \in Reactions
    PROVE  Accounted(Connected(c, told)) /\ Awake(Connected(c, told))
<1> DEFINE w == Without(c, {"connect"})
           d == [w EXCEPT !.state = "connected"]
           up == React(d, told)
<1>1. c \in Clients /\ {"connect"} \in SUBSET Timers /\ "stable" \in Timers
  BY DEF Accounted, Counted, Timers
<1>2. /\ w \in Clients /\ w.requests = c.requests /\ w.started = c.started
      /\ w.timers = c.timers \ {"connect"} /\ w.socket = "open"
  BY <1>1, WithoutTimers
<1> HIDE DEF w
<1>3. /\ d \in Clients /\ d.requests = c.requests /\ d.started = c.started
      /\ d.timers = w.timers /\ d.socket = "open" /\ d.state = "connected"
  BY <1>2 DEF Clients
<1>4. Connected(c, told) =
        IF up.started /\ up.state = "connected" THEN With(up, "stable") ELSE up
  BY DEF Connected, w
<1> HIDE DEF d
<1>5. Accounted(d)
  BY <1>2, <1>3, OtherFields
<1>6. Awake(d)
  BY <1>3 DEF Awake
<1>7. Accounted(up) /\ Awake(up)
  BY <1>5, <1>6, ReactAccounts
<1> HIDE DEF up
<1>8. Accounted(With(up, "stable")) /\ Awake(With(up, "stable"))
  <2> DEFINE s == With(up, "stable")
  <2>1. up \in Clients
    BY <1>7 DEF Accounted, Counted
  <2>2. /\ s \in Clients /\ s.requests = up.requests /\ s.started = up.started
        /\ s.timers = up.timers \cup {"stable"} /\ s.socket = up.socket /\ s.state = up.state
    BY <1>1, <2>1, WithTimer
  <2> HIDE DEF s
  <2>3. Accounted(s)
    BY <1>7, <2>2, OtherFields
  <2>4. Awake(s)
    BY <1>7, <2>2 DEF Awake
  <2>5. QED BY <2>3, <2>4 DEF s
<1>9. QED BY <1>4, <1>7, <1>8

LEMMA WithConnectAccounts ==
    ASSUME NEW c, Accounted(c), Awake(c) \/ (c.state = "connecting" /\ c.socket = "open")
    PROVE  Accounted(With(c, "connect")) /\ Awake(With(c, "connect"))
<1> DEFINE d == With(c, "connect")
<1>1. c \in Clients /\ "connect" \in Timers
  BY DEF Accounted, Counted, Timers
<1>2. /\ d \in Clients /\ d.requests = c.requests /\ d.started = c.started
      /\ d.timers = c.timers \cup {"connect"} /\ d.socket = c.socket /\ d.state = c.state
  BY <1>1, WithTimer
<1> HIDE DEF d
<1>3. Accounted(d)
  BY <1>2, OtherFields
<1>4. Awake(d)
  BY <1>2 DEF Awake
<1>5. QED BY <1>3, <1>4 DEF d

LEMMA ConnectNowAccounts ==
    ASSUME NEW c, Accounted(c), NEW told \in Reactions, NEW next \in Reactions,
           NEW outcome \in Outcomes
    PROVE  Accounted(ConnectNow(c, told, outcome, next)) /\ Awake(ConnectNow(c, told, outcome, next))
<1> DEFINE w == Without(c, Timers \ {"requests"})
           d == [w EXCEPT !.socket = "none", !.state = "connecting",
                          !.generation = w.generation + 1]
           notified == React(d, told)
           dialled == [notified EXCEPT !.socket = "open"]
           made == Connected(dialled, next)
           gaveUp == ScheduledReconnect(dialled, next)
<1>1. c \in Clients /\ Timers \ {"requests"} \in SUBSET Timers /\ "requests" \in Timers
  BY DEF Accounted, Counted, Timers
<1>2. /\ w \in Clients /\ w.requests = c.requests /\ w.started = c.started
      /\ w.timers = c.timers \ (Timers \ {"requests"})
  BY <1>1, WithoutTimers
<1> HIDE DEF w
<1>3. /\ d \in Clients /\ d.requests = c.requests /\ d.started = c.started
      /\ d.timers = w.timers /\ d.state = "connecting"
  <2>1. w.generation + 1 \in Nat
    BY <1>2 DEF Clients
  <2>2. QED BY <1>2, <2>1 DEF Clients
<1>4. ConnectNow(c, told, outcome, next) =
        IF ~notified.started THEN notified
        ELSE With(CASE outcome = "later" -> dialled
                    [] outcome = "made" -> made
                    [] outcome = "failed" -> gaveUp, "connect")
  BY DEF ConnectNow, w
<1> HIDE DEF d
<1>5. Accounted(d)
  BY <1>2, <1>3, OtherFields
<1>6. Accounted(notified) /\ (~notified.started \/ notified.state = "connecting")
  BY <1>3, <1>5, ReactAccounts DEF SameConnection
<1> HIDE DEF notified
<1>7. CASE ~notified.started
  BY <1>4, <1>6, <1>7 DEF Awake
<1>8. CASE notified.started
  <2>1. /\ dialled \in Clients /\ dialled.requests = notified.requests
        /\ dialled.started = notified.started /\ dialled.timers = notified.timers
        /\ dialled.socket = "open" /\ dialled.state = "connecting"
    BY <1>6, <1>8 DEF Accounted, Counted, Clients
  <2> HIDE DEF dialled
  <2>2. Accounted(dialled)
    BY <1>6, <2>1, OtherFields
  <2>3. Accounted(made) /\ Awake(made)
    BY <2>1, <2>2, ConnectedAccounts
  <2>4. Accounted(gaveUp) /\ Awake(gaveUp)
    BY <2>1, <2>2, ScheduledAccounts
  <2> HIDE DEF made, gaveUp
  <2>5. PICK dial \in {dialled, made, gaveUp} :
            ConnectNow(c, told, outcome, next) = With(dial, "connect")
    BY <1>4, <1>8 DEF Outcomes
  <2>6. Accounted(dial) /\ (Awake(dial) \/ (dial.state = "connecting" /\ dial.socket = "open"))
    BY <2>1, <2>2, <2>3, <2>4, <2>5
  <2>7. QED BY <2>5, <2>6, WithConnectAccounts
<1>9. QED BY <1>7, <1>8

LEMMA SettledAccounts ==
    ASSUME NEW c, Accounted(c)
    PROVE  Accounted(Settled(c)) /\ (Awake(c) => Awake(Settled(c)))
           /\ Settled(c).requests = c.requests
<1>1. c \in Clients
  BY DEF Accounted, Counted
<1>2. CASE c.retrying
  <2> DEFINE w == Without(c, {"stable"})
             d == [w EXCEPT !.retrying = FALSE]
  <2>1. {"stable"} \in SUBSET Timers
    BY DEF Timers
  <2>2. /\ w \in Clients /\ w.requests = c.requests /\ w.started = c.started
        /\ w.timers = c.timers \ {"stable"} /\ w.socket = c.socket /\ w.state = c.state
    BY <1>1, <2>1, WithoutTimers
  <2>3. Settled(c) = d
    BY <1>2 DEF Settled
  <2> HIDE DEF w
  <2>4. /\ d \in Clients /\ d.requests = c.requests /\ d.started = c.started
        /\ d.timers = w.timers /\ d.socket = c.socket /\ d.state = c.state
    BY <2>2 DEF Clients
  <2> HIDE DEF d
  <2>5. Accounted(d)
    BY <2>2, <2>4, OtherFields
  <2>6. Awake(c) => Awake(d)
    BY <2>2, <2>4 DEF Awake
  <2>7. QED BY <2>3, <2>4, <2>5, <2>6
<1>3. CASE ~c.retrying
  BY <1>3 DEF Settled
<1>4. QED BY <1>2, <1>3

LEMMA InitClientInv == ClientInit => ClientInv
<1> SUFFICES ASSUME ClientInit PROVE ClientInv
  OBVIOUS
<1>1. client.requests = [r \in Requests |-> [status |-> "new", generation |-> 0, completions |-> 0]]
      /\ client.started = FALSE /\ client.timers = {}
  BY DEF ClientInit
<1>2. client \in Clients
  BY DEF ClientInit, Clients
<1>3. Counted(client) /\ Pending(client) = {}
  BY <1>1, <1>2 DEF Counted, Pending
<1>4. QED BY <1>1, <1>3 DEF ClientInv, Accounted, Timed, Awake

\* A timer is off when its handler runs.
LEMMA FiredTimer ==
    ASSUME Accounted(client), NEW timer \in Timers
    PROVE  /\ Fired(timer) \in Clients /\ Fired(timer).requests = client.requests
           /\ Fired(timer).started = client.started /\ Fired(timer).state = client.state
           /\ Fired(timer).socket = client.socket
           /\ Fired(timer).timers = client.timers \ {timer}
           /\ Counted(Fired(timer))
           /\ timer # "requests" => Accounted(Fired(timer))
<1>1. client \in Clients /\ {timer} \in SUBSET Timers /\ Counted(client)
  BY DEF Accounted, Counted
<1>2. /\ Fired(timer) \in Clients /\ Fired(timer).requests = client.requests
      /\ Fired(timer).started = client.started /\ Fired(timer).state = client.state
      /\ Fired(timer).socket = client.socket
      /\ Fired(timer).timers = client.timers \ {timer}
  BY <1>1, WithoutTimers DEF Fired
<1>3. Counted(Fired(timer))
  BY <1>1, <1>2, SameRequestsCount
<1>4. timer # "requests" => Accounted(Fired(timer))
  BY <1>2, OtherFields
<1>5. QED BY <1>2, <1>3, <1>4

LEMMA TimersKeepClientInv ==
    ASSUME ClientInv, TimerNext
    PROVE  ClientInv'
<1>0. Accounted(client) /\ Awake(client) /\ Counted(client)
  BY DEF ClientInv, Accounted
<1>1. ASSUME NEW told \in Reactions, NEW next \in Reactions, NEW outcome \in Outcomes,
             ReconnectTimer(told, outcome, next)
      PROVE  ClientInv'
  <2>1. Accounted(Fired("reconnect")) /\ Fired("reconnect").started = client.started
    BY <1>0, FiredTimer DEF Timers
  <2>2. CASE client.started
    BY <1>1, <2>1, <2>2, ConnectNowAccounts DEF ReconnectTimer, ClientInv
  <2>3. CASE ~client.started
    BY <1>1, <2>1, <2>3 DEF ReconnectTimer, ClientInv, Awake
  <2>4. QED BY <2>2, <2>3
<1>2. ASSUME NEW told \in Reactions, ConnectTimer(told)
      PROVE  ClientInv'
  <2> DEFINE f == Fired("connect")
  <2>1. /\ Accounted(f) /\ f.started = client.started /\ f.state = client.state
        /\ f.socket = client.socket /\ f.timers = client.timers \ {"connect"}
    BY <1>0, FiredTimer DEF Timers
  <2>2. client' = IF client.state = "connecting" THEN ScheduledReconnect(f, told) ELSE f
    BY <1>2 DEF ConnectTimer
  <2> HIDE DEF f
  <2>3. CASE client.state = "connecting"
    BY <2>1, <2>2, <2>3, ScheduledAccounts DEF ClientInv
  <2>4. CASE client.state # "connecting"
    <3>1. Awake(f)
      BY <1>0, <2>1, <2>4 DEF Awake
    <3>2. QED BY <2>1, <2>2, <2>4, <3>1 DEF ClientInv
  <2>5. QED BY <2>3, <2>4
<1>3. CASE StableTimer
  <2> DEFINE f == Fired("stable")
  <2>1. /\ Accounted(f) /\ f.started = client.started /\ f.state = client.state
        /\ f.socket = client.socket /\ f.timers = client.timers \ {"stable"}
    BY <1>0, FiredTimer DEF Timers
  <2>2. client' = Settled(f)
    BY <1>3 DEF StableTimer
  <2> HIDE DEF f
  <2>3. Awake(f)
    BY <1>0, <2>1 DEF Awake
  <2>4. QED BY <2>1, <2>2, <2>3, SettledAccounts DEF ClientInv
<1>4. ASSUME NEW expired \in SUBSET Requests, NEW completed \in Reactions,
             RequestsTimer(expired, completed)
      PROVE  ClientInv'
  <2> DEFINE f == Fired("requests")
             takes == RequestTimer(Forgotten(f, expired))
             d == Completed(takes, expired)
  <2>1. /\ Counted(f) /\ f.requests = client.requests /\ f.started = client.started
        /\ f.state = client.state /\ f.socket = client.socket
        /\ f.timers = client.timers \ {"requests"}
    BY <1>0, FiredTimer DEF Timers
  <2>2. expired \subseteq Pending(f)
    BY <1>4, <2>1 DEF RequestsTimer, Pending
  <2>3. [f EXCEPT !.requests = [r \in Requests |->
             IF r \in expired THEN [client.requests[r] EXCEPT !.status = "new"]
             ELSE client.requests[r]]] = Forgotten(f, expired)
    BY <2>1 DEF Forgotten
  <2>4. client' = IF expired = {} THEN takes ELSE React(d, completed)
    BY <1>4, <2>3 DEF RequestsTimer
  <2>5. Awake(f)
    BY <1>0, <2>1 DEF Awake
  <2> HIDE DEF f
  <2>6. Accounted(takes) /\ Awake(takes)
    <3>1. Counted(Forgotten(f, expired)) /\ SameConnection(f, Forgotten(f, expired))
      BY <2>1, <2>2, ForgottenCounts
    <3>2. QED BY <2>5, <3>1, RequestTimerAccounts, SameStaysAwake
  <2>7. Accounted(d) /\ Awake(d)
    BY <2>1, <2>2, <2>5, EndedRequests, SameStaysAwake
  <2> HIDE DEF takes, d
  <2>8. QED BY <2>4, <2>6, <2>7, ReactAccounts DEF ClientInv
<1>5. QED BY <1>1, <1>2, <1>3, <1>4 DEF TimerNext

LEMMA SocketKeepsClientInv ==
    ASSUME ClientInv, SocketNext
    PROVE  ClientInv'
<1>0. Accounted(client) /\ Awake(client) /\ Counted(client) /\ client \in Clients
  BY DEF ClientInv, Accounted, Counted
<1>1. ASSUME NEW told \in Reactions, ConnectionMade(told) \/ AttemptFails(told)
      PROVE  ClientInv'
  <2>1. client.socket = "open" /\ client' \in {Connected(client, told), ScheduledReconnect(client, told)}
    BY <1>1 DEF ConnectionMade, AttemptFails
  <2>2. QED BY <1>0, <2>1, ConnectedAccounts, ScheduledAccounts DEF ClientInv
<1>2. ASSUME NEW told \in Reactions, NEW completed \in Reactions, ConnectionBreaks(told, completed)
      PROVE  ClientInv'
  <2>1. Accounted(ScheduledReconnect(client, told)) /\ Awake(ScheduledReconnect(client, told))
    BY <1>0, ScheduledAccounts
  <2>2. client' = FailedGeneration(ScheduledReconnect(client, told), client.generation, completed)
    BY <1>2 DEF ConnectionBreaks, ConnectionLost
  <2>3. QED BY <2>1, <2>2, FailedGenerationAccounts DEF ClientInv
<1>3. ASSUME NEW r \in Requests, NEW completed \in Reactions, ResponseArrives(r, completed)
      PROVE  ClientInv'
  <2> DEFINE s == Settled(client)
             d == Completed(RequestTimer(Forgotten(s, {r})), {r})
  <2>1. Accounted(s) /\ Awake(s) /\ s.requests = client.requests /\ s \in Clients
    BY <1>0, SettledAccounts DEF Accounted, Counted
  <2>2. CASE r \in Pending(client)
    <3>1. [s EXCEPT !.requests[r].status = "new"] = Forgotten(s, {r})
      BY <2>1, OneForgotten
    <3>2. client' = React(Completed(RequestTimer([s EXCEPT !.requests[r].status = "new"]), {r}),
                          completed)
      BY <1>3, <2>2 DEF ResponseArrives
    <3>3. client' = React(d, completed)
      BY <3>1, <3>2
    <3>4. {r} \subseteq Pending(s)
      BY <2>1, <2>2 DEF Pending
    <3> HIDE DEF s
    <3>5. Accounted(d) /\ Awake(d)
      BY <2>1, <3>4, EndedRequests, SameStaysAwake DEF Accounted
    <3> HIDE DEF d
    <3>6. QED BY <3>3, <3>5, ReactAccounts DEF ClientInv
  <2>3. CASE r \notin Pending(client)
    BY <1>3, <2>1, <2>3 DEF ResponseArrives, ClientInv
  <2>4. QED BY <2>2, <2>3
<1>4. ASSUME NEW received \in Reactions, PushArrives(received)
      PROVE  ClientInv'
  BY <1>0, <1>4, SettledAccounts, ReactAccounts DEF PushArrives, ClientInv
<1>5. QED BY <1>1, <1>2, <1>3, <1>4 DEF SocketNext

LEMMA NextClientInv == ClientInv /\ [ClientNext]_clientVars => ClientInv'
<1> SUFFICES ASSUME ClientInv, [ClientNext]_clientVars PROVE ClientInv'
  OBVIOUS
<1>0. Accounted(client) /\ Awake(client) /\ client \in Clients
  BY DEF ClientInv, Accounted, Counted
<1>1. CASE Sending
  <2>1. \E r \in Requests, outcome \in {"written", "refused", "lost"} :
            client' \in {Sent(client, r, outcome), Cancelled(client, r)}
    BY <1>1 DEF Sending, SendRequest, CancelRequest
  <2>2. QED BY <1>0, <2>1, SentAccounts, CancelledAccounts, SameStaysAwake DEF ClientInv
<1>2. CASE Stop
  BY <1>0, <1>2, StoppedAccounts DEF Stop, ClientInv, Awake
<1>3. ASSUME NEW told \in Reactions, NEW next \in Reactions, NEW outcome \in Outcomes,
             Start(told, outcome, next)
      PROVE  ClientInv'
  <2> DEFINE d == [client EXCEPT !.started = TRUE, !.retrying = FALSE]
  <2>1. /\ d \in Clients /\ d.requests = client.requests /\ d.timers = client.timers
        /\ d.started = TRUE
    BY <1>0 DEF Clients
  <2>2. client' = ConnectNow(d, told, outcome, next)
    BY <1>3 DEF Start
  <2> HIDE DEF d
  <2>3. Accounted(d)
    BY <1>0, <2>1 DEF Accounted, Counted, Timed, Pending
  <2>4. QED BY <2>2, <2>3, ConnectNowAccounts DEF ClientInv
<1>4. CASE UNCHANGED clientVars
  BY <1>4 DEF clientVars, ClientInv
<1>5. QED
  BY <1>1, <1>2, <1>3, <1>4, TimersKeepClientInv, SocketKeepsClientInv DEF ClientNext

\* Whatever the program does inside the client's callbacks, a started client
\* waits for a timer or a connection.
THEOREM NeverAsleepAlways == ClientSpec => []NeverAsleep
<1>1. ClientInv => NeverAsleep
  BY DEF ClientInv, Awake, NeverAsleep
<1>2. QED BY InitClientInv, NextClientInv, <1>1, PTL DEF ClientSpec

\* Whatever the program does inside them, a request is completed once at most,
\* and until it is the timer that expires it runs.
THEOREM CompletedOnceAlways == ClientSpec => []CompletedOnce
<1>1. ClientInv => CompletedOnce
  BY DEF ClientInv, Accounted, Counted, Timed, Pending, CompletedOnce
<1>2. QED BY InitClientInv, NextClientInv, <1>1, PTL DEF ClientSpec

-----------------------------------------------------------------------------
(* The commands that edit the configuration *)

Documents ==
    [revision : Nat, cameras : [Slots -> ParameterValues \cup {Unbound}],
     sections : [EditableSections -> SectionValues]]

Devices == [Slots -> ParameterValues \cup {Closed}]

SaveCommands == [step : {"save"}, part : {"all"} \cup EditableSections \cup Slots,
                 expected : Int, copy : Documents]

CameraCommands == [step : {"bindConnect", "bindDisconnect", "validate", "saveCamera"},
                   slot : Slots, expected : Int, copy : Documents]

DeviceCommands == [step : {"connect", "apply"}, slot : Slots, parameters : ParameterValues]

Commands == {NoCommand} \cup SaveCommands \cup CameraCommands \cup DeviceCommands

\* A copy with the revision of the stored configuration is that configuration
\* except for the part its command edits; other copies are older.
OwnPart(copy, part) ==
    /\ \A slot \in Slots \ {part} : copy.cameras[slot] = document.cameras[slot]
    /\ \A s \in EditableSections \ {part} : copy.sections[s] = document.sections[s]

OwnCamera(copy, slot) ==
    /\ copy.sections = document.sections
    /\ \A other \in Slots \ {slot} : copy.cameras[other] = document.cameras[other]

Sound(c) ==
    /\ c \in SaveCommands =>
         /\ c.copy.revision <= document.revision
         /\ c.part # "all" /\ c.copy.revision = document.revision => OwnPart(c.copy, c.part)
    /\ c \in CameraCommands =>
         /\ c.copy.revision <= document.revision
         /\ c.copy.revision = document.revision => OwnCamera(c.copy, c.slot)
         /\ c.step \in {"validate", "saveCamera"} => c.copy.cameras[c.slot] \in ParameterValues

CopiesInv ==
    /\ document \in Documents /\ opened \in Devices
    /\ doing \in [CommandThreads -> Commands]
    /\ \A t \in CommandThreads : Sound(doing[t])

\* The kinds of commands are told apart by their step.
LEMMA CommandKinds ==
    /\ \A c \in Commands :
         /\ c.step = "save" => c \in SaveCommands
         /\ c.step \in {"bindConnect", "bindDisconnect", "validate", "saveCamera"} => c \in CameraCommands
         /\ c.step \in {"connect", "apply"} => c \in DeviceCommands
    /\ NoCommand.step = "idle" /\ NoCommand \in Commands /\ Sound(NoCommand)
    /\ \A c \in DeviceCommands : c \in Commands /\ Sound(c)
BY DEF Commands, NoCommand, SaveCommands, CameraCommands, DeviceCommands, Sound

LEMMA InitCopiesInv == CommandsInit => CopiesInv
<1> SUFFICES ASSUME CommandsInit PROVE CopiesInv
  OBVIOUS
<1>1. document \in Documents
  BY DEF CommandsInit, Documents
<1>2. opened \in Devices
  BY DEF CommandsInit, Devices
<1>3. doing = [t \in CommandThreads |-> NoCommand]
  BY DEF CommandsInit
<1>4. QED BY <1>1, <1>2, <1>3, CommandKinds DEF CopiesInv

\* A thread goes on with its command and saves nothing.
LEMMA ProceedsKeepsCopiesInv ==
    ASSUME CopiesInv, NEW t \in CommandThreads, NEW c \in Commands, Sound(c),
           Proceeds(t, c) \/ doing' = doing, document' = document, opened' \in Devices
    PROVE  CopiesInv'
<1>1. doing \in [CommandThreads -> Commands] /\ document \in Documents
      /\ \A s \in CommandThreads : Sound(doing[s])
  BY DEF CopiesInv
<1>2. doing' \in [CommandThreads -> Commands]
      /\ \A s \in CommandThreads : doing'[s] = c \/ doing'[s] = doing[s]
  BY <1>1 DEF Proceeds
<1>3. \A s \in CommandThreads : Sound(doing[s])' <=> Sound(doing'[s])
  BY DEF Sound, OwnPart, OwnCamera
<1>4. \A s \in CommandThreads : Sound(doing'[s])
  BY <1>1, <1>2
<1>5. QED BY <1>1, <1>2, <1>3, <1>4 DEF CopiesInv

\* A thread saves its copy as the next revision: every other copy is older.
LEMMA SavingKeepsCopiesInv ==
    ASSUME CopiesInv, NEW t \in CommandThreads, NEW c \in {NoCommand} \cup DeviceCommands,
           Proceeds(t, c), document' \in Documents, opened' = opened,
           document' # document => document'.revision = document.revision + 1
    PROVE  CopiesInv'
<1>1. /\ doing \in [CommandThreads -> Commands] /\ document \in Documents /\ opened \in Devices
      /\ \A s \in CommandThreads : Sound(doing[s])
  BY DEF CopiesInv
<1>2. c \in Commands /\ Sound(c)
  BY CommandKinds
<1>3. CASE document' = document
  BY <1>1, <1>2, <1>3, ProceedsKeepsCopiesInv
<1>4. CASE document' # document
  <2>1. document'.revision = document.revision + 1 /\ document.revision \in Nat
    BY <1>1, <1>4 DEF Documents
  <2>2. doing' \in [CommandThreads -> Commands]
        /\ \A s \in CommandThreads : doing'[s] = c \/ doing'[s] = doing[s]
    BY <1>1, <1>2 DEF Proceeds
  <2>3. ASSUME NEW s \in CommandThreads
        PROVE  Sound(doing[s])'
    <3>1. CASE doing'[s] = c
      <4>1. c \notin SaveCommands /\ c \notin CameraCommands
        BY DEF NoCommand, SaveCommands, CameraCommands, DeviceCommands
      <4>2. QED BY <3>1, <4>1 DEF Sound
    <3>2. CASE doing'[s] = doing[s]
      <4> DEFINE d == doing[s]
      <4>1. Sound(d) /\ doing'[s] = d
        BY <1>1, <3>2
      <4> HIDE DEF d
      <4>2. ASSUME d \in SaveCommands \cup CameraCommands
            PROVE  d.copy.revision \in Nat /\ d.copy.revision <= document.revision
        BY <4>1, <4>2 DEF Sound, SaveCommands, CameraCommands, Documents
      <4>3. d \in SaveCommands \cup CameraCommands =>
                d.copy.revision <= document'.revision /\ d.copy.revision # document'.revision
        BY <2>1, <4>2
      <4>4. QED BY <4>1, <4>3 DEF Sound
    <3>3. QED BY <2>2, <3>1, <3>2
  <2>4. QED BY <1>1, <2>2, <2>3 DEF CopiesInv
<1>5. QED BY <1>3, <1>4

\* What the repository stores when it accepts a copy, and when it does not.
LEMMA SavedCopy ==
    ASSUME CopiesInv, NEW expected, NEW copy \in Documents, NEW accepted \in BOOLEAN
    PROVE  LET saved == Saved(expected, copy, accepted)
           IN  /\ saved \in Documents
               /\ saved # document => /\ saved.revision = document.revision + 1
                                      /\ copy.revision = document.revision
                                      /\ saved.cameras = copy.cameras
                                      /\ saved.sections = copy.sections
<1>1. document \in Documents /\ document.revision + 1 \in Nat
  BY DEF CopiesInv, Documents
<1>2. [copy EXCEPT !.revision = document.revision + 1] \in Documents
  BY <1>1 DEF Documents
<1>3. /\ [copy EXCEPT !.revision = document.revision + 1].revision = document.revision + 1
      /\ [copy EXCEPT !.revision = document.revision + 1].cameras = copy.cameras
      /\ [copy EXCEPT !.revision = document.revision + 1].sections = copy.sections
  BY DEF Documents
<1>4. \/ Saved(expected, copy, accepted) = document
      \/ /\ Saved(expected, copy, accepted) = [copy EXCEPT !.revision = document.revision + 1]
         /\ copy.revision = document.revision
  BY DEF Saved, CurrentRevision
<1>5. QED BY <1>1, <1>2, <1>3, <1>4

\* How a command begins and goes on.
LEMMA EditKeepsCopiesInv ==
    ASSUME CopiesInv, NEW t \in CommandThreads, EditNext(t)
    PROVE  CopiesInv'
<1>0. /\ document \in Documents /\ opened \in Devices /\ document.revision \in Nat
      /\ doing[t] \in Commands /\ Sound(doing[t])
  BY DEF CopiesInv, Documents
<1>1. ASSUME NEW section \in EditableSections, NEW value \in SectionValues,
             NEW expected \in Expected, ReplacesSection(t, section, value, expected)
      PROVE  CopiesInv'
  <2> DEFINE copy == [document EXCEPT !.sections[section] = value]
             c == [step |-> "save", part |-> section, expected |-> expected, copy |-> copy]
  <2>1. /\ copy \in Documents /\ copy.revision = document.revision
        /\ copy.cameras = document.cameras
        /\ \A s \in EditableSections \ {section} : copy.sections[s] = document.sections[s]
    BY <1>0 DEF Documents
  <2>2. expected \in Int
    BY <1>0 DEF Expected
  <2>3. Proceeds(t, c) /\ UNCHANGED <<document, opened>>
    BY <1>1 DEF ReplacesSection
  <2> HIDE DEF copy
  <2>4. c \in SaveCommands /\ c \notin CameraCommands
    BY <2>1, <2>2 DEF SaveCommands, CameraCommands
  <2>5. c.copy = copy /\ c.part = section
    OBVIOUS
  <2> HIDE DEF c
  <2>6. OwnPart(copy, section)
    BY <2>1 DEF OwnPart
  <2>7. Sound(c)
    BY <1>0, <2>1, <2>4, <2>5, <2>6 DEF Sound
  <2>8. QED BY <1>0, <2>3, <2>4, <2>7, ProceedsKeepsCopiesInv DEF Commands
<1>2. ASSUME NEW content \in Replacements, NEW expected \in Expected,
             ReplaceConfig(t, content, expected)
      PROVE  CopiesInv'
  <2> DEFINE copy == [revision |-> expected, cameras |-> content.cameras,
                      sections |-> content.sections]
             c == [step |-> "save", part |-> "all", expected |-> expected, copy |-> copy]
  <2>1. expected \in Nat /\ expected <= document.revision
    BY <1>0 DEF Expected
  <2>2. /\ content.cameras \in [Slots -> ParameterValues \cup {Unbound}]
        /\ content.sections \in [EditableSections -> SectionValues]
    BY DEF Replacements
  <2>3. copy \in Documents /\ copy.revision = expected
    BY <2>1, <2>2 DEF Documents
  <2>4. Proceeds(t, c) /\ UNCHANGED <<document, opened>>
    BY <1>2 DEF ReplaceConfig
  <2> HIDE DEF copy
  <2>5. c \in SaveCommands /\ c \notin CameraCommands
    BY <2>1, <2>3 DEF SaveCommands, CameraCommands
  <2>6. c.copy = copy /\ c.part = "all"
    OBVIOUS
  <2> HIDE DEF c
  <2>7. Sound(c)
    BY <2>1, <2>3, <2>5, <2>6 DEF Sound
  <2>8. QED BY <1>0, <2>4, <2>5, <2>7, ProceedsKeepsCopiesInv DEF Commands
<1>3. CASE Save(t)
  <2>1. doing[t].step = "save" /\ doing[t] \in SaveCommands /\ doing[t].copy \in Documents
    BY <1>0, <1>3, CommandKinds DEF Save, Executes, SaveCommands
  <2>2. PICK accepted \in BOOLEAN :
            document' = Saved(doing[t].expected, doing[t].copy, accepted)
    BY <1>3 DEF Save
  <2>3. /\ document' \in Documents
        /\ document' # document => document'.revision = document.revision + 1
    BY <2>1, <2>2, SavedCopy
  <2>4. Proceeds(t, NoCommand) /\ opened' = opened
    BY <1>3 DEF Save, Ends, Proceeds
  <2>5. QED BY <2>3, <2>4, SavingKeepsCopiesInv
<1>4. QED
  BY <1>1, <1>2, <1>3 DEF EditNext, UpdateUplinkConfig, UpdateStorageConfig,
     UpdateAlgorithmConfig, UpdateEventConfig, EditableSections

LEMMA CameraKeepsCopiesInv ==
    ASSUME CopiesInv, NEW t \in CommandThreads, CameraCommandNext(t)
    PROVE  CopiesInv'
<1> DEFINE d == doing[t]
<1>0. /\ document \in Documents /\ opened \in Devices /\ document.revision \in Nat
      /\ d \in Commands /\ Sound(d) /\ NoCommand \in Commands /\ Sound(NoCommand)
  BY CommandKinds DEF CopiesInv, Documents
<1>1. \A slot \in Slots : \A value \in ParameterValues \cup {Closed} :
          [opened EXCEPT ![slot] = value] \in Devices
  BY <1>0 DEF Devices
<1>2. \A slot \in Slots, factory \in ParameterValues : Opened(slot, factory) \in ParameterValues
  BY <1>0 DEF Opened, Devices
<1>3. ASSUME NEW slot \in Slots, NEW expected \in Expected, BeginBind(t, slot, expected)
      PROVE  CopiesInv'
  <2> DEFINE c == [step |-> "bindConnect", slot |-> slot, expected |-> expected, copy |-> document]
  <2>1. Proceeds(t, c) /\ UNCHANGED <<document, opened>>
    BY <1>3 DEF BeginBind
  <2>2. c \in CameraCommands /\ c \notin SaveCommands
    BY <1>0 DEF CameraCommands, SaveCommands, Expected
  <2>3. c.step = "bindConnect" /\ c.copy = document
    OBVIOUS
  <2> HIDE DEF c
  <2>4. Sound(c)
    BY <1>0, <2>2, <2>3 DEF Sound, OwnCamera
  <2>5. QED BY <1>0, <2>1, <2>2, <2>4, ProceedsKeepsCopiesInv DEF Commands
<1>4. ASSUME NEW slot \in Slots, BeginConnect(t, slot) \/ DisconnectCamera(t, slot)
      PROVE  CopiesInv'
  <2>1. CASE BeginConnect(t, slot)
    <3> DEFINE c == [step |-> "connect", slot |-> slot, parameters |-> document.cameras[slot]]
    <3>1. document.cameras[slot] \in ParameterValues
      BY <1>0, <2>1 DEF BeginConnect, Documents
    <3>2. c \in DeviceCommands
      BY <3>1 DEF DeviceCommands
    <3>3. Proceeds(t, c) /\ UNCHANGED <<document, opened>>
      BY <2>1 DEF BeginConnect
    <3> HIDE DEF c
    <3>4. QED BY <1>0, <3>2, <3>3, CommandKinds, ProceedsKeepsCopiesInv
  <2>2. CASE DisconnectCamera(t, slot)
    <3>1. opened' \in Devices /\ UNCHANGED <<document, doing>>
      BY <1>1, <2>2 DEF DisconnectCamera
    <3>2. QED BY <1>0, <3>1, ProceedsKeepsCopiesInv
  <2>3. QED BY <1>4, <2>1, <2>2
<1>5. ASSUME NEW slot \in Slots, NEW parameters \in ParameterValues, NEW expected \in Expected,
             BeginUpdateCamera(t, slot, parameters, expected)
      PROVE  CopiesInv'
  <2> DEFINE copy == [document EXCEPT !.cameras[slot] = parameters]
             c == [step |-> "validate", slot |-> slot, expected |-> expected, copy |-> copy]
  <2>1. /\ copy \in Documents /\ copy.revision = document.revision
        /\ copy.sections = document.sections /\ copy.cameras[slot] = parameters
        /\ \A other \in Slots \ {slot} : copy.cameras[other] = document.cameras[other]
    BY <1>0 DEF Documents
  <2>2. Proceeds(t, c) /\ UNCHANGED <<document, opened>>
    BY <1>5 DEF BeginUpdateCamera
  <2> HIDE DEF copy
  <2>3. c \in CameraCommands /\ c \notin SaveCommands
    BY <1>0, <2>1 DEF CameraCommands, SaveCommands, Expected
  <2>4. c.copy = copy /\ c.slot = slot
    OBVIOUS
  <2> HIDE DEF c
  <2>5. OwnCamera(copy, slot)
    BY <2>1 DEF OwnCamera
  <2>6. Sound(c)
    BY <1>0, <2>1, <2>3, <2>4, <2>5 DEF Sound
  <2>7. QED BY <1>0, <2>2, <2>3, <2>6, ProceedsKeepsCopiesInv DEF Commands
<1>6. CASE BindConnect(t)
  <2>1. d \in CameraCommands /\ d.slot \in Slots /\ d.copy \in Documents
    BY <1>0, <1>6, CommandKinds DEF BindConnect, Executes, CameraCommands
  <2>2. CASE Ends(t) /\ opened' = opened
    BY <1>0, <1>6, <2>2, ProceedsKeepsCopiesInv DEF BindConnect, Ends, Proceeds
  <2>3. ASSUME NEW factory \in ParameterValues,
               opened' = [opened EXCEPT ![d.slot] = Opened(d.slot, factory)],
               Proceeds(t, [d EXCEPT !.step = "bindDisconnect",
                                     !.copy.cameras[d.slot] = Opened(d.slot, factory)])
        PROVE  CopiesInv'
    <3> DEFINE value == Opened(d.slot, factory)
               copy == [d.copy EXCEPT !.cameras[d.slot] = value]
               c == [d EXCEPT !.step = "bindDisconnect", !.copy = copy]
    <3>1. value \in ParameterValues
      BY <1>2, <2>1
    <3>2. c = [d EXCEPT !.step = "bindDisconnect", !.copy.cameras[d.slot] = value]
      BY <2>1 DEF CameraCommands
    <3>3. Proceeds(t, c)
      BY <2>3, <3>2
    <3> HIDE DEF value
    <3>4. /\ copy \in Documents /\ copy.revision = d.copy.revision
          /\ copy.sections = d.copy.sections
          /\ \A other \in Slots \ {d.slot} : copy.cameras[other] = d.copy.cameras[other]
      BY <2>1, <3>1 DEF Documents
    <3> HIDE DEF copy
    <3>5. c \in CameraCommands /\ c.step = "bindDisconnect" /\ c.slot = d.slot /\ c.copy = copy
      BY <2>1, <3>4 DEF CameraCommands
    <3>6. c \notin SaveCommands
      BY <3>5 DEF SaveCommands
    <3> HIDE DEF c
    <3>7. Sound(c)
      BY <1>0, <2>1, <3>4, <3>5, <3>6 DEF Sound, OwnCamera
    <3>8. opened' \in Devices
      BY <1>1, <2>1, <2>3, <3>1 DEF value
    <3>9. document' = document
      BY <1>6 DEF BindConnect
    <3>10. QED BY <3>3, <3>5, <3>7, <3>8, <3>9, ProceedsKeepsCopiesInv DEF Commands
  <2>4. QED BY <1>6, <2>2, <2>3 DEF BindConnect
<1>7. CASE BindDisconnect(t)
  <2>1. /\ d \in CameraCommands /\ d.step = "bindDisconnect" /\ d.slot \in Slots
        /\ d.copy \in Documents /\ d.expected \in Int
    BY <1>0, <1>7, CommandKinds DEF BindDisconnect, Executes, CameraCommands
  <2>2. CASE Ends(t) /\ opened' = opened
    BY <1>0, <1>7, <2>2, ProceedsKeepsCopiesInv DEF BindDisconnect, Ends, Proceeds
  <2> DEFINE c == [step |-> "save", part |-> d.slot, expected |-> d.expected, copy |-> d.copy]
  <2>3. CASE opened' = [opened EXCEPT ![d.slot] = Closed] /\ Proceeds(t, c)
    <3>1. c \in SaveCommands /\ c.copy = d.copy /\ c.part = d.slot
      BY <2>1 DEF SaveCommands
    <3>2. c \notin CameraCommands
      BY DEF CameraCommands
    <3>3. opened' \in Devices /\ document' = document
      BY <1>1, <1>7, <2>1, <2>3 DEF BindDisconnect
    <3>4. Proceeds(t, c)
      BY <2>3
    <3> HIDE DEF c
    <3>5. OwnCamera(d.copy, d.slot) => OwnPart(d.copy, d.slot)
      BY DEF OwnCamera, OwnPart
    <3>6. Sound(c)
      BY <1>0, <2>1, <3>1, <3>2, <3>5 DEF Sound
    <3>7. QED BY <3>1, <3>3, <3>4, <3>6, ProceedsKeepsCopiesInv DEF Commands
  <2>4. QED BY <1>7, <2>2, <2>3 DEF BindDisconnect
<1>8. CASE ConnectCamera(t)
  <2>1. d \in DeviceCommands /\ d.slot \in Slots
    BY <1>0, <1>8, CommandKinds DEF ConnectCamera, Executes, DeviceCommands
  <2>2. CASE Ends(t) /\ opened' = opened
    BY <1>0, <1>8, <2>2, ProceedsKeepsCopiesInv DEF ConnectCamera, Ends, Proceeds
  <2>3. ASSUME NEW factory \in ParameterValues,
               opened' = [opened EXCEPT ![d.slot] = Opened(d.slot, factory)],
               Proceeds(t, [d EXCEPT !.step = "apply"])
        PROVE  CopiesInv'
    <3>1. [d EXCEPT !.step = "apply"] \in DeviceCommands
      BY <2>1 DEF DeviceCommands
    <3>2. opened' \in Devices /\ document' = document
      BY <1>1, <1>2, <1>8, <2>1, <2>3 DEF ConnectCamera
    <3>3. QED BY <2>3, <3>1, <3>2, CommandKinds, ProceedsKeepsCopiesInv
  <2>4. QED BY <1>8, <2>2, <2>3 DEF ConnectCamera
<1>9. CASE ApplyParameters(t)
  <2>1. d \in DeviceCommands /\ d.slot \in Slots /\ d.parameters \in ParameterValues
    BY <1>0, <1>9, CommandKinds DEF ApplyParameters, Executes, DeviceCommands
  <2>2. opened' \in Devices /\ document' = document /\ Proceeds(t, NoCommand)
    BY <1>0, <1>1, <1>9, <2>1 DEF ApplyParameters, Ends, Proceeds
  <2>3. QED BY <1>0, <2>2, ProceedsKeepsCopiesInv
<1>10. CASE ValidateCamera(t)
  <2>1. d \in CameraCommands /\ d.step = "validate"
    BY <1>0, <1>10, CommandKinds DEF ValidateCamera, Executes
  <2> DEFINE c == [d EXCEPT !.step = "saveCamera"]
  <2>2. /\ c \in CameraCommands /\ c.step = "saveCamera" /\ c.slot = d.slot /\ c.copy = d.copy
    BY <2>1 DEF CameraCommands
  <2>3. c \notin SaveCommands
    BY <2>2 DEF SaveCommands
  <2>4. Proceeds(t, NoCommand) \/ Proceeds(t, c)
    BY <1>10 DEF ValidateCamera, Ends, Proceeds
  <2>5. UNCHANGED <<document, opened>>
    BY <1>10 DEF ValidateCamera
  <2> HIDE DEF c
  <2>6. Sound(c)
    BY <1>0, <2>1, <2>2, <2>3 DEF Sound
  <2>7. QED BY <1>0, <2>2, <2>4, <2>5, <2>6, ProceedsKeepsCopiesInv DEF Commands
<1>11. CASE SaveCamera(t)
  <2>1. /\ d \in CameraCommands /\ d.step = "saveCamera" /\ d.copy \in Documents /\ d.slot \in Slots
        /\ d.copy.cameras[d.slot] \in ParameterValues
    BY <1>0, <1>11, CommandKinds DEF SaveCamera, Executes, CameraCommands, Sound
  <2>2. PICK accepted \in BOOLEAN :
            /\ document' = Saved(d.expected, d.copy, accepted)
            /\ IF SaveSucceeds(d.expected, d.copy, accepted)
               THEN Proceeds(t, [step |-> "apply", slot |-> d.slot,
                                 parameters |-> d.copy.cameras[d.slot]])
               ELSE Ends(t)
    BY <1>11 DEF SaveCamera
  <2>3. /\ document' \in Documents
        /\ document' # document => document'.revision = document.revision + 1
    BY <2>1, <2>2, SavedCopy
  <2>4. [step |-> "apply", slot |-> d.slot, parameters |-> d.copy.cameras[d.slot]] \in DeviceCommands
    BY <2>1 DEF DeviceCommands
  <2>5. opened' = opened
    BY <1>11 DEF SaveCamera
  <2>6. \E c \in {NoCommand} \cup DeviceCommands : Proceeds(t, c)
    BY <2>2, <2>4 DEF Ends, Proceeds
  <2>7. QED BY <2>3, <2>5, <2>6, SavingKeepsCopiesInv
<1>12. QED
  BY <1>3, <1>4, <1>5, <1>6, <1>7, <1>8, <1>9, <1>10, <1>11 DEF CameraCommandNext

LEMMA NextCopiesInv == CopiesInv /\ [CommandsNext]_commandVars => CopiesInv'
<1> SUFFICES ASSUME CopiesInv, [CommandsNext]_commandVars PROVE CopiesInv'
  OBVIOUS
<1>1. CASE StopCommands \/ UNCHANGED commandVars
  <2>1. UNCHANGED <<document, opened, doing>>
    BY <1>1 DEF StopCommands, commandVars
  <2>2. QED BY <2>1 DEF CopiesInv, Sound, OwnPart, OwnCamera
<1>2. QED
  BY <1>1, EditKeepsCopiesInv, CameraKeepsCopiesInv DEF CommandsNext

\* Whatever two threads edit at the same time, what a command saves differs from
\* the stored configuration in the part the command is about only.
THEOREM EditsOwnPartAlways == CommandsSpec => EditsOwnPart
<1> DEFINE Edited == document' # document =>
                        \E t \in CommandThreads : doing'[t] # doing[t] /\ Untouched(t)
<1>1. ASSUME CopiesInv, [CommandsNext]_commandVars
      PROVE  [Edited]_commandVars
  <2> SUFFICES ASSUME document' # document
               PROVE  \E t \in CommandThreads : doing'[t] # doing[t] /\ Untouched(t)
    BY DEF commandVars
  <2>1. PICK t \in CommandThreads : Save(t) \/ SaveCamera(t)
    BY <1>1 DEF CommandsNext, EditNext, CameraCommandNext, UpdateUplinkConfig,
       UpdateStorageConfig, UpdateAlgorithmConfig, UpdateEventConfig, ReplacesSection,
       ReplaceConfig, BeginBind, BindConnect, BindDisconnect, BeginConnect, ConnectCamera,
       ApplyParameters, DisconnectCamera, BeginUpdateCamera, ValidateCamera, StopCommands,
       commandVars
  <2> DEFINE d == doing[t]
  <2>2. d \in Commands /\ Sound(d) /\ doing \in [CommandThreads -> Commands]
    BY <1>1 DEF CopiesInv
  <2>3. CASE Save(t)
    <3>1. d.step = "save" /\ d \in SaveCommands /\ d.copy \in Documents
      BY <2>2, <2>3, CommandKinds DEF Save, Executes, SaveCommands
    <3>2. PICK accepted \in BOOLEAN : document' = Saved(d.expected, d.copy, accepted)
      BY <2>3 DEF Save
    <3>3. /\ d.copy.revision = document.revision
          /\ document'.cameras = d.copy.cameras /\ document'.sections = d.copy.sections
      BY <1>1, <3>1, <3>2, SavedCopy
    <3>4. d.part # "all" => OwnPart(d.copy, d.part)
      BY <2>2, <3>1, <3>3 DEF Sound
    <3>5. Untouched(t)
      BY <3>1, <3>3, <3>4 DEF Untouched, OwnPart
    <3>6. doing'[t] = NoCommand
      BY <2>2, <2>3 DEF Save, Ends
    <3>7. QED BY <3>1, <3>5, <3>6, CommandKinds
  <2>4. CASE SaveCamera(t)
    <3>1. d.step = "saveCamera" /\ d \in CameraCommands /\ d.copy \in Documents
      BY <2>2, <2>4, CommandKinds DEF SaveCamera, Executes, CameraCommands
    <3>2. PICK accepted \in BOOLEAN : document' = Saved(d.expected, d.copy, accepted)
      BY <2>4 DEF SaveCamera
    <3>3. /\ d.copy.revision = document.revision
          /\ document'.cameras = d.copy.cameras /\ document'.sections = d.copy.sections
      BY <1>1, <3>1, <3>2, SavedCopy
    <3>4. OwnCamera(d.copy, d.slot)
      BY <2>2, <3>1, <3>3 DEF Sound
    <3>5. Untouched(t)
      BY <3>1, <3>3, <3>4 DEF Untouched, OwnCamera
    <3>6. doing'[t].step # "saveCamera"
      BY <2>2, <2>4, CommandKinds DEF SaveCamera, Ends, Proceeds
    <3>7. QED BY <3>1, <3>5, <3>6
  <2>5. QED BY <2>1, <2>3, <2>4
<1>2. QED BY InitCopiesInv, NextCopiesInv, <1>1, PTL DEF CommandsSpec, EditsOwnPart

-----------------------------------------------------------------------------
(* The configuration repository *)

Revisions == [revision : Int, content : Configurations]

ConfigFiles ==
    [readable : BOOLEAN, schema : {7, 8}, revision : Int, content : Configurations]

Loads == {"down", "keepOriginal", "migrate", "restore"}

ConfigTypes ==
    /\ file \in ConfigFiles
    /\ history \subseteq Revisions
    /\ \E limit \in Int : \A h \in history : h.revision <= limit
    /\ process \in Loads \cup {"idle", "apply", "keepHistory", "replace", "commit", "putBack"}
    /\ stored \in Revisions
    /\ effective \in Configurations
    /\ DOMAIN applied = 1..Appliers
    /\ change \in [reloads : BOOLEAN, candidate : Revisions, effective : Configurations]
    /\ edited \in BOOLEAN /\ rollbackFailed \in BOOLEAN
    /\ process = "restore" => history # {}

\* Unless one could not roll back, the components have the effective contents
\* up to the last of them and those of the change after it.
AppliersInv ==
    ~rollbackFailed =>
        /\ process \in {"idle", "apply", "putBack"} =>
             \A a \in 1..Appliers : applied[a] = effective
        /\ process \in {"keepHistory", "replace", "commit"} =>
             \A a \in 1..Appliers : applied[a] = change.effective

\* The file has the stored configuration until it is replaced, and then the
\* candidate.
StoredInv ==
    ~edited /\ ~rollbackFailed /\ process \notin Loads =>
        /\ file.readable
        /\ OnFile = IF process = "commit" THEN change.candidate ELSE stored

RepositoryInv == ConfigTypes /\ AppliersInv /\ StoredInv

LEMMA LeastNatural ==
    ASSUME NEW S, S \subseteq Nat, S # {}
    PROVE  \E m \in S : \A n \in S : m <= n
<1> DEFINE less == {pair \in Nat \X Nat : pair[1] < pair[2]}
<1>1. IsWellFoundedOn(less, Nat)
  BY NatLessThanWellFounded DEF OpToRel
<1> HIDE DEF less
<1>2. \E m \in S : \A n \in S : <<n, m>> \notin less
  BY <1>1, WFMin
<1>3. ASSUME NEW m \in S, NEW n \in S, <<n, m>> \notin less
      PROVE  m <= n
  <2>1. m \in Nat /\ n \in Nat /\ <<n, m>> \in Nat \X Nat
    OBVIOUS
  <2>2. ~(n < m)
    BY <1>3, <2>1 DEF less
  <2>3. QED BY <2>1, <2>2
<1>4. QED BY <1>2, <1>3

\* A history that is not empty has a newest revision.
LEMMA NewestIsKept == ConfigTypes /\ history # {} => Newest \in history
<1> SUFFICES ASSUME ConfigTypes, history # {} PROVE Newest \in history
  OBVIOUS
<1>1. PICK limit \in Int : \A h \in history : h.revision <= limit
  BY DEF ConfigTypes
<1>2. \A h \in history : h.revision \in Int
  BY DEF ConfigTypes, Revisions
<1> DEFINE ages == {limit - h.revision : h \in history}
<1>3. ages \subseteq Nat /\ ages # {}
  BY <1>1, <1>2
<1>4. PICK least \in ages : \A age \in ages : least <= age
  <2> HIDE DEF ages
  <2>1. QED BY <1>3, LeastNatural
<1>5. PICK newest \in history : least = limit - newest.revision
  BY <1>4
<1>6. ASSUME NEW other \in history
      PROVE  other.revision <= newest.revision
  <2>1. limit - newest.revision <= limit - other.revision
    BY <1>4, <1>5
  <2>2. other.revision \in Int /\ newest.revision \in Int
    BY <1>2
  <2>3. QED BY <2>1, <2>2
<1>7. QED BY <1>6 DEF Newest

LEMMA OnFileIsRevision == ConfigTypes => OnFile \in Revisions
BY DEF ConfigTypes, ConfigFiles, Revisions, OnFile

\* What is written is what is on the file.
LEMMA WrittenFile ==
    ASSUME NEW r \in Revisions
    PROVE  /\ Written(r) \in ConfigFiles /\ Written(r).readable
           /\ [revision |-> Written(r).revision, content |-> Written(r).content] = r
BY DEF Written, Revisions, ConfigFiles

LEMMA InitRepositoryInv == ConfigInit => RepositoryInv
<1> SUFFICES ASSUME ConfigInit PROVE RepositoryInv
  OBVIOUS
<1>1. PICK schema \in {7, 8}, content \in Configurations :
          /\ file = [readable |-> TRUE, schema |-> schema, revision |-> 1, content |-> content]
          /\ effective = content
  BY DEF ConfigInit
<1>2. file \in ConfigFiles /\ effective \in Configurations
  BY <1>1 DEF ConfigFiles
<1>3. stored = OnFile /\ OnFile \in Revisions
  BY <1>2 DEF ConfigInit, OnFile, Revisions, ConfigFiles
<1>4. change \in [reloads : BOOLEAN, candidate : Revisions, effective : Configurations]
  BY <1>2, <1>3 DEF ConfigInit, NoChange
<1>5. /\ history = {} /\ process = "down" /\ applied = [a \in 1..Appliers |-> effective]
      /\ edited = FALSE /\ rollbackFailed = FALSE
  BY DEF ConfigInit
<1>6. ConfigTypes
  <2>1. \A h \in history : h.revision <= 0
    BY <1>5
  <2>2. \E limit \in Int : \A h \in history : h.revision <= limit
    BY <2>1
  <2>3. QED BY <1>2, <1>3, <1>4, <1>5, <2>2 DEF ConfigTypes, Loads
<1>7. QED BY <1>5, <1>6 DEF RepositoryInv, AppliersInv, StoredInv, Loads

\* The start takes a configuration that is on the file.
LEMMA AdoptKeepsInv ==
    ASSUME RepositoryInv, NEW r \in Revisions, Adopt(r),
           UNCHANGED <<history, rollbackFailed>>, file' \in ConfigFiles, file'.readable,
           [revision |-> file'.revision, content |-> file'.content] = r
    PROVE  RepositoryInv'
<1>1. /\ stored' = r /\ effective' = r.content /\ process' = "idle" /\ edited' = FALSE
      /\ applied' = [a \in 1..Appliers |-> r.content]
      /\ change' = [reloads |-> FALSE, candidate |-> r, effective |-> r.content]
  BY DEF Adopt
<1>2. r.content \in Configurations
  BY DEF Revisions
<1>3. change' \in [reloads : BOOLEAN, candidate : Revisions, effective : Configurations]
  BY <1>1, <1>2
<1>4. ConfigTypes'
  BY <1>1, <1>2, <1>3 DEF RepositoryInv, ConfigTypes
<1>5. AppliersInv'
  BY <1>1 DEF AppliersInv
<1>6. StoredInv'
  BY <1>1 DEF StoredInv, OnFile
<1>7. QED BY <1>4, <1>5, <1>6 DEF RepositoryInv

LEMMA LoadingKeepsInv ==
    ASSUME RepositoryInv, Loading
    PROVE  RepositoryInv'
<1>0. /\ ConfigTypes /\ file \in ConfigFiles /\ OnFile \in Revisions
      /\ [revision |-> file.revision, content |-> file.content] = OnFile
  BY OnFileIsRevision DEF RepositoryInv, ConfigTypes, OnFile
<1>1. ASSUME process' \in Loads, process' = "restore" => history # {},
             UNCHANGED <<file, history, rollbackFailed, unloaded>>
      PROVE  RepositoryInv'
  BY <1>0, <1>1 DEF unloaded, RepositoryInv, ConfigTypes, AppliersInv, StoredInv, Loads
<1>2. CASE Load
  <2>1. CASE file.readable /\ file.schema # 7
    <3>1. Adopt(OnFile) /\ UNCHANGED <<file, history, rollbackFailed>>
      BY <1>2, <2>1 DEF Load
    <3>2. QED BY <1>0, <2>1, <3>1, AdoptKeepsInv
  <2>2. CASE ~(file.readable /\ file.schema # 7)
    <3>1. /\ process' \in Loads
          /\ process' = "restore" => history # {}
          /\ UNCHANGED <<file, history, rollbackFailed, unloaded>>
      BY <1>2, <2>2 DEF Load, Loads
    <3>2. QED BY <1>1, <3>1
  <2>3. QED BY <2>1, <2>2
<1>3. CASE KeepOriginal \/ LoadFails
  <2>1. /\ process' \in {"down", "migrate"}
        /\ UNCHANGED <<file, history, rollbackFailed, unloaded>>
    BY <1>3 DEF KeepOriginal, LoadFails
  <2>2. QED BY <1>1, <2>1 DEF Loads
<1>4. CASE Migrate
  <2>1. file' = Written(OnFile) /\ Adopt(OnFile) /\ UNCHANGED <<history, rollbackFailed>>
    BY <1>4 DEF Migrate
  <2>2. QED BY <1>0, <2>1, WrittenFile, AdoptKeepsInv
<1>5. CASE RestoreFromHistory
  <2>1. /\ process = "restore" /\ file' = Written(Newest) /\ Adopt(Newest)
        /\ UNCHANGED <<history, rollbackFailed>>
    BY <1>5 DEF RestoreFromHistory, At
  <2>2. Newest \in Revisions
    BY <1>0, <2>1, NewestIsKept DEF ConfigTypes
  <2>3. QED BY <2>1, <2>2, WrittenFile, AdoptKeepsInv
<1>6. QED BY <1>2, <1>3, <1>4, <1>5 DEF Loading

\* A failed change is answered, or has its file put back first.
LEMMA RefusedChange ==
    ASSUME ConfigTypes, Refuse, UNCHANGED <<stored, effective>>
    PROVE  /\ process' \in {"idle", "putBack"}
           /\ change' \in [reloads : BOOLEAN, candidate : Revisions, effective : Configurations]
BY DEF ConfigTypes, Refuse, NoChange

LEMMA ChangingKeepsInv ==
    ASSUME RepositoryInv, Changing
    PROVE  RepositoryInv'
<1>0. /\ ConfigTypes /\ AppliersInv /\ StoredInv /\ file \in ConfigFiles /\ stored \in Revisions
      /\ effective \in Configurations /\ DOMAIN applied = 1..Appliers
      /\ change \in [reloads : BOOLEAN, candidate : Revisions, effective : Configurations]
      /\ rollbackFailed \in BOOLEAN /\ edited \in BOOLEAN
      /\ NoChange \in [reloads : BOOLEAN, candidate : Revisions, effective : Configurations]
      /\ Appliers \in Nat
  BY ConfigAssumption DEF RepositoryInv, ConfigTypes, NoChange
<1>1. ASSUME NEW content \in Configurations, NEW reloads \in BOOLEAN, Begin(content, reloads)
      PROVE  RepositoryInv'
  <2>1. /\ process = "idle" /\ process' = "apply"
        /\ UNCHANGED <<file, history, stored, effective, applied, rollbackFailed, edited>>
    BY <1>1 DEF Begin, At
  <2>2. change' \in [reloads : BOOLEAN, candidate : Revisions, effective : Configurations]
    <3>1. TakesEffect(content) \in Configurations
      BY <1>0, <1>1 DEF TakesEffect, Configurations
    <3>2. [revision |-> stored.revision + 1, content |-> content] \in Revisions
      BY <1>0, <1>1 DEF Revisions
    <3>3. QED BY <1>1, <3>1, <3>2 DEF Begin
  <2>3. ConfigTypes'
    BY <1>0, <2>1, <2>2 DEF ConfigTypes
  <2>4. AppliersInv' /\ StoredInv'
    BY <1>0, <2>1 DEF AppliersInv, StoredInv, OnFile, Loads
  <2>5. QED BY <2>3, <2>4 DEF RepositoryInv
<1>2. CASE Update
  BY <1>1, <1>2 DEF Update
<1>3. CASE Reload
  <2>1. file.content \in Configurations /\ Begin(file.content, TRUE)
    BY <1>0, <1>3 DEF Reload, ConfigFiles
  <2>2. QED BY <1>1, <2>1
<1>4. CASE ReloadRefused
  <2>1. /\ file' = Written(stored) /\ edited' = FALSE /\ process = "idle"
        /\ UNCHANGED <<history, process, stored, effective, applied, change, rollbackFailed>>
    BY <1>4 DEF ReloadRefused, At
  <2>2. ConfigTypes'
    BY <1>0, <2>1, WrittenFile DEF ConfigTypes
  <2>3. AppliersInv' /\ StoredInv'
    BY <1>0, <2>1, WrittenFile DEF AppliersInv, StoredInv, OnFile
  <2>4. QED BY <2>2, <2>3 DEF RepositoryInv
<1>5. CASE ApplyAll
  <2>1. /\ process = "apply" /\ process' = "keepHistory"
        /\ applied' = [a \in 1..Appliers |-> change.effective]
        /\ UNCHANGED <<file, history, stored, effective, change, rollbackFailed, edited>>
    BY <1>5 DEF ApplyAll, At
  <2>2. ConfigTypes' /\ AppliersInv' /\ StoredInv'
    BY <1>0, <2>1 DEF ConfigTypes, AppliersInv, StoredInv, OnFile, Loads
  <2>3. QED BY <2>2 DEF RepositoryInv
<1>6. CASE Prune
  <2>1. /\ process = "keepHistory" /\ history' \subseteq history
        /\ UNCHANGED <<file, process, stored, effective, applied, change, rollbackFailed, edited>>
    BY <1>6 DEF Prune, At, Pruned
  <2>2. ConfigTypes' /\ AppliersInv' /\ StoredInv'
    BY <1>0, <2>1 DEF ConfigTypes, AppliersInv, StoredInv, OnFile, Loads
  <2>3. QED BY <2>2 DEF RepositoryInv
<1>7. CASE KeepHistory
  <2>1. /\ process = "keepHistory" /\ process' = "replace"
        /\ history' \subseteq history \cup {stored}
        /\ UNCHANGED <<file, stored, effective, applied, change, rollbackFailed, edited>>
    BY <1>7 DEF KeepHistory, At
  <2>2. \E limit \in Int : \A h \in history' : h.revision <= limit
    <3>1. PICK limit \in Int : \A h \in history : h.revision <= limit
      BY <1>0 DEF ConfigTypes
    <3>2. stored.revision \in Int /\ history \subseteq Revisions
      BY <1>0 DEF ConfigTypes, Revisions
    <3>3. CASE stored.revision <= limit
      BY <2>1, <3>1, <3>3
    <3>4. CASE ~(stored.revision <= limit)
      <4>1. \A h \in history : h.revision \in Int /\ h.revision <= stored.revision
        BY <3>1, <3>2, <3>4 DEF Revisions
      <4>2. stored.revision <= stored.revision
        BY <3>2
      <4>3. QED BY <2>1, <3>2, <4>1, <4>2
    <3>5. QED BY <3>3, <3>4
  <2>3. ConfigTypes' /\ AppliersInv' /\ StoredInv'
    BY <1>0, <2>1, <2>2 DEF ConfigTypes, AppliersInv, StoredInv, OnFile, Loads
  <2>4. QED BY <2>3 DEF RepositoryInv
<1>8. CASE ReplaceFile
  <2>1. /\ file' = Written(change.candidate) /\ process = "replace" /\ process' = "commit"
        /\ UNCHANGED <<history, stored, effective, applied, change, rollbackFailed>>
        /\ edited' = FALSE
    BY <1>8 DEF ReplaceFile, At
  <2>2. change.candidate \in Revisions
    BY <1>0
  <2>3. ConfigTypes'
    BY <1>0, <2>1, <2>2, WrittenFile DEF ConfigTypes
  <2>4. AppliersInv' /\ StoredInv'
    BY <1>0, <2>1, <2>2, WrittenFile DEF AppliersInv, StoredInv, OnFile
  <2>5. QED BY <2>3, <2>4 DEF RepositoryInv
<1>9. CASE Commit
  <2>1. /\ process = "commit" /\ process' = "idle" /\ stored' = change.candidate
        /\ effective' = change.effective
        /\ change' = [reloads |-> FALSE, candidate |-> change.candidate,
                      effective |-> change.effective]
        /\ UNCHANGED <<file, history, applied, rollbackFailed, edited>>
    BY <1>9 DEF Commit, At
  <2>2. change' \in [reloads : BOOLEAN, candidate : Revisions, effective : Configurations]
    BY <1>0, <2>1
  <2>3. ConfigTypes'
    BY <1>0, <2>1, <2>2 DEF ConfigTypes
  <2>4. AppliersInv' /\ StoredInv'
    BY <1>0, <2>1 DEF AppliersInv, StoredInv, OnFile, Loads
  <2>5. QED BY <2>3, <2>4 DEF RepositoryInv
<1>10. ASSUME NEW stuck \in 0..Appliers,
              PersistFails(stuck) \/ \E failing \in 0..Appliers : ApplyFails(failing, stuck)
       PROVE  RepositoryInv'
  <2>1. /\ process \in {"apply", "keepHistory", "replace"} /\ Refuse
        /\ UNCHANGED <<file, history, stored, effective, edited>>
        /\ rollbackFailed' = (rollbackFailed \/ stuck # 0)
    BY <1>10 DEF PersistFails, ApplyFails, RolledBack, At
  <2>2. DOMAIN applied' = 1..Appliers
    BY <1>10 DEF PersistFails, ApplyFails, RolledBack
  <2>3. ASSUME stuck = 0, ~rollbackFailed, NEW a \in 1..Appliers
        PROVE  applied'[a] = effective
    <3>1. CASE PersistFails(stuck)
      <4>1. applied'[a] = IF a <= Appliers /\ a # stuck THEN effective ELSE applied[a]
        BY <3>1 DEF PersistFails, RolledBack
      <4>2. a <= Appliers /\ a # 0
        BY <1>0
      <4>3. QED BY <2>3, <4>1, <4>2
    <3>2. ASSUME NEW failing \in 0..Appliers, ApplyFails(failing, stuck)
          PROVE  applied'[a] = effective
      <4>1. /\ process = "apply"
            /\ applied'[a] = IF a <= failing /\ a # stuck THEN effective
                             ELSE IF a <= failing THEN change.effective ELSE applied[a]
        BY <3>2 DEF ApplyFails, RolledBack, LastToRollBack, At
      <4>2. applied[a] = effective
        BY <1>0, <2>3, <4>1 DEF AppliersInv
      <4>3. a # 0
        BY <1>0
      <4>4. QED BY <2>3, <4>1, <4>2, <4>3
    <3>3. QED BY <1>10, <3>1, <3>2
  <2>4. /\ process' \in {"idle", "putBack"}
        /\ change' \in [reloads : BOOLEAN, candidate : Revisions, effective : Configurations]
    BY <1>0, <2>1, RefusedChange
  <2>5. ConfigTypes'
    BY <1>0, <2>1, <2>2, <2>4 DEF ConfigTypes
  <2>6. AppliersInv'
    BY <2>1, <2>3, <2>4 DEF AppliersInv
  <2>7. StoredInv'
    BY <1>0, <2>1, <2>4 DEF StoredInv, OnFile, Loads
  <2>8. QED BY <2>5, <2>6, <2>7 DEF RepositoryInv
<1>11. ASSUME NEW stuck \in 0..Appliers, NEW restored \in BOOLEAN, CommitFails(restored, stuck)
       PROVE  RepositoryInv'
  <2>1. /\ process = "commit" /\ Refuse /\ file' = (IF restored THEN Written(stored) ELSE file)
        /\ applied' = [a \in 1..Appliers |-> IF a # stuck THEN effective ELSE applied[a]]
        /\ rollbackFailed' = (rollbackFailed \/ stuck # 0 \/ ~restored)
        /\ UNCHANGED <<history, stored, effective, edited>>
    BY <1>11 DEF CommitFails, FileBack, At
  <2>2. /\ process' \in {"idle", "putBack"}
        /\ change' \in [reloads : BOOLEAN, candidate : Revisions, effective : Configurations]
    BY <1>0, <2>1, RefusedChange
  <2>3. file' \in ConfigFiles
    BY <1>0, <2>1, WrittenFile
  <2>4. ConfigTypes'
    BY <1>0, <2>1, <2>2, <2>3 DEF ConfigTypes
  <2>5. AppliersInv'
    <3>1. ~rollbackFailed' => stuck = 0
      BY <2>1
    <3>2. \A a \in 1..Appliers : a # 0
      BY <1>0
    <3>3. QED BY <2>1, <2>2, <3>1, <3>2 DEF AppliersInv
  <2>6. StoredInv'
    <3>1. ~rollbackFailed' => file' = Written(stored)
      BY <2>1
    <3>2. QED BY <1>0, <2>1, <2>2, <3>1, WrittenFile DEF StoredInv, OnFile
  <2>7. QED BY <2>4, <2>5, <2>6 DEF RepositoryInv
<1>12. ASSUME NEW restored \in BOOLEAN, PutBack(restored)
       PROVE  RepositoryInv'
  <2>1. /\ process = "putBack" /\ process' = "idle" /\ change' = NoChange
        /\ UNCHANGED <<history, stored, effective, applied>>
    BY <1>12 DEF PutBack, At
  <2>2. \/ file' = Written(stored) /\ edited' = FALSE /\ rollbackFailed' = rollbackFailed
        \/ rollbackFailed' = TRUE /\ UNCHANGED <<file, edited>>
    BY <1>12 DEF PutBack
  <2>3. file' \in ConfigFiles /\ edited' \in BOOLEAN /\ rollbackFailed' \in BOOLEAN
    BY <1>0, <2>2, WrittenFile
  <2>4. ConfigTypes'
    BY <1>0, <2>1, <2>3 DEF ConfigTypes
  <2>5. AppliersInv'
    BY <1>0, <2>1, <2>2 DEF AppliersInv
  <2>6. StoredInv'
    BY <1>0, <2>1, <2>2, WrittenFile DEF StoredInv, OnFile
  <2>7. QED BY <2>4, <2>5, <2>6 DEF RepositoryInv
<1>13. QED
  BY <1>2, <1>3, <1>4, <1>5, <1>6, <1>7, <1>8, <1>9, <1>10, <1>11, <1>12 DEF Changing

LEMMA NextRepositoryInv == RepositoryInv /\ [ConfigNext]_configVars => RepositoryInv'
<1> SUFFICES ASSUME RepositoryInv, [ConfigNext]_configVars PROVE RepositoryInv'
  OBVIOUS
<1>0. ConfigTypes /\ AppliersInv /\ StoredInv /\ file \in ConfigFiles
  BY DEF RepositoryInv, ConfigTypes
<1>1. CASE EditFile \/ DamageFile
  <2>1. edited' = TRUE /\ UNCHANGED inProcess
    BY <1>1 DEF EditFile, DamageFile
  <2>2. file' \in ConfigFiles
    <3>1. CASE EditFile
      <4>1. PICK content \in Configurations, revision \in {file.revision, file.revision + 1} :
                file' = [file EXCEPT !.content = content, !.revision = revision]
        BY <3>1 DEF EditFile
      <4>2. revision \in Int
        BY <1>0 DEF ConfigFiles
      <4>3. QED BY <1>0, <4>1, <4>2 DEF ConfigFiles
    <3>2. CASE DamageFile
      BY <1>0, <3>2 DEF DamageFile, ConfigFiles
    <3>3. QED BY <1>1, <3>1, <3>2
  <2>3. ConfigTypes'
    BY <1>0, <2>1, <2>2 DEF ConfigTypes, inProcess
  <2>4. AppliersInv' /\ StoredInv'
    BY <1>0, <2>1 DEF AppliersInv, StoredInv, inProcess
  <2>5. QED BY <2>3, <2>4 DEF RepositoryInv
<1>2. CASE Die
  <2>1. process' = "down" /\ UNCHANGED <<file, history, rollbackFailed, unloaded>>
    BY <1>2 DEF Die
  <2>2. QED BY <1>0, <2>1 DEF unloaded, RepositoryInv, ConfigTypes, AppliersInv, StoredInv, Loads
<1>3. CASE StopAcceptingChanges \/ UNCHANGED configVars
  <2>1. UNCHANGED <<file, history, process, stored, effective, applied, change, rollbackFailed, edited>>
    BY <1>3 DEF StopAcceptingChanges, configVars
  <2>2. QED BY <1>0, <2>1 DEF RepositoryInv, ConfigTypes, AppliersInv, StoredInv, OnFile
<1>4. QED BY <1>1, <1>2, <1>3, LoadingKeepsInv, ChangingKeepsInv DEF ConfigNext

\* Whatever step of a change fails, once it has been answered every component
\* works with the effective contents, unless one could not roll back.
THEOREM AppliersFollowEffectiveAlways == ConfigSpec => []AppliersFollowEffective
<1>1. RepositoryInv => AppliersFollowEffective
  BY DEF RepositoryInv, AppliersInv, AppliersFollowEffective, At
<1>2. QED BY InitRepositoryInv, NextRepositoryInv, <1>1, PTL DEF ConfigSpec

\* Through failed changes, crashes and starts, a file that nobody else edited has
\* the stored configuration, and only while a change commits its candidate.
THEOREM FileHoldsStoredAlways == ConfigSpec => []FileHoldsStored
<1>1. RepositoryInv => FileHoldsStored
  BY DEF RepositoryInv, StoredInv, FileHoldsStored, At, Loads
<1>2. QED BY InitRepositoryInv, NextRepositoryInv, <1>1, PTL DEF ConfigSpec

-----------------------------------------------------------------------------
(* The service *)

Services ==
    [presence : {"missing", "present", "marked_for_delete"}, settings : BOOLEAN,
     access : BOOLEAN, state : {"stopped", "starting", "running", "stopping"},
     instance : 0..MaximumInstances]

InstallSteps == {"query", "create", "update", "configure", "access", "installed", "failed"}

RestartSteps ==
    {"idle", "state", "stop", "stopping", "start", "starting", "restarted", "failed"}

\* The process that a restart is to replace is not a later one than runs ...
ReplacesNoLater ==
    restart.step \in {"stop", "stopping", "start", "starting"} =>
        restart.replaces <= service.instance

\* ... and once it has been seen to end, one that is there is a later one,
\* whoever has started it.
StartedIsLater ==
    restart.step \in {"start", "starting"} /\ service.state # "stopped" =>
        restart.replaces < service.instance

ServiceTypes ==
    /\ service \in Services
    /\ install \in [Installers -> [step : InstallSteps, created : BOOLEAN]]
    /\ restart \in [step : RestartSteps, replaces : Nat]

ManagementInv == ServiceTypes /\ ReplacesNoLater /\ StartedIsLater

\* The changes the manager makes to a service that leave its process alone.
LEMMA SameProcess ==
    ASSUME NEW s \in Services
    PROVE  /\ \A t \in {Created(s), Configured(s), Granted(s), StopSent(s), Removed(s)} :
                 t \in Services /\ t.instance = s.instance
           /\ Created(s).state = "stopped"
           /\ \A t \in {Configured(s), Granted(s), Removed(s)} : t.state = s.state
           /\ StopSent(s).state = "stopped" <=> s.state = "stopped"
<1>1. s.presence \in {"missing", "present", "marked_for_delete"} /\ s.settings \in BOOLEAN
      /\ s.access \in BOOLEAN /\ s.state \in {"stopped", "starting", "running", "stopping"}
      /\ s.instance \in 0..MaximumInstances
  BY DEF Services
<1>2. Created(s) \in Services /\ Created(s).instance = s.instance /\ Created(s).state = "stopped"
  BY <1>1 DEF Created, NoService, Services
<1>3. Configured(s) \in Services /\ Configured(s).instance = s.instance
      /\ Configured(s).state = s.state
  BY DEF Configured, Services
<1>4. Granted(s) \in Services /\ Granted(s).instance = s.instance /\ Granted(s).state = s.state
  BY DEF Granted, Services
<1>5. Removed(s) \in Services /\ Removed(s).instance = s.instance /\ Removed(s).state = s.state
  BY DEF Removed, Services
<1>6. StopSent(s) \in Services /\ StopSent(s).instance = s.instance
      /\ (StopSent(s).state = "stopped" <=> s.state = "stopped")
  BY DEF StopSent, Services
<1> QED BY <1>2, <1>3, <1>4, <1>5, <1>6

LEMMA ManagementInvInit == ManagementInit => ManagementInv
<1>1. NoService \in Services /\ NoService.state = "stopped" /\ NoService.instance = 0
  BY ManagementAssumption DEF NoService, Services
<1>2. Created(NoService) \in Services
  BY <1>1, SameProcess
<1>3. Configured(Created(NoService)) \in Services
  BY <1>2, SameProcess
<1>4. Granted(Configured(Created(NoService))) \in Services
  BY <1>3, SameProcess
<1> QED
  BY <1>1, <1>4
     DEF ManagementInit, ManagementInv, ServiceTypes, InstallSteps, RestartSteps,
         ReplacesNoLater, StartedIsLater

LEMMA ManagementInvNext == ManagementInv /\ [ManagementNext]_managementVars => ManagementInv'
<1> SUFFICES ASSUME ManagementInv, [ManagementNext]_managementVars
             PROVE  ManagementInv'
  OBVIOUS
<1>t. /\ ServiceTypes /\ service \in Services /\ service.instance \in Nat
      /\ restart.step \in RestartSteps /\ restart.replaces \in Nat
      /\ MaximumInstances \in Nat
  BY ManagementAssumption DEF ManagementInv, ServiceTypes, Services
\* The service changes, its process is the same or has ended.
<1>s. ASSUME service' \in Services, service'.instance = service.instance,
             service.state = "stopped" => service'.state = "stopped",
             restart' = restart, ServiceTypes'
      PROVE  ManagementInv'
  BY <1>s, <1>t DEF ManagementInv, ReplacesNoLater, StartedIsLater
<1>c. ASSUME UNCHANGED <<service, restart>>, ServiceTypes'
      PROVE  ManagementInv'
  BY <1>c DEF ManagementInv, ReplacesNoLater, StartedIsLater
\* A process is started that is later than any before.
<1>p. ASSUME MayStart(service), service' = Started(service)
      PROVE  /\ service' \in Services /\ service'.instance = service.instance + 1
             /\ service.state = "stopped" /\ service'.state = "starting"
  <2>1. service' = [service EXCEPT !.state = "starting", !.instance = service.instance + 1]
    BY <1>p, <1>t DEF Started, Services
  <2>2. service.instance + 1 \in 0..MaximumInstances /\ service.state = "stopped"
    BY <1>p, <1>t DEF MayStart, Services
  <2> QED BY <2>1, <2>2, <1>t DEF Services
<1>i. ASSUME NEW i \in Installers, NEW step \in InstallSteps, To(i, step)
      PROVE  install' \in [Installers -> [step : InstallSteps, created : BOOLEAN]]
  BY <1>i, <1>t DEF To, ServiceTypes
<1>1. ASSUME NEW i \in Installers,
             BeginInstall(i) \/ RegisterService(i) \/ UpdateService(i) \/ Configure(i)
                 \/ GrantAccess(i)
      PROVE  ManagementInv'
  <2>1. install' \in [Installers -> [step : InstallSteps, created : BOOLEAN]]
    <3>1. CASE \E step \in InstallSteps : To(i, step)
      BY <3>1, <1>i
    <3>2. CASE install' = [install EXCEPT ![i] = [step |-> "configure", created |-> TRUE]]
      BY <3>2, <1>t DEF ServiceTypes, InstallSteps
    <3>3. BeginInstall(i) => \E step \in InstallSteps : To(i, step)
      BY <1>t DEF BeginInstall, InstallSteps, Services
    <3>4. UpdateService(i) \/ Configure(i) \/ GrantAccess(i) =>
            \E step \in InstallSteps : To(i, step)
      BY DEF UpdateService, Configure, GrantAccess, RollsBack, InstallSteps
    <3>5. RegisterService(i) =>
            \/ install' = [install EXCEPT ![i] = [step |-> "configure", created |-> TRUE]]
            \/ \E step \in InstallSteps : To(i, step)
      BY DEF RegisterService, InstallSteps
    <3> QED BY <1>1, <3>1, <3>2, <3>3, <3>4, <3>5
  <2>2. /\ restart' = restart
        /\ service' \in {service, Created(service), Configured(service), Granted(service),
                         Removed(service)}
    BY <1>1 DEF BeginInstall, RegisterService, UpdateService, Configure, GrantAccess, RollsBack
  <2>3. /\ service' \in Services /\ service'.instance = service.instance
        /\ service.state = "stopped" => service'.state = "stopped"
    BY <1>t, <2>2, SameProcess
  <2> QED BY <1>t, <2>1, <2>2, <2>3, <1>s DEF ServiceTypes
<1>2. CASE RemovalNext
  <2>1. /\ UNCHANGED <<install, restart>>
        /\ service' \in {service, StopSent(service), Removed(service)}
    BY <1>2 DEF RemovalNext, QueryRemoval, StateOfRemoval, StopForRemoval, WaitForRemoval,
                DeleteService
  <2>2. /\ service' \in Services /\ service'.instance = service.instance
        /\ service.state = "stopped" => service'.state = "stopped"
    BY <1>t, <2>1, SameProcess
  <2> QED BY <1>t, <2>1, <2>2, <1>s DEF ServiceTypes
<1>3. CASE QueryRestart \/ RestartFails
  <2>1. /\ UNCHANGED <<service, install>>
        /\ restart' \in {[step |-> "state", replaces |-> 0], [step |-> "failed", replaces |-> 0]}
    BY <1>3 DEF QueryRestart, RestartFails
  <2> QED
    BY <1>t, <2>1
       DEF ManagementInv, ServiceTypes, RestartSteps, ReplacesNoLater, StartedIsLater
<1>4. CASE StateOfRestart
  <2>1. CASE service.state = "stopped"
    <3>1. restart' = [step |-> "start", replaces |-> 0] /\ UNCHANGED <<service, install>>
      BY <1>4, <2>1 DEF StateOfRestart, HasStopped
    <3> QED
      BY <1>t, <2>1, <3>1
         DEF ManagementInv, ServiceTypes, RestartSteps, ReplacesNoLater, StartedIsLater
  <2>2. CASE service.state # "stopped"
    <3>1. restart' = [step |-> "stop", replaces |-> service.instance]
          /\ UNCHANGED <<service, install>>
      BY <1>4, <2>2 DEF StateOfRestart, HasStopped
    <3> QED
      BY <1>t, <3>1
         DEF ManagementInv, ServiceTypes, RestartSteps, ReplacesNoLater, StartedIsLater
  <2> QED BY <2>1, <2>2
<1>5. CASE StopForRestart
  <2>1. /\ restart.step = "stop" /\ restart' = [restart EXCEPT !.step = "stopping"]
        /\ service' = StopSent(service) /\ install' = install
    BY <1>5 DEF StopForRestart, RestartTo
  <2>2. service' \in Services /\ service'.instance = service.instance
    BY <1>t, <2>1, SameProcess
  <2>3. restart' \in [step : RestartSteps, replaces : Nat] /\ restart'.step = "stopping"
        /\ restart'.replaces = restart.replaces
    BY <1>t, <2>1 DEF ServiceTypes, RestartSteps
  <2> QED
    BY <1>t, <2>1, <2>2, <2>3 DEF ManagementInv, ServiceTypes, ReplacesNoLater, StartedIsLater
<1>6. CASE SeesStopped
  <2>1. /\ restart.step = "stopping" /\ restart' = [restart EXCEPT !.step = "start"]
        /\ service.state = "stopped" /\ UNCHANGED <<service, install>>
    BY <1>6 DEF SeesStopped, RestartTo, HasStopped
  <2>2. restart' \in [step : RestartSteps, replaces : Nat] /\ restart'.step = "start"
        /\ restart'.replaces = restart.replaces
    BY <1>t, <2>1 DEF ServiceTypes, RestartSteps
  <2> QED
    BY <1>t, <2>1, <2>2 DEF ManagementInv, ServiceTypes, ReplacesNoLater, StartedIsLater
<1>7. CASE StartForRestart
  <2>1. /\ restart.step = "start" /\ restart' = [restart EXCEPT !.step = "starting"]
        /\ install' = install
    BY <1>7 DEF StartForRestart, RestartTo
  <2>2. restart' \in [step : RestartSteps, replaces : Nat] /\ restart'.step = "starting"
        /\ restart'.replaces = restart.replaces
    BY <1>t, <2>1 DEF ServiceTypes, RestartSteps
  <2>3. CASE MayStart(service) /\ service' = Started(service)
    <3>1. /\ service' \in Services /\ service'.instance = service.instance + 1
          /\ restart.replaces <= service.instance
      BY <1>p, <2>1, <2>3 DEF ManagementInv, ReplacesNoLater
    <3> QED
      BY <1>t, <2>1, <2>2, <3>1
         DEF ManagementInv, ServiceTypes, ReplacesNoLater, StartedIsLater
  <2>4. CASE service.state # "stopped" /\ UNCHANGED service
    BY <1>t, <2>1, <2>2, <2>4
       DEF ManagementInv, ServiceTypes, ReplacesNoLater, StartedIsLater
  <2> QED BY <1>7, <2>3, <2>4 DEF StartForRestart
<1>8. CASE SeesRunning
  <2>1. restart' = [restart EXCEPT !.step = "restarted"] /\ UNCHANGED <<service, install>>
    BY <1>8 DEF SeesRunning, RestartTo
  <2>2. restart' \in [step : RestartSteps, replaces : Nat] /\ restart'.step = "restarted"
    BY <1>t, <2>1 DEF ServiceTypes, RestartSteps
  <2> QED
    BY <1>t, <2>1, <2>2 DEF ManagementInv, ServiceTypes, ReplacesNoLater, StartedIsLater
<1>9. CASE RecoveryStarts \/ AdministratorStarts
  <2>1. MayStart(service) /\ service' = Started(service) /\ UNCHANGED <<install, restart>>
    BY <1>9 DEF RecoveryStarts, AdministratorStarts, Changes
  <2>2. service' \in Services /\ service'.instance = service.instance + 1
    BY <1>p, <2>1
  <2> QED
    BY <1>t, <2>1, <2>2 DEF ManagementInv, ServiceTypes, ReplacesNoLater, StartedIsLater
<1>10. CASE ServiceRuns \/ ServiceStops \/ ServiceStopsItself
  <2>1. PICK to \in {"running", "stopped", "stopping"} :
             service' = [service EXCEPT !.state = to]
    BY <1>10 DEF ServiceRuns, ServiceStops, ServiceStopsItself, Changes
  <2>2. service.state # "stopped" /\ UNCHANGED <<install, restart>>
    BY <1>10 DEF ServiceRuns, ServiceStops, ServiceStopsItself, Changes
  <2>3. service' \in Services /\ service'.instance = service.instance
    BY <1>t, <2>1 DEF Services
  <2> QED BY <1>t, <2>2, <2>3, <1>s DEF ServiceTypes
<1>11. CASE ServiceGoes
  <2>1. service' = [NoService EXCEPT !.instance = service.instance]
        /\ UNCHANGED <<install, restart>>
    BY <1>11 DEF ServiceGoes, Changes
  <2>2. service' \in Services /\ service'.instance = service.instance
        /\ service'.state = "stopped"
    BY <1>t, <2>1 DEF NoService, Services
  <2> QED BY <1>t, <2>1, <2>2, <1>s DEF ServiceTypes
<1>12. CASE UNCHANGED managementVars
  BY <1>12, <1>c, <1>t DEF managementVars, ServiceTypes
<1> QED
  BY <1>1, <1>2, <1>3, <1>4, <1>5, <1>6, <1>7, <1>8, <1>9, <1>10, <1>11, <1>12
     DEF ManagementNext, InstallNext, RestartNext

\* What the service control manager holds of the service, and the step every
\* command is at, are of their types (ServiceManager of windows_service.cpp).
THEOREM ManagementTypesAlways == ManagementSpec => []ManagementTypeOK
<1>1. ManagementInv => ManagementTypeOK
  BY DEF ManagementInv, ServiceTypes, Services, InstallSteps, ManagementTypeOK
<1> QED BY <1>1, ManagementInvInit, ManagementInvNext, PTL DEF ManagementSpec

\* A restart that is reported as done has replaced the process that was there,
\* whoever starts, stops, installs or removes the service meanwhile
\* (ServiceManager::restart, request_stop, request_start).
THEOREM RestartedIsFreshAlways == ManagementSpec => RestartedIsFresh
<1> DEFINE Fresh == restart'.step = "restarted" /\ restart.step # "restarted"
                       => service.state = "running" /\ service.instance > restart.replaces
<1>1. ManagementInv /\ [ManagementNext]_managementVars => [Fresh]_managementVars
  <2> SUFFICES ASSUME ManagementInv, ManagementNext,
                      restart'.step = "restarted", restart.step # "restarted"
               PROVE  service.state = "running" /\ service.instance > restart.replaces
    OBVIOUS
  <2>1. restart' # restart
    OBVIOUS
  <2>2. SeesRunning
    <3>1. ~InstallNext /\ ~RemovalNext
      BY <2>1
         DEF InstallNext, BeginInstall, RegisterService, UpdateService, Configure, GrantAccess,
             RemovalNext, QueryRemoval, StateOfRemoval, StopForRemoval, WaitForRemoval,
             DeleteService
    <3>2. ~(ServiceRuns \/ ServiceStops \/ ServiceStopsItself \/ RecoveryStarts
              \/ AdministratorStarts \/ ServiceGoes)
      BY <2>1
         DEF ServiceRuns, ServiceStops, ServiceStopsItself, RecoveryStarts,
             AdministratorStarts, ServiceGoes, Changes
    <3>3. ~(QueryRestart \/ RestartFails \/ StateOfRestart)
      BY DEF QueryRestart, RestartFails, StateOfRestart
    <3>4. ~(StopForRestart \/ SeesStopped \/ StartForRestart)
      BY DEF StopForRestart, SeesStopped, StartForRestart, RestartTo, ManagementInv,
             ServiceTypes
    <3> QED BY <3>1, <3>2, <3>3, <3>4 DEF ManagementNext, RestartNext
  <2> QED
    BY <2>2 DEF SeesRunning, ManagementInv, ServiceTypes, Services, StartedIsLater
<1> QED
  BY <1>1, ManagementInvInit, ManagementInvNext, PTL DEF ManagementSpec, RestartedIsFresh

-----------------------------------------------------------------------------
(* The preview. *)

PreviewTypes ==
    /\ connection \in 0..MaxConnections /\ links \in 0..MaxConnections
    /\ selected \in Selections
    /\ paused \in BOOLEAN /\ subscribed \in BOOLEAN /\ asked \in BOOLEAN
    /\ refused \in BOOLEAN /\ previewStop \in BOOLEAN
    /\ unserved \in Seq(PreviewRequests)
    /\ subscriptions \in [Connections -> SUBSET Cameras]

EncoderTypes ==
    /\ waiting \subseteq Cameras /\ round \subseteq Cameras
    /\ taken \in Cameras \union {NoCamera}
    /\ pendingSlots = Cardinality(waiting) + (IF taken = NoCamera THEN 0 ELSE 1)

\* What is under way belongs to the connection; a request that will be answered
\* is the last of them and asks for what is selected; and what is shown needs
\* no answer any more.
ConsoleAsks ==
    /\ unserved # <<>> => connection # 0
    /\ asked => /\ ~paused /\ unserved # <<>>
                /\ unserved[Len(unserved)] = PreviewRequest("subscribe", selected)
    /\ subscribed =>
         /\ ~paused /\ ~asked /\ connection # 0 /\ unserved = <<>>
         /\ ~refused => subscriptions[connection] = selected

PreviewInv == PreviewTypes /\ ConsoleAsks

LEMMA PreviewInvInit == PreviewInit => PreviewInv /\ EncoderTypes
<1> SUFFICES ASSUME PreviewInit PROVE PreviewInv /\ EncoderTypes
  OBVIOUS
<1>1. PreviewTypes
  <2>1. subscriptions \in [Connections -> SUBSET Cameras]
    BY DEF PreviewInit, NoSelection
  <2>2. <<>> \in Seq(PreviewRequests) /\ 0 \in 0..MaxConnections
    BY PreviewAssumption
  <2> QED BY <2>1, <2>2 DEF PreviewInit, PreviewTypes
<1>2. ConsoleAsks
  BY DEF PreviewInit, ConsoleAsks
<1>3. EncoderTypes
  <2>1. Cardinality({}) = 0
    BY FS_EmptySet
  <2>2. Cardinality(waiting) = 0 /\ (IF taken = NoCamera THEN 0 ELSE 1) = 0 /\ pendingSlots = 0
    BY <2>1 DEF PreviewInit
  <2>3. pendingSlots = Cardinality(waiting) + (IF taken = NoCamera THEN 0 ELSE 1)
    BY <2>2
  <2> QED BY <2>3 DEF PreviewInit, EncoderTypes
<1> QED BY <1>1, <1>2, <1>3 DEF PreviewInv

\* Whatever the console asks for joins the requests under way at their end.
LEMMA AppendedLast ==
    ASSUME PreviewTypes, NEW request \in PreviewRequests
    PROVE  /\ Append(unserved, request) \in Seq(PreviewRequests)
           /\ Append(unserved, request) # <<>>
           /\ Append(unserved, request)[Len(Append(unserved, request))] = request
BY DEF PreviewTypes

LEMMA AskKeeps ==
    ASSUME PreviewTypes, NEW isPaused \in BOOLEAN, NEW link \in 0..MaxConnections,
           NEW cameras \in Selections, Asks(isPaused, link, cameras),
           link = 0 => unserved = <<>>
    PROVE  /\ unserved' \in Seq(PreviewRequests) /\ asked' \in BOOLEAN
           /\ unserved' # <<>> => link # 0 \/ unserved # <<>>
           /\ asked' => /\ ~isPaused /\ link # 0 /\ unserved' # <<>>
                        /\ unserved'[Len(unserved')] = PreviewRequest("subscribe", cameras)
<1>1. PreviewRequest("subscribe", cameras) \in PreviewRequests
  BY PreviewAssumption DEF PreviewRequest, PreviewRequests
<1>2. CASE isPaused \/ link = 0
  BY <1>2 DEF Asks, PreviewTypes
<1>3. CASE ~(isPaused \/ link = 0)
  <2>1. asked' = TRUE /\ unserved' = Append(unserved, PreviewRequest("subscribe", cameras))
    BY <1>3 DEF Asks
  <2> QED BY <1>1, <1>3, <2>1, AppendedLast
<1> QED BY <1>2, <1>3

LEMMA ConsoleKeepsInv ==
    PreviewInv /\ (PreviewConnect \/ PreviewDisconnect \/ (\E s \in Selections : Select(s))
                   \/ Pause \/ ResumePreview \/ RequestExpires) => PreviewInv'
<1> SUFFICES ASSUME PreviewInv,
                    PreviewConnect \/ PreviewDisconnect \/ (\E s \in Selections : Select(s))
                      \/ Pause \/ ResumePreview \/ RequestExpires
             PROVE  PreviewInv'
  OBVIOUS
<1>t. PreviewTypes /\ ConsoleAsks
  BY DEF PreviewInv
<1>u. UNCHANGED <<subscriptions, previewStop>>
  BY DEF PreviewConnect, PreviewDisconnect, Select, Pause, ResumePreview, RequestExpires, serviceVars
<1>m. MaxConnections \in Nat
  BY PreviewAssumption
<1>1. CASE PreviewConnect
  <2>1. /\ connection = 0 /\ unserved = <<>> /\ connection' = links + 1 /\ links' = links + 1
        /\ links + 1 \in 0..MaxConnections /\ links + 1 # 0
        /\ subscribed' = FALSE /\ Asks(paused, links + 1, selected)
        /\ UNCHANGED <<selected, paused, refused>>
    BY <1>1, <1>t, <1>m DEF PreviewConnect, PreviewTypes, ConsoleAsks
  <2>2. PICK link \in 0..MaxConnections : link = links + 1
    BY <2>1
  <2>3. paused \in BOOLEAN /\ selected \in Selections
    BY <1>t DEF PreviewTypes
  <2>4. /\ unserved' \in Seq(PreviewRequests) /\ asked' \in BOOLEAN
        /\ asked' => /\ ~paused /\ unserved' # <<>>
                     /\ unserved'[Len(unserved')] = PreviewRequest("subscribe", selected)
    BY <1>t, <2>1, <2>2, <2>3, AskKeeps
  <2>5. PreviewTypes'
    BY <1>t, <1>u, <2>1, <2>4 DEF PreviewTypes
  <2>6. ConsoleAsks'
    BY <2>1, <2>4 DEF ConsoleAsks
  <2> QED BY <2>5, <2>6 DEF PreviewInv
<1>2. CASE PreviewDisconnect
  <2>1. /\ connection' = 0 /\ subscribed' = FALSE /\ asked' = FALSE /\ unserved' = <<>>
        /\ UNCHANGED <<links, selected, paused, refused>>
    BY <1>2 DEF PreviewDisconnect
  <2>2. PreviewTypes'
    <3>1. <<>> \in Seq(PreviewRequests) /\ 0 \in 0..MaxConnections
      BY <1>m
    <3> QED BY <1>t, <1>u, <2>1, <3>1 DEF PreviewTypes
  <2>3. ConsoleAsks'
    BY <2>1 DEF ConsoleAsks
  <2> QED BY <2>2, <2>3 DEF PreviewInv
<1>3. CASE \E s \in Selections : Select(s)
  <2>1. PICK s \in Selections : Select(s)
    BY <1>3
  <2>2. /\ selected' = s /\ subscribed' = FALSE /\ Asks(paused, connection, s)
        /\ UNCHANGED <<connection, links, paused, refused>>
    BY <2>1 DEF Select
  <2>3. paused \in BOOLEAN /\ connection \in 0..MaxConnections /\ (connection = 0 => unserved = <<>>)
    BY <1>t DEF PreviewTypes, ConsoleAsks
  <2>4. /\ unserved' \in Seq(PreviewRequests) /\ asked' \in BOOLEAN
        /\ unserved' # <<>> => connection # 0
        /\ asked' => /\ ~paused /\ unserved' # <<>>
                     /\ unserved'[Len(unserved')] = PreviewRequest("subscribe", s)
    BY <1>t, <2>2, <2>3, AskKeeps
  <2>5. PreviewTypes'
    BY <1>t, <1>u, <2>2, <2>4 DEF PreviewTypes
  <2>6. ConsoleAsks'
    BY <1>t, <2>2, <2>4 DEF ConsoleAsks
  <2> QED BY <2>5, <2>6 DEF PreviewInv
<1>4. CASE Pause
  <2>1. /\ paused' = TRUE /\ subscribed' = FALSE /\ asked' = FALSE
        /\ UNCHANGED <<connection, links, selected, refused>>
    BY <1>4 DEF Pause
  <2>2. PreviewRequest("unsubscribe", {}) \in PreviewRequests
    BY DEF PreviewRequest, PreviewRequests
  <2>3. unserved' \in Seq(PreviewRequests) /\ (unserved' # <<>> => connection # 0)
    BY <1>4, <1>t, <2>2, AppendedLast DEF Pause, PreviewTypes, ConsoleAsks
  <2>4. PreviewTypes'
    BY <1>t, <1>u, <2>1, <2>3 DEF PreviewTypes
  <2>5. ConsoleAsks'
    BY <2>1, <2>3 DEF ConsoleAsks
  <2> QED BY <2>4, <2>5 DEF PreviewInv
<1>5. CASE ResumePreview
  <2>1. /\ paused /\ paused' = FALSE /\ Asks(FALSE, connection, selected)
        /\ UNCHANGED <<connection, links, selected, subscribed, refused>>
    BY <1>5 DEF ResumePreview
  <2>2. /\ selected \in Selections /\ connection \in 0..MaxConnections
        /\ connection = 0 => unserved = <<>>
        /\ ~subscribed
    BY <1>t, <2>1 DEF PreviewTypes, ConsoleAsks
  <2>3. /\ unserved' \in Seq(PreviewRequests) /\ asked' \in BOOLEAN
        /\ unserved' # <<>> => connection # 0
        /\ asked' => /\ unserved' # <<>>
                     /\ unserved'[Len(unserved')] = PreviewRequest("subscribe", selected)
    BY <1>t, <2>1, <2>2, AskKeeps
  <2>4. PreviewTypes'
    BY <1>t, <1>u, <2>1, <2>3 DEF PreviewTypes
  <2>5. ConsoleAsks'
    BY <1>t, <2>1, <2>2, <2>3 DEF ConsoleAsks
  <2> QED BY <2>4, <2>5 DEF PreviewInv
<1>6. CASE RequestExpires
  BY <1>6, <1>t, <1>u DEF RequestExpires, PreviewInv, PreviewTypes, ConsoleAsks
<1> QED BY <1>1, <1>2, <1>3, <1>4, <1>5, <1>6

\* The service takes the oldest request; only the last is answered.
LEMMA ServeKeepsInv == PreviewInv /\ ServePreview => PreviewInv'
<1> SUFFICES ASSUME PreviewInv, ServePreview PROVE PreviewInv'
  OBVIOUS
<1>t. PreviewTypes /\ ConsoleAsks
  BY DEF PreviewInv
<1>1. /\ unserved # <<>> /\ unserved' = Tail(unserved)
      /\ UNCHANGED <<connection, links, selected, paused, previewStop>>
  BY DEF ServePreview
<1>2. /\ Head(unserved) \in PreviewRequests /\ Tail(unserved) \in Seq(PreviewRequests)
      /\ Len(unserved) = 1 => Head(unserved) = unserved[Len(unserved)] /\ Tail(unserved) = <<>>
      /\ Len(unserved) # 1 => /\ Tail(unserved) # <<>>
                              /\ Tail(unserved)[Len(Tail(unserved))] = unserved[Len(unserved)]
  <2>1. unserved \in Seq(PreviewRequests) /\ unserved # <<>>
    BY <1>t, <1>1 DEF PreviewTypes
  <2>2. Len(unserved) \in Nat /\ Len(unserved) # 0
    BY <2>1
  <2>3. Head(unserved) = unserved[1] /\ Head(unserved) \in PreviewRequests
    BY <2>1
  <2>4. /\ Tail(unserved) \in Seq(PreviewRequests) /\ Len(Tail(unserved)) = Len(unserved) - 1
        /\ \A i \in 1..Len(unserved) - 1 : Tail(unserved)[i] = unserved[i + 1]
    BY <2>1
  <2>5. CASE Len(unserved) = 1
    <3>1. Tail(unserved) \in Seq(PreviewRequests) /\ Len(Tail(unserved)) = 0
      BY <2>4, <2>5
    <3>2. Tail(unserved) = <<>>
      BY <3>1, EmptySeq
    <3>3. unserved[1] = unserved[Len(unserved)]
      BY <2>5
    <3> QED BY <2>3, <2>5, <3>1, <3>2, <3>3
  <2>6. CASE Len(unserved) # 1
    <3>1. Len(unserved) - 1 \in 1..Len(unserved) - 1 /\ (Len(unserved) - 1) + 1 = Len(unserved)
      BY <2>2, <2>6
    <3>2. Tail(unserved)[Len(unserved) - 1] = unserved[Len(unserved)]
      BY <2>4, <3>1
    <3>3. Tail(unserved) # <<>>
      <4>1. Len(Tail(unserved)) # 0 /\ Len(<<>>) = 0
        BY <2>2, <2>4, <2>6
      <4> QED BY <4>1
    <3> QED BY <2>3, <2>4, <2>6, <3>2, <3>3
  <2> QED BY <2>5, <2>6
<1>3. connection \in Connections /\ ~subscribed
  BY <1>t, <1>1, PreviewAssumption DEF PreviewTypes, ConsoleAsks, Connections
<1>4. /\ Head(unserved).cameras \in SUBSET Cameras
      /\ NoSelection \in SUBSET Cameras
  BY <1>2 DEF PreviewRequests, NoSelection
<1>5. subscriptions' \in [Connections -> SUBSET Cameras]
  <2>1. subscriptions' \in {subscriptions,
                            [subscriptions EXCEPT ![connection] = Head(unserved).cameras],
                            [subscriptions EXCEPT ![connection] = NoSelection]}
    BY DEF ServePreview
  <2> QED BY <1>t, <1>3, <1>4, <2>1 DEF PreviewTypes
<1>6. CASE asked /\ Len(unserved) = 1
  <2>1. Head(unserved) = PreviewRequest("subscribe", selected) /\ ~paused
    BY <1>t, <1>2, <1>6 DEF ConsoleAsks
  <2>2. Head(unserved).op = "subscribe" /\ Head(unserved).cameras = selected
    BY <2>1 DEF PreviewRequest
  <2>3. PICK granted \in BOOLEAN :
            /\ Answer(granted)
            /\ granted => subscriptions' = [subscriptions EXCEPT ![connection] = selected]
    BY <2>2 DEF ServePreview
  <2>4. asked' = FALSE /\ subscribed' = TRUE /\ refused' = ~granted
    BY <1>6, <2>3 DEF Answer
  <2>5. granted => subscriptions'[connection] = selected
    BY <1>t, <1>3, <2>3 DEF PreviewTypes
  <2>6. PreviewTypes'
    BY <1>t, <1>1, <1>2, <1>5, <2>4 DEF PreviewTypes
  <2>7. ConsoleAsks'
    <3>1. connection # 0 /\ unserved' = <<>>
      BY <1>1, <1>2, <1>3, <1>6, PreviewAssumption DEF Connections
    <3> QED BY <1>1, <2>1, <2>4, <2>5, <3>1 DEF ConsoleAsks
  <2> QED BY <2>6, <2>7 DEF PreviewInv
<1>7. CASE ~(asked /\ Len(unserved) = 1)
  <2>1. UNCHANGED <<asked, subscribed, refused>>
    BY <1>7 DEF ServePreview, Answer
  <2>2. PreviewTypes'
    BY <1>t, <1>1, <1>2, <1>5, <2>1 DEF PreviewTypes
  <2>3. ConsoleAsks'
    BY <1>t, <1>1, <1>2, <1>3, <1>7, <2>1 DEF ConsoleAsks
  <2> QED BY <2>2, <2>3 DEF PreviewInv
<1> QED BY <1>6, <1>7

EncoderActions ==
    \/ (\E c \in Cameras : Submit(c)) \/ Look \/ FallAsleep \/ (\E c \in Cameras : Take(c)) \/ Encode
    \/ EndRound \/ StartPreview \/ StopPreview \/ EndEncoder

LEMMA EncoderKeepsInv == PreviewInv /\ EncoderActions => PreviewInv'
<1> SUFFICES ASSUME PreviewInv, EncoderActions PROVE PreviewInv'
  OBVIOUS
<1>1. UNCHANGED <<connection, links, selected, paused, subscribed, asked, unserved, refused, subscriptions>>
  BY DEF EncoderActions, Submit, Look, FallAsleep, Take, Encode, EndRound, StartPreview, StopPreview,
         EndEncoder, consoleVars
<1>2. previewStop' \in BOOLEAN
  BY DEF PreviewInv, PreviewTypes, EncoderActions, Submit, Look, FallAsleep, Take, Encode, EndRound,
         StartPreview, StopPreview, EndEncoder
<1> QED BY <1>1, <1>2 DEF PreviewInv, PreviewTypes, ConsoleAsks

LEMMA PreviewInvNext == PreviewInv /\ [PreviewNext]_previewVars => PreviewInv'
<1>1. PreviewInv /\ UNCHANGED previewVars => PreviewInv'
  BY DEF PreviewInv, PreviewTypes, ConsoleAsks, previewVars, consoleVars, serviceVars
<1> QED
  BY <1>1, ConsoleKeepsInv, ServeKeepsInv, EncoderKeepsInv DEF PreviewNext, EncoderActions

\* The slots of frames are counted exactly: one for each camera whose frame
\* waits and one for the frame the encoder has taken.
LEMMA EncoderTypesNext == EncoderTypes /\ [PreviewNext]_previewVars => EncoderTypes'
<1> SUFFICES ASSUME EncoderTypes, [PreviewNext]_previewVars PROVE EncoderTypes'
  OBVIOUS
<1>f. IsFiniteSet(waiting) /\ Cardinality(waiting) \in Nat
  BY PreviewAssumption, FS_Subset, FS_CardinalityType DEF EncoderTypes
<1>1. CASE \E c \in Cameras : Submit(c)
  <2>1. PICK c \in Cameras : Submit(c)
    BY <1>1
  <2>2. /\ waiting' = waiting \union {c} /\ UNCHANGED <<round, taken>>
        /\ pendingSlots' = IF c \in waiting THEN pendingSlots ELSE pendingSlots + 1
    BY <2>1 DEF Submit
  <2>3. Cardinality(waiting \union {c}) = IF c \in waiting THEN Cardinality(waiting) ELSE Cardinality(waiting) + 1
    BY <1>f, FS_AddElement
  <2> QED BY <1>f, <2>2, <2>3 DEF EncoderTypes
<1>2. CASE \E c \in Cameras : Take(c)
  <2>1. PICK c \in Cameras : Take(c)
    BY <1>2
  <2>2. /\ taken = NoCamera /\ waiting' = waiting \ {c} /\ round' = round \ {c}
        /\ taken' = IF c \in waiting THEN c ELSE NoCamera
        /\ pendingSlots' = pendingSlots
    BY <2>1 DEF Take
  <2>3. Cardinality(waiting \ {c}) = IF c \in waiting THEN Cardinality(waiting) - 1 ELSE Cardinality(waiting)
    BY <1>f, FS_RemoveElement
  <2> QED BY <1>f, <2>2, <2>3, PreviewAssumption DEF EncoderTypes
<1>3. CASE Encode
  BY <1>3, <1>f DEF Encode, EncoderTypes
<1>4. CASE Look
  BY <1>4 DEF Look, EncoderTypes
<1>5. CASE UNCHANGED <<waiting, round, taken, pendingSlots>>
  BY <1>5 DEF EncoderTypes
<1>6. \/ \E c \in Cameras : Submit(c) \/ Take(c)
      \/ Encode \/ Look \/ UNCHANGED <<waiting, round, taken, pendingSlots>>
  BY DEF PreviewNext, PreviewConnect, PreviewDisconnect, Select, Pause, ResumePreview, RequestExpires,
         ServePreview, FallAsleep, EndRound, StartPreview, StopPreview, EndEncoder, serviceVars, previewVars
<1> QED BY <1>1, <1>2, <1>3, <1>4, <1>5, <1>6

\* The preview's types; and pending_slots_, by which the encoder decides whether
\* it sleeps, is the number of frames that wait and of the one being encoded
\* (PreviewRuntime::submit, run).
THEOREM PreviewTypesAlways == PreviewSpec => []PreviewTypeOK
<1>1. PreviewInv /\ EncoderTypes => PreviewTypeOK
  BY DEF PreviewInv, PreviewTypes, EncoderTypes, PreviewTypeOK, PreviewRequests
<1> QED BY <1>1, PreviewInvInit, PreviewInvNext, EncoderTypesNext, PTL DEF PreviewSpec

\* A connected console that shows its subscription and whose requests have all
\* been served shows what the service holds for it, for any cameras and any
\* sequence of selections, pauses, expired requests and new connections, unless
\* the service refused it (PreviewClient::subscription_completed).
THEOREM ShownIsHeldUnlessRefusedAlways == PreviewSpec => []ShownIsHeldUnlessRefused
<1>1. PreviewInv => ShownIsHeldUnlessRefused
  BY DEF PreviewInv, ConsoleAsks, ShownIsHeldUnlessRefused
<1> QED BY <1>1, PreviewInvInit, PreviewInvNext, PTL DEF PreviewSpec

-----------------------------------------------------------------------------
(* The dashboard *)

QueryRequests == [part : Parts, link : Nat, answer : Int]

Screens == [on : BOOLEAN, up : BOOLEAN, link : Nat, stale : SUBSET Parts, again : BOOLEAN,
            shown : [Parts -> Int], slot : [Parts -> Nat], requests : SUBSET QueryRequests,
            faults : Int]

\* A request of this connection is the only one for its part and has its slot;
\* no query follows a query of alarms that is not under way.
SlotsHold(s) ==
    /\ \A r \in s.requests : r.link <= s.link
    /\ s.up =>
        /\ s.link > 0
        /\ \A r \in s.requests : r.link = s.link => s.slot[r.part] # NoRequest
        /\ \A r, other \in s.requests :
              r.link = s.link /\ other.link = s.link /\ r.part = other.part => r = other
        /\ s.again => s.slot["alarms"] # NoRequest

\* What is shown of the alarms, or will be when the query under way is answered,
\* is no older than a revision.
KeepsUp(s, revision) ==
    s.up =>
        /\ "alarms" \notin s.stale /\ s.slot["alarms"] = NoRequest =>
               s.shown["alarms"] >= revision
        /\ ~s.again => \A r \in s.requests : r.part = "alarms" /\ r.link = s.link =>
                           r.answer = Unanswered \/ r.answer >= revision

LEMMA HasAlarms == "alarms" \in Parts /\ "status" \in Parts
BY DashboardAssumption

LEMMA LinkLostShape ==
    ASSUME NEW s \in Screens
    PROVE  /\ LinkLost(s) \in Screens /\ ~LinkLost(s).up /\ LinkLost(s).link = s.link
           /\ LinkLost(s).requests \subseteq s.requests /\ ~LinkLost(s).again
           /\ LinkLost(s).slot = [p \in Parts |-> NoRequest] /\ LinkLost(s).stale = Parts
           /\ LinkLost(s).shown = s.shown /\ LinkLost(s).faults = s.faults
           /\ LinkLost(s).on = s.on
           /\ \A r \in LinkLost(s).requests : r.link # s.link
<1> DEFINE gone == {r \in s.requests : r.link # s.link}
           none == [p \in Parts |-> NoRequest]
<1>1. gone \in SUBSET QueryRequests /\ none \in [Parts -> Nat]
  BY DEF Screens, NoRequest
<1>2. gone \subseteq s.requests /\ \A r \in gone : r.link # s.link
  OBVIOUS
<1>3. LinkLost(s) = [s EXCEPT !.up = FALSE, !.stale = Parts, !.slot = none,
                              !.again = FALSE, !.requests = gone]
  BY DEF LinkLost
<1> HIDE DEF gone, none
<1>4. /\ LinkLost(s) \in Screens
      /\ LinkLost(s).up = FALSE /\ LinkLost(s).link = s.link /\ LinkLost(s).again = FALSE
      /\ LinkLost(s).requests = gone /\ LinkLost(s).slot = none /\ LinkLost(s).stale = Parts
      /\ LinkLost(s).shown = s.shown /\ LinkLost(s).faults = s.faults /\ LinkLost(s).on = s.on
  BY <1>1, <1>3 DEF Screens
<1> QED BY <1>2, <1>4 DEF none

LEMMA LinkLostHolds ==
    ASSUME NEW s \in Screens, SlotsHold(s), NEW revision
    PROVE  LinkLost(s) \in Screens /\ SlotsHold(LinkLost(s)) /\ KeepsUp(LinkLost(s), revision)
BY LinkLostShape DEF SlotsHold, KeepsUp

Added(set, element) == set \cup {element}

LEMMA WithRequestShape ==
    ASSUME NEW s \in Screens, NEW part \in Parts, NEW link \in Nat,
           NEW query, query = Queried(part, link)
    PROVE  /\ WithRequest(s, part, link) \in Screens
           /\ WithRequest(s, part, link).up = s.up /\ WithRequest(s, part, link).link = s.link
           /\ WithRequest(s, part, link).again = s.again
           /\ WithRequest(s, part, link).stale = s.stale
           /\ WithRequest(s, part, link).shown = s.shown
           /\ WithRequest(s, part, link).slot = [s.slot EXCEPT ![part] = link]
           /\ WithRequest(s, part, link).requests = Added(s.requests, query)
<1> DEFINE more == s.requests \cup {query}
<1>1. more \in SUBSET QueryRequests
  BY DEF Screens, QueryRequests, Queried, Unanswered
<1> HIDE DEF more
<1>2. WithRequest(s, part, link) = [s EXCEPT !.slot[part] = link, !.requests = more]
  BY DEF WithRequest, more
<1>3. s.slot \in [Parts -> Nat]
  BY DEF Screens
<1>4. PICK slots : slots = [s.slot EXCEPT ![part] = link]
  OBVIOUS
<1>5. slots \in [Parts -> Nat]
  BY <1>3, <1>4
<1>6. WithRequest(s, part, link) = [s EXCEPT !.slot = slots, !.requests = more]
  BY <1>2, <1>4 DEF Screens
<1>7. /\ WithRequest(s, part, link) \in Screens
      /\ WithRequest(s, part, link).up = s.up /\ WithRequest(s, part, link).link = s.link
      /\ WithRequest(s, part, link).again = s.again
      /\ WithRequest(s, part, link).stale = s.stale
      /\ WithRequest(s, part, link).shown = s.shown
      /\ WithRequest(s, part, link).slot = slots
      /\ WithRequest(s, part, link).requests = more
  BY <1>1, <1>5, <1>6 DEF Screens
<1> QED BY <1>4, <1>7 DEF more, Added

Holds(s, revision) == s \in Screens /\ SlotsHold(s) /\ KeepsUp(s, revision)

\* A query that is sent, refused or interrupted leaves a screen that keeps up;
\* a query of the alarms makes one of a screen that did not.
LEMMA SentHolds ==
    ASSUME NEW s \in Screens, SlotsHold(s), s.up, NEW revision \in Int, NEW part \in Parts,
           s.slot[part] = NoRequest, part = "alarms" \/ KeepsUp(s, revision),
           NEW t \in SentBy(s, part)
    PROVE  Holds(t, revision)
<1>0. PICK faults \in Int : faults = s.faults + 1
  BY DEF Screens
<1>1. PICK faulty : faulty = [s EXCEPT !.faults = @ + 1]
  OBVIOUS
<1>f. faulty = [s EXCEPT !.faults = faults]
  BY <1>0, <1>1
<1>2. /\ faulty \in Screens /\ faulty.up = s.up /\ faulty.link = s.link /\ faulty.stale = s.stale
      /\ faulty.again = s.again /\ faulty.shown = s.shown /\ faulty.slot = s.slot
      /\ faulty.requests = s.requests
  BY <1>f DEF Screens
<1>3. SlotsHold(faulty)
  BY <1>2 DEF SlotsHold
<1>4. \/ t = WithRequest(s, part, s.link)
      \/ t = [faulty EXCEPT !.stale = @ \cup {part}]
      \/ t = LinkLost(faulty)
      \/ t = WithRequest(LinkLost(faulty), part, s.link)
  BY <1>1 DEF SentBy
<1>l. s.link \in Nat /\ s.slot \in [Parts -> Nat] /\ s.requests \subseteq QueryRequests
  BY DEF Screens
<1>q. PICK query : query = Queried(part, s.link)
  OBVIOUS
<1>5. CASE t = WithRequest(s, part, s.link)
  <2>1. /\ t \in Screens /\ t.up = s.up /\ t.link = s.link /\ t.again = s.again
        /\ t.stale = s.stale /\ t.shown = s.shown /\ t.slot[part] = s.link
        /\ \A p \in Parts \ {part} : t.slot[p] = s.slot[p]
        /\ t.requests = s.requests \cup {query}
    <3>1. t.slot = [s.slot EXCEPT ![part] = s.link]
      BY <1>5, <1>l, <1>q, WithRequestShape
    <3>2. t \in Screens BY <1>5, <1>l, <1>q, WithRequestShape
    <3>3. t.up = s.up BY <1>5, <1>l, <1>q, WithRequestShape
    <3>4. t.link = s.link BY <1>5, <1>l, <1>q, WithRequestShape
    <3>5. t.again = s.again BY <1>5, <1>l, <1>q, WithRequestShape
    <3>6. t.stale = s.stale BY <1>5, <1>l, <1>q, WithRequestShape
    <3>7. t.shown = s.shown BY <1>5, <1>l, <1>q, WithRequestShape
    <3>8. t.slot[part] = s.link BY <1>l, <3>1
    <3>9. \A p \in Parts \ {part} : t.slot[p] = s.slot[p] BY <1>l, <3>1
    <3>a. WithRequest(s, part, s.link).requests = Added(s.requests, query)
      BY <1>q DEF WithRequest, Added, Screens
    <3>10. t.requests = Added(s.requests, query) BY <1>5, <3>a
    <3> QED BY <3>2, <3>3, <3>4, <3>5, <3>6, <3>7, <3>8, <3>9, <3>10 DEF Added
  <2>2. query.part = part /\ query.link = s.link /\ query.answer = Unanswered
    BY <1>q DEF Queried
  <2>3. s.link # NoRequest
    BY <1>l DEF SlotsHold, NoRequest
  <2>4. \A r \in s.requests : r.link = s.link => r.part # part /\ r.part \in Parts
    BY <1>l DEF SlotsHold, QueryRequests
  <2>5. SlotsHold(t)
    <3>1. \A r \in t.requests : r.link <= t.link
      BY <1>l, <2>1, <2>2 DEF SlotsHold
    <3>2. \A r \in t.requests : r.link = t.link => t.slot[r.part] # NoRequest
      BY <2>1, <2>2, <2>3, <2>4 DEF SlotsHold
    <3>3. ASSUME NEW r \in t.requests, NEW other \in t.requests,
                 r.link = t.link, other.link = t.link, r.part = other.part
          PROVE  r = other
      BY <3>3, <2>1, <2>2, <2>4 DEF SlotsHold
    <3>4. t.again => t.slot["alarms"] # NoRequest
      BY <2>1, <2>3, HasAlarms DEF SlotsHold
    <3>5. t.link > 0
      BY <2>1 DEF SlotsHold
    <3> QED BY <3>1, <3>2, <3>3, <3>4, <3>5 DEF SlotsHold
  <2>6. KeepsUp(t, revision)
    <3>1. CASE part = "alarms"
      <4>1. \A r \in t.requests : r.part = "alarms" /\ r.link = t.link => r.answer = Unanswered
        BY <3>1, <2>1, <2>2, <2>4
      <4> QED BY <3>1, <4>1, <2>1, <2>3 DEF KeepsUp
    <3>2. CASE part # "alarms" /\ KeepsUp(s, revision)
      <4>1. t.slot["alarms"] = s.slot["alarms"]
        BY <3>2, <2>1, HasAlarms
      <4>2. \A r \in t.requests : r.part = "alarms" => r \in s.requests
        BY <3>2, <2>1, <2>2
      <4> QED BY <3>2, <4>1, <4>2, <2>1 DEF KeepsUp
    <3> QED BY <3>1, <3>2
  <2> QED BY <2>1, <2>5, <2>6 DEF Holds
<1>6. CASE t = [faulty EXCEPT !.stale = @ \cup {part}]
  <2>1. /\ t \in Screens /\ t.up = s.up /\ t.link = s.link /\ t.again = s.again
        /\ t.stale = s.stale \cup {part} /\ t.shown = s.shown /\ t.slot = s.slot
        /\ t.requests = s.requests
    BY <1>2, <1>6 DEF Screens
  <2>2. SlotsHold(t)
    BY <2>1 DEF SlotsHold
  <2>3. KeepsUp(t, revision)
    <3>1. CASE part = "alarms"
      <4>1. \A r \in t.requests : ~(r.part = "alarms" /\ r.link = t.link)
        BY <3>1, <2>1 DEF SlotsHold
      <4> QED BY <3>1, <4>1, <2>1 DEF KeepsUp
    <3>2. CASE KeepsUp(s, revision)
      BY <3>2, <2>1 DEF KeepsUp
    <3> QED BY <3>1, <3>2
  <2> QED BY <2>1, <2>2, <2>3 DEF Holds
<1>7. CASE t = LinkLost(faulty)
  BY <1>2, <1>3, <1>7, LinkLostHolds DEF Holds
<1>8. CASE t = WithRequest(LinkLost(faulty), part, s.link)
  <2>1. PICK lost : lost = LinkLost(faulty)
    OBVIOUS
  <2>2. lost \in Screens /\ ~lost.up /\ lost.link = s.link /\ SlotsHold(lost)
    BY <2>1, <1>2, <1>3, LinkLostShape, LinkLostHolds
  <2>r. t.requests = Added(lost.requests, query)
    BY <2>2, <1>8, <2>1, <1>q DEF WithRequest, Added, Screens
  <2>3. t \in Screens /\ ~t.up /\ t.link = s.link
        /\ t.requests = lost.requests \cup {query}
    <3>1. t = WithRequest(lost, part, s.link)
      BY <2>1, <1>8
    <3>2. t \in Screens BY <3>1, <2>2, <1>l, <1>q, WithRequestShape
    <3>3. t.up = lost.up BY <3>1, <2>2 DEF WithRequest, Screens
    <3>4. t.link = lost.link BY <3>1, <2>2, <1>l, <1>q, WithRequestShape
    <3> QED BY <2>2, <2>r, <3>2, <3>3, <3>4 DEF Added
  <2>4. query.link = s.link
    BY <1>q DEF Queried
  <2>5. SlotsHold(t) /\ KeepsUp(t, revision)
    BY <2>2, <2>3, <2>4, <1>l DEF SlotsHold, KeepsUp
  <2> QED BY <2>3, <2>5 DEF Holds
<1> QED BY <1>4, <1>5, <1>6, <1>7, <1>8

LEMMA SynchronizedHolds ==
    ASSUME NEW revision \in Int, NEW s, Holds(s, revision), NEW part \in Parts,
           NEW t \in Synchronized(s, part)
    PROVE  Holds(t, revision)
BY SentHolds DEF Synchronized, Holds

LEMMA RefreshedHolds ==
    ASSUME NEW revision \in Int, NEW s, Holds(s, revision), NEW part \in Parts,
           NEW t \in RefreshedPart(s, part)
    PROVE  Holds(t, revision)
BY SynchronizedHolds DEF RefreshedPart

\* However the queries of a round turn out, the screen keeps up.
LEMMA RoundHolds ==
    ASSUME NEW revision \in Int, NEW s, Holds(s, revision),
           NEW t \in InOrder(Synchronized, s) \cup InOrder(RefreshedPart, s)
    PROVE  Holds(t, revision)
<1> DEFINE allHold(screens) == \A x \in screens : Holds(x, revision)
<1>1. ASSUME NEW screens, allHold(screens), NEW part
      PROVE  /\ allHold(AfterPart(Synchronized, part, screens))
             /\ allHold(AfterPart(RefreshedPart, part, screens))
  <2>1. ASSUME NEW x \in AfterPart(Synchronized, part, screens) PROVE Holds(x, revision)
    BY <1>1, <2>1, SynchronizedHolds DEF AfterPart
  <2>2. ASSUME NEW x \in AfterPart(RefreshedPart, part, screens) PROVE Holds(x, revision)
    BY <1>1, <2>2, RefreshedHolds DEF AfterPart
  <2> QED BY <2>1, <2>2
<1>2. allHold({s})
  OBVIOUS
<1> HIDE DEF allHold
<1>3. allHold(InOrder(Synchronized, s))
  BY <1>1, <1>2 DEF InOrder
<1>4. allHold(InOrder(RefreshedPart, s))
  BY <1>1, <1>2 DEF InOrder
<1> QED BY <1>3, <1>4 DEF allHold

\* An answer or a refusal that a request was waiting for.  The answer to a query
\* that a notification has overtaken is followed by another query.
LEMMA TakenHolds ==
    ASSUME NEW revision \in Int, NEW s, Holds(s, revision), NEW r \in s.requests, IsCurrent(s, r),
           NEW answer \in Int, answer = Refused \/ (answer = r.answer /\ answer # Unanswered),
           NEW t \in Taken([s EXCEPT !.requests = @ \ {r}], r.part, answer)
    PROVE  Holds(t, revision)
<1>1. /\ s \in Screens /\ SlotsHold(s) /\ KeepsUp(s, revision)
      /\ s.up /\ r.link = s.link /\ s.slot[r.part] = r.link
  BY DEF Holds, IsCurrent
<1>2. PICK part \in Parts : part = r.part
  BY <1>1 DEF Screens, QueryRequests
<1>3. PICK slots \in [Parts -> Nat] : slots = [s.slot EXCEPT ![part] = NoRequest]
  BY <1>1 DEF Screens, NoRequest
<1>4. PICK shown \in [Parts -> Int] :
          shown = IF answer = Refused THEN s.shown ELSE [s.shown EXCEPT ![part] = answer]
  BY <1>1 DEF Screens
<1>5. PICK stale \in SUBSET Parts :
          stale = IF answer = Refused THEN s.stale \cup {part} ELSE s.stale \ {part}
  BY <1>1 DEF Screens
<1>6. PICK rest \in SUBSET QueryRequests : rest = s.requests \ {r}
  BY <1>1 DEF Screens
<1>7. PICK shows : shows = [s EXCEPT !.slot = slots, !.shown = shown, !.stale = stale, !.requests = rest]
  OBVIOUS
<1>8. /\ shows \in Screens /\ shows.up = s.up /\ shows.link = s.link /\ shows.again = s.again
      /\ shows.slot = slots /\ shows.shown = shown /\ shows.stale = stale /\ shows.requests = rest
  BY <1>1, <1>7 DEF Screens
<1>9. t \in (IF part = "alarms" THEN AskedAgain(shows) ELSE {shows})
  <2> DEFINE gone == [s EXCEPT !.requests = @ \ {r}]
             freed == [gone EXCEPT !.slot[part] = NoRequest]
             after == IF answer = Refused THEN [freed EXCEPT !.stale = @ \cup {part}]
                      ELSE [freed EXCEPT !.stale = @ \ {part}, !.shown[part] = answer]
  <2>1. gone = [s EXCEPT !.requests = rest] /\ gone.slot = s.slot
    BY <1>1, <1>6 DEF Screens
  <2>2. freed = [s EXCEPT !.requests = rest, !.slot = slots]
    BY <1>1, <1>3, <2>1 DEF Screens
  <2>3. t \in (IF part = "alarms" THEN AskedAgain(after) ELSE {after})
    BY <1>2 DEF Taken
  <2> HIDE DEF freed, gone
  <2>4. after = shows
    <3>1. CASE answer = Refused
      <4>1. freed.stale = s.stale
        BY <1>1, <2>2 DEF Screens
      <4>2. after = [freed EXCEPT !.stale = stale] /\ shown = s.shown
        BY <3>1, <4>1, <1>4, <1>5
      <4> QED BY <1>1, <1>7, <2>2, <4>2 DEF Screens
    <3>2. CASE answer # Refused
      <4>1. freed.stale = s.stale /\ freed.shown = s.shown
        BY <1>1, <2>2 DEF Screens
      <4>2. after = [freed EXCEPT !.stale = stale, !.shown = shown]
        <5>1. after = [freed EXCEPT !.stale = freed.stale \ {part}, !.shown[part] = answer]
          BY <3>2
        <5>2. freed \in Screens
          BY <1>1, <1>3, <1>6, <2>2 DEF Screens
        <5>3. stale = freed.stale \ {part} /\ shown = [freed.shown EXCEPT ![part] = answer]
          BY <3>2, <4>1, <1>4, <1>5
        <5> QED BY <5>1, <5>2, <5>3 DEF Screens
      <4> QED BY <1>1, <1>7, <2>2, <4>2 DEF Screens
    <3> QED BY <3>1, <3>2
  <2> QED BY <2>3, <2>4
<1>10. \A other \in rest : other.link = s.link => other.part # part /\ other.part \in Parts
  BY <1>1, <1>2, <1>6 DEF SlotsHold, QueryRequests
<1>11. /\ \A p \in Parts \ {part} : slots[p] = s.slot[p] /\ shown[p] = s.shown[p]
       /\ slots[part] = NoRequest
       /\ \A p \in Parts \ {part} : p \in stale <=> p \in s.stale
  BY <1>1, <1>3, <1>4, <1>5 DEF Screens
<1>12. /\ \A other \in rest : other.link <= s.link
       /\ s.link > 0
       /\ \A other \in rest : other.link = s.link => slots[other.part] # NoRequest
       /\ \A other, third \in rest :
             other.link = s.link /\ third.link = s.link /\ other.part = third.part => other = third
  BY <1>1, <1>6, <1>10, <1>11 DEF SlotsHold
<1>13. CASE part # "alarms"
  <2>1. t = shows
    BY <1>9, <1>13
  <2>2. SlotsHold(t)
    <3>1. s.again => slots["alarms"] # NoRequest
      BY <1>1, <1>11, <1>13, HasAlarms DEF SlotsHold
    <3> QED BY <1>8, <1>12, <2>1, <3>1 DEF SlotsHold
  <2>3. KeepsUp(t, revision)
    <3>1. /\ slots["alarms"] = s.slot["alarms"] /\ shown["alarms"] = s.shown["alarms"]
          /\ ("alarms" \in stale <=> "alarms" \in s.stale)
      BY <1>11, <1>13, HasAlarms
    <3> QED BY <1>1, <1>6, <1>8, <2>1, <3>1 DEF KeepsUp
  <2> QED BY <1>8, <2>1, <2>2, <2>3 DEF Holds
<1>14. CASE part = "alarms" /\ ~s.again
  <2>1. t = shows
    BY <1>8, <1>9, <1>14 DEF AskedAgain
  <2>2. SlotsHold(t)
    BY <1>8, <1>12, <1>14, <2>1 DEF SlotsHold
  <2>3. KeepsUp(t, revision)
    <3>1. "alarms" \notin stale => shown["alarms"] >= revision
      <4>1. CASE answer = Refused
        BY <1>5, <1>14, <4>1
      <4>2. CASE answer # Refused
        <5>1. answer >= revision
          BY <1>1, <1>2, <1>14, <4>2 DEF KeepsUp
        <5>2. shown["alarms"] = answer
          BY <1>1, <1>4, <1>14, <4>2 DEF Screens
        <5> QED BY <5>1, <5>2
      <4> QED BY <4>1, <4>2
    <3> QED BY <1>6, <1>8, <1>10, <1>14, <2>1, <3>1 DEF KeepsUp
  <2> QED BY <1>8, <2>1, <2>2, <2>3 DEF Holds
<1>15. CASE part = "alarms" /\ s.again
  <2>1. PICK asks : asks = [shows EXCEPT !.again = FALSE]
    OBVIOUS
  <2>2. /\ asks \in Screens /\ asks.up = s.up /\ asks.link = s.link /\ ~asks.again
        /\ asks.slot = slots /\ asks.requests = rest
    BY <1>8, <2>1 DEF Screens
  <2>3. SlotsHold(asks)
    BY <1>12, <2>2 DEF SlotsHold
  <2>4. t \in Synchronized(asks, "alarms")
    BY <1>1, <1>8, <1>9, <1>15, <2>1 DEF AskedAgain
  <2>5. asks.up /\ asks.slot["alarms"] = NoRequest
    BY <1>1, <1>11, <1>15, <2>2
  <2>6. t \in SentBy(asks, "alarms")
    BY <2>4, <2>5 DEF Synchronized
  <2> QED BY <2>2, <2>3, <2>5, <2>6, HasAlarms, SentHolds
<1> QED BY <1>13, <1>14, <1>15

\* An alarm notification.
LEMMA NoticedHolds ==
    ASSUME NEW before \in Int, NEW revision \in Int, NEW s, Holds(s, before), s.up,
           NEW t \in NoticedAlarm(s)
    PROVE  Holds(t, revision)
<1>1. s \in Screens /\ SlotsHold(s)
  BY DEF Holds
<1>2. CASE s.slot["alarms"] # NoRequest
  <2>1. t = [s EXCEPT !.again = TRUE]
    BY <1>2 DEF NoticedAlarm
  <2>2. /\ t \in Screens /\ t.up = s.up /\ t.link = s.link /\ t.again /\ t.stale = s.stale
        /\ t.shown = s.shown /\ t.slot = s.slot /\ t.requests = s.requests
    BY <1>1, <2>1 DEF Screens
  <2>3. SlotsHold(t) /\ KeepsUp(t, revision)
    BY <1>1, <1>2, <2>2 DEF SlotsHold, KeepsUp
  <2> QED BY <2>2, <2>3 DEF Holds
<1>3. CASE s.slot["alarms"] = NoRequest
  <2>1. t \in SentBy(s, "alarms")
    BY <1>3 DEF NoticedAlarm, Synchronized
  <2> QED BY <1>1, <1>3, <2>1, HasAlarms, SentHolds
<1> QED BY <1>2, <1>3

\* The faults are counted for the bound only.
LEMMA FaultsDoNotMatter ==
    ASSUME NEW revision \in Int, NEW s, Holds(s, revision), NEW faults \in Int, NEW t,
           t = [s EXCEPT !.faults = faults]
    PROVE  Holds(t, revision) /\ t.up = s.up
<1>1. /\ t \in Screens /\ t.up = s.up /\ t.link = s.link /\ t.again = s.again /\ t.stale = s.stale
      /\ t.shown = s.shown /\ t.slot = s.slot /\ t.requests = s.requests
  BY DEF Holds, Screens
<1> QED BY <1>1 DEF Holds, SlotsHold, KeepsUp

PushTypes == [what : {"status", "alarms"}, revision : Int]

\* Nobody is told of an alarm that the service does not have yet.
DashboardInv ==
    /\ noticed \in [status : Int, alarms : Int]
    /\ actual \in [Parts -> Nat]
    /\ pushes \in Seq(PushTypes)
    /\ Holds(screen, noticed.alarms)
    /\ screen.up =>
        /\ noticed.alarms <= actual["alarms"]
        /\ \A i \in 1 .. Len(pushes) :
              pushes[i].what = "alarms" => pushes[i].revision <= actual["alarms"]

LEMMA DashboardStarts == DashboardInit => DashboardInv
<1> SUFFICES ASSUME DashboardInit PROVE DashboardInv
  OBVIOUS
<1>1. /\ screen.up = FALSE /\ screen.requests = {} /\ screen \in Screens
  BY DEF DashboardInit, Screens, QueryRequests, NothingShown, NoRequest
<1>2. Holds(screen, noticed.alarms)
  BY <1>1 DEF Holds, SlotsHold, KeepsUp
<1>3. pushes \in Seq(PushTypes)
  BY EmptySeq DEF DashboardInit
<1> QED BY <1>1, <1>2, <1>3 DEF DashboardInit, DashboardInv, NothingNoticed

\* Where the pushes are dropped, or stay, and the notifications stay.
LEMMA ScreenSteps ==
    ASSUME DashboardInv, UNCHANGED <<actual, noticed>>, Holds(screen', noticed.alarms),
           pushes' = <<>> \/ pushes' = pushes, screen'.up => screen.up
    PROVE  DashboardInv'
<1>1. pushes' \in Seq(PushTypes)
  BY EmptySeq DEF DashboardInv
<1>2. screen'.up => \A i \in 1 .. Len(pushes') :
          pushes'[i].what = "alarms" => pushes'[i].revision <= actual'["alarms"]
  BY EmptySeq DEF DashboardInv
<1> QED BY <1>1, <1>2 DEF DashboardInv, Holds, SlotsHold, KeepsUp

LEMMA LinkUpHolds == DashboardInv /\ LinkUp => DashboardInv'
<1> SUFFICES ASSUME DashboardInv, LinkUp PROVE DashboardInv'
  OBVIOUS
<1>1. screen \in Screens /\ SlotsHold(screen)
  BY DEF DashboardInv, Holds
<1>2. PICK link \in Nat : link = screen.link + 1
  BY <1>1 DEF Screens
<1>3. PICK requests \in SUBSET QueryRequests : requests = screen.requests
  BY <1>1 DEF Screens
<1>4. PICK lost \in Screens : lost = LinkLost(screen) /\ ~lost.again /\ lost.link = screen.link
                           /\ lost.stale = Parts
  BY <1>1, LinkLostShape
<1>5. PICK fresh : fresh = [lost EXCEPT !.up = TRUE, !.link = link, !.requests = requests]
  OBVIOUS
<1>6. screen' \in InOrder(Synchronized, fresh)
  <2>1. fresh = [lost EXCEPT !.up = TRUE, !.link = @ + 1, !.requests = screen.requests]
    BY <1>2, <1>3, <1>4, <1>5 DEF Screens
  <2> QED BY <1>4, <2>1 DEF LinkUp
<1>7. /\ fresh \in Screens /\ fresh.link = link /\ ~fresh.again /\ fresh.stale = Parts
      /\ fresh.requests = requests
  BY <1>4, <1>5 DEF Screens
<1>8. \A r \in requests : r.link < link /\ r.link <= link
  BY <1>1, <1>2, <1>3 DEF SlotsHold, Screens, QueryRequests
<1>9. link > 0
  BY <1>1, <1>2 DEF Screens
<1>10. SlotsHold(fresh) /\ KeepsUp(fresh, 0)
  <2>1. \A r \in requests : r.link # link
    BY <1>8 DEF QueryRequests
  <2> QED BY <1>7, <1>8, <1>9, <2>1, HasAlarms DEF SlotsHold, KeepsUp
<1>11. Holds(screen', 0)
  BY <1>6, <1>7, <1>10, RoundHolds DEF Holds
<1>12. noticed' = [status |-> 0, alarms |-> 0] /\ pushes' = <<>> /\ actual' = actual
  BY DEF LinkUp, NothingNoticed
<1>13. pushes' \in Seq(PushTypes) /\ Len(pushes') = 0
  BY <1>12, EmptySeq
<1>14. noticed'.alarms = 0 /\ noticed' \in [status : Int, alarms : Int] /\ actual'["alarms"] \in Nat
  BY <1>12, HasAlarms DEF DashboardInv
<1> QED BY <1>11, <1>12, <1>13, <1>14 DEF DashboardInv

LEMMA LinkDownHolds == DashboardInv /\ (LinkDown \/ StopStore) => DashboardInv'
<1> SUFFICES ASSUME DashboardInv, LinkDown \/ StopStore PROVE DashboardInv'
  OBVIOUS
<1>1. screen \in Screens /\ SlotsHold(screen)
  BY DEF DashboardInv, Holds
<1>2. PICK lost : lost = LinkLost(screen)
  OBVIOUS
<1>3. lost \in Screens /\ ~lost.up /\ SlotsHold(lost)
  BY <1>1, <1>2, LinkLostShape, LinkLostHolds
<1>4. screen' \in Screens /\ ~screen'.up /\ SlotsHold(screen')
  <2>1. CASE LinkDown
    BY <1>2, <1>3, <2>1 DEF LinkDown
  <2>2. CASE StopStore
    <3>1. screen' = [lost EXCEPT !.on = FALSE, !.requests = {}]
      BY <1>2, <2>2 DEF StopStore
    <3>2. screen' \in Screens /\ screen'.up = lost.up /\ screen'.requests = {}
      BY <1>3, <3>1 DEF Screens
    <3> QED BY <1>3, <3>2 DEF SlotsHold
  <2> QED BY <2>1, <2>2
<1>5. pushes' = <<>> /\ actual' = actual
  BY DEF LinkDown, StopStore
<1>6. noticed' \in [status : Int, alarms : Int]
  BY DEF DashboardInv, LinkDown, StopStore, NothingNoticed
<1> QED BY <1>4, <1>5, <1>6, EmptySeq DEF DashboardInv, Holds, KeepsUp

LEMMA RefreshHolds == DashboardInv /\ RefreshTimer => DashboardInv'
<1> SUFFICES ASSUME DashboardInv, RefreshTimer PROVE DashboardInv'
  OBVIOUS
<1>1. noticed.alarms \in Int /\ Holds(screen, noticed.alarms) /\ screen.up
  BY DEF DashboardInv, RefreshTimer
<1>2. Holds(screen', noticed.alarms)
  BY <1>1, RoundHolds DEF RefreshTimer
<1> QED BY <1>1, <1>2, ScreenSteps DEF RefreshTimer

LEMMA EndsHold ==
    ASSUME DashboardInv, NEW r \in screen.requests, NEW answer \in Int,
           answer = Refused \/ (answer = r.answer /\ answer # Unanswered),
           RequestEnds(r, answer)
    PROVE  DashboardInv'
<1>1. noticed.alarms \in Int /\ Holds(screen, noticed.alarms) /\ screen \in Screens
  BY DEF DashboardInv, Holds
<1>2. PICK s \in CompletedBy(screen, r, answer) :
        screen' = [s EXCEPT !.faults = IF answer # Refused \/ ~OnLink(r) THEN @
                                       ELSE IF @ < MaximumFaults THEN @ + 1 ELSE @]
  BY DEF RequestEnds
<1>3. Holds(s, noticed.alarms) /\ (s.up => screen.up)
  <2>1. CASE IsCurrent(screen, r)
    <3>1. s \in Taken([screen EXCEPT !.requests = @ \ {r}], r.part, answer)
      BY <1>2, <2>1 DEF CompletedBy
    <3> QED BY <1>1, <2>1, <3>1, TakenHolds DEF IsCurrent
  <2>2. CASE ~IsCurrent(screen, r)
    <3>1. PICK rest \in SUBSET QueryRequests : rest = screen.requests \ {r}
      BY <1>1 DEF Screens
    <3>2. s = [screen EXCEPT !.requests = rest]
      BY <1>1, <1>2, <2>2, <3>1 DEF CompletedBy, Screens
    <3>3. /\ s \in Screens /\ s.up = screen.up /\ s.link = screen.link /\ s.again = screen.again
          /\ s.stale = screen.stale /\ s.shown = screen.shown /\ s.slot = screen.slot
          /\ s.requests = rest
      BY <1>1, <3>2 DEF Screens
    <3> QED BY <1>1, <3>1, <3>3 DEF Holds, SlotsHold, KeepsUp
  <2> QED BY <2>1, <2>2
<1>4. PICK faults \in Int : faults = IF answer # Refused \/ ~OnLink(r) THEN s.faults
                                   ELSE IF s.faults < MaximumFaults THEN s.faults + 1 ELSE s.faults
  BY <1>3 DEF Holds, Screens
<1>5. screen' = [s EXCEPT !.faults = faults]
  BY <1>2, <1>4
<1>6. Holds(screen', noticed.alarms) /\ screen'.up = s.up
  BY <1>1, <1>3, <1>5, FaultsDoNotMatter
<1>7. (pushes' = <<>> \/ pushes' = pushes) /\ UNCHANGED <<actual, noticed>>
  BY DEF RequestEnds
<1> QED BY <1>3, <1>6, <1>7, ScreenSteps

LEMMA ReadAnswerHolds ==
    ASSUME DashboardInv, NEW r \in screen.requests, ReadAnswer(r)
    PROVE  DashboardInv'
<1>1. /\ noticed.alarms \in Int /\ screen \in Screens /\ SlotsHold(screen)
      /\ KeepsUp(screen, noticed.alarms) /\ actual \in [Parts -> Nat]
      /\ screen.up /\ r.link = screen.link /\ noticed.alarms <= actual["alarms"]
  BY DEF DashboardInv, Holds, ReadAnswer, OnLink
<1>2. r \in QueryRequests /\ actual[r.part] \in Nat
  BY <1>1 DEF Screens, QueryRequests
<1>3. PICK read : read = [r EXCEPT !.answer = actual[r.part]]
  OBVIOUS
<1>4. read \in QueryRequests /\ read.part = r.part /\ read.link = r.link /\ read.answer = actual[r.part]
  BY <1>2, <1>3 DEF QueryRequests
<1>5. PICK requests \in SUBSET QueryRequests : requests = (screen.requests \ {r}) \cup {read}
  BY <1>1, <1>4 DEF Screens
<1>6. screen' = [screen EXCEPT !.requests = requests]
  BY <1>1, <1>3, <1>5 DEF ReadAnswer, Screens
<1>7. /\ screen' \in Screens /\ screen'.up = screen.up /\ screen'.link = screen.link
      /\ screen'.again = screen.again /\ screen'.stale = screen.stale /\ screen'.shown = screen.shown
      /\ screen'.slot = screen.slot /\ screen'.requests = requests
  BY <1>1, <1>6 DEF Screens
<1>8. SlotsHold(screen')
  <2>1. \A other \in requests : other.link <= screen.link
    BY <1>1, <1>4, <1>5 DEF SlotsHold
  <2>2. \A other \in requests : other.link = screen.link => screen.slot[other.part] # NoRequest
    BY <1>1, <1>4, <1>5 DEF SlotsHold
  <2>3. ASSUME NEW other \in requests, NEW third \in requests, other.link = screen.link,
               third.link = screen.link, other.part = third.part
        PROVE  other = third
    BY <1>1, <1>4, <1>5, <2>3 DEF SlotsHold
  <2>4. screen.link > 0 /\ (screen.again => screen.slot["alarms"] # NoRequest)
    BY <1>1 DEF SlotsHold
  <2> QED BY <1>7, <2>1, <2>2, <2>3, <2>4 DEF SlotsHold
<1>9. KeepsUp(screen', noticed.alarms)
  BY <1>1, <1>4, <1>5, <1>7 DEF KeepsUp
<1>10. UNCHANGED <<actual, pushes, noticed>>
  BY DEF ReadAnswer
<1> QED BY <1>1, <1>7, <1>8, <1>9, <1>10, ScreenSteps DEF Holds

LEMMA ServiceHolds ==
    ASSUME DashboardInv, ServiceRestarts \/ \E p \in Parts : PartChanges(p)
    PROVE  DashboardInv'
<1>1. CASE ServiceRestarts
  <2>1. actual' \in [Parts -> Nat]
    BY <1>1 DEF ServiceRestarts
  <2> QED BY <1>1, <2>1 DEF ServiceRestarts, DashboardInv, Holds, SlotsHold, KeepsUp
<1>2. ASSUME NEW part \in Parts, PartChanges(part) PROVE DashboardInv'
  <2>1. /\ actual' \in [Parts -> Nat] /\ actual'[part] = actual[part] + 1
        /\ actual'["alarms"] >= actual["alarms"]
    BY <1>2, HasAlarms DEF PartChanges, DashboardInv
  <2>2. part \in {"status", "alarms", "metrics"}
    BY <1>2 DEF PartChanges
  <2>t. actual["alarms"] \in Nat /\ actual'["alarms"] \in Nat
    BY <2>1, HasAlarms DEF DashboardInv
  <2>n. /\ noticed.alarms \in Int /\ pushes \in Seq(PushTypes)
        /\ \A i \in 1 .. Len(pushes) : pushes[i] \in PushTypes
    BY DEF DashboardInv
  <2>r. \A i \in 1 .. Len(pushes) : pushes[i].revision \in Int
    BY <2>n DEF PushTypes
  <2>u. UNCHANGED <<screen, noticed>>
    BY <1>2 DEF PartChanges
  <2>s. Holds(screen', noticed'.alarms) /\ noticed' \in [status : Int, alarms : Int]
    BY <2>u DEF DashboardInv
  <2>l. screen.up => noticed.alarms <= actual'["alarms"]
    BY <2>1, <2>t, <2>n DEF DashboardInv
  <2>3. CASE UNCHANGED pushes
    <3>1. screen.up => \A i \in 1 .. Len(pushes) :
                          pushes[i].what = "alarms" => pushes[i].revision <= actual'["alarms"]
      <4>1. SUFFICES ASSUME screen.up, NEW i \in 1 .. Len(pushes), pushes[i].what = "alarms"
                     PROVE  pushes[i].revision <= actual'["alarms"]
        OBVIOUS
      <4>2. pushes[i].revision <= actual["alarms"]
        BY <4>1 DEF DashboardInv
      <4>3. pushes[i].revision \in Int
        BY <2>r
      <4> QED BY <2>1, <2>t, <4>2, <4>3
    <3> QED BY <2>1, <2>3, <2>n, <2>u, <2>s, <2>l, <3>1 DEF DashboardInv
  <2>4. CASE screen.up /\ part # "metrics" /\ pushes' = PushesWith(part, actual'[part])
    <3>1. PICK told \in PushTypes : told = Told(part, actual'[part]) /\ told.what = part
                                 /\ told.revision = actual'[part]
      <4>1. part \in {"status", "alarms"} /\ actual'[part] \in Int
        BY <2>1, <2>2, <2>4
      <4>2. PICK revision \in Int : revision = actual'[part]
        BY <4>1
      <4>3. /\ Told(part, revision) \in PushTypes /\ Told(part, revision).what = part
            /\ Told(part, revision).revision = revision
        BY <4>1 DEF Told, PushTypes
      <4> QED BY <4>2, <4>3
    <3>2. /\ pushes \in Seq(PushTypes)
          /\ \A i \in 1 .. Len(pushes) :
                pushes[i].what = "alarms" => pushes[i].revision <= actual["alarms"]
      BY <2>4 DEF DashboardInv
    <3>3. told.what = "alarms" => told.revision <= actual'["alarms"]
      BY <2>1, <3>1
    <3>4. pushes' = Append(pushes, told)
          \/ \E alike \in SUBSET DOMAIN pushes :
                pushes' = [i \in DOMAIN pushes |-> IF i \in alike THEN told ELSE pushes[i]]
      <4>1. {i \in DOMAIN pushes : pushes[i].what = "status"} \in SUBSET DOMAIN pushes
        OBVIOUS
      <4> QED BY <2>4, <3>1, <4>1 DEF PushesWith
    <3>5. /\ pushes' \in Seq(PushTypes)
          /\ \A i \in 1 .. Len(pushes') :
                pushes'[i].what = "alarms" => pushes'[i].revision <= actual'["alarms"]
      <4>1. CASE pushes' = Append(pushes, told)
        <5>1. /\ pushes' \in Seq(PushTypes) /\ Len(pushes') = Len(pushes) + 1
              /\ \A i \in 1 .. Len(pushes) : pushes'[i] = pushes[i]
              /\ pushes'[Len(pushes) + 1] = told
          BY <3>1, <3>2, <4>1
        <5>2. ASSUME NEW i \in 1 .. Len(pushes'), pushes'[i].what = "alarms"
              PROVE  pushes'[i].revision <= actual'["alarms"]
          <6>1. CASE i = Len(pushes) + 1
            BY <3>3, <5>1, <5>2, <6>1
          <6>2. CASE i # Len(pushes) + 1
            <7>1. i \in 1 .. Len(pushes)
              BY <3>2, <5>1, <6>2
            <7>2. pushes[i].revision \in Int /\ actual["alarms"] \in Nat /\ actual'["alarms"] \in Nat
              BY <2>t, <2>r, <7>1
            <7> QED BY <2>1, <3>2, <5>1, <5>2, <7>1, <7>2
          <6> QED BY <6>1, <6>2
        <5> QED BY <5>1, <5>2
      <4>2. ASSUME NEW alike \in SUBSET DOMAIN pushes,
                   pushes' = [i \in DOMAIN pushes |-> IF i \in alike THEN told ELSE pushes[i]]
            PROVE  /\ pushes' \in Seq(PushTypes)
                   /\ \A i \in 1 .. Len(pushes') :
                         pushes'[i].what = "alarms" => pushes'[i].revision <= actual'["alarms"]
        <5>1. DOMAIN pushes = 1 .. Len(pushes) /\ Len(pushes) \in Nat
          BY <3>2
        <5>2. pushes' \in Seq(PushTypes) /\ Len(pushes') = Len(pushes)
          BY <3>1, <3>2, <4>2, <5>1
        <5>3. ASSUME NEW i \in 1 .. Len(pushes'), pushes'[i].what = "alarms"
              PROVE  pushes'[i].revision <= actual'["alarms"]
          <6>1. i \in 1 .. Len(pushes) /\ pushes'[i] = (IF i \in alike THEN told ELSE pushes[i])
            BY <4>2, <5>1, <5>2
          <6>2. pushes[i].revision \in Int /\ actual["alarms"] \in Nat /\ actual'["alarms"] \in Nat
            BY <2>t, <2>r, <6>1
          <6> QED BY <2>1, <3>2, <3>3, <5>3, <6>1, <6>2
        <5> QED BY <5>2, <5>3
      <4> QED BY <3>4, <4>1, <4>2
    <3> QED BY <2>1, <2>u, <2>s, <2>l, <3>5 DEF DashboardInv
  <2> QED BY <1>2, <2>3, <2>4 DEF PartChanges
<1> QED BY <1>1, <1>2

LEMMA PushHolds == DashboardInv /\ PushReceived => DashboardInv'
<1> SUFFICES ASSUME DashboardInv, PushReceived PROVE DashboardInv'
  OBVIOUS
<1>1. /\ noticed \in [status : Int, alarms : Int] /\ actual \in [Parts -> Nat]
      /\ pushes \in Seq(PushTypes) /\ Holds(screen, noticed.alarms) /\ screen \in Screens
      /\ noticed.alarms \in Int /\ screen.up /\ noticed.alarms <= actual["alarms"]
      /\ \A i \in 1 .. Len(pushes) :
            pushes[i].what = "alarms" => pushes[i].revision <= actual["alarms"]
      /\ UNCHANGED actual /\ pushes # <<>>
  BY DEF DashboardInv, Holds, PushReceived
<1>2. Len(pushes) \in Nat /\ 1 \in 1 .. Len(pushes)
  BY <1>1, EmptySeq
<1>3. PICK told \in PushTypes : told = Head(pushes) /\ told = pushes[1]
  BY <1>1, <1>2
<1>4. told.revision \in Int /\ told.what \in {"status", "alarms"}
  BY <1>3 DEF PushTypes
<1>5. /\ noticed' = [noticed EXCEPT ![told.what] = told.revision]
      /\ IF told.what = "status" THEN screen' = NoticedStatus(screen, told.revision)
                                 ELSE screen' \in NoticedAlarm(screen)
      /\ pushes' = IF screen'.up THEN Tail(pushes) ELSE <<>>
  BY <1>3 DEF PushReceived
<1>6. /\ noticed' \in [status : Int, alarms : Int]
      /\ noticed'.alarms = IF told.what = "alarms" THEN told.revision ELSE noticed.alarms
  <2>1. CASE told.what = "status"
    BY <1>1, <1>4, <1>5, <2>1
  <2>2. CASE told.what = "alarms"
    BY <1>1, <1>4, <1>5, <2>2
  <2> QED BY <1>4, <2>1, <2>2
<1>7. noticed'.alarms <= actual["alarms"]
  BY <1>1, <1>2, <1>3, <1>6
<1>8. Holds(screen', noticed'.alarms)
  <2>1. CASE told.what = "alarms"
    BY <1>1, <1>4, <1>5, <1>6, <2>1, NoticedHolds
  <2>2. CASE told.what = "status"
    <3>1. screen' = screen \/ screen' = [screen EXCEPT !.shown["status"] = told.revision]
      BY <1>5, <2>2 DEF NoticedStatus
    <3>2. CASE screen' = [screen EXCEPT !.shown["status"] = told.revision]
      <4>0. PICK shown : shown = [screen.shown EXCEPT !["status"] = told.revision]
        OBVIOUS
      <4>a. screen.shown \in [Parts -> Int]
        BY <1>1 DEF Screens
      <4>1. /\ shown \in [Parts -> Int] /\ shown = [screen.shown EXCEPT !["status"] = told.revision]
            /\ shown["alarms"] = screen.shown["alarms"]
        BY <1>4, <4>0, <4>a, HasAlarms
      <4>2. screen' = [screen EXCEPT !.shown = shown]
        BY <1>1, <3>2, <4>1 DEF Screens
      <4>3. /\ screen' \in Screens /\ screen'.up = screen.up /\ screen'.link = screen.link
            /\ screen'.again = screen.again /\ screen'.stale = screen.stale
            /\ screen'.shown["alarms"] = screen.shown["alarms"]
            /\ screen'.slot = screen.slot /\ screen'.requests = screen.requests
        BY <1>1, <4>1, <4>2 DEF Screens
      <4>4. Holds(screen', noticed.alarms)
        BY <1>1, <4>3 DEF Holds, SlotsHold, KeepsUp
      <4> QED BY <1>6, <2>2, <4>4
    <3> QED BY <1>1, <1>6, <2>2, <3>1, <3>2
  <2> QED BY <1>4, <2>1, <2>2
<1>9. /\ pushes' \in Seq(PushTypes)
      /\ \A i \in 1 .. Len(pushes') :
            pushes'[i].what = "alarms" => pushes'[i].revision <= actual["alarms"]
  <2>1. CASE screen'.up
    <3>1. /\ pushes' \in Seq(PushTypes) /\ Len(pushes') = Len(pushes) - 1
          /\ \A i \in 1 .. Len(pushes) - 1 : pushes'[i] = pushes[i + 1]
      BY <1>1, <1>2, <1>5, <2>1
    <3>2. \A i \in 1 .. Len(pushes) - 1 : i + 1 \in 1 .. Len(pushes)
      BY <1>2
    <3> QED BY <1>1, <3>1, <3>2
  <2>2. CASE ~screen'.up
    BY <1>5, <2>2, EmptySeq
  <2> QED BY <2>1, <2>2
<1> QED BY <1>1, <1>6, <1>7, <1>8, <1>9 DEF DashboardInv

\* Alarms shown as up to date, with no query under way, are no older than the
\* last alarm notification received, however pushes and answers overtake each
\* other: for any number of connections, changes at the service, refused,
\* interrupted and expired requests.
THEOREM AlarmsFollowPushesAlways == DashboardSpec => []AlarmsFollowPushes
<1>1. DashboardInv => AlarmsFollowPushes
  BY DEF DashboardInv, Holds, KeepsUp, AlarmsFollowPushes, UpToDate
<1>2. DashboardInv /\ [DashboardNext]_dashboardVars => DashboardInv'
  <2> SUFFICES ASSUME DashboardInv, [DashboardNext]_dashboardVars PROVE DashboardInv'
    OBVIOUS
  <2>1. ASSUME NEW r \in screen.requests, AnswerArrives(r) \/ RequestFails(r) PROVE DashboardInv'
    <3>1. r.answer \in Int /\ Refused \in Int
      BY DEF DashboardInv, Holds, Screens, QueryRequests, Refused
    <3>2. CASE AnswerArrives(r)
      BY <3>1, <3>2, EndsHold DEF AnswerArrives
    <3>3. CASE RequestFails(r)
      BY <3>1, <3>3, EndsHold DEF RequestFails
    <3> QED BY <2>1, <3>2, <3>3
  <2>2. CASE UNCHANGED dashboardVars
    BY <2>2 DEF dashboardVars, DashboardInv, Holds, SlotsHold, KeepsUp
  <2> QED BY <2>1, <2>2, LinkUpHolds, LinkDownHolds, RefreshHolds, ServiceHolds, PushHolds,
             ReadAnswerHolds DEF DashboardNext
<1> QED BY <1>1, <1>2, DashboardStarts, PTL DEF DashboardSpec
=============================================================================
