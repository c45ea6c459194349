# PaperBreakageAnalysis: specifications of the edge service

The program is a C++20 Windows service that watches the paper web of a paper
machine with up to six cameras.  It keeps the last seconds of every camera in
memory, runs detectors on the frames, turns detections into *events*, saves the
frames around each event as evidence on disk, keeps a row for it in SQLite, and
uploads it to a supervising host.  A Qt console talks to the service over local
IPC.  This directory holds TLA+ modules for the parts of the program that decide
something, configurations that check them with TLC, and proofs that TLAPS checks.
Paths below are relative to the repository (`src/` is its C++ tree).

1. [Inventory](#1-inventory)
2. [The modules and the code](#2-the-modules-and-the-code)
3. [Runs, bounds and fairness](#3-runs-bounds-and-fairness)
4. [Proofs](#4-proofs)
5. [Where code and documents disagree](#5-where-code-and-documents-disagree)
6. [What is not modelled, and what is only checked](#6-what-is-not-modelled-and-what-is-only-checked)

## 1. Inventory

How a frame becomes an uploaded event:

    camera adapter -> acquisition, frame pool -> memory ring ------------------+
                                \-> detector lanes -> result queue             | leases
                                                        |                      v
        external input -------------------> candidate state machine -> event windows
                                                        |                      |
                                        decision -------+---> events row <-----+ freeze
                                                                ^              v
              supervising host <- uplink <- upload scheduler <--+--- key frames, JPEG
                                                                ^              v
                        operator (IPC, remote commands) --------+---- persistence thread

Threads of the event core: one lane per camera and detector, one *event thread*
(results, decisions, windows), one *JPEG thread*, one *persistence thread*, one
*scheduler worker*, and the threads that execute commands (IPC control, IPC
queries, uplink).  They share the metadata database (SQLite, one statement or
transaction at a time) and the event directories.  Around the core: acquisition
threads, the preview encoder, storage maintenance, the NVMe writer, the health
monitor, time synchronisation, the logger.

| component | state it keeps | operations | hard behaviour | correct when |
|---|---|---|---|---|
| Candidate state machine `event/src/candidate_event.cpp` | per camera: state, streak, intervals (two time stamps each), external signal, cooldown, rearm latch | `process`, `update_external_signal`, `confirm`/`reject`, `advance_time`, `stop`, hand-over of rearm state | five places check the deadline; intervals are stamps instead of a history | decided once, never early, never without evidence |
| Detector host, classical detector `algorithm/` | mean, background, consecutive failures | load, process, update, reset | eight-bit background, slow drift | a slow drift is no break |
| Lanes, result ordering `service/core/src/event_runtime.cpp` | slot, manual slot and in-flight mark per lane, result queue, generation | `submit_frame`, `run_lane`, `safe_watermark`, `reconfigure`, stop | frames finish out of order; a full queue drops results | the event thread sees all cameras in one order of time |
| Memory ring, event windows `event/src` | frames, leases; open windows | `push`, `lease_window`; `start_or_merge`, `advance_time` | merging, eviction while a window is open | a window reported complete holds every frame |
| Event records, event store, events rows `event_runtime.cpp`, `storage/src` | stage of an event, queue of the persistence thread, directories, rows | decision, freeze, submit, persist, recover, reconcile | three threads read a row and write it in two calls; crash between files, move and row | confirmations reach the row; complete evidence is never lost |
| Key frames, JPEG `event/src/key_frame*.cpp` | pending events, bounded queue | `select`, `submit`, completion, stop | one encoding fails while others run | a stop loses nothing that was accepted |
| NVMe cache `storage/src/nvme_*.cpp` | blocks, index, leases, queue of the writer | `submit_frame`, leases, reclaim | lease against reclaim and registration | protected blocks stay |
| Event inspector and export `storage/src/event_inspector.cpp` | verdict in the row | `get`, `export` by several readers | files change while read | a recorded failure has a cause |
| Storage policy `storage/src/storage_policy.cpp` | level, claims | `run_maintenance` | deletion in four steps with failures and crashes | only what may go is deleted, to the end |
| Database file `storage/src/metadata_database.cpp` | schema version, journal, backups | open, migrate, back up, restore | crash between two migrations | committed rows survive |
| Upload jobs, scheduler `uplink/src/upload_scheduler.cpp` | table `upload_jobs`, the worker's claim | enqueue, claim, complete, fail, retry, prune | three enqueuers, one worker, crash with a job in progress | no job lost; the upload state is never ahead of the jobs |
| Chunked transfer `uplink/transport` | manifest, chunks at the host | metadata, chunks, completion | lost and late requests, file changes | completed means held whole |
| Uplink runtime `uplink/src/runtime.cpp` | session, bounded queue, retained results | connect, handle command, heartbeat | redelivery, reconnects | a command runs again only when forgotten |
| Camera session, acquisition, frame pool `camera/src` | connection, stream, cached parameters, pool, queue | connect, update, start, stop, disconnect; worker, forwarder | one of several device calls fails | shown parameters are the device's; commands end |
| Preview `pipeline/src/preview.cpp`, `console/src/preview_client.cpp` | subscriptions, latest frames | subscribe, encode | lost connections | the last selection is the held one |
| IPC server, client `ipc/src` | connections, queues, pending requests, timers | admit, execute, answer, push; connect, send, retry | stop against commands in progress, callbacks that re-enter | every admitted request has somebody who answers it |
| Service runtime, SCM host `service/core/src/runtime.cpp`, `service/windows` | components started, stop slot, deadline | start, rollback, shutdown, control handler | stop at any moment of the start | a stopped service has nothing running |
| Service management `service/windows/src/scm*.cpp` | registration, process | install, uninstall, restart | others act between two calls | a restart gives a new instance |
| Configuration `config/src` | current, pending restart, history, file | load, update, reload, rollback | a component fails after the file is written | components run what is in force |
| System commands `service/core/src/system_commands.cpp` | - | camera and configuration commands on two threads | read, change, save, apply in separate calls | an edit changes its own part only |
| Alarms, health monitor, time sync, lane alarms | active alarms; judgements | raise, clear, sample, reconfigure | bounded registry filled by several threads | active alarms are what was last judged |
| Logging `logging/src` | queue, ring of recent records, files | log, query, rotate, retain | readers follow by a cursor | a reader is told what it missed |
| Console clients `console/src` | request slots, shown lists | refresh, operate, reconnect | answers of old connections | lists catch up |

`PROJECT.json` lists the same parts under `components`, with what is left out of
each, and under `hazards` the places in the code that a test would hardly reach.

## 2. The modules and the code

Every component has a module with its state as variables, one action per
operation or step, its specification and its properties.  `PROJECT.json` maps
each definition to the lines it stands for.

| module | what it is | grain: what is one step |
|---|---|---|
| `CandidateEvents` | the candidate manager of all cameras (`tracker[c]` is `CameraTracker`, `counts` the counters of its snapshot) | one call; `process` has an action for each branch |
| `CandidateEventsAudit` | the same beside a record `heard` of what each camera's results really were | the same |
| `Detection` | one detector behind its host: mean, background and paper check | one call of the host |
| `OrderedDelivery` | abstract: what the event thread is promised about the frames of all cameras | - |
| `ResultOrdering` | lanes, result queue, event thread, signals, reconfiguration and stop | one section under a lane's or the lifecycle lock |
| `LaneAlarms` | failure, backlog and degradation of a lane and the alarms about them | one section under the lane's lock |
| `EventWindows` | the rings of the cameras and the windows that lease from them | one call of the window manager; a call that joins or closes several windows is one step for each |
| `EventRecords` | an event from its candidate to its committed directory, its row, crashes and restarts | one call of the database or one step on disk |
| `KeyFrames` | selection of key frames, the encoder's queue, the pending table, stop | one job of a worker |
| `NvmeCache` | rolling cache, index and leases | one section under the cache's or the index's lock |
| `EventInspection` | the checks of a committed event's files | one file, one call of the database |
| `StorageMaintenance` | levels, limits, deletion in four steps | one call of the database or one step on disk |
| `DatabaseFile` | opening, migrating, backing up and restoring `metadata.db` | one transaction, one file operation |
| `UploadJobs` | rows of `upload_jobs`, three enqueuers, the scheduler's worker | one transaction |
| `ChunkedUpload` | one file sent in chunks to a host | one request or answer |
| `UplinkCommands` | session, command queue, retained results | one send, one command |
| `CameraControl` | session, device, acquisition worker, queue, forwarder | one call of the device |
| `CameraRecovery` | the session that reconnects on its own | one state transition |
| `Preview` | preview hub, encoder thread and the console's preview client | one request or frame |
| `IpcServer`, `HostedService` | the IPC server; `service_main`, control handler and runtime over its components, the server among them | one section of a thread between two waits |
| `IpcClient` | the console's connection: a handler is a function from a client to a client with the callback's reaction in the middle | one handler |
| `ServiceManagement` | install, uninstall, restart | one call of the service control manager |
| `ConfigRepository` | file, history, appliers | one applier, one file operation |
| `SystemCommands` | the commands that change cameras and configuration, on two threads | one call that locks |
| `AlarmRegistry` | the bounded registry of active alarms, as variables that its users share | one call |
| `HealthMonitor`, `TimeSync` | samples and judgements; clock models, their alarms, the component's start and stop | one source asked, one metric judged, one clock sampled, observed or withdrawn |
| `Logging` | names, queue, ring of recent records, files, retention | one call or one record written |
| `ConsoleClients`, `Dashboard` | the clients' slots and lists; the state every page shows | one request, answer or push |
| `CandidateEventsProofs`, `ResultOrderingProofs`, `EventRecordsProofs`, `UploadJobsProofs`, `ServiceProofs`, `ConsoleServiceProofs`, `EvidenceProofs` | theorems, section 4 | |

How modules are put together:

- `HostedService` EXTENDS `IpcServer`: the runtime calls the server's `start`,
  `request_stop` and `join`, whose threads run beside it.
- `HealthMonitor`, `TimeSync` and `LaneAlarms` use one `AlarmRegistry`, whose two
  slots they compete for.
- `ResultOrdering` implements `OrderedDelivery` (`Ordered == INSTANCE ... WITH
  owed <- Owed, seen <- delivered`): a frame is *owed* from its acceptance until
  it is delivered or given up, wherever it is between slots, worker and queue.
- Other neighbours are chained and not composed.  What leaves one module enters
  the next as a free input: every decision of `CandidateEvents` is among those
  `ReadForDecision` of `EventRecords` takes, in any order and at any time; every
  committed row is among those `Commit` of `UploadJobs` makes.  A composition
  would only remove behaviours.

Choices that shape the models:

- *Reads and writes that the code does in two calls are two actions.*
  `apply_candidate_decision` (`event_runtime.cpp:1226`) reads a row and writes back
  the persistence state it read: `ReadForDecision`, `WriteDecision`.
  `update_external_confirmation` decides in the manager and then writes the row:
  `Signal`, `ApplySignal`.  A system command copies the configuration, changes the
  copy, saves it, applies it.  A deletion is claim, move, removal, completion.
- *Crashes.*  `Down` of `EventRecords` and `UploadJobs`, `Crash` of
  `ChunkedUpload`, `ConfigRepository`, `DatabaseFile` and `StorageMaintenance` may
  come at any moment.  `NvmeCache` and `UplinkCommands` begin anew at a restart,
  because the code opens a new session directory (ADR-017) or a new cache.
- *Data.*  Results are levels, frames are their times, documents a value per
  section, files intact, altered or cut.  Times are integers; a call may bring any
  time the code does not refuse.

## 3. Runs, bounds and fairness

| run | instance | shows |
|---|---|---|
| `candidate_history` | 1 camera, results at times {0, 1, 4, 5, 6, 7}, the other calls at {1, 4, 7}, confirmation of 2, timeout 4, external input required; 532 thousand states | `DecidedOnce`, `RearmedByQuiet`, `ConfirmedOnEvidence` |
| `event_evidence` | `EventRecords`: 1 event, 2 sources, 2 restarts. `KeyFrames`: 3 events, 3 key frames, queues of 1 and 4. `Detection`: 24 levels, 8 parts. `NvmeCache`: 2 cameras, 3 units of space, times to 4; 929 thousand states | `ConfirmationReachesRow`, `ConfirmedStays`, `FrozenEventsFinish`, `StopLosesNothing`, `CommittedShowsOnset`, `SlowDriftIsNoBreak`, `ProtectedBlocksStay` |
| `records_and_commands` | `EventRecords`: 2 symmetric events, all queues of 1, 1 restart. `EventInspection`: 2 readers, 2 files, 2 faults. `SystemCommands`: 2 threads, 1 slot, 2 parameter values, 3 revisions | `CommittedHasDirectory`, `EvidenceSurvives`, `FailedHasCause`, `EditsOwnPart` |
| `uploads` | `UploadJobs`: 1 event of 3 parts, 1 attempt, both capacities 2, 1 restart, 1 request. `UplinkCommands`: 3 identifiers, queue 2, cache 2, 4 deliveries; 784 thousand states | `UploadedHasNoOpenJob`, `RepeatedOnlyWhenForgotten`, `SessionServesQueue` |
| `result_ordering` | 2 cameras, 2 receive times, queue of 1, 1 detecting, 1 operated, 1 reconfiguration | `RowsFollowManager`, `DeliversInOrder` |
| `cameras_and_console` | `CameraControl`: 2 nodes, pool 2, ring 2, 2 failures. `CameraRecovery`: 2 recoveries. `ConsoleClients`: 3 connections, 2 revisions, 2 faults. `Preview`: 2 cameras, 2 subscriptions, 3 connections; 428 thousand states | `ShownIsActual`, `CommandsEnd`, `StopIsFinal`, `ListsCatchUp`, `ShownIsHeldUnlessRefused` |
| `upload_and_retention` | `ChunkedUpload`: 3 chunks, 2 late requests, 2 changes. `StorageMaintenance`: 2 events, volume 5, 1 failure, 1 crash | `CompletedIsHeld`, `DeletedByRight`, `ClaimedIsDeleted` |
| `console_and_service` | `IpcServer`: 2 connections (symmetric), all queues of 1, 2 frames. `IpcClient`: 3 requests, 2 pending, 3 generations. `ConfigRepository`: 2 appliers, 2 sections, 3 revisions, 3 mishaps. `EventWindows`: 2 cameras, times to 5, 2 windows, 3 triggers, 1 camera that loses frames; 1.28 million states | `NothingStranded`, `NeverAsleep`, `AppliersFollowEffective`, `CompleteHasEveryFrame` |
| `hosted_service` | `HostedService`: 3 components: the server with 1 connection, one whose join has no limit, one whose join gives up at the deadline; each may hang in its start or join. `ServiceManagement`: 2 installations, 3 instances. `Dashboard`: 3 parts, 2 links; 442 thousand states | `StoppedIsStopped`, `StopIsHonoured`, `RestartedIsFresh`, `AlarmsFollowPushes` |
| `monitoring` | `AlarmRegistry` of 2 under `HealthMonitor`, `TimeSync`, `LaneAlarms`. `Logging`: 2 threads, 1 name, 3 records, 2 days. `DatabaseFile`: version 6, 1 crash, 1 restore; 3.2 million states | `AlarmsFollowJudgement`, `ClocksAreJudged`, `FailureAlarmIsTrue`, `CursorMissesNothing`, `RowsSurvive` |
| `shutdown_join` | the instance of `hosted_service` | a counterexample to `JoinsHonorDeadline`, section 5 |
| `preview_readers` | the preview of `cameras_and_console` | a counterexample to `SamplesOnlyForReaders`, section 5 |

A run may check several components.  Its MC module then has a variable `active`
that the initial state chooses and no step changes; it names the component that
moves, and the variables of the others keep one fixed initial state.  The
behaviours are exactly those of the components side by side, one at a time.  The
initial predicates, actions and fairness of the components are theirs.  Each
component's properties are stated over its own variables, which hold trivially
where it is not active and are checked in full where it is.

Why the bounds are enough:

- *One camera, one event, one file.*  Trackers, lanes and events meet only in
  queues, tables and locks; where they compete (`result_ordering`,
  `records_and_commands`, the pools) there are two of them for one slot.
- *Times.*  `candidate_history` has results one apart (within two processing
  periods), a gap of three (beyond them), the deadline exactly at, before and
  after a result, and time left for a cooldown, a quiet interval and the next
  candidate: an event decided at 1 or later can be followed by two normal results
  (4 and 5), and these by the two triggered ones (6 and 7) an automatic candidate
  needs.  Calls other than results come at three of the times, one of them a
  deadline.  The windows of `console_and_service` have a window that opens, merges and freezes, and a
  ring that has wrapped.
- *Restarts and faults.*  One restart leaves everything a run can leave behind, at
  any moment; two let a failed start be repeated.  Two faults let the repair of
  the first fail.
- *One event of `EventRecords` in `event_evidence`* never fills the queue of the
  persistence thread: `FrozenEventsFinish` is about completions there, not about
  refused submissions, which `records_and_commands` has (two events, queues of 1).
- *Capacities of one and two* are full after one or two entries, so refusal,
  replacement and pruning happen in every interleaving.

Deadlock is not checked: every run has a component that may end for good
(processes after their last restart, stopped services, sessions, workers), which
each cfg says.

**Fairness** is what the code's scheduling gives, and nothing of operators,
cameras, networks, crashes or damage:

- `FairRecordsSpec`: the JPEG and persistence threads run while the process does;
  each is a loop over a blocking queue that only a stop ends.
- `OrderingSpec`: a lane's worker, the event thread and the signal's thread run,
  and a reconfiguration or stop that has begun is carried out.
- `UplinkWorker`, `StorageFairness`, the recovery thread, the encoder: the thread
  takes its next step; the maintenance thread wakes at least every 30 seconds.
  `SessionServesQueue` and `Preview` assume in addition that the connection
  lasts and frames come, in the properties themselves.
- `HostFairness`: `service_main`, the control handler, the deadline and the
  server's threads run.  Command handlers may never return, clients owe nothing,
  and a component need not return from its start or its join.  A join that
  watches the deadline gives up there (`JoinGivesUp`); the runtime has no limit
  on a start, nor on the joins of `Unlimited`, so `StopIsHonoured` assumes, in
  the property itself, that none of these holds `service_main` for ever.
- `ConsoleClients`: the console's event loop runs timers and reads its socket, and
  the service answers queries; reconnecting is left open.
- `CameraControl`: a call of the device returns, with success or failure.

## 4. Proofs

TLC checks the instances of section 3; the theorems below hold for every value of
the constants.  Each is `Spec => []Inv` (or an action property, or a refinement)
and is proved from an inductive invariant: it holds initially, every action keeps
it, and it implies the property.  A proof has one step per action.  `tlapm` checks
all of them; nothing is assumed but the named assumptions on constants below, and
each of these is evaluated by TLC in a run.

| theorem | module, property | what carries the proof |
|---|---|---|
| `TypeCorrect`, `TrackersStayCoherent`, `EveryEventDecidedOnce` | `CandidateEvents`: types, `EventMatchesState`, `DecidedOnce` | `IInv`: types, and a camera holds an event exactly in the states that say so.  `DecidedOnce` counts openings and decisions over all cameras; `ReplacedKeeps` says what replacing one tracker does to the count |
| `RearmedByQuietAlways`, `ConfirmedOnEvidenceAlways` | `CandidateEventsAudit`: `RearmedByQuiet`, `ConfirmedOnEvidence` | `AuditInv` ties the manager's time stamps to the record of the results: the confirmation and the recovery interval are runs of strong and of normal results that end the record (`EndsInRun`), the cooldown counts from the last decision, and a camera that does not wait has had its quiet.  `RunContinues` and `QuietStays` carry runs across a result, `TransitionDecides` and `Keeps` across the other calls |
| `OrderingTypesAlways`, `RowsFollowManagerAlways`, `EndedIsDrainedAlways` | `ResultOrdering`: types, `RowsFollowManager`, `EndedIsDrained` | `IInv`: lanes are sound (what a worker holds and what its slot holds), what is owed lies above what was delivered, threads end in the order of the stop, and the watermark is the latest time *every* lane has passed.  Rows: a row lags the manager only while the thread that decided has still to write it |
| `DeliversSafely` | `ResultOrdering` implements the safety part of `OrderedDelivery` | the same invariant; each action is a step of `OrderSafety` or leaves `owed` and `seen` alone |
| `RecordsTypeCorrect`, `ConfirmationIsFinal`, `ConfirmationsReachRows` | `EventRecords`: types, `ConfirmedStays`, `ConfirmationReachesRow` | `RowsInv` (types, and rows of opened events only), `PendingFits`, `ConfirmInv`: a confirmation is in the row or in the hands of a thread that will write it |
| `CommittedRowsHaveDirectories`, `EvidenceIsKept`, `RestartFindsEvidence` | `CommittedHasDirectory`, `EvidenceSurvives`, `RestartIndexes` | `CommitInv`.  "A Committed row has its directory" is not inductive: the event thread writes back a state it read before.  It becomes so with what that thread holds in its hand: if it has read Committed, the directory is there |
| `CompleteHasEveryFrameAlways` | `EventWindows`: `CompleteHasEveryFrame` | `WindowsInv`: what a ring has let go of is older than all it holds (`RingSound`); a lease has every frame the ring ever took in the part of the request it reaches over (`SoundLeases`, `LeaseOfIsSound`), and keeps it while frames arrive and windows are widened, joined and closed, since no lease begins before its window.  `ContinuousCovers`: leases that reach from the start to the end without a hole cover every time between - of those that end at or after a missing time the first to begin would leave a hole.  `FrozenSound`: when a complete window froze, every ring had passed its end |
| `FailedHasCauseAlways` | `EventInspection`: `FailedHasCause` | `InspectionInv`: until a cause exists the event is whole, in its place wherever its files are listed, and no reader has found a fault |
| `UploadsTypesAlways`, `UnfinishedJobsStayAlways`, `JobsWithinCapacityAlways`, `UploadedHasNoOpenJobAlways` | `UploadJobs` | `StepTypes`: every transaction keeps the types and removes only finished jobs; the capacity follows because pruning comes before inserting |
| `InProgressIsClaimedAlways`, `StartEnqueuesEvidenceAlways` | `UploadJobs` | `JobsInv`: a job is in progress only in the hands of the worker, which has its receipt; `BootInv`: the start works through the list of committed events it has read, and those behind it are enqueued |
| `RepeatedOnlyWhenForgottenAlways` | `UplinkCommands`: `RepeatedOnlyWhenForgotten` | `CacheInv`: the retained results are those of the last commands handled, and what is forgotten would not have fitted with all that came after it.  `KeptIsLongest`: the search for room drops no result it need not.  The bytes of a list are a recursive function; what it computes is found by looking for the least length at which it would be wrong (`LeastNumber`, `SumsAgree`, `BytesOfAppended`) |
| `RowsSurviveAlways`, `MigratedIsBackedUpAlways` | `DatabaseFile`: `RowsSurvive`, `MigratedIsBackedUp` | `FileInv`: the file, or the journal that will be rolled back over it, holds the committed rows at the version it is at, and the events a migration would drop have been copied; `BackupInv`: until the first migration the original is the file or the journal, afterwards a backup has it |
| `FailureAlarmIsTrueAlways` | `LaneAlarms`: `FailureAlarmIsTrue` | `LaneInv`: only the worker of the lane raises the alarm, and only while failing; who ends the failures - the worker, or a reconfiguration that replaces the lane - has the call that clears it still to make |
| `AlarmsFollowJudgementAlways` | `HealthMonitor`: `AlarmsFollowJudgement` | `HealthInv`: of the calls the monitor has still to make about an alarm the last one is what its memory says is due, and an alarm it has no call about agrees with that memory already (`Agrees`, kept by a call of any thread, `CallKeepsAgreement`, and by a plan, `PlanKeepsAgreement`).  `DiskWords`: what the four calls of a volume say last about each of its three alarms |
| `ClocksAreJudgedAlways` | `TimeSync`: `ClocksAreJudged` | `TimeInv`: the same agreement for the thread that holds the monitor's lock (`ClocksAreFollowed`, `LockIsKept`); what is remembered of a clock fits together (`ClockIsSound`); and once the alarms were withdrawn a worker that outlives the deadline observes each clock once at most (`CountsStayLow`).  `WordsOfConcat`, `SaysOfTwo`: what lists of calls joined together say last |
| `CursorMissesNothingAlways` | `Logging`: `CursorMissesNothing` | `LogInv`: recent records have consecutive numbers up to the last one written, and no reader is ahead of them |
| `NothingStrandedAlways` | `IpcServer`: `NothingStranded` | `IpcInv`: what a connection counts in flight is the number of places in queues, hands and posts that are its own (counted as sets of places, `PlacesAppended`, `PlacesOfTail`), also for one that has not come yet (`AbsentIsOwedNothing`); a thread that has ended left an empty queue that takes nothing more (`EndedIsEmpty`); a queue of pushes is flagged, and the flag has its drain (`PushesAreDrained`) |
| `ServiceImplementsServer`, `ServiceStrandsNothing` | `HostedService` implements `IpcServer` | the service starts, stops and joins the server only in the order its caller may: each step of `HostNext` is a step of `IpcNext` or leaves `ipcVars` alone, and the server's theorem is inherited |
| `StoppedIsStoppedAlways` | `HostedService`: `StoppedIsStopped` | `HostInv`: what did anything has started or is being started, a winding down is about all that started, and without an error what it need no longer wait for is over; the server's wait returns well only over threads that have ended, and `OverStays`.  `TurnIsLeft`: the component whose turn it is, is one that is left, by a least phase |
| `AlarmsFollowPushesAlways` | `Dashboard`: `AlarmsFollowPushes` | `SlotsHold`: a request of the present connection is the only one of its part, and its part's slot is taken; `KeepsUp`: alarms neither stale nor being queried are no older than what was noticed, and an answer that will not be followed by another query was not read before it.  A step of the store is a composition of functions on the screen; a lemma for each says that it keeps both |
| `NeverAsleepAlways`, `CompletedOnceAlways` | `IpcClient`: `NeverAsleep`, `CompletedOnce` | a handler and the callback inside it are functions from a client to a client; a lemma for each shows that it keeps `Accounted` and `Awake`, whichever function the callback calls |
| `EditsOwnPartAlways` | `SystemCommands`: `EditsOwnPart` | `CopiesInv`: a copy with the revision that is stored differs from the stored document in its own part only; other copies have an older revision and cannot be saved |
| `AppliersFollowEffectiveAlways`, `FileHoldsStoredAlways` | `ConfigRepository`: `AppliersFollowEffective`, `FileHoldsStored` | `RepositoryInv`: in every phase of a change, who has applied the candidate and who the effective contents; the file by phase.  That a start that recovers from the history takes the newest revision needs a greatest element, by well-foundedness of the naturals (`LeastNatural`) |
| `RestartedIsFreshAlways`, `ManagementTypesAlways` | `ServiceManagement`: `RestartedIsFresh`, types | `ManagementInv`: the instance a restart replaces is not later than the one that is there, and once the restart has seen that one end, whatever is there is later, whoever started it |
| `StopIsFinalAlways`, `RecoveryTypesAlways` | `CameraRecovery`: `StopIsFinal`, types | `StopIsTold`: when the stop has returned, the session's thread has completed, or stands before a check of the stop token, or the controller has been told and the state it reports is final |
| `ShownIsActualAlways`, `WorkerHasStreamAlways`, `FramesWhileAcquiringAlways` | `CameraControl`: `ShownIsActual`, `WorkerHasStream`, `FramesWhileAcquiring` | `ControlInv`: whoever reads or hands on frames has a stream of a camera that counts as acquiring (`DeliveryHasStream`), and once a command has passed its join nobody does (`CommandHolds`).  `WrittenBack`: only a way back that has written every node restores the nodes |
| `ShownIsHeldUnlessRefusedAlways`, `PreviewTypesAlways` | `Preview`: `ShownIsHeldUnlessRefused`, types | `ConsoleAsks`: a request that will be answered is the last one under way and asks for what is selected; who shows a subscription waits for no answer |
| `SlowDriftIsNoBreakAlways`, `DetectionTypesAlways` | `Detection`: `SlowDriftIsNoBreak`, types | `DriftInv`: the background is within the rounding of where the web was last seen, which while the paper is missing is the paper's level.  `LearnedKeepsUp`: a mean rounded to whole levels that lags by at most `Parts \div (2 * share)` and one level more, lags by no more than that again |
| `StopLosesNothingAlways` | `KeyFrames`: `StopLosesNothing` | `PathInv`: an event's stage says where it is - with the event thread, in how many jobs and the encoder's hands (`FramesLeft`, counted), in the writer's queue once or in its hands - and the threads end in the order in which they hand events on, each with its queue empty unless a join gave up |
| `CommittedShowsOnsetAlways` | `KeyFrames`: `CommittedShowsOnset` | `KeptInv`: what was chosen for an event is encoded, or in the encoder's hands, or in a job, unless a failure is remembered (`FramesKept`); from the last encoding on it is encoded.  What is chosen is found without induction over the sort: the frames before the first trigger's are at most the one quiet frame (`ReasonedAroundTrigger`, whose latest exists by well-foundedness, `LastBefore`), so the first two places of the order are known by counting predecessors (`PlaceInTime`, `OnsetIsChosen`) |
| `CompletedIsHeldAlways` | `ChunkedUpload`: `CompletedIsHeld` | `UploadInv`: a host that has completed is whole, and `ServerKeepsSound`: no request, however late, takes that back |
| `DeletedByRightAlways` | `StorageMaintenance`: `DeletedByRight` | `RetentionInv`: a claim is made by right (`ClaimIsRight`), nobody can lock or reactivate a claimed row, and the thread that moves files works on a claimed one (`WorkIsClaimed`) |
| `ProtectedBlocksStayAlways` | `NvmeCache`: `ProtectedBlocksStay` | `LeasesHoldBlocks`: a listed block is attached to every lease whose window it meets, whichever of the two came first; `FilesGoByReclaim` and `ReclaimedIsFree`: a file goes only by a reclaim, and what is reclaimed is attached to nothing |

Strengthened invariants were checked by TLC before they were proved (for example
`IInv` of `ResultOrdering` in 279,143 states, `HostInv` in 442,287, `BackupInv` in 1.6 million, `FileInv` in 4.4
million, `RepositoryInv` in 85,268, `CopiesInv` in 139,740, `HealthInv` in 1.6 million, `TimeInv` in 2.1
million, `WindowsInv` in 615,078, `KeptInv` in 426,720).

Assumptions on constants, named in the module that declares them: `ConfigAssumption`
and `CamerasAssumption` of `CandidateEvents`, `OrderingAssumption`, `RecordsAssumption`,
`InspectionAssumption`, `WindowsAssumption`, `MomentsAssumption`, `UploadsAssumption`, `DatabaseFileAssumption`,
`LaneAlarmsAssumption`, `LaneThreadsAssumption`, `IpcAssumption`, `HostAssumption`,
`DashboardAssumption`, `LoggingAssumption`, `HealthAssumption`, `TimeSyncAssumption`,
`ActiveCapacityAssumption`,
`ConfigAssumption` of `ConfigRepository`, `ManagementAssumption`, `RecoveryAssumption`,
`KeyFramesAssumption`,
`CameraAssumption`, `PreviewAssumption`, `DetectionAssumption`.  They say that sets
are finite where the program's are, that cameras and times of frames are ordered as
integers are, that capacities and limits are the positive
numbers its configuration accepts, and that marker values (no event, no thread)
are not members of the sets they are distinguished from.

Only model-checked, and why:

- *Liveness* (`FrozenEventsFinish`, `SessionServesQueue`, `CommandsEnd`,
  `ListsCatchUp`, `ClaimedIsDeleted`, `StopIsHonoured`, and the part of
  `DeliversInOrder` that says every owed frame is served): it needs ENABLED, which
  these provers do not handle.
- *Folds over data.*  `LeasesAccounted` (a property of `EventWindows` no run lists) sums
  over windows: what a fold of the community modules computes for every input needs
  induction with an operator as a parameter.  (The bytes of a list of commands are
  summed by a function of their own in `UplinkCommands`, for which the least
  counterexample does the work of induction.)

The proof of `SlowDriftIsNoBreak` changed the property.  It used to say only that the
limit is wider than the gap eight bits leave.  That is not enough: with a limit of one
level on the comparison of means every step of a drift is a break of its own, the
detector does not learn from it, and the background does fall behind.
`FollowsDrift` now says so, and the instance has a configuration with such a limit.

The proofs of `AlarmsFollowJudgement` and `ClocksAreJudged` changed the models: the health
monitor now judges one metric and the time monitor looks at one clock in a step, as their
loops do, instead of planning the calls of a whole round at once.  That showed that a worker
that outlives its join may raise alarms after they were withdrawn if the configuration makes
them due at once (a duration of zero), which `ClocksAreJudged` now says.  `HealthSpec` and
`TimeSpec` let the rest of the service call the registry at any time (`OthersCall`).

The proof of `CompleteHasEveryFrame` changed its model too.  Which windows a trigger joins
was computed by folds over the matching windows, and joining or closing several was one
step.  It is now a condition on the chosen set (`Absorbs`), and each window joined
(`Absorb`) or closed (`FreezeWindow`) is a step of its own between which the cameras push
frames: they take the lock of their ring, not the one of the window manager.


## 5. Where code and documents disagree

`preview_readers` is a run with a counterexample (`findings` in `PROJECT.json`):
the preview encoder goes on sampling and encoding for connections that are lost,
because nothing but `unsubscribe` removes a subscription; after four lost
connections every `preview.subscribe` is refused `IPC_BUSY` until the service is
restarted.

`shutdown_join` is the other.  `runtime.hpp:60` says of a component that "join must
honor deadline".  Three components look at it only before they wait:
`StorageMaintenanceLifecycleComponent::join` calls `worker_.join()`
(`service/main.cpp:624`), `CameraStartupLifecycleComponent::join` calls the
device's `disconnect` (`camera_startup.cpp:185`), and the logging component ends
with `runtime_->shutdown()` (`service/main.cpp:264`).  They are the set `Unlimited`
of `HostedService`, a component of which may stay in `in component join` after the
deadline has passed; the runtime, which looks at the deadline again when `join`
returns, stays there with it, and the service never reports that it stopped.
With `Unlimited` empty the property holds.

The following properties say what a document, a comment or a caller expects, are
defined in their modules, and fail.  They are in no run: name one under PROPERTY
or INVARIANT in the cfg of its component's run to see the counterexample.

| property | the code | expected by |
|---|---|---|
| `EventRecords!CommittedIsFinal` | a decision that was read before the commit takes the row back from Committed to Writing (`event_runtime.cpp:1245`) | stages advance (`docs/architecture/system-architecture.md:559`) |
| `EventRecords!TerminalIsFinal` | a failed freeze writes Candidate over a terminal decision, and so does the frozen metadata (`event_runtime.cpp:938`, `988`) | decisions are terminal (`docs/architecture/domain-model.md:107`) |
| `EventRecords!StartsWithDamage` | one damaged committed directory ends `reconcile` and the start (`metadata_database.cpp:3500`) | keep the facts and go on (`docs/error-codes.md:228`) |
| `UploadJobs!UploadedWasReceived` | an event is Uploaded when the jobs enqueued so far are done (`metadata_database.cpp:3228`) | events not uploaded are not deleted (`system-architecture.md:840`) |
| `UploadJobs!FailedIsNotUploaded` | an enqueuer or a retry that began before a failed check opens jobs after it (`service/main.cpp:1636`) | no upload of a damaged event (`domain-model.md:129`) |
| `UploadJobs!ReviewedIsEnqueued` | a review does not change the decision the policy looks at (`service/main.cpp:1611`) | a confirming review makes the jobs (`system-architecture.md:860`) |
| `UploadJobs!ManifestIsSent` | the manifest's job has no checksum and is refused (`service/main.cpp:1650`, `qt_transport.cpp:873`) | the manifest is uploaded (`docs/uplink-protocol-v1.md:91`) |
| `EventWindows!UndisturbedIsComplete` | the ring is sized for the time before an event, the final lease is taken at the freeze (`event_runtime.cpp:282`, `event_window.cpp:258`) | the frames of an event are kept (`docs/requirements/edge-system-requirements.md:578`) |
| `EventInspection!FailedIsDamaged` | any failed export marks an undamaged event Failed, its storage Damaged, its uploads for an operator (`system_commands.cpp:2337`) | `docs/error-codes.md:194` |
| `EventInspection!DeletedStaysQuiet`, `StartsAfterChecks` | a check that ends after the deletion marks a deleted row; a row marked Failed makes the next start's `index_manifest` fail (`metadata_database.cpp:606`) | |
| `CameraControl!NumbersGrow` | stop and start in one connection restart the frame numbers at 1 (`acquisition.cpp:372`), which the ring refuses without a word (`memory_ring.cpp:357`, `main.cpp:2217`): detection is blind | `domain-model.md:43` |
| `CameraControl!SnapshotNeedsDevice` | the capabilities outlive a disconnect, so a snapshot goes on with no device (`control.cpp:713`) | `docs/error-codes.md:157` |
| `CameraRecovery!EndsAtRest` | a session stopped before its first transition ends Connecting; a device call that throws leaves a retry nobody waits for | |
| `ConsoleClients!EveryListCatchesUp` | a loss reported inside `send` resets the slots, and the handle of the old generation is then stored: the lists of operations and cameras are never queried again (`operations_client.cpp:390`) | the five-second refresh |
| `ConsoleClients!OperationIsPending` | an export that outlives its connection clears the mark of a newer operation (`event_client.cpp:626`) | one operation at a time |
| `ConsoleClients!ConfigurationGoesForward` | an answer read before an update is shown after it, until the next refresh | |
| `Preview!ShownIsHeld` | a refused subscription is shown as subscribed (`preview_client.cpp:237`) | |
| `Dashboard!StatusFollowsPushes` | an answer read before a status push overwrites it, and a status that is not stale is not queried again (`client_state_store.cpp:297`) | |
| `ConfigRepository!RestartSectionsStay` | `/timeSync` needs a restart (`basic_config.cpp:1651`) but is not restored with the other such sections (`config_repository.cpp:30`) | |
| `SystemCommands!SavedIsApplied` | two commands on one camera save in one order and apply in the other | |
| `HealthMonitor!RefusedIsRaisedLater` | an alarm a full registry refused is not raised again while its condition lasts | |
| `LaneAlarms!DegradedAlarmEnds`, `BacklogAlarmIsTrue` | `ALGORITHM_DEGRADED` is raised (`main.cpp:2059`) and never cleared; a late backlog report overtakes its end | |
| `Logging!ErrorsAreQueued` | a full queue drops its oldest record of any level (`logging.cpp:664`) | `system-architecture.md:464` |
| `DatabaseFile!RestoreIsAtomic` | the target's journal is deleted before the file is replaced (`metadata_database.cpp:1755`): a failed restore after a crash leaves a half-written database | an atomic replacement (`docs/roadmap/archive/development-roadmap-2026-08-14.md:971`) |
| `ServiceManagement!InstalledStays`, `UninstalledIsStopped` | the rollback of a second installation removes a converged service; a service started between the look and `DeleteService` runs on without a registration | |

Met while modelling, visible in the modules, with no property of their own:

- *Candidates and records.*  A confirmation that takes the external signal's time
  may be dated after the deadline (`candidate_event.cpp:389`).  `index_manifest`
  resets `upload_state` (`metadata_database.cpp:1072`), so every start takes Uploaded
  back to Pending, and pruned jobs are made again.  Under the policy "all" a
  decision changed after enqueueing ends the next start with
  `UPLOAD_JOB_CONFLICT`.  A late confirmation enqueues nothing until a review or a
  start.  After a crash, rows without a transaction stay Collecting, Encoding,
  Queued or Writing (`event_runtime.cpp:1727`).  A decision after a failed check is
  refused by the schema.  `reconfigure` leaves the runtime refusing frames when the
  rearm seeds cannot be applied (`event_runtime.cpp:2016`).
- *Detection.*  An eight-bit background learned at 0.02 does not move at all while
  the difference is below 25 levels, and `maximumBackgroundChange` below about 0.1
  reports every slow drift.  The mean trigger lasts one frame, so it alone can never
  confirm.  With the paper check off the first frame becomes the background, even
  of a broken web.  `docs/error-codes.md:174` has a queue of eight that drops the
  oldest; the code has one slot.
- *Key frames.*  Never more than three distinct frames are selected although
  `keyFrameCount` defaults to seven; `FormalConfirmation` is always missing because
  `confirmation_frame` is never set.
- *Storage.*  `set_retention_policy` has no caller and `deletion_allowed` defaults
  to 0, so automatic deletion finds no candidate.  Oldest events that cannot be
  deleted take the slots of every run.  Leases of failed events are never released.
- *Upload.*  A chunk that was read damaged stays with the host, and later
  completions fail.  The reconnect delay is reset by every successful connect;
  rejected outcomes are cached; an exception ends the uplink's worker for good.
- *Cameras.*  A failed stop of the device leaves it acquiring without delivery,
  and a later start answers success.  `RecoveringCameraSession` has no caller in
  the service although automatic reconnection is required
  (`edge-system-requirements.md:32`).
- *IPC and host.*  A push that does not fit is dropped newest first.  A request
  refused as busy stays remembered, so a retry with its id conflicts.  `join` can
  miss its wake-up (`server.cpp:199`) and reports a timeout although everything has
  stopped; a cancelled start swallows the failure of the component being started.
- *Configuration.*  `rollback_to` can only conflict; after a recovery from history
  a revision number is used twice; a refused reload overwrites the edited file.
- *Logging.*  A file that cannot be rotated loses every later record of its
  thread; a clock set forward deletes all logs.
- *Time.*  One jump of the wall clock latches DEGRADED for the life of the process
  (documented); the receive-clock model is above both thresholds by default.

## 6. What is not modelled, and what is only checked

Not modelled: platform adapters (thin wrappers); the widgets of the console; frame
formats and image processing apart from the detector's decisions; parsing and
validation of documents; mock devices and detectors; the simulator apart from its
upload workspace; `CameraStateMachine` (tests only); acknowledgement and history
of alarms; status pulses and the console host; commands that only read;
`TimeSyncAlarmMonitor::reconfigure`, which only a test calls.

Left out inside modelled parts because no property depends on it: reasons,
confidences and wall-clock times; errors of SQLite itself; byte budgets beside
counts; retry delays (a wait ends at any time); human review in `EventRecords`;
`saveRaw`; shortage notices and duplicate source identifiers in windows; crashes
inside `recover_pending` and `reconcile`, which begin again from the start.

Defined in the modules, holding, and proved instead of run (section 4): the type
invariants of the proved modules, `EventMatchesState`, `RestartIndexes`,
`EndedIsDrained`, `UnfinishedJobsStay`, `JobsWithinCapacity`,
`InProgressIsClaimed`, `StartEnqueuesEvidence`, `MigratedIsBackedUp`,
`CompletedOnce`, `FileHoldsStored`.

Defined and holding, but in no run because a run would exceed its time or a
stronger property implies them, and not proved: the other type invariants,
`DecisionIsFinal`, `NoEarlyTimeout`, `LeasesAccounted`, `TriggersWithinWindow`,
`CacheWithinCapacity`, `StopCompletes`, `AcknowledgedStays`, `LineGoesForward`,
`JobsSettle`, `WakesForWork`, `StopEndsSession`.
