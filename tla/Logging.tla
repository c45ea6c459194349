-------------------------------- MODULE Logging --------------------------------
(* The log of the process (logging.cpp): threads register names and enqueue    *)
(* records under one mutex into a queue that drops its oldest record when it    *)
(* is full; the worker of spdlog takes record after record to the ring of       *)
(* recent records and to a file per thread name and day, which it rotates.      *)
(* Somebody follows the recent records with log.tail.                           *)
(*                                                                              *)
(* A record is its number in the order of enqueueing, its thread's name and     *)
(* its level; a file holds a fixed number of records.  Texts, categories,       *)
(* redaction and the console sink are left out.                                 *)
EXTENDS Naturals, Sequences, FiniteSets, SequencesExt

CONSTANTS
    LogThreads, LogNames,
    LogCapacity,    \* of the asynchronous queue
    RecentCapacity,   \* recent_record_capacity
    QueryLimit,       \* of log.tail
    MaxFileStates,    \* maximum_thread_file_states
    MaxFiles,         \* max_files_per_day
    RecordsPerFile,   \* max_file_size_bytes
    RetentionDays,
    LastDay,          \* bound: days of the wall clock, which may jump
    MaxRecords        \* bound: records enqueued

ASSUME LoggingAssumption ==
    /\ LogCapacity \in Nat \ {0} /\ RecentCapacity \in Nat \ {0} /\ QueryLimit \in Nat \ {0}
    /\ MaxFileStates \in Nat \ {0} /\ MaxFiles \in Nat \ {0} /\ RecordsPerFile \in Nat \ {0}
    /\ RetentionDays \in Nat \ {0} /\ LastDay \in Nat /\ MaxRecords \in Nat

VARIABLES
    threadNames,   \* thread_names: each thread's registered name, or Unregistered
    logRuntime,    \* [stopped, enqueued, overruns, quiet]
    logQueue,      \* records the worker has not taken
    recent,        \* RecentLogStore: its records, and the number of the next one
    reader,        \* who follows the log: its cursor, what it has, what it was told
    logFiles,      \* on disk, by name and day: file 1 is the current one
    openDay,       \* files_: the day whose file is open for a name, or NotOpen
    wallDay,       \* the date of the wall clock
    cleanedDay     \* cleanup_date_

loggingVars == <<threadNames, logRuntime, logQueue, recent, reader, logFiles, openDay,
                 wallDay, cleanedDay>>

Unregistered == "unregistered"
FileNames == LogNames \union {Unregistered}
Days == 0..LastDay
NoFileState == LastDay + 1   \* a name without an entry in files_
NotOpen == LastDay + 2       \* an entry whose rotation failed

FilesOfRegistry == <<logFiles, openDay, wallDay, cleanedDay>>

-----------------------------------------------------------------------------
(* Threads *)

\* enqueue(): nothing is accepted after the stop, nor below the level of spdlog's
\* logger; a full queue drops its oldest record, whatever its level.
Put(name, level) ==
    IF logRuntime.stopped \/ logRuntime.enqueued = MaxRecords \/ (level = "info" /\ logRuntime.quiet)
    THEN UNCHANGED <<logRuntime, logQueue>>
    ELSE LET record == [number |-> logRuntime.enqueued + 1, name |-> name, level |-> level]
             full == Len(logQueue) = LogCapacity
         IN  /\ logQueue' = Append(IF full THEN Tail(logQueue) ELSE logQueue, record)
             /\ logRuntime' = [logRuntime EXCEPT !.enqueued = @ + 1,
                                                 !.overruns = @ + (IF full THEN 1 ELSE 0)]

Taken(thread, name) ==
    threadNames[thread] # Unregistered \/ \E t \in LogThreads : threadNames[t] = name

Register(thread, name) ==
    /\ IF Taken(thread, name)
       THEN Put(Unregistered, "error") /\ UNCHANGED threadNames
       ELSE /\ Put(name, "info")
            /\ threadNames' = [threadNames EXCEPT ![thread] = name]
    /\ UNCHANGED <<recent, reader, FilesOfRegistry>>

Unregister(thread) ==
    /\ threadNames[thread] # Unregistered
    /\ Put(threadNames[thread], "info")
    /\ threadNames' = [threadNames EXCEPT ![thread] = Unregistered]
    /\ UNCHANGED <<recent, reader, FilesOfRegistry>>

Log(thread, level) ==
    /\ Put(threadNames[thread], level)
    /\ UNCHANGED <<threadNames, recent, reader, FilesOfRegistry>>

SetMinimumLevel(quiet) ==
    /\ ~logRuntime.stopped
    /\ logRuntime' = [logRuntime EXCEPT !.quiet = quiet]
    /\ UNCHANGED <<threadNames, logQueue, recent, reader, FilesOfRegistry>>

\* flush() posts to the queue too, and may push out the oldest record; the
\* worker ends after what is left.
ShutdownLogging ==
    /\ ~logRuntime.stopped
    /\ LET full == Len(logQueue) = LogCapacity
       IN  /\ logQueue' = IF full THEN Tail(logQueue) ELSE logQueue
           /\ logRuntime' = [logRuntime EXCEPT !.stopped = TRUE,
                                               !.overruns = @ + (IF full THEN 1 ELSE 0)]
    /\ UNCHANGED <<threadNames, recent, reader, FilesOfRegistry>>

-----------------------------------------------------------------------------
(* The worker and its sinks *)

Stored(record) ==
    LET kept == IF Len(recent.records) = RecentCapacity THEN Tail(recent.records) ELSE recent.records
    IN  [records |-> Append(kept, [sequence |-> recent.next, number |-> record.number]),
         next |-> recent.next + 1]

Old(day) == day + RetentionDays < wallDay

\* The files of old days go, once per date; one that is open cannot be removed.
Cleaned ==
    IF cleanedDay = wallDay THEN logFiles
    ELSE [n \in FileNames |-> [d \in Days |->
            IF ~Old(d) THEN logFiles[n][d]
            ELSE IF openDay[n] = d THEN SubSeq(logFiles[n][d], 1, 1) ELSE <<>>]]

KnownNames == {n \in FileNames : openDay[n] # NoFileState}

\* Past the limit of names the record goes to the emergency file of its thread,
\* the one its unregistered records go to as well.
Emergency(record) == record.name \notin KnownNames /\ Cardinality(KnownNames) >= MaxFileStates

\* Written to the current file, which is made when there is none.
Appended(files, record) ==
    IF files = <<>> THEN <<<<record.number>>>>
    ELSE [files EXCEPT ![1] = Append(@, record.number)]


\* Every file moves up one index, the last one is removed, a new one begins.
Rotated(files) == <<<<>>>> \o SubSeq(files, 1, IF Len(files) < MaxFiles THEN Len(files) ELSE MaxFiles - 1)

FullFile(files) == files # <<>> /\ Len(files[1]) >= RecordsPerFile

WriteEmergency(record) ==
    /\ Emergency(record)
    /\ logFiles' = [Cleaned EXCEPT ![Unregistered][wallDay] = Appended(@, record)]
    /\ UNCHANGED openDay

WriteFile(record) ==
    /\ ~Emergency(record)
    /\ LET files == Cleaned[record.name][wallDay]
           ready == IF FullFile(files) THEN Rotated(files) ELSE files
       IN  logFiles' = [Cleaned EXCEPT ![record.name][wallDay] = Appended(ready, record)]
    /\ openDay' = [openDay EXCEPT ![record.name] = wallDay]

\* A file could not be moved or opened: the record is lost to the files, and the
\* name's file is opened again for the next one.
WriteFails(record) ==
    /\ ~Emergency(record)
    /\ logFiles' = Cleaned
    /\ openDay' = [openDay EXCEPT ![record.name] = NotOpen]

WriteRecord ==
    /\ logQueue # <<>>
    /\ LET record == Head(logQueue)
       IN  /\ recent' = Stored(record)
           /\ WriteEmergency(record) \/ WriteFile(record) \/ WriteFails(record)
    /\ logQueue' = Tail(logQueue)
    /\ cleanedDay' = wallDay
    /\ UNCHANGED <<threadNames, logRuntime, reader, wallDay>>

ClockMoves ==
    /\ wallDay' \in Days \ {wallDay}
    /\ UNCHANGED <<threadNames, logRuntime, logQueue, recent, reader, logFiles, openDay, cleanedDay>>

SetRetentionDays ==
    /\ cleanedDay' = NotOpen
    /\ UNCHANGED <<threadNames, logRuntime, logQueue, recent, reader, logFiles, openDay, wallDay>>

-----------------------------------------------------------------------------
(* log.tail *)

First == recent.records[1].sequence

\* Where the records are that follow the cursor, and the first of them, which
\* a query returns.
After(cursor) == {i \in DOMAIN recent.records : recent.records[i].sequence > cursor}

Queried(cursor) ==
    {i \in After(cursor) : Cardinality({j \in After(cursor) : j <= i}) <= QueryLimit}

\* query() says so when records between the cursor and the first one kept have gone.
GapOfTwo(cursor) == recent.records # <<>> /\ First > cursor + 2
Gap(cursor) == recent.records # <<>> /\ First > cursor + 1

\* The reader asks for what follows its cursor and goes on from the last record
\* it got.
Follow ==
    /\ LET got == {recent.records[i].sequence : i \in Queried(reader.cursor)}
           newest == {n \in got : \A m \in got : m <= n}
       IN  \E cursor \in IF got = {} THEN {reader.cursor} ELSE newest :
              reader' = [cursor |-> cursor, has |-> reader.has \union got,
                         told |-> reader.told \/ Gap(reader.cursor)]
    /\ UNCHANGED <<threadNames, logRuntime, logQueue, recent, FilesOfRegistry>>

LoggingInit ==
    /\ threadNames = [t \in LogThreads |-> Unregistered]
    /\ logRuntime = [stopped |-> FALSE, enqueued |-> 0, overruns |-> 0, quiet |-> FALSE]
    /\ logQueue = <<>>
    /\ recent = [records |-> <<>>, next |-> 1]
    /\ reader = [cursor |-> 0, has |-> {}, told |-> FALSE]
    /\ logFiles = [n \in FileNames |-> [d \in Days |-> <<>>]]
    /\ openDay = [n \in FileNames |-> NoFileState]
    /\ wallDay = 0
    /\ cleanedDay = NotOpen

LoggingNext ==
    \/ \E t \in LogThreads, n \in LogNames : Register(t, n)
    \/ \E t \in LogThreads : Unregister(t) \/ \E level \in {"info", "error"} : Log(t, level)
    \/ \E quiet \in BOOLEAN : SetMinimumLevel(quiet)
    \/ ShutdownLogging \/ WriteRecord \/ ClockMoves \/ SetRetentionDays \/ Follow

LoggingSpec == LoggingInit /\ [][LoggingNext]_loggingVars

-----------------------------------------------------------------------------
LoggingTypeOK ==
    /\ threadNames \in [LogThreads -> FileNames]
    /\ logRuntime \in [stopped : BOOLEAN, enqueued : 0..MaxRecords, overruns : 0..(MaxRecords + 1),
                       quiet : BOOLEAN]
    /\ Len(logQueue) <= LogCapacity /\ Len(recent.records) <= RecentCapacity
    /\ \A n \in FileNames, d \in Days : Len(logFiles[n][d]) <= MaxFiles
    /\ openDay \in [FileNames -> Days \union {NoFileState, NotOpen}]
    /\ wallDay \in Days /\ cleanedDay \in Days \union {NotOpen}

\* Who follows the recent records from cursor to cursor has every record up to
\* its cursor, or was told that some had gone before it asked.
CursorMissesNothing == reader.told \/ 1..reader.cursor \subseteq reader.has

\* Not a property of the code, although system-architecture.md asks for it:
\* an error leaves the queue only by way of the worker.
ErrorsAreQueued ==
    [][ \A i \in DOMAIN logQueue :
          logQueue[i].level = "error" /\ recent' = recent
            => \E j \in DOMAIN logQueue' : logQueue'[j] = logQueue[i] ]_loggingVars
================================================================================
