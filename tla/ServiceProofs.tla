----------------------------- MODULE ServiceProofs -----------------------------
(***************************************************************************)
(* Theorems about the service process: the database file and its           *)
(* migrations, the alarms of a detector lane, the log records that         *)
(* somebody follows, the local IPC server, the host that starts and stops  *)
(* the components, and the alarms of the health and time monitors.         *)
(***************************************************************************)
EXTENDS HostedService, DatabaseFile, LaneAlarms, Logging, HealthMonitor, TimeSync,
        SequenceTheorems, FiniteSetTheorems, WellFoundedInduction, TLAPS

-----------------------------------------------------------------------------
(* The database file *)

Databases ==
    [version : Nat, events : BOOLEAN, children : BOOLEAN, sound : BOOLEAN]

Files == Databases \cup {NoFile}

\* What a connection finds: before an unfinished transaction.
HoldsCommitted(f) == f.sound => Rows(f) = committed

\* Old enough to be migrated, but without events a migration drops.
MigratesWhole(f) == f \in Databases /\ f.version < CurrentVersion /\ ~LegacyRows(f)

\* Whatever the phase, the file or the journal beside it holds the committed
\* rows; a transaction under way has a journal; and what is being migrated has
\* no events a migration drops.
FileInv ==
    /\ file \in Files /\ journal \in Files /\ temporary \in Files
    /\ backups \subseteq [version : Int, suffix : Nat, content : Files]
    /\ journal # NoFile => file \in Databases
    /\ HoldsCommitted(RecoveredFile)
    /\ phase \in {"reserve", "copy", "migrate"} => journal = NoFile /\ MigratesWhole(file)
    /\ phase = "migrating" => MigratesWhole(journal) /\ file = Migrated(journal)
    /\ phase = "open" => journal = NoFile /\ file \in Databases /\ file.version = CurrentVersion
    /\ phase = "writing" =>
            /\ journal \in Databases /\ journal.version = CurrentVersion
            /\ file \in Databases /\ file.version = CurrentVersion
    /\ phase = "clean" => journal = NoFile

LEMMA NoFileIsNoDatabase == NoFile \notin Databases /\ Empty \in Databases /\ Empty # NoFile
BY DEF NoFile, Databases, Empty, Database

\* A migration keeps the rows of what it should migrate.
LEMMA MigratedKeepsRows ==
    ASSUME NEW f, MigratesWhole(f)
    PROVE  /\ Migrated(f) \in Databases /\ Rows(Migrated(f)) = Rows(f)
           /\ Migrated(f).sound = f.sound /\ Migrated(f).version = f.version + 1
           /\ f.version + 1 # CurrentVersion => MigratesWhole(Migrated(f))
<1>0. f \in Databases /\ f.version \in Nat /\ f.events \in BOOLEAN /\ f.children \in BOOLEAN
      /\ f.sound \in BOOLEAN
  BY DEF MigratesWhole, Databases
<1>1. f.events => f.version >= 5
  BY <1>0 DEF MigratesWhole, LegacyRows
<1>2. KeepsChildren(f)
  BY <1>0 DEF KeepsChildren, KeysChecked
<1> DEFINE g == [version |-> f.version + 1, events |-> f.events,
                 children |-> f.children, sound |-> f.sound]
<1>3. (f.events /\ f.version # 4) = f.events /\ (f.children /\ KeepsChildren(f)) = f.children
  BY <1>0, <1>1, <1>2
<1>4. Migrated(f) = [f EXCEPT !.version = f.version + 1, !.events = f.events,
                              !.children = f.children]
  BY <1>3 DEF Migrated
<1>5. Migrated(f) = g
  BY <1>0, <1>4 DEF Databases
<1>6. g \in Databases
  BY <1>0 DEF Databases
<1>7. Rows(g) = Rows(f) /\ g.sound = f.sound /\ g.version = f.version + 1 /\ g.events = f.events
  BY DEF Rows
<1>8. f.version + 1 # CurrentVersion => MigratesWhole(g)
  <2>1. CurrentVersion \in Nat
    BY DatabaseFileAssumption
  <2> HIDE DEF g
  <2>2. QED BY <2>1, <1>0, <1>1, <1>6, <1>7 DEF MigratesWhole, LegacyRows
<1>9. QED BY <1>5, <1>6, <1>7, <1>8

LEMMA InitFileInv == DatabaseInit => FileInv
<1> SUFFICES ASSUME DatabaseInit PROVE FileInv
  OBVIOUS
<1>1. file \in Files
  <2>1. \A v \in 1 .. CurrentVersion + 1, e \in BOOLEAN, c \in BOOLEAN :
            Database(v, e, c) \in Databases
    BY DatabaseFileAssumption DEF Database, Databases
  <2>2. \/ file = NoFile \/ file = Empty
        \/ \E v \in 1 .. CurrentVersion + 1, e \in BOOLEAN, c \in BOOLEAN :
               file = Database(v, c \/ e, c)
    BY DEF DatabaseInit, Found
  <2>3. QED BY <2>1, <2>2, NoFileIsNoDatabase DEF Files
<1>2. RecoveredFile = file /\ Rows(file) = committed
  BY DEF DatabaseInit, RecoveredFile
<1>3. QED BY <1>1, <1>2 DEF DatabaseInit, FileInv, HoldsCommitted, Files

LEMMA NextFileInv == FileInv /\ [DatabaseNext]_databaseVars => FileInv'
<1> SUFFICES ASSUME FileInv, [DatabaseNext]_databaseVars PROVE FileInv'
  OBVIOUS
<1>1. /\ file \in Files /\ journal \in Files /\ temporary \in Files
      /\ backups \subseteq [version : Int, suffix : Nat, content : Files]
      /\ journal # NoFile => file \in Databases
      /\ HoldsCommitted(RecoveredFile)
      /\ NoFile \in Files /\ Empty \in Files /\ Databases \subseteq Files
      /\ \A f \in Files : f \in Databases \/ f = NoFile
      /\ NoFile \notin Databases /\ Empty \in Databases
  BY NoFileIsNoDatabase DEF FileInv, Files
<1>0. CurrentVersion \in Nat /\ CurrentVersion > 4
  BY DatabaseFileAssumption
<1>2. CASE OpenDatabase
  <2>0. /\ journal' = NoFile /\ UNCHANGED <<backups, temporary, committed>>
        /\ file' = IF RecoveredFile = NoFile THEN Empty ELSE RecoveredFile
        /\ \/ phase' = "closed"
           \/ /\ ~Refused(RecoveredFile)
              /\ phase' = IF RecoveredFile.version = CurrentVersion THEN "open"
                          ELSE IF RecoveredFile = NoFile THEN "migrate" ELSE "reserve"
    BY <1>2 DEF OpenDatabase
  <2>1. RecoveredFile \in Files
    BY <1>1 DEF RecoveredFile
  <2>2. CASE RecoveredFile = NoFile
    <3>1. file' = Empty /\ phase' \in {"closed", "migrate"}
      <4>1. NoFile.version # CurrentVersion
        BY <1>0 DEF NoFile
      <4>2. QED BY <2>0, <2>2, <4>1
    <3>2. MigratesWhole(Empty) /\ Rows(Empty) = Rows(NoFile) /\ NoFile.sound
      <4>1. Empty.version = 0 /\ Empty.events = FALSE
        BY DEF Empty, Database
      <4>2. MigratesWhole(Empty)
        BY <4>1, <1>0, <1>1 DEF MigratesWhole, LegacyRows
      <4>3. QED BY <4>2 DEF Empty, Database, NoFile, Rows
    <3>3. HoldsCommitted(RecoveredFile)'
      BY <1>1, <2>0, <2>2, <3>1, <3>2 DEF HoldsCommitted, RecoveredFile
    <3>4. MigratesWhole(file)'
      BY <3>1, <3>2 DEF MigratesWhole, LegacyRows
    <3>5. QED BY <1>1, <2>0, <3>1, <3>3, <3>4 DEF FileInv
  <2>3. CASE RecoveredFile # NoFile
    <3>1. file' = RecoveredFile /\ RecoveredFile \in Databases
          /\ phase' \in {"closed", "open", "reserve"}
      BY <1>1, <2>0, <2>1, <2>3
    <3>2. ASSUME phase' = "reserve" PROVE MigratesWhole(file')
      <4>1. RecoveredFile.version # CurrentVersion /\ ~Refused(RecoveredFile)
        BY <2>0, <2>3, <3>2
      <4>2. RecoveredFile.version \in Nat
        BY <3>1 DEF Databases
      <4>3. RecoveredFile.version < CurrentVersion /\ ~LegacyRows(RecoveredFile)
        BY <4>1, <4>2, <1>0 DEF Refused
      <4>4. QED BY <3>1, <4>3 DEF MigratesWhole
    <3>3. phase' = "open" => file'.version = CurrentVersion
      BY <2>0, <2>3, <3>1
    <3>4. HoldsCommitted(RecoveredFile)'
      BY <1>1, <2>0, <3>1 DEF HoldsCommitted, RecoveredFile
    <3>5. (phase = "reserve" => MigratesWhole(file))'
      BY <3>2 DEF MigratesWhole, LegacyRows
    <3>6. QED BY <1>1, <2>0, <3>1, <3>3, <3>4, <3>5 DEF FileInv
  <2>4. QED BY <2>2, <2>3
<1>3. CASE Reserve
  <2>1. /\ phase = "reserve" /\ phase' \in {"closed", "copy"}
        /\ UNCHANGED <<file, journal, temporary, committed>>
        /\ \/ backups' = backups
           \/ \E s \in Nat : backups' = backups \cup {Backup(file.version, s, NoFile)}
    BY <1>3, DatabaseFileAssumption DEF Reserve, FreeSuffixes
  <2>2. backups' \subseteq [version : Int, suffix : Nat, content : Files]
    <3>1. file.version \in Int
      BY <1>1 DEF Databases, NoFile
    <3>2. QED BY <2>1, <1>1, <3>1 DEF Backup, Manual
  <2>3. HoldsCommitted(RecoveredFile)'
    BY <2>1, <1>1 DEF HoldsCommitted, RecoveredFile
  <2>4. journal = NoFile /\ MigratesWhole(file)
    BY <2>1 DEF FileInv
  <2>5. MigratesWhole(file)'
    BY <2>1, <2>4 DEF MigratesWhole, LegacyRows
  <2>6. QED BY <1>1, <2>1, <2>2, <2>3, <2>4, <2>5 DEF FileInv
<1>4. CASE Copy
  <2>1. /\ phase = "copy" /\ phase' \in {"closed", "migrate"}
        /\ UNCHANGED <<file, journal, temporary, committed>>
        /\ \E b \in backups :
              \/ backups' = (backups \ {b}) \cup {[b EXCEPT !.content = file]}
              \/ backups' = backups \ {b}
    BY <1>4 DEF Copy
  <2>2. backups' \subseteq [version : Int, suffix : Nat, content : Files]
    BY <2>1, <1>1
  <2>3. HoldsCommitted(RecoveredFile)'
    BY <2>1, <1>1 DEF HoldsCommitted, RecoveredFile
  <2>4. journal = NoFile /\ MigratesWhole(file)
    BY <2>1 DEF FileInv
  <2>5. MigratesWhole(file)'
    BY <2>1, <2>4 DEF MigratesWhole, LegacyRows
  <2>6. QED BY <1>1, <2>1, <2>2, <2>3, <2>4, <2>5 DEF FileInv
<1>5. CASE BeginMigration
  <2>1. /\ phase = "migrate" /\ phase' = "migrating"
        /\ journal' = file /\ file' = Migrated(file)
        /\ UNCHANGED <<backups, temporary, committed>>
    BY <1>5 DEF BeginMigration
  <2>2. journal = NoFile /\ MigratesWhole(file)
    BY <2>1 DEF FileInv
  <2>3. file' \in Databases /\ file \in Databases
    BY <2>1, <2>2, MigratedKeepsRows DEF MigratesWhole
  <2>4. MigratesWhole(journal)' /\ (file = Migrated(journal))'
    <3>1. MigratesWhole(journal)'
      BY <2>1, <2>2 DEF MigratesWhole, LegacyRows
    <3>2. (file = Migrated(journal))'
      BY <2>1 DEF Migrated, KeepsChildren, KeysChecked
    <3>3. QED BY <3>1, <3>2
  <2>5. HoldsCommitted(RecoveredFile)'
    <3>1. RecoveredFile = file /\ RecoveredFile' = file
      BY <2>1, <2>2, <2>3, <1>1 DEF RecoveredFile
    <3>2. QED BY <3>1, <1>1, <2>1 DEF HoldsCommitted, Rows
  <2>6. QED BY <1>1, <2>1, <2>3, <2>4, <2>5 DEF FileInv
<1>6. CASE CommitMigration
  <2>1. /\ phase = "migrating" /\ journal' = NoFile
        /\ phase' = IF file.version = CurrentVersion THEN "open" ELSE "migrate"
        /\ UNCHANGED <<file, backups, temporary, committed>>
    BY <1>6 DEF CommitMigration
  <2>2. MigratesWhole(journal) /\ file = Migrated(journal)
    BY <2>1 DEF FileInv
  <2>3. /\ file \in Databases /\ Rows(file) = Rows(journal) /\ file.sound = journal.sound
        /\ file.version = journal.version + 1
        /\ journal.version + 1 # CurrentVersion => MigratesWhole(file)
    BY <2>2, MigratedKeepsRows
  <2>4. RecoveredFile = journal /\ RecoveredFile' = file
    BY <2>1, <2>2, <1>1 DEF RecoveredFile, MigratesWhole
  <2>5. HoldsCommitted(RecoveredFile)'
    BY <2>1, <2>3, <2>4, <1>1 DEF HoldsCommitted, Rows
  <2>6. (phase = "migrate" => MigratesWhole(file))'
    BY <2>1, <2>3 DEF MigratesWhole, LegacyRows
  <2>7. QED BY <1>1, <2>1, <2>3, <2>5, <2>6 DEF FileInv
<1>7. CASE RollBack
  <2>1. /\ phase \in {"migrating", "writing"} /\ file' = journal /\ journal' = NoFile
        /\ phase' = IF phase = "migrating" THEN "closed" ELSE "open"
        /\ UNCHANGED <<backups, temporary, committed>>
    BY <1>7 DEF RollBack
  <2>2. journal \in Databases /\ (phase = "writing" => journal.version = CurrentVersion)
    BY <2>1 DEF FileInv, MigratesWhole
  <2>3. RecoveredFile = journal /\ RecoveredFile' = journal
    BY <2>1, <2>2, <1>1 DEF RecoveredFile
  <2>4. HoldsCommitted(RecoveredFile)'
    BY <2>1, <2>3, <1>1 DEF HoldsCommitted, Rows
  <2>5. QED BY <1>1, <2>1, <2>2, <2>4 DEF FileInv
<1>8. CASE BeginWrite
  <2>1. /\ phase = "open" /\ phase' = "writing" /\ journal' = file
        /\ file' = [file EXCEPT !.events = TRUE, !.children = TRUE]
        /\ UNCHANGED <<backups, temporary, committed>>
    BY <1>8 DEF BeginWrite
  <2>2. journal = NoFile /\ file \in Databases /\ file.version = CurrentVersion
    BY <2>1 DEF FileInv
  <2>3. file' \in Databases /\ file'.version = file.version
    BY <2>1, <2>2 DEF Databases
  <2>4. RecoveredFile = file /\ RecoveredFile' = file
    BY <2>1, <2>2, <1>1 DEF RecoveredFile
  <2>5. HoldsCommitted(RecoveredFile)'
    BY <2>1, <2>4, <1>1 DEF HoldsCommitted, Rows
  <2>6. QED BY <1>1, <2>1, <2>2, <2>3, <2>5 DEF FileInv
<1>9. CASE CommitWrite
  <2>1. /\ phase = "writing" /\ phase' = "open" /\ journal' = NoFile /\ committed' = Rows(file)
        /\ UNCHANGED <<file, backups, temporary>>
    BY <1>9 DEF CommitWrite
  <2>2. file \in Databases /\ file.version = CurrentVersion
    BY <2>1 DEF FileInv
  <2>3. HoldsCommitted(RecoveredFile)'
    BY <2>1 DEF HoldsCommitted, RecoveredFile, Rows
  <2>4. QED BY <1>1, <2>1, <2>2, <2>3 DEF FileInv
<1>10. CASE BackUp \/ Close
  <2>1. /\ phase = "open" /\ phase' \in {"open", "closed"}
        /\ UNCHANGED <<file, journal, temporary, committed>>
        /\ backups' \in {backups, backups \cup {Backup(Manual, 0, file)}}
    BY <1>10 DEF BackUp, Close
  <2>2. backups' \subseteq [version : Int, suffix : Nat, content : Files]
    <3>1. file.version \in Int
      BY <1>1 DEF Databases, NoFile
    <3>2. QED BY <2>1, <1>1, <3>1 DEF Backup, Manual
  <2>3. journal = NoFile /\ file \in Databases /\ file.version = CurrentVersion
    BY <2>1 DEF FileInv
  <2>4. HoldsCommitted(RecoveredFile)'
    BY <2>1, <1>1 DEF HoldsCommitted, RecoveredFile
  <2>5. QED BY <1>1, <2>1, <2>2, <2>3, <2>4 DEF FileInv
<1>11. CASE BeginRestore
  <2>1. /\ phase = "closed" /\ phase' = "copied" /\ temporary' \in Files
        /\ UNCHANGED <<file, journal, backups, committed>>
    BY <1>11, <1>1 DEF BeginRestore
  <2>2. HoldsCommitted(RecoveredFile)'
    BY <2>1, <1>1 DEF HoldsCommitted, RecoveredFile
  <2>3. QED BY <1>1, <2>1, <2>2 DEF FileInv
<1>12. CASE RemoveSidecars
  <2>1. /\ phase = "copied" /\ phase' = "clean" /\ journal' = NoFile
        /\ file' = IF journal # NoFile THEN [file EXCEPT !.sound = FALSE] ELSE file
        /\ UNCHANGED <<backups, temporary, committed>>
    BY <1>12 DEF RemoveSidecars
  <2>2. CASE journal = NoFile
    <3>1. HoldsCommitted(RecoveredFile)'
      BY <2>1, <2>2, <1>1 DEF HoldsCommitted, RecoveredFile
    <3>2. QED BY <1>1, <2>1, <2>2, <3>1 DEF FileInv
  <2>3. CASE journal # NoFile
    <3>1. file' \in Databases /\ file'.sound = FALSE
      BY <2>1, <2>3, <1>1 DEF Databases
    <3>2. HoldsCommitted(RecoveredFile)'
      BY <2>1, <3>1 DEF HoldsCommitted, RecoveredFile
    <3>3. QED BY <1>1, <2>1, <3>1, <3>2 DEF FileInv
  <2>4. QED BY <2>2, <2>3
<1>13. CASE Replace
  <2>1. /\ phase = "clean" /\ phase' = "closed"
        /\ file' = temporary /\ temporary' = NoFile /\ committed' = Rows(temporary)
        /\ UNCHANGED <<journal, backups>>
    BY <1>13 DEF Replace
  <2>2. journal = NoFile
    BY <2>1 DEF FileInv
  <2>3. HoldsCommitted(RecoveredFile)'
    BY <2>1, <2>2 DEF HoldsCommitted, RecoveredFile, Rows
  <2>4. QED BY <1>1, <2>1, <2>2, <2>3 DEF FileInv
<1>14. CASE RestoreFails \/ Crash
  <2>1. /\ phase' = "closed" /\ temporary' = NoFile
        /\ UNCHANGED <<file, journal, backups, committed>>
    BY <1>14 DEF RestoreFails, Crash
  <2>2. HoldsCommitted(RecoveredFile)'
    BY <2>1, <1>1 DEF HoldsCommitted, RecoveredFile
  <2>3. QED BY <1>1, <2>1, <2>2 DEF FileInv
<1>15. CASE UNCHANGED databaseVars
  BY <1>15 DEF databaseVars, FileInv, HoldsCommitted, RecoveredFile, Rows, MigratesWhole,
       LegacyRows, Migrated, KeepsChildren, KeysChecked
<1>16. QED
  BY <1>2, <1>3, <1>4, <1>5, <1>6, <1>7, <1>8, <1>9, <1>10, <1>11, <1>12, <1>13, <1>14, <1>15
  DEF DatabaseNext

\* A sound database that is opened holds the rows that were committed, whatever
\* crashes came between its migrations, transactions and restores.
THEOREM RowsSurviveAlways == DatabaseSpec => []RowsSurvive
<1>1. FileInv => RowsSurvive
  BY DEF FileInv, RowsSurvive, HoldsCommitted, RecoveredFile
<1>2. QED BY InitFileInv, NextFileInv, <1>1, PTL DEF DatabaseSpec

BackedUp == \E b \in backups : b.content = original

\* What the operator put there is still in its place, or it is in a backup;
\* and it is in a backup before its first migration begins.
BackupInv ==
    original # NoFile /\ original.version < CurrentVersion =>
        BackedUp \/ (file = original /\ journal = NoFile /\ phase # "migrate")

LEMMA NextBackupInv == FileInv /\ BackupInv /\ [DatabaseNext]_databaseVars => BackupInv'
<1> SUFFICES ASSUME FileInv, BackupInv, [DatabaseNext]_databaseVars,
                    original' # NoFile, original'.version < CurrentVersion
             PROVE  BackedUp' \/ (file = original /\ journal = NoFile /\ phase # "migrate")'
  BY DEF BackupInv
<1>0. CurrentVersion \in Nat /\ \A n \in Int : n = CurrentVersion => ~(n < CurrentVersion)
  BY DatabaseFileAssumption
<1>1. CASE Replace
  <2>1. journal = NoFile
    BY <1>1 DEF FileInv, Replace
  <2>2. QED BY <1>1, <2>1 DEF Replace
<1>2. ASSUME original' = original, ~Replace
      PROVE  BackedUp' \/ (file = original /\ journal = NoFile /\ phase # "migrate")'
  <2>1. BackedUp \/ (file = original /\ journal = NoFile /\ phase # "migrate")
    BY <1>2 DEF BackupInv
  <2>2. CASE Copy
    <3>1. PICK b \in backups :
              /\ b.content = NoFile
              /\ \/ backups' = (backups \ {b}) \cup {[b EXCEPT !.content = file]}
                 \/ backups' = backups \ {b} /\ phase' = "closed"
      BY <2>2 DEF Copy, Reserved
    <3>2. BackedUp => BackedUp'
      BY <3>1, <1>2 DEF BackedUp
    <3>3. CASE backups' = backups \ {b} /\ phase' = "closed"
      BY <2>1, <2>2, <3>2, <3>3, <1>2 DEF Copy
    <3>4. CASE backups' = (backups \ {b}) \cup {[b EXCEPT !.content = file]}
      <4>1. [b EXCEPT !.content = file].content = file
        BY DEF FileInv
      <4>2. file = original => BackedUp'
        BY <3>4, <4>1, <1>2 DEF BackedUp
      <4>3. QED BY <2>1, <3>2, <4>2
    <3>5. QED BY <3>1, <3>3, <3>4
  <2>3. CASE OpenDatabase
    <3>1. BackedUp => BackedUp'
      BY <2>3, <1>2 DEF OpenDatabase, BackedUp
    <3>2. file = original /\ journal = NoFile =>
              file' = original /\ journal' = NoFile /\ phase' # "migrate"
      BY <2>3, <1>2 DEF OpenDatabase, RecoveredFile
    <3>3. QED BY <2>1, <3>1, <3>2, <1>2
  <2>4. CASE Reserve \/ BackUp
    <3>1. backups \subseteq backups' /\ UNCHANGED <<file, journal>> /\ phase' # "migrate"
      BY <2>4 DEF Reserve, BackUp
    <3>2. QED BY <2>1, <3>1, <1>2 DEF BackedUp
  <2>5. CASE BeginMigration \/ CommitMigration \/ RollBack \/ BeginWrite \/ CommitWrite
    <3>1. phase \in {"migrate", "migrating", "open", "writing"} /\ UNCHANGED backups
      BY <2>5 DEF BeginMigration, CommitMigration, RollBack, BeginWrite, CommitWrite
    <3>2. BackedUp
      <4>1. CASE phase = "migrate"
        BY <4>1, <2>1
      <4>2. CASE phase = "migrating"
        <5>1. journal # NoFile
          BY <4>2, NoFileIsNoDatabase DEF FileInv, MigratesWhole
        <5>2. QED BY <5>1, <2>1
      <4>3. CASE phase \in {"open", "writing"}
        <5>1. file.version \in Int /\ file.version = CurrentVersion
          BY <4>3, <1>0 DEF FileInv
        <5>2. file # original
          BY <5>1, <1>0, <1>2
        <5>3. QED BY <5>2, <2>1
      <4>4. QED BY <3>1, <4>1, <4>2, <4>3
    <3>3. QED BY <3>1, <3>2, <1>2 DEF BackedUp
  <2>6. CASE Close \/ BeginRestore \/ RestoreFails \/ Crash \/ UNCHANGED databaseVars
    <3>1. UNCHANGED <<file, journal, backups>> /\ phase' \in {phase, "closed", "copied"}
      BY <2>6 DEF Close, BeginRestore, RestoreFails, Crash, databaseVars
    <3>2. QED BY <2>1, <3>1, <1>2 DEF BackedUp
  <2>7. CASE RemoveSidecars
    <3>1. UNCHANGED backups /\ phase' = "clean" /\ journal' = NoFile
          /\ (journal = NoFile => file' = file)
      BY <2>7 DEF RemoveSidecars
    <3>2. QED BY <2>1, <3>1, <1>2 DEF BackedUp
  <2>8. QED
    BY <1>2, <2>2, <2>3, <2>4, <2>5, <2>6, <2>7 DEF DatabaseNext
<1>3. Replace \/ original' = original
  BY DEF DatabaseNext, databaseVars, OpenDatabase, Reserve, Copy, BeginMigration, CommitMigration,
         RollBack, BeginWrite, CommitWrite, BackUp, Close, BeginRestore, RemoveSidecars,
         RestoreFails, Crash
<1>4. QED BY <1>1, <1>2, <1>3

\* A database of an older version that has been migrated is whole in a backup,
\* although migrations and backups were cut short by crashes and begun again.
THEOREM MigratedIsBackedUpAlways == DatabaseSpec => []MigratedIsBackedUp
<1>1. DatabaseInit => BackupInv
  BY DEF DatabaseInit, BackupInv
<1>2. BackupInv => MigratedIsBackedUp
  BY DEF BackupInv, BackedUp, MigratedIsBackedUp
<1>3. QED BY InitFileInv, NextFileInv, <1>1, NextBackupInv, <1>2, PTL DEF DatabaseSpec

-----------------------------------------------------------------------------
(* The alarms of a detector lane *)

LaneCalls == [op : {"raise", "clear"}, alarm : LaneAlarmCodes]

\* Only the lane raises the alarm of its detector, and only while the detector
\* keeps failing; whoever ends the failures has the alarm still to clear.
LaneInv ==
    /\ calls \in [Threads -> Seq(LaneCalls)]
    /\ DOMAIN lane = {"configured", "slot", "failures", "skipped", "bad", "healthy",
                      "backlog", "degraded"}
    /\ lane.failures \in 0 .. FailureLimit
    /\ \A t \in Threads : Raise(ProcessFailed) \in ToSet(calls[t]) =>
            t = "lane" /\ lane.failures = FailureLimit
    /\ ProcessFailed \in raised =>
            \/ lane.failures = FailureLimit
            \/ Clear(ProcessFailed) \in ToSet(calls["lane"])
            \/ Clear(ProcessFailed) \in ToSet(calls["reconfigure"])

LEMMA AlarmsDiffer ==
    /\ ProcessFailed # QueueBacklog /\ ProcessFailed # LaneDegraded
    /\ \A a, b : Raise(a) # Clear(b) /\ (Raise(a) = Raise(b) => a = b) /\ (Clear(a) = Clear(b) => a = b)
    /\ \A a \in LaneAlarmCodes : Raise(a) \in LaneCalls /\ Clear(a) \in LaneCalls
    /\ {ProcessFailed, QueueBacklog, LaneDegraded} \subseteq LaneAlarmCodes
    /\ LaneThreads \subseteq Threads
    /\ \A c : Raise(c).op = "raise" /\ Raise(c).alarm = c /\ Clear(c).op = "clear" /\ Clear(c).alarm = c
<1>1. ProcessFailed # QueueBacklog /\ ProcessFailed # LaneDegraded
  BY DEF ProcessFailed, QueueBacklog, LaneDegraded
<1>2. \A a, b : Raise(a) # Clear(b)
  BY DEF Raise, Clear
<1>3. \A a, b : (Raise(a) = Raise(b) => a = b) /\ (Clear(a) = Clear(b) => a = b)
  BY DEF Raise, Clear
<1>4. \A a \in LaneAlarmCodes : Raise(a) \in LaneCalls /\ Clear(a) \in LaneCalls
  BY DEF Raise, Clear, LaneCalls
<1>5. \A c : Raise(c).op = "raise" /\ Raise(c).alarm = c /\ Clear(c).op = "clear" /\ Clear(c).alarm = c
  BY DEF Raise, Clear
<1>6. {ProcessFailed, QueueBacklog, LaneDegraded} \subseteq LaneAlarmCodes
  BY DEF LaneAlarmCodes
<1>7. QED BY <1>1, <1>2, <1>3, <1>4, <1>5, <1>6, LaneThreadsAssumption

\* The calls of a condition, of two conditions in turn, and of what is left.
LEMMA CallsOfIf ==
    ASSUME NEW S, NEW call \in S, NEW condition
    PROVE  If(condition, call) \in Seq(S)
           /\ ToSet(If(condition, call)) = IF condition THEN {call} ELSE {}
<1>1. <<call>> \in Seq(S) /\ Len(<<call>>) = 1 /\ <<call>>[1] = call
  OBVIOUS
<1>2. ToSet(<<call>>) = {call} /\ ToSet(<<>>) = {}
  BY <1>1 DEF ToSet
<1>3. CASE condition
  BY <1>1, <1>2, <1>3 DEF If
<1>4. CASE ~condition
  BY <1>2, <1>4 DEF If
<1>5. QED BY <1>3, <1>4

LEMMA CallsInTurn ==
    ASSUME NEW S, NEW s \in Seq(S), NEW t \in Seq(S)
    PROVE  s \o t \in Seq(S) /\ ToSet(s \o t) = ToSet(s) \cup ToSet(t)
<1>1. /\ s \o t \in Seq(S) /\ Len(s \o t) = Len(s) + Len(t)
      /\ \A i \in 1 .. Len(s) + Len(t) : (s \o t)[i] = IF i <= Len(s) THEN s[i] ELSE t[i - Len(s)]
      /\ Len(s) \in Nat /\ Len(t) \in Nat
      /\ DOMAIN s = 1 .. Len(s) /\ DOMAIN t = 1 .. Len(t) /\ DOMAIN (s \o t) = 1 .. Len(s) + Len(t)
  BY ConcatProperties, LenProperties
<1>2. \A x \in ToSet(s \o t) : x \in ToSet(s) \cup ToSet(t)
  <2> SUFFICES ASSUME NEW i \in 1 .. Len(s) + Len(t)
               PROVE  (s \o t)[i] \in ToSet(s) \cup ToSet(t)
    BY <1>1 DEF ToSet
  <2>1. CASE i <= Len(s)
    BY <2>1, <1>1 DEF ToSet
  <2>2. CASE i > Len(s)
    <3>1. i - Len(s) \in 1 .. Len(t)
      BY <2>2, <1>1
    <3>2. QED BY <2>2, <3>1, <1>1 DEF ToSet
  <2>3. QED BY <2>1, <2>2, <1>1
<1>3. \A x \in ToSet(s) : x \in ToSet(s \o t)
  <2> SUFFICES ASSUME NEW i \in 1 .. Len(s) PROVE s[i] \in ToSet(s \o t)
    BY <1>1 DEF ToSet
  <2>1. i \in 1 .. Len(s) + Len(t) /\ (s \o t)[i] = s[i]
    BY <1>1
  <2>2. QED BY <2>1, <1>1 DEF ToSet
<1>4. \A x \in ToSet(t) : x \in ToSet(s \o t)
  <2> SUFFICES ASSUME NEW i \in 1 .. Len(t) PROVE t[i] \in ToSet(s \o t)
    BY <1>1 DEF ToSet
  <2>1. i + Len(s) \in 1 .. Len(s) + Len(t) /\ (s \o t)[i + Len(s)] = t[i]
    BY <1>1
  <2>2. QED BY <2>1, <1>1 DEF ToSet
<1>5. QED BY <1>1, <1>2, <1>3, <1>4

LEMMA CallsLeft ==
    ASSUME NEW S, NEW s \in Seq(S), s # <<>>
    PROVE  Tail(s) \in Seq(S) /\ Head(s) \in S /\ ToSet(s) = {Head(s)} \cup ToSet(Tail(s))
<1>1. /\ Head(s) \in S /\ Tail(s) \in Seq(S) /\ Len(Tail(s)) = Len(s) - 1
      /\ \A i \in 1 .. Len(Tail(s)) : Tail(s)[i] = s[i + 1]
      /\ Len(s) \in Nat \ {0} /\ Head(s) = s[1]
      /\ DOMAIN s = 1 .. Len(s) /\ DOMAIN Tail(s) = 1 .. Len(s) - 1
  BY HeadTailProperties, LenProperties, EmptySeq
<1>2. \A x \in ToSet(s) : x = Head(s) \/ x \in ToSet(Tail(s))
  <2> SUFFICES ASSUME NEW i \in 1 .. Len(s) PROVE s[i] = Head(s) \/ s[i] \in ToSet(Tail(s))
    BY <1>1 DEF ToSet
  <2>1. CASE i = 1
    BY <2>1, <1>1
  <2>2. CASE i # 1
    <3>1. i - 1 \in 1 .. Len(s) - 1 /\ Tail(s)[i - 1] = s[i]
      BY <2>2, <1>1
    <3>2. QED BY <3>1, <1>1 DEF ToSet
  <2>3. QED BY <2>1, <2>2
<1>3. Head(s) \in ToSet(s)
  BY <1>1 DEF ToSet
<1>4. \A x \in ToSet(Tail(s)) : x \in ToSet(s)
  <2> SUFFICES ASSUME NEW i \in 1 .. Len(s) - 1 PROVE Tail(s)[i] \in ToSet(s)
    BY <1>1 DEF ToSet
  <2>1. i + 1 \in 1 .. Len(s) /\ Tail(s)[i] = s[i + 1]
    BY <1>1
  <2>2. QED BY <2>1, <1>1 DEF ToSet
<1>5. QED BY <1>1, <1>2, <1>3, <1>4

LEMMA InitLaneInv == RegistryInit /\ LaneInit => LaneInv
<1> SUFFICES ASSUME RegistryInit, LaneInit PROVE LaneInv
  OBVIOUS
<1>1. \A t \in Threads : calls[t] = <<>>
  BY DEF RegistryInit
<1>2. ToSet(<<>>) = {}
  BY DEF ToSet
<1>3. calls \in [Threads -> Seq(LaneCalls)] /\ raised = {}
  BY DEF RegistryInit
<1>4. /\ DOMAIN lane = {"configured", "slot", "failures", "skipped", "bad", "healthy",
                        "backlog", "degraded"}
      /\ lane.failures \in 0 .. FailureLimit
  BY LaneAlarmsAssumption DEF LaneInit, NewLane
<1>5. QED BY <1>1, <1>2, <1>3, <1>4 DEF LaneInv

\* A step that leaves the failures and plans no call about them changes nothing.
LEMMA OtherCallsKeepLaneInv ==
    ASSUME LaneInv, lane'.failures = lane.failures, DOMAIN lane' = DOMAIN lane, raised' = raised,
           calls' \in [Threads -> Seq(LaneCalls)],
           \A t \in Threads : calls'[t] = calls[t] \/
               (Idle(t) /\ Raise(ProcessFailed) \notin ToSet(calls'[t]))
    PROVE  LaneInv'
<1>1. ToSet(<<>>) = {}
  BY DEF ToSet
<1>2. \A t \in Threads : \A x : x \in ToSet(calls[t]) /\ calls'[t] # calls[t] => FALSE
  BY <1>1 DEF Idle
<1>3. "lane" \in Threads /\ "reconfigure" \in Threads
  BY LaneThreadsAssumption DEF LaneThreads
<1>4. QED BY <1>2, <1>3 DEF LaneInv

LEMMA NextLaneInv == LaneInv /\ [LaneNext \/ LaneCall]_<<laneVars, registryVars>> => LaneInv'
<1> SUFFICES ASSUME LaneInv, [LaneNext \/ LaneCall]_<<laneVars, registryVars>> PROVE LaneInv'
  OBVIOUS
<1> USE AlarmsDiffer
<1>0. /\ calls \in [Threads -> Seq(LaneCalls)] /\ lane.failures \in 0 .. FailureLimit
      /\ "failures" \in DOMAIN lane /\ FailureLimit \in Nat \ {0}
      /\ {"lane", "frames", "reconfigure"} \subseteq Threads
      /\ ToSet(<<>>) = {}
  BY LaneAlarmsAssumption DEF LaneInv, LaneThreads, ToSet
<1>1. CASE LaneCall
  <2>1. PICK t \in LaneThreads : Call(t)
    BY <1>1 DEF LaneCall
  <2>2. lane' = lane /\ t \in Threads /\ calls[t] # <<>> /\ calls[t] \in Seq(LaneCalls)
    BY <1>0, <1>1, <2>1 DEF LaneCall, laneVars, LaneThreads, Call
  <2> DEFINE call == Head(calls[t])
  <2>3. /\ call \in LaneCalls /\ Tail(calls[t]) \in Seq(LaneCalls)
        /\ ToSet(calls[t]) = {call} \cup ToSet(Tail(calls[t]))
    BY <2>2, CallsLeft
  <2>4. calls' = [calls EXCEPT ![t] = Tail(calls[t])]
    BY <2>1 DEF Call
  <2>5. calls' \in [Threads -> Seq(LaneCalls)]
        /\ \A u \in Threads : calls'[u] = IF u = t THEN Tail(calls[t]) ELSE calls[u]
    BY <1>0, <2>2, <2>3, <2>4
  <2>6. \/ call.op = "raise" /\ raised' \subseteq raised \cup {call.alarm}
        \/ call.op = "clear" /\ raised' = raised \ {call.alarm}
    BY <2>1 DEF Call, RaiseAlarm, RefuseAlarm, ClearAlarm
  <2>7. \A u \in Threads : \A x : x \in ToSet(calls'[u]) => x \in ToSet(calls[u])
    BY <2>3, <2>5
  <2>8. \A u \in Threads : \A x : x \in ToSet(calls[u]) /\ x # call => x \in ToSet(calls'[u])
    BY <2>3, <2>5
  <2>9. \A u \in Threads : Raise(ProcessFailed) \in ToSet(calls'[u]) =>
            u = "lane" /\ lane.failures = FailureLimit
    BY <2>7 DEF LaneInv
  <2>10. ASSUME ProcessFailed \in raised'
         PROVE  \/ lane.failures = FailureLimit
                \/ Clear(ProcessFailed) \in ToSet(calls'["lane"])
                \/ Clear(ProcessFailed) \in ToSet(calls'["reconfigure"])
    <3>1. CASE call.op = "clear"
      <4>1. call.alarm # ProcessFailed /\ ProcessFailed \in raised
        BY <2>6, <2>10, <3>1
      <4>2. call # Clear(ProcessFailed)
        BY <4>1
      <4>3. QED BY <1>0, <2>8, <4>1, <4>2 DEF LaneInv
    <3>2. CASE call.op = "raise" /\ call.alarm = ProcessFailed
      <4>1. call = Raise(ProcessFailed)
        BY <2>3, <3>2 DEF LaneCalls, Raise
      <4>2. QED BY <2>2, <2>3, <4>1 DEF LaneInv
    <3>3. CASE call.op = "raise" /\ call.alarm # ProcessFailed
      <4>1. ProcessFailed \in raised /\ call # Clear(ProcessFailed)
        BY <2>6, <2>10, <3>3
      <4>2. QED BY <1>0, <2>8, <4>1 DEF LaneInv
    <3>4. QED BY <2>6, <3>1, <3>2, <3>3
  <2>11. QED BY <2>2, <2>5, <2>9, <2>10 DEF LaneInv
<1>2. CASE StartFrame \/ StartSwap \/ SwapFails \/ \E refused \in BOOLEAN : PassThrough(refused)
  <2>1. calls' = calls /\ raised' = raised
    BY <1>2 DEF StartFrame, StartSwap, SwapFails, PassThrough, registryVars
  <2>2. lane'.failures = lane.failures /\ DOMAIN lane' = DOMAIN lane
    BY <1>0, <1>2 DEF StartFrame, StartSwap, SwapFails, PassThrough
  <2>3. QED BY <1>0, <2>1, <2>2, OtherCallsKeepLaneInv
<1>3. ASSUME NEW failed \in BOOLEAN, NEW refused \in BOOLEAN, NEW missed \in 0 .. BacklogLimit,
             Detect(failed, missed, refused)
      PROVE  LaneInv'
  <2> DEFINE failures == IF failed THEN UpTo(FailureLimit, lane.failures + 1) ELSE 0
             planned == IF failed THEN FailureCalls(failures) ELSE SuccessCalls
  <2>1. /\ lane' = [lane EXCEPT !.failures = failures, !.degraded = refused]
        /\ calls["lane"] = <<>> /\ calls' = [calls EXCEPT !["lane"] = planned] /\ raised' = raised
    BY <1>3 DEF Detect, Plan, Idle
  <2>2. failures \in 0 .. FailureLimit
        /\ (failed /\ lane.failures = FailureLimit => failures = FailureLimit)
    BY <1>0 DEF UpTo
  <2>3. lane'.failures = failures /\ DOMAIN lane' = DOMAIN lane
    BY <1>0, <2>1
  <2>4. /\ planned \in Seq(LaneCalls)
        /\ ToSet(planned) = IF failed
               THEN IF failures = FailureLimit THEN {Raise(ProcessFailed)} ELSE {}
               ELSE IF lane.failures = FailureLimit THEN {Clear(ProcessFailed)} ELSE {}
    <3>1. Raise(ProcessFailed) \in LaneCalls /\ Clear(ProcessFailed) \in LaneCalls
      OBVIOUS
    <3>2. QED BY <3>1, CallsOfIf DEF FailureCalls, SuccessCalls
  <2> HIDE DEF failures, planned
  <2>5. calls' \in [Threads -> Seq(LaneCalls)] /\ calls'["lane"] = planned
        /\ \A t \in Threads : t # "lane" => calls'[t] = calls[t]
    BY <1>0, <2>1, <2>4
  <2>6. \A t \in Threads : Raise(ProcessFailed) \in ToSet(calls'[t]) =>
            t = "lane" /\ lane'.failures = FailureLimit
    <3> SUFFICES ASSUME NEW t \in Threads, Raise(ProcessFailed) \in ToSet(calls'[t])
                 PROVE  t = "lane" /\ lane'.failures = FailureLimit
      OBVIOUS
    <3>1. t = "lane"
      BY <2>5 DEF LaneInv
    <3>2. failed /\ failures = FailureLimit
      BY <2>4, <2>5, <3>1
    <3>3. QED BY <3>1, <3>2, <2>3
  <2>7. ASSUME ProcessFailed \in raised'
        PROVE  \/ lane'.failures = FailureLimit
               \/ Clear(ProcessFailed) \in ToSet(calls'["lane"])
               \/ Clear(ProcessFailed) \in ToSet(calls'["reconfigure"])
    <3>1. lane.failures = FailureLimit \/ Clear(ProcessFailed) \in ToSet(calls["reconfigure"])
      BY <1>0, <2>1, <2>7 DEF LaneInv
    <3>2. CASE lane.failures = FailureLimit
      BY <2>2, <2>3, <2>4, <2>5, <3>2
    <3>3. QED BY <1>0, <2>5, <3>1, <3>2
  <2>8. QED BY <1>0, <2>2, <2>3, <2>5, <2>6, <2>7 DEF LaneInv
<1>4. CASE Count
  <2> DEFINE first == If(lane'.backlog /\ ~lane.backlog, Raise(QueueBacklog))
             second == If(laneWorker.report \/ lane'.degraded # lane.degraded, Raise(LaneDegraded))
  <2>1. /\ lane' = Missed(lane, laneWorker.missed)
        /\ Idle("lane") /\ calls' = [calls EXCEPT !["lane"] = first \o second] /\ raised' = raised
    BY <1>4 DEF Count, Plan
  <2>2. lane'.failures = lane.failures /\ DOMAIN lane' = DOMAIN lane
    BY <1>0, <2>1 DEF Missed
  <2>3. /\ first \in Seq(LaneCalls) /\ ToSet(first) \subseteq {Raise(QueueBacklog)}
        /\ second \in Seq(LaneCalls) /\ ToSet(second) \subseteq {Raise(LaneDegraded)}
    <3>1. Raise(QueueBacklog) \in LaneCalls /\ Raise(LaneDegraded) \in LaneCalls
      OBVIOUS
    <3>2. QED BY <3>1, CallsOfIf
  <2> HIDE DEF first, second
  <2>4. first \o second \in Seq(LaneCalls)
        /\ Raise(ProcessFailed) \notin ToSet(first \o second)
    BY <2>3, CallsInTurn
  <2>5. QED BY <1>0, <2>1, <2>2, <2>4, OtherCallsKeepLaneInv
<1>5. ASSUME NEW elapsed \in 0 .. RecoveryWindows + 1, SubmitFrame(elapsed)
      PROVE  LaneInv'
  <2> DEFINE l == Windows(lane, elapsed)
             first == If(lane.backlog /\ ~l.backlog, Clear(QueueBacklog))
             second == If(l.degraded /\ ~lane.degraded, Raise(LaneDegraded))
  <2>1. /\ lane' = [lane EXCEPT !.slot = TRUE, !.skipped = l.skipped, !.bad = l.bad,
                                !.healthy = l.healthy, !.degraded = l.degraded,
                                !.backlog = l.backlog]
        /\ Idle("frames") /\ calls' = [calls EXCEPT !["frames"] = first \o second]
        /\ raised' = raised
    BY <1>5 DEF SubmitFrame, Plan
  <2> HIDE DEF l
  <2>2. lane'.failures = lane.failures /\ DOMAIN lane' = DOMAIN lane
    BY <1>0, <2>1
  <2>3. /\ first \in Seq(LaneCalls) /\ ToSet(first) \subseteq {Clear(QueueBacklog)}
        /\ second \in Seq(LaneCalls) /\ ToSet(second) \subseteq {Raise(LaneDegraded)}
    <3>1. Clear(QueueBacklog) \in LaneCalls /\ Raise(LaneDegraded) \in LaneCalls
      OBVIOUS
    <3>2. QED BY <3>1, CallsOfIf
  <2> HIDE DEF first, second
  <2>4. first \o second \in Seq(LaneCalls)
        /\ Raise(ProcessFailed) \notin ToSet(first \o second)
    BY <2>3, CallsInTurn
  <2>5. QED BY <1>0, <2>1, <2>2, <2>4, OtherCallsKeepLaneInv
<1>6. ASSUME NEW configured \in BOOLEAN, Swap(configured)
      PROVE  LaneInv'
  <2> DEFINE first == If(lane.backlog /\ ~configured, Clear(QueueBacklog))
  <2>1. /\ lane' = NewLane(configured, configured /\ lane.configured /\ lane.backlog)
        /\ calls["lane"] = <<>> /\ calls["reconfigure"] = <<>>
        /\ calls' = [calls EXCEPT !["reconfigure"] = first \o Recovered] /\ raised' = raised
    BY <1>6 DEF Swap, Plan, Idle, Drained
  <2>2. lane'.failures = 0 /\ DOMAIN lane' = DOMAIN lane
    BY <2>1 DEF NewLane, LaneInv
  <2>3. /\ first \in Seq(LaneCalls) /\ ToSet(first) \subseteq {Clear(QueueBacklog)}
        /\ Recovered \in Seq(LaneCalls)
        /\ ToSet(Recovered) = IF lane.failures = FailureLimit THEN {Clear(ProcessFailed)} ELSE {}
    <3>1. Clear(QueueBacklog) \in LaneCalls /\ Clear(ProcessFailed) \in LaneCalls
      OBVIOUS
    <3>2. QED BY <3>1, CallsOfIf DEF Recovered
  <2> HIDE DEF first
  <2>4. /\ first \o Recovered \in Seq(LaneCalls)
        /\ ToSet(first \o Recovered) = ToSet(first) \cup ToSet(Recovered)
    BY <2>3, CallsInTurn
  <2>5. calls' \in [Threads -> Seq(LaneCalls)] /\ calls'["reconfigure"] = first \o Recovered
        /\ \A t \in Threads : t # "reconfigure" => calls'[t] = calls[t]
    BY <1>0, <2>1, <2>4
  <2>6. \A t \in Threads : Raise(ProcessFailed) \notin ToSet(calls'[t])
    <3>1. Raise(ProcessFailed) \notin ToSet(first \o Recovered)
      BY <2>3, <2>4
    <3>2. \A t \in Threads : Raise(ProcessFailed) \notin ToSet(calls[t])
      BY <1>0, <2>1 DEF LaneInv
    <3>3. QED BY <2>5, <3>1, <3>2
  <2>7. ASSUME ProcessFailed \in raised'
        PROVE  Clear(ProcessFailed) \in ToSet(calls'["reconfigure"])
    <3>1. lane.failures = FailureLimit
      BY <1>0, <2>1, <2>7 DEF LaneInv
    <3>2. QED BY <2>3, <2>4, <2>5, <3>1
  <2>8. 0 \in 0 .. FailureLimit
    BY <1>0
  <2>9. QED BY <2>2, <2>5, <2>6, <2>7, <2>8 DEF LaneInv
<1>7. CASE UNCHANGED <<laneVars, registryVars>>
  <2>1. lane' = lane /\ calls' = calls /\ raised' = raised
    BY <1>7 DEF laneVars, registryVars
  <2>2. QED BY <1>0, <2>1, OtherCallsKeepLaneInv
<1>8. QED BY <1>1, <1>2, <1>3, <1>4, <1>5, <1>6, <1>7 DEF LaneNext

\* Once its threads have made their calls, no camera shows the alarm of a
\* failing detector unless the detector of its present lane keeps failing.
THEOREM FailureAlarmIsTrueAlways == LaneSpec => []FailureAlarmIsTrue
<1>1. LaneInv => FailureAlarmIsTrue
  <2>1. ToSet(<<>>) = {}
    BY DEF ToSet
  <2>2. QED BY <2>1 DEF LaneInv, FailureAlarmIsTrue, Idle, LaneThreads
<1>2. QED BY InitLaneInv, NextLaneInv, <1>1, PTL DEF LaneSpec

-----------------------------------------------------------------------------
(* The recent records of the log *)

LogRecords == [number : Nat, name : FileNames, level : {"info", "error"}]
RecentRecords == [sequence : Nat, number : Nat]

LogTypes ==
    /\ threadNames \in [LogThreads -> FileNames]
    /\ logRuntime \in [stopped : BOOLEAN, enqueued : Nat, overruns : Nat, quiet : BOOLEAN]
    /\ logQueue \in Seq(LogRecords)
    /\ recent \in [records : Seq(RecentRecords), next : Nat \ {0}]
    /\ reader \in [cursor : Nat, has : SUBSET Nat, told : BOOLEAN]

\* The records kept are the last ones, without gaps, and the reader is not
\* ahead of them.
RecentInv ==
    /\ Len(recent.records) < recent.next
    /\ \A i \in 1 .. Len(recent.records) :
            recent.records[i].sequence = recent.next - Len(recent.records) + i - 1
    /\ reader.cursor < recent.next

LogInv == LogTypes /\ RecentInv /\ CursorMissesNothing

LEMMA PutTypes ==
    ASSUME LogTypes, NEW name \in FileNames, NEW level \in {"info", "error"}, Put(name, level)
    PROVE  /\ logRuntime' \in [stopped : BOOLEAN, enqueued : Nat, overruns : Nat, quiet : BOOLEAN]
           /\ logQueue' \in Seq(LogRecords)
<1> DEFINE record == [number |-> logRuntime.enqueued + 1, name |-> name, level |-> level]
           full == Len(logQueue) = LogCapacity
           kept == IF full THEN Tail(logQueue) ELSE logQueue
<1>1. logRuntime \in [stopped : BOOLEAN, enqueued : Nat, overruns : Nat, quiet : BOOLEAN]
      /\ logQueue \in Seq(LogRecords)
  BY DEF LogTypes
<1>2. record \in LogRecords
  BY <1>1 DEF LogRecords
<1>3. kept \in Seq(LogRecords)
  <2>1. full => logQueue # <<>>
    BY LoggingAssumption
  <2>2. QED BY <1>1, <2>1
<1>4. \/ UNCHANGED <<logRuntime, logQueue>>
      \/ /\ logQueue' = Append(kept, record)
         /\ logRuntime' = [logRuntime EXCEPT !.enqueued = @ + 1,
                                             !.overruns = @ + (IF full THEN 1 ELSE 0)]
  BY DEF Put
<1> HIDE DEF record, kept
<1>5. logQueue' \in Seq(LogRecords)
  <2>1. Append(kept, record) \in Seq(LogRecords)
    BY <1>2, <1>3
  <2>2. logQueue' = logQueue \/ logQueue' = Append(kept, record)
    BY <1>4
  <2>3. QED BY <1>1, <2>1, <2>2
<1>6. logRuntime' \in [stopped : BOOLEAN, enqueued : Nat, overruns : Nat, quiet : BOOLEAN]
  <2>1. (IF full THEN 1 ELSE 0) \in Nat
    OBVIOUS
  <2> DEFINE more == IF full THEN 1 ELSE 0
  <2>2. more \in Nat
    BY <2>1
  <2> HIDE DEF more
  <2>3. logRuntime.enqueued + 1 \in Nat /\ logRuntime.overruns + more \in Nat
    BY <1>1, <2>2
  <2>4. [logRuntime EXCEPT !.enqueued = logRuntime.enqueued + 1,
                           !.overruns = logRuntime.overruns + more]
            \in [stopped : BOOLEAN, enqueued : Nat, overruns : Nat, quiet : BOOLEAN]
    BY <1>1, <2>3
  <2>5. QED BY <1>1, <1>4, <2>4 DEF more
<1>7. QED BY <1>5, <1>6

\* A step that leaves the recent records and their reader alone.
LEMMA OthersKeepLogInv ==
    ASSUME LogInv, UNCHANGED <<recent, reader>>,
           threadNames' \in [LogThreads -> FileNames],
           logRuntime' \in [stopped : BOOLEAN, enqueued : Nat, overruns : Nat, quiet : BOOLEAN],
           logQueue' \in Seq(LogRecords)
    PROVE  LogInv'
BY DEF LogInv, LogTypes, RecentInv, CursorMissesNothing

LEMMA InitLogInv == LoggingInit => LogInv
BY DEF LoggingInit, LogInv, LogTypes, RecentInv, CursorMissesNothing, FileNames

LEMMA WriteKeepsLogInv ==
    ASSUME LogInv, WriteRecord
    PROVE  LogInv'
<1> DEFINE r == recent.records
           record == Head(logQueue)
           kept == IF Len(r) = RecentCapacity THEN Tail(r) ELSE r
           new == [sequence |-> recent.next, number |-> record.number]
<1>1. /\ recent \in [records : Seq(RecentRecords), next : Nat \ {0}]
      /\ logQueue \in Seq(LogRecords) /\ reader.cursor \in Nat
      /\ r \in Seq(RecentRecords) /\ recent.next \in Nat \ {0} /\ Len(r) \in Nat
      /\ Len(r) < recent.next
      /\ \A i \in 1 .. Len(r) : r[i].sequence = recent.next - Len(r) + i - 1
      /\ reader.cursor < recent.next
  BY DEF LogInv, LogTypes, RecentInv
<1>2. /\ logQueue # <<>> /\ logQueue' = Tail(logQueue)
      /\ recent' = [records |-> Append(kept, new), next |-> recent.next + 1]
      /\ UNCHANGED <<threadNames, logRuntime, reader>>
  BY DEF WriteRecord, Stored
<1>3. record \in LogRecords /\ logQueue' \in Seq(LogRecords)
  BY <1>1, <1>2
<1>4. new \in RecentRecords /\ new.sequence = recent.next
  BY <1>1, <1>3 DEF LogRecords, RecentRecords
<1>5. kept \in Seq(RecentRecords) /\ Len(kept) \in Nat /\ Len(kept) <= Len(r)
      /\ \A i \in 1 .. Len(kept) : kept[i].sequence = recent.next - Len(kept) + i - 1
  <2>1. CASE Len(r) = RecentCapacity
    <3>1. r # <<>> /\ Len(r) > 0
      BY <1>1, <2>1, LoggingAssumption
    <3>2. /\ Tail(r) \in Seq(RecentRecords) /\ Len(Tail(r)) = Len(r) - 1
          /\ \A i \in 1 .. Len(Tail(r)) : Tail(r)[i] = r[i + 1]
      BY <1>1, <3>1, HeadTailProperties
    <3>3. ASSUME NEW i \in 1 .. Len(Tail(r))
          PROVE  Tail(r)[i].sequence = recent.next - Len(Tail(r)) + i - 1
      <4>1. i + 1 \in 1 .. Len(r)
        BY <1>1, <3>1, <3>2
      <4>2. Tail(r)[i].sequence = recent.next - Len(r) + (i + 1) - 1
        BY <1>1, <3>2, <4>1
      <4>3. QED BY <1>1, <3>2, <4>2
    <3>4. QED BY <1>1, <2>1, <3>1, <3>2, <3>3
  <2>2. CASE Len(r) # RecentCapacity
    BY <1>1, <2>2
  <2>3. QED BY <2>1, <2>2
<1> HIDE DEF r, kept, new, record
<1> DEFINE s == Append(kept, new)
<1>6. /\ s \in Seq(RecentRecords) /\ Len(s) = Len(kept) + 1
      /\ \A i \in 1 .. Len(kept) : s[i] = kept[i]
      /\ s[Len(kept) + 1] = new
  BY <1>4, <1>5
<1>7. ASSUME NEW i \in 1 .. Len(s)
      PROVE  s[i].sequence = (recent.next + 1) - Len(s) + i - 1
  <2>1. CASE i = Len(s)
    <3>1. s[i].sequence = recent.next
      BY <1>4, <1>6, <2>1
    <3>2. QED BY <1>1, <1>5, <1>6, <2>1, <3>1
  <2>2. CASE i # Len(s)
    <3>1. i \in 1 .. Len(kept)
      BY <1>5, <1>6, <2>2
    <3>2. s[i].sequence = recent.next - Len(kept) + i - 1
      BY <1>5, <1>6, <3>1
    <3>3. QED BY <1>1, <1>5, <1>6, <3>1, <3>2
  <2>3. QED BY <2>1, <2>2
<1>8. recent'.records = s /\ recent'.next = recent.next + 1
  BY <1>2
<1> HIDE DEF s
<1>9. LogTypes'
  <2>1. recent' \in [records : Seq(RecentRecords), next : Nat \ {0}]
    <3>1. recent' = [records |-> s, next |-> recent.next + 1] /\ recent.next + 1 \in Nat \ {0}
      BY <1>1, <1>2 DEF s
    <3>2. QED BY <1>6, <3>1
  <2>2. QED BY <1>2, <1>3, <2>1 DEF LogTypes, LogInv
<1>10. RecentInv'
  <2>1. Len(s) < recent.next + 1
    BY <1>1, <1>5, <1>6
  <2>2. reader'.cursor < recent.next + 1
    BY <1>1, <1>2
  <2>3. QED BY <1>7, <1>8, <2>1, <2>2 DEF RecentInv
<1>11. CursorMissesNothing'
  BY <1>2 DEF LogInv, CursorMissesNothing
<1>12. QED BY <1>9, <1>10, <1>11 DEF LogInv

\* What follows the cursor up to a record that a query returns is returned.
LEMMA QueriedWithoutGaps ==
    ASSUME NEW cursor, NEW k \in Queried(cursor), NEW j \in After(cursor), j <= k,
           recent.records \in Seq(RecentRecords)
    PROVE  j \in Queried(cursor)
<1> DEFINE Upto(i) == {x \in After(cursor) : x <= i}
<1>0. DOMAIN recent.records = 1 .. Len(recent.records) /\ Len(recent.records) \in Nat
  BY LenProperties
<1>1. IsFiniteSet(1 .. Len(recent.records))
  BY <1>0, FS_Interval
<1>2. k \in After(cursor) /\ Cardinality(Upto(k)) <= QueryLimit
  BY DEF Queried
<1>3. After(cursor) \subseteq 1 .. Len(recent.records)
  BY <1>0 DEF After
<1>4. j \in Int /\ k \in Int /\ \A x \in After(cursor) : x \in Int
  BY <1>0, <1>2, <1>3
<1>5. Upto(j) \subseteq Upto(k) /\ Upto(k) \subseteq 1 .. Len(recent.records)
  BY <1>3, <1>4
<1>6. IsFiniteSet(Upto(k))
  BY <1>1, <1>5, FS_Subset
<1>7. IsFiniteSet(Upto(j)) /\ Cardinality(Upto(j)) <= Cardinality(Upto(k))
  BY <1>5, <1>6, FS_Subset
<1>8. Cardinality(Upto(j)) \in Nat /\ Cardinality(Upto(k)) \in Nat
  BY <1>6, <1>7, FS_CardinalityType
<1>9. Cardinality(Upto(j)) <= QueryLimit
  BY <1>2, <1>7, <1>8, LoggingAssumption
<1>10. QED BY <1>9 DEF Queried

LEMMA FollowKeepsLogInv ==
    ASSUME LogInv, Follow
    PROVE  LogInv'
<1> DEFINE r == recent.records
           got == {r[i].sequence : i \in Queried(reader.cursor)}
<1>1. /\ reader \in [cursor : Nat, has : SUBSET Nat, told : BOOLEAN]
      /\ r \in Seq(RecentRecords) /\ recent.next \in Nat \ {0} /\ Len(r) \in Nat
      /\ Len(r) < recent.next /\ DOMAIN r = 1 .. Len(r)
      /\ \A i \in 1 .. Len(r) : r[i].sequence = recent.next - Len(r) + i - 1
      /\ reader.cursor < recent.next
      /\ Queried(reader.cursor) \subseteq After(reader.cursor)
  BY DEF LogInv, LogTypes, RecentInv, Queried
<1>2. PICK cursor \in IF got = {} THEN {reader.cursor} ELSE {n \in got : \A m \in got : m <= n} :
          reader' = [cursor |-> cursor, has |-> reader.has \union got,
                     told |-> reader.told \/ Gap(reader.cursor)]
  BY DEF Follow
<1>3. UNCHANGED <<threadNames, logRuntime, logQueue, recent>>
  BY DEF Follow
<1>4. After(reader.cursor) = {i \in 1 .. Len(r) : r[i].sequence > reader.cursor}
  BY <1>1 DEF After
<1>5. \A n \in got : n \in Nat /\ n < recent.next
  <2> SUFFICES ASSUME NEW i \in Queried(reader.cursor)
               PROVE  r[i].sequence \in Nat /\ r[i].sequence < recent.next
    OBVIOUS
  <2>1. i \in 1 .. Len(r)
    BY <1>1, <1>4
  <2>2. r[i].sequence = recent.next - Len(r) + i - 1
    BY <1>1, <2>1
  <2>3. QED BY <1>1, <2>1, <2>2
<1>6. cursor \in Nat /\ cursor < recent.next
  BY <1>1, <1>2, <1>5
<1>7. ASSUME ~reader.told, ~Gap(reader.cursor), NEW m \in 1 .. cursor, m > reader.cursor
      PROVE  m \in got
  <2>1. got # {} /\ cursor \in got
    <3>1. reader.cursor \in Nat
      BY <1>1
    <3>2. cursor # reader.cursor
      BY <1>6, <1>7, <3>1
    <3>3. QED BY <1>2, <3>2
  <2>2. PICK k \in Queried(reader.cursor) : cursor = r[k].sequence
    BY <2>1
  <2>3. k \in 1 .. Len(r) /\ cursor = recent.next - Len(r) + k - 1
    BY <1>1, <1>4, <2>2
  <2>4. r # <<>> /\ r[1].sequence <= reader.cursor + 1
    <3>1. 1 \in 1 .. Len(r) /\ r # <<>>
      BY <1>1, <2>3
    <3>2. r[1].sequence \in Nat
      <4>1. r[1].sequence = recent.next - Len(r) + 1 - 1
        BY <1>1, <3>1
      <4>2. QED BY <1>1, <4>1
    <3>3. ~(r[1].sequence > reader.cursor + 1)
      BY <1>7, <3>1 DEF Gap, First
    <3>4. QED BY <1>1, <3>1, <3>2, <3>3
  <2>5. recent.next - Len(r) <= reader.cursor + 1
    <3>1. 1 \in 1 .. Len(r)
      BY <1>1, <2>3
    <3>2. r[1].sequence = recent.next - Len(r) + 1 - 1
      BY <1>1, <3>1
    <3>3. QED BY <1>1, <2>4, <3>2
  <2> DEFINE j == m - recent.next + Len(r) + 1
  <2>6. j \in 1 .. Len(r) /\ j <= k /\ recent.next - Len(r) + j - 1 = m
    <3>1. /\ recent.next \in Nat /\ Len(r) \in Nat /\ cursor \in Nat /\ reader.cursor \in Nat
          /\ m \in Int /\ m <= cursor /\ m > reader.cursor /\ k \in Int /\ k <= Len(r)
      BY <1>1, <1>6, <1>7, <2>3
    <3>2. recent.next - Len(r) <= m
      BY <2>5, <3>1
    <3>3. m <= recent.next - Len(r) + k - 1
      BY <2>3, <3>1
    <3> DEFINE next == recent.next
               length == Len(r)
    <3>4. /\ next \in Nat /\ length \in Nat /\ m \in Int /\ k \in Int /\ k <= length
          /\ next - length <= m /\ m <= next - length + k - 1
      BY <3>1, <3>2, <3>3
    <3>5. j = m - next + length + 1
      OBVIOUS
    <3> HIDE DEF next, length, j
    <3>6. j \in 1 .. length /\ j <= k /\ next - length + j - 1 = m
      BY <3>4, <3>5
    <3>7. QED BY <3>6 DEF next, length
  <2>7. r[j].sequence = m
    BY <1>1, <2>6
  <2>8. j \in After(reader.cursor)
    BY <1>4, <1>7, <2>6, <2>7
  <2> HIDE DEF j
  <2>9. j \in Queried(reader.cursor)
    BY <1>1, <2>2, <2>6, <2>8, QueriedWithoutGaps
  <2>10. QED BY <2>7, <2>9
<1> HIDE DEF got
<1>8. reader' \in [cursor : Nat, has : SUBSET Nat, told : BOOLEAN]
  <2>1. got \subseteq Nat
    BY <1>5
  <2>2. Gap(reader.cursor) \in BOOLEAN
    BY DEF Gap
  <2>3. reader.has \union got \in SUBSET Nat /\ (reader.told \/ Gap(reader.cursor)) \in BOOLEAN
    BY <1>1, <2>1, <2>2
  <2>4. QED BY <1>2, <1>6, <2>3
<1>9. CursorMissesNothing'
  <2>1. reader'.cursor = cursor /\ reader'.has = reader.has \union got
        /\ (reader'.told <=> reader.told \/ Gap(reader.cursor))
    BY <1>2
  <2>2. ASSUME ~reader'.told, NEW m \in 1 .. cursor
        PROVE  m \in reader.has \union got
    <3>1. ~reader.told /\ ~Gap(reader.cursor)
      BY <2>1, <2>2
    <3>2. CASE m > reader.cursor
      BY <1>7, <3>1, <3>2
    <3>3. CASE ~(m > reader.cursor)
      <4>1. m \in 1 .. reader.cursor
        BY <1>1, <3>3
      <4>2. QED BY <3>1, <4>1 DEF LogInv, CursorMissesNothing
    <3>4. QED BY <3>2, <3>3
  <2>3. QED BY <2>1, <2>2 DEF CursorMissesNothing
<1>10. LogTypes'
  BY <1>3, <1>8 DEF LogTypes, LogInv
<1>11. RecentInv'
  <2>1. reader'.cursor = cursor
    BY <1>2
  <2>2. QED BY <1>3, <1>6, <2>1 DEF LogInv, RecentInv
<1>12. QED BY <1>9, <1>10, <1>11 DEF LogInv

LEMMA NextLogInv == LogInv /\ [LoggingNext]_loggingVars => LogInv'
<1> SUFFICES ASSUME LogInv, [LoggingNext]_loggingVars PROVE LogInv'
  OBVIOUS
<1>0. /\ LogTypes /\ threadNames \in [LogThreads -> FileNames] /\ logQueue \in Seq(LogRecords)
      /\ logRuntime \in [stopped : BOOLEAN, enqueued : Nat, overruns : Nat, quiet : BOOLEAN]
      /\ Unregistered \in FileNames /\ LogNames \subseteq FileNames
  BY DEF LogInv, LogTypes, FileNames
<1>1. ASSUME NEW t \in LogThreads, NEW n \in LogNames, Register(t, n)
      PROVE  LogInv'
  <2>1. UNCHANGED <<recent, reader>> /\ threadNames' \in [LogThreads -> FileNames]
    BY <1>0, <1>1 DEF Register
  <2>2. \/ Put(Unregistered, "error") \/ Put(n, "info")
    BY <1>1 DEF Register
  <2>3. /\ logRuntime' \in [stopped : BOOLEAN, enqueued : Nat, overruns : Nat, quiet : BOOLEAN]
        /\ logQueue' \in Seq(LogRecords)
    BY <1>0, <2>2, PutTypes
  <2>4. QED BY <2>1, <2>3, OthersKeepLogInv
<1>2. ASSUME NEW t \in LogThreads, Unregister(t) \/ \E level \in {"info", "error"} : Log(t, level)
      PROVE  LogInv'
  <2>1. UNCHANGED <<recent, reader>> /\ threadNames' \in [LogThreads -> FileNames]
    BY <1>0, <1>2 DEF Unregister, Log
  <2>2. \E level \in {"info", "error"} : Put(threadNames[t], level)
    BY <1>2 DEF Unregister, Log
  <2>3. threadNames[t] \in FileNames
    BY <1>0
  <2>4. /\ logRuntime' \in [stopped : BOOLEAN, enqueued : Nat, overruns : Nat, quiet : BOOLEAN]
        /\ logQueue' \in Seq(LogRecords)
    BY <1>0, <2>2, <2>3, PutTypes
  <2>5. QED BY <2>1, <2>4, OthersKeepLogInv
<1>3. CASE (\E quiet \in BOOLEAN : SetMinimumLevel(quiet)) \/ ShutdownLogging \/ ClockMoves
           \/ SetRetentionDays \/ UNCHANGED loggingVars
  <2>1. UNCHANGED <<threadNames, recent, reader>>
    BY <1>3 DEF SetMinimumLevel, ShutdownLogging, ClockMoves, SetRetentionDays, loggingVars
  <2>2. logRuntime' \in [stopped : BOOLEAN, enqueued : Nat, overruns : Nat, quiet : BOOLEAN]
    <3>1. CASE ShutdownLogging
      <4>1. PICK more \in {0, 1} :
                logRuntime' = [logRuntime EXCEPT !.stopped = TRUE,
                                                 !.overruns = logRuntime.overruns + more]
        <5> DEFINE more == IF Len(logQueue) = LogCapacity THEN 1 ELSE 0
        <5>1. more \in {0, 1}
          OBVIOUS
        <5>2. logRuntime' = [logRuntime EXCEPT !.stopped = TRUE,
                                               !.overruns = logRuntime.overruns + more]
          BY <1>0, <3>1 DEF ShutdownLogging
        <5>3. QED BY <5>1, <5>2
      <4>2. logRuntime.overruns + more \in Nat
        BY <1>0
      <4>3. QED BY <1>0, <4>1, <4>2
    <3>2. CASE ~ShutdownLogging
      BY <1>0, <1>3, <3>2 DEF SetMinimumLevel, ClockMoves, SetRetentionDays, loggingVars
    <3>3. QED BY <3>1, <3>2
  <2>3. logQueue' \in Seq(LogRecords)
    <3>1. logQueue' = logQueue \/ (logQueue' = Tail(logQueue) /\ Len(logQueue) = LogCapacity)
      BY <1>3 DEF SetMinimumLevel, ShutdownLogging, ClockMoves, SetRetentionDays, loggingVars
    <3>2. Len(logQueue) = LogCapacity => logQueue # <<>>
      BY LoggingAssumption
    <3>3. QED BY <1>0, <3>1, <3>2
  <2>4. QED BY <1>0, <2>1, <2>2, <2>3, OthersKeepLogInv
<1>4. QED
  BY <1>1, <1>2, <1>3, WriteKeepsLogInv, FollowKeepsLogInv DEF LoggingNext

\* Who follows the log has every record up to its cursor or was told of a gap.
THEOREM CursorMissesNothingAlways == LoggingSpec => []CursorMissesNothing
<1>1. LogInv => CursorMissesNothing
  BY DEF LogInv
<1>2. QED BY InitLogInv, NextLogInv, <1>1, PTL DEF LoggingSpec

-----------------------------------------------------------------------------
(* The IPC server *)

\* The places of a list that hold one of some values.
Places(list, Values) == {i \in DOMAIN list : list[i] \in Values}

LEMMA PlacesAreFinite ==
    ASSUME NEW S, NEW list \in Seq(S), NEW Values
    PROVE  /\ IsFiniteSet(Places(list, Values))
           /\ Cardinality(Places(list, Values)) \in Nat
           /\ (\E i \in DOMAIN list : list[i] \in Values) => Cardinality(Places(list, Values)) > 0
<1>1. IsFiniteSet(1 .. Len(list))
  BY FS_Interval
<1>2. Places(list, Values) \in SUBSET (1 .. Len(list))
  BY DEF Places
<1>3. IsFiniteSet(Places(list, Values))
  BY <1>1, <1>2, FS_Subset
<1>4. Cardinality(Places(list, Values)) \in Nat
  BY <1>3, FS_CardinalityType
<1>5. Cardinality(Places(list, Values)) = 0 => Places(list, Values) = {}
  BY <1>3, FS_EmptySet
<1>6. (\E i \in DOMAIN list : list[i] \in Values) => Places(list, Values) # {}
  BY DEF Places
<1> QED BY <1>3, <1>4, <1>5, <1>6

LEMMA PlacesAppended ==
    ASSUME NEW S, NEW list \in Seq(S), NEW e \in S, NEW Values
    PROVE  Cardinality(Places(Append(list, e), Values)) =
           Cardinality(Places(list, Values)) + (IF e \in Values THEN 1 ELSE 0)
<1> DEFINE n == Len(list) + 1
<1>1. /\ DOMAIN Append(list, e) = DOMAIN list \cup {n} /\ n \notin DOMAIN list
      /\ \A i \in DOMAIN list : Append(list, e)[i] = list[i]
      /\ Append(list, e)[n] = e
  OBVIOUS
<1> HIDE DEF n
<1>2. IsFiniteSet(Places(list, Values)) /\ Cardinality(Places(list, Values)) \in Nat
  BY PlacesAreFinite
<1>3. n \notin Places(list, Values)
  BY <1>1 DEF Places
<1>4. CASE e \in Values
  <2>1. Places(Append(list, e), Values) = Places(list, Values) \cup {n}
    BY <1>1, <1>4 DEF Places
  <2>2. Cardinality(Places(list, Values) \cup {n}) = Cardinality(Places(list, Values)) + 1
    BY <1>2, <1>3, FS_AddElement
  <2> QED BY <1>4, <2>1, <2>2
<1>5. CASE e \notin Values
  <2>1. Places(Append(list, e), Values) = Places(list, Values)
    BY <1>1, <1>5 DEF Places
  <2> QED BY <1>2, <1>5, <2>1
<1> QED BY <1>4, <1>5

LEMMA PlacesOfTail ==
    ASSUME NEW S, NEW list \in Seq(S), list # <<>>, NEW Values
    PROVE  Cardinality(Places(Tail(list), Values)) =
           Cardinality(Places(list, Values)) - (IF Head(list) \in Values THEN 1 ELSE 0)
<1> DEFINE rest == Places(list, Values) \ {1}
           moved == Places(Tail(list), Values)
           earlier == [i \in rest |-> i - 1]
<1>1. /\ Tail(list) \in Seq(S) /\ DOMAIN list = 1 .. Len(list) /\ Len(list) \in Nat \ {0}
      /\ DOMAIN Tail(list) = 1 .. Len(list) - 1
      /\ \A i \in 1 .. Len(list) - 1 : Tail(list)[i] = list[i + 1]
      /\ Head(list) = list[1]
  OBVIOUS
<1>2. IsFiniteSet(Places(list, Values)) /\ Cardinality(Places(list, Values)) \in Nat
  BY PlacesAreFinite
<1>3. IsFiniteSet(rest)
  BY <1>2, FS_RemoveElement
<1>4. ExistsBijection(rest, moved)
  <2>1. \A i \in rest : i \in Int /\ i - 1 \in moved
    BY <1>1 DEF Places
  <2>2. earlier \in [rest -> moved]
    BY <2>1
  <2>3. \A i, j \in rest : earlier[i] = earlier[j] => i = j
    BY <2>1
  <2>4. \A k \in moved : k + 1 \in rest /\ k + 1 - 1 = k
    BY <1>1 DEF Places
  <2>5. ASSUME NEW k \in moved PROVE \E i \in rest : earlier[i] = k
    <3>1. k + 1 \in rest /\ earlier[k + 1] = k
      BY <2>4
    <3> HIDE DEF rest, earlier
    <3> QED BY <3>1
  <2>6. earlier \in Bijection(rest, moved)
    BY <2>2, <2>3, <2>5, Zenon DEF Bijection, Injection, Surjection, IsInjective
  <2> QED BY <2>6 DEF ExistsBijection
<1>5. Cardinality(moved) = Cardinality(rest)
  BY <1>3, <1>4, FS_Bijection
<1>6. 1 \in Places(list, Values) <=> Head(list) \in Values
  BY <1>1 DEF Places
<1>7. Cardinality(rest) =
          IF 1 \in Places(list, Values) THEN Cardinality(Places(list, Values)) - 1
          ELSE Cardinality(Places(list, Values))
  BY <1>2, FS_RemoveElement
<1> QED BY <1>2, <1>5, <1>6, <1>7

Requests == [connection : Connections, id : RequestIds, class : Classes]
Events == [kind : {"response"}, connection : Connections] \cup [kind : {"stop", "finish", "drain"}]

Servers == [started : BOOLEAN, stopping : BOOLEAN, accepting : BOOLEAN]
Callers == [at : {"outside", "starting", "stopping", "closing", "joining", "dozing", "asleep"},
            undoing : BOOLEAN, result : {"none", "done", "failed", "timeout"}]
Loops == [phase : {"off", "spawned", "listening", "running", "ended"},
          startup : {"waiting", "ready", "error"}, closed : BOOLEAN,
          request : Requests \cup {NoCommand}, draining : BOOLEAN, finishing : BOOLEAN]
Clients == [state : {"absent", "open", "gone"}, recent : Seq(RequestIds), inFlight : Nat,
            responses : Nat, pushes : Seq(Keys), active : {"none", "response", "push"},
            closing : BOOLEAN]
CommandThreads == [at : {"handling"}, command : Requests]
           \cup [at : {"absent", "waiting", "done"}, command : {NoCommand}]
Ingresses == [queue : Seq(Keys), flagged : BOOLEAN, posting : BOOLEAN]

IpcTypes ==
    /\ server \in Servers /\ caller \in Callers /\ loop \in Loops
    /\ posted \in Seq(Events) /\ clients \in [Connections -> Clients]
    /\ commands \in [Classes -> Seq(Requests)] /\ workers \in [Workers -> CommandThreads]
    /\ ingress \in Ingresses

\* Every connection that is not gone, also one that has not come yet, is owed
\* what is queued, executed and posted for it.
Owed == \A c \in Connections : clients[c].state # "gone" => OwedTo(c)

AbsentIsFresh == \A c \in Connections : clients[c].state = "absent" => clients[c].inFlight = 0

OpenWhileRunning == loop.phase # "running" => \A c \in Connections : clients[c].state # "open"

\* Between the two halves of handle_frame nothing happens to the connection.
InHandIsOpen ==
    loop.request # NoCommand =>
        /\ loop.phase = "running" /\ ~loop.draining
        /\ clients[loop.request.connection].state = "open"
        /\ clients[loop.request.connection].inFlight < MaximumInFlight

EndedIsEmpty ==
    \A w \in Workers : workers[w].at \in {"absent", "done"} =>
        commands[ClassOf(w)] = <<>> /\ ~server.accepting

OffIsAbsent == loop.phase = "off" => \A w \in Workers : workers[w].at = "absent"

PushesAreDrained ==
    /\ ingress.queue # <<>> => ingress.flagged
    /\ ingress.flagged =>
           \/ ingress.posting \/ loop.draining \/ loop.phase = "ended"
           \/ \E i \in DOMAIN posted : posted[i].kind = "drain"

IpcInv ==
    /\ IpcTypes /\ Owed /\ AbsentIsFresh /\ OpenWhileRunning /\ InHandIsOpen
    /\ EndedIsEmpty /\ OffIsAbsent /\ PushesAreDrained

LEMMA NoCommandIsNone == NoCommand \notin Requests /\ NoCommand.connection \notin Connections
BY IpcAssumption DEF NoCommand, Requests

LEMMA WorkersAreFinite == IsFiniteSet(Workers)
BY IpcAssumption, FS_Singleton, FS_Union DEF Workers

\* What is queued, executed and posted for a connection, as places of lists.
OfConnection(c) == {request \in Requests : request.connection = c}
ResponsesTo(c) == {event \in Events : event.kind = "response" /\ event.connection = c}

LEMMA OwedAsPlaces ==
    ASSUME IpcTypes, NEW c \in Connections
    PROVE  /\ \A class \in Classes :
                 InQueue(class, c) = Places(commands[class], OfConnection(c))
           /\ InPost(c) = Places(posted, ResponsesTo(c))
<1>1. ASSUME NEW class \in Classes
      PROVE  InQueue(class, c) = Places(commands[class], OfConnection(c))
  <2>1. commands[class] \in Seq(Requests)
    BY DEF IpcTypes
  <2>2. \A i \in DOMAIN commands[class] : commands[class][i] \in Requests
    BY <2>1
  <2> QED BY <2>2 DEF InQueue, Places, OfConnection
<1>2. \A i \in DOMAIN posted : posted[i] \in Events
  BY DEF IpcTypes
<1> QED BY <1>1, <1>2 DEF InPost, Places, ResponsesTo

LEMMA OwedIsCounted ==
    ASSUME IpcTypes, NEW c \in Connections
    PROVE  /\ \A class \in Classes : Cardinality(InQueue(class, c)) \in Nat
           /\ IsFiniteSet(InHand(c)) /\ Cardinality(InHand(c)) \in Nat
           /\ Cardinality(InPost(c)) \in Nat
<1>1. ASSUME NEW class \in Classes
      PROVE  Cardinality(InQueue(class, c)) \in Nat
  <2>1. commands[class] \in Seq(Requests)
    BY DEF IpcTypes
  <2> QED BY <2>1, OwedAsPlaces, PlacesAreFinite
<1>2. InHand(c) \in SUBSET Workers
  BY DEF InHand
<1>3. IsFiniteSet(InHand(c))
  BY <1>2, WorkersAreFinite, FS_Subset
<1>4. Cardinality(InHand(c)) \in Nat
  BY <1>3, FS_CardinalityType
<1>5. Cardinality(InPost(c)) \in Nat
  BY OwedAsPlaces, PlacesAreFinite DEF IpcTypes
<1> QED BY <1>1, <1>3, <1>4, <1>5

\* What a helper of a connection does to it: it ends, or its state and its
\* requests in flight stay.
Kept(old, new) == new.state = "gone" \/ (new.state = old.state /\ new.inFlight = old.inFlight)

LEMMA GoneIsClient == Gone \in Clients /\ Absent \in Clients /\ Gone.state = "gone"
BY EmptySeq DEF Gone, Absent, Clients

LEMMA PumpedKeeps ==
    ASSUME NEW x \in Clients
    PROVE  Pumped(x) \in Clients /\ Kept(x, Pumped(x))
<1>1. CASE x.active # "none" \/ x.state # "open"
  BY <1>1 DEF Pumped, Kept
<1>2. CASE ~(x.active # "none" \/ x.state # "open") /\ x.responses > 0
  <2>1. x.responses - 1 \in Nat
    BY <1>2 DEF Clients
  <2>2. Pumped(x) = [x EXCEPT !.responses = x.responses - 1, !.active = "response"]
    BY <1>2 DEF Pumped
  <2> QED BY <2>1, <2>2 DEF Clients, Kept
<1>3. CASE ~(x.active # "none" \/ x.state # "open") /\ ~(x.responses > 0) /\ x.pushes # <<>>
  <2>1. Tail(x.pushes) \in Seq(Keys)
    BY <1>3 DEF Clients
  <2>2. Pumped(x) = [x EXCEPT !.pushes = Tail(x.pushes), !.active = "push"]
    BY <1>3 DEF Pumped
  <2> QED BY <2>1, <2>2 DEF Clients, Kept
<1>4. CASE ~(x.active # "none" \/ x.state # "open") /\ ~(x.responses > 0) /\ ~(x.pushes # <<>>)
  <2>1. Pumped(x) \in {Gone, x}
    BY <1>4 DEF Pumped
  <2> QED BY <2>1, GoneIsClient DEF Kept
<1> QED BY <1>1, <1>2, <1>3, <1>4

LEMMA RespondedKeeps ==
    ASSUME NEW x \in Clients, NEW closing \in BOOLEAN
    PROVE  Responded(x, closing) \in Clients /\ Kept(x, Responded(x, closing))
<1>1. PICK y : y = [x EXCEPT !.responses = x.responses + 1, !.closing = x.closing \/ closing]
  OBVIOUS
<1>2. x.responses + 1 \in Nat /\ (x.closing \/ closing) \in BOOLEAN
  BY DEF Clients
<1>3. y \in Clients /\ y.state = x.state /\ y.inFlight = x.inFlight
  BY <1>1, <1>2 DEF Clients
<1>4. Responded(x, closing) \in {Gone, Pumped(y)}
  BY <1>1 DEF Responded
<1> QED BY <1>3, <1>4, GoneIsClient, PumpedKeeps DEF Kept

LEMMA PushedKeeps ==
    ASSUME NEW x \in Clients, NEW key \in Keys
    PROVE  Pushed(x, key) \in Clients /\ Kept(x, Pushed(x, key))
<1>1. PICK y : y = [x EXCEPT !.pushes = Append(x.pushes, key)]
  OBVIOUS
<1>2. Append(x.pushes, key) \in Seq(Keys)
  BY DEF Clients
<1>3. y \in Clients /\ y.state = x.state /\ y.inFlight = x.inFlight
  BY <1>1, <1>2 DEF Clients
<1>4. Pushed(x, key) \in {x, Pumped(x), Pumped(y)}
  BY <1>1 DEF Pushed
<1> QED BY <1>3, <1>4, PumpedKeeps DEF Kept

LEMMA PublishedKeeps ==
    ASSUME clients \in [Connections -> Clients], NEW key \in Keys
    PROVE  /\ PublishedTo(key) \in [Connections -> Clients]
           /\ \A c \in Connections : Kept(clients[c], PublishedTo(key)[c])
<1>1. \A c \in Connections :
          Pushed(clients[c], key) \in Clients /\ Kept(clients[c], Pushed(clients[c], key))
  BY PushedKeeps
<1> QED BY <1>1 DEF PublishedTo

\* The connections of a step that neither queues, takes, executes nor posts.
LEMMA OwedStays ==
    ASSUME IpcTypes, Owed, UNCHANGED <<posted, commands, workers>>,
           \A c \in Connections :
               \/ clients'[c].state = "gone"
               \/ clients[c].state # "gone" /\ clients'[c].inFlight = clients[c].inFlight
    PROVE  Owed'
<1> SUFFICES ASSUME NEW c \in Connections, clients'[c].state # "gone"
             PROVE  OwedTo(c)'
  BY DEF Owed
<1>1. OwedTo(c) /\ clients'[c].inFlight = clients[c].inFlight
  BY DEF Owed
<1>2. /\ InQueue("control", c)' = InQueue("control", c) /\ InQueue("query", c)' = InQueue("query", c)
      /\ InHand(c)' = InHand(c) /\ InPost(c)' = InPost(c)
  BY DEF InQueue, InHand, InPost
<1> QED BY <1>1, <1>2 DEF OwedTo

\* Steps that touch nothing but the connections, which end, stay as they are or
\* come from nowhere, and the loop's other fields.
ClientsOnly ==
    /\ UNCHANGED <<posted, commands, workers, ingress>>
    /\ server'.accepting = server.accepting
    /\ loop'.phase = loop.phase /\ loop'.draining = loop.draining
    /\ \A c \in Connections :
           \/ clients'[c].state = "gone"
           \/ clients[c].state # "gone" /\ clients'[c].inFlight = clients[c].inFlight
    /\ \A c \in Connections : clients'[c].state = "absent" => clients[c].state = "absent"
    /\ loop.phase # "running" =>
           \A c \in Connections : clients'[c].state = "open" => clients[c].state = "open"

LEMMA ClientsOnlyKeeps ==
    ASSUME IpcInv, IpcTypes', ClientsOnly, InHandIsOpen'
    PROVE  IpcInv'
<1>1. Owed'
  BY OwedStays DEF IpcInv, ClientsOnly
<1>2. AbsentIsFresh'
  BY DEF IpcInv, ClientsOnly, AbsentIsFresh, IpcTypes, Clients
<1>3. OpenWhileRunning'
  BY DEF IpcInv, ClientsOnly, OpenWhileRunning
<1>4. EndedIsEmpty' /\ OffIsAbsent' /\ PushesAreDrained'
  BY DEF IpcInv, ClientsOnly, EndedIsEmpty, OffIsAbsent, PushesAreDrained
<1> QED BY <1>1, <1>2, <1>3, <1>4 DEF IpcInv

\* Nothing is owed to a connection that has not come yet.
LEMMA AbsentIsOwedNothing ==
    ASSUME IpcInv, NEW c \in Connections, clients[c].state = "absent"
    PROVE  /\ \A class \in Classes : InQueue(class, c) = {}
           /\ InHand(c) = {} /\ InPost(c) = {}
<1>1. OwedTo(c) /\ clients[c].inFlight = 0
  BY DEF IpcInv, Owed, AbsentIsFresh
<1>2. /\ Cardinality(InQueue("control", c)) \in Nat /\ Cardinality(InQueue("query", c)) \in Nat
      /\ Cardinality(InHand(c)) \in Nat /\ Cardinality(InPost(c)) \in Nat
  BY OwedIsCounted DEF IpcInv, Classes
<1>3. /\ Cardinality(InQueue("control", c)) = 0 /\ Cardinality(InQueue("query", c)) = 0
      /\ Cardinality(InHand(c)) = 0 /\ Cardinality(InPost(c)) = 0
  BY <1>1, <1>2 DEF OwedTo
<1>4. /\ \A class \in Classes : IsFiniteSet(InQueue(class, c))
      /\ IsFiniteSet(InHand(c)) /\ IsFiniteSet(InPost(c))
  <2>1. ASSUME NEW class \in Classes PROVE IsFiniteSet(InQueue(class, c))
    <3>1. commands[class] \in Seq(Requests)
      BY DEF IpcInv, IpcTypes
    <3> QED BY <3>1, OwedAsPlaces, PlacesAreFinite DEF IpcInv
  <2>2. IsFiniteSet(InPost(c))
    BY OwedAsPlaces, PlacesAreFinite DEF IpcInv, IpcTypes
  <2> QED BY <2>1, <2>2, OwedIsCounted DEF IpcInv
<1>5. \A S : IsFiniteSet(S) => (Cardinality(S) = 0 <=> S = {})
  BY FS_EmptySet
<1> QED BY <1>3, <1>4, <1>5 DEF Classes

LEMMA SpawnedKeeps == IpcInv /\ Spawned => IpcInv'
<1> SUFFICES ASSUME IpcInv, Spawned PROVE IpcInv'
  OBVIOUS
<1>1. IpcTypes'
  BY DEF IpcInv, IpcTypes, Spawned, Loops
<1>2. Owed'
  BY OwedStays DEF IpcInv, Spawned
<1>3. loop'.phase = "listening" /\ loop'.request = loop.request /\ loop'.draining = loop.draining
  BY DEF IpcInv, IpcTypes, Spawned, Loops
<1>4. loop.request = NoCommand
  BY DEF IpcInv, InHandIsOpen, Spawned
<1> QED BY <1>1, <1>2, <1>3, <1>4 DEF IpcInv, Spawned, AbsentIsFresh, OpenWhileRunning,
        InHandIsOpen, EndedIsEmpty, OffIsAbsent, PushesAreDrained

LEMMA ListenFailsKeeps == IpcInv /\ ListenFails => IpcInv'
<1> SUFFICES ASSUME IpcInv, ListenFails PROVE IpcInv'
  OBVIOUS
<1>0. UNCHANGED <<server, clients, commands, workers, ingress>>
  BY DEF ListenFails
<1>1. IpcTypes'
  <2>1. caller' \in Callers
    BY DEF IpcInv, IpcTypes, ListenFails, Callers, Woken
  <2> QED BY <2>1, EmptySeq DEF IpcInv, IpcTypes, ListenFails, Loops
<1>2. Owed'
  <2> SUFFICES ASSUME NEW c \in Connections, clients[c].state # "gone"
               PROVE  OwedTo(c)'
    BY <1>0 DEF Owed
  <2>1. clients[c].state = "absent"
    BY DEF IpcInv, IpcTypes, OpenWhileRunning, ListenFails, Clients
  <2>2. InPost(c) = {}
    BY <2>1, AbsentIsOwedNothing
  <2>3. InPost(c)' = {}
    BY DEF ListenFails, InPost
  <2>4. /\ InQueue("control", c)' = InQueue("control", c)
        /\ InQueue("query", c)' = InQueue("query", c) /\ InHand(c)' = InHand(c)
    BY <1>0 DEF InQueue, InHand
  <2>5. OwedTo(c)
    BY DEF IpcInv, Owed
  <2> QED BY <1>0, <2>2, <2>3, <2>4, <2>5 DEF OwedTo
<1>3. loop'.phase = "ended" /\ loop'.request = loop.request
  BY DEF IpcInv, IpcTypes, ListenFails, Loops
<1>4. loop.request = NoCommand
  BY DEF IpcInv, InHandIsOpen, ListenFails
<1> QED BY <1>0, <1>1, <1>2, <1>3, <1>4 DEF IpcInv, ListenFails, AbsentIsFresh, OpenWhileRunning,
        InHandIsOpen, EndedIsEmpty, OffIsAbsent, PushesAreDrained

LEMMA ListenKeeps == IpcInv /\ Listen => IpcInv'
<1> SUFFICES ASSUME IpcInv, Listen PROVE IpcInv'
  OBVIOUS
<1>1. /\ IpcTypes'
      /\ loop'.phase = loop.phase /\ loop'.request = loop.request /\ loop'.draining = loop.draining
  BY DEF IpcInv, IpcTypes, Listen, Loops
<1>2. InHandIsOpen'
  BY <1>1 DEF IpcInv, InHandIsOpen, Listen
<1>3. ClientsOnly
  <2>1. \A c \in Connections : clients[c].state # "gone" \/ clients[c].state = "gone"
    OBVIOUS
  <2> QED BY <1>1, <2>1 DEF ClientsOnly, Listen
<1> QED BY <1>1, <1>2, <1>3, ClientsOnlyKeeps

\* begin_event_stop touches the connections and the loop only.
LEMMA StopBegins ==
    ASSUME IpcInv, BeginEventStop
    PROVE  /\ loop' \in Loops /\ loop'.phase = "running" /\ loop'.request = loop.request
           /\ loop'.draining = loop.draining
           /\ clients' \in [Connections -> Clients]
           /\ \A c \in Connections : Kept(clients[c], clients'[c])
<1>1. StatusKey \in Keys
  BY IpcAssumption
<1>2. /\ clients' \in [Connections -> Clients]
      /\ \A c \in Connections : Kept(clients[c], clients'[c])
  BY <1>1, PublishedKeeps DEF BeginEventStop, IpcInv, IpcTypes
<1>3. (loop.finishing \/ MayFinish) \in BOOLEAN
  OBVIOUS
<1> QED BY <1>2, <1>3 DEF BeginEventStop, IpcInv, IpcTypes, Loops

LEMMA EnterLoopKeeps == IpcInv /\ EnterLoop => IpcInv'
<1> SUFFICES ASSUME IpcInv, EnterLoop PROVE IpcInv'
  OBVIOUS
<1>0. UNCHANGED <<server, caller, posted, commands, workers, ingress>> /\ loop.phase = "listening"
  BY DEF EnterLoop
<1>1. /\ loop' \in Loops /\ loop'.phase = "running" /\ loop'.request = loop.request
      /\ loop'.draining = loop.draining
      /\ clients' \in [Connections -> Clients]
      /\ \A c \in Connections : Kept(clients[c], clients'[c])
  <2>1. CASE server.stopping
    BY <2>1, StopBegins DEF EnterLoop
  <2>2. CASE ~server.stopping
    BY <2>2 DEF EnterLoop, IpcInv, IpcTypes, Loops, Kept
  <2> QED BY <2>1, <2>2
<1>2. loop.request = NoCommand
  BY <1>0 DEF IpcInv, InHandIsOpen
<1>3. IpcTypes'
  BY <1>0, <1>1 DEF IpcInv, IpcTypes
<1>4. Owed'
  BY <1>0, <1>1, OwedStays DEF IpcInv, Kept
<1>5. AbsentIsFresh'
  BY <1>1 DEF IpcInv, AbsentIsFresh, Kept
<1>6. OpenWhileRunning' /\ InHandIsOpen' /\ OffIsAbsent'
  BY <1>1, <1>2 DEF OpenWhileRunning, InHandIsOpen, OffIsAbsent
<1>7. EndedIsEmpty' /\ PushesAreDrained'
  BY <1>0, <1>1 DEF IpcInv, EndedIsEmpty, PushesAreDrained
<1> QED BY <1>3, <1>4, <1>5, <1>6, <1>7 DEF IpcInv

\* While the loop looks for its next event no request is in its hand.
LEMMA AtLoopOnlyClients ==
    ASSUME IpcInv, AtLoop, UNCHANGED <<server, loop, posted, commands, workers, ingress, caller>>,
           clients' \in [Connections -> Clients],
           \A c \in Connections :
               \/ clients'[c].state = "gone"
               \/ clients[c].state # "gone" /\ clients'[c].inFlight = clients[c].inFlight,
           \A c \in Connections : clients'[c].state = "absent" => clients[c].state = "absent"
    PROVE  IpcInv'
<1>1. IpcTypes'
  BY DEF IpcInv, IpcTypes
<1>2. InHandIsOpen'
  BY DEF InHandIsOpen, AtLoop
<1>3. ClientsOnly
  BY DEF ClientsOnly, AtLoop
<1> QED BY <1>1, <1>2, <1>3, ClientsOnlyKeeps

LEMMA AcceptKeeps ==
    ASSUME IpcInv, NEW d \in Connections, Accept(d)
    PROVE  IpcInv'
<1>0. Absent \in Clients /\ Absent.inFlight = 0 /\ Absent.state = "absent"
  BY GoneIsClient DEF Absent
<1>1. PICK new : clients' = [clients EXCEPT ![d] = new] /\ new \in {Gone, [Absent EXCEPT !.state = "open"]}
  BY DEF Accept
<1>2. new \in Clients /\ (new.state = "gone" \/ (new.state = "open" /\ new.inFlight = 0))
  BY <1>0, <1>1, GoneIsClient DEF Clients
<1>3. clients \in [Connections -> Clients] /\ clients[d].state # "gone" /\ clients[d].inFlight = 0
  BY <1>0 DEF IpcInv, IpcTypes, Accept
<1>4. clients' \in [Connections -> Clients]
  BY <1>1, <1>2, <1>3
<1>5. \A c \in Connections : clients'[c] = IF c = d THEN new ELSE clients[c]
  BY <1>1, <1>3
<1>6. \A c \in Connections :
          \/ clients'[c].state = "gone"
          \/ clients[c].state # "gone" /\ clients'[c].inFlight = clients[c].inFlight
  BY <1>2, <1>3, <1>5
<1>7. \A c \in Connections : clients'[c].state = "absent" => clients[c].state = "absent"
  BY <1>2, <1>3, <1>5
<1>8. AtLoop /\ UNCHANGED <<server, loop, posted, commands, workers, ingress, caller>>
  BY DEF Accept
<1> QED BY <1>4, <1>6, <1>7, <1>8, AtLoopOnlyClients

\* A step of the loop that does to one connection what its helpers do.
LEMMA OneClientKeeps ==
    ASSUME IpcInv, AtLoop, UNCHANGED <<server, loop, posted, commands, workers, ingress, caller>>,
           NEW d \in Connections, NEW new \in Clients, Kept(clients[d], new),
           clients' = [clients EXCEPT ![d] = new]
    PROVE  IpcInv'
<1>1. clients \in [Connections -> Clients]
  BY DEF IpcInv, IpcTypes
<1>2. clients' \in [Connections -> Clients]
  BY <1>1
<1>3. \A c \in Connections : clients'[c] = IF c = d THEN new ELSE clients[c]
  BY <1>1
<1>4. \A c \in Connections :
          \/ clients'[c].state = "gone"
          \/ clients[c].state # "gone" /\ clients'[c].inFlight = clients[c].inFlight
  BY <1>3 DEF Kept
<1>5. \A c \in Connections : clients'[c].state = "absent" => clients[c].state = "absent"
  BY <1>3 DEF Kept
<1> QED BY <1>2, <1>4, <1>5, AtLoopOnlyClients

LEMMA ConnectionEndsKeeps ==
    ASSUME IpcInv, NEW d \in Connections, ConnectionEnds(d)
    PROVE  IpcInv'
<1>1. Kept(clients[d], Gone) /\ Gone \in Clients
  BY GoneIsClient DEF Kept
<1>2. AtLoop /\ UNCHANGED <<server, loop, posted, commands, workers, ingress, caller>>
      /\ clients' = [clients EXCEPT ![d] = Gone]
  BY DEF ConnectionEnds
<1> QED BY <1>1, <1>2, OneClientKeeps

LEMMA UnreadableKeeps ==
    ASSUME IpcInv, NEW d \in Connections, Unreadable(d)
    PROVE  IpcInv'
<1>1. PICK closing \in BOOLEAN : clients' = [clients EXCEPT ![d] = Responded(@, closing)]
  BY DEF Unreadable
<1>2. clients[d] \in Clients /\ clients \in [Connections -> Clients]
  BY DEF IpcInv, IpcTypes
<1>3. clients' = [clients EXCEPT ![d] = Responded(clients[d], closing)]
  BY <1>1, <1>2
<1>4. AtLoop /\ UNCHANGED <<server, loop, posted, commands, workers, ingress, caller>>
  BY DEF Unreadable, Frame
<1> QED BY <1>2, <1>3, <1>4, RespondedKeeps, OneClientKeeps

LEMMA BytesWrittenKeeps ==
    ASSUME IpcInv, NEW d \in Connections, BytesWritten(d)
    PROVE  IpcInv'
<1>1. clients[d] \in Clients /\ clients \in [Connections -> Clients]
  BY DEF IpcInv, IpcTypes
<1>2. PICK idle : idle = [clients[d] EXCEPT !.active = "none"]
  OBVIOUS
<1>3. idle \in Clients /\ idle.state = clients[d].state /\ idle.inFlight = clients[d].inFlight
  BY <1>1, <1>2 DEF Clients
<1>4. clients' = [clients EXCEPT ![d] = Pumped(idle)]
  BY <1>1, <1>2 DEF BytesWritten
<1>5. Pumped(idle) \in Clients /\ Kept(clients[d], Pumped(idle))
  BY <1>3, PumpedKeeps DEF Kept
<1>6. AtLoop /\ UNCHANGED <<server, loop, posted, commands, workers, ingress, caller>>
  BY DEF BytesWritten
<1> QED BY <1>4, <1>5, <1>6, OneClientKeeps

LEMMA RememberedType ==
    ASSUME NEW ids \in Seq(RequestIds), NEW id \in RequestIds
    PROVE  Remembered(ids, id) \in Seq(RequestIds)
<1>1. CASE Len(ids) < RememberedIds
  BY <1>1 DEF Remembered
<1>2. CASE ~(Len(ids) < RememberedIds)
  <2>1. ids # <<>>
    BY <1>2, IpcAssumption
  <2>2. Tail(ids) \in Seq(RequestIds)
    BY <2>1
  <2> QED BY <1>2, <2>2 DEF Remembered
<1> QED BY <1>1, <1>2

LEMMA HandleFrameKeeps ==
    ASSUME IpcInv, NEW d \in Connections, NEW id \in RequestIds, NEW class \in Classes,
           HandleFrame(d, id, class)
    PROVE  IpcInv'
<1>1. clients[d] \in Clients /\ clients \in [Connections -> Clients]
  BY DEF IpcInv, IpcTypes
<1>2. PICK told : told = [clients[d] EXCEPT !.recent = Remembered(clients[d].recent, id)]
  OBVIOUS
<1>3. Remembered(clients[d].recent, id) \in Seq(RequestIds)
  BY <1>1, RememberedType DEF Clients
<1>4. told \in Clients /\ told.state = clients[d].state /\ told.inFlight = clients[d].inFlight
  BY <1>1, <1>2, <1>3 DEF Clients
<1>5. AtLoop /\ d \in Open /\ UNCHANGED <<server, posted, commands, workers, ingress, caller>>
  BY DEF HandleFrame, Frame
<1>6. CASE clients' = [clients EXCEPT ![d] = Responded(clients[d], FALSE)] /\ UNCHANGED loop
  BY <1>1, <1>5, <1>6, RespondedKeeps, OneClientKeeps
<1>7. CASE clients' = [clients EXCEPT ![d] = Responded(told, FALSE)] /\ UNCHANGED loop
  <2>1. Responded(told, FALSE) \in Clients /\ Kept(clients[d], Responded(told, FALSE))
    BY <1>4, RespondedKeeps DEF Kept
  <2> QED BY <1>5, <1>7, <2>1, OneClientKeeps
<1>8. CASE /\ clients' = [clients EXCEPT ![d] = told] /\ ~(clients[d].inFlight >= MaximumInFlight)
           /\ loop' = [loop EXCEPT !.request = [connection |-> d, id |-> id, class |-> class]]
  <2>1. /\ loop' \in Loops /\ loop'.phase = loop.phase /\ loop'.draining = loop.draining
        /\ loop'.request = [connection |-> d, id |-> id, class |-> class]
        /\ loop'.request.connection = d
    BY <1>8 DEF IpcInv, IpcTypes, Loops, Requests
  <2>2. clients' \in [Connections -> Clients] /\ clients'[d] = told
    BY <1>1, <1>4, <1>8
  <2>3. told.inFlight < MaximumInFlight /\ told.state = "open"
    BY <1>1, <1>4, <1>5, <1>8, IpcAssumption DEF Clients, Open
  <2>4. InHandIsOpen'
    BY <1>5, <2>1, <2>2, <2>3 DEF InHandIsOpen, AtLoop
  <2>5. \A c \in Connections : clients'[c] = IF c = d THEN told ELSE clients[c]
    BY <1>1, <1>8
  <2>6. ClientsOnly
    BY <1>4, <1>5, <2>1, <2>3, <2>5 DEF ClientsOnly, AtLoop
  <2>7. IpcTypes'
    BY <1>5, <2>1, <2>2 DEF IpcInv, IpcTypes
  <2> QED BY <2>4, <2>6, <2>7, ClientsOnlyKeeps
<1> QED BY <1>1, <1>2, <1>6, <1>7, <1>8 DEF HandleFrame

LEMMA AdmitKeeps == IpcInv /\ Admit => IpcInv'
<1> SUFFICES ASSUME IpcInv, Admit PROVE IpcInv'
  OBVIOUS
<1> DEFINE request == loop.request
           d == request.connection
<1>1. /\ request \in Requests /\ d \in Connections /\ request.class \in Classes
      /\ clients[d].state = "open" /\ clients[d].inFlight < MaximumInFlight
      /\ clients[d] \in Clients /\ clients \in [Connections -> Clients]
      /\ commands[request.class] \in Seq(Requests) /\ commands \in [Classes -> Seq(Requests)]
      /\ ~loop.draining
  <2>1. request \in Requests
    BY DEF IpcInv, IpcTypes, Loops, Admit
  <2>2. d \in Connections /\ request.class \in Classes
    BY <2>1 DEF Requests
  <2> QED BY <2>1, <2>2 DEF IpcInv, IpcTypes, InHandIsOpen, Admit
<1>2. /\ loop' \in Loops /\ loop'.request = NoCommand /\ loop'.phase = loop.phase
      /\ loop'.draining = loop.draining
  BY DEF Admit, IpcInv, IpcTypes, Loops
<1>3. UNCHANGED <<server, caller, posted, workers, ingress>> /\ loop.phase = "running"
  BY DEF Admit
<1>4. InHandIsOpen'
  BY <1>2 DEF InHandIsOpen
<1>5. CASE Admits(request.class)
  <2>1. /\ commands' = [commands EXCEPT ![request.class] = Append(commands[request.class], request)]
        /\ clients' = [clients EXCEPT ![d].inFlight = clients[d].inFlight + 1]
    BY <1>1, <1>5 DEF Admit
  <2>2. PICK new : new = [clients[d] EXCEPT !.inFlight = clients[d].inFlight + 1]
    OBVIOUS
  <2>3. /\ new \in Clients /\ new.state = "open" /\ new.inFlight = clients[d].inFlight + 1
        /\ new.inFlight <= MaximumInFlight
    <3>1. clients[d].inFlight \in Nat /\ clients[d].inFlight + 1 \in Nat
      BY <1>1 DEF Clients
    <3>2. clients[d].inFlight + 1 <= MaximumInFlight
      BY <1>1, <3>1, IpcAssumption
    <3> QED BY <1>1, <2>2, <3>1, <3>2 DEF Clients
  <2>4. clients' = [clients EXCEPT ![d] = new]
    BY <1>1, <2>1, <2>2
  <2>5. PICK longer : longer = Append(commands[request.class], request)
    OBVIOUS
  <2>6. longer \in Seq(Requests) /\ commands' = [commands EXCEPT ![request.class] = longer]
    BY <1>1, <2>1, <2>5
  <2>7. \A c \in Connections : clients'[c] = IF c = d THEN new ELSE clients[c]
    BY <1>1, <2>4
  <2>8. \A class \in Classes : commands'[class] = IF class = request.class THEN longer ELSE commands[class]
    BY <1>1, <2>6
  <2>9. IpcTypes'
    BY <1>1, <1>2, <1>3, <2>3, <2>4, <2>6 DEF IpcInv, IpcTypes
  <2>10. Owed'
    <3> SUFFICES ASSUME NEW c \in Connections, clients'[c].state # "gone"
                 PROVE  OwedTo(c)'
      BY DEF Owed
    <3>1. OwedTo(c)
      BY <1>1, <2>7 DEF IpcInv, Owed
    <3>2. InHand(c)' = InHand(c) /\ InPost(c)' = InPost(c)
      BY <1>3 DEF InHand, InPost
    <3>3. request \in OfConnection(c) <=> c = d
      BY <1>1 DEF OfConnection
    <3>4. ASSUME NEW class \in Classes
          PROVE  /\ Cardinality(InQueue(class, c)) \in Nat
                 /\ Cardinality(InQueue(class, c)') = Cardinality(InQueue(class, c))
                      + (IF class = request.class /\ c = d THEN 1 ELSE 0)
      <4>1. commands[class] \in Seq(Requests)
        BY DEF IpcInv, IpcTypes
      <4>2. InQueue(class, c) = Places(commands[class], OfConnection(c))
        BY OwedAsPlaces DEF IpcInv
      <4>3. InQueue(class, c)' = Places(commands'[class], OfConnection(c))
        <5>1. commands'[class] \in Seq(Requests)
          BY <2>9 DEF IpcTypes
        <5>2. \A i \in DOMAIN commands'[class] : commands'[class][i] \in Requests
          BY <5>1
        <5> QED BY <5>2 DEF InQueue, Places, OfConnection
      <4>4. Cardinality(InQueue(class, c)) \in Nat
        BY <4>1, <4>2, PlacesAreFinite
      <4>5. CASE class = request.class
        <5>1. commands'[class] = Append(commands[class], request)
          BY <2>5, <2>8, <4>5
        <5>2. Cardinality(Places(Append(commands[class], request), OfConnection(c))) =
              Cardinality(Places(commands[class], OfConnection(c)))
                  + (IF request \in OfConnection(c) THEN 1 ELSE 0)
          BY <1>1, <4>1, PlacesAppended
        <5> QED BY <3>3, <4>2, <4>3, <4>4, <4>5, <5>1, <5>2
      <4>6. CASE class # request.class
        BY <2>8, <4>2, <4>3, <4>4, <4>6
      <4> QED BY <4>5, <4>6
    <3>5. Cardinality(InHand(c)) \in Nat /\ Cardinality(InPost(c)) \in Nat
      BY OwedIsCounted DEF IpcInv
    <3>6. request.class \in {"control", "query"}
      BY <1>1 DEF Classes
    <3>7. /\ clients'[c].inFlight = clients[c].inFlight + (IF c = d THEN 1 ELSE 0)
          /\ clients'[c].inFlight <= MaximumInFlight
      <4>1. CASE c = d
        BY <2>3, <2>7, <4>1
      <4>2. CASE c # d
        <5>1. clients'[c] = clients[c] /\ clients[c].inFlight \in Nat
          BY <2>7, <4>2 DEF IpcInv, IpcTypes, Clients
        <5> QED BY <3>1, <4>2, <5>1 DEF OwedTo
      <4> QED BY <4>1, <4>2
    <3>8. clients'[c].inFlight =
              Cardinality(InQueue("control", c)') + Cardinality(InQueue("query", c)')
              + Cardinality(InHand(c)) + Cardinality(InPost(c))
      <4>1. /\ Cardinality(InQueue("control", c)) \in Nat
            /\ Cardinality(InQueue("control", c)') = Cardinality(InQueue("control", c))
                 + (IF "control" = request.class /\ c = d THEN 1 ELSE 0)
        BY <3>4 DEF Classes
      <4>2. /\ Cardinality(InQueue("query", c)) \in Nat
            /\ Cardinality(InQueue("query", c)') = Cardinality(InQueue("query", c))
                 + (IF "query" = request.class /\ c = d THEN 1 ELSE 0)
        BY <3>4 DEF Classes
      <4>3. clients[c].inFlight =
              Cardinality(InQueue("control", c)) + Cardinality(InQueue("query", c))
              + Cardinality(InHand(c)) + Cardinality(InPost(c))
        BY <3>1 DEF OwedTo
      <4> HIDE DEF request, d
      <4> QED BY <3>5, <3>6, <3>7, <4>1, <4>2, <4>3
    <3> QED BY <3>2, <3>7, <3>8 DEF OwedTo
  <2>11. AbsentIsFresh'
    BY <2>3, <2>7 DEF IpcInv, AbsentIsFresh
  <2>12. EndedIsEmpty' /\ OffIsAbsent'
    BY <1>2, <1>3, <1>5, <2>8 DEF IpcInv, EndedIsEmpty, OffIsAbsent, Admits
  <2>13. OpenWhileRunning' /\ PushesAreDrained'
    BY <1>2, <1>3 DEF IpcInv, OpenWhileRunning, PushesAreDrained
  <2> QED BY <1>4, <2>9, <2>10, <2>11, <2>12, <2>13 DEF IpcInv
<1>6. CASE ~Admits(request.class)
  <2>1. UNCHANGED commands /\ clients' = [clients EXCEPT ![d] = Responded(clients[d], FALSE)]
    BY <1>1, <1>6 DEF Admit
  <2>2. Responded(clients[d], FALSE) \in Clients /\ Kept(clients[d], Responded(clients[d], FALSE))
    BY <1>1, RespondedKeeps
  <2>3. \A c \in Connections :
            clients'[c] = IF c = d THEN Responded(clients[d], FALSE) ELSE clients[c]
    BY <1>1, <2>1
  <2>4. IpcTypes'
    BY <1>1, <1>2, <1>3, <2>1, <2>2 DEF IpcInv, IpcTypes
  <2>5. /\ \A c \in Connections :
              \/ clients'[c].state = "gone"
              \/ clients[c].state # "gone" /\ clients'[c].inFlight = clients[c].inFlight
        /\ \A c \in Connections : clients'[c].state = "absent" => clients[c].state = "absent"
    BY <1>1, <2>2, <2>3 DEF Kept
  <2>6. ClientsOnly
    BY <1>2, <1>3, <2>1, <2>5 DEF ClientsOnly
  <2> QED BY <1>4, <2>4, <2>6, ClientsOnlyKeeps
<1> QED BY <1>5, <1>6

LEMMA QuitLoopKeeps == IpcInv /\ QuitLoop => IpcInv'
<1> SUFFICES ASSUME IpcInv, QuitLoop PROVE IpcInv'
  OBVIOUS
<1>0. UNCHANGED <<server, commands, workers, ingress>> /\ posted' = <<>>
  BY DEF QuitLoop, Leave
<1>1. clients' = [c \in Connections |-> IF clients[c].state = "open" THEN Gone ELSE clients[c]]
  BY DEF QuitLoop, Leave, Open
<1>2. clients \in [Connections -> Clients]
  BY DEF IpcInv, IpcTypes
<1>3. clients' \in [Connections -> Clients]
  BY <1>1, <1>2, GoneIsClient
<1>4. loop' \in Loops /\ loop'.phase = "ended" /\ loop'.request = NoCommand
  BY DEF QuitLoop, Leave, IpcInv, IpcTypes, Loops
<1>5. caller' \in Callers
  BY DEF IpcInv, IpcTypes, QuitLoop, Callers, Woken
<1>6. IpcTypes'
  BY <1>0, <1>3, <1>4, <1>5, EmptySeq DEF IpcInv, IpcTypes
<1>7. Owed'
  <2> SUFFICES ASSUME NEW c \in Connections, clients'[c].state # "gone"
               PROVE  OwedTo(c)'
    BY DEF Owed
  <2>1. clients[c].state = "absent" /\ clients'[c] = clients[c]
    BY <1>1, <1>2, GoneIsClient DEF Clients
  <2>2. InPost(c) = {}
    BY <2>1, AbsentIsOwedNothing
  <2>3. InPost(c)' = {}
    BY <1>0 DEF InPost
  <2>4. /\ InQueue("control", c)' = InQueue("control", c)
        /\ InQueue("query", c)' = InQueue("query", c) /\ InHand(c)' = InHand(c)
    BY <1>0 DEF InQueue, InHand
  <2>5. OwedTo(c)
    BY <2>1 DEF IpcInv, Owed
  <2> QED BY <2>1, <2>2, <2>3, <2>4, <2>5 DEF OwedTo
<1>8. AbsentIsFresh' /\ OpenWhileRunning'
  BY <1>1, <1>2, GoneIsClient DEF IpcInv, AbsentIsFresh, OpenWhileRunning
<1> QED BY <1>0, <1>4, <1>6, <1>7, <1>8 DEF IpcInv, InHandIsOpen, EndedIsEmpty, OffIsAbsent,
        PushesAreDrained

\* What is posted for a connection when the first event is taken.
LEMMA PostTaken ==
    ASSUME IpcInv, posted # <<>>, posted' = Tail(posted), NEW c \in Connections
    PROVE  /\ Cardinality(InPost(c)) \in Nat
           /\ Head(posted) \in ResponsesTo(c) => Cardinality(InPost(c)) > 0
           /\ Cardinality(InPost(c)') =
                  Cardinality(InPost(c)) - (IF Head(posted) \in ResponsesTo(c) THEN 1 ELSE 0)
<1>1. posted \in Seq(Events) /\ Tail(posted) \in Seq(Events)
  BY DEF IpcInv, IpcTypes
<1>2. InPost(c) = Places(posted, ResponsesTo(c))
  BY OwedAsPlaces DEF IpcInv
<1>3. \A i \in DOMAIN posted' : posted'[i] \in Events
  BY <1>1
<1>4. InPost(c)' = Places(Tail(posted), ResponsesTo(c))
  BY <1>3 DEF InPost, Places, ResponsesTo
<1>5. 1 \in DOMAIN posted /\ posted[1] = Head(posted)
  BY <1>1
<1> QED BY <1>1, <1>2, <1>4, <1>5, PlacesAreFinite, PlacesOfTail

\* An event is taken that is not a response: what is owed stays.
LEMMA OtherEventTaken ==
    ASSUME IpcInv, posted # <<>>, posted' = Tail(posted), Head(posted).kind # "response",
           UNCHANGED <<commands, workers>>, \A c \in Connections : Kept(clients[c], clients'[c])
    PROVE  Owed'
<1> SUFFICES ASSUME NEW c \in Connections, clients'[c].state # "gone"
             PROVE  OwedTo(c)'
  BY DEF Owed
<1>1. OwedTo(c) /\ clients'[c].inFlight = clients[c].inFlight
  BY DEF IpcInv, Owed, Kept
<1>2. Cardinality(InPost(c)') = Cardinality(InPost(c))
  <2>1. Head(posted) \notin ResponsesTo(c)
    BY DEF ResponsesTo
  <2> QED BY <2>1, PostTaken
<1>3. /\ InQueue("control", c)' = InQueue("control", c) /\ InQueue("query", c)' = InQueue("query", c)
      /\ InHand(c)' = InHand(c)
  BY DEF InQueue, InHand
<1> QED BY <1>1, <1>2, <1>3 DEF OwedTo

LEMMA DeliverKeepsOwed ==
    ASSUME IpcInv, posted # <<>>, posted' = Tail(posted), Deliver(Head(posted)),
           UNCHANGED <<commands, workers>>
    PROVE  /\ Owed' /\ clients' \in [Connections -> Clients]
           /\ \A c \in Connections :
                 clients'[c].state = "gone" \/ clients'[c].state = clients[c].state
           /\ \A c \in Connections :
                 clients[c].state = "absent" => clients'[c] = clients[c]
<1> DEFINE event == Head(posted)
           d == event.connection
<1>1. event \in Events /\ event.kind = "response"
  BY DEF IpcInv, IpcTypes, Deliver
<1>2. d \in Connections /\ clients \in [Connections -> Clients] /\ clients[d] \in Clients
  BY <1>1 DEF Events, IpcInv, IpcTypes
<1>3. \A c \in Connections : event \in ResponsesTo(c) <=> c = d
  BY <1>1 DEF ResponsesTo
<1>4. \A c \in Connections :
          /\ InQueue("control", c)' = InQueue("control", c)
          /\ InQueue("query", c)' = InQueue("query", c) /\ InHand(c)' = InHand(c)
  BY DEF InQueue, InHand
<1>5. \A c \in Connections :
          /\ Cardinality(InPost(c)) \in Nat
          /\ c = d => Cardinality(InPost(c)) > 0
          /\ Cardinality(InPost(c)') = Cardinality(InPost(c)) - (IF c = d THEN 1 ELSE 0)
  BY <1>3, PostTaken
<1>6. \A c \in Connections :
          /\ Cardinality(InQueue("control", c)) \in Nat /\ Cardinality(InQueue("query", c)) \in Nat
          /\ Cardinality(InHand(c)) \in Nat
  BY OwedIsCounted DEF IpcInv, Classes
<1>7. CASE d \in Open /\ clients[d].inFlight > 0
  <2>1. PICK fewer : fewer = [clients[d] EXCEPT !.inFlight = clients[d].inFlight - 1]
    OBVIOUS
  <2>2. /\ fewer \in Clients /\ fewer.state = clients[d].state
        /\ fewer.inFlight = clients[d].inFlight - 1 /\ clients[d].inFlight \in Nat
    <3>1. clients[d].inFlight - 1 \in Nat /\ clients[d].inFlight \in Nat
      BY <1>2, <1>7 DEF Clients
    <3> QED BY <1>2, <2>1, <3>1 DEF Clients
  <2>3. PICK sent \in {Gone, Responded(fewer, FALSE)} : clients' = [clients EXCEPT ![d] = sent]
    BY <1>2, <1>7, <2>1 DEF Deliver
  <2>4. sent \in Clients /\ Kept(fewer, sent)
    BY <2>2, <2>3, RespondedKeeps, GoneIsClient DEF Kept
  <2>5. \A c \in Connections : clients'[c] = IF c = d THEN sent ELSE clients[c]
    BY <1>2, <2>3
  <2>6. clients' \in [Connections -> Clients]
    BY <1>2, <2>3, <2>4
  <2>7. Owed'
    <3> SUFFICES ASSUME NEW c \in Connections, clients'[c].state # "gone"
                 PROVE  OwedTo(c)'
      BY DEF Owed
    <3>1. OwedTo(c)
      <4>1. clients[c].state # "gone"
        BY <2>2, <2>4, <2>5 DEF Kept
      <4> QED BY <4>1 DEF IpcInv, Owed
    <3>2. clients'[c].inFlight = clients[c].inFlight - (IF c = d THEN 1 ELSE 0)
      <4>1. CASE c = d
        BY <2>2, <2>4, <2>5, <4>1 DEF Kept
      <4>2. CASE c # d
        <5>1. clients'[c] = clients[c] /\ clients[c].inFlight \in Nat
          BY <1>2, <2>5, <4>2 DEF Clients
        <5> QED BY <4>2, <5>1
      <4> QED BY <4>1, <4>2
    <3>3. /\ clients[c].inFlight <= MaximumInFlight /\ clients[c].inFlight \in Nat
          /\ clients[c].inFlight =
              Cardinality(InQueue("control", c)) + Cardinality(InQueue("query", c))
              + Cardinality(InHand(c)) + Cardinality(InPost(c))
      BY <1>2, <3>1 DEF OwedTo, Clients
    <3>4. /\ clients'[c].inFlight <= MaximumInFlight
          /\ clients'[c].inFlight =
              Cardinality(InQueue("control", c)) + Cardinality(InQueue("query", c))
              + Cardinality(InHand(c)) + Cardinality(InPost(c)')
      <4> HIDE DEF d, event
      <4> QED BY <1>5, <1>6, <3>2, <3>3, IpcAssumption
    <3> QED BY <1>4, <3>4 DEF OwedTo
  <2>8. \A c \in Connections :
            /\ clients'[c].state = "gone" \/ clients'[c].state = clients[c].state
            /\ clients[c].state = "absent" => clients'[c] = clients[c]
    BY <1>7, <2>2, <2>4, <2>5 DEF Kept, Open
  <2> QED BY <2>6, <2>7, <2>8
<1>8. CASE ~(d \in Open /\ clients[d].inFlight > 0)
  <2>1. clients' = clients
    BY <1>8 DEF Deliver
  <2>2. clients[d].state = "gone"
    <3> SUFFICES ASSUME clients[d].state # "gone" PROVE FALSE
      OBVIOUS
    <3>1. OwedTo(d)
      BY <1>2 DEF IpcInv, Owed
    <3>2. clients[d].inFlight > 0
      BY <1>2, <1>5, <1>6, <3>1 DEF OwedTo
    <3>3. clients[d].state = "absent"
      BY <1>2, <1>8, <3>2 DEF Open, Clients
    <3> QED BY <1>2, <3>2, <3>3 DEF IpcInv, AbsentIsFresh
  <2>3. Owed'
    <3> SUFFICES ASSUME NEW c \in Connections, clients[c].state # "gone"
                 PROVE  OwedTo(c)'
      BY <2>1 DEF Owed
    <3>1. OwedTo(c) /\ c # d
      BY <2>2 DEF IpcInv, Owed
    <3>2. Cardinality(InPost(c)') = Cardinality(InPost(c))
      BY <1>5, <3>1
    <3> QED BY <1>4, <2>1, <3>1, <3>2 DEF OwedTo
  <2> QED BY <1>2, <2>1, <2>3
<1> QED BY <1>7, <1>8

LEMMA RunPostedKeeps == IpcInv /\ RunPosted => IpcInv'
<1> SUFFICES ASSUME IpcInv, RunPosted PROVE IpcInv'
  OBVIOUS
<1>1. /\ AtLoop /\ posted # <<>> /\ posted' = Tail(posted)
      /\ UNCHANGED <<server, caller, commands, workers, ingress>>
  BY DEF RunPosted
<1>2. posted \in Seq(Events) /\ posted' \in Seq(Events) /\ clients \in [Connections -> Clients]
  BY <1>1 DEF IpcInv, IpcTypes
<1>3. loop \in Loops /\ loop.phase = "running" /\ loop.request = NoCommand /\ ~loop.draining
  BY <1>1 DEF AtLoop, IpcInv, IpcTypes
\* The rest of the invariant, from what each kind of event does to the loop.
<1>4. ASSUME Owed', loop' \in Loops, loop'.phase = "running", loop'.request = NoCommand,
             Head(posted).kind = "drain" => loop'.draining,
             clients' \in [Connections -> Clients],
             \A c \in Connections :
                 clients'[c].state = "gone" \/ clients'[c].state = clients[c].state,
             \A c \in Connections :
                 clients[c].state = "absent" => clients'[c].state = "gone"
                                                \/ clients'[c].inFlight = clients[c].inFlight
      PROVE  IpcInv'
  <2>1. IpcTypes'
    BY <1>1, <1>2, <1>4 DEF IpcInv, IpcTypes
  <2>2. AbsentIsFresh'
    BY <1>4 DEF IpcInv, AbsentIsFresh
  <2>3. OpenWhileRunning' /\ InHandIsOpen' /\ OffIsAbsent'
    BY <1>4 DEF OpenWhileRunning, InHandIsOpen, OffIsAbsent
  <2>4. EndedIsEmpty'
    BY <1>1 DEF IpcInv, EndedIsEmpty
  <2>5. PushesAreDrained'
    <3> SUFFICES ASSUME ingress.flagged, ~ingress.posting, ~loop'.draining
                 PROVE  \E i \in DOMAIN posted' : posted'[i].kind = "drain"
      BY <1>1 DEF IpcInv, PushesAreDrained
    <3>1. PICK i \in DOMAIN posted : posted[i].kind = "drain"
      BY <1>3 DEF IpcInv, PushesAreDrained
    <3>2. i # 1
      BY <1>2, <1>4, <3>1
    <3>3. i - 1 \in DOMAIN Tail(posted) /\ Tail(posted)[i - 1] = posted[i]
      BY <1>1, <1>2, <3>1, <3>2
    <3> QED BY <1>1, <3>1, <3>3
  <2> QED BY <1>4, <2>1, <2>2, <2>3, <2>4, <2>5 DEF IpcInv
<1>5. CASE Deliver(Head(posted))
  <2>1. UNCHANGED loop /\ Head(posted).kind = "response"
    BY <1>5 DEF Deliver
  <2> QED BY <1>1, <1>3, <1>4, <1>5, <2>1, DeliverKeepsOwed
<1>6. CASE Head(posted).kind = "stop" /\ BeginEventStop
  <2>1. Owed'
    BY <1>1, <1>6, OtherEventTaken, StopBegins
  <2> QED BY <1>3, <1>4, <1>6, <2>1, StopBegins DEF Kept
<1>7. CASE /\ Head(posted).kind = "finish" /\ UNCHANGED clients
           /\ loop' = [loop EXCEPT !.finishing = @ \/ MayFinish]
  <2>1. loop' \in Loops /\ loop'.phase = "running" /\ loop'.request = NoCommand
    <3>1. (loop.finishing \/ MayFinish) \in BOOLEAN
      OBVIOUS
    <3> QED BY <1>3, <1>7, <3>1 DEF Loops
  <2>2. Owed'
    BY <1>1, <1>7, OtherEventTaken DEF Kept
  <2> QED BY <1>2, <1>4, <1>7, <2>1, <2>2
<1>8. CASE /\ Head(posted).kind = "drain" /\ UNCHANGED clients
           /\ loop' = [loop EXCEPT !.draining = TRUE]
  <2>1. loop' \in Loops /\ loop'.phase = "running" /\ loop'.request = NoCommand /\ loop'.draining
    BY <1>3, <1>8 DEF Loops
  <2>2. Owed'
    BY <1>1, <1>8, OtherEventTaken DEF Kept
  <2> QED BY <1>2, <1>4, <1>8, <2>1, <2>2
<1> QED BY <1>5, <1>6, <1>7, <1>8 DEF RunPosted

LEMMA DrainPublishKeeps == IpcInv /\ DrainPublish => IpcInv'
<1> SUFFICES ASSUME IpcInv, DrainPublish PROVE IpcInv'
  OBVIOUS
<1>1. /\ UNCHANGED <<server, caller, posted, commands, workers>>
      /\ loop.phase = "running" /\ loop.draining /\ loop \in Loops /\ ingress \in Ingresses
      /\ clients \in [Connections -> Clients]
  BY DEF DrainPublish, IpcInv, IpcTypes
<1>2. loop.request = NoCommand
  BY <1>1 DEF IpcInv, InHandIsOpen
<1>3. /\ loop' \in Loops /\ loop'.phase = "running" /\ loop'.request = NoCommand
      /\ ingress' \in Ingresses
      /\ ingress'.queue # <<>> => ingress'.flagged
      /\ ingress'.flagged => loop'.draining
      /\ clients' \in [Connections -> Clients]
      /\ \A c \in Connections : Kept(clients[c], clients'[c])
  <2>1. CASE ingress.queue = <<>>
    BY <1>1, <1>2, <2>1 DEF DrainPublish, Loops, Ingresses, Kept
  <2>2. CASE ingress.queue # <<>>
    <3>1. /\ ingress' = [ingress EXCEPT !.queue = Tail(ingress.queue)]
          /\ clients' = PublishedTo(Head(ingress.queue)) /\ UNCHANGED loop
      BY <1>1, <2>2 DEF DrainPublish
    <3>2. Head(ingress.queue) \in Keys /\ Tail(ingress.queue) \in Seq(Keys)
      BY <1>1, <2>2 DEF Ingresses
    <3>3. ingress.flagged
      BY <2>2 DEF IpcInv, PushesAreDrained
    <3>4. ingress' \in Ingresses /\ ingress'.flagged = ingress.flagged
      BY <1>1, <3>1, <3>2 DEF Ingresses
    <3> QED BY <1>1, <1>2, <3>1, <3>2, <3>3, <3>4, PublishedKeeps
  <2> QED BY <2>1, <2>2
<1>4. Owed'
  BY <1>1, <1>3, OwedStays DEF IpcInv, Kept
<1>5. IpcTypes'
  BY <1>1, <1>3 DEF IpcInv, IpcTypes
<1>6. AbsentIsFresh' /\ OpenWhileRunning' /\ InHandIsOpen' /\ OffIsAbsent' /\ PushesAreDrained'
  BY <1>3 DEF IpcInv, AbsentIsFresh, Kept, OpenWhileRunning, InHandIsOpen, OffIsAbsent,
              PushesAreDrained
<1>7. EndedIsEmpty'
  BY <1>1 DEF IpcInv, EndedIsEmpty
<1> QED BY <1>4, <1>5, <1>6, <1>7 DEF IpcInv

LEMMA PostKeeps ==
    ASSUME IpcInv, NEW event \in Events, posted' = Post(event)
    PROVE  /\ posted' \in Seq(Events)
           /\ (\E i \in DOMAIN posted : posted[i].kind = "drain") =>
                  \E i \in DOMAIN posted' : posted'[i].kind = "drain"
           /\ HasDispatcher => \E i \in DOMAIN posted' : posted'[i] = event
           /\ \A c \in Connections :
                 /\ Cardinality(InPost(c)) \in Nat
                 /\ Cardinality(InPost(c)') = Cardinality(InPost(c))
                      + (IF HasDispatcher /\ event \in ResponsesTo(c) THEN 1 ELSE 0)
<1>1. posted \in Seq(Events)
  BY DEF IpcInv, IpcTypes
<1>2. posted' \in Seq(Events)
  BY <1>1 DEF Post
<1>3. \A i \in DOMAIN posted : i \in DOMAIN posted' /\ posted'[i] = posted[i]
  BY <1>1 DEF Post
<1>4. HasDispatcher => \E i \in DOMAIN posted' : posted'[i] = event
  <2> SUFFICES ASSUME HasDispatcher PROVE \E i \in DOMAIN posted' : posted'[i] = event
    OBVIOUS
  <2>1. Len(posted) + 1 \in DOMAIN posted' /\ posted'[Len(posted) + 1] = event
    BY <1>1 DEF Post
  <2> QED BY <2>1
<1>5. ASSUME NEW c \in Connections
      PROVE  /\ Cardinality(InPost(c)) \in Nat
             /\ Cardinality(InPost(c)') = Cardinality(InPost(c))
                  + (IF HasDispatcher /\ event \in ResponsesTo(c) THEN 1 ELSE 0)
  <2>1. InPost(c) = Places(posted, ResponsesTo(c))
    BY OwedAsPlaces DEF IpcInv
  <2>2. \A i \in DOMAIN posted' : posted'[i] \in Events
    BY <1>2
  <2>3. InPost(c)' = Places(posted', ResponsesTo(c))
    BY <2>2 DEF InPost, Places, ResponsesTo
  <2>4. Cardinality(Places(posted, ResponsesTo(c))) \in Nat
    BY <1>1, PlacesAreFinite
  <2>5. CASE HasDispatcher
    <3>1. posted' = Append(posted, event)
      BY <2>5 DEF Post
    <3>2. Cardinality(Places(Append(posted, event), ResponsesTo(c))) =
          Cardinality(Places(posted, ResponsesTo(c))) + (IF event \in ResponsesTo(c) THEN 1 ELSE 0)
      BY <1>1, PlacesAppended
    <3> QED BY <2>1, <2>3, <2>4, <2>5, <3>1, <3>2
  <2>6. CASE ~HasDispatcher
    <3>1. posted' = posted
      BY <2>6 DEF Post
    <3> QED BY <2>1, <2>3, <2>4, <2>6, <3>1
  <2> QED BY <2>5, <2>6
<1> QED BY <1>2, <1>3, <1>4, <1>5

\* An event is posted that is not a response: what is owed stays.
LEMMA OtherEventPosted ==
    ASSUME IpcInv, NEW event \in Events, event.kind # "response", posted' = Post(event),
           UNCHANGED <<clients, commands>>,
           \A c \in Connections : InHand(c)' = InHand(c)
    PROVE  Owed'
<1> SUFFICES ASSUME NEW c \in Connections, clients[c].state # "gone"
             PROVE  OwedTo(c)'
  BY DEF Owed
<1>1. OwedTo(c)
  BY DEF IpcInv, Owed
<1>2. Cardinality(InPost(c)') = Cardinality(InPost(c))
  <2>1. event \notin ResponsesTo(c)
    BY DEF ResponsesTo
  <2> QED BY <2>1, PostKeeps
<1>3. InQueue("control", c)' = InQueue("control", c) /\ InQueue("query", c)' = InQueue("query", c)
  BY DEF InQueue
<1> QED BY <1>1, <1>2, <1>3 DEF OwedTo

LEMMA OtherEvents ==
    /\ [kind |-> "stop"] \in Events /\ [kind |-> "finish"] \in Events /\ [kind |-> "drain"] \in Events
    /\ [kind |-> "stop"].kind = "stop" /\ [kind |-> "finish"].kind = "finish"
    /\ [kind |-> "drain"].kind = "drain"
BY DEF Events

\* A thread turns from one request to another, or to none: InHand.
LEMMA HandsChange ==
    ASSUME IpcInv, NEW w \in Workers, NEW new, workers' = [workers EXCEPT ![w] = new],
           NEW c \in Connections
    PROVE  /\ Cardinality(InHand(c)) \in Nat
           /\ Cardinality(InHand(c)') = Cardinality(InHand(c))
                - (IF workers[w].command.connection = c THEN 1 ELSE 0)
                + (IF new.command.connection = c THEN 1 ELSE 0)
<1>1. workers \in [Workers -> CommandThreads]
  BY DEF IpcInv, IpcTypes
<1>2. \A v \in Workers : workers'[v] = IF v = w THEN new ELSE workers[v]
  BY <1>1
<1>3. IsFiniteSet(InHand(c)) /\ Cardinality(InHand(c)) \in Nat
  BY OwedIsCounted DEF IpcInv
<1>4. InHand(c)' = (IF new.command.connection = c THEN InHand(c) \cup {w} ELSE InHand(c) \ {w})
  BY <1>2 DEF InHand
<1>5. w \in InHand(c) <=> workers[w].command.connection = c
  BY DEF InHand
<1>6. Cardinality(InHand(c) \cup {w}) =
          IF w \in InHand(c) THEN Cardinality(InHand(c)) ELSE Cardinality(InHand(c)) + 1
  BY <1>3, FS_AddElement
<1>7. Cardinality(InHand(c) \ {w}) =
          IF w \in InHand(c) THEN Cardinality(InHand(c)) - 1 ELSE Cardinality(InHand(c))
  BY <1>3, FS_RemoveElement
<1>8. CASE new.command.connection = c
  BY <1>3, <1>4, <1>5, <1>6, <1>8
<1>9. CASE new.command.connection # c
  BY <1>3, <1>4, <1>5, <1>7, <1>9
<1> QED BY <1>3, <1>8, <1>9

\* A thread at one place and at another without a request.
LEMMA EmptyHands ==
    /\ Worker("waiting") \in CommandThreads /\ Worker("done") \in CommandThreads /\ Worker("absent") \in CommandThreads
    /\ Worker("waiting").at = "waiting" /\ Worker("done").at = "done"
    /\ Worker("absent").at = "absent"
    /\ \A place : Worker(place).command = NoCommand
BY DEF Worker, CommandThreads

LEMMA TakeCommandKeeps ==
    ASSUME IpcInv, NEW w \in Workers, TakeCommand(w)
    PROVE  IpcInv'
<1> DEFINE class == ClassOf(w)
           request == Head(commands[class])
           new == [at |-> "handling", command |-> request]
<1>1. /\ class \in Classes /\ commands[class] \in Seq(Requests) /\ commands[class] # <<>>
      /\ commands \in [Classes -> Seq(Requests)] /\ workers \in [Workers -> CommandThreads]
  BY DEF TakeCommand, IpcInv, IpcTypes, ClassOf, Classes
<1>2. request \in Requests /\ Tail(commands[class]) \in Seq(Requests)
  BY <1>1
<1>3. new \in CommandThreads /\ new.at = "handling" /\ new.command = request
  BY <1>2 DEF CommandThreads
<1>4. UNCHANGED <<server, caller, loop, posted, clients, ingress>> /\ workers[w].at = "waiting"
  BY DEF TakeCommand
<1>5. PICK shorter : shorter = Tail(commands[class])
  OBVIOUS
<1>6. /\ workers' = [workers EXCEPT ![w] = new]
      /\ commands' = [commands EXCEPT ![class] = shorter] /\ shorter \in Seq(Requests)
  BY <1>1, <1>2, <1>5 DEF TakeCommand
<1>7. workers[w].command = NoCommand
  BY <1>1, <1>4 DEF CommandThreads
<1>8. \A other \in Classes : commands'[other] = IF other = class THEN shorter ELSE commands[other]
  BY <1>1, <1>6
<1>9. IpcTypes'
  BY <1>1, <1>3, <1>4, <1>6 DEF IpcInv, IpcTypes
<1>10. Owed'
  <2> SUFFICES ASSUME NEW c \in Connections, clients[c].state # "gone"
               PROVE  OwedTo(c)'
    BY <1>4 DEF Owed
  <2>1. OwedTo(c)
    BY DEF IpcInv, Owed
  <2>2. InPost(c)' = InPost(c)
    BY <1>4 DEF InPost
  <2>3. request \in OfConnection(c) <=> request.connection = c
    BY <1>2 DEF OfConnection
  <2>4. ASSUME NEW other \in Classes
        PROVE  /\ Cardinality(InQueue(other, c)) \in Nat
               /\ Cardinality(InQueue(other, c)') = Cardinality(InQueue(other, c))
                    - (IF other = class /\ request.connection = c THEN 1 ELSE 0)
    <3>1. commands[other] \in Seq(Requests)
      BY <1>1
    <3>2. InQueue(other, c) = Places(commands[other], OfConnection(c))
      BY OwedAsPlaces DEF IpcInv
    <3>3. InQueue(other, c)' = Places(commands'[other], OfConnection(c))
      <4>1. commands'[other] \in Seq(Requests)
        BY <1>9 DEF IpcTypes
      <4>2. \A i \in DOMAIN commands'[other] : commands'[other][i] \in Requests
        BY <4>1
      <4> QED BY <4>2 DEF InQueue, Places, OfConnection
    <3>4. Cardinality(InQueue(other, c)) \in Nat
      BY <3>1, <3>2, PlacesAreFinite
    <3>5. CASE other = class
      <4>1. commands'[other] = Tail(commands[other])
        BY <1>5, <1>8, <3>5
      <4>2. Cardinality(Places(Tail(commands[other]), OfConnection(c))) =
            Cardinality(Places(commands[other], OfConnection(c)))
                - (IF Head(commands[other]) \in OfConnection(c) THEN 1 ELSE 0)
        BY <1>1, <3>1, <3>5, PlacesOfTail
      <4> QED BY <2>3, <3>2, <3>3, <3>4, <3>5, <4>1, <4>2
    <3>6. CASE other # class
      BY <1>8, <3>2, <3>3, <3>4, <3>6
    <3> QED BY <3>5, <3>6
  <2>5. /\ Cardinality(InHand(c)) \in Nat
        /\ Cardinality(InHand(c)') = Cardinality(InHand(c))
             + (IF request.connection = c THEN 1 ELSE 0)
    <3>1. /\ Cardinality(InHand(c)) \in Nat
          /\ Cardinality(InHand(c)') = Cardinality(InHand(c))
               - (IF workers[w].command.connection = c THEN 1 ELSE 0)
               + (IF new.command.connection = c THEN 1 ELSE 0)
      BY <1>6, HandsChange
    <3>2. workers[w].command.connection # c
      BY <1>7, NoCommandIsNone
    <3> QED BY <1>3, <3>1, <3>2
  <2>6. Cardinality(InPost(c)) \in Nat
    BY OwedIsCounted DEF IpcInv
  <2>7. clients[c].inFlight =
            Cardinality(InQueue("control", c)') + Cardinality(InQueue("query", c)')
            + Cardinality(InHand(c)') + Cardinality(InPost(c))
    <3>1. /\ Cardinality(InQueue("control", c)) \in Nat
          /\ Cardinality(InQueue("control", c)') = Cardinality(InQueue("control", c))
               - (IF "control" = class /\ request.connection = c THEN 1 ELSE 0)
      BY <2>4 DEF Classes
    <3>2. /\ Cardinality(InQueue("query", c)) \in Nat
          /\ Cardinality(InQueue("query", c)') = Cardinality(InQueue("query", c))
               - (IF "query" = class /\ request.connection = c THEN 1 ELSE 0)
      BY <2>4 DEF Classes
    <3>3. clients[c].inFlight =
            Cardinality(InQueue("control", c)) + Cardinality(InQueue("query", c))
            + Cardinality(InHand(c)) + Cardinality(InPost(c))
      BY <2>1 DEF OwedTo
    <3>4. class \in {"control", "query"}
      BY <1>1 DEF Classes
    <3> HIDE DEF class, request
    <3> QED BY <2>5, <2>6, <3>1, <3>2, <3>3, <3>4
  <2> QED BY <1>4, <2>1, <2>2, <2>7 DEF OwedTo
<1>11. \A v \in Workers : workers'[v] = IF v = w THEN new ELSE workers[v]
  BY <1>1, <1>6
<1>12. EndedIsEmpty'
  <2> SUFFICES ASSUME NEW v \in Workers, workers'[v].at \in {"absent", "done"}
               PROVE  commands'[ClassOf(v)] = <<>> /\ ~server.accepting
    BY <1>4 DEF EndedIsEmpty
  <2>1. workers[v].at \in {"absent", "done"}
    BY <1>3, <1>11
  <2>2. commands[ClassOf(v)] = <<>> /\ ~server.accepting /\ ClassOf(v) \in Classes
    BY <2>1 DEF IpcInv, EndedIsEmpty, ClassOf, Classes
  <2> QED BY <1>1, <1>8, <2>2
<1>13. OffIsAbsent'
  BY <1>4 DEF IpcInv, OffIsAbsent
<1>14. AbsentIsFresh' /\ OpenWhileRunning' /\ InHandIsOpen' /\ PushesAreDrained'
  BY <1>4 DEF IpcInv, AbsentIsFresh, OpenWhileRunning, InHandIsOpen, PushesAreDrained
<1> QED BY <1>9, <1>10, <1>12, <1>13, <1>14 DEF IpcInv

LEMMA HandleCommandKeeps ==
    ASSUME IpcInv, NEW w \in Workers, HandleCommand(w)
    PROVE  IpcInv'
<1> DEFINE event == [kind |-> "response", connection |-> workers[w].command.connection]
<1>1. /\ UNCHANGED <<server, caller, loop, clients, commands, ingress>>
      /\ workers[w].at = "handling" /\ workers[w] \in CommandThreads
      /\ workers \in [Workers -> CommandThreads]
  BY DEF HandleCommand, IpcInv, IpcTypes
<1>2. workers[w].command \in Requests /\ workers[w].command.connection \in Connections
  BY <1>1 DEF CommandThreads, Requests
<1>3. event \in Events /\ event.kind = "response" /\ event.connection = workers[w].command.connection
  BY <1>2 DEF Events
<1>4. posted' = Post(event) /\ workers' = [workers EXCEPT ![w] = Worker("waiting")]
  BY DEF HandleCommand
<1> HIDE DEF event
<1>5. IpcTypes'
  BY <1>1, <1>3, <1>4, EmptyHands, PostKeeps DEF IpcInv, IpcTypes
<1>6. Owed'
  <2> SUFFICES ASSUME NEW c \in Connections, clients[c].state # "gone"
               PROVE  OwedTo(c)'
    BY <1>1 DEF Owed
  <2>1. OwedTo(c)
    BY DEF IpcInv, Owed
  <2>2. InQueue("control", c)' = InQueue("control", c) /\ InQueue("query", c)' = InQueue("query", c)
    BY <1>1 DEF InQueue
  <2>3. event \in ResponsesTo(c) <=> workers[w].command.connection = c
    BY <1>3 DEF ResponsesTo
  <2>4. NoCommand.connection # c
    BY NoCommandIsNone
  <2>5. /\ Cardinality(InHand(c)) \in Nat
        /\ Cardinality(InHand(c)') = Cardinality(InHand(c))
             - (IF workers[w].command.connection = c THEN 1 ELSE 0)
    <3>1. Worker("waiting") \in CommandThreads /\ Worker("waiting").command.connection # c
      BY <2>4, EmptyHands
    <3>2. /\ Cardinality(InHand(c)) \in Nat
          /\ Cardinality(InHand(c)') = Cardinality(InHand(c))
               - (IF workers[w].command.connection = c THEN 1 ELSE 0)
               + (IF Worker("waiting").command.connection = c THEN 1 ELSE 0)
      BY <1>4, HandsChange
    <3> QED BY <3>1, <3>2
  <2>6. /\ Cardinality(InPost(c)) \in Nat
        /\ Cardinality(InPost(c)') = Cardinality(InPost(c))
             + (IF HasDispatcher /\ workers[w].command.connection = c THEN 1 ELSE 0)
    BY <1>3, <1>4, <2>3, PostKeeps
  <2>7. workers[w].command.connection = c => HasDispatcher
    <3> SUFFICES ASSUME workers[w].command.connection = c, ~HasDispatcher PROVE FALSE
      OBVIOUS
    <3>1. clients[c].state = "absent"
      BY DEF IpcInv, IpcTypes, OpenWhileRunning, HasDispatcher, Clients
    <3>2. w \in InHand(c)
      BY DEF InHand
    <3> QED BY <3>1, <3>2, AbsentIsOwedNothing
  <2>8. /\ Cardinality(InQueue("control", c)) \in Nat /\ Cardinality(InQueue("query", c)) \in Nat
    BY OwedIsCounted DEF IpcInv, Classes
  <2>9. Cardinality(InHand(c)') + Cardinality(InPost(c)') =
            Cardinality(InHand(c)) + Cardinality(InPost(c))
    BY <2>5, <2>6, <2>7
  <2>10. clients[c].inFlight =
            Cardinality(InQueue("control", c)) + Cardinality(InQueue("query", c))
            + Cardinality(InHand(c)') + Cardinality(InPost(c)')
    <3>1. clients[c].inFlight =
            Cardinality(InQueue("control", c)) + Cardinality(InQueue("query", c))
            + Cardinality(InHand(c)) + Cardinality(InPost(c))
      BY <2>1 DEF OwedTo
    <3>2. Cardinality(InHand(c)') \in Int /\ Cardinality(InPost(c)') \in Int
      BY <2>5, <2>6
    <3> QED BY <2>5, <2>6, <2>8, <2>9, <3>1, <3>2
  <2> QED BY <1>1, <2>1, <2>2, <2>10 DEF OwedTo
<1>7. \A v \in Workers : workers'[v] = IF v = w THEN Worker("waiting") ELSE workers[v]
  BY <1>1, <1>4
<1>8. EndedIsEmpty'
  BY <1>1, <1>7, EmptyHands DEF IpcInv, EndedIsEmpty
<1>9. OffIsAbsent'
  BY <1>1 DEF IpcInv, OffIsAbsent
<1>10. AbsentIsFresh' /\ OpenWhileRunning' /\ InHandIsOpen'
  BY <1>1 DEF IpcInv, AbsentIsFresh, OpenWhileRunning, InHandIsOpen
<1>11. PushesAreDrained'
  BY <1>1, <1>3, <1>4, PostKeeps DEF IpcInv, PushesAreDrained
<1> QED BY <1>5, <1>6, <1>8, <1>9, <1>10, <1>11 DEF IpcInv

LEMMA EndWorkerKeeps ==
    ASSUME IpcInv, NEW w \in Workers, EndWorker(w)
    PROVE  IpcInv'
<1>1. /\ UNCHANGED <<server, loop, clients, commands, ingress>>
      /\ workers[w].at = "waiting" /\ commands[ClassOf(w)] = <<>> /\ ~server.accepting
      /\ workers[w] \in CommandThreads /\ workers \in [Workers -> CommandThreads]
      /\ workers' = [workers EXCEPT ![w] = Worker("done")]
      /\ caller' \in Callers
  BY DEF EndWorker, IpcInv, IpcTypes, Callers, Woken
<1>2. PICK event : event = [kind |-> "finish"]
  OBVIOUS
<1>3. event \in Events /\ event.kind = "finish" /\ posted' = Post(event)
  BY <1>2, OtherEvents DEF EndWorker
<1>4. workers[w].command = NoCommand
  BY <1>1 DEF CommandThreads
<1>5. IpcTypes'
  BY <1>1, <1>3, EmptyHands, PostKeeps DEF IpcInv, IpcTypes
<1>6. \A v \in Workers : workers'[v] = IF v = w THEN Worker("done") ELSE workers[v]
  BY <1>1
<1>7. \A c \in Connections : InHand(c)' = InHand(c)
  BY <1>4, <1>6, EmptyHands DEF InHand
<1>8. Owed'
  BY <1>1, <1>3, <1>7, OtherEventPosted
<1>9. EndedIsEmpty'
  BY <1>1, <1>6 DEF IpcInv, EndedIsEmpty
<1>10. OffIsAbsent'
  BY <1>1 DEF IpcInv, OffIsAbsent
<1>11. AbsentIsFresh' /\ OpenWhileRunning' /\ InHandIsOpen'
  BY <1>1 DEF IpcInv, AbsentIsFresh, OpenWhileRunning, InHandIsOpen
<1>12. PushesAreDrained'
  BY <1>1, <1>3, PostKeeps DEF IpcInv, PushesAreDrained
<1> QED BY <1>5, <1>8, <1>9, <1>10, <1>11, <1>12 DEF IpcInv

LEMMA TryPublishKeeps ==
    ASSUME IpcInv, NEW key \in Keys, TryPublish(key)
    PROVE  IpcInv'
<1>1. UNCHANGED <<server, caller, loop, posted, clients, commands, workers>> /\ ingress \in Ingresses
  BY DEF TryPublish, IpcInv, IpcTypes
<1>2. \/ ingress' = ingress
      \/ ingress' = [queue |-> Append(ingress.queue, key), flagged |-> TRUE,
                     posting |-> ingress.posting \/ ~ingress.flagged]
  BY DEF TryPublish
<1>3. /\ ingress' \in Ingresses
      /\ ingress'.queue # <<>> => ingress'.flagged
      /\ ingress'.flagged => ingress.flagged \/ ingress'.posting
      /\ ingress.posting => ingress'.posting
  <2>1. CASE ingress' = ingress
    BY <1>1, <2>1 DEF IpcInv, PushesAreDrained
  <2>2. CASE ingress' = [queue |-> Append(ingress.queue, key), flagged |-> TRUE,
                         posting |-> ingress.posting \/ ~ingress.flagged]
    <3>1. Append(ingress.queue, key) \in Seq(Keys) /\ (ingress.posting \/ ~ingress.flagged) \in BOOLEAN
      BY <1>1 DEF Ingresses
    <3> QED BY <1>1, <2>2, <3>1 DEF Ingresses
  <2> QED BY <1>2, <2>1, <2>2
<1>4. IpcTypes'
  BY <1>1, <1>3 DEF IpcInv, IpcTypes
<1>5. Owed'
  BY <1>1 DEF IpcInv, Owed, OwedTo, InQueue, InHand, InPost
<1>6. PushesAreDrained'
  BY <1>1, <1>3 DEF IpcInv, PushesAreDrained
<1>7. AbsentIsFresh' /\ OpenWhileRunning' /\ InHandIsOpen' /\ EndedIsEmpty' /\ OffIsAbsent'
  BY <1>1 DEF IpcInv, AbsentIsFresh, OpenWhileRunning, InHandIsOpen, EndedIsEmpty, OffIsAbsent
<1> QED BY <1>4, <1>5, <1>6, <1>7 DEF IpcInv

LEMMA PostDrainKeeps == IpcInv /\ PostDrain => IpcInv'
<1> SUFFICES ASSUME IpcInv, PostDrain PROVE IpcInv'
  OBVIOUS
<1>1. /\ UNCHANGED <<server, caller, loop, clients, commands, workers>>
      /\ ingress \in Ingresses /\ ingress.posting
      /\ ingress' = IF HasDispatcher THEN [ingress EXCEPT !.posting = FALSE]
                    ELSE [queue |-> <<>>, flagged |-> FALSE, posting |-> FALSE]
  BY DEF PostDrain, IpcInv, IpcTypes
<1>2. PICK event : event = [kind |-> "drain"]
  OBVIOUS
<1>3. event \in Events /\ event.kind = "drain" /\ posted' = Post(event)
  BY <1>2, OtherEvents DEF PostDrain
<1>4. ingress' \in Ingresses
  BY <1>1, EmptySeq DEF Ingresses
<1>5. IpcTypes'
  BY <1>1, <1>3, <1>4, PostKeeps DEF IpcInv, IpcTypes
<1>6. Owed'
  <2>1. \A c \in Connections : InHand(c)' = InHand(c)
    BY <1>1 DEF InHand
  <2> QED BY <1>1, <1>3, <2>1, OtherEventPosted
<1>7. PushesAreDrained'
  <2>1. CASE HasDispatcher
    <3>1. \E i \in DOMAIN posted' : posted'[i].kind = "drain"
      BY <1>3, <2>1, PostKeeps
    <3>2. ingress'.queue = ingress.queue /\ ingress'.flagged = ingress.flagged
      BY <1>1, <2>1 DEF Ingresses
    <3> QED BY <3>1, <3>2 DEF IpcInv, PushesAreDrained
  <2>2. CASE ~HasDispatcher
    BY <1>1, <2>2 DEF PushesAreDrained
  <2> QED BY <2>1, <2>2
<1>8. AbsentIsFresh' /\ OpenWhileRunning' /\ InHandIsOpen' /\ EndedIsEmpty' /\ OffIsAbsent'
  BY <1>1 DEF IpcInv, AbsentIsFresh, OpenWhileRunning, InHandIsOpen, EndedIsEmpty, OffIsAbsent
<1> QED BY <1>5, <1>6, <1>7, <1>8 DEF IpcInv

\* start: every command thread begins with an empty hand.
LEMMA CallStartKeeps == IpcInv /\ CallStart => IpcInv'
<1> SUFFICES ASSUME IpcInv, CallStart PROVE IpcInv'
  OBVIOUS
<1>1. /\ UNCHANGED <<clients, commands, ingress, posted>> /\ loop.phase = "off"
      /\ server' = [started |-> TRUE, stopping |-> FALSE, accepting |-> TRUE]
      /\ workers' = [w \in Workers |-> Worker("waiting")]
      /\ loop' = [loop EXCEPT !.phase = "spawned"]
      /\ caller' = [at |-> "starting", undoing |-> FALSE, result |-> "none"]
  BY DEF CallStart, CallerAt
<1>2. /\ server' \in Servers /\ workers' \in [Workers -> CommandThreads] /\ caller' \in Callers
      /\ loop' \in Loops /\ loop'.phase = "spawned" /\ loop'.request = loop.request
      /\ loop'.draining = loop.draining
  BY <1>1, EmptyHands DEF IpcInv, IpcTypes, Servers, Callers, Loops
<1>3. IpcTypes'
  BY <1>1, <1>2 DEF IpcInv, IpcTypes
<1>4. \A w \in Workers : workers[w].command = NoCommand /\ workers'[w].command = NoCommand
  <2>1. \A w \in Workers : workers[w] \in CommandThreads /\ workers[w].at = "absent"
    BY <1>1 DEF IpcInv, IpcTypes, OffIsAbsent
  <2>2. \A w \in Workers : workers[w].command = NoCommand
    BY <2>1 DEF CommandThreads
  <2> QED BY <1>1, <2>2, EmptyHands
<1>5. Owed'
  <2> SUFFICES ASSUME NEW c \in Connections, clients[c].state # "gone"
               PROVE  OwedTo(c)'
    BY <1>1 DEF Owed
  <2>1. OwedTo(c)
    BY DEF IpcInv, Owed
  <2>2. InHand(c)' = InHand(c)
    BY <1>4 DEF InHand
  <2>3. /\ InQueue("control", c)' = InQueue("control", c)
        /\ InQueue("query", c)' = InQueue("query", c) /\ InPost(c)' = InPost(c)
    BY <1>1 DEF InQueue, InPost
  <2> QED BY <1>1, <2>1, <2>2, <2>3 DEF OwedTo
<1>6. EndedIsEmpty'
  BY <1>1, EmptyHands DEF EndedIsEmpty
<1>7. OffIsAbsent'
  BY <1>2 DEF OffIsAbsent
<1>8. loop.request = NoCommand
  BY <1>1 DEF IpcInv, InHandIsOpen
<1>9. AbsentIsFresh' /\ OpenWhileRunning' /\ InHandIsOpen' /\ PushesAreDrained'
  BY <1>1, <1>2, <1>8 DEF IpcInv, AbsentIsFresh, OpenWhileRunning, InHandIsOpen, PushesAreDrained
<1> QED BY <1>3, <1>5, <1>6, <1>7, <1>9 DEF IpcInv

\* What the caller does but starting and closing the queues: no thread's state
\* changes, and the server takes no more commands than before.
CallerOnly ==
    /\ UNCHANGED <<loop, posted, clients, commands, workers, ingress>>
    /\ server' \in Servers /\ caller' \in Callers
    /\ server'.accepting => server.accepting

LEMMA CallerOnlyKeeps == IpcInv /\ CallerOnly => IpcInv'
<1> SUFFICES ASSUME IpcInv, CallerOnly PROVE IpcInv'
  OBVIOUS
<1>1. IpcTypes'
  BY DEF IpcInv, IpcTypes, CallerOnly
<1>2. Owed'
  BY DEF IpcInv, CallerOnly, Owed, OwedTo, InQueue, InHand, InPost
<1> QED BY <1>1, <1>2 DEF IpcInv, CallerOnly, AbsentIsFresh, OpenWhileRunning, InHandIsOpen,
        EndedIsEmpty, OffIsAbsent, PushesAreDrained

\* The steps of the caller that are CallerOnly.
CallerWaits ==
    StartReturns \/ CallRequestStop \/ MarkStopping \/ CallJoin \/ LookForEnd \/ FallAsleep
    \/ JoinTimesOut(TRUE)

LEMMA CallerWaitsIsCallerOnly == IpcTypes /\ CallerWaits => CallerOnly
<1> SUFFICES ASSUME IpcTypes, CallerWaits PROVE CallerOnly
  OBVIOUS
<1>1. UNCHANGED <<loop, posted, clients, commands, workers, ingress>>
  BY DEF CallerWaits, StartReturns, CallRequestStop, MarkStopping, CallJoin, LookForEnd,
         FallAsleep, JoinTimesOut, CallerAt
<1>2. server \in Servers /\ caller \in Callers
  BY DEF IpcTypes
<1>r. \A result \in {"none", "done", "failed", "timeout"} : Returned(result) \in Callers
  BY DEF Returned, Callers
<1>3. JoinEnds => /\ server' \in Servers /\ caller' \in Callers
                  /\ server'.accepting = server.accepting
  <2>1. JoinEnds => server' \in Servers /\ server'.accepting = server.accepting
    BY <1>2 DEF JoinEnds, Servers
  <2>2. JoinEnds => caller' \in {Returned("failed"), Returned("done")}
    BY DEF JoinEnds
  <2> QED BY <1>r, <2>1, <2>2
<1>4. /\ server' \in Servers /\ caller' \in Callers /\ (server'.accepting => server.accepting)
  <2>1. CASE StartReturns
    <3>1. [caller EXCEPT !.at = "stopping", !.undoing = TRUE] \in Callers
      BY <1>2 DEF Callers
    <3> QED BY <1>2, <1>r, <2>1, <3>1 DEF StartReturns
  <2>2. CASE CallRequestStop
    BY <1>2, <2>2 DEF CallRequestStop, CallerAt, Callers
  <2>3. CASE MarkStopping
    BY <1>2, <2>3 DEF MarkStopping, CallerAt, Callers, Servers
  <2>4. CASE CallJoin
    BY <1>2, <2>4 DEF CallJoin, CallerAt, Callers
  <2>5. CASE LookForEnd
    BY <1>2, <1>3, <2>5 DEF LookForEnd, CallerAt, Callers
  <2>6. CASE FallAsleep
    BY <1>2, <2>6 DEF FallAsleep, CallerAt, Callers
  <2>7. CASE JoinTimesOut(TRUE)
    <3>1. JoinEnds \/ (server' = server /\ caller' \in {Returned("failed"), Returned("timeout")})
      BY <2>7 DEF JoinTimesOut
    <3> QED BY <1>2, <1>3, <1>r, <3>1
  <2> QED BY <2>1, <2>2, <2>3, <2>4, <2>5, <2>6, <2>7 DEF CallerWaits
<1> QED BY <1>1, <1>4 DEF CallerOnly

LEMMA CloseQueuesKeeps == IpcInv /\ CloseQueues => IpcInv'
<1> SUFFICES ASSUME IpcInv, CloseQueues PROVE IpcInv'
  OBVIOUS
<1>1. /\ UNCHANGED <<clients, commands, ingress, loop, workers>>
      /\ server \in Servers /\ caller \in Callers
      /\ server' = [server EXCEPT !.accepting = FALSE]
      /\ caller' = IF caller.undoing THEN [caller EXCEPT !.at = "joining"] ELSE Returned("done")
  BY DEF CloseQueues, CallerAt, IpcInv, IpcTypes
<1>2. PICK event : event = [kind |-> "stop"]
  OBVIOUS
<1>3. event \in Events /\ event.kind = "stop" /\ posted' = Post(event)
  BY <1>2, OtherEvents DEF CloseQueues
<1>4. server' \in Servers /\ caller' \in Callers /\ ~server'.accepting
  BY <1>1 DEF Servers, Callers, Returned
<1>5. IpcTypes'
  BY <1>1, <1>3, <1>4, PostKeeps DEF IpcInv, IpcTypes
<1>6. Owed'
  <2>1. \A c \in Connections : InHand(c)' = InHand(c)
    BY <1>1 DEF InHand
  <2> QED BY <1>1, <1>3, <2>1, OtherEventPosted
<1>7. PushesAreDrained'
  BY <1>1, <1>3, PostKeeps DEF IpcInv, PushesAreDrained
<1>8. AbsentIsFresh' /\ OpenWhileRunning' /\ InHandIsOpen' /\ EndedIsEmpty' /\ OffIsAbsent'
  BY <1>1, <1>4 DEF IpcInv, AbsentIsFresh, OpenWhileRunning, InHandIsOpen, EndedIsEmpty, OffIsAbsent
<1> QED BY <1>5, <1>6, <1>7, <1>8 DEF IpcInv

LEMMA IpcStarts == IpcInit => IpcInv
<1> SUFFICES ASSUME IpcInit PROVE IpcInv
  OBVIOUS
<1>1. IpcTypes
  <2>1. /\ server \in Servers /\ caller \in Callers /\ loop \in Loops /\ ingress \in Ingresses
    BY EmptySeq DEF IpcInit, Servers, Callers, Returned, Loops, Ingresses
  <2>2. posted \in Seq(Events) /\ commands \in [Classes -> Seq(Requests)]
    BY EmptySeq DEF IpcInit
  <2>3. clients \in [Connections -> Clients]
    BY GoneIsClient DEF IpcInit
  <2>4. workers \in [Workers -> CommandThreads]
    BY EmptyHands DEF IpcInit
  <2> QED BY <2>1, <2>2, <2>3, <2>4 DEF IpcTypes
<1>2. Owed
  <2> SUFFICES ASSUME NEW c \in Connections PROVE OwedTo(c)
    BY DEF Owed
  <2>1. \A class \in Classes : InQueue(class, c) = {}
    BY DEF IpcInit, InQueue
  <2>2. InPost(c) = {}
    BY DEF IpcInit, InPost
  <2>3. InHand(c) = {}
    <3>1. \A w \in Workers : workers[w].command = NoCommand
      BY EmptyHands DEF IpcInit
    <3> QED BY <3>1, NoCommandIsNone DEF InHand
  <2>4. clients[c].inFlight = 0
    BY DEF IpcInit, Absent
  <2>5. Cardinality({}) = 0
    BY FS_EmptySet
  <2> QED BY <2>1, <2>2, <2>3, <2>4, <2>5, IpcAssumption DEF OwedTo, Classes
<1>3. AbsentIsFresh /\ OpenWhileRunning
  BY DEF IpcInit, AbsentIsFresh, OpenWhileRunning, Absent
<1>4. InHandIsOpen /\ EndedIsEmpty /\ OffIsAbsent /\ PushesAreDrained
  BY EmptyHands DEF IpcInit, InHandIsOpen, EndedIsEmpty, ClassOf, Classes, OffIsAbsent,
                    PushesAreDrained
<1> QED BY <1>1, <1>2, <1>3, <1>4 DEF IpcInv

LEMMA IpcThreadsKeep == IpcInv /\ IpcThreads => IpcInv'
<1> SUFFICES ASSUME IpcInv, IpcThreads PROVE IpcInv'
  OBVIOUS
<1>1. CASE EventThread
  BY <1>1, SpawnedKeeps, ListenKeeps, ListenFailsKeeps, EnterLoopKeeps, AdmitKeeps, RunPostedKeeps,
     DrainPublishKeeps, QuitLoopKeeps DEF EventThread
<1>2. CASE Peers
  <2> PICK c \in Connections :
          \/ Accept(c) \/ ConnectionEnds(c) \/ Unreadable(c) \/ BytesWritten(c)
          \/ \E id \in NextIds(clients[c]), class \in Classes : HandleFrame(c, id, class)
    BY <1>2 DEF Peers
  <2>1. CASE Accept(c)
    BY <2>1, AcceptKeeps
  <2>2. CASE ConnectionEnds(c)
    BY <2>2, ConnectionEndsKeeps
  <2>3. CASE Unreadable(c)
    BY <2>3, UnreadableKeeps
  <2>4. CASE BytesWritten(c)
    BY <2>4, BytesWrittenKeeps
  <2>5. CASE \E id \in NextIds(clients[c]), class \in Classes : HandleFrame(c, id, class)
    <3> PICK id \in NextIds(clients[c]), class \in Classes : HandleFrame(c, id, class)
      BY <2>5
    <3>1. id \in RequestIds
      BY DEF NextIds
    <3> QED BY <3>1, HandleFrameKeeps
  <2> QED BY <2>1, <2>2, <2>3, <2>4, <2>5
<1>3. CASE PostDrain
  BY <1>3, PostDrainKeeps
<1>4. ASSUME NEW w \in Workers, CommandThread(w) PROVE IpcInv'
  BY <1>4, TakeCommandKeeps, HandleCommandKeeps, EndWorkerKeeps DEF CommandThread
<1>5. ASSUME NEW key \in Keys, TryPublish(key) PROVE IpcInv'
  BY <1>5, TryPublishKeeps
<1> QED BY <1>1, <1>2, <1>3, <1>4, <1>5 DEF IpcThreads

LEMMA IpcNextKeeps == IpcInv /\ [IpcNext]_ipcVars => IpcInv'
<1> SUFFICES ASSUME IpcInv, [IpcNext]_ipcVars PROVE IpcInv'
  OBVIOUS
<1>1. CASE IpcThreads
  BY <1>1, IpcThreadsKeep
<1>2. CASE CallStart
  BY <1>2, CallStartKeeps
<1>3. CASE CloseQueues
  BY <1>3, CloseQueuesKeeps
<1>4. CASE CallerWaits
  BY <1>4, CallerWaitsIsCallerOnly, CallerOnlyKeeps DEF IpcInv
<1>5. CASE UNCHANGED ipcVars
  <2>1. CallerOnly
    BY <1>5 DEF ipcVars, CallerOnly, IpcInv, IpcTypes
  <2> QED BY <2>1, CallerOnlyKeeps
<1> QED BY <1>1, <1>2, <1>3, <1>4, <1>5 DEF IpcNext, Caller, CallerWaits

LEMMA NothingIsStranded == IpcInv => NothingStranded
<1> SUFFICES ASSUME IpcInv PROVE NothingStranded
  OBVIOUS
<1>1. \A c \in Open : OwedTo(c)
  BY DEF IpcInv, Owed, Open
<1>2. ASSUME NEW class \in Classes, commands[class] # <<>>
      PROVE  \E w \in Workers : ClassOf(w) = class /\ workers[w].at \in {"waiting", "handling"}
  <2>1. PICK w \in Workers : ClassOf(w) = class
    BY IpcAssumption DEF Classes, Workers, ClassOf
  <2>2. workers[w] \in CommandThreads /\ workers[w].at \notin {"absent", "done"}
    BY <1>2, <2>1 DEF IpcInv, IpcTypes, EndedIsEmpty
  <2> QED BY <2>1, <2>2 DEF CommandThreads
<1>3. ingress.queue # <<>> =>
          \/ ingress.posting \/ loop.draining \/ loop.phase = "ended"
          \/ \E i \in DOMAIN posted : posted[i].kind = "drain"
  BY DEF IpcInv, PushesAreDrained
<1> QED BY <1>1, <1>2, <1>3 DEF NothingStranded

\* What a connection counts in flight is exactly what is queued, executed and
\* posted for it; a queued command has a live thread of its class; a push that
\* was taken has a drain coming: for every number of connections, threads and
\* frames, every limit, and whatever handle_frame, the command threads, the
\* publishers and the stop interleave to
THEOREM NothingStrandedAlways == IpcSpec => []NothingStranded
<1>1. IpcInit => IpcInv
  BY IpcStarts
<1>2. IpcInv /\ [IpcNext]_ipcVars => IpcInv'
  BY IpcNextKeeps
<1>3. IpcInv => NothingStranded
  BY NothingIsStranded
<1> QED BY <1>1, <1>2, <1>3, PTL DEF IpcSpec

-----------------------------------------------------------------------------
(* The service *)

\* What the service does to its server is what a server by itself may do.
LEMMA CallerIsPatient ==
    ASSUME NEW overdue, Caller(overdue)
    PROVE  Caller(TRUE)
BY DEF Caller, JoinTimesOut

LEMMA HostStepIsIpcStep == [HostNext]_hostVars => [IpcNext]_ipcVars
<1> SUFFICES ASSUME [HostNext]_hostVars PROVE IpcNext \/ UNCHANGED ipcVars
  OBVIOUS
<1>1. CASE ServiceMain
  <2>1. CASE CreateService \/ CheckSlot \/ BeginStart \/ EndStart
    BY <2>1 DEF CreateService, CheckSlot, BeginStart, EndStart
  <2>2. CASE AfterStart \/ StopServing \/ Shutdown \/ ReportStopped
    BY <2>2 DEF AfterStart, StopServing, Shutdown, ReportStopped
  <2>3. CASE StartNext
    BY <2>3 DEF StartNext, IpcNext
  <2>4. CASE IpcStarted
    BY <2>4 DEF IpcStarted
  <2>5. CASE StopComponent
    BY <2>5 DEF StopComponent, IpcNext
  <2>6. CASE JoinComponent \/ JoinGivesUp
    BY <2>6 DEF JoinComponent, JoinGivesUp, IpcNext
  <2>7. CASE IpcStopAsked \/ AllAsked \/ IpcJoined \/ Unwound
    BY <2>7 DEF IpcStopAsked, AllAsked, IpcJoined, Unwound
  <2>8. CASE Caller(winding.overdue) /\ UNCHANGED serviceVars
    BY <2>8, CallerIsPatient DEF IpcNext
  <2> QED BY <1>1, <2>1, <2>2, <2>3, <2>4, <2>5, <2>6, <2>7, <2>8 DEF ServiceMain, Wait
<1>2. CASE Relay \/ DeadlinePasses \/ \E reason \in Reasons : Control(reason)
  BY <1>2 DEF Relay, DeadlinePasses, Control
<1>3. CASE Server
  BY <1>3 DEF Server, IpcNext
<1>4. CASE ComponentReturns
  BY <1>4 DEF ComponentReturns, OtherStarted, OtherJoined
<1>5. CASE UNCHANGED hostVars
  BY <1>5 DEF hostVars
<1> QED BY <1>1, <1>2, <1>3, <1>4, <1>5 DEF HostNext

\* The service uses its server as IpcSpec allows: whatever holds of a server
\* that is started, stopped and joined at any moment holds of this one
THEOREM ServiceImplementsServer == HostSpec => IpcSpec
<1>1. HostInit => IpcInit
  BY DEF HostInit
<1>2. [HostNext]_hostVars => [IpcNext]_ipcVars
  BY HostStepIsIpcStep
<1> QED BY <1>1, <1>2, PTL DEF HostSpec, IpcSpec

\* Nothing is stranded in the service either
THEOREM ServiceStrandsNothing == HostSpec => []NothingStranded
BY ServiceImplementsServer, NothingStrandedAlways, PTL

LEMMA LeastOf ==
    ASSUME NEW S, S \subseteq Nat, S # {}
    PROVE  \E m \in S : \A n \in S : m <= n
<1> DEFINE less == {pair \in Nat \X Nat : pair[1] < pair[2]}
<1>1. IsWellFoundedOn(less, Nat)
  BY NatLessThanWellFounded DEF OpToRel
<1> HIDE DEF less
<1>2. \E m \in S : \A n \in S : <<n, m>> \notin less
  BY <1>1, WFMin
<1>3. ASSUME NEW m \in S, NEW n \in S, <<n, m>> \notin less
      PROVE  m <= n
  <2>1. m \in Nat /\ n \in Nat /\ <<n, m>> \in Nat \X Nat
    OBVIOUS
  <2>2. ~(n < m)
    BY <1>3, <2>1 DEF less
  <2> QED BY <2>1, <2>2
<1> QED BY <1>2, <1>3

\* Whose turn it is, is one of those that are left.
LEMMA TurnIsLeft ==
    ASSUME NEW rest, rest \subseteq Indices, rest # {}, NEW why
    PROVE  Turn(rest, why) \in rest
<1> DEFINE phaseOf(i) == Phase[Components[i]]
           first == {i \in rest : \A j \in rest : phaseOf(i) <= phaseOf(j)}
           candidates == IF why = "shutdown" THEN first ELSE rest
<1>1. /\ \A i \in rest : i \in Nat /\ i <= Len(Components) /\ phaseOf(i) \in Nat
      /\ Len(Components) \in Nat
  BY HostAssumption DEF Indices
<1>2. first # {}
  <2> DEFINE phases == {phaseOf(i) : i \in rest}
  <2>1. phases \subseteq Nat /\ phases # {}
    BY <1>1
  <2> HIDE DEF phases
  <2>2. PICK m \in phases : \A n \in phases : m <= n
    BY <2>1, LeastOf
  <2>3. PICK i \in rest : m = phaseOf(i)
    BY DEF phases
  <2>4. \A j \in rest : phaseOf(j) \in phases
    BY DEF phases
  <2>5. \A j \in rest : phaseOf(i) <= phaseOf(j)
    BY <2>2, <2>3, <2>4
  <2> QED BY <2>5
<1>3. candidates # {} /\ candidates \subseteq rest
  BY <1>2
<1> HIDE DEF candidates
<1>4. \E i \in candidates : \A j \in candidates : j <= i
  <2> DEFINE left == {Len(Components) - i : i \in candidates}
  <2>1. left \subseteq Nat /\ left # {}
    BY <1>1, <1>3
  <2> HIDE DEF left
  <2>2. PICK m \in left : \A n \in left : m <= n
    BY <2>1, LeastOf
  <2>3. PICK i \in candidates : m = Len(Components) - i
    BY DEF left
  <2>4. \A j \in candidates : Len(Components) - j \in left
    BY DEF left
  <2>5. \A j \in candidates : Len(Components) - i <= Len(Components) - j
    BY <2>2, <2>3, <2>4
  <2>6. \A j \in candidates : j <= i
    BY <1>1, <1>3, <2>5
  <2> QED BY <2>6
<1>5. Turn(rest, why) = CHOOSE i \in candidates : \A j \in candidates : j <= i
  BY DEF Turn, candidates
<1>6. Turn(rest, why) \in candidates
  BY <1>4, <1>5
<1> QED BY <1>3, <1>6

Hosts == [at : {"creating", "created", "starting", "in start", "winding", "started", "serving",
                "shutting down", "ending", "reported"},
          published : BOOLEAN, result : {"none", "start failed", "stopped", "stop failed"}]
Runtimes == [state : {"created", "starting", "running", "stop requested", "draining", "stopped",
                      "failed"},
             cancel : BOOLEAN, started : SUBSET Indices, next : Nat]
Windings == [doing : {"nothing", "stopping", "in request_stop", "joining", "in join",
                      "in component join"},
             rest : SUBSET Indices, all : SUBSET Indices,
             why : {"none", "cancelled", "start failed", "shutdown"},
             error : BOOLEAN, overdue : BOOLEAN]

\* service_main is in a component's request_stop or join.
InCall == {"in request_stop", "in join", "in component join"}

HostTypes ==
    /\ host \in Hosts /\ runtime \in Runtimes /\ winding \in Windings
    /\ components \in [Indices -> {"off", "starting", "running", "failed", "stopping", "over"}]

\* A rollback or shutdown is about all that started, and is what service_main
\* does while it lasts.
WindingHolds ==
    /\ host.at = "winding" <=> winding.doing # "nothing"
    /\ winding.doing # "nothing" => winding.rest \subseteq winding.all /\ winding.all = runtime.started
    /\ winding.doing \in InCall => winding.rest # {}

\* A component that did anything has started, or is being started.
StartedIsKept ==
    /\ host.at = "in start" => runtime.next \in Indices
    /\ \A i \in Indices :
          \/ components[i] \in {"off", "failed"} \/ i \in runtime.started
          \/ host.at = "in start" /\ i = runtime.next

\* What was waited for without an error is over.
JoinedIsOver ==
    winding.doing \in {"joining", "in join", "in component join"} /\ ~winding.error =>
        \A i \in winding.all : i \in winding.rest \/ components[i] = "over"

\* The wait for the server returns well only when its threads are over ...
JoinReturns ==
    winding.doing = "in join" =>
        \/ caller.at \in {"joining", "dozing", "asleep"} /\ ~caller.undoing
        \/ caller.at = "outside" /\ (caller.result = "done" => AllOver)

\* ... and then they stay so.
OverIsOver == \A i \in Indices : IsIpc(i) /\ components[i] = "over" => AllOver

StoppedStays ==
    runtime.state = "stopped" =>
        /\ host.at \in {"started", "serving", "shutting down", "ending", "reported"}
        /\ \A i \in Indices : components[i] \in {"off", "failed", "over"}

HostInv ==
    /\ HostTypes /\ WindingHolds /\ StartedIsKept /\ JoinedIsOver /\ JoinReturns /\ OverIsOver
    /\ StoppedStays

\* CommandThreads that are over stay over.
LEMMA OverStays ==
    ASSUME IpcTypes, AllOver, [IpcNext]_ipcVars
    PROVE  AllOver'
<1>1. loop.phase = "ended" /\ \A w \in Workers : workers[w].at = "done"
  BY DEF AllOver, WorkersDone
<1>2. UNCHANGED workers
  <2>1. CASE \E w \in Workers : CommandThread(w)
    BY <1>1, <2>1 DEF CommandThread, TakeCommand, HandleCommand, EndWorker
  <2>2. CASE EventThread
    BY <2>2 DEF EventThread, Spawned, Listen, ListenFails, EnterLoop, Admit, RunPosted,
                DrainPublish, QuitLoop
  <2>3. CASE Peers
    BY <2>3 DEF Peers, Accept, ConnectionEnds, Unreadable, BytesWritten, HandleFrame, Frame
  <2>4. CASE PostDrain \/ \E key \in Keys : TryPublish(key)
    BY <2>4 DEF PostDrain, TryPublish
  <2>5. CASE Caller(TRUE) \/ CallRequestStop \/ CallJoin
    BY <2>5 DEF Caller, StartReturns, MarkStopping, CloseQueues, LookForEnd, FallAsleep,
                JoinTimesOut, CallRequestStop, CallJoin
  <2>6. CASE CallStart
    BY <1>1, <2>6 DEF CallStart
  <2>7. CASE UNCHANGED ipcVars
    BY <2>7 DEF ipcVars
  <2> QED BY <2>1, <2>2, <2>3, <2>4, <2>5, <2>6, <2>7 DEF IpcNext, IpcThreads
<1>3. UNCHANGED loop
  <2>1. CASE \E w \in Workers : CommandThread(w)
    BY <2>1 DEF CommandThread, TakeCommand, HandleCommand, EndWorker
  <2>2. CASE EventThread
    BY <1>1, <2>2 DEF EventThread, Spawned, Listen, ListenFails, EnterLoop, Admit, RunPosted,
                DrainPublish, QuitLoop, AtLoop
  <2>3. CASE Peers
    BY <1>1, <2>3 DEF Peers, Accept, ConnectionEnds, Unreadable, BytesWritten, HandleFrame, Frame, AtLoop
  <2>4. CASE PostDrain \/ \E key \in Keys : TryPublish(key)
    BY <2>4 DEF PostDrain, TryPublish
  <2>5. CASE Caller(TRUE) \/ CallRequestStop \/ CallJoin
    BY <2>5 DEF Caller, StartReturns, MarkStopping, CloseQueues, LookForEnd, FallAsleep,
                JoinTimesOut, CallRequestStop, CallJoin, CallerAt
  <2>6. CASE CallStart
    BY <1>1, <2>6 DEF CallStart
  <2>7. CASE UNCHANGED ipcVars
    BY <2>7 DEF ipcVars
  <2> QED BY <2>1, <2>2, <2>3, <2>4, <2>5, <2>6, <2>7 DEF IpcNext, IpcThreads
<1> QED BY <1>2, <1>3 DEF AllOver, WorkersDone

\* The caller's wait goes on, or ends as it may, whatever the server's threads
\* and the caller do.
LEMMA JoinGoesOn ==
    ASSUME IpcTypes, JoinReturns, UNCHANGED winding, AllOver => AllOver',
           IpcThreads \/ Caller(winding.overdue) \/ UNCHANGED ipcVars
    PROVE  JoinReturns'
<1> SUFFICES ASSUME winding.doing = "in join"
             PROVE  \/ caller'.at \in {"joining", "dozing", "asleep"} /\ ~caller'.undoing
                    \/ caller'.at = "outside" /\ (caller'.result = "done" => AllOver')
  BY DEF JoinReturns
<1>0. caller \in Callers
  BY DEF IpcTypes
<1>1. \/ caller.at \in {"joining", "dozing", "asleep"} /\ ~caller.undoing
      \/ caller.at = "outside" /\ (caller.result = "done" => AllOver)
  BY DEF JoinReturns
<1>2. CASE IpcThreads
  <2>1. caller' = caller \/ caller' = [caller EXCEPT !.at = Woken(caller.at)]
    <3>1. CASE \E w \in Workers : CommandThread(w)
      BY <3>1 DEF CommandThread, TakeCommand, HandleCommand, EndWorker
    <3>2. CASE EventThread
      BY <3>2 DEF EventThread, Spawned, Listen, ListenFails, EnterLoop, Admit, RunPosted,
                  DrainPublish, QuitLoop
    <3>3. CASE Peers
      BY <3>3 DEF Peers, Accept, ConnectionEnds, Unreadable, BytesWritten, HandleFrame, Frame
    <3>4. CASE PostDrain \/ \E key \in Keys : TryPublish(key)
      BY <3>4 DEF PostDrain, TryPublish
    <3> QED BY <1>2, <3>1, <3>2, <3>3, <3>4 DEF IpcThreads
  <2>2. CASE caller' = caller
    BY <1>1, <2>2
  <2>3. CASE caller' = [caller EXCEPT !.at = Woken(caller.at)]
    <3>1. /\ caller'.at = Woken(caller.at) /\ caller'.undoing = caller.undoing
          /\ caller'.result = caller.result
      BY <1>0, <2>3 DEF Callers
    <3> QED BY <1>1, <3>1 DEF Woken
  <2> QED BY <2>1, <2>2, <2>3
<1>3. CASE Caller(winding.overdue)
  <2>0. /\ UNCHANGED <<loop, workers>> \/ CloseQueues
        /\ \A result : /\ Returned(result).at = "outside" /\ Returned(result).result = result
    BY <1>3 DEF Caller, StartReturns, MarkStopping, CloseQueues, LookForEnd, FallAsleep,
                JoinTimesOut, CallerAt, Returned
  <2>1. CASE StartReturns \/ MarkStopping \/ CloseQueues
    BY <1>1, <2>1 DEF StartReturns, MarkStopping, CloseQueues, CallerAt
  <2>2. CASE LookForEnd
    <3>1. CASE AllOver
      BY <1>1, <2>0, <2>2, <3>1 DEF LookForEnd, JoinEnds, CallerAt
    <3>2. CASE ~AllOver
      <4>1. caller' = [caller EXCEPT !.at = "dozing"] /\ caller.at = "joining"
        BY <2>2, <3>2 DEF LookForEnd, CallerAt
      <4> QED BY <1>0, <1>1, <4>1 DEF Callers
    <3> QED BY <3>1, <3>2
  <2>3. CASE FallAsleep
    <3>1. caller' = [caller EXCEPT !.at = "asleep"] /\ caller.at = "dozing"
      BY <2>3 DEF FallAsleep, CallerAt
    <3> QED BY <1>0, <1>1, <3>1 DEF Callers
  <2>4. CASE JoinTimesOut(winding.overdue)
    <3>0. caller.at = "asleep" /\ ~caller.undoing
      BY <1>1, <2>4 DEF JoinTimesOut, CallerAt
    <3>1. CASE AllOver
      BY <2>0, <2>4, <3>0, <3>1 DEF JoinTimesOut, JoinEnds
    <3>2. CASE ~AllOver
      <4>1. caller' = Returned("timeout")
        BY <2>4, <3>0, <3>2 DEF JoinTimesOut
      <4> QED BY <2>0, <4>1
    <3> QED BY <3>1, <3>2
  <2> QED BY <1>3, <2>1, <2>2, <2>3, <2>4 DEF Caller
<1>4. CASE UNCHANGED ipcVars
  BY <1>1, <1>4 DEF ipcVars
<1> QED BY <1>2, <1>3, <1>4

AfterStopped == {"started", "serving", "shutting down", "ending", "reported"}

\* Steps that leave what is wound up and the components as they are.
LEMMA PlainStepKeeps ==
    ASSUME HostInv, AllOver => AllOver', JoinReturns', UNCHANGED <<winding, components>>,
           host' \in Hosts, runtime' \in Runtimes,
           runtime'.started = runtime.started, runtime'.next = runtime.next,
           host'.at = "winding" <=> host.at = "winding",
           host'.at = "in start" <=> host.at = "in start",
           runtime'.state = "stopped" => runtime.state = "stopped" /\ host'.at \in AfterStopped
    PROVE  HostInv'
<1>1. HostTypes'
  BY DEF HostInv, HostTypes
<1>2. WindingHolds'
  BY DEF HostInv, WindingHolds
<1>3. StartedIsKept' /\ JoinedIsOver'
  BY DEF HostInv, StartedIsKept, JoinedIsOver
<1>4. OverIsOver' /\ StoppedStays'
  BY DEF HostInv, OverIsOver, StoppedStays, AfterStopped
<1> QED BY <1>1, <1>2, <1>3, <1>4 DEF HostInv

\* A rollback or a shutdown begins.
LEMMA UndoKeeps ==
    ASSUME HostInv, AllOver => AllOver', HostTypes', NEW why,
           Undo(runtime'.started, why), why # "none", runtime'.state # "stopped",
           OverIsOver',
           \A i \in Indices : components'[i] \in {"off", "failed"} \/ i \in runtime'.started
    PROVE  HostInv'
<1>1. /\ winding'.doing = "stopping" /\ winding'.rest = runtime'.started
      /\ winding'.all = runtime'.started
  BY DEF Undo, Wind
<1>2. host'.at = "winding"
  BY DEF Undo, HostInv, HostTypes, Hosts
<1>3. WindingHolds'
  BY <1>1, <1>2 DEF WindingHolds, InCall
<1>4. StartedIsKept'
  BY <1>2 DEF StartedIsKept
<1>5. JoinedIsOver' /\ JoinReturns' /\ StoppedStays'
  BY <1>1 DEF JoinedIsOver, JoinReturns, StoppedStays
<1> QED BY <1>3, <1>4, <1>5 DEF HostInv

\* What the new rollback or shutdown is made of.
LEMMA WoundIsTyped ==
    ASSUME HostInv, NEW all \in SUBSET Indices,
           NEW why \in {"cancelled", "start failed", "shutdown"}, Undo(all, why)
    PROVE  host' \in Hosts /\ winding' \in Windings
BY DEF Undo, Wind, HostInv, HostTypes, Hosts, Windings

LEMMA StopRequestedTypes ==
    ASSUME HostInv
    PROVE  /\ StopRequested \in Runtimes /\ StopRequested.started = runtime.started
           /\ StopRequested.next = runtime.next
           /\ StopRequested.state = "stopped" <=> runtime.state = "stopped"
<1>1. PICK state : state = IF runtime.state \in {"starting", "running"} THEN "stop requested"
                           ELSE runtime.state
  OBVIOUS
<1>2. runtime \in Runtimes
  BY DEF HostInv, HostTypes
<1>3. StopRequested = [runtime EXCEPT !.cancel = TRUE, !.state = state]
  BY <1>1, <1>2 DEF StopRequested, Runtimes
<1>4. state \in {"created", "starting", "running", "stop requested", "draining", "stopped", "failed"}
  BY <1>1, <1>2 DEF Runtimes
<1>5. state = "stopped" <=> runtime.state = "stopped"
  BY <1>1
<1> QED BY <1>2, <1>3, <1>4, <1>5 DEF Runtimes

\* The control handler, the deadline and the server's own steps.
LEMMA OthersKeep ==
    ASSUME IpcInv, HostInv, [HostNext]_hostVars,
           \/ Relay \/ Server \/ UNCHANGED hostVars
           \/ \E reason \in Reasons : Control(reason)
           \/ Caller(winding.overdue) /\ UNCHANGED serviceVars
    PROVE  HostInv'
<1>1. AllOver => AllOver'
  BY OverStays, HostStepIsIpcStep DEF IpcInv
<1>2. /\ UNCHANGED <<winding, components, host>>
      /\ runtime' = runtime \/ runtime' = StopRequested
      /\ IpcThreads \/ Caller(winding.overdue) \/ UNCHANGED ipcVars
  BY DEF Relay, Server, hostVars, Control, serviceVars
<1>3. JoinReturns'
  BY <1>1, <1>2, JoinGoesOn DEF IpcInv, HostInv
<1>4. /\ runtime' \in Runtimes /\ runtime'.started = runtime.started
      /\ runtime'.next = runtime.next /\ (runtime'.state = "stopped" => runtime.state = "stopped")
  BY <1>2, StopRequestedTypes DEF HostInv, HostTypes
<1>5. host' \in Hosts /\ (runtime.state = "stopped" => host'.at \in AfterStopped)
  BY <1>2 DEF HostInv, HostTypes, StoppedStays, AfterStopped
<1> QED BY <1>1, <1>2, <1>3, <1>4, <1>5, PlainStepKeeps

LEMMA DeadlineKeeps ==
    ASSUME IpcInv, HostInv, DeadlinePasses
    PROVE  HostInv'
<1>1. /\ UNCHANGED <<ipcVars, host, runtime, components>>
      /\ winding' = [winding EXCEPT !.overdue = TRUE] /\ winding \in Windings
  BY DEF DeadlinePasses, HostInv, HostTypes
<1>2. /\ winding' \in Windings /\ winding'.doing = winding.doing /\ winding'.rest = winding.rest
      /\ winding'.all = winding.all /\ winding'.error = winding.error
  BY <1>1 DEF Windings
<1>3. HostTypes' /\ WindingHolds' /\ StartedIsKept' /\ JoinedIsOver'
  BY <1>1, <1>2 DEF HostInv, HostTypes, WindingHolds, StartedIsKept, JoinedIsOver
<1>4. AllOver' = AllOver /\ caller' = caller
  BY <1>1 DEF AllOver, WorkersDone, ipcVars
<1>5. JoinReturns' /\ OverIsOver' /\ StoppedStays'
  BY <1>1, <1>2, <1>4 DEF HostInv, JoinReturns, OverIsOver, StoppedStays
<1> QED BY <1>3, <1>5 DEF HostInv

\* service_main's steps that neither start a component nor wind up.
LEMMA MainKeeps ==
    ASSUME IpcInv, HostInv,
           \/ CreateService \/ CheckSlot \/ BeginStart \/ AfterStart \/ StopServing \/ ReportStopped
           \/ EndStart /\ runtime.state = "starting"
           \/ Shutdown /\ runtime.state = "stopped"
    PROVE  HostInv'
<1>0. host \in Hosts /\ runtime \in Runtimes
  BY DEF HostInv, HostTypes
<1>1. UNCHANGED <<ipcVars, winding, components>>
  BY DEF CreateService, CheckSlot, BeginStart, AfterStart, StopServing, ReportStopped, EndStart,
         Shutdown
<1>2. AllOver' = AllOver /\ caller' = caller
  BY <1>1 DEF AllOver, WorkersDone, ipcVars
<1>3. JoinReturns'
  BY <1>1, <1>2 DEF HostInv, JoinReturns
<1>4. \A result \in {"start failed", "stopped", "stop failed"} :
          Reported(result) \in Hosts /\ Reported(result).at = "reported"
  BY DEF Reported, Hosts
<1>5. \A place \in {"created", "starting", "started", "serving", "shutting down", "ending"} :
          [host EXCEPT !.at = place] \in Hosts /\ [host EXCEPT !.at = place].at = place
  BY <1>0 DEF Hosts
<1>6. [host EXCEPT !.at = "created", !.published = TRUE] \in Hosts
      /\ [host EXCEPT !.at = "created", !.published = TRUE].at = "created"
  BY <1>0 DEF Hosts
<1>7. /\ StopRequested \in Runtimes /\ StopRequested.started = runtime.started
      /\ StopRequested.next = runtime.next
      /\ StopRequested.state = "stopped" <=> runtime.state = "stopped"
  BY StopRequestedTypes
<1>8. \A state \in {"starting", "running"} :
          /\ [runtime EXCEPT !.state = state] \in Runtimes
          /\ [runtime EXCEPT !.state = state].started = runtime.started
          /\ [runtime EXCEPT !.state = state].next = runtime.next
          /\ [runtime EXCEPT !.state = state].state = state
  BY <1>0 DEF Runtimes
<1>9. runtime.state = "stopped" => host.at \in AfterStopped
  BY DEF HostInv, StoppedStays, AfterStopped
<1> DEFINE goal ==
      /\ host' \in Hosts /\ runtime' \in Runtimes
      /\ runtime'.started = runtime.started /\ runtime'.next = runtime.next
      /\ host'.at = "winding" <=> host.at = "winding"
      /\ host'.at = "in start" <=> host.at = "in start"
      /\ runtime'.state = "stopped" => runtime.state = "stopped" /\ host'.at \in AfterStopped
<1>10. CASE CreateService
  <2>1. /\ host.at = "creating" /\ runtime' = runtime
        /\ host' \in {Reported("start failed"), [host EXCEPT !.at = "created", !.published = TRUE]}
    BY <1>10 DEF CreateService, HostAt
  <2>2. goal
    BY <1>0, <1>4, <1>6, <1>9, <2>1 DEF AfterStopped
  <2> QED BY <1>1, <1>2, <1>3, <2>2, PlainStepKeeps
<1>11. CASE CheckSlot
  <2>1. /\ host.at = "created" /\ runtime' \in {runtime, StopRequested}
        /\ host' = [host EXCEPT !.at = "starting"]
    BY <1>11 DEF CheckSlot, HostAt
  <2>2. goal
    BY <1>0, <1>5, <1>7, <1>9, <2>1 DEF AfterStopped
  <2> QED BY <1>1, <1>2, <1>3, <2>2, PlainStepKeeps
<1>12. CASE BeginStart
  <2>1. host' = host /\ runtime' = [runtime EXCEPT !.state = "starting"]
    BY <1>12 DEF BeginStart, HostAt
  <2>2. goal
    BY <1>0, <1>8, <2>1
  <2> QED BY <1>1, <1>2, <1>3, <2>2, PlainStepKeeps
<1>13. CASE AfterStart
  <2>1. /\ host.at = "started"
        /\ \/ runtime.state = "failed" /\ host' = Reported("start failed") /\ runtime' = runtime
           \/ /\ host' = [host EXCEPT !.at = "serving"]
              /\ runtime' \in {runtime, StopRequested}
    BY <1>13 DEF AfterStart, HostAt
  <2>2. goal
    BY <1>0, <1>4, <1>5, <1>7, <2>1 DEF AfterStopped
  <2> QED BY <1>1, <1>2, <1>3, <2>2, PlainStepKeeps
<1>14. CASE StopServing
  <2>1. /\ host.at = "serving" /\ runtime' = StopRequested
        /\ host' = [host EXCEPT !.at = "shutting down"]
    BY <1>14 DEF StopServing, HostAt
  <2>2. goal
    BY <1>5, <1>7, <2>1 DEF AfterStopped
  <2> QED BY <1>1, <1>2, <1>3, <2>2, PlainStepKeeps
<1>15. CASE ReportStopped
  <2>1. /\ host.at = "ending" /\ runtime' = runtime
        /\ host' \in {Reported("stopped"), Reported("stop failed")}
    BY <1>15 DEF ReportStopped, HostAt
  <2>2. goal
    BY <1>0, <1>4, <2>1 DEF AfterStopped
  <2> QED BY <1>1, <1>2, <1>3, <2>2, PlainStepKeeps
<1>16. CASE EndStart /\ runtime.state = "starting"
  <2>1. /\ host.at = "starting" /\ runtime' = [runtime EXCEPT !.state = "running"]
        /\ host' = [host EXCEPT !.at = "started"]
    BY <1>16 DEF EndStart, HostAt
  <2>2. goal
    BY <1>5, <1>8, <2>1
  <2> QED BY <1>1, <1>2, <1>3, <2>2, PlainStepKeeps
<1>17. CASE Shutdown /\ runtime.state = "stopped"
  <2>1. /\ host.at = "shutting down" /\ runtime' = runtime
        /\ host' = [host EXCEPT !.at = "ending"]
    BY <1>17 DEF Shutdown, HostAt
  <2>2. goal
    BY <1>0, <1>5, <2>1 DEF AfterStopped
  <2> QED BY <1>1, <1>2, <1>3, <2>2, PlainStepKeeps
<1> QED BY <1>10, <1>11, <1>12, <1>13, <1>14, <1>15, <1>16, <1>17

\* A shutdown of a service that is not stopped yet, and the rollback of a start
\* that was asked to stop after its last component.
LEMMA UndoingKeeps ==
    ASSUME IpcInv, HostInv,
           \/ Shutdown /\ runtime.state # "stopped"
           \/ EndStart /\ runtime.state # "starting"
    PROVE  HostInv'
<1>0. host \in Hosts /\ runtime \in Runtimes
  BY DEF HostInv, HostTypes
<1>1. UNCHANGED <<ipcVars, components>>
  BY DEF EndStart, Shutdown
<1>2. AllOver' = AllOver /\ caller' = caller
  BY <1>1 DEF AllOver, WorkersDone, ipcVars
<1>3. OverIsOver'
  BY <1>1, <1>2 DEF HostInv, OverIsOver
<1>4. /\ host.at \in {"shutting down", "starting"} /\ runtime' \in Runtimes
      /\ runtime'.started = runtime.started /\ runtime'.state # "stopped"
      /\ Undo(runtime.started, "shutdown") \/ Undo(runtime.started, "cancelled")
  <2>1. CASE Shutdown /\ runtime.state # "stopped"
    <3>1. /\ runtime' = [runtime EXCEPT !.state = "draining"] /\ host.at = "shutting down"
          /\ Undo(runtime.started, "shutdown")
      BY <2>1 DEF Shutdown, HostAt
    <3> QED BY <1>0, <3>1 DEF Runtimes
  <2>2. CASE EndStart /\ runtime.state # "starting"
    <3>1. runtime' = runtime /\ host.at = "starting" /\ Undo(runtime.started, "cancelled")
      BY <2>2 DEF EndStart, HostAt
    <3>2. runtime.state # "stopped"
      BY <3>1 DEF HostInv, StoppedStays
    <3> QED BY <1>0, <3>1, <3>2
  <2> QED BY <2>1, <2>2
<1>5. runtime.started \in SUBSET Indices
  BY <1>0 DEF Runtimes
<1>6. PICK why \in {"shutdown", "cancelled"} : Undo(runtime.started, why)
  BY <1>4
<1>7. host' \in Hosts /\ winding' \in Windings
  BY <1>5, <1>6, WoundIsTyped
<1>8. HostTypes'
  BY <1>1, <1>4, <1>7 DEF HostInv, HostTypes
<1>9. \A i \in Indices : components'[i] \in {"off", "failed"} \/ i \in runtime'.started
  BY <1>1, <1>4 DEF HostInv, StartedIsKept
<1>10. Undo(runtime'.started, why)
  BY <1>4, <1>6
<1> QED BY <1>2, <1>3, <1>4, <1>6, <1>8, <1>9, <1>10, UndoKeeps

\* A component's start begins, or the start is rolled back before it.
LEMMA StartNextKeeps ==
    ASSUME IpcInv, HostInv, [HostNext]_hostVars, StartNext
    PROVE  HostInv'
<1>0. /\ host \in Hosts /\ runtime \in Runtimes /\ runtime' = runtime
      /\ components \in [Indices -> {"off", "starting", "running", "failed", "stopping", "over"}]
      /\ host.at = "starting" /\ runtime.next \in Indices
  BY DEF HostInv, HostTypes, StartNext, HostAt
<1>1. AllOver => AllOver'
  BY OverStays, HostStepIsIpcStep DEF IpcInv
<1>2. runtime.state # "stopped" /\ winding.doing = "nothing" /\ winding \in Windings
  BY <1>0 DEF HostInv, HostTypes, StoppedStays, WindingHolds, Windings
<1>3. CASE runtime.cancel
  <2>1. Undo(runtime.started, "cancelled") /\ UNCHANGED <<ipcVars, components>>
    BY <1>3 DEF StartNext
  <2>2. host' \in Hosts /\ winding' \in Windings
    BY <1>0, <2>1, WoundIsTyped DEF Runtimes
  <2>3. HostTypes'
    BY <1>0, <2>1, <2>2 DEF HostTypes
  <2>4. \A i \in Indices : components'[i] \in {"off", "failed"} \/ i \in runtime'.started
    BY <1>0, <2>1 DEF HostInv, StartedIsKept
  <2>5. OverIsOver'
    BY <1>1, <2>1 DEF HostInv, OverIsOver
  <2>6. Undo(runtime'.started, "cancelled")
    BY <1>0, <2>1
  <2> QED BY <1>0, <1>1, <1>2, <2>3, <2>4, <2>5, <2>6, UndoKeeps
<1>4. CASE ~runtime.cancel
  <2>1. /\ host' = [host EXCEPT !.at = "in start"] /\ winding' = winding
        /\ components' = [components EXCEPT ![runtime.next] = "starting"]
    BY <1>4 DEF StartNext
  <2>2. /\ host' \in Hosts /\ host'.at = "in start"
        /\ components' \in [Indices -> {"off", "starting", "running", "failed", "stopping", "over"}]
        /\ \A i \in Indices :
              components'[i] = IF i = runtime.next THEN "starting" ELSE components[i]
    BY <1>0, <2>1 DEF Hosts
  <2>3. HostTypes'
    BY <1>0, <1>2, <2>1, <2>2 DEF HostTypes
  <2>4. WindingHolds' /\ JoinedIsOver' /\ JoinReturns' /\ StoppedStays'
    BY <1>0, <1>2, <2>1, <2>2 DEF WindingHolds, InCall, JoinedIsOver, JoinReturns, StoppedStays
  <2>5. StartedIsKept'
    BY <1>0, <2>2 DEF HostInv, StartedIsKept
  <2>6. OverIsOver'
    BY <1>1, <2>2 DEF HostInv, OverIsOver
  <2> QED BY <2>3, <2>4, <2>5, <2>6 DEF HostInv
<1> QED BY <1>3, <1>4

\* A component's start returns.
LEMMA StartComponentKeeps ==
    ASSUME IpcInv, HostInv, IpcStarted \/ OtherStarted
    PROVE  HostInv'
<1>0. /\ host \in Hosts /\ runtime \in Runtimes
      /\ components \in [Indices -> {"off", "starting", "running", "failed", "stopping", "over"}]
      /\ host.at = "in start" /\ runtime.next \in Indices /\ UNCHANGED ipcVars
  BY DEF HostInv, HostTypes, IpcStarted, OtherStarted, HostAt, StartedIsKept
<1>1. PICK ok \in BOOLEAN : ComponentStarted(ok)
  BY DEF IpcStarted, OtherStarted
<1>2. runtime.state # "stopped" /\ winding.doing = "nothing" /\ winding \in Windings
  BY <1>0 DEF HostInv, HostTypes, StoppedStays, WindingHolds, Windings
<1>3. AllOver' = AllOver
  BY <1>0 DEF AllOver, WorkersDone, ipcVars
<1>4. PICK now \in {"running", "failed"} : now = IF ok THEN "running" ELSE "failed"
  OBVIOUS
<1>5. /\ components' = [components EXCEPT ![runtime.next] = now]
      /\ components' \in [Indices -> {"off", "starting", "running", "failed", "stopping", "over"}]
      /\ \A i \in Indices : components'[i] = IF i = runtime.next THEN now ELSE components[i]
  BY <1>0, <1>1, <1>4 DEF ComponentStarted
<1>6. StartedWith(ok) \in SUBSET Indices /\ runtime.next \in Nat
  BY <1>0 DEF StartedWith, Runtimes
<1>7. /\ runtime' \in Runtimes /\ runtime'.started = StartedWith(ok)
      /\ runtime'.state = runtime.state
  <2>1. PICK started : started = StartedWith(ok)
    OBVIOUS
  <2>2. PICK following : following = runtime.next + 1
    OBVIOUS
  <2>3. started \in SUBSET Indices /\ following \in Nat
    BY <1>6, <2>1, <2>2
  <2>4. runtime' = [runtime EXCEPT !.started = started, !.next = following]
    BY <1>0, <1>1, <2>1, <2>2 DEF ComponentStarted, Runtimes
  <2>5. runtime' \in Runtimes /\ runtime'.started = started /\ runtime'.state = runtime.state
    BY <1>0, <2>3, <2>4 DEF Runtimes
  <2> QED BY <2>1, <2>5
<1>8. \A i \in Indices : components'[i] \in {"off", "failed"} \/ i \in runtime'.started
  BY <1>0, <1>4, <1>5, <1>7 DEF HostInv, StartedIsKept, StartedWith
<1>9. OverIsOver'
  BY <1>3, <1>4, <1>5 DEF HostInv, OverIsOver
<1>10. ASSUME NEW why \in {"cancelled", "start failed"}, Undo(runtime'.started, why)
       PROVE  HostInv'
  <2>1. host' \in Hosts /\ winding' \in Windings
    BY <1>6, <1>7, <1>10, WoundIsTyped
  <2>2. HostTypes'
    BY <1>5, <1>7, <2>1 DEF HostTypes
  <2> QED BY <1>2, <1>3, <1>7, <1>8, <1>9, <1>10, <2>2, UndoKeeps
<1>11. CASE runtime.cancel
  <2>1. Undo(StartedWith(ok), "cancelled")
    BY <1>1, <1>11 DEF ComponentStarted
  <2> QED BY <1>7, <1>10, <2>1
<1>12. CASE ~runtime.cancel /\ ~ok
  <2>1. Undo(runtime.started, "start failed") /\ StartedWith(ok) = runtime.started
    BY <1>1, <1>12 DEF ComponentStarted, StartedWith
  <2> QED BY <1>7, <1>10, <2>1
<1>13. CASE ~runtime.cancel /\ ok
  <2>1. host' = [host EXCEPT !.at = "starting"] /\ winding' = winding
    BY <1>1, <1>13 DEF ComponentStarted
  <2>2. host' \in Hosts /\ host'.at = "starting"
    BY <1>0, <2>1 DEF Hosts
  <2>3. HostTypes'
    BY <1>2, <1>5, <1>7, <2>1, <2>2 DEF HostTypes
  <2>4. WindingHolds' /\ JoinedIsOver' /\ JoinReturns' /\ StoppedStays'
    BY <1>2, <1>7, <2>1, <2>2 DEF WindingHolds, InCall, JoinedIsOver, JoinReturns, StoppedStays
  <2>5. StartedIsKept'
    BY <1>8, <2>2 DEF StartedIsKept
  <2> QED BY <1>9, <2>3, <2>4, <2>5 DEF HostInv
<1> QED BY <1>11, <1>12, <1>13

\* What a step of the winding needs to keep the invariant.
LEMMA WindStepKeeps ==
    ASSUME HostInv, AllOver => AllOver', UNCHANGED <<host, runtime>>,
           winding' \in Windings, winding.doing # "nothing", winding'.doing # "nothing",
           winding'.all = winding.all, winding'.rest \subseteq winding.all,
           winding'.doing \in InCall => winding'.rest # {},
           NEW i \in winding.rest, NEW now \in {"stopping", "over"},
           components' = components \/ components' = [components EXCEPT ![i] = now],
           components' # components /\ now = "over" /\ IsIpc(i) => AllOver',
           JoinedIsOver', JoinReturns'
    PROVE  HostInv'
<1>0. /\ components \in [Indices -> {"off", "starting", "running", "failed", "stopping", "over"}]
      /\ i \in Indices /\ i \in runtime.started /\ winding.all = runtime.started
      /\ host.at = "winding"
  BY DEF HostInv, HostTypes, WindingHolds, Windings
<1>1. /\ components' \in [Indices -> {"off", "starting", "running", "failed", "stopping", "over"}]
      /\ \A j \in Indices : components'[j] = components[j] \/ (j = i /\ components'[j] = now)
  BY <1>0
<1>2. HostTypes' /\ WindingHolds'
  BY <1>0, <1>1 DEF HostInv, HostTypes, WindingHolds
<1>3. StartedIsKept'
  BY <1>0, <1>1 DEF HostInv, StartedIsKept
<1>4. OverIsOver'
  <2> SUFFICES ASSUME NEW j \in Indices, IsIpc(j), components'[j] = "over" PROVE AllOver'
    BY DEF OverIsOver, IsIpc
  <2>1. CASE components[j] = "over"
    BY <2>1 DEF HostInv, OverIsOver
  <2>2. CASE components[j] # "over"
    BY <1>1, <2>2
  <2> QED BY <2>1, <2>2
<1>5. StoppedStays'
  BY <1>0 DEF HostInv, StoppedStays
<1> QED BY <1>2, <1>3, <1>4, <1>5 DEF HostInv

\* The components are asked to stop.
LEMMA AskingKeeps ==
    ASSUME IpcInv, HostInv, [HostNext]_hostVars, StopComponent \/ IpcStopAsked \/ AllAsked
    PROVE  HostInv'
<1>0. /\ winding \in Windings /\ winding.doing \in {"stopping", "in request_stop"}
      /\ UNCHANGED <<host, runtime>> /\ winding.rest \subseteq winding.all
  BY DEF HostInv, HostTypes, WindingHolds, StopComponent, IpcStopAsked, AllAsked, Winding
<1>1. AllOver => AllOver'
  BY OverStays, HostStepIsIpcStep DEF IpcInv
<1>2. CASE AllAsked
  <2>1. /\ winding' = [winding EXCEPT !.doing = "joining", !.rest = winding.all]
        /\ components' = components
    BY <1>0, <1>2 DEF AllAsked, Windings
  <2>2. /\ winding' \in Windings /\ winding'.doing = "joining" /\ winding'.rest = winding.all
        /\ winding'.all = winding.all
    BY <1>0, <2>1 DEF Windings
  <2>3. HostTypes' /\ WindingHolds'
    BY <1>0, <2>1, <2>2 DEF HostInv, HostTypes, WindingHolds, InCall
  <2>4. StartedIsKept' /\ StoppedStays'
    BY <1>0, <2>1 DEF HostInv, StartedIsKept, StoppedStays
  <2>5. JoinedIsOver' /\ JoinReturns'
    BY <2>2 DEF JoinedIsOver, JoinReturns
  <2>6. OverIsOver'
    BY <1>1, <2>1 DEF HostInv, OverIsOver
  <2> QED BY <2>3, <2>4, <2>5, <2>6 DEF HostInv
<1>3. CASE StopComponent \/ IpcStopAsked
  <2>1. winding.rest # {} /\ winding.rest \subseteq Indices
    BY <1>0, <1>3 DEF StopComponent, IpcStopAsked, Winding, HostInv, WindingHolds, InCall, Windings
  <2>2. PICK i : i = OnTurn
    OBVIOUS
  <2>3. i \in winding.rest
    BY <2>1, <2>2, TurnIsLeft DEF OnTurn
  <2>4. PICK fewer \in SUBSET Indices : fewer = winding.rest \ {i}
    BY <2>1
  <2>5. CASE /\ winding' = [winding EXCEPT !.doing = "in request_stop"] /\ components' = components
    <3>1. /\ winding' \in Windings /\ winding'.doing = "in request_stop"
          /\ winding'.rest = winding.rest /\ winding'.all = winding.all
      BY <1>0, <2>5 DEF Windings
    <3>2. JoinedIsOver' /\ JoinReturns'
      BY <3>1 DEF JoinedIsOver, JoinReturns
    <3>3. winding'.doing # "nothing" /\ winding'.rest # {} /\ winding'.rest \subseteq winding.all
          /\ winding.doing # "nothing"
      BY <1>0, <2>1, <3>1
    <3>4. "stopping" \in {"stopping", "over"}
      OBVIOUS
    <3> QED BY <1>0, <1>1, <2>3, <2>5, <3>1, <3>2, <3>3, <3>4, WindStepKeeps
  <2>6. CASE /\ \E error \in BOOLEAN :
                   winding' = [winding EXCEPT !.doing = "stopping", !.rest = fewer, !.error = error]
             /\ components' = [components EXCEPT ![i] = "stopping"]
    <3>1. /\ winding' \in Windings /\ winding'.doing = "stopping"
          /\ winding'.rest = fewer /\ winding'.all = winding.all
      BY <1>0, <2>6 DEF Windings
    <3>2. JoinedIsOver' /\ JoinReturns'
      BY <3>1 DEF JoinedIsOver, JoinReturns
    <3>3. winding'.doing # "nothing" /\ winding'.doing \notin InCall
          /\ winding'.rest \subseteq winding.all /\ winding.doing # "nothing"
      BY <1>0, <2>4, <3>1 DEF InCall
    <3>4. "stopping" \in {"stopping", "over"} /\ "stopping" # "over"
      OBVIOUS
    <3> QED BY <1>0, <1>1, <2>3, <2>6, <3>1, <3>2, <3>3, <3>4, WindStepKeeps
  <2>7. CASE IpcStopAsked
    <3>1. /\ winding' = [winding EXCEPT !.doing = "stopping", !.rest = winding.rest \ {i}]
          /\ components' = [components EXCEPT ![i] = "stopping"]
      BY <1>0, <2>2, <2>7 DEF IpcStopAsked, Windings
    <3>2. winding' = [winding EXCEPT !.doing = "stopping", !.rest = fewer, !.error = winding.error]
      BY <1>0, <2>4, <3>1 DEF Windings
    <3>3. winding.error \in BOOLEAN
      BY <1>0 DEF Windings
    <3> QED BY <2>6, <3>1, <3>2, <3>3
  <2>8. CASE StopComponent
    <3>1. winding.doing = "stopping"
      BY <2>8 DEF StopComponent, Winding
    <3>2. CASE IsIpc(i)
      BY <2>2, <2>5, <2>8, <3>2 DEF StopComponent
    <3>3. CASE ~IsIpc(i)
      <4>1. PICK error \in BOOLEAN :
                winding' = [winding EXCEPT !.rest = winding.rest \ {i}, !.error = winding.error \/ error]
        BY <1>0, <2>2, <2>8, <3>3 DEF StopComponent, Windings
      <4>2. components' = [components EXCEPT ![i] = "stopping"]
        BY <2>2, <2>8, <3>3 DEF StopComponent
      <4>3. PICK wrong \in BOOLEAN : wrong = (winding.error \/ error)
        OBVIOUS
      <4>4. winding' = [winding EXCEPT !.doing = "stopping", !.rest = fewer, !.error = wrong]
        BY <1>0, <2>4, <3>1, <4>1, <4>3 DEF Windings
      <4> QED BY <2>6, <4>2, <4>4
    <3> QED BY <3>2, <3>3
  <2> QED BY <1>3, <2>7, <2>8
<1> QED BY <1>2, <1>3

\* A wait ends, with the component over, with an error of its own, or late.
LEMMA JoinedKeeps ==
    ASSUME IpcInv, HostInv, UNCHANGED <<ipcVars, host, runtime>>,
           winding.doing \in {"joining", "in join", "in component join"}, winding.rest # {},
           NEW result, Joined(result),
           result = "done" /\ IsIpc(OnTurn) => AllOver
    PROVE  HostInv'
<1>0. /\ winding \in Windings /\ winding.rest \subseteq winding.all /\ winding.rest \subseteq Indices
      /\ winding.all \subseteq Indices
      /\ components \in [Indices -> {"off", "starting", "running", "failed", "stopping", "over"}]
  BY DEF HostInv, HostTypes, WindingHolds, Windings
<1>1. AllOver' = AllOver
  BY DEF AllOver, WorkersDone, ipcVars
<1>2. PICK i : i = OnTurn
  OBVIOUS
<1>3. i \in winding.rest
  BY <1>0, <1>2, TurnIsLeft DEF OnTurn
<1>4. components' = IF result = "done" THEN [components EXCEPT ![i] = "over"] ELSE components
  BY <1>2 DEF Joined
<1>5. /\ winding' \in Windings /\ winding'.doing = "joining" /\ winding'.all = winding.all
      /\ winding'.rest \subseteq winding.all
      /\ ~winding'.error => /\ ~winding.error /\ result = "done"
                            /\ winding'.rest = winding.rest \ {i}
  <2>1. CASE winding.overdue \/ result = "timeout"
    <3>1. winding' = [winding EXCEPT !.doing = "joining", !.rest = {}, !.error = TRUE]
      BY <2>1 DEF Joined
    <3>2. {} \in SUBSET Indices
      OBVIOUS
    <3> QED BY <1>0, <3>1, <3>2 DEF Windings
  <2>2. CASE ~(winding.overdue \/ result = "timeout")
    <3>1. PICK fewer \in SUBSET Indices : fewer = winding.rest \ {i}
      BY <1>0
    <3>2. PICK wrong \in BOOLEAN : wrong = (winding.error \/ result # "done")
      OBVIOUS
    <3>3. winding' = [winding EXCEPT !.doing = "joining", !.rest = fewer, !.error = wrong]
      BY <1>0, <1>2, <2>2, <3>1, <3>2 DEF Joined, Windings
    <3>4. /\ winding' \in Windings /\ winding'.doing = "joining" /\ winding'.all = winding.all
          /\ winding'.rest = fewer /\ winding'.error = wrong
      BY <1>0, <3>3 DEF Windings
    <3> QED BY <1>0, <3>1, <3>2, <3>4
  <2> QED BY <2>1, <2>2
<1>6. JoinReturns'
  BY <1>5 DEF JoinReturns
<1>7. JoinedIsOver'
  <2> SUFFICES ASSUME ~winding'.error, NEW j \in winding.all, j \notin winding'.rest
               PROVE  components'[j] = "over"
    BY <1>5 DEF JoinedIsOver
  <2>1. result = "done" /\ ~winding.error /\ (j = i \/ j \notin winding.rest)
    BY <1>5
  <2>2. j \in winding.rest \/ components[j] = "over"
    BY <2>1 DEF HostInv, JoinedIsOver
  <2> QED BY <1>0, <1>4, <2>1, <2>2
<1>8. components' = components \/ components' = [components EXCEPT ![i] = "over"]
  BY <1>4
<1>9. components' # components /\ IsIpc(i) => AllOver'
  BY <1>1, <1>2, <1>4
<1>10. winding'.doing # "nothing" /\ winding.doing # "nothing"
       /\ winding'.doing \notin InCall /\ "over" \in {"stopping", "over"}
  BY <1>5 DEF InCall
<1> QED BY <1>1, <1>3, <1>5, <1>6, <1>7, <1>8, <1>9, <1>10, WindStepKeeps

\* The components are waited for.
LEMMA JoiningKeeps ==
    ASSUME IpcInv, HostInv, [HostNext]_hostVars,
           JoinComponent \/ IpcJoined \/ OtherJoined \/ JoinGivesUp
    PROVE  HostInv'
<1>0. /\ winding \in Windings /\ winding.doing \in {"joining", "in join", "in component join"}
      /\ UNCHANGED <<host, runtime>> /\ winding.rest \subseteq winding.all
      /\ winding.rest # {} /\ winding.rest \subseteq Indices /\ winding.doing # "nothing"
  BY DEF HostInv, HostTypes, WindingHolds, InCall, JoinComponent, IpcJoined, OtherJoined,
         JoinGivesUp, Winding, Windings
<1>1. AllOver => AllOver'
  BY OverStays, HostStepIsIpcStep DEF IpcInv
<1>2. PICK i \in winding.rest : TRUE
  BY <1>0
<1>3. CASE IpcJoined
  <2>1. /\ winding.doing = "in join" /\ caller.at = "outside" /\ UNCHANGED ipcVars
        /\ Joined(caller.result)
    BY <1>3 DEF IpcJoined, Winding
  <2>2. caller.result = "done" => AllOver
    BY <2>1 DEF HostInv, JoinReturns
  <2> QED BY <1>0, <2>1, <2>2, JoinedKeeps
<1>4. CASE JoinComponent /\ winding.overdue
  <2>1. /\ winding' = [winding EXCEPT !.rest = {}, !.error = TRUE] /\ components' = components
        /\ winding.doing = "joining"
    BY <1>4 DEF JoinComponent, Winding
  <2>2. {} \in SUBSET Indices
    OBVIOUS
  <2>3. /\ winding' \in Windings /\ winding'.doing = "joining" /\ winding'.rest = {}
        /\ winding'.all = winding.all /\ winding'.error
    BY <1>0, <2>1, <2>2 DEF Windings
  <2>4. JoinedIsOver' /\ JoinReturns'
    BY <2>3 DEF JoinedIsOver, JoinReturns
  <2>5. /\ winding'.doing # "nothing" /\ winding'.rest \subseteq winding.all
        /\ winding'.doing \notin InCall /\ "stopping" \in {"stopping", "over"}
    BY <2>3 DEF InCall
  <2> QED BY <1>0, <1>1, <1>2, <2>1, <2>3, <2>4, <2>5, WindStepKeeps
<1>5. CASE JoinComponent /\ ~winding.overdue /\ IsIpc(OnTurn)
  <2>1. /\ winding' = [winding EXCEPT !.doing = "in join"] /\ components' = components
        /\ winding.doing = "joining" /\ CallJoin
    BY <1>5 DEF JoinComponent, Winding
  <2>2. /\ winding' \in Windings /\ winding'.doing = "in join" /\ winding'.rest = winding.rest
        /\ winding'.all = winding.all /\ winding'.error = winding.error
    BY <1>0, <2>1 DEF Windings
  <2>3. caller'.at = "joining" /\ ~caller'.undoing
    BY <2>1 DEF CallJoin
  <2>4. JoinReturns'
    BY <2>3 DEF JoinReturns
  <2>5. JoinedIsOver'
    BY <2>1, <2>2 DEF HostInv, JoinedIsOver
  <2>6. winding'.doing # "nothing" /\ winding'.rest \subseteq winding.all /\ winding'.rest # {}
        /\ "stopping" \in {"stopping", "over"}
    BY <1>0, <2>2
  <2> QED BY <1>0, <1>1, <1>2, <2>1, <2>2, <2>4, <2>5, <2>6, WindStepKeeps
<1>6. CASE JoinComponent /\ ~winding.overdue /\ ~IsIpc(OnTurn)
  <2>1. /\ winding' = [winding EXCEPT !.doing = "in component join"] /\ components' = components
        /\ winding.doing = "joining"
    BY <1>6 DEF JoinComponent, Winding
  <2>2. /\ winding' \in Windings /\ winding'.doing = "in component join"
        /\ winding'.rest = winding.rest /\ winding'.all = winding.all
        /\ winding'.error = winding.error
    BY <1>0, <2>1 DEF Windings
  <2>3. JoinReturns'
    BY <2>2 DEF JoinReturns
  <2>4. JoinedIsOver'
    BY <2>1, <2>2 DEF HostInv, JoinedIsOver
  <2>5. winding'.doing # "nothing" /\ winding'.rest \subseteq winding.all /\ winding'.rest # {}
        /\ "stopping" \in {"stopping", "over"}
    BY <1>0, <2>2
  <2> QED BY <1>0, <1>1, <1>2, <2>1, <2>2, <2>3, <2>4, <2>5, WindStepKeeps
<1>7. CASE OtherJoined \/ JoinGivesUp
  <2>1. UNCHANGED ipcVars /\ ~IsIpc(OnTurn)
    BY <1>7 DEF OtherJoined, JoinGivesUp
  <2>2. PICK result \in {"done", "failed", "timeout"} : Joined(result)
    BY <1>7 DEF OtherJoined, JoinGivesUp
  <2> QED BY <1>0, <2>1, <2>2, JoinedKeeps
<1> QED BY <1>3, <1>4, <1>5, <1>6, <1>7

\* The waiting is over: what is left of the runtime.
LEMMA UnwoundKeeps ==
    ASSUME IpcInv, HostInv, Unwound
    PROVE  HostInv'
<1>0. /\ winding \in Windings /\ winding.doing = "joining" /\ winding.rest = {}
      /\ winding' = NotWinding /\ UNCHANGED <<ipcVars, components>>
      /\ host \in Hosts /\ runtime \in Runtimes /\ host.at = "winding"
      /\ winding.all = runtime.started
  BY DEF HostInv, HostTypes, WindingHolds, Unwound
<1>1. PICK state \in {"failed", "stopped"} :
          state = IF winding.error \/ winding.why = "start failed" THEN "failed" ELSE "stopped"
  OBVIOUS
<1>2. PICK place \in {"ending", "started"} :
          place = IF winding.why = "shutdown" THEN "ending" ELSE "started"
  OBVIOUS
<1>3. /\ runtime' = [runtime EXCEPT !.state = state] /\ host' = [host EXCEPT !.at = place]
  BY <1>1, <1>2 DEF Unwound
<1>4. /\ runtime' \in Runtimes /\ runtime'.state = state /\ runtime'.started = runtime.started
      /\ host' \in Hosts /\ host'.at = place
  BY <1>0, <1>3 DEF Runtimes, Hosts
<1>5. winding' \in Windings /\ winding'.doing = "nothing"
  BY <1>0 DEF NotWinding, Windings
<1>6. HostTypes'
  BY <1>0, <1>4, <1>5 DEF HostInv, HostTypes
<1>7. WindingHolds' /\ JoinedIsOver' /\ JoinReturns'
  BY <1>4, <1>5 DEF WindingHolds, InCall, JoinedIsOver, JoinReturns
<1>8. StartedIsKept'
  BY <1>0, <1>4 DEF HostInv, StartedIsKept
<1>9. OverIsOver'
  BY <1>0 DEF HostInv, OverIsOver, AllOver, WorkersDone, ipcVars
<1>10. StoppedStays'
  <2> SUFFICES ASSUME state = "stopped", NEW i \in Indices
               PROVE  components[i] \in {"off", "failed", "over"}
    BY <1>0, <1>4 DEF StoppedStays
  <2>1. ~winding.error
    BY <1>1
  <2>2. CASE i \in winding.all
    BY <1>0, <2>1, <2>2 DEF HostInv, JoinedIsOver
  <2>3. CASE i \notin winding.all
    BY <1>0, <2>3 DEF HostInv, StartedIsKept
  <2> QED BY <2>2, <2>3
<1> QED BY <1>6, <1>7, <1>8, <1>9, <1>10 DEF HostInv

LEMMA HostStarts == HostInit => HostInv
<1> SUFFICES ASSUME HostInit PROVE HostInv
  OBVIOUS
<1>1. HostTypes
  <2>1. host \in Hosts /\ runtime \in Runtimes
    BY DEF HostInit, Hosts, Runtimes
  <2>2. winding \in Windings
    BY DEF HostInit, NotWinding, Windings
  <2> QED BY <2>1, <2>2 DEF HostInit, HostTypes
<1>2. winding.doing = "nothing"
  BY DEF HostInit, NotWinding
<1>3. WindingHolds /\ JoinedIsOver /\ JoinReturns
  BY <1>2 DEF HostInit, WindingHolds, InCall, JoinedIsOver, JoinReturns
<1>4. StartedIsKept /\ OverIsOver /\ StoppedStays
  BY DEF HostInit, StartedIsKept, OverIsOver, StoppedStays
<1> QED BY <1>1, <1>3, <1>4 DEF HostInv

LEMMA HostNextKeeps == IpcInv /\ HostInv /\ [HostNext]_hostVars => HostInv'
<1> SUFFICES ASSUME IpcInv, HostInv, [HostNext]_hostVars PROVE HostInv'
  OBVIOUS
<1>1. CASE \/ Relay \/ Server \/ UNCHANGED hostVars
           \/ \E reason \in Reasons : Control(reason)
           \/ Caller(winding.overdue) /\ UNCHANGED serviceVars
  BY <1>1, OthersKeep
<1>2. CASE DeadlinePasses
  BY <1>2, DeadlineKeeps
<1>3. CASE \/ CreateService \/ CheckSlot \/ BeginStart \/ AfterStart \/ StopServing \/ ReportStopped
           \/ EndStart \/ Shutdown
  BY <1>3, MainKeeps, UndoingKeeps
<1>4. CASE StartNext \/ IpcStarted \/ OtherStarted
  BY <1>4, StartNextKeeps, StartComponentKeeps
<1>5. CASE StopComponent \/ IpcStopAsked \/ AllAsked
  BY <1>5, AskingKeeps
<1>6. CASE JoinComponent \/ IpcJoined \/ OtherJoined \/ JoinGivesUp
  BY <1>6, JoiningKeeps
<1>7. CASE Unwound
  BY <1>7, UnwoundKeeps
<1> QED BY <1>1, <1>2, <1>3, <1>4, <1>5, <1>6, <1>7
         DEF HostNext, ServiceMain, ComponentReturns, Wait

LEMMA StoppedServiceIsStopped == IpcInv /\ HostInv => StoppedIsStopped
<1> SUFFICES ASSUME IpcInv, HostInv, runtime.state = "stopped"
             PROVE  /\ \A i \in Indices : components[i] \in {"off", "failed", "over"}
                    /\ (\E i \in Indices : IsIpc(i) /\ components[i] = "over") => AllOver /\ Open = {}
  BY DEF StoppedIsStopped
<1>1. \A i \in Indices : components[i] \in {"off", "failed", "over"}
  BY DEF HostInv, StoppedStays
<1>2. (\E i \in Indices : IsIpc(i) /\ components[i] = "over") => AllOver
  BY DEF HostInv, OverIsOver
<1>3. AllOver => Open = {}
  BY DEF AllOver, IpcInv, OpenWhileRunning, Open
<1> QED BY <1>1, <1>2, <1>3

\* A service that calls itself stopped has nothing running: for any list of
\* components in any phases, a start that is cancelled or fails at any step, any
\* order of a manager's stops, and components and waits that fail
THEOREM StoppedIsStoppedAlways == HostSpec => []StoppedIsStopped
<1>1. HostInit => IpcInv /\ HostInv
  BY IpcStarts, HostStarts DEF HostInit
<1>2. IpcInv /\ HostInv /\ [HostNext]_hostVars => IpcInv' /\ HostInv'
  BY HostStepIsIpcStep, IpcNextKeeps, HostNextKeeps
<1>3. IpcInv /\ HostInv => StoppedIsStopped
  BY StoppedServiceIsStopped
<1> QED BY <1>1, <1>2, <1>3, PTL DEF HostSpec

-----------------------------------------------------------------------------
(* What the calls a thread has still to make say about an alarm *)

\* Of the calls about one alarm the last decides.
Mentions(list, alarm) == \E i \in 1 .. Len(list) : list[i].alarm = alarm
HasLastWord(list, alarm, op) ==
    \E i \in 1 .. Len(list) :
        /\ list[i].op = op /\ list[i].alarm = alarm
        /\ \A j \in 1 .. Len(list) : list[j].alarm = alarm => j <= i

\* Once a thread has made its calls the alarm is active if it is due, and if it
\* is due it is active or the registry has refused an alarm.
Agrees(thread, alarm, due) ==
    /\ HasLastWord(calls[thread], alarm, "raise") => due
    /\ HasLastWord(calls[thread], alarm, "clear") => ~due
    /\ ~Mentions(calls[thread], alarm) =>
           (alarm \in raised => due) /\ (due => alarm \in raised \/ overflowed)

\* The words of a list are those of its tail, and its head's where the tail is silent.
LEMMA WordsOfTail ==
    ASSUME NEW S, NEW list \in Seq(S), list # <<>>, NEW alarm, NEW op
    PROVE  /\ Mentions(Tail(list), alarm) =>
                  Mentions(list, alarm)
                  /\ (HasLastWord(list, alarm, op) <=> HasLastWord(Tail(list), alarm, op))
           /\ ~Mentions(Tail(list), alarm) =>
                  /\ Mentions(list, alarm) <=> Head(list).alarm = alarm
                  /\ HasLastWord(list, alarm, op) <=>
                         Head(list).op = op /\ Head(list).alarm = alarm
<1> DEFINE rest == Tail(list)
<1>1. PICK n \in Nat : n + 1 = Len(list)
  OBVIOUS
<1>2. Len(rest) = n /\ \A j \in 1 .. n : rest[j] = list[j + 1]
  BY <1>1
<1>3. Head(list) = list[1]
  OBVIOUS
<1> HIDE DEF rest
<1>4. \A j \in 1 .. n + 1 : j = 1 \/ (j - 1 \in 1 .. n /\ list[j] = rest[j - 1])
  BY <1>1, <1>2
<1>5. Mentions(rest, alarm) => Mentions(list, alarm)
  BY <1>1, <1>2 DEF Mentions
<1>6. ASSUME Mentions(rest, alarm), HasLastWord(list, alarm, op)
      PROVE  HasLastWord(rest, alarm, op)
  <2>1. PICK i \in 1 .. n + 1 : /\ list[i].op = op /\ list[i].alarm = alarm
                                /\ \A j \in 1 .. n + 1 : list[j].alarm = alarm => j <= i
    BY <1>1, <1>6 DEF HasLastWord
  <2>2. PICK k \in 1 .. n : rest[k].alarm = alarm
    BY <1>2, <1>6 DEF Mentions
  <2>3. k + 1 \in 1 .. n + 1 /\ list[k + 1].alarm = alarm
    BY <1>2, <2>2
  <2>4. k + 1 <= i
    BY <2>1, <2>3
  <2>5. i - 1 \in 1 .. n /\ rest[i - 1] = list[i]
    BY <1>2, <2>4
  <2>6. \A j \in 1 .. n : rest[j].alarm = alarm => j <= i - 1
    <3> TAKE j \in 1 .. n
    <3>1. j + 1 \in 1 .. n + 1 /\ rest[j] = list[j + 1]
      BY <1>2
    <3> QED BY <2>1, <3>1
  <2> QED BY <1>2, <2>1, <2>5, <2>6 DEF HasLastWord
<1>7. ASSUME HasLastWord(rest, alarm, op)
      PROVE  HasLastWord(list, alarm, op)
  <2>1. PICK i \in 1 .. n : /\ rest[i].op = op /\ rest[i].alarm = alarm
                            /\ \A j \in 1 .. n : rest[j].alarm = alarm => j <= i
    BY <1>2, <1>7 DEF HasLastWord
  <2>2. i + 1 \in 1 .. n + 1 /\ list[i + 1] = rest[i]
    BY <1>2
  <2>3. \A j \in 1 .. n + 1 : list[j].alarm = alarm => j <= i + 1
    BY <1>4, <2>1
  <2> QED BY <1>1, <2>1, <2>2, <2>3 DEF HasLastWord
<1>8. ASSUME ~Mentions(rest, alarm), NEW j \in 1 .. n + 1, list[j].alarm = alarm
      PROVE  j = 1
  BY <1>2, <1>4, <1>8 DEF Mentions
<1>9. 1 \in 1 .. n + 1
  OBVIOUS
<1>10. ASSUME ~Mentions(rest, alarm)
       PROVE  Mentions(list, alarm) <=> Head(list).alarm = alarm
  BY <1>1, <1>3, <1>8, <1>9, <1>10 DEF Mentions
<1>11. ASSUME ~Mentions(rest, alarm)
       PROVE  HasLastWord(list, alarm, op) <=> Head(list).op = op /\ Head(list).alarm = alarm
  BY <1>1, <1>3, <1>8, <1>9, <1>11 DEF HasLastWord
<1> QED BY <1>5, <1>6, <1>7, <1>10, <1>11 DEF rest

\* The next call of any thread keeps an alarm in agreement, if another thread
\* does not speak of it.
LEMMA CallKeepsAgreement ==
    ASSUME NEW S, calls \in [Threads -> Seq([op : {"raise", "clear"}, alarm : S])], NEW thread \in Threads, NEW t \in Threads,
           Call(t), NEW alarm, NEW due \in BOOLEAN, Agrees(thread, alarm, due),
           t = thread \/ ~Mentions(calls[t], alarm)
    PROVE  Agrees(thread, alarm, due)'
<1> DEFINE list == calls[t]
           call == Head(list)
<1> PICK C : C = [op : {"raise", "clear"}, alarm : S]
  OBVIOUS
<1>1. list \in Seq(C) /\ list # <<>>
  BY DEF Call
<1>2. call \in C
  BY <1>1, HeadTailProperties
<1>3. /\ calls'[t] = Tail(list)
      /\ \A u \in Threads : u # t => calls'[u] = calls[u]
  BY DEF Call
<1>4. \/ call.op = "raise" /\ RaiseAlarm(call.alarm)
      \/ call.op = "raise" /\ RefuseAlarm(call.alarm)
      \/ call.op = "clear" /\ ClearAlarm(call.alarm)
  BY DEF Call
<1>5. /\ Mentions(Tail(list), alarm) =>
             Mentions(list, alarm)
             /\ (HasLastWord(list, alarm, "raise") <=> HasLastWord(Tail(list), alarm, "raise"))
      /\ ~Mentions(Tail(list), alarm) =>
             /\ Mentions(list, alarm) <=> Head(list).alarm = alarm
             /\ HasLastWord(list, alarm, "raise") <=>
                    Head(list).op = "raise" /\ Head(list).alarm = alarm
  BY <1>1, WordsOfTail
<1>6. /\ Mentions(Tail(list), alarm) =>
             (HasLastWord(list, alarm, "clear") <=> HasLastWord(Tail(list), alarm, "clear"))
      /\ ~Mentions(Tail(list), alarm) =>
             (HasLastWord(list, alarm, "clear") <=>
                    Head(list).op = "clear" /\ Head(list).alarm = alarm)
  BY <1>1, WordsOfTail
<1> HIDE DEF list, call
<1>7. call = Head(list)
  BY DEF call
<1>8. call.op \in {"raise", "clear"}
  BY <1>2
<1>9. /\ call.alarm # alarm => (alarm \in raised' <=> alarm \in raised)
      /\ call.alarm = alarm /\ call.op = "raise" => alarm \in raised' \/ overflowed'
      /\ call.alarm = alarm /\ call.op = "clear" => alarm \notin raised'
      /\ overflowed => overflowed'
  BY <1>4 DEF RaiseAlarm, RefuseAlarm, ClearAlarm
<1>10. CASE t = thread
  <2>1. /\ HasLastWord(list, alarm, "raise") => due
        /\ HasLastWord(list, alarm, "clear") => ~due
        /\ ~Mentions(list, alarm) =>
               (alarm \in raised => due) /\ (due => alarm \in raised \/ overflowed)
    BY <1>10 DEF Agrees, list
  <2>2. calls'[thread] = Tail(list)
    BY <1>3, <1>10
  <2>3. ~HasLastWord(Tail(list), alarm, "raise") \/ Mentions(Tail(list), alarm)
    BY DEF HasLastWord, Mentions
  <2>4. ~HasLastWord(Tail(list), alarm, "clear") \/ Mentions(Tail(list), alarm)
    BY DEF HasLastWord, Mentions
  <2>5. HasLastWord(Tail(list), alarm, "raise") => due
    BY <1>5, <2>1, <2>3
  <2>6. HasLastWord(Tail(list), alarm, "clear") => ~due
    BY <1>6, <2>1, <2>4
  <2>7. ASSUME ~Mentions(Tail(list), alarm)
        PROVE  (alarm \in raised' => due) /\ (due => alarm \in raised' \/ overflowed')
    BY <1>5, <1>6, <1>7, <1>8, <1>9, <2>1, <2>7
  <2> QED BY <2>2, <2>5, <2>6, <2>7 DEF Agrees
<1>11. CASE t # thread
  <2>1. calls'[thread] = calls[thread]
    BY <1>3, <1>11
  <2>2. call.alarm # alarm
    BY <1>5, <1>7, <1>11 DEF list
  <2> QED BY <1>9, <2>1, <2>2 DEF Agrees
<1> QED BY <1>10, <1>11

\* What a thread plans keeps an alarm in agreement, if its last word about the
\* alarm is what is due from now on, and what is due stays where it says none.
LEMMA PlanKeepsAgreement ==
    ASSUME NEW thread \in Threads, NEW t \in Threads, NEW list, Plan(t, list),
           DOMAIN calls = Threads, NEW alarm, NEW was \in BOOLEAN, NEW due \in BOOLEAN,
           Agrees(thread, alarm, was),
           t = thread => /\ HasLastWord(list, alarm, "raise") => due
                         /\ HasLastWord(list, alarm, "clear") => ~due
                         /\ ~Mentions(list, alarm) => due = was,
           t # thread => due = was
    PROVE  Agrees(thread, alarm, due)'
<1>1. /\ raised' = raised /\ overflowed' = overflowed
      /\ calls'[t] = list
      /\ \A u \in Threads : u # t => calls'[u] = calls[u]
  BY DEF Plan
<1>2. CASE t = thread
  <2>1. calls[thread] = <<>>
    BY <1>2 DEF Plan, Idle
  <2>2. ~Mentions(calls[thread], alarm)
    BY <2>1 DEF Mentions
  <2>3. (alarm \in raised => was) /\ (was => alarm \in raised \/ overflowed)
    BY <2>2 DEF Agrees
  <2> QED BY <1>1, <1>2, <2>3 DEF Agrees
<1>3. CASE t # thread
  BY <1>1, <1>3 DEF Agrees
<1> QED BY <1>2, <1>3

\* The words of no call, of a condition, and of what a volume's calls are.
LEMMA WordsOfNone ==
    ASSUME NEW alarm, NEW op
    PROVE  ~Mentions(<<>>, alarm) /\ ~HasLastWord(<<>>, alarm, op)
BY DEF Mentions, HasLastWord

-----------------------------------------------------------------------------
(* The health monitor *)

MaintenanceAlarms == {LowSpace, MaintenanceFailed}
DiskStates == GaugeLevels \union DiskLevels \union {"unavailable"}
Sources == ToSet(MetricSources)

HealthCalls == [op : {"raise", "clear"}, alarm : HealthAlarms \union MaintenanceAlarms]

HealthTypes ==
    /\ calls \in [Threads -> Seq(HealthCalls)]
    /\ high \in [Gauges -> BOOLEAN] /\ diskStates \in [Disks -> DiskStates]
    /\ levels \in [Metrics -> GaugeLevels \union DiskLevels]
    /\ judged \in [Metrics -> GaugeLevels \union DiskLevels]
    /\ unasked \in Seq(Sources) /\ unjudged \subseteq Metrics

\* What the monitor remembers is what the last answers and its judgement say.
MonitorRemembers ==
    /\ failedSources = lastFailed /\ failedSources \subseteq Sources
    /\ \A g \in Gauges : g \in unjudged \/ high[g] = (judged[g] = "high")
    /\ \A d \in Disks : d \in unjudged \/
           \A level \in DOMAIN DiskCodes : diskStates[d] = level <=> judged[d] = level

\* The registry, once the monitor has made its calls, agrees with what it remembers.
RegistryFollows ==
    /\ \A s \in Sources : Agrees("health", SampleFailed(s), s \in failedSources)
    /\ \A g \in Gauges : Agrees("health", UsageHigh(g), high[g])
    /\ \A d \in Disks, level \in DOMAIN DiskCodes :
           Agrees("health", DiskAlarm(level, d), diskStates[d] = level)

OthersAreSilent ==
    \A t \in Threads \ {"health"} : \A alarm \in HealthAlarms : ~Mentions(calls[t], alarm)

HealthInv == HealthTypes /\ MonitorRemembers /\ RegistryFollows /\ OthersAreSilent

LEMMA HealthAlarmsDiffer ==
    /\ \A s, g : SampleFailed(s) # UsageHigh(g)
    /\ \A s, d : \A level \in DOMAIN DiskCodes : SampleFailed(s) # DiskAlarm(level, d)
    /\ \A g, d : \A level \in DOMAIN DiskCodes : UsageHigh(g) # DiskAlarm(level, d)
    /\ \A s, t : SampleFailed(s) = SampleFailed(t) => s = t
    /\ \A g, h : UsageHigh(g) = UsageHigh(h) => g = h
    /\ \A c, d : \A level, other \in DOMAIN DiskCodes :
           DiskAlarm(level, c) = DiskAlarm(other, d) => level = other /\ c = d
    /\ MaintenanceAlarms \intersect HealthAlarms = {}
<1>1. /\ DOMAIN DiskCodes = {"warning", "critical", "stop"}
      /\ DiskCodes["warning"] = "STORAGE_LOW_SPACE"
      /\ DiskCodes["critical"] = "STORAGE_CRITICAL_SPACE"
      /\ DiskCodes["stop"] = "STORAGE_STOP_SAVE"
  BY DEF DiskCodes
<1>2. \A s, g : SampleFailed(s) # UsageHigh(g)
  BY DEF SampleFailed, UsageHigh
<1>3. \A s, d : \A level \in DOMAIN DiskCodes : SampleFailed(s) # DiskAlarm(level, d)
  BY <1>1 DEF SampleFailed, DiskAlarm
<1>4. \A g, d : \A level \in DOMAIN DiskCodes : UsageHigh(g) # DiskAlarm(level, d)
  BY <1>1 DEF UsageHigh, DiskAlarm
<1>5. \A s, t : SampleFailed(s) = SampleFailed(t) => s = t
  BY DEF SampleFailed
<1>6. \A g, h : UsageHigh(g) = UsageHigh(h) => g = h
  BY DEF UsageHigh
<1>7. \A c, d : \A level, other \in DOMAIN DiskCodes :
           DiskAlarm(level, c) = DiskAlarm(other, d) => level = other /\ c = d
  BY <1>1 DEF DiskAlarm
<1>8. \A s : SampleFailed(s) \notin MaintenanceAlarms
  BY DEF SampleFailed, MaintenanceAlarms, LowSpace, MaintenanceFailed
<1>9. \A g : UsageHigh(g) \notin MaintenanceAlarms
  BY DEF UsageHigh, MaintenanceAlarms, LowSpace, MaintenanceFailed
<1>10. \A d \in Disks, level \in DOMAIN DiskCodes : DiskAlarm(level, d) \notin MaintenanceAlarms
  BY <1>1, HealthAssumption DEF DiskAlarm, MaintenanceAlarms, LowSpace, MaintenanceFailed
<1>11. MaintenanceAlarms \intersect HealthAlarms = {}
  BY <1>8, <1>9, <1>10 DEF HealthAlarms
<1> QED BY <1>2, <1>3, <1>4, <1>5, <1>6, <1>7, <1>11

LEMMA WordsOfOne ==
    ASSUME NEW call, NEW alarm, NEW op
    PROVE  /\ Mentions(<<call>>, alarm) <=> call.alarm = alarm
           /\ HasLastWord(<<call>>, alarm, op) <=> call.op = op /\ call.alarm = alarm
<1>1. Len(<<call>>) = 1 /\ <<call>>[1] = call /\ 1 .. 1 = {1}
  OBVIOUS
<1> QED BY <1>1 DEF Mentions, HasLastWord

LEMMA CallShapes ==
    ASSUME NEW alarm \in HealthAlarms \union MaintenanceAlarms
    PROVE  /\ Raise(alarm) \in HealthCalls /\ Clear(alarm) \in HealthCalls
           /\ Raise(alarm).op = "raise" /\ Raise(alarm).alarm = alarm
           /\ Clear(alarm).op = "clear" /\ Clear(alarm).alarm = alarm
BY DEF Raise, Clear, HealthCalls

LEMMA HealthAlarmsKnown ==
    /\ \A s \in Sources : SampleFailed(s) \in HealthAlarms
    /\ \A g \in Gauges : UsageHigh(g) \in HealthAlarms
    /\ \A d \in Disks, level \in DOMAIN DiskCodes : DiskAlarm(level, d) \in HealthAlarms
BY DEF HealthAlarms, Sources

LEMMA GaugeWords ==
    ASSUME HealthTypes, NEW gauge \in Gauges, NEW alarm
    PROVE  /\ GaugeCalls(gauge) \in Seq(HealthCalls)
           /\ Mentions(GaugeCalls(gauge), alarm) => alarm = UsageHigh(gauge)
           /\ HasLastWord(GaugeCalls(gauge), alarm, "raise") => IsHigh(gauge)
           /\ HasLastWord(GaugeCalls(gauge), alarm, "clear") => ~IsHigh(gauge)
           /\ ~Mentions(GaugeCalls(gauge), UsageHigh(gauge)) => high[gauge] = IsHigh(gauge)
<1> DEFINE own == UsageHigh(gauge)
<1>1. high[gauge] \in BOOLEAN /\ IsHigh(gauge) \in BOOLEAN
  BY DEF HealthTypes, IsHigh
<1>2. /\ Raise(own) \in HealthCalls /\ Clear(own) \in HealthCalls
      /\ Raise(own).op = "raise" /\ Raise(own).alarm = own
      /\ Clear(own).op = "clear" /\ Clear(own).alarm = own
  BY CallShapes, HealthAlarmsKnown
<1>3. GaugeCalls(gauge) = IF IsHigh(gauge) /\ ~high[gauge] THEN <<Raise(own)>>
                          ELSE IF ~IsHigh(gauge) /\ high[gauge] THEN <<Clear(own)>> ELSE <<>>
  <2>1. /\ <<Raise(own)>> \o <<>> = <<Raise(own)>>
        /\ <<>> \o <<Clear(own)>> = <<Clear(own)>>
        /\ <<>> \o <<>> = <<>>
    OBVIOUS
  <2>2. If(IsHigh(gauge) /\ ~high[gauge], Raise(own)) =
            IF IsHigh(gauge) /\ ~high[gauge] THEN <<Raise(own)>> ELSE <<>>
    BY DEF If
  <2>3. If(~IsHigh(gauge) /\ high[gauge], Clear(own)) =
            IF ~IsHigh(gauge) /\ high[gauge] THEN <<Clear(own)>> ELSE <<>>
    BY DEF If
  <2>4. GaugeCalls(gauge) = If(IsHigh(gauge) /\ ~high[gauge], Raise(own))
                            \o If(~IsHigh(gauge) /\ high[gauge], Clear(own))
    BY DEF GaugeCalls
  <2> HIDE DEF own
  <2>5. CASE IsHigh(gauge)
    BY <1>1, <2>1, <2>2, <2>3, <2>4, <2>5
  <2>6. CASE ~IsHigh(gauge)
    BY <1>1, <2>1, <2>2, <2>3, <2>4, <2>6
  <2> QED BY <2>5, <2>6
<1> HIDE DEF own
<1>4. own = UsageHigh(gauge)
  BY DEF own
<1>5. CASE IsHigh(gauge) /\ ~high[gauge]
  <2>1. GaugeCalls(gauge) = <<Raise(own)>>
    BY <1>3, <1>5
  <2>2. /\ Mentions(<<Raise(own)>>, alarm) <=> own = alarm
        /\ ~HasLastWord(<<Raise(own)>>, alarm, "clear")
        /\ Mentions(<<Raise(own)>>, own)
    BY <1>2, WordsOfOne
  <2> QED BY <1>2, <1>4, <1>5, <2>1, <2>2
<1>6. CASE ~IsHigh(gauge) /\ high[gauge]
  <2>1. GaugeCalls(gauge) = <<Clear(own)>>
    BY <1>3, <1>6
  <2>2. /\ Mentions(<<Clear(own)>>, alarm) <=> own = alarm
        /\ ~HasLastWord(<<Clear(own)>>, alarm, "raise")
        /\ Mentions(<<Clear(own)>>, own)
    BY <1>2, WordsOfOne
  <2> QED BY <1>2, <1>4, <1>6, <2>1, <2>2
<1>7. CASE high[gauge] = IsHigh(gauge)
  <2>1. GaugeCalls(gauge) = <<>>
    BY <1>1, <1>3, <1>7
  <2>2. <<>> \in Seq(HealthCalls)
    OBVIOUS
  <2> QED BY <1>7, <2>1, <2>2, WordsOfNone
<1> QED BY <1>1, <1>5, <1>6, <1>7

LEMMA DiskWords ==
    ASSUME HealthTypes, NEW disk \in Disks, NEW alarm, NEW level \in DOMAIN DiskCodes
    PROVE  /\ DiskCalls(disk) \in Seq(HealthCalls)
           /\ Mentions(DiskCalls(disk), alarm) =>
                  \E other \in DOMAIN DiskCodes : alarm = DiskAlarm(other, disk)
           /\ HasLastWord(DiskCalls(disk), DiskAlarm(level, disk), "raise") =>
                  DiskStateOf(disk) = level
           /\ HasLastWord(DiskCalls(disk), DiskAlarm(level, disk), "clear") =>
                  DiskStateOf(disk) # level
           /\ ~Mentions(DiskCalls(disk), DiskAlarm(level, disk)) =>
                  diskStates[disk] = DiskStateOf(disk)
<1> DEFINE A(l) == DiskAlarm(l, disk)
           clears == <<Clear(A("warning")), Clear(A("critical")), Clear(A("stop"))>>
           state == judged[disk]
<1>1. DOMAIN DiskCodes = {"warning", "critical", "stop"}
  BY DEF DiskCodes
<1>2. \A l \in DOMAIN DiskCodes : A(l) \in HealthAlarms
  BY HealthAlarmsKnown
<1>3. \A l \in DOMAIN DiskCodes :
         /\ Raise(A(l)) \in HealthCalls /\ Clear(A(l)) \in HealthCalls
         /\ Raise(A(l)).op = "raise" /\ Raise(A(l)).alarm = A(l)
         /\ Clear(A(l)).op = "clear" /\ Clear(A(l)).alarm = A(l)
  BY <1>2, CallShapes
<1>4. \A l, m \in DOMAIN DiskCodes : A(l) = A(m) => l = m
  BY HealthAlarmsDiffer
<1>5. state \in DOMAIN DiskCodes => DiskStateOf(disk) = state
  BY <1>1 DEF DiskStateOf
<1>6. DiskStateOf(disk) \in DOMAIN DiskCodes => DiskStateOf(disk) = state
  BY <1>1 DEF DiskStateOf
<1>7. CASE DiskStateOf(disk) = diskStates[disk]
  <2>1. DiskCalls(disk) = <<>> /\ <<>> \in Seq(HealthCalls)
    BY <1>7 DEF DiskCalls
  <2> QED BY <1>7, <2>1, WordsOfNone
<1>c. clears \in Seq(HealthCalls) /\ Len(clears) = 3
      /\ clears[1] = Clear(A("warning")) /\ clears[2] = Clear(A("critical")) /\ clears[3] = Clear(A("stop"))
  BY <1>1, <1>3
<1>8. CASE DiskStateOf(disk) # diskStates[disk] /\ state \notin DOMAIN DiskCodes
  <2>1. DiskCalls(disk) = clears \o <<>>
    BY <1>8 DEF DiskCalls, If
  <2>2. DiskCalls(disk) = clears
    BY <1>c, <2>1
  <2> HIDE DEF clears
  <2>3. \A i \in 1 .. 3 : \E l \in DOMAIN DiskCodes : clears[i].op = "clear" /\ clears[i].alarm = A(l)
    BY <1>1, <1>3, <1>c
  <2>4. Mentions(clears, A(level))
    <3>1. \E i \in 1 .. 3 : clears[i].alarm = A(level)
      BY <1>1, <1>3, <1>c
    <3> QED BY <1>c, <3>1 DEF Mentions
  <2>5. ~HasLastWord(clears, A(level), "raise")
    BY <1>c, <2>3 DEF HasLastWord
  <2>6. Mentions(clears, alarm) => \E l \in DOMAIN DiskCodes : alarm = A(l)
    BY <1>c, <2>3 DEF Mentions
  <2>7. DiskStateOf(disk) # level
    BY <1>6, <1>8
  <2> QED BY <1>c, <2>2, <2>4, <2>5, <2>6, <2>7
<1>9. CASE DiskStateOf(disk) # diskStates[disk] /\ state \in DOMAIN DiskCodes
  <2>1. PICK list : list = clears \o <<Raise(A(state))>>
    OBVIOUS
  <2>2. DiskCalls(disk) = list
    BY <1>9, <2>1 DEF DiskCalls, If
  <2> HIDE DEF clears
  <2>r. PICK call \in HealthCalls : call = Raise(A(state))
    BY <1>3, <1>9
  <2>3. list \in Seq(HealthCalls) /\ Len(list) = 4 /\ list[4] = Raise(A(state))
        /\ \A i \in 1 .. 3 : list[i] = clears[i]
    <3>1. <<call>> \in Seq(HealthCalls) /\ Len(<<call>>) = 1 /\ <<call>>[1] = call
      OBVIOUS
    <3>2. list = clears \o <<call>>
      BY <2>1, <2>r
    <3>3. /\ Len(list) = 4 /\ list[4] = call /\ list \in Seq(HealthCalls)
          /\ list[1] = clears[1] /\ list[2] = clears[2] /\ list[3] = clears[3]
      <4>1. PICK one \in Seq(HealthCalls) : one = <<call>> /\ Len(one) = 1 /\ one[1] = call
        BY <3>1
      <4>2. /\ clears \o one \in Seq(HealthCalls) /\ Len(clears \o one) = Len(clears) + Len(one)
            /\ \A i \in 1 .. Len(clears) + Len(one) : (clears \o one)[i] =
                   IF i <= Len(clears) THEN clears[i] ELSE one[i - Len(clears)]
        BY <1>c, ConcatProperties
      <4>3. list = clears \o one
        BY <3>2, <4>1
      <4>4. Len(list) = 4 /\ \A i \in 1 .. 4 : list[i] = IF i <= 3 THEN clears[i] ELSE one[i - 3]
        BY <1>c, <4>1, <4>2, <4>3
      <4> QED BY <4>1, <4>2, <4>3, <4>4
    <3>4. 1 .. 3 = {1, 2, 3}
      OBVIOUS
    <3> QED BY <2>r, <3>3, <3>4
  <2>4. \A i \in 1 .. 3 : \E l \in DOMAIN DiskCodes : list[i].op = "clear" /\ list[i].alarm = A(l)
    BY <1>1, <1>3, <1>c, <2>3
  <2>5. list[4].op = "raise" /\ list[4].alarm = A(state)
    BY <1>3, <1>9, <2>3
  <2>6. \A i \in 1 .. 4 : i \in 1 .. 3 \/ i = 4
    OBVIOUS
  <2>7. Mentions(list, A(level))
    <3>1. \E i \in 1 .. 3 : clears[i].alarm = A(level)
      BY <1>1, <1>3, <1>c
    <3> QED BY <2>3, <3>1 DEF Mentions
  <2>8. HasLastWord(list, A(level), "raise") => state = level
    <3>1. ASSUME HasLastWord(list, A(level), "raise") PROVE A(state) = A(level)
      <4>1. PICK i \in 1 .. 4 : list[i].op = "raise" /\ list[i].alarm = A(level)
        BY <2>3, <3>1 DEF HasLastWord
      <4>2. i = 4
        BY <2>4, <2>6, <4>1
      <4> QED BY <2>5, <4>1, <4>2
    <3> QED BY <1>4, <1>9, <3>1
  <2>9. HasLastWord(list, A(level), "clear") => state # level
    <3>1. ASSUME HasLastWord(list, A(level), "clear"), state = level PROVE FALSE
      <4>1. PICK i \in 1 .. 4 : list[i].op = "clear" /\ \A j \in 1 .. 4 : list[j].alarm = A(level) => j <= i
        BY <2>3, <3>1 DEF HasLastWord
      <4>2. 4 \in 1 .. 4 /\ list[4].alarm = A(level)
        BY <2>5, <3>1
      <4>3. i = 4
        BY <4>1, <4>2
      <4> QED BY <2>5, <4>1, <4>3
    <3> QED BY <3>1
  <2>10. Mentions(list, alarm) => \E l \in DOMAIN DiskCodes : alarm = A(l)
    BY <1>9, <2>3, <2>4, <2>5, <2>6 DEF Mentions
  <2> QED BY <1>5, <1>9, <2>2, <2>3, <2>7, <2>8, <2>9, <2>10
<1> QED BY <1>7, <1>8, <1>9

-----------------------------------------------------------------------------
(* Every step keeps the invariant *)

LEMMA HealthInitInv == RegistryInit /\ HealthInit => HealthInv
<1> SUFFICES ASSUME RegistryInit, HealthInit PROVE HealthInv
  OBVIOUS
<1>1. /\ raised = {} /\ overflowed = FALSE /\ DOMAIN calls = Threads
      /\ \A t \in Threads : calls[t] = <<>>
  BY DEF RegistryInit
<1>2. HealthTypes
  <2>1. calls \in [Threads -> Seq(HealthCalls)]
    BY DEF RegistryInit
  <2>2. unasked \in Seq(Sources)
    BY HealthAssumption DEF HealthInit, Sources
  <2> QED BY <1>1, <2>1, <2>2 DEF HealthTypes, HealthInit, DiskStates, DiskLevels, GaugeLevels
<1>3. MonitorRemembers
  <2>1. DOMAIN DiskCodes = {"warning", "critical", "stop"}
    BY DEF DiskCodes
  <2> QED BY <2>1 DEF MonitorRemembers, HealthInit, Metrics
<1>4. \A alarm : \A t \in Threads : ~Mentions(calls[t], alarm)
  BY <1>1, WordsOfNone
<1>5. \A alarm, op : \A t \in Threads : ~HasLastWord(calls[t], alarm, op)
  BY <1>1, WordsOfNone
<1>6. \A alarm : Agrees("health", alarm, FALSE)
  BY <1>1, <1>4, <1>5, HealthAssumption DEF Agrees, HealthThreads
<1>7. RegistryFollows
  <2>1. \A d \in Disks, level \in DOMAIN DiskCodes : (diskStates[d] = level) = FALSE
    BY DEF HealthInit, DiskCodes
  <2>2. \A g \in Gauges : high[g] = FALSE
    BY DEF HealthInit
  <2>3. \A s \in Sources : (s \in failedSources) = FALSE
    BY DEF HealthInit
  <2>4. \A d \in Disks, level \in DOMAIN DiskCodes :
            Agrees("health", DiskAlarm(level, d), diskStates[d] = level)
    BY <1>6, <2>1
  <2>5. \A g \in Gauges : Agrees("health", UsageHigh(g), high[g])
    BY <1>6, <2>2
  <2>6. \A s \in Sources : Agrees("health", SampleFailed(s), s \in failedSources)
    BY <1>6, <2>3
  <2> QED BY <2>4, <2>5, <2>6 DEF RegistryFollows
<1>8. OthersAreSilent
  BY <1>4 DEF OthersAreSilent
<1> QED BY <1>2, <1>3, <1>7, <1>8 DEF HealthInv

HealthRemembers == <<failedSources, lastFailed, high, diskStates, judged, unjudged>>

LEMMA HealthCallKeeps ==
    ASSUME HealthInv, HealthCall
    PROVE  HealthInv'
<1> USE DEF HealthInv
<1>1. PICK t \in Threads : Call(t) /\ UNCHANGED healthVars
  BY HealthAssumption DEF HealthCall
<1>2. calls \in [Threads -> Seq(HealthCalls)] /\ "health" \in Threads
  BY HealthAssumption DEF HealthTypes, HealthThreads
<1>3. UNCHANGED <<levels, unasked, HealthRemembers>>
  BY <1>1 DEF healthVars, HealthRemembers
<1>4. /\ calls[t] \in Seq(HealthCalls) /\ calls[t] # <<>>
      /\ calls' = [calls EXCEPT ![t] = Tail(calls[t])]
  BY <1>1, <1>2 DEF Call
<1>5. /\ Head(calls[t]) \in HealthCalls /\ Tail(calls[t]) \in Seq(HealthCalls)
  BY <1>4, HeadTailProperties
<1>6. calls' \in [Threads -> Seq(HealthCalls)]
  BY <1>2, <1>4, <1>5
<1>7. HealthTypes'
  BY <1>3, <1>6 DEF HealthTypes, HealthRemembers
<1>8. MonitorRemembers'
  BY <1>3 DEF MonitorRemembers, HealthRemembers
<1>9. OthersAreSilent'
  <2> SUFFICES ASSUME NEW u \in Threads \ {"health"}, NEW alarm \in HealthAlarms
               PROVE  ~Mentions(calls'[u], alarm)
    BY DEF OthersAreSilent
  <2>1. ~Mentions(calls[u], alarm)
    BY DEF OthersAreSilent
  <2>2. CASE u = t
    <3>1. ~Mentions(Tail(calls[t]), alarm)
      BY <1>4, <2>1, <2>2, WordsOfTail
    <3> QED BY <1>2, <1>4, <2>2, <3>1
  <2>3. CASE u # t
    BY <1>2, <1>4, <2>1, <2>3
  <2> QED BY <2>2, <2>3
<1>10. ASSUME NEW alarm \in HealthAlarms, NEW due \in BOOLEAN, Agrees("health", alarm, due)
       PROVE  Agrees("health", alarm, due)'
  <2>1. t = "health" \/ ~Mentions(calls[t], alarm)
    BY DEF OthersAreSilent
  <2>2. calls \in [Threads -> Seq([op : {"raise", "clear"}, alarm : HealthAlarms \union MaintenanceAlarms])]
    BY <1>2 DEF HealthCalls
  <2> QED BY <1>1, <1>2, <1>10, <2>1, <2>2, CallKeepsAgreement
<1>11. RegistryFollows'
  <2>1. ASSUME NEW s \in Sources PROVE Agrees("health", SampleFailed(s), s \in failedSources)'
    <3>1. PICK due \in BOOLEAN : due = (s \in failedSources)
      <4>1. CASE s \in failedSources
        <5>1. TRUE = (s \in failedSources) /\ TRUE \in BOOLEAN
          BY <4>1
        <5> QED BY <5>1
      <4>2. CASE s \notin failedSources
        <5>1. FALSE = (s \in failedSources) /\ FALSE \in BOOLEAN
          BY <4>2
        <5> QED BY <5>1
      <4> QED BY <4>1, <4>2
    <3>2. due = (s \in failedSources')
      BY <1>3, <3>1 DEF HealthRemembers
    <3>3. Agrees("health", SampleFailed(s), due)
      BY <3>1 DEF RegistryFollows
    <3>4. Agrees("health", SampleFailed(s), due)'
      BY <1>10, <3>3, HealthAlarmsKnown
    <3> QED BY <3>2, <3>4
  <2>2. ASSUME NEW g \in Gauges PROVE Agrees("health", UsageHigh(g), high[g])'
    <3>1. PICK due \in BOOLEAN : due = high[g]
      BY DEF HealthTypes
    <3>2. due = high'[g]
      BY <1>3, <3>1 DEF HealthRemembers
    <3>3. Agrees("health", UsageHigh(g), due)
      BY <3>1 DEF RegistryFollows
    <3>4. Agrees("health", UsageHigh(g), due)'
      BY <1>10, <3>3, HealthAlarmsKnown
    <3> QED BY <3>2, <3>4
  <2>3. ASSUME NEW d \in Disks, NEW level \in DOMAIN DiskCodes
        PROVE  Agrees("health", DiskAlarm(level, d), diskStates[d] = level)'
    <3>1. PICK due \in BOOLEAN : due = (diskStates[d] = level)
      OBVIOUS
    <3>2. due = (diskStates'[d] = level)
      BY <1>3, <3>1 DEF HealthRemembers
    <3>3. Agrees("health", DiskAlarm(level, d), due)
      BY <3>1 DEF RegistryFollows
    <3>4. Agrees("health", DiskAlarm(level, d), due)'
      BY <1>10, <3>3, HealthAlarmsKnown
    <3> QED BY <3>2, <3>4
  <2> QED BY <2>1, <2>2, <2>3 DEF RegistryFollows
<1> QED BY <1>7, <1>8, <1>9, <1>11

\* What a step of the monitor plans leaves the alarms alone that it does not mention.
LEMMA HealthPlanKeeps ==
    ASSUME HealthInv, NEW list \in Seq(HealthCalls), Plan("health", list)
    PROVE  /\ calls' \in [Threads -> Seq(HealthCalls)] /\ OthersAreSilent'
           /\ UNCHANGED <<raised, overflowed>>
           /\ \A alarm : \A due \in BOOLEAN :
                  Agrees("health", alarm, due) /\ ~Mentions(list, alarm) =>
                      Agrees("health", alarm, due)'
<1>1. calls \in [Threads -> Seq(HealthCalls)] /\ "health" \in Threads
  BY HealthAssumption DEF HealthThreads, HealthInv, HealthTypes
<1>2. calls' = [calls EXCEPT !["health"] = list] /\ UNCHANGED <<raised, overflowed>>
  BY DEF Plan
<1>3. calls' \in [Threads -> Seq(HealthCalls)]
  BY <1>1, <1>2
<1>4. OthersAreSilent'
  BY <1>1, <1>2 DEF HealthInv, OthersAreSilent
<1>5. ASSUME NEW alarm, NEW due \in BOOLEAN, Agrees("health", alarm, due), ~Mentions(list, alarm)
      PROVE  Agrees("health", alarm, due)'
  <2>1. ~HasLastWord(list, alarm, "raise") /\ ~HasLastWord(list, alarm, "clear")
    BY <1>5 DEF HasLastWord, Mentions
  <2>2. DOMAIN calls = Threads
    BY <1>1
  <2> QED BY <1>1, <1>5, <2>1, <2>2, PlanKeepsAgreement
<1> QED BY <1>2, <1>3, <1>4, <1>5

LEMMA PlannedAgrees ==
    ASSUME HealthInv, NEW list, Plan("health", list), NEW alarm, NEW was \in BOOLEAN,
           NEW due \in BOOLEAN, Agrees("health", alarm, was),
           HasLastWord(list, alarm, "raise") => due, HasLastWord(list, alarm, "clear") => ~due,
           ~Mentions(list, alarm) => due = was
    PROVE  Agrees("health", alarm, due)'
<1>1. DOMAIN calls = Threads /\ "health" \in Threads
  BY HealthAssumption DEF HealthThreads, HealthInv, HealthTypes
<1> QED BY <1>1, PlanKeepsAgreement

\* A step that plans for none of the metrics keeps their alarms in agreement.
LEMMA MetricsStay ==
    ASSUME HealthInv, NEW list \in Seq(HealthCalls), Plan("health", list),
           UNCHANGED <<high, diskStates>>,
           \A g \in Gauges : ~Mentions(list, UsageHigh(g)),
           \A d \in Disks, level \in DOMAIN DiskCodes : ~Mentions(list, DiskAlarm(level, d))
    PROVE  /\ \A g \in Gauges : Agrees("health", UsageHigh(g), high[g])'
           /\ \A d \in Disks, level \in DOMAIN DiskCodes :
                  Agrees("health", DiskAlarm(level, d), diskStates[d] = level)'
<1>1. ASSUME NEW g \in Gauges PROVE Agrees("health", UsageHigh(g), high[g])'
  <2>1. PICK due \in BOOLEAN : due = high[g] /\ due = high'[g]
    BY DEF HealthInv, HealthTypes
  <2>2. Agrees("health", UsageHigh(g), due)
    BY <2>1 DEF HealthInv, RegistryFollows
  <2>3. Agrees("health", UsageHigh(g), due)'
    BY <2>2, HealthPlanKeeps
  <2> QED BY <2>1, <2>3
<1>2. ASSUME NEW d \in Disks, NEW level \in DOMAIN DiskCodes
      PROVE  Agrees("health", DiskAlarm(level, d), diskStates[d] = level)'
  <2>1. PICK due \in BOOLEAN : due = (diskStates[d] = level)
    OBVIOUS
  <2>2. Agrees("health", DiskAlarm(level, d), due) /\ due = (diskStates'[d] = level)
    BY <2>1 DEF HealthInv, RegistryFollows
  <2>3. Agrees("health", DiskAlarm(level, d), due)'
    BY <2>2, HealthPlanKeeps
  <2> QED BY <2>2, <2>3
<1> QED BY <1>1, <1>2

LEMMA SourceMembership ==
    ASSUME NEW s, NEW S
    PROVE  \E due \in BOOLEAN : due = (s \in S)
<1>1. CASE s \in S
  <2>1. TRUE = (s \in S) /\ TRUE \in BOOLEAN
    BY <1>1
  <2> QED BY <2>1
<1>2. CASE s \notin S
  <2>1. FALSE = (s \in S) /\ FALSE \in BOOLEAN
    BY <1>2
  <2> QED BY <2>1
<1> QED BY <1>1, <1>2

LEMMA SampleKeeps ==
    ASSUME HealthInv, Sample
    PROVE  HealthInv'
<1> DEFINE source == Head(unasked)
<1>1. unasked # <<>> /\ source \in Sources /\ unasked' = Tail(unasked) /\ Tail(unasked) \in Seq(Sources)
  <2>1. unasked \in Seq(Sources) /\ unasked # <<>> /\ unasked' = Tail(unasked)
    BY DEF HealthInv, HealthTypes, Sample
  <2> QED BY <2>1, HeadTailProperties
<1> HIDE DEF source
<1>2. UNCHANGED <<high, diskStates, judged, unjudged>>
  BY DEF Sample
<1>a. Raise(SampleFailed(source)) \in HealthCalls /\ Clear(SampleFailed(source)) \in HealthCalls
      /\ Raise(SampleFailed(source)).alarm = SampleFailed(source) /\ Raise(SampleFailed(source)).op = "raise"
      /\ Clear(SampleFailed(source)).alarm = SampleFailed(source) /\ Clear(SampleFailed(source)).op = "clear"
  BY <1>1, HealthAlarmsKnown, CallShapes
<1>3. \E list \in Seq(HealthCalls) :
         /\ Plan("health", list)
         /\ levels' \in [Metrics -> GaugeLevels \union DiskLevels]
         /\ \/ /\ failedSources' = failedSources \ {source} /\ lastFailed' = lastFailed \ {source}
               /\ list = If(source \in failedSources, Clear(SampleFailed(source)))
            \/ /\ failedSources' = failedSources \union {source}
               /\ lastFailed' = lastFailed \union {source}
               /\ list = If(source \notin failedSources, Raise(SampleFailed(source)))
  <2>1. CASE SampleGood(source)
    <3>1. PICK list : list = If(source \in failedSources, Clear(SampleFailed(source)))
      OBVIOUS
    <3>2. list \in Seq(HealthCalls)
      BY <1>a, <3>1 DEF If
    <3>3. levels' \in [Metrics -> GaugeLevels \union DiskLevels] /\ Plan("health", list)
          /\ failedSources' = failedSources \ {source} /\ lastFailed' = lastFailed \ {source}
      BY <2>1, <3>1 DEF SampleGood
    <3> QED BY <3>1, <3>2, <3>3
  <2>2. CASE SampleBad(source)
    <3>1. PICK list : list = If(source \notin failedSources, Raise(SampleFailed(source)))
      OBVIOUS
    <3>2. list \in Seq(HealthCalls)
      BY <1>a, <3>1 DEF If
    <3>3. levels' \in [Metrics -> GaugeLevels \union DiskLevels] /\ Plan("health", list)
          /\ failedSources' = failedSources \union {source} /\ lastFailed' = lastFailed \union {source}
      BY <2>2, <3>1 DEF SampleBad, HealthInv, HealthTypes
    <3> QED BY <3>1, <3>2, <3>3
  <2> QED BY <2>1, <2>2 DEF Sample, source
<1>4. PICK list \in Seq(HealthCalls) :
         /\ Plan("health", list)
         /\ levels' \in [Metrics -> GaugeLevels \union DiskLevels]
         /\ \/ /\ failedSources' = failedSources \ {source} /\ lastFailed' = lastFailed \ {source}
               /\ list = If(source \in failedSources, Clear(SampleFailed(source)))
            \/ /\ failedSources' = failedSources \union {source}
               /\ lastFailed' = lastFailed \union {source}
               /\ list = If(source \notin failedSources, Raise(SampleFailed(source)))
  BY <1>3
<1>5. \A alarm : /\ Mentions(list, alarm) => alarm = SampleFailed(source)
                 /\ HasLastWord(list, alarm, "raise") => source \in failedSources'
                 /\ HasLastWord(list, alarm, "clear") => source \notin failedSources'
  <2> SUFFICES ASSUME NEW alarm
               PROVE  /\ Mentions(list, alarm) => alarm = SampleFailed(source)
                      /\ HasLastWord(list, alarm, "raise") => source \in failedSources'
                      /\ HasLastWord(list, alarm, "clear") => source \notin failedSources'
    OBVIOUS
  <2>1. \/ list = <<>>
        \/ list = <<Clear(SampleFailed(source))>> /\ source \notin failedSources'
        \/ list = <<Raise(SampleFailed(source))>> /\ source \in failedSources'
    BY <1>4 DEF If
  <2>2. CASE list = <<>>
    BY <2>2, WordsOfNone
  <2>3. CASE list = <<Clear(SampleFailed(source))>> /\ source \notin failedSources'
    <3>1. /\ Mentions(list, alarm) <=> SampleFailed(source) = alarm
          /\ ~HasLastWord(list, alarm, "raise")
      BY <1>a, <2>3, WordsOfOne
    <3> QED BY <2>3, <3>1
  <2>4. CASE list = <<Raise(SampleFailed(source))>> /\ source \in failedSources'
    <3>1. /\ Mentions(list, alarm) <=> SampleFailed(source) = alarm
          /\ ~HasLastWord(list, alarm, "clear")
      BY <1>a, <2>4, WordsOfOne
    <3> QED BY <2>4, <3>1
  <2> QED BY <2>1, <2>2, <2>3, <2>4
<1>6. ~Mentions(list, SampleFailed(source)) => (source \in failedSources <=> source \in failedSources')
  <2>1. \/ list = <<Clear(SampleFailed(source))>> \/ list = <<Raise(SampleFailed(source))>>
        \/ (source \in failedSources <=> source \in failedSources')
    BY <1>4 DEF If
  <2>2. Mentions(<<Clear(SampleFailed(source))>>, SampleFailed(source))
    BY <1>a, WordsOfOne
  <2>3. Mentions(<<Raise(SampleFailed(source))>>, SampleFailed(source))
    BY <1>a, WordsOfOne
  <2> QED BY <2>1, <2>2, <2>3
<1>7. HealthTypes'
  <2>1. calls' \in [Threads -> Seq(HealthCalls)] /\ UNCHANGED <<raised, overflowed>>
    BY <1>4, HealthPlanKeeps
  <2> QED BY <1>1, <1>2, <1>4, <2>1 DEF HealthInv, HealthTypes
<1>8. MonitorRemembers'
  BY <1>1, <1>2, <1>4 DEF HealthInv, MonitorRemembers
<1>9. OthersAreSilent'
  BY <1>4, HealthPlanKeeps
<1>10. RegistryFollows'
  <2>1. /\ \A g \in Gauges : ~Mentions(list, UsageHigh(g))
        /\ \A d \in Disks, level \in DOMAIN DiskCodes : ~Mentions(list, DiskAlarm(level, d))
    BY <1>5, HealthAlarmsDiffer
  <2>2. /\ \A g \in Gauges : Agrees("health", UsageHigh(g), high[g])'
        /\ \A d \in Disks, level \in DOMAIN DiskCodes :
               Agrees("health", DiskAlarm(level, d), diskStates[d] = level)'
    BY <1>2, <1>4, <2>1, MetricsStay
  <2>3. ASSUME NEW s \in Sources PROVE Agrees("health", SampleFailed(s), s \in failedSources)'
    <3>1. PICK due \in BOOLEAN : due = (s \in failedSources')
      BY SourceMembership
    <3>2. PICK was \in BOOLEAN : was = (s \in failedSources)
      BY SourceMembership
    <3>3. Agrees("health", SampleFailed(s), was)
      BY <3>2 DEF HealthInv, RegistryFollows
    <3>4. CASE s = source
      <4>1. /\ HasLastWord(list, SampleFailed(s), "raise") => due
            /\ HasLastWord(list, SampleFailed(s), "clear") => ~due
        BY <1>5, <3>1, <3>4
      <4>2. ~Mentions(list, SampleFailed(s)) => due = was
        BY <1>6, <3>1, <3>2, <3>4
      <4>3. Agrees("health", SampleFailed(s), due)'
        BY <1>4, <3>3, <4>1, <4>2, PlannedAgrees
      <4> QED BY <3>1, <4>3
    <3>5. CASE s # source
      <4>1. ~Mentions(list, SampleFailed(s))
        BY <1>5, <3>5, HealthAlarmsDiffer
      <4>2. due = was
        BY <1>4, <3>1, <3>2, <3>5
      <4>3. Agrees("health", SampleFailed(s), due)'
        BY <1>4, <3>3, <4>1, <4>2, HealthPlanKeeps
      <4> QED BY <3>1, <4>3
    <3> QED BY <3>4, <3>5
  <2> QED BY <2>2, <2>3 DEF RegistryFollows
<1> QED BY <1>7, <1>8, <1>9, <1>10 DEF HealthInv

\* The failures of the sources are not the judgement's concern.
LEMMA FailuresStay ==
    ASSUME HealthInv, NEW list \in Seq(HealthCalls), Plan("health", list),
           UNCHANGED failedSources, \A s : ~Mentions(list, SampleFailed(s))
    PROVE  \A s \in Sources : Agrees("health", SampleFailed(s), s \in failedSources)'
<1> SUFFICES ASSUME NEW s \in Sources
             PROVE  Agrees("health", SampleFailed(s), s \in failedSources)'
  OBVIOUS
<1>1. PICK due \in BOOLEAN : due = (s \in failedSources)
  BY SourceMembership
<1>2. Agrees("health", SampleFailed(s), due) /\ due = (s \in failedSources')
  BY <1>1 DEF HealthInv, RegistryFollows
<1>3. Agrees("health", SampleFailed(s), due)'
  BY <1>2, HealthPlanKeeps
<1> QED BY <1>2, <1>3

LEMMA JudgeGaugeKeeps ==
    ASSUME HealthInv, NEW gauge \in Gauges, Judge(gauge)
    PROVE  HealthInv'
<1> PICK list : list = GaugeCalls(gauge)
  OBVIOUS
<1>1. /\ list \in Seq(HealthCalls)
      /\ \A alarm : /\ Mentions(list, alarm) => alarm = UsageHigh(gauge)
                    /\ HasLastWord(list, alarm, "raise") => IsHigh(gauge)
                    /\ HasLastWord(list, alarm, "clear") => ~IsHigh(gauge)
      /\ ~Mentions(list, UsageHigh(gauge)) => high[gauge] = IsHigh(gauge)
  BY GaugeWords DEF HealthInv
<1>2. /\ Plan("health", list) /\ high' = [high EXCEPT ![gauge] = IsHigh(gauge)]
      /\ unjudged' = unjudged \ {gauge}
      /\ UNCHANGED <<diskStates, levels, failedSources, unasked, lastFailed, judged>>
  BY DEF Judge
<1>3. high \in [Gauges -> BOOLEAN] /\ IsHigh(gauge) \in BOOLEAN
  BY DEF HealthInv, HealthTypes, IsHigh
<1>4. /\ high' \in [Gauges -> BOOLEAN] /\ high'[gauge] = IsHigh(gauge)
      /\ \A g \in Gauges : g # gauge => high'[g] = high[g]
  BY <1>2, <1>3
<1>5. HealthTypes'
  <2>1. calls' \in [Threads -> Seq(HealthCalls)] /\ UNCHANGED <<raised, overflowed>>
    BY <1>1, <1>2, HealthPlanKeeps
  <2>2. unjudged' \subseteq Metrics
    BY <1>2 DEF HealthInv, HealthTypes
  <2> QED BY <1>2, <1>4, <2>1, <2>2 DEF HealthInv, HealthTypes
<1>6. MonitorRemembers'
  <2>1. \A g \in Gauges : g \in unjudged' \/ high'[g] = (judged'[g] = "high")
    BY <1>2, <1>4 DEF HealthInv, MonitorRemembers, IsHigh
  <2>2. \A d \in Disks : d \in unjudged' \/
           \A level \in DOMAIN DiskCodes : diskStates'[d] = level <=> judged'[d] = level
    BY <1>2, HealthAssumption DEF HealthInv, MonitorRemembers
  <2> QED BY <1>2, <2>1, <2>2 DEF HealthInv, MonitorRemembers
<1>7. OthersAreSilent'
  BY <1>1, <1>2, HealthPlanKeeps
<1>8. RegistryFollows'
  <2>1. \A s \in Sources : Agrees("health", SampleFailed(s), s \in failedSources)'
    BY <1>1, <1>2, FailuresStay, HealthAlarmsDiffer
  <2>2. ASSUME NEW g \in Gauges PROVE Agrees("health", UsageHigh(g), high[g])'
    <3>1. PICK due \in BOOLEAN : due = high'[g]
      BY <1>4
    <3>2. PICK was \in BOOLEAN : was = high[g]
      BY <1>3
    <3>3. Agrees("health", UsageHigh(g), was)
      BY <3>2 DEF HealthInv, RegistryFollows
    <3>4. CASE g = gauge
      <4>1. /\ HasLastWord(list, UsageHigh(g), "raise") => due
            /\ HasLastWord(list, UsageHigh(g), "clear") => ~due
            /\ ~Mentions(list, UsageHigh(g)) => due = was
        BY <1>1, <1>4, <3>1, <3>2, <3>4
      <4> QED BY <1>2, <3>1, <3>3, <4>1, PlannedAgrees
    <3>5. CASE g # gauge
      <4>1. ~Mentions(list, UsageHigh(g)) /\ due = was
        BY <1>1, <1>4, <3>1, <3>2, <3>5, HealthAlarmsDiffer
      <4> QED BY <1>1, <1>2, <3>1, <3>3, <4>1, HealthPlanKeeps
    <3> QED BY <3>4, <3>5
  <2>3. ASSUME NEW d \in Disks, NEW level \in DOMAIN DiskCodes
        PROVE  Agrees("health", DiskAlarm(level, d), diskStates[d] = level)'
    <3>1. PICK due \in BOOLEAN : due = (diskStates[d] = level)
      OBVIOUS
    <3>2. Agrees("health", DiskAlarm(level, d), due) /\ due = (diskStates'[d] = level)
      BY <1>2, <3>1 DEF HealthInv, RegistryFollows
    <3>3. ~Mentions(list, DiskAlarm(level, d))
      BY <1>1, HealthAlarmsDiffer
    <3>4. Agrees("health", DiskAlarm(level, d), due)'
      BY <1>1, <1>2, <3>2, <3>3, HealthPlanKeeps
    <3> QED BY <3>2, <3>4
  <2> QED BY <2>1, <2>2, <2>3 DEF RegistryFollows
<1> QED BY <1>5, <1>6, <1>7, <1>8 DEF HealthInv

LEMMA JudgeDiskKeeps ==
    ASSUME HealthInv, NEW disk \in Disks, Judge(disk)
    PROVE  HealthInv'
<1> PICK list : list = DiskCalls(disk)
  OBVIOUS
<1>0. DOMAIN DiskCodes = {"warning", "critical", "stop"}
  BY DEF DiskCodes
<1>1. /\ list \in Seq(HealthCalls)
      /\ \A alarm : Mentions(list, alarm) => \E level \in DOMAIN DiskCodes : alarm = DiskAlarm(level, disk)
      /\ \A level \in DOMAIN DiskCodes :
            /\ HasLastWord(list, DiskAlarm(level, disk), "raise") => DiskStateOf(disk) = level
            /\ HasLastWord(list, DiskAlarm(level, disk), "clear") => DiskStateOf(disk) # level
            /\ ~Mentions(list, DiskAlarm(level, disk)) => diskStates[disk] = DiskStateOf(disk)
  BY <1>0, DiskWords DEF HealthInv
<1>2. /\ Plan("health", list) /\ diskStates' = [diskStates EXCEPT ![disk] = DiskStateOf(disk)]
      /\ unjudged' = unjudged \ {disk}
      /\ UNCHANGED <<high, levels, failedSources, unasked, lastFailed, judged>>
  BY HealthAssumption DEF Judge
<1>3. diskStates \in [Disks -> DiskStates] /\ DiskStateOf(disk) \in DiskStates
  BY DEF HealthInv, HealthTypes, DiskStateOf, DiskStates, DiskLevels, GaugeLevels, Metrics
<1>4. /\ diskStates' \in [Disks -> DiskStates] /\ diskStates'[disk] = DiskStateOf(disk)
      /\ \A d \in Disks : d # disk => diskStates'[d] = diskStates[d]
  BY <1>2, <1>3
<1>5. HealthTypes'
  <2>1. calls' \in [Threads -> Seq(HealthCalls)] /\ UNCHANGED <<raised, overflowed>>
    BY <1>1, <1>2, HealthPlanKeeps
  <2>2. unjudged' \subseteq Metrics
    BY <1>2 DEF HealthInv, HealthTypes
  <2> QED BY <1>2, <1>4, <2>1, <2>2 DEF HealthInv, HealthTypes
<1>6. MonitorRemembers'
  <2>1. \A g \in Gauges : g \in unjudged' \/ high'[g] = (judged'[g] = "high")
    BY <1>2, HealthAssumption DEF HealthInv, MonitorRemembers
  <2>2. ASSUME NEW d \in Disks, d \notin unjudged', NEW level \in DOMAIN DiskCodes
        PROVE  diskStates'[d] = level <=> judged'[d] = level
    BY <1>0, <1>2, <1>4, <2>2 DEF HealthInv, MonitorRemembers, DiskStateOf
  <2> QED BY <1>2, <2>1, <2>2 DEF HealthInv, MonitorRemembers
<1>7. OthersAreSilent'
  BY <1>1, <1>2, HealthPlanKeeps
<1>8. RegistryFollows'
  <2>1. \A s \in Sources : Agrees("health", SampleFailed(s), s \in failedSources)'
    BY <1>1, <1>2, FailuresStay, HealthAlarmsDiffer
  <2>2. ASSUME NEW g \in Gauges PROVE Agrees("health", UsageHigh(g), high[g])'
    <3>1. PICK due \in BOOLEAN : due = high[g] /\ due = high'[g]
      BY <1>2 DEF HealthInv, HealthTypes
    <3>2. Agrees("health", UsageHigh(g), due)
      BY <3>1 DEF HealthInv, RegistryFollows
    <3>3. ~Mentions(list, UsageHigh(g))
      BY <1>1, HealthAlarmsDiffer
    <3>4. Agrees("health", UsageHigh(g), due)'
      BY <1>1, <1>2, <3>2, <3>3, HealthPlanKeeps
    <3> QED BY <3>1, <3>4
  <2>3. ASSUME NEW d \in Disks, NEW level \in DOMAIN DiskCodes
        PROVE  Agrees("health", DiskAlarm(level, d), diskStates[d] = level)'
    <3>1. PICK was \in BOOLEAN : was = (diskStates[d] = level)
      OBVIOUS
    <3>2. PICK due \in BOOLEAN : due = (diskStates'[d] = level)
      OBVIOUS
    <3>3. Agrees("health", DiskAlarm(level, d), was)
      BY <3>1 DEF HealthInv, RegistryFollows
    <3>4. CASE d = disk
      <4>1. /\ HasLastWord(list, DiskAlarm(level, d), "raise") => due
            /\ HasLastWord(list, DiskAlarm(level, d), "clear") => ~due
            /\ ~Mentions(list, DiskAlarm(level, d)) => due = was
        BY <1>1, <1>4, <3>1, <3>2, <3>4
      <4>2. Agrees("health", DiskAlarm(level, d), due)'
        BY <1>2, <3>3, <4>1, PlannedAgrees
      <4> QED BY <3>2, <4>2
    <3>5. CASE d # disk
      <4>1. ~Mentions(list, DiskAlarm(level, d)) /\ due = was
        BY <1>1, <1>4, <3>1, <3>2, <3>5, HealthAlarmsDiffer
      <4>2. Agrees("health", DiskAlarm(level, d), due)'
        BY <1>1, <1>2, <3>3, <4>1, HealthPlanKeeps
      <4> QED BY <3>2, <4>2
    <3> QED BY <3>4, <3>5
  <2> QED BY <2>1, <2>2, <2>3 DEF RegistryFollows
<1> QED BY <1>5, <1>6, <1>7, <1>8 DEF HealthInv

\* Steps that call nothing and forget nothing.
LEMMA QuietHealthKeeps ==
    ASSUME HealthInv, UNCHANGED <<registryVars, failedSources, lastFailed, high, diskStates>>,
           levels' \in [Metrics -> GaugeLevels \union DiskLevels],
           judged' \in {judged, levels}, unasked' \in {unasked, MetricSources},
           unjudged' \in {unjudged, Metrics}, judged' = judged \/ unjudged' = Metrics
    PROVE  HealthInv'
<1>1. MetricSources \in Seq(Sources)
  BY HealthAssumption DEF Sources
<1>2. HealthTypes'
  BY <1>1 DEF HealthInv, HealthTypes, registryVars
<1>3. MonitorRemembers'
  BY DEF HealthInv, MonitorRemembers, Metrics
<1>4. OthersAreSilent'
  BY DEF HealthInv, OthersAreSilent, registryVars
<1>5. RegistryFollows'
  BY DEF HealthInv, RegistryFollows, Agrees, registryVars
<1> QED BY <1>2, <1>3, <1>4, <1>5 DEF HealthInv

LEMMA MaintenanceKeeps ==
    ASSUME HealthInv, MaintenanceRun
    PROVE  HealthInv'
<1>1. PICK list : /\ Plan("storage", list)
                  /\ list \in {<<Raise(MaintenanceFailed)>>, <<Raise(LowSpace)>>, <<Clear(LowSpace)>>}
  BY DEF MaintenanceRun
<1>2. UNCHANGED healthVars
  BY DEF MaintenanceRun
<1>3. \E call \in HealthCalls : list = <<call>> /\ call.alarm \in MaintenanceAlarms
  <2>1. MaintenanceFailed \in MaintenanceAlarms /\ LowSpace \in MaintenanceAlarms
    BY DEF MaintenanceAlarms
  <2> QED BY <1>1, <2>1, CallShapes
<1>4. PICK call \in HealthCalls : list = <<call>> /\ call.alarm \in MaintenanceAlarms
  BY <1>3
<1>5. /\ calls \in [Threads -> Seq(HealthCalls)] /\ {"health", "storage"} \subseteq Threads
      /\ calls' = [calls EXCEPT !["storage"] = list] /\ UNCHANGED <<raised, overflowed>>
  BY <1>1, HealthAssumption DEF HealthInv, HealthTypes, HealthThreads, Plan
<1>6. list \in Seq(HealthCalls)
  BY <1>4
<1>7. calls' \in [Threads -> Seq(HealthCalls)] /\ calls'["health"] = calls["health"]
      /\ \A t \in Threads : calls'[t] = IF t = "storage" THEN list ELSE calls[t]
  BY <1>5, <1>6
<1>8. \A alarm \in HealthAlarms : ~Mentions(list, alarm)
  BY <1>4, WordsOfOne, HealthAlarmsDiffer
<1>9. OthersAreSilent'
  BY <1>7, <1>8 DEF HealthInv, OthersAreSilent
<1>10. HealthTypes' /\ MonitorRemembers'
  BY <1>2, <1>5, <1>7 DEF HealthInv, HealthTypes, MonitorRemembers, healthVars
<1>11. RegistryFollows'
  BY <1>2, <1>5, <1>7 DEF HealthInv, RegistryFollows, Agrees, healthVars
<1> QED BY <1>9, <1>10, <1>11 DEF HealthInv

\* What others call leaves an alarm of one's own alone.
LEMMA OthersKeepAgreement ==
    ASSUME NEW own, OthersCall(own), NEW alarm \in own, NEW thread, NEW due \in BOOLEAN,
           Agrees(thread, alarm, due)
    PROVE  Agrees(thread, alarm, due)'
<1>1. /\ calls' = calls /\ (overflowed => overflowed')
      /\ alarm \in raised' <=> alarm \in raised
  BY DEF OthersCall, RaiseAlarm, RefuseAlarm, ClearAlarm
<1> QED BY <1>1 DEF Agrees

LEMMA HealthOthersKeep ==
    ASSUME HealthInv, HealthOthers
    PROVE  HealthInv'
<1>1. OthersCall(HealthAlarms) /\ calls' = calls /\ UNCHANGED healthVars
  BY DEF HealthOthers, OthersCall
<1>2. HealthTypes' /\ MonitorRemembers' /\ OthersAreSilent'
  BY <1>1 DEF HealthInv, HealthTypes, MonitorRemembers, OthersAreSilent, healthVars
<1>3. UNCHANGED <<failedSources, high, diskStates>>
  BY <1>1 DEF healthVars
<1>4. ASSUME NEW s \in Sources PROVE Agrees("health", SampleFailed(s), s \in failedSources)'
  <2>1. PICK due \in BOOLEAN : due = (s \in failedSources)
    BY SourceMembership
  <2>2. Agrees("health", SampleFailed(s), due) /\ due = (s \in failedSources')
    BY <1>3, <2>1 DEF HealthInv, RegistryFollows
  <2>3. Agrees("health", SampleFailed(s), due)'
    BY <1>1, <2>2, HealthAlarmsKnown, OthersKeepAgreement
  <2> QED BY <2>2, <2>3
<1>5. ASSUME NEW g \in Gauges PROVE Agrees("health", UsageHigh(g), high[g])'
  <2>1. PICK due \in BOOLEAN : due = high[g] /\ due = high'[g]
    BY <1>3 DEF HealthInv, HealthTypes
  <2>2. Agrees("health", UsageHigh(g), due)
    BY <2>1 DEF HealthInv, RegistryFollows
  <2>3. Agrees("health", UsageHigh(g), due)'
    BY <1>1, <2>2, HealthAlarmsKnown, OthersKeepAgreement
  <2> QED BY <2>1, <2>3
<1>6. ASSUME NEW d \in Disks, NEW level \in DOMAIN DiskCodes
      PROVE  Agrees("health", DiskAlarm(level, d), diskStates[d] = level)'
  <2>1. PICK due \in BOOLEAN : due = (diskStates[d] = level)
    OBVIOUS
  <2>2. Agrees("health", DiskAlarm(level, d), due) /\ due = (diskStates'[d] = level)
    BY <1>3, <2>1 DEF HealthInv, RegistryFollows
  <2>3. Agrees("health", DiskAlarm(level, d), due)'
    BY <1>1, <2>2, HealthAlarmsKnown, OthersKeepAgreement
  <2> QED BY <2>2, <2>3
<1> QED BY <1>2, <1>4, <1>5, <1>6 DEF HealthInv, RegistryFollows

LEMMA HealthNextInv ==
    ASSUME HealthInv, [HealthNext \/ HealthCall \/ HealthOthers]_<<healthVars, registryVars>>
    PROVE  HealthInv'
<1>1. CASE Sample
  BY <1>1, SampleKeeps
<1>2. CASE BeginJudging
  BY <1>2, QuietHealthKeeps DEF BeginJudging, HealthInv, HealthTypes
<1>3. CASE \E metric \in unjudged : Judge(metric)
  <2>1. PICK metric \in unjudged : Judge(metric)
    BY <1>3
  <2>2. metric \in Gauges \/ metric \in Disks
    BY DEF HealthInv, HealthTypes, Metrics
  <2> QED BY <2>1, <2>2, JudgeGaugeKeeps, JudgeDiskKeeps
<1>4. CASE StartRound
  BY <1>4, QuietHealthKeeps DEF StartRound, HealthInv, HealthTypes
<1>5. CASE Reconfigure
  BY <1>5, QuietHealthKeeps DEF Reconfigure
<1>6. CASE RequestStop \/ EndMonitor
  BY <1>6, QuietHealthKeeps DEF RequestStop, EndMonitor, HealthInv, HealthTypes
<1>7. CASE MaintenanceRun
  BY <1>7, MaintenanceKeeps
<1>8. CASE HealthCall
  BY <1>8, HealthCallKeeps
<1>9. CASE HealthOthers
  BY <1>9, HealthOthersKeep
<1>10. CASE UNCHANGED <<healthVars, registryVars>>
  BY <1>10, QuietHealthKeeps DEF healthVars, HealthInv, HealthTypes
<1> QED BY <1>1, <1>2, <1>3, <1>4, <1>5, <1>6, <1>7, <1>8, <1>9, <1>10 DEF HealthNext

LEMMA HealthInvFollows == HealthInv => AlarmsFollowJudgement
<1> SUFFICES ASSUME HealthInv, unjudged = {}, Idle("health")
             PROVE  /\ raised \intersect HealthAlarms \subseteq CalledFor
                    /\ ~overflowed => CalledFor \subseteq raised
  BY DEF AlarmsFollowJudgement
<1>1. \A alarm : ~Mentions(calls["health"], alarm)
  BY WordsOfNone DEF Idle
<1>2. \A s \in Sources : /\ SampleFailed(s) \in raised => s \in failedSources
                         /\ s \in failedSources => SampleFailed(s) \in raised \/ overflowed
  BY <1>1 DEF HealthInv, RegistryFollows, Agrees
<1>3. \A g \in Gauges : /\ UsageHigh(g) \in raised => high[g]
                        /\ high[g] => UsageHigh(g) \in raised \/ overflowed
  BY <1>1 DEF HealthInv, RegistryFollows, Agrees
<1>4. \A d \in Disks, level \in DOMAIN DiskCodes :
          /\ DiskAlarm(level, d) \in raised => diskStates[d] = level
          /\ diskStates[d] = level => DiskAlarm(level, d) \in raised \/ overflowed
  BY <1>1 DEF HealthInv, RegistryFollows, Agrees
<1>5. /\ failedSources = lastFailed /\ failedSources \subseteq Sources
      /\ \A g \in Gauges : high[g] <=> judged[g] = "high"
      /\ \A d \in Disks, level \in DOMAIN DiskCodes : diskStates[d] = level <=> judged[d] = level
  BY DEF HealthInv, MonitorRemembers
<1>6. ASSUME NEW alarm \in raised \intersect HealthAlarms PROVE alarm \in CalledFor
  <2>1. CASE \E s \in Sources : alarm = SampleFailed(s)
    BY <1>2, <1>5, <1>6, <2>1 DEF CalledFor
  <2>2. CASE \E g \in Gauges : alarm = UsageHigh(g)
    BY <1>3, <1>5, <1>6, <2>2 DEF CalledFor
  <2>3. CASE \E d \in Disks, level \in DOMAIN DiskCodes : alarm = DiskAlarm(level, d)
    BY <1>4, <1>5, <1>6, <2>3 DEF CalledFor
  <2> QED BY <1>6, <2>1, <2>2, <2>3 DEF HealthAlarms, Sources
<1>7. ASSUME ~overflowed, NEW alarm \in CalledFor PROVE alarm \in raised
  BY <1>2, <1>3, <1>4, <1>5, <1>7 DEF CalledFor
<1> QED BY <1>6, <1>7

\* Whenever the health monitor has judged every metric and made its calls, exactly the
\* alarms that its last judgement and the last answers of its sources call for are active,
\* except those a full registry refused: for any sources, gauges, volumes and capacity of
\* the registry, and whatever the rest of the service raises and clears in between.
THEOREM AlarmsFollowJudgementAlways == HealthSpec => []AlarmsFollowJudgement
<1>1. HealthInv /\ [HealthNext \/ HealthCall \/ HealthOthers]_<<healthVars, registryVars>> => HealthInv'
  BY HealthNextInv
<1> QED BY <1>1, HealthInitInv, HealthInvFollows, PTL DEF HealthSpec

-----------------------------------------------------------------------------
(* The clocks *)

KnownTimeAlarms == TimeAlarms \union {SourceChanged(e) : e \in Entities}
TimeCalls == [op : {"raise", "clear"}, alarm : KnownTimeAlarms]

TimeTypes ==
    /\ calls \in [Threads -> Seq(TimeCalls)]
    /\ DOMAIN clocks = Entities
    /\ \A e \in Entities :
         /\ clocks[e].warningFor \in Nat /\ clocks[e].alarmFor \in Nat
         /\ clocks[e].warning \in BOOLEAN /\ clocks[e].alarm \in BOOLEAN
    /\ unheard \subseteq Entities

\* What is remembered of a clock fits together.
ClockIsSound(clock) ==
    /\ clock.alarm <=> clock.alarmFor > AlarmRounds
    /\ ~(clock.warning /\ clock.alarm)
    /\ clock.warning => clock.warningFor > WarningRounds
    /\ clock.warningFor > WarningRounds => clock.warning \/ clock.alarm

\* Nobody but the thread has calls to make.
SpeaksAlone(thread) == \A t \in TimeThreads \ {thread} : Idle(t)

\* The registry, once the thread that speaks has made its calls, has the
\* alarms of the clock that is remembered.
FollowsClock(thread, entity) ==
    /\ Agrees(thread, Warning(entity), clocks[entity].warning)
    /\ Agrees(thread, Alarm(entity), clocks[entity].alarm)

ClocksAreFollowed ==
    \A t \in TimeThreads : SpeaksAlone(t) => \A e \in Entities : FollowsClock(t, e)

\* Only the holder of the lock speaks.
LockIsKept ==
    /\ Idle("time") \/ worker = "observed"
    /\ worker = "observed" => Idle("lifecycle")

\* Where the worker, its runtime and the component can be.
LifeFits ==
    /\ component = "new" => syncRuntime = "created"
    /\ syncRuntime = "created" => worker = "none"
    /\ worker = "none" => \A e \in Entities : models[e] = NoModel
    /\ worker \notin {"none", "ended"} <=> syncRuntime \in {"running", "stop requested"}
    /\ syncRuntime \in {"created", "running", "stop requested", "stopped", "failed"}
    /\ syncRuntime = "stopped" => \A e \in Entities : models[e] \in {NoModel, ReceiveModel}
    /\ component \in {"stopping", "joined", "failed", "timed out"} => syncRuntime # "running"
    /\ component \in {"joined", "failed"} => worker \in {"none", "ended"}
    /\ component = "joined" => syncRuntime = "stopped"

\* How long the error of a clock has lasted once its alarms were withdrawn: a
\* worker that outlives the deadline observes it once at most.
Counts(entity, bound) == clocks[entity].warningFor <= bound /\ clocks[entity].alarmFor <= bound

CountsStayLow ==
    /\ component \in {"joined", "failed"} => \A e \in Entities \ unheard : Counts(e, 0)
    /\ component = "timed out" =>
         /\ \A e \in Entities \ unheard : Counts(e, 1)
         /\ worker \in {"starting", "sampling", "observing"} => \A e \in Entities \ unheard : Counts(e, 0)
         /\ worker = "observed" => \A e \in unheard : Counts(e, 0)

TimeInv ==
    /\ TimeTypes /\ \A e \in Entities : ClockIsSound(clocks[e])
    /\ ClocksAreFollowed /\ LockIsKept /\ LifeFits /\ CountsStayLow

LEMMA TimeInvFollows == TimeInv => ClocksAreJudged
<1> SUFFICES ASSUME TimeInv PROVE ClocksAreJudged
  OBVIOUS
<1>1. ASSUME unheard = {}, Idle("time"), Idle("lifecycle"), NEW e \in Entities
      PROVE  /\ Warning(e) \in raised => clocks[e].warning
             /\ clocks[e].warning => Warning(e) \in raised \/ overflowed
             /\ Alarm(e) \in raised => clocks[e].alarm
             /\ clocks[e].alarm => Alarm(e) \in raised \/ overflowed
             /\ ClockIsSound(clocks[e])
  <2>1. SpeaksAlone("time")
    BY <1>1 DEF SpeaksAlone, TimeThreads
  <2>2. FollowsClock("time", e) /\ ClockIsSound(clocks[e])
    BY <2>1 DEF TimeInv, ClocksAreFollowed, TimeThreads
  <2>3. \A alarm : ~Mentions(calls["time"], alarm)
    BY <1>1, WordsOfNone DEF Idle
  <2> QED BY <2>2, <2>3 DEF FollowsClock, Agrees
<1>2. ASSUME unheard = {}, Idle("time"), Idle("lifecycle"), NEW e \in Entities
      PROVE  /\ ~(Warning(e) \in raised /\ Alarm(e) \in raised)
             /\ Alarm(e) \in raised => clocks[e].alarmFor > AlarmRounds
             /\ Warning(e) \in raised => clocks[e].warningFor > WarningRounds
             /\ clocks[e].alarmFor > AlarmRounds /\ ~overflowed => Alarm(e) \in raised
             /\ clocks[e].warningFor > WarningRounds /\ ~overflowed
                  => Warning(e) \in raised \/ Alarm(e) \in raised
  BY <1>1, <1>2 DEF ClockIsSound
<1>3. ASSUME unheard = {}, Idle("time"), Idle("lifecycle"),
             component \in {"joined", "failed"}
               \/ (component = "timed out" /\ WarningRounds > 0 /\ AlarmRounds > 0)
      PROVE  raised \intersect TimeAlarms = {}
  <2>1. ASSUME NEW e \in Entities PROVE Warning(e) \notin raised /\ Alarm(e) \notin raised
    <3>1. Counts(e, 0) \/ (Counts(e, 1) /\ WarningRounds > 0 /\ AlarmRounds > 0)
      BY <1>3 DEF TimeInv, CountsStayLow
    <3>2. clocks[e].warningFor \in Nat /\ clocks[e].alarmFor \in Nat
      BY DEF TimeInv, TimeTypes
    <3>3. ~(clocks[e].alarmFor > AlarmRounds) /\ ~(clocks[e].warningFor > WarningRounds)
      BY <3>1, <3>2, TimeSyncAssumption DEF Counts
    <3> QED BY <1>2, <1>3, <3>3
  <2> QED BY <2>1 DEF TimeAlarms
<1>4. component = "joined" => \A e \in Entities : models[e] \in {NoModel, ReceiveModel}
  BY DEF TimeInv, LifeFits
<1> QED BY <1>2, <1>3, <1>4 DEF ClocksAreJudged

LEMMA TimeInitInv == RegistryInit /\ TimeInit => TimeInv
<1> SUFFICES ASSUME RegistryInit, TimeInit PROVE TimeInv
  OBVIOUS
<1>1. /\ raised = {} /\ overflowed = FALSE /\ DOMAIN calls = Threads
      /\ \A t \in Threads : calls[t] = <<>>
      /\ \A t \in TimeThreads : calls[t] = <<>>
  BY TimeSyncAssumption DEF RegistryInit
<1>2. \A e \in Entities : clocks[e] = NothingSeen
  BY DEF TimeInit
<1>3. calls \in [Threads -> Seq(TimeCalls)]
  BY DEF RegistryInit
<1>4. TimeTypes
  BY <1>2, <1>3 DEF TimeTypes, TimeInit, NothingSeen
<1>5. \A e \in Entities : ClockIsSound(clocks[e])
  BY <1>2, TimeSyncAssumption DEF ClockIsSound, NothingSeen
<1>6. ASSUME NEW t \in TimeThreads, NEW e \in Entities PROVE FollowsClock(t, e)
  <2>1. \A alarm, op : ~Mentions(calls[t], alarm) /\ ~HasLastWord(calls[t], alarm, op)
    BY <1>1, WordsOfNone
  <2>2. clocks[e].warning = FALSE /\ clocks[e].alarm = FALSE
    BY <1>2 DEF NothingSeen
  <2> QED BY <1>1, <2>1, <2>2 DEF FollowsClock, Agrees
<1>7. ClocksAreFollowed
  BY <1>6 DEF ClocksAreFollowed
<1>8. LockIsKept
  BY <1>1 DEF LockIsKept, Idle, TimeThreads, TimeInit
<1>9. LifeFits /\ CountsStayLow
  BY DEF LifeFits, CountsStayLow, TimeInit
<1> QED BY <1>4, <1>5, <1>7, <1>8, <1>9 DEF TimeInv

\* A thread that agrees alone has passed its agreement on when it falls silent.
LEMMA OneIsEnough ==
    ASSUME NEW thread \in TimeThreads, \A t \in TimeThreads \ {thread} : Idle(t)',
           \A e \in Entities : FollowsClock(thread, e)'
    PROVE  ClocksAreFollowed'
<1> SUFFICES ASSUME NEW t \in TimeThreads, SpeaksAlone(t)', NEW e \in Entities
             PROVE  FollowsClock(t, e)'
  BY DEF ClocksAreFollowed
<1>1. CASE t = thread
  BY <1>1
<1>2. CASE t # thread
  <2>1. calls'[t] = <<>> /\ calls'[thread] = <<>>
    BY <1>2 DEF SpeaksAlone, Idle
  <2>2. FollowsClock(thread, e)'
    OBVIOUS
  <2> QED BY <2>1, <2>2 DEF FollowsClock, Agrees
<1> QED BY <1>1, <1>2

\* What holds of the alarms and the clocks stays where a step touches neither.
LEMMA QuietTimeKeeps ==
    ASSUME TimeInv, UNCHANGED <<clocks, registryVars>>
    PROVE  /\ unheard' \subseteq Entities => TimeTypes'
           /\ \A e \in Entities : ClockIsSound(clocks'[e])
           /\ ClocksAreFollowed'
           /\ \A t : Idle(t)' <=> Idle(t)
<1>1. calls' = calls /\ raised' = raised /\ overflowed' = overflowed /\ clocks' = clocks
  BY DEF registryVars
<1>2. unheard' \subseteq Entities => TimeTypes'
  BY <1>1 DEF TimeInv, TimeTypes
<1>3. \A e \in Entities : ClockIsSound(clocks'[e])
  BY <1>1 DEF TimeInv
<1>4. ClocksAreFollowed'
  BY <1>1 DEF TimeInv, ClocksAreFollowed, SpeaksAlone, FollowsClock, Agrees, Idle
<1>5. \A t : Idle(t)' <=> Idle(t)
  BY <1>1 DEF Idle
<1> QED BY <1>2, <1>3, <1>4, <1>5

LEMMA TimeCallKeeps ==
    ASSUME TimeInv, TimeCall
    PROVE  TimeInv'
<1>1. PICK t \in TimeThreads : Call(t) /\ UNCHANGED timeVars
  BY DEF TimeCall
<1>2. calls \in [Threads -> Seq(TimeCalls)] /\ t \in Threads /\ TimeThreads \subseteq Threads
  BY TimeSyncAssumption DEF TimeInv, TimeTypes
<1>3. /\ calls[t] \in Seq(TimeCalls) /\ calls[t] # <<>>
      /\ calls' = [calls EXCEPT ![t] = Tail(calls[t])]
  BY <1>1, <1>2 DEF Call
<1>4. Tail(calls[t]) \in Seq(TimeCalls)
  BY <1>3, HeadTailProperties
<1>5. calls' \in [Threads -> Seq(TimeCalls)] /\ \A u \in Threads : u # t => calls'[u] = calls[u]
  BY <1>2, <1>3, <1>4
<1>6. /\ clocks' = clocks /\ unheard' = unheard /\ worker' = worker /\ models' = models
      /\ syncRuntime' = syncRuntime /\ component' = component
  BY <1>1 DEF timeVars
<1>7. TimeTypes' /\ \A e \in Entities : ClockIsSound(clocks'[e])
  BY <1>5, <1>6 DEF TimeInv, TimeTypes
<1>8. \A u \in TimeThreads \ {t} : Idle(u) /\ Idle(u)'
  <2>1. ~Idle(t)
    BY <1>3 DEF Idle
  <2>2. \A u \in TimeThreads \ {t} : Idle(u)
    BY <2>1 DEF TimeInv, LockIsKept, TimeThreads
  <2> QED BY <1>2, <1>5, <2>2 DEF Idle
<1>9. LockIsKept'
  <2>1. Idle("time") => Idle("time")'
    BY <1>3, <1>8 DEF TimeThreads, Idle
  <2>2. Idle("lifecycle") => Idle("lifecycle")'
    BY <1>3, <1>8 DEF TimeThreads, Idle
  <2> QED BY <1>6, <2>1, <2>2 DEF TimeInv, LockIsKept
<1>10. LifeFits' /\ CountsStayLow'
  BY <1>6 DEF TimeInv, LifeFits, CountsStayLow, Counts
<1>11. ASSUME NEW e \in Entities PROVE FollowsClock(t, e)'
  <2>1. SpeaksAlone(t)
    BY <1>8 DEF SpeaksAlone
  <2>2. PICK w \in BOOLEAN : w = clocks[e].warning
    BY DEF TimeInv, TimeTypes
  <2>3. PICK a \in BOOLEAN : a = clocks[e].alarm
    BY DEF TimeInv, TimeTypes
  <2>4. Agrees(t, Warning(e), w) /\ Agrees(t, Alarm(e), a)
    BY <2>1, <2>2, <2>3 DEF TimeInv, ClocksAreFollowed, FollowsClock
  <2>5. calls \in [Threads -> Seq([op : {"raise", "clear"}, alarm : KnownTimeAlarms])]
    BY <1>2 DEF TimeCalls
  <2>6. Agrees(t, Warning(e), w)'
    BY <1>1, <1>2, <2>4, <2>5, CallKeepsAgreement
  <2>7. Agrees(t, Alarm(e), a)'
    BY <1>1, <1>2, <2>4, <2>5, CallKeepsAgreement
  <2> QED BY <1>6, <2>2, <2>3, <2>6, <2>7 DEF FollowsClock
<1>12. ClocksAreFollowed'
  BY <1>8, <1>11, OneIsEnough
<1> QED BY <1>7, <1>9, <1>10, <1>12 DEF TimeInv

\* The words of two lists one after the other: the later one's count.
LEMMA WordsOfConcat ==
    ASSUME NEW S, NEW one \in Seq(S), NEW two \in Seq(S), NEW alarm, NEW op
    PROVE  /\ one \o two \in Seq(S)
           /\ Mentions(one \o two, alarm) <=> Mentions(one, alarm) \/ Mentions(two, alarm)
           /\ HasLastWord(one \o two, alarm, op) <=>
                  \/ HasLastWord(two, alarm, op)
                  \/ ~Mentions(two, alarm) /\ HasLastWord(one, alarm, op)
<1>1. PICK n \in Nat, m \in Nat : n = Len(one) /\ m = Len(two)
  OBVIOUS
<1>2. PICK list \in Seq(S) : list = one \o two
  BY ConcatProperties
<1>3. /\ Len(list) = n + m
      /\ \A i \in 1 .. n + m : list[i] = IF i <= n THEN one[i] ELSE two[i - n]
  BY <1>1, <1>2, ConcatProperties
<1>4. \A i \in 1 .. n : i \in 1 .. n + m /\ list[i] = one[i]
  BY <1>3
<1>5. \A i \in 1 .. m : n + i \in 1 .. n + m /\ list[n + i] = two[i]
  BY <1>3
<1>6. \A i \in 1 .. n + m : i \in 1 .. n \/ (i - n \in 1 .. m /\ list[i] = two[i - n] /\ i > n)
  BY <1>3
<1>7. Mentions(list, alarm) <=> Mentions(one, alarm) \/ Mentions(two, alarm)
  <2>1. ASSUME Mentions(list, alarm) PROVE Mentions(one, alarm) \/ Mentions(two, alarm)
    <3>1. PICK i \in 1 .. n + m : list[i].alarm = alarm
      BY <1>3, <2>1 DEF Mentions
    <3> QED BY <1>1, <1>4, <1>6, <3>1 DEF Mentions
  <2>2. ASSUME Mentions(one, alarm) PROVE Mentions(list, alarm)
    BY <1>1, <1>3, <1>4, <2>2 DEF Mentions
  <2>3. ASSUME Mentions(two, alarm) PROVE Mentions(list, alarm)
    BY <1>1, <1>3, <1>5, <2>3 DEF Mentions
  <2> QED BY <2>1, <2>2, <2>3
<1>8. ASSUME HasLastWord(list, alarm, op)
      PROVE  \/ HasLastWord(two, alarm, op)
             \/ ~Mentions(two, alarm) /\ HasLastWord(one, alarm, op)
  <2>1. PICK i \in 1 .. n + m : /\ list[i].op = op /\ list[i].alarm = alarm
                                /\ \A j \in 1 .. n + m : list[j].alarm = alarm => j <= i
    BY <1>3, <1>8 DEF HasLastWord
  <2>2. CASE i \in 1 .. n
    <3>1. ASSUME NEW j \in 1 .. m, two[j].alarm = alarm PROVE FALSE
      <4>1. n + j <= i
        BY <1>5, <2>1, <3>1
      <4> QED BY <2>2, <4>1
    <3>2. \A j \in 1 .. n : one[j].alarm = alarm => j <= i
      BY <1>4, <2>1
    <3> QED BY <1>1, <1>4, <2>1, <2>2, <3>1, <3>2 DEF Mentions, HasLastWord
  <2>3. CASE i - n \in 1 .. m /\ list[i] = two[i - n]
    <3>1. ASSUME NEW j \in 1 .. m, two[j].alarm = alarm PROVE j <= i - n
      <4>1. n + j <= i
        BY <1>5, <2>1, <3>1
      <4> QED BY <4>1
    <3> QED BY <1>1, <2>1, <2>3, <3>1 DEF HasLastWord
  <2> QED BY <1>6, <2>2, <2>3
<1>9. ASSUME HasLastWord(two, alarm, op) PROVE HasLastWord(list, alarm, op)
  <2>1. PICK i \in 1 .. m : /\ two[i].op = op /\ two[i].alarm = alarm
                            /\ \A j \in 1 .. m : two[j].alarm = alarm => j <= i
    BY <1>1, <1>9 DEF HasLastWord
  <2>2. n + i \in 1 .. n + m /\ list[n + i].op = op /\ list[n + i].alarm = alarm
    BY <1>5, <2>1
  <2>3. ASSUME NEW j \in 1 .. n + m, list[j].alarm = alarm PROVE j <= n + i
    <3>1. CASE j \in 1 .. n
      BY <3>1
    <3>2. CASE j - n \in 1 .. m /\ list[j] = two[j - n]
      BY <2>1, <2>3, <3>2
    <3> QED BY <1>6, <3>1, <3>2
  <2> QED BY <1>3, <2>2, <2>3 DEF HasLastWord
<1>10. ASSUME ~Mentions(two, alarm), HasLastWord(one, alarm, op) PROVE HasLastWord(list, alarm, op)
  <2>1. PICK i \in 1 .. n : /\ one[i].op = op /\ one[i].alarm = alarm
                            /\ \A j \in 1 .. n : one[j].alarm = alarm => j <= i
    BY <1>1, <1>10 DEF HasLastWord
  <2>2. i \in 1 .. n + m /\ list[i].op = op /\ list[i].alarm = alarm
    BY <1>4, <2>1
  <2>3. ASSUME NEW j \in 1 .. n + m, list[j].alarm = alarm PROVE j <= i
    <3>1. CASE j \in 1 .. n
      BY <1>4, <2>1, <2>3, <3>1
    <3>2. CASE j - n \in 1 .. m /\ list[j] = two[j - n]
      BY <1>1, <1>10, <2>3, <3>2 DEF Mentions
    <3> QED BY <1>6, <3>1, <3>2
  <2> QED BY <1>3, <2>2, <2>3 DEF HasLastWord
<1> QED BY <1>2, <1>7, <1>8, <1>9, <1>10

LEMMA WordsOfIf ==
    ASSUME NEW S, NEW call \in S, NEW condition \in BOOLEAN, NEW alarm, NEW op
    PROVE  /\ If(condition, call) \in Seq(S)
           /\ Mentions(If(condition, call), alarm) <=> condition /\ call.alarm = alarm
           /\ HasLastWord(If(condition, call), alarm, op) <=>
                  condition /\ call.op = op /\ call.alarm = alarm
<1>1. CASE condition
  <2>1. If(condition, call) = <<call>> /\ <<call>> \in Seq(S)
    BY <1>1 DEF If
  <2>2. /\ Mentions(<<call>>, alarm) <=> call.alarm = alarm
        /\ HasLastWord(<<call>>, alarm, op) <=> call.op = op /\ call.alarm = alarm
    BY WordsOfOne
  <2>3. /\ Mentions(If(condition, call), alarm) <=> Mentions(<<call>>, alarm)
        /\ HasLastWord(If(condition, call), alarm, op) <=> HasLastWord(<<call>>, alarm, op)
    BY <2>1
  <2> QED BY <1>1, <2>1, <2>2, <2>3
<1>2. CASE ~condition
  <2>1. If(condition, call) = <<>> /\ <<>> \in Seq(S)
    BY <1>2 DEF If
  <2> QED BY <1>2, <2>1, WordsOfNone
<1> QED BY <1>1, <1>2

LEMMA TimeAlarmsDiffer ==
    /\ \A e, f : Warning(e) # Alarm(f) /\ Warning(e) # SourceChanged(f) /\ Alarm(e) # SourceChanged(f)
    /\ \A e, f : Warning(e) = Warning(f) => e = f
    /\ \A e, f : Alarm(e) = Alarm(f) => e = f
    /\ \A e \in Entities : {Warning(e), Alarm(e), SourceChanged(e)} \subseteq KnownTimeAlarms
BY DEF Warning, Alarm, SourceChanged, KnownTimeAlarms, TimeAlarms

LEMMA TimeCallShapes ==
    ASSUME NEW alarm \in KnownTimeAlarms
    PROVE  /\ Raise(alarm) \in TimeCalls /\ Clear(alarm) \in TimeCalls
           /\ Raise(alarm).op = "raise" /\ Raise(alarm).alarm = alarm
           /\ Clear(alarm).op = "clear" /\ Clear(alarm).alarm = alarm
BY DEF Raise, Clear, TimeCalls

\* A condition's one call says what it is about, where the condition holds.
LEMMA WordOfCall ==
    ASSUME NEW alarm \in KnownTimeAlarms, NEW condition \in BOOLEAN, NEW x, NEW op
    PROVE  /\ If(condition, Raise(alarm)) \in Seq(TimeCalls)
           /\ If(condition, Clear(alarm)) \in Seq(TimeCalls)
           /\ Mentions(If(condition, Raise(alarm)), x) <=> condition /\ x = alarm
           /\ Mentions(If(condition, Clear(alarm)), x) <=> condition /\ x = alarm
           /\ HasLastWord(If(condition, Raise(alarm)), x, op) <=>
                  condition /\ x = alarm /\ op = "raise"
           /\ HasLastWord(If(condition, Clear(alarm)), x, op) <=>
                  condition /\ x = alarm /\ op = "clear"
<1>1. PICK up \in TimeCalls : up = Raise(alarm) /\ up.op = "raise" /\ up.alarm = alarm
  BY TimeCallShapes
<1>2. PICK down \in TimeCalls : down = Clear(alarm) /\ down.op = "clear" /\ down.alarm = alarm
  BY TimeCallShapes
<1>3. /\ If(condition, up) \in Seq(TimeCalls)
      /\ Mentions(If(condition, up), x) <=> condition /\ up.alarm = x
      /\ HasLastWord(If(condition, up), x, op) <=> condition /\ up.op = op /\ up.alarm = x
  BY WordsOfIf
<1>4. /\ If(condition, down) \in Seq(TimeCalls)
      /\ Mentions(If(condition, down), x) <=> condition /\ down.alarm = x
      /\ HasLastWord(If(condition, down), x, op) <=> condition /\ down.op = op /\ down.alarm = x
  BY WordsOfIf
<1>5. up = Raise(alarm) /\ down = Clear(alarm)
  BY <1>1, <1>2
<1>6. If(condition, Raise(alarm)) = If(condition, up) /\ If(condition, Clear(alarm)) = If(condition, down)
  BY <1>5
<1> QED BY <1>1, <1>2, <1>3, <1>4, <1>6

\* The calls about a clock end with the alarms that are due from now on.
Says(list, alarm, was, due) ==
    /\ HasLastWord(list, alarm, "raise") => due
    /\ HasLastWord(list, alarm, "clear") => ~due
    /\ ~Mentions(list, alarm) => due = was

\* A change of one alarm is said, whatever came before and comes after it about others.
LEMMA SaysOfTwo ==
    ASSUME NEW one \in Seq(TimeCalls), NEW two \in Seq(TimeCalls), NEW alarm, NEW was, NEW due,
           \/ Says(two, alarm, was, due) /\ ~Mentions(one, alarm)
           \/ Says(one, alarm, was, due) /\ ~Mentions(two, alarm)
    PROVE  Says(one \o two, alarm, was, due)
<1>1. /\ Mentions(one \o two, alarm) <=> Mentions(one, alarm) \/ Mentions(two, alarm)
      /\ HasLastWord(one \o two, alarm, "raise") <=>
             HasLastWord(two, alarm, "raise") \/ (~Mentions(two, alarm) /\ HasLastWord(one, alarm, "raise"))
      /\ HasLastWord(one \o two, alarm, "clear") <=>
             HasLastWord(two, alarm, "clear") \/ (~Mentions(two, alarm) /\ HasLastWord(one, alarm, "clear"))
  BY WordsOfConcat
<1>2. HasLastWord(two, alarm, "raise") \/ HasLastWord(two, alarm, "clear") => Mentions(two, alarm)
  BY DEF HasLastWord, Mentions
<1>3. HasLastWord(one, alarm, "raise") \/ HasLastWord(one, alarm, "clear") => Mentions(one, alarm)
  BY DEF HasLastWord, Mentions
<1> QED BY <1>1, <1>2, <1>3 DEF Says

\* A call that clears what is over and one that raises what is new say what is due.
LEMMA SaysOfChange ==
    ASSUME NEW alarm \in KnownTimeAlarms, NEW was \in BOOLEAN, NEW due \in BOOLEAN,
           NEW one, NEW two,
           \/ one = If(was /\ ~due, Clear(alarm)) /\ two = If(~was /\ due, Raise(alarm))
           \/ one = If(~was /\ due, Raise(alarm)) /\ two = If(was /\ ~due, Clear(alarm))
    PROVE  /\ one \in Seq(TimeCalls) /\ two \in Seq(TimeCalls) /\ one \o two \in Seq(TimeCalls)
           /\ Says(one \o two, alarm, was, due)
           /\ \A x : x # alarm => ~Mentions(one \o two, x) /\ ~Mentions(one, x) /\ ~Mentions(two, x)
<1>1. PICK over \in BOOLEAN : over = (was /\ ~due)
  OBVIOUS
<1>2. PICK begun \in BOOLEAN : begun = (~was /\ due)
  OBVIOUS
<1>3. \/ one = If(over, Clear(alarm)) /\ two = If(begun, Raise(alarm))
      \/ one = If(begun, Raise(alarm)) /\ two = If(over, Clear(alarm))
  BY <1>1, <1>2
<1>4. one \in Seq(TimeCalls) /\ two \in Seq(TimeCalls)
  BY <1>3, WordOfCall
<1>5. \A x : x # alarm => ~Mentions(one, x) /\ ~Mentions(two, x)
  <2> SUFFICES ASSUME NEW x, x # alarm PROVE ~Mentions(one, x) /\ ~Mentions(two, x)
    OBVIOUS
  <2>1. ~Mentions(If(over, Clear(alarm)), x) /\ ~Mentions(If(begun, Raise(alarm)), x)
    BY WordOfCall
  <2> QED BY <1>3, <2>1
<1>6. /\ Mentions(one, alarm) \/ Mentions(two, alarm) <=> over \/ begun
      /\ HasLastWord(one, alarm, "raise") \/ HasLastWord(two, alarm, "raise") => begun
      /\ HasLastWord(one, alarm, "clear") \/ HasLastWord(two, alarm, "clear") => over
  <2>1. PICK down : down = If(over, Clear(alarm))
    OBVIOUS
  <2>2. PICK up : up = If(begun, Raise(alarm))
    OBVIOUS
  <2>3. /\ Mentions(down, alarm) <=> over
        /\ ~HasLastWord(down, alarm, "raise")
        /\ HasLastWord(down, alarm, "clear") => over
    BY <2>1, WordOfCall
  <2>4. /\ Mentions(up, alarm) <=> begun
        /\ HasLastWord(up, alarm, "raise") => begun
        /\ ~HasLastWord(up, alarm, "clear")
    BY <2>2, WordOfCall
  <2>5. (one = down /\ two = up) \/ (one = up /\ two = down)
    BY <1>3, <2>1, <2>2
  <2> QED BY <2>3, <2>4, <2>5
<1>7. /\ one \o two \in Seq(TimeCalls)
      /\ \A x : Mentions(one \o two, x) <=> Mentions(one, x) \/ Mentions(two, x)
      /\ HasLastWord(one \o two, alarm, "raise") => HasLastWord(one, alarm, "raise") \/ HasLastWord(two, alarm, "raise")
      /\ HasLastWord(one \o two, alarm, "clear") => HasLastWord(one, alarm, "clear") \/ HasLastWord(two, alarm, "clear")
  BY <1>4, WordsOfConcat
<1>8. Says(one \o two, alarm, was, due)
  BY <1>1, <1>2, <1>6, <1>7 DEF Says
<1> QED BY <1>4, <1>5, <1>7, <1>8

\* It does not matter where three lists in turn are joined first.
LEMMA SaysInTurn ==
    ASSUME NEW one \in Seq(TimeCalls), NEW two \in Seq(TimeCalls), NEW three \in Seq(TimeCalls),
           NEW alarm, NEW was, NEW due
    PROVE  /\ (one \o two) \o three \in Seq(TimeCalls)
           /\ Mentions((one \o two) \o three, alarm) <=> Mentions(one \o (two \o three), alarm)
           /\ Says((one \o two) \o three, alarm, was, due) <=>
                  Says(one \o (two \o three), alarm, was, due)
<1>1. PICK S : S = TimeCalls
  OBVIOUS
<1>2. one \in Seq(S) /\ two \in Seq(S) /\ three \in Seq(S)
  BY <1>1
<1>3. (one \o two) \o three = one \o (two \o three)
  BY <1>2, ConcatAssociative
<1>4. (one \o two) \o three \in Seq(S)
  BY <1>2
<1> QED BY <1>1, <1>3, <1>4

LEMMA ObserveWords ==
    ASSUME TimeTypes, NEW entity \in Entities, NEW new, new = Observed(entity, models[entity]),
           new.warning \in BOOLEAN, new.alarm \in BOOLEAN
    PROVE  /\ ObserveCalls(entity) \in Seq(TimeCalls)
           /\ Says(ObserveCalls(entity), Warning(entity), clocks[entity].warning, new.warning)
           /\ Says(ObserveCalls(entity), Alarm(entity), clocks[entity].alarm, new.alarm)
           /\ \A alarm : Mentions(ObserveCalls(entity), alarm) =>
                  alarm \in {Warning(entity), Alarm(entity), SourceChanged(entity)}
<1> DEFINE old == clocks[entity]
<1>a. PICK W \in KnownTimeAlarms : W = Warning(entity)
  BY TimeAlarmsDiffer
<1>b. PICK A \in KnownTimeAlarms : A = Alarm(entity)
  BY TimeAlarmsDiffer
<1>c. PICK C \in KnownTimeAlarms : C = SourceChanged(entity)
  BY TimeAlarmsDiffer
<1>d. W # A /\ W # C /\ A # C
  BY <1>a, <1>b, <1>c, TimeAlarmsDiffer
<1>1. old.warning \in BOOLEAN /\ old.alarm \in BOOLEAN
  BY DEF TimeTypes
<1>2. PICK s \in BOOLEAN : s = HasNewSource(entity)
  BY DEF HasNewSource
<1>3. PICK l1 : l1 = If(s, Raise(C))
  OBVIOUS
<1>4. PICK l2 : l2 = If(s, Clear(C))
  OBVIOUS
<1>5. PICK l3 : l3 = If(old.alarm /\ ~new.alarm, Clear(A))
  OBVIOUS
<1>6. PICK l4 : l4 = If(~old.alarm /\ new.alarm, Raise(A))
  OBVIOUS
<1>7. PICK l5 : l5 = If(old.warning /\ ~new.warning, Clear(W))
  OBVIOUS
<1>8. PICK l6 : l6 = If(~old.warning /\ new.warning, Raise(W))
  OBVIOUS
<1>9. ObserveCalls(entity) = (l1 \o l2) \o (((l3 \o l4) \o l5) \o l6)
  BY <1>a, <1>b, <1>c, <1>2, <1>3, <1>4, <1>5, <1>6, <1>7, <1>8 DEF ObserveCalls, Changes
<1> HIDE DEF old
<1>10. /\ l1 \in Seq(TimeCalls) /\ l2 \in Seq(TimeCalls)
       /\ \A x : Mentions(l1, x) \/ Mentions(l2, x) => x = C
  BY <1>2, <1>3, <1>4, WordOfCall
<1>11. /\ l1 \o l2 \in Seq(TimeCalls)
       /\ \A x : Mentions(l1 \o l2, x) => x = C
  BY <1>10, WordsOfConcat
<1>12. /\ l3 \in Seq(TimeCalls) /\ l4 \in Seq(TimeCalls) /\ l3 \o l4 \in Seq(TimeCalls)
       /\ Says(l3 \o l4, A, old.alarm, new.alarm)
       /\ \A x : x # A => ~Mentions(l3 \o l4, x)
  BY <1>1, <1>5, <1>6, SaysOfChange
<1>13. /\ l5 \in Seq(TimeCalls) /\ l6 \in Seq(TimeCalls) /\ l5 \o l6 \in Seq(TimeCalls)
       /\ Says(l5 \o l6, W, old.warning, new.warning)
       /\ \A x : x # W => ~Mentions(l5 \o l6, x)
  BY <1>1, <1>7, <1>8, SaysOfChange
<1>14. PICK m1 \in Seq(TimeCalls) : m1 = l1 \o l2
  BY <1>11
<1>15. PICK m2 \in Seq(TimeCalls) : m2 = l3 \o l4
  BY <1>12
<1>16. PICK m3 \in Seq(TimeCalls) : m3 = l5 \o l6
  BY <1>13
<1>17. PICK m4 \in Seq(TimeCalls) : m4 = (m2 \o l5) \o l6
  <2>1. l5 \in Seq(TimeCalls) /\ l6 \in Seq(TimeCalls)
    BY <1>13
  <2> QED BY <2>1, SaysInTurn
<1>18. PICK list \in Seq(TimeCalls) : list = m1 \o m4
  BY WordsOfConcat
<1>19. ObserveCalls(entity) = list
  BY <1>9, <1>14, <1>15, <1>17, <1>18
<1>m. \A alarm, was, due :
         /\ Mentions(m4, alarm) <=> Mentions(m2 \o m3, alarm)
         /\ Says(m4, alarm, was, due) <=> Says(m2 \o m3, alarm, was, due)
  <2>1. l5 \in Seq(TimeCalls) /\ l6 \in Seq(TimeCalls)
    BY <1>13
  <2> QED BY <1>16, <1>17, <2>1, SaysInTurn
<1>20. /\ \A x : Mentions(m1, x) => x = C
       /\ \A x : x # A => ~Mentions(m2, x)
       /\ \A x : x # W => ~Mentions(m3, x)
  BY <1>11, <1>12, <1>13, <1>14, <1>15, <1>16
<1>21. Says(m4, A, old.alarm, new.alarm) /\ Says(m4, W, old.warning, new.warning)
  <2>1. Says(m2, A, old.alarm, new.alarm) /\ Says(m3, W, old.warning, new.warning)
    BY <1>12, <1>13, <1>15, <1>16
  <2>2. Says(m2 \o m3, A, old.alarm, new.alarm)
    BY <1>d, <1>20, <2>1, SaysOfTwo
  <2>3. Says(m2 \o m3, W, old.warning, new.warning)
    BY <1>d, <1>20, <2>1, SaysOfTwo
  <2> QED BY <1>m, <2>2, <2>3
<1>22. Says(list, A, old.alarm, new.alarm) /\ Says(list, W, old.warning, new.warning)
  <2>1. ~Mentions(m1, A) /\ ~Mentions(m1, W)
    BY <1>d, <1>20
  <2>2. Says(m1 \o m4, A, old.alarm, new.alarm) /\ Says(m1 \o m4, W, old.warning, new.warning)
    BY <1>21, <2>1, SaysOfTwo
  <2> QED BY <1>18, <2>2
<1>23. \A x : Mentions(list, x) => x \in {W, A, C}
  <2>1. \A x : Mentions(m4, x) <=> Mentions(m2, x) \/ Mentions(m3, x)
    BY <1>m, WordsOfConcat
  <2>2. \A x : Mentions(list, x) <=> Mentions(m1, x) \/ Mentions(m4, x)
    BY <1>18, WordsOfConcat
  <2> QED BY <1>20, <2>1, <2>2
<1> QED BY <1>a, <1>b, <1>c, <1>19, <1>22, <1>23 DEF old

LEMMA WithdrawWords ==
    ASSUME TimeTypes, NEW entity \in Entities
    PROVE  /\ ThresholdsCleared(entity) \in Seq(TimeCalls)
           /\ Says(ThresholdsCleared(entity), Warning(entity), clocks[entity].warning, FALSE)
           /\ Says(ThresholdsCleared(entity), Alarm(entity), clocks[entity].alarm, FALSE)
           /\ \A alarm : Mentions(ThresholdsCleared(entity), alarm) =>
                  alarm \in {Warning(entity), Alarm(entity), SourceChanged(entity)}
<1>1. PICK W \in KnownTimeAlarms, A \in KnownTimeAlarms :
         W = Warning(entity) /\ A = Alarm(entity) /\ W # A
  BY TimeAlarmsDiffer
<1>2. PICK w \in BOOLEAN, a \in BOOLEAN : w = clocks[entity].warning /\ a = clocks[entity].alarm
  BY DEF TimeTypes
<1>3. PICK one \in Seq(TimeCalls) : one = If(w, Clear(W))
  BY WordOfCall
<1>4. PICK two \in Seq(TimeCalls) : two = If(a, Clear(A))
  BY WordOfCall
<1>5. /\ \A x : Mentions(one, x) <=> w /\ x = W
      /\ ~HasLastWord(one, W, "raise")
  BY <1>3, WordOfCall
<1>6. /\ \A x : Mentions(two, x) <=> a /\ x = A
      /\ ~HasLastWord(two, A, "raise")
  BY <1>4, WordOfCall
<1>7. Says(one, W, w, FALSE) /\ Says(two, A, a, FALSE)
  BY <1>5, <1>6 DEF Says
<1>8. ~Mentions(one, A) /\ ~Mentions(two, W)
  BY <1>1, <1>5, <1>6
<1>9. Says(one \o two, W, w, FALSE) /\ Says(one \o two, A, a, FALSE)
  BY <1>7, <1>8, SaysOfTwo
<1>10. /\ one \o two \in Seq(TimeCalls)
       /\ \A x : Mentions(one \o two, x) => x \in {W, A}
  BY <1>5, <1>6, WordsOfConcat
<1>11. ThresholdsCleared(entity) = one \o two
  BY <1>1, <1>2, <1>3, <1>4 DEF ThresholdsCleared
<1> QED BY <1>1, <1>2, <1>9, <1>10, <1>11

\* What a thread plans about a clock, and remembers of it, keeps the registry in step.
LEMMA PlannedClockIsFollowed ==
    ASSUME TimeInv, NEW t \in TimeThreads, \A u \in TimeThreads : Idle(u),
           NEW list \in Seq(TimeCalls), Plan(t, list), NEW entity \in Entities, NEW new,
           clocks' = [clocks EXCEPT ![entity] = new],
           new.warning \in BOOLEAN, new.alarm \in BOOLEAN,
           Says(list, Warning(entity), clocks[entity].warning, new.warning),
           Says(list, Alarm(entity), clocks[entity].alarm, new.alarm),
           \A alarm : Mentions(list, alarm) =>
               alarm \in {Warning(entity), Alarm(entity), SourceChanged(entity)}
    PROVE  /\ calls' \in [Threads -> Seq(TimeCalls)]
           /\ \A u \in TimeThreads \ {t} : Idle(u)'
           /\ ClocksAreFollowed'
           /\ DOMAIN clocks' = Entities /\ clocks'[entity] = new
           /\ \A e \in Entities : e # entity => clocks'[e] = clocks[e]
<1>1. /\ calls \in [Threads -> Seq(TimeCalls)] /\ TimeThreads \subseteq Threads
      /\ DOMAIN clocks = Entities
      /\ \A e \in Entities : clocks[e].warning \in BOOLEAN /\ clocks[e].alarm \in BOOLEAN
  BY TimeSyncAssumption DEF TimeInv, TimeTypes
<1>2. calls' = [calls EXCEPT ![t] = list]
  BY DEF Plan
<1>3. calls' \in [Threads -> Seq(TimeCalls)]
  BY <1>1, <1>2
<1>4. \A u \in TimeThreads \ {t} : Idle(u)'
  BY <1>1, <1>2 DEF Idle
<1>5. /\ DOMAIN clocks' = Entities /\ clocks'[entity] = new
      /\ \A e \in Entities : e # entity => clocks'[e] = clocks[e]
  BY <1>1
<1>6. DOMAIN calls = Threads /\ t \in Threads
  BY <1>1
<1>7. ASSUME NEW e \in Entities PROVE FollowsClock(t, e)'
  <2>1. PICK w \in BOOLEAN, a \in BOOLEAN : w = clocks[e].warning /\ a = clocks[e].alarm
    BY <1>1
  <2>2. PICK v \in BOOLEAN, b \in BOOLEAN : v = clocks'[e].warning /\ b = clocks'[e].alarm
    BY <1>1, <1>5
  <2>3. Agrees(t, Warning(e), w) /\ Agrees(t, Alarm(e), a)
    BY <2>1 DEF TimeInv, ClocksAreFollowed, SpeaksAlone, FollowsClock
  <2>4. Says(list, Warning(e), w, v) /\ Says(list, Alarm(e), a, b)
    <3>1. CASE e = entity
      BY <1>5, <2>1, <2>2, <3>1
    <3>2. CASE e # entity
      <4>1. ~Mentions(list, Warning(e)) /\ ~Mentions(list, Alarm(e))
        BY <3>2, TimeAlarmsDiffer
      <4>2. \A op : ~HasLastWord(list, Warning(e), op) /\ ~HasLastWord(list, Alarm(e), op)
        BY <4>1 DEF HasLastWord, Mentions
      <4> QED BY <1>5, <2>1, <2>2, <3>2, <4>1, <4>2 DEF Says
    <3> QED BY <3>1, <3>2
  <2>5. Agrees(t, Warning(e), v)'
    BY <1>6, <2>3, <2>4, PlanKeepsAgreement DEF Says
  <2>6. Agrees(t, Alarm(e), b)'
    BY <1>6, <2>3, <2>4, PlanKeepsAgreement DEF Says
  <2> QED BY <2>2, <2>5, <2>6 DEF FollowsClock
<1>8. ClocksAreFollowed'
  BY <1>4, <1>7, OneIsEnough
<1> QED BY <1>3, <1>4, <1>5, <1>8

LEMMA ObservedIsSound ==
    ASSUME TimeTypes, NEW entity \in Entities, ClockIsSound(clocks[entity]),
           NEW new, new = Observed(entity, models[entity])
    PROVE  /\ new.warningFor \in Nat /\ new.alarmFor \in Nat
           /\ new.warning \in BOOLEAN /\ new.alarm \in BOOLEAN
           /\ ClockIsSound(new)
           /\ Counts(entity, 0) => new.warningFor <= 1 /\ new.alarmFor <= 1
<1> DEFINE old == clocks[entity]
           model == models[entity]
<1>1. /\ old.warningFor \in Nat /\ old.alarmFor \in Nat
      /\ old.warning \in BOOLEAN /\ old.alarm \in BOOLEAN
  BY DEF TimeTypes
<1>2. WarningRounds \in Nat /\ AlarmRounds \in Nat
  BY TimeSyncAssumption
<1> HIDE DEF old, model
<1>3. PICK wf : wf = Lasting(model.error # "fine", old.warningFor, WarningRounds)
  OBVIOUS
<1>4. PICK af : af = Lasting(model.error = "alarm", old.alarmFor, AlarmRounds)
  OBVIOUS
<1>5. /\ wf \in Nat /\ (old.warningFor <= 0 => wf <= 1)
      /\ wf > WarningRounds => model.error # "fine"
      /\ old.warningFor > WarningRounds /\ model.error # "fine" => wf > WarningRounds
  BY <1>1, <1>2, <1>3 DEF Lasting
<1>6. af \in Nat /\ (old.alarmFor <= 0 => af <= 1)
  BY <1>1, <1>2, <1>4 DEF Lasting
<1>7. /\ new.warningFor = wf /\ new.alarmFor = af
      /\ new.alarm = (af > AlarmRounds)
      /\ new.warning = (/\ ~(af > AlarmRounds) /\ model.error # "fine"
                        /\ old.warning \/ wf > WarningRounds)
  BY <1>3, <1>4 DEF Observed, old, model
<1>8. ClockIsSound(old) /\ (Counts(entity, 0) <=> old.warningFor <= 0 /\ old.alarmFor <= 0)
  BY DEF old, Counts
<1>9. ClockIsSound(new)
  BY <1>1, <1>2, <1>5, <1>6, <1>7, <1>8 DEF ClockIsSound
<1> QED BY <1>5, <1>6, <1>7, <1>8, <1>9

LEMMA ObserveKeeps ==
    ASSUME TimeInv, NEW entity \in unheard, Observe(entity)
    PROVE  TimeInv'
<1>1. /\ worker = "observed" /\ Plan("time", ObserveCalls(entity))
      /\ clocks' = [clocks EXCEPT ![entity] = Observed(entity, models[entity])]
      /\ unheard' = unheard \ {entity}
      /\ UNCHANGED <<syncRuntime, worker, models, component>>
  BY DEF Observe
<1>2. TimeTypes /\ entity \in Entities /\ ClockIsSound(clocks[entity])
  BY DEF TimeInv, TimeTypes
<1>3. PICK new : new = Observed(entity, models[entity])
  OBVIOUS
<1>4. /\ new.warningFor \in Nat /\ new.alarmFor \in Nat
      /\ new.warning \in BOOLEAN /\ new.alarm \in BOOLEAN
      /\ ClockIsSound(new)
      /\ Counts(entity, 0) => new.warningFor <= 1 /\ new.alarmFor <= 1
  BY <1>2, <1>3, ObservedIsSound
<1>5. \A u \in TimeThreads : Idle(u)
  BY <1>1 DEF TimeInv, LockIsKept, TimeThreads, Plan
<1>6. PICK list \in Seq(TimeCalls) :
         /\ list = ObserveCalls(entity)
         /\ Says(list, Warning(entity), clocks[entity].warning, new.warning)
         /\ Says(list, Alarm(entity), clocks[entity].alarm, new.alarm)
         /\ \A alarm : Mentions(list, alarm) =>
                alarm \in {Warning(entity), Alarm(entity), SourceChanged(entity)}
  BY <1>2, <1>3, <1>4, ObserveWords
<1>7. /\ Plan("time", list) /\ clocks' = [clocks EXCEPT ![entity] = new] /\ "time" \in TimeThreads
  BY <1>1, <1>3, <1>6 DEF TimeThreads
<1>8. /\ calls' \in [Threads -> Seq(TimeCalls)]
      /\ \A u \in TimeThreads \ {"time"} : Idle(u)'
      /\ ClocksAreFollowed'
      /\ DOMAIN clocks' = Entities /\ clocks'[entity] = new
      /\ \A e \in Entities : e # entity => clocks'[e] = clocks[e]
  BY <1>2, <1>4, <1>5, <1>6, <1>7, PlannedClockIsFollowed
<1>9. TimeTypes' /\ \A e \in Entities : ClockIsSound(clocks'[e])
  BY <1>1, <1>2, <1>4, <1>8 DEF TimeInv, TimeTypes
<1>10. LockIsKept'
  BY <1>1, <1>8 DEF LockIsKept, TimeThreads
<1>11. LifeFits'
  BY <1>1 DEF TimeInv, LifeFits
<1>12. CountsStayLow'
  <2>1. component' = component /\ worker' = "observed" /\ component \notin {"joined", "failed"}
    BY <1>1 DEF TimeInv, LifeFits
  <2>2. ASSUME component = "timed out", NEW e \in Entities \ unheard'
        PROVE  Counts(e, 1)'
    <3>1. CASE e = entity
      <4>1. Counts(entity, 0)
        BY <1>1, <2>2 DEF TimeInv, CountsStayLow
      <4> QED BY <1>4, <1>8, <3>1, <4>1 DEF Counts
    <3>2. CASE e # entity
      <4>1. Counts(e, 1)
        BY <1>1, <2>2, <3>2 DEF TimeInv, CountsStayLow
      <4> QED BY <1>8, <3>2, <4>1 DEF Counts
    <3> QED BY <3>1, <3>2
  <2>3. ASSUME component = "timed out", NEW e \in unheard'
        PROVE  Counts(e, 0)'
    <3>1. Counts(e, 0) /\ e # entity /\ e \in Entities
      BY <1>1, <1>2, <2>3 DEF TimeInv, TimeTypes, CountsStayLow
    <3> QED BY <1>8, <3>1 DEF Counts
  <2> QED BY <2>1, <2>2, <2>3 DEF CountsStayLow
<1> QED BY <1>8, <1>9, <1>10, <1>11, <1>12 DEF TimeInv

LEMMA WithdrawKeeps ==
    ASSUME TimeInv, NEW entity \in unheard, Withdraw(entity)
    PROVE  TimeInv'
<1>1. /\ worker # "observed" /\ Plan("lifecycle", ThresholdsCleared(entity))
      /\ clocks' = [clocks EXCEPT ![entity] = NothingSeen]
      /\ unheard' = unheard \ {entity}
      /\ UNCHANGED <<syncRuntime, worker, models, component>>
  BY DEF Withdraw
<1>2. TimeTypes /\ entity \in Entities
  BY DEF TimeInv, TimeTypes
<1>3. PICK new : new = NothingSeen
  OBVIOUS
<1>4. new.warningFor = 0 /\ new.alarmFor = 0 /\ new.warning = FALSE /\ new.alarm = FALSE
  BY <1>3 DEF NothingSeen
<1>n. /\ new.warningFor \in Nat /\ new.alarmFor \in Nat
      /\ new.warning \in BOOLEAN /\ new.alarm \in BOOLEAN
  BY <1>3 DEF NothingSeen
<1>5. \A u \in TimeThreads : Idle(u)
  BY <1>1 DEF TimeInv, LockIsKept, TimeThreads, Plan
<1>6. PICK list \in Seq(TimeCalls) :
         /\ list = ThresholdsCleared(entity)
         /\ Says(list, Warning(entity), clocks[entity].warning, new.warning)
         /\ Says(list, Alarm(entity), clocks[entity].alarm, new.alarm)
         /\ \A alarm : Mentions(list, alarm) =>
                alarm \in {Warning(entity), Alarm(entity), SourceChanged(entity)}
  BY <1>2, <1>4, WithdrawWords
<1>7. /\ Plan("lifecycle", list) /\ clocks' = [clocks EXCEPT ![entity] = new]
      /\ "lifecycle" \in TimeThreads
  BY <1>1, <1>3, <1>6 DEF TimeThreads
<1>8. /\ calls' \in [Threads -> Seq(TimeCalls)]
      /\ \A u \in TimeThreads \ {"lifecycle"} : Idle(u)'
      /\ ClocksAreFollowed'
      /\ DOMAIN clocks' = Entities /\ clocks'[entity] = new
      /\ \A e \in Entities : e # entity => clocks'[e] = clocks[e]
  BY <1>2, <1>4, <1>5, <1>6, <1>7, PlannedClockIsFollowed
<1>9. ClockIsSound(new)
  BY <1>4, TimeSyncAssumption DEF ClockIsSound
<1>10. TimeTypes' /\ \A e \in Entities : ClockIsSound(clocks'[e])
  BY <1>1, <1>2, <1>n, <1>8, <1>9 DEF TimeInv, TimeTypes
<1>11. LockIsKept'
  BY <1>1, <1>8 DEF LockIsKept, TimeThreads
<1>12. LifeFits'
  BY <1>1 DEF TimeInv, LifeFits
<1>13. CountsStayLow'
  <2>1. ASSUME NEW e \in Entities \ unheard', NEW bound \in {0, 1},
               e \notin unheard => Counts(e, bound)
        PROVE  Counts(e, bound)'
    <3>1. CASE e = entity
      BY <1>4, <1>8, <3>1 DEF Counts
    <3>2. CASE e # entity
      <4>1. e \notin unheard
        BY <1>1, <2>1, <3>2
      <4> QED BY <1>8, <2>1, <3>2, <4>1 DEF Counts
    <3> QED BY <3>1, <3>2
  <2>2. component \in {"joined", "failed"} => \A e \in Entities \ unheard' : Counts(e, 0)'
    BY <2>1 DEF TimeInv, CountsStayLow
  <2>3. component = "timed out" => \A e \in Entities \ unheard' : Counts(e, 1)'
    BY <2>1 DEF TimeInv, CountsStayLow
  <2>4. component = "timed out" /\ worker \in {"starting", "sampling", "observing"} =>
            \A e \in Entities \ unheard' : Counts(e, 0)'
    BY <2>1 DEF TimeInv, CountsStayLow
  <2> QED BY <1>1, <2>2, <2>3, <2>4 DEF CountsStayLow
<1> QED BY <1>8, <1>10, <1>11, <1>12, <1>13 DEF TimeInv

LEMMA WorkerStepKeeps ==
    ASSUME TimeInv, \/ SampleClocks \/ BeginObserving \/ FinishRound \/ NextRound \/ FirstRound
                    \/ SyncWorkerEnds \/ FailWorker
    PROVE  TimeInv'
<1>1. UNCHANGED <<clocks, registryVars, component>> /\ unheard' \in {unheard, Entities}
  BY DEF SampleClocks, BeginObserving, FinishRound, NextRound, FirstRound, SyncWorkerEnds, FailWorker
<1>2. /\ TimeTypes' /\ ClocksAreFollowed'
      /\ \A e \in Entities : ClockIsSound(clocks'[e])
      /\ \A t : Idle(t)' <=> Idle(t)
  BY <1>1, QuietTimeKeeps DEF TimeInv, TimeTypes
<1>3. \A e, bound : Counts(e, bound)' <=> Counts(e, bound)
  BY <1>1 DEF Counts
<1>4. LockIsKept'
  BY <1>1, <1>2 DEF TimeInv, LockIsKept, Unlocked, SampleClocks, BeginObserving, FinishRound, NextRound,
     FirstRound, SyncWorkerEnds, FailWorker
<1>5. LifeFits'
  <2>1. CASE SampleClocks
    BY <2>1, <1>1 DEF TimeInv, LifeFits, SampleClocks
  <2>2. CASE BeginObserving \/ FinishRound \/ NextRound \/ FirstRound
    BY <2>2, <1>1 DEF TimeInv, LifeFits, BeginObserving, FinishRound, NextRound, FirstRound
  <2>3. CASE SyncWorkerEnds
    BY <2>3, <1>1 DEF TimeInv, LifeFits, SyncWorkerEnds, StopAsked
  <2>4. CASE FailWorker
    BY <2>4, <1>1 DEF TimeInv, LifeFits, FailWorker
  <2> QED BY <2>1, <2>2, <2>3, <2>4
<1>6. CountsStayLow'
  <2>a. /\ component \in {"joined", "failed"} => worker \in {"none", "ended"}
        /\ component = "timed out" => syncRuntime # "running"
        /\ worker \notin {"none", "ended"} <=> syncRuntime \in {"running", "stop requested"}
    BY DEF TimeInv, LifeFits
  <2>b. \A e \in Entities : Counts(e, 0) => Counts(e, 1)
    BY DEF TimeInv, TimeTypes, Counts
  <2>1. CASE SampleClocks
    BY <1>1, <1>3, <2>1 DEF TimeInv, CountsStayLow, SampleClocks
  <2>2. CASE BeginObserving
    BY <1>1, <1>3, <2>2, <2>a DEF TimeInv, CountsStayLow, BeginObserving, Unlocked
  <2>3. CASE FinishRound
    BY <1>1, <1>3, <2>3 DEF TimeInv, CountsStayLow, FinishRound
  <2>4. CASE NextRound \/ FirstRound
    BY <1>1, <1>3, <2>4, <2>a DEF TimeInv, CountsStayLow, NextRound, FirstRound, StopAsked
  <2>5. CASE SyncWorkerEnds \/ FailWorker
    BY <1>1, <1>3, <2>5, <2>b DEF TimeInv, CountsStayLow, SyncWorkerEnds, FailWorker
  <2> QED BY <2>1, <2>2, <2>3, <2>4, <2>5
<1> QED BY <1>2, <1>4, <1>5, <1>6 DEF TimeInv

LEMMA ComponentStepKeeps ==
    ASSUME TimeInv, \/ RequestRefresh \/ StartSync \/ Started \/ StartTimesOut \/ StopSync
                    \/ Join \/ SyncJoinTimesOut
    PROVE  TimeInv'
<1>1. UNCHANGED <<clocks, registryVars, models>> /\ unheard' \in {unheard, Entities}
  BY DEF RequestRefresh, StartSync, Started, StartTimesOut, StopSync, Join, SyncJoinTimesOut, BeginWithdrawing
<1>2. /\ TimeTypes' /\ ClocksAreFollowed'
      /\ \A e \in Entities : ClockIsSound(clocks'[e])
      /\ \A t : Idle(t)' <=> Idle(t)
  BY <1>1, QuietTimeKeeps DEF TimeInv, TimeTypes
<1>3. \A e, bound : Counts(e, bound)' <=> Counts(e, bound)
  BY <1>1 DEF Counts
<1>4. CASE RequestRefresh
  <2>1. UNCHANGED <<worker, syncRuntime, component, unheard>>
    BY <1>4 DEF RequestRefresh
  <2> QED BY <1>1, <1>2, <1>3, <2>1 DEF TimeInv, LockIsKept, LifeFits, CountsStayLow
<1>5. CASE StartSync
  <2>1. worker' = "starting" /\ component' = "starting" /\ worker = "none" /\ syncRuntime' = "running"
    BY <1>5 DEF TimeInv, LifeFits, StartSync
  <2> QED BY <1>1, <1>2, <2>1 DEF TimeInv, LockIsKept, LifeFits, CountsStayLow
<1>6. CASE Started
  <2>1. /\ UNCHANGED <<worker, syncRuntime, unheard>> /\ component = "starting"
        /\ component' \in {"started", "start failed"}
    BY <1>6 DEF Started
  <2> QED BY <1>1, <1>2, <2>1 DEF TimeInv, LockIsKept, LifeFits, CountsStayLow
<1>7. CASE StartTimesOut \/ StopSync
  <2>1. /\ UNCHANGED <<worker, unheard>> /\ component \in {"starting", "new", "started", "start failed"}
        /\ component' \in {"start failed", "stopping"} /\ syncRuntime' = AskedToStop
    BY <1>7 DEF StartTimesOut, StopSync
  <2> QED BY <1>1, <1>2, <2>1 DEF TimeInv, LockIsKept, LifeFits, CountsStayLow, AskedToStop
<1>8. CASE Join
  <2>1. /\ worker' = worker /\ unheard' = Entities /\ component = "stopping"
        /\ syncRuntime = "created" \/ worker = "ended"
        /\ syncRuntime' = IF syncRuntime = "created" THEN "stopped" ELSE syncRuntime
        /\ component' = IF syncRuntime = "failed" THEN "failed" ELSE "joined"
    BY <1>8 DEF Join, WorkerGone, BeginWithdrawing
  <2>2. LifeFits'
    BY <1>1, <2>1 DEF TimeInv, LifeFits
  <2>3. LockIsKept' /\ CountsStayLow'
    BY <1>2, <2>1 DEF TimeInv, LockIsKept, CountsStayLow
  <2> QED BY <1>2, <2>2, <2>3 DEF TimeInv
<1>9. CASE SyncJoinTimesOut
  <2>1. /\ UNCHANGED <<worker, syncRuntime>> /\ unheard' = Entities /\ component = "stopping"
        /\ worker # "observed" /\ component' = "timed out"
    BY <1>9 DEF SyncJoinTimesOut, BeginWithdrawing, Unlocked
  <2>2. LifeFits'
    BY <1>1, <2>1 DEF TimeInv, LifeFits
  <2>3. LockIsKept' /\ CountsStayLow'
    BY <1>2, <2>1 DEF TimeInv, LockIsKept, CountsStayLow
  <2> QED BY <1>2, <2>2, <2>3 DEF TimeInv
<1> QED BY <1>4, <1>5, <1>6, <1>7, <1>8, <1>9

LEMMA TimeOthersKeep ==
    ASSUME TimeInv, TimeOthers
    PROVE  TimeInv'
<1>1. OthersCall(KnownTimeAlarms) /\ calls' = calls /\ UNCHANGED timeVars
  BY DEF TimeOthers, OthersCall, KnownTimeAlarms
<1>2. /\ clocks' = clocks /\ unheard' = unheard /\ worker' = worker /\ models' = models
      /\ syncRuntime' = syncRuntime /\ component' = component
  BY <1>1 DEF timeVars
<1>3. ASSUME NEW t \in TimeThreads, SpeaksAlone(t)', NEW e \in Entities PROVE FollowsClock(t, e)'
  <2>1. PICK w \in BOOLEAN, a \in BOOLEAN : w = clocks[e].warning /\ a = clocks[e].alarm
    BY DEF TimeInv, TimeTypes
  <2>2. SpeaksAlone(t)
    BY <1>1, <1>3 DEF SpeaksAlone, Idle
  <2>3. Agrees(t, Warning(e), w) /\ Agrees(t, Alarm(e), a)
    BY <2>1, <2>2 DEF TimeInv, ClocksAreFollowed, FollowsClock
  <2>4. Warning(e) \in KnownTimeAlarms /\ Alarm(e) \in KnownTimeAlarms
    BY TimeAlarmsDiffer
  <2>5. Agrees(t, Warning(e), w)' /\ Agrees(t, Alarm(e), a)'
    BY <1>1, <2>3, <2>4, OthersKeepAgreement
  <2> QED BY <1>2, <2>1, <2>5 DEF FollowsClock
<1>4. ClocksAreFollowed'
  BY <1>3 DEF ClocksAreFollowed
<1>5. TimeTypes' /\ \A e \in Entities : ClockIsSound(clocks'[e])
  BY <1>1, <1>2 DEF TimeInv, TimeTypes
<1>6. LockIsKept' /\ LifeFits' /\ CountsStayLow'
  BY <1>1, <1>2 DEF TimeInv, LockIsKept, LifeFits, CountsStayLow, Counts, Idle
<1> QED BY <1>4, <1>5, <1>6 DEF TimeInv

LEMMA TimeNextInv ==
    ASSUME TimeInv, [TimeNext \/ TimeCall \/ TimeOthers]_<<timeVars, registryVars>>
    PROVE  TimeInv'
<1>1. CASE \/ SampleClocks \/ BeginObserving \/ FinishRound \/ NextRound \/ FirstRound
           \/ SyncWorkerEnds \/ FailWorker
  BY <1>1, WorkerStepKeeps
<1>2. CASE \/ RequestRefresh \/ StartSync \/ Started \/ StartTimesOut \/ StopSync
           \/ Join \/ SyncJoinTimesOut
  BY <1>2, ComponentStepKeeps
<1>3. CASE \E entity \in unheard : Observe(entity) \/ Withdraw(entity)
  BY <1>3, ObserveKeeps, WithdrawKeeps
<1>4. CASE TimeCall
  BY <1>4, TimeCallKeeps
<1>5. CASE TimeOthers
  BY <1>5, TimeOthersKeep
<1>6. CASE UNCHANGED <<timeVars, registryVars>>
  <2>1. /\ clocks' = clocks /\ unheard' = unheard /\ worker' = worker /\ models' = models
        /\ syncRuntime' = syncRuntime /\ component' = component
    BY <1>6 DEF timeVars
  <2>2. /\ TimeTypes' /\ ClocksAreFollowed'
        /\ \A e \in Entities : ClockIsSound(clocks'[e])
        /\ \A t : Idle(t)' <=> Idle(t)
    BY <1>6, <2>1, QuietTimeKeeps DEF TimeInv, TimeTypes
  <2> QED BY <2>1, <2>2 DEF TimeInv, LockIsKept, LifeFits, CountsStayLow, Counts
<1> QED BY <1>1, <1>2, <1>3, <1>4, <1>5, <1>6 DEF TimeNext

\* Between two calls of the monitor the alarms about a clock are the ones that its error
\* calls for, never both, except those a full registry refused; once the component has
\* been joined nothing is claimed about any clock; and a worker that outlives the deadline
\* raises nothing unless alarms are due at once: for any cameras, rounds and capacity of
\* the registry, wherever the worker is when the component is stopped, and whatever the
\* rest of the service raises and clears in between.
THEOREM ClocksAreJudgedAlways == TimeSpec => []ClocksAreJudged
<1>1. TimeInv /\ [TimeNext \/ TimeCall \/ TimeOthers]_<<timeVars, registryVars>> => TimeInv'
  BY TimeNextInv
<1> QED BY <1>1, TimeInitInv, TimeInvFollows, PTL DEF TimeSpec

================================================================================
