------------------------------ MODULE DatabaseFile ------------------------------
(***************************************************************************)
(* The file of the metadata database: how EventMetadataDatabase::open      *)
(* checks it, backs it up and migrates it one schema version at a time,    *)
(* how it is written while the service runs, and how restore_backup puts   *)
(* a backup in its place.  A crash may come between any two steps; SQLite  *)
(* then finds the journal of the unfinished transaction and undoes it.     *)
(*                                                                         *)
(* A database is its schema version, whether it holds rows of events and   *)
(* rows that refer to them (cameras, files, key frames, upload jobs), and  *)
(* whether it is sound: a half-written file whose journal is gone is not.  *)
(***************************************************************************)
EXTENDS Integers, FiniteSets

CONSTANTS
    CurrentVersion,  \* database_schema_version
    MaximumSuffix,   \* bound: names of backups of one version (1023 in the code)
    MaximumCrashes,  \* bound: crashes
    MaximumRestores  \* bound: restores

ASSUME DatabaseFileAssumption ==
    /\ CurrentVersion \in Nat \ 0..4 /\ MaximumSuffix \in Nat
    /\ MaximumCrashes \in Nat /\ MaximumRestores \in Nat

VARIABLES
    file,       \* the database file
    journal,    \* what it was before the transaction that is not committed
    backups,    \* files of the backup directory; a partial one has no content
    phase,      \* where open, the service or restore_backup stands
    keys,       \* PRAGMA foreign_keys of the connection
    temporary,  \* what restore_backup has copied beside the database
    legacy,     \* the event directory holds manifests of an old schema
    committed,  \* the rows that were there or were committed
    original,   \* the database the operator last put there
    spent       \* crashes and restores so far

databaseVars ==
    <<file, journal, backups, phase, keys, temporary, legacy, committed, original, spent>>

Database(version, events, children) ==
    [version |-> version, events |-> events, children |-> children, sound |-> TRUE]

NoFile == [version |-> -1, events |-> FALSE, children |-> FALSE, sound |-> TRUE]

Empty == Database(0, FALSE, FALSE)

Rows(f) == [events |-> f.events, children |-> f.children]

Manual == -1

Backup(version, suffix, content) ==
    [version |-> version, suffix |-> suffix, content |-> content]

Named(b, version, suffix) == b.version = version /\ b.suffix = suffix

-----------------------------------------------------------------------------
(* open *)

\* Opening rolls back what a crash left unfinished, and creates a missing file.
RecoveredFile == IF journal # NoFile THEN journal ELSE file

\* quick_check looks at the structure; it may or may not find what is wrong.
MayFailCheck(f) == ~f.sound

LegacyEventData == legacy

LegacyRows(f) == f.events /\ f.version < 5

\* Events of an old schema are not migrated, in the database or on disk.
Refused(f) == f.version > CurrentVersion \/ LegacyEventData \/ LegacyRows(f)

OpenDatabase ==
    /\ phase = "closed"
    /\ LET found == RecoveredFile IN
       /\ file' = IF found = NoFile THEN Empty ELSE found
       /\ \/ phase' = "closed" /\ (Refused(found) \/ MayFailCheck(found))
          \/ /\ ~Refused(found)
             /\ phase' = IF found.version = CurrentVersion THEN "open"
                         ELSE IF found = NoFile THEN "migrate" ELSE "reserve"
    /\ journal' = NoFile /\ keys' = TRUE
    /\ UNCHANGED <<backups, temporary, legacy, committed, original, spent>>

FreeSuffixes == {s \in 0..MaximumSuffix : \A b \in backups : ~Named(b, file.version, s)}

\* The first free name is taken by an empty file ...
Reserve ==
    /\ phase = "reserve"
    /\ IF FreeSuffixes = {} THEN phase' = "closed" /\ UNCHANGED backups
       ELSE /\ \E s \in FreeSuffixes :
                  /\ \A other \in FreeSuffixes : s <= other
                  /\ backups' = backups \cup {Backup(file.version, s, NoFile)}
            /\ phase' = "copy"
    /\ UNCHANGED <<file, journal, keys, temporary, legacy, committed, original, spent>>

\* The one this run reserved is the partial one with the highest suffix.
Reserved(b) ==
    /\ b.version = file.version /\ b.content = NoFile
    /\ \A other \in backups : other.version = file.version => other.suffix <= b.suffix

\* ... and backup_connection fills and checks it, or deletes it.
Copy ==
    /\ phase = "copy"
    /\ \E b \in backups :
          /\ Reserved(b)
          /\ \/ /\ backups' = (backups \ {b}) \cup {[b EXCEPT !.content = file]}
                /\ phase' = "migrate"
             \/ backups' = backups \ {b} /\ phase' = "closed"
    /\ UNCHANGED <<file, journal, keys, temporary, legacy, committed, original, spent>>

KeysAlwaysChecked(f) == TRUE

\* migrate_to_v5 and migrate_to_v6 switch foreign keys off before they begin.
KeysChecked(f) == f.version < 4

\* Versions up to 4 add to the tables and keep their rows; 5 and 6 replace the
\* table of events, which deletes what refers to it if foreign keys are checked.
KeepsChildren(f) == f.version < 4 \/ ~KeysChecked(f)

\* Version 5 begins with an empty table of events, 6 copies the rows.
Migrated(f) ==
    [f EXCEPT !.version = @ + 1,
              !.events = @ /\ f.version # 4,
              !.children = @ /\ KeepsChildren(f)]

\* One transaction for each version.
BeginMigration ==
    /\ phase = "migrate"
    /\ journal' = file /\ file' = Migrated(file)
    /\ keys' = KeysChecked(file) /\ phase' = "migrating"
    /\ UNCHANGED <<backups, temporary, legacy, committed, original, spent>>

CommitMigration ==
    /\ phase = "migrating"
    /\ journal' = NoFile /\ keys' = TRUE
    /\ phase' = IF file.version = CurrentVersion THEN "open" ELSE "migrate"
    /\ UNCHANGED <<file, backups, temporary, legacy, committed, original, spent>>

RollBack ==
    /\ phase \in {"migrating", "writing"}
    /\ file' = journal /\ journal' = NoFile
    /\ phase' = IF phase = "migrating" THEN "closed" ELSE "open"
    /\ UNCHANGED <<backups, keys, temporary, legacy, committed, original, spent>>

-----------------------------------------------------------------------------
(* The open database *)

\* A transaction of the service, as create_collecting_event.
BeginWrite ==
    /\ phase = "open"
    /\ journal' = file /\ file' = [file EXCEPT !.events = TRUE, !.children = TRUE]
    /\ phase' = "writing"
    /\ UNCHANGED <<backups, keys, temporary, legacy, committed, original, spent>>

CommitWrite ==
    /\ phase = "writing"
    /\ journal' = NoFile /\ phase' = "open" /\ committed' = Rows(file)
    /\ UNCHANGED <<file, backups, keys, temporary, legacy, original, spent>>

\* backup_to does not replace a file; a failure deletes what it has written.
BackUp ==
    /\ phase = "open" /\ \A b \in backups : ~Named(b, Manual, 0)
    /\ backups' = backups \cup {Backup(Manual, 0, file)}
    /\ UNCHANGED <<file, journal, phase, keys, temporary, legacy, committed, original, spent>>

Close ==
    /\ phase = "open"
    /\ phase' = "closed"
    /\ UNCHANGED <<file, journal, backups, keys, temporary, legacy, committed, original, spent>>

-----------------------------------------------------------------------------
(* restore_backup, with the database closed *)

\* A name that was reserved and not filled is a valid, empty database.
BeginRestore ==
    /\ phase = "closed" /\ spent.restores < MaximumRestores
    /\ spent' = [spent EXCEPT !.restores = @ + 1]
    /\ \E b \in backups :
          temporary' = IF b.content = NoFile THEN Empty ELSE b.content
    /\ phase' = "copied"
    /\ UNCHANGED <<file, journal, backups, keys, legacy, committed, original>>

\* The journal of a transaction the crash of the service left is removed.
RemoveSidecars ==
    /\ phase = "copied"
    /\ file' = IF journal # NoFile THEN [file EXCEPT !.sound = FALSE] ELSE file
    /\ journal' = NoFile /\ phase' = "clean"
    /\ UNCHANGED <<backups, keys, temporary, legacy, committed, original, spent>>

Replace ==
    /\ phase = "clean"
    /\ file' = temporary /\ temporary' = NoFile
    /\ committed' = Rows(temporary) /\ original' = temporary
    /\ phase' = "closed"
    /\ UNCHANGED <<journal, backups, keys, legacy, spent>>

\* A sidecar that cannot be deleted or a file that cannot be replaced.
RestoreFails ==
    /\ phase \in {"copied", "clean"}
    /\ phase' = "closed" /\ temporary' = NoFile
    /\ UNCHANGED <<file, journal, backups, keys, legacy, committed, original, spent>>

\* The process ends at any moment; a reserved backup and a journal stay.
Crash ==
    /\ phase # "closed" /\ spent.crashes < MaximumCrashes
    /\ spent' = [spent EXCEPT !.crashes = @ + 1]
    /\ phase' = "closed" /\ temporary' = NoFile
    /\ UNCHANGED <<file, journal, backups, keys, legacy, committed, original>>

-----------------------------------------------------------------------------

\* A database of any version the service may find, with the rows it may have.
Found ==
    {NoFile, Empty} \cup
    {Database(v, children \/ events, children) :
        v \in 1..CurrentVersion + 1, events \in BOOLEAN, children \in BOOLEAN}

DatabaseInit ==
    /\ file \in Found /\ original = file /\ committed = Rows(file)
    /\ journal = NoFile /\ temporary = NoFile /\ backups = {}
    /\ phase = "closed" /\ keys = TRUE /\ legacy \in BOOLEAN
    /\ spent = [crashes |-> 0, restores |-> 0]

DatabaseNext ==
    \/ OpenDatabase \/ Reserve \/ Copy \/ BeginMigration \/ CommitMigration \/ RollBack
    \/ BeginWrite \/ CommitWrite \/ BackUp \/ Close
    \/ BeginRestore \/ RemoveSidecars \/ Replace \/ RestoreFails \/ Crash

DatabaseSpec == DatabaseInit /\ [][DatabaseNext]_databaseVars

-----------------------------------------------------------------------------
(* Properties *)

DatabaseTypeOK ==
    /\ file.version \in -1..CurrentVersion + 1 /\ file.events \in BOOLEAN
    /\ phase \in {"closed", "reserve", "copy", "migrate", "migrating", "open", "writing",
                  "copied", "clean"}
    /\ \A b \in backups : b.version \in Manual..CurrentVersion - 1

\* A sound database that is opened holds the rows that were there before its
\* migrations and those committed since - or the backup's, once restored -
\* and the rows that refer to events with them, whatever crashes came between
\* the transactions of a migration (migrate_to_v1 to migrate_to_v6).
RowsSurvive ==
    phase = "open" /\ file.sound => Rows(file) = committed

\* A database that was there and has been migrated is still whole in a
\* backup, although migrations and backups were cut short by crashes and
\* started again (open: the first free name, backup before migration).
MigratedIsBackedUp ==
    original # NoFile /\ original.version < CurrentVersion =>
        \/ original \in {file, journal}
        \/ \E b \in backups : b.content = original

\* A restore that does not succeed leaves the database as it was.  It may not:
\* the journal a crash has left is deleted before the file is replaced.
RestoreIsAtomic == file.sound
================================================================================
