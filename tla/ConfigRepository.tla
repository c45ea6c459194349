-------------------------- MODULE ConfigRepository --------------------------
(***************************************************************************)
(* ConfigRepository (config_repository.cpp): one configuration file, its   *)
(* history, and the components ("appliers") a change is applied to.        *)
(*                                                                         *)
(* An update is prepared, applied to one component after the other,        *)
(* written to the history and to the file, and committed, all under one    *)
(* lock; every step may fail and be rolled back, the process may die       *)
(* between any two, and an editor may change or damage the file meanwhile. *)
(*                                                                         *)
(* A configuration is a value for each section.  Texts, the audit trail's  *)
(* contents and the validation of values are left out; a file that does    *)
(* not parse is a damaged one.                                             *)
(***************************************************************************)
EXTENDS Integers, FiniteSets

CONSTANTS
    Appliers,            \* number of registered appliers
    Sections,            \* sections of a configuration
    RestartSections,     \* those that is_restart_required_path names
    RestoredSections,    \* those restore_restart_section puts back
    Values,              \* values of a section
    HistoryLimit,        \* history_limit
    MaximumRevision,     \* bound
    MaximumMishaps       \* bound: failures, crashes, damages, local edits

ASSUME ConfigAssumption ==
    /\ Appliers \in Nat \ {0}
    /\ RestoredSections \subseteq RestartSections
    /\ RestartSections \subseteq Sections
    /\ HistoryLimit \in Nat \ {0}

VARIABLES
    file,           \* the main configuration file
    history,        \* the revisions kept in the history directory
    process,        \* what the process is doing
    stored,         \* stored_
    effective,      \* effective_, the contents the process works with
    pendingRestart, \* pending_restart_paths_
    applied,        \* applier -> the contents it works with
    change,         \* the change in progress: candidate, its effective contents
    accepting,      \* accepting_changes_
    mishaps,        \* mishaps so far (bounded)
    rollbackFailed, \* history: some rollback of an applier or the file failed
    edited          \* history: an editor touched the file since it was read

configVars == <<file, history, process, stored, effective,
                pendingRestart, applied, change, accepting, mishaps,
                rollbackFailed, edited>>

Configurations == [Sections -> Values]

NoChange == [reloads |-> FALSE, candidate |-> stored, effective |-> effective]

At(place) == process = place

Mishap ==
    /\ mishaps < MaximumMishaps
    /\ mishaps' = mishaps + 1

Written(configuration) ==
    [readable |-> TRUE, schema |-> 8, revision |-> configuration.revision,
     content |-> configuration.content]

OnFile == [revision |-> file.revision, content |-> file.content]

-----------------------------------------------------------------------------
(* load *)

Adopt(configuration) ==
    /\ stored' = configuration
    /\ effective' = configuration.content
    /\ pendingRestart' = {}
    /\ applied' = [a \in 1..Appliers |-> configuration.content]
    /\ process' = "idle"
    /\ edited' = FALSE
    /\ change' = [reloads |-> FALSE, candidate |-> configuration,
                  effective |-> configuration.content]

unloaded == <<stored, effective, pendingRestart, applied, change, edited>>

Load ==
    /\ At("down")
    /\ IF file.readable
       THEN IF file.schema = 7
            THEN /\ process' = "keepOriginal"
                 /\ UNCHANGED unloaded
            ELSE Adopt(OnFile)
       ELSE /\ history # {}
            /\ process' = "restore"
            /\ UNCHANGED unloaded
    /\ UNCHANGED <<file, history, accepting, mishaps, rollbackFailed>>

\* The text of schema 7 is kept aside before the file is rewritten.
KeepOriginal ==
    /\ At("keepOriginal")
    /\ process' = "migrate"
    /\ UNCHANGED <<file, history, accepting, mishaps, rollbackFailed, unloaded>>

Migrate ==
    /\ At("migrate")
    /\ file' = Written(OnFile)
    /\ Adopt(OnFile)
    /\ UNCHANGED <<history, accepting, mishaps, rollbackFailed>>

Newest ==
    CHOOSE h \in history : \A other \in history : other.revision <= h.revision

RestoreFromHistory ==
    /\ At("restore")
    /\ file' = Written(Newest)
    /\ Adopt(Newest)
    /\ UNCHANGED <<history, accepting, mishaps, rollbackFailed>>

LoadFails ==
    /\ process \in {"keepOriginal", "migrate", "restore"}
    /\ Mishap
    /\ process' = "down"
    /\ UNCHANGED <<file, history, accepting, rollbackFailed, unloaded>>

-----------------------------------------------------------------------------
(* update_locked *)

\* What of a candidate takes effect at once: a section that waits for a
\* restart keeps its effective value, if restore_restart_section knows it.
AwaitingRestart(content) ==
    {s \in RestartSections : content[s] # effective[s]}

TakesEffect(content) ==
    [s \in Sections |-> IF s \in AwaitingRestart(content) \cap RestoredSections
                        THEN effective[s] ELSE content[s]]

\* A candidate that names another revision, or an unchanged content, is
\* answered at once and changes nothing.
Begin(content, reloads) ==
    /\ At("idle")
    /\ accepting
    /\ stored.revision < MaximumRevision
    /\ content # stored.content
    /\ change' = [reloads |-> reloads,
                  candidate |-> [revision |-> stored.revision + 1, content |-> content],
                  effective |-> TakesEffect(content)]
    /\ process' = "apply"
    /\ UNCHANGED <<file, history, stored, effective, pendingRestart, applied,
                   mishaps, rollbackFailed, edited, accepting>>

Update == \E content \in Configurations : Begin(content, FALSE)

\* reload takes the file as the candidate and reads it under the lock.
Reload ==
    /\ file.readable
    /\ file.revision = stored.revision
    /\ Begin(file.content, TRUE)

\* A reload that is refused puts the stored text back over the file: the file
\* does not parse or names another revision, the caller expected another one,
\* or no change is accepted any more.
ReloadRefused ==
    /\ At("idle")
    /\ file # Written(stored)
    /\ file' = Written(stored)
    /\ edited' = FALSE
    /\ UNCHANGED <<history, process, stored, effective, pendingRestart, applied,
                   change, mishaps, rollbackFailed, accepting>>


\* A failed change is answered; a reload has the stored text written back.
Refuse ==
    /\ process' = IF change.reloads THEN "putBack" ELSE "idle"
    /\ change' = IF change.reloads THEN change ELSE NoChange

\* What applier a works with after the appliers up to "last" were told to roll
\* back.  rollback answers nothing: "stuck" is the applier that could not (0:
\* all could).
RolledBack(last, stuck, before) ==
    /\ applied' = [a \in 1..Appliers |->
                     IF a <= last /\ a # stuck THEN effective ELSE before[a]]
    /\ rollbackFailed' = (rollbackFailed \/ stuck # 0)
    /\ mishaps' = mishaps + (IF stuck = 0 THEN 1 ELSE 2)
    /\ mishaps' <= MaximumMishaps

ApplyAll ==
    /\ At("apply")
    /\ applied' = [a \in 1..Appliers |-> change.effective]
    /\ process' = "keepHistory"
    /\ UNCHANGED <<file, history, stored, effective, pendingRestart, change,
                   mishaps, rollbackFailed, edited, accepting>>

LastApplied(failing) == failing - 1

\* The applier that fails may have applied the change by half and is rolled
\* back as well; 0 is a failed audit or prepare, before anything is applied.
LastToRollBack(failing) == failing

ApplyFails(failing, stuck) ==
    /\ At("apply")
    /\ stuck <= failing
    /\ RolledBack(LastToRollBack(failing), stuck,
                  [a \in 1..Appliers |->
                     IF a <= failing THEN change.effective ELSE applied[a]])
    /\ Refuse
    /\ UNCHANGED <<file, history, stored, effective, pendingRestart, edited, accepting>>

\* persist_locked: room is made in the history, the stored configuration is
\* kept there, then the file is replaced.
Pruned ==
    {h \in history :
        Cardinality({other \in history : other.revision > h.revision}) < HistoryLimit - 1}

Prune ==
    /\ At("keepHistory")
    /\ history # Pruned
    /\ history' = Pruned
    /\ UNCHANGED <<file, process, stored, effective, pendingRestart, applied,
                   change, mishaps, rollbackFailed, edited, accepting>>

KeepHistory ==
    /\ At("keepHistory")
    /\ history = Pruned
    /\ history' = {h \in history : h.revision # stored.revision} \cup {stored}
    /\ process' = "replace"
    /\ UNCHANGED <<file, stored, effective, pendingRestart, applied, change,
                   mishaps, rollbackFailed, edited, accepting>>

ReplaceFile ==
    /\ At("replace")
    /\ file' = Written(change.candidate)
    /\ process' = "commit"
    /\ edited' = FALSE
    /\ UNCHANGED <<history, stored, effective, pendingRestart, applied, change,
                   mishaps, rollbackFailed, accepting>>

PersistFails(stuck) ==
    /\ process \in {"keepHistory", "replace"}
    /\ RolledBack(Appliers, stuck, applied)
    /\ Refuse
    /\ UNCHANGED <<file, history, stored, effective, pendingRestart, edited, accepting>>

Commit ==
    /\ At("commit")
    /\ stored' = change.candidate
    /\ effective' = change.effective
    /\ pendingRestart' = AwaitingRestart(change.candidate.content)
    /\ process' = "idle"
    /\ change' = [reloads |-> FALSE, candidate |-> change.candidate,
                  effective |-> change.effective]
    /\ UNCHANGED <<file, history, applied, mishaps, rollbackFailed, edited, accepting>>

\* An applier refuses to commit: the file is written back as it was stored,
\* if that succeeds, and every applier is rolled back.
FileBack(restored) == IF restored THEN Written(stored) ELSE file

CommitFails(restored, stuck) ==
    /\ At("commit")
    /\ file' = FileBack(restored)
    /\ applied' = [a \in 1..Appliers |-> IF a # stuck THEN effective ELSE applied[a]]
    /\ rollbackFailed' = (rollbackFailed \/ stuck # 0 \/ ~restored)
    /\ mishaps' = mishaps + (IF stuck = 0 /\ restored THEN 1 ELSE 2)
    /\ mishaps' <= MaximumMishaps
    /\ Refuse
    /\ UNCHANGED <<history, stored, effective, pendingRestart, edited, accepting>>

PutBack(restored) ==
    /\ At("putBack")
    /\ IF restored
       THEN /\ file' = Written(stored)
            /\ edited' = FALSE
            /\ UNCHANGED <<mishaps, rollbackFailed>>
       ELSE /\ Mishap
            /\ rollbackFailed' = TRUE
            /\ UNCHANGED <<file, edited>>
    /\ process' = "idle"
    /\ change' = NoChange
    /\ UNCHANGED <<history, stored, effective, pendingRestart, applied, accepting>>

\* It takes the lock, so it never meets a change half done.
StopAcceptingChanges ==
    /\ At("idle")
    /\ accepting
    /\ accepting' = FALSE
    /\ UNCHANGED <<file, history, process, stored, effective,
                   pendingRestart, applied, change, mishaps, rollbackFailed, edited>>

-----------------------------------------------------------------------------
(* The editor, the disk and crashes *)

inProcess == <<history, process, stored, effective, pendingRestart,
               applied, change, accepting, rollbackFailed>>

EditFile ==
    /\ file.readable
    /\ Mishap
    /\ \E content \in Configurations, revision \in {file.revision, file.revision + 1} :
         file' = [file EXCEPT !.content = content, !.revision = revision]
    /\ edited' = TRUE
    /\ UNCHANGED inProcess

DamageFile ==
    /\ file.readable
    /\ Mishap
    /\ file' = [file EXCEPT !.readable = FALSE]
    /\ edited' = TRUE
    /\ UNCHANGED inProcess

Die ==
    /\ ~At("down")
    /\ Mishap
    /\ process' = "down"
    /\ accepting' = TRUE
    /\ UNCHANGED <<file, history, rollbackFailed, unloaded>>

-----------------------------------------------------------------------------

ConfigInit ==
    /\ \E schema \in {7, 8}, content \in Configurations :
         /\ file = [readable |-> TRUE, schema |-> schema, revision |-> 1,
                    content |-> content]
         /\ effective = content
    /\ history = {}
    /\ process = "down"
    /\ stored = OnFile
    /\ pendingRestart = {}
    /\ applied = [a \in 1..Appliers |-> effective]
    /\ change = NoChange
    /\ accepting = TRUE
    /\ mishaps = 0
    /\ rollbackFailed = FALSE
    /\ edited = FALSE

Loading == Load \/ KeepOriginal \/ Migrate \/ RestoreFromHistory \/ LoadFails

Changing ==
    \/ Update \/ Reload \/ ReloadRefused \/ ApplyAll
    \/ Prune \/ KeepHistory \/ ReplaceFile \/ Commit
    \/ \E stuck \in 0..Appliers :
         \/ PersistFails(stuck)
         \/ \E failing \in 0..Appliers : ApplyFails(failing, stuck)
         \/ \E restored \in BOOLEAN : CommitFails(restored, stuck)
    \/ \E restored \in BOOLEAN : PutBack(restored)

ConfigNext ==
    Loading \/ Changing \/ StopAcceptingChanges \/ EditFile \/ DamageFile \/ Die

ConfigSpec == ConfigInit /\ [][ConfigNext]_configVars

-----------------------------------------------------------------------------
(* Properties *)

\* Whatever step of a change fails, every component works with the contents
\* the repository calls effective once the change has been answered, unless a
\* component failed to roll back (config_repository.cpp:490-512).
AppliersFollowEffective ==
    At("idle") /\ ~rollbackFailed =>
        \A a \in 1..Appliers : applied[a] = effective

\* Between changes the file holds the stored configuration, and during one
\* either that or the candidate: a refused change is never what the next
\* start finds, unless the file could not be written back or was edited
\* (config_repository.cpp:345-355, 518-537).
FileHoldsStored ==
    ~edited /\ ~rollbackFailed /\ process \notin {"down", "keepOriginal", "migrate", "restore"} =>
        /\ file.readable
        /\ OnFile \in {stored} \cup (IF At("commit") THEN {change.candidate} ELSE {})

\* A section that waits for a restart keeps its effective value until the next
\* load.  It does not hold for /timeSync, which is_restart_required_path names
\* and restore_restart_section does not (config_repository.cpp:30-63,
\* basic_config.cpp:1651-1658): with RestoredSections a proper subset of
\* RestartSections it fails.
RestartSectionsStay ==
    [][At("commit") => \A s \in RestartSections : effective'[s] = effective[s]]_configVars

=============================================================================
