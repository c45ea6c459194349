---------------------------- MODULE SystemCommands ----------------------------
(***************************************************************************)
(* SystemCommandService (service/core/src/system_commands.cpp): the        *)
(* commands that change the configuration and the cameras.                 *)
(*                                                                         *)
(* Two threads execute them at the same time: the control thread of the    *)
(* IPC server and the thread of the uplink.  A command is a sequence of    *)
(* calls: it copies the configuration, talks to a camera, hands a changed  *)
(* copy to the repository and applies it to the camera; each call locks,   *)
(* the command does not.                                                   *)
(*                                                                         *)
(* A document is what the commands see of it: the parameters of each       *)
(* camera slot and a value for each other section.  Formats, authorization *)
(* and the audit of a command are left out, as are the commands that only  *)
(* read.  Serial numbers belong to slots, one to each.                     *)
(***************************************************************************)
EXTENDS Integers

CONSTANTS
    CommandThreads,      \* the IPC control thread and the uplink thread
    Slots,               \* camera slots
    ParameterValues,          \* camera parameters, as one value
    SectionValues,       \* values of the other sections
    RevisionLimit        \* bound: revisions of the stored configuration

ASSUME CommandsAssumption ==
    /\ CommandThreads # {} /\ ParameterValues # {} /\ SectionValues # {}
    /\ RevisionLimit \in Nat \ {0}

VARIABLES
    document,    \* the repository's stored configuration
    opened,      \* slot -> the parameters its opened device works with
    doing,       \* thread -> the command it executes, with its copies
    stopping     \* the stop token of the commands

commandVars == <<document, opened, doing, stopping>>

EditableSections == {"uplink", "storage", "algorithm", "event"}

Unbound == "unbound"
Closed == "closed"

NoCommand == [step |-> "idle"]

\* Bound: the documents a request may replace the whole configuration by are
\* alike in all slots and in all sections.
Replacements ==
    {[cameras |-> [slot \in Slots |-> parameters],
      sections |-> [s \in EditableSections |-> value]] :
        parameters \in ParameterValues \cup {Unbound}, value \in SectionValues}

Content == [cameras |-> document.cameras, sections |-> document.sections]

SameRevision(expected, copy) == TRUE

\* ConfigRepository::update_locked: the caller's revision and the copy's own
\* must be the stored one.
CurrentRevision(expected, copy) ==
    /\ expected = document.revision
    /\ copy.revision = expected

\* The repository may refuse a change that is not valid or that a component
\* refuses, and then keeps what it has; an unchanged content is no change.
Saved(expected, copy, accepted) ==
    IF /\ CurrentRevision(expected, copy)
       /\ accepted
       /\ document.revision < RevisionLimit
       /\ [cameras |-> copy.cameras, sections |-> copy.sections] # Content
    THEN [copy EXCEPT !.revision = document.revision + 1]
    ELSE document

SaveSucceeds(expected, copy, accepted) ==
    /\ CurrentRevision(expected, copy)
    /\ accepted
    /\ document.revision < RevisionLimit

-----------------------------------------------------------------------------
(* Steps the commands share *)

\* The token is asked once, when the command begins.
Starts(t) == doing[t].step = "idle" /\ ~stopping

Proceeds(t, command) == doing' = [doing EXCEPT ![t] = command]

Ends(t) == doing' = [doing EXCEPT ![t] = NoCommand]

Executes(t, step) == doing[t].step = step

-----------------------------------------------------------------------------
(* uplink.updateConfig, storage.updateConfig, algorithm.updateConfig and   *)
(* event.updateConfig replace their section of a copy.                     *)

ReplacesSection(t, section, value, expected) ==
    /\ Starts(t)
    /\ Proceeds(t, [step |-> "save", part |-> section, expected |-> expected,
                    copy |-> [document EXCEPT !.sections[section] = value]])
    /\ UNCHANGED <<document, opened, stopping>>

UpdateUplinkConfig(t, value, expected) == ReplacesSection(t, "uplink", value, expected)

UpdateStorageConfig(t, value, expected) == ReplacesSection(t, "storage", value, expected)

UpdateAlgorithmConfig(t, value, expected) == ReplacesSection(t, "algorithm", value, expected)

UpdateEventConfig(t, value, expected) == ReplacesSection(t, "event", value, expected)

\* config.replace of the uplink takes the whole document from the request;
\* system.reloadConfig takes it from the file, and the file's own revision.
ReplaceConfig(t, content, expected) ==
    /\ Starts(t)
    /\ Proceeds(t, [step |-> "save", part |-> "all", expected |-> expected,
                    copy |-> [revision |-> expected, cameras |-> content.cameras,
                              sections |-> content.sections]])
    /\ UNCHANGED <<document, opened, stopping>>

Save(t) ==
    /\ Executes(t, "save")
    /\ \E accepted \in BOOLEAN :
         document' = Saved(doing[t].expected, doing[t].copy, accepted)
    /\ Ends(t)
    /\ UNCHANGED <<opened, stopping>>

-----------------------------------------------------------------------------
(* camera.bind: the device is opened to read its parameters and closed     *)
(* again before the slot is added to the copy.                             *)

BeginBind(t, slot, expected) ==
    /\ Starts(t)
    /\ expected = document.revision
    /\ document.cameras[slot] = Unbound
    /\ Proceeds(t, [step |-> "bindConnect", slot |-> slot, expected |-> expected,
                    copy |-> document])
    /\ UNCHANGED <<document, opened, stopping>>

\* connect of an opened device answers with what it has.
Opened(slot, factory) == IF opened[slot] = Closed THEN factory ELSE opened[slot]

BindConnect(t) ==
    /\ Executes(t, "bindConnect")
    /\ \/ /\ Ends(t)                 \* not found, not approved, in use, refused
          /\ UNCHANGED opened
       \/ \E factory \in ParameterValues :
            /\ opened' = [opened EXCEPT ![doing[t].slot] = Opened(doing[t].slot, factory)]
            /\ Proceeds(t, [doing[t] EXCEPT
                  !.step = "bindDisconnect",
                  !.copy.cameras[doing[t].slot] = Opened(doing[t].slot, factory)])
    /\ UNCHANGED <<document, stopping>>

BindDisconnect(t) ==
    /\ Executes(t, "bindDisconnect")
    /\ \/ /\ Ends(t)
          /\ UNCHANGED opened
       \/ /\ opened' = [opened EXCEPT ![doing[t].slot] = Closed]
          /\ Proceeds(t, [step |-> "save", part |-> doing[t].slot,
                          expected |-> doing[t].expected, copy |-> doing[t].copy])
    /\ UNCHANGED <<document, stopping>>

-----------------------------------------------------------------------------
(* camera.connect applies the parameters its copy holds.                   *)

BeginConnect(t, slot) ==
    /\ Starts(t)
    /\ document.cameras[slot] # Unbound
    /\ Proceeds(t, [step |-> "connect", slot |-> slot, parameters |-> document.cameras[slot]])
    /\ UNCHANGED <<document, opened, stopping>>

ConnectCamera(t) ==
    /\ Executes(t, "connect")
    /\ \/ /\ Ends(t)
          /\ UNCHANGED opened
       \/ \E factory \in ParameterValues :
            /\ opened' = [opened EXCEPT ![doing[t].slot] = Opened(doing[t].slot, factory)]
            /\ Proceeds(t, [doing[t] EXCEPT !.step = "apply"])
    /\ UNCHANGED <<document, stopping>>

\* CameraControlRuntime::update; the device may refuse and keep what it has.
ApplyParameters(t) ==
    /\ Executes(t, "apply")
    /\ \/ UNCHANGED opened
       \/ /\ opened[doing[t].slot] # Closed
          /\ opened' = [opened EXCEPT ![doing[t].slot] = doing[t].parameters]
    /\ Ends(t)
    /\ UNCHANGED <<document, stopping>>

\* The device may refuse, and a device that is closed stays so.
DisconnectCamera(t, slot) ==
    /\ Starts(t)
    /\ document.cameras[slot] # Unbound
    /\ opened[slot] # Closed
    /\ opened' = [opened EXCEPT ![slot] = Closed]
    /\ UNCHANGED <<document, doing, stopping>>

-----------------------------------------------------------------------------
(* camera.updateConfig: checked against the device, saved, then applied.   *)

BeginUpdateCamera(t, slot, parameters, expected) ==
    /\ Starts(t)
    /\ document.cameras[slot] # Unbound
    /\ Proceeds(t, [step |-> "validate", slot |-> slot, expected |-> expected,
                    copy |-> [document EXCEPT !.cameras[slot] = parameters]])
    /\ UNCHANGED <<document, opened, stopping>>

ValidateCamera(t) ==
    /\ Executes(t, "validate")
    /\ Ends(t) \/ Proceeds(t, [doing[t] EXCEPT !.step = "saveCamera"])
    /\ UNCHANGED <<document, opened, stopping>>

SaveCamera(t) ==
    /\ Executes(t, "saveCamera")
    /\ \E accepted \in BOOLEAN :
         /\ document' = Saved(doing[t].expected, doing[t].copy, accepted)
         /\ IF SaveSucceeds(doing[t].expected, doing[t].copy, accepted)
            THEN Proceeds(t, [step |-> "apply", slot |-> doing[t].slot,
                              parameters |-> doing[t].copy.cameras[doing[t].slot]])
            ELSE Ends(t)
    /\ UNCHANGED <<opened, stopping>>

\* Commands that have begun go on.
StopCommands ==
    /\ ~stopping
    /\ stopping' = TRUE
    /\ UNCHANGED <<document, opened, doing>>

-----------------------------------------------------------------------------

CommandsInit ==
    /\ \E parameters \in ParameterValues \cup {Unbound}, value \in SectionValues :
         document = [revision |-> 1, cameras |-> [slot \in Slots |-> parameters],
                     sections |-> [s \in EditableSections |-> value]]
    /\ opened = [slot \in Slots |-> Closed]
    /\ doing = [t \in CommandThreads |-> NoCommand]
    /\ stopping = FALSE

\* The caller names a revision it has seen.
Expected == 1..document.revision

EditNext(t) ==
    \/ \E value \in SectionValues, expected \in Expected :
         \/ UpdateUplinkConfig(t, value, expected)
         \/ UpdateStorageConfig(t, value, expected)
         \/ UpdateAlgorithmConfig(t, value, expected)
         \/ UpdateEventConfig(t, value, expected)
    \/ \E content \in Replacements, expected \in Expected : ReplaceConfig(t, content, expected)
    \/ Save(t)

CameraCommandNext(t) ==
    \/ \E slot \in Slots, expected \in Expected : BeginBind(t, slot, expected)
    \/ \E slot \in Slots : BeginConnect(t, slot) \/ DisconnectCamera(t, slot)
    \/ \E slot \in Slots, parameters \in ParameterValues, expected \in Expected :
         BeginUpdateCamera(t, slot, parameters, expected)
    \/ BindConnect(t) \/ BindDisconnect(t)
    \/ ConnectCamera(t) \/ ApplyParameters(t)
    \/ ValidateCamera(t) \/ SaveCamera(t)

CommandsNext == (\E t \in CommandThreads : EditNext(t) \/ CameraCommandNext(t)) \/ StopCommands

CommandsSpec == CommandsInit /\ [][CommandsNext]_commandVars

-----------------------------------------------------------------------------
(* Properties *)

\* What the executed command t may change of the document.
Untouched(t) ==
    /\ doing[t].step = "save" => doing[t].part = "all" \/
         /\ \A slot \in Slots \ {doing[t].part} : document'.cameras[slot] = document.cameras[slot]
         /\ \A s \in EditableSections \ {doing[t].part} :
              document'.sections[s] = document.sections[s]
    /\ doing[t].step = "saveCamera" =>
         /\ document'.sections = document.sections
         /\ \A slot \in Slots \ {doing[t].slot} : document'.cameras[slot] = document.cameras[slot]

\* A command edits a copy it took some steps ago, yet what it saves differs
\* from the stored configuration in its own part only: no change the other
\* thread saved meanwhile is undone (system_commands.cpp:2537, 2673).
EditsOwnPart ==
    [][document' # document =>
         \E t \in CommandThreads : doing'[t] # doing[t] /\ Untouched(t)]_commandVars

\* Not so: a camera that no command is working on need not have the
\* parameters that are saved, even if no device ever refused one, because
\* two commands apply in another order than they saved.
SavedIsApplied ==
    \A slot \in Slots :
        (\A t \in CommandThreads : doing[t].step = "idle") /\ opened[slot] # Closed
          => opened[slot] = document.cameras[slot]

=============================================================================
