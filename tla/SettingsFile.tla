---------------------------- MODULE SettingsFile ----------------------------
(***************************************************************************)
(* One settings file of the Linux application: the preferences             *)
(* (linux/src/config.rs) or the autostart entry (linux/src/autostart.rs),  *)
(* replaced by atomic_write and, the entry, removed by set_enabled(false), *)
(* on a file system that keeps names and contents in memory until they are *)
(* synced.  Every call may fail, the process may be killed and the power   *)
(* may go between any two of them.                                         *)
(***************************************************************************)
EXTENDS Naturals, FiniteSets

CONSTANTS Values,           \* the contents the application writes
          None, Torn,       \* no file; a file with only part of its content
          MaxAttempts,      \* temporary names one save tries
          MaxNames          \* bound: temporary names a process tries in its life

\* How a call ended.  "unneeded": set_enabled(false) found no file.
Outcomes == {"ok", "failed", "noName", "unneeded"}

Files == [content : Values \cup {Torn}, synced : BOOLEAN]

ASSUME SettingsAssumption ==
    /\ None \notin Values \cup Outcomes \cup Files
    /\ Torn \notin Values /\ None # Torn
    /\ MaxAttempts \in Nat \ {0} /\ MaxNames \in Nat

VARIABLES home,     \* the directory: absent, in memory only ("fresh"), or durable
          target,   \* the file under its own name, as any process sees it
          stored,   \* that name as the disk has it
          temps,    \* temporary names in the directory that this process may try
          draft,    \* the temporary file being written
          counter,  \* TEMPORARY_FILE_COUNTER
          writer    \* the call in progress, or how the last one ended

vars == <<home, target, stored, temps, draft, counter, writer>>

Phases == {"idle", "creating", "writing", "fileSync", "renaming", "directorySync",
           "removing", "removalSync", "cleaning"}

Calls == [phase : Phases, asked : Values \cup {None}, attempts : 0..MaxAttempts,
          name : 0..MaxNames, outcome : Outcomes \cup {None}]

-----------------------------------------------------------------------------
(* The calls. *)

\* A call that goes on, one that ends, and the file system they share.
Proceeds(phase) == writer' = [writer EXCEPT !.phase = phase]
Ends(outcome) == writer' = [writer EXCEPT !.phase = "idle", !.outcome = outcome]

Begins(phase, value) ==
    writer' = [phase |-> phase, asked |-> value, attempts |-> 0, name |-> 0, outcome |-> None]

\* create_dir_all, and for the autostart entry the look at the executable.
Save(value) ==
    /\ writer.phase = "idle"
    /\ \/ /\ home' = IF home = "absent" THEN "fresh" ELSE home
          /\ Begins("creating", value)
       \/ /\ home' \in {home, IF home = "absent" THEN "fresh" ELSE home}
          /\ writer' = [writer EXCEPT !.asked = value, !.outcome = "failed"]
    /\ UNCHANGED <<target, stored, temps, draft, counter>>

\* Mutant of CreateTemp: every attempt tries the same name.
CreateTempSameName ==
    /\ writer.phase = "creating" /\ counter < MaxNames
    /\ \/ /\ writer.attempts = MaxAttempts /\ Ends("noName")
          /\ UNCHANGED <<temps, draft, counter>>
       \/ /\ writer.attempts < MaxAttempts /\ counter \in temps
          /\ writer' = [writer EXCEPT !.attempts = @ + 1]
          /\ UNCHANGED <<temps, draft, counter>>
       \/ /\ writer.attempts < MaxAttempts /\ counter \notin temps
          /\ writer' = [writer EXCEPT !.phase = "writing", !.name = counter]
          /\ temps' = temps \cup {counter}
          /\ draft' = [content |-> Torn, synced |-> FALSE]
          /\ counter' = counter + 1
    /\ UNCHANGED <<home, target, stored>>

\* One turn of the loop: the next name is free, taken, or cannot be opened.
CreateTemp ==
    /\ writer.phase = "creating" /\ writer.attempts < MaxAttempts /\ counter < MaxNames
    /\ counter' = counter + 1
    /\ \/ /\ counter \in temps
          /\ writer' = [writer EXCEPT !.attempts = @ + 1]
          /\ UNCHANGED <<temps, draft>>
       \/ /\ counter \notin temps
          /\ writer' = [writer EXCEPT !.phase = "writing", !.name = counter]
          /\ temps' = temps \cup {counter}
          /\ draft' = [content |-> Torn, synced |-> FALSE]
       \/ /\ counter \notin temps
          /\ Ends("failed")
          /\ UNCHANGED <<temps, draft>>
    /\ UNCHANGED <<home, target, stored>>

RunOutOfNames == /\ writer.phase = "creating" /\ writer.attempts = MaxAttempts
                 /\ Ends("noName")
                 /\ UNCHANGED <<home, target, stored, temps, draft, counter>>

Write == /\ writer.phase = "writing"
         /\ \/ draft' = [draft EXCEPT !.content = writer.asked] /\ Proceeds("fileSync")
            \/ Proceeds("cleaning") /\ UNCHANGED draft
         /\ UNCHANGED <<home, target, stored, temps, counter>>

\* Mutant of SyncFile: the content is left to the system.
SyncFileSkipped == /\ writer.phase = "fileSync" /\ Proceeds("renaming")
                   /\ UNCHANGED <<home, target, stored, temps, draft, counter>>

SyncFile == /\ writer.phase = "fileSync"
            /\ \/ draft' = [draft EXCEPT !.synced = TRUE] /\ Proceeds("renaming")
               \/ Proceeds("cleaning") /\ UNCHANGED draft
            /\ UNCHANGED <<home, target, stored, temps, counter>>

Rename == /\ writer.phase = "renaming"
          /\ \/ /\ target' = draft /\ draft' = None
                /\ temps' = temps \ {writer.name}
                /\ Proceeds("directorySync")
             \/ Proceeds("cleaning") /\ UNCHANGED <<target, draft, temps>>
          /\ UNCHANGED <<home, stored, counter>>

\* Mutant of SyncDirectory: the new name is left to the system.
SyncDirectorySkipped == /\ writer.phase \in {"directorySync", "removalSync"}
                        /\ Ends("ok")
                        /\ UNCHANGED <<home, target, stored, temps, draft, counter>>

\* sync_directory, whose failure is the call's although the file has changed.
SyncDirectory ==
    /\ \/ /\ writer.phase \in {"directorySync", "removalSync"}
          /\ stored' = target /\ Ends("ok")
       \/ /\ writer.phase = "directorySync" /\ Proceeds("cleaning")
          /\ UNCHANGED stored
       \/ /\ writer.phase = "removalSync" /\ Ends("failed")
          /\ UNCHANGED stored
    /\ UNCHANGED <<home, target, temps, draft, counter>>

\* The temporary file is removed, if it is there and can be.
Clean == /\ writer.phase = "cleaning" /\ Ends("failed")
         /\ temps' \in {temps, temps \ {writer.name}}
         /\ draft' = None
         /\ UNCHANGED <<home, target, stored, counter>>

\* set_enabled(false)
Remove == /\ writer.phase = "idle" /\ Begins("removing", None)
          /\ UNCHANGED <<home, target, stored, temps, draft, counter>>

RemoveFile == /\ writer.phase = "removing"
              /\ \/ /\ target # None /\ target' = None /\ Proceeds("removalSync")
                 \/ /\ target # None /\ Ends("failed") /\ UNCHANGED target
                 \/ /\ target = None /\ Ends("unneeded") /\ UNCHANGED target
              /\ UNCHANGED <<home, stored, temps, draft, counter>>

-----------------------------------------------------------------------------
(* The system. *)

\* What is in memory may reach the disk at any time.
Writeback == /\ \/ home = "fresh" /\ home' = "durable" /\ UNCHANGED stored
                \/ stored' = target /\ UNCHANGED home
             /\ UNCHANGED <<target, temps, draft, counter, writer>>

Idle == [phase |-> "idle", asked |-> None, attempts |-> 0, name |-> 0, outcome |-> None]

\* The process is killed; the next one may have its number, and then its names.
Killed == /\ draft' = None /\ counter' = 0 /\ writer' = Idle
          /\ temps' \in {temps, {}}
          /\ UNCHANGED <<home, target, stored>>

\* The contents of a file, once the power has gone.
Remains(file) == IF file = None THEN {None}
                 ELSE IF file.synced THEN {file.content} ELSE {file.content, Torn}

\* The power goes: the disk is all there is.  A directory that is not durable
\* takes its files along.
PowerLoss ==
    /\ \E found \in Remains(stored) \cup (IF home = "durable" THEN {} ELSE {None}) :
          /\ target' = IF found = None THEN None ELSE [content |-> found, synced |-> TRUE]
          /\ stored' = target'
          /\ home' = IF home = "fresh" /\ found = None THEN "absent"
                     ELSE IF home = "fresh" THEN "durable" ELSE home
    /\ temps' \in SUBSET temps
    /\ draft' = None /\ counter' = 0 /\ writer' = Idle

-----------------------------------------------------------------------------

Init ==
    /\ home \in {"absent", "durable"}
    /\ target \in {None} \cup (IF home = "absent" THEN {}
                               ELSE [content : Values, synced : {TRUE}])
    /\ stored = target
    /\ temps = {} /\ draft = None /\ counter = 0 /\ writer = Idle

Next == \/ \E value \in Values : Save(value)
        \/ CreateTemp \/ RunOutOfNames \/ Write \/ SyncFile \/ Rename \/ SyncDirectory
        \/ Clean \/ Remove \/ RemoveFile
        \/ Writeback \/ Killed \/ PowerLoss

Spec == Init /\ [][Next]_vars

-----------------------------------------------------------------------------
(* Properties. *)

TypeOK ==
    /\ home \in {"absent", "fresh", "durable"}
    /\ target \in Files \cup {None}
    /\ stored \in Files \cup {None}
    /\ draft \in Files \cup {None}
    /\ temps \subseteq 0..MaxNames
    /\ counter \in 0..MaxNames
    /\ writer \in Calls

\* What may be found of the file, now or after a power loss at any moment.
MayBeFound == Remains(target) \cup Remains(stored)
                  \cup (IF home = "durable" THEN {} ELSE {None})

\* The file is never anything but what it was or what it is being changed to,
\* whole: no crash between the calls of atomic_write brings back something
\* older, or leaves a part.
OldOrNew ==
    [][MayBeFound' \subseteq MayBeFound \cup
          (IF writer.phase = "idle" THEN {} ELSE {writer.asked})]_vars

\* A change reported as made is not undone by a power loss, unless the directory
\* itself, which nobody syncs into its own parent, was new and is lost.
SavedSurvives ==
    writer.outcome = "ok" /\ home = "durable" => MayBeFound = {writer.asked}

\* Temporary files that crashes left behind do not keep a save from working: it
\* gives up for want of a name only when all the names it may try are taken.
NamesSuffice == writer.outcome = "noName" => Cardinality(temps) >= MaxAttempts
=============================================================================
