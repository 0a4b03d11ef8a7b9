---------------------------- MODULE StartupProofs ----------------------------
(***************************************************************************)
(* What holds of the program's start and of what it leaves behind.  Of a   *)
(* settings file, for every set of contents and every number of names,     *)
(* whatever fails and whenever the system stops.  Of a launch, for every   *)
(* line of words and every order of the launches and of what is done in    *)
(* the windows and trays between them.                                     *)
(***************************************************************************)
EXTENDS SettingsFile, CommandLine, FiniteSetTheorems, WellFoundedInduction, TLAPS

\* The file as it should be once a value has been written in full.
Whole(value) == [content |-> value, synced |-> TRUE]

\* Nothing gets its name before its content is on the disk.
NamedIsSynced == /\ target # None => target.synced
                 /\ stored # None => stored.synced

\* How far the draft is when a call is about to take its next step.
DraftFits ==
    /\ writer.phase \in {"creating", "writing", "fileSync", "renaming", "directorySync"}
          => writer.asked \in Values
    /\ writer.phase = "removing" => writer.asked = None
    /\ writer.phase \in {"writing", "fileSync", "renaming"} => draft \in Files
    /\ writer.phase \in {"fileSync", "renaming"} => draft.content = writer.asked
    /\ writer.phase = "renaming" => draft.synced
    /\ writer.phase = "directorySync" => target = Whole(writer.asked)
    /\ writer.phase = "removalSync" => target = None /\ writer.asked = None

\* What a success has left behind.
OkIsStored ==
    writer.outcome = "ok" =>
        /\ writer.phase = "idle"
        /\ stored = target
        /\ IF target = None THEN writer.asked = None ELSE target.content = writer.asked

\* Every name a save has tried in vain is taken.
Tried == (counter - writer.attempts)..(counter - 1)

TriedAreTaken ==
    /\ writer.phase = "creating" => writer.attempts <= counter /\ Tried \subseteq temps
    /\ writer.outcome = "noName" =>
          writer.phase = "idle" /\ Cardinality(temps) >= MaxAttempts

IInv == TypeOK /\ NamedIsSynced /\ DraftFits /\ OkIsStored /\ TriedAreTaken

-----------------------------------------------------------------------------

\* A set of names that holds n consecutive ones has at least n elements.
LEMMA RunOfNames ==
    ASSUME NEW names \in SUBSET (0..MaxNames), NEW low \in Nat, NEW high \in Int,
           low..high \subseteq names, low <= high + 1
    PROVE  Cardinality(names) >= high - low + 1
<1>1. IsFiniteSet(0..MaxNames)
  BY SettingsAssumption, FS_Interval
<1>2. IsFiniteSet(names)
  BY <1>1, FS_Subset
<1>3. Cardinality(low..high) = high - low + 1
  BY FS_Interval
<1>4. Cardinality(low..high) <= Cardinality(names)
  BY <1>2, FS_Subset
<1>5. Cardinality(names) \in Nat /\ Cardinality(low..high) \in Nat
  BY <1>2, FS_Subset, FS_CardinalityType
<1> QED
  BY <1>3, <1>4, <1>5

\* The start of a process has no file half written.
LEMMA InitInv == Init => IInv
<1> SUFFICES ASSUME Init PROVE IInv
  OBVIOUS
<1> USE SettingsAssumption DEF Outcomes
<1>1. TypeOK
  <2>1. target \in Files \cup {None} /\ home \in {"absent", "durable"}
    BY DEF Init, Files
  <2>2. temps \subseteq 0..MaxNames /\ counter \in 0..MaxNames
    BY DEF Init
  <2>3. Idle \in Calls
    BY DEF Idle, Calls, Phases
  <2> QED
    BY <2>1, <2>2, <2>3 DEF Init, TypeOK
<1>2. NamedIsSynced
  BY DEF Init, NamedIsSynced
<1>3. DraftFits /\ OkIsStored /\ TriedAreTaken
  BY DEF Init, Idle, DraftFits, OkIsStored, TriedAreTaken
<1> QED
  BY <1>1, <1>2, <1>3 DEF IInv

\* What becomes of the call's record when it goes on, ends or begins.
LEMMA WriterSteps ==
    ASSUME writer \in Calls
    PROVE  /\ \A p \in Phases : Proceeds(p) =>
                 /\ writer' \in Calls
                 /\ writer'.phase = p
                 /\ writer'.asked = writer.asked /\ writer'.outcome = writer.outcome
           /\ \A o \in Outcomes : Ends(o) =>
                 /\ writer' \in Calls
                 /\ writer'.phase = "idle" /\ writer'.outcome = o
                 /\ writer'.asked = writer.asked
           /\ \A p \in Phases, v \in Values \cup {None} : Begins(p, v) =>
                 /\ writer' \in Calls
                 /\ writer'.phase = p /\ writer'.asked = v
                 /\ writer'.attempts = 0 /\ writer'.outcome = None
<1> USE SettingsAssumption DEF Calls, Phases, Outcomes
<1>1. ASSUME NEW p \in Phases, Proceeds(p)
      PROVE  /\ writer' \in Calls
             /\ writer'.phase = p
             /\ writer'.asked = writer.asked /\ writer'.outcome = writer.outcome
  BY <1>1 DEF Proceeds
<1>2. ASSUME NEW o \in Outcomes, Ends(o)
      PROVE  /\ writer' \in Calls
             /\ writer'.phase = "idle" /\ writer'.outcome = o
             /\ writer'.asked = writer.asked
  BY <1>2 DEF Ends
<1>3. ASSUME NEW p \in Phases, NEW v \in Values \cup {None}, Begins(p, v)
      PROVE  /\ writer' \in Calls
             /\ writer'.phase = p /\ writer'.asked = v
             /\ writer'.attempts = 0 /\ writer'.outcome = None
  BY <1>3 DEF Begins
<1> QED
  BY <1>1, <1>2, <1>3

\* Every step, of the call or of the system, keeps the invariant.
LEMMA NextInv == IInv /\ [Next]_vars => IInv'
<1> SUFFICES ASSUME IInv, [Next]_vars PROVE IInv'
  OBVIOUS
<1> USE SettingsAssumption DEF IInv
<1> DEFINE Kept == NamedIsSynced /\ DraftFits /\ OkIsStored /\ TriedAreTaken
<1>n. None \notin Outcomes /\ "ok" \in Outcomes /\ "noName" \in Outcomes
      /\ "failed" \in Outcomes /\ "unneeded" \in Outcomes
  BY DEF Outcomes
<1>p. \A p \in {"idle", "creating", "writing", "fileSync", "renaming", "directorySync",
                "removing", "removalSync", "cleaning"} : p \in Phases
  BY DEF Phases
<1>w. writer \in Calls
  BY DEF TypeOK
<1> USE <1>n, <1>p, <1>w, WriterSteps
<1>1. ASSUME NEW value \in Values, Save(value) PROVE IInv'
  <2>1. home' \in {"absent", "fresh", "durable"}
    BY <1>1 DEF Save, TypeOK
  <2>2. CASE Begins("creating", value)
    <3>1. TypeOK'
      BY <1>1, <2>1, <2>2 DEF Save, TypeOK
    <3>2. Kept'
      BY <1>1, <2>2 DEF Save, TypeOK, NamedIsSynced, DraftFits, OkIsStored, TriedAreTaken,
                        Tried
    <3> QED
      BY <3>1, <3>2
  <2>3. CASE writer' = [writer EXCEPT !.asked = value, !.outcome = "failed"]
    <3>1. writer' \in Calls /\ writer'.phase = writer.phase /\ writer'.outcome = "failed"
      BY <2>3 DEF Calls, Outcomes
    <3>2. TypeOK'
      BY <1>1, <2>1, <3>1 DEF Save, TypeOK
    <3>3. Kept'
      BY <1>1, <3>1 DEF Save, TypeOK, NamedIsSynced, DraftFits, OkIsStored, TriedAreTaken
    <3> QED
      BY <3>2, <3>3
  <2> QED
    BY <1>1, <2>2, <2>3 DEF Save
<1>2. CASE CreateTemp
  <2>1. /\ counter' = counter + 1 /\ counter' \in 0..MaxNames /\ counter \in 0..MaxNames
        /\ writer.phase = "creating" /\ writer.outcome # "ok" /\ writer.outcome # "noName"
        /\ UNCHANGED <<home, target, stored>>
    BY <1>2 DEF CreateTemp, TypeOK, OkIsStored, TriedAreTaken
  <2>2. CASE counter \in temps /\ writer' = [writer EXCEPT !.attempts = @ + 1]
             /\ UNCHANGED <<temps, draft>>
    <3>1. /\ writer' \in Calls /\ writer'.phase = writer.phase
          /\ writer'.outcome = writer.outcome
          /\ writer'.attempts = writer.attempts + 1
      BY <1>2, <2>2 DEF CreateTemp, Calls
    <3>2. TypeOK'
      BY <2>1, <2>2, <3>1 DEF TypeOK
    <3>3. writer.attempts <= counter /\ Tried \subseteq temps
      BY <2>1 DEF TriedAreTaken
    <3>4. writer'.attempts <= counter' /\ Tried' \subseteq temps'
      BY <2>1, <2>2, <3>1, <3>3 DEF Tried, Calls
    <3>5. Kept'
      BY <2>1, <2>2, <3>1, <3>4 DEF NamedIsSynced, DraftFits, OkIsStored, TriedAreTaken
    <3> QED
      BY <3>2, <3>5
  <2>3. CASE /\ writer' = [writer EXCEPT !.phase = "writing", !.name = counter]
             /\ temps' = temps \cup {counter}
             /\ draft' = [content |-> Torn, synced |-> FALSE]
    <3>1. /\ writer' \in Calls /\ writer'.phase = "writing"
          /\ writer'.outcome = writer.outcome /\ writer'.asked = writer.asked
      BY <2>1, <2>3 DEF Calls, Phases
    <3>2. draft' \in Files
      BY <2>3 DEF Files
    <3>3. TypeOK'
      BY <2>1, <2>3, <3>1, <3>2 DEF TypeOK
    <3>4. Kept'
      BY <2>1, <3>1, <3>2 DEF NamedIsSynced, DraftFits, OkIsStored, TriedAreTaken
    <3> QED
      BY <3>3, <3>4
  <2>4. CASE Ends("failed") /\ UNCHANGED <<temps, draft>>
    <3>1. TypeOK'
      BY <2>1, <2>4 DEF TypeOK
    <3>2. Kept'
      BY <2>1, <2>4 DEF NamedIsSynced, DraftFits, OkIsStored, TriedAreTaken
    <3> QED
      BY <3>1, <3>2
  <2> QED
    BY <1>2, <2>2, <2>3, <2>4 DEF CreateTemp
<1>3. CASE RunOutOfNames
  <2>1. TypeOK'
    BY <1>3 DEF RunOutOfNames, TypeOK
  <2>2. Cardinality(temps) >= MaxAttempts
    <3>1. /\ writer.attempts = MaxAttempts /\ writer.attempts <= counter
          /\ Tried \subseteq temps
      BY <1>3 DEF RunOutOfNames, TriedAreTaken
    <3>2. temps \in SUBSET (0..MaxNames) /\ counter \in Nat
      BY DEF TypeOK
    <3>3. counter - MaxAttempts \in Nat /\ counter - 1 \in Int
          /\ counter - MaxAttempts <= (counter - 1) + 1
      BY <3>1, <3>2
    <3>4. (counter - MaxAttempts)..(counter - 1) \subseteq temps
      BY <3>1 DEF Tried
    <3>5. Cardinality(temps) >= (counter - 1) - (counter - MaxAttempts) + 1
      BY <3>2, <3>3, <3>4, RunOfNames
    <3>6. (counter - 1) - (counter - MaxAttempts) + 1 = MaxAttempts
      BY <3>2
    <3> QED
      BY <3>5, <3>6
  <2>3. Kept'
    BY <1>3, <2>2 DEF RunOutOfNames, NamedIsSynced, DraftFits, OkIsStored, TriedAreTaken
  <2> QED
    BY <2>1, <2>3
<1>4. CASE Write
  <2>1. draft' \in Files \cup {None}
    BY <1>4 DEF Write, TypeOK, DraftFits, Files, Calls, OkIsStored
  <2>2. TypeOK'
    BY <1>4, <2>1 DEF Write, TypeOK
  <2>3. Kept'
    BY <1>4 DEF Write, NamedIsSynced, DraftFits, Files, Calls, OkIsStored, TriedAreTaken
  <2> QED
    BY <2>2, <2>3
<1>5. CASE SyncFile
  <2>1. draft' \in Files \cup {None}
    BY <1>5 DEF SyncFile, TypeOK, DraftFits, Files
  <2>2. TypeOK'
    BY <1>5, <2>1 DEF SyncFile, TypeOK
  <2>3. Kept'
    BY <1>5 DEF SyncFile, NamedIsSynced, DraftFits, Files, OkIsStored, TriedAreTaken
  <2> QED
    BY <2>2, <2>3
<1>6. CASE Rename
  <2>1. CASE /\ target' = draft /\ draft' = None /\ temps' = temps \ {writer.name}
             /\ Proceeds("directorySync")
    <3>1. draft = Whole(writer.asked) /\ draft \in Files
      BY <1>6 DEF Rename, DraftFits, Files, Whole
    <3>2. TypeOK'
      BY <1>6, <2>1, <3>1 DEF Rename, TypeOK
    <3>3. Kept'
      BY <1>6, <2>1, <3>1 DEF Rename, NamedIsSynced, DraftFits, OkIsStored, TriedAreTaken,
                              Files, Whole
    <3> QED
      BY <3>2, <3>3
  <2>2. CASE Proceeds("cleaning") /\ UNCHANGED <<target, draft, temps>>
    <3>1. TypeOK'
      BY <1>6, <2>2 DEF Rename, TypeOK
    <3>2. Kept'
      BY <1>6, <2>2 DEF Rename, NamedIsSynced, DraftFits, OkIsStored, TriedAreTaken
    <3> QED
      BY <3>1, <3>2
  <2> QED
    BY <1>6, <2>1, <2>2 DEF Rename
<1>7. CASE SyncDirectory
  <2>1. TypeOK'
    BY <1>7 DEF SyncDirectory, TypeOK
  <2>2. (NamedIsSynced /\ DraftFits /\ TriedAreTaken)'
    BY <1>7 DEF SyncDirectory, NamedIsSynced, DraftFits, OkIsStored, TriedAreTaken
  <2>3. writer.phase = "directorySync" => target = Whole(writer.asked) /\ target # None
    <3>1. \A value \in Values : Whole(value) \in Files
      BY DEF Files, Whole
    <3> QED
      BY <3>1 DEF DraftFits
  <2>4. OkIsStored'
    BY <1>7, <2>3 DEF SyncDirectory, DraftFits, OkIsStored, Whole
  <2> QED
    BY <2>1, <2>2, <2>4
<1>8. CASE Clean
  <2>1. temps' \subseteq temps
    BY <1>8 DEF Clean
  <2>2. TypeOK'
    BY <1>8, <2>1 DEF Clean, TypeOK
  <2>3. Kept'
    BY <1>8 DEF Clean, NamedIsSynced, DraftFits, OkIsStored, TriedAreTaken
  <2> QED
    BY <2>2, <2>3
<1>9. CASE Remove
  <2>1. TypeOK'
    BY <1>9 DEF Remove, TypeOK
  <2>2. Kept'
    BY <1>9 DEF Remove, NamedIsSynced, DraftFits, OkIsStored, TriedAreTaken
  <2> QED
    BY <2>1, <2>2
<1>10. CASE RemoveFile
  <2>1. TypeOK'
    BY <1>10 DEF RemoveFile, TypeOK
  <2>2. Kept'
    BY <1>10 DEF RemoveFile, NamedIsSynced, DraftFits, OkIsStored, TriedAreTaken
  <2> QED
    BY <2>1, <2>2
<1>11. CASE Writeback
  <2>1. TypeOK'
    BY <1>11 DEF Writeback, TypeOK
  <2>2. Kept'
    BY <1>11 DEF Writeback, NamedIsSynced, DraftFits, OkIsStored, TriedAreTaken, Tried
  <2> QED
    BY <2>1, <2>2
<1>i. /\ Idle \in Calls /\ Idle.phase = "idle" /\ Idle.outcome = None
      /\ Idle.attempts = 0
  BY DEF Idle, Calls, Phases
<1>12. CASE Killed
  <2>1. temps' \subseteq temps
    BY <1>12 DEF Killed
  <2>2. TypeOK'
    BY <1>12, <1>i, <2>1 DEF Killed, TypeOK
  <2>3. Kept'
    BY <1>12, <1>i DEF Killed, NamedIsSynced, DraftFits, OkIsStored, TriedAreTaken
  <2> QED
    BY <2>2, <2>3
<1>13. CASE PowerLoss
  <2>1. PICK found \in Remains(stored) \cup (IF home = "durable" THEN {} ELSE {None}) :
          /\ target' = IF found = None THEN None ELSE [content |-> found, synced |-> TRUE]
          /\ stored' = target'
          /\ home' = IF home = "fresh" /\ found = None THEN "absent"
                     ELSE IF home = "fresh" THEN "durable" ELSE home
    BY <1>13 DEF PowerLoss
  <2>2. found \in Values \cup {None, Torn}
    BY <2>1 DEF Remains, TypeOK, Files
  <2>3. target' \in Files \cup {None} /\ NamedIsSynced'
    BY <2>1, <2>2 DEF Files, NamedIsSynced
  <2>4. home' \in {"absent", "fresh", "durable"}
    BY <2>1 DEF TypeOK
  <2>5. draft' = None /\ counter' = 0 /\ writer' = Idle /\ temps' \subseteq temps
    BY <1>13 DEF PowerLoss
  <2>6. TypeOK'
    BY <1>i, <2>1, <2>3, <2>4, <2>5 DEF TypeOK
  <2>7. (DraftFits /\ OkIsStored /\ TriedAreTaken)'
    BY <1>i, <2>5 DEF DraftFits, OkIsStored, TriedAreTaken
  <2> QED
    BY <2>3, <2>6, <2>7
<1>14. CASE UNCHANGED vars
  BY <1>14 DEF vars, TypeOK, NamedIsSynced, DraftFits, OkIsStored, TriedAreTaken, Tried
<1> QED
  BY <1>1, <1>2, <1>3, <1>4, <1>5, <1>6, <1>7, <1>8, <1>9, <1>10, <1>11, <1>12, <1>13, <1>14
     DEF Next

\* The inductive invariant of a settings file.
THEOREM SettingsInductive == Spec => []IInv
BY InitInv, NextInv, PTL DEF Spec

-----------------------------------------------------------------------------

\* The fields have their types; no save tries more names than it may.
THEOREM SettingsTypeCorrect == Spec => []TypeOK
<1>1. IInv => TypeOK
  BY DEF IInv
<1> QED
  BY <1>1, SettingsInductive, PTL

\* A reported change survives a loss of power: after a success the disk has the
\* name the memory has, and what it names was synced before it was named.
THEOREM SavedIsDurable == Spec => []SavedSurvives
<1>1. IInv => SavedSurvives
  <2> SUFFICES ASSUME IInv, writer.outcome = "ok", home = "durable"
               PROVE  MayBeFound = {writer.asked}
    BY DEF SavedSurvives
  <2>1. stored = target /\ Remains(target) = {writer.asked}
    BY DEF IInv, OkIsStored, NamedIsSynced, Remains
  <2> QED
    BY <2>1 DEF MayBeFound
<1> QED
  BY <1>1, SettingsInductive, PTL

\* A save gives up for want of a name only if all it may try are taken.
THEOREM NamesAreEnough == Spec => []NamesSuffice
<1>1. IInv => NamesSuffice
  BY DEF IInv, TriedAreTaken, NamesSuffice
<1> QED
  BY <1>1, SettingsInductive, PTL

\* One step leaves nothing to be found but what could be found before it and,
\* during a call, the value that call is about.
LEMMA StepFinds ==
    ASSUME IInv, Next
    PROVE  MayBeFound' \subseteq MayBeFound \cup
               (IF writer.phase = "idle" THEN {} ELSE {writer.asked})
<1> USE DEF MayBeFound
<1>1. ASSUME NEW value \in Values, Save(value)
      PROVE  MayBeFound' \subseteq MayBeFound
  BY <1>1 DEF Save, Remains
<1>2. CASE CreateTemp \/ RunOutOfNames \/ Write \/ SyncFile \/ Clean
  BY <1>2 DEF CreateTemp, RunOutOfNames, Write, SyncFile, Clean, Remains
<1>3. CASE Rename
  <2>1. CASE target' = draft /\ draft' = None
    <3>1. draft # None /\ draft.synced /\ draft.content = writer.asked
      BY <1>3, SettingsAssumption DEF Rename, IInv, DraftFits
    <3>3. Remains(target)' = {writer.asked}
      BY <2>1, <3>1 DEF Remains
    <3>2. stored' = stored /\ home' = home /\ writer.phase # "idle"
      BY <1>3 DEF Rename
    <3> QED
      BY <3>2, <3>3 DEF Remains
  <2>2. CASE UNCHANGED target
    BY <1>3, <2>2 DEF Rename, Remains
  <2> QED
    BY <1>3, <2>1, <2>2 DEF Rename
<1>4. CASE SyncDirectory \/ Writeback
  BY <1>4 DEF SyncDirectory, Writeback, Remains
<1>5. CASE Remove \/ Killed
  BY <1>5 DEF Remove, Killed, Remains
<1>6. CASE RemoveFile
  BY <1>6 DEF RemoveFile, IInv, DraftFits, Remains
<1>7. CASE PowerLoss
  <2>1. PICK found \in Remains(stored) \cup (IF home = "durable" THEN {} ELSE {None}) :
          /\ target' = IF found = None THEN None ELSE [content |-> found, synced |-> TRUE]
          /\ stored' = target'
          /\ home' = IF home = "fresh" /\ found = None THEN "absent"
                     ELSE IF home = "fresh" THEN "durable" ELSE home
    BY <1>7 DEF PowerLoss
  <2>2. found # None => [content |-> found, synced |-> TRUE] \in Files
    BY <2>1 DEF IInv, TypeOK, Remains, Files
  <2>3. Remains(target)' = {found} /\ Remains(stored)' = {found}
    BY <2>1, <2>2, SettingsAssumption DEF Remains
  <2>4. home = "durable" => home' = "durable"
    BY <2>1
  <2> QED
    BY <2>1, <2>3, <2>4
<1> QED
  BY <1>1, <1>2, <1>3, <1>4, <1>5, <1>6, <1>7 DEF Next

\* No crash brings back anything but the old value or the one being written.
THEOREM NothingElseIsFound == Spec => OldOrNew
<1>1. IInv /\ [Next]_vars =>
        [MayBeFound' \subseteq MayBeFound \cup
            (IF writer.phase = "idle" THEN {} ELSE {writer.asked})]_vars
  BY StepFinds
<1> QED
  BY <1>1, SettingsInductive, PTL DEF Spec, OldOrNew

-----------------------------------------------------------------------------
(* The parser: one word. *)

\* What has been read so far.
IsReading(r) ==
    r = [primary |-> r.primary, path |-> r.path, given |-> r.given, awaited |-> r.awaited,
         failed |-> r.failed]

\* What may be a value of the option before it.
Fits(w, option) ==
    /\ w \in ValuesOf(option) \ StartsWithDash
    /\ w \in NotText => option = "--render-popover"

Goes(r, primary, path, given, awaited) ==
    r = [primary |-> primary, path |-> path, given |-> given, awaited |-> awaited, failed |-> FALSE]

LEMMA WordsAre ==
    /\ Modes \cap Options = {} /\ Modes \subseteq StartsWithDash /\ Options \subseteq StartsWithDash
    /\ Options = RenderOptions \cup {"--render-popover"} /\ "--render-popover" \notin RenderOptions
    /\ "--render-popover" \notin Modes /\ Unset \notin Primaries \cup Options
    /\ \A mode \in Modes : CommandOf(mode) \in Primaries \ {"Render"}
<1>1. Unset \notin Primaries \cup Options
  BY CommandLineAssumption
<1>2. \A mode \in Modes : CommandOf(mode) \in Primaries \ {"Render"}
  BY DEF Modes, CommandOf, Primaries
<1>3. /\ Modes \cap Options = {} /\ Modes \subseteq StartsWithDash /\ Options \subseteq StartsWithDash
      /\ Options = RenderOptions \cup {"--render-popover"} /\ "--render-popover" \notin RenderOptions
      /\ "--render-popover" \notin Modes
  BY DEF Modes, Options, RenderOptions, StartsWithDash
<1> QED BY <1>1, <1>2, <1>3

LEMMA FailedStays ==
    ASSUME NEW r, r.failed, NEW w
    PROVE  Read(r, w) = r
BY DEF Read

LEMMA FailedIs == ASSUME NEW r, IsReading(r) PROVE Failed(r).failed
BY DEF Failed, IsReading

LEMMA PrimaryIs ==
    ASSUME NEW r, IsReading(r), r.failed = FALSE, NEW command
    PROVE  /\ r.primary # Unset => WithPrimary(r, command).failed
           /\ r.primary = Unset => Goes(WithPrimary(r, command), command, r.path, r.given, r.awaited)
BY DEF WithPrimary, Failed, IsReading, Goes

\* A word that follows an option.
LEMMA ValueIs ==
    ASSUME NEW r, IsReading(r), r.failed = FALSE, r.awaited \in Options, NEW w
    PROVE  /\ ~Fits(w, r.awaited) => Read(r, w).failed
           /\ Fits(w, r.awaited) /\ r.awaited = "--render-popover" /\ r.primary # Unset => Read(r, w).failed
           /\ Fits(w, r.awaited) /\ r.awaited = "--render-popover" /\ r.primary = Unset
                 => Goes(Read(r, w), "Render", w, r.given, Unset)
           /\ Fits(w, r.awaited) /\ r.awaited # "--render-popover"
                 => Goes(Read(r, w), r.primary, r.path,
                         [o \in DOMAIN r.given \cup {r.awaited} |-> IF o = r.awaited THEN w ELSE r.given[o]], Unset)
<1> DEFINE taken == [r EXCEPT !.awaited = Unset]
<1>1. r.awaited # Unset
  BY WordsAre
<1>2. Read(r, w) = WithValue(r, w)
  BY <1>1 DEF Read
<1>3. /\ IsReading(taken) /\ taken.failed = FALSE /\ taken.primary = r.primary /\ taken.path = r.path
      /\ taken.given = r.given /\ taken.awaited = Unset
  BY DEF IsReading
<1>4. CASE w \in StartsWithDash \/ w \notin ValuesOf(r.awaited)
  <2>1. WithValue(r, w) = Failed(r)
    BY <1>4, Zenon DEF WithValue
  <2> QED BY <1>2, <1>4, <2>1, FailedIs DEF Fits
<1>5. CASE ~(w \in StartsWithDash \/ w \notin ValuesOf(r.awaited)) /\ r.awaited = "--render-popover"
  <2>1. WithValue(r, w) = [WithPrimary(taken, "Render") EXCEPT !.path = w]
    BY <1>5, Zenon DEF WithValue
  <2>2. Fits(w, r.awaited)
    BY <1>5 DEF Fits
  <2>3. CASE r.primary # Unset
    <3>1. WithPrimary(taken, "Render") = Failed(taken)
      BY <1>3, <2>3 DEF WithPrimary
    <3>2. [Failed(taken) EXCEPT !.path = w].failed
      <4> HIDE DEF taken
      <4> QED BY <1>3 DEF Failed, IsReading
    <3> QED BY <1>2, <1>5, <2>1, <2>2, <2>3, <3>1, <3>2
  <2>4. CASE r.primary = Unset
    <3>1. Goes(WithPrimary(taken, "Render"), "Render", r.path, r.given, Unset)
      <4> HIDE DEF taken
      <4> QED BY <1>3, <2>4, PrimaryIs
    <3> HIDE DEF taken
    <3>2. Goes(Read(r, w), "Render", w, r.given, Unset)
      <4> DEFINE t == WithPrimary(taken, "Render")
      <4>1. t = [primary |-> "Render", path |-> r.path, given |-> r.given, awaited |-> Unset, failed |-> FALSE]
        BY <3>1 DEF Goes
      <4>2. Read(r, w) = [t EXCEPT !.path = w]
        BY <1>2, <2>1
      <4> HIDE DEF t
      <4> QED BY <4>1, <4>2 DEF Goes
    <3> QED BY <1>5, <2>2, <2>4, <3>2
  <2> QED BY <2>3, <2>4
<1>6. CASE ~(w \in StartsWithDash \/ w \notin ValuesOf(r.awaited)) /\ r.awaited # "--render-popover"
  <2>1. CASE w \in NotText
    <3>1. WithValue(r, w) = Failed(r)
      BY <1>6, <2>1, Zenon DEF WithValue
    <3> QED BY <1>2, <1>6, <2>1, <3>1, FailedIs DEF Fits
  <2>2. CASE w \notin NotText
    <3> DEFINE given == [o \in DOMAIN r.given \cup {r.awaited} |-> IF o = r.awaited THEN w ELSE r.given[o]]
    <3>1. WithValue(r, w) =
             [taken EXCEPT !.given = [o \in DOMAIN @ \cup {r.awaited} |-> IF o = r.awaited THEN w ELSE @[o]]]
      BY <1>6, <2>2, Zenon DEF WithValue
    <3>2. WithValue(r, w) = [taken EXCEPT !.given = given]
      BY <1>3, <3>1
    <3> HIDE DEF taken, given
    <3>3. Goes(Read(r, w), r.primary, r.path, given, Unset)
      BY <1>2, <1>3, <3>2 DEF Goes, IsReading
    <3>4. Fits(w, r.awaited)
      BY <1>6, <2>2 DEF Fits
    <3> QED BY <1>6, <3>3, <3>4 DEF given
  <2> QED BY <2>1, <2>2
<1> QED BY <1>4, <1>5, <1>6

\* A word that follows none.
LEMMA WordIs ==
    ASSUME NEW r, IsReading(r), r.failed = FALSE, r.awaited = Unset, NEW w
    PROVE  /\ w \notin Modes \cup Options => Read(r, w).failed
           /\ w \in Modes /\ r.primary # Unset => Read(r, w).failed
           /\ w \in Modes /\ r.primary = Unset => Goes(Read(r, w), CommandOf(w), r.path, r.given, Unset)
           /\ w \in Options /\ w \in DOMAIN r.given => Read(r, w).failed
           /\ w \in Options /\ w \notin DOMAIN r.given => Goes(Read(r, w), r.primary, r.path, r.given, w)
<1>1. CASE w \in Modes
  <2>1. Read(r, w) = WithPrimary(r, CommandOf(w)) /\ w \notin Options
    BY <1>1, WordsAre DEF Read
  <2> QED BY <1>1, <2>1, PrimaryIs
<1>2. CASE w \in Options
  <2>1. Read(r, w) = WithOption(r, w) /\ w \notin Modes
    BY <1>2, WordsAre DEF Read
  <2> QED BY <1>2, <2>1, FailedIs DEF WithOption, Goes, IsReading
<1>3. CASE w \notin Modes \cup Options
  <2>1. Read(r, w) = Failed(r)
    BY <1>3 DEF Read
  <2> QED BY <1>3, <2>1, FailedIs
<1> QED BY <1>1, <1>2, <1>3

-----------------------------------------------------------------------------
(* The parser: a line. *)

\* A place after an option; a word that may be where it is; a word that says
\* which mode the line is for; and two words that may not be in one line.
After(a, i) == i > 1 /\ a[i - 1] \in Options
Ok(a, i) == IF After(a, i) THEN Fits(a[i], a[i - 1]) ELSE a[i] \in Modes \cup Options
Sets(a, i) == a[i] \in Modes \/ (i > 1 /\ a[i - 1] = "--render-popover")
Repeats(a, i, j) ==
    \/ a[i] \in RenderOptions /\ a[i] = a[j]
    \/ Sets(a, i) /\ Sets(a, j)

\* The first k words can begin a line.
Good(a, k) ==
    /\ \A i \in 1..k : Ok(a, i)
    /\ \A i, j \in 1..k : i < j => ~Repeats(a, i, j)

\* What has been read is what the first k words say.
Tells(a, k, r) ==
    /\ IsReading(r) /\ r.failed = FALSE
    /\ r.awaited = IF k > 0 /\ a[k] \in Options THEN a[k] ELSE Unset
    /\ \A o : o \in DOMAIN r.given <=> o \in RenderOptions /\ \E i \in 1..k : i < k /\ a[i] = o
    /\ \A i \in 1..k : i < k /\ a[i] \in RenderOptions => r.given[a[i]] = a[i + 1]
    /\ r.primary = Unset <=> \A i \in 1..k : ~Sets(a, i)
    /\ \A i \in 1..k : a[i] \in Modes => r.primary = CommandOf(a[i])
    /\ \A i \in 1..k : i < k /\ a[i] = "--render-popover" => r.primary = "Render" /\ r.path = a[i + 1]

LEMMA GoodGrows ==
    ASSUME NEW a, NEW k \in Nat
    PROVE  Good(a, k + 1) <=> /\ Good(a, k) /\ Ok(a, k + 1)
                              /\ \A i \in 1..k : ~Repeats(a, i, k + 1)
<1>1. \A i : i \in 1..(k + 1) <=> i \in 1..k \/ i = k + 1
  OBVIOUS
<1>2. \A i \in 1..k : i < k + 1 /\ ~(k + 1 < i)
  OBVIOUS
<1>3. ~(k + 1 < k + 1)
  OBVIOUS
<1> QED BY <1>1, <1>2, <1>3, Zenon DEF Good

LEMMA StartTells == ASSUME NEW a PROVE Good(a, 0) /\ Tells(a, 0, Start)
<1>1. 1..0 = {}
  OBVIOUS
<1>2. Good(a, 0)
  BY <1>1 DEF Good
<1>3. Tells(a, 0, Start)
  BY <1>1 DEF Tells, Start, IsReading
<1> QED BY <1>2, <1>3

\* A value is read.
LEMMA ValueTells ==
    ASSUME NEW a, NEW k \in Nat, Good(a, k), NEW r, Tells(a, k, r), k > 0, a[k] \in Options
    PROVE  IF Good(a, k + 1) THEN Tells(a, k + 1, Read(r, a[k + 1])) ELSE Read(r, a[k + 1]).failed
<1> DEFINE w == a[k + 1]
           s == Read(r, w)
           rp == "--render-popover"
<1>0. /\ IsReading(r) /\ r.failed = FALSE /\ r.awaited = a[k]
      /\ \A i : i \in 1..(k + 1) <=> i \in 1..k \/ i = k + 1
      /\ \A i \in 1..(k + 1) : i < k + 1 <=> i \in 1..k
      /\ \A i \in 1..k : i < k \/ i = k
      /\ k \in 1..k /\ k + 1 > 1 /\ (k + 1) - 1 = k /\ k + 1 > 0 /\ ~(k < k)
  BY DEF Tells
<1>a. /\ \A o : o \in DOMAIN r.given <=> o \in RenderOptions /\ \E i \in 1..k : i < k /\ a[i] = o
      /\ \A i \in 1..k : i < k /\ a[i] \in RenderOptions => r.given[a[i]] = a[i + 1]
      /\ r.primary = Unset <=> \A i \in 1..k : ~Sets(a, i)
      /\ \A i \in 1..k : a[i] \in Modes => r.primary = CommandOf(a[i])
      /\ \A i \in 1..k : i < k /\ a[i] = rp => r.primary = "Render" /\ r.path = a[i + 1]
  BY DEF Tells
<1>b. Ok(a, k + 1) <=> Fits(w, a[k])
  BY <1>0 DEF Ok, After
<1>c. Sets(a, k + 1) <=> w \in Modes \/ a[k] = rp
  BY <1>0 DEF Sets
<1>d. Good(a, k + 1) <=> Ok(a, k + 1) /\ \A i \in 1..k : ~Repeats(a, i, k + 1)
  BY GoodGrows
<1>e. Fits(w, a[k]) => w \notin Modes /\ w \notin Options /\ w \notin RenderOptions
  BY WordsAre DEF Fits
<1>f. Tells(a, k + 1, s) <=>
         /\ IsReading(s) /\ s.failed = FALSE
         /\ s.awaited = IF w \in Options THEN w ELSE Unset
         /\ \A o : o \in DOMAIN s.given <=> o \in RenderOptions /\ \E i \in 1..k : a[i] = o
         /\ \A i \in 1..k : a[i] \in RenderOptions => s.given[a[i]] = a[i + 1]
         /\ s.primary = Unset <=> \A i \in 1..(k + 1) : ~Sets(a, i)
         /\ \A i \in 1..(k + 1) : a[i] \in Modes => s.primary = CommandOf(a[i])
         /\ \A i \in 1..k : a[i] = rp => s.primary = "Render" /\ s.path = a[i + 1]
  <2> HIDE DEF s
  <2> QED BY <1>0 DEF Tells
<1>g. \A i \in 1..k : Repeats(a, i, k + 1) <=> (a[i] \in RenderOptions /\ a[i] = w) \/ (Sets(a, i) /\ Sets(a, k + 1))
  BY DEF Repeats
<1> HIDE DEF w, s
<1>1. CASE ~Fits(w, a[k])
  <2>1. s.failed
    BY <1>0, <1>1, ValueIs DEF s
  <2> QED BY <1>1, <1>b, <1>d, <2>1 DEF s, w
<1>2. CASE Fits(w, a[k]) /\ a[k] = rp /\ r.primary # Unset
  <2>1. s.failed
    BY <1>0, <1>2, ValueIs DEF s
  <2>2. PICK i \in 1..k : Sets(a, i)
    BY <1>2, <1>a
  <2>3. Repeats(a, i, k + 1)
    BY <1>2, <1>c, <1>g, <2>2
  <2> QED BY <1>d, <2>1, <2>3 DEF s, w
<1>3. CASE Fits(w, a[k]) /\ a[k] = rp /\ r.primary = Unset
  <2>1. Goes(s, "Render", w, r.given, Unset)
    BY <1>0, <1>3, ValueIs DEF s
  <2>2. IsReading(s) /\ s.failed = FALSE /\ s.awaited = Unset /\ s.given = r.given /\ s.primary = "Render" /\ s.path = w
    BY <2>1 DEF Goes, IsReading
  <2>3. a[k] \notin RenderOptions /\ "Render" # Unset
    BY <1>3, WordsAre DEF Primaries
  <2>4. \A o : o \in DOMAIN s.given <=> o \in RenderOptions /\ \E i \in 1..k : a[i] = o
    BY <1>0, <1>a, <2>2, <2>3
  <2>5. \A i \in 1..k : a[i] \in RenderOptions => s.given[a[i]] = a[i + 1]
    BY <1>0, <1>a, <2>2, <2>3
  <2>6. ~(s.primary = Unset) /\ Sets(a, k + 1) /\ k + 1 \in 1..(k + 1)
    BY <1>0, <1>3, <1>c, <2>2, <2>3
  <2>7. \A i \in 1..(k + 1) : ~(a[i] \in Modes)
    <3>1. \A i \in 1..k : ~(a[i] \in Modes)
      BY <1>3, <1>a DEF Sets
    <3>2. ~(a[k + 1] \in Modes)
      BY <1>3, <1>e DEF w
    <3> QED BY <1>0, <3>1, <3>2
  <2>8. \A i \in 1..k : a[i] = rp => s.primary = "Render" /\ s.path = a[i + 1]
    <3>1. \A i \in 1..k : i < k => a[i] # rp
      <4> SUFFICES ASSUME NEW i \in 1..k, i < k, a[i] = rp PROVE FALSE
        OBVIOUS
      <4>1. r.primary = "Render"
        BY <1>a
      <4> QED BY <1>3, <2>3, <4>1
    <3> QED BY <1>0, <2>2, <3>1 DEF w
  <2>9. Tells(a, k + 1, s)
    BY <1>3, <1>e, <1>f, <2>2, <2>4, <2>5, <2>6, <2>7, <2>8
  <2>10. Good(a, k + 1)
    <3>1. \A i \in 1..k : ~Repeats(a, i, k + 1)
      BY <1>3, <1>a, <1>e, <1>g
    <3> QED BY <1>3, <1>b, <1>d, <3>1
  <2> QED BY <2>9, <2>10 DEF s, w
<1>4. CASE Fits(w, a[k]) /\ a[k] # rp
  <2> DEFINE given == [o \in DOMAIN r.given \cup {a[k]} |-> IF o = a[k] THEN w ELSE r.given[o]]
  <2>1. Goes(s, r.primary, r.path, given, Unset)
    BY <1>0, <1>4, ValueIs DEF s
  <2>2. IsReading(s) /\ s.failed = FALSE /\ s.awaited = Unset /\ s.given = given /\ s.primary = r.primary
        /\ s.path = r.path
    <3> HIDE DEF given
    <3> QED BY <2>1 DEF Goes, IsReading
  <2>3. a[k] \in RenderOptions /\ ~Sets(a, k + 1)
    BY <1>4, <1>c, <1>e, WordsAre
  <2>4. \A o : o \in DOMAIN s.given <=> o \in RenderOptions /\ \E i \in 1..k : a[i] = o
    <3>1. \A o : o \in DOMAIN s.given <=> o \in DOMAIN r.given \/ o = a[k]
      BY <2>2
    <3> QED BY <1>0, <1>a, <2>3, <3>1
  <2>5. \A i \in 1..k : a[i] \in RenderOptions => s.given[a[i]] = a[i + 1]
    <3>1. s.given[a[k]] = w
      BY <2>2
    <3>2. ASSUME NEW i \in 1..k, i < k, a[i] \in RenderOptions PROVE s.given[a[i]] = a[i + 1]
      <4>1. ~Repeats(a, i, k)
        BY <1>0, <3>2 DEF Good
      <4>2. a[i] # a[k]
        BY <3>2, <4>1 DEF Repeats
      <4>3. a[i] \in DOMAIN r.given /\ r.given[a[i]] = a[i + 1]
        BY <1>a, <3>2
      <4> QED BY <2>2, <4>2, <4>3
    <3> QED BY <1>0, <3>1, <3>2 DEF w
  <2>6. s.primary = Unset <=> \A i \in 1..(k + 1) : ~Sets(a, i)
    BY <1>0, <1>a, <2>2, <2>3
  <2>7. \A i \in 1..(k + 1) : a[i] \in Modes => s.primary = CommandOf(a[i])
    BY <1>0, <1>4, <1>a, <1>e, <2>2 DEF w
  <2>8. \A i \in 1..k : a[i] = rp => s.primary = "Render" /\ s.path = a[i + 1]
    BY <1>0, <1>4, <1>a, <2>2
  <2>9. Tells(a, k + 1, s)
    <3> HIDE DEF given
    <3> QED BY <1>4, <1>e, <1>f, <2>2, <2>4, <2>5, <2>6, <2>7, <2>8
  <2>10. Good(a, k + 1)
    <3>1. \A i \in 1..k : ~Repeats(a, i, k + 1)
      BY <1>4, <1>e, <1>g, <2>3
    <3> QED BY <1>4, <1>b, <1>d, <3>1
  <2> QED BY <2>9, <2>10 DEF s, w
<1> QED BY <1>1, <1>2, <1>3, <1>4

\* A word that is no value is read.
LEMMA WordTells ==
    ASSUME NEW a, NEW k \in Nat, Good(a, k), NEW r, Tells(a, k, r), ~(k > 0 /\ a[k] \in Options)
    PROVE  IF Good(a, k + 1) THEN Tells(a, k + 1, Read(r, a[k + 1])) ELSE Read(r, a[k + 1]).failed
<1> DEFINE w == a[k + 1]
           s == Read(r, w)
           rp == "--render-popover"
<1>0. /\ IsReading(r) /\ r.failed = FALSE /\ r.awaited = Unset
      /\ \A i : i \in 1..(k + 1) <=> i \in 1..k \/ i = k + 1
      /\ \A i \in 1..(k + 1) : i < k + 1 <=> i \in 1..k
      /\ \A i \in 1..k : i < k \/ i = k
      /\ k + 1 \in 1..(k + 1) /\ (k + 1 > 1 <=> k > 0) /\ (k + 1) - 1 = k /\ k + 1 > 0 /\ ~(k < k)
      /\ \A i \in 1..k : a[i] \in Options => i < k
  <2>1. /\ IsReading(r) /\ r.failed = FALSE /\ r.awaited = Unset
    BY DEF Tells
  <2>2. /\ \A i : i \in 1..(k + 1) <=> i \in 1..k \/ i = k + 1
        /\ \A i \in 1..(k + 1) : i < k + 1 <=> i \in 1..k
        /\ \A i \in 1..k : i < k \/ i = k
        /\ k + 1 \in 1..(k + 1) /\ (k + 1 > 1 <=> k > 0) /\ (k + 1) - 1 = k /\ k + 1 > 0 /\ ~(k < k)
    OBVIOUS
  <2>3. \A i \in 1..k : k > 0
    OBVIOUS
  <2> QED BY <2>1, <2>2, <2>3
<1>a. /\ \A o : o \in DOMAIN r.given <=> o \in RenderOptions /\ \E i \in 1..k : i < k /\ a[i] = o
      /\ \A i \in 1..k : i < k /\ a[i] \in RenderOptions => r.given[a[i]] = a[i + 1]
      /\ r.primary = Unset <=> \A i \in 1..k : ~Sets(a, i)
      /\ \A i \in 1..k : a[i] \in Modes => r.primary = CommandOf(a[i])
      /\ \A i \in 1..k : i < k /\ a[i] = rp => r.primary = "Render" /\ r.path = a[i + 1]
  BY DEF Tells
<1>b. Ok(a, k + 1) <=> w \in Modes \cup Options
  BY <1>0 DEF Ok, After
<1>c. Sets(a, k + 1) <=> w \in Modes
  <2>1. k > 0 => a[k] # rp
    BY WordsAre
  <2> QED BY <1>0, <2>1 DEF Sets
<1>d. Good(a, k + 1) <=> Ok(a, k + 1) /\ \A i \in 1..k : ~Repeats(a, i, k + 1)
  BY GoodGrows
<1>e. \A i \in 1..k : a[i] \in RenderOptions \/ a[i] = rp => i < k
  BY <1>0, WordsAre
<1>f. Tells(a, k + 1, s) <=>
         /\ IsReading(s) /\ s.failed = FALSE
         /\ s.awaited = IF w \in Options THEN w ELSE Unset
         /\ \A o : o \in DOMAIN s.given <=> o \in RenderOptions /\ \E i \in 1..k : a[i] = o
         /\ \A i \in 1..k : a[i] \in RenderOptions => s.given[a[i]] = a[i + 1]
         /\ s.primary = Unset <=> \A i \in 1..(k + 1) : ~Sets(a, i)
         /\ \A i \in 1..(k + 1) : a[i] \in Modes => s.primary = CommandOf(a[i])
         /\ \A i \in 1..k : a[i] = rp => s.primary = "Render" /\ s.path = a[i + 1]
  <2> HIDE DEF s
  <2> QED BY <1>0 DEF Tells
<1>g. \A i \in 1..k : Repeats(a, i, k + 1) <=> (a[i] \in RenderOptions /\ a[i] = w) \/ (Sets(a, i) /\ Sets(a, k + 1))
  BY DEF Repeats
<1> HIDE DEF w, s
<1>1. CASE w \notin Modes \cup Options
  <2>1. s.failed
    BY <1>0, <1>1, WordIs DEF s
  <2> QED BY <1>1, <1>b, <1>d, <2>1 DEF s, w
<1>2. CASE w \in Modes /\ r.primary # Unset
  <2>1. s.failed
    BY <1>0, <1>2, WordIs DEF s
  <2>2. PICK i \in 1..k : Sets(a, i)
    BY <1>2, <1>a
  <2>3. Repeats(a, i, k + 1)
    BY <1>2, <1>c, <1>g, <2>2
  <2> QED BY <1>d, <2>1, <2>3 DEF s, w
<1>3. CASE w \in Modes /\ r.primary = Unset
  <2>1. Goes(s, CommandOf(w), r.path, r.given, Unset)
    BY <1>0, <1>3, WordIs DEF s
  <2>2. IsReading(s) /\ s.failed = FALSE /\ s.awaited = Unset /\ s.given = r.given
        /\ s.primary = CommandOf(w) /\ s.path = r.path
    BY <2>1 DEF Goes, IsReading
  <2>3. CommandOf(w) # Unset /\ "Render" # Unset /\ w \notin Options /\ w \notin RenderOptions
    BY <1>3, WordsAre DEF Primaries
  <2>4. \A o : o \in DOMAIN s.given <=> o \in RenderOptions /\ \E i \in 1..k : a[i] = o
    BY <1>a, <1>e, <2>2
  <2>5. \A i \in 1..k : a[i] \in RenderOptions => s.given[a[i]] = a[i + 1]
    BY <1>a, <1>e, <2>2
  <2>6. ~(s.primary = Unset) /\ Sets(a, k + 1)
    BY <1>3, <1>c, <2>2, <2>3
  <2>7. \A i \in 1..(k + 1) : a[i] \in Modes => s.primary = CommandOf(a[i])
    <3>1. \A i \in 1..k : ~(a[i] \in Modes)
      BY <1>3, <1>a DEF Sets
    <3> QED BY <1>0, <2>2, <3>1 DEF w
  <2>8. \A i \in 1..k : a[i] # rp
    <3> SUFFICES ASSUME NEW i \in 1..k, a[i] = rp PROVE FALSE
      OBVIOUS
    <3>1. r.primary = "Render"
      BY <1>a, <1>e
    <3> QED BY <1>3, <2>3, <3>1
  <2>9. Tells(a, k + 1, s)
    BY <1>0, <1>f, <2>2, <2>3, <2>4, <2>5, <2>6, <2>7, <2>8
  <2>10. Good(a, k + 1)
    <3>1. \A i \in 1..k : ~Repeats(a, i, k + 1)
      BY <1>3, <1>a, <1>g, <2>3
    <3> QED BY <1>3, <1>b, <1>d, <3>1
  <2> QED BY <2>9, <2>10 DEF s, w
<1>4. CASE w \in Options /\ w \in DOMAIN r.given
  <2>1. s.failed
    BY <1>0, <1>4, WordIs DEF s
  <2>2. PICK i \in 1..k : a[i] = w /\ w \in RenderOptions
    BY <1>4, <1>a
  <2>3. Repeats(a, i, k + 1)
    BY <1>g, <2>2
  <2> QED BY <1>d, <2>1, <2>3 DEF s, w
<1>5. CASE w \in Options /\ w \notin DOMAIN r.given
  <2>1. Goes(s, r.primary, r.path, r.given, w)
    BY <1>0, <1>5, WordIs DEF s
  <2>2. IsReading(s) /\ s.failed = FALSE /\ s.awaited = w /\ s.given = r.given /\ s.primary = r.primary
        /\ s.path = r.path
    BY <2>1 DEF Goes, IsReading
  <2>3. w \notin Modes /\ ~Sets(a, k + 1)
    BY <1>5, <1>c, WordsAre
  <2>4. \A o : o \in DOMAIN s.given <=> o \in RenderOptions /\ \E i \in 1..k : a[i] = o
    BY <1>a, <1>e, <2>2
  <2>5. \A i \in 1..k : a[i] \in RenderOptions => s.given[a[i]] = a[i + 1]
    BY <1>a, <1>e, <2>2
  <2>6. s.primary = Unset <=> \A i \in 1..(k + 1) : ~Sets(a, i)
    BY <1>0, <1>a, <2>2, <2>3
  <2>7. \A i \in 1..(k + 1) : a[i] \in Modes => s.primary = CommandOf(a[i])
    BY <1>0, <1>a, <2>2, <2>3 DEF w
  <2>8. \A i \in 1..k : a[i] = rp => s.primary = "Render" /\ s.path = a[i + 1]
    BY <1>a, <1>e, <2>2
  <2>9. Tells(a, k + 1, s)
    BY <1>5, <1>f, <2>2, <2>4, <2>5, <2>6, <2>7, <2>8
  <2>10. Good(a, k + 1)
    <3>1. \A i \in 1..k : ~Repeats(a, i, k + 1)
      <4> SUFFICES ASSUME NEW i \in 1..k, a[i] \in RenderOptions, a[i] = w PROVE FALSE
        BY <1>g, <2>3
      <4>1. w \in DOMAIN r.given
        BY <1>a, <1>e
      <4> QED BY <1>5, <4>1
    <3> QED BY <1>5, <1>b, <1>d, <3>1
  <2> QED BY <2>9, <2>10 DEF s, w
<1> QED BY <1>1, <1>2, <1>3, <1>4, <1>5

-----------------------------------------------------------------------------
(* The parser: the recursion. *)

ReadStep(read, a, n) == IF n = 0 THEN Start ELSE Read(read[n - 1], a[n])
IsRead(read, a) == read = [n \in 0..Len(a) |-> ReadStep(read, a, n)]

LEMMA NumberInduction ==
    ASSUME NEW P, 0 \in P, \A n \in Nat : n \in P => n + 1 \in P
    PROVE  Nat \subseteq P
<1> DEFINE T == Nat \ P
<1> SUFFICES ASSUME T # {} PROVE FALSE
  OBVIOUS
<1>1. IsWellFoundedOn(OpToRel(<, Nat), Nat)
  BY NatLessThanWellFounded, Zenon
<1>2. PICK m \in T : \A k \in T : <<k, m>> \notin OpToRel(<, Nat)
  BY <1>1, WFMin, Zenon
<1>3. \A k \in T : ~(k < m)
  BY <1>2 DEF OpToRel
<1>4. m \in Nat /\ m # 0
  OBVIOUS
<1>5. m - 1 \in Nat /\ m - 1 \notin T
  BY <1>3, <1>4
<1>6. m - 1 + 1 \in P
  BY <1>5
<1> QED BY <1>4, <1>6

LEMMA ReadExists ==
    ASSUME NEW S, NEW a \in Seq(S)
    PROVE  \E read : IsRead(read, a)
<1> DEFINE Part(f, n) == DOMAIN f = 0..n /\ \A i \in 0..n : f[i] = ReadStep(f, a, i)
           P == {n \in Nat : \E f : Part(f, n)}
<1>1. 0 \in P
  <2> DEFINE f == [i \in 0..0 |-> Start]
  <2>1. DOMAIN f = 0..0 /\ \A i \in 0..0 : f[i] = Start /\ i = 0
    OBVIOUS
  <2> HIDE DEF f
  <2>2. Part(f, 0)
    BY <2>1 DEF ReadStep
  <2> QED BY <2>2
<1>2. ASSUME NEW n \in Nat, n \in P PROVE n + 1 \in P
  <2>1. PICK f : Part(f, n)
    BY <1>2
  <2> DEFINE g == [i \in 0..(n + 1) |-> IF i \in 0..n THEN f[i] ELSE Read(f[n], a[n + 1])]
  <2>2. DOMAIN g = 0..(n + 1) /\ (\A i \in 0..n : g[i] = f[i]) /\ g[n + 1] = Read(f[n], a[n + 1])
    OBVIOUS
  <2> HIDE DEF g
  <2>3. ASSUME NEW i \in 0..(n + 1) PROVE g[i] = ReadStep(g, a, i)
    <3>1. CASE i = n + 1
      <4>1. g[n] = f[n] /\ (n + 1) - 1 = n /\ n + 1 # 0
        BY <2>2
      <4>2. g[i] = Read(g[i - 1], a[i]) /\ i # 0
        BY <2>2, <3>1, <4>1
      <4> QED BY <4>2 DEF ReadStep
    <3>2. CASE i # n + 1
      <4>1. i \in 0..n /\ (i # 0 => i - 1 \in 0..n)
        BY <3>2
      <4>2. g[i] = f[i] /\ (i # 0 => g[i - 1] = f[i - 1]) /\ f[i] = ReadStep(f, a, i)
        BY <2>1, <2>2, <4>1
      <4> QED BY <4>2 DEF ReadStep
    <3> QED BY <3>1, <3>2
  <2>4. Part(g, n + 1)
    BY <2>2, <2>3
  <2> QED BY <2>4
<1>3. Nat \subseteq P
  <2> HIDE DEF P
  <2> QED BY <1>1, <1>2, NumberInduction
<1>4. PICK f : Part(f, Len(a))
  BY <1>3
<1> DEFINE w == [n \in 0..Len(a) |-> f[n]]
<1>5. ASSUME NEW n \in 0..Len(a) PROVE w[n] = ReadStep(w, a, n)
  <2>1. f[n] = ReadStep(f, a, n)
    BY <1>4
  <2>2. w[n] = f[n] /\ (n # 0 => w[n - 1] = f[n - 1])
    OBVIOUS
  <2> HIDE DEF w
  <2> QED BY <2>1, <2>2 DEF ReadStep
<1>6. w = [n \in 0..Len(a) |-> w[n]]
  OBVIOUS
<1> HIDE DEF w
<1>7. IsRead(w, a)
  BY <1>5, <1>6 DEF IsRead
<1> QED BY <1>7

\* What is left of a line once it has been read.
LEMMA ReadingIs ==
    ASSUME NEW S, NEW a \in Seq(S)
    PROVE  IF Good(a, Len(a)) THEN Tells(a, Len(a), Reading(a)) ELSE Reading(a).failed
<1> DEFINE read == CHOOSE f : IsRead(f, a)
           Right(n) == IF Good(a, n) THEN Tells(a, n, read[n]) ELSE read[n].failed
           P == {n \in Nat : n \in 0..Len(a) => Right(n)}
<1>1. IsRead(read, a)
  BY ReadExists, Zenon
<1>2. Reading(a) = read[Len(a)]
  BY Zenon DEF Reading, IsRead, ReadStep
<1> HIDE DEF read
<1>3. Len(a) \in Nat
  OBVIOUS
<1>4. \A n \in 0..Len(a) : read[n] = ReadStep(read, a, n)
  BY <1>1 DEF IsRead
<1>5. 0 \in P
  <2>1. read[0] = Start
    BY <1>3, <1>4 DEF ReadStep
  <2> QED BY <2>1, StartTells
<1>6. ASSUME NEW n \in Nat, n \in P PROVE n + 1 \in P
  <2> SUFFICES ASSUME n + 1 \in 0..Len(a) PROVE Right(n + 1)
    OBVIOUS
  <2>1. n \in 0..Len(a) /\ n + 1 # 0 /\ (n + 1) - 1 = n
    BY <1>3
  <2>2. read[n + 1] = Read(read[n], a[n + 1])
    BY <1>4, <2>1 DEF ReadStep
  <2>3. Right(n)
    BY <1>6, <2>1
  <2>4. CASE Good(a, n)
    <3>1. IF Good(a, n + 1) THEN Tells(a, n + 1, Read(read[n], a[n + 1])) ELSE Read(read[n], a[n + 1]).failed
      BY <2>3, <2>4, ValueTells, WordTells
    <3> QED BY <2>2, <3>1
  <2>5. CASE ~Good(a, n)
    <3>1. ~Good(a, n + 1)
      BY <2>5, GoodGrows
    <3>2. read[n].failed
      BY <2>3, <2>5
    <3>3. read[n + 1] = read[n]
      BY <2>2, <3>2, FailedStays
    <3> QED BY <3>1, <3>2, <3>3
  <2> QED BY <2>4, <2>5
<1>7. Nat \subseteq P
  <2> HIDE DEF P
  <2> QED BY <1>5, <1>6, NumberInduction
<1>8. Right(Len(a))
  <2>1. Len(a) \in P /\ Len(a) \in 0..Len(a)
    BY <1>3, <1>7
  <2> QED BY <2>1
<1> QED BY <1>2, <1>8

-----------------------------------------------------------------------------
(* The parser: the grammar. *)

Named(a, words) == {i \in DOMAIN a : a[i] \in words}

Accepted(a) ==
    /\ \A i \in DOMAIN a :
          IF i > 1 /\ a[i - 1] \in Options
          THEN /\ a[i] \in ValuesOf(a[i - 1]) \ StartsWithDash
               /\ a[i] \in NotText => a[i - 1] = "--render-popover"
          ELSE a[i] \in Modes \cup Options
    /\ \A option \in Options : Cardinality(Named(a, {option})) <= 1
    /\ Cardinality(Named(a, Modes \cup {"--render-popover"})) <= 1
    /\ Len(a) > 0 => a[Len(a)] \notin Options
    /\ Named(a, RenderOptions) # {} => Named(a, {"--render-popover"}) # {}

Value(a, option) == a[(CHOOSE i \in Named(a, {option}) : TRUE) + 1]

LEMMA MeaningIs ==
    ASSUME NEW a
    PROVE  Meaning(a) =
              IF ~Accepted(a) THEN Error
              ELSE IF Named(a, {"--render-popover"}) # {}
              THEN [command |-> "Render", path |-> Value(a, "--render-popover"),
                    options |-> [o \in RenderOptions |-> IF Named(a, {o}) # {} THEN Value(a, o) ELSE Default(o)]]
              ELSE Command(IF DOMAIN a = {} THEN "Background" ELSE CommandOf(a[1]))
BY Zenon DEF Meaning, Accepted, Named, Value

LEMMA AtMostOne ==
    ASSUME NEW S, IsFiniteSet(S)
    PROVE  Cardinality(S) <= 1 <=> \A x, y \in S : x = y
<1>1. CASE S = {}
  <2>1. Cardinality(S) = 0
    BY <1>1, FS_EmptySet
  <2> QED BY <1>1, <2>1
<1>2. CASE S # {}
  <2>1. PICK x \in S : TRUE
    BY <1>2
  <2>2. /\ IsFiniteSet(S \ {x}) /\ Cardinality(S \ {x}) = Cardinality(S) - 1
        /\ Cardinality(S) \in Nat /\ Cardinality(S \ {x}) \in Nat
    BY <2>1, FS_RemoveElement, FS_CardinalityType
  <2>3. S \ {x} = {} <=> Cardinality(S \ {x}) = 0
    BY <2>2, FS_EmptySet
  <2>4. (\A y, z \in S : y = z) <=> S \ {x} = {}
    BY <2>1
  <2> QED BY <2>2, <2>3, <2>4
<1> QED BY <1>1, <1>2

\* A line is accepted when its words can begin a line and it is complete.
LEMMA AcceptedIs ==
    ASSUME NEW S, NEW a \in Seq(S)
    PROVE  Accepted(a) <=> /\ Good(a, Len(a)) /\ (Len(a) > 0 => a[Len(a)] \notin Options)
                           /\ Named(a, RenderOptions) # {} => Named(a, {"--render-popover"}) # {}
<1> DEFINE n == Len(a)
           rp == "--render-popover"
           complete == Len(a) > 0 => a[Len(a)] \notin Options
           words == \A i \in 1..n : Ok(a, i)
<1>1. n \in Nat /\ DOMAIN a = 1..n
  OBVIOUS
<1>2. (\A i \in DOMAIN a :
          IF i > 1 /\ a[i - 1] \in Options
          THEN /\ a[i] \in ValuesOf(a[i - 1]) \ StartsWithDash
               /\ a[i] \in NotText => a[i - 1] = rp
          ELSE a[i] \in Modes \cup Options) <=> words
  BY <1>1, Zenon DEF Ok, After, Fits
<1>3. (Len(a) > 0 => a[Len(a)] \notin Options) <=> complete
  OBVIOUS
<1>4. ASSUME NEW set
      PROVE  Cardinality(Named(a, set)) <= 1 <=> \A i, j \in 1..n : a[i] \in set /\ a[j] \in set => i = j
  <2>1. IsFiniteSet(1..n)
    BY <1>1, FS_Interval
  <2>2. Named(a, set) \subseteq 1..n
    BY <1>1 DEF Named
  <2>3. IsFiniteSet(Named(a, set))
    BY <2>1, <2>2, FS_Subset
  <2>4. Cardinality(Named(a, set)) <= 1 <=> \A i, j \in Named(a, set) : i = j
    BY <2>3, AtMostOne
  <2> QED BY <1>1, <2>4 DEF Named
<1> DEFINE once == /\ \A option \in Options : \A i, j \in 1..n : a[i] = option /\ a[j] = option => i = j
                   /\ \A i, j \in 1..n : a[i] \in Modes \cup {rp} /\ a[j] \in Modes \cup {rp} => i = j
           apart == \A i, j \in 1..n : i < j => ~Repeats(a, i, j)
<1>5. Accepted(a) <=> /\ words /\ once /\ complete
                      /\ Named(a, RenderOptions) # {} => Named(a, {rp}) # {}
  <2>1. (\A option \in Options : Cardinality(Named(a, {option})) <= 1)
        <=> \A option \in Options : \A i, j \in 1..n : a[i] = option /\ a[j] = option => i = j
    BY <1>4
  <2>2. Cardinality(Named(a, Modes \cup {rp})) <= 1
        <=> \A i, j \in 1..n : a[i] \in Modes \cup {rp} /\ a[j] \in Modes \cup {rp} => i = j
    BY <1>4
  <2> QED BY <1>2, <1>3, <2>1, <2>2, Zenon DEF Accepted
<1>6. Good(a, n) <=> words /\ apart
  BY Zenon DEF Good
<1> SUFFICES ASSUME words, complete PROVE once <=> apart
  BY <1>5, <1>6, Zenon
<1>7. \A i \in 1..n : a[i] \in Modes \cup Options => ~After(a, i)
  BY WordsAre DEF Ok, Fits
<1>8. \A i \in 1..n : a[i] = rp => i + 1 \in 1..n
  <2> SUFFICES ASSUME NEW i \in 1..n, a[i] = rp PROVE i + 1 \in 1..n
    OBVIOUS
  <2>1. i # n
    <3>1. rp \in Options /\ n > 0
      BY <1>1, WordsAre
    <3>2. a[n] # rp
      BY <3>1
    <3> QED BY <3>2
  <2> HIDE DEF n
  <2> QED BY <1>1, <2>1
<1>9. ASSUME NEW i \in 1..n, Sets(a, i)
      PROVE  \/ a[i] \in Modes
             \/ i - 1 \in 1..n /\ a[i - 1] = rp /\ a[i] \notin Modes
  <2>1. CASE i > 1 /\ a[i - 1] = rp
    <3>1. After(a, i)
      BY <2>1, WordsAre DEF After
    <3>2. a[i] \notin Modes
      BY <1>7, <3>1
    <3> QED BY <1>1, <2>1, <3>2
  <2> QED BY <1>9, <2>1 DEF Sets
<1>10. \A i \in 1..n : (a[i] \in Modes => Sets(a, i)) /\ (a[i] = rp => Sets(a, i + 1))
  <2>1. \A i \in 1..n : i + 1 > 1 /\ (i + 1) - 1 = i
    BY <1>1
  <2> QED BY <2>1 DEF Sets
<1>11. ASSUME once PROVE apart
  <2> SUFFICES ASSUME NEW i \in 1..n, NEW j \in 1..n, i < j, Repeats(a, i, j) PROVE FALSE
    OBVIOUS
  <2>1. i # j /\ i \in Int /\ j \in Int
    BY <1>1
  <2>2. CASE a[i] \in RenderOptions /\ a[i] = a[j]
    BY <1>11, <2>1, <2>2, WordsAre
  <2>3. CASE Sets(a, i) /\ Sets(a, j)
    <3>1. CASE a[i] \in Modes /\ a[j] \in Modes
      BY <1>11, <2>1, <3>1
    <3>2. CASE a[i] \in Modes /\ j - 1 \in 1..n /\ a[j - 1] = rp
      <4>1. i = j - 1
        BY <1>11, <3>2
      <4> QED BY <3>2, <4>1, WordsAre
    <3>3. CASE i - 1 \in 1..n /\ a[i - 1] = rp /\ a[j] \in Modes
      <4>1. j = i - 1
        BY <1>11, <3>3
      <4> QED BY <3>3, <4>1, WordsAre
    <3>4. CASE i - 1 \in 1..n /\ a[i - 1] = rp /\ j - 1 \in 1..n /\ a[j - 1] = rp
      <4>1. i - 1 = j - 1
        BY <1>11, <3>4
      <4> QED BY <2>1, <4>1
    <3> QED BY <1>9, <2>3, <3>1, <3>2, <3>3, <3>4
  <2> QED BY <2>2, <2>3 DEF Repeats
<1>12. ASSUME apart PROVE once
  <2>1. ASSUME NEW i \in 1..n, NEW j \in 1..n, a[i] = a[j], a[i] \in RenderOptions PROVE i = j
    <3>1. ~(i < j) /\ ~(j < i)
      BY <1>12, <2>1 DEF Repeats
    <3> QED BY <1>1, <3>1
  <2>2. ASSUME NEW i \in 1..n, NEW j \in 1..n, Sets(a, i), Sets(a, j) PROVE i = j
    <3>1. ~(i < j) /\ ~(j < i)
      BY <1>12, <2>2 DEF Repeats
    <3> QED BY <1>1, <3>1
  <2>3. ASSUME NEW i \in 1..n, NEW j \in 1..n, a[i] \in Modes \cup {rp}, a[j] \in Modes \cup {rp} PROVE i = j
    <3>1. CASE a[i] \in Modes /\ a[j] \in Modes
      BY <1>10, <2>2, <3>1
    <3>2. CASE a[i] = rp /\ a[j] = rp
      <4>1. i + 1 \in 1..n /\ j + 1 \in 1..n /\ Sets(a, i + 1) /\ Sets(a, j + 1)
        BY <1>8, <1>10, <3>2
      <4>2. i + 1 = j + 1
        BY <2>2, <4>1
      <4> QED BY <1>1, <4>2
    <3>3. ASSUME NEW k \in 1..n, NEW l \in 1..n, a[k] \in Modes, a[l] = rp PROVE FALSE
      <4>1. l + 1 \in 1..n /\ Sets(a, l + 1) /\ Sets(a, k)
        BY <1>8, <1>10, <3>3
      <4>2. k = l + 1
        BY <2>2, <4>1
      <4>3. After(a, k)
        <5>1. k > 1 /\ k - 1 = l
          BY <1>1, <4>2
        <5> QED BY <3>3, <5>1, WordsAre DEF After
      <4> QED BY <1>7, <3>3, <4>3
    <3> QED BY <2>3, <3>1, <3>2, <3>3
  <2>4. \A i, j \in 1..n : a[i] = rp /\ a[j] = rp => i = j
    BY <2>3
  <2> QED BY <2>1, <2>3, <2>4, WordsAre
<1> QED BY <1>11, <1>12

\* The parser does what the grammar says.
LEMMA ParseIsMeaning ==
    ASSUME NEW S, NEW a \in Seq(S)
    PROVE  ParseCli(a) = Meaning(a)
<1> DEFINE n == Len(a)
           rp == "--render-popover"
           r == Reading(a)
           complete == n > 0 => a[n] \notin Options
           rendered(f) == [command |-> "Render", path |-> f[rp],
                           options |-> [o \in RenderOptions |-> f[o]]]
<1>0. n \in Nat /\ DOMAIN a = 1..n /\ (n > 0 => n \in 1..n) /\ (n > 0 => 1 \in 1..n) /\ (\A i \in 1..n : n > 0)
      /\ (\A i \in 1..n : i < n \/ i = n) /\ (1..n = {} <=> n = 0)
  OBVIOUS
<1>1. ParseCli(a) = IF r.failed \/ r.awaited # Unset THEN Error
                    ELSE IF r.primary = "Render"
                    THEN [command |-> "Render", path |-> r.path,
                          options |-> [o \in RenderOptions |-> IF o \in DOMAIN r.given THEN r.given[o] ELSE Default(o)]]
                    ELSE IF DOMAIN r.given # {} THEN Error
                    ELSE Command(IF r.primary = Unset THEN "Background" ELSE r.primary)
  BY Zenon DEF ParseCli
<1>2. Accepted(a) <=> /\ Good(a, n) /\ complete
                      /\ Named(a, RenderOptions) # {} => Named(a, {rp}) # {}
  BY AcceptedIs
<1>3. IF Good(a, n) THEN Tells(a, n, r) ELSE r.failed
  BY ReadingIs
<1>4. Meaning(a) = IF ~Accepted(a) THEN Error
                   ELSE IF Named(a, {rp}) # {}
                   THEN [command |-> "Render", path |-> Value(a, rp),
                         options |-> [o \in RenderOptions |-> IF Named(a, {o}) # {} THEN Value(a, o) ELSE Default(o)]]
                   ELSE Command(IF DOMAIN a = {} THEN "Background" ELSE CommandOf(a[1]))
  BY MeaningIs
<1> HIDE DEF n, r
<1>5. CASE ~Good(a, n)
  BY <1>1, <1>2, <1>3, <1>4, <1>5
<1>6. CASE Good(a, n) /\ ~complete
  <2>1. r.awaited = a[n] /\ a[n] \in Options
    BY <1>3, <1>6 DEF Tells
  <2>2. r.awaited # Unset
    BY <2>1, WordsAre
  <2> QED BY <1>1, <1>2, <1>4, <1>6, <2>2
<1>7. CASE Good(a, n) /\ complete
  <2>1. r.failed = FALSE /\ r.awaited = Unset
    BY <1>3, <1>7 DEF Tells
  <2>2. \A i \in 1..n : a[i] \in Options => i < n
    BY <1>0, <1>7
  <2>3. \A i \in 1..n : a[i] \in RenderOptions \/ a[i] = rp => i < n
    BY <2>2, WordsAre
  <2>4. /\ \A o : o \in DOMAIN r.given <=> o \in RenderOptions /\ \E i \in 1..n : a[i] = o
        /\ \A i \in 1..n : a[i] \in RenderOptions => r.given[a[i]] = a[i + 1]
        /\ r.primary = Unset <=> \A i \in 1..n : ~Sets(a, i)
        /\ \A i \in 1..n : a[i] \in Modes => r.primary = CommandOf(a[i])
        /\ \A i \in 1..n : a[i] = rp => r.primary = "Render" /\ r.path = a[i + 1]
    BY <1>3, <1>7, <2>3 DEF Tells
  <2>5. ASSUME NEW set PROVE Named(a, set) # {} <=> \E i \in 1..n : a[i] \in set
    BY <1>0 DEF Named
  <2>6. ASSUME NEW o, Named(a, {o}) # {} PROVE \E i \in 1..n : a[i] = o /\ Value(a, o) = a[i + 1]
    <3> DEFINE i == CHOOSE j \in Named(a, {o}) : TRUE
    <3>1. i \in Named(a, {o})
      BY <2>6, Zenon
    <3>2. Value(a, o) = a[i + 1]
      BY Zenon DEF Value
    <3> HIDE DEF i
    <3>3. i \in 1..n /\ a[i] = o
      BY <1>0, <3>1 DEF Named
    <3> QED BY <3>2, <3>3
  <2>7. r.primary = "Render" <=> Named(a, {rp}) # {}
    <3>1. ASSUME r.primary = "Render", Named(a, {rp}) = {} PROVE FALSE
      <4>1. "Render" # Unset
        BY WordsAre DEF Primaries
      <4>2. PICK i \in 1..n : Sets(a, i)
        BY <2>4, <3>1, <4>1
      <4>3. \A j \in 1..n : a[j] # rp
        BY <2>5, <3>1
      <4>4. i > 1 => i - 1 \in 1..n
        BY <1>0
      <4>5. a[i] \in Modes
        BY <4>2, <4>3, <4>4 DEF Sets
      <4>6. r.primary = CommandOf(a[i])
        BY <2>4, <4>5
      <4> QED BY <3>1, <4>5, <4>6, WordsAre
    <3>2. ASSUME Named(a, {rp}) # {} PROVE r.primary = "Render"
      BY <2>4, <2>5, <3>2
    <3> QED BY <3>1, <3>2
  <2>8. \A o \in RenderOptions : o \in DOMAIN r.given <=> Named(a, {o}) # {}
    BY <2>4, <2>5
  <2>9. CASE Named(a, {rp}) # {}
    <3>1. Accepted(a)
      BY <1>2, <1>7, <2>9
    <3>2. r.path = Value(a, rp)
      BY <2>4, <2>6, <2>9
    <3>3. ASSUME NEW o \in RenderOptions
          PROVE  (IF o \in DOMAIN r.given THEN r.given[o] ELSE Default(o))
                 = IF Named(a, {o}) # {} THEN Value(a, o) ELSE Default(o)
      <4>1. CASE Named(a, {o}) # {}
        <5>1. PICK i \in 1..n : a[i] = o /\ Value(a, o) = a[i + 1]
          BY <2>6, <4>1
        <5>2. r.given[o] = a[i + 1]
          BY <2>4, <5>1
        <5> QED BY <2>8, <4>1, <5>1, <5>2
      <4>2. CASE Named(a, {o}) = {}
        BY <2>8, <4>2
      <4> QED BY <4>1, <4>2
    <3>4. [o \in RenderOptions |-> IF o \in DOMAIN r.given THEN r.given[o] ELSE Default(o)]
          = [o \in RenderOptions |-> IF Named(a, {o}) # {} THEN Value(a, o) ELSE Default(o)]
      BY <3>3
    <3> QED BY <1>1, <1>4, <2>1, <2>7, <2>9, <3>1, <3>2, <3>4
  <2>10. CASE Named(a, {rp}) = {} /\ Named(a, RenderOptions) # {}
    <3>1. DOMAIN r.given # {}
      BY <2>4, <2>5, <2>10
    <3> QED BY <1>1, <1>2, <1>4, <2>1, <2>7, <2>10, <3>1
  <2>11. CASE Named(a, {rp}) = {} /\ Named(a, RenderOptions) = {}
    <3>1. Accepted(a) /\ DOMAIN r.given = {}
      <4>1. Accepted(a)
        BY <1>2, <1>7, <2>11
      <4>2. \A i \in 1..n : a[i] \notin RenderOptions
        BY <2>5, <2>11
      <4>3. \A o : o \notin DOMAIN r.given
        BY <2>4, <4>2
      <4> QED BY <4>1, <4>3
    <3>2. (IF r.primary = Unset THEN "Background" ELSE r.primary)
          = IF DOMAIN a = {} THEN "Background" ELSE CommandOf(a[1])
      <4>1. CASE n = 0
        <5>1. r.primary = Unset
          BY <1>0, <2>4, <4>1
        <5> QED BY <1>0, <4>1, <5>1
      <4>2. CASE n # 0
        <5>1. 1 \in 1..n /\ ~(1 > 1)
          BY <1>0, <4>2
        <5>2. a[1] \in Modes \cup Options
          BY <1>7, <5>1 DEF Good, Ok, After
        <5>3. a[1] \notin Options
          BY <2>5, <2>11, <5>1, WordsAre
        <5>4. a[1] \in Modes /\ r.primary = CommandOf(a[1])
          BY <2>4, <5>1, <5>2, <5>3
        <5>5. CommandOf(a[1]) # Unset
          BY <5>4, WordsAre
        <5> QED BY <1>0, <4>2, <5>4, <5>5
      <4> QED BY <4>1, <4>2
    <3> QED BY <1>1, <1>4, <2>1, <2>7, <2>11, <3>1, <3>2
  <2> QED BY <2>9, <2>10, <2>11
<1> QED BY <1>5, <1>6, <1>7

-----------------------------------------------------------------------------
(* The launches. *)

\* The application without a tray has none, the other one wants one.
TrayFits(id, instance) ==
    instance # Unset => (instance.tray = "none" <=> id = "CodexUsageBar.Popover")

LaunchInv ==
    /\ line \in Seq(Words) /\ instances \in [ApplicationIds -> Instances \cup {Unset}]
    /\ \A id \in ApplicationIds : TrayFits(id, instances[id])

\* An application after a launch has reached it.
LEMMA HandledIs ==
    ASSUME NEW id \in ApplicationIds, NEW instance \in Instances \cup {Unset}, TrayFits(id, instance),
           NEW mode \in Launches, id = ApplicationIdFor(mode), NEW started \in BOOLEAN
    PROVE  LET handled == Handled(instance, mode, started)
           IN  /\ handled \in Instances /\ handled # Unset /\ TrayFits(id, handled)
               /\ mode # "NoTray" <=> handled.tray # "none"
               /\ handled.shown = (mode # "Background" \/ (instance # Unset /\ instance.shown))
<1> DEFINE built == IF instance # Unset THEN instance
                    ELSE [tray |-> IF HasTray(mode) THEN IF started THEN "on" ELSE "failed" ELSE "none",
                          shown |-> FALSE]
           handled == IF ShouldPresent(mode) THEN [built EXCEPT !.shown = TRUE] ELSE built
<1>1. Handled(instance, mode, started) = handled
  BY Zenon DEF Handled
<1>2. Unset \notin Instances
  BY CommandLineAssumption
<1>3. built \in Instances /\ (built.tray = "none" <=> id = "CodexUsageBar.Popover")
      /\ built.shown = (instance # Unset /\ instance.shown)
  <2>1. CASE instance # Unset
    BY <2>1 DEF TrayFits, Instances
  <2>2. CASE instance = Unset
    BY <2>2 DEF Instances, HasTray, Launches, ApplicationIdFor
  <2> QED BY <2>1, <2>2
<1>4. id = "CodexUsageBar.Popover" <=> mode = "NoTray"
  BY DEF ApplicationIdFor
<1>5. ShouldPresent(mode) <=> mode # "Background"
  BY DEF ShouldPresent, Launches
<1> HIDE DEF built
<1>6. handled \in Instances /\ handled.tray = built.tray
      /\ handled.shown = (mode # "Background" \/ (instance # Unset /\ instance.shown))
  <2>1. CASE ShouldPresent(mode)
    BY <1>3, <1>5, <2>1 DEF Instances
  <2>2. CASE ~ShouldPresent(mode)
    BY <1>3, <1>5, <2>2
  <2> QED BY <2>1, <2>2
<1> HIDE DEF handled
<1> QED BY <1>1, <1>2, <1>3, <1>4, <1>6 DEF TrayFits

\* What a step of the application with an id leaves.
LEMMA InstanceStep ==
    ASSUME LaunchInv, line' \in Seq(Words), NEW id \in ApplicationIds,
           NEW next \in Instances \cup {Unset}, TrayFits(id, next),
           instances' = [instances EXCEPT ![id] = next]
    PROVE  LaunchInv'
<1>1. instances' \in [ApplicationIds -> Instances \cup {Unset}]
  BY DEF LaunchInv
<1>2. \A other \in ApplicationIds : TrayFits(other, instances'[other])
  BY DEF LaunchInv
<1> QED BY <1>1, <1>2 DEF LaunchInv, TrayFits

LEMMA RunIs ==
    ASSUME LaunchInv, Run
    PROVE  LET mode == ParseCli(line).command
           IN  /\ line' = <<>>
               /\ mode \notin Launches => instances' = instances /\ reply' = IF mode = "Error" THEN 64 ELSE mode
               /\ mode \in Launches =>
                     \E next \in Instances :
                        /\ next # Unset /\ TrayFits(ApplicationIdFor(mode), next)
                        /\ mode # "NoTray" <=> next.tray # "none"
                        /\ next.shown = (\/ mode # "Background"
                                         \/ /\ instances[ApplicationIdFor(mode)] # Unset
                                            /\ instances[ApplicationIdFor(mode)].shown)
                        /\ instances' = [instances EXCEPT ![ApplicationIdFor(mode)] = next]
<1> DEFINE mode == ParseCli(line).command
           id == ApplicationIdFor(mode)
<1>1. line' = <<>> /\ (mode \notin Launches => instances' = instances
                                               /\ reply' = IF mode = "Error" THEN 64 ELSE mode)
  BY Zenon DEF Run
<1>2. ASSUME mode \in Launches
      PROVE  \E next \in Instances :
                /\ next # Unset /\ TrayFits(id, next)
                /\ mode # "NoTray" <=> next.tray # "none"
                /\ next.shown = (mode # "Background" \/ (instances[id] # Unset /\ instances[id].shown))
                /\ instances' = [instances EXCEPT ![id] = next]
  <2>1. PICK started \in BOOLEAN : instances' = [instances EXCEPT ![id] = Handled(@, mode, started)]
    BY <1>2, Zenon DEF Run
  <2>2. id \in ApplicationIds
    BY DEF ApplicationIdFor, ApplicationIds
  <2>3. instances[id] \in Instances \cup {Unset} /\ TrayFits(id, instances[id])
    BY <2>2 DEF LaunchInv
  <2> DEFINE next == Handled(instances[id], mode, started)
  <2>4. instances' = [instances EXCEPT ![id] = next]
    BY <2>1
  <2> HIDE DEF mode
  <2>5. /\ next \in Instances /\ next # Unset /\ TrayFits(id, next)
        /\ mode # "NoTray" <=> next.tray # "none"
        /\ next.shown = (mode # "Background" \/ (instances[id] # Unset /\ instances[id].shown))
    BY <1>2, <2>2, <2>3, HandledIs
  <2> HIDE DEF next, id
  <2> QED BY <2>4, <2>5
<1> QED BY <1>1, <1>2, Zenon

LEMMA InitLaunchInv == InitLaunch => LaunchInv
BY DEF InitLaunch, LaunchInv, TrayFits

LEMMA NextLaunchInv == LaunchInv /\ [NextLaunch]_launchVars => LaunchInv'
<1> SUFFICES ASSUME LaunchInv, [NextLaunch]_launchVars PROVE LaunchInv'
  OBVIOUS
<1>1. CASE Type
  <2>1. line' \in Seq(Words) /\ instances' = instances
    BY <1>1 DEF Type, LaunchInv
  <2> QED BY <2>1 DEF LaunchInv, TrayFits
<1>2. CASE Run
  <2> DEFINE mode == ParseCli(line).command
             id == ApplicationIdFor(mode)
  <2>1. line' \in Seq(Words)
    BY <1>2, RunIs
  <2>2. CASE mode \in Launches
    <3>1. PICK next \in Instances : TrayFits(id, next) /\ instances' = [instances EXCEPT ![id] = next]
      BY <1>2, <2>2, RunIs, Zenon
    <3>2. id \in ApplicationIds
      BY DEF ApplicationIdFor, ApplicationIds
    <3> HIDE DEF id
    <3> QED BY <2>1, <3>1, <3>2, InstanceStep
  <2>3. CASE mode \notin Launches
    <3>1. instances' = instances
      BY <1>2, <2>3, RunIs, Zenon
    <3> QED BY <2>1, <3>1 DEF LaunchInv, TrayFits
  <2> QED BY <2>2, <2>3
<1>3. ASSUME NEW id \in ApplicationIds, Dismiss(id) \/ TrayShows(id) \/ Quit(id) PROVE LaunchInv'
  <2>1. line' \in Seq(Words)
    BY <1>3 DEF Dismiss, TrayShows, Quit, LaunchInv
  <2>2. instances[id] \in Instances /\ TrayFits(id, instances[id])
    BY <1>3 DEF Dismiss, TrayShows, Quit, LaunchInv
  <2>3. \A shown \in BOOLEAN : /\ [instances[id] EXCEPT !.shown = shown] \in Instances
                               /\ [instances[id] EXCEPT !.shown = shown].tray = instances[id].tray
    BY <2>2 DEF Instances
  <2>4. instances[id] # Unset
    BY <2>2, CommandLineAssumption
  <2>5. PICK next \in Instances \cup {Unset} : /\ instances' = [instances EXCEPT ![id] = next]
                                               /\ TrayFits(id, next)
    <3>1. CASE instances' = [instances EXCEPT ![id] = Unset]
      BY <3>1 DEF TrayFits
    <3>2. ASSUME NEW shown \in BOOLEAN, instances' = [instances EXCEPT ![id].shown = shown]
          PROVE  \E next \in Instances \cup {Unset} : /\ instances' = [instances EXCEPT ![id] = next]
                                                      /\ TrayFits(id, next)
      <4> DEFINE next == [instances[id] EXCEPT !.shown = shown]
      <4>1. instances' = [instances EXCEPT ![id] = next]
        BY <3>2
      <4>2. next \in Instances /\ next.tray = instances[id].tray
        BY <2>3
      <4> HIDE DEF next
      <4>3. TrayFits(id, next)
        BY <2>2, <2>4, <4>2 DEF TrayFits
      <4> QED BY <4>1, <4>2, <4>3
    <3>3. \/ instances' = [instances EXCEPT ![id] = Unset]
          \/ \E shown \in BOOLEAN : instances' = [instances EXCEPT ![id].shown = shown]
      <4>1. CASE Dismiss(id)
        BY <4>1 DEF Dismiss
      <4>2. CASE TrayShows(id)
        BY <4>2 DEF TrayShows
      <4>3. CASE Quit(id)
        BY <4>3 DEF Quit
      <4> QED BY <1>3, <4>1, <4>2, <4>3
    <3> QED BY <3>1, <3>2, <3>3
  <2> QED BY <2>1, <2>5, InstanceStep
<1>4. CASE UNCHANGED launchVars
  BY <1>4 DEF launchVars, LaunchInv, TrayFits
<1> QED BY <1>1, <1>2, <1>3, <1>4 DEF NextLaunch

\* What a launch does to the applications.
LaunchDoes ==
    LET meaning == Meaning(line)
        mode == meaning.command
    IN  /\ ParseCli(line) = meaning
        /\ mode \notin Launches => /\ instances' = instances
                                   /\ reply' = IF mode = "Error" THEN 64 ELSE mode
        /\ mode \in Launches =>
              \E id \in ApplicationIds :
                 /\ instances'[id] # Unset
                 /\ mode # "NoTray" => instances'[id].tray # "none"
                 /\ mode = "NoTray" => instances'[id].tray = "none"
                 /\ instances'[id].shown = (\/ mode # "Background"
                                            \/ instances[id] # Unset /\ instances[id].shown)
                 /\ \A other \in ApplicationIds \ {id} : instances'[other] = instances[other]

LEMMA RunDoes == LaunchInv /\ Run => LaunchDoes
<1> SUFFICES ASSUME LaunchInv, Run PROVE LaunchDoes
  OBVIOUS
<1> DEFINE mode == Meaning(line).command
           id == ApplicationIdFor(mode)
<1>1. ParseCli(line) = Meaning(line)
  BY ParseIsMeaning DEF LaunchInv
<1>2. mode \notin Launches => instances' = instances /\ reply' = IF mode = "Error" THEN 64 ELSE mode
  BY <1>1, RunIs, Zenon
<1>3. ASSUME mode \in Launches
      PROVE  /\ id \in ApplicationIds
             /\ instances'[id] # Unset
             /\ mode # "NoTray" <=> instances'[id].tray # "none"
             /\ instances'[id].shown = (mode # "Background" \/ (instances[id] # Unset /\ instances[id].shown))
             /\ \A other \in ApplicationIds \ {id} : instances'[other] = instances[other]
  <2>1. PICK next \in Instances :
           /\ next # Unset
           /\ mode # "NoTray" <=> next.tray # "none"
           /\ next.shown = (mode # "Background" \/ (instances[id] # Unset /\ instances[id].shown))
           /\ instances' = [instances EXCEPT ![id] = next]
    BY <1>1, <1>3, RunIs, Zenon
  <2>2. id \in ApplicationIds
    BY DEF ApplicationIdFor, ApplicationIds
  <2>3. instances \in [ApplicationIds -> Instances \cup {Unset}]
    BY DEF LaunchInv
  <2> HIDE DEF id, mode
  <2>4. instances'[id] = next /\ \A other \in ApplicationIds \ {id} : instances'[other] = instances[other]
    BY <2>1, <2>2, <2>3
  <2> QED BY <2>1, <2>2, <2>4
<1>4. mode \in Launches =>
         \E i \in ApplicationIds :
            /\ instances'[i] # Unset
            /\ mode # "NoTray" => instances'[i].tray # "none"
            /\ mode = "NoTray" => instances'[i].tray = "none"
            /\ instances'[i].shown = (\/ mode # "Background"
                                      \/ instances[i] # Unset /\ instances[i].shown)
            /\ \A other \in ApplicationIds \ {i} : instances'[other] = instances[other]
  <2> HIDE DEF id, mode
  <2> QED BY <1>3
<1> QED BY <1>1, <1>2, <1>4, Zenon DEF LaunchDoes

\* For every line: the parser does what the grammar says; what is refused or
\* only answered leaves the applications alone; a launch ends with its
\* application there, presented if it asked for that, with a tray only if it
\* wants one, and leaves the other application as it was (parse_cli, main,
\* application_id_for, the handler of connect_command_line).
THEOREM LaunchesDoWhatTheySay == SpecLaunch => DoesWhatItSays
<1>1. LaunchInv /\ Run => LaunchDoes
  BY RunDoes
<1>2. LaunchInv /\ [NextLaunch]_launchVars => [Run => LaunchDoes]_launchVars
  BY <1>1
<1> QED BY <1>2, InitLaunchInv, NextLaunchInv, PTL DEF SpecLaunch, DoesWhatItSays, LaunchDoes
=============================================================================
