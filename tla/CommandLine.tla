----------------------------- MODULE CommandLine -----------------------------
(***************************************************************************)
(* The command line and the two applications it starts or reaches          *)
(* (linux/src/main.rs).  A launch belongs to one of two application ids;   *)
(* the first process of an id keeps it, and a later one hands its line     *)
(* over to it (GApplication), where the line is read once more.            *)
(*                                                                         *)
(* An argument is a word; what the parser can tell of a word is in the     *)
(* sets below.                                                             *)
(***************************************************************************)
EXTENDS Naturals, Sequences, FiniteSets

CONSTANTS Words,         \* the words that are typed
          Dimensions,    \* those that are numbers from 220 to 2000
          Dashed,        \* those, besides the options, that start with "-"
          NotText,       \* those that are not UTF-8
          MaxArguments,  \* bound: of a line
          MaxRefused,    \* bound: of one that is refused already
          Unset          \* no mode, no value, no reply or no process yet

VARIABLES line,      \* the arguments of the command being typed
          reply,     \* how the last one ended
          instances  \* the process that has each application id, or Unset

launchVars == <<line, reply, instances>>

-----------------------------------------------------------------------------
(* The words. *)

Modes == {"--help", "-h", "--version", "-V", "--check", "--waybar", "--show", "--background", "--no-tray"}
RenderOptions == {"--appearance", "--timeframe", "--width", "--height", "--state"}
Options == RenderOptions \cup {"--render-popover"}
StartsWithDash == Modes \cup Options \cup Dashed

CommandOf(mode) == CASE mode \in {"--help", "-h"} -> "Help"
                     [] mode \in {"--version", "-V"} -> "Version"
                     [] mode = "--check" -> "Check"
                     [] mode = "--waybar" -> "Waybar"
                     [] mode = "--show" -> "Show"
                     [] mode = "--background" -> "Background"
                     [] mode = "--no-tray" -> "NoTray"

\* The values that an option takes, among the words without a dash.
ValuesOf(option) ==
    CASE option = "--render-popover" -> Words \ {""}
      [] option = "--appearance" -> {"light", "dark"}
      [] option = "--timeframe" -> {"seven", "thirty", "ninety", "all"}
      [] option \in {"--width", "--height"} -> Dimensions
      [] option = "--state" -> {"normal", "stale", "loading", "error", "maximum", "long-stale", "long-error"}

Default(option) == CASE option = "--appearance" -> "light"
                     [] option = "--timeframe" -> "thirty"
                     [] option = "--width" -> "300"
                     [] option = "--height" -> "560"
                     [] option = "--state" -> "normal"

\* What the modes are, and the process of an application.
Primaries == {"Help", "Version", "Check", "Waybar", "Show", "Background", "NoTray", "Render"}
Instances == [tray : {"on", "failed", "none"}, shown : BOOLEAN]

ASSUME CommandLineAssumption ==
    /\ {MaxArguments, MaxRefused} \subseteq Nat /\ {Dimensions, Dashed, NotText} \subseteq SUBSET Words
    /\ NotText \cap Dimensions = {}
    /\ Unset \notin Primaries \cup Options /\ Unset \notin Instances

Error == [command |-> "Error"]
Command(c) == [command |-> c]

-----------------------------------------------------------------------------
(* parse_cli: one argument after the other. *)

Start == [primary |-> Unset, path |-> Unset, given |-> <<>>, awaited |-> Unset, failed |-> FALSE]
Failed(r) == [r EXCEPT !.failed = TRUE]

\* set_primary_mode
WithPrimary(r, command) == IF r.primary # Unset THEN Failed(r) ELSE [r EXCEPT !.primary = command]

\* take_option_value, take_text_option, take_dimension and what is made of the value.
WithValue(r, w) ==
    LET option == r.awaited
        taken == [r EXCEPT !.awaited = Unset]
    IN  IF w \in StartsWithDash \/ w \notin ValuesOf(option) THEN Failed(r)
        ELSE IF option = "--render-popover" THEN [WithPrimary(taken, "Render") EXCEPT !.path = w]
        ELSE IF w \in NotText THEN Failed(r)
        ELSE [taken EXCEPT !.given = [o \in DOMAIN @ \cup {option} |-> IF o = option THEN w ELSE @[o]]]

\* Mutant of WithOption: an option that comes again has its last value.
WithOptionAgain(r, option) == [r EXCEPT !.awaited = option]

\* reject_duplicate; the path is rejected with its second mode.
WithOption(r, option) ==
    IF option \in DOMAIN r.given THEN Failed(r) ELSE [r EXCEPT !.awaited = option]

Read(r, w) ==
    IF r.failed THEN r
    ELSE IF r.awaited # Unset THEN WithValue(r, w)
    ELSE IF w \in Modes THEN WithPrimary(r, CommandOf(w))
    ELSE IF w \in Options THEN WithOption(r, w)
    ELSE Failed(r)

Reading(arguments) ==
    LET read[n \in 0 .. Len(arguments)] == IF n = 0 THEN Start ELSE Read(read[n - 1], arguments[n])
    IN  read[Len(arguments)]

ParseCli(arguments) ==
    LET r == Reading(arguments)
    IN  IF r.failed \/ r.awaited # Unset THEN Error
        ELSE IF r.primary = "Render"
        THEN [command |-> "Render", path |-> r.path,
              options |-> [o \in RenderOptions |-> IF o \in DOMAIN r.given THEN r.given[o] ELSE Default(o)]]
        ELSE IF DOMAIN r.given # {} THEN Error
        ELSE Command(IF r.primary = Unset THEN "Background" ELSE r.primary)

-----------------------------------------------------------------------------
(* main: the launches. *)

Launches == {"Background", "Show", "NoTray"}
ShouldPresent(mode) == mode \in {"Show", "NoTray"}
HasTray(mode) == mode # "NoTray"

ApplicationIds == {"CodexUsageBar", "CodexUsageBar.Popover"}

\* Mutant of ApplicationIdFor: one application for all launches.
ApplicationIdShared(mode) == "CodexUsageBar"

ApplicationIdFor(mode) == IF mode = "NoTray" THEN "CodexUsageBar.Popover" ELSE "CodexUsageBar"

\* The handler of connect_command_line, in the process that has the id: the
\* controller is built by the first line and told to present by any.  The tray
\* of a new controller is started, or its start fails, or there is none.
Handled(instance, mode, started) ==
    LET built == IF instance # Unset THEN instance
                 ELSE [tray |-> IF HasTray(mode) THEN IF started THEN "on" ELSE "failed" ELSE "none",
                       shown |-> FALSE]
    IN  IF ShouldPresent(mode) THEN [built EXCEPT !.shown = TRUE] ELSE built

InitLaunch == line = <<>> /\ reply = Unset /\ instances = [id \in ApplicationIds |-> Unset]

Type == /\ Len(line) < IF Reading(line).failed THEN MaxRefused ELSE MaxArguments
        /\ \E w \in Words : line' = Append(line, w)
        /\ reply' = Unset
        /\ UNCHANGED instances

Run ==
    LET command == ParseCli(line).command
    IN  /\ line' = <<>>
        /\ IF command \in Launches
           THEN LET id == ApplicationIdFor(command)
                IN  /\ \E started \in BOOLEAN :
                          instances' = [instances EXCEPT ![id] = Handled(@, command, started)]
                    /\ reply' = 0
           ELSE /\ reply' = IF command = "Error" THEN 64 ELSE command
                /\ UNCHANGED instances

\* UiController::dismiss: without a tray the application quits.
Dismiss(id) ==
    /\ instances[id] # Unset /\ instances[id].shown
    /\ instances' = [instances EXCEPT ![id] = IF @.tray = "on" THEN [@ EXCEPT !.shown = FALSE] ELSE Unset]
    /\ reply' = Unset
    /\ UNCHANGED line

\* A click on the tray icon, with the window hidden.
TrayShows(id) ==
    /\ instances[id] # Unset /\ instances[id].tray = "on" /\ ~instances[id].shown
    /\ instances' = [instances EXCEPT ![id].shown = TRUE]
    /\ reply' = Unset
    /\ UNCHANGED line

\* Quit in the window or in the tray's menu.
Quit(id) ==
    /\ instances[id] # Unset /\ (instances[id].shown \/ instances[id].tray = "on")
    /\ instances' = [instances EXCEPT ![id] = Unset]
    /\ reply' = Unset
    /\ UNCHANGED line

NextLaunch == Type \/ Run \/ \E id \in ApplicationIds : Dismiss(id) \/ TrayShows(id) \/ Quit(id)

SpecLaunch == InitLaunch /\ [][NextLaunch]_launchVars

-----------------------------------------------------------------------------
(* Properties. *)

\* The grammar of the usage text, said of a line as a whole: which words are
\* values is told by the word before, no option and no more than one mode
\* occurs twice, and options need a picture to render.
Meaning(arguments) ==
    LET at == DOMAIN arguments
        named(words) == {i \in at : arguments[i] \in words}
        valued(i) == i > 1 /\ arguments[i - 1] \in Options
        value(option) == arguments[(CHOOSE i \in named({option}) : TRUE) + 1]
        accepted ==
            /\ \A i \in at :
                  IF valued(i)
                  THEN /\ arguments[i] \in ValuesOf(arguments[i - 1]) \ StartsWithDash
                       /\ arguments[i] \in NotText => arguments[i - 1] = "--render-popover"
                  ELSE arguments[i] \in Modes \cup Options
            /\ \A option \in Options : Cardinality(named({option})) <= 1
            /\ Cardinality(named(Modes \cup {"--render-popover"})) <= 1
            /\ Len(arguments) > 0 => arguments[Len(arguments)] \notin Options
            /\ named(RenderOptions) # {} => named({"--render-popover"}) # {}
    IN  IF ~accepted THEN Error
        ELSE IF named({"--render-popover"}) # {}
        THEN [command |-> "Render", path |-> value("--render-popover"),
              options |-> [o \in RenderOptions |-> IF named({o}) # {} THEN value(o) ELSE Default(o)]]
        ELSE Command(IF at = {} THEN "Background" ELSE CommandOf(arguments[1]))

\* A line does what the grammar says, whatever runs already: what is refused
\* or only answered leaves the applications alone; a launch ends with its
\* application there, with its window open if it asked for one and as it was
\* if not, never reaching an application without a tray when it wants one,
\* and never touching the other application (parse_cli, application_id_for,
\* the handler of connect_command_line).
DoesWhatItSays ==
    [][ Run =>
        LET meaning == Meaning(line)
            mode == meaning.command
        IN  /\ ParseCli(line) = meaning
            /\ mode \notin Launches => /\ instances' = instances
                                       /\ reply' = IF mode = "Error" THEN 64 ELSE mode
            /\ mode \in Launches =>
                  \E id \in ApplicationIds :
                     /\ instances'[id] # Unset
                     /\ mode # "NoTray" => instances'[id].tray # "none"
                     /\ mode = "NoTray" => instances'[id].tray = "none"
                     /\ instances'[id].shown = (\/ mode # "Background"
                                                \/ instances[id] # Unset /\ instances[id].shown)
                     /\ \A other \in ApplicationIds \ {id} : instances'[other] = instances[other] ]_launchVars
=============================================================================
