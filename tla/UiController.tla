---------------------------- MODULE UiController ----------------------------
(***************************************************************************)
(* The controller of the Linux popover (linux/src/ui.rs) with the threads  *)
(* around it: the tray service, whose callbacks change the tray's own      *)
(* fields and send commands, and the fetch worker, whose result comes back *)
(* through a channel.                                                      *)
(*                                                                         *)
(* Handlers of the GTK main loop do not overlap, but each of them ends in  *)
(* calls of handle.update, which wait for the tray service: tray callbacks *)
(* run between a handler's own changes and the tray's copy of them.  So a  *)
(* handler is one step that leaves its updates in ui.publish, and every    *)
(* update is a step of its own; no handler starts before they are done.    *)
(***************************************************************************)
EXTENDS TrayCommands, FiniteSets

CONSTANTS Origin,           \* the anchor of a menu item or a second launch
          MaxPages,         \* bound: history pages a snapshot fills
          TrayInputs,       \* bound: what the user does on the tray
          WindowInputs      \* bound: what the user does in the window

ASSUME UiAssumption ==
    /\ Origin \in Anchors
    /\ MaxPages \in Nat \ {0}
    /\ TrayInputs \subseteq {"Toggle", "Show", "Refresh", "SetTimeframe",
                             "SetAutostart", "Quit"}
    /\ WindowInputs \subseteq {"Dismiss", "Refresh", "SetTimeframe", "SetAutostart",
                               "Page", "Quit", "Launch"}

VARIABLES ui,           \* the controller's fields, and what its handler still publishes
          tray,         \* UsageTray: the menu's selection and what the icon shows
          mailbox,
          batch,        \* the commands the current poll still has to handle
          polling,      \* a poll has not reached the mailbox yet
          workers,      \* fetch threads running
          events,       \* the worker channel
          entry,        \* the autostart entry on disk is enabled
          running,      \* the main loop has not been told to quit
          mode,         \* how the application was launched
          hasTray       \* the tray handle exists

vars == <<ui, tray, mailbox, batch, polling, workers, events, entry, running,
          mode, hasTray>>

MaxTrayCommandsPerPoll == 32

\* How old a snapshot is by the wall clock: fetched in the future (by more than the
\* five seconds that are tolerated), within the last five minutes, or before.
Ages == {"future", "fresh", "old"}

\* A snapshot: its age by now, and how many pages of history it has in each
\* timeframe.
Snapshots == [age : Ages, pages : [Timeframes -> 1..MaxPages]]
Fetched == {s \in Snapshots : s.age = "fresh"}

ASSUME SnapshotAssumption == None \notin Snapshots

\* What the tray icon says: nothing yet, no data, data, or data and an error.
Faces == {"loading", "error", "data", "stale"}

ASSUME FacesAssumption == None \notin Faces

\* A closure passed to handle.update: the fields it sets, None where it does
\* not; rereads when it calls autostart::is_enabled itself.
Updates == [timeframe : Timeframes \cup {None}, autostart : BOOLEAN \cup {None},
            face : Faces \cup {None}, rereads : BOOLEAN]

NoUpdate == [timeframe |-> None, autostart |-> None, face |-> None, rereads |-> FALSE]

Updated(t, u) ==
    [timeframe |-> IF u.timeframe = None THEN t.timeframe ELSE u.timeframe,
     autostart |-> IF u.rereads THEN entry
                   ELSE IF u.autostart = None THEN t.autostart ELSE u.autostart,
     face |-> IF u.face = None THEN t.face ELSE u.face]

-----------------------------------------------------------------------------
(* The methods of UiController, as functions of its fields. *)

\* What render makes of the controller's fields.  The icon also warns when the
\* timeframe shown has no total at all, which is not told apart here.
FaceOf(u) == CASE u.snapshot # None /\ u.error -> "stale"
               [] u.snapshot # None /\ ~u.error -> "data"
               [] u.snapshot = None /\ u.refreshing -> "loading"
               [] OTHER -> "error"

Publishing(u, update) ==
    IF hasTray THEN [u EXCEPT !.publish = Append(@, update)] ELSE u

\* update_tray_snapshot, update_tray_loading and update_tray_error
FaceUpdate(u) ==
    IF u.snapshot # None
    THEN [timeframe |-> u.timeframe, autostart |-> None, face |-> FaceOf(u),
          rereads |-> TRUE]
    ELSE [NoUpdate EXCEPT !.face = FaceOf(u)]

\* render_history keeps the page within the history it shows.
ClampedPage(u) ==
    IF u.snapshot = None THEN u.page
    ELSE AtMost(u.page, u.snapshot.pages[u.timeframe] - 1)

\* Mutants of Rendered: the page is not clamped; the tray is told nothing.
RenderedAnyPage(u) == Publishing(u, FaceUpdate(u))
RenderedQuietly(u) == [u EXCEPT !.page = ClampedPage(u)]

Rendered(u) == Publishing([u EXCEPT !.page = ClampedPage(u)], FaceUpdate(u))

\* Mutant of StartRefresh: no check that a fetch is under way.
StartRefreshAgain(u) ==
    Rendered([u EXCEPT !.refreshing = TRUE, !.started = @ + 1])

\* start_refresh: one fetch at a time; .started counts the threads this handler
\* spawns.
StartRefresh(u) ==
    IF u.refreshing THEN u
    ELSE Rendered([u EXCEPT !.refreshing = TRUE, !.started = @ + 1])

\* Mutant of NeedsRefresh: what was fetched in the future is as good as new.
NeedsRefreshOld(u) == u.snapshot = None \/ u.snapshot.age = "old"

\* snapshot_needs_refresh: too old, or the clock has been set back since.
NeedsRefresh(u) == u.snapshot = None \/ u.snapshot.age \in {"future", "old"}

Present(u, anchor) ==
    LET top == IF u.page # 0 THEN Rendered([u EXCEPT !.page = 0]) ELSE u
        shown == [top EXCEPT !.window = anchor]
    IN  IF NeedsRefresh(shown) THEN StartRefresh(shown) ELSE shown

\* Mutant of SetTimeframe: the menu keeps its selection until the next render.
SetTimeframeQuietly(u, t, saved) ==
    IF u.timeframe = t THEN u
    ELSE [u EXCEPT !.timeframe = t, !.page = 0, !.note = ~saved,
                   !.preference = IF saved THEN t ELSE @]

\* set_timeframe: saved says whether Preferences::save worked.
SetTimeframe(u, t, saved) ==
    IF u.timeframe = t THEN u
    ELSE Rendered(Publishing(
            [u EXCEPT !.timeframe = t, !.page = 0, !.note = ~saved,
                      !.preference = IF saved THEN t ELSE @],
            [NoUpdate EXCEPT !.timeframe = t]))

-----------------------------------------------------------------------------
(* The main loop. *)

\* No handler is in progress.
Idle == running /\ ui.publish = <<>> /\ ~polling /\ batch = <<>>

\* A handler leaves u in the controller's fields; the threads it spawned run.
Becomes(u) == /\ ui' = [u EXCEPT !.started = 0]
              /\ workers' = workers + u.started

\* Mutant of DoDismiss: the window is hidden whether or not a tray can reopen it.
DoDismissHiding == /\ ui' = [ui EXCEPT !.window = Hidden]
                   /\ UNCHANGED <<workers, entry, running>>

\* dismiss: with a tray the window is hidden, without one the application ends.
DoDismiss == /\ ui' = IF hasTray THEN [ui EXCEPT !.window = Hidden] ELSE ui
             /\ running' = hasTray
             /\ UNCHANGED <<workers, entry>>

\* Mutant of DoSetAutostart: the menu is told what was asked for.
DoSetAutostartTrusting(enabled) ==
    \E changed \in BOOLEAN, actual \in BOOLEAN :
        /\ changed => actual = enabled
        /\ entry' = actual
        /\ ui' = Publishing([ui EXCEPT !.note = ~changed],
                            [NoUpdate EXCEPT !.autostart = enabled])
        /\ UNCHANGED <<workers, running>>

\* set_autostart: the entry ends up as asked, or the change failed and the
\* entry is whatever is_enabled reads afterwards.
DoSetAutostart(enabled) ==
    \E changed \in BOOLEAN, actual \in BOOLEAN :
        /\ changed => actual = enabled
        /\ entry' = actual
        /\ ui' = Rendered(Publishing([ui EXCEPT !.note = ~changed],
                                     [NoUpdate EXCEPT !.autostart = actual]))
        /\ UNCHANGED <<workers, running>>

DoSetTimeframe(t) == /\ \E saved \in BOOLEAN : Becomes(SetTimeframe(ui, t, saved))
                     /\ UNCHANGED <<running, entry>>

\* Every handler that does not poll.
Handler == /\ Idle
           /\ UNCHANGED <<tray, mailbox, batch, polling, events, mode, hasTray>>

\* The five-minute timer.
AutoRefresh == Handler /\ Becomes(StartRefresh(ui)) /\ UNCHANGED <<entry, running>>

\* update_relative_labels: the labels of what is drawn, and the tray, whose
\* figures are worked out anew.
UpdateRelativeLabels(u) == Publishing(u, FaceUpdate(u))

\* The 30-second timer: a visible snapshot is refreshed when it is stale, and
\* otherwise its relative labels and the tray are brought up to date.
PresentationTick ==
    /\ Handler
    /\ ui.window # Hidden /\ ui.snapshot # None
    /\ Becomes(IF NeedsRefresh(ui) THEN StartRefresh(ui)
               ELSE UpdateRelativeLabels(ui))
    /\ UNCHANGED <<entry, running>>

\* A user at the window: Escape or close, the footer's buttons, the timeframe
\* tabs (drawn with a snapshot), the pager.
UserDismisses == /\ "Dismiss" \in WindowInputs
                 /\ Handler /\ ui.window # Hidden
                 /\ DoDismiss

UserRefreshes == /\ "Refresh" \in WindowInputs
                 /\ Handler /\ ui.window # Hidden /\ ~ui.refreshing
                 /\ Becomes(StartRefresh(ui))
                 /\ UNCHANGED <<entry, running>>

UserSetsTimeframe(t) == /\ "SetTimeframe" \in WindowInputs
                        /\ Handler /\ ui.window # Hidden /\ ui.snapshot # None
                        /\ DoSetTimeframe(t)

UserSetsAutostart == /\ "SetAutostart" \in WindowInputs
                     /\ Handler /\ ui.window # Hidden
                     /\ DoSetAutostart(~entry)

UserQuits == /\ "Quit" \in WindowInputs
             /\ Handler /\ ui.window # Hidden
             /\ running' = FALSE
             /\ UNCHANGED <<ui, workers, entry>>

UserPages == /\ "Page" \in WindowInputs
             /\ Handler /\ ui.window # Hidden /\ ui.snapshot # None
             /\ \E page \in 0..(ui.snapshot.pages[ui.timeframe] - 1) :
                   /\ page = ui.page - 1 \/ page = ui.page + 1
                   /\ Becomes(Rendered([ui EXCEPT !.page = page]))
             /\ UNCHANGED <<entry, running>>

\* A second launch with --show, forwarded to this process; a --no-tray process
\* presents on every launch.
Relaunch == /\ "Launch" \in WindowInputs
            /\ Handler
            /\ Becomes(Present(ui, Origin))
            /\ UNCHANGED <<entry, running>>

-----------------------------------------------------------------------------
(* The 80 ms poll: process_worker_events, then process_tray_commands. *)

\* Mutant of Received: a failed fetch drops the data it could not replace.
ReceivedDropping(u, result) ==
    IF result = None
    THEN Rendered([u EXCEPT !.refreshing = FALSE, !.error = TRUE, !.snapshot = None])
    ELSE Rendered([u EXCEPT !.refreshing = FALSE, !.error = FALSE, !.snapshot = result])

\* Mutant of Received: a failed fetch leaves the refreshing flag up.
ReceivedStuck(u, result) ==
    IF result = None
    THEN Rendered([u EXCEPT !.error = TRUE])
    ELSE Rendered([u EXCEPT !.refreshing = FALSE, !.error = FALSE, !.snapshot = result])

\* One worker event: a snapshot, or None for an error, which keeps the old data.
Received(u, result) ==
    IF result = None
    THEN Rendered([u EXCEPT !.refreshing = FALSE, !.error = TRUE])
    ELSE Rendered([u EXCEPT !.refreshing = FALSE, !.error = FALSE, !.snapshot = result])

Poll == /\ Idle
        /\ polling' = TRUE
        /\ UNCHANGED <<ui, tray, mailbox, batch, workers, events, entry, running, mode,
                       hasTray>>

ReceiveEvent == /\ running /\ polling /\ ui.publish = <<>> /\ events # <<>>
                /\ ui' = Received(ui, Head(events))
                /\ events' = Tail(events)
                /\ UNCHANGED <<tray, mailbox, batch, polling, workers, entry, running,
                               mode, hasTray>>

TakePending == /\ running /\ polling /\ ui.publish = <<>> /\ events = <<>>
               /\ batch' = Taken(mailbox, MaxTrayCommandsPerPoll)
               /\ mailbox' = Remaining(mailbox, MaxTrayCommandsPerPoll)
               /\ polling' = FALSE
               /\ UNCHANGED <<ui, tray, workers, events, entry, running, mode, hasTray>>

Handle(c) ==
    CASE c.op = "Toggle" /\ ui.window # Hidden -> DoDismiss
      [] c.op = "Toggle" /\ ui.window = Hidden ->
            Becomes(Present(ui, c.at)) /\ UNCHANGED <<entry, running>>
      [] c.op = "Show" -> Becomes(Present(ui, c.at)) /\ UNCHANGED <<entry, running>>
      [] c.op = "Refresh" -> Becomes(StartRefresh(ui)) /\ UNCHANGED <<entry, running>>
      [] c.op = "SetTimeframe" -> DoSetTimeframe(c.timeframe)
      [] c.op = "SetAutostart" -> DoSetAutostart(c.enabled)
      [] c.op = "Quit" -> running' = FALSE /\ UNCHANGED <<ui, workers, entry>>

HandleCommand == /\ running /\ batch # <<>> /\ ui.publish = <<>>
                 /\ Handle(Head(batch))
                 /\ batch' = Tail(batch)
                 /\ UNCHANGED <<tray, mailbox, polling, events, mode, hasTray>>

\* handle.update runs the next closure on the tray.
Publish == /\ running /\ ui.publish # <<>>
           /\ tray' = Updated(tray, Head(ui.publish))
           /\ ui' = [ui EXCEPT !.publish = Tail(@)]
           /\ UNCHANGED <<mailbox, batch, polling, workers, events, entry, running,
                          mode, hasTray>>

-----------------------------------------------------------------------------
(* The other threads. *)

\* A tray callback: click, middle click or a menu item.
TraySends(c) ==
    /\ running /\ hasTray /\ c.op \in TrayInputs
    /\ c.op = "Show" => c.at = Origin
    /\ c.op = "SetAutostart" => c.enabled = ~tray.autostart
    /\ tray' = CASE c.op = "SetTimeframe" -> [tray EXCEPT !.timeframe = c.timeframe]
                 [] c.op = "SetAutostart" -> [tray EXCEPT !.autostart = c.enabled]
                 [] OTHER -> tray
    /\ mailbox' = Sent(mailbox, c)
    /\ UNCHANGED <<ui, batch, polling, workers, events, entry, running, mode, hasTray>>

\* A fetch ends, well or not: its deadlines see to that (module AppServerSession).
FetchEnds == /\ running /\ workers > 0
             /\ \E result \in Fetched \cup {None} : events' = Append(events, result)
             /\ workers' = workers - 1
             /\ UNCHANGED <<ui, tray, mailbox, batch, polling, entry, running, mode,
                            hasTray>>

\* Time passes, or the wall clock is set, back or forward.
ClockMoves == /\ running /\ ui.snapshot # None
              /\ \E age \in Ages \ {ui.snapshot.age} :
                    ui' = [ui EXCEPT !.snapshot.age = age]
              /\ UNCHANGED <<tray, mailbox, batch, polling, workers, events, entry,
                             running, mode, hasTray>>

\* The process has ended.
Ended == ~running /\ UNCHANGED vars

Init ==
    /\ entry \in BOOLEAN
    /\ mode \in {"Background", "Show", "NoTray"}
    /\ hasTray \in (IF mode = "NoTray" THEN {FALSE} ELSE BOOLEAN)
    /\ \E t \in Timeframes :
          LET built == [timeframe |-> t, preference |-> t, page |-> 0, note |-> FALSE,
                        refreshing |-> FALSE, snapshot |-> None, error |-> FALSE,
                        window |-> Hidden, publish |-> <<>>, started |-> 0]
              live == StartRefresh(built)
          IN  /\ ui = [(IF mode = "Background" THEN live ELSE Present(live, Origin))
                         EXCEPT !.started = 0]
              /\ tray = [timeframe |-> t, autostart |-> entry, face |-> "loading"]
    /\ workers = 1
    /\ mailbox = EmptyMailbox /\ batch = <<>> /\ polling = FALSE
    /\ events = <<>> /\ running = TRUE

User == \/ UserDismisses \/ UserRefreshes \/ UserSetsAutostart \/ UserQuits
        \/ UserPages \/ Relaunch
        \/ \E t \in Timeframes : UserSetsTimeframe(t)

Next == \/ AutoRefresh \/ PresentationTick
        \/ Poll \/ ReceiveEvent \/ TakePending \/ HandleCommand \/ Publish
        \/ User
        \/ \E c \in Commands : TraySends(c)
        \/ FetchEnds \/ ClockMoves \/ Ended

\* The main loop dispatches every source that stays ready, so the timers fire
\* although other handlers run in between; a fetch ends within its timeout.
Fairness == /\ SF_vars(Poll) /\ SF_vars(PresentationTick)
            /\ WF_vars(ReceiveEvent) /\ WF_vars(TakePending)
            /\ WF_vars(HandleCommand) /\ WF_vars(Publish)
            /\ WF_vars(FetchEnds)

Spec == Init /\ [][Next]_vars /\ Fairness

-----------------------------------------------------------------------------
(* Properties. *)

Fields == [timeframe : Timeframes, preference : Timeframes, page : Nat, note : BOOLEAN,
           refreshing : BOOLEAN, snapshot : Snapshots \cup {None}, error : BOOLEAN,
           window : Places, publish : Seq(Updates), started : {0}]

\* The fields of the controller, the tray and the threads have their types; in
\* particular no closure leaves a hole in the tray's menu.
TypeOK == /\ ui \in Fields
          /\ tray \in [timeframe : Timeframes, autostart : BOOLEAN, face : Faces]
          /\ mailbox \in Mailboxes
          /\ batch \in Seq(Commands)
          /\ events \in Seq(Fetched \cup {None})
          /\ workers \in Nat
          /\ {polling, entry, running, hasTray} \subseteq BOOLEAN
          /\ mode \in {"Background", "Show", "NoTray"}

\* start_refresh is called from two timers, the window, the tray and every
\* presentation, yet one fetch at most is under way, and the refreshing flag is
\* up exactly while its result is still owed.
OneFetch == workers + Len(events) = IF ui.refreshing THEN 1 ELSE 0

\* New data, another timeframe or paging never leaves the history on a page
\* that does not exist.
HistoryPageExists ==
    ui.snapshot # None => ui.page < ui.snapshot.pages[ui.timeframe]

\* The UI thread is not on its way to the tray's menu and no choice made there
\* is on its way to the UI thread.
Settled(slot, op) ==
    /\ running /\ hasTray /\ ui.publish = <<>>
    /\ mailbox[slot] = None
    /\ ~HasOp(batch, op) /\ ~HasOp(batch, "Quit")

\* The tray thread and the UI thread both write the menu's timeframe, with no
\* common lock around it and the controller's own field; once neither has
\* anything under way, the two agree.
TimeframeAgrees ==
    Settled("timeframe", "SetTimeframe") => tray.timeframe = ui.timeframe

\* Likewise the menu's check mark and the autostart entry on disk, whether or
\* not the last change of it worked.
AutostartAgrees ==
    Settled("autostart", "SetAutostart") => tray.autostart = entry

\* The icon says what the window would: it warns exactly while the last fetch
\* failed or there is nothing to show.
IconTellsTruth ==
    running /\ hasTray /\ ui.publish = <<>> => tray.face = FaceOf(ui)

\* Unless it was started hidden, the application can always be reached: dismissing
\* the window, by whatever way, ends it when there is no tray to reopen it.
NeverStranded ==
    running /\ mode # "Background" => hasTray \/ ui.window # Hidden

\* A failed refresh never takes away data that was shown.
DataSurvives == [][ui.snapshot # None => ui'.snapshot # None]_vars

\* A refresh ends: the Refresh button is not disabled for ever.
RefreshEnds == ui.refreshing ~> (~ui.refreshing \/ ~running)

VisiblyStale == ui.window # Hidden /\ ui.snapshot # None /\ ui.snapshot.age # "fresh"

\* A visible snapshot that is out of date, or that the wall clock has jumped
\* away from, is fetched again.
StaleIsRefreshed == VisiblyStale ~> (ui.refreshing \/ ~VisiblyStale \/ ~running)

\* Quit from the tray ends the application whatever else is going on.
QuitEnds == mailbox.quit ~> ~running
=============================================================================
