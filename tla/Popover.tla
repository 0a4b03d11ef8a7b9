------------------------------- MODULE Popover -------------------------------
(***************************************************************************)
(* The popover's keyboard focus and its place on a Sway screen             *)
(* (linux/src/ui.rs).  A render throws every widget away, and with it the  *)
(* focus; an idle callback gives the focus back to the same control of the *)
(* new content, unless something else happened first.                      *)
(*                                                                         *)
(* p is the window: its content, where the focus is, and the idle          *)
(* callbacks that wait.  A callback keeps the generation of its render;    *)
(* "current" says that it is still the latest one.  kept and decided are   *)
(* history: the control that the last render took the focus from, and      *)
(* where the user or GTK has put it since.                                 *)
(***************************************************************************)
EXTENDS Integers, SequencesExt

CONSTANTS Timeframes,   \* the tabs
          MaxPages,     \* bound: pages of the history
          MaxIdle,      \* bound: idle callbacks that wait
          Anchors,      \* where a click was, in pixels
          Screens,      \* what Sway answers: a sequence of outputs, or None
          Largest,      \* the largest 32-bit integer
          Width, Height,
          None

Coordinates == -Largest - 1 .. Largest

\* An output as Sway describes it, with a rectangle of 32-bit numbers.
Outputs == [active : BOOLEAN, x : Coordinates, y : Coordinates,
            width : Coordinates, height : Coordinates]

ASSUME PopoverAssumption ==
    /\ MaxPages \in Nat \ {0} /\ MaxIdle \in Nat
    /\ Largest \in Nat /\ {Width, Height} \subseteq 1..Largest
    /\ Anchors \subseteq {None} \cup (Coordinates \X Coordinates)
    /\ Screens \subseteq {None} \cup Seq(Outputs)
    /\ LET names == {"HistoryNewer", "HistoryOlder", "Refresh", "Autostart", "Quit", "Chart",
                     "label", "undone"}
       IN  Timeframes \cap names = {} /\ None \notin Timeframes \cup names \cup Int

VARIABLES p,        \* the window
          place     \* where this step's presentation has put the window, if any

vars == <<p, place>>

-----------------------------------------------------------------------------
(* The controls of the content, and which of them take the focus. *)

Actions == {"Refresh", "Autostart", "Quit"}
Pager == {"HistoryNewer", "HistoryOlder"}

\* register_focus_target, by what is rendered.
Registered(w) ==
    Actions \cup (IF w.content # "snapshot" THEN {}
                  ELSE Timeframes \cup {"Chart"}
                       \cup (IF w.pages > 1 THEN Pager ELSE {}))

Sensitive(w) == {t \in Registered(w) :
                    /\ t = "Refresh" => ~w.refreshing
                    /\ t = "Chart" => w.adjustable
                    /\ t = "HistoryNewer" => w.page > 0
                    /\ t = "HistoryOlder" => w.page + 1 < w.pages}

\* The error text can be selected, and takes the focus for that.
Focusable(w) == Sensitive(w) \cup (IF w.content = "error" THEN {"label"} ELSE {})

\* focus_restore_order
FocusRestoreOrder(t) ==
    CASE t = "HistoryNewer" -> <<"HistoryNewer", "HistoryOlder", "Refresh", "Autostart">>
      [] t = "HistoryOlder" -> <<"HistoryOlder", "HistoryNewer", "Refresh", "Autostart">>
      [] t = "Refresh" -> <<"Refresh", "Autostart", "Quit">>
      [] t = "Autostart" -> <<"Autostart", "Refresh", "Quit">>
      [] t = "Quit" -> <<"Quit", "Autostart", "Refresh">>
      [] OTHER -> <<t, "Refresh", "Autostart", "Quit">>

\* The first control of the order that grab_focus succeeds on.
Grabbed(w, t) == LET order == FocusRestoreOrder(t)
                     able == {i \in DOMAIN order : order[i] \in Sensitive(w)}
                 IN  IF able = {} THEN None ELSE order[Min(able)]

-----------------------------------------------------------------------------
(* The handlers, as functions of the window. *)

\* invalidate_focus_restore
Invalidated(w) == [w EXCEPT !.idle = [i \in DOMAIN @ |-> [@[i] EXCEPT !.current = FALSE]]]

\* clear_window_focus
ClearedFocus(w) == [Invalidated(w) EXCEPT !.focus = None, !.kept = None, !.decided = None]

\* render and restore_focus_after_render: w has the new content, and the
\* focus that focused_target found among the old one.
Rendered(w) ==
    LET back == IF w.visible /\ w.focus # "label" THEN w.focus ELSE None
        gone == [Invalidated(w) EXCEPT !.focus = None, !.kept = back, !.decided = None]
    IN  IF back = None THEN gone
        ELSE [gone EXCEPT !.idle = Append(@, [op |-> "restore", target |-> back, current |-> TRUE])]

\* start_refresh
StartRefresh(w) ==
    IF w.refreshing THEN w
    ELSE Rendered([w EXCEPT !.refreshing = TRUE,
                            !.content = IF @ = "snapshot" THEN @ ELSE "loading"])

\* present; stale is what snapshot_needs_refresh says.
Shown(w, stale) ==
    LET clear == IF w.visible THEN w ELSE ClearedFocus(w)
        top == IF clear.page # 0 THEN Rendered([clear EXCEPT !.page = 0]) ELSE clear
        shown == [top EXCEPT !.visible = TRUE,
                             !.idle = Append(@, [op |-> "deselect", target |-> None, current |-> TRUE])]
    IN  IF stale THEN StartRefresh(shown) ELSE shown

\* clear_initial_error_selection
Deselected(w) == IF w.focus = "label" THEN [w EXCEPT !.focus = None, !.decided = "undone"] ELSE w

\* Mutant of Restored: a callback of an earlier render is as good.
RestoredAlways(w, call) ==
    IF ~w.visible \/ w.focus # None THEN w ELSE [w EXCEPT !.focus = Grabbed(w, call.target)]

\* The idle callback of restore_focus_after_render.
Restored(w, call) ==
    IF ~call.current \/ ~w.visible \/ w.focus # None THEN w
    ELSE [w EXCEPT !.focus = Grabbed(w, call.target)]

-----------------------------------------------------------------------------
(* The place on the screen. *)

Saturated(n) == IF n > Largest THEN Largest ELSE IF n < -Largest - 1 THEN -Largest - 1 ELSE n
Clamped(n, low, high) == IF n < low THEN low ELSE IF n > high THEN high ELSE n

\* sway_output_rect: the rectangles that count.
Right(r) == r.x + r.width
Bottom(r) == r.y + r.height
Rect(r) == r.active /\ r.width > 0 /\ r.height > 0 /\ Right(r) <= Largest /\ Bottom(r) <= Largest
Holds(r, anchor) == /\ anchor[1] \in r.x..(Right(r) - 1)
                    /\ anchor[2] \in r.y..(Bottom(r) - 1)

Beside(x) == Saturated(Saturated(x - Width) + 18)
Above(y) == Saturated(Saturated(y - Height) - 10)
Below(y) == Saturated(y + 30)

\* popover_position_in_outputs, in the first output r that holds the anchor.
InOutput(r, anchor) ==
    <<Clamped(Beside(anchor[1]), r.x, Max({Saturated(Right(r) - Width), r.x})),
      Clamped(IF anchor[2] >= Saturated(r.y + (r.height \div 2)) THEN Above(anchor[2]) ELSE Below(anchor[2]),
              r.y, Max({Saturated(Bottom(r) - Height), r.y}))>>

\* Mutant of Position: the popover is put beside the click, whatever is there.
PositionAnywhere(anchor, screen) ==
    IF anchor = None THEN "center"
    ELSE <<Beside(anchor[1]), IF anchor[2] > Height + 20 THEN Above(anchor[2]) ELSE Below(anchor[2])>>

\* position_sway_popover, sway_popover_position
Position(anchor, screen) ==
    LET holding == IF screen = None THEN {}
                   ELSE {i \in DOMAIN screen : Rect(screen[i]) /\ Holds(screen[i], anchor)}
    IN  IF anchor = None THEN "center"
        ELSE IF holding # {} THEN InOutput(screen[Min(holding)], anchor)
        ELSE <<Beside(anchor[1]),
               IF anchor[2] > Height + 20 THEN Above(anchor[2]) ELSE Below(anchor[2])>>

-----------------------------------------------------------------------------
Becomes(w) == Len(w.idle) <= MaxIdle /\ p' = w
Still == place' = None

Init ==
    /\ p = [visible |-> FALSE, content |-> "loading", refreshing |-> TRUE, page |-> 0, pages |-> 1,
            adjustable |-> FALSE, focus |-> None, kept |-> None, decided |-> None, idle |-> <<>>]
    /\ place = None

\* present, from the tray, the launcher or the bar.  The thread that talks to
\* Sway 80 ms later uses the click alone: its answer is part of this step.
Present(anchor) ==
    /\ \E stale \in BOOLEAN : (p.content # "snapshot" => stale) /\ Becomes(Shown(p, stale))
    /\ \E screen \in Screens :
          place' = [at |-> Position(anchor, screen), anchor |-> anchor, screen |-> screen]

Dismiss == p.visible /\ Becomes([ClearedFocus(p) EXCEPT !.visible = FALSE]) /\ Still

Refresh == ~p.refreshing /\ Becomes(StartRefresh(p)) /\ Still

Receive ==
    /\ p.refreshing
    /\ \/ \E pages \in 1..MaxPages, adjustable \in BOOLEAN :
             Becomes(Rendered([p EXCEPT !.refreshing = FALSE, !.content = "snapshot",
                                        !.pages = pages, !.page = Min({@, pages - 1}),
                                        !.adjustable = adjustable]))
       \/ Becomes(Rendered([p EXCEPT !.refreshing = FALSE,
                                     !.content = IF @ = "snapshot" THEN @ ELSE "error"]))
    /\ Still

SetTimeframe ==
    /\ IF p.content = "snapshot"
       THEN \E pages \in 1..MaxPages, adjustable \in BOOLEAN :
               Becomes(Rendered([p EXCEPT !.page = 0, !.pages = pages, !.adjustable = adjustable]))
       ELSE Becomes(Rendered(p))
    /\ Still

\* set_autostart, and every other handler that only renders again.
Rerender == Becomes(Rendered(p)) /\ Still

\* The pager: the button that was pressed has the focus, or a pointer pressed it.
TurnPage ==
    /\ p.visible
    /\ \/ "HistoryNewer" \in Sensitive(p) /\ Becomes(Rendered([p EXCEPT !.page = @ - 1]))
       \/ "HistoryOlder" \in Sensitive(p) /\ Becomes(Rendered([p EXCEPT !.page = @ + 1]))
    /\ Still

\* Tab, or a click on a control.
UserFocuses(t) ==
    /\ p.visible /\ t \in Focusable(p) \ {p.focus}
    /\ Becomes([p EXCEPT !.focus = t, !.decided = t])
    /\ Still

\* GTK may choose a control for a window that has none in focus, shown or not.
GtkFocuses(t) ==
    /\ p.focus = None /\ t \in Focusable(p)
    /\ Becomes([p EXCEPT !.focus = t, !.decided = t])
    /\ Still

RunIdle ==
    /\ p.idle # <<>>
    /\ LET call == Head(p.idle)
           rest == [p EXCEPT !.idle = Tail(@)]
       IN  Becomes(IF call.op = "restore" THEN Restored(rest, call) ELSE Deselected(rest))
    /\ Still

Targets == Timeframes \cup Actions \cup Pager \cup {"Chart", "label"}

Next == \/ \E anchor \in Anchors : Present(anchor)
        \/ Dismiss \/ Refresh \/ Receive \/ SetTimeframe \/ Rerender \/ TurnPage
        \/ \E t \in Targets : UserFocuses(t) \/ GtkFocuses(t)
        \/ RunIdle

Spec == Init /\ [][Next]_vars

-----------------------------------------------------------------------------
(* Properties. *)

\* Once no callback waits, the focus of a visible popover is where the last
\* decision put it: where the user or GTK has moved it since the last render,
\* or else the control that the render took it from, or the nearest that can
\* have it; a popover that was just shown has no focus of an earlier showing.
\* A selection of the error text that the code has undone is no decision
\* (restore_focus_after_render, clear_window_focus).
FocusIsKept ==
    p.idle = <<>> /\ p.visible =>
       CASE p.decided = "undone" -> p.focus \in {None} \cup (IF p.kept = None THEN {} ELSE Sensitive(p))
         [] p.decided = None -> /\ (p.focus = None) = (p.kept = None)
                                /\ p.kept \in Sensitive(p) => p.focus = p.kept
                                /\ p.kept \in Pager /\ Pager \cap Sensitive(p) # {} => p.focus \in Pager
         [] OTHER -> p.focus = p.decided

\* A popover whose click lies on an output opens on that output: all of it
\* when it fits, its upper left corner in any case, and it leaves the clicked
\* row free when there is room above or below (popover_position_in_outputs).
OpensOnOutput ==
    place # None /\ place.anchor # None /\ place.screen # None =>
       LET on == {i \in DOMAIN place.screen : Rect(place.screen[i]) /\ Holds(place.screen[i], place.anchor)}
       IN  on # {} =>
              LET r == place.screen[Min(on)]
              IN  /\ Holds(r, place.at)
                  /\ r.width >= Width => place.at[1] + Width <= Right(r)
                  /\ r.height >= Height => place.at[2] + Height <= Bottom(r)
                  /\ r.height >= 2 * (Height + 30) =>
                        place.anchor[2] \notin place.at[2]..(place.at[2] + Height)
=============================================================================
