---------------------------- MODULE PopoverProofs ----------------------------
(***************************************************************************)
(* What holds of the popover for every set of tabs, any number of idle     *)
(* callbacks, every answer of Sway and every size of the popover: the      *)
(* focus is where the last decision put it, and a popover opens on the     *)
(* output that was clicked.  And what holds of the limits it shows for     *)
(* every map of limits: what decoding leaves out is reported, and what is  *)
(* there is shown.                                                         *)
(***************************************************************************)
EXTENDS Popover, RateLimits, WellFoundedInduction, TLAPS

-----------------------------------------------------------------------------
(* The place on the screen. *)

LEMMA LeastOfNaturals ==
    ASSUME NEW S, S \subseteq Nat, S # {}
    PROVE  Min(S) \in S /\ \A y \in S : Min(S) <= y
<1>1. \E x \in S : \A y \in S : ~(<<y, x>> \in OpToRel(<, Nat))
  BY NatLessThanWellFounded, WFMin
<1>2. PICK x \in S : \A y \in S : ~(<<y, x>> \in OpToRel(<, Nat))
  BY <1>1
<1>3. \A y \in S : x <= y
  <2> SUFFICES ASSUME NEW y \in S, y < x PROVE FALSE
    OBVIOUS
  <2>1. <<y, x>> \in OpToRel(<, Nat)
    BY DEF OpToRel
  <2> QED BY <1>2, <2>1
<1> QED BY <1>3 DEF Min

OnOutput(at, r, anchor) ==
    /\ Holds(r, at)
    /\ r.width >= Width => at[1] + Width <= Right(r)
    /\ r.height >= Height => at[2] + Height <= Bottom(r)
    /\ r.height >= 2 * (Height + 30) => anchor[2] \notin at[2]..(at[2] + Height)

LEMMA MaxOfTwo ==
    ASSUME NEW a \in Int, NEW b \in Int
    PROVE  Max({a, b}) = IF a >= b THEN a ELSE b
<1>1. CASE a >= b
  BY <1>1 DEF Max
<1>2. CASE ~(a >= b)
  BY <1>2 DEF Max
<1> QED BY <1>1, <1>2

LEMMA ClampedBetween ==
    ASSUME NEW n \in Int, NEW low \in Int, NEW high \in Int, low <= high
    PROVE  /\ Clamped(n, low, high) \in low..high
           /\ n \in low..high => Clamped(n, low, high) = n
BY DEF Clamped

LEMMA SaturatedIsInt ==
    ASSUME NEW n \in Int
    PROVE  Saturated(n) \in Int /\ (n \in Coordinates => Saturated(n) = n)
BY PopoverAssumption DEF Saturated, Coordinates

\* The arithmetic of popover_position_in_outputs.
LEMMA InOutputIsOn ==
    ASSUME NEW r \in Outputs, NEW anchor \in Coordinates \X Coordinates, Rect(r), Holds(r, anchor)
    PROVE  OnOutput(InOutput(r, anchor), r, anchor)
<1> DEFINE ax == anchor[1]
           ay == anchor[2]
           right == Right(r)
           bottom == Bottom(r)
           highX == Max({Saturated(right - Width), r.x})
           highY == Max({Saturated(bottom - Height), r.y})
           proposed == IF ay >= Saturated(r.y + (r.height \div 2)) THEN Above(ay) ELSE Below(ay)
           at == InOutput(r, anchor)
<1>1. /\ Largest \in Nat /\ Width \in 1..Largest /\ Height \in 1..Largest
      /\ r.x \in Coordinates /\ r.y \in Coordinates /\ ax \in Coordinates /\ ay \in Coordinates
      /\ r.width \in 1..Largest /\ r.height \in 1..Largest
  BY PopoverAssumption DEF Outputs, Rect, Coordinates
<1>2. /\ right = r.x + r.width /\ bottom = r.y + r.height
      /\ right \in Coordinates /\ bottom \in Coordinates
      /\ ax >= r.x /\ ax < right /\ ay >= r.y /\ ay < bottom
  BY <1>1 DEF Rect, Holds, Right, Bottom, Coordinates
<1>3. at = <<Clamped(Beside(ax), r.x, highX), Clamped(proposed, r.y, highY)>>
  BY DEF InOutput
<1> HIDE DEF at, ax, ay, right, bottom
<1>4. /\ highX \in Int /\ r.x <= highX /\ highX < right
      /\ r.width >= Width => highX + Width <= right
  BY <1>1, <1>2, MaxOfTwo DEF Saturated, Coordinates
<1>5. /\ highY \in Int /\ r.y <= highY /\ highY < bottom
      /\ r.height >= Height => highY = bottom - Height
  BY <1>1, <1>2, MaxOfTwo DEF Saturated, Coordinates
<1>6. Beside(ax) \in Int /\ proposed \in Int
  BY <1>1, <1>2 DEF Beside, Above, Below, Saturated, Coordinates
<1>7. /\ at[1] \in r.x..highX /\ at[2] \in r.y..highY
      /\ proposed \in r.y..highY => at[2] = proposed
  <2> HIDE DEF highX, highY, proposed
  <2>1. r.x \in Int /\ r.y \in Int
    BY <1>1 DEF Coordinates
  <2> QED BY <1>3, <1>4, <1>5, <1>6, <2>1, ClampedBetween
<1>8. Holds(r, at)
  <2> HIDE DEF highX, highY, proposed
  <2>1. at[1] \in r.x..(right - 1) /\ at[2] \in r.y..(bottom - 1)
    BY <1>1, <1>2, <1>4, <1>5, <1>7 DEF Coordinates
  <2> QED BY <2>1 DEF Holds, right, bottom
<1>9. /\ r.width >= Width => at[1] + Width <= right
      /\ r.height >= Height => at[2] + Height <= bottom
  <2> HIDE DEF highX, highY, proposed
  <2> QED BY <1>1, <1>2, <1>4, <1>5, <1>7 DEF Coordinates
<1>10. ASSUME r.height >= 2 * (Height + 30)
       PROVE  ay \notin at[2]..(at[2] + Height)
  <2>1. r.height >= Height
    BY <1>1, <1>10
  <2>2. CASE ay >= Saturated(r.y + (r.height \div 2))
    <3>1. Saturated(r.y + (r.height \div 2)) >= r.y + Height + 30
      BY <1>1, <1>2, <1>10 DEF Saturated, Coordinates
    <3>2. ay >= r.y + Height + 30
      BY <1>1, <2>2, <3>1 DEF Saturated, Coordinates
    <3>3. proposed = ay - Height - 10
      BY <1>1, <1>2, <2>2, <3>2 DEF Above, Saturated, Coordinates
    <3>4. proposed \in r.y..highY
      BY <1>1, <1>2, <1>5, <2>1, <3>2, <3>3 DEF Coordinates
    <3>5. at[2] = ay - Height - 10
      BY <1>7, <3>3, <3>4
    <3> QED BY <1>1, <3>5 DEF Coordinates
  <2>3. CASE ~(ay >= Saturated(r.y + (r.height \div 2)))
    <3>1. ay < r.y + (r.height \div 2)
      BY <1>1, <1>2, <2>3 DEF Saturated, Coordinates
    <3>2. ay + 30 <= bottom - Height
      BY <1>1, <1>2, <1>10, <3>1 DEF Coordinates
    <3>3. proposed = ay + 30
      BY <1>1, <1>2, <2>3, <3>2 DEF Below, Saturated, Coordinates
    <3>4. proposed \in r.y..highY
      BY <1>1, <1>2, <1>5, <2>1, <3>2, <3>3 DEF Coordinates
    <3>5. at[2] = ay + 30
      BY <1>7, <3>3, <3>4
    <3> QED BY <1>1, <3>5 DEF Coordinates
  <2> QED BY <2>2, <2>3
<1> QED BY <1>8, <1>9, <1>10 DEF OnOutput, at, ay, right, bottom

Placed == place # None => /\ place.anchor \in Anchors /\ place.screen \in Screens
                          /\ place.at = Position(place.anchor, place.screen)

LEMMA PlacedOpens == Placed => OpensOnOutput
<1> SUFFICES ASSUME Placed, place # None, place.anchor # None, place.screen # None,
                    NEW on, on = {i \in DOMAIN place.screen :
                                     Rect(place.screen[i]) /\ Holds(place.screen[i], place.anchor)},
                    on # {}
             PROVE  OnOutput(place.at, place.screen[Min(on)], place.anchor)
  BY DEF OpensOnOutput, OnOutput
<1>1. place.anchor \in Coordinates \X Coordinates /\ place.screen \in Seq(Outputs)
  BY PopoverAssumption DEF Placed
<1>2. on \subseteq Nat
  BY <1>1
<1>3. Min(on) \in on
  BY <1>2, LeastOfNaturals
<1>4. place.screen[Min(on)] \in Outputs
  <2>1. \A screen \in Seq(Outputs) : \A i \in DOMAIN screen : screen[i] \in Outputs
    OBVIOUS
  <2>2. Min(on) \in DOMAIN place.screen
    BY <1>3
  <2> QED BY <1>1, <2>1, <2>2
<1>5. place.at = InOutput(place.screen[Min(on)], place.anchor)
  BY DEF Placed, Position
<1> QED BY <1>1, <1>3, <1>4, <1>5, InOutputIsOn

\* Wherever the click was and whatever Sway answers: a popover whose click lies
\* on an output opens on that output, whole if it fits, beside the clicked row
\* if there is room (position_sway_popover, popover_position_in_outputs).
THEOREM OpensWhereClicked == Spec => []OpensOnOutput
<1>1. Init => Placed
  BY DEF Init, Placed
<1>2. Placed /\ [Next]_vars => Placed'
  <2> SUFFICES ASSUME Placed, [Next]_vars PROVE Placed'
    OBVIOUS
  <2>1. ASSUME NEW anchor \in Anchors, Present(anchor) PROVE Placed'
    BY <2>1 DEF Present, Placed
  <2>2. ASSUME Still PROVE Placed'
    BY <2>2 DEF Still, Placed
  <2>3. CASE UNCHANGED vars
    BY <2>3 DEF vars, Placed
  <2> QED BY <2>1, <2>2, <2>3
          DEF Next, Dismiss, Refresh, Receive, SetTimeframe, Rerender, TurnPage,
              UserFocuses, GtkFocuses, RunIdle
<1> QED BY <1>1, <1>2, PlacedOpens, PTL DEF Spec

-----------------------------------------------------------------------------
(* The focus. *)

Controls == Targets \cup {None}
Calls == [op : {"restore", "deselect"}, target : Controls, current : BOOLEAN]
Windows == [visible : BOOLEAN, content : {"loading", "snapshot", "error"}, refreshing : BOOLEAN,
            page : Int, pages : Int, adjustable : BOOLEAN, focus : Controls, kept : Controls,
            decided : Controls \cup {"undone"}, idle : Seq(Calls)]

\* What the user or GTK has decided is where the focus is.
DecisionStands(w) == w.decided \notin {None, "undone"} => w.focus = w.decided

\* Otherwise a focus was given back.
GivenBack(w) == w.decided \in {None, "undone"} /\ w.focus # None
                  => w.kept # None /\ w.focus = Grabbed(w, w.kept)

\* A callback that still counts is the last render's.
OneRestore(w) == \A i \in DOMAIN w.idle :
                    w.idle[i].op = "restore" /\ w.idle[i].current = TRUE
                       => w.idle[i].target = w.kept /\ w.kept # None

\* What was not given back yet will be.
StillToGive(w) == w.visible = TRUE /\ w.decided = None /\ w.focus = None /\ w.kept # None
                    => \E i \in DOMAIN w.idle : w.idle[i].op = "restore" /\ w.idle[i].current = TRUE

Kept(w) == DecisionStands(w) /\ GivenBack(w) /\ OneRestore(w) /\ StillToGive(w)

LEMMA NoneIsNoControl == None \notin Targets /\ "undone" \notin Targets /\ None # "undone"
BY PopoverAssumption DEF Targets, Actions, Pager

LEMMA SensitiveTargets ==
    ASSUME NEW w
    PROVE  /\ Sensitive(w) \subseteq Targets \ {"label"} /\ Focusable(w) \subseteq Targets
           /\ "Autostart" \in Sensitive(w)
<1>1. Registered(w) \subseteq Targets \ {"label"}
  BY PopoverAssumption DEF Registered, Targets, Actions, Pager
<1>2. "Autostart" \in Registered(w)
  BY DEF Registered, Actions
<1> QED BY <1>1, <1>2 DEF Sensitive, Focusable, Targets

\* focus_restore_order begins with the control itself, then the other button of
\* the pager, and always has a control that can be focused.
LEMMA OrderShape ==
    ASSUME NEW t
    PROVE  LET order == FocusRestoreOrder(t)
           IN  /\ DOMAIN order \subseteq 1..4 /\ 1 \in DOMAIN order /\ order[1] = t
               /\ \E i \in DOMAIN order : order[i] = "Autostart"
               /\ t \in Pager => 2 \in DOMAIN order /\ {order[1], order[2]} = Pager
<1>1. CASE t = "HistoryNewer" BY <1>1 DEF FocusRestoreOrder, Pager
<1>2. CASE t = "HistoryOlder" BY <1>2 DEF FocusRestoreOrder, Pager
<1>3. CASE t = "Refresh" BY <1>3 DEF FocusRestoreOrder, Pager
<1>4. CASE t = "Autostart" BY <1>4 DEF FocusRestoreOrder, Pager
<1>5. CASE t = "Quit" BY <1>5 DEF FocusRestoreOrder, Pager
<1>6. CASE t \notin {"HistoryNewer", "HistoryOlder", "Refresh", "Autostart", "Quit"}
  <2>1. FocusRestoreOrder(t) = <<t, "Refresh", "Autostart", "Quit">>
    BY <1>6 DEF FocusRestoreOrder
  <2> QED BY <1>6, <2>1 DEF Pager
<1> QED BY <1>1, <1>2, <1>3, <1>4, <1>5, <1>6

LEMMA GrabbedIsNear ==
    ASSUME NEW w, NEW t
    PROVE  /\ Grabbed(w, t) \in Sensitive(w)
           /\ t \in Sensitive(w) => Grabbed(w, t) = t
           /\ t \in Pager /\ Pager \cap Sensitive(w) # {} => Grabbed(w, t) \in Pager
<1> DEFINE order == FocusRestoreOrder(t)
           able == {i \in DOMAIN order : order[i] \in Sensitive(w)}
<1>1. able \subseteq 1..4 /\ able # {}
  BY OrderShape, SensitiveTargets
<1>2. Grabbed(w, t) = order[Min(able)]
  BY <1>1 DEF Grabbed
<1>3. Min(able) \in able /\ \A i \in able : Min(able) <= i
  <2>1. able \subseteq Nat
    BY <1>1
  <2> HIDE DEF able
  <2> QED BY <1>1, <2>1, LeastOfNaturals
<1>4. ASSUME t \in Sensitive(w) PROVE Min(able) = 1
  <2>1. 1 \in able
    BY <1>4, OrderShape
  <2> QED BY <1>1, <1>3, <2>1
<1>5. ASSUME t \in Pager, Pager \cap Sensitive(w) # {} PROVE order[Min(able)] \in Pager
  <2>1. 1 \in able \/ 2 \in able
    BY <1>5, OrderShape
  <2>2. Min(able) \in {1, 2}
    BY <1>1, <1>3, <2>1
  <2> QED BY <1>5, <2>2, OrderShape
<1> QED BY <1>2, <1>3, <1>4, <1>5, OrderShape

LEMMA InvalidatedIdle ==
    ASSUME NEW w \in Windows
    PROVE  LET v == Invalidated(w)
           IN  /\ v \in Windows /\ v = [w EXCEPT !.idle = v.idle]
               /\ \A i \in DOMAIN v.idle : v.idle[i].current = FALSE
<1> DEFINE faded == [i \in DOMAIN w.idle |-> [w.idle[i] EXCEPT !.current = FALSE]]
<1>1. w.idle \in Seq(Calls)
  BY DEF Windows
<1>2. \A i \in DOMAIN w.idle : w.idle[i] \in Calls
  BY <1>1
<1>3. \A c \in Calls : [c EXCEPT !.current = FALSE] \in Calls /\ [c EXCEPT !.current = FALSE].current = FALSE
  BY DEF Calls
<1>4. faded \in Seq(Calls) /\ \A i \in DOMAIN faded : faded[i].current = FALSE
  BY <1>1, <1>2, <1>3
<1>5. Invalidated(w) = [w EXCEPT !.idle = faded]
  BY DEF Invalidated
<1> HIDE DEF faded
<1>6. [w EXCEPT !.idle = faded] \in Windows /\ [w EXCEPT !.idle = faded].idle = faded
  BY <1>4 DEF Windows
<1> QED BY <1>4, <1>5, <1>6

\* What Grabbed looks at.
LEMMA SameContentSameGrab ==
    ASSUME NEW v, NEW w, NEW t,
           /\ v.content = w.content /\ v.pages = w.pages /\ v.page = w.page
           /\ v.refreshing = w.refreshing /\ v.adjustable = w.adjustable
    PROVE  Grabbed(v, t) = Grabbed(w, t)
<1>1. Sensitive(v) = Sensitive(w)
  BY DEF Sensitive, Registered
<1> QED BY <1>1 DEF Grabbed

LEMMA ClearedKept ==
    ASSUME NEW w \in Windows
    PROVE  /\ ClearedFocus(w) \in Windows /\ Kept(ClearedFocus(w))
           /\ ClearedFocus(w).kept = None
           /\ LET v == [ClearedFocus(w) EXCEPT !.visible = FALSE] IN v \in Windows /\ Kept(v)
<1> DEFINE v == Invalidated(w)
           c == ClearedFocus(w)
<1>1. v \in Windows /\ \A i \in DOMAIN v.idle : v.idle[i].current = FALSE
  BY InvalidatedIdle
<1>2. c = [v EXCEPT !.focus = None, !.kept = None, !.decided = None]
  BY DEF ClearedFocus
<1> HIDE DEF v, c
<1>3. c \in Windows /\ c.focus = None /\ c.kept = None /\ c.decided = None /\ c.idle = v.idle
  BY <1>1, <1>2 DEF Windows, Controls
<1>4. Kept(c)
  BY <1>1, <1>3 DEF Kept, DecisionStands, GivenBack, OneRestore, StillToGive
<1> DEFINE d == [c EXCEPT !.visible = FALSE]
<1>5. d \in Windows /\ d.focus = None /\ d.kept = None /\ d.decided = None /\ d.idle = v.idle
  BY <1>3 DEF Windows
<1> HIDE DEF d
<1>6. Kept(d)
  BY <1>1, <1>5 DEF Kept, DecisionStands, GivenBack, OneRestore, StillToGive
<1> QED BY <1>3, <1>4, <1>5, <1>6 DEF c, d

\* Whatever came before, a render leaves the focus to the one callback it adds.
LEMMA RenderedKept ==
    ASSUME NEW w \in Windows
    PROVE  /\ Rendered(w) \in Windows /\ Kept(Rendered(w))
           /\ Rendered(w).visible = w.visible
<1> DEFINE v == Invalidated(w)
           back == IF w.visible /\ w.focus # "label" THEN w.focus ELSE None
           gone == [v EXCEPT !.focus = None, !.kept = back, !.decided = None]
           call == [op |-> "restore", target |-> back, current |-> TRUE]
<1>1. /\ v \in Windows /\ v = [w EXCEPT !.idle = v.idle]
      /\ \A i \in DOMAIN v.idle : v.idle[i].current = FALSE
  BY InvalidatedIdle
<1>2. back \in Controls /\ call \in Calls
  BY DEF Windows, Controls, Calls
<1>3. Rendered(w) = IF back = None THEN gone ELSE [gone EXCEPT !.idle = Append(@, call)]
  BY DEF Rendered
<1>4. v.visible = w.visible
  <2> HIDE DEF v
  <2> QED BY <1>1 DEF Windows
<1> HIDE DEF v, back
<1>5. /\ gone \in Windows /\ gone.focus = None /\ gone.kept = back /\ gone.decided = None
      /\ gone.idle = v.idle /\ gone.visible = w.visible
  BY <1>1, <1>2, <1>4 DEF Windows, Controls
<1> HIDE DEF gone, call
<1>6. CASE back = None
  BY <1>1, <1>3, <1>5, <1>6 DEF Kept, DecisionStands, GivenBack, OneRestore, StillToGive
<1>7. CASE back # None
  <2> DEFINE more == Append(gone.idle, call)
             r == [gone EXCEPT !.idle = more]
  <2>1. gone.idle \in Seq(Calls)
    BY <1>5 DEF Windows
  <2>2. /\ more \in Seq(Calls) /\ Len(gone.idle) + 1 \in DOMAIN more
        /\ more[Len(gone.idle) + 1] = call
        /\ \A i \in DOMAIN more : more[i] = call \/ (i \in DOMAIN gone.idle /\ more[i] = gone.idle[i])
    BY <1>2, <2>1
  <2> HIDE DEF more
  <2>3. /\ r \in Windows /\ r.focus = None /\ r.kept = back /\ r.decided = None
        /\ r.idle = more /\ r.visible = w.visible
    BY <1>5, <2>2 DEF Windows
  <2>4. Rendered(w) = r
    BY <1>3, <1>7 DEF more
  <2>5. call.op = "restore" /\ call.current = TRUE /\ call.target = back
    BY DEF call
  <2> HIDE DEF r
  <2>6. OneRestore(r)
    BY <1>1, <1>5, <1>7, <2>2, <2>3, <2>5 DEF OneRestore
  <2>7. StillToGive(r)
    BY <2>2, <2>3, <2>5 DEF StillToGive
  <2>8. DecisionStands(r) /\ GivenBack(r)
    BY <2>3 DEF DecisionStands, GivenBack
  <2> QED BY <2>3, <2>4, <2>6, <2>7, <2>8 DEF Kept
<1> QED BY <1>6, <1>7

LEMMA StartRefreshKept ==
    ASSUME NEW w \in Windows, Kept(w)
    PROVE  StartRefresh(w) \in Windows /\ Kept(StartRefresh(w))
<1> DEFINE v == [w EXCEPT !.refreshing = TRUE, !.content = IF @ = "snapshot" THEN @ ELSE "loading"]
<1>1. v \in Windows
  BY DEF Windows
<1>2. Rendered(v) \in Windows /\ Kept(Rendered(v))
  BY <1>1, RenderedKept
<1>3. StartRefresh(w) = IF w.refreshing THEN w ELSE Rendered(v)
  BY DEF StartRefresh
<1> QED BY <1>2, <1>3

\* A popover that was hidden is cleared first, hence nothing is owed to it.
LEMMA DeselectAdded ==
    ASSUME NEW w \in Windows, Kept(w), w.visible = TRUE \/ w.kept = None
    PROVE  LET v == [w EXCEPT !.visible = TRUE,
                              !.idle = Append(@, [op |-> "deselect", target |-> None, current |-> TRUE])]
           IN  v \in Windows /\ Kept(v)
<1> DEFINE call == [op |-> "deselect", target |-> None, current |-> TRUE]
           more == Append(w.idle, call)
           v == [w EXCEPT !.visible = TRUE, !.idle = more]
<1>1. w.idle \in Seq(Calls) /\ call \in Calls
  BY DEF Windows, Calls, Controls
<1>2. call.op # "restore"
  OBVIOUS
<1> HIDE DEF call
<1>3. /\ more \in Seq(Calls)
      /\ \A i \in DOMAIN w.idle : i \in DOMAIN more /\ more[i] = w.idle[i]
      /\ \A i \in DOMAIN more : more[i] = call \/ (i \in DOMAIN w.idle /\ more[i] = w.idle[i])
  BY <1>1
<1> HIDE DEF more
<1>4. /\ v \in Windows /\ v.visible = TRUE /\ v.idle = more
      /\ v.focus = w.focus /\ v.kept = w.kept /\ v.decided = w.decided
  BY <1>3 DEF Windows
<1>5. \A t : Grabbed(v, t) = Grabbed(w, t)
  <2>1. /\ v.content = w.content /\ v.pages = w.pages /\ v.page = w.page
        /\ v.refreshing = w.refreshing /\ v.adjustable = w.adjustable
    BY DEF Windows
  <2> QED BY <2>1, SameContentSameGrab
<1> HIDE DEF v
<1>6. DecisionStands(v) /\ GivenBack(v)
  BY <1>4, <1>5 DEF Kept, DecisionStands, GivenBack
<1>7. OneRestore(v)
  BY <1>2, <1>3, <1>4 DEF Kept, OneRestore
<1>8. StillToGive(v)
  BY <1>3, <1>4 DEF Kept, StillToGive
<1>9. v.idle = more /\ v = [w EXCEPT !.visible = TRUE, !.idle = Append(@, call)]
  BY <1>4 DEF v, more
<1> QED BY <1>4, <1>6, <1>7, <1>8, <1>9 DEF Kept, call

LEMMA ShownKept ==
    ASSUME NEW w \in Windows, Kept(w), NEW stale \in BOOLEAN
    PROVE  Shown(w, stale) \in Windows /\ Kept(Shown(w, stale))
<1> DEFINE clear == IF w.visible THEN w ELSE ClearedFocus(w)
           top == IF clear.page # 0 THEN Rendered([clear EXCEPT !.page = 0]) ELSE clear
           shown == [top EXCEPT !.visible = TRUE,
                                !.idle = Append(@, [op |-> "deselect", target |-> None, current |-> TRUE])]
<1>1. /\ clear \in Windows /\ Kept(clear)
      /\ clear.visible = TRUE \/ (clear.visible = FALSE /\ clear.kept = None)
  <2>1. CASE w.visible = TRUE
    BY <2>1
  <2>2. CASE w.visible = FALSE
    <3>1. ClearedFocus(w).visible = FALSE
      <4>1. Invalidated(w) \in Windows /\ Invalidated(w) = [w EXCEPT !.idle = Invalidated(w).idle]
        BY InvalidatedIdle
      <4>2. Invalidated(w).visible = FALSE
        <5> DEFINE v == Invalidated(w)
        <5> HIDE DEF v
        <5> QED BY <2>2, <4>1 DEF v, Windows
      <4> QED BY <4>1, <4>2 DEF ClearedFocus, Windows
    <3> QED BY <2>2, <3>1, ClearedKept
  <2> QED BY <2>1, <2>2 DEF Windows
<1> HIDE DEF clear
<1>2. [clear EXCEPT !.page = 0] \in Windows /\ [clear EXCEPT !.page = 0].visible = clear.visible
  BY <1>1 DEF Windows
<1>3. ASSUME NEW v \in Windows, v.visible = FALSE PROVE Rendered(v).kept = None
  <2>1. Invalidated(v) \in Windows
    BY <1>3, InvalidatedIdle
  <2> QED BY <1>3, <2>1 DEF Rendered, Windows
<1>4. top \in Windows /\ Kept(top) /\ (top.visible = TRUE \/ top.kept = None)
  BY <1>1, <1>2, <1>3, RenderedKept
<1> HIDE DEF top
<1>5. shown \in Windows /\ Kept(shown)
  BY <1>4, DeselectAdded
<1>6. Shown(w, stale) = IF stale THEN StartRefresh(shown) ELSE shown
  BY DEF Shown, top, clear
<1> HIDE DEF shown
<1> QED BY <1>5, <1>6, StartRefreshKept

\* The idle callback: it gives the focus back, or another one still will.
LEMMA IdleKept ==
    ASSUME NEW w \in Windows, Kept(w), w.idle # <<>>
    PROVE  LET call == Head(w.idle)
               rest == [w EXCEPT !.idle = Tail(@)]
               v == IF call.op = "restore" THEN Restored(rest, call) ELSE Deselected(rest)
           IN  v \in Windows /\ Kept(v)
<1> DEFINE call == Head(w.idle)
           tail == Tail(w.idle)
           rest == [w EXCEPT !.idle = tail]
<1>1. w.idle \in Seq(Calls)
  BY DEF Windows
<1>2. /\ tail \in Seq(Calls) /\ call \in Calls /\ call = w.idle[1] /\ 1 \in DOMAIN w.idle
      /\ \A i \in DOMAIN tail : i + 1 \in DOMAIN w.idle /\ tail[i] = w.idle[i + 1]
      /\ \A i \in DOMAIN w.idle : i = 1 \/ (i - 1 \in DOMAIN tail /\ tail[i - 1] = w.idle[i])
  BY <1>1
<1> HIDE DEF call, tail
<1>3. /\ rest \in Windows /\ rest.idle = tail /\ rest.visible = w.visible
      /\ rest.focus = w.focus /\ rest.kept = w.kept /\ rest.decided = w.decided
  BY <1>2 DEF Windows
<1>4. \A t : Grabbed(rest, t) = Grabbed(w, t)
  <2>1. /\ rest.content = w.content /\ rest.pages = w.pages /\ rest.page = w.page
        /\ rest.refreshing = w.refreshing /\ rest.adjustable = w.adjustable
    BY DEF Windows
  <2> QED BY <2>1, SameContentSameGrab
<1> HIDE DEF rest
<1>5. DecisionStands(rest) /\ GivenBack(rest) /\ OneRestore(rest)
  <2>1. DecisionStands(rest) /\ GivenBack(rest)
    BY <1>3, <1>4 DEF Kept, DecisionStands, GivenBack
  <2>2. OneRestore(rest)
    BY <1>2, <1>3 DEF Kept, OneRestore
  <2> QED BY <2>1, <2>2
<1>6. ASSUME ~(call.op = "restore" /\ call.current = TRUE) PROVE StillToGive(rest)
  <2> SUFFICES ASSUME w.visible = TRUE, w.decided = None, w.focus = None, w.kept # None
               PROVE  \E i \in DOMAIN tail : tail[i].op = "restore" /\ tail[i].current = TRUE
    BY <1>3 DEF StillToGive
  <2>1. PICK i \in DOMAIN w.idle : w.idle[i].op = "restore" /\ w.idle[i].current = TRUE
    BY DEF Kept, StillToGive
  <2>2. i # 1
    BY <1>2, <1>6, <2>1
  <2> QED BY <1>2, <2>1, <2>2
<1>7. ASSUME call.op = "restore"
      PROVE  Restored(rest, call) \in Windows /\ Kept(Restored(rest, call))
  <2>1. CASE ~call.current \/ ~rest.visible \/ rest.focus # None
    <3>1. Restored(rest, call) = rest
      BY <2>1 DEF Restored
    <3>2. StillToGive(rest)
      BY <1>3, <1>6, <2>1 DEF StillToGive
    <3> QED BY <1>3, <1>5, <3>1, <3>2 DEF Kept
  <2>2. CASE ~(~call.current \/ ~rest.visible \/ rest.focus # None)
    <3> DEFINE back == Grabbed(rest, call.target)
               v == [rest EXCEPT !.focus = back]
    <3>1. Restored(rest, call) = v
      BY <2>2 DEF Restored
    <3>2. back \in Controls /\ back # None
      BY GrabbedIsNear, SensitiveTargets, NoneIsNoControl DEF Controls
    <3>3. call.target = rest.kept
      BY <1>2, <1>3, <1>7, <2>2 DEF Kept, OneRestore, Calls
    <3>4. Grabbed(v, rest.kept) = back
      <4>1. /\ v.content = rest.content /\ v.pages = rest.pages /\ v.page = rest.page
            /\ v.refreshing = rest.refreshing /\ v.adjustable = rest.adjustable
        BY <1>3 DEF Windows
      <4> HIDE DEF v
      <4>2. Grabbed(v, rest.kept) = Grabbed(rest, rest.kept)
        BY <4>1, SameContentSameGrab
      <4> QED BY <3>3, <4>2
    <3> HIDE DEF back
    <3>5. /\ v \in Windows /\ v.focus = back /\ v.kept = rest.kept
          /\ v.decided = rest.decided /\ v.idle = rest.idle
      BY <1>3, <3>2 DEF Windows
    <3> HIDE DEF v
    <3>6. rest.decided \in {None, "undone"}
      BY <1>5, <2>2 DEF DecisionStands
    <3>7. rest.kept # None
      \* A render adds such a callback for a focus that there was.
      BY <1>2, <1>3, <1>7, <2>2 DEF Kept, OneRestore, Calls
    <3>8. Kept(v)
      BY <1>5, <3>2, <3>4, <3>5, <3>6, <3>7
         DEF Kept, DecisionStands, GivenBack, OneRestore, StillToGive
    <3> QED BY <3>1, <3>5, <3>8
  <2> QED BY <2>1, <2>2
<1>8. ASSUME call.op # "restore"
      PROVE  Deselected(rest) \in Windows /\ Kept(Deselected(rest))
  <2>1. Kept(rest)
    BY <1>5, <1>6, <1>8 DEF Kept
  <2>2. CASE rest.focus # "label"
    BY <1>3, <2>1, <2>2 DEF Deselected
  <2>3. CASE rest.focus = "label"
    <3> DEFINE v == [rest EXCEPT !.focus = None, !.decided = "undone"]
    <3>1. /\ v \in Windows /\ v.focus = None /\ v.decided = "undone" /\ v.kept = rest.kept
          /\ v.idle = rest.idle
      BY <1>3 DEF Windows, Controls
    <3> HIDE DEF v
    <3>2. Kept(v)
      BY <2>1, <3>1, NoneIsNoControl DEF Kept, DecisionStands, GivenBack, OneRestore, StillToGive
    <3> QED BY <2>3, <3>1, <3>2 DEF Deselected, v
  <2> QED BY <2>2, <2>3
<1>9. rest = [w EXCEPT !.idle = Tail(@)]
  BY DEF rest, tail
<1> QED BY <1>7, <1>8, <1>9 DEF call

FocusInv == p \in Windows /\ Kept(p)

LEMMA MinOfTwo ==
    ASSUME NEW a \in Int, NEW b \in Int
    PROVE  Min({a, b}) \in Int
<1>1. CASE a <= b
  BY <1>1 DEF Min
<1>2. CASE ~(a <= b)
  BY <1>2 DEF Min
<1> QED BY <1>1, <1>2

LEMMA InitFocusInv == Init => FocusInv
<1> SUFFICES ASSUME Init PROVE FocusInv
  OBVIOUS
<1>1. p \in Windows
  <2>1. <<>> \in Seq(Calls)
    OBVIOUS
  <2> QED BY <2>1 DEF Init, Windows, Controls
<1>2. Kept(p)
  BY DEF Init, Kept, DecisionStands, GivenBack, OneRestore, StillToGive
<1> QED BY <1>1, <1>2 DEF FocusInv

LEMMA ReceiveKept == FocusInv /\ Receive => FocusInv'
<1> SUFFICES ASSUME FocusInv, Receive PROVE FocusInv'
  OBVIOUS
<1>1. ASSUME NEW pages \in 1..MaxPages, NEW adjustable \in BOOLEAN,
             p' = Rendered([p EXCEPT !.refreshing = FALSE, !.content = "snapshot", !.pages = pages,
                                     !.page = Min({@, pages - 1}), !.adjustable = adjustable])
      PROVE  FocusInv'
  <2>1. pages \in Int /\ p.page \in Int
    BY PopoverAssumption DEF FocusInv, Windows
  <2>2. Min({p.page, pages - 1}) \in Int
    BY <2>1, MinOfTwo
  <2>3. [p EXCEPT !.refreshing = FALSE, !.content = "snapshot", !.pages = pages,
                  !.page = Min({@, pages - 1}), !.adjustable = adjustable] \in Windows
    BY <2>1, <2>2 DEF FocusInv, Windows
  <2> QED BY <1>1, <2>3, RenderedKept DEF FocusInv
<1>2. ASSUME p' = Rendered([p EXCEPT !.refreshing = FALSE,
                                     !.content = IF @ = "snapshot" THEN @ ELSE "error"])
      PROVE  FocusInv'
  <2>1. [p EXCEPT !.refreshing = FALSE, !.content = IF @ = "snapshot" THEN @ ELSE "error"] \in Windows
    BY DEF FocusInv, Windows
  <2> QED BY <1>2, <2>1, RenderedKept DEF FocusInv
<1> QED BY <1>1, <1>2 DEF Receive, Becomes

LEMMA SetTimeframeKept == FocusInv /\ SetTimeframe => FocusInv'
<1> SUFFICES ASSUME FocusInv, SetTimeframe PROVE FocusInv'
  OBVIOUS
<1>1. ASSUME NEW pages \in 1..MaxPages, NEW adjustable \in BOOLEAN,
             p' = Rendered([p EXCEPT !.page = 0, !.pages = pages, !.adjustable = adjustable])
      PROVE  FocusInv'
  <2>1. pages \in Int
    BY PopoverAssumption
  <2>2. 0 \in Int /\ p \in Windows
    BY DEF FocusInv
  <2>3. [p EXCEPT !.page = 0, !.pages = pages, !.adjustable = adjustable] \in Windows
    BY <2>1, <2>2 DEF Windows
  <2> QED BY <1>1, <2>3, RenderedKept DEF FocusInv
<1>2. ASSUME p' = Rendered(p) PROVE FocusInv'
  BY <1>2, RenderedKept DEF FocusInv
<1> QED BY <1>1, <1>2 DEF SetTimeframe, Becomes

LEMMA PageKept ==
    ASSUME FocusInv, NEW page \in Int
    PROVE  LET w == Rendered([p EXCEPT !.page = page]) IN w \in Windows /\ Kept(w)
<1>1. [p EXCEPT !.page = page] \in Windows
  BY DEF FocusInv, Windows
<1> QED BY <1>1, RenderedKept

LEMMA TurnPageKept == FocusInv /\ TurnPage => FocusInv'
<1> SUFFICES ASSUME FocusInv, TurnPage PROVE FocusInv'
  OBVIOUS
<1>1. p.page - 1 \in Int /\ p.page + 1 \in Int
  BY DEF FocusInv, Windows
<1>2. p' = Rendered([p EXCEPT !.page = p.page - 1]) \/ p' = Rendered([p EXCEPT !.page = p.page + 1])
  BY DEF TurnPage, Becomes
<1>3. CASE p' = Rendered([p EXCEPT !.page = p.page - 1])
  BY <1>1, <1>3, PageKept DEF FocusInv
<1>4. CASE p' = Rendered([p EXCEPT !.page = p.page + 1])
  BY <1>1, <1>4, PageKept DEF FocusInv
<1> QED BY <1>2, <1>3, <1>4

\* Whoever moves the focus by hand decides.
LEMMA FocusesKept ==
    ASSUME FocusInv, NEW t \in Focusable(p), p' = [p EXCEPT !.focus = t, !.decided = t]
    PROVE  FocusInv'
<1>1. t \in Targets /\ t # None /\ t # "undone"
  BY SensitiveTargets, NoneIsNoControl
<1>2. /\ p' \in Windows /\ p'.focus = t /\ p'.decided = t /\ p'.kept = p.kept /\ p'.idle = p.idle
  BY <1>1 DEF FocusInv, Windows, Controls
<1>3. Kept(p')
  BY <1>1, <1>2 DEF FocusInv, Kept, DecisionStands, GivenBack, OneRestore, StillToGive
<1> QED BY <1>2, <1>3 DEF FocusInv

LEMMA NextFocusInv == FocusInv /\ [Next]_vars => FocusInv'
<1> SUFFICES ASSUME FocusInv, [Next]_vars PROVE FocusInv'
  OBVIOUS
<1>1. ASSUME NEW anchor \in Anchors, Present(anchor) PROVE FocusInv'
  BY <1>1, ShownKept DEF Present, Becomes, FocusInv
<1>2. CASE Dismiss
  BY <1>2, ClearedKept DEF Dismiss, Becomes, FocusInv
<1>3. CASE Refresh
  BY <1>3, StartRefreshKept DEF Refresh, Becomes, FocusInv
<1>4. CASE Rerender
  BY <1>4, RenderedKept DEF Rerender, Becomes, FocusInv
<1>5. ASSUME NEW t \in Targets, UserFocuses(t) \/ GtkFocuses(t) PROVE FocusInv'
  BY <1>5, FocusesKept DEF UserFocuses, GtkFocuses, Becomes
<1>6. CASE RunIdle
  BY <1>6, IdleKept DEF RunIdle, Becomes, FocusInv
<1>7. CASE UNCHANGED vars
  BY <1>7 DEF vars, FocusInv
<1> QED BY <1>1, <1>2, <1>3, <1>4, <1>5, <1>6, <1>7, ReceiveKept, SetTimeframeKept, TurnPageKept
        DEF Next

LEMMA KeptIsKept == FocusInv => FocusIsKept
<1> SUFFICES ASSUME FocusInv, p.idle = <<>>, p.visible = TRUE PROVE FocusIsKept
  BY DEF FocusInv, Windows, FocusIsKept
<1>1. DecisionStands(p) /\ GivenBack(p)
  BY DEF FocusInv, Kept
<1>2. p.decided = None /\ p.focus = None => p.kept = None
  BY DEF FocusInv, Kept, StillToGive
<1>3. CASE p.decided = "undone"
  BY <1>1, <1>3, GrabbedIsNear, NoneIsNoControl DEF GivenBack, FocusIsKept
<1>4. CASE p.decided = None
  <2>1. (p.focus = None) = (p.kept = None)
    \* A control that was kept is given back, and nothing else is.
    BY <1>1, <1>2, <1>4 DEF GivenBack
  <2>2. p.kept # None => p.focus = Grabbed(p, p.kept)
    BY <1>1, <1>4, <2>1 DEF GivenBack
  <2>3. p.kept \in Sensitive(p) \/ p.kept \in Pager => p.kept # None
    BY SensitiveTargets, NoneIsNoControl DEF Targets
  <2> QED BY <1>4, <2>1, <2>2, <2>3, GrabbedIsNear, NoneIsNoControl DEF FocusIsKept
<1>5. CASE p.decided \notin {None, "undone"}
  BY <1>1, <1>5 DEF DecisionStands, FocusIsKept
<1> QED BY <1>3, <1>4, <1>5

\* However renders, showings, the idle callbacks and the user interleave: when
\* no callback waits, the focus is where the user or GTK has put it since the
\* last render, or else back where that render took it from, or near it
\* (restore_focus_after_render, focus_restore_order, clear_window_focus).
THEOREM FocusNeverStrays == Spec => []FocusIsKept
BY InitFocusInv, NextFocusInv, KeptIsKept, PTL DEF Spec

-----------------------------------------------------------------------------
(* The rate-limit answer: its paths. *)

Malformed == {"bad", "null"}

\* What is in an answer is in an object that is in it, and is good or malformed.
AnswerInv ==
    /\ outcome \in {"missing", "failed", "malformed", "object"}
    /\ DOMAIN raw \subseteq Seq(Names)
    /\ \A path \in DOMAIN raw : raw[path] \in Good(path) \cup Malformed
    /\ \A path \in DOMAIN raw :
          \E parent \in {<<>>} \cup {o \in DOMAIN raw : raw[o] = "object"} : path \in Children(parent)

\* What a sequence longer by one is.
IsAppend(t, s, x) ==
    /\ Len(t) = Len(s) + 1 /\ t[Len(s) + 1] = x /\ \A i \in 1..Len(s) : t[i] = s[i]
    /\ t # <<>> /\ Last(t) = x /\ Front(t) = s

LEMMA AppendIs ==
    ASSUME NEW S, NEW s \in Seq(S), NEW x \in S
    PROVE  Append(s, x) \in Seq(S) /\ Len(s) \in Nat /\ IsAppend(Append(s, x), s, x)
<1> DEFINE t == Append(s, x)
           n == Len(s)
<1>1. /\ t \in Seq(S) /\ n \in Nat /\ Len(t) = n + 1
      /\ t[n + 1] = x /\ \A i \in 1..n : t[i] = s[i]
  OBVIOUS
<1>2. t # <<>>
  <2> HIDE DEF t, n
  <2> QED BY <1>1
<1>3. Last(t) = x
  <2> HIDE DEF t, n
  <2> QED BY <1>1 DEF Last
<1>4. Front(t) = s
  <2> HIDE DEF t
  <2> QED BY <1>1 DEF Front
<1> QED BY <1>1, <1>2, <1>3, <1>4 DEF IsAppend

LEMMA OneIs ==
    ASSUME NEW S, NEW x \in S
    PROVE  <<x>> \in Seq(S) /\ Len(<<x>>) = 1 /\ <<x>>[1] = x /\ <<x>> # <<>> /\ Last(<<x>>) = x
BY DEF Last

LEMMA NamesAre ==
    /\ \A key \in ToSet(Keys) : key \in Names
    /\ \A at \in Snapshots : Fields[at] \subseteq SnapshotFields
    /\ SnapshotFields \subseteq Names /\ CreditFields \subseteq Names /\ IndividualFields \subseteq Names
    /\ {"rateLimits", "rateLimitsByLimitId", "rateLimitResetCredits"} \subseteq Names
<1>1. \A at \in Snapshots : Fields[at] \subseteq SnapshotFields
  BY RateLimitsAssumption
<1> QED BY <1>1, Zenon DEF Names

LEMMA ByIdIs == ById \in Seq(Names) /\ Len(ById) = 1 /\ ById[1] = "rateLimitsByLimitId" /\ ById # <<>>
<1>1. "rateLimitsByLimitId" \in Names
  BY NamesAre
<1> QED BY <1>1, OneIs, Zenon DEF ById

LEMMA GeneralIs ==
  <<"rateLimits">> \in Seq(Names) /\ Len(<<"rateLimits">>) = 1 /\ <<"rateLimits">>[1] = "rateLimits"
<1>1. "rateLimits" \in Names
  BY NamesAre
<1> QED BY <1>1, OneIs, Zenon

LEMMA ResetIs ==
  <<"rateLimitResetCredits">> \in Seq(Names) /\ Len(<<"rateLimitResetCredits">>) = 1
  /\ <<"rateLimitResetCredits">>[1] = "rateLimitResetCredits"
<1>1. "rateLimitResetCredits" \in Names
  BY NamesAre
<1> QED BY <1>1, OneIs, Zenon


\* What a snapshot's path looks like.
LEMMA SnapshotPath ==
    ASSUME NEW at \in Snapshots
    PROVE  /\ at \in Seq(Names) /\ at # <<>>
           /\ \/ at = <<"rateLimits">> /\ Len(at) = 1 /\ at[1] = "rateLimits"
              \/ /\ Len(at) = 2 /\ at[1] = "rateLimitsByLimitId" /\ Front(at) = ById
                 /\ \E key \in ToSet(Keys) : at = Append(ById, key)
<1>1. at = <<"rateLimits">> \/ \E key \in ToSet(Keys) : at = Append(ById, key)
  BY DEF Snapshots
<1>2. CASE at = <<"rateLimits">>
  BY <1>2, GeneralIs
<1>3. CASE \E key \in ToSet(Keys) : at = Append(ById, key)
  <2>1. PICK key \in ToSet(Keys) : at = Append(ById, key)
    BY <1>3
  <2>2. key \in Names
    BY NamesAre
  <2>3. at \in Seq(Names) /\ IsAppend(at, ById, key)
    BY <2>1, <2>2, ByIdIs, AppendIs
  <2>4. Len(at) = 2 /\ at[1] = "rateLimitsByLimitId" /\ Front(at) = ById /\ at # <<>>
    BY <2>3, ByIdIs DEF IsAppend
  <2> QED BY <2>1, <2>3, <2>4
<1> QED BY <1>1, <1>2, <1>3

\* The paths below a snapshot are not those of a snapshot.
LEMMA BelowSnapshot ==
    ASSUME NEW at \in Snapshots, NEW f \in Names, NEW path, path = Append(at, f)
    PROVE  /\ path \in Seq(Names) /\ path # <<>> /\ path # ById /\ path \notin Snapshots
           /\ Last(path) = f /\ Front(path) = at /\ Len(path) \in {2, 3}
           /\ at # ById /\ at # <<"rateLimitResetCredits">>
<1>1. /\ at \in Seq(Names) /\ at # <<>>
      /\ \/ at = <<"rateLimits">> /\ Len(at) = 1 /\ at[1] = "rateLimits"
         \/ Len(at) = 2 /\ at[1] = "rateLimitsByLimitId"
  BY SnapshotPath
<1>2. path \in Seq(Names) /\ IsAppend(path, at, f)
  BY <1>1, AppendIs
<1>a. /\ Len(path) = Len(at) + 1 /\ path # <<>>
      /\ \A i \in 1..Len(at) : path[i] = at[i]
      /\ Last(path) = f /\ Front(path) = at
  BY <1>2 DEF IsAppend
<1>3. Len(path) \in {2, 3} /\ path[1] = at[1] /\ (Len(path) = 2 => path[1] = "rateLimits")
  <2>1. Len(at) = 1 \/ Len(at) = 2
    BY <1>1
  <2> QED BY <1>1, <1>a, <2>1
<1>4. path # ById
  <2> SUFFICES ASSUME path = ById PROVE FALSE
    OBVIOUS
  <2>1. Len(path) = 1
    BY ByIdIs, Zenon
  <2> QED BY <1>3, <2>1
<1>5. ASSUME NEW s \in Snapshots, s = path PROVE FALSE
  <2>1. \/ Len(s) = 1
        \/ Len(s) = 2 /\ s[1] = "rateLimitsByLimitId"
    BY SnapshotPath
  <2> QED BY <1>3, <1>5, <2>1
<1>6. at # ById /\ at # <<"rateLimitResetCredits">>
  <2>1. CASE Len(at) = 2
    <3>1. ASSUME at = ById PROVE FALSE
      <4>1. Len(at) = 1
        BY <3>1, ByIdIs, Zenon
      <4> QED BY <2>1, <4>1
    <3> QED BY <2>1, <3>1, ResetIs
  <2>2. CASE at[1] = "rateLimits"
    <3>1. ASSUME at = ById PROVE FALSE
      <4>1. at[1] = "rateLimitsByLimitId"
        BY <3>1, ByIdIs, Zenon
      <4> QED BY <2>2, <4>1
    <3> QED BY <2>2, <3>1, ResetIs
  <2> QED BY <1>1, <2>1, <2>2
<1> QED BY <1>2, <1>a, <1>3, <1>4, <1>5, <1>6

\* The paths inside the objects of a limit.
IsInner(path, at, f, g) ==
    /\ path \in Seq(Names) /\ path # <<>> /\ path # ById /\ path \notin Snapshots
    /\ Last(path) = g /\ Front(path) = Append(at, f) /\ path[Len(path) - 1] = f

LEMMA BelowObject ==
    ASSUME NEW at \in Snapshots, NEW f \in Names, NEW g \in Names
    PROVE  IsInner(Append(Append(at, f), g), at, f, g)
<1>0. PICK path : path = Append(Append(at, f), g)
  OBVIOUS
<1>1. PICK object : object = Append(at, f)
  OBVIOUS
<1>2. object \in Seq(Names) /\ Last(object) = f /\ Len(object) \in {2, 3}
  BY <1>1, BelowSnapshot
<1>3. path = Append(object, g)
  BY <1>0, <1>1
<1>4. path \in Seq(Names) /\ IsAppend(path, object, g)
  BY <1>2, <1>3, AppendIs
<1>5. /\ Len(path) = Len(object) + 1 /\ path # <<>>
      /\ \A i \in 1..Len(object) : path[i] = object[i]
      /\ Last(path) = g /\ Front(path) = object
  BY <1>4 DEF IsAppend
<1>6. path[Len(path) - 1] = f
  <2>1. object[Len(object)] = f
    BY <1>2 DEF Last
  <2>2. Len(path) - 1 = Len(object) /\ Len(object) \in 1..Len(object)
    BY <1>2, <1>5
  <2> QED BY <1>5, <2>1, <2>2
<1>7. Len(path) \in {3, 4}
  <2> DEFINE n == Len(object)
             m == Len(path)
  <2>1. n \in {2, 3} /\ m = n + 1
    BY <1>2, <1>5
  <2> HIDE DEF n, m
  <2>2. m \in {3, 4}
    BY <2>1
  <2> QED BY <2>2 DEF m
<1>8. path # ById
  <2> SUFFICES ASSUME path = ById PROVE FALSE
    OBVIOUS
  <2>1. Len(path) = 1
    BY ByIdIs, Zenon
  <2> QED BY <1>7, <2>1
<1>9. ASSUME NEW s \in Snapshots, s = path PROVE FALSE
  <2>1. Len(s) = 1 \/ Len(s) = 2
    BY SnapshotPath
  <2> QED BY <1>7, <1>9, <2>1
<1> QED BY <1>0, <1>1, <1>4, <1>5, <1>6, <1>8, <1>9, Zenon DEF IsInner

LEMMA ChildrenAre ==
    ASSUME NEW parent \in Seq(Names), NEW path \in Children(parent)
    PROVE  path \in Seq(Names)
<1>1. CASE parent = <<>>
  BY <1>1, ByIdIs, GeneralIs, ResetIs DEF Children
<1>2. CASE parent # <<>> /\ parent = ById
  <2>1. PICK key \in ToSet(Keys) : path = Append(ById, key)
    BY <1>2, Zenon DEF Children
  <2> QED BY <2>1, SnapshotPath DEF Snapshots
<1>3. CASE parent # <<>> /\ parent # ById
  <2>1. PICK field \in IF parent \in Snapshots THEN Fields[parent]
                       ELSE IF Last(parent) = "credits" THEN CreditFields
                       ELSE IF Last(parent) = "individualLimit" THEN IndividualFields ELSE {} :
           path = Append(parent, field)
    BY <1>3, Zenon DEF Children
  <2>2. field \in Names
    BY <2>1, NamesAre
  <2> QED BY <2>1, <2>2, AppendIs
<1> QED BY <1>1, <1>2, <1>3

LEMMA InitAnswerInv == InitAnswer => AnswerInv
<1> SUFFICES ASSUME InitAnswer PROVE AnswerInv
  OBVIOUS
<1>1. DOMAIN raw = {}
  BY DEF InitAnswer
<1> QED BY <1>1 DEF InitAnswer, AnswerInv

LEMMA AddFieldInv == AnswerInv /\ AddField => AnswerInv'
<1> SUFFICES ASSUME AnswerInv, AddField PROVE AnswerInv'
  OBVIOUS
<1> DEFINE Adds(path, value) ==
              raw' = [o \in DOMAIN raw \cup {path} |-> IF o = path THEN value ELSE raw[o]]
<1>a. PICK parent \in {<<>>} \cup {o \in DOMAIN raw : raw[o] = "object"} :
         \E path \in Children(parent) \ DOMAIN raw :
            \E value \in Good(path) \cup Malformed : Adds(path, value)
  BY Zenon DEF AddField, Malformed
<1>b. PICK path \in Children(parent) \ DOMAIN raw :
         \E value \in Good(path) \cup Malformed : Adds(path, value)
  BY <1>a
<1>1. PICK value \in Good(path) \cup Malformed : Adds(path, value)
  BY <1>b
<1>2. outcome' = outcome
  BY DEF AddField
<1>3. parent \in Seq(Names) /\ path \in Seq(Names)
  <2>1. parent \in Seq(Names)
    <3>1. CASE parent = <<>>
      BY <3>1
    <3>2. CASE parent \in DOMAIN raw
      BY <3>2 DEF AnswerInv
    <3> QED BY <1>a, <3>1, <3>2
  <2> QED BY <1>b, <2>1, ChildrenAre
<1>4. /\ DOMAIN raw' = DOMAIN raw \cup {path} /\ raw'[path] = value
      /\ \A o \in DOMAIN raw : raw'[o] = raw[o]
  BY <1>1
<1>5. ASSUME NEW o \in DOMAIN raw'
      PROVE  \E q \in {<<>>} \cup {r \in DOMAIN raw' : raw'[r] = "object"} : o \in Children(q)
  <2>1. CASE o = path
    BY <1>a, <1>b, <1>4, <2>1
  <2>2. CASE o # path
    <3>1. PICK q \in {<<>>} \cup {r \in DOMAIN raw : raw[r] = "object"} : o \in Children(q)
      BY <1>4, <2>2 DEF AnswerInv
    <3>2. q \in {<<>>} \cup {r \in DOMAIN raw' : raw'[r] = "object"}
      BY <1>4, <3>1
    <3> QED BY <3>1, <3>2
  <2> QED BY <2>1, <2>2
<1>6. \A o \in DOMAIN raw' : raw'[o] \in Good(o) \cup Malformed
  BY <1>1, <1>4 DEF AnswerInv
<1>7. DOMAIN raw' \subseteq Seq(Names)
  BY <1>3, <1>4 DEF AnswerInv
<1> QED BY <1>2, <1>5, <1>6, <1>7 DEF AnswerInv

LEMMA SpecAnswerInv == SpecAnswer => []AnswerInv
<1>1. AnswerInv /\ [NextAnswer]_answer => AnswerInv'
  <2> SUFFICES ASSUME AnswerInv, [NextAnswer]_answer PROVE AnswerInv'
    OBVIOUS
  <2>1. CASE AddField
    BY <2>1, AddFieldInv
  <2>2. CASE UNCHANGED answer
    BY <2>2 DEF AnswerInv, answer
  <2> QED BY <2>1, <2>2 DEF NextAnswer
<1> QED BY <1>1, InitAnswerInv, PTL DEF SpecAnswer

Object(path) == path \in DOMAIN raw /\ raw[path] = "object"

\* The kinds of paths that an answer has.
AtTop(path) == path \in {<<"rateLimits">>, ById, <<"rateLimitResetCredits">>}
InMap(path) == Object(ById) /\ \E key \in ToSet(Keys) : path = Append(ById, key)
InLimit(path) == \E at \in Snapshots : Object(at) /\ \E f \in SnapshotFields : path = Append(at, f)
Inside(path, name, fields) ==
    \E at \in Snapshots : /\ Object(at) /\ Object(Append(at, name))
                          /\ \E f \in fields : path = Append(Append(at, name), f)

\* An object inside a limit is its credits or its individual limit.
LEMMA ObjectInLimit ==
    ASSUME AnswerInv, NEW path, Object(path), path # <<>>, path # ById, path \notin Snapshots,
           NEW name \in {"credits", "individualLimit"}, Last(path) = name
    PROVE  \E at \in Snapshots : Object(at) /\ path = Append(at, name)
<1>1. path \in DOMAIN raw
  BY DEF Object
<1>2. PICK parent \in {<<>>} \cup {o \in DOMAIN raw : raw[o] = "object"} : path \in Children(parent)
  BY <1>1 DEF AnswerInv
<1>3. parent # <<>>
  <2> SUFFICES ASSUME parent = <<>> PROVE FALSE
    OBVIOUS
  <2>1. path \in {<<"rateLimits">>, ById, <<"rateLimitResetCredits">>}
    BY <1>2 DEF Children
  <2>2. Last(path) \in {"rateLimits", "rateLimitsByLimitId", "rateLimitResetCredits"}
    BY <2>1 DEF Last, ById
  <2> QED BY <2>2
<1>4. parent \in Seq(Names) /\ Object(parent)
  BY <1>2, <1>3 DEF AnswerInv, Object
<1>5. parent # ById
  <2> SUFFICES ASSUME parent = ById PROVE FALSE
    OBVIOUS
  <2>1. PICK key \in ToSet(Keys) : path = Append(ById, key)
    BY <1>2, <1>3, Zenon DEF Children
  <2> QED BY <2>1, Zenon DEF Snapshots
<1>6. PICK f \in IF parent \in Snapshots THEN Fields[parent]
                 ELSE IF Last(parent) = "credits" THEN CreditFields
                 ELSE IF Last(parent) = "individualLimit" THEN IndividualFields ELSE {} :
         path = Append(parent, f)
  BY <1>2, <1>3, <1>5 DEF Children
<1>7. f = name
  <2>1. f \in Names
    BY <1>6, NamesAre
  <2>2. IsAppend(path, parent, f)
    BY <1>4, <1>6, <2>1, AppendIs
  <2> QED BY <2>2 DEF IsAppend
<1>8. parent \in Snapshots
  BY <1>6, <1>7 DEF CreditFields, IndividualFields
<1> QED BY <1>4, <1>6, <1>7, <1>8

LEMMA PathKinds ==
    ASSUME AnswerInv, NEW path \in DOMAIN raw
    PROVE  \/ AtTop(path) \/ InMap(path) \/ InLimit(path)
           \/ Inside(path, "credits", CreditFields) \/ Inside(path, "individualLimit", IndividualFields)
<1>1. PICK parent \in {<<>>} \cup {o \in DOMAIN raw : raw[o] = "object"} : path \in Children(parent)
  BY DEF AnswerInv
<1>2. CASE parent = <<>>
  BY <1>1, <1>2 DEF Children, AtTop
<1>3. CASE parent # <<>> /\ parent = ById
  BY <1>1, <1>3 DEF Children, InMap, Object
<1>4. CASE parent # <<>> /\ parent # ById
  <2>1. PICK f \in IF parent \in Snapshots THEN Fields[parent]
                   ELSE IF Last(parent) = "credits" THEN CreditFields
                   ELSE IF Last(parent) = "individualLimit" THEN IndividualFields ELSE {} :
           path = Append(parent, f)
    BY <1>1, <1>4 DEF Children
  <2>2. Object(parent)
    BY <1>1, <1>4 DEF Object
  <2>3. CASE parent \in Snapshots
    BY <2>1, <2>2, <2>3, NamesAre DEF InLimit
  <2>4. CASE parent \notin Snapshots /\ Last(parent) = "credits"
    <3>1. \E at \in Snapshots : Object(at) /\ parent = Append(at, "credits")
      BY <1>4, <2>2, <2>4, ObjectInLimit
    <3> QED BY <2>1, <2>2, <2>4, <3>1 DEF Inside
  <2>5. CASE parent \notin Snapshots /\ Last(parent) # "credits"
    <3>1. Last(parent) = "individualLimit" /\ f \in IndividualFields
      BY <2>1, <2>5
    <3>2. \E at \in Snapshots : Object(at) /\ parent = Append(at, "individualLimit")
      BY <1>4, <2>2, <2>5, <3>1, ObjectInLimit
    <3> QED BY <2>1, <2>2, <3>1, <3>2 DEF Inside
  <2> QED BY <2>3, <2>4, <2>5
<1> QED BY <1>2, <1>3, <1>4

-----------------------------------------------------------------------------
(* What is decoded. *)

LEMMA GoodIs ==
    ASSUME NEW path
    PROVE  /\ Good(path) \subseteq Contents /\ Absent \notin Good(path)
           /\ Good(path) \cap Malformed = {}
<1>1. Good(path) \subseteq Contents
  BY DEF Good, Contents
<1>2. Contents \cap Malformed = {}
  BY DEF Contents, Malformed
<1> QED BY <1>1, <1>2, RateLimitsAssumption

LEMMA FieldIs ==
    ASSUME AnswerInv, NEW path
    PROVE  /\ Field(path) \in Good(path) \cup {Absent} /\ Field(path) \in Contents \cup {Absent}
           /\ Field(path) # Absent <=> path \in DOMAIN raw /\ raw[path] \notin Malformed
           /\ Good(path) = {"object"} => (Field(path) # Absent <=> Object(path))
           /\ Given(path) /\ raw[path] = "bad" <=> path \in DOMAIN raw /\ raw[path] = "bad"
<1>1. Good(path) \subseteq Contents /\ Absent \notin Good(path) /\ Good(path) \cap Malformed = {}
  BY GoodIs
<1>2. path \in DOMAIN raw => raw[path] \in Good(path) \cup Malformed
  BY DEF AnswerInv
<1> QED BY <1>1, <1>2 DEF Field, Given, Malformed, Object

LEMMA ObjectsAre ==
    /\ Good(ById) = {"object"}
    /\ \A at \in Snapshots :
          /\ Good(at) = {"object"} /\ Good(Append(at, "credits")) = {"object"}
          /\ Good(Append(at, "individualLimit")) = {"object"}
<1>1. Good(ById) = {"object"}
  BY DEF Good
<1>2. ASSUME NEW at \in Snapshots
      PROVE  /\ Good(at) = {"object"} /\ Good(Append(at, "credits")) = {"object"}
             /\ Good(Append(at, "individualLimit")) = {"object"}
  <2>1. "credits" \in Names /\ "individualLimit" \in Names
    BY DEF Names, SnapshotFields
  <2>2. Last(Append(at, "credits")) = "credits" /\ Last(Append(at, "individualLimit")) = "individualLimit"
    BY <2>1, BelowSnapshot
  <2>3. Good(at) = {"object"}
    BY DEF Good
  <2>4. ASSUME NEW path, Last(path) \in {"credits", "individualLimit"} PROVE Good(path) = {"object"}
    BY <2>4 DEF Good
  <2>5. Good(Append(at, "credits")) = {"object"} /\ Good(Append(at, "individualLimit")) = {"object"}
    BY <2>2, <2>4
  <2> QED BY <2>3, <2>5
<1> QED BY <1>1, <1>2

\* The paths of issues, as their object's reader puts them together.
LEMMA JoinIs ==
    ASSUME NEW s \in Seq(Names), NEW f \in Names, NEW g \in Names
    PROVE  /\ s \o <<f>> = Append(s, f) /\ <<g>> \o <<f>> \in Seq(Names) /\ <<f>> \in Seq(Names)
           /\ s \o (<<g>> \o <<f>>) = Append(Append(s, g), f)
           /\ Append(<<>>, f) = <<f>>
<1>1. s \o <<f>> = Append(s, f)
  OBVIOUS
<1>2. s \o (<<g>> \o <<f>>) = Append(Append(s, g), f)
  OBVIOUS
<1>3. <<g>> \o <<f>> \in Seq(Names) /\ <<f>> \in Seq(Names) /\ Append(<<>>, f) = <<f>>
  OBVIOUS
<1> QED BY <1>1, <1>2, <1>3

LEMMA OwnIs ==
    ASSUME AnswerInv, NEW at, NEW fields \in SUBSET Names
    PROVE  /\ OwnIssues(at, fields) = {<<f>> : f \in {g \in fields : Append(at, g) \in DOMAIN raw
                                                                      /\ raw[Append(at, g)] = "bad"}}
           /\ OwnIssues(at, fields) \in SUBSET Seq(Names)
<1>1. OwnIssues(at, fields) = {<<f>> : f \in {g \in fields : Append(at, g) \in DOMAIN raw
                                                                      /\ raw[Append(at, g)] = "bad"}}
  BY DEF OwnIssues, Given
<1>2. ASSUME NEW issue \in OwnIssues(at, fields) PROVE issue \in Seq(Names)
  <2>1. PICK f \in fields : issue = <<f>>
    BY Zenon DEF OwnIssues
  <2> QED BY <2>1, OneIs
<1> QED BY <1>1, <1>2

LEMMA InnerIs ==
    ASSUME AnswerInv, NEW at
    PROVE  /\ Credits(at) \in Leaves(CreditFields) \cup {Absent}
           /\ Credits(at) = Absent <=> Field(at) = Absent
           /\ Individual(at) \in Leaves(IndividualFields) \cup {Absent}
           /\ Individual(at) = Absent <=> Field(at) = Absent
<1>1. \A path : Field(path) \in Contents \cup {Absent}
  BY FieldIs
<1>2. OwnIssues(at, CreditFields) \in SUBSET Seq(Names) /\ OwnIssues(at, IndividualFields) \in SUBSET Seq(Names)
  BY OwnIs, NamesAre
<1>3. [field \in CreditFields |-> Field(Append(at, field))] \in Values(CreditFields)
  BY <1>1 DEF Values
<1>4. Field(at) # Absent => Credits(at) \in Leaves(CreditFields)
  BY <1>2, <1>3 DEF Credits, Leaves
<1>5. [field \in IndividualFields |-> Field(Append(at, field))] \in Values(IndividualFields)
  BY <1>1 DEF Values
<1>6. Field(at) # Absent => Individual(at) \in Leaves(IndividualFields)
  <2> DEFINE value == [field \in IndividualFields |-> Field(Append(at, field))]
             filled == [value EXCEPT !["usedPercent"] =
                            IF value["remainingPercent"] # Absent THEN "ok" ELSE @]
  <2>1. filled \in Values(IndividualFields)
    BY <1>5 DEF Values, Contents
  <2>2. Field(at) # Absent => Individual(at) = [value |-> filled, issues |-> OwnIssues(at, IndividualFields)]
    BY DEF Individual
  <2> HIDE DEF filled
  <2> QED BY <1>2, <2>1, <2>2 DEF Leaves
<1>7. Absent \notin Leaves(CreditFields) /\ Absent \notin Leaves(IndividualFields)
  BY RateLimitsAssumption
<1>8. Field(at) = Absent => Credits(at) = Absent /\ Individual(at) = Absent
  BY DEF Credits, Individual
<1> QED BY <1>4, <1>6, <1>7, <1>8

\* The issues of a limit.
LimitIssues(at) ==
    OwnIssues(at, SnapshotFields) \cup Within(<<"credits">>, Credits(Append(at, "credits")))
    \cup Within(<<"individualLimit">>, Individual(Append(at, "individualLimit")))

LEMMA SnapshotIs ==
    ASSUME AnswerInv, NEW at
    PROVE  /\ Snapshot(at) \in Decoded /\ Snapshot(at) # Absent
           /\ Snapshot(at).issues = LimitIssues(at)
           /\ Snapshot(at).value = [field \in LeafFields |-> Field(Append(at, field))]
           /\ Snapshot(at).credits = Credits(Append(at, "credits"))
           /\ Snapshot(at).individual = Individual(Append(at, "individualLimit"))
<1> DEFINE s == Snapshot(at)
<1>1. /\ s = [value |-> [field \in LeafFields |-> Field(Append(at, field))],
              credits |-> Credits(Append(at, "credits")), individual |-> Individual(Append(at, "individualLimit")),
              issues |-> LimitIssues(at)]
  BY Zenon DEF Snapshot, LimitIssues
<1>2. [field \in LeafFields |-> Field(Append(at, field))] \in Values(LeafFields)
  BY FieldIs DEF Values
<1>3. /\ Credits(Append(at, "credits")) \in Leaves(CreditFields) \cup {Absent}
      /\ Individual(Append(at, "individualLimit")) \in Leaves(IndividualFields) \cup {Absent}
  BY InnerIs
<1>4. LimitIssues(at) \in SUBSET Seq(Names)
  <2>1. ASSUME NEW fields, NEW object \in Leaves(fields) \cup {Absent}, NEW name \in Names
        PROVE  Within(<<name>>, object) \in SUBSET Seq(Names)
    <3>1. CASE object = Absent
      BY <3>1 DEF Within
    <3>2. CASE object # Absent
      <4>1. object.issues \in SUBSET Seq(Names)
        BY <2>1, <3>2 DEF Leaves
      <4>2. <<name>> \in Seq(Names)
        BY OneIs
      <4>3. \A issue \in object.issues : <<name>> \o issue \in Seq(Names)
        BY <4>1, <4>2
      <4> QED BY <3>2, <4>3, Zenon DEF Within
    <3> QED BY <3>1, <3>2
  <2>2. "credits" \in Names /\ "individualLimit" \in Names
    BY DEF Names, SnapshotFields
  <2>3. OwnIssues(at, SnapshotFields) \in SUBSET Seq(Names)
    BY OwnIs, NamesAre
  <2>4. /\ Within(<<"credits">>, Credits(Append(at, "credits"))) \in SUBSET Seq(Names)
        /\ Within(<<"individualLimit">>, Individual(Append(at, "individualLimit"))) \in SUBSET Seq(Names)
    BY <1>3, <2>1, <2>2, Zenon
  <2> QED BY <2>3, <2>4 DEF LimitIssues
<1>5. s \in Decoded
  <2> HIDE DEF s
  <2> QED BY <1>1, <1>2, <1>3, <1>4 DEF Decoded
<1>6. s # Absent
  BY <1>5, RateLimitsAssumption
<1>7. /\ s.issues = LimitIssues(at)
      /\ s.value = [field \in LeafFields |-> Field(Append(at, field))]
      /\ s.credits = Credits(Append(at, "credits"))
      /\ s.individual = Individual(Append(at, "individualLimit"))
  <2> HIDE DEF s
  <2> QED BY <1>1
<1> QED BY <1>5, <1>6, <1>7

-----------------------------------------------------------------------------
(* What is reported. *)

\* The fields of a limit and of the two objects in it.
IsUnder(at, path) ==
    \/ \E f \in SnapshotFields : path = Append(at, f)
    \/ /\ Object(Append(at, "credits"))
       /\ \E f \in CreditFields : path = Append(Append(at, "credits"), f)
    \/ /\ Object(Append(at, "individualLimit"))
       /\ \E f \in IndividualFields : path = Append(Append(at, "individualLimit"), f)

Bad(path) == path \in DOMAIN raw /\ raw[path] = "bad"

\* What is below a limit is neither at the top nor an entry.
LEMMA BelowIs ==
    ASSUME NEW at \in Snapshots, NEW path, IsUnder(at, path)
    PROVE  path \in Seq(Names) /\ path # ById /\ path \notin Snapshots /\ Front(path) # ById
<1>1. "credits" \in Names /\ "individualLimit" \in Names
  BY DEF Names, SnapshotFields
<1>2. CASE \E f \in SnapshotFields : path = Append(at, f)
  BY <1>2, BelowSnapshot, NamesAre
<1>3. ASSUME NEW name \in Names, NEW fields \in SUBSET Names,
             \E f \in fields : path = Append(Append(at, name), f)
      PROVE  path \in Seq(Names) /\ path # ById /\ path \notin Snapshots /\ Front(path) # ById
  <2>1. PICK f \in fields : path = Append(Append(at, name), f)
    BY <1>3
  <2>2. Append(at, name) # ById
    BY BelowSnapshot
  <2>3. path \in Seq(Names) /\ path # ById /\ path \notin Snapshots /\ Front(path) = Append(at, name)
    BY <2>1, BelowObject DEF IsInner
  <2> QED BY <2>2, <2>3
<1>4. CASE \E f \in CreditFields : path = Append(Append(at, "credits"), f)
  BY <1>1, <1>3, <1>4, NamesAre
<1>5. CASE \E f \in IndividualFields : path = Append(Append(at, "individualLimit"), f)
  BY <1>1, <1>3, <1>5, NamesAre
<1> QED BY <1>2, <1>4, <1>5 DEF IsUnder

\* The issues that an object inside a limit leaves.
LEMMA InnerIssues ==
    ASSUME AnswerInv, NEW at \in Snapshots, NEW name \in Names, NEW fields \in SUBSET Names,
           NEW object, object # Absent, object.issues = OwnIssues(Append(at, name), fields), NEW path
    PROVE  path \in {at \o issue : issue \in Within(<<name>>, object)}
           <=> Bad(path) /\ \E f \in fields : path = Append(Append(at, name), f)
<1>0. at \in Seq(Names)
  BY SnapshotPath
<1>1. \A f \in fields : <<f>> \in object.issues <=> Bad(Append(Append(at, name), f))
  BY OwnIs DEF Bad
<1>2. \A issue \in object.issues : \E f \in fields : issue = <<f>>
  BY OwnIs
<1>3. \A f \in fields : at \o (<<name>> \o <<f>>) = Append(Append(at, name), f)
  BY <1>0, JoinIs
<1>4. path \in {at \o issue : issue \in Within(<<name>>, object)}
      <=> \E issue \in object.issues : path = at \o (<<name>> \o issue)
  BY Zenon DEF Within
<1> QED BY <1>1, <1>2, <1>3, <1>4

LEMMA LimitIssuesAre ==
    ASSUME AnswerInv, NEW at \in Snapshots, NEW path
    PROVE  path \in Within(at, Snapshot(at)) <=> Bad(path) /\ IsUnder(at, path)
<1> DEFINE credits == Credits(Append(at, "credits"))
           individual == Individual(Append(at, "individualLimit"))
<1>0. at \in Seq(Names)
  BY SnapshotPath
<1>1. "credits" \in Names /\ "individualLimit" \in Names
  BY DEF Names, SnapshotFields
<1>2. path \in Within(at, Snapshot(at)) <=> path \in {at \o issue : issue \in LimitIssues(at)}
  BY SnapshotIs, Zenon DEF Within
<1>3. path \in {at \o issue : issue \in OwnIssues(at, SnapshotFields)}
      <=> Bad(path) /\ \E f \in SnapshotFields : path = Append(at, f)
  <2>1. \A f \in SnapshotFields : at \o <<f>> = Append(at, f)
    BY <1>0, JoinIs, NamesAre
  <2>2. \A f \in SnapshotFields : <<f>> \in OwnIssues(at, SnapshotFields) <=> Bad(Append(at, f))
    BY OwnIs, NamesAre DEF Bad
  <2>3. \A issue \in OwnIssues(at, SnapshotFields) : \E f \in SnapshotFields : issue = <<f>>
    BY OwnIs, NamesAre
  <2> QED BY <2>1, <2>2, <2>3
<1>4. /\ credits # Absent <=> Object(Append(at, "credits"))
      /\ individual # Absent <=> Object(Append(at, "individualLimit"))
  <2>1. /\ credits = Absent <=> Field(Append(at, "credits")) = Absent
        /\ individual = Absent <=> Field(Append(at, "individualLimit")) = Absent
    BY InnerIs
  <2> QED BY <2>1, FieldIs, ObjectsAre
<1>5. path \in {at \o issue : issue \in Within(<<"credits">>, credits)}
      <=> /\ Bad(path) /\ Object(Append(at, "credits"))
          /\ \E f \in CreditFields : path = Append(Append(at, "credits"), f)
  <2>1. CASE credits = Absent
    BY <1>4, <2>1 DEF Within
  <2>2. CASE credits # Absent
    <3>1. Field(Append(at, "credits")) # Absent
      BY <2>2, InnerIs
    <3>2. credits.issues = OwnIssues(Append(at, "credits"), CreditFields)
      BY <3>1 DEF Credits
    <3> HIDE DEF credits
    <3>3. CreditFields \in SUBSET Names
      BY NamesAre
    <3>4. path \in {at \o issue : issue \in Within(<<"credits">>, credits)}
          <=> Bad(path) /\ \E f \in CreditFields : path = Append(Append(at, "credits"), f)
      BY <1>1, <2>2, <3>2, <3>3, InnerIssues
    <3> QED BY <1>4, <2>2, <3>4
  <2> QED BY <2>1, <2>2
<1>6. path \in {at \o issue : issue \in Within(<<"individualLimit">>, individual)}
      <=> /\ Bad(path) /\ Object(Append(at, "individualLimit"))
          /\ \E f \in IndividualFields : path = Append(Append(at, "individualLimit"), f)
  <2>1. CASE individual = Absent
    BY <1>4, <2>1 DEF Within
  <2>2. CASE individual # Absent
    <3>1. Field(Append(at, "individualLimit")) # Absent
      BY <2>2, InnerIs
    <3>2. individual.issues = OwnIssues(Append(at, "individualLimit"), IndividualFields)
      BY <3>1 DEF Individual
    <3> HIDE DEF individual
    <3>3. IndividualFields \in SUBSET Names
      BY NamesAre
    <3>4. path \in {at \o issue : issue \in Within(<<"individualLimit">>, individual)}
          <=> Bad(path) /\ \E f \in IndividualFields : path = Append(Append(at, "individualLimit"), f)
      BY <1>1, <2>2, <3>2, <3>3, InnerIssues
    <3> QED BY <1>4, <2>2, <3>4
  <2> QED BY <2>1, <2>2
<1>7. path \in {at \o issue : issue \in LimitIssues(at)}
      <=> \/ path \in {at \o issue : issue \in OwnIssues(at, SnapshotFields)}
          \/ path \in {at \o issue : issue \in Within(<<"credits">>, credits)}
          \/ path \in {at \o issue : issue \in Within(<<"individualLimit">>, individual)}
  BY Zenon DEF LimitIssues
<1> HIDE DEF credits, individual
<1> QED BY <1>2, <1>3, <1>5, <1>6, <1>7 DEF IsUnder

\* An entry that is an object is in a map, and is read.
LEMMA EntriesAre ==
    ASSUME AnswerInv, NEW key \in ToSet(Keys)
    PROVE  LET at == Append(ById, key)
           IN  /\ key \in Entries <=> at \in DOMAIN raw
               /\ key \in DOMAIN Limits <=> Object(at)
               /\ at \in DOMAIN raw => raw[at] \in {"object"} \cup Malformed
<1> DEFINE at == Append(ById, key)
<1>0. at \in Snapshots
  BY Zenon DEF Snapshots
<1>1. at \in DOMAIN raw => Object(ById)
  <2> SUFFICES ASSUME at \in DOMAIN raw PROVE Object(ById)
    OBVIOUS
  <2>1. ~AtTop(at)
    <3>1. IsAppend(at, ById, key)
      BY AppendIs, ByIdIs, NamesAre
    <3>2. Len(at) = 2
      BY <3>1, ByIdIs DEF IsAppend
    <3>3. at # ById
      <4>1. ASSUME at = ById PROVE FALSE
        <5>1. Len(at) = 1
          BY <4>1, ByIdIs, Zenon
        <5> QED BY <3>2, <5>1
      <4> QED BY <4>1
    <3> HIDE DEF at
    <3> QED BY <3>2, <3>3, GeneralIs, ResetIs DEF AtTop
  <2>2. ~InLimit(at)
    BY <1>0, BelowSnapshot, NamesAre DEF InLimit
  <2>3. ASSUME NEW name \in Names, NEW fields \in SUBSET Names, Inside(at, name, fields) PROVE FALSE
    <3>1. PICK s \in Snapshots : \E f \in fields : at = Append(Append(s, name), f)
      BY <2>3 DEF Inside
    <3>2. PICK f \in fields : at = Append(Append(s, name), f)
      BY <3>1
    <3>3. IsInner(at, s, name, f)
      BY <3>2, BelowObject
    <3> QED BY <1>0, <3>3 DEF IsInner
  <2>4. "credits" \in Names /\ "individualLimit" \in Names
    BY DEF Names, SnapshotFields
  <2>5. ~Inside(at, "credits", CreditFields) /\ ~Inside(at, "individualLimit", IndividualFields)
    BY <2>3, <2>4, NamesAre
  <2>6. InMap(at)
    BY <2>1, <2>2, <2>5, PathKinds
  <2> QED BY <2>6 DEF InMap
<1>2. Field(ById) # Absent <=> Object(ById)
  BY FieldIs, ObjectsAre
<1>3. key \in Entries <=> at \in DOMAIN raw
  BY <1>1, <1>2 DEF Entries
<1>4. key \in DOMAIN Limits <=> Object(at)
  BY <1>3 DEF Limits, Refused, Object
<1>5. at \in DOMAIN raw => raw[at] \in {"object"} \cup Malformed
  BY <1>0, ObjectsAre DEF AnswerInv
<1> QED BY <1>3, <1>4, <1>5

LEMMA LimitIs == \A key \in DOMAIN Limits : key \in ToSet(Keys) /\ Limits[key] = Snapshot(Append(ById, key))
BY DEF Limits, Entries

\* Every path of an answer is at the top, an entry, or below a limit that is
\* an object.
LEMMA PathsAre ==
    ASSUME AnswerInv, NEW path \in DOMAIN raw
    PROVE  AtTop(path) \/ InMap(path) \/ \E at \in Snapshots : Object(at) /\ IsUnder(at, path)
BY PathKinds, Zenon DEF InLimit, Inside, IsUnder

LEMMA TopIs ==
    ASSUME NEW path, AtTop(path)
    PROVE  Front(path) # ById /\ \A key \in ToSet(Keys) : path # Append(ById, key)
<1>1. ASSUME NEW name \in Names PROVE Front(<<name>>) = <<>>
  <2>0. <<>> \in Seq(Names)
    OBVIOUS
  <2>1. IsAppend(Append(<<>>, name), <<>>, name)
    BY <2>0, AppendIs
  <2> QED BY <2>1, JoinIs DEF IsAppend
<1>2. Front(path) = <<>>
  BY <1>1, NamesAre DEF AtTop, ById
<1>3. \A key \in ToSet(Keys) : Front(Append(ById, key)) = ById
  <2> SUFFICES ASSUME NEW key \in ToSet(Keys) PROVE Front(Append(ById, key)) = ById
    OBVIOUS
  <2>1. IsAppend(Append(ById, key), ById, key)
    BY AppendIs, ByIdIs, NamesAre
  <2> QED BY <2>1 DEF IsAppend
<1> QED BY <1>2, <1>3, ByIdIs, Zenon

\* What an answer that is an object reports.
LEMMA IssuesAre ==
    ASSUME AnswerInv, outcome = "object", NEW path
    PROVE  path \in Issues
           <=> \/ AtTop(path) /\ Bad(path)
               \/ (\E key \in ToSet(Keys) : path = Append(ById, key)) /\ path \in DOMAIN raw
                  /\ raw[path] # "object"
               \/ \E at \in Snapshots : Object(at) /\ Bad(path) /\ IsUnder(at, path)
<1> DEFINE top == {"rateLimits", "rateLimitsByLimitId", "rateLimitResetCredits"}
           general == <<"rateLimits">>
<1>1. path \in Issues
      <=> \/ path \in OwnIssues(<<>>, top)
          \/ path \in {Append(ById, key) : key \in {k \in Entries : Refused(k)}}
          \/ path \in Within(general, General)
          \/ \E key \in DOMAIN Limits : path \in Within(Append(ById, key), Limits[key])
  BY Zenon DEF Issues
<1>2. path \in OwnIssues(<<>>, top) <=> AtTop(path) /\ Bad(path)
  <2>1. top \in SUBSET Names
    BY NamesAre
  <2>2. path \in OwnIssues(<<>>, top) <=> \E f \in top : Bad(Append(<<>>, f)) /\ path = <<f>>
    <3>1. OwnIssues(<<>>, top) = {<<f>> : f \in {g \in top : Append(<<>>, g) \in DOMAIN raw
                                                                /\ raw[Append(<<>>, g)] = "bad"}}
      BY <2>1, OwnIs
    <3> QED BY <3>1, Zenon DEF Bad
  <2>3. \A f \in top : Append(<<>>, f) = <<f>>
    BY <2>1, JoinIs
  <2>4. AtTop(path) <=> \E f \in top : path = <<f>>
    BY DEF AtTop, ById
  <2> QED BY <2>2, <2>3, <2>4
<1>3. path \in {Append(ById, key) : key \in {k \in Entries : Refused(k)}}
      <=> /\ \E key \in ToSet(Keys) : path = Append(ById, key)
          /\ path \in DOMAIN raw /\ raw[path] # "object"
  <2>1. \A key \in Entries : key \in ToSet(Keys)
    BY DEF Entries
  <2>2. \A key \in ToSet(Keys) : key \in Entries <=> Append(ById, key) \in DOMAIN raw
    BY EntriesAre
  <2> QED BY <2>1, <2>2, Zenon DEF Refused
<1>4. path \in Within(general, General) <=> Object(general) /\ Bad(path) /\ IsUnder(general, path)
  <2>1. general \in Snapshots
    BY DEF Snapshots
  <2>2. Field(general) # Absent <=> Object(general)
    BY <2>1, FieldIs, ObjectsAre
  <2>3. CASE Object(general)
    <3>1. General = Snapshot(general)
      BY <2>2, <2>3 DEF General
    <3> QED BY <2>1, <2>3, <3>1, LimitIssuesAre
  <2>4. CASE ~Object(general)
    <3>1. General = Absent
      BY <2>2, <2>4 DEF General
    <3> QED BY <2>4, <3>1 DEF Within
  <2> QED BY <2>3, <2>4
<1>5. (\E key \in DOMAIN Limits : path \in Within(Append(ById, key), Limits[key]))
      <=> \E key \in ToSet(Keys) : /\ Object(Append(ById, key)) /\ Bad(path)
                                   /\ IsUnder(Append(ById, key), path)
  <2>1. \A key \in ToSet(Keys) : Append(ById, key) \in Snapshots
    BY DEF Snapshots
  <2>2. \A key \in ToSet(Keys) : key \in DOMAIN Limits <=> Object(Append(ById, key))
    BY EntriesAre
  <2>3. \A key \in ToSet(Keys) : path \in Within(Append(ById, key), Snapshot(Append(ById, key)))
                                 <=> Bad(path) /\ IsUnder(Append(ById, key), path)
    BY <2>1, LimitIssuesAre
  <2> QED BY <2>2, <2>3, LimitIs, Zenon
<1>6. (\E at \in Snapshots : Object(at) /\ Bad(path) /\ IsUnder(at, path))
      <=> \/ Object(general) /\ Bad(path) /\ IsUnder(general, path)
          \/ \E key \in ToSet(Keys) : /\ Object(Append(ById, key)) /\ Bad(path)
                                      /\ IsUnder(Append(ById, key), path)
  BY Zenon DEF Snapshots
<1> QED BY <1>1, <1>2, <1>3, <1>4, <1>5, <1>6, Zenon

LEMMA AnswerInvNothingDropped == AnswerInv => NothingDropped
<1> SUFFICES ASSUME AnswerInv PROVE NothingDropped
  OBVIOUS
<1>1. ASSUME outcome = "object", NEW path
      PROVE  path \in Issues
             <=> path \in DOMAIN raw /\ (raw[path] = "bad" \/ (raw[path] = "null" /\ Front(path) = ById))
  <2>a. \A key \in ToSet(Keys) : Front(Append(ById, key)) = ById
    <3> SUFFICES ASSUME NEW key \in ToSet(Keys) PROVE Front(Append(ById, key)) = ById
      OBVIOUS
    <3>1. IsAppend(Append(ById, key), ById, key)
      BY AppendIs, ByIdIs, NamesAre
    <3> QED BY <3>1 DEF IsAppend
  <2>1. CASE path \notin DOMAIN raw
    BY <1>1, <2>1, IssuesAre DEF Bad
  <2>2. CASE path \in DOMAIN raw /\ AtTop(path)
    <3>1. Front(path) # ById /\ \A key \in ToSet(Keys) : path # Append(ById, key)
      BY <2>2, TopIs
    <3> QED BY <1>1, <2>2, <3>1, IssuesAre DEF Bad
  <2>3. CASE path \in DOMAIN raw /\ \E key \in ToSet(Keys) : path = Append(ById, key)
    <3>1. Front(path) = ById
      BY <2>3, <2>a
    <3>2. raw[path] \in {"object"} \cup Malformed
      BY <2>3, EntriesAre
    <3>3. raw[path] # "object" <=> raw[path] \in {"bad", "null"}
      BY <3>2 DEF Malformed
    <3>4. path \in Issues <=> raw[path] # "object"
      <4>1. ~AtTop(path)
        BY <2>3, TopIs
      <4>2. path \in Snapshots
        BY <2>3 DEF Snapshots
      <4>3. ~\E at \in Snapshots : Object(at) /\ Bad(path) /\ IsUnder(at, path)
        BY <4>2, BelowIs
      <4> QED BY <1>1, <2>3, <4>1, <4>3, IssuesAre
    <3> QED BY <2>3, <3>1, <3>3, <3>4
  <2>4. CASE path \in DOMAIN raw /\ \E at \in Snapshots : Object(at) /\ IsUnder(at, path)
    <3>1. Front(path) # ById
      BY <2>4, BelowIs
    <3>2. \A key \in ToSet(Keys) : path # Append(ById, key)
      BY <2>a, <3>1
    <3>3. path \in Issues <=> Bad(path)
      BY <1>1, <2>4, <3>2, IssuesAre
    <3> QED BY <2>4, <3>1, <3>3 DEF Bad
  <2>5. path \in DOMAIN raw /\ InMap(path) => \E key \in ToSet(Keys) : path = Append(ById, key)
    BY DEF InMap
  <2> QED BY <2>1, <2>2, <2>3, <2>4, <2>5, PathsAre
<1>2. outcome = "object" => Issues = {path \in DOMAIN raw : \/ raw[path] = "bad"
                                                            \/ raw[path] = "null" /\ Front(path) = ById}
  BY <1>1
<1>3. outcome \in {"failed", "malformed"} => Issues # {}
  BY DEF Issues
<1> QED BY <1>2, <1>3 DEF NothingDropped

\* For every map of limits and every set of fields they may have: what decoding
\* leaves out of an answer is what it reports, each malformed value at its own
\* path, and nothing else (decode_lossy_field, decode_lossy_rate_limit_map_field
\* and the prefixes of AccountRateLimitsResponse::deserialize).
THEOREM NothingIsDropped == SpecAnswer => []NothingDropped
BY SpecAnswerInv, AnswerInvNothingDropped, PTL

-----------------------------------------------------------------------------
(* What is shown. *)

\* The fields of the two objects in a limit.
LEMMA CreditFieldsAre ==
    ASSUME AnswerInv, NEW at \in Snapshots
    PROVE  LET path == Append(at, "credits")
           IN  Credits(path) # Absent =>
               LET c == Credits(path).value
               IN  /\ c["hasCredits"] \in {"true", "false", Absent}
                   /\ c["unlimited"] \in {"true", "false", Absent}
                   /\ c["balance"] \in {"text", "blank", Absent}
                   /\ \A f \in {"remaining", "total", "used"} : c[f] \in {"low", "high", Absent}
<1> DEFINE path == Append(at, "credits")
<1>1. "credits" \in Names
  BY DEF Names, SnapshotFields
<1>2. ASSUME NEW f \in CreditFields
      PROVE  LET leaf == Append(path, f)
             IN  IsInner(leaf, at, "credits", f)
  <2>1. f \in Names
    BY NamesAre
  <2> QED BY <1>1, <2>1, BelowObject
<1>3. ASSUME NEW f \in CreditFields, NEW leaf, IsInner(leaf, at, "credits", f)
      PROVE  /\ f \in {"hasCredits", "unlimited"} => Good(leaf) = {"true", "false"}
             /\ f = "balance" => Good(leaf) = {"text", "blank"}
             /\ f \in {"remaining", "total", "used"} => Good(leaf) = {"low", "high"}
  BY <1>3 DEF Good, IsInner, CreditFields
<1>4. \A f \in CreditFields : Field(Append(path, f)) \in Good(Append(path, f)) \cup {Absent}
  BY FieldIs
<1>5. ASSUME NEW f \in CreditFields
      PROVE  /\ f \in {"hasCredits", "unlimited"} => Field(Append(path, f)) \in {"true", "false", Absent}
             /\ f = "balance" => Field(Append(path, f)) \in {"text", "blank", Absent}
             /\ f \in {"remaining", "total", "used"} => Field(Append(path, f)) \in {"low", "high", Absent}
  <2> DEFINE leaf == Append(path, f)
  <2>1. IsInner(leaf, at, "credits", f)
    BY <1>2
  <2>2. Field(leaf) \in Good(leaf) \cup {Absent}
    BY <1>4
  <2> HIDE DEF leaf
  <2>3. /\ f \in {"hasCredits", "unlimited"} => Good(leaf) = {"true", "false"}
        /\ f = "balance" => Good(leaf) = {"text", "blank"}
        /\ f \in {"remaining", "total", "used"} => Good(leaf) = {"low", "high"}
    BY <1>3, <2>1
  <2>4. /\ f \in {"hasCredits", "unlimited"} => Field(leaf) \in {"true", "false", Absent}
        /\ f = "balance" => Field(leaf) \in {"text", "blank", Absent}
        /\ f \in {"remaining", "total", "used"} => Field(leaf) \in {"low", "high", Absent}
    BY <2>2, <2>3
  <2> QED BY <2>4 DEF leaf
<1>6. Credits(path) # Absent => Credits(path).value = [field \in CreditFields |-> Field(Append(path, field))]
  BY DEF Credits
<1> HIDE DEF path
<1>7. Credits(path) # Absent => \A f \in CreditFields : Credits(path).value[f] = Field(Append(path, f))
  BY <1>6
<1>8. {"hasCredits", "unlimited", "balance", "remaining", "total", "used"} = CreditFields
  BY DEF CreditFields
<1> QED BY <1>5, <1>7, <1>8 DEF path

LEMMA IndividualFieldsAre ==
    ASSUME AnswerInv, NEW at \in Snapshots
    PROVE  LET path == Append(at, "individualLimit")
           IN  Individual(path) # Absent =>
               LET i == Individual(path).value
               IN  /\ i["limit"] \in {"text", "blank", Absent} /\ i["used"] \in {"text", "blank", Absent}
                   /\ i["resetsAt"] \in {"soon", "far", Absent} /\ i["usedPercent"] \in {"ok", Absent}
                   /\ i["remainingPercent"] # Absent => i["usedPercent"] = "ok"
<1> DEFINE path == Append(at, "individualLimit")
<1>1. "individualLimit" \in Names
  BY DEF Names, SnapshotFields
<1>2. ASSUME NEW f \in IndividualFields
      PROVE  LET leaf == Append(path, f)
             IN  IsInner(leaf, at, "individualLimit", f)
  <2>1. f \in Names
    BY NamesAre
  <2> QED BY <1>1, <2>1, BelowObject
<1>3. ASSUME NEW f \in IndividualFields, NEW leaf, IsInner(leaf, at, "individualLimit", f)
      PROVE  /\ f \in {"limit", "used"} => Good(leaf) = {"text", "blank"}
             /\ f = "resetsAt" => Good(leaf) = {"soon", "far"}
             /\ f \in {"usedPercent", "remainingPercent"} => Good(leaf) = {"ok"}
  BY <1>3 DEF Good, IsInner, IndividualFields
<1>4. \A f \in IndividualFields : Field(Append(path, f)) \in Good(Append(path, f)) \cup {Absent}
  BY FieldIs
<1>5. ASSUME NEW f \in IndividualFields
      PROVE  /\ f \in {"limit", "used"} => Field(Append(path, f)) \in {"text", "blank", Absent}
             /\ f = "resetsAt" => Field(Append(path, f)) \in {"soon", "far", Absent}
             /\ f \in {"usedPercent", "remainingPercent"} => Field(Append(path, f)) \in {"ok", Absent}
  <2> DEFINE leaf == Append(path, f)
  <2>1. IsInner(leaf, at, "individualLimit", f)
    BY <1>2
  <2>2. Field(leaf) \in Good(leaf) \cup {Absent}
    BY <1>4
  <2> HIDE DEF leaf
  <2>3. /\ f \in {"limit", "used"} => Good(leaf) = {"text", "blank"}
        /\ f = "resetsAt" => Good(leaf) = {"soon", "far"}
        /\ f \in {"usedPercent", "remainingPercent"} => Good(leaf) = {"ok"}
    BY <1>3, <2>1
  <2>4. /\ f \in {"limit", "used"} => Field(leaf) \in {"text", "blank", Absent}
        /\ f = "resetsAt" => Field(leaf) \in {"soon", "far", Absent}
        /\ f \in {"usedPercent", "remainingPercent"} => Field(leaf) \in {"ok", Absent}
    BY <2>2, <2>3
  <2> QED BY <2>4 DEF leaf
<1> DEFINE value == [field \in IndividualFields |-> Field(Append(path, field))]
           filled == [value EXCEPT !["usedPercent"] =
                          IF value["remainingPercent"] # Absent THEN "ok" ELSE @]
<1>6. Individual(path) # Absent => Individual(path).value = filled
  BY DEF Individual
<1>7. /\ filled["limit"] = Field(Append(path, "limit")) /\ filled["used"] = Field(Append(path, "used"))
      /\ filled["resetsAt"] = Field(Append(path, "resetsAt"))
      /\ filled["remainingPercent"] = Field(Append(path, "remainingPercent"))
      /\ filled["usedPercent"] = IF Field(Append(path, "remainingPercent")) # Absent THEN "ok"
                                 ELSE Field(Append(path, "usedPercent"))
  BY DEF IndividualFields
<1>8. IndividualFields = {"limit", "used", "remainingPercent", "usedPercent", "resetsAt"}
  BY DEF IndividualFields
<1> HIDE DEF path, filled
<1> QED BY <1>5, <1>6, <1>7, <1>8 DEF path

\* Credits have a row when they are meaningful.
LEMMA CreditsAreShown ==
    ASSUME AnswerInv, NEW at \in Snapshots, NEW credits, credits = Credits(Append(at, "credits"))
    PROVE  MeaningfulCredits(credits) <=> credits # Absent /\ CreditsRow(credits) # Absent
<1>1. CASE credits = Absent
  BY <1>1 DEF MeaningfulCredits
<1>2. CASE credits # Absent
  <2> DEFINE c == credits.value
  <2>1. /\ c["hasCredits"] \in {"true", "false", Absent} /\ c["unlimited"] \in {"true", "false", Absent}
        /\ c["balance"] \in {"text", "blank", Absent}
        /\ \A f \in {"remaining", "total", "used"} : c[f] \in {"low", "high", Absent}
    BY <1>2, CreditFieldsAre
  <2>2. Absent \notin Contents \cup CreditsTexts
    BY RateLimitsAssumption
  <2>3. MeaningfulCredits(credits) <=> \/ c["hasCredits"] # Absent \/ c["unlimited"] = "true"
                                       \/ c["balance"] = "text"
                                       \/ c["remaining"] # Absent \/ c["used"] # Absent
    BY <1>2 DEF MeaningfulCredits
  <2>4. CreditsRow(credits) # Absent <=> \/ c["hasCredits"] # Absent \/ c["unlimited"] = "true"
                                         \/ c["balance"] = "text"
                                         \/ c["remaining"] # Absent \/ c["used"] # Absent
    BY <2>1, <2>2 DEF CreditsRow, CreditsTexts, Contents, AtMost
  <2> QED BY <1>2, <2>3, <2>4
<1> QED BY <1>1, <1>2

LEMMA IndividualIsShown ==
    ASSUME AnswerInv, NEW at \in Snapshots,
           NEW individual, individual = Individual(Append(at, "individualLimit"))
    PROVE  MeaningfulIndividual(individual) <=> individual # Absent /\ IndividualRows(individual) # {}
<1>1. CASE individual = Absent
  BY <1>1 DEF MeaningfulIndividual
<1>2. CASE individual # Absent
  <2> DEFINE i == individual.value
  <2>1. /\ i["limit"] \in {"text", "blank", Absent} /\ i["used"] \in {"text", "blank", Absent}
        /\ i["resetsAt"] \in {"soon", "far", Absent} /\ i["usedPercent"] \in {"ok", Absent}
        /\ i["remainingPercent"] # Absent => i["usedPercent"] = "ok"
    BY <1>2, IndividualFieldsAre
  <2>2. Absent \notin Contents
    BY RateLimitsAssumption
  <2>3. MeaningfulIndividual(individual) <=> \/ i["limit"] = "text" \/ i["used"] = "text"
                                             \/ i["remainingPercent"] # Absent
                                             \/ i["usedPercent"] # Absent \/ i["resetsAt"] = "soon"
    BY <1>2 DEF MeaningfulIndividual
  <2>4. IndividualRows(individual) # {}
        <=> \E row \in {"usedPercent", "limit", "used", "resetsAt"} : i[row] \in {"ok", "text", "soon"}
    BY DEF IndividualRows
  <2> HIDE DEF i
  <2>5. Absent \notin {"ok", "text", "soon"}
    BY <2>2 DEF Contents
  <2> QED BY <1>2, <2>1, <2>3, <2>4, <2>5
<1> QED BY <1>1, <1>2

\* A limit has a row when it is meaningful.
LEMMA LimitsAreShown ==
    ASSUME AnswerInv, NEW at \in Snapshots
    PROVE  Meaningful(Snapshot(at)) <=> Rows(Snapshot(at)) # {}
<1> DEFINE limit == Snapshot(at)
<1>1. limit.credits = Credits(Append(at, "credits"))
      /\ limit.individual = Individual(Append(at, "individualLimit"))
  BY SnapshotIs
<1> HIDE DEF limit
<1>2. MeaningfulCredits(limit.credits) <=> limit.credits # Absent /\ CreditsRow(limit.credits) # Absent
  BY <1>1, CreditsAreShown
<1>3. MeaningfulIndividual(limit.individual)
      <=> limit.individual # Absent /\ IndividualRows(limit.individual) # {}
  BY <1>1, IndividualIsShown
<1>4. Rows(limit) # {} <=> \/ limit.value["primary"] # Absent \/ limit.value["secondary"] # Absent
                           \/ limit.individual # Absent /\ IndividualRows(limit.individual) # {}
                           \/ limit.value["planType"] = "text" \/ limit.value["rateLimitReachedType"] = "text"
                           \/ limit.credits # Absent /\ CreditsRow(limit.credits) # Absent
  BY DEF Rows
<1>5. Meaningful(limit) <=> Rows(limit) # {}
  BY <1>2, <1>3, <1>4 DEF Meaningful
<1> QED BY <1>5 DEF limit

\* The limits that count as Codex's.
Candidates == {Limits[key] : key \in {k \in DOMAIN Limits :
                  k = "codex" \/ Limits[k].value["limitId"] = "codex"}}
              \cup ({General} \ {Absent})

LEMMA LimitsAre ==
    ASSUME AnswerInv
    PROVE  /\ \A key \in DOMAIN Limits :
                 Limits[key] # Absent /\ (Meaningful(Limits[key]) <=> Rows(Limits[key]) # {})
           /\ General # Absent => (Meaningful(General) <=> Rows(General) # {})
<1>1. ASSUME NEW key \in DOMAIN Limits
      PROVE  Limits[key] # Absent /\ (Meaningful(Limits[key]) <=> Rows(Limits[key]) # {})
  <2>1. Append(ById, key) \in Snapshots /\ Limits[key] = Snapshot(Append(ById, key))
    BY LimitIs, Zenon DEF Snapshots
  <2>2. Snapshot(Append(ById, key)) # Absent
    BY SnapshotIs
  <2>3. Meaningful(Snapshot(Append(ById, key))) <=> Rows(Snapshot(Append(ById, key))) # {}
    BY <2>1, LimitsAreShown
  <2> QED BY <2>1, <2>2, <2>3, Zenon
<1>2. General # Absent => (Meaningful(General) <=> Rows(General) # {})
  <2>1. <<"rateLimits">> \in Snapshots
    BY DEF Snapshots
  <2>2. General # Absent => General = Snapshot(<<"rateLimits">>)
    BY Zenon DEF General
  <2>3. Meaningful(Snapshot(<<"rateLimits">>)) <=> Rows(Snapshot(<<"rateLimits">>)) # {}
    BY <2>1, LimitsAreShown
  <2> QED BY <2>2, <2>3, Zenon
<1> QED BY <1>1, <1>2

\* The first entry that says it is Codex's is one of them.
LEMMA NamedIs ==
    ASSUME NamedCodex # {}
    PROVE  \E key \in DOMAIN Limits : /\ Limits[Keys[Min(NamedCodex)]] = Limits[key]
                                      /\ Limits[key].value["limitId"] = "codex"
                                      /\ Meaningful(Limits[key])
<1>1. NamedCodex \subseteq Nat
  <2>1. DOMAIN Keys \subseteq Nat
    <3>1. Keys \in Seq(STRING)
      BY RateLimitsAssumption
    <3>2. DOMAIN Keys = 1..Len(Keys) /\ Len(Keys) \in Nat
      BY <3>1
    <3> QED BY <3>2
  <2> QED BY <2>1 DEF NamedCodex
<1>2. Min(NamedCodex) \in NamedCodex
  BY <1>1, LeastOfNaturals
<1> QED BY <1>2, Zenon DEF NamedCodex

\* An entry that says it is Codex's and is meaningful is found.
LEMMA NamedHas ==
    ASSUME NEW key \in DOMAIN Limits, Limits[key].value["limitId"] = "codex", Meaningful(Limits[key])
    PROVE  NamedCodex # {}
<1>1. key \in ToSet(Keys)
  BY LimitIs
<1>2. PICK i \in DOMAIN Keys : Keys[i] = key
  BY <1>1, Zenon DEF ToSet
<1>3. i \in NamedCodex
  BY <1>2, Zenon DEF NamedCodex
<1> QED BY <1>3

\* The limit that is chosen, if there is one.
LEMMA PreferredIs ==
    ASSUME AnswerInv
    PROVE  /\ Preferred # Absent => Preferred \in Candidates /\ Meaningful(Preferred) /\ Rows(Preferred) # {}
           /\ Preferred = Absent /\ outcome = "object" => \A limit \in Candidates : Rows(limit) = {}
<1> DEFINE codex == Limits["codex"]
           named == Limits[Keys[Min(NamedCodex)]]
<1>0. /\ \A key \in DOMAIN Limits :
            Limits[key] # Absent /\ (Meaningful(Limits[key]) <=> Rows(Limits[key]) # {})
      /\ General # Absent => (Meaningful(General) <=> Rows(General) # {})
  BY LimitsAre
<1>1. CASE outcome # "object"
  BY <1>1 DEF Preferred
<1>2. CASE outcome = "object" /\ "codex" \in DOMAIN Limits /\ Meaningful(codex)
  <2>1. Preferred = codex
    BY <1>2, Zenon DEF Preferred
  <2>2. codex \in Candidates
    BY <1>2, Zenon DEF Candidates
  <2> QED BY <1>0, <1>2, <2>1, <2>2, Zenon
<1>3. CASE outcome = "object" /\ ~("codex" \in DOMAIN Limits /\ Meaningful(codex)) /\ NamedCodex # {}
  <2>1. Preferred = named
    BY <1>3, Zenon DEF Preferred
  <2>2. PICK key \in DOMAIN Limits : /\ named = Limits[key]
                                     /\ Limits[key].value["limitId"] = "codex"
                                     /\ Meaningful(Limits[key])
    BY <1>3, NamedIs, Zenon
  <2>3. Limits[key] \in Candidates
    BY <2>2, Zenon DEF Candidates
  <2> QED BY <1>0, <2>1, <2>2, <2>3, Zenon
<1>4. CASE /\ outcome = "object" /\ ~("codex" \in DOMAIN Limits /\ Meaningful(codex))
           /\ NamedCodex = {}
  <2>1. Preferred = IF General # Absent /\ Meaningful(General) THEN General ELSE Absent
    BY <1>4, Zenon DEF Preferred
  <2>2. General # Absent => General \in Candidates
    BY Zenon DEF Candidates
  <2>3. ASSUME NEW limit \in Candidates, Preferred = Absent PROVE Rows(limit) = {}
    <3>1. CASE \E key \in DOMAIN Limits : limit = Limits[key] /\ key = "codex"
      BY <1>0, <1>4, <3>1, Zenon
    <3>2. CASE \E key \in DOMAIN Limits : limit = Limits[key] /\ Limits[key].value["limitId"] = "codex"
      <4>1. PICK key \in DOMAIN Limits : limit = Limits[key] /\ Limits[key].value["limitId"] = "codex"
        BY <3>2
      <4>2. ~Meaningful(Limits[key])
        BY <1>4, <4>1, NamedHas, Zenon
      <4> QED BY <1>0, <4>1, <4>2, Zenon
    <3>3. CASE limit = General /\ General # Absent
      <4>1. ~Meaningful(General)
        BY <2>1, <2>3, <3>3, Zenon
      <4> QED BY <1>0, <3>3, <4>1, Zenon
    <3> QED BY <2>3, <3>1, <3>2, <3>3, Zenon DEF Candidates
  <2> QED BY <1>0, <2>1, <2>2, <2>3, Zenon
<1> QED BY <1>1, <1>2, <1>3, <1>4, Zenon

LEMMA AnswerInvDataIsShown == AnswerInv => DataIsShown
<1> SUFFICES ASSUME AnswerInv PROVE DataIsShown
  OBVIOUS
<1>1. /\ Preferred # Absent => Preferred \in Candidates /\ Meaningful(Preferred) /\ Rows(Preferred) # {}
      /\ Preferred = Absent /\ outcome = "object" => \A limit \in Candidates : Rows(limit) = {}
  BY PreferredIs
<1>2. WindowRow = "No data" => Preferred = Absent /\ ~QualityRow
  <2>1. Absent # "No data"
    BY RateLimitsAssumption
  <2> QED BY <2>1 DEF WindowRow, QualityRow
<1>3. ShownRows = {} <=> ~(ResetCredits # Absent \/ (Preferred # Absent /\ Meaningful(Preferred)))
  BY <1>1 DEF ShownRows
<1>4. CheckStatus = IF ShownRows = {}
                    THEN IF QualityRow THEN "unavailable (data quality issues)" ELSE "unavailable"
                    ELSE IF QualityRow THEN "partially available" ELSE "available"
  BY <1>3 DEF CheckStatus, QualityRow
<1> QED BY <1>1, <1>2, <1>4, Zenon DEF DataIsShown, Candidates

\* For every such answer: a limit is chosen when one of Codex's has something
\* to show, its rows then show something, and the popover and --check say the
\* same of it (preferred_codex_limit, rate_limit_snapshot_has_meaningful_data,
\* format_credits, check_rate_limit_status).
THEOREM DataAreShown == SpecAnswer => []DataIsShown
BY SpecAnswerInv, AnswerInvDataIsShown, PTL
=============================================================================
