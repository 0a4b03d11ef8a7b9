----------------------------- MODULE UsageChart -----------------------------
(***************************************************************************)
(* Inspecting the chart (linux/src/chart.rs): the pointer hovers over a    *)
(* day, a click or an arrow key pins one, Escape clears both, the screen   *)
(* reader is told, the widget redrawn, and every render of the popover     *)
(* puts a new chart in place of the old one.  Horizontal positions are in  *)
(* half days; the ticks and the nearest day are those of                   *)
(* chart/preparation.rs.                                                   *)
(***************************************************************************)
EXTENDS Integers, Sequences, FiniteSetsExt

CONSTANTS Charts,    \* bound: the days of each chart, counted from its first
          MaxTicks,  \* maximum_tick_count of the timeframes
          None

ASSUME UsageChartAssumption ==
    /\ Charts \subseteq Seq(Nat)
    /\ \A days \in Charts : \A i \in DOMAIN days :
          days[1] = 0 /\ (i > 1 => days[i - 1] < days[i])
    /\ MaxTicks \subseteq Nat \ {0, 1} /\ None \notin Int /\ None \notin {"cleared", "passed"}
    /\ None \notin [x : Int, inRows : BOOLEAN]

VARIABLES chart,      \* the days of the chart; empty when there is no data to show
          hovered, pinned, suppressed,    \* Selection
          pointer,    \* where the pointer is; None outside the widget
          announced,  \* the point that assistive technology was told of last
          drawn,      \* the point that is marked on the screen
          queued,     \* a redraw is due
          escaped     \* what the last Escape did, until something is chosen anew

selection == <<hovered, pinned, suppressed>>
vars == <<chart, selection, pointer, announced, drawn, queued, escaped>>

-----------------------------------------------------------------------------
(* Positions. *)

\* bucket_positions, in half days; a single day is in the middle.
Positions == IF Len(chart) = 1 THEN <<1>> ELSE [i \in DOMAIN chart |-> 2 * chart[i]]
RightEnd == IF Len(chart) = 1 THEN 2 ELSE 2 * chart[Len(chart)]

\* The binary search: the neighbours of a position that lies between the ends.
Neighbours(position, positions) ==
    LET search[range \in (DOMAIN positions) \X (DOMAIN positions)] ==
            LET lower == range[1]
                upper == range[2]
                middle == (lower + upper) \div 2
            IN  IF upper - lower <= 1 THEN range
                ELSE IF positions[middle] < position THEN search[<<middle, upper>>]
                ELSE search[<<lower, middle>>]
    IN  search[<<1, Len(positions)>>]

\* Mutant of Nearest: the search's lower neighbour is always taken.
NearestBelow(position, positions) ==
    IF position <= positions[1] THEN 1
    ELSE IF position >= positions[Len(positions)] THEN Len(positions)
    ELSE Neighbours(position, positions)[1]

\* nearest_index_in_valid_positions
Nearest(position, positions) ==
    IF Len(positions) = 1 \/ position <= positions[1] THEN 1
    ELSE IF position >= positions[Len(positions)] THEN Len(positions)
    ELSE LET between == Neighbours(position, positions)
         IN  IF position - positions[between[1]] < positions[between[2]] - position
             THEN between[1] ELSE between[2]

\* tick_indices_in_valid_positions, with its fractions multiplied out.
Ticks(maximum) ==
    LET scaled == [i \in DOMAIN chart |-> Positions[i] * (maximum - 1)]
    IN  IF Len(chart) <= maximum THEN DOMAIN chart
        ELSE {Nearest(tick * RightEnd, scaled) : tick \in 0 .. maximum - 1}

\* Where the pointer can be: left of the plot, in it, right of it; above it or in it.
Places == [x : -1 .. RightEnd + 1, inRows : BOOLEAN]
InPlot(place) == place.inRows /\ 0 <= place.x /\ place.x <= RightEnd

-----------------------------------------------------------------------------
(* The selection. *)

Chosen(hover, pin) == IF hover # None THEN hover ELSE pin
Active == Chosen(hovered, pinned)

\* update_chart_accessibility and queue_draw
Tell(index) == announced' = index /\ queued' = TRUE
TellIfChanged == IF Chosen(hovered', pinned) # Active
                 THEN Tell(Chosen(hovered', pinned)) ELSE UNCHANGED <<announced, queued>>

Enter ==
    /\ chart # <<>> /\ pointer = None
    /\ pointer' \in Places
    /\ suppressed' = FALSE /\ escaped' = None
    /\ UNCHANGED <<chart, hovered, pinned, announced, drawn, queued>>

\* Mutant of Move: the pointer hovers although it was told not to.
MoveAnyway ==
    /\ pointer # None /\ pointer' \in Places
    /\ hovered' = IF InPlot(pointer') THEN Nearest(pointer'.x, Positions) ELSE None
    /\ TellIfChanged
    /\ UNCHANGED <<chart, pinned, suppressed, drawn, escaped>>

Move ==
    /\ pointer # None /\ pointer' \in Places
    /\ hovered' = IF suppressed THEN hovered
                  ELSE IF InPlot(pointer') THEN Nearest(pointer'.x, Positions) ELSE None
    /\ TellIfChanged
    /\ UNCHANGED <<chart, pinned, suppressed, drawn, escaped>>

\* Mutant of Leave: nothing is announced as selected, although a point is pinned.
LeaveForgetting ==
    /\ pointer # None /\ pointer' = None /\ hovered' = None
    /\ IF hovered # None THEN Tell(None) ELSE UNCHANGED <<announced, queued>>
    /\ UNCHANGED <<chart, pinned, suppressed, drawn, escaped>>

Leave ==
    /\ pointer # None /\ pointer' = None /\ hovered' = None
    /\ TellIfChanged
    /\ UNCHANGED <<chart, pinned, suppressed, drawn, escaped>>

Click ==
    /\ pointer # None /\ InPlot(pointer)
    /\ hovered' = Nearest(pointer.x, Positions) /\ pinned' = hovered'
    /\ suppressed' = FALSE /\ escaped' = None
    /\ Tell(hovered')
    /\ UNCHANGED <<chart, pointer, drawn>>

\* The arrow keys, from the active point or else the last one.
Press ==
    /\ chart # <<>>
    /\ LET current == IF Active = None THEN Len(chart) ELSE Active
       IN  pinned' \in {Max({current - 1, 1}), Min({current + 1, Len(chart)})}
    /\ hovered' = None /\ suppressed' = TRUE /\ escaped' = None
    /\ Tell(pinned')
    /\ UNCHANGED <<chart, pointer, drawn>>

\* Escape clears the selection, or else goes on to the window, which it dismisses.
Escape ==
    /\ chart # <<>>
    /\ \/ /\ Active # None /\ escaped' = "cleared"
          /\ hovered' = None /\ pinned' = None /\ suppressed' = TRUE
          /\ Tell(None)
       \/ /\ Active = None /\ escaped' = "passed"
          /\ UNCHANGED <<selection, announced, queued>>
    /\ UNCHANGED <<chart, pointer, drawn>>

\* A frame: the draw function reads the selection as it is now.
Draw ==
    /\ queued /\ queued' = FALSE /\ drawn' = Active
    /\ UNCHANGED <<chart, selection, pointer, announced, escaped>>

\* usage_chart: the popover is rendered again, with a new chart.
Rerender ==
    /\ chart' \in Charts
    /\ hovered' = None /\ pinned' = None /\ suppressed' = FALSE
    /\ pointer' = None /\ announced' = None /\ drawn' = None /\ queued' = TRUE
    /\ escaped' = None

Init ==
    /\ chart \in Charts
    /\ hovered = None /\ pinned = None /\ suppressed = FALSE
    /\ pointer = None /\ announced = None /\ drawn = None /\ queued = TRUE
    /\ escaped = None

Next == Enter \/ Move \/ Leave \/ Click \/ Press \/ Escape \/ Draw \/ Rerender

Spec == Init /\ [][Next]_vars

-----------------------------------------------------------------------------
(* Properties. *)

\* What the screen reader was told is the point that is selected, and the
\* mark on the screen is on it or about to be (the early returns of the
\* motion and leave handlers skip both when the active point is the same).
AnnouncedIsDrawn == /\ announced = Active
                    /\ drawn = Active \/ queued

\* After an Escape that cleared the selection the next one dismisses the
\* window, however the pointer moves in between, unless it left and came
\* back, or a point was chosen again (clear_for_escape and its comment).
SecondEscapePasses == escaped = "cleared" => Active = None

Distance(a, b) == IF a < b THEN b - a ELSE a - b

\* i is no further from x than j is, with positions multiplied by scale.
Nearer(i, j, x, scale) ==
    Distance(Positions[i] * scale, x) <= Distance(Positions[j] * scale, x)

HoverIsNearest ==
    hovered # None => /\ pointer # None /\ InPlot(pointer)
                      /\ \A i \in DOMAIN chart : Nearer(hovered, i, pointer.x, 1)

TicksAreNearest(maximum) ==
    /\ {1, Len(chart)} \subseteq Ticks(maximum)
    /\ Cardinality(Ticks(maximum)) <= maximum
    /\ \A tick \in 0 .. maximum - 1 : \E i \in Ticks(maximum) : \A j \in DOMAIN chart :
          Nearer(i, j, tick * RightEnd, maximum - 1)

\* The hovered day is the one nearest to the pointer, which is in the plot;
\* the ticks of an axis are in the chart, with its first and its last day,
\* no more than the axis has room for, and none further from its place than
\* any other day is (nearest_index_in_valid_positions,
\* tick_indices_in_valid_positions).
PointedIsNearest ==
    /\ HoverIsNearest
    /\ chart # <<>> => \A maximum \in MaxTicks : TicksAreNearest(maximum)
=============================================================================
