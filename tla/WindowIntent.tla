---------------------------- MODULE WindowIntent ----------------------------
(***************************************************************************)
(* What the tray promises about the popover window, with no queue in it:   *)
(* every click counts, in the order it was made, however many there are.   *)
(*                                                                         *)
(* The clicks not carried out yet are summed up by a plan: for a window    *)
(* that is now hidden (FALSE) or visible (TRUE), where it will end up.     *)
(* A plan says Stay for a visible window that is still where it was.       *)
(***************************************************************************)
CONSTANTS Anchors,      \* the places a click can put the popover
          Hidden,       \* the window is not shown; not an anchor
          Stay,         \* the plan leaves a visible window in place; neither
          None          \* no click yet

VARIABLES plan, window, open,
          latest        \* the last click, and whether the clicks so far are odd

intentVars == <<plan, window, open, latest>>

Places == Anchors \cup {Hidden}

Plans == {p \in [BOOLEAN -> Places \cup {Stay}] : p[FALSE] # Stay}

WindowCommands == [op : {"Toggle", "Show"}, at : Anchors]

Identity == [visible \in BOOLEAN |-> IF visible THEN Stay ELSE Hidden]

\* Toggle hides a visible window and presents a hidden one; Show presents it.
PlanOf(c) ==
    [visible \in BOOLEAN |->
        IF c.op = "Toggle" /\ visible THEN Hidden ELSE c.at]

\* Plan p, then plan q.
Then(p, q) ==
    [visible \in BOOLEAN |->
        LET next == q[p[visible] # Hidden]
        IN  IF next = Stay THEN p[visible] ELSE next]

Perform(p, w) == LET end == p[w # Hidden] IN IF end = Stay THEN w ELSE end

Init == /\ plan = Identity
        /\ window \in Places
        /\ open = TRUE
        /\ latest = [click |-> None, odd |-> FALSE]

\* A click extends the plan and never shortens it.
Click(c) == /\ plan' = Then(plan, PlanOf(c))
            /\ latest' = [click |-> c, odd |-> ~latest.odd]
            /\ UNCHANGED <<window, open>>

\* The program carries out a first part of the plan and owes the rest.
CarryOut == \E first, rest \in Plans :
                /\ plan = Then(first, rest)
                /\ window' = Perform(first, window)
                /\ plan' = rest
                /\ UNCHANGED <<open, latest>>

\* The user closes the window: what is still planned starts from there.
Dismiss == /\ open
           /\ window' = Hidden
           /\ UNCHANGED <<plan, open, latest>>

\* Quit is the only thing that drops clicks, and nothing is carried out after.
Quit == /\ open' = FALSE
        /\ plan' = Identity
        /\ UNCHANGED <<window, latest>>

Next == \/ \E c \in WindowCommands : Click(c)
        \/ open /\ CarryOut
        \/ Dismiss
        \/ Quit

Spec == Init /\ [][Next]_intentVars
=============================================================================
