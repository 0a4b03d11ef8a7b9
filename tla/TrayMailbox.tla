----------------------------- MODULE TrayMailbox -----------------------------
(***************************************************************************)
(* The mailbox between the tray thread and the GTK thread (TrayMailbox in  *)
(* linux/src/tray.rs): tray callbacks send at any moment, the main loop    *)
(* polls and carries the window commands out.                              *)
(***************************************************************************)
EXTENDS TrayCommands

CONSTANTS Stay,
          Limits        \* the maxima take_pending may be called with

ASSUME MailboxAssumption ==
    /\ Stay \notin Anchors /\ Hidden # Stay
    /\ Limits \subseteq Nat

VARIABLES mailbox,      \* TrayMailboxState, behind its mutex
          window,       \* where the popover is, or Hidden
          running,      \* the GTK main loop has not been told to quit
          latest        \* what the user clicked last, which no code looks at

vars == <<mailbox, window, running, latest>>

\* A poll carries out its window commands in order; there are two at most.
MovedBy(w, s) ==
    CASE Len(s) = 0 -> w
      [] Len(s) = 1 -> Moved(w, s[1])
      [] OTHER -> Moved(Moved(w, s[1]), s[2])

Init == /\ mailbox = EmptyMailbox
        /\ window \in Places
        /\ running = TRUE
        /\ latest = [click |-> None, odd |-> FALSE]

Send(c) == /\ mailbox' = Sent(mailbox, c)
           /\ latest' = IF c \in WindowCommands
                        THEN [click |-> c, odd |-> ~latest.odd] ELSE latest
           /\ UNCHANGED <<window, running>>

Poll(maximum) ==
    /\ running
    /\ mailbox' = Remaining(mailbox, maximum)
    /\ IF HasOp(Taken(mailbox, maximum), "Quit")
       THEN running' = FALSE /\ UNCHANGED window
       ELSE /\ window' = MovedBy(window, TakenWindow(mailbox, maximum))
            /\ UNCHANGED running
    /\ UNCHANGED latest

\* Escape or the window manager's close button, between two polls.
Dismiss == /\ running
           /\ window' = Hidden
           /\ UNCHANGED <<mailbox, running, latest>>

Next == \/ \E c \in Commands : Send(c)
        \/ \E maximum \in Limits : Poll(maximum)
        \/ Dismiss

\* The 80 ms timer of the main loop keeps polling.
Fairness == WF_vars(\E maximum \in Limits \ {0} : Poll(maximum))

Spec == Init /\ [][Next]_vars /\ Fairness

-----------------------------------------------------------------------------
(* Properties. *)

PlanOfQueue(s) ==
    [visible \in BOOLEAN |->
        CASE Len(s) = 0 -> IF visible THEN Stay ELSE Hidden
          [] Len(s) = 1 -> IF s[1].op = "Toggle" /\ visible THEN Hidden ELSE s[1].at
          [] OTHER ->
                IF s[2].op = "Toggle" /\ ~(s[1].op = "Toggle" /\ visible)
                THEN Hidden ELSE s[2].at]

Intent == INSTANCE WindowIntent
            WITH plan <- PlanOfQueue(mailbox.transient), open <- running

\* Every slot holds what it may hold, and the window queue never outgrows
\* MAX_PENDING_WINDOW_COMMANDS however fast the tray thread sends.
TypeOK == /\ mailbox \in Mailboxes
          /\ Len(mailbox.transient) <= MaxPendingWindowCommands
          /\ window \in Places
          /\ running \in BOOLEAN
          /\ latest \in [click : WindowCommands \cup {None}, odd : BOOLEAN]

\* The pending window commands are in reduced form: a Show is only ever first,
\* so that the coalescing loop's "unreachable" branch is, and a partial
\* take_pending leaves a queue the next coalescing can start from.
ReducedQueue == Reduced(mailbox.transient)

\* Dropping clicks is invisible: through any mix of clicks, partial polls and
\* dismissals between them, the window ends where the unbounded sequence of
\* clicks would have put it, whether it was visible or hidden to begin with.
\* Only Quit discards clicks, and nothing is carried out after it.
EveryClickCounts == Intent!Spec

\* Once the user has chosen Quit the program stops, whatever is sent around
\* it and however few commands a poll may take.
QuitStops == mailbox.quit ~> ~running
=============================================================================
