----------------------------- MODULE TrayCommands -----------------------------
(***************************************************************************)
(* The tray mailbox of the Linux application as data (linux/src/tray.rs):  *)
(* the commands tray callbacks send, the state behind the mailbox's mutex  *)
(* and the two operations on it.  The mailbox is a bounded summary of what *)
(* was sent: one slot per setting, two flags, at most two window commands. *)
(***************************************************************************)
EXTENDS Naturals, Sequences

CONSTANTS Anchors,      \* positions a tray click reports
          Timeframes,
          Hidden,       \* the popover is not shown
          None

ASSUME CommandsAssumption ==
    /\ Hidden \notin Anchors
    /\ None \notin Timeframes /\ None \notin BOOLEAN

MaxPendingWindowCommands == 2

WindowCommands == [op : {"Toggle", "Show"}, at : Anchors]
TimeframeCommands == [op : {"SetTimeframe"}, timeframe : Timeframes]
AutostartCommands == [op : {"SetAutostart"}, enabled : BOOLEAN]
Refresh == [op |-> "Refresh"]
Quit == [op |-> "Quit"]
Commands == WindowCommands \cup TimeframeCommands \cup AutostartCommands
                \cup {Refresh, Quit}

Mailboxes == [transient : Seq(WindowCommands), refresh : BOOLEAN,
              timeframe : Timeframes \cup {None},
              autostart : BOOLEAN \cup {None}, quit : BOOLEAN]

EmptyMailbox == [transient |-> <<>>, refresh |-> FALSE, timeframe |-> None,
                 autostart |-> None, quit |-> FALSE]

-----------------------------------------------------------------------------
(* The two operations. *)

\* The last Show of a sequence, 0 when it has none.
LastShow(s) ==
    LET shows == {i \in DOMAIN s : s[i].op = "Show"}
    IN  IF shows = {} THEN 0
        ELSE CHOOSE i \in shows : \A j \in shows : j <= i

\* Window commands in the order they were sent, reduced to two at most.  After
\* the last Show only toggles remain: each second one presents the window again,
\* at its own anchor, and an odd number of them leaves it hidden.
Reduction(s) ==
    LET show == LastShow(s)
        toggles == Len(s) - show
        reshow == [op |-> "Show", at |-> s[show + 2 * (toggles \div 2)].at]
        last == s[Len(s)]
    IN  IF show # 0
        THEN IF toggles % 2 = 0 THEN <<reshow>> ELSE <<reshow, last>>
        ELSE IF Len(s) % 2 = 1 THEN <<last>> ELSE <<s[Len(s) - 1], last>>

\* Mutants of Coalesced: no reduction; the hiding Toggle put before the Show;
\* the anchor of a reopening Toggle forgotten.
CoalescedUnbounded(pending, c) == Append(pending, c)

CoalescedToggleFirst(pending, c) ==
    LET s == Reduction(Append(pending, c))
    IN  IF Len(s) = 2 /\ s[1].op = "Show" THEN <<s[2], s[1]>> ELSE s

CoalescedKeepsAnchor(pending, c) ==
    LET s == Append(pending, c)
    IN  IF LastShow(s) = 1 /\ Len(s) = 3 THEN <<s[1]>> ELSE Reduction(s)

\* coalesce_window_command: the queue once a window command is added to it.
Coalesced(pending, c) == Reduction(Append(pending, c))

\* TrayMailboxSender::send
Sent(m, c) ==
    CASE c.op = "Quit" -> [m EXCEPT !.quit = TRUE]
      [] c.op = "Refresh" -> [m EXCEPT !.refresh = TRUE]
      [] c.op = "SetTimeframe" -> [m EXCEPT !.timeframe = c.timeframe]
      [] c.op = "SetAutostart" -> [m EXCEPT !.autostart = c.enabled]
      [] OTHER -> [m EXCEPT !.transient = Coalesced(@, c)]

\* The settings and the refresh request, in the order take_pending looks.
Requests(m) ==
    (IF m.timeframe = None THEN <<>>
     ELSE <<[op |-> "SetTimeframe", timeframe |-> m.timeframe]>>)
    \o (IF m.autostart = None THEN <<>>
        ELSE <<[op |-> "SetAutostart", enabled |-> m.autostart]>>)
    \o (IF m.refresh THEN <<Refresh>> ELSE <<>>)

AtMost(a, b) == IF a < b THEN a ELSE b

TakenRequests(m, maximum) ==
    SubSeq(Requests(m), 1, AtMost(maximum, Len(Requests(m))))

\* How many window commands fit behind the requests, up to maximum in all.
WindowRoom(m, maximum) ==
    IF maximum = 0 THEN 0
    ELSE AtMost(maximum - Len(TakenRequests(m, maximum)), Len(m.transient))

TakenWindow(m, maximum) == SubSeq(m.transient, 1, WindowRoom(m, maximum))

\* Mutant of Taken: Quit waits for its turn behind the settings.
TakenQuitLast(m, maximum) ==
    LET others == TakenRequests(m, maximum) \o TakenWindow(m, maximum)
    IN  IF maximum = 0 THEN <<>>
        ELSE IF m.quit /\ others = <<>> THEN <<Quit>> ELSE others

\* take_pending: the commands returned, and what stays behind.
Taken(m, maximum) ==
    IF maximum = 0 THEN <<>>
    ELSE IF m.quit THEN <<Quit>>
    ELSE TakenRequests(m, maximum) \o TakenWindow(m, maximum)

HasOp(batch, op) == \E i \in DOMAIN batch : batch[i].op = op

Remaining(m, maximum) ==
    LET requests == TakenRequests(m, maximum)
    IN  IF maximum = 0 THEN m
        ELSE IF m.quit THEN EmptyMailbox
        ELSE [transient |->
                  SubSeq(m.transient, WindowRoom(m, maximum) + 1, Len(m.transient)),
              refresh |-> m.refresh /\ ~HasOp(requests, "Refresh"),
              timeframe |-> IF HasOp(requests, "SetTimeframe") THEN None ELSE m.timeframe,
              autostart |-> IF HasOp(requests, "SetAutostart") THEN None ELSE m.autostart,
              quit |-> FALSE]

\* A reduced queue: a Show is only ever first.
Reduced(s) == \A i \in DOMAIN s : s[i].op = "Show" => i = 1

-----------------------------------------------------------------------------
(* The window, as process_tray_commands moves it. *)

Places == Anchors \cup {Hidden}

\* One command of process_tray_commands that concerns the window.
Moved(w, c) == IF c.op = "Toggle" /\ w # Hidden THEN Hidden ELSE c.at
=============================================================================
