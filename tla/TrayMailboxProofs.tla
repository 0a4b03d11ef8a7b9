--------------------------- MODULE TrayMailboxProofs ---------------------------
(***************************************************************************)
(* Proofs about the tray mailbox, for any set of anchors and timeframes    *)
(* and any poll limits: its queue stays reduced and bounded, and dropping  *)
(* clicks is invisible (TrayMailbox implements WindowIntent).              *)
(***************************************************************************)
EXTENDS TrayMailbox, TrayCommandsProofs

Inv == TypeOK /\ ReducedQueue

-----------------------------------------------------------------------------
(* Plans: what a queue does to a hidden and to a visible window. *)

LEMMA PlanOfShort ==
    ASSUME NEW x \in WindowCommands, NEW y \in WindowCommands
    PROVE  /\ PlanOfQueue(<<>>) = Intent!Identity
           /\ PlanOfQueue(<<x>>) = Intent!PlanOf(x)
           /\ PlanOfQueue(<<x, y>>) = Intent!Then(Intent!PlanOf(x), Intent!PlanOf(y))
<1>1. x.at # Hidden /\ x.at # Stay /\ y.at # Hidden /\ y.at # Stay
  BY CommandsAssumption, MailboxAssumption DEF WindowCommands
<1>2. Len(<<x>>) = 1 /\ <<x>>[1] = x
  OBVIOUS
<1>3. PlanOfQueue(<<>>) = Intent!Identity
  BY DEF PlanOfQueue, Intent!Identity
<1>4. PlanOfQueue(<<x>>) = Intent!PlanOf(x)
  BY <1>2 DEF PlanOfQueue, Intent!PlanOf
<1>5. PlanOfQueue(<<x, y>>) = Intent!Then(Intent!PlanOf(x), Intent!PlanOf(y))
  <2>1. Len(<<x, y>>) = 2 /\ <<x, y>>[1] = x /\ <<x, y>>[2] = y
    OBVIOUS
  <2>. DEFINE both ==
         [visible \in BOOLEAN |->
            IF y.op = "Toggle" /\ ~(x.op = "Toggle" /\ visible)
            THEN Hidden ELSE y.at]
  <2>2. PlanOfQueue(<<x, y>>) = both
    BY <2>1 DEF PlanOfQueue
  <2>3. Intent!Then(Intent!PlanOf(x), Intent!PlanOf(y)) = both
    BY <1>1, CommandsAssumption, MailboxAssumption DEF Intent!PlanOf, Intent!Then
  <2>. QED  BY <2>2, <2>3, Zenon
<1>. QED  BY <1>3, <1>4, <1>5

\* Reducing the queue does not change what it does to a window: the new command
\* is simply carried out after the pending ones.
LEMMA CoalescedPlan ==
    ASSUME NEW s \in Seq(WindowCommands), Len(s) <= 2, Reduced(s),
           NEW c \in WindowCommands
    PROVE  PlanOfQueue(Coalesced(s, c)) =
             Intent!Then(PlanOfQueue(s), Intent!PlanOf(c))
<1>. DEFINE P(w) == Intent!PlanOf(w)
<1>1. /\ c.op \in {"Show", "Toggle"}
      /\ [op |-> "Show", at |-> c.at] \in WindowCommands
  BY DEF WindowCommands
<1>2. \A w \in WindowCommands : w.at # Hidden /\ w.at # Stay
  BY CommandsAssumption, MailboxAssumption DEF WindowCommands
<1>3. P(c) = Intent!Then(Intent!Identity, P(c))
  BY <1>2, CommandsAssumption, MailboxAssumption DEF Intent!PlanOf, Intent!Then, Intent!Identity
<1>4. ASSUME c.op = "Show", NEW p \in [BOOLEAN -> Places \cup {Stay}]
      PROVE  P(c) = Intent!Then(p, P(c))
  BY <1>2, <1>4, CommandsAssumption, MailboxAssumption DEF Intent!PlanOf, Intent!Then
<1>5. CASE s = <<>>
  BY <1>1, <1>3, <1>5, CoalescedCases, PlanOfShort
<1>6. CASE \E x \in WindowCommands : s = <<x>>
  <2>1. PICK x \in WindowCommands : s = <<x>>
    BY <1>6
  <2>2. CASE c.op = "Show"
    <3>1. P(x) \in [BOOLEAN -> Places \cup {Stay}]
      BY DEF Intent!PlanOf, Places, WindowCommands
    <3>. QED  BY <1>4, <2>1, <2>2, <3>1, CoalescedCases, PlanOfShort
  <2>3. CASE c.op = "Toggle"
    BY <2>1, <2>3, CoalescedCases, PlanOfShort
  <2>. QED  BY <1>1, <2>2, <2>3
<1>7. CASE \E x, y \in WindowCommands : s = <<x, y>>
  <2>1. PICK x \in WindowCommands, y \in WindowCommands : s = <<x, y>>
    BY <1>7
  <2>2. x.op \in {"Show", "Toggle"} /\ y.op = "Toggle"
    <3>1. y.op # "Show"
      BY <2>1 DEF Reduced
    <3>. QED  BY <3>1 DEF WindowCommands
  <2>3. CASE c.op = "Show"
    <3>1. Intent!Then(P(x), P(y)) \in [BOOLEAN -> Places \cup {Stay}]
      BY DEF Intent!PlanOf, Intent!Then, Places, WindowCommands
    <3>. QED  BY <1>4, <2>1, <2>3, <3>1, CoalescedCases, PlanOfShort
  <2>4. CASE c.op = "Toggle" /\ x.op = "Toggle"
    <3>1. P(c) = Intent!Then(Intent!Then(P(x), P(y)), P(c))
      BY <1>2, <2>2, <2>4, CommandsAssumption, MailboxAssumption DEF Intent!PlanOf, Intent!Then
    <3>. QED  BY <2>1, <2>2, <2>4, <3>1, CoalescedCases, PlanOfShort
  <2>5. CASE c.op = "Toggle" /\ x.op = "Show"
    <3>1. P([op |-> "Show", at |-> c.at]) = Intent!Then(Intent!Then(P(x), P(y)), P(c))
      BY <1>2, <2>2, <2>5, CommandsAssumption, MailboxAssumption DEF Intent!PlanOf, Intent!Then
    <3>. QED  BY <1>1, <2>1, <2>2, <2>5, <3>1, CoalescedCases, PlanOfShort
  <2>. QED  BY <1>1, <2>2, <2>3, <2>4, <2>5
<1>8. \/ s = <<>>
      \/ \E x \in WindowCommands : s = <<x>>
      \/ \E x, y \in WindowCommands : s = <<x, y>>
  BY ShortSequence
<1>. QED  BY <1>5, <1>6, <1>7, <1>8

\* Splitting a queue at n: what is taken and what stays make up the plan, and
\* the window moves by the plan of what is taken.
LEMMA SplitQueue ==
    ASSUME NEW s \in Seq(WindowCommands), Len(s) <= 2, Reduced(s),
           NEW n \in 0..Len(s), NEW w \in Places
    PROVE  LET first == SubSeq(s, 1, n)
               rest == SubSeq(s, n + 1, Len(s))
           IN  /\ rest \in Seq(WindowCommands) /\ Len(rest) <= 2 /\ Reduced(rest)
               /\ PlanOfQueue(first) \in Intent!Plans
               /\ PlanOfQueue(rest) \in Intent!Plans
               /\ PlanOfQueue(s) = Intent!Then(PlanOfQueue(first), PlanOfQueue(rest))
               /\ MovedBy(w, first) = Intent!Perform(PlanOfQueue(first), w)
               /\ MovedBy(w, first) \in Places
<1>. DEFINE P(c) == Intent!PlanOf(c)
            good(first, rest) ==
               /\ rest \in Seq(WindowCommands) /\ Len(rest) <= 2 /\ Reduced(rest)
               /\ PlanOfQueue(first) \in Intent!Plans
               /\ PlanOfQueue(rest) \in Intent!Plans
               /\ PlanOfQueue(s) = Intent!Then(PlanOfQueue(first), PlanOfQueue(rest))
               /\ MovedBy(w, first) = Intent!Perform(PlanOfQueue(first), w)
               /\ MovedBy(w, first) \in Places
<1>. SUFFICES good(SubSeq(s, 1, n), SubSeq(s, n + 1, Len(s)))
  BY Zenon
<1>. HIDE DEF good
<1>1. \A c \in WindowCommands : /\ c.at \in Anchors /\ c.at # Hidden /\ c.at # Stay
  BY CommandsAssumption, MailboxAssumption DEF WindowCommands
<1>2. Intent!Identity \in Intent!Plans /\ Hidden # Stay
  BY CommandsAssumption, MailboxAssumption DEF Intent!Identity, Intent!Plans, Intent!Places
<1>3. \A c \in WindowCommands : P(c) \in Intent!Plans
  BY <1>1, CommandsAssumption, MailboxAssumption DEF Intent!PlanOf, Intent!Plans, Intent!Places
<1>4. \A p \in Intent!Plans : /\ Intent!Then(Intent!Identity, p) = p
                              /\ Intent!Then(p, Intent!Identity) = p
  BY CommandsAssumption, MailboxAssumption DEF Intent!Identity, Intent!Plans, Intent!Places, Intent!Then
<1>5. \A p, q \in Intent!Plans : Intent!Then(p, q) \in Intent!Plans
  BY CommandsAssumption, MailboxAssumption DEF Intent!Plans, Intent!Places, Intent!Then
<1>6. /\ MovedBy(w, <<>>) = w
      /\ Intent!Perform(Intent!Identity, w) = w
  <2>1. MovedBy(w, <<>>) = w
    BY DEF MovedBy
  <2>2. Intent!Identity[TRUE] = Stay /\ Intent!Identity[FALSE] = Hidden
    BY DEF Intent!Identity
  <2>3. Intent!Perform(Intent!Identity, w) = w
    <3>1. CASE w = Hidden
      BY <1>2, <2>2, <3>1 DEF Intent!Perform
    <3>2. CASE w # Hidden
      BY <2>2, <3>2 DEF Intent!Perform
    <3>. QED  BY <3>1, <3>2
  <2>. QED  BY <2>1, <2>3
<1>7. \A c \in WindowCommands : /\ Moved(w, c) = Intent!Perform(P(c), w)
                                /\ Moved(w, c) \in Places
                                /\ MovedBy(w, <<c>>) = Moved(w, c)
  <2>. SUFFICES ASSUME NEW c \in WindowCommands
                PROVE  /\ Moved(w, c) = Intent!Perform(P(c), w)
                       /\ Moved(w, c) \in Places
                       /\ MovedBy(w, <<c>>) = Moved(w, c)
    OBVIOUS
  <2>1. Len(<<c>>) = 1 /\ <<c>>[1] = c
    OBVIOUS
  <2>2. MovedBy(w, <<c>>) = Moved(w, c)
    BY <2>1 DEF MovedBy
  <2>3. Moved(w, c) \in Places
    BY <1>1 DEF Moved, Places
  <2>4. Moved(w, c) = Intent!Perform(P(c), w)
    <3>1. P(c)[TRUE] = (IF c.op = "Toggle" THEN Hidden ELSE c.at) /\ P(c)[FALSE] = c.at
      BY DEF Intent!PlanOf
    <3>2. CASE w = Hidden
      BY <1>1, <3>1, <3>2 DEF Moved, Intent!Perform
    <3>3. CASE w # Hidden
      BY <1>1, <1>2, <3>1, <3>3 DEF Moved, Intent!Perform
    <3>. QED  BY <3>2, <3>3
  <2>. QED  BY <2>2, <2>3, <2>4
<1>empty. /\ <<>> \in Seq(WindowCommands) /\ Len(<<>>) <= 2 /\ Reduced(<<>>)
       /\ PlanOfQueue(<<>>) = Intent!Identity
  BY DEF Reduced, PlanOfQueue, Intent!Identity
<1>8. CASE s = <<>>
  <2>1. n = 0 /\ SubSeq(s, 1, n) = <<>> /\ SubSeq(s, n + 1, Len(s)) = <<>>
    BY <1>8, SubSeqEmpty
  <2>2. good(<<>>, <<>>)
    BY <1>2, <1>4, <1>6, <1>8, <1>empty, Zenon DEF good
  <2>. QED  BY <2>1, <2>2, Zenon
<1>9. CASE \E x \in WindowCommands : s = <<x>>
  <2>1. PICK x \in WindowCommands : s = <<x>>
    BY <1>9
  <2>2. Len(s) = 1 /\ (n = 0 \/ n = 1)
    BY <2>1
  <2>3. SubSeq(s, 1, Len(s)) = s /\ SubSeq(s, 1, 0) = <<>> /\ SubSeq(s, 2, 1) = <<>>
    BY SubSeqFull, SubSeqEmpty
  <2>4. CASE n = 0
    <3>1. good(<<>>, s)
      BY <1>2, <1>3, <1>4, <1>6, <1>empty, <2>1, PlanOfShort DEF good
    <3>2. SubSeq(s, 1, n) = <<>> /\ SubSeq(s, n + 1, Len(s)) = s
      BY <2>2, <2>3, <2>4
    <3>. QED  BY <3>1, <3>2, Zenon
  <2>5. CASE n = 1
    <3>1. PlanOfQueue(s) = P(x) /\ P(x) \in Intent!Plans
      BY <1>3, <2>1, PlanOfShort
    <3>2. good(s, <<>>)
      BY <1>2, <1>4, <1>7, <1>empty, <2>1, <3>1, Zenon DEF good
    <3>3. SubSeq(s, 1, n) = s /\ SubSeq(s, n + 1, Len(s)) = <<>>
      BY <2>2, <2>3, <2>5
    <3>. QED  BY <3>2, <3>3, Zenon
  <2>. QED  BY <2>2, <2>4, <2>5
<1>10. CASE \E x, y \in WindowCommands : s = <<x, y>>
  <2>1. PICK x \in WindowCommands, y \in WindowCommands : s = <<x, y>>
    BY <1>10
  <2>2. Len(s) = 2 /\ s[1] = x /\ s[2] = y /\ (n = 0 \/ n = 1 \/ n = 2)
    BY <2>1
  <2>3. /\ SubSeq(s, 1, 2) = s /\ SubSeq(s, 1, 0) = <<>> /\ SubSeq(s, 3, 2) = <<>>
    BY <2>2, SubSeqFull, SubSeqEmpty
  <2>4. SubSeq(s, 1, 1) = <<x>> /\ SubSeq(s, 2, 2) = <<y>>
    <3>1. \A i \in 1..2 : s[i] \in WindowCommands
      BY <2>1
    <3>2. /\ SubSeq(s, 1, 1) \in Seq(WindowCommands)
          /\ Len(SubSeq(s, 1, 1)) = 1 /\ SubSeq(s, 1, 1)[1] = x
      BY <2>2, <3>1, SubSeqProperties
    <3>3. /\ SubSeq(s, 2, 2) \in Seq(WindowCommands)
          /\ Len(SubSeq(s, 2, 2)) = 1 /\ SubSeq(s, 2, 2)[1] = y
      BY <2>2, <3>1, SubSeqProperties
    <3>. QED  BY <3>2, <3>3, OneElement
  <2>5. P(x) \in Intent!Plans /\ P(y) \in Intent!Plans
    BY <1>3
  <2>6. PlanOfQueue(s) = Intent!Then(P(x), P(y)) /\ PlanOfQueue(s) \in Intent!Plans
    BY <1>5, <2>1, <2>5, PlanOfShort
  <2>7. CASE n = 0
    <3>1. good(<<>>, s)
      BY <1>2, <1>4, <1>6, <1>empty, <2>6 DEF good
    <3>2. SubSeq(s, 1, n) = <<>> /\ SubSeq(s, n + 1, Len(s)) = s
      BY <2>2, <2>3, <2>7, SubSeqFull
    <3>. QED  BY <3>1, <3>2, Zenon
  <2>8. CASE n = 1
    <3>1. Reduced(<<y>>) /\ <<y>> \in Seq(WindowCommands) /\ Len(<<y>>) = 1
      BY DEF Reduced
    <3>2. PlanOfQueue(<<x>>) = P(x) /\ PlanOfQueue(<<y>>) = P(y)
      BY PlanOfShort
    <3>3. good(<<x>>, <<y>>)
      BY <1>7, <2>5, <2>6, <3>1, <3>2 DEF good
    <3>4. SubSeq(s, 1, n) = <<x>> /\ SubSeq(s, n + 1, Len(s)) = <<y>>
      BY <2>2, <2>4, <2>8
    <3>. QED  BY <3>3, <3>4, Zenon
  <2>9. CASE n = 2
    <3>1. MovedBy(w, s) = Moved(Moved(w, x), y)
      BY <2>2 DEF MovedBy
    <3>2. /\ Moved(Moved(w, x), y) = Intent!Perform(Intent!Then(P(x), P(y)), w)
          /\ Moved(Moved(w, x), y) \in Places
      BY <1>1, CommandsAssumption, MailboxAssumption
      DEF Moved, Intent!Perform, Intent!Then, Intent!PlanOf, Places
    <3>3. good(s, <<>>)
      BY <1>2, <1>4, <1>empty, <2>6, <3>1, <3>2 DEF good
    <3>4. SubSeq(s, 1, n) = s /\ SubSeq(s, n + 1, Len(s)) = <<>>
      BY <2>2, <2>3, <2>9
    <3>. QED  BY <3>3, <3>4, Zenon
  <2>. QED  BY <2>2, <2>7, <2>8, <2>9
<1>11. \/ s = <<>>
       \/ \E x \in WindowCommands : s = <<x>>
       \/ \E x, y \in WindowCommands : s = <<x, y>>
  BY ShortSequence
<1>. QED  BY <1>8, <1>9, <1>10, <1>11

-----------------------------------------------------------------------------
(* The invariant. *)

LEMMA SentInv ==
    ASSUME Inv, NEW c \in Commands
    PROVE  /\ Sent(mailbox, c) \in Mailboxes
           /\ Len(Sent(mailbox, c).transient) <= 2
           /\ Reduced(Sent(mailbox, c).transient)
           /\ c \notin WindowCommands => Sent(mailbox, c).transient = mailbox.transient
           /\ c \in WindowCommands =>
                Sent(mailbox, c).transient = Coalesced(mailbox.transient, c)
BY SentKeeps DEF Inv, TypeOK, ReducedQueue, MaxPendingWindowCommands

LEMMA RemainingInv ==
    ASSUME Inv, NEW maximum \in Limits
    PROVE  /\ Remaining(mailbox, maximum) \in Mailboxes
           /\ Len(Remaining(mailbox, maximum).transient) <= 2
           /\ Reduced(Remaining(mailbox, maximum).transient)
           /\ ~mailbox.quit \/ maximum = 0 =>
                Remaining(mailbox, maximum).transient =
                  SubSeq(mailbox.transient, WindowRoom(mailbox, maximum) + 1,
                         Len(mailbox.transient))
           /\ mailbox.quit /\ maximum # 0 => Remaining(mailbox, maximum) = EmptyMailbox
<1>1. maximum \in Nat
  BY CommandsAssumption, MailboxAssumption
<1>2. /\ mailbox \in Mailboxes /\ mailbox.transient \in Seq(WindowCommands)
      /\ Len(mailbox.transient) <= 2 /\ Reduced(mailbox.transient)
      /\ window \in Places
  BY DEF Inv, TypeOK, ReducedQueue, Mailboxes, MaxPendingWindowCommands
<1>. DEFINE room == WindowRoom(mailbox, maximum)
            rest == SubSeq(mailbox.transient, room + 1, Len(mailbox.transient))
<1>3. room \in 0..Len(mailbox.transient)
  BY <1>1, <1>2, RoomBounds
<1>4. rest \in Seq(WindowCommands) /\ Len(rest) <= 2 /\ Reduced(rest)
  BY <1>2, <1>3, SplitQueue
<1>5. CASE maximum = 0
  <2>1. room = 0 /\ rest = mailbox.transient
    BY <1>2, <1>5, SubSeqFull DEF WindowRoom
  <2>. QED  BY <1>2, <1>5, <2>1 DEF Remaining
<1>6. CASE maximum # 0 /\ mailbox.quit
  <2>1. EmptyMailbox \in Mailboxes /\ Reduced(EmptyMailbox.transient)
    BY DEF EmptyMailbox, Mailboxes, Reduced
  <2>. QED  BY <1>6, <2>1 DEF Remaining, EmptyMailbox
<1>7. CASE maximum # 0 /\ ~mailbox.quit
  <2>. DEFINE requests == TakenRequests(mailbox, maximum)
              b == mailbox.refresh /\ ~HasOp(requests, "Refresh")
              t == IF HasOp(requests, "SetTimeframe") THEN None ELSE mailbox.timeframe
              a == IF HasOp(requests, "SetAutostart") THEN None ELSE mailbox.autostart
  <2>1. Remaining(mailbox, maximum) =
          [transient |-> rest, refresh |-> b, timeframe |-> t, autostart |-> a,
           quit |-> FALSE]
    BY <1>7, Zenon DEF Remaining
  <2>2. /\ b \in BOOLEAN /\ t \in Timeframes \cup {None} /\ a \in BOOLEAN \cup {None}
    BY <1>2 DEF Mailboxes
  <2>. DEFINE m == [transient |-> rest, refresh |-> b, timeframe |-> t,
                    autostart |-> a, quit |-> FALSE]
  <2>3. m \in Mailboxes /\ m.transient = rest
    <3>. HIDE DEF b, t, a, rest
    <3>. QED  BY <1>4, <2>2 DEF Mailboxes
  <2>4. Remaining(mailbox, maximum) = m
    BY <2>1
  <2>. HIDE DEF m
  <2>. QED  BY <1>4, <1>7, <2>3, <2>4, Zenon
<1>. QED  BY <1>5, <1>6, <1>7

\* A poll takes Quit alone or not at all, and carries out what it takes.
LEMMA PollMoves ==
    ASSUME Inv, NEW maximum \in Limits
    PROVE  /\ HasOp(Taken(mailbox, maximum), "Quit") <=> mailbox.quit /\ maximum # 0
           /\ MovedBy(window, TakenWindow(mailbox, maximum)) \in Places
<1>1. maximum \in Nat
  BY CommandsAssumption, MailboxAssumption
<1>2. /\ mailbox \in Mailboxes /\ mailbox.transient \in Seq(WindowCommands)
      /\ Len(mailbox.transient) <= 2 /\ Reduced(mailbox.transient)
      /\ window \in Places
  BY DEF Inv, TypeOK, ReducedQueue, Mailboxes, MaxPendingWindowCommands
<1>3. WindowRoom(mailbox, maximum) \in 0..Len(mailbox.transient)
  BY <1>1, <1>2, RoomBounds
<1>4. MovedBy(window, TakenWindow(mailbox, maximum)) \in Places
  BY <1>2, <1>3, SplitQueue DEF TakenWindow
<1>5. CASE maximum = 0
  BY <1>4, <1>5 DEF Taken, HasOp
<1>6. CASE maximum # 0 /\ mailbox.quit
  <2>1. Taken(mailbox, maximum) = <<Quit>>
    BY <1>6 DEF Taken
  <2>2. HasOp(<<Quit>>, "Quit")
    BY DEF HasOp, Quit
  <2>. QED  BY <1>4, <1>6, <2>1, <2>2
<1>7. CASE maximum # 0 /\ ~mailbox.quit
  <2>. DEFINE S == RequestCommands \cup WindowCommands
  <2>1. \A c \in S : c.op # "Quit"
    BY DEF RequestCommands, WindowCommands, TimeframeCommands, AutostartCommands, Refresh
  <2>2. TakenRequests(mailbox, maximum) \in Seq(S)
    BY <1>1, <1>2, TakenRequestsType, SeqMonotonic
  <2>3. TakenWindow(mailbox, maximum) \in Seq(S)
    <3>1. \A i \in 1..WindowRoom(mailbox, maximum) : mailbox.transient[i] \in S
      BY <1>2, <1>3, ElementOfSeq
    <3>. QED  BY <1>3, <3>1, SubSeqProperties DEF TakenWindow
  <2>4. Taken(mailbox, maximum) \in Seq(S)
    BY <1>7, <2>2, <2>3, ConcatProperties, Zenon DEF Taken
  <2>5. \A i \in DOMAIN Taken(mailbox, maximum) : Taken(mailbox, maximum)[i] \in S
    BY <2>4, ElementOfSeq, LenProperties
  <2>. QED  BY <1>4, <1>7, <2>1, <2>5 DEF HasOp
<1>. QED  BY <1>5, <1>6, <1>7

\* The mailbox never outgrows its bound and stays in reduced form, for any
\* anchors, timeframes and poll limits.
THEOREM InvInductive == Spec => []Inv
<1>1. Init => Inv
  <2>1. EmptyMailbox \in Mailboxes /\ Len(EmptyMailbox.transient) <= 2
    BY DEF EmptyMailbox, Mailboxes
  <2>2. Reduced(EmptyMailbox.transient)
    BY DEF EmptyMailbox, Reduced
  <2>. QED  BY <2>1, <2>2
       DEF Init, Inv, TypeOK, ReducedQueue, MaxPendingWindowCommands
<1>2. Inv /\ [Next]_vars => Inv'
  <2>. SUFFICES ASSUME Inv, [Next]_vars PROVE Inv'
    OBVIOUS
  <2>. USE DEF MaxPendingWindowCommands
  <2>1. ASSUME NEW c \in Commands, Send(c) PROVE Inv'
    <3>1. latest' \in [click : WindowCommands \cup {None}, odd : BOOLEAN]
      BY <2>1 DEF Send, Inv, TypeOK
    <3>. QED  BY <2>1, <3>1, SentInv DEF Send, Inv, TypeOK, ReducedQueue
  <2>2. ASSUME NEW maximum \in Limits, Poll(maximum) PROVE Inv'
    <3>1. /\ mailbox' \in Mailboxes /\ Len(mailbox'.transient) <= 2
          /\ Reduced(mailbox'.transient)
      BY <2>2, RemainingInv DEF Poll
    <3>2. window' \in Places /\ running' \in BOOLEAN /\ latest' = latest
      BY <2>2, PollMoves DEF Poll, Inv, TypeOK
    <3>. QED  BY <3>1, <3>2 DEF Inv, TypeOK, ReducedQueue
  <2>3. CASE Dismiss
    BY <2>3 DEF Dismiss, Inv, TypeOK, ReducedQueue, Places
  <2>4. CASE UNCHANGED vars
    BY <2>4 DEF vars, Inv, TypeOK, ReducedQueue
  <2>. QED  BY <2>1, <2>2, <2>3, <2>4 DEF Next
<1>. QED  BY <1>1, <1>2, PTL DEF Spec

THEOREM TypeCorrect == Spec => []TypeOK
BY InvInductive, PTL DEF Inv

THEOREM StaysReduced == Spec => []ReducedQueue
BY InvInductive, PTL DEF Inv

-----------------------------------------------------------------------------
(* The refinement. *)

\* Every behaviour of the bounded mailbox is one of the unbounded intent: no
\* click is lost or reordered in its effect, and nothing follows Quit.
THEOREM Refinement == Spec => EveryClickCounts
<1>1. Init => Intent!Init
  BY DEF Init, EmptyMailbox, PlanOfQueue, Places,
         Intent!Init, Intent!Identity, Intent!Places
<1>2. Inv /\ [Next]_vars => [Intent!Next]_(Intent!intentVars)
  <2>. SUFFICES ASSUME Inv, [Next]_vars
                PROVE  Intent!Next \/ UNCHANGED Intent!intentVars
    OBVIOUS
  <2>. DEFINE q == mailbox.transient
  <2>1. /\ mailbox \in Mailboxes /\ q \in Seq(WindowCommands)
        /\ Len(q) <= 2 /\ Reduced(q) /\ window \in Places
    BY DEF Inv, TypeOK, ReducedQueue, Mailboxes, MaxPendingWindowCommands
  <2>2. ASSUME NEW c \in Commands, Send(c)
        PROVE  Intent!Next \/ UNCHANGED Intent!intentVars
    <3>1. CASE c \in WindowCommands
      <4>1. mailbox'.transient = Coalesced(q, c)
        BY <2>2, <3>1, SentInv DEF Send
      <4>2. Intent!Click(c)
        BY <2>1, <2>2, <3>1, <4>1, CoalescedPlan DEF Send, Intent!Click
      <4>. QED  BY <3>1, <4>2 DEF Intent!Next, Intent!WindowCommands, WindowCommands
    <3>2. CASE c \notin WindowCommands
      <4>1. mailbox'.transient = q
        BY <2>2, <3>2, SentInv DEF Send
      <4>. QED  BY <2>2, <3>2, <4>1 DEF Send, Intent!intentVars
    <3>. QED  BY <3>1, <3>2
  <2>3. ASSUME NEW maximum \in Limits, Poll(maximum)
        PROVE  Intent!Next
    <3>1. CASE mailbox.quit /\ maximum # 0
      <4>1. /\ mailbox' = EmptyMailbox /\ running' = FALSE
            /\ window' = window /\ latest' = latest
        BY <2>3, <3>1, RemainingInv, PollMoves DEF Poll
      <4>2. PlanOfQueue(mailbox'.transient) = Intent!Identity
        BY <4>1 DEF EmptyMailbox, PlanOfQueue, Intent!Identity
      <4>3. Intent!Quit
        BY <4>1, <4>2, Zenon DEF Intent!Quit
      <4>. QED  BY <4>3 DEF Intent!Next
    <3>2. CASE ~(mailbox.quit /\ maximum # 0)
      <4>. DEFINE n == WindowRoom(mailbox, maximum)
                  first == SubSeq(q, 1, n)
                  rest == SubSeq(q, n + 1, Len(q))
      <4>1. n \in 0..Len(q)
        BY <2>1, RoomBounds, CommandsAssumption, MailboxAssumption
      <4>2. mailbox'.transient = rest
        BY <2>3, <3>2, RemainingInv DEF Poll
      <4>3. /\ window' = MovedBy(window, first) /\ latest' = latest
            /\ running' = running /\ running
        BY <2>3, <3>2, PollMoves DEF Poll, TakenWindow
      <4>4. /\ PlanOfQueue(first) \in Intent!Plans
            /\ PlanOfQueue(rest) \in Intent!Plans
            /\ PlanOfQueue(q) = Intent!Then(PlanOfQueue(first), PlanOfQueue(rest))
            /\ MovedBy(window, first) = Intent!Perform(PlanOfQueue(first), window)
        BY <2>1, <4>1, SplitQueue
      <4>. HIDE DEF first, rest
      <4>5. Intent!CarryOut
        BY <4>2, <4>3, <4>4 DEF Intent!CarryOut
      <4>. QED  BY <4>3, <4>5 DEF Intent!Next
    <3>. QED  BY <3>1, <3>2
  <2>4. CASE Dismiss
    BY <2>4 DEF Dismiss, Intent!Next, Intent!Dismiss
  <2>5. CASE UNCHANGED vars
    BY <2>5 DEF vars, Intent!intentVars
  <2>. QED  BY <2>2, <2>3, <2>4, <2>5 DEF Next
<1>. QED  BY <1>1, <1>2, InvInductive, PTL DEF Spec, EveryClickCounts, Intent!Spec
=============================================================================
