-------------------------- MODULE TrayCommandsProofs --------------------------
(***************************************************************************)
(* Lemmas about the tray mailbox as data: what coalescing a reduced queue  *)
(* comes to, and what take_pending takes and leaves.                       *)
(***************************************************************************)
EXTENDS TrayCommands, SequenceTheorems, TLAPS

-----------------------------------------------------------------------------
(* Sequences of at most three elements, spelled out. *)

LEMMA OneElement ==
    ASSUME NEW S, NEW s \in Seq(S), Len(s) = 1
    PROVE  s = <<s[1]>> /\ s[1] \in S
<1>1. s = <<s[1]>>
  OBVIOUS
<1>2. s[1] \in S
  BY ElementOfSeq
<1>. QED  BY <1>1, <1>2

LEMMA TwoElements ==
    ASSUME NEW S, NEW s \in Seq(S), Len(s) = 2
    PROVE  s = <<s[1], s[2]>> /\ s[1] \in S /\ s[2] \in S
<1>1. s = <<s[1], s[2]>>
  OBVIOUS
<1>2. s[1] \in S /\ s[2] \in S
  BY ElementOfSeq
<1>. QED  BY <1>1, <1>2

LEMMA ThreeElements ==
    ASSUME NEW S, NEW s \in Seq(S), Len(s) = 3
    PROVE  s = <<s[1], s[2], s[3]>>
OBVIOUS

LEMMA ShortSequence ==
    ASSUME NEW S, NEW s \in Seq(S), Len(s) <= 2
    PROVE  \/ s = <<>>
           \/ \E x \in S : s = <<x>>
           \/ \E x, y \in S : s = <<x, y>>
<1>1. Len(s) \in Nat
  OBVIOUS
<1>2. CASE Len(s) = 0
  BY <1>2
<1>3. CASE Len(s) = 1
  BY <1>3, OneElement
<1>4. CASE Len(s) = 2
  BY <1>4, TwoElements
<1>5. Len(s) = 0 \/ Len(s) = 1 \/ Len(s) = 2
  <2>1. \A n \in Nat : n <= 2 => n = 0 \/ n = 1 \/ n = 2
    OBVIOUS
  <2>. QED  BY <1>1, <2>1
<1>. QED  BY <1>2, <1>3, <1>4, <1>5, Zenon

LEMMA AppendToShort ==
    ASSUME NEW S, NEW x \in S, NEW y \in S, NEW c \in S
    PROVE  /\ Append(<<>>, c) = <<c>>
           /\ Append(<<x>>, c) = <<x, c>>
           /\ Append(<<x, y>>, c) = <<x, y, c>>
<1>1. Append(<<>>, c) = <<c>>
  OBVIOUS
<1>2. Append(<<x>>, c) = <<x, c>>
  <2>1. <<x>> \in Seq(S) /\ Len(<<x>>) = 1 /\ <<x>>[1] = x
    OBVIOUS
  <2>2. /\ Append(<<x>>, c) \in Seq(S)
        /\ Len(Append(<<x>>, c)) = 2
        /\ Append(<<x>>, c)[1] = x /\ Append(<<x>>, c)[2] = c
    BY <2>1, AppendProperties
  <2>. QED  BY <2>2, TwoElements
<1>3. Append(<<x, y>>, c) = <<x, y, c>>
  <2>1. /\ <<x, y>> \in Seq(S) /\ Len(<<x, y>>) = 2
        /\ <<x, y>>[1] = x /\ <<x, y>>[2] = y
    OBVIOUS
  <2>2. /\ Append(<<x, y>>, c) \in Seq(S)
        /\ Len(Append(<<x, y>>, c)) = 3
        /\ Append(<<x, y>>, c)[1] = x /\ Append(<<x, y>>, c)[2] = y
        /\ Append(<<x, y>>, c)[3] = c
    BY <2>1, AppendProperties
  <2>. QED  BY <2>2, ThreeElements
<1>. QED  BY <1>1, <1>2, <1>3

-----------------------------------------------------------------------------
(* Coalescing. *)

\* LastShow finds the index after which no Show follows.
LEMMA LastShowIs ==
    ASSUME NEW s, DOMAIN s \subseteq Nat, NEW n \in DOMAIN s, s[n].op = "Show",
           \A j \in DOMAIN s : j > n => s[j].op # "Show"
    PROVE  LastShow(s) = n
<1>. DEFINE shows == {i \in DOMAIN s : s[i].op = "Show"}
<1>1. n \in shows /\ \A j \in shows : j <= n
  OBVIOUS
<1>2. \A m \in shows : (\A j \in shows : j <= m) => m = n
  BY <1>1
<1>. QED  BY <1>1, <1>2 DEF LastShow

LEMMA NoShow ==
    ASSUME NEW s, \A j \in DOMAIN s : s[j].op # "Show"
    PROVE  LastShow(s) = 0
BY DEF LastShow

\* What coalesce_window_command comes to on a reduced queue: one line for every
\* queue it can meet.
LEMMA CoalescedCases ==
    ASSUME NEW x \in WindowCommands, NEW y \in WindowCommands,
           NEW c \in WindowCommands
    PROVE  /\ c.op = "Show" => /\ Coalesced(<<>>, c) = <<c>>
                               /\ Coalesced(<<x>>, c) = <<c>>
                               /\ Coalesced(<<x, y>>, c) = <<c>>
           /\ c.op = "Toggle" =>
                 /\ Coalesced(<<>>, c) = <<c>>
                 /\ Coalesced(<<x>>, c) = <<x, c>>
                 /\ x.op = "Toggle" /\ y.op = "Toggle" => Coalesced(<<x, y>>, c) = <<c>>
                 /\ x.op = "Show" /\ y.op = "Toggle" =>
                        Coalesced(<<x, y>>, c) = <<[op |-> "Show", at |-> c.at]>>
<1>. DEFINE showAt(w) == [op |-> "Show", at |-> w.at]
<1>1. /\ Coalesced(<<>>, c) = Reduction(<<c>>)
      /\ Coalesced(<<x>>, c) = Reduction(<<x, c>>)
      /\ Coalesced(<<x, y>>, c) = Reduction(<<x, y, c>>)
  BY AppendToShort, Zenon DEF Coalesced
<1>2. \A w \in WindowCommands : /\ w.op \in {"Show", "Toggle"}
                                /\ w.op = "Show" => showAt(w) = w
  BY DEF WindowCommands
<1>3. Len(<<c>>) = 1 /\ <<c>>[1] = c
  OBVIOUS
<1>4. ASSUME c.op = "Show"
      PROVE  /\ Coalesced(<<>>, c) = <<c>>
             /\ Coalesced(<<x>>, c) = <<c>>
             /\ Coalesced(<<x, y>>, c) = <<c>>
  <2>1. LastShow(<<c>>) = 1
    BY <1>4, LastShowIs
  <2>2. LastShow(<<x, c>>) = 2
    BY <1>4, LastShowIs
  <2>3. LastShow(<<x, y, c>>) = 3
    BY <1>4, LastShowIs
  <2>4. Reduction(<<c>>) = <<showAt(c)>>
    <3>1. 1 # 0 /\ 1 - 1 = 0 /\ 0 % 2 = 0 /\ 1 + 2 * (0 \div 2) = 1
      OBVIOUS
    <3>2. (Len(<<c>>) - 1) % 2 = 0 /\ <<c>>[1 + 2 * ((Len(<<c>>) - 1) \div 2)] = c
      BY <1>3, <3>1, Zenon
    <3>. QED  BY <2>1, <3>1, <3>2, Zenon DEF Reduction
  <2>5. Reduction(<<x, c>>) = <<showAt(c)>>
    BY <2>2 DEF Reduction
  <2>6. Reduction(<<x, y, c>>) = <<showAt(c)>>
    BY <2>3 DEF Reduction
  <2>. QED  BY <1>1, <1>2, <1>4, <2>4, <2>5, <2>6
<1>5. ASSUME c.op = "Toggle"
      PROVE  Coalesced(<<>>, c) = <<c>>
  <2>1. LastShow(<<c>>) = 0
    BY <1>5, NoShow
  <2>2. Reduction(<<c>>) = <<c>>
    BY <1>3, <2>1 DEF Reduction
  <2>. QED  BY <1>1, <2>2
<1>6. ASSUME c.op = "Toggle"
      PROVE  Coalesced(<<x>>, c) = <<x, c>>
  <2>1. CASE x.op = "Show"
    <3>1. LastShow(<<x, c>>) = 1
      BY <1>6, <2>1, LastShowIs
    <3>2. Reduction(<<x, c>>) = <<showAt(x), c>>
      BY <3>1 DEF Reduction
    <3>. QED  BY <1>1, <1>2, <2>1, <3>2
  <2>2. CASE x.op = "Toggle"
    <3>1. LastShow(<<x, c>>) = 0
      BY <1>6, <2>2, NoShow
    <3>2. Reduction(<<x, c>>) = <<x, c>>
      BY <3>1 DEF Reduction
    <3>. QED  BY <1>1, <3>2
  <2>. QED  BY <1>2, <2>1, <2>2
<1>7. ASSUME c.op = "Toggle", x.op = "Toggle", y.op = "Toggle"
      PROVE  Coalesced(<<x, y>>, c) = <<c>>
  <2>1. LastShow(<<x, y, c>>) = 0
    BY <1>7, NoShow
  <2>2. Reduction(<<x, y, c>>) = <<c>>
    BY <2>1 DEF Reduction
  <2>. QED  BY <1>1, <2>2
<1>8. ASSUME c.op = "Toggle", x.op = "Show", y.op = "Toggle"
      PROVE  Coalesced(<<x, y>>, c) = <<showAt(c)>>
  <2>1. LastShow(<<x, y, c>>) = 1
    BY <1>8, LastShowIs
  <2>2. Reduction(<<x, y, c>>) = <<showAt(c)>>
    BY <2>1 DEF Reduction
  <2>. QED  BY <1>1, <2>2
<1>. QED  BY <1>4, <1>5, <1>6, <1>7, <1>8

\* A reduced queue stays reduced, bounded and made of window commands.
LEMMA CoalescedReduced ==
    ASSUME NEW s \in Seq(WindowCommands), Len(s) <= 2, Reduced(s),
           NEW c \in WindowCommands
    PROVE  /\ Coalesced(s, c) \in Seq(WindowCommands)
           /\ Len(Coalesced(s, c)) <= 2
           /\ Reduced(Coalesced(s, c))
<1>. DEFINE good(q) == q \in Seq(WindowCommands) /\ Len(q) <= 2 /\ Reduced(q)
<1>1. /\ c.op \in {"Show", "Toggle"}
      /\ [op |-> "Show", at |-> c.at] \in WindowCommands
  BY DEF WindowCommands
<1>2. \A w \in WindowCommands : good(<<w>>)
  BY DEF Reduced
<1>3. \A v, w \in WindowCommands : w.op # "Show" => good(<<v, w>>)
  BY DEF Reduced
<1>4. CASE s = <<>>
  BY <1>1, <1>2, <1>4, CoalescedCases
<1>5. CASE \E x \in WindowCommands : s = <<x>>
  <2>1. PICK x \in WindowCommands : s = <<x>>
    BY <1>5
  <2>2. c.op = "Show" => Coalesced(s, c) = <<c>>
    BY <2>1, CoalescedCases
  <2>3. c.op = "Toggle" => Coalesced(s, c) = <<x, c>>
    BY <2>1, CoalescedCases
  <2>. QED  BY <1>1, <1>2, <1>3, <2>2, <2>3
<1>6. CASE \E x, y \in WindowCommands : s = <<x, y>>
  <2>1. PICK x \in WindowCommands, y \in WindowCommands : s = <<x, y>>
    BY <1>6
  <2>2. x.op \in {"Show", "Toggle"} /\ y.op = "Toggle"
    <3>1. y.op # "Show"
      BY <2>1 DEF Reduced
    <3>. QED  BY <3>1 DEF WindowCommands
  <2>3. Coalesced(s, c) \in {<<c>>, <<[op |-> "Show", at |-> c.at]>>}
    BY <1>1, <2>1, <2>2, CoalescedCases
  <2>. QED  BY <1>1, <1>2, <2>3
<1>7. \/ s = <<>>
      \/ \E x \in WindowCommands : s = <<x>>
      \/ \E x, y \in WindowCommands : s = <<x, y>>
  BY ShortSequence
<1>. QED  BY <1>4, <1>5, <1>6, <1>7

-----------------------------------------------------------------------------
(* Polls. *)

RequestCommands == TimeframeCommands \cup AutostartCommands \cup {Refresh}

LEMMA RequestsType ==
    ASSUME NEW m \in Mailboxes
    PROVE  Requests(m) \in Seq(RequestCommands)
<1>1. /\ m.timeframe # None =>
            [op |-> "SetTimeframe", timeframe |-> m.timeframe] \in RequestCommands
      /\ m.autostart # None =>
            [op |-> "SetAutostart", enabled |-> m.autostart] \in RequestCommands
      /\ Refresh \in RequestCommands
  BY DEF Mailboxes, RequestCommands, TimeframeCommands, AutostartCommands
<1>2. (IF m.timeframe = None THEN <<>>
       ELSE <<[op |-> "SetTimeframe", timeframe |-> m.timeframe]>>) \in Seq(RequestCommands)
  BY <1>1
<1>3. (IF m.autostart = None THEN <<>>
       ELSE <<[op |-> "SetAutostart", enabled |-> m.autostart]>>) \in Seq(RequestCommands)
  BY <1>1
<1>4. (IF m.refresh THEN <<Refresh>> ELSE <<>>) \in Seq(RequestCommands)
  BY <1>1
<1>. QED  BY <1>2, <1>3, <1>4, ConcatProperties, Zenon DEF Requests

\* take_pending takes a prefix of the requests, no longer than its maximum.
LEMMA TakenRequestsType ==
    ASSUME NEW m \in Mailboxes, NEW maximum \in Nat
    PROVE  /\ TakenRequests(m, maximum) \in Seq(RequestCommands)
           /\ Len(TakenRequests(m, maximum)) <= maximum
<1>1. Len(Requests(m)) \in Nat /\ Requests(m) \in Seq(RequestCommands)
  BY RequestsType, LenProperties
<1>. DEFINE n == AtMost(maximum, Len(Requests(m)))
<1>2. n \in Nat /\ n <= maximum /\ n <= Len(Requests(m))
  BY <1>1 DEF AtMost
<1>3. \A i \in 1..n : Requests(m)[i] \in RequestCommands
  BY <1>1, <1>2, ElementOfSeq
<1>4. /\ SubSeq(Requests(m), 1, n) \in Seq(RequestCommands)
      /\ Len(SubSeq(Requests(m), 1, n)) = IF 1 <= n THEN n - 1 + 1 ELSE 0
  BY <1>2, <1>3, SubSeqProperties
<1>5. Len(SubSeq(Requests(m), 1, n)) = n
  BY <1>2, <1>4
<1>. QED  BY <1>2, <1>4, <1>5 DEF TakenRequests

LEMMA RoomBounds ==
    ASSUME NEW m \in Mailboxes, NEW maximum \in Nat
    PROVE  WindowRoom(m, maximum) \in 0..Len(m.transient)
<1>1. Len(m.transient) \in Nat
  BY DEF Mailboxes
<1>2. /\ Len(TakenRequests(m, maximum)) \in Nat
      /\ Len(TakenRequests(m, maximum)) <= maximum
  BY TakenRequestsType, LenProperties
<1>3. maximum - Len(TakenRequests(m, maximum)) \in Nat
  BY <1>2
<1>. QED  BY <1>1, <1>3 DEF WindowRoom, AtMost

-----------------------------------------------------------------------------
(* The limit the application polls with. *)

LEMMA HasOpConcat ==
    ASSUME NEW S, NEW s \in Seq(S), NEW t \in Seq(S), NEW op,
           HasOp(s, op) \/ HasOp(t, op)
    PROVE  HasOp(s \o t, op)
<1>1. /\ Len(s) \in Nat /\ DOMAIN s = 1..Len(s)
      /\ Len(t) \in Nat /\ DOMAIN t = 1..Len(t)
      /\ DOMAIN (s \o t) = 1..(Len(s) + Len(t))
      /\ \A i \in 1..(Len(s) + Len(t)) :
            (s \o t)[i] = IF i <= Len(s) THEN s[i] ELSE t[i - Len(s)]
  BY ConcatProperties, LenProperties
<1>2. CASE HasOp(s, op)
  <2>1. PICK i \in DOMAIN s : s[i].op = op
    BY <1>2 DEF HasOp
  <2>2. i \in DOMAIN (s \o t) /\ (s \o t)[i] = s[i]
    BY <1>1, <2>1
  <2>. QED  BY <2>1, <2>2 DEF HasOp
<1>3. CASE HasOp(t, op)
  <2>1. PICK i \in DOMAIN t : t[i].op = op
    BY <1>3 DEF HasOp
  <2>2. i + Len(s) \in DOMAIN (s \o t) /\ (s \o t)[i + Len(s)] = t[i]
    BY <1>1, <2>1
  <2>. QED  BY <2>1, <2>2 DEF HasOp
<1>. QED  BY <1>2, <1>3

\* Every pending request is among the requests, and there are three at most.
LEMMA RequestsComplete ==
    ASSUME NEW m \in Mailboxes
    PROVE  /\ Len(Requests(m)) \in 0..3
           /\ m.timeframe # None => HasOp(Requests(m), "SetTimeframe")
           /\ m.autostart # None => HasOp(Requests(m), "SetAutostart")
           /\ m.refresh => HasOp(Requests(m), "Refresh")
<1>. DEFINE t == [op |-> "SetTimeframe", timeframe |-> m.timeframe]
            a == [op |-> "SetAutostart", enabled |-> m.autostart]
            T == IF m.timeframe = None THEN <<>> ELSE <<t>>
            A == IF m.autostart = None THEN <<>> ELSE <<a>>
            R == IF m.refresh THEN <<Refresh>> ELSE <<>>
            S == {t, a, Refresh}
<1>1. /\ T \in Seq(S) /\ Len(T) \in 0..1
      /\ m.timeframe # None => HasOp(T, "SetTimeframe")
  <2>1. <<t>> \in Seq(S) /\ Len(<<t>>) = 1 /\ <<t>>[1] = t /\ t.op = "SetTimeframe"
    OBVIOUS
  <2>2. HasOp(<<t>>, "SetTimeframe")
    BY <2>1 DEF HasOp
  <2>. HIDE DEF t, S
  <2>. QED  BY <2>1, <2>2
<1>2. /\ A \in Seq(S) /\ Len(A) \in 0..1
      /\ m.autostart # None => HasOp(A, "SetAutostart")
  <2>1. <<a>> \in Seq(S) /\ Len(<<a>>) = 1 /\ <<a>>[1] = a /\ a.op = "SetAutostart"
    OBVIOUS
  <2>2. HasOp(<<a>>, "SetAutostart")
    BY <2>1 DEF HasOp
  <2>. HIDE DEF a, S
  <2>. QED  BY <2>1, <2>2
<1>3. R \in Seq(S) /\ Len(R) \in 0..1 /\ (m.refresh => HasOp(R, "Refresh"))
  <2>1. /\ <<Refresh>> \in Seq(S) /\ Len(<<Refresh>>) = 1
        /\ <<Refresh>>[1] = Refresh /\ Refresh.op = "Refresh"
    BY DEF Refresh
  <2>2. HasOp(<<Refresh>>, "Refresh")
    BY <2>1 DEF HasOp
  <2>. HIDE DEF S
  <2>. QED  BY <2>1, <2>2
<1>4. Requests(m) = T \o A \o R
  BY Zenon DEF Requests
<1>. HIDE DEF T, A, R, S
<1>5. /\ T \o A \in Seq(S) /\ Len(T \o A) = Len(T) + Len(A)
      /\ Len(T \o A \o R) = Len(T) + Len(A) + Len(R)
  BY <1>1, <1>2, <1>3, ConcatProperties
<1>6. /\ m.timeframe # None => HasOp(T \o A, "SetTimeframe")
      /\ m.autostart # None => HasOp(T \o A, "SetAutostart")
  BY <1>1, <1>2, HasOpConcat
<1>7. /\ m.timeframe # None => HasOp(T \o A \o R, "SetTimeframe")
      /\ m.autostart # None => HasOp(T \o A \o R, "SetAutostart")
      /\ m.refresh => HasOp(T \o A \o R, "Refresh")
  BY <1>3, <1>5, <1>6, HasOpConcat
<1>. QED  BY <1>1, <1>2, <1>3, <1>4, <1>5, <1>7

\* All requests are taken at once when three commands may be.
LEMMA AllRequestsTaken ==
    ASSUME NEW m \in Mailboxes, NEW maximum \in Nat, maximum >= 3
    PROVE  TakenRequests(m, maximum) = Requests(m)
<1>. DEFINE all == Requests(m)
<1>1. Len(all) \in 0..3 /\ all \in Seq(RequestCommands)
  BY RequestsComplete, RequestsType
<1>. HIDE DEF all
<1>2. AtMost(maximum, Len(all)) = Len(all)
  <2>1. \A k \in 0..3 : AtMost(maximum, k) = k
    BY DEF AtMost
  <2>. QED  BY <1>1, <2>1
<1>3. SubSeq(all, 1, Len(all)) = all
  BY <1>1, SubSeqFull
<1>. QED  BY <1>2, <1>3, Zenon DEF TakenRequests, all

\* A request carries what its slot holds.
LEMMA RequestsCarrySlots ==
    ASSUME NEW m \in Mailboxes
    PROVE  \A i \in DOMAIN Requests(m) :
              /\ Requests(m)[i].op = "SetTimeframe" => Requests(m)[i].timeframe = m.timeframe
              /\ Requests(m)[i].op = "SetAutostart" => Requests(m)[i].enabled = m.autostart
<1>. DEFINE t == [op |-> "SetTimeframe", timeframe |-> m.timeframe]
            a == [op |-> "SetAutostart", enabled |-> m.autostart]
            T == IF m.timeframe = None THEN <<>> ELSE <<t>>
            A == IF m.autostart = None THEN <<>> ELSE <<a>>
            R == IF m.refresh THEN <<Refresh>> ELSE <<>>
            S == {t, a, Refresh}
<1>1. T \in Seq(S) /\ A \in Seq(S) /\ R \in Seq(S)
  <2>1. <<t>> \in Seq(S) /\ <<a>> \in Seq(S) /\ <<Refresh>> \in Seq(S)
    OBVIOUS
  <2>. HIDE DEF t, a, S
  <2>. QED  BY <2>1
<1>2. Requests(m) = T \o A \o R
  BY Zenon DEF Requests
<1>. HIDE DEF T, A, R
<1>3. Requests(m) \in Seq(S)
  <2>. HIDE DEF S
  <2>. QED  BY <1>1, <1>2, ConcatProperties
<1>4. \A i \in DOMAIN Requests(m) : Requests(m)[i] \in S
  <2>. HIDE DEF S
  <2>. QED  BY <1>3, ElementOfSeq, LenProperties
<1>5. \A c \in S : /\ c.op = "SetTimeframe" => c.timeframe = m.timeframe
                   /\ c.op = "SetAutostart" => c.enabled = m.autostart
  BY DEF Refresh
<1>. HIDE DEF S
<1>. QED  BY <1>4, <1>5

\* A poll takes a Quit alone, and otherwise every setting that was sent, with
\* the value it was sent with last.
LEMMA SettingsTaken ==
    ASSUME NEW m \in Mailboxes, NEW maximum \in Nat, maximum >= 3
    PROVE  /\ m.quit => HasOp(Taken(m, maximum), "Quit")
           /\ ~m.quit /\ m.timeframe # None =>
                 \E i \in DOMAIN Taken(m, maximum) :
                    /\ Taken(m, maximum)[i].op = "SetTimeframe"
                    /\ Taken(m, maximum)[i].timeframe = m.timeframe
           /\ ~m.quit /\ m.autostart # None =>
                 \E i \in DOMAIN Taken(m, maximum) :
                    /\ Taken(m, maximum)[i].op = "SetAutostart"
                    /\ Taken(m, maximum)[i].enabled = m.autostart
<1>0. maximum # 0
  OBVIOUS
<1>1. CASE m.quit
  <2>1. Taken(m, maximum) = <<Quit>>
    BY <1>0, <1>1 DEF Taken
  <2>2. HasOp(<<Quit>>, "Quit")
    BY DEF HasOp, Quit
  <2>. QED  BY <1>1, <2>1, <2>2
<1>2. CASE ~m.quit
  <2>. DEFINE all == Requests(m)
              rest == TakenWindow(m, maximum)
  <2>1. Taken(m, maximum) = all \o rest
    BY <1>0, <1>2, AllRequestsTaken, Zenon DEF Taken
  <2>2. all \in Seq(RequestCommands) /\ rest \in Seq(WindowCommands)
    <3>1. WindowRoom(m, maximum) \in 0..Len(m.transient) /\ m.transient \in Seq(WindowCommands)
      BY RoomBounds DEF Mailboxes
    <3>2. Len(m.transient) \in Nat
      BY <3>1
    <3>3. rest \in Seq(WindowCommands)
      BY <3>1, <3>2 DEF TakenWindow
    <3>. QED  BY <3>3, RequestsType
  <2>3. /\ m.timeframe # None => HasOp(all, "SetTimeframe")
        /\ m.autostart # None => HasOp(all, "SetAutostart")
    BY RequestsComplete
  <2>4. \A i \in DOMAIN all :
           /\ all[i].op = "SetTimeframe" => all[i].timeframe = m.timeframe
           /\ all[i].op = "SetAutostart" => all[i].enabled = m.autostart
    BY RequestsCarrySlots
  <2>. HIDE DEF all, rest
  <2>5. \A i \in DOMAIN all : i \in DOMAIN (all \o rest) /\ (all \o rest)[i] = all[i]
    <3>. DEFINE U == RequestCommands \cup WindowCommands
    <3>1. all \in Seq(U) /\ rest \in Seq(U)
      BY <2>2
    <3>. HIDE DEF U
    <3>. QED  BY <3>1, ConcatProperties, LenProperties
  <2>6. m.timeframe # None => \E i \in DOMAIN (all \o rest) :
              (all \o rest)[i].op = "SetTimeframe" /\ (all \o rest)[i].timeframe = m.timeframe
    BY <2>3, <2>4, <2>5, Zenon DEF HasOp
  <2>7. m.autostart # None => \E i \in DOMAIN (all \o rest) :
              (all \o rest)[i].op = "SetAutostart" /\ (all \o rest)[i].enabled = m.autostart
    BY <2>3, <2>4, <2>5, Zenon DEF HasOp
  <2>. QED  BY <1>2, <2>1, <2>6, <2>7, Zenon
<1>. QED  BY <1>1, <1>2

\* Three requests and two window commands are all a mailbox can hold, so a poll
\* that may take five leaves nothing behind: with MAX_TRAY_COMMANDS_PER_POLL of
\* 32 no command waits for a second poll.
THEOREM PollDrains ==
    ASSUME NEW m \in Mailboxes, Len(m.transient) <= MaxPendingWindowCommands,
           NEW maximum \in Nat, maximum >= 5
    PROVE  Remaining(m, maximum) = EmptyMailbox
<1>1. CASE m.quit
  <2>1. maximum # 0
    OBVIOUS
  <2>. QED  BY <1>1, <2>1 DEF Remaining
<1>2. CASE ~m.quit
  <2>. DEFINE all == Requests(m)
  <2>1. Len(all) \in 0..3 /\ all \in Seq(RequestCommands)
    BY RequestsComplete, RequestsType
  <2>. HIDE DEF all
  <2>2. TakenRequests(m, maximum) = all
    BY AllRequestsTaken DEF all
  <2>3. WindowRoom(m, maximum) = Len(m.transient) /\ Len(m.transient) \in Nat
    <3>1. Len(m.transient) \in 0..2
      <4>1. Len(m.transient) \in Nat
        BY DEF Mailboxes
      <4>2. \A k \in Nat : k <= 2 => k \in 0..2
        OBVIOUS
      <4>. QED  BY <4>1, <4>2 DEF MaxPendingWindowCommands
    <3>2. \A k \in 0..3 : maximum - k \in Nat /\ maximum - k >= 2
      OBVIOUS
    <3>3. maximum - Len(all) \in Nat /\ maximum - Len(all) >= 2
      BY <2>1, <3>2
    <3>4. \A j \in Nat, k \in 0..2 : j >= 2 => AtMost(j, k) = k
      BY DEF AtMost
    <3>5. AtMost(maximum - Len(all), Len(m.transient)) = Len(m.transient)
      BY <3>1, <3>3, <3>4, Zenon
    <3>6. maximum # 0 /\ Len(m.transient) \in Nat
      <4>1. maximum # 0
        OBVIOUS
      <4>2. \A k \in 0..2 : k \in Nat
        OBVIOUS
      <4>. QED  BY <3>1, <4>1, <4>2
    <3>. QED  BY <2>2, <3>5, <3>6, Zenon DEF WindowRoom
  <2>4. SubSeq(m.transient, WindowRoom(m, maximum) + 1, Len(m.transient)) = <<>>
    BY <2>3, SubSeqEmpty
  <2>5. /\ (m.refresh /\ ~HasOp(all, "Refresh")) = FALSE
        /\ (IF HasOp(all, "SetTimeframe") THEN None ELSE m.timeframe) = None
        /\ (IF HasOp(all, "SetAutostart") THEN None ELSE m.autostart) = None
    BY RequestsComplete DEF all
  <2>6. maximum # 0
    OBVIOUS
  <2>. QED  BY <1>2, <2>2, <2>4, <2>5, <2>6, Zenon DEF Remaining, EmptyMailbox
<1>. QED  BY <1>1, <1>2

\* What send leaves in the mailbox: its types, and a queue that is reduced still.
LEMMA SentKeeps ==
    ASSUME NEW m \in Mailboxes, Len(m.transient) <= 2, Reduced(m.transient), NEW c \in Commands
    PROVE  /\ Sent(m, c) \in Mailboxes
           /\ Len(Sent(m, c).transient) <= 2
           /\ Reduced(Sent(m, c).transient)
           /\ c \notin WindowCommands => Sent(m, c).transient = m.transient
           /\ c \in WindowCommands => Sent(m, c).transient = Coalesced(m.transient, c)
<1>. USE DEF Mailboxes
<1>1. CASE c \in WindowCommands
  <2>1. Sent(m, c) = [m EXCEPT !.transient = Coalesced(m.transient, c)]
    BY <1>1 DEF WindowCommands, Sent
  <2>2. /\ Coalesced(m.transient, c) \in Seq(WindowCommands)
        /\ Len(Coalesced(m.transient, c)) <= 2
        /\ Reduced(Coalesced(m.transient, c))
    BY <1>1, CoalescedReduced
  <2>. QED  BY <1>1, <2>1, <2>2
<1>2. CASE c \in TimeframeCommands
  BY <1>2 DEF TimeframeCommands, WindowCommands, Sent
<1>3. CASE c \in AutostartCommands
  BY <1>3 DEF AutostartCommands, WindowCommands, Sent
<1>4. CASE c = Refresh
  BY <1>4 DEF Refresh, WindowCommands, Sent
<1>5. CASE c = Quit
  BY <1>5 DEF Quit, WindowCommands, Sent
<1>. QED  BY <1>1, <1>2, <1>3, <1>4, <1>5 DEF Commands

\* What a poll takes are commands.
LEMMA TakenType ==
    ASSUME NEW m \in Mailboxes, NEW maximum \in Nat
    PROVE  Taken(m, maximum) \in Seq(Commands)
<1>1. TakenRequests(m, maximum) \in Seq(RequestCommands)
  BY TakenRequestsType
<1>2. RequestCommands \subseteq Commands /\ WindowCommands \subseteq Commands /\ Quit \in Commands
  BY DEF RequestCommands, Commands
<1>3. TakenRequests(m, maximum) \in Seq(Commands)
  BY <1>1, <1>2
<1>4. WindowRoom(m, maximum) \in 0..Len(m.transient)
  BY RoomBounds
<1>5. m.transient \in Seq(WindowCommands)
  BY DEF Mailboxes
<1>6. TakenWindow(m, maximum) \in Seq(Commands)
  <2>1. m.transient \in Seq(Commands)
    BY <1>2, <1>5
  <2>2. Len(m.transient) \in Nat
    BY <1>5
  <2> QED BY <1>4, <2>1, <2>2 DEF TakenWindow
<1>7. <<>> \in Seq(Commands) /\ <<Quit>> \in Seq(Commands)
  BY <1>2
<1>. QED  BY <1>3, <1>6, <1>7 DEF Taken
=============================================================================
