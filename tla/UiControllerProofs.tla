------------------------- MODULE UiControllerProofs -------------------------
(***************************************************************************)
(* What holds of the Linux controller for every set of timeframes and of   *)
(* places, any number of history pages, whatever the user does: types, one *)
(* fetch at a time, a history page that exists, a window or a tray to      *)
(* reach it by, data that failures do not take away; and a tray that says  *)
(* what the controller says once nothing is on its way between the two.    *)
(***************************************************************************)
EXTENDS UiController, TrayCommandsProofs

\* The controller's fields in the middle of a handler.
Working == [timeframe : Timeframes, preference : Timeframes, page : Nat, note : BOOLEAN,
            refreshing : BOOLEAN, snapshot : Snapshots \cup {None}, error : BOOLEAN,
            window : Places, publish : Seq(Updates), started : Nat]

PageOk(u) == u.snapshot # None => u.page < u.snapshot.pages[u.timeframe]

\* Fetches not heard of yet besides those that this handler starts.
Owed(u) == IF u.refreshing THEN 1 ELSE 0

\* v is what a method makes of u: the data stays, and a fetch is started only
\* when none is under way.
Method(u, v) ==
    /\ v \in Working /\ PageOk(v) /\ v.snapshot = u.snapshot
    /\ v.started - u.started = Owed(v) - Owed(u)

\* The mailbox holds what send leaves in it, so that a poll empties it.
MailboxOk == mailbox \in Mailboxes /\ Len(mailbox.transient) <= 2 /\ Reduced(mailbox.transient)

IInv == TypeOK /\ MailboxOk /\ OneFetch /\ HistoryPageExists /\ NeverStranded

-----------------------------------------------------------------------------
(* The methods of the controller. *)

LEMMA FaceUpdateType ==
    ASSUME NEW u \in Working
    PROVE  FaceUpdate(u) \in Updates
<1>1. FaceOf(u) \in Faces
  BY DEF FaceOf, Faces
<1>2. u.timeframe \in Timeframes
  BY DEF Working
<1> QED BY <1>1, <1>2 DEF FaceUpdate, Updates, NoUpdate

LEMMA PublishingKeeps ==
    ASSUME NEW u \in Working, NEW update \in Updates
    PROVE  /\ Publishing(u, update) \in Working
           /\ \A v \in {Publishing(u, update)} :
                 /\ v.timeframe = u.timeframe /\ v.page = u.page /\ v.snapshot = u.snapshot
                 /\ v.refreshing = u.refreshing /\ v.started = u.started /\ v.window = u.window
<1>1. u.publish \in Seq(Updates)
  BY DEF Working
<1>2. Append(u.publish, update) \in Seq(Updates)
  BY <1>1
<1> QED BY <1>2 DEF Publishing, Working

LEMMA ClampedPageExists ==
    ASSUME NEW u \in Working
    PROVE  /\ ClampedPage(u) \in Nat
           /\ u.snapshot # None => ClampedPage(u) < u.snapshot.pages[u.timeframe]
<1>1. u.page \in Nat /\ u.timeframe \in Timeframes /\ u.snapshot \in Snapshots \cup {None}
  BY DEF Working
<1>2. CASE u.snapshot = None
  BY <1>1, <1>2 DEF ClampedPage
<1>3. CASE u.snapshot # None
  <2>1. u.snapshot.pages[u.timeframe] \in 1..MaxPages
    BY <1>1, <1>3 DEF Snapshots
  <2>2. MaxPages \in Nat
    BY UiAssumption
  <2> QED BY <1>1, <1>3, <2>1, <2>2 DEF ClampedPage, AtMost
<1> QED BY <1>2, <1>3

LEMMA RenderedIsMethod ==
    ASSUME NEW u \in Working
    PROVE  /\ Method(u, Rendered(u)) /\ Rendered(u).window = u.window
           /\ Rendered(u).refreshing = u.refreshing /\ Rendered(u).started = u.started
<1> DEFINE paged == [u EXCEPT !.page = ClampedPage(u)]
<1>1. /\ paged \in Working /\ paged.page = ClampedPage(u)
      /\ paged.timeframe = u.timeframe /\ paged.snapshot = u.snapshot
      /\ paged.refreshing = u.refreshing /\ paged.started = u.started /\ paged.window = u.window
  BY ClampedPageExists DEF Working
<1>2. Rendered(u) = Publishing(paged, FaceUpdate(u))
  BY DEF Rendered
<1>3. FaceUpdate(u) \in Updates
  BY FaceUpdateType
<1> HIDE DEF paged
<1>4. /\ Rendered(u) \in Working /\ Rendered(u).page = ClampedPage(u)
      /\ Rendered(u).timeframe = u.timeframe /\ Rendered(u).snapshot = u.snapshot
      /\ Rendered(u).refreshing = u.refreshing /\ Rendered(u).started = u.started
      /\ Rendered(u).window = u.window
  BY <1>1, <1>2, <1>3, PublishingKeeps
<1>5. PageOk(Rendered(u))
  BY <1>4, ClampedPageExists DEF PageOk
<1>6. u.started \in Nat
  BY DEF Working
<1> QED BY <1>4, <1>5, <1>6 DEF Method, Owed

LEMMA StartRefreshIsMethod ==
    ASSUME NEW u \in Working, PageOk(u)
    PROVE  Method(u, StartRefresh(u)) /\ StartRefresh(u).window = u.window
<1>1. u.started \in Nat /\ u.refreshing \in BOOLEAN
  BY DEF Working
<1>2. CASE u.refreshing
  BY <1>1, <1>2 DEF StartRefresh, Method, Owed
<1>3. CASE ~u.refreshing
  <2> DEFINE begun == [u EXCEPT !.refreshing = TRUE, !.started = @ + 1]
  <2>0. u.started + 1 \in Nat
    BY <1>1
  <2>1. /\ begun \in Working /\ begun.refreshing = TRUE /\ begun.started = u.started + 1
        /\ begun.snapshot = u.snapshot /\ begun.window = u.window
    BY <2>0 DEF Working
  <2>2. StartRefresh(u) = Rendered(begun)
    BY <1>3 DEF StartRefresh
  <2> HIDE DEF begun
  <2>3. Method(begun, StartRefresh(u)) /\ StartRefresh(u).window = begun.window
    BY <2>1, <2>2, RenderedIsMethod
  <2>4. StartRefresh(u).started \in Nat
    BY <2>3 DEF Method, Working
  <2> QED BY <1>1, <1>3, <2>1, <2>3, <2>4 DEF Method, Owed
<1> QED BY <1>1, <1>2, <1>3

LEMMA MethodsCompose ==
    ASSUME NEW u \in Working, NEW v, NEW w, Method(u, v), Method(v, w)
    PROVE  Method(u, w)
<1>1. u.started \in Nat /\ v.started \in Nat /\ w.started \in Nat
  BY DEF Method, Working
<1>2. Owed(u) \in Nat /\ Owed(v) \in Nat /\ Owed(w) \in Nat
  BY DEF Owed
<1> QED BY <1>1, <1>2 DEF Method

LEMMA PresentIsMethod ==
    ASSUME NEW u \in Working, PageOk(u), NEW anchor \in Anchors
    PROVE  Method(u, Present(u, anchor)) /\ Present(u, anchor).window = anchor
<1> DEFINE first == [u EXCEPT !.page = 0]
           top == IF u.page # 0 THEN Rendered(first) ELSE u
           shown == [top EXCEPT !.window = anchor]
<1>0. u.started \in Nat /\ u.page \in Nat
  BY DEF Working
<1>1. Method(u, top)
  <2>1. /\ first \in Working /\ first.snapshot = u.snapshot
        /\ first.refreshing = u.refreshing /\ first.started = u.started
    BY DEF Working
  <2>2. Method(u, u)
    BY <1>0 DEF Method, Owed
  <2> HIDE DEF first
  <2>3. Method(first, Rendered(first))
    BY <2>1, RenderedIsMethod
  <2>4. Method(u, Rendered(first))
    BY <2>1, <2>3 DEF Method, Owed
  <2> QED BY <2>2, <2>4
<1>2. /\ shown \in Working /\ shown.window = anchor
      /\ shown.snapshot = top.snapshot /\ shown.page = top.page /\ shown.timeframe = top.timeframe
      /\ shown.refreshing = top.refreshing /\ shown.started = top.started
  <2>1. top \in Working
    BY <1>1 DEF Method
  <2>2. anchor \in Places
    BY DEF Places
  <2> HIDE DEF top
  <2> QED BY <2>1, <2>2 DEF Working
<1>3. Present(u, anchor) = IF NeedsRefresh(shown) THEN StartRefresh(shown) ELSE shown
  BY DEF Present
<1> HIDE DEF top, shown
<1>4. Method(u, shown) /\ PageOk(shown)
  BY <1>1, <1>2 DEF Method, PageOk, Owed
<1>5. Method(shown, StartRefresh(shown)) /\ StartRefresh(shown).window = shown.window
  BY <1>2, <1>4, StartRefreshIsMethod
<1>6. Method(u, StartRefresh(shown))
  BY <1>4, <1>5, MethodsCompose
<1> QED BY <1>2, <1>3, <1>4, <1>5, <1>6

\* Presenting leaves a refresh that is under way alone.
LEMMA PresentRefreshes ==
    ASSUME NEW u \in Working, u.refreshing, NEW anchor
    PROVE  Present(u, anchor).refreshing
<1> DEFINE first == [u EXCEPT !.page = 0]
           top == IF u.page # 0 THEN Rendered(first) ELSE u
           shown == [top EXCEPT !.window = anchor]
<1>1. first \in Working /\ first.refreshing = u.refreshing
  BY DEF Working
<1> HIDE DEF first
<1>2. Rendered(first).refreshing /\ Rendered(first) \in Working
  BY <1>1, RenderedIsMethod DEF Method
<1>3. top.refreshing /\ top \in Working
  BY <1>2
<1> HIDE DEF top
<1>4. shown.refreshing
  BY <1>3 DEF Working
<1>5. Present(u, anchor) = IF NeedsRefresh(shown) THEN StartRefresh(shown) ELSE shown
  BY DEF Present, top, first
<1> HIDE DEF shown
<1> QED BY <1>4, <1>5 DEF StartRefresh

LEMMA SetTimeframeIsMethod ==
    ASSUME NEW u \in Working, PageOk(u), NEW t \in Timeframes, NEW saved \in BOOLEAN
    PROVE  Method(u, SetTimeframe(u, t, saved)) /\ SetTimeframe(u, t, saved).window = u.window
<1> DEFINE chosen == [u EXCEPT !.timeframe = t, !.page = 0, !.note = ~saved,
                               !.preference = IF saved THEN t ELSE @]
           update == [NoUpdate EXCEPT !.timeframe = t]
           told == Publishing(chosen, update)
<1>0. u.started \in Nat
  BY DEF Working
<1>1. CASE u.timeframe = t
  BY <1>0, <1>1 DEF SetTimeframe, Method, Owed
<1>2. CASE u.timeframe # t
  <2>1. /\ chosen \in Working /\ chosen.snapshot = u.snapshot /\ chosen.window = u.window
        /\ chosen.refreshing = u.refreshing /\ chosen.started = u.started
    BY DEF Working
  <2>2. update \in Updates
    BY DEF Updates, NoUpdate
  <2>3. SetTimeframe(u, t, saved) = Rendered(told)
    BY <1>2 DEF SetTimeframe
  <2> HIDE DEF chosen, update
  <2>4. /\ told \in Working /\ told.snapshot = u.snapshot /\ told.window = u.window
        /\ told.refreshing = u.refreshing /\ told.started = u.started
    BY <2>1, <2>2, PublishingKeeps
  <2> HIDE DEF told
  <2>5. Method(told, Rendered(told)) /\ Rendered(told).window = told.window
    BY <2>4, RenderedIsMethod
  <2> QED BY <2>3, <2>4, <2>5 DEF Method, Owed
<1> QED BY <1>1, <1>2

LEMMA ReceivedKeeps ==
    ASSUME NEW u \in Working, u.started = 0, u.refreshing, NEW result \in Fetched \cup {None}
    PROVE  \A v \in {Received(u, result)} :
              /\ v \in Working /\ PageOk(v) /\ v.window = u.window
              /\ v.started = 0 /\ v.refreshing = FALSE
              /\ u.snapshot # None => v.snapshot # None
<1> DEFINE failed == [u EXCEPT !.refreshing = FALSE, !.error = TRUE]
           answered == [u EXCEPT !.refreshing = FALSE, !.error = FALSE, !.snapshot = result]
<1>1. CASE result = None
  <2>1. /\ failed \in Working /\ failed.window = u.window /\ failed.started = 0
        /\ failed.refreshing = FALSE /\ failed.snapshot = u.snapshot
    BY DEF Working
  <2>2. Received(u, result) = Rendered(failed)
    BY <1>1 DEF Received
  <2> HIDE DEF failed
  <2> QED BY <2>1, <2>2, RenderedIsMethod DEF Method
<1>2. CASE result # None
  <2>0. result \in Snapshots
    BY <1>2 DEF Fetched
  <2>1. /\ answered \in Working /\ answered.window = u.window /\ answered.started = 0
        /\ answered.refreshing = FALSE /\ answered.snapshot # None
    BY <1>2, <2>0 DEF Working
  <2>2. Received(u, result) = Rendered(answered)
    BY <1>2 DEF Received
  <2> HIDE DEF answered
  <2> QED BY <2>1, <2>2, RenderedIsMethod DEF Method
<1> QED BY <1>1, <1>2

-----------------------------------------------------------------------------
(* What the handlers leave. *)

LEMMA FieldsAreWorking ==
    ASSUME IInv
    PROVE  /\ ui \in Fields /\ ui \in Working /\ ui.started = 0 /\ PageOk(ui)
           /\ workers \in Nat /\ Len(events) \in Nat
           /\ workers + Len(events) = Owed(ui)
<1>1. ui \in Fields /\ workers \in Nat /\ events \in Seq(Fetched \cup {None})
  BY DEF IInv, TypeOK
<1>2. Len(events) \in Nat
  BY <1>1
<1>3. ui \in Working /\ ui.started = 0
  BY <1>1 DEF Fields, Working
<1> QED BY <1>1, <1>2, <1>3 DEF IInv, OneFetch, Owed, PageOk, HistoryPageExists

\* The rest of the state, of which most handlers change the batch at most.
Elsewhere == /\ UNCHANGED <<tray, mailbox, polling, events, mode, hasTray>>
             /\ batch' \in Seq(Commands) /\ entry' \in BOOLEAN /\ running' \in BOOLEAN

\* A handler whose fields are v, with the threads it started.
LEMMA HandlerKeeps ==
    ASSUME IInv, Elsewhere, NEW v, Method(ui, v), v.window \in Anchors \cup {ui.window},
           ui' = [v EXCEPT !.started = 0], workers' = workers + v.started,
           running' => running
    PROVE  IInv' /\ ui'.snapshot = ui.snapshot
<1>1. v \in Working /\ PageOk(v) /\ v.snapshot = ui.snapshot
      /\ v.started - ui.started = Owed(v) - Owed(ui)
  BY DEF Method
<1>2. /\ ui' \in Fields /\ PageOk(ui') /\ ui'.snapshot = v.snapshot
      /\ ui'.window = v.window /\ ui'.refreshing = v.refreshing
  BY <1>1 DEF Working, Fields, PageOk
<1>3. workers' \in Nat /\ workers' + Len(events') = Owed(v)
  <2>1. v.started \in Nat
    BY <1>1 DEF Working
  <2> QED BY <1>1, <2>1, FieldsAreWorking DEF Elsewhere, Owed
<1>4. TypeOK' /\ MailboxOk'
  BY <1>2, <1>3 DEF IInv, TypeOK, MailboxOk, Elsewhere
<1>5. OneFetch' /\ HistoryPageExists'
  BY <1>2, <1>3 DEF Owed, OneFetch, PageOk, HistoryPageExists
<1>6. NeverStranded'
  BY <1>2, CommandsAssumption DEF IInv, NeverStranded, Elsewhere
<1> QED BY <1>1, <1>2, <1>4, <1>5, <1>6 DEF IInv

LEMMA BecomesKeeps ==
    ASSUME IInv, Elsewhere, UNCHANGED running, NEW v, Becomes(v),
           Method(ui, v), v.window \in Anchors \cup {ui.window}
    PROVE  IInv' /\ ui'.snapshot = ui.snapshot
BY HandlerKeeps DEF Becomes

LEMMA DismissKeeps ==
    ASSUME IInv, Elsewhere, DoDismiss
    PROVE  IInv' /\ ui'.snapshot = ui.snapshot
<1>1. /\ ui' \in Fields /\ ui'.snapshot = ui.snapshot /\ ui'.refreshing = ui.refreshing
      /\ ui'.page = ui.page /\ ui'.timeframe = ui.timeframe
  BY FieldsAreWorking DEF DoDismiss, Fields, Places
<1>2. workers' = workers /\ running' = hasTray
  BY DEF DoDismiss
<1>3. TypeOK' /\ MailboxOk'
  BY <1>1, <1>2 DEF IInv, TypeOK, MailboxOk, Elsewhere
<1>4. OneFetch' /\ HistoryPageExists'
  BY <1>1, <1>2 DEF IInv, OneFetch, HistoryPageExists, Elsewhere
<1>5. NeverStranded'
  BY <1>2 DEF NeverStranded, Elsewhere
<1> QED BY <1>1, <1>3, <1>4, <1>5 DEF IInv

LEMMA SetAutostartKeeps ==
    ASSUME IInv, Elsewhere, NEW enabled \in BOOLEAN, DoSetAutostart(enabled)
    PROVE  IInv' /\ ui'.snapshot = ui.snapshot
<1>1. PICK changed \in BOOLEAN, actual \in BOOLEAN :
         ui' = Rendered(Publishing([ui EXCEPT !.note = ~changed],
                                   [NoUpdate EXCEPT !.autostart = actual]))
  BY DEF DoSetAutostart
<1>2. UNCHANGED <<workers, running>>
  BY DEF DoSetAutostart
<1> DEFINE noted == [ui EXCEPT !.note = ~changed]
           update == [NoUpdate EXCEPT !.autostart = actual]
           told == Publishing(noted, update)
           v == Rendered(told)
<1>3. /\ noted \in Working /\ noted.snapshot = ui.snapshot /\ noted.window = ui.window
      /\ noted.refreshing = ui.refreshing /\ noted.started = 0
  BY FieldsAreWorking DEF Working
<1>4. update \in Updates
  BY DEF Updates, NoUpdate
<1> HIDE DEF noted, update
<1>5. /\ told \in Working /\ told.snapshot = ui.snapshot /\ told.window = ui.window
      /\ told.refreshing = ui.refreshing /\ told.started = 0
  BY <1>3, <1>4, PublishingKeeps
<1>6. ui' = v
  BY <1>1 DEF noted, update
<1> HIDE DEF told
<1>7. /\ Method(told, v) /\ v.window = ui.window
      /\ v.refreshing = ui.refreshing /\ v.started = 0
  BY <1>5, RenderedIsMethod
<1>8. Method(ui, v)
  BY <1>5, <1>7, FieldsAreWorking DEF Method, Owed
<1> HIDE DEF v
<1>9. v = [v EXCEPT !.started = 0]
  <2>1. v \in Working
    BY <1>7 DEF Method
  <2> QED BY <1>7, <2>1 DEF Working
<1>10. workers' = workers + v.started
  BY <1>2, <1>7, FieldsAreWorking
<1> QED BY <1>2, <1>6, <1>7, <1>8, <1>9, <1>10, HandlerKeeps

LEMMA DoSetTimeframeKeeps ==
    ASSUME IInv, Elsewhere, NEW t \in Timeframes, DoSetTimeframe(t)
    PROVE  IInv' /\ ui'.snapshot = ui.snapshot
<1>1. PICK saved \in BOOLEAN : Becomes(SetTimeframe(ui, t, saved))
  BY DEF DoSetTimeframe
<1>2. UNCHANGED running
  BY DEF DoSetTimeframe
<1>3. Method(ui, SetTimeframe(ui, t, saved)) /\ SetTimeframe(ui, t, saved).window = ui.window
  BY FieldsAreWorking, SetTimeframeIsMethod
<1> QED BY <1>1, <1>2, <1>3, BecomesKeeps

LEMMA StartRefreshKeeps ==
    ASSUME IInv, Elsewhere, UNCHANGED running, Becomes(StartRefresh(ui))
    PROVE  IInv' /\ ui'.snapshot = ui.snapshot
<1>1. Method(ui, StartRefresh(ui)) /\ StartRefresh(ui).window = ui.window
  BY FieldsAreWorking, StartRefreshIsMethod
<1> QED BY <1>1, BecomesKeeps

LEMMA PresentKeeps ==
    ASSUME IInv, Elsewhere, UNCHANGED running, NEW anchor \in Anchors, Becomes(Present(ui, anchor))
    PROVE  IInv' /\ ui'.snapshot = ui.snapshot
<1>1. Method(ui, Present(ui, anchor)) /\ Present(ui, anchor).window = anchor
  BY FieldsAreWorking, PresentIsMethod
<1> QED BY <1>1, BecomesKeeps

\* The application is told to quit, and nothing else.
LEMMA QuitKeeps ==
    ASSUME IInv, Elsewhere, running' = FALSE, UNCHANGED <<ui, workers, entry>>
    PROVE  IInv' /\ ui'.snapshot = ui.snapshot
<1>1. TypeOK' /\ MailboxOk'
  BY DEF IInv, TypeOK, MailboxOk, Elsewhere
<1>2. OneFetch' /\ HistoryPageExists' /\ NeverStranded'
  BY DEF IInv, OneFetch, HistoryPageExists, NeverStranded, Elsewhere
<1> QED BY <1>1, <1>2 DEF IInv

-----------------------------------------------------------------------------
(* One step. *)

\* Data stays data: with a snapshot before the step there is one after it.
Kept == ui.snapshot # None => ui'.snapshot # None

LEMMA HandlerElsewhere ==
    ASSUME IInv, Handler, entry' \in BOOLEAN, running' \in BOOLEAN
    PROVE  Elsewhere
BY DEF IInv, TypeOK, Handler, Elsewhere

LEMMA UserKeeps == IInv /\ User => IInv' /\ Kept
<1> SUFFICES ASSUME IInv, User PROVE IInv' /\ Kept
  OBVIOUS
<1>0. entry \in BOOLEAN /\ running \in BOOLEAN /\ hasTray \in BOOLEAN
  BY DEF IInv, TypeOK
<1>1. CASE UserDismisses
  <2>1. Elsewhere /\ DoDismiss
    BY <1>0, <1>1, HandlerElsewhere DEF UserDismisses, DoDismiss
  <2> QED BY <2>1, DismissKeeps DEF Kept
<1>2. CASE UserRefreshes
  <2>1. Elsewhere /\ UNCHANGED running /\ Becomes(StartRefresh(ui))
    BY <1>0, <1>2, HandlerElsewhere DEF UserRefreshes
  <2> QED BY <2>1, StartRefreshKeeps DEF Kept
<1>3. CASE UserSetsAutostart
  <2>1. DoSetAutostart(~entry) /\ Handler
    BY <1>3 DEF UserSetsAutostart
  <2>2. Elsewhere
    BY <1>0, <2>1, HandlerElsewhere DEF DoSetAutostart
  <2> QED BY <1>0, <2>1, <2>2, SetAutostartKeeps DEF Kept
<1>4. CASE UserQuits
  <2>1. Elsewhere /\ running' = FALSE /\ UNCHANGED <<ui, workers, entry>>
    BY <1>0, <1>4, HandlerElsewhere DEF UserQuits
  <2> QED BY <2>1, QuitKeeps DEF Kept
<1>5. CASE UserPages
  <2>1. PICK page \in 0..(ui.snapshot.pages[ui.timeframe] - 1) :
           Becomes(Rendered([ui EXCEPT !.page = page]))
    BY <1>5 DEF UserPages
  <2>2. Elsewhere /\ UNCHANGED running
    BY <1>0, <1>5, HandlerElsewhere DEF UserPages
  <2> DEFINE turned == [ui EXCEPT !.page = page]
  <2>3. page \in Nat
    BY <2>1
  <2>4. /\ turned \in Working /\ turned.snapshot = ui.snapshot /\ turned.window = ui.window
        /\ turned.refreshing = ui.refreshing /\ turned.started = ui.started
    BY <2>3, FieldsAreWorking DEF Working
  <2>5. Becomes(Rendered(turned))
    BY <2>1
  <2> HIDE DEF turned
  <2>6. Method(ui, Rendered(turned)) /\ Rendered(turned).window = ui.window
    BY <2>4, RenderedIsMethod DEF Method, Owed
  <2> QED BY <2>2, <2>5, <2>6, BecomesKeeps DEF Kept
<1>6. CASE Relaunch
  <2>1. Elsewhere /\ UNCHANGED running /\ Becomes(Present(ui, Origin))
    BY <1>0, <1>6, HandlerElsewhere DEF Relaunch
  <2>2. Origin \in Anchors
    BY UiAssumption
  <2> QED BY <2>1, <2>2, PresentKeeps DEF Kept
<1>7. ASSUME NEW t \in Timeframes, UserSetsTimeframe(t) PROVE IInv' /\ Kept
  <2>1. DoSetTimeframe(t) /\ Handler
    BY <1>7 DEF UserSetsTimeframe
  <2>2. Elsewhere
    BY <1>0, <2>1, HandlerElsewhere DEF DoSetTimeframe
  <2> QED BY <2>1, <2>2, DoSetTimeframeKeeps DEF Kept
<1> QED BY <1>1, <1>2, <1>3, <1>4, <1>5, <1>6, <1>7 DEF User

LEMMA HandleCommandKeeps == IInv /\ HandleCommand => IInv' /\ Kept
<1> SUFFICES ASSUME IInv, HandleCommand PROVE IInv' /\ Kept
  OBVIOUS
<1> DEFINE c == Head(batch)
<1>0. /\ entry \in BOOLEAN /\ running \in BOOLEAN /\ hasTray \in BOOLEAN
      /\ batch \in Seq(Commands)
  BY DEF IInv, TypeOK
<1>1. c \in Commands /\ Tail(batch) \in Seq(Commands)
  BY <1>0 DEF HandleCommand
<1>2. /\ Handle(c) /\ batch' = Tail(batch)
      /\ UNCHANGED <<tray, mailbox, polling, events, mode, hasTray>>
  BY DEF HandleCommand
<1> HIDE DEF c
<1>3. ASSUME entry' \in BOOLEAN, running' \in BOOLEAN PROVE Elsewhere
  BY <1>1, <1>2, <1>3 DEF Elsewhere
<1>4. CASE c \in WindowCommands
  <2>1. c.at \in Anchors /\ c.op \in {"Toggle", "Show"}
    BY <1>4 DEF WindowCommands
  <2>2. CASE c.op = "Toggle" /\ ui.window # Hidden
    <3>1. DoDismiss
      BY <1>2, <2>2 DEF Handle
    <3>2. Elsewhere
      BY <1>0, <1>3, <3>1 DEF DoDismiss
    <3> QED BY <3>1, <3>2, DismissKeeps DEF Kept
  <2>3. CASE ~(c.op = "Toggle" /\ ui.window # Hidden)
    <3>1. Becomes(Present(ui, c.at)) /\ UNCHANGED <<entry, running>>
      BY <1>2, <2>1, <2>3 DEF Handle
    <3>2. Elsewhere
      BY <1>0, <1>3, <3>1
    <3> QED BY <2>1, <3>1, <3>2, PresentKeeps DEF Kept
  <2> QED BY <2>2, <2>3
<1>5. CASE c \in TimeframeCommands
  <2>1. c.op = "SetTimeframe" /\ c.timeframe \in Timeframes
    BY <1>5 DEF TimeframeCommands
  <2>2. DoSetTimeframe(c.timeframe)
    BY <1>2, <2>1 DEF Handle
  <2>3. Elsewhere
    BY <1>0, <1>3, <2>2 DEF DoSetTimeframe
  <2> QED BY <2>1, <2>2, <2>3, DoSetTimeframeKeeps DEF Kept
<1>6. CASE c \in AutostartCommands
  <2>1. c.op = "SetAutostart" /\ c.enabled \in BOOLEAN
    BY <1>6 DEF AutostartCommands
  <2>2. DoSetAutostart(c.enabled)
    BY <1>2, <2>1 DEF Handle
  <2>3. Elsewhere
    BY <1>0, <1>3, <2>2 DEF DoSetAutostart
  <2> QED BY <2>1, <2>2, <2>3, SetAutostartKeeps DEF Kept
<1>7. CASE c = Refresh
  <2>1. Becomes(StartRefresh(ui)) /\ UNCHANGED <<entry, running>>
    BY <1>2, <1>7 DEF Handle, Refresh
  <2>2. Elsewhere
    BY <1>0, <1>3, <2>1
  <2> QED BY <2>1, <2>2, StartRefreshKeeps DEF Kept
<1>8. CASE c = Quit
  <2>1. running' = FALSE /\ UNCHANGED <<ui, workers, entry>>
    BY <1>2, <1>8 DEF Handle, Quit
  <2>2. Elsewhere
    BY <1>0, <1>3, <2>1
  <2> QED BY <2>1, <2>2, QuitKeeps DEF Kept
<1> QED BY <1>1, <1>4, <1>5, <1>6, <1>7, <1>8 DEF Commands

LEMMA TimersKeep == IInv /\ (AutoRefresh \/ PresentationTick) => IInv' /\ Kept
<1> SUFFICES ASSUME IInv, AutoRefresh \/ PresentationTick PROVE IInv' /\ Kept
  OBVIOUS
<1>0. entry \in BOOLEAN /\ running \in BOOLEAN
  BY DEF IInv, TypeOK
<1>1. Elsewhere /\ UNCHANGED running
  BY <1>0, HandlerElsewhere DEF AutoRefresh, PresentationTick
<1>2. CASE Becomes(StartRefresh(ui))
  BY <1>1, <1>2, StartRefreshKeeps DEF Kept
<1>3. CASE Becomes(Publishing(ui, FaceUpdate(ui)))
  <2> DEFINE told == Publishing(ui, FaceUpdate(ui))
  <2>1. FaceUpdate(ui) \in Updates
    BY FieldsAreWorking, FaceUpdateType
  <2>2. /\ told \in Working /\ told.snapshot = ui.snapshot /\ told.window = ui.window
        /\ told.refreshing = ui.refreshing /\ told.started = ui.started
        /\ told.page = ui.page /\ told.timeframe = ui.timeframe
    BY <2>1, FieldsAreWorking, PublishingKeeps
  <2>3. Becomes(told)
    BY <1>3
  <2> HIDE DEF told
  <2>4. Method(ui, told)
    BY <2>2, FieldsAreWorking DEF Method, Owed, PageOk
  <2> QED BY <1>1, <2>2, <2>3, <2>4, BecomesKeeps DEF Kept
<1> QED BY <1>2, <1>3 DEF AutoRefresh, PresentationTick, UpdateRelativeLabels

LEMMA ReceiveEventKeeps == IInv /\ ReceiveEvent => IInv' /\ Kept
<1> SUFFICES ASSUME IInv, ReceiveEvent PROVE IInv' /\ Kept
  OBVIOUS
<1>1. /\ events \in Seq(Fetched \cup {None}) /\ events # <<>>
      /\ ui' = Received(ui, Head(events)) /\ events' = Tail(events)
      /\ UNCHANGED <<tray, mailbox, batch, polling, workers, entry, running, mode, hasTray>>
  BY DEF IInv, TypeOK, ReceiveEvent
<1>2. /\ Head(events) \in Fetched \cup {None} /\ events' \in Seq(Fetched \cup {None})
      /\ Len(events') = Len(events) - 1 /\ Len(events) > 0 /\ Len(events) \in Nat
  BY <1>1
<1>3. workers = 0 /\ Len(events) = 1 /\ ui.refreshing
  BY <1>2, FieldsAreWorking DEF Owed
<1>4. /\ ui' \in Working /\ PageOk(ui') /\ ui'.window = ui.window
      /\ ui'.started = 0 /\ ui'.refreshing = FALSE
      /\ ui.snapshot # None => ui'.snapshot # None
  BY <1>1, <1>2, <1>3, FieldsAreWorking, ReceivedKeeps
<1>5. ui' \in Fields
  BY <1>4 DEF Working, Fields
<1>6. TypeOK' /\ MailboxOk'
  BY <1>1, <1>2, <1>5 DEF IInv, TypeOK, MailboxOk
<1>7. OneFetch' /\ HistoryPageExists' /\ NeverStranded'
  BY <1>1, <1>2, <1>3, <1>4 DEF IInv, OneFetch, PageOk, HistoryPageExists, NeverStranded
<1> QED BY <1>4, <1>6, <1>7 DEF IInv, Kept

LEMMA UpdatedType ==
    ASSUME NEW t \in [timeframe : Timeframes, autostart : BOOLEAN, face : Faces],
           NEW u \in Updates, entry \in BOOLEAN
    PROVE  Updated(t, u) \in [timeframe : Timeframes, autostart : BOOLEAN, face : Faces]
BY DEF Updated, Updates

LEMMA PublishKeeps == IInv /\ Publish => IInv' /\ Kept
<1> SUFFICES ASSUME IInv, Publish PROVE IInv' /\ Kept
  OBVIOUS
<1>1. /\ ui \in Fields /\ ui.publish \in Seq(Updates) /\ ui.publish # <<>>
      /\ tray' = Updated(tray, Head(ui.publish))
      /\ ui' = [ui EXCEPT !.publish = Tail(ui.publish)]
      /\ UNCHANGED <<mailbox, batch, polling, workers, events, entry, running, mode, hasTray>>
  BY DEF IInv, TypeOK, Fields, Publish
<1>2. Head(ui.publish) \in Updates /\ Tail(ui.publish) \in Seq(Updates)
  BY <1>1
<1>3. /\ ui' \in Fields /\ ui'.snapshot = ui.snapshot /\ ui'.refreshing = ui.refreshing
      /\ ui'.page = ui.page /\ ui'.timeframe = ui.timeframe /\ ui'.window = ui.window
  BY <1>1, <1>2 DEF Fields
<1>4. tray' \in [timeframe : Timeframes, autostart : BOOLEAN, face : Faces]
  BY <1>1, <1>2, UpdatedType DEF IInv, TypeOK
<1>5. TypeOK' /\ MailboxOk'
  BY <1>1, <1>3, <1>4 DEF IInv, TypeOK, MailboxOk
<1>6. OneFetch' /\ HistoryPageExists' /\ NeverStranded'
  BY <1>1, <1>3 DEF IInv, OneFetch, HistoryPageExists, NeverStranded
<1> QED BY <1>3, <1>5, <1>6 DEF IInv, Kept

LEMMA TakePendingKeeps == IInv /\ TakePending => IInv' /\ Kept
<1> SUFFICES ASSUME IInv, TakePending PROVE IInv' /\ Kept
  OBVIOUS
<1>1. /\ mailbox \in Mailboxes /\ Len(mailbox.transient) <= MaxPendingWindowCommands
      /\ MaxTrayCommandsPerPoll \in Nat /\ MaxTrayCommandsPerPoll >= 5
  BY DEF IInv, MailboxOk, MaxPendingWindowCommands, MaxTrayCommandsPerPoll
<1>2. mailbox' = EmptyMailbox
  BY <1>1, PollDrains DEF TakePending
<1>3. EmptyMailbox \in Mailboxes /\ Len(EmptyMailbox.transient) <= 2 /\ Reduced(EmptyMailbox.transient)
  BY DEF EmptyMailbox, Mailboxes, Reduced
<1>4. batch' \in Seq(Commands)
  BY <1>1, TakenType DEF TakePending
<1>5. polling' = FALSE /\ UNCHANGED <<ui, tray, workers, events, entry, running, hasTray, mode>>
  BY DEF TakePending
<1>6. TypeOK' /\ MailboxOk'
  BY <1>2, <1>3, <1>4, <1>5 DEF IInv, TypeOK, MailboxOk
<1>7. OneFetch' /\ HistoryPageExists' /\ NeverStranded'
  BY <1>5 DEF IInv, OneFetch, HistoryPageExists, NeverStranded
<1> QED BY <1>5, <1>6, <1>7 DEF IInv, Kept

LEMMA TraySendsKeeps ==
    ASSUME IInv, NEW c \in Commands, TraySends(c)
    PROVE  IInv' /\ Kept
<1>1. /\ mailbox' = Sent(mailbox, c)
      /\ UNCHANGED <<ui, batch, polling, workers, events, entry, running, mode, hasTray>>
  BY DEF TraySends
<1>2. MailboxOk'
  BY <1>1, SentKeeps DEF IInv, MailboxOk
<1>3. tray' \in [timeframe : Timeframes, autostart : BOOLEAN, face : Faces]
  <2>1. tray \in [timeframe : Timeframes, autostart : BOOLEAN, face : Faces]
    BY DEF IInv, TypeOK
  <2>2. CASE c.op = "SetTimeframe"
    <3>1. c.timeframe \in Timeframes
      BY <2>2 DEF Commands, WindowCommands, TimeframeCommands, AutostartCommands, Refresh, Quit
    <3> QED BY <2>1, <2>2, <3>1 DEF TraySends
  <2>3. CASE c.op = "SetAutostart"
    <3>1. c.enabled \in BOOLEAN
      BY <2>3 DEF Commands, WindowCommands, TimeframeCommands, AutostartCommands, Refresh, Quit
    <3> QED BY <2>1, <2>3, <3>1 DEF TraySends
  <2>4. CASE c.op \notin {"SetTimeframe", "SetAutostart"}
    BY <2>1, <2>4 DEF TraySends
  <2> QED BY <2>2, <2>3, <2>4
<1>4. TypeOK'
  BY <1>1, <1>2, <1>3 DEF IInv, TypeOK, MailboxOk
<1>5. OneFetch' /\ HistoryPageExists' /\ NeverStranded'
  BY <1>1 DEF IInv, OneFetch, HistoryPageExists, NeverStranded
<1> QED BY <1>1, <1>2, <1>4, <1>5 DEF IInv, Kept

LEMMA FetchEndsKeeps == IInv /\ FetchEnds => IInv' /\ Kept
<1> SUFFICES ASSUME IInv, FetchEnds PROVE IInv' /\ Kept
  OBVIOUS
<1>1. PICK result \in Fetched \cup {None} : events' = Append(events, result)
  BY DEF FetchEnds
<1>2. /\ workers > 0 /\ workers' = workers - 1
      /\ UNCHANGED <<ui, tray, mailbox, batch, polling, entry, running, mode, hasTray>>
  BY DEF FetchEnds
<1>3. events \in Seq(Fetched \cup {None}) /\ workers \in Nat
  BY DEF IInv, TypeOK
<1>4. /\ events' \in Seq(Fetched \cup {None}) /\ Len(events') = Len(events) + 1
      /\ Len(events) \in Nat /\ workers' \in Nat
  BY <1>1, <1>2, <1>3
<1>5. TypeOK' /\ MailboxOk'
  BY <1>2, <1>4 DEF IInv, TypeOK, MailboxOk
<1>6. OneFetch' /\ HistoryPageExists' /\ NeverStranded'
  BY <1>2, <1>3, <1>4 DEF IInv, OneFetch, HistoryPageExists, NeverStranded
<1> QED BY <1>2, <1>5, <1>6 DEF IInv, Kept

LEMMA ClockMovesKeeps == IInv /\ ClockMoves => IInv' /\ Kept
<1> SUFFICES ASSUME IInv, ClockMoves PROVE IInv' /\ Kept
  OBVIOUS
<1>0. PICK age \in Ages : ui' = [ui EXCEPT !.snapshot = [ui.snapshot EXCEPT !.age = age]]
  BY DEF ClockMoves
<1>1. /\ ui \in Fields /\ ui.snapshot \in Snapshots
      /\ ui' = [ui EXCEPT !.snapshot = [ui.snapshot EXCEPT !.age = age]]
      /\ UNCHANGED <<tray, mailbox, batch, polling, workers, events, entry, running, mode, hasTray>>
  BY <1>0 DEF IInv, TypeOK, Fields, ClockMoves
<1> DEFINE moved == [ui.snapshot EXCEPT !.age = age]
<1>2. moved \in Snapshots /\ moved.pages = ui.snapshot.pages
  BY <1>1 DEF Snapshots
<1>3. ui' = [ui EXCEPT !.snapshot = moved]
  BY <1>1
<1> HIDE DEF moved
<1>4. /\ ui' \in Fields /\ ui'.snapshot = moved /\ ui'.refreshing = ui.refreshing
      /\ ui'.page = ui.page /\ ui'.timeframe = ui.timeframe /\ ui'.window = ui.window
  BY <1>1, <1>2, <1>3 DEF Fields
<1>5. TypeOK' /\ MailboxOk'
  BY <1>1, <1>4 DEF IInv, TypeOK, MailboxOk
<1>6. moved # None /\ ui.snapshot # None
  BY <1>1, <1>2, SnapshotAssumption
<1>7. OneFetch' /\ HistoryPageExists' /\ NeverStranded'
  BY <1>1, <1>2, <1>4, <1>6 DEF IInv, OneFetch, HistoryPageExists, NeverStranded
<1> QED BY <1>4, <1>5, <1>6, <1>7 DEF IInv, Kept

LEMMA NextKeeps == IInv /\ [Next]_vars => IInv' /\ Kept
<1> SUFFICES ASSUME IInv, [Next]_vars PROVE IInv' /\ Kept
  OBVIOUS
<1>1. CASE AutoRefresh \/ PresentationTick
  BY <1>1, TimersKeep
<1>2. CASE Poll
  <2>1. polling' = TRUE
        /\ UNCHANGED <<ui, tray, mailbox, batch, workers, events, entry, running, mode, hasTray>>
    BY <1>2 DEF Poll
  <2>2. TypeOK' /\ MailboxOk'
    BY <2>1 DEF IInv, TypeOK, MailboxOk
  <2>3. OneFetch' /\ HistoryPageExists' /\ NeverStranded'
    BY <2>1 DEF IInv, OneFetch, HistoryPageExists, NeverStranded
  <2> QED BY <2>1, <2>2, <2>3 DEF IInv, Kept
<1>3. CASE ReceiveEvent
  BY <1>3, ReceiveEventKeeps
<1>4. CASE TakePending
  BY <1>4, TakePendingKeeps
<1>5. CASE HandleCommand
  BY <1>5, HandleCommandKeeps
<1>6. CASE Publish
  BY <1>6, PublishKeeps
<1>7. CASE User
  BY <1>7, UserKeeps
<1>8. ASSUME NEW c \in Commands, TraySends(c) PROVE IInv' /\ Kept
  BY <1>8, TraySendsKeeps
<1>9. CASE FetchEnds
  BY <1>9, FetchEndsKeeps
<1>10. CASE ClockMoves
  BY <1>10, ClockMovesKeeps
<1>11. CASE UNCHANGED vars
  <2>1. TypeOK' /\ MailboxOk'
    BY <1>11 DEF vars, IInv, TypeOK, MailboxOk
  <2>2. OneFetch' /\ HistoryPageExists' /\ NeverStranded'
    BY <1>11 DEF vars, IInv, OneFetch, HistoryPageExists, NeverStranded
  <2> QED BY <1>11, <2>1, <2>2 DEF vars, IInv, Kept
<1>12. CASE Ended
  BY <1>11, <1>12 DEF Ended
<1> QED BY <1>1, <1>2, <1>3, <1>4, <1>5, <1>6, <1>7, <1>8, <1>9, <1>10, <1>11, <1>12 DEF Next

-----------------------------------------------------------------------------
(* The start. *)

LEMMA InitIInv == Init => IInv
<1> SUFFICES ASSUME Init PROVE IInv
  OBVIOUS
<1>1. PICK t \in Timeframes :
         LET built == [timeframe |-> t, preference |-> t, page |-> 0, note |-> FALSE,
                       refreshing |-> FALSE, snapshot |-> None, error |-> FALSE,
                       window |-> Hidden, publish |-> <<>>, started |-> 0]
             live == StartRefresh(built)
         IN  /\ ui = [(IF mode = "Background" THEN live ELSE Present(live, Origin))
                        EXCEPT !.started = 0]
             /\ tray = [timeframe |-> t, autostart |-> entry, face |-> "loading"]
  BY DEF Init
<1> DEFINE built == [timeframe |-> t, preference |-> t, page |-> 0, note |-> FALSE,
                     refreshing |-> FALSE, snapshot |-> None, error |-> FALSE,
                     window |-> Hidden, publish |-> <<>>, started |-> 0]
           live == StartRefresh(built)
           begun == IF mode = "Background" THEN live ELSE Present(live, Origin)
<1>2. /\ built \in Working /\ built.snapshot = None /\ built.window = Hidden
      /\ built.refreshing = FALSE /\ built.started = 0
  <2>1. <<>> \in Seq(Updates) /\ Hidden \in Places
    BY DEF Places
  <2> QED BY <2>1 DEF Working
<1>3. /\ ui = [begun EXCEPT !.started = 0]
      /\ tray = [timeframe |-> t, autostart |-> entry, face |-> "loading"]
  BY <1>1
<1> HIDE DEF built
<1>4. PageOk(built)
  BY <1>2 DEF PageOk
<1>5. Method(built, live) /\ live.window = Hidden
  BY <1>2, <1>4, StartRefreshIsMethod
<1>6. Origin \in Anchors
  BY UiAssumption
<1>7. live \in Working /\ PageOk(live)
  BY <1>5 DEF Method
<1>8. live.refreshing /\ live.started = 1
  <2> DEFINE first == [built EXCEPT !.refreshing = TRUE, !.started = @ + 1]
  <2>0. built.started + 1 = 1 /\ built.started + 1 \in Nat
    BY <1>2
  <2>1. first \in Working /\ first.refreshing = TRUE /\ first.started = 1
    BY <1>2, <2>0 DEF Working
  <2>2. live = Rendered(first)
    BY <1>2 DEF StartRefresh
  <2> HIDE DEF first, live
  <2> QED BY <2>1, <2>2, RenderedIsMethod
<1> HIDE DEF live
<1>9. Method(live, Present(live, Origin)) /\ Present(live, Origin).window = Origin
  BY <1>6, <1>7, PresentIsMethod
<1>10. /\ Method(built, begun)
       /\ begun.window = IF mode = "Background" THEN Hidden ELSE Origin
  BY <1>2, <1>5, <1>9, MethodsCompose
<1>11. begun.refreshing /\ begun.started = 1
  <2>1. CASE mode = "Background"
    BY <1>8, <2>1
  <2>2. CASE mode # "Background"
    <3> DEFINE w == Present(live, Origin)
    <3>1. w.refreshing
      BY <1>7, <1>8, PresentRefreshes
    <3> HIDE DEF w
    <3>2. w.started \in Nat /\ w.started - 1 = Owed(w) - Owed(live)
      BY <1>8, <1>9 DEF w, Method, Working
    <3>3. w.refreshing /\ w.started = 1
      BY <1>8, <3>1, <3>2 DEF Owed
    <3> QED BY <2>2, <3>3 DEF w
  <2> QED BY <2>1, <2>2
<1> HIDE DEF begun
<1>12. /\ ui \in Fields /\ ui.window = begun.window /\ ui.refreshing = begun.refreshing
       /\ ui.snapshot = None
  BY <1>2, <1>3, <1>10 DEF Method, Working, Fields
<1>13. MailboxOk
  BY DEF Init, MailboxOk, EmptyMailbox, Mailboxes, Reduced
<1>14. /\ workers = 1 /\ batch = <<>> /\ polling = FALSE /\ events = <<>> /\ running = TRUE
       /\ entry \in BOOLEAN /\ mode \in {"Background", "Show", "NoTray"} /\ hasTray \in BOOLEAN
  BY DEF Init
<1>15. TypeOK
  <2>1. tray \in [timeframe : Timeframes, autostart : BOOLEAN, face : Faces]
    BY <1>3, <1>14 DEF Faces
  <2>2. batch \in Seq(Commands) /\ events \in Seq(Fetched \cup {None}) /\ workers \in Nat
    BY <1>14
  <2>3. {polling, entry, running, hasTray} \subseteq BOOLEAN
    BY <1>14
  <2> QED BY <1>12, <1>13, <1>14, <2>1, <2>2, <2>3 DEF TypeOK, MailboxOk
<1>16. OneFetch /\ HistoryPageExists
  BY <1>11, <1>12, <1>14 DEF OneFetch, HistoryPageExists
<1>17. NeverStranded
  BY <1>6, <1>10, <1>12, CommandsAssumption DEF NeverStranded
<1> QED BY <1>13, <1>15, <1>16, <1>17 DEF IInv

LEMMA SpecIInv == Spec => []IInv
<1>1. Init => IInv
  BY InitIInv
<1>2. IInv /\ [Next]_vars => IInv'
  BY NextKeeps
<1> QED BY <1>1, <1>2, PTL DEF Spec

-----------------------------------------------------------------------------
(* What the tray is told. *)

\* The face the tray shows, or will once all updates have run, is that of u.
FaceSettles(u, face) ==
    IF u.publish = <<>> THEN face = FaceOf(u) ELSE u.publish[Len(u.publish)].face = FaceOf(u)

\* No update on its way carries anything but the controller's timeframe and
\* the state of the autostart entry.
Truthful(u, e) == \A i \in DOMAIN u.publish : /\ u.publish[i].timeframe \in {None, u.timeframe}
                                              /\ u.publish[i].autostart \in {None, e}

TellsTimeframe(u) == \E i \in DOMAIN u.publish : u.publish[i].timeframe # None
TellsAutostart(u) == \E i \in DOMAIN u.publish : u.publish[i].rereads \/ u.publish[i].autostart # None

\* v is what a handler makes of u, while the autostart entry is e: whatever it
\* changes it also tells.
Announces(u, v, e) ==
    /\ Truthful(v, e)
    /\ \A face \in Faces : FaceSettles(u, face) => FaceSettles(v, face)
    /\ TellsTimeframe(u) \/ v.timeframe # u.timeframe => TellsTimeframe(v)
    /\ TellsAutostart(u) => TellsAutostart(v)

LEMMA AnnouncesCompose ==
    ASSUME NEW u, NEW v, NEW w, NEW e, Announces(u, v, e), Announces(v, w, e)
    PROVE  Announces(u, w, e)
BY DEF Announces

\* Fields that the tray does not show may change untold.
LEMMA SilentAnnounces ==
    ASSUME NEW u, NEW v, NEW e, Truthful(u, e),
           v.publish = u.publish, v.timeframe = u.timeframe, v.snapshot = u.snapshot,
           v.error = u.error, v.refreshing = u.refreshing
    PROVE  Announces(u, v, e)
<1>1. FaceOf(v) = FaceOf(u)
  BY DEF FaceOf
<1> QED BY <1>1 DEF Announces, Truthful, FaceSettles, TellsTimeframe, TellsAutostart

\* An update that is appended is the last one, behind all others.
LEMMA PublishingAppends ==
    ASSUME NEW u \in Working, NEW update \in Updates, hasTray
    PROVE  /\ Publishing(u, update) \in Working
           /\ \A v \in {Publishing(u, update)} :
                 /\ v.timeframe = u.timeframe /\ v.snapshot = u.snapshot
                 /\ v.error = u.error /\ v.refreshing = u.refreshing
                 /\ v.publish # <<>> /\ v.publish[Len(v.publish)] = update
                 /\ \A i \in DOMAIN u.publish : i \in DOMAIN v.publish /\ v.publish[i] = u.publish[i]
                 /\ \A i \in DOMAIN v.publish : i \in DOMAIN u.publish \/ v.publish[i] = update
                 /\ Len(v.publish) \in DOMAIN v.publish
<1>1. u.publish \in Seq(Updates)
  BY DEF Working
<1> DEFINE longer == Append(u.publish, update)
<1>2. /\ longer \in Seq(Updates) /\ longer # <<>> /\ longer[Len(longer)] = update
      /\ \A i \in DOMAIN u.publish : i \in DOMAIN longer /\ longer[i] = u.publish[i]
      /\ \A i \in DOMAIN longer : i \in DOMAIN u.publish \/ longer[i] = update
      /\ Len(longer) \in DOMAIN longer
  BY <1>1
<1>3. Publishing(u, update) = [u EXCEPT !.publish = longer]
  BY DEF Publishing
<1> HIDE DEF longer
<1> QED BY <1>2, <1>3 DEF Working

\* Publishing an update that is true of u and says what u's face is.
LEMMA PublishingAnnounces ==
    ASSUME NEW u \in Working, NEW e \in BOOLEAN, Truthful(u, e), hasTray, NEW update \in Updates,
           update.timeframe \in {None, u.timeframe}, update.autostart \in {None, e}
    PROVE  \A v \in {Publishing(u, update)} :
              /\ Truthful(v, e)
              /\ update.face = FaceOf(u) => \A face \in Faces : FaceSettles(v, face)
              /\ TellsTimeframe(u) \/ update.timeframe # None => TellsTimeframe(v)
              /\ TellsAutostart(u) \/ update.rereads \/ update.autostart # None => TellsAutostart(v)
<1> DEFINE v == Publishing(u, update)
<1>1. /\ v.timeframe = u.timeframe /\ v.snapshot = u.snapshot
      /\ v.error = u.error /\ v.refreshing = u.refreshing
      /\ v.publish # <<>> /\ v.publish[Len(v.publish)] = update
      /\ \A i \in DOMAIN u.publish : i \in DOMAIN v.publish /\ v.publish[i] = u.publish[i]
      /\ \A i \in DOMAIN v.publish : i \in DOMAIN u.publish \/ v.publish[i] = update
      /\ Len(v.publish) \in DOMAIN v.publish
  BY PublishingAppends
<1> HIDE DEF v
<1>2. Truthful(v, e)
  BY <1>1, Zenon DEF Truthful
<1>3. FaceOf(v) = FaceOf(u)
  BY <1>1 DEF FaceOf
<1>4. update.face = FaceOf(u) => \A face \in Faces : FaceSettles(v, face)
  BY <1>1, <1>3 DEF FaceSettles
<1>5. TellsTimeframe(u) \/ update.timeframe # None => TellsTimeframe(v)
  BY <1>1, Zenon DEF TellsTimeframe
<1>6. TellsAutostart(u) \/ update.rereads \/ update.autostart # None => TellsAutostart(v)
  BY <1>1, Zenon DEF TellsAutostart
<1> QED BY <1>2, <1>4, <1>5, <1>6 DEF v

\* Every render tells the tray what it shows.
LEMMA FaceUpdateAnnounces ==
    ASSUME NEW u \in Working, NEW x \in Working, NEW e \in BOOLEAN, Truthful(u, e), hasTray,
           x.publish = u.publish, x.timeframe = u.timeframe, x.snapshot = u.snapshot,
           x.error = u.error, x.refreshing = u.refreshing
    PROVE  \A v \in {Publishing(x, FaceUpdate(u))} :
              /\ Truthful(v, e) /\ v.timeframe = u.timeframe
              /\ \A face \in Faces : FaceSettles(v, face)
              /\ TellsTimeframe(u) => TellsTimeframe(v)
              /\ TellsAutostart(u) => TellsAutostart(v)
<1>1. FaceUpdate(u) \in Updates
  BY FaceUpdateType
<1>2. /\ FaceUpdate(u).face = FaceOf(u)
      /\ FaceUpdate(u).timeframe \in {None, u.timeframe} /\ FaceUpdate(u).autostart = None
  BY DEF FaceUpdate, NoUpdate
<1>3. FaceOf(x) = FaceOf(u) /\ Truthful(x, e)
  BY DEF FaceOf, Truthful
<1>4. (TellsTimeframe(u) => TellsTimeframe(x)) /\ (TellsAutostart(u) => TellsAutostart(x))
  BY DEF TellsTimeframe, TellsAutostart
<1> DEFINE update == FaceUpdate(u)
<1>5. /\ update \in Updates /\ update.face = FaceOf(x)
      /\ update.timeframe \in {None, x.timeframe} /\ update.autostart \in {None, e}
  BY <1>1, <1>2, <1>3
<1> HIDE DEF update
<1>6. Publishing(x, update).timeframe = x.timeframe
  BY <1>5, PublishingAppends
<1>7. \A v \in {Publishing(x, update)} :
         /\ Truthful(v, e)
         /\ update.face = FaceOf(x) => \A face \in Faces : FaceSettles(v, face)
         /\ TellsTimeframe(x) \/ update.timeframe # None => TellsTimeframe(v)
         /\ TellsAutostart(x) \/ update.rereads \/ update.autostart # None => TellsAutostart(v)
  BY <1>3, <1>5, PublishingAnnounces
<1> QED BY <1>4, <1>5, <1>6, <1>7 DEF update

LEMMA RenderedAnnounces ==
    ASSUME NEW u \in Working, NEW e \in BOOLEAN, Truthful(u, e), hasTray
    PROVE  /\ Announces(u, Rendered(u), e)
           /\ \A face \in Faces : FaceSettles(Rendered(u), face)
           /\ Rendered(u).timeframe = u.timeframe
<1> DEFINE paged == [u EXCEPT !.page = ClampedPage(u)]
<1>1. /\ paged \in Working /\ paged.publish = u.publish /\ paged.timeframe = u.timeframe
      /\ paged.snapshot = u.snapshot /\ paged.error = u.error /\ paged.refreshing = u.refreshing
  BY ClampedPageExists DEF Working
<1>2. Rendered(u) = Publishing(paged, FaceUpdate(u))
  BY DEF Rendered
<1> HIDE DEF paged
<1>3. \A v \in {Publishing(paged, FaceUpdate(u))} :
         /\ Truthful(v, e) /\ v.timeframe = u.timeframe
         /\ \A face \in Faces : FaceSettles(v, face)
         /\ TellsTimeframe(u) => TellsTimeframe(v)
         /\ TellsAutostart(u) => TellsAutostart(v)
  BY <1>1, FaceUpdateAnnounces
<1> QED BY <1>2, <1>3, Zenon DEF Announces

LEMMA StartRefreshAnnounces ==
    ASSUME NEW u \in Working, NEW e \in BOOLEAN, Truthful(u, e), hasTray
    PROVE  Announces(u, StartRefresh(u), e)
<1>1. CASE u.refreshing
  BY <1>1, SilentAnnounces DEF StartRefresh
<1>2. CASE ~u.refreshing
  <2> DEFINE begun == [u EXCEPT !.refreshing = TRUE, !.started = @ + 1]
  <2>1. u.started + 1 \in Nat
    BY DEF Working
  <2>2. begun \in Working /\ begun.publish = u.publish /\ begun.timeframe = u.timeframe
    BY <2>1 DEF Working
  <2>3. StartRefresh(u) = Rendered(begun)
    BY <1>2 DEF StartRefresh
  <2> HIDE DEF begun
  <2>4. Truthful(begun, e)
    BY <2>2 DEF Truthful
  <2>5. /\ Announces(begun, Rendered(begun), e)
        /\ \A face \in Faces : FaceSettles(Rendered(begun), face)
    BY <2>2, <2>4, RenderedAnnounces
  <2> QED BY <2>2, <2>3, <2>5 DEF Announces, TellsTimeframe, TellsAutostart
<1> QED BY <1>1, <1>2

LEMMA PresentAnnounces ==
    ASSUME NEW u \in Working, PageOk(u), NEW e \in BOOLEAN, Truthful(u, e), hasTray,
           NEW anchor \in Anchors
    PROVE  Announces(u, Present(u, anchor), e)
<1> DEFINE first == [u EXCEPT !.page = 0]
           top == IF u.page # 0 THEN Rendered(first) ELSE u
           shown == [top EXCEPT !.window = anchor]
<1>1. top \in Working /\ Announces(u, top, e)
  <2>1. /\ first \in Working /\ first.publish = u.publish /\ first.timeframe = u.timeframe
        /\ first.snapshot = u.snapshot /\ first.error = u.error /\ first.refreshing = u.refreshing
    BY DEF Working
  <2> HIDE DEF first
  <2>2. Announces(u, first, e) /\ Announces(u, u, e)
    BY <2>1, SilentAnnounces
  <2>3. Truthful(first, e)
    BY <2>2 DEF Announces
  <2>4. Announces(first, Rendered(first), e)
    BY <2>1, <2>3, RenderedAnnounces
  <2>5. Announces(u, Rendered(first), e)
    BY <2>2, <2>4, AnnouncesCompose
  <2>6. Rendered(first) \in Working
    BY <2>1, RenderedIsMethod DEF Method
  <2> QED BY <2>2, <2>5, <2>6
<1>2. Truthful(top, e)
  BY <1>1 DEF Announces
<1>3. /\ shown \in Working /\ shown.publish = top.publish /\ shown.timeframe = top.timeframe
      /\ shown.snapshot = top.snapshot /\ shown.error = top.error /\ shown.refreshing = top.refreshing
  <2>1. anchor \in Places
    BY DEF Places
  <2> HIDE DEF top
  <2> QED BY <1>1, <2>1 DEF Working
<1>4. Present(u, anchor) = IF NeedsRefresh(shown) THEN StartRefresh(shown) ELSE shown
  BY DEF Present
<1> HIDE DEF top, shown
<1>5. Announces(top, shown, e)
  BY <1>2, <1>3, SilentAnnounces
<1>6. Announces(u, shown, e)
  BY <1>1, <1>5, AnnouncesCompose
<1>7. Truthful(shown, e)
  BY <1>5 DEF Announces
<1>8. Announces(shown, StartRefresh(shown), e)
  BY <1>3, <1>7, StartRefreshAnnounces
<1>9. Announces(u, StartRefresh(shown), e)
  BY <1>6, <1>8, AnnouncesCompose
<1> QED BY <1>4, <1>6, <1>9

\* A new timeframe is told before the rest.
LEMMA SetTimeframeAnnounces ==
    ASSUME NEW u \in Working, u.publish = <<>>, NEW e \in BOOLEAN, hasTray,
           NEW t \in Timeframes, NEW saved \in BOOLEAN
    PROVE  Announces(u, SetTimeframe(u, t, saved), e) /\ SetTimeframe(u, t, saved).timeframe = t
<1> DEFINE chosen == [u EXCEPT !.timeframe = t, !.page = 0, !.note = ~saved,
                               !.preference = IF saved THEN t ELSE @]
           update == [NoUpdate EXCEPT !.timeframe = t]
           told == Publishing(chosen, update)
<1>0. Truthful(u, e) /\ ~TellsTimeframe(u) /\ ~TellsAutostart(u)
  BY DEF Truthful, TellsTimeframe, TellsAutostart
<1>1. CASE u.timeframe = t
  BY <1>0, <1>1, SilentAnnounces DEF SetTimeframe
<1>2. CASE u.timeframe # t
  <2>1. chosen \in Working /\ chosen.publish = <<>> /\ chosen.timeframe = t
    BY DEF Working
  <2>2. /\ update \in Updates /\ update.timeframe = t /\ update.autostart = None
    BY DEF Updates, NoUpdate
  <2>3. SetTimeframe(u, t, saved) = Rendered(told)
    BY <1>2 DEF SetTimeframe
  <2>4. t # None
    BY CommandsAssumption
  <2> HIDE DEF chosen, update
  <2>5. Truthful(chosen, e)
    BY <2>1 DEF Truthful
  <2>6. told \in Working /\ told.timeframe = t
    BY <2>1, <2>2, PublishingAppends
  <2>7. update.timeframe \in {None, chosen.timeframe} /\ update.autostart \in {None, e}
    BY <2>1, <2>2
  <2>8. Truthful(told, e) /\ TellsTimeframe(told)
    BY <2>1, <2>2, <2>4, <2>5, <2>7, PublishingAnnounces
  <2> HIDE DEF told
  <2>9. /\ Announces(told, Rendered(told), e) /\ Rendered(told).timeframe = t
        /\ \A face \in Faces : FaceSettles(Rendered(told), face)
    BY <2>6, <2>8, RenderedAnnounces
  <2> QED BY <1>0, <2>3, <2>8, <2>9 DEF Announces
<1> QED BY <1>1, <1>2

LEMMA ReceivedAnnounces ==
    ASSUME NEW u \in Working, NEW e \in BOOLEAN, Truthful(u, e), hasTray,
           NEW result \in Fetched \cup {None}
    PROVE  Announces(u, Received(u, result), e)
<1> DEFINE failed == [u EXCEPT !.refreshing = FALSE, !.error = TRUE]
           answered == [u EXCEPT !.refreshing = FALSE, !.error = FALSE, !.snapshot = result]
           heard == IF result = None THEN failed ELSE answered
<1>1. heard \in Working /\ heard.publish = u.publish /\ heard.timeframe = u.timeframe
  BY DEF Working, Fetched
<1>2. Received(u, result) = Rendered(heard)
  BY DEF Received
<1> HIDE DEF heard
<1>3. Truthful(heard, e)
  BY <1>1 DEF Truthful
<1>4. /\ Announces(heard, Rendered(heard), e)
      /\ \A face \in Faces : FaceSettles(Rendered(heard), face)
  BY <1>1, <1>3, RenderedAnnounces
<1> QED BY <1>1, <1>2, <1>4 DEF Announces, TellsTimeframe, TellsAutostart

-----------------------------------------------------------------------------
(* The tray and the controller agree, or something is under way that makes them. *)

\* The menu's timeframe is the controller's, or a choice on its way to the
\* controller, or about to be overwritten.
TimeframeFollows ==
    \/ tray.timeframe = ui.timeframe \/ tray.timeframe = mailbox.timeframe
    \/ TellsTimeframe(ui) \/ HasOp(batch, "Quit")
    \/ \E i \in DOMAIN batch : batch[i].op = "SetTimeframe" /\ batch[i].timeframe = tray.timeframe

\* Likewise the menu's check mark and the autostart entry.
AutostartFollows ==
    \/ tray.autostart = entry \/ tray.autostart = mailbox.autostart
    \/ TellsAutostart(ui) \/ HasOp(batch, "Quit")
    \/ \E i \in DOMAIN batch : batch[i].op = "SetAutostart" /\ batch[i].enabled = tray.autostart

Agreement == /\ polling => batch = <<>>
             /\ hasTray => /\ FaceSettles(ui, tray.face) /\ Truthful(ui, entry)
                           /\ running => TimeframeFollows /\ AutostartFollows

AInv == IInv /\ Agreement

\* What a step does with a command that it takes from the batch.
Obeyed(c) == /\ c.op = "SetTimeframe" => ui'.timeframe = c.timeframe \/ TellsTimeframe(ui')
             /\ c.op = "SetAutostart" => TellsAutostart(ui')
             /\ c.op = "Quit" => running' = FALSE

\* A step of the main loop that announces what it changes and obeys what it
\* takes keeps the two sides in agreement.
LEMMA AnnouncedAgrees ==
    ASSUME AInv, UNCHANGED <<tray, mailbox, polling, hasTray>>,
           running' => running, polling => batch' = <<>>,
           hasTray => Announces(ui, ui', entry') /\ (entry' = entry \/ TellsAutostart(ui')),
           hasTray => \A i \in DOMAIN batch :
                         Obeyed(batch[i]) \/ \E j \in DOMAIN batch' : batch'[j] = batch[i]
    PROVE  Agreement'
<1>1. SUFFICES ASSUME hasTray
               PROVE  /\ FaceSettles(ui', tray.face) /\ Truthful(ui', entry')
                      /\ running' => TimeframeFollows' /\ AutostartFollows'
  BY DEF AInv, Agreement
<1>2. tray.face \in Faces
  BY DEF AInv, IInv, TypeOK
<1>3. FaceSettles(ui', tray.face) /\ Truthful(ui', entry')
  BY <1>1, <1>2 DEF AInv, Agreement, Announces
<1>4. ASSUME running' PROVE TimeframeFollows'
  <2>1. TimeframeFollows
    BY <1>1, <1>4 DEF AInv, Agreement
  <2>2. HasOp(batch, "Quit") => HasOp(batch', "Quit")
    BY <1>1, <1>4 DEF HasOp, Obeyed
  <2>3. CASE tray.timeframe = ui.timeframe \/ TellsTimeframe(ui)
    BY <1>1, <2>3 DEF TimeframeFollows, Announces
  <2>4. CASE tray.timeframe = mailbox.timeframe \/ HasOp(batch, "Quit")
    BY <2>2, <2>4 DEF TimeframeFollows
  <2>5. ASSUME NEW i \in DOMAIN batch, batch[i].op = "SetTimeframe", batch[i].timeframe = tray.timeframe
        PROVE  TimeframeFollows'
    <3>1. CASE Obeyed(batch[i])
      BY <2>5, <3>1 DEF Obeyed, TimeframeFollows
    <3>2. CASE \E j \in DOMAIN batch' : batch'[j] = batch[i]
      BY <2>5, <3>2 DEF TimeframeFollows
    <3> QED BY <1>1, <3>1, <3>2
  <2> QED BY <2>1, <2>3, <2>4, <2>5 DEF TimeframeFollows
<1>5. ASSUME running' PROVE AutostartFollows'
  <2>1. AutostartFollows
    BY <1>1, <1>5 DEF AInv, Agreement
  <2>2. HasOp(batch, "Quit") => HasOp(batch', "Quit")
    BY <1>1, <1>5 DEF HasOp, Obeyed
  <2>3. CASE tray.autostart = entry \/ TellsAutostart(ui)
    BY <1>1, <2>3 DEF AutostartFollows, Announces
  <2>4. CASE tray.autostart = mailbox.autostart \/ HasOp(batch, "Quit")
    BY <2>2, <2>4 DEF AutostartFollows
  <2>5. ASSUME NEW i \in DOMAIN batch, batch[i].op = "SetAutostart", batch[i].enabled = tray.autostart
        PROVE  AutostartFollows'
    <3>1. CASE Obeyed(batch[i])
      BY <2>5, <3>1 DEF Obeyed, AutostartFollows
    <3>2. CASE \E j \in DOMAIN batch' : batch'[j] = batch[i]
      BY <2>5, <3>2 DEF AutostartFollows
    <3> QED BY <1>1, <3>1, <3>2
  <2> QED BY <2>1, <2>3, <2>4, <2>5 DEF AutostartFollows
<1> QED BY <1>3, <1>4, <1>5

\* The batch does not change, or loses its head to a step that obeys it.
Consumed == \/ UNCHANGED batch
            \/ /\ batch # <<>> /\ batch' = Tail(batch) /\ (hasTray => Obeyed(Head(batch)))

LEMMA ConsumedIsObeyed ==
    ASSUME AInv, Consumed
    PROVE  /\ polling => batch' = <<>>
           /\ hasTray => \A i \in DOMAIN batch :
                            Obeyed(batch[i]) \/ \E j \in DOMAIN batch' : batch'[j] = batch[i]
<1>1. CASE UNCHANGED batch
  BY <1>1 DEF AInv, Agreement
<1>2. CASE batch # <<>> /\ batch' = Tail(batch) /\ (hasTray => Obeyed(Head(batch)))
  <2>1. batch \in Seq(Commands)
    BY DEF AInv, IInv, TypeOK
  <2>2. /\ DOMAIN batch = 1..Len(batch) /\ Len(batch) \in Nat /\ batch[1] = Head(batch)
        /\ \A i \in 1..Len(batch) : i # 1 => i - 1 \in DOMAIN Tail(batch) /\ Tail(batch)[i - 1] = batch[i]
    BY <1>2, <2>1
  <2>3. ASSUME hasTray, NEW i \in DOMAIN batch
        PROVE  Obeyed(batch[i]) \/ \E j \in DOMAIN batch' : batch'[j] = batch[i]
    <3>1. CASE i = 1
      BY <1>2, <2>2, <2>3, <3>1
    <3>2. CASE i # 1
      <4>1. i - 1 \in DOMAIN batch' /\ batch'[i - 1] = batch[i]
        BY <1>2, <2>2, <3>2
      <4> QED BY <4>1
    <3> QED BY <3>1, <3>2
  <2>4. ~polling
    BY <1>2 DEF AInv, Agreement
  <2> QED BY <2>3, <2>4
<1> QED BY <1>1, <1>2 DEF Consumed

\* A handler runs: nothing else of the loop is in progress.
Loop == /\ UNCHANGED <<tray, mailbox, polling, hasTray>>
        /\ running /\ ui.publish = <<>> /\ Consumed

LEMMA LoopAgrees ==
    ASSUME AInv, Loop,
           hasTray => Announces(ui, ui', entry') /\ (entry' = entry \/ TellsAutostart(ui'))
    PROVE  Agreement'
BY ConsumedIsObeyed, AnnouncedAgrees DEF Loop

LEMMA BecomesAgrees ==
    ASSUME AInv, Loop, UNCHANGED entry, NEW v \in Working, Becomes(v),
           hasTray => Announces(ui, v, entry)
    PROVE  Agreement'
<1>1. /\ ui'.publish = v.publish /\ ui'.timeframe = v.timeframe /\ ui'.snapshot = v.snapshot
      /\ ui'.error = v.error /\ ui'.refreshing = v.refreshing
  BY DEF Becomes, Working
<1>2. ASSUME hasTray PROVE Announces(ui, ui', entry)
  <2>1. Announces(v, ui', entry)
    BY <1>1, <1>2, SilentAnnounces DEF Announces
  <2> QED BY <1>2, <2>1, AnnouncesCompose
<1> QED BY <1>2, LoopAgrees

\* The fields before a handler, as the methods need them.
LEMMA FieldsAreTruthful ==
    ASSUME AInv
    PROVE  /\ ui \in Working /\ PageOk(ui) /\ ui.started = 0 /\ entry \in BOOLEAN
           /\ hasTray => Truthful(ui, entry)
BY FieldsAreWorking DEF AInv, Agreement, IInv, TypeOK

LEMMA StartRefreshAgrees ==
    ASSUME AInv, Loop, UNCHANGED entry, Becomes(StartRefresh(ui))
    PROVE  Agreement'
<1>1. StartRefresh(ui) \in Working
  BY FieldsAreTruthful, StartRefreshIsMethod DEF Method
<1>2. hasTray => Announces(ui, StartRefresh(ui), entry)
  BY FieldsAreTruthful, StartRefreshAnnounces
<1> QED BY <1>1, <1>2, BecomesAgrees

LEMMA PresentAgrees ==
    ASSUME AInv, Loop, UNCHANGED entry, NEW anchor \in Anchors, Becomes(Present(ui, anchor))
    PROVE  Agreement'
<1>1. Present(ui, anchor) \in Working
  BY FieldsAreTruthful, PresentIsMethod DEF Method
<1>2. hasTray => Announces(ui, Present(ui, anchor), entry)
  BY FieldsAreTruthful, PresentAnnounces
<1> QED BY <1>1, <1>2, BecomesAgrees

LEMMA DismissAgrees ==
    ASSUME AInv, Loop, DoDismiss
    PROVE  Agreement'
<1>1. hasTray => Truthful(ui, entry)
  BY FieldsAreTruthful
<1>2. /\ UNCHANGED entry
      /\ ui'.publish = ui.publish /\ ui'.timeframe = ui.timeframe /\ ui'.snapshot = ui.snapshot
      /\ ui'.error = ui.error /\ ui'.refreshing = ui.refreshing
  BY FieldsAreTruthful DEF DoDismiss, Working
<1>3. hasTray => Announces(ui, ui', entry)
  BY <1>1, <1>2, SilentAnnounces
<1> QED BY <1>2, <1>3, LoopAgrees

LEMMA QuitAgrees ==
    ASSUME AInv, Loop, UNCHANGED <<ui, entry>>
    PROVE  Agreement'
<1>1. hasTray => Announces(ui, ui', entry)
  BY FieldsAreTruthful, SilentAnnounces
<1> QED BY <1>1, LoopAgrees

\* A change of the timeframe is told, and a command for it is obeyed.
LEMMA TimeframeChanges ==
    ASSUME AInv, ui.publish = <<>>, NEW t \in Timeframes, DoSetTimeframe(t)
    PROVE  /\ hasTray => Announces(ui, ui', entry') /\ ui'.timeframe = t
           /\ UNCHANGED <<running, entry>>
<1>1. PICK saved \in BOOLEAN : Becomes(SetTimeframe(ui, t, saved))
  BY DEF DoSetTimeframe
<1>2. UNCHANGED <<running, entry>>
  BY DEF DoSetTimeframe
<1> DEFINE v == SetTimeframe(ui, t, saved)
<1>3. v \in Working
  BY FieldsAreTruthful, SetTimeframeIsMethod DEF Method
<1>4. hasTray => Announces(ui, v, entry) /\ v.timeframe = t
  BY FieldsAreTruthful, SetTimeframeAnnounces
<1>5. Becomes(v)
  BY <1>1
<1> HIDE DEF v
<1>6. /\ ui'.publish = v.publish /\ ui'.timeframe = v.timeframe /\ ui'.snapshot = v.snapshot
      /\ ui'.error = v.error /\ ui'.refreshing = v.refreshing
  BY <1>3, <1>5 DEF Becomes, Working
<1>7. ASSUME hasTray PROVE Announces(ui, ui', entry)
  <2>1. Announces(v, ui', entry)
    BY <1>4, <1>6, <1>7, SilentAnnounces DEF Announces
  <2> QED BY <1>4, <1>7, <2>1, AnnouncesCompose
<1> QED BY <1>2, <1>4, <1>6, <1>7

\* The check mark is told of the entry that is there after the change.
LEMMA AutostartChanges ==
    ASSUME AInv, ui.publish = <<>>, NEW enabled \in BOOLEAN, DoSetAutostart(enabled)
    PROVE  hasTray => Announces(ui, ui', entry') /\ TellsAutostart(ui')
<1>1. PICK changed \in BOOLEAN, actual \in BOOLEAN :
         /\ entry' = actual
         /\ ui' = Rendered(Publishing([ui EXCEPT !.note = ~changed],
                                      [NoUpdate EXCEPT !.autostart = actual]))
  BY DEF DoSetAutostart
<1> DEFINE noted == [ui EXCEPT !.note = ~changed]
           update == [NoUpdate EXCEPT !.autostart = actual]
           told == Publishing(noted, update)
<1>2. SUFFICES ASSUME hasTray PROVE Announces(ui, ui', actual) /\ TellsAutostart(ui')
  BY <1>1
<1>3. noted \in Working /\ noted.publish = <<>> /\ noted.timeframe = ui.timeframe
  BY FieldsAreTruthful DEF Working
<1>4. update \in Updates /\ update.timeframe = None /\ update.autostart = actual
  BY DEF Updates, NoUpdate
<1>5. actual # None
  BY CommandsAssumption
<1>6. ui' = Rendered(told)
  BY <1>1
<1> HIDE DEF noted, update
<1>7. Truthful(noted, actual)
  BY <1>3 DEF Truthful
<1>8. update.timeframe \in {None, noted.timeframe} /\ update.autostart \in {None, actual}
  BY <1>4
<1>9. told \in Working /\ told.timeframe = ui.timeframe
  BY <1>2, <1>3, <1>4, PublishingAppends
<1>10. Truthful(told, actual) /\ TellsAutostart(told)
  BY <1>2, <1>3, <1>4, <1>5, <1>7, <1>8, PublishingAnnounces
<1> HIDE DEF told
<1>11. /\ Announces(told, Rendered(told), actual) /\ Rendered(told).timeframe = ui.timeframe
       /\ \A face \in Faces : FaceSettles(Rendered(told), face)
  BY <1>2, <1>9, <1>10, RenderedAnnounces
<1>12. ~TellsTimeframe(ui) /\ ~TellsAutostart(ui)
  BY DEF TellsTimeframe, TellsAutostart
<1> QED BY <1>6, <1>10, <1>11, <1>12 DEF Announces

-----------------------------------------------------------------------------
(* One step, again. *)

LEMMA HandlerIsLoop ==
    ASSUME Handler
    PROVE  Loop
BY DEF Handler, Idle, Loop, Consumed

LEMMA TimersAgree == AInv /\ (AutoRefresh \/ PresentationTick) => Agreement'
<1> SUFFICES ASSUME AInv, AutoRefresh \/ PresentationTick PROVE Agreement'
  OBVIOUS
<1>1. Loop /\ UNCHANGED entry
  BY HandlerIsLoop DEF AutoRefresh, PresentationTick
<1>2. CASE Becomes(StartRefresh(ui))
  BY <1>1, <1>2, StartRefreshAgrees
<1>3. CASE Becomes(Publishing(ui, FaceUpdate(ui)))
  <2> DEFINE told == Publishing(ui, FaceUpdate(ui))
  <2>1. told \in Working
    BY FieldsAreTruthful, FaceUpdateType, PublishingKeeps
  <2>2. hasTray => Announces(ui, told, entry)
    BY FieldsAreTruthful, FaceUpdateAnnounces DEF Announces
  <2>3. Becomes(told)
    BY <1>3
  <2> HIDE DEF told
  <2> QED BY <1>1, <2>1, <2>2, <2>3, BecomesAgrees
<1> QED BY <1>2, <1>3 DEF AutoRefresh, PresentationTick, UpdateRelativeLabels

LEMMA UserAgrees == AInv /\ User => Agreement'
<1> SUFFICES ASSUME AInv, User PROVE Agreement'
  OBVIOUS
<1>1. CASE UserDismisses
  BY <1>1, HandlerIsLoop, DismissAgrees DEF UserDismisses
<1>2. CASE UserRefreshes
  BY <1>2, HandlerIsLoop, StartRefreshAgrees DEF UserRefreshes
<1>3. CASE UserSetsAutostart
  <2>1. Loop /\ DoSetAutostart(~entry)
    BY <1>3, HandlerIsLoop DEF UserSetsAutostart
  <2>2. hasTray => Announces(ui, ui', entry') /\ TellsAutostart(ui')
    BY <2>1, FieldsAreTruthful, AutostartChanges DEF Loop
  <2> QED BY <2>1, <2>2, LoopAgrees
<1>4. CASE UserQuits
  BY <1>4, HandlerIsLoop, QuitAgrees DEF UserQuits
<1>5. CASE UserPages
  <2>1. PICK page \in 0..(ui.snapshot.pages[ui.timeframe] - 1) :
           Becomes(Rendered([ui EXCEPT !.page = page]))
    BY <1>5 DEF UserPages
  <2>2. Loop /\ UNCHANGED entry
    BY <1>5, HandlerIsLoop DEF UserPages
  <2> DEFINE turned == [ui EXCEPT !.page = page]
  <2>3. page \in Nat
    BY <2>1
  <2>4. /\ turned \in Working /\ turned.publish = ui.publish /\ turned.timeframe = ui.timeframe
        /\ turned.snapshot = ui.snapshot /\ turned.error = ui.error
        /\ turned.refreshing = ui.refreshing
    BY <2>3, FieldsAreTruthful DEF Working
  <2>5. Becomes(Rendered(turned))
    BY <2>1
  <2> HIDE DEF turned
  <2>6. Rendered(turned) \in Working
    BY <2>4, RenderedIsMethod DEF Method
  <2>7. ASSUME hasTray PROVE Announces(ui, Rendered(turned), entry)
    <3>1. Announces(ui, turned, entry)
      BY <2>4, <2>7, FieldsAreTruthful, SilentAnnounces
    <3>2. Announces(turned, Rendered(turned), entry)
      BY <2>4, <2>7, <3>1, FieldsAreTruthful, RenderedAnnounces DEF Announces
    <3> QED BY <3>1, <3>2, AnnouncesCompose
  <2> QED BY <2>2, <2>5, <2>6, <2>7, BecomesAgrees
<1>6. CASE Relaunch
  <2>1. Origin \in Anchors
    BY UiAssumption
  <2> QED BY <1>6, <2>1, HandlerIsLoop, PresentAgrees DEF Relaunch
<1>7. ASSUME NEW t \in Timeframes, UserSetsTimeframe(t) PROVE Agreement'
  <2>1. Loop /\ DoSetTimeframe(t)
    BY <1>7, HandlerIsLoop DEF UserSetsTimeframe
  <2>2. (hasTray => Announces(ui, ui', entry')) /\ UNCHANGED entry
    BY <2>1, TimeframeChanges DEF Loop
  <2> QED BY <2>1, <2>2, LoopAgrees
<1> QED BY <1>1, <1>2, <1>3, <1>4, <1>5, <1>6, <1>7 DEF User

LEMMA HandleCommandAgrees == AInv /\ HandleCommand => Agreement'
<1> SUFFICES ASSUME AInv, HandleCommand PROVE Agreement'
  OBVIOUS
<1> DEFINE c == Head(batch)
<1>1. c \in Commands
  BY DEF AInv, IInv, TypeOK, HandleCommand
<1>2. /\ Handle(c) /\ batch # <<>> /\ batch' = Tail(batch) /\ running /\ ui.publish = <<>>
      /\ UNCHANGED <<tray, mailbox, polling, hasTray>>
  BY DEF HandleCommand
<1>3. ASSUME hasTray => Obeyed(c) PROVE Loop
  BY <1>2, <1>3 DEF Loop, Consumed
<1> HIDE DEF c
<1>4. CASE c \in WindowCommands
  <2>1. c.at \in Anchors /\ c.op \in {"Toggle", "Show"}
    BY <1>4 DEF WindowCommands
  <2>2. Loop
    BY <1>3, <2>1 DEF Obeyed
  <2>3. CASE c.op = "Toggle" /\ ui.window # Hidden
    <3>1. DoDismiss
      BY <1>2, <2>3 DEF Handle
    <3> QED BY <2>2, <3>1, DismissAgrees
  <2>4. CASE ~(c.op = "Toggle" /\ ui.window # Hidden)
    <3>1. Becomes(Present(ui, c.at)) /\ UNCHANGED entry
      BY <1>2, <2>1, <2>4 DEF Handle
    <3> QED BY <2>1, <2>2, <3>1, PresentAgrees
  <2> QED BY <2>3, <2>4
<1>5. CASE c \in TimeframeCommands
  <2>1. c.op = "SetTimeframe" /\ c.timeframe \in Timeframes
    BY <1>5 DEF TimeframeCommands
  <2>2. DoSetTimeframe(c.timeframe)
    BY <1>2, <2>1 DEF Handle
  <2>3. /\ hasTray => Announces(ui, ui', entry') /\ ui'.timeframe = c.timeframe
        /\ UNCHANGED entry
    BY <1>2, <2>1, <2>2, TimeframeChanges
  <2>4. Loop
    BY <1>3, <2>1, <2>3 DEF Obeyed
  <2> QED BY <2>3, <2>4, LoopAgrees
<1>6. CASE c \in AutostartCommands
  <2>1. c.op = "SetAutostart" /\ c.enabled \in BOOLEAN
    BY <1>6 DEF AutostartCommands
  <2>2. DoSetAutostart(c.enabled)
    BY <1>2, <2>1 DEF Handle
  <2>3. hasTray => Announces(ui, ui', entry') /\ TellsAutostart(ui')
    BY <1>2, <2>1, <2>2, AutostartChanges
  <2>4. Loop
    BY <1>3, <2>1, <2>3 DEF Obeyed
  <2> QED BY <2>3, <2>4, LoopAgrees
<1>7. CASE c = Refresh
  <2>1. Becomes(StartRefresh(ui)) /\ UNCHANGED entry
    BY <1>2, <1>7 DEF Handle, Refresh
  <2>2. Loop
    BY <1>3, <1>7 DEF Obeyed, Refresh
  <2> QED BY <2>1, <2>2, StartRefreshAgrees
<1>8. CASE c = Quit
  <2>1. running' = FALSE /\ UNCHANGED <<ui, entry>>
    BY <1>2, <1>8 DEF Handle, Quit
  <2>2. Loop
    BY <1>3, <1>8, <2>1 DEF Obeyed, Quit
  <2> QED BY <2>1, <2>2, QuitAgrees
<1> QED BY <1>1, <1>4, <1>5, <1>6, <1>7, <1>8 DEF Commands

LEMMA ReceiveEventAgrees == AInv /\ ReceiveEvent => Agreement'
<1> SUFFICES ASSUME AInv, ReceiveEvent PROVE Agreement'
  OBVIOUS
<1>1. Loop /\ UNCHANGED entry /\ ui' = Received(ui, Head(events))
  BY DEF ReceiveEvent, Loop, Consumed
<1>2. Head(events) \in Fetched \cup {None}
  BY DEF AInv, IInv, TypeOK, ReceiveEvent
<1>3. hasTray => Announces(ui, ui', entry)
  BY <1>1, <1>2, FieldsAreTruthful, ReceivedAnnounces
<1> QED BY <1>1, <1>3, LoopAgrees

\* Time alone changes nothing that the tray shows.
LEMMA ClockMovesAgrees == AInv /\ ClockMoves => Agreement'
<1> SUFFICES ASSUME AInv, ClockMoves PROVE Agreement'
  OBVIOUS
<1>0. PICK age \in Ages : ui' = [ui EXCEPT !.snapshot = [ui.snapshot EXCEPT !.age = age]]
  BY DEF ClockMoves
<1>1. /\ ui \in Fields /\ ui.snapshot \in Snapshots
      /\ ui' = [ui EXCEPT !.snapshot = [ui.snapshot EXCEPT !.age = age]]
      /\ UNCHANGED <<tray, mailbox, batch, polling, entry, running, hasTray>>
  BY <1>0 DEF AInv, IInv, TypeOK, Fields, ClockMoves
<1> DEFINE moved == [ui.snapshot EXCEPT !.age = age]
<1>2. moved \in Snapshots
  BY <1>1 DEF Snapshots
<1>3. ui' = [ui EXCEPT !.snapshot = moved]
  BY <1>1
<1> HIDE DEF moved
<1>4. moved # None /\ ui.snapshot # None
  BY <1>1, <1>2, SnapshotAssumption
<1>5. /\ ui'.publish = ui.publish /\ ui'.timeframe = ui.timeframe /\ ui'.snapshot = moved
      /\ ui'.error = ui.error /\ ui'.refreshing = ui.refreshing
  BY <1>1, <1>3 DEF Fields
<1>6. FaceOf(ui') = FaceOf(ui)
  BY <1>4, <1>5 DEF FaceOf
<1>7. /\ TellsTimeframe(ui) => TellsTimeframe(ui')
      /\ TellsAutostart(ui) => TellsAutostart(ui')
  BY <1>5 DEF TellsTimeframe, TellsAutostart
<1>8. hasTray => FaceSettles(ui', tray'.face) /\ Truthful(ui', entry')
  BY <1>1, <1>5, <1>6 DEF AInv, Agreement, FaceSettles, Truthful
<1>9. TimeframeFollows => TimeframeFollows'
  BY <1>1, <1>5, <1>7 DEF TimeframeFollows, HasOp
<1>10. AutostartFollows => AutostartFollows'
  BY <1>1, <1>7 DEF AutostartFollows, HasOp
<1> QED BY <1>1, <1>8, <1>9, <1>10 DEF AInv, Agreement

\* Steps that touch neither the controller's fields nor the tray nor what is
\* between them.
LEMMA ElsewhereAgrees ==
    ASSUME AInv, UNCHANGED <<ui, tray, mailbox, batch, entry, running, hasTray>>,
           polling' => batch' = <<>>
    PROVE  Agreement'
<1>1. hasTray => FaceSettles(ui', tray'.face) /\ Truthful(ui', entry')
  BY DEF AInv, Agreement
<1>2. (TimeframeFollows => TimeframeFollows') /\ (AutostartFollows => AutostartFollows')
  BY DEF TimeframeFollows, AutostartFollows
<1> QED BY <1>1, <1>2 DEF AInv, Agreement

\* A choice in the menu changes the tray's field and the slot of the mailbox alike.
LEMMA TraySendsAgrees ==
    ASSUME AInv, NEW c \in Commands, TraySends(c)
    PROVE  Agreement'
<1>1. /\ hasTray /\ mailbox' = Sent(mailbox, c) /\ mailbox \in Mailboxes
      /\ tray \in [timeframe : Timeframes, autostart : BOOLEAN, face : Faces]
      /\ UNCHANGED <<ui, batch, polling, entry, running, hasTray>>
  BY DEF AInv, IInv, TypeOK, TraySends
<1>2. tray' = IF c.op = "SetTimeframe" THEN [tray EXCEPT !.timeframe = c.timeframe]
              ELSE IF c.op = "SetAutostart" THEN [tray EXCEPT !.autostart = c.enabled]
              ELSE tray
  BY DEF TraySends
<1>3. tray'.face = tray.face
  BY <1>1, <1>2
<1>4. \/ tray'.timeframe = mailbox'.timeframe
      \/ tray'.timeframe = tray.timeframe /\ mailbox'.timeframe = mailbox.timeframe
  BY <1>1, <1>2 DEF Sent, Mailboxes
<1>5. \/ tray'.autostart = mailbox'.autostart
      \/ tray'.autostart = tray.autostart /\ mailbox'.autostart = mailbox.autostart
  BY <1>1, <1>2 DEF Sent, Mailboxes
<1>6. TimeframeFollows => TimeframeFollows'
  BY <1>1, <1>4 DEF TimeframeFollows
<1>7. AutostartFollows => AutostartFollows'
  BY <1>1, <1>5 DEF AutostartFollows
<1>8. FaceSettles(ui', tray'.face) /\ Truthful(ui', entry')
  BY <1>1, <1>3 DEF AInv, Agreement
<1> QED BY <1>1, <1>6, <1>7, <1>8 DEF AInv, Agreement

\* A poll takes a choice on its way to the controller from the slot to the
\* batch, with its value.
LEMMA TakePendingAgrees == AInv /\ TakePending => Agreement'
<1> SUFFICES ASSUME AInv, TakePending PROVE Agreement'
  OBVIOUS
<1>1. /\ mailbox \in Mailboxes /\ batch = <<>>
      /\ batch' = Taken(mailbox, MaxTrayCommandsPerPoll) /\ polling' = FALSE
      /\ UNCHANGED <<ui, tray, entry, running, hasTray>>
      /\ tray \in [timeframe : Timeframes, autostart : BOOLEAN, face : Faces]
  BY DEF AInv, IInv, TypeOK, Agreement, TakePending
<1>2. MaxTrayCommandsPerPoll \in Nat /\ MaxTrayCommandsPerPoll >= 3
  BY DEF MaxTrayCommandsPerPoll
<1>3. tray.timeframe # None /\ tray.autostart # None
  BY <1>1, CommandsAssumption
<1>4. \/ HasOp(batch', "Quit")
      \/ /\ mailbox.timeframe # None => \E i \in DOMAIN batch' :
               batch'[i].op = "SetTimeframe" /\ batch'[i].timeframe = mailbox.timeframe
         /\ mailbox.autostart # None => \E i \in DOMAIN batch' :
               batch'[i].op = "SetAutostart" /\ batch'[i].enabled = mailbox.autostart
  BY <1>1, <1>2, SettingsTaken
<1>5. TimeframeFollows => TimeframeFollows'
  BY <1>1, <1>3, <1>4 DEF TimeframeFollows, HasOp
<1>6. AutostartFollows => AutostartFollows'
  BY <1>1, <1>3, <1>4 DEF AutostartFollows, HasOp
<1>7. hasTray => FaceSettles(ui', tray'.face) /\ Truthful(ui', entry')
  BY <1>1 DEF AInv, Agreement
<1> QED BY <1>1, <1>5, <1>6, <1>7 DEF AInv, Agreement

\* An update that runs makes the tray say what the controller says; the ones
\* behind it are as they were.
LEMMA PublishAgrees == AInv /\ Publish => Agreement'
<1> SUFFICES ASSUME AInv, Publish PROVE Agreement'
  OBVIOUS
<1> DEFINE first == ui.publish[1]
<1>1. /\ ui \in Fields /\ ui.publish \in Seq(Updates) /\ ui.publish # <<>>
      /\ tray \in [timeframe : Timeframes, autostart : BOOLEAN, face : Faces]
      /\ tray' = Updated(tray, Head(ui.publish))
      /\ ui' = [ui EXCEPT !.publish = Tail(ui.publish)]
      /\ UNCHANGED <<mailbox, batch, polling, entry, running, hasTray>>
  BY DEF AInv, IInv, TypeOK, Fields, Publish
<1>2. /\ ui'.publish = Tail(ui.publish) /\ ui'.timeframe = ui.timeframe
      /\ ui'.snapshot = ui.snapshot /\ ui'.error = ui.error /\ ui'.refreshing = ui.refreshing
  BY <1>1 DEF Fields
<1>3. /\ Len(ui.publish) \in Nat \ {0} /\ DOMAIN ui.publish = 1..Len(ui.publish)
      /\ Head(ui.publish) = first /\ first \in Updates
      /\ Len(ui'.publish) = Len(ui.publish) - 1 /\ DOMAIN ui'.publish = 1..(Len(ui.publish) - 1)
      /\ \A i \in 1..(Len(ui.publish) - 1) : ui'.publish[i] = ui.publish[i + 1]
      /\ ui'.publish = <<>> <=> Len(ui.publish) = 1
  <2> DEFINE q == ui.publish
             rest == ui'.publish
  <2>1. q \in Seq(Updates) /\ q # <<>> /\ rest = Tail(q) /\ first = q[1]
    BY <1>1, <1>2
  <2> HIDE DEF q, rest, first
  <2>2. /\ Len(q) \in Nat \ {0} /\ DOMAIN q = 1..Len(q) /\ Head(q) = first /\ first \in Updates
    BY <2>1
  <2>3. /\ rest \in Seq(Updates) /\ Len(rest) = Len(q) - 1
        /\ \A i \in 1..(Len(q) - 1) : rest[i] = q[i + 1]
    BY <2>1
  <2>4. DOMAIN rest = 1..(Len(q) - 1)
    BY <2>3
  <2>5. rest = <<>> <=> Len(q) = 1
    BY <2>2, <2>3
  <2> QED BY <2>2, <2>3, <2>4, <2>5 DEF q, rest
<1>4. FaceOf(ui') = FaceOf(ui)
  BY <1>2 DEF FaceOf
<1>5. \A i \in DOMAIN ui.publish : i = 1 \/ (i - 1 \in DOMAIN ui'.publish /\ ui'.publish[i - 1] = ui.publish[i])
  BY <1>3
<1>6. \A i \in DOMAIN ui'.publish : i + 1 \in DOMAIN ui.publish /\ ui'.publish[i] = ui.publish[i + 1]
  BY <1>3
<1>7. 1 \in DOMAIN ui.publish
  BY <1>3
<1>8. tray' = Updated(tray, first)
  BY <1>1, <1>3
<1> HIDE DEF first
<1>9. SUFFICES ASSUME hasTray
               PROVE  /\ FaceSettles(ui', tray'.face) /\ Truthful(ui', entry)
                      /\ running => TimeframeFollows' /\ AutostartFollows'
  BY <1>1 DEF AInv, Agreement
<1>10. Truthful(ui, entry) /\ FaceSettles(ui, tray.face)
  BY <1>9 DEF AInv, Agreement
<1>11. Truthful(ui', entry)
  BY <1>2, <1>6, <1>10 DEF Truthful
<1>12. first.timeframe \in {None, ui.timeframe} /\ first.autostart \in {None, entry}
  BY <1>7, <1>10 DEF Truthful, first
<1>13. FaceSettles(ui', tray'.face)
  <2>1. CASE Len(ui.publish) = 1
    <3>1. first.face = FaceOf(ui)
      BY <1>1, <1>10, <2>1 DEF FaceSettles, first
    <3>2. FaceOf(ui) # None
      BY FacesAssumption DEF FaceOf, Faces
    <3>3. tray'.face = FaceOf(ui)
      BY <1>8, <3>1, <3>2 DEF Updated
    <3> QED BY <1>3, <1>4, <2>1, <3>3 DEF FaceSettles
  <2>2. CASE Len(ui.publish) # 1
    <3>1. /\ Len(ui'.publish) \in 1..(Len(ui.publish) - 1) /\ Len(ui'.publish) + 1 = Len(ui.publish)
          /\ ui'.publish # <<>>
      BY <1>3, <2>2
    <3>2. ui'.publish[Len(ui'.publish)] = ui.publish[Len(ui.publish)]
      BY <1>3, <3>1
    <3>3. ui.publish[Len(ui.publish)].face = FaceOf(ui)
      BY <1>1, <1>10 DEF FaceSettles
    <3> QED BY <1>4, <3>1, <3>2, <3>3 DEF FaceSettles
  <2> QED BY <2>1, <2>2
<1>14. ASSUME TimeframeFollows PROVE TimeframeFollows'
  <2>1. CASE first.timeframe # None
    <3>1. tray'.timeframe = ui.timeframe
      BY <1>8, <1>12, <2>1 DEF Updated
    <3> QED BY <1>2, <3>1 DEF TimeframeFollows
  <2>2. CASE first.timeframe = None
    <3>1. tray'.timeframe = tray.timeframe
      BY <1>8, <2>2 DEF Updated
    <3>2. TellsTimeframe(ui) => TellsTimeframe(ui')
      BY <1>5, <2>2 DEF TellsTimeframe, first
    <3> QED BY <1>1, <1>2, <1>14, <3>1, <3>2 DEF TimeframeFollows
  <2> QED BY <2>1, <2>2
<1>15. ASSUME AutostartFollows PROVE AutostartFollows'
  <2>1. CASE first.rereads \/ first.autostart # None
    <3>1. tray'.autostart = entry
      BY <1>8, <1>12, <2>1 DEF Updated
    <3> QED BY <1>1, <3>1 DEF AutostartFollows
  <2>2. CASE ~first.rereads /\ first.autostart = None
    <3>1. tray'.autostart = tray.autostart
      BY <1>8, <2>2 DEF Updated
    <3>2. TellsAutostart(ui) => TellsAutostart(ui')
      BY <1>5, <2>2 DEF TellsAutostart, first
    <3> QED BY <1>1, <1>15, <3>1, <3>2 DEF AutostartFollows
  <2> QED BY <2>1, <2>2
<1> QED BY <1>1, <1>10, <1>11, <1>13, <1>14, <1>15, <1>9 DEF AInv, Agreement

LEMMA NextAgrees == AInv /\ [Next]_vars => Agreement'
<1> SUFFICES ASSUME AInv, [Next]_vars PROVE Agreement'
  OBVIOUS
<1>1. CASE AutoRefresh \/ PresentationTick
  BY <1>1, TimersAgree
<1>2. CASE Poll
  BY <1>2, ElsewhereAgrees DEF Poll, Idle
<1>3. CASE ReceiveEvent
  BY <1>3, ReceiveEventAgrees
<1>4. CASE TakePending
  BY <1>4, TakePendingAgrees
<1>5. CASE HandleCommand
  BY <1>5, HandleCommandAgrees
<1>6. CASE Publish
  BY <1>6, PublishAgrees
<1>7. CASE User
  BY <1>7, UserAgrees
<1>8. ASSUME NEW c \in Commands, TraySends(c) PROVE Agreement'
  BY <1>8, TraySendsAgrees
<1>9. CASE FetchEnds
  BY <1>9, ElsewhereAgrees DEF FetchEnds, AInv, Agreement
<1>10. CASE ClockMoves
  BY <1>10, ClockMovesAgrees
<1>11. CASE UNCHANGED vars
  BY <1>11, ElsewhereAgrees DEF vars, AInv, Agreement
<1>12. CASE Ended
  BY <1>11, <1>12 DEF Ended
<1> QED BY <1>1, <1>2, <1>3, <1>4, <1>5, <1>6, <1>7, <1>8, <1>9, <1>10, <1>11, <1>12 DEF Next

LEMMA InitAgrees == Init => Agreement
<1> SUFFICES ASSUME Init PROVE Agreement
  OBVIOUS
<1>1. PICK t \in Timeframes :
         LET built == [timeframe |-> t, preference |-> t, page |-> 0, note |-> FALSE,
                       refreshing |-> FALSE, snapshot |-> None, error |-> FALSE,
                       window |-> Hidden, publish |-> <<>>, started |-> 0]
             live == StartRefresh(built)
         IN  /\ ui = [(IF mode = "Background" THEN live ELSE Present(live, Origin))
                        EXCEPT !.started = 0]
             /\ tray = [timeframe |-> t, autostart |-> entry, face |-> "loading"]
  BY DEF Init
<1> DEFINE built == [timeframe |-> t, preference |-> t, page |-> 0, note |-> FALSE,
                     refreshing |-> FALSE, snapshot |-> None, error |-> FALSE,
                     window |-> Hidden, publish |-> <<>>, started |-> 0]
           begun == [built EXCEPT !.refreshing = TRUE, !.started = @ + 1]
           live == StartRefresh(built)
           shown == IF mode = "Background" THEN live ELSE Present(live, Origin)
<1>2. /\ ui = [shown EXCEPT !.started = 0]
      /\ tray.timeframe = t /\ tray.autostart = entry /\ tray.face = "loading"
  BY <1>1
<1>3. entry \in BOOLEAN /\ polling = FALSE /\ Origin \in Anchors
  BY UiAssumption DEF Init
<1>4. "loading" \in Faces
  BY DEF Faces
<1>5. live = Rendered(begun)
  BY DEF StartRefresh
<1>6. /\ begun \in Working /\ begun.publish = <<>> /\ begun.timeframe = t
      /\ PageOk(begun)
  <2>1. <<>> \in Seq(Updates) /\ Hidden \in Places
    BY DEF Places
  <2>2. /\ built \in Working /\ built.publish = <<>> /\ built.timeframe = t
        /\ built.snapshot = None /\ built.started + 1 \in Nat
    BY <2>1 DEF Working
  <2> HIDE DEF built
  <2>3. /\ begun \in Working /\ begun.publish = <<>> /\ begun.timeframe = t
        /\ begun.snapshot = None
    BY <2>2 DEF Working
  <2> QED BY <2>3 DEF PageOk
<1> HIDE DEF built, begun
<1>7. SUFFICES ASSUME hasTray
               PROVE  /\ FaceSettles(ui, tray.face) /\ Truthful(ui, entry)
                      /\ TimeframeFollows /\ AutostartFollows
  BY <1>3 DEF Agreement
<1>8. Truthful(begun, entry)
  BY <1>6 DEF Truthful
<1>9. /\ Announces(begun, live, entry) /\ live.timeframe = t
      /\ \A face \in Faces : FaceSettles(live, face)
  BY <1>3, <1>5, <1>6, <1>7, <1>8, RenderedAnnounces
<1>10. live \in Working /\ PageOk(live) /\ Truthful(live, entry)
  BY <1>5, <1>6, <1>9, RenderedIsMethod DEF Method, Announces
<1> HIDE DEF live
<1>11. /\ shown \in Working /\ Truthful(shown, entry) /\ FaceSettles(shown, "loading")
       /\ TellsTimeframe(shown) \/ shown.timeframe = t
  <2>1. CASE mode = "Background"
    BY <1>4, <1>9, <1>10, <2>1
  <2>2. CASE mode # "Background"
    <3> DEFINE w == Present(live, Origin)
    <3>0. Method(live, w)
      BY <1>3, <1>10, PresentIsMethod
    <3>1. w \in Working
      BY <3>0 DEF Method
    <3>2. Announces(live, w, entry)
      BY <1>3, <1>7, <1>10, PresentAnnounces
    <3> HIDE DEF w
    <3>3. Truthful(w, entry) /\ FaceSettles(w, "loading") /\ (TellsTimeframe(w) \/ w.timeframe = t)
      BY <1>4, <1>9, <3>2 DEF Announces
    <3> QED BY <2>2, <3>1, <3>3 DEF w
  <2> QED BY <2>1, <2>2
<1> HIDE DEF shown
<1>12. /\ ui.publish = shown.publish /\ ui.timeframe = shown.timeframe
       /\ ui.snapshot = shown.snapshot /\ ui.error = shown.error
       /\ ui.refreshing = shown.refreshing
  BY <1>2, <1>11 DEF Working
<1>13. Announces(shown, ui, entry)
  BY <1>11, <1>12, SilentAnnounces
<1>14. FaceSettles(ui, tray.face) /\ Truthful(ui, entry)
  BY <1>2, <1>4, <1>11, <1>13 DEF Announces
<1>15. TellsTimeframe(ui) \/ ui.timeframe = t
  BY <1>11, <1>12, <1>13 DEF Announces
<1> QED BY <1>2, <1>14, <1>15 DEF TimeframeFollows, AutostartFollows

LEMMA SpecAInv == Spec => []AInv
<1>1. Init => AInv
  BY InitIInv, InitAgrees DEF AInv
<1>2. AInv /\ [Next]_vars => AInv'
  BY NextKeeps, NextAgrees DEF AInv
<1> QED BY <1>1, <1>2, PTL DEF Spec

-----------------------------------------------------------------------------
(* Theorems. *)

\* The fields of the controller, the tray's menu and the threads keep their
\* types: no closure leaves a hole in the menu (handle.update).
THEOREM TypeCorrect == Spec => []TypeOK
<1>1. IInv => TypeOK
  BY DEF IInv
<1> QED BY <1>1, SpecIInv, PTL

\* However many timers, clicks and launches ask for it, one fetch at most is
\* under way, and the refreshing flag says so (start_refresh).
THEOREM OneFetchAtATime == Spec => []OneFetch
<1>1. IInv => OneFetch
  BY DEF IInv
<1> QED BY <1>1, SpecIInv, PTL

\* The history is never left on a page that the data or the timeframe no
\* longer has (render_history).
THEOREM PageExists == Spec => []HistoryPageExists
<1>1. IInv => HistoryPageExists
  BY DEF IInv
<1> QED BY <1>1, SpecIInv, PTL

\* Unless it was started hidden, there is a tray or a window to reach the
\* application by (dismiss, present).
THEOREM AlwaysReachable == Spec => []NeverStranded
<1>1. IInv => NeverStranded
  BY DEF IInv
<1> QED BY <1>1, SpecIInv, PTL

\* A failed refresh never takes data away that was there
\* (process_worker_events).
THEOREM DataIsKept == Spec => DataSurvives
<1>1. IInv /\ [Next]_vars => [ui.snapshot # None => ui'.snapshot # None]_vars
  BY NextKeeps DEF Kept
<1> QED BY <1>1, SpecIInv, PTL DEF Spec, DataSurvives

\* The updates go out one by one while the tray's callbacks run, yet when the
\* last has run the icon says what the window would (Rendered, Publish).
THEOREM IconIsTrue == Spec => []IconTellsTruth
<1>1. AInv => IconTellsTruth
  BY DEF AInv, Agreement, FaceSettles, IconTellsTruth
<1> QED BY <1>1, SpecAInv, PTL

\* The menu's timeframe and the controller's, which two threads write without a
\* common lock, agree whenever nothing is on its way between them
\* (set_timeframe, take_pending, the menu's callbacks).
THEOREM TimeframesAgree == Spec => []TimeframeAgrees
<1>1. ASSUME AInv PROVE TimeframeAgrees
  <2>1. SUFFICES ASSUME Settled("timeframe", "SetTimeframe")
                 PROVE  tray.timeframe = ui.timeframe
    BY DEF TimeframeAgrees
  <2>2. /\ running /\ hasTray /\ ui.publish = <<>> /\ mailbox.timeframe = None
        /\ ~HasOp(batch, "SetTimeframe") /\ ~HasOp(batch, "Quit")
    BY <2>1, Zenon DEF Settled
  <2>3. TimeframeFollows
    BY <1>1, <2>2 DEF AInv, Agreement
  <2>4. tray.timeframe # None
    BY <1>1, CommandsAssumption DEF AInv, IInv, TypeOK
  <2>5. ~TellsTimeframe(ui)
    BY <2>2 DEF TellsTimeframe
  <2> QED BY <2>2, <2>3, <2>4, <2>5 DEF TimeframeFollows, HasOp
<1> QED BY <1>1, SpecAInv, PTL

\* Likewise the menu's check mark and the autostart entry, whether or not the
\* last change of the entry worked (set_autostart).
THEOREM AutostartsAgree == Spec => []AutostartAgrees
<1>1. ASSUME AInv PROVE AutostartAgrees
  <2>1. SUFFICES ASSUME Settled("autostart", "SetAutostart")
                 PROVE  tray.autostart = entry
    BY DEF AutostartAgrees
  <2>2. /\ running /\ hasTray /\ ui.publish = <<>> /\ mailbox.autostart = None
        /\ ~HasOp(batch, "SetAutostart") /\ ~HasOp(batch, "Quit")
    BY <2>1, Zenon DEF Settled
  <2>3. AutostartFollows
    BY <1>1, <2>2 DEF AInv, Agreement
  <2>4. tray.autostart # None
    BY <1>1, CommandsAssumption DEF AInv, IInv, TypeOK
  <2>5. ~TellsAutostart(ui)
    BY <2>2 DEF TellsAutostart
  <2> QED BY <2>2, <2>3, <2>4, <2>5 DEF AutostartFollows, HasOp
<1> QED BY <1>1, SpecAInv, PTL
=============================================================================
