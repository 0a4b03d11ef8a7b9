----------------------- MODULE AppServerSessionProofs -----------------------
(***************************************************************************)
(* Theorems about one fetch, for every kind of server, every capacity and  *)
(* every bound: the types, the naming of a flood, the waits of a success,  *)
(* and that the session implements what a fetch promises.                  *)
(***************************************************************************)
EXTENDS AppServerSession, TLAPS

\* The phases in which the exchange still has no outcome.
Early == {"starting", "initializing", "exchanging", "exiting"}

ClientType ==
    client \in [phase : Phases, waiting : BOOLEAN, asked : BOOLEAN, usage : BOOLEAN,
                limits : LimitAnswers \cup {None},
                watch : {"rateLimits", "stability", None},
                outcome : Errors \cup {"snapshot", None}]

ReaderType ==
    reader \in [phase : {"reading", "closing", "done"}, blanks : 0..MaxBlankMessages,
                flooded : BOOLEAN]

QueueType == queue \in Seq(Messages) /\ Len(queue) <= MaxPendingMessages

ServerType ==
    server \in [alive : SUBSET Processes, holding : SUBSET Processes,
                killed : SUBSET Processes,
                status : {"success", "failure", None}, pipe : Seq(Lines)]

FlagsType == /\ stop \in BOOLEAN /\ due \in BOOLEAN /\ late \in BOOLEAN
             /\ orderly \in BOOLEAN

\* The outcome is open as long as the exchange lasts, and only a client in the
\* exchange waits for messages.
OutcomeOpen == /\ client.phase \in Early => client.outcome = None
               /\ client.waiting => Exchanging

\* A client that waits for the child's exit has the usage answer and all that the
\* reader let through; the reader is gone, and can flood no more.
StreamOver == client.phase = "exiting" => /\ reader.phase = "done" /\ ~reader.flooded
                                          /\ client.usage /\ queue = <<>>

Inv == /\ ClientType /\ ReaderType /\ QueueType /\ ServerType /\ FlagsType
       /\ OutcomeOpen /\ StreamOver

-----------------------------------------------------------------------------

LEMMA InvImplies == Inv => TypeOK
BY DEF Inv, TypeOK, ClientType, ReaderType, QueueType, ServerType, FlagsType

LEMMA InitInv == Init => Inv
<1> SUFFICES ASSUME Init PROVE Inv
  OBVIOUS
<1>1. ClientType
  BY DEF Init, ClientType, Phases
<1>2. ReaderType /\ QueueType
  BY SessionAssumption DEF Init, SessionAssumption, ReaderType, QueueType
<1>3. ServerType
  <2>1. {"child"} \in SUBSET Processes /\ {} \in SUBSET Processes /\ <<>> \in Seq(Lines)
    BY DEF Processes
  <2> QED
    BY <2>1 DEF Init, ServerType
<1>4. FlagsType
  BY DEF Init, FlagsType
<1>5. OutcomeOpen /\ StreamOver
  BY SessionAssumption
  DEF Init, SessionAssumption, OutcomeOpen, StreamOver, Early, Exchanging, Errors
<1> QED
  BY <1>1, <1>2, <1>3, <1>4, <1>5 DEF Inv

\* The rest of a queue.
LEMMA TailType ==
    ASSUME NEW S, NEW q \in Seq(S), q # <<>>
    PROVE  Head(q) \in S /\ Tail(q) \in Seq(S) /\ Len(Tail(q)) = Len(q) - 1 /\ Len(q) \in Nat
OBVIOUS

\* A longer queue.
LEMMA AppendType ==
    ASSUME NEW S, NEW q \in Seq(S), NEW e \in S
    PROVE  Append(q, e) \in Seq(S) /\ Len(Append(q, e)) = Len(q) + 1 /\ Len(q) \in Nat
OBVIOUS
-----------------------------------------------------------------------------
(* The steps of the client. *)

\* exchange_messages returns: the client leaves the exchange with its outcome.
LEMMA EndsType ==
    ASSUME ClientType, NEW outcome \in Errors \cup {"snapshot"}, Ends(outcome)
    PROVE  /\ ClientType' /\ OutcomeOpen'
           /\ client'.outcome = outcome /\ client'.phase = "terminating"
<1>1. client' = [client EXCEPT !.phase = "terminating", !.waiting = FALSE,
                               !.outcome = outcome]
  BY DEF Ends
<1>2. client'.outcome = outcome /\ client'.phase = "terminating" /\ client'.waiting = FALSE
  BY <1>1 DEF ClientType
<1>3. ClientType'
  BY <1>1 DEF ClientType, Phases
<1>4. OutcomeOpen'
  BY <1>2 DEF OutcomeOpen, Early
<1> QED
  BY <1>2, <1>3, <1>4

\* What a response does once the server is initialized: it fails the exchange, or
\* it is the first answer to one of the two requests.
UsageHeard(line) == /\ line = "Usage" /\ ~client.usage
                    /\ client' = [client EXCEPT !.usage = TRUE, !.waiting = FALSE]

LimitsHeard(line) ==
    /\ line \in {"Limits", "LimitsBad", "LimitsError"} /\ client.limits = None
    /\ \E answer \in LimitAnswers :
          client' = [client EXCEPT !.limits = answer, !.waiting = FALSE]

LEMMA ResponseIs ==
    ASSUME NEW line \in Messages, HandleResponse(line), line # "Notification",
           Misread(line) = None
    PROVE  /\ client.phase = "exchanging"
           /\ Ends("Server") \/ Ends("Json") \/ UsageHeard(line) \/ LimitsHeard(line)
<1>1. client.phase = "exchanging"
  BY DEF HandleResponse
<1>2. CASE line \in {"Init", "InitError"}
  BY <1>1, <1>2 DEF HandleResponse
<1>3. CASE line \notin {"Init", "InitError"}
  <2>1. line \notin {"Garbage", "Oversized", "Unreadable", "Invalid", "Stray"}
    BY SessionAssumption DEF Misread, SessionAssumption, Errors
  <2>2. line \in {"Usage", "UsageBad", "UsageError", "Limits", "LimitsBad", "LimitsError"}
    BY <1>3, <2>1 DEF Messages, Lines
  <2>3. Answer(line)
    BY <1>3 DEF HandleResponse
  <2>4. CASE line \in {"Usage", "UsageBad", "UsageError"}
    BY <1>1, <2>3, <2>4 DEF Answer, AnswerAgain, UsageHeard
  <2>5. CASE line \in {"Limits", "LimitsBad", "LimitsError"}
    BY <1>1, <2>3, <2>5 DEF Answer, AnswerAgain, LimitsHeard, LimitAnswers
  <2> QED
    BY <2>2, <2>4, <2>5
<1> QED
  BY <1>2, <1>3

LEMMA TimedOutType ==
    ASSUME Inv, Exchanging, TimedOut
    PROVE  /\ ClientType' /\ OutcomeOpen'
           /\ client'.outcome \in {"InitializeTimeout", "Timeout", "Stopped", "snapshot"}
           /\ client'.phase = "terminating"
<1>1. PICK outcome \in {"InitializeTimeout", "Timeout", "Stopped", "snapshot"} :
            Ends(outcome)
  BY DEF TimedOut
<1>2. outcome \in Errors \cup {"snapshot"}
  BY DEF Errors
<1>3. ClientType
  BY DEF Inv
<1> QED
  BY <1>1, <1>2, <1>3, EndsType

\* A step that does not make the client wait for the child's exit.
LEMMA NotExiting == ASSUME client'.phase # "exiting" PROVE StreamOver'
BY DEF StreamOver

LEMMA StartInv == ASSUME Inv, Start PROVE Inv'
<1> USE DEF Inv
<1>1. client.phase = "starting" /\ UNCHANGED <<queue, stop, server, due, late, orderly>>
  BY DEF Start
<1>2. QueueType' /\ ServerType' /\ FlagsType'
  BY <1>1 DEF QueueType, ServerType, FlagsType
<1>3. CASE ~late /\ client' = [client EXCEPT !.phase = "initializing"] /\ UNCHANGED reader
  <2>1. ClientType' /\ client'.phase = "initializing" /\ client'.outcome = client.outcome
    BY <1>3 DEF ClientType, Phases
  <2>2. OutcomeOpen'
    BY <1>1, <2>1 DEF OutcomeOpen, Early, Exchanging
  <2>3. StreamOver'
    BY <2>1, NotExiting
  <2> QED
    BY <1>2, <1>3, <2>1, <2>2, <2>3 DEF ReaderType
<1>4. CASE /\ \E outcome \in {"InitializeTimeout", "Json", "Io"} : Ends(outcome)
           /\ UNCHANGED reader \/ reader' = [reader EXCEPT !.phase = "done"]
  <2>1. PICK outcome \in {"InitializeTimeout", "Json", "Io"} : Ends(outcome)
    BY <1>4
  <2>2. /\ ClientType' /\ OutcomeOpen'
        /\ client'.outcome = outcome /\ client'.phase = "terminating"
    BY <2>1, EndsType DEF Errors
  <2>3. StreamOver'
    BY <2>2, NotExiting
  <2>4. ReaderType'
    BY <1>4 DEF ReaderType
  <2> QED
    BY <1>2, <2>2, <2>3, <2>4
<1> QED
  BY <1>3, <1>4 DEF Start, WriteFails

LEMMA AttendInv == ASSUME Inv, Attend PROVE Inv'
<1> USE DEF Inv
<1> DEFINE armed == client.phase = "exchanging" /\ client.watch # Watched
           passed == late \/ (due /\ ~armed)
<1>1. /\ Exchanging /\ ~client.waiting
      /\ IF passed THEN TimedOut
         ELSE client' = [client EXCEPT !.waiting = TRUE, !.watch = Watched]
      /\ due' = IF passed \/ armed THEN FALSE ELSE due
      /\ UNCHANGED <<reader, queue, stop, server, late, orderly>>
  BY DEF Attend
<1>2. ReaderType' /\ QueueType' /\ ServerType' /\ FlagsType'
  BY <1>1 DEF ReaderType, QueueType, ServerType, FlagsType
<1>3. CASE passed
  <2>1. TimedOut
    BY <1>1, <1>3
  <2>2. /\ ClientType' /\ OutcomeOpen'
        /\ client'.outcome \in {"InitializeTimeout", "Timeout", "Stopped", "snapshot"}
        /\ client'.phase = "terminating"
    BY <1>1, <2>1, TimedOutType
  <2> QED
    BY <1>2, <2>2, NotExiting
<1>4. CASE ~passed
  <2>1. client' = [client EXCEPT !.waiting = TRUE, !.watch = Watched]
    BY <1>1, <1>4
  <2>2. Watched \in {"rateLimits", "stability", None}
    BY DEF Watched
  <2>3. ClientType' /\ client'.phase = client.phase /\ client'.outcome = client.outcome
    BY <2>1, <2>2 DEF ClientType
  <2>4. OutcomeOpen'
    BY <1>1, <2>3 DEF OutcomeOpen, Exchanging
  <2>5. client'.phase # "exiting"
    BY <1>1, <2>3 DEF Exchanging
  <2> QED
    BY <1>2, <2>3, <2>4, <2>5, NotExiting
<1> QED
  BY <1>3, <1>4

\* What a message does: the client goes on with the exchange, or ends it.
LEMMA HandleType ==
    ASSUME Inv, client.waiting, NEW line \in Messages, Handle(line)
    PROVE  /\ ClientType' /\ OutcomeOpen' /\ StreamOver'
<1> USE DEF Inv
<1> DEFINE Others == {"Json", "OversizedMessage", "Server", "Io"}
<1>1. Exchanging /\ client.outcome = None /\ client.phase # "exiting"
  BY DEF OutcomeOpen, Exchanging, Early
<1>2. Others \subseteq Errors \cup {"snapshot"}
  BY DEF Errors
<1>3. ASSUME NEW outcome \in Others, Ends(outcome)
      PROVE  ClientType' /\ OutcomeOpen' /\ StreamOver'
  BY <1>2, <1>3, EndsType, NotExiting
<1>4. ASSUME client'.phase \in {"initializing", "exchanging"}, ClientType',
             client'.waiting = FALSE, client'.outcome = client.outcome
      PROVE  ClientType' /\ OutcomeOpen' /\ StreamOver'
  <2>1. OutcomeOpen'
    BY <1>1, <1>4 DEF OutcomeOpen
  <2> QED
    BY <1>4, <2>1, NotExiting
<1> HIDE DEF Others
<1>5. CASE line = "Notification"
  <2>1. client' = [client EXCEPT !.waiting = FALSE]
    BY <1>5 DEF Handle
  <2>2. /\ client'.phase = client.phase /\ ClientType' /\ client'.waiting = FALSE
        /\ client'.outcome = client.outcome
    BY <2>1 DEF ClientType
  <2> QED
    BY <1>1, <1>4, <2>2 DEF Exchanging
<1>6. CASE line # "Notification" /\ Misread(line) # None
  <2>1. Ends(Misread(line))
    BY <1>6 DEF Handle
  <2>2. Misread(line) \in Others
    BY <1>6 DEF Misread, Others
  <2> QED
    BY <1>3, <2>1, <2>2
<1>7. CASE HandleInitialize(line)
  <2>1. CASE Initialized
    <3>1. PICK asked \in BOOLEAN :
            client' = [client EXCEPT !.phase = "exchanging", !.waiting = FALSE,
                                     !.asked = asked]
      BY <2>1 DEF Initialized
    <3>2. /\ client'.phase = "exchanging" /\ ClientType' /\ client'.waiting = FALSE
          /\ client'.outcome = client.outcome
      BY <3>1 DEF ClientType, Phases
    <3> QED
      BY <1>4, <3>2
  <2>2. CASE Ends("Json") \/ Ends("Io") \/ Ends("Server")
    <3>1. "Json" \in Others /\ "Io" \in Others /\ "Server" \in Others
      BY DEF Others
    <3> QED
      BY <1>3, <2>2, <3>1
  <2> QED
    BY <1>7, <2>1, <2>2 DEF HandleInitialize, WriteFails
<1>8. CASE HandleResponse(line) /\ line # "Notification" /\ Misread(line) = None
  <2>1. CASE Ends("Server") \/ Ends("Json")
    <3>1. "Json" \in Others /\ "Server" \in Others
      BY DEF Others
    <3> QED
      BY <1>3, <2>1, <3>1
  <2>2. CASE UsageHeard(line) \/ LimitsHeard(line)
    <3>1. /\ client'.phase = client.phase /\ ClientType' /\ client'.waiting = FALSE
          /\ client'.outcome = client.outcome
      BY <2>2 DEF ClientType, UsageHeard, LimitsHeard
    <3> QED
      BY <1>1, <1>4, <3>1 DEF Exchanging
  <2> QED
    BY <1>8, <2>1, <2>2, ResponseIs
<1> QED
  BY <1>5, <1>6, <1>7, <1>8 DEF Handle

LEMMA ReceiveInv == ASSUME Inv, Receive PROVE Inv'
<1> USE DEF Inv
<1>1. /\ client.waiting /\ queue # <<>> /\ Handle(Head(queue)) /\ queue' = Tail(queue)
      /\ due' = (IF client'.phase = client.phase THEN due ELSE FALSE)
      /\ orderly' = (IF Head(queue) \in Awaited THEN orderly ELSE FALSE)
      /\ UNCHANGED <<reader, stop, server, late>>
  BY DEF Receive
<1>2. Head(queue) \in Messages
  BY <1>1, TailType DEF QueueType
<1>3. ClientType' /\ OutcomeOpen' /\ StreamOver'
  BY <1>1, <1>2, HandleType
<1>4. QueueType'
  <2>1. Tail(queue) \in Seq(Messages) /\ Len(Tail(queue)) = Len(queue) - 1 /\ Len(queue) \in Nat
    BY <1>1, TailType DEF QueueType
  <2> QED
    BY <1>1, <2>1, SessionAssumption DEF QueueType, SessionAssumption
<1>5. ReaderType' /\ ServerType' /\ FlagsType'
  BY <1>1 DEF ReaderType, ServerType, FlagsType
<1> QED
  BY <1>3, <1>4, <1>5

LEMMA ExpireInv == ASSUME Inv, Expire PROVE Inv'
<1> USE DEF Inv
<1>1. /\ client.waiting /\ TimedOut /\ due' = FALSE
      /\ UNCHANGED <<reader, queue, stop, server, late, orderly>>
  BY DEF Expire
<1>2. /\ ClientType' /\ OutcomeOpen'
      /\ client'.outcome \in {"InitializeTimeout", "Timeout", "Stopped", "snapshot"}
      /\ client'.phase = "terminating"
  BY <1>1, TimedOutType DEF OutcomeOpen
<1>3. StreamOver'
  BY <1>2, NotExiting
<1>4. ReaderType' /\ QueueType' /\ ServerType' /\ FlagsType'
  BY <1>1 DEF ReaderType, QueueType, ServerType, FlagsType
<1> QED
  BY <1>2, <1>3, <1>4

LEMMA DisconnectInv == ASSUME Inv, Disconnect PROVE Inv'
<1> USE DEF Inv
<1>1. /\ client.waiting /\ queue = <<>> /\ reader.phase = "done" /\ StreamEnded
      /\ due' = FALSE /\ UNCHANGED <<reader, queue, stop, server, late, orderly>>
  BY DEF Disconnect
<1>2. ReaderType' /\ QueueType' /\ ServerType' /\ FlagsType'
  BY <1>1 DEF ReaderType, QueueType, ServerType, FlagsType
<1>3. CASE reader.flooded
  <2>1. Ends("MessageFlood") /\ "MessageFlood" \in Errors
    BY <1>1, <1>3 DEF StreamEnded, Errors
  <2>2. /\ ClientType' /\ OutcomeOpen'
        /\ client'.outcome = "MessageFlood" /\ client'.phase = "terminating"
    BY <2>1, EndsType
  <2>3. StreamOver'
    BY <1>1, <1>3, <2>2 DEF StreamOver
  <2> QED
    BY <1>2, <2>2, <2>3
<1>4. CASE ~reader.flooded /\ client.usage
  <2>1. client' = [client EXCEPT !.phase = "exiting", !.waiting = FALSE]
    BY <1>1, <1>4 DEF StreamEnded
  <2>2. /\ ClientType' /\ client'.phase = "exiting" /\ client'.waiting = FALSE
        /\ client'.outcome = client.outcome /\ client'.usage
    BY <1>4, <2>1 DEF ClientType, Phases
  <2>3. client.outcome = None
    BY <1>1 DEF OutcomeOpen, Exchanging, Early
  <2>4. OutcomeOpen'
    BY <2>2, <2>3 DEF OutcomeOpen
  <2>5. StreamOver'
    BY <1>1, <1>4, <2>2, <2>3, SessionAssumption DEF StreamOver, SessionAssumption, Errors
  <2> QED
    BY <1>2, <2>2, <2>4, <2>5
<1>5. CASE ~reader.flooded /\ ~client.usage
  <2>1. Ends("Stopped") /\ "Stopped" \in Errors
    BY <1>1, <1>5 DEF StreamEnded, Errors
  <2>2. /\ ClientType' /\ OutcomeOpen'
        /\ client'.outcome = "Stopped" /\ client'.phase = "terminating"
    BY <2>1, EndsType
  <2>3. StreamOver'
    BY <1>1, <1>5, <2>2 DEF StreamOver
  <2> QED
    BY <1>2, <2>2, <2>3
<1> QED
  BY <1>3, <1>4, <1>5

LEMMA AwaitExitInv == ASSUME Inv, AwaitExit PROVE Inv'
<1> USE DEF Inv
<1>1. /\ client.phase = "exiting" /\ (Ends("snapshot") \/ Ends("Stopped"))
      /\ due' = FALSE /\ UNCHANGED <<reader, queue, stop, server, late, orderly>>
  BY DEF AwaitExit
<1>2. PICK outcome \in {"snapshot", "Stopped"} : Ends(outcome)
  BY <1>1
<1>3. /\ ClientType' /\ OutcomeOpen' /\ client'.outcome = outcome
      /\ client'.phase = "terminating"
  BY <1>2, EndsType DEF Errors
<1>4. StreamOver'
  BY <1>1, <1>3 DEF StreamOver
<1>5. ReaderType' /\ QueueType' /\ ServerType' /\ FlagsType'
  BY <1>1 DEF ReaderType, QueueType, ServerType, FlagsType
<1> QED
  BY <1>3, <1>4, <1>5

\* The teardown goes through its phases and leaves the outcome alone.
LEMMA TeardownInv == ASSUME Inv, Teardown PROVE Inv'
<1> USE DEF Inv
<1>1. /\ client.phase \in {"terminating", "grace", "killing", "reaping", "joining"}
      /\ \E phase \in {"grace", "killing", "reaping", "joining", "returned"} : Enter(phase)
      /\ UNCHANGED <<reader, queue, late, orderly>>
      /\ stop' \in {stop, TRUE} /\ due' \in {due, FALSE}
      /\ \/ UNCHANGED server
         \/ server' = [server EXCEPT !.killed = IF GroupExists THEN {"child", "group"}
                                                 ELSE {}]
  BY DEF Teardown, Terminate, Grace, Kill, Reap, Join
<1>2. PICK phase \in {"grace", "killing", "reaping", "joining", "returned"} :
            client' = [client EXCEPT !.phase = phase]
  BY <1>1 DEF Enter
<1>3. /\ ClientType' /\ client'.phase = phase /\ client'.outcome = client.outcome
      /\ client'.waiting = client.waiting
  BY <1>2 DEF ClientType, Phases
<1>4. ~client.waiting
  BY <1>1 DEF OutcomeOpen, Exchanging
<1>5. OutcomeOpen'
  BY <1>3, <1>4 DEF OutcomeOpen, Early
<1>6. StreamOver'
  BY <1>1, <1>3 DEF StreamOver
<1>7. ReaderType' /\ QueueType' /\ FlagsType'
  BY <1>1 DEF ReaderType, QueueType, FlagsType
<1>8. ServerType'
  <2>1. {"child", "group"} \in SUBSET Processes /\ {} \in SUBSET Processes
    BY DEF Processes
  <2> QED
    BY <1>1, <2>1 DEF ServerType
<1> QED
  BY <1>3, <1>5, <1>6, <1>7, <1>8

-----------------------------------------------------------------------------
(* The steps of the reader, the server and time. *)

\* While the reader reads, the client does not wait for the child's exit.
LEMMA ReadingInv == ASSUME Inv, Reading PROVE Inv'
<1> USE DEF Inv
<1>1. UNCHANGED <<client, stop, due, late, orderly>> /\ reader.phase # "done"
  BY DEF Reading, ReadLine, StopReading, CloseChannel
<1>2. ClientType' /\ FlagsType' /\ OutcomeOpen'
  BY <1>1 DEF ClientType, FlagsType, OutcomeOpen, Exchanging
<1>3. CASE StopReading \/ CloseChannel
  <2>1. /\ UNCHANGED <<queue, server>>
        /\ \E phase \in {"closing", "done"} : reader' = [reader EXCEPT !.phase = phase]
    BY <1>3 DEF StopReading, CloseChannel
  <2>2. ReaderType' /\ reader'.flooded = reader.flooded
    BY <2>1 DEF ReaderType
  <2>3. QueueType' /\ ServerType'
    BY <2>1 DEF QueueType, ServerType
  <2>4. StreamOver'
    BY <1>1, <2>1, <2>2 DEF StreamOver
  <2> QED
    BY <1>2, <2>2, <2>3, <2>4
<1>4. CASE ReadLine
  <2> DEFINE line == Head(server.pipe)
  <2>1. /\ server.pipe # <<>>
        /\ IF line = "Blank" THEN CountBlank ELSE Pass(line)
        /\ server' = [server EXCEPT !.pipe = Tail(@)]
    BY <1>4 DEF ReadLine
  <2>2. line \in Lines /\ Tail(server.pipe) \in Seq(Lines)
    BY <2>1, TailType DEF ServerType
  <2>3. ServerType'
    BY <2>1, <2>2 DEF ServerType
  <2>4. client.phase # "exiting"
    BY <1>1 DEF StreamOver
  <2>5. CASE line = "Blank"
    <3>1. /\ UNCHANGED queue
          /\ reader' = IF reader.blanks < MaxBlankMessages
                       THEN [reader EXCEPT !.blanks = @ + 1]
                       ELSE [reader EXCEPT !.phase = "closing", !.flooded = TRUE]
      BY <2>1, <2>5 DEF CountBlank
    <3>2. ReaderType'
      <4>1. CASE reader.blanks < MaxBlankMessages
        <5>1. reader.blanks + 1 \in 0..MaxBlankMessages
          BY <4>1, SessionAssumption DEF ReaderType, SessionAssumption
        <5>2. reader' = [reader EXCEPT !.blanks = reader.blanks + 1]
          BY <3>1, <4>1
        <5> QED
          BY <5>1, <5>2 DEF ReaderType
      <4>2. CASE ~(reader.blanks < MaxBlankMessages)
        BY <3>1, <4>2 DEF ReaderType
      <4> QED
        BY <4>1, <4>2
    <3> QED
      BY <1>1, <1>2, <2>3, <2>4, <3>1, <3>2 DEF QueueType, StreamOver
  <2>6. CASE line # "Blank" /\ Len(queue) < MaxPendingMessages
    <3>1. /\ queue' = Append(queue, line)
          /\ \E phase \in {"closing", reader.phase} :
                reader' = [reader EXCEPT !.phase = phase]
      BY <2>1, <2>6 DEF Pass
    <3>2. ReaderType'
      BY <3>1 DEF ReaderType
    <3>3. line \in Messages
      BY <2>2, <2>6 DEF Messages
    <3>4. QueueType'
      <4>1. /\ Append(queue, line) \in Seq(Messages)
            /\ Len(Append(queue, line)) = Len(queue) + 1 /\ Len(queue) \in Nat
        BY <3>3, AppendType DEF QueueType
      <4> QED
        BY <2>6, <3>1, <4>1, SessionAssumption DEF QueueType, SessionAssumption
    <3> QED
      BY <1>1, <1>2, <2>3, <2>4, <3>2, <3>4 DEF StreamOver
  <2>7. CASE line # "Blank" /\ ~(Len(queue) < MaxPendingMessages)
    <3>1. /\ UNCHANGED queue
          /\ reader' = [reader EXCEPT !.phase = "closing", !.flooded = TRUE]
      BY <2>1, <2>7 DEF Pass
    <3>2. ReaderType'
      BY <3>1 DEF ReaderType
    <3> QED
      BY <1>1, <1>2, <2>3, <2>4, <3>1, <3>2 DEF QueueType, StreamOver
  <2> QED
    BY <2>5, <2>6, <2>7
<1> QED
  BY <1>3, <1>4 DEF Reading

\* What the server and its descendants do, and time, is seen by the rest of the
\* session only through the pipe, the exit status and the two flags.
LEMMA SurroundingsInv ==
    ASSUME Inv, Deadline \/ ServerStep \/ KillTakesEffect \/ UNCHANGED vars
    PROVE  Inv'
<1> USE DEF Inv
<1>1. UNCHANGED <<client, reader, queue>>
  BY DEF Deadline, ServerStep, KillTakesEffect, vars
<1>2. ClientType' /\ ReaderType' /\ QueueType' /\ OutcomeOpen' /\ StreamOver'
  BY <1>1 DEF ClientType, ReaderType, QueueType, OutcomeOpen, Exchanging, StreamOver
<1>3. FlagsType'
  BY DEF Deadline, TimePasses, ServerStep, KillTakesEffect, vars, FlagsType
<1>4. ServerType'
  <2>1. CASE UNCHANGED server
    BY <2>1 DEF ServerType
  <2>2. CASE Write
    <3>1. PICK line \in Output : server' = [server EXCEPT !.pipe = Append(@, line)]
      BY <2>2 DEF Write
    <3>2. Append(server.pipe, line) \in Seq(Lines)
      BY SessionAssumption, AppendType DEF SessionAssumption, ServerType
    <3> QED
      BY <3>1, <3>2 DEF ServerType
  <2>3. CASE CloseOutput
    BY <2>3 DEF CloseOutput, ServerType
  <2>4. CASE Descend
    <3>1. PICK parent \in server.alive, p \in Descendants :
            server' = [server EXCEPT !.alive = @ \cup {p},
                         !.holding = IF parent \in @ THEN @ \cup {p} ELSE @]
      BY <2>4 DEF Descend
    <3>2. p \in Processes
      BY SessionAssumption DEF SessionAssumption, Processes
    <3>3. server.alive \cup {p} \in SUBSET Processes
      BY <3>2 DEF ServerType
    <3>4. (IF parent \in server.holding THEN server.holding \cup {p} ELSE server.holding)
            \in SUBSET Processes
      BY <3>2 DEF ServerType
    <3> QED
      BY <3>1, <3>3, <3>4 DEF ServerType
  <2>5. CASE Exit
    <3>1. PICK p \in server.alive, status \in {"success", "failure", server.status} :
            server' = [server EXCEPT !.alive = @ \ {p}, !.status = status]
      BY <2>5 DEF Exit
    <3>2. server.alive \ {p} \in SUBSET Processes
      BY DEF ServerType
    <3> QED
      BY <3>1, <3>2 DEF ServerType
  <2>6. CASE Die
    <3>1. PICK p \in server.alive :
            server' = [server EXCEPT !.alive = @ \ {p}, !.holding = @ \ {p},
                                     !.status = IF p = "child" THEN "failure" ELSE @]
      BY <2>6 DEF Die
    <3> QED
      BY <3>1 DEF ServerType
  <2> QED
    BY <2>1, <2>2, <2>3, <2>4, <2>5, <2>6
    DEF Deadline, ServerStep, KillTakesEffect, vars
<1> QED
  BY <1>2, <1>3, <1>4

-----------------------------------------------------------------------------
(* The theorems. *)

\* Inv is an inductive invariant of the session: no step of the client, the
\* reader thread or the server leaves it.
THEOREM SessionInductive == Spec => []Inv
<1>1. Inv /\ [Next]_vars => Inv'
  <2> SUFFICES ASSUME Inv, [Next]_vars PROVE Inv'
    OBVIOUS
  <2>1. CASE Exchange
    BY <2>1, StartInv, AttendInv, ReceiveInv, ExpireInv, DisconnectInv, AwaitExitInv
    DEF Exchange
  <2>2. CASE Teardown
    BY <2>2, TeardownInv
  <2>3. CASE Reading
    BY <2>3, ReadingInv
  <2>4. CASE Deadline \/ ServerStep \/ KillTakesEffect \/ UNCHANGED vars
    BY <2>4, SurroundingsInv
  <2> QED
    BY <2>1, <2>2, <2>3, <2>4 DEF Next, Ended
<1> QED
  BY <1>1, InitInv, PTL DEF Spec

\* Types, and the bound of the channel between reader and client, hold whatever
\* lines the server writes: receive_message and try_send never find it overfull.
THEOREM SessionTypeCorrect == Spec => []TypeOK
BY SessionInductive, InvImplies, PTL

-----------------------------------------------------------------------------
(* What each step does to the answers and the outcome. *)

\* Usage is asked for after the initialization, and the child has no exit status
\* before it ends.
Order == /\ client.phase \in {"starting", "initializing"} => ~client.usage
         /\ "child" \in server.alive => server.status = None

Answers == <<client.usage, client.limits>>

\* A response that nobody awaited is only heard by a client that gives up.
GivesUp == /\ client.outcome = None /\ client'.outcome \in Errors
           /\ client'.outcome \in {"InitializeTimeout", "Timeout"} => ~client.usage
           /\ orderly' \in {orderly, FALSE}
           /\ UNCHANGED Answers

Succeeds == /\ client.outcome = None /\ client'.outcome = "snapshot"
            /\ client.usage /\ server.status # "failure"
            /\ UNCHANGED <<Answers, orderly>>

Waited == \/ Past
          \/ reader.phase = "done" /\ queue = <<>> /\ server.status = "success"

Hears == /\ client.outcome = None /\ UNCHANGED <<client.outcome, orderly>>
         /\ \/ /\ ~client.usage /\ client'.usage = TRUE
               /\ client.phase = "exchanging" /\ UNCHANGED client.limits
            \/ /\ client.limits = None /\ client'.limits \in LimitAnswers
               /\ UNCHANGED client.usage

\* A step of the client as the caller sees it.
Seen == \/ UNCHANGED <<Answers, client.outcome, orderly>>
        \/ Hears
        \/ GivesUp
        \/ Succeeds /\ Waited

LEMMA EndsSeen ==
    ASSUME ClientType, client.outcome = None, NEW outcome \in Errors, Ends(outcome),
           outcome \in {"InitializeTimeout", "Timeout"} => ~client.usage,
           orderly' \in {orderly, FALSE}
    PROVE  GivesUp
BY DEF Ends, ClientType, GivesUp, Answers

LEMMA TimedOutSeen ==
    ASSUME Inv, Order, Exchanging, Past, TimedOut, UNCHANGED orderly
    PROVE  Seen
<1> USE DEF Inv
<1>1. client.outcome = None
  BY DEF Exchanging, OutcomeOpen, Early
<1>2. CASE client.phase = "initializing"
  <2>1. Ends("InitializeTimeout") /\ "InitializeTimeout" \in Errors /\ ~client.usage
    BY <1>2 DEF TimedOut, Errors, Order
  <2> QED
    BY <1>1, <2>1, EndsSeen DEF Seen
<1>3. CASE client.phase # "initializing" /\ ~client.usage
  <2>1. Ends("Timeout") /\ "Timeout" \in Errors
    BY <1>3 DEF TimedOut, Errors
  <2> QED
    BY <1>1, <1>3, <2>1, EndsSeen DEF Seen
<1>4. CASE client.phase # "initializing" /\ client.usage /\ server.status = "failure"
  <2>1. Ends("Stopped") /\ "Stopped" \in Errors
    BY <1>4 DEF TimedOut, Errors
  <2> QED
    BY <1>1, <2>1, EndsSeen DEF Seen
<1>5. CASE client.phase # "initializing" /\ client.usage /\ server.status # "failure"
  <2>1. Ends("snapshot")
    BY <1>5 DEF TimedOut
  <2>2. client'.outcome = "snapshot" /\ UNCHANGED Answers
    BY <2>1 DEF Ends, ClientType, Answers
  <2> QED
    BY <1>1, <1>5, <2>2 DEF Seen, Succeeds, Waited
<1> QED
  BY <1>2, <1>3, <1>4, <1>5

LEMMA InitIsAwaited ==
    ASSUME Inv, NEW line, HandleInitialize(line), Initialized
    PROVE  line \in Awaited
<1>1. client.phase = "initializing" /\ client'.phase = "exchanging"
  BY DEF Inv, ClientType, Initialized, HandleInitialize
<1>2. line = "Init"
  BY <1>1 DEF HandleInitialize, Ends, Inv, ClientType
<1> QED
  BY <1>1, <1>2 DEF Awaited

LEMMA HandleSeen ==
    ASSUME Inv, client.waiting, NEW line \in Messages, Handle(line),
           orderly' = IF line \in Awaited THEN orderly ELSE FALSE
    PROVE  Seen
<1> USE DEF Inv
<1> DEFINE Others == {"Json", "OversizedMessage", "Server", "Io"}
<1>1. client.outcome = None /\ Exchanging
  BY DEF OutcomeOpen, Exchanging, Early
<1>2. ASSUME NEW outcome \in Others, Ends(outcome) PROVE Seen
  <2>1. outcome \in Errors /\ outcome \notin {"InitializeTimeout", "Timeout"}
    BY DEF Errors
  <2> QED
    BY <1>1, <1>2, <2>1, EndsSeen DEF Seen
<1> HIDE DEF Others
<1>3. "Json" \in Others /\ "Server" \in Others /\ "Io" \in Others
  BY DEF Others
<1>4. CASE line = "Notification"
  <2>1. client' = [client EXCEPT !.waiting = FALSE]
    BY <1>4 DEF Handle
  <2> QED
    BY <1>4, <2>1 DEF Seen, Answers, ClientType, Awaited
<1>5. CASE line # "Notification" /\ Misread(line) # None
  <2>1. Ends(Misread(line)) /\ Misread(line) \in Others
    BY <1>5 DEF Handle, Misread, Others
  <2> QED
    BY <1>2, <2>1
<1>6. CASE HandleInitialize(line)
  <2>1. CASE Initialized
    <3>1. PICK asked \in BOOLEAN :
            client' = [client EXCEPT !.phase = "exchanging", !.waiting = FALSE,
                                     !.asked = asked]
      BY <2>1 DEF Initialized
    <3>2. line \in Awaited
      BY <1>6, <2>1, InitIsAwaited
    <3> QED
      BY <3>1, <3>2 DEF Seen, Answers, ClientType
  <2> QED
    BY <1>2, <1>3, <1>6, <2>1 DEF HandleInitialize, WriteFails
<1>7. CASE HandleResponse(line) /\ line # "Notification" /\ Misread(line) = None
  <2>1. CASE Ends("Server") \/ Ends("Json")
    BY <1>2, <1>3, <2>1
  <2>2. CASE client.phase = "exchanging" /\ (UsageHeard(line) \/ LimitsHeard(line))
    <3>1. line \in Awaited
      BY <2>2 DEF Awaited, UsageHeard, LimitsHeard
    <3> QED
      BY <1>1, <2>2, <3>1 DEF Seen, Hears, ClientType, UsageHeard, LimitsHeard
  <2> QED
    BY <1>7, <2>1, <2>2, ResponseIs
<1> QED
  BY <1>4, <1>5, <1>6, <1>7 DEF Handle

\* A message ends the exchange neither as stopped nor as a flood.
LEMMA ReceiveNames ==
    ASSUME Inv, Receive
    PROVE  client'.outcome \notin {"Stopped", "MessageFlood"}
<1> USE DEF Inv
<1> DEFINE line == Head(queue)
<1>1. client.waiting /\ Handle(line) /\ line \in Messages
  BY TailType DEF Receive, QueueType
<1>2. client.outcome = None /\ None \notin {"Stopped", "MessageFlood"}
  BY <1>1, SessionAssumption
  DEF OutcomeOpen, Exchanging, Early, SessionAssumption, Errors
<1> HIDE DEF line
<1>3. ASSUME NEW outcome \in {"Json", "OversizedMessage", "Server", "Io"}, Ends(outcome)
      PROVE  client'.outcome \notin {"Stopped", "MessageFlood"}
  BY <1>3 DEF Ends, ClientType
<1>4. CASE line # "Notification" /\ Misread(line) # None
  BY <1>1, <1>3, <1>4 DEF Handle, Misread
<1>5. CASE line = "Notification"
  BY <1>1, <1>2, <1>5 DEF Handle, ClientType
<1>6. CASE HandleInitialize(line)
  BY <1>2, <1>3, <1>6 DEF HandleInitialize, Initialized, WriteFails, ClientType
<1>7. CASE HandleResponse(line) /\ line # "Notification" /\ Misread(line) = None
  <2>1. CASE Ends("Server") \/ Ends("Json")
    BY <1>3, <2>1
  <2>2. CASE UsageHeard(line) \/ LimitsHeard(line)
    BY <1>2, <2>2 DEF UsageHeard, LimitsHeard, ClientType
  <2> QED
    BY <1>1, <1>7, <2>1, <2>2, ResponseIs
<1> QED
  BY <1>1, <1>4, <1>5, <1>6, <1>7 DEF Handle

LEMMA ExchangeSeen == ASSUME Inv, Order, Exchange PROVE Seen /\ UNCHANGED server
<1> USE DEF Inv
<1>1. CASE Start
  <2>1. client.outcome = None /\ ~client.usage /\ UNCHANGED <<server, orderly>>
    BY <1>1 DEF Start, OutcomeOpen, Early, Order
  <2>2. CASE client' = [client EXCEPT !.phase = "initializing"]
    BY <2>1, <2>2 DEF Seen, Answers, ClientType
  <2>3. CASE \E outcome \in {"InitializeTimeout", "Json", "Io"} : Ends(outcome)
    BY <2>1, <2>3, EndsSeen DEF Seen, Errors
  <2> QED
    BY <1>1, <2>1, <2>2, <2>3 DEF Start, WriteFails
<1>2. CASE Attend
  <2>1. CASE Past /\ TimedOut
    BY <1>2, <2>1, TimedOutSeen DEF Attend
  <2>2. CASE client' = [client EXCEPT !.waiting = TRUE, !.watch = Watched]
    BY <1>2, <2>2 DEF Attend, Seen, Answers, ClientType
  <2> QED
    BY <1>2, <2>1, <2>2 DEF Attend, Past
<1>3. CASE Receive
  <2>1. Head(queue) \in Messages
    BY <1>3, TailType DEF Receive, QueueType
  <2> QED
    BY <1>3, <2>1, HandleSeen DEF Receive
<1>4. CASE Expire
  BY <1>4, TimedOutSeen DEF Expire, OutcomeOpen
<1>5. CASE Disconnect
  <2>1. client.outcome = None /\ StreamEnded /\ UNCHANGED <<server, orderly>>
    BY <1>5 DEF Disconnect, OutcomeOpen, Exchanging, Early
  <2>2. CASE \E outcome \in {"MessageFlood", "Stopped"} : Ends(outcome)
    BY <2>1, <2>2, EndsSeen DEF Seen, Errors
  <2>3. CASE client' = [client EXCEPT !.phase = "exiting", !.waiting = FALSE]
    BY <2>1, <2>3 DEF Seen, Answers, ClientType
  <2> QED
    BY <2>1, <2>2, <2>3 DEF StreamEnded
<1>6. CASE AwaitExit
  <2>1. /\ client.outcome = None /\ client.usage /\ UNCHANGED <<server, orderly>>
        /\ reader.phase = "done" /\ queue = <<>>
    BY <1>6 DEF AwaitExit, OutcomeOpen, Early, StreamOver
  <2>2. CASE Ends("Stopped")
    BY <2>1, <2>2, EndsSeen DEF Seen, Errors
  <2>3. CASE server.status = "success" /\ Ends("snapshot")
    <3>1. client'.outcome = "snapshot" /\ UNCHANGED Answers
      BY <2>3 DEF Ends, ClientType, Answers
    <3> QED
      BY <2>1, <2>3, <3>1 DEF Seen, Succeeds, Waited
  <2> QED
    BY <1>6, <2>2, <2>3 DEF AwaitExit
<1> QED
  BY <1>1, <1>2, <1>3, <1>4, <1>5, <1>6 DEF Exchange

LEMMA TeardownSeen ==
    ASSUME Inv, Teardown
    PROVE  UNCHANGED <<client.usage, client.limits, client.outcome, server.status, orderly>>
<1>1. /\ UNCHANGED orderly
      /\ \E phase \in {"grace", "killing", "reaping", "joining", "returned"} : Enter(phase)
      /\ \/ UNCHANGED server
         \/ server' = [server EXCEPT !.killed = IF GroupExists THEN {"child", "group"}
                                                 ELSE {}]
  BY DEF Teardown, Terminate, Grace, Kill, Reap, Join
<1> QED
  BY <1>1 DEF Inv, Enter, ClientType, ServerType

\* Everyone else leaves the client alone, and the child ends once.
LEMMA OthersSeen ==
    ASSUME Inv, Order, Reading \/ Deadline \/ ServerStep \/ KillTakesEffect \/ UNCHANGED vars
    PROVE  /\ UNCHANGED <<client, orderly>>
           /\ \/ UNCHANGED server.status
              \/ server.status = None /\ server'.status \in {"success", "failure"}
<1> USE DEF Inv
<1>1. UNCHANGED <<client, orderly>>
  BY DEF Reading, ReadLine, StopReading, CloseChannel, Deadline, ServerStep,
     KillTakesEffect, vars
<1>2. CASE UNCHANGED server
  BY <1>1, <1>2
<1>3. CASE ReadLine \/ Write \/ CloseOutput \/ Descend
  BY <1>1, <1>3 DEF ReadLine, Write, CloseOutput, Descend, ServerType
<1>4. CASE Exit
  <2>1. PICK p \in server.alive : \E status \in
              (IF p = "child" THEN {"success", "failure"} ELSE {server.status}) :
            server' = [server EXCEPT !.alive = @ \ {p}, !.status = status]
    BY <1>4 DEF Exit
  <2> QED
    BY <1>1, <2>1 DEF ServerType, Order
<1>5. CASE Die
  <2>1. PICK p \in server.alive :
            server' = [server EXCEPT !.alive = @ \ {p}, !.holding = @ \ {p},
                                     !.status = IF p = "child" THEN "failure" ELSE @]
    BY <1>5 DEF Die
  <2> QED
    BY <1>1, <2>1 DEF ServerType, Order
<1> QED
  BY <1>2, <1>3, <1>4, <1>5
  DEF Reading, StopReading, CloseChannel, Deadline, ServerStep, KillTakesEffect, vars

\* The caller's view of every step.
LEMMA StepSeen ==
    ASSUME Inv, Order, [Next]_vars
    PROVE  \/ Seen /\ UNCHANGED server.status
           \/ /\ UNCHANGED <<Answers, client.outcome, orderly>>
              /\ server.status = None /\ server'.status \in {"success", "failure"}
<1>1. CASE Exchange
  BY <1>1, ExchangeSeen
<1>2. CASE Teardown
  BY <1>2, TeardownSeen DEF Seen, Answers
<1>3. CASE Reading \/ Deadline \/ ServerStep \/ KillTakesEffect \/ UNCHANGED vars
  <2>1. /\ UNCHANGED <<client, orderly>>
        /\ \/ UNCHANGED server.status
           \/ server.status = None /\ server'.status \in {"success", "failure"}
    BY <1>3, OthersSeen
  <2> QED
    BY <2>1 DEF Seen, Answers
<1> QED
  BY <1>1, <1>2, <1>3 DEF Next, Ended

Opening == {"starting", "initializing"}

\* The client does not come back to the initialization.
LEMMA OpeningIsFirst ==
    ASSUME Inv, [Next]_vars, client'.phase \in Opening
    PROVE  client.phase \in Opening
<1> USE DEF Inv
<1> SUFFICES ASSUME client.phase \notin Opening PROVE FALSE
  OBVIOUS
<1>1. ASSUME NEW outcome, Ends(outcome) PROVE FALSE
  BY <1>1 DEF Ends, ClientType, Opening
<1>2. client'.phase # client.phase
  OBVIOUS
<1>3. CASE Start
  BY <1>3 DEF Start, Opening
<1>4. CASE Attend \/ Expire
  <2>1. CASE client' = [client EXCEPT !.waiting = TRUE, !.watch = Watched]
    BY <1>2, <2>1 DEF ClientType
  <2> QED
    BY <1>1, <1>4, <2>1 DEF Attend, Expire, TimedOut
<1>5. CASE Receive
  <2> DEFINE line == Head(queue)
  <2>1. Handle(line) /\ line \in Messages
    BY <1>5, TailType DEF Receive, QueueType
  <2> HIDE DEF line
  <2>2. CASE line = "Notification"
    BY <1>2, <2>1, <2>2 DEF Handle, ClientType
  <2>3. CASE HandleInitialize(line)
    BY <2>3 DEF HandleInitialize, Opening
  <2>4. CASE HandleResponse(line) /\ line # "Notification" /\ Misread(line) = None
    <3>1. UsageHeard(line) \/ LimitsHeard(line)
      BY <1>1, <2>1, <2>4, ResponseIs
    <3> QED
      BY <1>2, <3>1 DEF UsageHeard, LimitsHeard, ClientType
  <2> QED
    BY <1>1, <2>1, <2>2, <2>3, <2>4 DEF Handle
<1>6. CASE Disconnect
  <2>1. CASE client' = [client EXCEPT !.phase = "exiting", !.waiting = FALSE]
    BY <2>1 DEF ClientType, Opening
  <2> QED
    BY <1>1, <1>6, <2>1 DEF Disconnect, StreamEnded
<1>7. CASE AwaitExit
  BY <1>1, <1>7 DEF AwaitExit
<1>8. CASE Teardown
  <2>1. PICK phase \in {"grace", "killing", "reaping", "joining", "returned"} :
          client' = [client EXCEPT !.phase = phase]
    BY <1>8 DEF Teardown, Terminate, Grace, Kill, Reap, Join, Enter
  <2> QED
    BY <2>1 DEF ClientType, Opening
<1>9. CASE Reading \/ Deadline \/ ServerStep \/ KillTakesEffect \/ UNCHANGED vars
  BY <1>2, <1>9 DEF Reading, ReadLine, StopReading, CloseChannel, Deadline, ServerStep,
     KillTakesEffect, vars
<1> QED
  BY <1>3, <1>4, <1>5, <1>6, <1>7, <1>8, <1>9 DEF Next, Exchange, Ended

LEMMA ChildEndsOnce ==
    ASSUME Inv, Order, [Next]_vars, "child" \in server'.alive
    PROVE  server'.status = None
<1> USE DEF Inv
<1>1. CASE UNCHANGED server \/ ReadLine \/ Write \/ CloseOutput \/ Kill
  <2>1. UNCHANGED <<server.alive, server.status>>
    BY <1>1 DEF ReadLine, Write, CloseOutput, Kill, ServerType
  <2> QED
    BY <2>1 DEF Order
<1>2. CASE Descend
  <2>1. PICK parent \in server.alive, p \in Descendants :
          server' = [server EXCEPT !.alive = @ \cup {p},
                       !.holding = IF parent \in @ THEN @ \cup {p} ELSE @]
    BY <1>2 DEF Descend
  <2>2. p # "child"
    BY SessionAssumption DEF SessionAssumption
  <2> QED
    BY <2>1, <2>2 DEF ServerType, Order
<1>3. CASE Exit
  <2>1. PICK p \in server.alive : \E status \in
              (IF p = "child" THEN {"success", "failure"} ELSE {server.status}) :
            server' = [server EXCEPT !.alive = @ \ {p}, !.status = status]
    BY <1>3 DEF Exit
  <2> QED
    BY <2>1 DEF ServerType, Order
<1>4. CASE Die
  <2>1. PICK p \in server.alive :
            server' = [server EXCEPT !.alive = @ \ {p}, !.holding = @ \ {p},
                                     !.status = IF p = "child" THEN "failure" ELSE @]
    BY <1>4 DEF Die
  <2> QED
    BY <2>1 DEF ServerType, Order
<1>5. CASE Exchange
  BY <1>1, <1>5, ExchangeSeen
<1>6. CASE Teardown \/ Reading \/ Deadline \/ UNCHANGED vars
  BY <1>1, <1>6 DEF Teardown, Terminate, Grace, Reap, Join, Reading, StopReading,
     CloseChannel, Deadline, vars
<1> QED
  BY <1>2, <1>3, <1>4, <1>1, <1>5, <1>6 DEF Next, Ended, ServerStep, KillTakesEffect

\* Order is invariant too.
LEMMA OrderInv == ASSUME Inv, Order, [Next]_vars PROVE Order'
<1>1. ASSUME client'.phase \in Opening PROVE ~client'.usage
  <2>1. client.phase \in Opening /\ ~client.usage
    BY <1>1, OpeningIsFirst DEF Order, Opening
  <2> QED
    BY <2>1, StepSeen DEF Seen, Hears, GivesUp, Succeeds, Answers, Opening
<1> QED
  BY <1>1, ChildEndsOnce DEF Order, Opening

LEMMA SessionOrder == Spec => [](Inv /\ Order)
<1>1. Init => Order
  BY DEF Init, Order
<1>2. Inv /\ Order /\ [Next]_vars => Order'
  BY OrderInv
<1> QED
  BY <1>1, <1>2, SessionInductive, PTL DEF Spec

\* A success is never rushed: the snapshot is returned only when a deadline has
\* passed or the server's stream has ended with a clean exit.
THEOREM NeverRushed == Spec => Unhurried
<1>1. ASSUME Inv, Order, [Next]_vars, client.outcome = None, client'.outcome = "snapshot"
      PROVE  \/ Past
             \/ reader.phase = "done" /\ queue = <<>> /\ server.status = "success"
  <2>1. "snapshot" # None /\ "snapshot" \notin Errors
    BY SessionAssumption DEF SessionAssumption, Errors
  <2> QED
    BY <1>1, <2>1, StepSeen DEF Seen, Hears, GivesUp, Waited
<1> QED
  BY <1>1, SessionOrder, PTL DEF Spec, Unhurried

\* How each step that gives the session its outcome names it: too many messages are
\* named as such, unless the fetch is out of time, still has messages to read, or
\* has failed at the start; a cut-off server counts as stopped only when it has
\* failed and time is up after the usage answer; and one that was not cut off is
\* never told of too many messages (receive_message, exchange_messages).
THEOREM FloodIsNamed == Spec => FloodNamed
<1> DEFINE Named ==
      /\ client'.outcome = "MessageFlood" => reader.flooded
      /\ client'.outcome = "Stopped" /\ reader.flooded
           => Past /\ client.usage /\ server.status = "failure"
      /\ reader.flooded /\ queue = <<>> /\ ~Past /\ client.phase # "starting"
           => client'.outcome = "MessageFlood"
<1>1. ASSUME Inv, Order, [Next]_vars, client.outcome = None, client'.outcome # None
      PROVE  Named
  <2> USE <1>1 DEF Inv
  <2> SUFFICES ASSUME Exchange PROVE Named
    BY TeardownSeen, OthersSeen DEF Next, Ended
  <2>1. CASE Start
    BY <2>1, EndsType, SessionAssumption
    DEF Start, WriteFails, Ends, ClientType, SessionAssumption, Errors
  <2>2. CASE Past /\ TimedOut
    BY <2>2 DEF TimedOut, Ends, ClientType
  <2>3. CASE client' = [client EXCEPT !.waiting = TRUE, !.watch = Watched]
    BY <2>3 DEF ClientType
  <2>4. CASE Attend \/ Expire
    BY <2>2, <2>3, <2>4 DEF Attend, Expire, Past
  <2>5. CASE Receive
    BY <2>5, ReceiveNames DEF Receive
  <2>6. CASE Disconnect
    BY <2>6 DEF Disconnect, StreamEnded, Ends, ClientType
  <2>7. CASE AwaitExit
    BY <2>7 DEF AwaitExit, StreamOver, Ends, ClientType
  <2> QED
    BY <2>1, <2>4, <2>5, <2>6, <2>7 DEF Exchange
<1> QED
  BY <1>1, SessionOrder, PTL DEF Spec, FloodNamed

\* The session implements what a fetch promises: whatever the server and the
\* scheduler do, the caller sees one outcome, built from answers given once.
THEOREM SessionKeepsPromise == Spec => Promise
<1>1. Init => Fetch!Init
  BY DEF Init, Fetch!Init
<1>2. Inv /\ Order /\ [Next]_vars => [Fetch!Next]_(Fetch!fetchVars)
  <2> SUFFICES ASSUME Inv, Order, [Next]_vars
               PROVE  Fetch!Next \/ UNCHANGED Fetch!fetchVars
    OBVIOUS
  <2>1. CASE Hears /\ UNCHANGED server.status
    BY <2>1 DEF Hears, Inv, ClientType, Fetch!Next, Fetch!HearUsage, Fetch!HearLimits,
       LimitAnswers, Fetch!LimitAnswers
  <2>2. CASE GivesUp /\ UNCHANGED server.status
    BY <2>2 DEF GivesUp, Answers, Errors, Fetch!Next, Fetch!Fail, Fetch!Errors, Fetch!Timeouts
  <2>3. CASE Succeeds /\ UNCHANGED server.status
    BY <2>3 DEF Succeeds, Answers, Fetch!Next, Fetch!Succeed
  <2>4. CASE /\ UNCHANGED <<Answers, client.outcome, orderly>>
             /\ server.status = None /\ server'.status \in {"success", "failure"}
    BY <2>4 DEF Answers, Fetch!Next, Fetch!ServerEnds, Fetch!Statuses
  <2>5. CASE UNCHANGED <<Answers, client.outcome, orderly>> /\ UNCHANGED server.status
    BY <2>5 DEF Answers, Fetch!fetchVars
  <2> QED
    BY <2>1, <2>2, <2>3, <2>4, <2>5, StepSeen DEF Seen
<1> QED
  BY <1>1, <1>2, SessionOrder, PTL DEF Spec, Promise, Fetch!Spec
=============================================================================
