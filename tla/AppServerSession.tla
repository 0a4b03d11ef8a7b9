-------------------------- MODULE AppServerSession --------------------------
(***************************************************************************)
(* One fetch of the Linux application (linux/src/app_server.rs): the       *)
(* calling thread speaks JSON-RPC with a Codex app-server child, a reader  *)
(* thread turns the child's output into a bounded channel of messages, and *)
(* the child's process group is ended when the exchange is over.           *)
(*                                                                         *)
(* The server is any program at all: it writes any line at any moment,     *)
(* exits, crashes, or leaves descendants behind that hold its output open, *)
(* in its process group or escaped from it.  Nothing is assumed of it.     *)
(***************************************************************************)
EXTENDS Naturals, Sequences

CONSTANTS None,
          Output,               \* bound: the lines a server may write
          Descendants,          \* bound: the kinds of descendants it may have
          MaxPendingMessages,   \* capacity of the channel
          MaxBlankMessages,     \* blank lines that are ignored
          PipeCapacity          \* bound: lines the pipe holds

\* Lines by what the client makes of them.  A response is named for the request
\* it answers; "Bad" ones do not decode, "Stray" is an id nobody asked for,
\* "Garbage" is no JSON, "Invalid" JSON but no message; "Oversized" is longer than
\* a line may be, "Unreadable" no text.
Lines == {"Blank", "Notification", "Garbage", "Invalid", "Oversized", "Unreadable",
          "Stray", "Init", "InitError", "Usage", "UsageBad", "UsageError",
          "Limits", "LimitsBad", "LimitsError"}

\* The lines that reach the client.
Messages == Lines \ {"Blank"}

\* The reader cannot make a line of them: it passes on an error and ends.
Unread == {"Oversized", "Unreadable"}

LimitAnswers == {"valid", "failed", "malformed"}
Errors == {"InitializeTimeout", "Timeout", "Stopped", "MessageFlood",
           "Server", "Json", "Io", "OversizedMessage"}

ASSUME SessionAssumption ==
    /\ None \notin Lines \cup Errors \cup LimitAnswers \cup {"snapshot"}
    /\ Output \subseteq Lines
    /\ Descendants \subseteq {"group", "escaped"}
    /\ MaxPendingMessages \in Nat \ {0} /\ PipeCapacity \in Nat \ {0}
    /\ MaxBlankMessages \in Nat

VARIABLES client,       \* the calling thread
          reader,       \* the stdout reader thread
          queue,        \* the channel between them
          stop,         \* stop_readers
          server,       \* the child, its descendants and its output pipe
          due,          \* the client's current own deadline has passed
          late,         \* the deadline of the whole fetch has passed
          orderly       \* no response was heard that nobody awaited; no guard reads it

vars == <<client, reader, queue, stop, server, due, late, orderly>>

\* The loops of the client, in the order it goes through them: the exchange,
\* child_exited_successfully, terminate_and_reap and the join of the reader.
Phases == {"starting", "initializing", "exchanging", "exiting",
           "terminating", "grace", "killing", "reaping", "joining", "returned"}

Processes == {"child", "group", "escaped"}

-----------------------------------------------------------------------------
(* Time.  A deadline may pass at any moment while the client heeds it. *)

\* The deadline the client waits for besides that of the whole fetch.
OwnDeadline == \/ client.phase \in {"initializing", "exiting", "grace", "joining"}
               \/ client.phase = "exchanging" /\ client.watch # None

Exchanging == client.phase \in {"initializing", "exchanging"}

TimePasses == \/ /\ OwnDeadline /\ due' = TRUE
                 /\ UNCHANGED late
              \/ /\ client.phase = "starting" \/ Exchanging
                 /\ late' = TRUE
                 /\ UNCHANGED due

Deadline == TimePasses /\ UNCHANGED <<client, reader, queue, stop, server, orderly>>

Past == due \/ late

-----------------------------------------------------------------------------
(* The client. *)

\* exchange_messages returns outcome; what follows is the same for all of them.
Ends(outcome) ==
    client' = [client EXCEPT !.phase = "terminating", !.waiting = FALSE,
                             !.outcome = outcome]

\* write_message: the server does not take what it is sent.  An error while the
\* value is written comes as one of serde_json, one at the line's end does not.
WriteFails == Ends("Json") \/ Ends("Io")

\* The start: pipes set up or not, the first deadline check, the first request.
Start == /\ client.phase = "starting"
         /\ \/ ~late /\ client' = [client EXCEPT !.phase = "initializing"]
               /\ UNCHANGED reader
            \/ late /\ Ends("InitializeTimeout") /\ UNCHANGED reader
            \/ ~late /\ WriteFails /\ UNCHANGED reader
            \/ Ends("Io") /\ reader' = [reader EXCEPT !.phase = "done"]
         /\ UNCHANGED <<queue, stop, server, due, late, orderly>>

LimitsResolved == client.limits # None \/ ~client.asked

\* The deadline the loop arms: the rate-limit grace while only that answer is
\* missing, the stability grace once nothing is.
Watched == CASE client.usage /\ LimitsResolved -> "stability"
             [] client.usage /\ ~LimitsResolved -> "rateLimits"
             [] OTHER -> None

\* Mutant of TimedOut: a server that has failed meanwhile goes unnoticed.
TimedOutUnchecked ==
    IF client.phase = "initializing" THEN Ends("InitializeTimeout")
    ELSE IF client.usage THEN Ends("snapshot") ELSE Ends("Timeout")

\* receive_message times out: with the usage answer in hand that is a success,
\* unless the child has failed in the meantime.
TimedOut ==
    IF client.phase = "initializing" THEN Ends("InitializeTimeout")
    ELSE IF ~client.usage THEN Ends("Timeout")
    ELSE IF server.status = "failure" THEN Ends("Stopped") ELSE Ends("snapshot")

\* Mutant of Attend: recv_timeout is entered whether or not time is left.
AttendAnyway ==
    /\ Exchanging /\ ~client.waiting
    /\ client' = [client EXCEPT !.waiting = TRUE, !.watch = Watched]
    /\ due' = IF client.watch # Watched THEN FALSE ELSE due
    /\ UNCHANGED <<reader, queue, stop, server, late, orderly>>

\* Top of the loop: arm a deadline, then check what time is left.
Attend ==
    /\ Exchanging /\ ~client.waiting
    /\ LET armed == client.phase = "exchanging" /\ client.watch # Watched
           passed == late \/ (due /\ ~armed)
       IN  /\ IF passed THEN TimedOut
              ELSE client' = [client EXCEPT !.waiting = TRUE, !.watch = Watched]
           /\ due' = IF passed \/ armed THEN FALSE ELSE due
    /\ UNCHANGED <<reader, queue, stop, server, late, orderly>>

\* The message is none of the client's business, or it fails the exchange,
\* whatever the phase.
Misread(line) ==
    CASE line = "Garbage" -> "Json"
      [] line = "Oversized" -> "OversizedMessage"
      [] line = "Unreadable" -> "Io"
      [] line \in {"Invalid", "Stray"} -> "Server"
      [] OTHER -> None

Initialized == \E asked \in BOOLEAN :
    client' = [client EXCEPT !.phase = "exchanging", !.waiting = FALSE, !.asked = asked]

\* A response while the server is being initialized; a write may fail.
HandleInitialize(line) ==
    /\ client.phase = "initializing"
    /\ IF line = "Init" THEN Initialized \/ WriteFails ELSE Ends("Server")

\* Mutant of Answer: a second answer replaces the first.
AnswerAgain(line) ==
    CASE line = "Usage" -> client' = [client EXCEPT !.usage = TRUE, !.waiting = FALSE]
      [] line = "UsageBad" -> Ends("Json")
      [] line = "UsageError" -> Ends("Server")
      [] line = "Limits" -> client' = [client EXCEPT !.limits = "valid", !.waiting = FALSE]
      [] line = "LimitsBad" ->
            client' = [client EXCEPT !.limits = "malformed", !.waiting = FALSE]
      [] line = "LimitsError" ->
            client' = [client EXCEPT !.limits = "failed", !.waiting = FALSE]

\* Usage must be answered, and well; the rate limits are optional, but even
\* they are answered once.
Answer(line) ==
    CASE line \in {"Usage", "UsageBad", "UsageError"} /\ client.usage -> Ends("Server")
      [] line \in {"Limits", "LimitsBad", "LimitsError"} /\ client.limits # None ->
            Ends("Server")
      [] OTHER -> AnswerAgain(line)

HandleResponse(line) ==
    /\ client.phase = "exchanging"
    /\ IF line \in {"Init", "InitError"} THEN Ends("Server") ELSE Answer(line)

\* Mutant of Handle: a response that nobody asked for is passed over.
HandleLeniently(line) ==
    IF line \in {"Notification", "Stray"} THEN client' = [client EXCEPT !.waiting = FALSE]
    ELSE IF Misread(line) # None THEN Ends(Misread(line))
    ELSE HandleInitialize(line) \/ HandleResponse(line)

Handle(line) ==
    IF line = "Notification" THEN client' = [client EXCEPT !.waiting = FALSE]
    ELSE IF Misread(line) # None THEN Ends(Misread(line))
    ELSE HandleInitialize(line) \/ HandleResponse(line)

\* The messages that are in place: a notification at any time, and the answers to
\* what has been asked for and not been answered yet.  The rate-limit request may
\* have got through although writing it failed.
Awaited ==
    {"Notification"} \cup
    (IF client.phase = "initializing" THEN {"Init", "InitError"}
     ELSE (IF client.usage THEN {} ELSE {"Usage", "UsageBad", "UsageError"}) \cup
          (IF client.limits # None THEN {} ELSE {"Limits", "LimitsBad", "LimitsError"}))

\* recv_timeout has a message.
Receive == /\ client.waiting /\ queue # <<>>
           /\ Handle(Head(queue))
           /\ queue' = Tail(queue)
           /\ due' = IF client'.phase = client.phase THEN due ELSE FALSE
           /\ orderly' = IF Head(queue) \in Awaited THEN orderly ELSE FALSE
           /\ UNCHANGED <<reader, stop, server, late>>

\* recv_timeout has none in time.
Expire == /\ client.waiting /\ queue = <<>> /\ Past
          /\ TimedOut
          /\ due' = FALSE
          /\ UNCHANGED <<reader, queue, stop, server, late, orderly>>

\* Mutants of StreamEnded: the flood flag is not read; the usage answer is there,
\* so the exit does not matter.
StreamEndedUnflagged ==
    IF client.usage
    THEN client' = [client EXCEPT !.phase = "exiting", !.waiting = FALSE]
    ELSE Ends("Stopped")

StreamEndedContent ==
    IF client.usage THEN Ends("snapshot")
    ELSE Ends(IF reader.flooded THEN "MessageFlood" ELSE "Stopped")

\* The channel is closed: with the usage answer the child's exit decides.
StreamEnded ==
    IF reader.flooded THEN Ends("MessageFlood")
    ELSE IF client.usage
         THEN client' = [client EXCEPT !.phase = "exiting", !.waiting = FALSE]
         ELSE Ends("Stopped")

Disconnect == /\ client.waiting /\ queue = <<>> /\ reader.phase = "done"
              /\ StreamEnded
              /\ due' = FALSE
              /\ UNCHANGED <<reader, queue, stop, server, late, orderly>>

\* child_exited_successfully
AwaitExit == /\ client.phase = "exiting"
             /\ \/ server.status = "success" /\ Ends("snapshot")
                \/ server.status = "failure" /\ Ends("Stopped")
                \/ server.status = None /\ due /\ Ends("Stopped")
             /\ due' = FALSE
             /\ UNCHANGED <<reader, queue, stop, server, late, orderly>>

Enter(phase) == client' = [client EXCEPT !.phase = phase]

GroupExists == server.alive \cap {"child", "group"} # {}

\* Mutant of Kill: the child is killed, what it started is not.
KillChild == /\ client.phase = "killing"
             /\ server' = [server EXCEPT !.killed = {"child"}]
             /\ Enter("reaping")
             /\ UNCHANGED <<reader, queue, stop, due, late, orderly>>

\* terminate_and_reap.  SIGTERM asks for what processes here do anyway: any of
\* them may end at any moment, and none has to.
Terminate == /\ client.phase = "terminating"
             /\ Enter("grace")
             /\ UNCHANGED <<reader, queue, stop, server, due, late, orderly>>

Grace == /\ client.phase = "grace"
         /\ due \/ ~GroupExists
         /\ Enter("killing")
         /\ due' = FALSE
         /\ UNCHANGED <<reader, queue, stop, server, late, orderly>>

Kill == /\ client.phase = "killing"
        /\ server' = [server EXCEPT !.killed = IF GroupExists THEN {"child", "group"}
                                               ELSE {}]
        /\ Enter("reaping")
        /\ UNCHANGED <<reader, queue, stop, due, late, orderly>>

\* child.wait; then the readers are told to stop.
Reap == /\ client.phase = "reaping" /\ "child" \notin server.alive
        /\ stop' = TRUE
        /\ Enter("joining")
        /\ UNCHANGED <<reader, queue, server, due, late, orderly>>

\* A reader that does not finish in time is detached.
Join == /\ client.phase = "joining"
        /\ reader.phase # "reading" \/ due
        /\ Enter("returned")
        /\ due' = FALSE
        /\ UNCHANGED <<reader, queue, stop, server, late, orderly>>

Exchange == Start \/ Attend \/ Receive \/ Expire \/ Disconnect \/ AwaitExit

Teardown == Terminate \/ Grace \/ Kill \/ Reap \/ Join

-----------------------------------------------------------------------------
(* The reader thread. *)

\* Mutant of Pass: the channel has no bound.
PassUnbounded(line) ==
    /\ queue' = Append(queue, line)
    /\ reader' = [reader EXCEPT !.phase = IF line \in Unread THEN "closing" ELSE @]

\* A line the reader passes on: the channel has room or the server is too fast.
Pass(line) ==
    IF Len(queue) < MaxPendingMessages
    THEN /\ queue' = Append(queue, line)
         /\ reader' = [reader EXCEPT !.phase = IF line \in Unread THEN "closing" ELSE @]
    ELSE /\ reader' = [reader EXCEPT !.phase = "closing", !.flooded = TRUE]
         /\ UNCHANGED queue

CountBlank ==
    /\ reader' = IF reader.blanks < MaxBlankMessages
                 THEN [reader EXCEPT !.blanks = @ + 1]
                 ELSE [reader EXCEPT !.phase = "closing", !.flooded = TRUE]
    /\ UNCHANGED queue

ReadLine == /\ reader.phase = "reading" /\ ~stop /\ server.pipe # <<>>
            /\ IF Head(server.pipe) = "Blank" THEN CountBlank ELSE Pass(Head(server.pipe))
            /\ server' = [server EXCEPT !.pipe = Tail(@)]
            /\ UNCHANGED <<client, stop, due, late, orderly>>

\* Mutant of StopReading: only the end of the output ends the thread.
StopAtEof == /\ reader.phase = "reading"
             /\ server.pipe = <<>> /\ server.holding = {}
             /\ reader' = [reader EXCEPT !.phase = "closing"]
             /\ UNCHANGED <<client, queue, stop, server, due, late, orderly>>

\* The end of the output, when no process holds it open, or the stop flag.
StopReading == /\ reader.phase = "reading"
               /\ stop \/ (server.pipe = <<>> /\ server.holding = {})
               /\ reader' = [reader EXCEPT !.phase = "closing"]
               /\ UNCHANGED <<client, queue, stop, server, due, late, orderly>>

\* The thread ends: its sender is dropped, after the flood flag is set.
CloseChannel == /\ reader.phase = "closing"
                /\ reader' = [reader EXCEPT !.phase = "done"]
                /\ UNCHANGED <<client, queue, stop, server, due, late, orderly>>

Reading == ReadLine \/ StopReading \/ CloseChannel

-----------------------------------------------------------------------------
(* The server, and the system it runs on. *)

Write == /\ server.holding # {} /\ Len(server.pipe) < PipeCapacity
         /\ \E line \in Output : server' = [server EXCEPT !.pipe = Append(@, line)]

\* A process closes the output, or starts another that inherits it.
CloseOutput == \E p \in server.holding : server' = [server EXCEPT !.holding = @ \ {p}]

Descend == \E parent \in server.alive \ (server.killed \cup {"escaped"}) :
    \E p \in Descendants \ server.alive :
        server' = [server EXCEPT !.alive = @ \cup {p},
                     !.holding = IF parent \in @ THEN @ \cup {p} ELSE @]

\* A process ends.  Its output is closed before its status can be seen.
Exit == \E p \in server.alive \ server.holding :
    \E status \in (IF p = "child" THEN {"success", "failure"} ELSE {server.status}) :
        server' = [server EXCEPT !.alive = @ \ {p}, !.status = status]

\* SIGKILL ends a process whatever it does.
Die == \E p \in server.alive \cap server.killed :
    server' = [server EXCEPT !.alive = @ \ {p}, !.holding = @ \ {p},
                             !.status = IF p = "child" THEN "failure" ELSE @]

ServerStep == /\ Write \/ CloseOutput \/ Descend \/ Exit
              /\ UNCHANGED <<client, reader, queue, stop, due, late, orderly>>

KillTakesEffect == Die /\ UNCHANGED <<client, reader, queue, stop, due, late, orderly>>

-----------------------------------------------------------------------------

Init ==
    /\ client = [phase |-> "starting", waiting |-> FALSE, asked |-> FALSE, usage |-> FALSE,
                 limits |-> None, watch |-> None, outcome |-> None]
    /\ reader = [phase |-> "reading", blanks |-> 0, flooded |-> FALSE]
    /\ queue = <<>> /\ stop = FALSE /\ due = FALSE
    /\ server = [alive |-> {"child"}, holding |-> {"child"}, killed |-> {},
                 status |-> None, pipe |-> <<>>]
    /\ late \in BOOLEAN /\ orderly = TRUE

\* Nothing else need happen once the call has returned and the reader is gone.
Ended == /\ client.phase = "returned" /\ reader.phase = "done"
         /\ UNCHANGED vars

Next == \/ Exchange \/ Teardown
        \/ Reading
        \/ Deadline
        \/ ServerStep \/ KillTakesEffect
        \/ Ended

\* Both threads run, time passes, SIGKILL works.  The server owes nothing.
Fairness == /\ WF_vars(Exchange \/ Teardown)
            /\ WF_vars(Reading)
            /\ WF_vars(Deadline)
            /\ WF_vars(KillTakesEffect)

Spec == Init /\ [][Next]_vars /\ Fairness

-----------------------------------------------------------------------------
(* Properties. *)

\* All variables have their types; the channel keeps its bound, whatever the
\* server writes and however slow the client is.
TypeOK ==
    /\ client \in [phase : Phases, waiting : BOOLEAN,
                   asked : BOOLEAN, usage : BOOLEAN,
                   limits : LimitAnswers \cup {None},
                   watch : {"rateLimits", "stability", None},
                   outcome : Errors \cup {"snapshot", None}]
    /\ reader \in [phase : {"reading", "closing", "done"}, blanks : 0..MaxBlankMessages,
                   flooded : BOOLEAN]
    /\ queue \in Seq(Messages) /\ Len(queue) <= MaxPendingMessages
    /\ server \in [alive : SUBSET Processes, holding : SUBSET Processes,
                   killed : SUBSET Processes,
                   status : {"success", "failure", None}, pipe : Seq(Lines)]
    /\ {stop, due, late, orderly} \subseteq BOOLEAN

\* The client learns by the same closed channel that the server has stopped and
\* that it was cut off for writing too much.  Nobody is told of too many messages
\* who did not send them.  One who did is told of it, once what was let through is
\* used up, unless time is up or the first request could not be written; called
\* stopped it is only where a fetch out of time has the usage answer and a child
\* that has failed (app_server.rs:308).
FloodNamed ==
  [][client.outcome = None /\ client'.outcome # None
       => /\ client'.outcome = "MessageFlood" => reader.flooded
          /\ client'.outcome = "Stopped" /\ reader.flooded
               => Past /\ client.usage /\ server.status = "failure"
          /\ reader.flooded /\ queue = <<>> /\ ~Past /\ client.phase # "starting"
               => client'.outcome = "MessageFlood"]_vars

\* Success is never rushed: a complete answer still waits out the stability
\* grace, an incomplete one the rate-limit grace, so that a server that fails
\* right after answering is noticed; only its output's end with a clean exit
\* cuts the wait short.
Unhurried ==
    [][client.outcome = None /\ client'.outcome = "snapshot"
         => \/ Past
            \/ reader.phase = "done" /\ queue = <<>> /\ server.status = "success"]_vars

\* The fetch is what its caller is promised: one outcome; a snapshot only of
\* answers given once, by a server that had not failed by then; no timeout once
\* the usage answer has been heard, whatever else is missing; and a response that
\* is unknown, early or repeated only ever fails it.
Fetch == INSTANCE UsageFetch
           WITH usage <- client.usage, limits <- client.limits,
                status <- server.status, outcome <- client.outcome

Promise == Fetch!Spec

\* The call returns, whatever the server does: an endless stream of
\* notifications, silence, or descendants that outlive it.
Returns == <>(client.phase = "returned")

\* Once the call has returned, what is left of the server's process group ends:
\* the child and the descendants it did not detach.
GroupEnds == client.phase = "returned" ~> server.alive \subseteq {"escaped"}

\* The reader thread ends too, even if the call had to return without it, and
\* even if a process that escaped keeps the output open for ever.
ReaderEnds == client.phase = "returned" ~> reader.phase = "done"
=============================================================================
