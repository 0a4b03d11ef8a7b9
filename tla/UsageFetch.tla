----------------------------- MODULE UsageFetch -----------------------------
(***************************************************************************)
(* What one fetch of the usage data promises its caller, whatever the      *)
(* server does: one outcome, made of what the server answered.             *)
(***************************************************************************)
CONSTANTS None

VARIABLES usage,        \* the usage request has been answered
          limits,       \* the answer to the optional rate-limit request, or None
          status,       \* the server's exit status once it has one
          outcome,      \* what the caller gets, or None
          orderly       \* every response heard was awaited

fetchVars == <<usage, limits, status, outcome, orderly>>

LimitAnswers == {"valid", "failed", "malformed"}
Statuses == {"success", "failure"}
Timeouts == {"InitializeTimeout", "Timeout"}
Errors == Timeouts \cup {"Stopped", "MessageFlood", "Server", "Json", "Io",
                         "OversizedMessage"}

Init == /\ usage = FALSE /\ limits = None /\ status = None /\ outcome = None
        /\ orderly = TRUE

\* Each request is answered once.
HearUsage == /\ outcome = None
             /\ usage = FALSE /\ usage' = TRUE
             /\ UNCHANGED <<limits, status, outcome, orderly>>

HearLimits == /\ outcome = None
              /\ limits = None /\ limits' \in LimitAnswers
              /\ UNCHANGED <<usage, status, outcome, orderly>>

ServerEnds == /\ status = None /\ status' \in Statuses
              /\ UNCHANGED <<usage, limits, outcome, orderly>>

\* A snapshot needs the usage answer, and a server that has not failed by then.
Succeed == /\ outcome = None
           /\ usage /\ status # "failure"
           /\ outcome' = "snapshot"
           /\ UNCHANGED <<usage, limits, status, orderly>>

\* A fetch that has the usage answer is not given up because time is short.  A
\* response that nobody awaited can only be met by failing: no other step hears it.
Fail == /\ outcome = None
        /\ \E error \in Errors : /\ error \in Timeouts => ~usage
                                 /\ outcome' = error
        /\ orderly' \in {orderly, FALSE}
        /\ UNCHANGED <<usage, limits, status>>

Next == HearUsage \/ HearLimits \/ ServerEnds \/ Succeed \/ Fail

Spec == Init /\ [][Next]_fetchVars
=============================================================================
