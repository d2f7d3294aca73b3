---------------------------- MODULE HttpMetrics ----------------------------
(***************************************************************************)
(* app/http_metrics.py: HTTPMetricsMiddleware around the application, and  *)
(* the registry of app/metrics.py it reports to.  The middleware runs in   *)
(* the event loop; a scrape of /metrics runs in a thread of the pool and   *)
(* reads the whole registry under its lock, so that it may come between    *)
(* any two steps: what holds of the registry always, every scrape shows.   *)
(*                                                                         *)
(* Requests are places for requests in flight.  Status codes are their     *)
(* classes.                                                                *)
(***************************************************************************)
EXTENDS Naturals, FiniteSets

CONSTANT Requests

VARIABLES
    stage,      \* where each request is in the middleware, "away" without one
    status,     \* the local status of each request
    doomed,     \* the application raised before the response began
    sent,       \* the status passed on to each client, "none" before
    counted,    \* what of rag_http_requests_total is this request's, or "none"
    inFlight    \* the gauge rag_http_requests_in_flight

httpVars == <<stage, status, doomed, sent, counted, inFlight>>

Stages == {"away", "app", "body", "observe", "leave", "unhandled"}
Classes == {"2xx", "5xx"}

HttpInit ==
    /\ stage = [r \in Requests |-> "away"]
    /\ status = [r \in Requests |-> "5xx"]
    /\ doomed = [r \in Requests |-> FALSE]
    /\ sent = [r \in Requests |-> "none"]
    /\ counted = [r \in Requests |-> "none"]
    /\ inFlight = 0

Move(r, from, to) == stage[r] = from /\ stage' = [stage EXCEPT ![r] = to]

\* The status is 500 until a response begins.
Enter(r) ==
    /\ Move(r, "away", "app")
    /\ status' = [status EXCEPT ![r] = "5xx"]
    /\ doomed' = [doomed EXCEPT ![r] = FALSE]
    /\ sent' = [sent EXCEPT ![r] = "none"]
    /\ counted' = [counted EXCEPT ![r] = "none"]
    /\ inFlight' = inFlight + 1

\* Mistake: the start of a response is passed on unobserved.
StartUnobserved(r, class) ==
    /\ Move(r, "app", "body")
    /\ sent' = [sent EXCEPT ![r] = class]
    /\ UNCHANGED <<status, doomed, counted, inFlight>>

\* observe_send of http.response.start, which it passes on.
Start(r, class) ==
    /\ Move(r, "app", "body")
    /\ status' = [status EXCEPT ![r] = class]
    /\ sent' = [sent EXCEPT ![r] = class]
    /\ UNCHANGED <<doomed, counted, inFlight>>

\* The application has sent the body, or raises after the response began.
End(r) ==
    /\ Move(r, "body", "observe")
    /\ UNCHANGED <<status, doomed, sent, counted, inFlight>>

\* It raises before.
Raise(r) ==
    /\ Move(r, "app", "observe")
    /\ doomed' = [doomed EXCEPT ![r] = TRUE]
    /\ UNCHANGED <<status, sent, counted, inFlight>>

\* The finally clause: first the completed request is counted ...
Observe(r) ==
    /\ Move(r, "observe", "leave")
    /\ counted' = [counted EXCEPT ![r] = status[r]]
    /\ UNCHANGED <<status, doomed, sent, inFlight>>

\* Mistake: not in a finally clause, so that what raises stays in flight.
LeaveUnlessRaised(r) ==
    /\ Move(r, "leave", IF doomed[r] THEN "unhandled" ELSE "away")
    /\ inFlight' = IF doomed[r] THEN inFlight ELSE inFlight - 1
    /\ UNCHANGED <<status, doomed, sent, counted>>

\* ... and then taken out of the gauge.
Leave(r) ==
    /\ Move(r, "leave", IF doomed[r] THEN "unhandled" ELSE "away")
    /\ inFlight' = inFlight - 1
    /\ UNCHANGED <<status, doomed, sent, counted>>

\* The framework answers what the application raised, outside the middleware.
Unhandled(r) ==
    /\ Move(r, "unhandled", "away")
    /\ sent' = [sent EXCEPT ![r] = "5xx"]
    /\ UNCHANGED <<status, doomed, counted, inFlight>>

Wrapped(r) == End(r) \/ Observe(r) \/ Leave(r) \/ Unhandled(r)

=============================================================================
