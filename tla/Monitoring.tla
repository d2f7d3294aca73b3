----------------------------- MODULE Monitoring -----------------------------
(***************************************************************************)
(* What an operator sees of the service: readiness probes and other        *)
(* requests through the metrics middleware, and the handlers of            *)
(* /health/ready, /health/startup and /readyz in app/main.py, which answer *)
(* 503 for a report that failed.                                           *)
(***************************************************************************)
EXTENDS HttpMetrics, HealthReport

ASSUME ProbesAreRequests == Probes \subseteq Requests /\ IsFiniteSet(Requests)

vars == <<httpVars, healthVars>>

Init == HttpInit /\ HealthInit

Others == Requests \ Probes

BeginProbe(r) == Enter(r) /\ Begin(r)

\* _health_response.
AnswerProbe(r) ==
    /\ at[r] = 0
    /\ Start(r, IF verdict[r] = "ok" THEN "2xx" ELSE "5xx")
    /\ UNCHANGED healthVars

Probe(r) ==
    \/ BeginProbe(r) \/ AnswerProbe(r)
    \/ stage[r] = "app" /\ Reporting(r) /\ UNCHANGED httpVars
    \/ Wrapped(r) /\ UNCHANGED healthVars

Other(r) ==
    /\ \/ Enter(r) \/ Raise(r) \/ Wrapped(r)
       \/ \E class \in Classes : Start(r, class)
    /\ UNCHANGED healthVars

Next ==
    \/ \E s \in Services : Flip(s) /\ UNCHANGED httpVars
    \/ \E r \in Probes : Probe(r)
    \/ \E r \in Others : Other(r)

\* The kubelet probes again and again, and a probe's thread runs on: every
\* contact has a timeout.
Spec == Init /\ [][Next]_vars /\ \A r \in Probes : WF_vars(Probe(r))

-----------------------------------------------------------------------------

TypeOK ==
    /\ stage \in [Requests -> Stages]
    /\ status \in [Requests -> Classes]
    /\ doomed \in [Requests -> BOOLEAN]
    /\ sent \in [Requests -> Classes \cup {"none"}]
    /\ counted \in [Requests -> Classes \cup {"none"}]
    /\ inFlight \in 0..Cardinality(Requests)
    /\ setting \in Settings
    /\ up \subseteq Services
    /\ at \in [Probes -> 0..(Last + 1)]
    /\ failed \in [Probes -> SUBSET Configured]
    /\ verdict \in [Probes -> {"none", "ok", "failed"}]
    /\ ready \in {"none", "ok", "failed"}
    /\ seen \in [Probes -> SUBSET Services]
    /\ outage \subseteq Probes

\* No request escapes a scrape: until it is counted as completed it is in
\* flight, however it ends, and nothing else is.
EveryRequestShown ==
    /\ inFlight = Cardinality({r \in Requests : stage[r] \notin {"away", "unhandled"}})
    /\ \A r \in Requests : stage[r] \in {"leave", "unhandled"} => counted[r] # "none"

\* What a client was answered is what its request is counted as, also when the
\* application raised before or after the response began.
CountedAsAnswered ==
    \A r \in Requests :
        stage[r] = "away" /\ sent[r] # "none" => counted[r] = sent[r]

Concluded(r) == at[r] = Last + 1 /\ verdict[r] # "none"

\* A report never finds readiness that was not there: of an ok one, every
\* required check is configured, and every service it needs was up at some
\* moment while the report was being made.
ReadyWasSeen ==
    \A r \in Probes : Concluded(r) /\ verdict[r] = "ok" =>
        Required \subseteq Configured /\ Needed \subseteq seen[r]

\* health.py:196: "optional integrations stay diagnostic".  A failed report has
\* a required check that is not configured, or one of whose services was down
\* at some moment while the report was being made.
OptionalHarmless ==
    \A r \in Probes : Concluded(r) /\ verdict[r] = "failed" =>
        ~ Required \subseteq Configured \/ r \in outage

\* Overlapping reports may set rag_ready in any order, but once the services
\* stay as they are it comes to say so, and goes on saying it.
Truth ==
    IF Required \subseteq Configured /\ Needed \subseteq up THEN "ok" ELSE "failed"

GaugeConverges == <>[][FALSE]_up => <>[](ready = Truth)

=============================================================================
