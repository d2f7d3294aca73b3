----------------------------- MODULE RequestMesh -----------------------------
(***************************************************************************)
(* The three side-effecting routes of app/main.py in one process: their    *)
(* handlers run in the framework's thread pool, so the steps of different  *)
(* requests interleave, and the process may die between any two steps.     *)
(***************************************************************************)
EXTENDS IngestRoute, PaymentRoute, AskRoute, FiniteSets

ASSUME RoutesPartition ==
    /\ Requests = Ingests \cup Payments \cup Asks
    /\ Ingests \cap Payments = {}
    /\ Ingests \cap Asks = {}
    /\ Payments \cap Asks = {}
    /\ Chunks \in Nat

\* The requests that write an audit record.
Audits == Ingests \cup Asks

vars == <<effectVars, storeVars>>

Entry(r) ==
    IF r \in Ingests THEN "receive_ingest"
    ELSE IF r \in Payments THEN "receive_payment" ELSE "receive_ask"

Init ==
    /\ up = TRUE
    /\ todo = [r \in Requests |-> <<Step(Entry(r), "request")>>]
    /\ log = [r \in Requests |-> << >>]
    /\ stage = [r \in Requests |-> "INITIALIZED"]
    /\ audited = {}
    /\ raised = {}
    /\ reply = [r \in Requests |-> "none"]
    /\ vector = {}
    /\ search = [r \in Ingests |-> {}]

Advance(r) ==
    \/ Effect(r) /\ UNCHANGED storeVars
    \/ r \in Ingests /\ IngestStep(r)
    \/ r \in Payments /\ PaymentStep(r) /\ UNCHANGED storeVars
    \/ r \in Asks /\ AskStep(r) /\ UNCHANGED storeVars

Next ==
    \/ Crash /\ UNCHANGED storeVars
    \/ \E r \in Audits : RecordArrives(r) /\ UNCHANGED storeVars
    \/ \E r \in Requests : Advance(r)

Safe == Init /\ [][Next]_vars

\* Every call a handler makes is bounded by a timeout of its client, so a
\* handler of a living process goes on.
Spec == Safe /\ \A r \in Requests : WF_vars(Advance(r))

-----------------------------------------------------------------------------

Replies == {"none", "200", "500", "502", "503"}
TypeOK ==
    /\ up \in BOOLEAN
    /\ reply \in [Requests -> Replies]
    /\ stage \in [Requests -> States \cup {"INITIALIZED"}]
    /\ \A r \in Requests :
          \A i \in 1..Len(log[r]) : log[r][i].op \in {"record", "lost", "tried", "publish"}
    /\ audited \subseteq Requests
    /\ raised \subseteq Requests
    /\ vector \subseteq Ingests
    /\ search \in [Ingests -> SUBSET (1..Chunks)]

Published(r, x) == Logged(r, "publish", x)
Indexed(r) == r \in vector \/ search[r] # {}
Complete(r) == r \in vector /\ search[r] = 1..Chunks

Verdict(r) ==
    IF reply[r] = "none" THEN "none"
    ELSE IF reply[r] = "200" THEN "success" ELSE "failure"

\* Every route is one lifecycle of RequestLifecycle, and is answered.
Lifecycle ==
    INSTANCE RequestLifecycle
        WITH verdict <- [r \in Requests |-> Verdict(r)]
ImplementsLifecycle == Lifecycle!Spec

\* What the handler takes its audit write for, and lets the AuditRecordLogged
\* event tell of it.
ToldLogged(r) ==
    \/ Published(r, "AuditRecordLogged")
    \/ \E i \in 1..Len(todo[r]) : todo[r][i] = Say("AuditRecordLogged")

AuditOutcome(r) ==
    IF Writing(r) THEN "writing"
    ELSE IF ToldLogged(r) THEN "ok"
    ELSE IF r \in raised THEN "failed" ELSE "none"

AuditPromise ==
    INSTANCE AuditLog
        WITH Writers <- Audits,
             outcome <- [r \in Audits |-> AuditOutcome(r)],
             kept <- audited

\* contexts/governance: an AuditRecordLogged event tells of a record that the
\* sink has for good; one that raised may arrive yet, during the rollback, after
\* the answer or after the process died.
KeepsAuditPromise == AuditPromise!Safe

\* docs/API_AND_CONTRIBUTOR_GUIDE.md on ingest: "The success response is
\* issued only after both operations succeed".  Whatever was lost or retried
\* on the way, a 200 means all chunks are in both backends and the audit
\* record is stored.
SuccessMeansBoth ==
    \A r \in Ingests : reply[r] = "200" => Complete(r) /\ r \in audited

\* The sink holds a record of the store's failure, in the add or in the rollback.
Owned(r) == \E x \in Owners : Logged(r, "record", x)

\* The sink failed that record: in a rollback, after it had failed the audit
\* record for which the chunks were to be taken back.
OwnerLost(r) ==
    \/ Logged(r, "lost", "STORE_ADD_FAILED")
    \/ Logged(r, "lost", "ROLLBACK_FAILED") /\ r \in raised

\* A failed ingest leaves chunks behind only where the store failed it, in the
\* add or in the rollback, and then a record in the sink owns them.  They are
\* without one only where the sink failed that write as well (of a rollback: twice
\* in one request), and even then IngestionCompensated was published.
LeftoversOwned ==
    \A r \in Ingests :
        reply[r] \notin {"none", "200"} /\ Indexed(r) =>
            \/ Owned(r)
            \/ OwnerLost(r) /\ Published(r, "IngestionCompensated")

\* What the events tell is true when they are published, not only once the
\* client is answered, and stays so whatever becomes of the request: COMPLETED
\* and AuditRecordLogged tell of a stored record and, of an ingest, of chunks in
\* both backends; when IngestionCompensated is told and a backend still holds
\* chunks, the record that owns them is in the sink by then, or its write failed.
ToldStored(r) == stage[r] = "COMPLETED" \/ Published(r, "AuditRecordLogged")

EventsAreTrue ==
    /\ \A r \in Audits : ToldStored(r) => r \in audited
    /\ \A r \in Ingests :
          /\ ToldStored(r) => Complete(r)
          /\ Published(r, "IngestionCompensated") /\ Indexed(r) => Owned(r) \/ OwnerLost(r)

\* A crash at any point leaves no chunk in a backend before the request and
\* its telemetry were announced, and an audit record only of an ingest whose
\* chunks were all indexed by then: what is missing of them, the rollback after
\* a write that raised, though its record arrived, has taken away again.
CrashLeavesTrail ==
    \A r \in Ingests :
        /\ Indexed(r) => Published(r, "PROCESSING") /\ Published(r, "TelemetryIngested")
        /\ r \in audited => Complete(r) \/ r \in raised

\* README.md: a request that ends COMPENSATED publishes the matching event
\* before its client is answered.  So it is for ingests, for questions and for
\* payments whose scoring failed.
CompensatingEvent(r) ==
    \/ Published(r, "IngestionCompensated")
    \/ Published(r, "TransactionCompensated")
    \/ Published(r, "PaymentCompensated")

FailuresAnnounced ==
    \A r \in Requests :
        /\ reply[r] # "none"
        /\ stage[r] = "COMPENSATED"
        /\ r \in Payments => Published(r, "PaymentTransactionIngested")
        => CompensatingEvent(r)

\* The same of every payment, as the README states it.
PaymentFailuresAnnounced ==
    \A r \in Payments :
        reply[r] # "none" /\ stage[r] = "COMPENSATED" => CompensatingEvent(r)

\* ARD.md: "Successful and failed flows record lifecycle transitions": an
\* answered question has left PROCESSING.
AnsweredFlowsSettle ==
    \A r \in Asks : reply[r] # "none" => stage[r] \in {"COMPLETED", "COMPENSATED"}

=============================================================================
