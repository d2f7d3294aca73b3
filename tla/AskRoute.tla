------------------------------ MODULE AskRoute ------------------------------
(***************************************************************************)
(* POST /ask (app/main.py: ask, and contexts/ai/services.py:               *)
(* RetrievalService.ask_with_outcome).                                     *)
(***************************************************************************)
EXTENDS RequestEffects

CONSTANTS
    Asks,             \* the requests to this route
    ModelConfigured   \* FALSE: the configured base URL is one the client refuses

ASSUME ModelConfiguredBoolean == ModelConfigured \in BOOLEAN

\* The boundary whose call failed, or "none": the model is only asked with
\* evidence at hand, so one request never has both.
Failures == {"none", "retrieval_store", "llm_inference"}

\* TransactionProcessed, then the compensating event of the failure; the
\* route records that compensation before it writes the request's audit.
Outcome(failure) ==
    <<Say("TransactionProcessed")>>
        \o (IF failure = "none" THEN << >>
            ELSE <<Say("TransactionCompensated"), Note("DOWNSTREAM_FAILURE_FAIL_SAFE")>>)
        \o <<Step("audit_ask", failure)>>

\* Mistake: the transition is left out when the answer is a fallback.
AnsweredForgettingFallback(failure) ==
    (IF failure = "none" THEN Transition("COMPLETED") ELSE << >>)
        \o <<Say("AuditRecordLogged"), Answer("200")>>

Answered(failure) ==
    Transition(IF failure = "none" THEN "COMPLETED" ELSE "COMPENSATED")
        \o <<Say("AuditRecordLogged"), Answer("200")>>

AskAuditFailed ==
    Transition("COMPENSATED")
        \o <<Note("AUDIT_WRITE_FAILED"), Say("TransactionCompensated"), Answer("503")>>

ReceiveAsk(r) ==
    /\ At(r, "receive_ask")
    /\ Continue(r, Transition("PROCESSING") \o <<Step("model", "llm")>>)
    /\ UNCHANGED <<up, told, audit, reply>>

\* The model client is made outside any try: what it raises leaves the
\* handler, and the framework answers 500.
MakeModel(r) ==
    /\ At(r, "model")
    /\ IF ModelConfigured
       THEN Continue(r, <<Step("query", "store")>>)
       ELSE Continue(r, <<Answer("500")>>)
    /\ UNCHANGED <<up, told, audit, reply>>

\* policy.call around store.query: no hits, hits (without inference, the
\* answer is then a fixed message), hits for the model, or any failure.
Query(r) ==
    /\ At(r, "query")
    /\ \/ Continue(r, Outcome("none"))
       \/ Continue(r, <<Step("infer", "llm")>>)
       \/ Continue(r, Outcome("retrieval_store"))
    /\ UNCHANGED <<up, told, audit, reply>>

Infer(r) ==
    /\ At(r, "infer")
    /\ \/ Continue(r, Outcome("none"))
       \/ Continue(r, Outcome("llm_inference"))
    /\ UNCHANGED <<up, told, audit, reply>>

AuditAsk(r) ==
    AuditWrite(r, "audit_ask", Answered(Head(todo[r]).arg), AskAuditFailed)

AskStep(r) ==
    \/ ReceiveAsk(r) \/ MakeModel(r) \/ Query(r) \/ Infer(r) \/ AuditAsk(r)

=============================================================================
