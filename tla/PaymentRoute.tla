---------------------------- MODULE PaymentRoute ----------------------------
(***************************************************************************)
(* POST /payments/transactions (app/main.py: ingest_payment, and           *)
(* contexts/payments/services.py: PaymentIngestionService.ingest and       *)
(* RiskScoringService.score).                                              *)
(***************************************************************************)
EXTENDS RequestEffects

CONSTANT Payments   \* the requests to this route

\* The route's except clause records the failure but publishes no event of
\* its own: PaymentCompensated is the scoring service's.
PaymentFailed ==
    Transition("COMPENSATED") \o <<Note("UNHANDLED_FAILURE"), Answer("502")>>

Scored ==
    <<Say("PaymentRiskScored")>> \o Transition("COMPLETED") \o <<Answer("200")>>

\* Fail closed: a review decision, its compensating event, and still a 200.
ReviewedClosed ==
    <<Say("PaymentCompensated"), Say("PaymentRiskScored")>>
        \o Transition("COMPENSATED")
        \o <<Note("DOWNSTREAM_TIMEOUT_FAIL_CLOSED"), Answer("200")>>

ReceivePayment(r) ==
    /\ At(r, "receive_payment")
    /\ Continue(r, Transition("PROCESSING") \o <<Step("tokenize", "payment")>>)
    /\ UNCHANGED <<up, told, audit, reply>>

\* The envelope is refused (a currency the request model lets through, say),
\* or its event is by the publisher's guard (a network that reads as a card
\* number); otherwise the tokenized event is published.
Tokenize(r) ==
    /\ At(r, "tokenize")
    /\ \/ Continue(r, <<Say("PaymentTransactionIngested"), Step("score", "payment")>>)
       \/ Continue(r, PaymentFailed)
    /\ UNCHANGED <<up, told, audit, reply>>

\* policy.call returns a score or raises any of its errors.
Score(r) ==
    /\ At(r, "score")
    /\ \/ Continue(r, Scored)
       \/ Continue(r, ReviewedClosed)
    /\ UNCHANGED <<up, told, audit, reply>>

PaymentStep(r) == ReceivePayment(r) \/ Tokenize(r) \/ Score(r)

=============================================================================
