-------------------------- MODULE RequestLifecycle --------------------------
(***************************************************************************)
(* What the documents promise of every side-effecting request: one         *)
(* lifecycle, INITIALIZED -> PROCESSING -> COMPLETED or COMPENSATED, and   *)
(* an answer that comes after its end and agrees with it.  A request may   *)
(* be answered with success after compensation (a safe fallback, a         *)
(* fail-closed review) but never with failure after completion.  The       *)
(* process may die; as long as it lives, every request it began to process *)
(* is answered.                                                            *)
(***************************************************************************)
CONSTANT Requests

VARIABLES
    up,      \* the process is alive
    stage,   \* the last transition of each request
    verdict  \* "none", or what the client was told

lifecycleVars == <<up, stage, verdict>>

Init ==
    /\ up = TRUE
    /\ stage = [r \in Requests |-> "INITIALIZED"]
    /\ verdict = [r \in Requests |-> "none"]

Process(r) ==
    /\ up
    /\ stage[r] = "INITIALIZED"
    /\ stage' = [stage EXCEPT ![r] = "PROCESSING"]
    /\ UNCHANGED <<up, verdict>>

Settle(r) ==
    /\ up
    /\ stage[r] = "PROCESSING"
    /\ \E end \in {"COMPLETED", "COMPENSATED"} : stage' = [stage EXCEPT ![r] = end]
    /\ UNCHANGED <<up, verdict>>

Answer(r) ==
    /\ up
    /\ verdict[r] = "none"
    /\ \/ /\ stage[r] = "COMPLETED"
          /\ verdict' = [verdict EXCEPT ![r] = "success"]
       \/ /\ stage[r] = "COMPENSATED"
          /\ \E v \in {"success", "failure"} : verdict' = [verdict EXCEPT ![r] = v]
    /\ UNCHANGED <<up, stage>>

Crash == up /\ up' = FALSE /\ UNCHANGED <<stage, verdict>>

Next == Crash \/ \E r \in Requests : Process(r) \/ Settle(r) \/ Answer(r)

Safe == Init /\ [][Next]_lifecycleVars

Spec ==
    /\ Safe
    /\ \A r \in Requests :
          WF_lifecycleVars(Settle(r)) /\ WF_lifecycleVars(Answer(r))

=============================================================================
