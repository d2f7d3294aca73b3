------------------------------ MODULE AuditLog ------------------------------
(***************************************************************************)
(* What contexts that write audit records are promised of the sink, while  *)
(* a durable backend is selected: a write that returns has left its record *)
(* for good; a write that raises may have left it, or leave it yet; every  *)
(* write ends.                                                             *)
(***************************************************************************)

CONSTANT Writers   \* places for writes in flight

VARIABLES
    outcome,   \* "none", "writing", "ok" or "failed", of each writer's last write
    kept       \* the writers whose last write has its record in the store

logVars == <<outcome, kept>>

Init ==
    /\ outcome = [w \in Writers |-> "none"]
    /\ kept = {}

Begin(w) ==
    /\ outcome[w] # "writing"
    /\ outcome' = [outcome EXCEPT ![w] = "writing"]
    /\ kept' = kept \ {w}

\* The record gets into the store, perhaps after the writer was told it did not.
Keep(w) ==
    /\ outcome[w] \in {"writing", "failed"}
    /\ kept' = kept \cup {w}
    /\ UNCHANGED outcome

Succeed(w) ==
    /\ outcome[w] = "writing"
    /\ outcome' = [outcome EXCEPT ![w] = "ok"]
    /\ kept' = kept \cup {w}

Fail(w) ==
    /\ outcome[w] = "writing"
    /\ outcome' = [outcome EXCEPT ![w] = "failed"]
    /\ UNCHANGED kept

End(w) == Succeed(w) \/ Fail(w)

Next == \E w \in Writers : Begin(w) \/ Keep(w) \/ End(w)

Safe == Init /\ [][Next]_logVars

Spec == Safe /\ \A w \in Writers : WF_logVars(End(w))

=============================================================================
