------------------------------ MODULE Bulkhead ------------------------------
(***************************************************************************)
(* What ResiliencePolicy promises of its bulkhead, without threads,        *)
(* futures or locks: an operation that was let in holds a place until it   *)
(* has ended, there are MaxConcurrency places, and whoever was let in is   *)
(* answered, whether or not the operation ever ends.                       *)
(***************************************************************************)
EXTENDS Naturals, FiniteSets

CONSTANTS Calls, MaxConcurrency

VARIABLES
    holders,   \* calls whose operation occupies a place
    waiting    \* calls let in whose caller has no answer yet

bulkheadVars == <<holders, waiting>>

Init ==
    /\ holders = {}
    /\ waiting = {}

Enter(k) ==
    /\ k \notin holders \cup waiting
    /\ Cardinality(holders) < MaxConcurrency
    /\ holders' = holders \cup {k}
    /\ waiting' = waiting \cup {k}

Answer(k) ==
    /\ k \in waiting
    /\ waiting' = waiting \ {k}
    /\ UNCHANGED holders

Leave(k) ==
    /\ k \in holders
    /\ holders' = holders \ {k}
    /\ UNCHANGED waiting

Next == \E k \in Calls : Enter(k) \/ Answer(k) \/ Leave(k)

Safe == Init /\ [][Next]_bulkheadVars

Spec == Safe /\ \A k \in Calls : WF_bulkheadVars(Answer(k))

=============================================================================
