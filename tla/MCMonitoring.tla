---------------------------- MODULE MCMonitoring ----------------------------
(***************************************************************************)
(* Monitoring with two checks: one is optional, the other required and in  *)
(* need of two services.                                                   *)
(***************************************************************************)
EXTENDS Monitoring, TLC

VectorPlan ==
    << [check |-> "kafka", service |-> "broker"],
       [check |-> "vector_store", service |-> "chroma"],
       [check |-> "vector_store", service |-> "search"] >>

\* One environment that can be ready, and one that names what it has disabled.
TwoSettings ==
    { [configured |-> {"kafka", "vector_store"}, named |-> {}],
      [configured |-> {}, named |-> {"kafka"}] }

=============================================================================
