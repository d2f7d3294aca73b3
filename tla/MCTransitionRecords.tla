------------------------ MODULE MCTransitionRecords -------------------------
(***************************************************************************)
(* TransitionRecords on a small instance: two request threads, so that one *)
(* skips while the other connects; two open producers, the one close()     *)
(* flushes and one made meanwhile; two attempts of each write, so that a   *)
(* retry meets what the first attempt left.                                *)
(***************************************************************************)
EXTENDS TransitionRecords, TLC

=============================================================================
