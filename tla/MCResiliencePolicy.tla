------------------------- MODULE MCResiliencePolicy -------------------------
(***************************************************************************)
(* ResiliencePolicy on a small instance: two calls for one slot and a      *)
(* bucket of two tokens, so that callers are refused by either.            *)
(***************************************************************************)
EXTENDS ResiliencePolicy, TLC

=============================================================================
