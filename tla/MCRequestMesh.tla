--------------------------- MODULE MCRequestMesh ---------------------------
(***************************************************************************)
(* RequestMesh on a small instance: one request to each route.             *)
(***************************************************************************)
EXTENDS RequestMesh, TLC

=============================================================================
