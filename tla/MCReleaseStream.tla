-------------------------- MODULE MCReleaseStream --------------------------
(***************************************************************************)
(* ReleaseStream with two versions, a candidate of each and two pull       *)
(* requests that may be merged with what they were checked against gone.   *)
(***************************************************************************)
EXTENDS ReleaseStream, TLC

PRSymmetry == Permutations(PRs)

=============================================================================
