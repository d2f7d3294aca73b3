--------------------------- MODULE MCMemoryStore ---------------------------
(***************************************************************************)
(* MemoryStore on a small instance: as many chunks in flight as make the   *)
(* threads evict each other's, and a query among them.                     *)
(***************************************************************************)
EXTENDS MemoryStore, TLC

IngestSymmetry == Permutations(Ingests)

=============================================================================
