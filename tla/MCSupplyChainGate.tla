------------------------- MODULE MCSupplyChainGate -------------------------
(***************************************************************************)
(* SupplyChainGate with the days scaled down: 14 days of grace to one, the *)
(* terms of exceptions, 30 and 60 days, to the day itself and one more.    *)
(***************************************************************************)
EXTENDS SupplyChainGate, TLC

VersionSymmetry == Permutations(Versions)

ScaledTerm == [s \in Severities |-> IF s = "Critical" THEN 0 ELSE 1]

=============================================================================
