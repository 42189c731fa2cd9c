-------------------------------- MODULE MCRisk --------------------------------
(***************************************************************************)
(* The desk for TLC: traders are alike, and so are symbols.                *)
(***************************************************************************)
EXTENDS RiskProperties, TLC

Symmetry == Permutations(Traders) \cup Permutations(Symbols)
=============================================================================
