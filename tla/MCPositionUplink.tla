-------------------------- MODULE MCPositionUplink --------------------------
(* PositionUplink on small sets of fixes. *)
EXTENDS PositionUplink, TLC

FixSymmetry == Permutations(Fixes)
=============================================================================
