--------------------------- MODULE MCPositionRows ---------------------------
(* Instances of PositionRows for TLC.                                      *)
EXTENDS PositionRowsProperties, TLC

PositionSymmetry == Permutations(Positions)
=============================================================================
