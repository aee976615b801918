---------------------------- MODULE MCCandleStore ----------------------------
(* Instances of CandleStore for TLC.                                       *)
EXTENDS CandleStoreProperties, TLC

GenerationSymmetry == Permutations(Generations)
=============================================================================
