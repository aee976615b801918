---------------------------- MODULE MCActionLoop ----------------------------
(* Instances of ActionLoop for TLC: the constants are in the .cfg files.   *)
EXTENDS ActionLoopInvariants, TLC

RunnerSymmetry == Permutations(Runners)
=============================================================================
