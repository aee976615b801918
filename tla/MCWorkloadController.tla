------------------------ MODULE MCWorkloadController ------------------------
(* Instances of WorkloadController for TLC.                                *)
EXTENDS WorkloadControllerProperties, TLC

RunnerSymmetry == Permutations(Runners)
=============================================================================
