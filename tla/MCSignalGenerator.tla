-------------------------- MODULE MCSignalGenerator --------------------------
(* Instances of SignalGenerator for TLC.                                   *)
EXTENDS SignalGeneratorProperties
=============================================================================
