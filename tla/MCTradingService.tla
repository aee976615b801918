-------------------------- MODULE MCTradingService --------------------------
(* Instances of TradingService for TLC.                                    *)
EXTENDS TradingServiceProperties, TLC

RunnerSymmetry == Permutations(Runners)

\* Bound: what two loops do once they have run at the same time is left to the
\* runs of ActionLoop.
UntilOverlap == ~overlapped
=============================================================================
