------------------------------ MODULE MCSizing ------------------------------
(* Instances of Sizing for TLC.                                            *)
EXTENDS SizingProperties

SmallBalances == 0 .. 12
SmallPrices == {1, 2, 3, 5, 8, 13, 40, 240}
Risks == {0, 1, 2, 3, 10, 100}
SomeCommissions == {0, 10, 100}
=============================================================================
