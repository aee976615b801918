-------------------------- MODULE SizingProperties --------------------------
(* What an account may rely on when a position is opened for it.           *)
EXTENDS Sizing

\* A position that costs anything costs no more than the balance, but for the
\* rounding of its size and of its price up by half a step each
\* (trading/position.go:197-200, 225-229).  In quarters of a step by a step.
CostWithinBalance ==
  outcome = "opened" /\ position.size > 0 /\ position.entryPrice > 0 =>
    (2 * position.size - 1) * (2 * position.entryPrice - 1) * Unit
      <= 4 * Precision * Precision * Balance

\* What is lost when the price falls to the stop of the signal is no more than
\* the part of the balance the account risks, but for the rounding of the size
\* (trading/position.go:192-195).
LossWithinRisk ==
  outcome = "opened" =>
    (2 * position.size - 1) * TradeRisk <= 2 * Precision * AccountRisk

\* Rounding does not turn the prices around: a position that has just been
\* entered is neither below its stop nor above its target unless a price and
\* its neighbour have become one (workload.go:481-482).
PricesOrdered ==
  outcome = "opened" => /\ position.stopLoss <= position.entryPrice
                        /\ position.entryPrice <= position.takeProfit

\* Every commission below 100 percent has become nothing (binance/account.go:53):
\* the prices above are ordered with it.
NothingCharged == wallet.commission = 0

\* What is written down for a position, whatever is at risk.
SizingInv == TypeOK /\ NothingCharged /\ CostWithinBalance /\ PricesOrdered
=============================================================================
