------------------------------- MODULE Sizing -------------------------------
(***************************************************************************)
(* How large a position is and what its prices are: the arithmetic of      *)
(* PositionOpener.OpenPosition (trading/position.go), of the targets of a  *)
(* signal (trading/techan/signal.go) and of the commission                 *)
(* (trading/binance/account.go).                                           *)
(*                                                                         *)
(* The floats of the code have more digits than anything here needs, and   *)
(* what matters is the rounding to four decimals at the end, to multiples  *)
(* of 1 / Precision here, and the division of integers at the beginning.   *)
(* So prices and amounts of the quote asset are integers, in a unit in     *)
(* which all that the code computes are whole, and the size of a position, *)
(* one such amount divided by another, is a fraction [num, den].           *)
(***************************************************************************)
EXTENDS Integers

CONSTANTS
  Precision,      \* steps per unit, 10000 in the code
  Finer,          \* steps of the exchange per step of the code
  Balances,       \* free amounts of the quote asset, in steps of the exchange
  EntryPrices,    \* entry targets, in steps of the exchange
  RiskPercents,   \* risk factors of an account
  Commissions     \* taker commissions as the exchange gives them, in 1 / 10000

ASSUME StepsAssumption == Precision \in Nat \ {0} /\ Finer \in Nat \ {0}
ASSUME BalancesAssumption == Balances \subseteq Nat
ASSUME EntryPricesAssumption == EntryPrices \subseteq Nat \ {0}
ASSUME RiskAssumption == RiskPercents \subseteq 0 .. 100
ASSUME CommissionsAssumption == Commissions \subseteq 0 .. 9999

VARIABLES
  wallet,     \* the wallet item of the signal being processed
  entry,      \* its entry target
  outcome,    \* "none", "signal", "opened" or "insufficient funds"
  position    \* the sizes and prices of the last position, in steps

vars == <<wallet, entry, outcome, position>>
-----------------------------------------------------------------------------
\* An amount is a multiple of 1 / Unit: two hundred times as fine as a step of
\* the exchange, for the 2.5 and 5 percent of a signal and the percents at risk.
Unit == 200 * Precision * Finer

\* n steps of the exchange.
Exchange(n) == 200 * n

Quotient(a, b) == [num |-> a, den |-> b]
AtMost(p, q) == p.num * q.den <= q.num * p.den

\* To the nearest step, and away from zero in the middle.
RoundToPrecision(q) == (2 * q.num * Precision + q.den) \div (2 * q.den)
RoundPrice(price) == RoundToPrecision(Quotient(price, Unit))

NoPosition == [size |-> 0, entryPrice |-> 0, takeProfit |-> 0, stopLoss |-> 0]

TypeOK ==
  /\ wallet \in [balance : Balances, risk : RiskPercents,
                 charged : Commissions, commission : Nat]
  /\ entry \in EntryPrices
  /\ outcome \in {"none", "signal", "opened", "insufficient funds"}
  /\ position \in [size : Nat, entryPrice : Nat, takeProfit : Nat, stopLoss : Nat]

Init ==
  /\ entry \in EntryPrices
  /\ \E b \in Balances, r \in RiskPercents, c \in Commissions :
       wallet = [balance |-> b, risk |-> r, charged |-> c, commission |-> 0]
  /\ outcome = "none"
  /\ position = NoPosition
-----------------------------------------------------------------------------
\* The targets of a signal, 2.5 percent below and 5 percent above the entry.
EntryTarget == Exchange(entry)
StopLossTarget == EntryTarget - EntryTarget \div 40
TakeProfitTarget == EntryTarget + EntryTarget \div 20

Balance == Exchange(wallet.balance)

AccountRisk == (Balance \div 100) * wallet.risk
TradeRisk == EntryTarget - StopLossTarget
MaxPositionSize == Quotient(Balance, EntryTarget)

\* Mutation: the size is not limited by what the balance pays for.
SizeUncapped == Quotient(AccountRisk, TradeRisk)

\* Mutation: everything is always invested.
SizeOfBalance == MaxPositionSize

PositionSize ==
  LET size == Quotient(AccountRisk, TradeRisk)
  IN IF AtMost(size, MaxPositionSize) THEN size ELSE MaxPositionSize

TakeProfitPrice == TakeProfitTarget * (1 + wallet.commission)
StopLossPrice == StopLossTarget * (1 - wallet.commission)

\* What the exchange charges in 1 / 10000 is divided as an integer.
TakerCommission == wallet.charged \div 10000

\* A signal arrives, and the exchange says what the account has and pays.
ReceiveSignal ==
  /\ outcome # "signal"
  /\ outcome' = "signal"
  /\ entry' \in EntryPrices
  /\ \E b \in Balances :
       wallet' = [wallet EXCEPT !.balance = b,
                                !.commission = TakerCommission]
  /\ position' = NoPosition

\* The signal is dropped when the size is exactly zero.
DropSignal ==
  /\ outcome = "signal"
  /\ PositionSize.num = 0
  /\ outcome' = "insufficient funds"
  /\ UNCHANGED <<wallet, entry, position>>

OpenPosition ==
  /\ outcome = "signal"
  /\ PositionSize.num # 0
  /\ outcome' = "opened"
  /\ position' = [size |-> RoundToPrecision(PositionSize),
                  entryPrice |-> RoundPrice(EntryTarget),
                  takeProfit |-> RoundPrice(TakeProfitPrice),
                  stopLoss |-> RoundPrice(StopLossPrice)]
  /\ UNCHANGED <<wallet, entry>>

Next == ReceiveSignal \/ DropSignal \/ OpenPosition

Spec == Init /\ [][Next]_vars
=============================================================================
