---------------------------- MODULE AccountProofs ----------------------------
(***************************************************************************)
(* What the owner of an account may rely on, in two parts that share no    *)
(* lemma: the size and the prices of a position, for any precision and any *)
(* balances, prices, risks and commissions (module Sizing); and the mails  *)
(* about its beginning and its end, for any events and any number of       *)
(* messages (module Notification).                                         *)
(***************************************************************************)
EXTENDS SizingProperties, NotificationProperties, TLAPS

-----------------------------------------------------------------------------
(***************************************************************************)
(* Part one.  Sizes and prices.                                            *)
(***************************************************************************)

USE StepsAssumption

-----------------------------------------------------------------------------
(* Arithmetic.                                                             *)

\* Products of natural numbers are natural numbers, and positive if both factors are.
LEMMA ProductFact ==
  ASSUME NEW x \in Nat, NEW y \in Nat
  PROVE  x * y \in Nat /\ (x > 0 /\ y > 0 => x * y > 0)
OBVIOUS

\* A product of natural numbers grows with its second factor, and with its first.
LEMMA ProductGrows ==
  ASSUME NEW k \in Nat, NEW x \in Nat, NEW y \in Nat, x <= y
  PROVE  k * x <= k * y /\ x * k <= y * k
<1>1. PICK z \in Nat : y = x + z
  <2>1. y - x \in Nat /\ y = x + (y - x)
    OBVIOUS
  <2> QED BY <2>1
<1>2. k * y = k * x + k * z /\ k * z \in Nat /\ k * x \in Nat
  BY <1>1
<1>3. k * x = x * k /\ k * y = y * k
  OBVIOUS
<1> QED
  BY <1>2, <1>3

\* A factor can be taken away on both sides.
LEMMA CancelFactor ==
  ASSUME NEW k \in Nat, k > 0, NEW x \in Int, NEW y \in Int, k * x <= k * y
  PROVE  x <= y
<1> SUFFICES ASSUME x >= y + 1 PROVE FALSE
  OBVIOUS
<1>1. PICK z \in Nat : x = (y + 1) + z
  <2>1. x - (y + 1) \in Nat /\ x = (y + 1) + (x - (y + 1))
    OBVIOUS
  <2> QED BY <2>1
<1>2. k * x = k * y + k + k * z /\ k * z \in Nat /\ k * x \in Int /\ k * y \in Int
  BY <1>1
<1> QED
  BY <1>2

\* What the division of integers leaves over.
LEMMA DivisionFact ==
  ASSUME NEW x \in Nat, NEW d \in Nat, d > 0
  PROVE  x \div d \in Nat /\ d * (x \div d) <= x /\ x < d * (x \div d) + d
OBVIOUS

\* The larger of two amounts has the larger quotient.
LEMMA DivisionGrows ==
  ASSUME NEW x \in Nat, NEW y \in Nat, x <= y, NEW d \in Nat, d > 0
  PROVE  x \div d <= y \div d
<1> DEFINE p == x \div d
           q == y \div d
<1>1. p \in Nat /\ q \in Nat /\ d * p <= x /\ y < d * q + d
  BY DivisionFact
<1> HIDE DEF p, q
<1> SUFFICES ASSUME p >= q + 1 PROVE FALSE
  BY <1>1 DEF p, q
<1>2. d * (q + 1) <= d * p
  BY <1>1, ProductGrows
<1>3. d * (q + 1) = d * q + d /\ d * p \in Nat /\ d * q \in Nat
  BY <1>1
<1> QED
  BY <1>1, <1>2, <1>3

-----------------------------------------------------------------------------
(* Rounding.                                                               *)

\* Rounding adds half a step at most.
LEMMA RoundingFact ==
  ASSUME NEW n \in Nat, NEW d \in Nat, d > 0
  PROVE  /\ RoundToPrecision(Quotient(n, d)) \in Nat
         /\ (2 * RoundToPrecision(Quotient(n, d)) - 1) * d <= 2 * Precision * n
<1> DEFINE P == Precision
           m == n * P
           r == RoundToPrecision(Quotient(n, d))
<1>1. m \in Nat /\ 2 * n * P = 2 * m /\ 2 * P * n = 2 * m
  <2>1. P \in Nat
    OBVIOUS
  <2> QED
    BY <2>1
<1>2. r = (2 * m + d) \div (2 * d)
  BY <1>1 DEF RoundToPrecision, Quotient
<1> HIDE DEF m, r, P
<1>3. 2 * m + d \in Nat /\ 2 * d \in Nat /\ 2 * d > 0
  BY <1>1
<1>4. r \in Nat /\ (2 * d) * r <= 2 * m + d
  <2> DEFINE x == 2 * m + d
             y == 2 * d
  <2>1. x \in Nat /\ y \in Nat /\ y > 0 /\ r = x \div y
    BY <1>2, <1>3
  <2> HIDE DEF x, y
  <2>2. x \div y \in Nat /\ y * (x \div y) <= x
    BY <2>1, DivisionFact
  <2>3. r \in Nat /\ y * r <= x
    BY <2>1, <2>2
  <2> QED
    BY <2>3 DEF x, y
<1>5. (2 * r - 1) * d = (2 * d) * r - d /\ (2 * d) * r \in Nat
  BY <1>4
<1>6. (2 * r - 1) * d <= 2 * m
  BY <1>1, <1>4, <1>5
<1>7. (2 * r - 1) * d <= 2 * P * n
  BY <1>1, <1>6
<1> QED
  BY <1>4, <1>7 DEF r, P

\* The unit is a positive number.
LEMMA UnitFact == Unit \in Nat /\ Unit > 0
<1>1. Precision * Finer \in Nat /\ Precision * Finer > 0
  BY ProductFact
<1>2. Unit = 200 * (Precision * Finer)
  BY DEF Unit
<1> QED
  BY <1>1, <1>2

\* Rounding keeps prices in order.
LEMMA RoundPriceFact ==
  ASSUME NEW x \in Nat, NEW y \in Nat
  PROVE  /\ RoundPrice(x) \in Nat
         /\ (2 * RoundPrice(x) - 1) * Unit <= 2 * Precision * x
         /\ x <= y => RoundPrice(x) <= RoundPrice(y)
<1>1. RoundPrice(x) \in Nat /\ (2 * RoundPrice(x) - 1) * Unit <= 2 * Precision * x
  <2> DEFINE U == Unit
  <2>1. U \in Nat /\ U > 0
    BY UnitFact
  <2> HIDE DEF U
  <2>2. /\ RoundToPrecision(Quotient(x, U)) \in Nat
        /\ (2 * RoundToPrecision(Quotient(x, U)) - 1) * U <= 2 * Precision * x
    BY <2>1, RoundingFact
  <2> QED
    BY <2>2 DEF RoundPrice, U
<1>2. ASSUME x <= y PROVE RoundPrice(x) <= RoundPrice(y)
  <2> DEFINE P == Precision
             U == Unit
             a == x * P
             b == y * P
  <2>1. a \in Nat /\ b \in Nat /\ a <= b /\ 2 * x * P = 2 * a /\ 2 * y * P = 2 * b
    <3>1. P \in Nat
      OBVIOUS
    <3>2. x * P <= y * P
      BY <1>2, <3>1, ProductGrows
    <3> HIDE DEF P
    <3> QED
      BY <3>1, <3>2
  <2>2. U \in Nat /\ U > 0
    BY UnitFact
  <2>3. /\ RoundPrice(x) = (2 * a + U) \div (2 * U)
        /\ RoundPrice(y) = (2 * b + U) \div (2 * U)
    BY <2>1 DEF RoundPrice, RoundToPrecision, Quotient
  <2> HIDE DEF a, b, U
  <2> DEFINE v == 2 * a + U
             w == 2 * b + U
             d == 2 * U
  <2>4. v \in Nat /\ w \in Nat /\ v <= w /\ d \in Nat /\ d > 0
    BY <2>1, <2>2
  <2>5. RoundPrice(x) = v \div d /\ RoundPrice(y) = w \div d
    BY <2>3
  <2> HIDE DEF v, w, d
  <2>6. v \div d <= w \div d
    BY <2>4, DivisionGrows
  <2> QED
    BY <2>5, <2>6
<1> QED
  BY <1>1, <1>2

-----------------------------------------------------------------------------
(* The amounts of a signal.                                                *)

\* What is charged is nothing when it is divided as an integer.
LEMMA ChargeFact == \A c \in Commissions : c \div 10000 = 0
<1> SUFFICES ASSUME NEW c \in Commissions PROVE c \div 10000 = 0
  OBVIOUS
<1>1. c \in 0 .. 9999
  BY CommissionsAssumption
<1>2. \A i \in 0 .. 9999 : i \div 10000 = 0
  OBVIOUS
<1> QED
  BY <1>1, <1>2

\* The inputs are natural numbers, and a price is positive.
LEMMA InputsFact ==
  /\ \A e \in EntryPrices : e \in Nat /\ e > 0
  /\ \A b \in Balances : b \in Nat
  /\ \A p \in RiskPercents : p \in Nat
<1>1. \A b \in Balances : b \in Nat
  BY BalancesAssumption
<1>2. ASSUME NEW e \in EntryPrices PROVE e \in Nat /\ e > 0
  <2>1. e \in Nat \ {0}
    BY EntryPricesAssumption
  <2> QED
    BY <2>1
<1>3. ASSUME NEW p \in RiskPercents PROVE p \in Nat
  <2>1. p \in 0 .. 100
    BY RiskAssumption
  <2> QED
    BY <2>1
<1> QED
  BY <1>1, <1>2, <1>3

\* The amounts of a signal are whole: 97.5 and 105 percent of the entry target, of
\* which a step of the exchange is two hundred units.
LEMMA AmountsFact ==
  ASSUME TypeOK
  PROVE  /\ entry \in Nat /\ entry > 0
         /\ EntryTarget = 200 * entry /\ EntryTarget \in Nat /\ EntryTarget > 0
         /\ StopLossTarget = 195 * entry /\ StopLossTarget \in Nat
         /\ TakeProfitTarget = 210 * entry /\ TakeProfitTarget \in Nat
         /\ TradeRisk = 5 * entry /\ TradeRisk \in Nat /\ TradeRisk > 0
         /\ Balance \in Nat /\ AccountRisk \in Nat
<1>1. entry \in Nat /\ entry > 0
  <2>1. entry \in EntryPrices
    BY DEF TypeOK
  <2> QED
    BY <2>1, InputsFact
<1>2. wallet.balance \in Nat /\ wallet.risk \in Nat
  <2>1. wallet.balance \in Balances /\ wallet.risk \in RiskPercents
    BY DEF TypeOK
  <2> QED
    BY <2>1, InputsFact
<1>3. EntryTarget = 200 * entry /\ EntryTarget \div 40 = 5 * entry /\ EntryTarget \div 20 = 10 * entry
  BY <1>1 DEF EntryTarget, Exchange
<1>4. StopLossTarget = 195 * entry /\ TakeProfitTarget = 210 * entry
  BY <1>1, <1>3 DEF StopLossTarget, TakeProfitTarget
<1>5. TradeRisk = 5 * entry
  BY <1>1, <1>3, <1>4 DEF TradeRisk
<1>6. Balance \in Nat /\ Balance \div 100 \in Nat
  BY <1>2 DEF Balance, Exchange
<1>7. AccountRisk \in Nat
  BY <1>2, <1>6, ProductFact DEF AccountRisk
<1> QED
  BY <1>1, <1>3, <1>4, <1>5, <1>6, <1>7

\* The size is a fraction that is neither above what is at risk nor above what
\* the balance pays for.
LEMMA SizeFact ==
  ASSUME TypeOK
  PROVE  \E n, d \in Nat : /\ d > 0 /\ PositionSize = Quotient(n, d)
                           /\ n * TradeRisk <= AccountRisk * d
                           /\ n * EntryTarget <= Balance * d
<1> DEFINE a == AccountRisk
           t == TradeRisk
           b == Balance
           e == EntryTarget
<1>1. /\ a \in Nat /\ t \in Nat /\ t > 0 /\ b \in Nat /\ e \in Nat /\ e > 0
  BY AmountsFact
<1>2. PositionSize = IF a * e <= b * t THEN Quotient(a, t) ELSE Quotient(b, e)
  BY DEF PositionSize, MaxPositionSize, AtMost, Quotient
<1> HIDE DEF a, t, b, e
<1>3. /\ a * t <= a * t /\ b * e <= b * e
      /\ a * e \in Int /\ b * t \in Int /\ a * t \in Int /\ b * e \in Int
  BY <1>1
<1>4. CASE a * e <= b * t
  <2> SUFFICES t > 0 /\ PositionSize = Quotient(a, t) /\ a * t <= a * t /\ a * e <= b * t
    BY <1>1 DEF a, t, b, e
  <2> QED
    BY <1>1, <1>2, <1>3, <1>4
<1>5. CASE ~(a * e <= b * t)
  <2>1. b * t <= a * e
    BY <1>3, <1>5
  <2> SUFFICES e > 0 /\ PositionSize = Quotient(b, e) /\ b * t <= a * e /\ b * e <= b * e
    BY <1>1 DEF a, t, b, e
  <2> QED
    BY <1>1, <1>2, <1>3, <1>5, <2>1
<1> QED
  BY <1>4, <1>5

\* What rounding may add to a size that is limited by a quotient.
LEMMA LimitFact ==
  ASSUME NEW n \in Nat, NEW d \in Nat, d > 0, NEW a \in Nat, NEW t \in Nat,
         n * t <= a * d,
         NEW r \in Nat, (2 * r - 1) * d <= 2 * Precision * n
  PROVE  (2 * r - 1) * t <= 2 * Precision * a
<1> DEFINE k == 2 * r - 1
           P2 == 2 * Precision
<1>1. k \in Int /\ P2 \in Nat
  OBVIOUS
<1>2. k * d <= P2 * n
  OBVIOUS
<1> HIDE DEF k, P2
<1>3. (k * d) * t <= (P2 * n) * t
  <2>1. k * d \in Int /\ P2 * n \in Int
    BY <1>1
  <2>2. \A x, y \in Int : x <= y => x * t <= y * t
    <3> SUFFICES ASSUME NEW x \in Int, NEW y \in Int, x <= y PROVE x * t <= y * t
      OBVIOUS
    <3>1. PICK z \in Nat : y = x + z
      <4>1. y - x \in Nat /\ y = x + (y - x)
        OBVIOUS
      <4> QED BY <4>1
    <3>2. y * t = x * t + z * t /\ z * t \in Nat /\ x * t \in Int
      BY <3>1
    <3> QED
      BY <3>2
  <2> QED
    BY <1>2, <2>1, <2>2
<1>4. (P2 * n) * t = P2 * (n * t) /\ P2 * (n * t) <= P2 * (a * d)
  BY <1>1, ProductFact, ProductGrows
<1>5. (k * d) * t = d * (k * t) /\ P2 * (a * d) = d * (P2 * a)
  BY <1>1
<1>6. d * (k * t) <= d * (P2 * a)
  <2>1. (k * d) * t \in Int /\ P2 * (n * t) \in Int /\ P2 * (a * d) \in Int
    BY <1>1
  <2>2. (k * d) * t <= P2 * (a * d)
    BY <1>3, <1>4, <2>1
  <2> QED
    BY <1>5, <2>2
<1>7. k * t \in Int /\ P2 * a \in Int
  BY <1>1
<1>8. k * t <= P2 * a
  BY <1>6, <1>7, CancelFactor
<1> QED
  BY <1>8 DEF k, P2

-----------------------------------------------------------------------------
(* A position that is opened.                                              *)

\* What OpenPosition writes down: three prices in order, and a size limited
\* twice.
LEMMA OpenedFact ==
  ASSUME TypeOK, NothingCharged, OpenPosition
  PROVE  /\ position' \in [size : Nat, entryPrice : Nat, takeProfit : Nat, stopLoss : Nat]
         /\ position'.stopLoss <= position'.entryPrice
         /\ position'.entryPrice <= position'.takeProfit
         /\ (2 * position'.size - 1) * TradeRisk <= 2 * Precision * AccountRisk
         /\ (2 * position'.size - 1) * EntryTarget <= 2 * Precision * Balance
         /\ (2 * position'.entryPrice - 1) * Unit <= 2 * Precision * EntryTarget
<1>1. position' = [size |-> RoundToPrecision(PositionSize),
                   entryPrice |-> RoundPrice(EntryTarget),
                   takeProfit |-> RoundPrice(TakeProfitPrice),
                   stopLoss |-> RoundPrice(StopLossPrice)]
  BY DEF OpenPosition
<1>2. TakeProfitPrice = TakeProfitTarget /\ StopLossPrice = StopLossTarget
  BY AmountsFact DEF TakeProfitPrice, StopLossPrice, NothingCharged
<1>3. /\ EntryTarget \in Nat /\ TakeProfitTarget \in Nat /\ StopLossTarget \in Nat
      /\ StopLossTarget <= EntryTarget /\ EntryTarget <= TakeProfitTarget
      /\ TradeRisk \in Nat /\ AccountRisk \in Nat /\ Balance \in Nat
  BY AmountsFact
<1>4. /\ RoundPrice(EntryTarget) \in Nat /\ RoundPrice(TakeProfitTarget) \in Nat
      /\ RoundPrice(StopLossTarget) \in Nat
      /\ (2 * RoundPrice(EntryTarget) - 1) * Unit <= 2 * Precision * EntryTarget
      /\ RoundPrice(StopLossTarget) <= RoundPrice(EntryTarget)
      /\ RoundPrice(EntryTarget) <= RoundPrice(TakeProfitTarget)
  BY <1>3, RoundPriceFact
<1>5. PICK n \in Nat, d \in Nat : /\ d > 0 /\ PositionSize = Quotient(n, d)
                                  /\ n * TradeRisk <= AccountRisk * d
                                  /\ n * EntryTarget <= Balance * d
  BY SizeFact
<1> DEFINE r == RoundToPrecision(PositionSize)
<1>6. r \in Nat /\ (2 * r - 1) * d <= 2 * Precision * n
  BY <1>5, RoundingFact
<1> HIDE DEF r
<1>7. (2 * r - 1) * TradeRisk <= 2 * Precision * AccountRisk
  BY <1>3, <1>5, <1>6, LimitFact
<1>8. (2 * r - 1) * EntryTarget <= 2 * Precision * Balance
  BY <1>3, <1>5, <1>6, LimitFact
<1>9. /\ position'.size = r /\ position'.entryPrice = RoundPrice(EntryTarget)
      /\ position'.takeProfit = RoundPrice(TakeProfitTarget)
      /\ position'.stopLoss = RoundPrice(StopLossTarget)
  BY <1>1, <1>2 DEF r
<1>10. position' \in [size : Nat, entryPrice : Nat, takeProfit : Nat, stopLoss : Nat]
  BY <1>1, <1>2, <1>4, <1>6 DEF r
<1> QED
  BY <1>4, <1>7, <1>8, <1>9, <1>10

\* A size limited by a quotient of the balance and the price, times the price.
LEMMA CostFact ==
  ASSUME NEW P \in Nat, P > 0, NEW U \in Nat, NEW e \in Nat, e > 0, NEW b \in Nat,
         NEW x \in Nat, NEW y \in Nat, x * e <= 2 * P * b, y * U <= 2 * P * e
  PROVE  x * y * U <= 4 * P * P * b
<1> DEFINE k == 2 * P
<1>1. k \in Nat /\ x * e <= k * b /\ y * U <= k * e
  OBVIOUS
<1> HIDE DEF k
<1>2. /\ y * U \in Nat /\ k * e \in Nat /\ x * e \in Nat /\ k * b \in Nat
      /\ x * (y * U) \in Nat /\ x * (k * e) \in Nat /\ k * (x * e) \in Nat
      /\ k * (k * b) \in Nat
  BY <1>1, ProductFact
<1>3. x * (y * U) <= x * (k * e)
  BY <1>1, <1>2, ProductGrows
<1>4. k * (x * e) <= k * (k * b)
  BY <1>1, <1>2, ProductGrows
<1>5. x * (k * e) = k * (x * e)
  BY <1>1
<1>6. x * (y * U) <= k * (k * b)
  BY <1>2, <1>3, <1>4, <1>5
<1>7. k * (k * b) = 4 * P * P * b
  BY DEF k
<1>8. x * (y * U) = x * y * U
  OBVIOUS
<1> QED
  BY <1>6, <1>7, <1>8

\* The inductive invariant.
RiskInv == SizingInv /\ LossWithinRisk

\* Nothing is opened, and nothing charged, in the beginning.
LEMMA SizingInit == Init => RiskInv
<1> SUFFICES ASSUME Init PROVE RiskInv
  OBVIOUS
<1>1. TypeOK
  BY DEF Init, TypeOK, NoPosition
<1>2. NothingCharged
  BY DEF Init, NothingCharged
<1>3. outcome = "none"
  BY DEF Init
<1> QED
  BY <1>1, <1>2, <1>3 DEF RiskInv, SizingInv, CostWithinBalance, PricesOrdered, LossWithinRisk

\* A signal forgets the position before it, and what is opened is as OpenedFact has it.
LEMMA SizingStep == RiskInv /\ [Next]_vars => RiskInv'
<1> SUFFICES ASSUME RiskInv, [Next]_vars PROVE RiskInv'
  OBVIOUS
<1>0. /\ TypeOK /\ NothingCharged
      /\ CostWithinBalance /\ PricesOrdered /\ LossWithinRisk
  BY DEF RiskInv, SizingInv
<1>1. CASE ReceiveSignal
  <2>1. PICK b \in Balances :
          wallet' = [wallet EXCEPT !.balance = b, !.commission = TakerCommission]
    BY <1>1 DEF ReceiveSignal
  <2> DEFINE z == wallet.charged \div 10000
  <2>2. z = 0
    <3>1. wallet \in [balance : Balances, risk : RiskPercents,
                      charged : Commissions, commission : Nat]
      BY <1>0 DEF TypeOK
    <3>2. wallet.charged \in Commissions
      BY <3>1
    <3> QED
      BY <3>2, ChargeFact
  <2>3. NothingCharged' /\ wallet' \in [balance : Balances, risk : RiskPercents,
                                        charged : Commissions, commission : Nat]
    <3>0. wallet \in [balance : Balances, risk : RiskPercents,
                      charged : Commissions, commission : Nat]
      BY <1>0 DEF TypeOK
    <3>1. wallet' = [wallet EXCEPT !.balance = b, !.commission = z]
      BY <2>1 DEF TakerCommission
    <3> HIDE DEF z
    <3>2. wallet'.commission = 0
      BY <2>2, <3>0, <3>1
    <3>3. wallet' \in [balance : Balances, risk : RiskPercents,
                       charged : Commissions, commission : Nat]
      BY <2>2, <3>0, <3>1
    <3> QED
      BY <3>2, <3>3 DEF NothingCharged
  <2>4. TypeOK' /\ outcome' = "signal"
    BY <1>1, <2>3 DEF ReceiveSignal, TypeOK, NoPosition
  <2> QED
    BY <2>3, <2>4 DEF RiskInv, SizingInv, CostWithinBalance, PricesOrdered, LossWithinRisk
<1>2. CASE DropSignal
  <2>1. TypeOK' /\ NothingCharged' /\ outcome' = "insufficient funds"
    BY <1>0, <1>2 DEF DropSignal, TypeOK, NothingCharged
  <2> QED
    BY <2>1 DEF RiskInv, SizingInv, CostWithinBalance, PricesOrdered, LossWithinRisk
<1>3. CASE OpenPosition
  <2>1. outcome' = "opened" /\ wallet' = wallet /\ entry' = entry
    BY <1>3 DEF OpenPosition
  <2>2. /\ EntryTarget' = EntryTarget /\ StopLossTarget' = StopLossTarget
        /\ TradeRisk' = TradeRisk /\ Balance' = Balance /\ AccountRisk' = AccountRisk
    BY <2>1 DEF EntryTarget, StopLossTarget, TradeRisk, Balance, AccountRisk
  <2>3. /\ position' \in [size : Nat, entryPrice : Nat, takeProfit : Nat, stopLoss : Nat]
        /\ position'.stopLoss <= position'.entryPrice
        /\ position'.entryPrice <= position'.takeProfit
        /\ (2 * position'.size - 1) * TradeRisk <= 2 * Precision * AccountRisk
        /\ (2 * position'.size - 1) * EntryTarget <= 2 * Precision * Balance
        /\ (2 * position'.entryPrice - 1) * Unit <= 2 * Precision * EntryTarget
    BY <1>0, <1>3, OpenedFact
  <2>4. TypeOK' /\ NothingCharged'
    BY <1>0, <2>1, <2>3 DEF TypeOK, NothingCharged
  <2>5. PricesOrdered' /\ LossWithinRisk'
    BY <2>2, <2>3 DEF PricesOrdered, LossWithinRisk
  <2>6. CostWithinBalance'
    <3> SUFFICES ASSUME position'.size > 0, position'.entryPrice > 0
                 PROVE  (2 * position'.size - 1) * (2 * position'.entryPrice - 1) * Unit
                          <= 4 * Precision * Precision * Balance
      BY <2>2 DEF CostWithinBalance, Unit
    <3> DEFINE x == 2 * position'.size - 1
               y == 2 * position'.entryPrice - 1
    <3>1. position'.size \in Nat /\ position'.entryPrice \in Nat
      BY <2>3
    <3>2. x \in Nat /\ y \in Nat
      BY <3>1
    <3>3. /\ EntryTarget \in Nat /\ EntryTarget > 0 /\ Balance \in Nat
          /\ Unit \in Nat /\ Precision \in Nat /\ Precision > 0
      BY <1>0, AmountsFact, UnitFact
    <3>4. x * EntryTarget <= 2 * Precision * Balance /\ y * Unit <= 2 * Precision * EntryTarget
      BY <2>3
    <3> HIDE DEF x, y
    <3>5. x * y * Unit <= 4 * Precision * Precision * Balance
      BY <3>2, <3>3, <3>4, CostFact
    <3> QED
      BY <3>5 DEF x, y
  <2> QED
    BY <2>4, <2>5, <2>6 DEF RiskInv, SizingInv
<1>4. CASE UNCHANGED vars
  BY <1>0, <1>4 DEF vars, RiskInv, SizingInv, TypeOK, NothingCharged, CostWithinBalance,
                    PricesOrdered, LossWithinRisk, EntryTarget, StopLossTarget, TradeRisk,
                    Balance, AccountRisk
<1> QED
  BY <1>1, <1>2, <1>3, <1>4 DEF Next

-----------------------------------------------------------------------------
(* The theorems.                                                           *)

\* Whatever the precision and the amounts are, a position that is opened costs
\* no more than the balance, but for the rounding, and its prices are in order
\* (trading/position.go:197-232).
THEOREM SizingInvariant == Spec => []SizingInv
<1>1. RiskInv => SizingInv
  BY DEF RiskInv
<1> QED
  BY <1>1, SizingInit, SizingStep, PTL DEF Spec

\* And no more is at risk than the account allows, but for the rounding of the
\* size (trading/position.go:192-195).
THEOREM RiskLimited == Spec => []LossWithinRisk
<1>1. RiskInv => LossWithinRisk
  BY DEF RiskInv
<1> QED
  BY <1>1, SizingInit, SizingStep, PTL DEF Spec

-----------------------------------------------------------------------------
(***************************************************************************)
(* Part two.  The mails.                                                   *)
(***************************************************************************)

\* The conjuncts of the invariant that are inductive together.
MailParts == /\ MailTypeOK
             /\ PublishedIsKept
             /\ InvocationKept
             /\ MessagesAccounted
             /\ NothingVanishes

\* The others follow: a settled event that was not lost was published, and then
\* the broker had a message, or failed, and then it is in the log.
LEMMA PartsSuffice == ASSUME MailParts PROVE MailInv
<1> USE CopiesAssumption, NoneAssumption DEF MailParts, MailTypeOK
<1>1. LossLeavesTrace
  BY DEF LossLeavesTrace, Settled, PublishedIsKept, NothingVanishes
<1>2. OneMailPerMessage
  BY DEF OneMailPerMessage, MessagesAccounted, InHand
<1> QED
  BY <1>1, <1>2 DEF MailInv

\* Nothing has been published in the beginning.
LEMMA MailsInit == ASSUME MailInit PROVE MailParts
BY CopiesAssumption, NoneAssumption DEF MailInit, MailParts, MailTypeOK, PublishedIsKept,
       InvocationKept, MessagesAccounted, NothingVanishes, InHand

\* Whatever becomes of a message, it stays accounted for.
LEMMA MailsStep ==
  ASSUME MailParts, [MailNext]_mailVars
  PROVE  MailParts'
<1> USE CopiesAssumption, NoneAssumption DEF MailParts, MailTypeOK, PublishedIsKept,
        InvocationKept, MessagesAccounted, NothingVanishes, InHand, publisher, broker, function
<1>1. ASSUME NEW e \in Events, Publish(e) PROVE MailParts'
  BY <1>1 DEF Publish, Becomes
<1>2. ASSUME NEW e \in Events, ResultFails(e) PROVE MailParts'
  BY <1>2 DEF ResultFails, Becomes
<1>3. ASSUME NEW e \in Events, Accept(e) \/ AcceptSilently(e) \/ Repeat(e)
      PROVE  MailParts'
  BY <1>3 DEF Accept, AcceptSilently, Repeat, NewMessage, Becomes
<1>4. ASSUME NEW e \in Events, Deliver(e) PROVE MailParts'
  BY <1>4 DEF Deliver
<1>5. CASE Crash
  BY <1>5 DEF Crash
<1>6. CASE InitializeMailService
  BY <1>6 DEF InitializeMailService, Goto
<1>7. CASE SendMail
  BY <1>7 DEF SendMail, Goto
<1>8. CASE Succeed
  BY <1>8 DEF Succeed, Return
<1>9. CASE Fails
  BY <1>9 DEF Fails, Return
<1>10. CASE UNCHANGED mailVars
  BY <1>10 DEF mailVars
<1> QED
  BY <1>1, <1>2, <1>3, <1>4, <1>5, <1>6, <1>7, <1>8, <1>9, <1>10
  DEF MailNext, ProcessEvent

\* However many events there are and however often each of them is delivered, an
\* event that was not mailed left an error in a log, unless its publisher ended
\* first, and no event is mailed more often than it was delivered
\* (trading/pubsub/event.go:45-70, notification/function.go:33-47).
THEOREM MailInvariant == MailSpec => []MailInv
<1>1. MailInit => MailParts
  BY MailsInit
<1>2. MailParts /\ [MailNext]_mailVars => MailParts'
  BY MailsStep
<1>3. MailParts => MailInv
  BY PartsSuffice
<1> QED
  BY <1>1, <1>2, <1>3, PTL DEF MailSpec
=============================================================================
