------------------------ MODULE SignalGeneratorProofs ------------------------
(***************************************************************************)
(* Proofs about the signals of a runner, for any prices, any windows and   *)
(* any pause of at least five minutes.                                     *)
(*                                                                         *)
(* The moving average is a recursive function.  What it computes is proved *)
(* by induction over sets of natural numbers, which the library's theorem  *)
(* on well-founded relations gives without an operator as a parameter.     *)
(***************************************************************************)
EXTENDS SignalGeneratorProperties, SequenceTheorems, WellFoundedInduction, TLAPS

USE PricesAssumption, WindowsAssumption, PauseAssumption, TimeAssumption

-----------------------------------------------------------------------------
(* Induction and recursion.                                                *)

\* A set of natural numbers that is not empty has a least element.
LEMMA LeastNat ==
  ASSUME NEW T \in SUBSET Nat, T # {}
  PROVE  \E x \in T : \A y \in T : x <= y
<1> DEFINE R == {ss \in Nat \X Nat : ss[1] < ss[2]}
<1>1. IsWellFoundedOn(R, Nat)
  BY NatLessThanWellFounded DEF OpToRel
<1>2. PICK x \in T : \A y \in T : ~ (<<y, x>> \in R)
  BY <1>1, WFMin
<1>3. \A y \in T : ~(y < x)
  BY <1>2
<1> QED BY <1>3

\* A set that holds 0 and with every number the next holds them all.
LEMMA NatSetInduction ==
  ASSUME NEW S \in SUBSET Nat, 0 \in S, \A n \in S : n + 1 \in S
  PROVE  S = Nat
<1> SUFFICES ASSUME Nat \ S # {} PROVE FALSE
  OBVIOUS
<1>1. PICK x \in Nat \ S : \A y \in Nat \ S : x <= y
  BY LeastNat
<1>2. x # 0 /\ x - 1 \in Nat /\ ~(x <= x - 1)
  BY <1>1
<1>3. x - 1 \in S
  BY <1>1, <1>2
<1> QED
  BY <1>1, <1>2, <1>3

\* What a recursion over the interval from a to b asks for: a value in V for a,
\* and for every other number a value made from the one before.
Steps(a, b, V) == [(a .. b) \X V -> V]
Solves(g, a, b, V, start, step) ==
  /\ g \in [a .. b -> V]
  /\ \A j \in a .. b : g[j] = IF j = a THEN start ELSE step[<<j, g[j - 1]>>]

\* A recursion over an interval has a solution.
LEMMA RecursionExists ==
  ASSUME NEW a \in Int, NEW b \in Int, NEW V, NEW start \in V,
         NEW step \in Steps(a, b, V)
  PROVE  \E g : Solves(g, a, b, V, start, step)
<1> USE DEF Steps, Solves
<1> SUFFICES \E g \in [a .. b -> V] :
               \A j \in a .. b : g[j] = IF j = a THEN start ELSE step[<<j, g[j - 1]>>]
  OBVIOUS
<1> DEFINE Good(n, g) == \A j \in a .. a + n :
                           g[j] = IF j = a THEN start ELSE step[<<j, g[j - 1]>>]
           S == {n \in Nat : a + n <= b => \E g \in [a .. a + n -> V] : Good(n, g)}
<1>1. 0 \in S
  <2> SUFFICES ASSUME a + 0 <= b PROVE \E g \in [a .. a + 0 -> V] : Good(0, g)
    OBVIOUS
  <2> WITNESS [j \in a .. a + 0 |-> start] \in [a .. a + 0 -> V]
  <2> QED OBVIOUS
<1>2. ASSUME NEW n \in S PROVE n + 1 \in S
  <2> SUFFICES ASSUME a + (n + 1) <= b
               PROVE  \E g \in [a .. a + (n + 1) -> V] : Good(n + 1, g)
    OBVIOUS
  <2>1. n \in Nat /\ a + n <= b
    OBVIOUS
  <2>2. PICK h \in [a .. a + n -> V] : Good(n, h)
    BY <2>1
  <2> DEFINE w == step[<<a + (n + 1), h[a + n]>>]
             g == [j \in a .. a + (n + 1) |-> IF j = a + (n + 1) THEN w ELSE h[j]]
  <2>3. w \in V
    <3>1. h[a + n] \in V
      BY <2>1, <2>2
    <3>2. a + (n + 1) \in a .. b
      BY <2>1
    <3> QED BY <3>1, <3>2
  <2>4. g \in [a .. a + (n + 1) -> V]
    <3>1. \A j \in a .. a + (n + 1) : j # a + (n + 1) => j \in a .. a + n
      BY <2>1
    <3> HIDE DEF w
    <3> QED BY <2>2, <2>3, <3>1
  <2>5. Good(n + 1, g)
    <3> SUFFICES ASSUME NEW j \in a .. a + (n + 1)
                 PROVE  g[j] = IF j = a THEN start ELSE step[<<j, g[j - 1]>>]
      OBVIOUS
    <3>1. CASE j = a + (n + 1)
      <4>1. j # a /\ j - 1 = a + n /\ j - 1 \in a .. a + (n + 1) /\ j - 1 # a + (n + 1)
        BY <2>1, <3>1
      <4>2. g[j - 1] = h[a + n]
        BY <4>1
      <4>3. g[j] = step[<<j, h[a + n]>>]
        BY <3>1
      <4> HIDE DEF g
      <4> QED BY <4>1, <4>2, <4>3
    <3>2. CASE j # a + (n + 1)
      <4>1. j \in a .. a + n /\ (j # a => j - 1 \in a .. a + (n + 1) /\ j - 1 # a + (n + 1))
        BY <2>1, <3>2
      <4>2. g[j] = h[j] /\ (j # a => g[j - 1] = h[j - 1])
        BY <3>2, <4>1
      <4> HIDE DEF g
      <4> QED BY <2>2, <4>1, <4>2
    <3> QED BY <3>1, <3>2
  <2> QED BY <2>4, <2>5
<1>3. S = Nat
  <2> HIDE DEF S
  <2>1. S \in SUBSET Nat
    BY DEF S
  <2> QED
    BY <1>1, <1>2, <2>1, NatSetInduction
<1>4. CASE a > b
  <2>1. a .. b = {}
    BY <1>4
  <2> WITNESS [j \in a .. b |-> start] \in [a .. b -> V]
  <2> QED BY <2>1
<1>5. CASE a <= b
  <2>1. b - a \in S /\ a + (b - a) = b
    <3>1. b - a \in Nat
      BY <1>5
    <3> HIDE DEF S
    <3> QED BY <3>1, <1>3
  <2>2. PICK g \in [a .. a + (b - a) -> V] : Good(b - a, g)
    BY <2>1
  <2> QED BY <2>1, <2>2
<1> QED BY <1>4, <1>5

-----------------------------------------------------------------------------
(* The moving average.                                                     *)

\* The candles of the list have their types.
LEMMA ListFact ==
  ASSUME TypeOK, NEW i \in 1 .. Len(list)
  PROVE  /\ Len(list) \in Nat /\ list[i] \in CandleSet
         /\ list[i].minute \in 1 .. LastMinute /\ list[i].price \in Nat
         /\ list[i].final \in BOOLEAN
<1>1. list \in Seq(CandleSet)
  BY DEF TypeOK
<1>2. Len(list) \in Nat /\ list[i] \in CandleSet
  BY <1>1
<1> QED
  BY <1>2 DEF CandleSet

\* The sum of the prices is defined for every beginning of the list, and a number.
LEMMA SumFact ==
  ASSUME TypeOK, Len(list) >= EmaWindow
  PROVE  PriceSum \in [0 .. EmaWindow -> Nat]
<1> DEFINE N == 0 .. EmaWindow
           step == [q \in N \X Nat |-> IF q[1] = 0 THEN 0 ELSE Price(q[1] - 1) + q[2]]
<1>1. \A i \in N : i # 0 => Price(i - 1) \in Nat
  <2> SUFFICES ASSUME NEW i \in N, i # 0 PROVE Price(i - 1) \in Nat
    OBVIOUS
  <2>1. i \in 1 .. Len(list) /\ (i - 1) + 1 = i
    <3>1. Len(list) \in Nat
      BY DEF TypeOK
    <3> QED BY <3>1
  <2>2. list[i].price \in Nat
    BY <2>1, ListFact
  <2> QED
    BY <2>1, <2>2 DEF Price
<1>2. step \in [N \X Nat -> Nat]
  <2>1. \A i \in N, n \in Nat : i # 0 => Price(i - 1) + n \in Nat
    BY <1>1
  <2>2. \A q \in N \X Nat : q[1] \in N /\ q[2] \in Nat
    OBVIOUS
  <2> HIDE DEF N
  <2> QED
    BY <2>1, <2>2
<1>3. PICK g : /\ g \in [N -> Nat]
               /\ \A i \in N : g[i] = IF i = 0 THEN 0 ELSE step[<<i, g[i - 1]>>]
  <2>1. 0 \in Int /\ EmaWindow \in Int /\ 0 \in Nat
    OBVIOUS
  <2>2. step \in Steps(0, EmaWindow, Nat)
    BY <1>2 DEF Steps
  <2> HIDE DEF step
  <2>3. \E g : Solves(g, 0, EmaWindow, Nat, 0, step)
    BY <2>1, <2>2, RecursionExists, Zenon
  <2> QED
    BY <2>3 DEF Solves
<1>4. \A i \in N : i # 0 => step[<<i, g[i - 1]>>] = Price(i - 1) + g[i - 1]
  <2> SUFFICES ASSUME NEW i \in N, i # 0
               PROVE  step[<<i, g[i - 1]>>] = Price(i - 1) + g[i - 1]
    OBVIOUS
  <2>1. i - 1 \in N
    OBVIOUS
  <2>2. g[i - 1] \in Nat
    BY <2>1, <1>3
  <2> QED
    BY <2>2
<1>5. g = [i \in N |-> IF i = 0 THEN 0 ELSE Price(i - 1) + g[i - 1]]
  <2> HIDE DEF step, N
  <2> QED
    BY <1>3, <1>4
<1>6. PriceSum = [i \in N |-> IF i = 0 THEN 0 ELSE Price(i - 1) + PriceSum[i - 1]]
  BY <1>5, Zenon DEF PriceSum
<1> DEFINE S == {n \in Nat : n \in N => PriceSum[n] \in Nat}
<1>7. 0 \in S
  BY <1>6
<1>8. ASSUME NEW n \in S PROVE n + 1 \in S
  <2> SUFFICES ASSUME n + 1 \in N PROVE PriceSum[n + 1] \in Nat
    OBVIOUS
  <2>1. n \in N /\ n + 1 # 0 /\ (n + 1) - 1 = n
    OBVIOUS
  <2>2. PriceSum[n + 1] = Price((n + 1) - 1) + PriceSum[(n + 1) - 1]
    BY <1>6, <2>1
  <2>3. Price((n + 1) - 1) \in Nat
    BY <1>1, <2>1
  <2>4. PriceSum[n] \in Nat
    BY <2>1
  <2> QED
    BY <2>1, <2>2, <2>3, <2>4
<1>9. S = Nat
  <2>1. S \in SUBSET Nat
    OBVIOUS
  <2> HIDE DEF S
  <2> QED
    BY <1>7, <1>8, <2>1, NatSetInduction
<1> QED
  <2>1. \A n \in N : n \in Nat
    OBVIOUS
  <2>2. \A n \in N : PriceSum[n] \in Nat
    BY <1>9, <2>1
  <2> HIDE DEF S, N
  <2>3. PriceSum \in [N -> Nat]
    BY <1>6, <2>2
  <2> QED
    BY <2>3 DEF N

Fractions == [num : Nat, den : Nat \ {0}]

\* What one more price makes of the average (comment of techan's exponential
\* moving average: two parts in EmaWindow + 1 are the new price).
WithPrice(f, p) == [num |-> 2 * f.den * p + (EmaWindow - 1) * f.num,
                    den |-> (EmaWindow + 1) * f.den]

\* One more price makes a fraction of a fraction.
LEMMA WithPriceFact ==
  ASSUME NEW f \in Fractions, NEW p \in Nat
  PROVE  WithPrice(f, p) \in Fractions
<1>1. f.num \in Nat /\ f.den \in Nat /\ f.den > 0
  BY DEF Fractions
<1>2. 2 * f.den * p \in Nat /\ (EmaWindow - 1) * f.num \in Nat
  <2>1. f.den * p \in Nat
    BY <1>1
  <2>2. EmaWindow - 1 \in Nat
    OBVIOUS
  <2> QED
    BY <1>1, <2>1, <2>2
<1>3. (EmaWindow + 1) * f.den \in Nat /\ (EmaWindow + 1) * f.den > 0
  <2>1. EmaWindow + 1 \in Nat /\ EmaWindow + 1 > 0
    OBVIOUS
  <2>2. \A x, y \in Nat : x > 0 /\ y > 0 => x * y \in Nat /\ x * y > 0
    OBVIOUS
  <2> QED
    BY <1>1, <2>1, <2>2
<1> QED
  BY <1>2, <1>3 DEF Fractions, WithPrice

\* The average begins with the plain one and takes one price after the other.
LEMMA AverageFact ==
  ASSUME TypeOK, Len(list) >= EmaWindow
  PROVE  /\ Average \in [EmaWindow - 1 .. Len(list) - 1 -> Fractions]
         /\ \A j \in EmaWindow .. Len(list) - 1 :
              Average[j] = WithPrice(Average[j - 1], Price(j))
<1> DEFINE N == EmaWindow - 1 .. Len(list) - 1
           start == [num |-> PriceSum[EmaWindow], den |-> EmaWindow]
           step == [q \in N \X Fractions |-> WithPrice(q[2], Price(q[1]))]
<1>0. Len(list) \in Nat /\ EmaWindow - 1 \in N /\ \A j \in N : j \in Nat
  BY DEF TypeOK
<1>1. \A j \in N : Price(j) \in Nat
  <2> SUFFICES ASSUME NEW j \in N PROVE Price(j) \in Nat
    OBVIOUS
  <2>1. j + 1 \in 1 .. Len(list)
    BY <1>0
  <2> QED
    BY <2>1, ListFact DEF Price
<1>2. start \in Fractions
  BY SumFact DEF Fractions
<1>3. step \in [N \X Fractions -> Fractions]
  <2>1. \A j \in N, f \in Fractions : WithPrice(f, Price(j)) \in Fractions
    BY <1>1, WithPriceFact
  <2> HIDE DEF N
  <2> QED
    BY <2>1
<1>4. PICK g :
         /\ g \in [N -> Fractions]
         /\ \A j \in N : g[j] = IF j = EmaWindow - 1 THEN start ELSE step[<<j, g[j - 1]>>]
  <2>1. EmaWindow - 1 \in Int /\ Len(list) - 1 \in Int
    BY <1>0
  <2>2. step \in Steps(EmaWindow - 1, Len(list) - 1, Fractions)
    BY <1>3 DEF Steps
  <2> HIDE DEF step, start
  <2>3. \E g : Solves(g, EmaWindow - 1, Len(list) - 1, Fractions, start, step)
    BY <1>2, <2>1, <2>2, RecursionExists, Zenon
  <2> QED
    BY <2>3 DEF Solves
<1>5. \A j \in N : j # EmaWindow - 1 => j - 1 \in N
  BY <1>0
<1>6. \A j \in N : j # EmaWindow - 1 => step[<<j, g[j - 1]>>] = WithPrice(g[j - 1], Price(j))
  <2> SUFFICES ASSUME NEW j \in N, j # EmaWindow - 1
               PROVE  step[<<j, g[j - 1]>>] = WithPrice(g[j - 1], Price(j))
    OBVIOUS
  <2>1. g[j - 1] \in Fractions
    BY <1>4, <1>5
  <2> HIDE DEF N
  <2> QED
    BY <2>1
<1> HIDE DEF step
<1>7. g = [j \in N |-> IF j = EmaWindow - 1 THEN start ELSE WithPrice(g[j - 1], Price(j))]
  <2> HIDE DEF N, start
  <2> QED
    BY <1>4, <1>6
<1>8. Average = [j \in N |-> IF j = EmaWindow - 1 THEN start
                             ELSE WithPrice(Average[j - 1], Price(j))]
  BY <1>7, Zenon DEF Average, WithPrice
<1> DEFINE S == {n \in Nat : n + (EmaWindow - 1) \in N => Average[n + (EmaWindow - 1)] \in Fractions}
<1> HIDE DEF start
<1>9. 0 \in S
  <2>1. 0 + (EmaWindow - 1) = EmaWindow - 1
    OBVIOUS
  <2> HIDE DEF N
  <2>2. Average[EmaWindow - 1] = start
    BY <1>0, <1>8
  <2> QED
    BY <1>2, <2>1, <2>2
<1>10. ASSUME NEW n \in S PROVE n + 1 \in S
  <2> DEFINE j == (n + 1) + (EmaWindow - 1)
  <2> SUFFICES ASSUME j \in N PROVE Average[j] \in Fractions
    OBVIOUS
  <2>1. j # EmaWindow - 1 /\ j - 1 = n + (EmaWindow - 1)
    OBVIOUS
  <2>2. Average[j - 1] \in Fractions
    BY <1>5, <2>1
  <2> HIDE DEF j, N
  <2>3. Average[j] = WithPrice(Average[j - 1], Price(j))
    BY <1>8, <2>1
  <2> QED
    BY <1>1, <2>2, <2>3, WithPriceFact
<1>11. S = Nat
  <2>1. S \in SUBSET Nat
    OBVIOUS
  <2> HIDE DEF S
  <2> QED
    BY <1>9, <1>10, <2>1, NatSetInduction
<1>12. \A j \in N : Average[j] \in Fractions
  <2> SUFFICES ASSUME NEW j \in N PROVE Average[j] \in Fractions
    OBVIOUS
  <2>1. j - (EmaWindow - 1) \in Nat /\ (j - (EmaWindow - 1)) + (EmaWindow - 1) = j
    BY <1>0
  <2>2. j - (EmaWindow - 1) \in S
    BY <1>11, <2>1
  <2> QED
    BY <2>1, <2>2
<1>13. \A j \in EmaWindow .. Len(list) - 1 : j \in N /\ j # EmaWindow - 1
  BY <1>0
<1> HIDE DEF N
<1>14. Average \in [N -> Fractions]
  BY <1>8, <1>12
<1> QED
  BY <1>8, <1>13, <1>14 DEF N

-----------------------------------------------------------------------------
(* The crossing.                                                           *)

\* A factor can be taken away on both sides.
LEMMA CancelFactor ==
  ASSUME NEW k \in Nat, k > 0, NEW x \in Nat, NEW y \in Nat, k * x <= k * y
  PROVE  x <= y
<1> SUFFICES ASSUME x >= y + 1 PROVE FALSE
  OBVIOUS
<1>1. \A a, b \in Nat : a >= b => k * a >= k * b
  OBVIOUS
<1>2. k * x >= k * (y + 1)
  BY <1>1
<1>3. k * (y + 1) = k * y + k /\ k * x \in Int /\ k * y \in Int
  OBVIOUS
<1> QED
  BY <1>2, <1>3

\* A price p that is not below the average it becomes part of is not below the
\* average before, and so not below a price q that was not above that one.
LEMMA CrossingPrices ==
  ASSUME NEW f \in Fractions, NEW p \in Nat, NEW q \in Nat,
         f.den * q <= f.num,
         WithPrice(f, p).den * p >= WithPrice(f, p).num
  PROVE  q <= p
<1> DEFINE S == f.den
           A == f.num
           k == EmaWindow - 1
<1>1. S \in Nat /\ S > 0 /\ A \in Nat /\ k \in Nat /\ k > 0 /\ EmaWindow = k + 1
  BY DEF Fractions
<1>2. (EmaWindow + 1) * S * p >= 2 * S * p + k * A
  BY DEF WithPrice
<1> HIDE DEF S, A, k
<1>3. S * p \in Nat /\ S * q \in Nat /\ k * A \in Nat /\ k * (S * p) \in Nat
  BY <1>1
<1>4. (EmaWindow + 1) * S * p = k * (S * p) + 2 * (S * p)
  <2>1. (EmaWindow + 1) * S * p = (k + 2) * (S * p)
    BY <1>1
  <2> QED
    BY <1>1, <1>3, <2>1
<1>5. 2 * S * p = 2 * (S * p)
  BY <1>1
<1>6. k * A <= k * (S * p)
  BY <1>2, <1>3, <1>4, <1>5
<1>7. A <= S * p
  BY <1>1, <1>3, <1>6, CancelFactor
<1>8. S * q <= A
  BY DEF S, A
<1>9. S * q <= S * p
  BY <1>1, <1>3, <1>7, <1>8
<1> QED
  BY <1>1, <1>9, CancelFactor

\* The rule is not satisfied before the average has two values, and never by a
\* price below the one before.
LEMMA CrossingFact ==
  ASSUME TypeOK, NEW i \in 1 .. Len(list) - 1, NearCrossUp(i)
  PROVE  i >= EmaWindow /\ Price(i) >= Price(i - 1)
<1>1. Len(list) \in Nat /\ i \in Nat
  BY DEF TypeOK
<1>2. i >= EmaWindow
  <2>1. ~(i - 1 < EmaWindow - 1)
    BY DEF NearCrossUp, Cmp
  <2> QED
    BY <1>1, <2>1
<1>3. /\ Len(list) >= EmaWindow
      /\ i - 1 \in EmaWindow - 1 .. Len(list) - 1
      /\ i \in EmaWindow .. Len(list) - 1
      /\ ~(i < EmaWindow - 1) /\ ~(i - 1 < EmaWindow - 1)
  BY <1>1, <1>2
<1>4. Average[i - 1] \in Fractions /\ Average[i] = WithPrice(Average[i - 1], Price(i))
  BY <1>3, AverageFact
<1>5. Price(i) \in Nat /\ Price(i - 1) \in Nat
  <2>1. i + 1 \in 1 .. Len(list) /\ (i - 1) + 1 \in 1 .. Len(list)
    BY <1>1
  <2> QED
    BY <2>1, ListFact DEF Price
<1>6. /\ Average[i - 1].num \in Nat /\ Average[i - 1].den \in Nat
      /\ Average[i].num \in Nat /\ Average[i].den \in Nat
  <2>1. Average[i] \in Fractions
    BY <1>4, <1>5, WithPriceFact
  <2> QED
    BY <1>4, <2>1 DEF Fractions
<1>7. Average[i].den * Price(i) >= Average[i].num
  <2> DEFINE x == Average[i].den * Price(i)
             y == Average[i].num
  <2>1. Cmp(i) # -1
    BY DEF NearCrossUp
  <2>2. x > y \/ x = y
    BY <1>3, <2>1 DEF Cmp
  <2>3. x \in Nat /\ y \in Nat
    BY <1>5, <1>6
  <2> HIDE DEF x, y
  <2>4. x >= y
    BY <2>2, <2>3
  <2> QED
    BY <2>4 DEF x, y
<1>8. Average[i - 1].den * Price(i - 1) <= Average[i - 1].num
  <2> DEFINE x == Average[i - 1].den * Price(i - 1)
             y == Average[i - 1].num
  <2>1. Cmp(i - 1) # 1
    BY DEF NearCrossUp
  <2>2. ~(x > y)
    BY <1>3, <2>1 DEF Cmp
  <2>3. x \in Nat /\ y \in Nat
    BY <1>5, <1>6
  <2> HIDE DEF x, y
  <2>4. x <= y
    BY <2>2, <2>3
  <2> QED
    BY <2>4 DEF x, y
<1> DEFINE f == Average[i - 1]
           p == Price(i)
           q == Price(i - 1)
<1>9. /\ f \in Fractions /\ p \in Nat /\ q \in Nat
      /\ f.den * q <= f.num /\ WithPrice(f, p).den * p >= WithPrice(f, p).num
  BY <1>4, <1>5, <1>7, <1>8
<1> HIDE DEF f, p, q
<1>10. q <= p
  BY <1>9, CrossingPrices
<1> QED
  BY <1>2, <1>5, <1>10 DEF p, q

-----------------------------------------------------------------------------
(* The candles and the times of an unpaused runner.                        *)

Signal == [about : 1 .. LastMinute, settled : BOOLEAN, rising : BOOLEAN, known : Nat]

\* The conjuncts that are about the signals raised so far.
RaisedInv == /\ raised \in Seq(Signal)
             /\ RaisedBefore
             /\ OncePerCandle
             /\ SettledSignals
             /\ NoSignalInWarmUp
             /\ RisingSignals

\* The conjuncts that are about the loops.
LoopsInv == /\ now \in 1 .. LastMinute
            /\ list \in Seq(CandleSet) /\ Len(list) <= WindowSize
            /\ data \in {"down", "fetching", "live", "over"}
            /\ asked \in 0 .. LastMinute /\ at \in 0 .. LastMinute
            /\ action \in {"down", "running"}
            /\ lastSignal \in 0 .. LastMinute
            /\ TimesInOrder
            /\ TicksAtTheEnd

\* The invariant is what is said of the loops and what is said of the signals.
LEMMA InvParts == SignalInv <=> LoopsInv /\ RaisedInv
BY DEF SignalInv, LoopsInv, RaisedInv, TypeOK, Signal

\* The same after a step.
LEMMA InvPartsPrimed == SignalInv' <=> LoopsInv' /\ RaisedInv'
BY DEF SignalInv, LoopsInv, RaisedInv, TypeOK, Signal

\* Signals that were raised before one time were raised before a later one.
LEMMA RaisedKept ==
  ASSUME LoopsInv, RaisedInv, raised' = raised, lastSignal' \in Nat, lastSignal' >= lastSignal
  PROVE  RaisedInv'
<1>1. RaisedBefore'
  <2> SUFFICES ASSUME NEW i \in DOMAIN raised PROVE raised[i].about < lastSignal'
    BY DEF RaisedInv, RaisedBefore
  <2>1. raised[i].about < lastSignal
    BY DEF RaisedInv, RaisedBefore
  <2>2. raised[i] \in Signal
    BY DEF RaisedInv
  <2>3. raised[i].about \in Nat /\ lastSignal \in Nat
    BY <2>2 DEF Signal, LoopsInv
  <2> QED
    BY <2>1, <2>3
<1> QED
  BY <1>1 DEF RaisedInv, OncePerCandle, SettledSignals, NoSignalInWarmUp, RisingSignals

\* When the pause is over and there is anything in the list or the data loop is
\* at work, the ticks have been coming for four minutes.
LEMMA UnpausedFact ==
  ASSUME LoopsInv, ~Paused, list # <<>> \/ data \in {"fetching", "live"}
  PROVE  /\ data = "live" /\ at # 0
         /\ at >= now - 1 /\ at <= now /\ at - asked - 2 >= 2
         /\ now >= lastSignal + 5
<1>1. now \in Nat /\ lastSignal \in Nat /\ asked \in Nat /\ at \in Nat
  BY DEF LoopsInv
<1>2. now >= lastSignal + 5 /\ now >= asked + 5
  BY <1>1 DEF Paused, LoopsInv, TimesInOrder
<1>3. data # "fetching"
  BY <1>1, <1>2 DEF LoopsInv, TimesInOrder
<1>4. data = "live"
  BY <1>3 DEF LoopsInv, TimesInOrder
<1>5. at # 0
  BY <1>1, <1>2, <1>4 DEF LoopsInv, TimesInOrder
<1>6. at \in {now - 1, now}
  BY <1>5 DEF LoopsInv, TimesInOrder
<1> QED
  BY <1>1, <1>2, <1>4, <1>5, <1>6

\* Then there are three candles, and the ones that are looked at are final.
LEMMA LastThree ==
  ASSUME LoopsInv, ~Paused, list # <<>> \/ data \in {"fetching", "live"}
  PROVE  /\ Len(list) \in Nat /\ Len(list) >= 3
         /\ list[Len(list) - 1].minute = at - 1
         /\ list[Len(list) - 1].final /\ list[Len(list) - 2].final
<1>1. /\ Len(list) \in Nat /\ WindowSize >= 3 /\ WindowSize \in Nat
      /\ at \in Nat /\ asked \in Nat
  BY DEF LoopsInv
<1>2. at # 0 /\ at - asked - 2 >= 2
  BY UnpausedFact
<1>3. /\ Len(list) = WindowSize \/ Len(list) >= at - asked - 1
      /\ \A j \in 0 .. Len(list) - 1 :
           j <= at - asked - 2 =>
             /\ list[Len(list) - j].minute = at - j
             /\ j # 0 => list[Len(list) - j].final
  BY <1>2 DEF LoopsInv, TicksAtTheEnd
<1>4. Len(list) >= 3
  <2>1. at - asked - 1 >= 3
    BY <1>1, <1>2
  <2> QED
    BY <1>1, <1>3, <2>1
<1>5. /\ 1 \in 0 .. Len(list) - 1 /\ 1 <= at - asked - 2
      /\ 2 \in 0 .. Len(list) - 1 /\ 2 <= at - asked - 2
  BY <1>1, <1>2, <1>4
<1>6. /\ list[Len(list) - 1].minute = at - 1
      /\ list[Len(list) - 1].final /\ list[Len(list) - 2].final
  BY <1>3, <1>5
<1> QED
  BY <1>1, <1>4, <1>6

-----------------------------------------------------------------------------
(* The steps.                                                              *)

\* Nothing runs and nothing was raised in the beginning.
LEMMA SignalInit == Init => SignalInv
<1> SUFFICES ASSUME Init PROVE SignalInv
  OBVIOUS
<1>1. LoopsInv
  <2>1. list \in Seq(CandleSet) /\ Len(list) = 0
    BY DEF Init
  <2>2. TimesInOrder
    BY DEF Init, TimesInOrder
  <2>3. TicksAtTheEnd
    BY DEF Init, TicksAtTheEnd
  <2> QED
    BY <2>1, <2>2, <2>3 DEF Init, LoopsInv
<1>2. RaisedInv
  BY DEF Init, RaisedInv, RaisedBefore, OncePerCandle, SettledSignals, NoSignalInWarmUp,
         RisingSignals
<1> QED
  BY <1>1, <1>2, InvParts

\* A minute passes only when a live data loop has got its tick.
LEMMA MinutePassesSafe == LoopsInv /\ RaisedInv /\ MinutePasses => LoopsInv' /\ RaisedInv'
<1> SUFFICES ASSUME LoopsInv, RaisedInv, MinutePasses PROVE LoopsInv' /\ RaisedInv'
  OBVIOUS
<1>1. now' = now + 1 /\ UNCHANGED <<list, data, asked, at, action, lastSignal, raised>>
  BY DEF MinutePasses, feed, runner
<1>2. /\ now \in Nat /\ now > 0 /\ lastSignal \in Nat /\ asked \in Nat /\ at \in Nat
      /\ now' \in 1 .. LastMinute
  BY <1>1 DEF LoopsInv, MinutePasses
<1>3. TimesInOrder'
  <2>1. asked' <= lastSignal' /\ lastSignal' <= now'
    BY <1>1, <1>2 DEF LoopsInv, TimesInOrder
  <2>2. data' = "fetching" => now' <= asked' + 1
    BY <1>1, <1>2 DEF MinutePasses
  <2>3. data' = "live" /\ at' = 0 => now' <= asked' + 2
    BY <1>1, <1>2 DEF MinutePasses
  <2>4. at' # 0 => at' \in {now' - 1, now'}
    BY <1>1, <1>2 DEF MinutePasses, LoopsInv, TimesInOrder
  <2>5. data' # "live" => list' = <<>> /\ at' = 0
    BY <1>1 DEF LoopsInv, TimesInOrder
  <2> QED
    BY <2>1, <2>2, <2>3, <2>4, <2>5 DEF TimesInOrder
<1>4. TicksAtTheEnd'
  BY <1>1 DEF LoopsInv, TicksAtTheEnd
<1>5. LoopsInv'
  BY <1>1, <1>2, <1>3, <1>4 DEF LoopsInv
<1> QED
  BY <1>1, <1>2, <1>5, RaisedKept

\* A runner begins with an empty list and a pause.
LEMMA StartSafe == LoopsInv /\ RaisedInv /\ Start => LoopsInv' /\ RaisedInv'
<1> SUFFICES ASSUME LoopsInv, RaisedInv, Start PROVE LoopsInv' /\ RaisedInv'
  OBVIOUS
<1>1. /\ data' = "fetching" /\ action' = "running" /\ asked' = now /\ lastSignal' = now
      /\ UNCHANGED <<now, list, at, raised>> /\ data # "live"
  BY DEF Start
<1>2. list = <<>> /\ at = 0
  BY <1>1 DEF LoopsInv, TimesInOrder
<1>3. now \in Nat /\ lastSignal \in Nat /\ lastSignal <= now
  BY DEF LoopsInv, TimesInOrder
<1>4. TimesInOrder'
  BY <1>1, <1>2, <1>3 DEF TimesInOrder
<1>5. TicksAtTheEnd'
  BY <1>1, <1>2 DEF TicksAtTheEnd
<1>6. LoopsInv'
  BY <1>1, <1>4, <1>5 DEF LoopsInv
<1> QED
  BY <1>1, <1>3, <1>6, RaisedKept

\* The history comes within a minute of the request.
LEMMA ReceiveHistorySafe ==
  ASSUME LoopsInv, RaisedInv, NEW n \in 0 .. WindowSize, NEW m \in 1 .. LastMinute,
         ReceiveHistory(n, m)
  PROVE  LoopsInv' /\ RaisedInv'
<1>1. /\ data = "fetching" /\ data' = "live" /\ n <= m
      /\ UNCHANGED <<now, asked, at, action, lastSignal, raised>>
  BY DEF ReceiveHistory, runner
<1>2. at = 0 /\ now <= asked + 1 /\ now \in Nat /\ asked \in Nat /\ lastSignal \in Nat
  BY <1>1 DEF LoopsInv, TimesInOrder
<1>3. list' \in Seq(CandleSet) /\ Len(list') = n
  <2>1. PICK price \in [1 .. n -> Prices] :
          list' = [i \in 1 .. n |-> Candle(m - n + i, price[i], i < n)]
    BY DEF ReceiveHistory
  <2>2. \A i \in 1 .. n : m - n + i \in 1 .. LastMinute
    BY <1>1
  <2>3. \A i \in 1 .. n : Candle(m - n + i, price[i], i < n) \in CandleSet
    BY <2>2 DEF Candle, CandleSet
  <2>4. n \in Nat
    OBVIOUS
  <2>5. list' \in [1 .. n -> CandleSet]
    BY <2>1, <2>3
  <2> QED
    BY <2>4, <2>5
<1>4. n <= WindowSize
  OBVIOUS
<1>5. TimesInOrder'
  BY <1>1, <1>2 DEF LoopsInv, TimesInOrder
<1>6. TicksAtTheEnd'
  BY <1>1, <1>2 DEF TicksAtTheEnd
<1>7. LoopsInv'
  BY <1>1, <1>3, <1>4, <1>5, <1>6 DEF LoopsInv
<1> QED
  BY <1>1, <1>2, <1>7, RaisedKept

\* A data loop leaves nothing behind.
LEMMA DataEndsSafe == LoopsInv /\ RaisedInv /\ DataEnds => LoopsInv' /\ RaisedInv'
<1> SUFFICES ASSUME LoopsInv, RaisedInv, DataEnds PROVE LoopsInv' /\ RaisedInv'
  OBVIOUS
<1>1. /\ data' = "over" /\ list' = <<>> /\ at' = 0
      /\ UNCHANGED <<now, asked, action, lastSignal, raised>>
  BY DEF DataEnds, runner
<1>2. lastSignal \in Nat
  BY DEF LoopsInv
<1>3. TimesInOrder' /\ TicksAtTheEnd'
  BY <1>1 DEF LoopsInv, TimesInOrder, TicksAtTheEnd
<1>4. LoopsInv'
  BY <1>1, <1>3 DEF LoopsInv
<1> QED
  BY <1>1, <1>2, <1>4, RaisedKept

\* The end of the process leaves nothing behind but the signals.
LEMMA PanicSafe == LoopsInv /\ RaisedInv /\ Panic => LoopsInv' /\ RaisedInv'
<1> SUFFICES ASSUME LoopsInv, RaisedInv, Panic PROVE LoopsInv' /\ RaisedInv'
  OBVIOUS
<1>1. /\ data' = "down" /\ action' = "down" /\ list' = <<>> /\ at' = 0
      /\ UNCHANGED <<now, asked, lastSignal, raised>>
  BY DEF Panic
<1>2. lastSignal \in Nat
  BY DEF LoopsInv
<1>3. TimesInOrder' /\ TicksAtTheEnd'
  BY <1>1 DEF LoopsInv, TimesInOrder, TicksAtTheEnd
<1>4. LoopsInv'
  BY <1>1, <1>3 DEF LoopsInv
<1> QED
  BY <1>1, <1>2, <1>4, RaisedKept

\* The end of an action loop changes neither candles nor signals.
LEMMA ActionEndsSafe == LoopsInv /\ RaisedInv /\ ActionEnds => LoopsInv' /\ RaisedInv'
<1> SUFFICES ASSUME LoopsInv, RaisedInv, ActionEnds PROVE LoopsInv' /\ RaisedInv'
  OBVIOUS
<1>1. action' = "down" /\ UNCHANGED <<now, list, data, asked, at, lastSignal, raised>>
  BY DEF ActionEnds, feed
<1>2. lastSignal \in Nat
  BY DEF LoopsInv
<1>3. TimesInOrder' /\ TicksAtTheEnd'
  BY <1>1 DEF LoopsInv, TimesInOrder, TicksAtTheEnd
<1>4. LoopsInv'
  BY <1>1, <1>3 DEF LoopsInv
<1> QED
  BY <1>1, <1>2, <1>4, RaisedKept

\* A tick replaces the last candle of the list or follows it, and then the list
\* may lose its first one: seen from the end nothing else changes.
LEMMA SaveFact ==
  ASSUME LoopsInv, NEW c \in CandleSet
  PROVE  /\ Save(c) \in Seq(CandleSet)
         /\ Len(Save(c)) \in Nat /\ Len(Save(c)) > 0 /\ Len(Save(c)) <= WindowSize
         /\ Save(c)[Len(Save(c))] = c
         /\ list # <<>> /\ list[Len(list)].minute = c.minute =>
              /\ Len(Save(c)) = Len(list)
              /\ \A j \in 1 .. Len(list) - 1 : Save(c)[Len(list) - j] = list[Len(list) - j]
         /\ ~(list # <<>> /\ list[Len(list)].minute = c.minute) =>
              /\ Len(Save(c)) = Len(list) + 1 \/ Len(Save(c)) = WindowSize
              /\ \A j \in 1 .. Len(Save(c)) - 1 :
                   /\ j - 1 \in 0 .. Len(list) - 1
                   /\ Save(c)[Len(Save(c)) - j] = list[Len(list) - (j - 1)]
<1>1. /\ list \in Seq(CandleSet) /\ Len(list) \in Nat /\ Len(list) <= WindowSize
      /\ WindowSize \in Nat /\ WindowSize > 0
  BY DEF LoopsInv
<1>2. CASE list # <<>> /\ list[Len(list)].minute = c.minute
  <2>1. Save(c) = [list EXCEPT ![Len(list)] = c]
    BY <1>2 DEF Save
  <2>2. Len(list) \in 1 .. Len(list)
    BY <1>1, <1>2
  <2>3. Save(c) \in Seq(CandleSet) /\ Len(Save(c)) = Len(list) /\ Save(c)[Len(list)] = c
    BY <1>1, <2>1, <2>2
  <2>4. \A j \in 1 .. Len(list) - 1 : Save(c)[Len(list) - j] = list[Len(list) - j]
    <3>1. \A j \in 1 .. Len(list) - 1 : Len(list) - j \in 1 .. Len(list) /\ Len(list) - j # Len(list)
      BY <1>1
    <3> QED
      BY <1>1, <2>1, <3>1
  <2>5. Len(Save(c)) > 0
    BY <1>1, <2>2, <2>3
  <2> QED
    BY <1>1, <1>2, <2>3, <2>4, <2>5
<1>3. CASE ~(list # <<>> /\ list[Len(list)].minute = c.minute)
  <2> DEFINE new == Append(list, c)
  <2>1. Save(c) = IF Len(new) > WindowSize THEN Tail(new) ELSE new
    BY <1>3 DEF Save
  <2>2. /\ new \in Seq(CandleSet) /\ Len(new) = Len(list) + 1 /\ new[Len(list) + 1] = c
        /\ \A k \in 1 .. Len(list) : new[k] = list[k]
    BY <1>1
  <2> HIDE DEF new
  <2>3. CASE Len(new) > WindowSize
    <3>1. Save(c) = Tail(new) /\ new # <<>>
      BY <1>1, <2>1, <2>2, <2>3
    <3>2. /\ Save(c) \in Seq(CandleSet) /\ Len(Save(c)) = Len(list)
          /\ \A k \in 1 .. Len(list) : Save(c)[k] = new[k + 1]
      BY <1>1, <2>2, <3>1
    <3>3. Len(list) = WindowSize
      BY <1>1, <2>2, <2>3
    <3>4. Save(c)[Len(list)] = c
      <4>1. Len(list) \in 1 .. Len(list)
        BY <1>1, <3>3
      <4> QED
        BY <2>2, <3>2, <4>1
    <3>5. \A j \in 1 .. Len(list) - 1 :
            /\ j - 1 \in 0 .. Len(list) - 1
            /\ Save(c)[Len(list) - j] = list[Len(list) - (j - 1)]
      <4> SUFFICES ASSUME NEW j \in 1 .. Len(list) - 1
                   PROVE  /\ j - 1 \in 0 .. Len(list) - 1
                          /\ Save(c)[Len(list) - j] = list[Len(list) - (j - 1)]
        OBVIOUS
      <4> DEFINE k == Len(list) - j
      <4>1. /\ k \in 1 .. Len(list) /\ k + 1 \in 1 .. Len(list)
            /\ k + 1 = Len(list) - (j - 1) /\ j - 1 \in 0 .. Len(list) - 1
        BY <1>1
      <4> HIDE DEF k
      <4>2. Save(c)[k] = list[k + 1]
        BY <2>2, <3>2, <4>1
      <4> QED
        BY <4>1, <4>2 DEF k
    <3> QED
      BY <1>1, <1>3, <3>2, <3>3, <3>4, <3>5
  <2>4. CASE ~(Len(new) > WindowSize)
    <3>1. Save(c) = new
      BY <2>1, <2>4
    <3>2. Len(new) <= WindowSize
      BY <1>1, <2>2, <2>4
    <3>3. \A j \in 1 .. Len(list) :
            /\ j - 1 \in 0 .. Len(list) - 1
            /\ Save(c)[(Len(list) + 1) - j] = list[Len(list) - (j - 1)]
      <4>1. \A j \in 1 .. Len(list) :
              /\ j - 1 \in 0 .. Len(list) - 1
              /\ (Len(list) + 1) - j \in 1 .. Len(list)
              /\ (Len(list) + 1) - j = Len(list) - (j - 1)
        BY <1>1
      <4> QED
        BY <2>2, <3>1, <4>1
    <3>4. /\ Len(Save(c)) = Len(list) + 1 /\ Len(Save(c)) - 1 = Len(list)
          /\ Len(Save(c)) \in Nat /\ Len(Save(c)) > 0
      BY <1>1, <2>2, <3>1
    <3>5. Save(c) \in Seq(CandleSet) /\ Save(c)[Len(Save(c))] = c /\ Len(Save(c)) <= WindowSize
      BY <2>2, <3>1, <3>2
    <3>6. \A j \in 1 .. Len(Save(c)) - 1 :
            /\ j - 1 \in 0 .. Len(list) - 1
            /\ Save(c)[Len(Save(c)) - j] = list[Len(list) - (j - 1)]
      BY <3>3, <3>4
    <3> QED
      BY <1>3, <3>4, <3>5, <3>6
  <2> QED
    BY <2>3, <2>4
<1> QED
  BY <1>2, <1>3

\* A tick replaces the candle at the end by one of its minute, or follows a final
\* one.
LEMMA ReceiveTickSafe ==
  ASSUME LoopsInv, RaisedInv, NEW m \in 1 .. LastMinute, NEW p \in Prices, NEW f \in BOOLEAN,
         ReceiveTick(m, p, f)
  PROVE  LoopsInv' /\ RaisedInv'
<1> DEFINE c == Candle(m, p, f)
<1>1. /\ data = "live" /\ list' = Save(c) /\ at' = m /\ Delivers(m, f)
      /\ UNCHANGED <<now, data, asked, action, lastSignal, raised>>
  BY DEF ReceiveTick, runner
<1>2. c \in CandleSet /\ c.minute = m
  BY DEF Candle, CandleSet
<1>3. /\ now \in Nat /\ at \in Nat /\ asked \in Nat /\ lastSignal \in Nat
      /\ Len(list) \in Nat /\ m \in Nat /\ m # 0 /\ m \in {now - 1, now}
  BY <1>1 DEF LoopsInv, Delivers
<1> HIDE DEF c
<1>4. /\ list' \in Seq(CandleSet) /\ Len(list') \in Nat
      /\ Len(list') > 0 /\ Len(list') <= WindowSize
      /\ list'[Len(list')] = c /\ list' # <<>>
  <2>1. /\ list' \in Seq(CandleSet) /\ Len(list') \in Nat
        /\ Len(list') > 0 /\ Len(list') <= WindowSize /\ list'[Len(list')] = c
    BY <1>1, <1>2, SaveFact
  <2> QED
    BY <2>1
<1>5. TimesInOrder'
  BY <1>1, <1>3 DEF LoopsInv, TimesInOrder
<1> DEFINE Filled == /\ Len(list') = WindowSize \/ Len(list') >= m - asked - 1
                     /\ \A j \in 1 .. Len(list') - 1 :
                          j <= m - asked - 2 => /\ list'[Len(list') - j].minute = m - j
                                                /\ list'[Len(list') - j].final
<1>6. Filled
  <2>1. CASE at = 0
    <3>1. m <= asked + 2
      BY <1>1, <1>3, <2>1 DEF LoopsInv, TimesInOrder
    <3>2. Len(list') >= m - asked - 1
      BY <1>3, <1>4, <3>1
    <3>3. \A j \in 1 .. Len(list') - 1 : ~(j <= m - asked - 2)
      BY <1>3, <1>4, <3>1
    <3> QED
      BY <3>2, <3>3
  <2>2. CASE at # 0
    <3>1. /\ list # <<>> /\ list[Len(list)].minute = at
          /\ Len(list) = WindowSize \/ Len(list) >= at - asked - 1
          /\ \A j \in 0 .. Len(list) - 1 :
               j <= at - asked - 2 =>
                 /\ list[Len(list) - j].minute = at - j
                 /\ j # 0 => list[Len(list) - j].final
      BY <2>2 DEF LoopsInv, TicksAtTheEnd
    <3>2. CASE m = at
      <4>1. /\ Len(list') = Len(list)
            /\ \A j \in 1 .. Len(list) - 1 : list'[Len(list) - j] = list[Len(list) - j]
        BY <1>1, <1>2, <3>1, <3>2, SaveFact
      <4>2. Len(list') = WindowSize \/ Len(list') >= m - asked - 1
        BY <3>1, <3>2, <4>1
      <4>3. \A j \in 1 .. Len(list) - 1 : j \in 0 .. Len(list) - 1 /\ j # 0
        BY <1>3
      <4>4. \A j \in 1 .. Len(list) - 1 :
              j <= at - asked - 2 => /\ list'[Len(list) - j].minute = at - j
                                     /\ list'[Len(list) - j].final
        BY <3>1, <4>1, <4>3
      <4> QED
        BY <3>2, <4>1, <4>2, <4>4
    <3>3. CASE m = at + 1 /\ list[Len(list)].final
      <4>1. ~(list # <<>> /\ list[Len(list)].minute = c.minute)
        BY <1>2, <1>3, <3>1, <3>3
      <4>2. /\ Len(list') = Len(list) + 1 \/ Len(list') = WindowSize
            /\ \A j \in 1 .. Len(list') - 1 :
                 /\ j - 1 \in 0 .. Len(list) - 1
                 /\ list'[Len(list') - j] = list[Len(list) - (j - 1)]
        BY <1>1, <1>2, <4>1, SaveFact
      <4>3. Len(list') = WindowSize \/ Len(list') >= m - asked - 1
        <5>1. Len(list) <= WindowSize /\ WindowSize \in Nat
          BY DEF LoopsInv
        <5> QED
          BY <1>3, <1>4, <3>1, <3>3, <4>2, <5>1
      <4>4. ASSUME NEW j \in 1 .. Len(list') - 1, j <= m - asked - 2
            PROVE  /\ list'[Len(list') - j].minute = m - j
                   /\ list'[Len(list') - j].final
        <5> DEFINE i == j - 1
        <5>1. i \in 0 .. Len(list) - 1 /\ list'[Len(list') - j] = list[Len(list) - i]
          BY <4>2
        <5>2. i <= at - asked - 2 /\ at - i = m - j
          BY <1>3, <1>4, <3>3, <4>4
        <5>3. Len(list) - 0 = Len(list)
          BY <1>3
        <5> HIDE DEF i
        <5>4. list[Len(list) - i].minute = at - i /\ (i # 0 => list[Len(list) - i].final)
          BY <3>1, <5>1, <5>2
        <5>5. list[Len(list) - i].final
          BY <3>3, <5>3, <5>4
        <5> QED
          BY <5>1, <5>2, <5>4, <5>5
      <4> QED
        BY <4>3, <4>4
    <3> QED
      BY <1>1, <2>2, <3>2, <3>3 DEF Delivers
  <2> QED
    BY <2>1, <2>2
<1>8. TicksAtTheEnd'
  <2>1. Filled
    BY <1>6
  <2>2. list'[Len(list')].minute = m
    BY <1>2, <1>4
  <2>3. ASSUME NEW j \in 0 .. Len(list') - 1, j <= m - asked - 2
        PROVE  /\ list'[Len(list') - j].minute = m - j
               /\ j # 0 => list'[Len(list') - j].final
    <3>1. CASE j = 0
      <4>1. Len(list') - j = Len(list') /\ m - j = m
        BY <1>3, <1>4, <3>1
      <4> QED
        BY <2>2, <3>1, <4>1
    <3>2. CASE j # 0
      <4>1. j \in 1 .. Len(list') - 1
        BY <1>4, <3>2
      <4> QED
        BY <2>1, <2>3, <4>1
    <3> QED
      BY <3>1, <3>2
  <2> QED
    BY <1>1, <1>4, <2>1, <2>2, <2>3 DEF TicksAtTheEnd
<1>9. LoopsInv'
  BY <1>1, <1>4, <1>5, <1>8 DEF LoopsInv
<1> QED
  BY <1>1, <1>3, <1>9, RaisedKept

\* What a signal says of itself.
LEMMA RemarksFact ==
  ASSUME LoopsInv, TypeOK, ~Paused, ~EvaluatePanics, NearCrossUp(CheckedIndex)
  PROVE  /\ Remarks \in Signal
         /\ Remarks.about < now /\ Remarks.about >= lastSignal
         /\ Remarks.settled /\ Remarks.rising /\ Remarks.known >= EmaWindow + 2
<1> DEFINE i == CheckedIndex
           c == list[i + 1]
           before == list[i]
<1>1. /\ Len(list) \in Nat /\ Len(list) >= 3 /\ list # <<>>
      /\ now \in Nat /\ at \in Nat /\ asked \in Nat /\ lastSignal \in Nat
  BY DEF LoopsInv, EvaluatePanics
<1>2. /\ i = Len(list) - 2 /\ i + 1 = Len(list) - 1 /\ (i - 1) + 1 = i
      /\ i \in 1 .. Len(list) - 1 /\ i \in 1 .. Len(list) /\ i + 1 \in 1 .. Len(list)
  BY <1>1 DEF CheckedIndex
<1>3. i >= EmaWindow /\ Price(i) >= Price(i - 1)
  BY <1>2, CrossingFact
<1>4. c.price >= before.price
  BY <1>2, <1>3 DEF Price
<1>5. c.minute = at - 1 /\ c.final /\ before.final
  BY <1>1, <1>2, LastThree
<1>6. c.minute \in 1 .. LastMinute /\ c.final \in BOOLEAN /\ before.final \in BOOLEAN
  BY <1>2, ListFact
<1>7. at >= now - 1 /\ at <= now /\ now >= lastSignal + 5
  BY <1>1, UnpausedFact
<1>8. at - 1 < now /\ at - 1 >= lastSignal
  BY <1>1, <1>7
<1>9. Len(list) >= EmaWindow + 2
  BY <1>1, <1>2, <1>3
<1>10. Remarks = [about |-> c.minute, settled |-> c.final /\ before.final,
                  rising |-> c.price >= before.price, known |-> Len(list)]
  BY DEF Remarks
<1> HIDE DEF i, c, before
<1>11. (c.price >= before.price) \in BOOLEAN /\ (c.final /\ before.final) \in BOOLEAN
  BY <1>4, <1>5
<1>12. Remarks \in Signal
  BY <1>1, <1>6, <1>10, <1>11 DEF Signal
<1> QED
  BY <1>4, <1>5, <1>8, <1>9, <1>10, <1>12

\* A signal is about a final candle, newer than those of all signals before it.
LEMMA EvaluateSafe == LoopsInv /\ RaisedInv /\ Evaluate => LoopsInv' /\ RaisedInv'
<1> SUFFICES ASSUME LoopsInv, RaisedInv, Evaluate PROVE LoopsInv' /\ RaisedInv'
  OBVIOUS
<1> DEFINE r == Remarks
<1>1. /\ ~Paused /\ ~EvaluatePanics /\ NearCrossUp(CheckedIndex)
      /\ lastSignal' = now /\ raised' = Append(raised, r)
      /\ UNCHANGED <<now, list, data, asked, at, action>>
  BY DEF Evaluate, feed
<1>2. /\ now \in Nat /\ lastSignal \in Nat /\ lastSignal <= now
  BY DEF LoopsInv, TimesInOrder
<1>3. /\ r \in Signal /\ r.about < now /\ r.about >= lastSignal
      /\ r.settled /\ r.rising /\ r.known >= EmaWindow + 2
  <2>1. TypeOK
    BY InvParts DEF SignalInv
  <2> QED
    BY <1>1, <2>1, RemarksFact
<1> HIDE DEF r
<1>4. TimesInOrder' /\ TicksAtTheEnd'
  BY <1>1, <1>2 DEF LoopsInv, TimesInOrder, TicksAtTheEnd
<1>5. LoopsInv'
  BY <1>1, <1>2, <1>4 DEF LoopsInv
<1>6. /\ raised \in Seq(Signal) /\ raised' \in Seq(Signal) /\ Len(raised) \in Nat
      /\ Len(raised') = Len(raised) + 1 /\ raised'[Len(raised) + 1] = r
      /\ \A i \in 1 .. Len(raised) : raised'[i] = raised[i]
      /\ DOMAIN raised = 1 .. Len(raised)
  <2>1. raised \in Seq(Signal)
    BY DEF RaisedInv
  <2> QED
    BY <1>1, <1>3, <2>1
<1>7. \A i \in DOMAIN raised' : i \in DOMAIN raised \/ i = Len(raised) + 1
  <2>1. DOMAIN raised' = 1 .. Len(raised) + 1
    BY <1>6
  <2> QED
    BY <1>6, <2>1
<1>8. \A i \in DOMAIN raised :
        /\ raised'[i] = raised[i] /\ raised[i] \in Signal
        /\ raised[i].about < lastSignal
  BY <1>6 DEF RaisedInv, RaisedBefore
<1>9. RaisedBefore'
  <2> SUFFICES ASSUME NEW i \in DOMAIN raised' PROVE raised'[i].about < now
    BY <1>1 DEF RaisedBefore
  <2>1. CASE i \in DOMAIN raised
    <3>1. raised[i].about \in Nat /\ raised[i].about < lastSignal /\ raised'[i] = raised[i]
      BY <1>8, <2>1 DEF Signal
    <3> QED
      BY <1>2, <3>1
  <2>2. CASE i = Len(raised) + 1
    BY <1>3, <1>6, <2>2
  <2> QED
    BY <1>7, <2>1, <2>2
<1>10. OncePerCandle'
  <2>1. \A i \in DOMAIN raised : raised[i].about # r.about
    <3> SUFFICES ASSUME NEW i \in DOMAIN raised PROVE raised[i].about # r.about
      OBVIOUS
    <3>1. raised[i].about \in Nat /\ r.about \in Nat /\ raised[i].about < lastSignal
      BY <1>3, <1>8 DEF Signal
    <3> QED
      BY <1>2, <1>3, <3>1
  <2> SUFFICES ASSUME NEW i \in DOMAIN raised', NEW j \in DOMAIN raised', i # j
               PROVE  raised'[i].about # raised'[j].about
    BY DEF OncePerCandle
  <2>2. CASE i \in DOMAIN raised /\ j \in DOMAIN raised
    BY <1>8, <2>2 DEF RaisedInv, OncePerCandle
  <2>3. CASE i \in DOMAIN raised /\ j = Len(raised) + 1
    BY <1>6, <1>8, <2>1, <2>3
  <2>4. CASE i = Len(raised) + 1 /\ j \in DOMAIN raised
    BY <1>6, <1>8, <2>1, <2>4
  <2> QED
    BY <1>7, <2>2, <2>3, <2>4
<1>11. SettledSignals'
  BY <1>3, <1>6, <1>7, <1>8 DEF RaisedInv, SettledSignals
<1>12. RisingSignals'
  BY <1>3, <1>6, <1>7, <1>8 DEF RaisedInv, RisingSignals
<1>13. NoSignalInWarmUp'
  BY <1>3, <1>6, <1>7, <1>8 DEF RaisedInv, NoSignalInWarmUp
<1>14. RaisedInv'
  BY <1>6, <1>9, <1>10, <1>11, <1>12, <1>13 DEF RaisedInv
<1> QED
  BY <1>5, <1>14

-----------------------------------------------------------------------------
(* The theorems.                                                           *)

\* Every step keeps the invariant.
LEMMA SignalStep == SignalInv /\ [Next]_vars => SignalInv'
<1> SUFFICES ASSUME LoopsInv, RaisedInv, [Next]_vars PROVE LoopsInv' /\ RaisedInv'
  BY InvParts, InvPartsPrimed
<1>1. CASE MinutePasses
  BY <1>1, MinutePassesSafe
<1>2. CASE Start
  BY <1>2, StartSafe
<1>3. CASE DataStep
  <2>1. CASE \E n \in 0 .. WindowSize, m \in 1 .. LastMinute : ReceiveHistory(n, m)
    BY <2>1, ReceiveHistorySafe
  <2>2. CASE \E m \in 1 .. LastMinute, p \in Prices, f \in BOOLEAN : ReceiveTick(m, p, f)
    BY <2>2, ReceiveTickSafe
  <2>3. CASE DataEnds
    BY <2>3, DataEndsSafe
  <2> QED
    BY <1>3, <2>1, <2>2, <2>3 DEF DataStep
<1>4. CASE ActionStep
  BY <1>4, EvaluateSafe, PanicSafe, ActionEndsSafe DEF ActionStep
<1>5. CASE UNCHANGED vars
  <2>1. UNCHANGED <<now, list, data, asked, at, action, lastSignal, raised>>
    BY <1>5 DEF vars, feed, runner
  <2>2. LoopsInv'
    BY <2>1 DEF LoopsInv, TimesInOrder, TicksAtTheEnd
  <2>3. lastSignal \in Nat
    BY DEF LoopsInv
  <2> QED
    BY <2>1, <2>2, <2>3, RaisedKept
<1> QED
  BY <1>1, <1>2, <1>3, <1>4, <1>5 DEF Next

\* The invariant of the generator holds whatever the prices, the windows and the
\* number of minutes are: the ticks that have come since the history was asked
\* for fill the end of the list (SaveCandles, trading/candle.go), the runner
\* waits until there are enough of them, and every signal is about a minute
\* after the last signal (workload.go:263-266).
THEOREM SignalInvariant == Spec => []SignalInv
<1>1. Init => SignalInv
  BY SignalInit
<1>2. SignalInv /\ [Next]_vars => SignalInv'
  BY SignalStep
<1> QED
  BY <1>1, <1>2, PTL DEF Spec

\* No closed candle is signalled twice, by one runner or by the ones that
\* replace it (workload.go:263-266).
THEOREM CandlesSignalledOnce == Spec => []OncePerCandle
<1>1. SignalInv => OncePerCandle
  BY DEF SignalInv
<1> QED
  BY <1>1, SignalInvariant, PTL

\* The prices a signal is derived from are final (techan/signal.go:40-41).
THEOREM SignalsSettled == Spec => []SettledSignals
<1>1. SignalInv => SettledSignals
  BY DEF SignalInv
<1> QED
  BY <1>1, SignalInvariant, PTL

\* A working data loop has brought the three candles Evaluate reads before the
\* pause of a new runner is over.
THEOREM CandlesForEvaluate == Spec => []EnoughCandles
<1>1. SignalInv => EnoughCandles
  <2> SUFFICES ASSUME SignalInv, ~Paused, data \in {"fetching", "live"}
               PROVE  ~EvaluatePanics
    BY DEF EnoughCandles
  <2>1. LoopsInv
    BY InvParts
  <2>2. Len(list) \in Nat /\ Len(list) >= 3
    BY <2>1, LastThree
  <2> QED
    BY <2>2 DEF EvaluatePanics
<1> QED
  BY <1>1, SignalInvariant, PTL
=============================================================================
