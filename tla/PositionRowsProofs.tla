------------------------- MODULE PositionRowsProofs -------------------------
(***************************************************************************)
(* Proofs about the rows of positions and orders, for any number of        *)
(* positions, any zone, any validity, and a clock that is set back any     *)
(* number of times by any amount.                                          *)
(***************************************************************************)
EXTENDS PositionRowsProperties, TLAPS

USE ZoneAssumption, TimesAssumption

\* The types of the clock and of the tables.
TableTypes ==
  /\ now \in 0 .. MaxTime
  /\ setBacks \in 0 .. MaxSetBacks
  /\ status \in [Positions -> {"none", "OPEN", "CLOSED"}]
  /\ orders \in [Positions -> SUBSET OrderRow]

\* The types of what the loop has in its hands.
LoopTypes ==
  /\ phase \in {"waiting", "opening", "reviewing", "sending"}
  /\ todo \subseteq Positions
  /\ queue \subseteq Positions \X Sides
  /\ readAt \in 0 .. now

-----------------------------------------------------------------------------
(* What the clock has lost.                                                *)

\* Multiplication of natural numbers, by one more.
LEMMA ProductFact ==
  ASSUME NEW n \in Nat, NEW m \in Nat
  PROVE  n * m \in Nat /\ (n + 1) * m = n * m + m
OBVIOUS

\* It is never negative, and grows by a whole SetBack.
LEMMA LostFact ==
  ASSUME TableTypes
  PROVE  /\ setBacks * SetBack \in Nat
         /\ (setBacks + 1) * SetBack = setBacks * SetBack + SetBack
<1>1. setBacks \in Nat
  BY DEF TableTypes
<1> QED
  BY <1>1, ProductFact

\* Time is a natural number.
LEMMA NowFact == TableTypes => now \in Nat
BY DEF TableTypes

-----------------------------------------------------------------------------
(* Reading.                                                                *)

\* What is true of the tables, whatever the loop has in its hands.
Rows == TableTypes /\ OneOfEachSide /\ TimeOff /\ ExitLater /\ ExitAfterEntry

\* The fields of a row have their types, executed or not.
LEMMA RowFact ==
  ASSUME TableTypes, NEW p \in Positions, NEW o \in orders[p]
  PROVE  /\ o \in OrderRow
         /\ o.side \in Sides /\ o.time \in Int /\ o.executed \in BOOLEAN /\ o.born \in Nat
         /\ LET f == [o EXCEPT !.executed = TRUE]
            IN /\ f \in OrderRow /\ f.executed
               /\ f.side = o.side /\ f.time = o.time /\ f.born = o.born
<1>1. o \in OrderRow
  BY DEF TableTypes
<1> QED
  BY <1>1 DEF OrderRow

\* A new order.
LEMMA WrapFact ==
  ASSUME TableTypes, NEW side \in Sides
  PROVE  LET o == Wrap(side)
         IN /\ o \in OrderRow
            /\ o.side = side /\ ~o.executed /\ o.born = now
            /\ o.time = now - setBacks * SetBack + Zone
<1>1. setBacks * SetBack \in Nat /\ now \in Nat
  BY LostFact, NowFact
<1>2. now - setBacks * SetBack + Zone \in Int
  BY <1>1
<1> QED
  BY <1>1, <1>2 DEF Wrap, Clock, OrderRow

\* Whoever reviews a position gets its entry order for e, and for x its exit
\* order or nothing, whatever the clock did: orders that are out of order are an
\* error, not a confusion (trading/position.go:139-158).
LEMMA ReadFact ==
  ASSUME NEW p \in Positions, NEW e \in orders[p], NEW x \in SUBSET orders[p],
         Reviews(p, e, x)
  PROVE  /\ e.side = Entry /\ p \in todo
         /\ x = orders[p] \ {e}
         /\ \A o \in x : o.side = Exit
         /\ x # {} => e.executed
         /\ phase' = "reviewing" /\ todo' = todo \ {p} /\ readAt' = readAt
BY DEF Reviews, OrdersBreakdown

\* While the clock has not been set back, the breakdown finds just that.
LEMMA BreakdownFact == Rows => BreakdownBySide
<1> SUFFICES ASSUME Rows, NEW p \in Positions, setBacks = 0, status[p] = "OPEN",
                    NEW e \in orders[p]
             PROVE  OrdersBreakdown(p, e, orders[p] \ {e}) <=> e.side = Entry
  BY DEF BreakdownBySide
<1> SUFFICES ASSUME e.side = Entry
             PROVE  OrdersBreakdown(p, e, orders[p] \ {e})
  BY DEF OrdersBreakdown
<1>1. setBacks * SetBack = 0
  <2>1. 0 * SetBack = 0
    OBVIOUS
  <2> QED BY <2>1
\* The time of an order is when it was made, in the zone.
<1>2. \A o \in orders[p] : o.time = o.born + Zone /\ o.born \in Nat
  <2> SUFFICES ASSUME NEW o \in orders[p]
               PROVE  o.time = o.born + Zone /\ o.born \in Nat
    OBVIOUS
  <2>1. o.born \in Nat /\ o.time \in Int
    BY RowFact DEF Rows
  <2>2. o.born + Zone - setBacks * SetBack <= o.time /\ o.time <= o.born + Zone
    BY DEF Rows, TimeOff
  <2> QED
    BY <1>1, <2>1, <2>2
\* All orders but e are exit orders, made later.
<1>3. \A o \in orders[p] \ {e} : o.side = Exit /\ e.born < o.born
  <2> SUFFICES ASSUME NEW o \in orders[p] \ {e} PROVE o.side = Exit /\ e.born < o.born
    OBVIOUS
  <2>1. o.side \in Sides
    BY RowFact DEF Rows
  <2>2. o.side # e.side
    BY DEF Rows, OneOfEachSide
  <2>3. o.side = Exit
    BY <2>1, <2>2 DEF Sides, Entry, Exit
  <2> QED
    BY <2>3 DEF Rows, ExitLater
<1>4. e \in Earliest(p)
  <2> SUFFICES ASSUME NEW r \in orders[p] PROVE e.time <= r.time
    BY DEF Earliest
  <2>1. CASE r = e
    BY <2>1, <1>2
  <2>2. CASE r # e
    BY <2>2, <1>2, <1>3
  <2> QED BY <2>1, <2>2
<1>5. ASSUME orders[p] \ {e} # {} PROVE e.executed
  <2>1. \E o \in orders[p] : o.side = Exit
    BY <1>3, <1>5
  <2>2. PICK o \in orders[p] : o.side = Entry /\ o.executed
    BY <2>1 DEF Rows, ExitAfterEntry
  <2> QED
    BY <2>2 DEF Rows, OneOfEachSide
<1> QED
  BY <1>3, <1>4, <1>5 DEF OrdersBreakdown

-----------------------------------------------------------------------------
(* Writing.                                                                *)

\* Time passes, and no order but one of position p is touched.
LEMMA TickFact ==
  ASSUME Rows, Tick
  PROVE  /\ now' \in 0 .. MaxTime /\ now' = now + 1 /\ now < now'
         /\ setBacks' = setBacks
         /\ \A p \in Positions : \A o \in orders[p] : o.born < now'
<1>1. now \in Nat /\ now' = now + 1 /\ now < MaxTime /\ setBacks' = setBacks
  BY DEF Rows, TableTypes, Tick
<1>2. now' \in 0 .. MaxTime /\ now < now'
  BY <1>1
<1>3. ASSUME NEW p \in Positions, NEW o \in orders[p] PROVE o.born < now'
  <2>1. o.born < now /\ o.born \in Nat
    BY RowFact DEF Rows, TimeOff
  <2> QED BY <1>1, <2>1
<1> QED BY <1>1, <1>2, <1>3

\* A position and its first order.
LEMMA RowsOpen ==
  ASSUME Rows, NEW p \in Positions, CreatePosition(p) \/ CreateEntryOrder(p)
  PROVE  Rows'
<1>1. /\ Tick /\ orders[p] = {}
      /\ status' \in [Positions -> {"none", "OPEN", "CLOSED"}] /\ status'[p] = "OPEN"
      /\ \A q \in Positions : q # p => status'[q] = status[q]
  BY DEF Rows, TableTypes, OneOfEachSide, CreatePosition, CreateEntryOrder
<1>2. /\ now' \in 0 .. MaxTime /\ now < now' /\ setBacks' = setBacks
      /\ \A q \in Positions : \A o \in orders[q] : o.born < now'
  BY <1>1, TickFact
<1>3. /\ orders'[p] \in {{}, {Wrap(Entry)}}
      /\ orders' \in [Positions -> SUBSET OrderRow]
      /\ \A q \in Positions : q # p => orders'[q] = orders[q]
  <2>1. Wrap(Entry) \in OrderRow
    BY WrapFact DEF Rows, Sides, Entry
  <2>2. CASE CreateEntryOrder(p)
    BY <2>1, <2>2 DEF CreateEntryOrder, Rows, TableTypes
  <2>3. CASE CreatePosition(p)
    BY <2>3, <1>1 DEF CreatePosition, Rows, TableTypes
  <2> QED BY <2>2, <2>3
<1>4. /\ Wrap(Entry).side = Entry /\ Wrap(Entry).born = now
      /\ Wrap(Entry).time = now - setBacks * SetBack + Zone
  BY WrapFact DEF Rows, Sides, Entry
<1>5. setBacks * SetBack \in Nat /\ now \in Nat
  BY LostFact, NowFact DEF Rows
<1>6. TableTypes'
  BY <1>1, <1>2, <1>3 DEF Rows, TableTypes
<1>7. OneOfEachSide'
  BY <1>1, <1>3 DEF Rows, OneOfEachSide
<1>8. TimeOff'
  <2> SUFFICES ASSUME NEW q \in Positions, NEW o \in orders'[q]
               PROVE  /\ o.born < now'
                      /\ o.born + Zone - setBacks * SetBack <= o.time
                      /\ o.time <= o.born + Zone
    BY <1>2 DEF TimeOff
  <2>1. CASE q = p
    <3>1. o = Wrap(Entry)
      BY <2>1, <1>3
    <3> QED
      BY <3>1, <1>2, <1>4, <1>5
  <2>2. CASE q # p
    BY <2>2, <1>2, <1>3 DEF Rows, TimeOff
  <2> QED BY <2>1, <2>2
<1>9. ExitLater' /\ ExitAfterEntry'
  <2>1. \A o \in orders'[p] : o.side # Exit
    BY <1>3, <1>4 DEF Entry, Exit
  <2> QED
    BY <1>3, <2>1 DEF Rows, ExitLater, ExitAfterEntry
<1> QED
  BY <1>6, <1>7, <1>8, <1>9 DEF Rows

\* An order is recorded as executed.
LEMMA RowsExecute ==
  ASSUME Rows, NEW p \in Positions, NEW o \in orders[p], RecordExecution(p, o)
  PROVE  Rows'
<1> DEFINE f == [o EXCEPT !.executed = TRUE]
<1>1. /\ Tick /\ status' = status
      /\ orders' = [orders EXCEPT ![p] = (@ \ {o}) \cup {f}]
  BY DEF RecordExecution
<1>2. /\ now' \in 0 .. MaxTime /\ setBacks' = setBacks
      /\ \A q \in Positions : \A r \in orders[q] : r.born < now'
  BY <1>1, TickFact
<1>3. /\ f \in OrderRow /\ f.executed
      /\ f.side = o.side /\ f.time = o.time /\ f.born = o.born
  BY RowFact DEF Rows
<1> HIDE DEF f
<1>4. /\ orders'[p] = (orders[p] \ {o}) \cup {f}
      /\ orders' \in [Positions -> SUBSET OrderRow]
      /\ \A q \in Positions : q # p => orders'[q] = orders[q]
  BY <1>1, <1>3 DEF Rows, TableTypes
\* Whatever is in a list now was there before, or is no older and no younger
\* than one that was.
<1>5. ASSUME NEW q \in Positions, NEW r \in orders'[q]
      PROVE  \E b \in orders[q] : /\ b.side = r.side /\ b.time = r.time /\ b.born = r.born
                                  /\ r = (IF q = p /\ b = o THEN f ELSE b)
  <2>1. CASE q = p /\ r = f
    BY <2>1, <1>3
  <2>2. CASE ~(q = p /\ r = f)
    <3>1. r \in orders[q] /\ ~(q = p /\ r = o)
      BY <2>2, <1>4
    <3> QED BY <3>1
  <2> QED BY <2>1, <2>2
<1>6. TableTypes'
  BY <1>1, <1>2, <1>4 DEF Rows, TableTypes
<1>7. OneOfEachSide'
  <2>1. ASSUME NEW q \in Positions, NEW r \in orders'[q], NEW s \in orders'[q], r.side = s.side
        PROVE  r = s
    <3>1. PICK a \in orders[q] : a.side = r.side /\ r = (IF q = p /\ a = o THEN f ELSE a)
      BY <1>5
    <3>2. PICK b \in orders[q] : b.side = s.side /\ s = (IF q = p /\ b = o THEN f ELSE b)
      BY <1>5
    <3>3. a = b
      BY <2>1, <3>1, <3>2 DEF Rows, OneOfEachSide
    <3> QED BY <3>1, <3>2, <3>3
  <2>2. ASSUME NEW q \in Positions, status'[q] = "none" PROVE orders'[q] = {}
    BY <2>2, <1>1, <1>4 DEF Rows, OneOfEachSide
  <2> QED
    BY <2>1, <2>2 DEF OneOfEachSide
<1>8. TimeOff'
  <2> SUFFICES ASSUME NEW q \in Positions, NEW r \in orders'[q]
               PROVE  /\ r.born < now'
                      /\ r.born + Zone - setBacks * SetBack <= r.time
                      /\ r.time <= r.born + Zone
    BY <1>2 DEF TimeOff
  <2>1. PICK b \in orders[q] : b.time = r.time /\ b.born = r.born
    BY <1>5
  <2> QED
    BY <2>1, <1>2 DEF Rows, TimeOff
<1>9. ExitLater'
  <2> SUFFICES ASSUME NEW q \in Positions, NEW r \in orders'[q], NEW s \in orders'[q],
                      r.side = Entry, s.side = Exit
               PROVE  r.born < s.born
    BY DEF ExitLater
  <2>1. PICK a \in orders[q] : a.side = r.side /\ a.born = r.born
    BY <1>5
  <2>2. PICK b \in orders[q] : b.side = s.side /\ b.born = s.born
    BY <1>5
  <2> QED
    BY <2>1, <2>2 DEF Rows, ExitLater
<1>10. ExitAfterEntry'
  <2> SUFFICES ASSUME NEW q \in Positions, NEW r \in orders'[q], r.side = Exit
               PROVE  \E s \in orders'[q] : s.side = Entry /\ s.executed
    BY DEF ExitAfterEntry
  <2>1. PICK a \in orders[q] : a.side = r.side
    BY <1>5
  <2>2. PICK b \in orders[q] : b.side = Entry /\ b.executed
    BY <2>1 DEF Rows, ExitAfterEntry
  <2>3. CASE q = p /\ b = o
    BY <2>2, <2>3, <1>3, <1>4
  <2>4. CASE ~(q = p /\ b = o)
    BY <2>2, <2>4, <1>4
  <2> QED BY <2>3, <2>4
<1> QED
  BY <1>6, <1>7, <1>8, <1>9, <1>10 DEF Rows

\* The exit order is made.
LEMMA RowsCreateExit ==
  ASSUME Rows, NEW p \in Positions, NEW e \in orders[p], NEW x \in SUBSET orders[p],
         CreateExitOrder(p, e, x)
  PROVE  Rows'
<1> DEFINE o == Wrap(Exit)
<1>1. /\ Tick /\ status' = status
      /\ orders' = [orders EXCEPT ![p] = @ \cup {o}]
      /\ e.executed /\ e.side = Entry
      /\ orders[p] = {e}
  BY ReadFact DEF CreateExitOrder
<1>2. /\ now' \in 0 .. MaxTime /\ now < now' /\ setBacks' = setBacks
      /\ \A q \in Positions : \A r \in orders[q] : r.born < now'
  BY <1>1, TickFact
<1>3. /\ o \in OrderRow /\ o.side = Exit /\ o.born = now
      /\ o.time = now - setBacks * SetBack + Zone
  BY WrapFact DEF Rows, Sides, Exit
<1>4. setBacks * SetBack \in Nat /\ now \in Nat
  BY LostFact, NowFact DEF Rows
<1>5. e.born < now
  BY DEF Rows, TimeOff
<1> HIDE DEF o
<1>6. /\ orders'[p] = {e, o}
      /\ orders' \in [Positions -> SUBSET OrderRow]
      /\ \A q \in Positions : q # p => orders'[q] = orders[q]
  BY <1>1, <1>3 DEF Rows, TableTypes
<1>7. Entry # Exit
  BY DEF Entry, Exit
<1>8. TableTypes'
  BY <1>1, <1>2, <1>6 DEF Rows, TableTypes
<1>9. OneOfEachSide'
  BY <1>1, <1>3, <1>6, <1>7 DEF Rows, OneOfEachSide
<1>10. TimeOff'
  <2> SUFFICES ASSUME NEW q \in Positions, NEW r \in orders'[q]
               PROVE  /\ r.born < now'
                      /\ r.born + Zone - setBacks * SetBack <= r.time
                      /\ r.time <= r.born + Zone
    BY <1>2 DEF TimeOff
  <2>1. CASE q = p /\ r = o
    BY <2>1, <1>2, <1>3, <1>4
  <2>2. CASE ~(q = p /\ r = o)
    <3>1. r \in orders[q]
      BY <2>2, <1>6
    <3> QED
      BY <3>1, <1>2 DEF Rows, TimeOff
  <2> QED BY <2>1, <2>2
<1>11. ExitLater' /\ ExitAfterEntry'
  BY <1>1, <1>3, <1>5, <1>6, <1>7 DEF Rows, ExitLater, ExitAfterEntry
<1> QED
  BY <1>8, <1>9, <1>10, <1>11 DEF Rows

\* The steps that touch no order.
LEMMA RowsClose ==
  ASSUME Rows, NEW p \in Positions, ClosePosition(p)
  PROVE  Rows'
<1>1. /\ Tick /\ orders' = orders /\ status' = [status EXCEPT ![p] = "CLOSED"]
  BY DEF ClosePosition
<1>2. /\ now' \in 0 .. MaxTime /\ setBacks' = setBacks
      /\ \A q \in Positions : \A r \in orders[q] : r.born < now'
  BY <1>1, TickFact
<1>3. \A q \in Positions : status'[q] = "none" => status[q] = "none"
  BY <1>1 DEF Rows, TableTypes
<1>4. TableTypes'
  BY <1>1, <1>2 DEF Rows, TableTypes
<1> QED
  BY <1>1, <1>2, <1>3, <1>4 DEF Rows, OneOfEachSide, TimeOff, ExitLater, ExitAfterEntry

\* What the loop does without writing changes no row either.
LEMMA RowsKept ==
  ASSUME Rows, UNCHANGED <<clock, rows>>
  PROVE  Rows'
BY DEF clock, rows, Rows, TableTypes, OneOfEachSide, TimeOff, ExitLater, ExitAfterEntry

\* Time that passes changes no row.
LEMMA RowsTime ==
  ASSUME Rows, TimePasses
  PROVE  Rows'
<1>1. Tick /\ orders' = orders /\ status' = status
  BY DEF TimePasses, rows
<1>2. /\ now' \in 0 .. MaxTime /\ setBacks' = setBacks
      /\ \A q \in Positions : \A r \in orders[q] : r.born < now'
  BY <1>1, TickFact
<1>3. TableTypes'
  BY <1>1, <1>2 DEF Rows, TableTypes
<1> QED
  BY <1>1, <1>2, <1>3 DEF Rows, OneOfEachSide, TimeOff, ExitLater, ExitAfterEntry

\* The more the clock has been set back, the less is said of the old orders.
LEMMA RowsSetBack ==
  ASSUME Rows, SetClockBack
  PROVE  Rows'
<1>1. /\ setBacks < MaxSetBacks /\ setBacks' = setBacks + 1
      /\ UNCHANGED <<now, status, orders>>
  BY DEF SetClockBack, rows
<1>2. TableTypes'
  <2>1. setBacks' \in 0 .. MaxSetBacks
    BY <1>1 DEF Rows, TableTypes
  <2> QED
    BY <1>1, <2>1 DEF Rows, TableTypes
<1>3. TimeOff'
  <2> SUFFICES ASSUME NEW q \in Positions, NEW r \in orders[q]
               PROVE  r.born + Zone - setBacks' * SetBack <= r.time
    BY <1>1 DEF TimeOff, Rows
  <2> DEFINE lost == setBacks * SetBack
  <2>1. lost \in Nat /\ setBacks' * SetBack = lost + SetBack
    BY <1>1, LostFact DEF Rows
  <2>2. r.born + Zone - lost <= r.time
    BY DEF Rows, TimeOff
  <2>3. r.born \in Nat /\ r.time \in Int
    BY RowFact DEF Rows
  <2> HIDE DEF lost
  <2>4. r.born + Zone - (lost + SetBack) <= r.time
    BY <2>1, <2>2, <2>3
  <2> QED BY <2>1, <2>4
<1> QED
  BY <1>1, <1>2, <1>3 DEF Rows, OneOfEachSide, ExitLater, ExitAfterEntry

\* Whatever a review of a position does keeps the tables in order.
LEMMA RowsReview ==
  ASSUME Rows, NEW p \in Positions, NEW e \in orders[p], NEW x \in SUBSET orders[p],
         \/ QueueEntryOrder(p, e, x) \/ Expire(p, e, x)
         \/ CreateExitOrder(p, e, x) \/ HoldPosition(p, e, x) \/ QueueExitOrder(p, e, x)
         \/ Finish(p, e, x)
  PROVE  Rows'
<1>1. CASE QueueEntryOrder(p, e, x) \/ HoldPosition(p, e, x) \/ QueueExitOrder(p, e, x)
  BY <1>1, RowsKept DEF QueueEntryOrder, HoldPosition, QueueExitOrder
<1>2. CASE Expire(p, e, x) \/ Finish(p, e, x)
  BY <1>2, RowsClose DEF Expire, Finish
<1>3. CASE CreateExitOrder(p, e, x)
  BY <1>3, RowsCreateExit
<1> QED BY <1>1, <1>2, <1>3

-----------------------------------------------------------------------------
(* What the loop has in its hands.                                         *)

LoopInv == Rows /\ LoopTypes /\ LoopSound

\* The query of the tick was not made later than now, nor will have been.
LEMMA ReadAtFact ==
  ASSUME LoopInv
  PROVE  /\ now \in Nat /\ readAt \in Nat /\ readAt <= now
         /\ now' \in Nat /\ now <= now' => readAt \in 0 .. now'
<1>1. now \in Nat
  BY NowFact DEF LoopInv, Rows
<1> QED BY <1>1 DEF LoopInv, LoopTypes

\* What an entry order is given is an integer, and does not shrink.
LEMMA ValidFact ==
  ASSUME TableTypes
  PROVE  /\ ValidFor \in Int
         /\ setBacks' = setBacks => ValidFor' = ValidFor
         /\ setBacks' = setBacks + 1 => ValidFor' = ValidFor + SetBack
<1>1. setBacks * SetBack \in Nat /\ (setBacks + 1) * SetBack = setBacks * SetBack + SetBack
  BY LostFact
<1>2. ValidFor \in Int /\ (setBacks' = setBacks => ValidFor' = ValidFor)
  BY <1>1 DEF ValidFor
<1>3. ASSUME setBacks' = setBacks + 1 PROVE ValidFor' = ValidFor + SetBack
  <2>1. setBacks' * SetBack = setBacks * SetBack + SetBack
    BY <1>1, <1>3
  <2> QED BY <1>1, <2>1 DEF ValidFor
<1> QED BY <1>2, <1>3

\* An order stays queued while the rows of its position are left alone.
LEMMA QueuedKept ==
  ASSUME LoopInv, NEW t \in queue, t[1] \notin todo',
         status'[t[1]] = status[t[1]], orders'[t[1]] = orders[t[1]],
         readAt' = readAt, setBacks' \in {setBacks, setBacks + 1}
  PROVE  Queued(t)'
<1> DEFINE p == t[1]
<1>1. p \in Positions
  BY DEF LoopInv, LoopTypes
<1>2. status[p] = "OPEN"
  BY DEF LoopInv, LoopSound, Queued
<1>3. PICK o \in orders[p] : /\ o.side = t[2] /\ ~o.executed
                             /\ o.side = Entry => readAt - o.born <= ValidFor
  BY DEF LoopInv, LoopSound, Queued
<1>4. o.born \in Nat /\ readAt \in Int
  <2>1. readAt \in Nat
    BY ReadAtFact
  <2>2. o \in OrderRow
    BY <1>1 DEF LoopInv, Rows, TableTypes
  <2> QED BY <2>1, <2>2 DEF OrderRow
<1>5. ValidFor \in Int /\ ValidFor' \in Int /\ ValidFor <= ValidFor'
  BY ValidFact DEF LoopInv, Rows
<1>6. o.side = Entry => readAt' - o.born <= ValidFor'
  BY <1>3, <1>4, <1>5
<1> QED
  BY <1>2, <1>3, <1>6 DEF Queued

\* A loop that waits has nothing in its hands.
LEMMA LoopRests ==
  ASSUME Rests, now' \in Nat
  PROVE  LoopTypes' /\ LoopSound'
BY DEF Rests, LoopTypes, LoopSound

\* The steps that open a position.
LEMMA LoopOpens ==
  ASSUME LoopInv, NEW p \in Positions, CreatePosition(p) \/ CreateEntryOrder(p)
  PROVE  LoopTypes' /\ LoopSound'
<1>1. Tick /\ UNCHANGED <<todo, queue, readAt>> /\ todo = {} /\ queue = {}
  BY DEF CreatePosition, CreateEntryOrder, PhaseGoes, LoopInv, LoopSound
<1>2. readAt' \in 0 .. now'
  BY <1>1, TickFact, ReadAtFact DEF LoopInv, Rows, TableTypes
<1>3. phase' \in {"opening", "waiting"}
  BY DEF CreatePosition, CreateEntryOrder, PhaseGoes
<1> QED
  BY <1>1, <1>2, <1>3 DEF LoopTypes, LoopSound

\* The query finds the open positions.
LEMMA LoopQueries ==
  ASSUME LoopInv, QueryPositions
  PROVE  LoopTypes' /\ LoopSound'
<1>1. /\ queue' = {} /\ phase' = "reviewing"
      /\ todo' = {p \in Positions : status[p] = "OPEN"}
      /\ readAt' = now /\ UNCHANGED <<clock, rows>>
  BY DEF QueryPositions, PhaseGoes, LoopInv, LoopSound
<1>2. readAt' \in 0 .. now'
  BY <1>1 DEF clock, LoopInv, Rows, TableTypes
<1> QED
  BY <1>1, <1>2 DEF rows, LoopTypes, LoopSound

\* What a review queues is pending, and what was queued still is.
LEMMA LoopReviews ==
  ASSUME LoopInv, NEW p \in Positions, NEW e \in orders[p], NEW x \in SUBSET orders[p],
         \/ QueueEntryOrder(p, e, x) \/ Expire(p, e, x)
         \/ CreateExitOrder(p, e, x) \/ HoldPosition(p, e, x) \/ QueueExitOrder(p, e, x)
         \/ Finish(p, e, x)
  PROVE  LoopTypes' /\ LoopSound'
<1> USE DEF LoopInv
<1>1. Reviews(p, e, x)
  BY DEF QueueEntryOrder, Expire, CreateExitOrder, HoldPosition, QueueExitOrder, Finish
<1>2. /\ p \in todo /\ status[p] = "OPEN" /\ e.side = Entry
      /\ \A o \in x : o \in orders[p] /\ o.side = Exit
      /\ phase' = "reviewing" /\ todo' = todo \ {p} /\ readAt' = readAt
  BY <1>1, ReadFact DEF LoopSound
\* Only the rows of p are written.
<1>3. /\ setBacks' = setBacks /\ now' \in Nat /\ now <= now'
      /\ \A q \in Positions : q # p => status'[q] = status[q] /\ orders'[q] = orders[q]
  <2>1. CASE UNCHANGED <<clock, rows>>
    BY <2>1 DEF clock, rows, Rows, TableTypes
  <2>2. CASE Tick /\ (CreateExitOrder(p, e, x) \/ ClosePosition(p))
    <3>1. now' \in Nat /\ now <= now' /\ setBacks' = setBacks
      BY <2>2, TickFact DEF Rows, TableTypes
    <3> QED
      BY <2>2, <3>1 DEF CreateExitOrder, ClosePosition, Rows, TableTypes
  <2> QED
    BY <2>1, <2>2 DEF QueueEntryOrder, Expire, CreateExitOrder, HoldPosition,
       QueueExitOrder, Finish, ClosePosition
<1>4. \A q \in todo' : status'[q] = "OPEN"
  BY <1>2, <1>3 DEF LoopTypes, LoopSound
<1>5. ASSUME NEW t \in queue PROVE Queued(t)'
  <2>1. t[1] \in Positions /\ t[1] \notin todo
    BY DEF LoopTypes, LoopSound, Queued
  <2> QED
    BY <1>2, <1>3, <2>1, QueuedKept
\* The order that is queued now, if any.
<1>6. CASE QueueEntryOrder(p, e, x)
  <2>1. /\ queue' = queue \cup {<<p, Entry>>} /\ ~e.executed /\ ~Expired(e)
        /\ UNCHANGED <<clock, rows>>
    BY <1>6 DEF QueueEntryOrder, Queue
  <2>2. readAt - e.born <= ValidFor
    <3>1. /\ e.born \in Nat /\ e.time \in Int /\ now \in Nat /\ setBacks * SetBack \in Nat
          /\ readAt \in Nat /\ readAt <= now
      BY RowFact, ReadAtFact, LostFact DEF Rows
    <3>2. ~(now - setBacks * SetBack - e.time > Validity)
      BY <2>1 DEF Expired, Age, Clock
    <3>3. e.time <= e.born + Zone
      BY DEF Rows, TimeOff
    <3> QED
      BY <3>1, <3>2, <3>3 DEF ValidFor
  <2>3. ValidFor' = ValidFor
    BY <1>3, ValidFact DEF Rows
  <2>4. Queued(<<p, Entry>>)'
    BY <1>2, <2>1, <2>2, <2>3 DEF rows, Queued
  <2>5. LoopTypes'
    BY <1>2, <1>3, <2>1, ReadAtFact DEF LoopTypes, Sides, Entry
  <2> QED
    BY <1>2, <1>4, <1>5, <2>1, <2>4, <2>5 DEF LoopSound
<1>7. CASE CreateExitOrder(p, e, x) \/ QueueExitOrder(p, e, x)
  <2>1. queue' = queue \cup {<<p, Exit>>} /\ status' = status
    BY <1>7 DEF CreateExitOrder, QueueExitOrder, Queue, rows
  <2>2. \E o \in orders'[p] : o.side = Exit /\ ~o.executed
    <3>1. CASE CreateExitOrder(p, e, x)
      <4>1. Wrap(Exit).side = Exit /\ ~Wrap(Exit).executed
        BY DEF Wrap
      <4> QED
        BY <3>1, <4>1 DEF CreateExitOrder, Rows, TableTypes
    <3>2. CASE QueueExitOrder(p, e, x)
      BY <1>2, <3>2 DEF QueueExitOrder, rows
    <3> QED BY <1>7, <3>1, <3>2
  <2>3. Queued(<<p, Exit>>)'
    BY <1>2, <2>1, <2>2 DEF Queued, Entry, Exit
  <2>4. LoopTypes'
    BY <1>2, <1>3, <2>1, ReadAtFact DEF LoopTypes, Sides, Exit
  <2> QED
    BY <1>2, <1>4, <1>5, <2>1, <2>3, <2>4 DEF LoopSound
<1>8. CASE Expire(p, e, x) \/ HoldPosition(p, e, x) \/ Finish(p, e, x)
  <2>1. queue' = queue
    BY <1>8 DEF Expire, HoldPosition, Finish, ClosePosition
  <2>2. LoopTypes'
    BY <1>2, <1>3, <2>1, ReadAtFact DEF LoopTypes
  <2> QED
    BY <1>2, <1>4, <1>5, <2>1, <2>2 DEF LoopSound
<1> QED BY <1>6, <1>7, <1>8

\* An order that is sent leaves the queue, and no other changes.
LEMMA LoopSends ==
  ASSUME LoopInv, NEW p \in Positions, NEW o \in orders[p],
         RecordExecution(p, o) \/ KillOrder(p, o)
  PROVE  LoopTypes' /\ LoopSound'
<1> USE DEF LoopInv
<1>1. /\ queue' = queue \ {<<p, o.side>>}
      /\ phase = "sending" /\ UNCHANGED <<phase, todo, readAt, status, setBacks>>
  BY DEF RecordExecution, KillOrder, Sends, Tick, clock, rows
<1>2. /\ now' \in Nat /\ now <= now'
      /\ \A q \in Positions : \A r \in orders[q] :
           ~(q = p /\ r.side = o.side) => r \in orders'[q]
  <2>1. CASE RecordExecution(p, o)
    <3>1. Tick /\ orders' = [orders EXCEPT ![p] = (@ \ {o}) \cup {[o EXCEPT !.executed = TRUE]}]
      BY <2>1 DEF RecordExecution
    <3>2. now' \in Nat /\ now <= now'
      BY <3>1, TickFact DEF Rows, TableTypes
    <3> QED
      BY <3>1, <3>2 DEF Rows, TableTypes
  <2>2. CASE KillOrder(p, o)
    BY <2>2 DEF KillOrder, clock, rows, Rows, TableTypes
  <2> QED BY <2>1, <2>2
<1>3. ASSUME NEW t \in queue' PROVE Queued(t)'
  <2>1. t \in queue /\ t \in Positions \X Sides /\ t # <<p, o.side>>
    BY <1>1, <1>3 DEF LoopTypes
  <2>2. ~(t[1] = p /\ t[2] = o.side)
    BY <2>1
  <2>3. PICK r \in orders[t[1]] : /\ r.side = t[2] /\ ~r.executed
                                  /\ r.side = Entry => readAt - r.born <= ValidFor
    BY <2>1 DEF LoopSound, Queued
  <2>4. r \in orders'[t[1]]
    BY <1>2, <2>1, <2>2, <2>3
  <2>5. ValidFor' = ValidFor
    BY <1>1, ValidFact DEF Rows
  <2>6. t[1] \notin todo /\ status[t[1]] = "OPEN"
    BY <2>1 DEF LoopSound, Queued
  <2> QED
    BY <1>1, <2>3, <2>4, <2>5, <2>6 DEF Queued
<1>4. LoopTypes'
  BY <1>1, <1>2, ReadAtFact DEF LoopTypes
<1> QED
  BY <1>1, <1>3, <1>4 DEF LoopSound

\* Nothing happens to the loop while time passes or the clock is set back.
LEMMA LoopKept ==
  ASSUME LoopInv,
         \/ QueueReady \/ TimePasses \/ SetClockBack \/ UNCHANGED vars
  PROVE  LoopTypes' /\ LoopSound'
<1> USE DEF LoopInv
<1>1. /\ UNCHANGED <<status, orders, todo, queue, readAt>>
      /\ phase' = phase \/ (phase' = "sending" /\ phase = "reviewing")
  BY DEF QueueReady, PhaseGoes, TimePasses, SetClockBack, vars, loop, rows
<1>2. /\ setBacks' \in {setBacks, setBacks + 1} /\ now' \in Nat /\ now <= now'
  <2>1. CASE TimePasses
    BY <2>1, TickFact DEF TimePasses, Rows, TableTypes
  <2>2. CASE QueueReady \/ SetClockBack \/ UNCHANGED vars
    BY <2>2 DEF QueueReady, SetClockBack, vars, clock, Rows, TableTypes
  <2> QED BY <2>1, <2>2
<1>3. ASSUME NEW t \in queue PROVE Queued(t)'
  <2>1. t[1] \notin todo
    BY DEF LoopSound, Queued
  <2> QED
    BY <1>1, <1>2, <2>1, QueuedKept
<1>4. LoopTypes'
  BY <1>1, <1>2, ReadAtFact DEF LoopTypes
<1> QED
  BY <1>1, <1>3, <1>4 DEF LoopSound

-----------------------------------------------------------------------------
(* The inductive invariant.                                                *)

\* There are no rows in the beginning, and nothing is queued.
LEMMA RowsInit == Init => LoopInv
<1> SUFFICES ASSUME Init PROVE LoopInv
  OBVIOUS
<1>1. TableTypes /\ LoopTypes
  BY DEF Init, TableTypes, LoopTypes
<1>2. \A p \in Positions : orders[p] = {}
  BY DEF Init
<1>3. LoopSound
  BY DEF Init, LoopSound
<1> QED
  BY <1>1, <1>2, <1>3
  DEF LoopInv, Rows, OneOfEachSide, TimeOff, ExitLater, ExitAfterEntry

\* Every step keeps the invariant.
LEMMA RowsNext == LoopInv /\ [Next]_vars => LoopInv'
<1> SUFFICES ASSUME LoopInv, [Next]_vars PROVE LoopInv'
  OBVIOUS
<1> USE DEF LoopInv
<1>1. ASSUME NEW p \in Positions, CreatePosition(p) \/ CreateEntryOrder(p) PROVE LoopInv'
  BY <1>1, RowsOpen, LoopOpens
<1>2. ASSUME NEW p \in Positions, Review(p) PROVE LoopInv'
  <2>1. PICK e \in orders[p], x \in SUBSET orders[p] :
          \/ QueueEntryOrder(p, e, x) \/ Expire(p, e, x)
          \/ CreateExitOrder(p, e, x) \/ HoldPosition(p, e, x) \/ QueueExitOrder(p, e, x)
          \/ Finish(p, e, x)
    BY <1>2 DEF Review
  <2> QED BY <2>1, RowsReview, LoopReviews
<1>3. ASSUME NEW p \in Positions, NEW o \in orders[p], RecordExecution(p, o) \/ KillOrder(p, o)
      PROVE  LoopInv'
  <2>1. Rows'
    BY <1>3, RowsExecute, RowsKept DEF KillOrder
  <2> QED BY <1>3, <2>1, LoopSends
<1>4. CASE QueryPositions
  BY <1>4, RowsKept, LoopQueries DEF QueryPositions
<1>5. CASE TickDone \/ Stop
  <2>1. Rests /\ UNCHANGED <<clock, rows>>
    BY <1>5 DEF TickDone, Stop
  <2>2. now' \in Nat
    BY <2>1 DEF clock, Rows, TableTypes
  <2> QED BY <2>1, <2>2, RowsKept, LoopRests
<1>6. CASE QueueReady \/ TimePasses \/ SetClockBack \/ UNCHANGED vars
  <2>1. Rows'
    BY <1>6, RowsKept, RowsTime, RowsSetBack DEF QueueReady, vars
  <2> QED BY <1>6, <2>1, LoopKept
<1> QED
  BY <1>1, <1>2, <1>3, <1>4, <1>5, <1>6 DEF Next

\* The inductive conjuncts hold in every state.
LEMMA RowsAlways == Spec => []LoopInv
BY RowsInit, RowsNext, PTL DEF Spec

\* Sorting by the stored time finds the entry order and the exit order, until the
\* clock is set back, an exit order is never beside an entry order that was not
\* executed, and what is queued is still to be executed
\* (trading/position.go:119-158, workload.go:408-519).
THEOREM RowsInvariant == Spec => []RowsInv
<1>1. LoopInv => RowsInv
  BY BreakdownFact DEF LoopInv, Rows, TableTypes, LoopTypes, TypeOK, RowsInv
<1> QED
  BY <1>1, RowsAlways, PTL

-----------------------------------------------------------------------------
(* The validity of an entry order.                                         *)

\* The orders of a position change in three ways.
LEMMA OrdersFrame ==
  ASSUME Rows, Next, NEW p \in Positions, orders'[p] # orders[p]
  PROVE  \/ CreateEntryOrder(p)
         \/ \E e \in orders[p], x \in SUBSET orders[p] : CreateExitOrder(p, e, x)
         \/ \E o \in orders[p] : RecordExecution(p, o)
<1>1. \/ QueryPositions \/ QueueReady \/ TickDone \/ Stop \/ TimePasses \/ SetClockBack
      => orders' = orders
  BY DEF QueryPositions, QueueReady, TickDone, Stop, TimePasses, SetClockBack, rows
<1>2. ASSUME NEW q \in Positions, CreatePosition(q) \/ CreateEntryOrder(q)
      PROVE  CreateEntryOrder(p)
  <2>1. CreateEntryOrder(q)
    BY <1>2 DEF CreatePosition
  <2>2. q = p
    BY <2>1 DEF CreateEntryOrder, Rows, TableTypes
  <2> QED BY <2>1, <2>2
<1>3. ASSUME NEW q \in Positions, Review(q)
      PROVE  \E e \in orders[p], x \in SUBSET orders[p] : CreateExitOrder(p, e, x)
  <2>1. PICK e \in orders[q], x \in SUBSET orders[q] : CreateExitOrder(q, e, x)
    BY <1>3 DEF Review, QueueEntryOrder, Expire, HoldPosition, QueueExitOrder, Finish,
       ClosePosition, rows
  <2>2. q = p
    BY <2>1 DEF CreateExitOrder, Rows, TableTypes
  <2> QED BY <2>1, <2>2
<1>4. ASSUME NEW q \in Positions, NEW o \in orders[q], RecordExecution(q, o) \/ KillOrder(q, o)
      PROVE  \E r \in orders[p] : RecordExecution(p, r)
  <2>1. RecordExecution(q, o)
    BY <1>4 DEF KillOrder, rows
  <2>2. q = p
    BY <2>1 DEF RecordExecution, Rows, TableTypes
  <2> QED BY <2>1, <2>2
<1> QED BY <1>1, <1>2, <1>3, <1>4 DEF Next

\* An entry order is recorded as executed no later than its validity, what the
\* zone is ahead of UTC, what the clock has been set back, and what has passed
\* since the query of the same tick (workload.go:294-337, 464-478,
\* postgres/order.go:98).
THEOREM EntriesValid == Spec => EntryValidity
<1> DEFINE Valid ==
      \A p \in Positions : \A o \in orders[p] :
        o.side = Entry /\ ~o.executed
          /\ [o EXCEPT !.executed = TRUE] \in orders'[p]
        => now - o.born <= ValidFor + (now - readAt)
<1>1. ASSUME LoopInv, Next PROVE Valid
  <2> USE <1>1 DEF LoopInv
  <2> SUFFICES ASSUME NEW p \in Positions, NEW o \in orders[p],
                      o.side = Entry, ~o.executed,
                      [o EXCEPT !.executed = TRUE] \in orders'[p]
               PROVE  now - o.born <= ValidFor + (now - readAt)
    OBVIOUS
  <2> DEFINE f == [o EXCEPT !.executed = TRUE]
  <2>1. f.executed /\ f.side = Entry
    BY RowFact DEF Rows
  <2>2. f \notin orders[p]
    BY <2>1 DEF Rows, OneOfEachSide
  <2>3. orders'[p] # orders[p]
    BY <2>2
  <2> HIDE DEF f
  <2>4. ASSUME CreateEntryOrder(p) PROVE FALSE
    BY <2>4 DEF CreateEntryOrder
  <2>5. ASSUME NEW e \in orders[p], NEW x \in SUBSET orders[p], CreateExitOrder(p, e, x)
        PROVE  FALSE
    <3>1. orders'[p] = orders[p] \cup {Wrap(Exit)}
      BY <2>5 DEF CreateExitOrder, Rows, TableTypes
    <3>2. Wrap(Exit).side # Entry
      BY DEF Wrap, Entry, Exit
    <3> QED
      BY <2>1, <2>2, <3>1, <3>2 DEF f
  <2>6. ASSUME NEW r \in orders[p], RecordExecution(p, r)
        PROVE  now - o.born <= ValidFor + (now - readAt)
    <3>1. orders'[p] = (orders[p] \ {r}) \cup {[r EXCEPT !.executed = TRUE]}
      BY <2>6 DEF RecordExecution, Rows, TableTypes
    <3>2. [r EXCEPT !.executed = TRUE] = f
      BY <2>2, <3>1 DEF f
    <3>3. r.side = Entry
      BY <2>1, <3>2, RowFact DEF Rows
    <3>4. Queued(<<p, Entry>>)
      BY <2>6, <3>3 DEF RecordExecution, Sends, LoopSound
    <3>5. PICK b \in orders[p] : b.side = Entry /\ readAt - b.born <= ValidFor
      BY <3>4 DEF Queued
    <3>6. b = o
      BY <3>5 DEF Rows, OneOfEachSide
    <3>7. o.born \in Nat /\ readAt \in Int /\ now \in Int /\ ValidFor \in Int
      BY RowFact, ReadAtFact, ValidFact DEF Rows
    <3> QED
      BY <3>5, <3>6, <3>7
  <2> QED
    BY <2>3, <2>4, <2>5, <2>6, OrdersFrame
<1>2. LoopInv /\ [Next]_vars => [Valid]_vars
  BY <1>1
<1> QED
  BY <1>2, RowsAlways, PTL DEF Spec, EntryValidity

\* A position whose entry order was not executed is closed only when its validity
\* and the zone are over, whatever the clock did (workload.go:464-474).
THEOREM EntriesGetTheirTime == Spec => EntryGetsItsTime
<1> DEFINE Patient ==
      \A p \in Positions : \A o \in orders[p] :
        ~o.executed /\ status[p] = "OPEN" /\ status'[p] = "CLOSED"
          => now - o.born > Validity + Zone
<1>1. ASSUME Rows, Next PROVE Patient
  <2> SUFFICES ASSUME NEW p \in Positions, NEW o \in orders[p],
                      ~o.executed, status[p] = "OPEN", status'[p] = "CLOSED"
               PROVE  now - o.born > Validity + Zone
    OBVIOUS
  <2>1. ASSUME NEW e \in orders[p], NEW x \in SUBSET orders[p], Expire(p, e, x)
        PROVE  now - o.born > Validity + Zone
    <3>1. /\ e.side = Entry /\ x = orders[p] \ {e} /\ (x # {} => e.executed)
          /\ ~e.executed /\ Expired(e)
      BY <2>1, ReadFact DEF Expire
    <3>2. e = o
      BY <3>1
    <3>3. o.born \in Nat /\ o.time \in Int /\ now \in Nat /\ setBacks * SetBack \in Nat
      BY <1>1, RowFact, NowFact, LostFact DEF Rows
    <3>4. now - setBacks * SetBack - o.time > Validity
      BY <3>1, <3>2 DEF Expired, Age, Clock
    <3>5. o.born + Zone - setBacks * SetBack <= o.time
      BY <1>1 DEF Rows, TimeOff
    <3> QED
      BY <3>3, <3>4, <3>5
  <2>2. ASSUME NEW e \in orders[p], NEW x \in SUBSET orders[p], Finish(p, e, x)
        PROVE  FALSE
    <3>1. /\ x = orders[p] \ {e} /\ (x # {} => e.executed)
          /\ \A r \in x : r.side = Exit
      BY <2>2, ReadFact DEF Finish
    <3>2. PICK r \in x : r.executed
      BY <2>2 DEF Finish
    <3>3. o \in x /\ o = r
      BY <1>1, <3>1, <3>2 DEF Rows, OneOfEachSide
    <3> QED BY <3>2, <3>3
  <2>3. \E e \in orders[p], x \in SUBSET orders[p] : Expire(p, e, x) \/ Finish(p, e, x)
    <3>1. \/ QueryPositions \/ QueueReady \/ TickDone \/ Stop \/ TimePasses \/ SetClockBack
          => status' = status
      BY DEF QueryPositions, QueueReady, TickDone, Stop, TimePasses, SetClockBack, rows
    <3>2. \A q \in Positions : ~CreatePosition(q) /\ ~CreateEntryOrder(q)
      BY <1>1 DEF CreatePosition, CreateEntryOrder, Rows, TableTypes
    <3>3. \A q \in Positions : \A r \in orders[q] :
            RecordExecution(q, r) \/ KillOrder(q, r) => status' = status
      BY DEF RecordExecution, KillOrder, rows
    <3>4. PICK q \in Positions : Review(q)
      BY <1>1, <3>1, <3>2, <3>3 DEF Next
    <3>5. PICK e \in orders[q], x \in SUBSET orders[q] : Expire(q, e, x) \/ Finish(q, e, x)
      BY <3>4 DEF Review, QueueEntryOrder, CreateExitOrder, HoldPosition, QueueExitOrder, rows
    <3>6. q = p
      BY <1>1, <3>5 DEF Expire, Finish, ClosePosition, Rows, TableTypes
    <3> QED
      BY <3>5, <3>6
  <2> QED
    BY <2>1, <2>2, <2>3
<1>2. LoopInv /\ [Next]_vars => [Patient]_vars
  BY <1>1 DEF LoopInv
<1> QED
  BY <1>2, RowsAlways, PTL DEF Spec, EntryGetsItsTime
=============================================================================
