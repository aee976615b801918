----------------------- MODULE PositionRowsProperties -----------------------
(* What the loop reads back is what it wrote.                              *)
EXTENDS PositionRows

\* The order that OrdersBreakdown takes for the entry order is the entry order,
\* and the other one the exit order (trading/position.go:119-158): sorting by
\* the time that was stored tells them apart, and never ends in an error, as
\* long as the clock is not set back.
BreakdownBySide ==
  \A p \in Positions : setBacks = 0 /\ status[p] = "OPEN" =>
    \A e \in orders[p] : OrdersBreakdown(p, e, orders[p] \ {e}) <=> e.side = Entry

\* An exit order exists only for an entry order that was executed, whatever the
\* clock does: what OrdersBreakdown calls inconsistent (trading/position.go:144)
\* is never written.
ExitAfterEntry ==
  \A p \in Positions :
    (\E o \in orders[p] : o.side = Exit)
      => \E o \in orders[p] : o.side = Entry /\ o.executed

\* How long an entry order may be valid: entryOrderValidityTime, and what the
\* zone is ahead of UTC and the clock has been set back, as the time it is
\* compared with went through the database, which forgot the zone
\* (workload.go:465, postgres/order.go:98).
ValidFor == Validity + Zone + setBacks * SetBack

\* An entry order is recorded as executed no later than its validity and what
\* has passed since the positions were read in the same tick: it is looked at
\* before the orders are sent one after the other, each taking its time
\* (workload.go:464-478, 294-337).
EntryValidity ==
  [][\A p \in Positions : \A o \in orders[p] :
       o.side = Entry /\ ~o.executed
         /\ [o EXCEPT !.executed = TRUE] \in orders'[p]
       => now - o.born <= ValidFor + (now - readAt)]_vars

\* A position whose entry order was not executed is closed only when that time
\* is over, the zone included, however the clock is set back
\* (workload.go:464-474).
EntryGetsItsTime ==
  [][\A p \in Positions : \A o \in orders[p] :
       ~o.executed /\ status[p] = "OPEN" /\ status'[p] = "CLOSED"
       => now - o.born > Validity + Zone]_vars

-----------------------------------------------------------------------------
\* A position has at most one order of either side, and none before its row.
OneOfEachSide ==
  \A p \in Positions :
    /\ \A o, r \in orders[p] : o.side = r.side => o = r
    /\ status[p] = "none" => orders[p] = {}

\* Of the time of an order the zone is off, and at most what the clock has been
\* set back so far.
TimeOff ==
  \A p \in Positions : \A o \in orders[p] :
    /\ o.born < now
    /\ o.born + Zone - setBacks * SetBack <= o.time
    /\ o.time <= o.born + Zone

\* The exit order is made after the entry order.
ExitLater ==
  \A p \in Positions : \A o, r \in orders[p] :
    o.side = Entry /\ r.side = Exit => o.born < r.born

\* What is queued is an order of an open position that has been reviewed, and
\* is not executed; an entry order was valid when it was read.
Queued(t) ==
  /\ t[1] \notin todo /\ status[t[1]] = "OPEN"
  /\ \E o \in orders[t[1]] : /\ o.side = t[2] /\ ~o.executed
                             /\ o.side = Entry => readAt - o.born <= ValidFor

\* What the loop has in its hands fits the tables.
LoopSound ==
  /\ phase \in {"waiting", "opening"} => todo = {} /\ queue = {}
  /\ \A p \in todo : status[p] = "OPEN"
  /\ \A t \in queue : Queued(t)

\* What a review of the positions may meet in the rows, inductive but for
\* BreakdownBySide, which the rest implies.
RowsInv == /\ TypeOK
           /\ OneOfEachSide
           /\ TimeOff
           /\ ExitLater
           /\ ExitAfterEntry
           /\ LoopSound
           /\ BreakdownBySide
=============================================================================
