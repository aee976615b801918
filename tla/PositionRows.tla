---------------------------- MODULE PositionRows ----------------------------
(***************************************************************************)
(* What becomes of positions and orders between the action loop and the    *)
(* database (trading/postgres/position.go, order.go): the rows that are    *)
(* written, the join that reads them back and the breakdown of a position  *)
(* into its entry and exit order (trading/position.go), which goes by      *)
(* time.  One action loop, tick by tick: what it has read of a position is *)
(* still in the tables when it reviews the position, as nobody else writes *)
(* them.  ActionLoop has the exchange, the events and the overlaps.        *)
(*                                                                         *)
(* Times are integers.  The process reads a clock that may be set back,    *)
(* and lives in a zone.  A column of type TIMESTAMP keeps what the clock   *)
(* on the wall shows and forgets the zone; it is read as UTC.              *)
(***************************************************************************)
EXTENDS Integers

CONSTANTS
  Positions,      \* identifiers
  Zone,           \* what the zone of the process is ahead of UTC
  Validity,       \* entryOrderValidityTime
  SetBack,        \* what the clock loses when it is set back
  MaxSetBacks,    \* bound: how often that happens
  MaxTime         \* bound: the time that passes

ASSUME ZoneAssumption == Zone \in Int
ASSUME TimesAssumption == /\ Validity \in Nat /\ SetBack \in Nat
                          /\ MaxSetBacks \in Nat /\ MaxTime \in Nat

VARIABLES
  now,        \* the time that has passed
  setBacks,   \* how often the clock has been set back
  status,     \* status[p]: of the row of p, "none" before it exists
  orders,     \* orders[p]: the rows of position_order that refer to p
  phase,      \* where the action loop is in its tick
  todo,       \* the positions it has read and not reviewed
  queue,      \* pendingOrders: position and side of the orders to send
  readAt      \* history: when the query of this tick was made

clock == <<now, setBacks>>
rows == <<status, orders>>
loop == <<phase, todo, queue, readAt>>
vars == <<clock, rows, loop>>
-----------------------------------------------------------------------------
Sides == {"BUY", "SELL"}
Entry == "BUY"
Exit == "SELL"

\* born is no column: it is when the order was really made.
OrderRow == [side : Sides, time : Int, executed : BOOLEAN, born : Nat]

TypeOK ==
  /\ now \in 0 .. MaxTime
  /\ setBacks \in 0 .. MaxSetBacks
  /\ status \in [Positions -> {"none", "OPEN", "CLOSED"}]
  /\ orders \in [Positions -> SUBSET OrderRow]
  /\ phase \in {"waiting", "opening", "reviewing", "sending"}
  /\ todo \subseteq Positions
  /\ queue \subseteq Positions \X Sides
  /\ readAt \in 0 .. now

Init ==
  /\ now = 0 /\ setBacks = 0
  /\ status = [p \in Positions |-> "none"]
  /\ orders = [p \in Positions |-> {}]
  /\ phase = "waiting" /\ todo = {} /\ queue = {} /\ readAt = 0

\* time.Now(), as an instant.
Clock == now - setBacks * SetBack

\* A new order as it is written: of its time the zone is lost.
Wrap(side) == [side |-> side, time |-> Clock + Zone, executed |-> FALSE,
               born |-> now]

\* How old the process takes an order to be.
Age(o) == Clock - o.time

-----------------------------------------------------------------------------
(* Reading.                                                                *)

\* A position without orders has a row of NULLs in the join, which cannot be
\* scanned: the query fails.
QueryFails == \E p \in Positions : status[p] = "OPEN" /\ orders[p] = {}

\* Mutation: the orders are not sorted, and come latest first.
LatestFirst(p) == {o \in orders[p] : \A r \in orders[p] : o.time >= r.time}

\* The orders that may be the first of p when they are sorted by their times.
Earliest(p) == {o \in orders[p] : \A r \in orders[p] : o.time <= r.time}

\* Position.OrdersBreakdown finds the entry order e and the exit orders x, none
\* or one, and no error.
OrdersBreakdown(p, e, x) ==
  /\ e \in Earliest(p) /\ x = orders[p] \ {e}
  /\ e.side = Entry
  /\ x # {} => e.executed
  /\ \A o \in x : o.side = Exit

\* Mutation: an entry order is valid for good.
NeverExpired(o) == FALSE

\* Mutation: the validity has lost its unit.
ExpiredAtOnce(o) == Age(o) > 0

Expired(o) == Age(o) > Validity

-----------------------------------------------------------------------------
(* The tick of the action loop.  Every write takes time; the time that the *)
(* requests take is in TimePasses.                                         *)

Tick == /\ now < MaxTime
        /\ now' = now + 1
        /\ UNCHANGED setBacks

PhaseGoes(from, to) == phase = from /\ phase' = to

\* A signal is processed.  After a start no signal is for five minutes, so a
\* loop whose query fails never comes to it.
CreatePosition(p) ==
  /\ PhaseGoes("waiting", "opening")
  /\ ~QueryFails
  /\ Tick
  /\ status[p] = "none" /\ status' = [status EXCEPT ![p] = "OPEN"]
  /\ UNCHANGED <<orders, todo, queue, readAt>>

CreateEntryOrder(p) ==
  /\ PhaseGoes("opening", "waiting")
  /\ Tick
  /\ status[p] = "OPEN" /\ orders[p] = {}
  /\ orders' = [orders EXCEPT ![p] = {Wrap(Entry)}]
  /\ UNCHANGED <<status, todo, queue, readAt>>

\* refreshOrdersQueue reads the open positions with their orders.
QueryPositions ==
  /\ PhaseGoes("waiting", "reviewing")
  /\ ~QueryFails
  /\ todo' = {p \in Positions : status[p] = "OPEN"}
  /\ readAt' = now
  /\ UNCHANGED <<clock, rows, queue>>

\* It has come to position p, with the orders e and x.
Reviews(p, e, x) ==
  /\ phase = "reviewing" /\ p \in todo
  /\ OrdersBreakdown(p, e, x)
  /\ todo' = todo \ {p}
  /\ UNCHANGED <<phase, readAt>>

Queue(p, side) == queue' = queue \cup {<<p, side>>}

\* UpdatePosition writes nothing but the status.
ClosePosition(p) ==
  /\ Tick
  /\ status' = [status EXCEPT ![p] = "CLOSED"]
  /\ UNCHANGED <<orders, queue>>

QueueEntryOrder(p, e, x) ==
  /\ Reviews(p, e, x) /\ ~e.executed /\ ~Expired(e)
  /\ Queue(p, Entry)
  /\ UNCHANGED <<clock, rows>>

Expire(p, e, x) ==
  /\ Reviews(p, e, x) /\ ~e.executed /\ Expired(e)
  /\ ClosePosition(p)

\* The price asks for the exit.
CreateExitOrder(p, e, x) ==
  /\ Reviews(p, e, x) /\ e.executed /\ x = {}
  /\ Tick
  /\ orders' = [orders EXCEPT ![p] = @ \cup {Wrap(Exit)}]
  /\ Queue(p, Exit)
  /\ UNCHANGED status

HoldPosition(p, e, x) ==
  /\ Reviews(p, e, x) /\ e.executed /\ x = {}
  /\ UNCHANGED <<clock, rows, queue>>

QueueExitOrder(p, e, x) ==
  /\ Reviews(p, e, x) /\ \E o \in x : ~o.executed
  /\ Queue(p, Exit)
  /\ UNCHANGED <<clock, rows>>

Finish(p, e, x) ==
  /\ Reviews(p, e, x) /\ \E o \in x : o.executed
  /\ ClosePosition(p)

Review(p) ==
  \E e \in orders[p], x \in SUBSET orders[p] :
    \/ QueueEntryOrder(p, e, x) \/ Expire(p, e, x)
    \/ CreateExitOrder(p, e, x) \/ HoldPosition(p, e, x) \/ QueueExitOrder(p, e, x)
    \/ Finish(p, e, x)

QueueReady ==
  /\ PhaseGoes("reviewing", "sending")
  /\ todo = {}
  /\ UNCHANGED <<clock, rows, todo, queue, readAt>>

\* The queued order o of position p goes to the exchange.
Sends(p, o) ==
  /\ phase = "sending" /\ <<p, o.side>> \in queue
  /\ queue' = queue \ {<<p, o.side>>}
  /\ UNCHANGED <<phase, todo, readAt>>

\* It was executed, now or before.  UpdateOrder writes nothing but that.
RecordExecution(p, o) ==
  /\ Sends(p, o)
  /\ Tick
  /\ orders' = [orders EXCEPT ![p] = (@ \ {o}) \cup {[o EXCEPT !.executed = TRUE]}]
  /\ UNCHANGED status

KillOrder(p, o) ==
  /\ Sends(p, o)
  /\ UNCHANGED <<clock, rows>>

\* The loop waits for the next tick, with nothing in its hands.
Rests == phase' = "waiting" /\ todo' = {} /\ queue' = {} /\ readAt' = 0

TickDone ==
  /\ phase = "sending" /\ queue = {}
  /\ Rests
  /\ UNCHANGED <<clock, rows>>

\* A call fails or the process ends; another loop takes over.
Stop ==
  /\ phase # "waiting"
  /\ Rests
  /\ UNCHANGED <<clock, rows>>

\* Between two ticks, or while a call lasts.
TimePasses == Tick /\ UNCHANGED <<rows, loop>>

\* The clock of the machine is set back.
SetClockBack ==
  /\ setBacks < MaxSetBacks
  /\ setBacks' = setBacks + 1
  /\ UNCHANGED <<now, rows, loop>>

Next ==
  \/ \E p \in Positions : CreatePosition(p) \/ CreateEntryOrder(p) \/ Review(p)
  \/ \E p \in Positions : \E o \in orders[p] : RecordExecution(p, o) \/ KillOrder(p, o)
  \/ QueryPositions \/ QueueReady \/ TickDone \/ Stop
  \/ TimePasses
  \/ SetClockBack

Spec == Init /\ [][Next]_vars
=============================================================================
