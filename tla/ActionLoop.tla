----------------------------- MODULE ActionLoop -----------------------------
(***************************************************************************)
(* The action loop of one workload (trading/workload.go, actionLoop), the  *)
(* PostgreSQL tables it keeps positions and orders in, and the exchange it *)
(* sends fill-or-kill orders to.                                           *)
(*                                                                         *)
(* Every database statement and every exchange request is a step of its    *)
(* own, and the loop may end between any two of them: with an error, on a  *)
(* cancelled context, or with the process.  What it leaves in the tables   *)
(* and on the exchange is what the next loop starts from.                  *)
(*                                                                         *)
(* Only LONG positions are ever opened (position.go:171), so the entry     *)
(* order of a position is its BUY order and the exit order its SELL order. *)
(* UNIQUE(position_id, side) lets <<position, side>> stand for an order.   *)
(* Positions are numbered in the order of their creation, which is also    *)
(* the order of their Time column.                                         *)
(***************************************************************************)
EXTENDS Naturals, FiniteSets

CONSTANTS
  Runners,             \* identities of action loops of this workload
  MaxPositions,        \* bound: how many positions are ever created
  OpenPositionsLimit,  \* account.open_position_limit
  Exclusive            \* TRUE: a loop starts only when no other one runs

ASSUME BoundAssumption == MaxPositions \in Nat
ASSUME LimitAssumption == OpenPositionsLimit \in Nat
ASSUME ExclusiveAssumption == Exclusive \in BOOLEAN

VARIABLES
  position,      \* table position: position[p] is the status column
  order,         \* table position_order: order[o] tells the executed column
  openedEvents,  \* openedEvents[p]: "position opened" events published
  closedEvents,  \* closedEvents[p]: "position closed" events published
  fills,         \* exchange: how many times the order was filled
  expired,       \* positions whose entry order outlived its validity time
  pc,            \* pc[r]: the next call loop r makes
  quiet,         \* quiet[r]: whether loop r may evaluate signals yet
  mine,          \* mine[r]: the position loop r is opening or closing, or 0
  todo,          \* todo[r]: fetched positions loop r has not reviewed yet
  snap,          \* snap[r]: the orders as loop r fetched them
  pending        \* pending[r]: the queue of orders loop r has to send

tables == <<position, order>>
events == <<openedEvents, closedEvents>>
market == <<fills, expired>>
locals == <<mine, todo, snap, pending>>
vars == <<tables, events, market, pc, quiet, locals>>
-----------------------------------------------------------------------------
Positions == 1..MaxPositions
Sides == {"BUY", "SELL"}
Orders == Positions \X Sides
Entry(p) == <<p, "BUY">>
Exit(p) == <<p, "SELL">>

NoOrders == [o \in Orders |-> "none"]

PCs == {"down",     \* not running
        "idle",     \* waiting for the ticker
        "count", "create", "announce", "enter",   \* processSignal
        "query", "review", "closing",             \* refreshOrdersQueue
        "orders", "execute", "record"}            \* the loop over the queue

Typed ==
  /\ position \in [Positions -> {"none", "OPEN", "CLOSED"}]
  /\ order \in [Orders -> {"none", "new", "executed"}]
  /\ openedEvents \in [Positions -> Nat]
  /\ closedEvents \in [Positions -> Nat]
  /\ fills \in [Orders -> Nat]
  /\ expired \in SUBSET Positions
  /\ pc \in [Runners -> PCs]
  /\ quiet \in [Runners -> {"fresh", "paused", "ready"}]
  /\ mine \in [Runners -> {0} \cup Positions]
  /\ todo \in [Runners -> SUBSET Positions]
  /\ snap \in [Runners -> [Orders -> {"none", "new", "executed"}]]
  /\ pending \in [Runners -> SUBSET Orders]

\* A loop has no more in its local variables than the call it makes needs.
Tidy(r) ==
  /\ mine[r] \in Positions <=> pc[r] \in {"announce", "enter", "closing"}
  /\ todo[r] # {} => pc[r] \in {"review", "closing"}
  /\ pending[r] # {} =>
       pc[r] \in {"review", "closing", "orders", "execute", "record"}

TypeOK == Typed /\ \A r \in Runners : Tidy(r)

Init ==
  /\ position = [p \in Positions |-> "none"]
  /\ order = NoOrders
  /\ openedEvents = [p \in Positions |-> 0]
  /\ closedEvents = [p \in Positions |-> 0]
  /\ fills = [o \in Orders |-> 0]
  /\ expired = {}
  /\ pc = [r \in Runners |-> "down"]
  /\ quiet = [r \in Runners |-> "fresh"]
  /\ mine = [r \in Runners |-> 0]
  /\ todo = [r \in Runners |-> {}]
  /\ snap = [r \in Runners |-> NoOrders]
  /\ pending = [r \in Runners |-> {}]

OpenPositions == {p \in Positions : position[p] = "OPEN"}

\* An open position without any order: CreatePosition went through and
\* CreateEntryOrder has not.
Orphan(p) == /\ position[p] = "OPEN"
             /\ order[Entry(p)] = "none"
             /\ order[Exit(p)] = "none"

Wedged == \E p \in Positions : Orphan(p)

Goto(r, label) == pc' = [pc EXCEPT ![r] = label]

-----------------------------------------------------------------------------
(* Start and end of a loop.                                                *)

\* Mutation: lastSignalTime is not set when a loop is started.
StartUnpaused(r) ==
  /\ pc[r] = "down"
  /\ Exclusive => \A q \in Runners : pc[q] = "down"
  /\ Goto(r, "idle")
  /\ quiet' = [quiet EXCEPT ![r] = "ready"]
  /\ UNCHANGED <<tables, events, market, locals>>

\* RunWorkload.  lastSignalTime is set to now, and the first tick comes
\* after 5 seconds, so that tick falls into the 5 minutes' pause.
Start(r) ==
  /\ pc[r] = "down"
  /\ Exclusive => \A q \in Runners : pc[q] = "down"
  /\ Goto(r, "idle")
  /\ quiet' = [quiet EXCEPT ![r] = "fresh"]
  /\ UNCHANGED <<tables, events, market, locals>>

\* The loop returns and its local variables are gone.
Halt(r) ==
  /\ Goto(r, "down")
  /\ quiet' = [quiet EXCEPT ![r] = "fresh"]
  /\ mine' = [mine EXCEPT ![r] = 0]
  /\ todo' = [todo EXCEPT ![r] = {}]
  /\ snap' = [snap EXCEPT ![r] = NoOrders]
  /\ pending' = [pending EXCEPT ![r] = {}]

\* Any call returns an error that had no effect, the context is cancelled, a
\* panic or the end of the process takes the loop down.
Stop(r) ==
  /\ pc[r] # "down"
  /\ Halt(r)
  /\ UNCHANGED <<tables, events, market>>

-----------------------------------------------------------------------------
(* A tick: evaluation of a signal and opening of a position.               *)

\* The generator is paused, or it finds no signal in the candles.
QuietTick(r) ==
  /\ pc[r] = "idle"
  /\ Goto(r, "query")
  /\ quiet' = [quiet EXCEPT ![r] = IF @ = "fresh" THEN "paused" ELSE @]
  /\ UNCHANGED <<tables, events, market, locals>>

Signal(r) ==
  /\ pc[r] = "idle"
  /\ quiet[r] = "ready"
  /\ \E p \in Positions : position[p] = "none"      \* MaxPositions
  /\ Goto(r, "count")
  /\ quiet' = [quiet EXCEPT ![r] = "paused"]
  /\ UNCHANGED <<tables, events, market, locals>>

\* signalGeneratorPauseTime passes.
PauseOver(r) ==
  /\ pc[r] # "down"
  /\ quiet[r] = "paused"
  /\ quiet' = [quiet EXCEPT ![r] = "ready"]
  /\ UNCHANGED <<tables, events, market, pc, locals>>

\* Mutation: the limit is compared with <= instead of <.
RoomBeyondLimit(r) ==
  /\ pc[r] = "count"
  /\ Cardinality(OpenPositions) <= OpenPositionsLimit
  /\ Goto(r, "create")
  /\ UNCHANGED <<tables, events, market, quiet, locals>>

\* Balance and commission are fetched, the open positions counted.
RoomForPosition(r) ==
  /\ pc[r] = "count"
  /\ Cardinality(OpenPositions) < OpenPositionsLimit
  /\ Goto(r, "create")
  /\ UNCHANGED <<tables, events, market, quiet, locals>>

\* The signal is dropped: no room under the limit, or insufficient funds.
DropSignal(r) ==
  /\ pc[r] = "count"
  /\ Goto(r, "query")
  /\ UNCHANGED <<tables, events, market, quiet, locals>>

CreatePosition(r, p) ==
  /\ pc[r] = "create"
  /\ position[p] = "none"
  /\ \A q \in Positions : position[q] = "none" => p <= q
  /\ position' = [position EXCEPT ![p] = "OPEN"]
  /\ mine' = [mine EXCEPT ![r] = p]
  /\ Goto(r, "announce")
  /\ UNCHANGED <<order, events, market, quiet, todo, snap, pending>>

PublishOpened(r) ==
  /\ pc[r] = "announce"
  /\ openedEvents' = [openedEvents EXCEPT ![mine[r]] = @ + 1]
  /\ Goto(r, "enter")
  /\ UNCHANGED <<tables, closedEvents, market, quiet, locals>>

CreateEntryOrder(r) ==
  /\ pc[r] = "enter"
  /\ order[Entry(mine[r])] = "none"               \* UNIQUE(position_id, side)
  /\ order' = [order EXCEPT ![Entry(mine[r])] = "new"]
  /\ mine' = [mine EXCEPT ![r] = 0]
  /\ Goto(r, "query")
  /\ UNCHANGED <<position, events, market, quiet, todo, snap, pending>>

-----------------------------------------------------------------------------
(* refreshOrdersQueue: fetch the open positions and review them in turn.   *)

\* One SELECT fetches the open positions and their orders.
QueryPositions(r) ==
  /\ pc[r] = "query"
  /\ ~Wedged
  /\ todo' = [todo EXCEPT ![r] = OpenPositions]
  /\ snap' = [snap EXCEPT ![r] = order]
  /\ Goto(r, "review")
  /\ UNCHANGED <<tables, events, market, quiet, mine, pending>>

\* The LEFT JOIN yields a row of NULLs for a position without orders, which
\* cannot be scanned into the strings of an orderRow: the call fails.
QueryFails(r) ==
  /\ pc[r] = "query"
  /\ Wedged
  /\ Halt(r)
  /\ UNCHANGED <<tables, events, market>>

\* OrdersBreakdown of the fetched orders of p; loop r ends on an
\* inconsistent pair.
Breakdown(r, p) ==
  LET entry == snap[r][Entry(p)]
      exit  == snap[r][Exit(p)]
  IN CASE entry = "none" /\ exit = "none" -> "empty"
       [] entry # "none" /\ exit = "none" -> "entry"
       [] entry = "executed" /\ exit # "none" -> "both"
       [] OTHER -> "inconsistent"

\* p is the oldest position left to review.
Reviews(r, p) == /\ pc[r] = "review"
                 /\ p \in todo[r]
                 /\ \A q \in todo[r] : p <= q

EntryUnfilled(r, p) ==
  Breakdown(r, p) = "entry" /\ snap[r][Entry(p)] = "new"

\* Mutation: the age of an entry order is never looked at.
NeverOutlived(p) == FALSE

\* The entry order of p is older than entryOrderValidityTime.
Outlived(p) == p \in expired

\* Mutation: the entry order need not be executed for an exit order.
HeldUnchecked(r, p) == Breakdown(r, p) = "entry"

Held(r, p) == Breakdown(r, p) = "entry" /\ snap[r][Entry(p)] = "executed"

\* Mutation: the exit order need not be executed.
CloseUnchecked(r, p) ==
  \/ Breakdown(r, p) = "empty"
  \/ EntryUnfilled(r, p) /\ Outlived(p)
  \/ Breakdown(r, p) = "both"

MustClose(r, p) ==
  \/ Breakdown(r, p) = "empty"
  \/ EntryUnfilled(r, p) /\ Outlived(p)
  \/ Breakdown(r, p) = "both" /\ snap[r][Exit(p)] = "executed"

\* Mutation: no continue after an expired entry order, which is queued.
CloseAndQueue(r, p) ==
  /\ Reviews(r, p)
  /\ MustClose(r, p)
  /\ position' = [position EXCEPT ![p] = "CLOSED"]
  /\ mine' = [mine EXCEPT ![r] = p]
  /\ todo' = [todo EXCEPT ![r] = @ \ {p}]
  /\ pending' = [pending EXCEPT ![r] = @ \cup {Entry(p)}]
  /\ Goto(r, "closing")
  /\ UNCHANGED <<order, events, market, quiet, snap>>

\* UpdatePosition: the status is overwritten whatever it is by now.
ClosePosition(r, p) ==
  /\ Reviews(r, p)
  /\ MustClose(r, p)
  /\ position' = [position EXCEPT ![p] = "CLOSED"]
  /\ mine' = [mine EXCEPT ![r] = p]
  /\ todo' = [todo EXCEPT ![r] = @ \ {p}]
  /\ Goto(r, "closing")
  /\ UNCHANGED <<order, events, market, quiet, snap, pending>>

PublishClosed(r) ==
  /\ pc[r] = "closing"
  /\ closedEvents' = [closedEvents EXCEPT ![mine[r]] = @ + 1]
  /\ mine' = [mine EXCEPT ![r] = 0]
  /\ Goto(r, "review")
  /\ UNCHANGED <<tables, openedEvents, market, quiet, todo, snap, pending>>

\* Order o of position p, which is in the table, goes to the queue.
Queue(r, p, o) ==
  /\ Reviews(r, p)
  /\ todo' = [todo EXCEPT ![r] = @ \ {p}]
  /\ pending' = [pending EXCEPT ![r] = @ \cup {o}]
  /\ UNCHANGED <<position, events, market, pc, quiet, mine, snap>>

QueueEntryOrder(r, p) ==
  /\ EntryUnfilled(r, p)
  /\ ~Outlived(p)
  /\ Queue(r, p, Entry(p))
  /\ UNCHANGED order

\* The price is at or beyond the stop loss or the take profit price.
CreateExitOrder(r, p) ==
  /\ Held(r, p)
  /\ order[Exit(p)] = "none"                      \* UNIQUE(position_id, side)
  /\ order' = [order EXCEPT ![Exit(p)] = "new"]
  /\ Queue(r, p, Exit(p))

\* The price is between the two.
HoldPosition(r, p) ==
  /\ Reviews(r, p)
  /\ Held(r, p)
  /\ todo' = [todo EXCEPT ![r] = @ \ {p}]
  /\ UNCHANGED <<tables, events, market, pc, quiet, mine, snap, pending>>

\* Mutation: an exit order that is not executed is left alone.
ForgetExitOrder(r, p) ==
  /\ Reviews(r, p)
  /\ Breakdown(r, p) = "both"
  /\ snap[r][Exit(p)] = "new"
  /\ todo' = [todo EXCEPT ![r] = @ \ {p}]
  /\ UNCHANGED <<tables, events, market, pc, quiet, mine, snap, pending>>

QueueExitOrder(r, p) ==
  /\ Breakdown(r, p) = "both"
  /\ snap[r][Exit(p)] = "new"
  /\ Queue(r, p, Exit(p))
  /\ UNCHANGED order

QueueReady(r) ==
  /\ pc[r] = "review"
  /\ todo[r] = {}
  /\ snap' = [snap EXCEPT ![r] = NoOrders]
  /\ Goto(r, "orders")
  /\ UNCHANGED <<tables, events, market, quiet, mine, todo, pending>>

-----------------------------------------------------------------------------
(* Sending the queued orders.                                              *)

\* o is the first order of the queue.
Heads(r, o) == o \in pending[r] /\ \A q \in pending[r] : o[1] <= q[1]

\* Mutation: the order is sent without asking whether it was executed.
SendUnchecked(r, o) ==
  /\ pc[r] = "orders"
  /\ Heads(r, o)
  /\ Goto(r, "execute")
  /\ UNCHANGED <<tables, events, market, quiet, locals>>

\* IsOrderExecuted.
CheckOrder(r, o) ==
  /\ pc[r] = "orders"
  /\ Heads(r, o)
  /\ Goto(r, IF fills[o] > 0 THEN "record" ELSE "execute")
  /\ UNCHANGED <<tables, events, market, quiet, locals>>

\* ExecuteOrder: the exchange fills the order and the answer arrives ...
FillOrder(r, o) ==
  /\ pc[r] = "execute"
  /\ Heads(r, o)
  /\ fills' = [fills EXCEPT ![o] = @ + 1]
  /\ Goto(r, "record")
  /\ UNCHANGED <<tables, events, expired, quiet, locals>>

\* ... or it fills the order and the answer is lost ...
LoseAnswer(r, o) ==
  /\ pc[r] = "execute"
  /\ Heads(r, o)
  /\ fills' = [fills EXCEPT ![o] = @ + 1]
  /\ Halt(r)
  /\ UNCHANGED <<tables, events, expired>>

\* Mutation: a killed order is taken for an executed one.
RecordKilled(r, o) ==
  /\ pc[r] = "execute"
  /\ Heads(r, o)
  /\ Goto(r, "record")
  /\ UNCHANGED <<tables, events, market, quiet, locals>>

\* ... or it kills the order, which stays in the table as it is.
KillOrder(r, o) ==
  /\ pc[r] = "execute"
  /\ Heads(r, o)
  /\ pending' = [pending EXCEPT ![r] = @ \ {o}]
  /\ Goto(r, "orders")
  /\ UNCHANGED <<tables, events, market, quiet, mine, todo, snap>>

\* Mutation: no continue after the record, the order is handled again.
RecordAndRepeat(r, o) ==
  /\ pc[r] = "record"
  /\ Heads(r, o)
  /\ order' = [order EXCEPT ![o] = "executed"]
  /\ Goto(r, "orders")
  /\ UNCHANGED <<position, events, market, quiet, locals>>

RecordExecution(r, o) ==
  /\ pc[r] = "record"
  /\ Heads(r, o)
  /\ order' = [order EXCEPT ![o] = "executed"]
  /\ pending' = [pending EXCEPT ![r] = @ \ {o}]
  /\ Goto(r, "orders")
  /\ UNCHANGED <<position, events, market, quiet, mine, todo, snap>>

TickDone(r) ==
  /\ pc[r] = "orders"
  /\ pending[r] = {}
  /\ Goto(r, "idle")
  /\ UNCHANGED <<tables, events, market, quiet, locals>>

-----------------------------------------------------------------------------
\* entryOrderValidityTime passes for the entry order of p.
Expire(p) ==
  /\ order[Entry(p)] # "none"
  /\ p \notin expired
  /\ expired' = expired \cup {p}
  /\ UNCHANGED <<tables, events, fills, pc, quiet, locals>>

ProcessSignal(r) ==
  \/ RoomForPosition(r)
  \/ DropSignal(r)
  \/ \E p \in Positions : CreatePosition(r, p)
  \/ PublishOpened(r)
  \/ CreateEntryOrder(r)

RefreshOrdersQueue(r) ==
  \/ QueryPositions(r)
  \/ QueryFails(r)
  \/ \E p \in Positions : \/ ClosePosition(r, p)
                          \/ QueueEntryOrder(r, p)
                          \/ CreateExitOrder(r, p)
                          \/ HoldPosition(r, p)
                          \/ QueueExitOrder(r, p)
  \/ PublishClosed(r)
  \/ QueueReady(r)

SendOrders(r) ==
  \/ \E o \in Orders : \/ CheckOrder(r, o)
                       \/ FillOrder(r, o)
                       \/ LoseAnswer(r, o)
                       \/ KillOrder(r, o)
                       \/ RecordExecution(r, o)
  \/ TickDone(r)

\* What a running loop does of its own accord.
Work(r) == \/ QuietTick(r)
           \/ Signal(r)
           \/ ProcessSignal(r)
           \/ RefreshOrdersQueue(r)
           \/ SendOrders(r)

Next == \/ \E r \in Runners : Start(r) \/ Stop(r) \/ PauseOver(r) \/ Work(r)
        \/ \E p \in Positions : Expire(p)

Spec == Init /\ [][Next]_vars

\* The controller's ticker starts a loop that has ended, a running loop is
\* scheduled, time passes, and at some point the only failures left are the
\* ones the tables themselves cause.  Whether the exchange ever fills an
\* order is nobody's promise.
Fairness ==
  /\ \A r \in Runners : WF_vars(Start(r)) /\ WF_vars(Work(r))
  /\ \A p \in Positions : WF_vars(Expire(p))
  /\ <>[][\A r \in Runners : Stop(r) => QueryFails(r)]_vars

FairSpec == Spec /\ Fairness
=============================================================================
