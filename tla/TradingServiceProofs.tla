------------------------ MODULE TradingServiceProofs ------------------------
(***************************************************************************)
(* Theorems about ActionLoop and about the service with one workload, for  *)
(* any number of runners, positions and ends of the process, in four       *)
(* parts: what holds however many action loops of a workload overlap; what *)
(* holds in addition when the controller keeps to one loop at a time,      *)
(* which may end at any call, lose an answer of the exchange and be        *)
(* started again; that one loop at a time implements PositionLifecycle,    *)
(* every step of it being a step of the lifecycle or leaving phases and    *)
(* trades alone; and what the service with its controller guarantees: it   *)
(* implements WorkloadController, and PositionLifecycle as long as no two  *)
(* of its action loops have run at the same time.                          *)
(***************************************************************************)
EXTENDS TradingServiceProperties, FiniteSetTheorems, TLAPS

\* The orders of a position are the two orders of Orders it occurs in.
LEMMA OrderFacts ==
  /\ \A p \in Positions : Entry(p) \in Orders /\ Exit(p) \in Orders
  /\ \A p \in Positions : Entry(p)[1] = p /\ Exit(p)[1] = p
  /\ \A o \in Orders : /\ o[1] \in Positions
                       /\ o = Entry(o[1]) \/ o = Exit(o[1])
  /\ \A p, q \in Positions : /\ Entry(p) # Exit(q)
                             /\ Entry(p) = Entry(q) => p = q
                             /\ Exit(p) = Exit(q) => p = q
BY DEF Orders, Sides, Entry, Exit

\* No position is numbered 0, the value of mine[r] for no position.
LEMMA ZeroFact == 0 \notin Positions
BY DEF Positions

-----------------------------------------------------------------------------
(* Types.                                                                  *)

\* The loop of r ends: its local variables keep their types.
LEMMA HaltType ==
  ASSUME TypeOK, NEW r \in Runners, Halt(r)
  PROVE  /\ pc' \in [Runners -> PCs]
         /\ quiet' \in [Runners -> {"fresh", "paused", "ready"}]
         /\ mine' \in [Runners -> {0} \cup Positions]
         /\ todo' \in [Runners -> SUBSET Positions]
         /\ snap' \in [Runners -> [Orders -> {"none", "new", "executed"}]]
         /\ pending' \in [Runners -> SUBSET Orders]
         /\ \A q \in Runners : Tidy(q)'
<1>1. /\ pc' \in [Runners -> PCs]
      /\ quiet' \in [Runners -> {"fresh", "paused", "ready"}]
      /\ mine' \in [Runners -> {0} \cup Positions]
  BY DEF TypeOK, Typed, Halt, Goto, PCs
<1>2. /\ todo' \in [Runners -> SUBSET Positions]
      /\ pending' \in [Runners -> SUBSET Orders]
  BY DEF TypeOK, Typed, Halt
<1>3. snap' \in [Runners -> [Orders -> {"none", "new", "executed"}]]
  BY DEF TypeOK, Typed, Halt, NoOrders
<1>4. ASSUME NEW q \in Runners PROVE Tidy(q)'
  BY ZeroFact DEF TypeOK, Typed, Halt, Goto, Tidy
<1> QED BY <1>1, <1>2, <1>3, <1>4

\* Start and end of a loop, the passing of time.
LEMMA TypeControl ==
  ASSUME TypeOK, NEW r \in Runners,
         Start(r) \/ Stop(r) \/ PauseOver(r) \/ QuietTick(r) \/ Signal(r)
  PROVE  TypeOK'
<1> USE DEF tables, events, market, locals
<1>1. CASE Stop(r)
  BY <1>1, HaltType DEF TypeOK, Typed, Stop
<1>2. CASE Start(r) \/ PauseOver(r) \/ QuietTick(r) \/ Signal(r)
  <2> USE <1>2 DEF Start, PauseOver, QuietTick, Signal, Goto, PCs
  <2>1. Typed'
    BY DEF TypeOK, Typed
  <2>2. ASSUME NEW q \in Runners PROVE Tidy(q)'
    BY DEF TypeOK, Typed, Tidy
  <2> QED BY <2>1, <2>2 DEF TypeOK
<1> QED BY <1>1, <1>2

\* The steps of processSignal.
LEMMA TypeProcessSignal ==
  ASSUME TypeOK, NEW r \in Runners, ProcessSignal(r)
  PROVE  TypeOK'
<1> USE DEF tables, events, market, locals, Goto, PCs
<1>1. CASE RoomForPosition(r) \/ DropSignal(r)
  <2> USE <1>1 DEF RoomForPosition, DropSignal
  <2>1. Typed'
    BY DEF TypeOK, Typed
  <2>2. ASSUME NEW q \in Runners PROVE Tidy(q)'
    BY DEF TypeOK, Typed, Tidy
  <2> QED BY <2>1, <2>2 DEF TypeOK
<1>2. ASSUME NEW p \in Positions, CreatePosition(r, p) PROVE TypeOK'
  <2> USE <1>2 DEF CreatePosition
  <2>1. Typed'
    BY DEF TypeOK, Typed
  <2>2. ASSUME NEW q \in Runners PROVE Tidy(q)'
    BY DEF TypeOK, Typed, Tidy
  <2> QED BY <2>1, <2>2 DEF TypeOK
<1>3. CASE PublishOpened(r)
  <2> USE <1>3 DEF PublishOpened
  <2>1. Typed'
    BY DEF TypeOK, Typed, Tidy
  <2>2. ASSUME NEW q \in Runners PROVE Tidy(q)'
    BY DEF TypeOK, Typed, Tidy
  <2> QED BY <2>1, <2>2 DEF TypeOK
<1>4. CASE CreateEntryOrder(r)
  <2> USE <1>4 DEF CreateEntryOrder
  <2>1. Typed'
    BY DEF TypeOK, Typed
  <2>2. ASSUME NEW q \in Runners PROVE Tidy(q)'
    BY ZeroFact DEF TypeOK, Typed, Tidy
  <2> QED BY <2>1, <2>2 DEF TypeOK
<1> QED BY <1>1, <1>2, <1>3, <1>4 DEF ProcessSignal

\* The steps of refreshOrdersQueue.
LEMMA TypeRefreshOrdersQueue ==
  ASSUME TypeOK, NEW r \in Runners, RefreshOrdersQueue(r)
  PROVE  TypeOK'
<1> USE DEF tables, events, market, locals
<1>1. CASE QueryPositions(r)
  <2> USE <1>1 DEF QueryPositions, Goto, PCs
  <2>1. Typed'
    BY DEF TypeOK, Typed, OpenPositions
  <2>2. ASSUME NEW q \in Runners PROVE Tidy(q)'
    BY DEF TypeOK, Typed, Tidy
  <2> QED BY <2>1, <2>2 DEF TypeOK
<1>2. CASE QueryFails(r)
  BY <1>2, HaltType DEF TypeOK, Typed, QueryFails
<1>3. ASSUME NEW p \in Positions, ClosePosition(r, p) PROVE TypeOK'
  <2> USE <1>3 DEF ClosePosition, Goto, PCs
  <2>1. Typed'
    BY DEF TypeOK, Typed
  <2>2. ASSUME NEW q \in Runners PROVE Tidy(q)'
    BY DEF TypeOK, Typed, Tidy, Reviews
  <2> QED BY <2>1, <2>2 DEF TypeOK
<1>4. ASSUME NEW p \in Positions, NEW o \in Orders, Queue(r, p, o),
             order' \in [Orders -> {"none", "new", "executed"}]
      PROVE  TypeOK'
  <2> USE <1>4 DEF Queue
  <2>1. Typed'
    BY DEF TypeOK, Typed
  <2>2. ASSUME NEW q \in Runners PROVE Tidy(q)'
    BY DEF TypeOK, Typed, Tidy, Reviews
  <2> QED BY <2>1, <2>2 DEF TypeOK
<1>5. ASSUME NEW p \in Positions,
             QueueEntryOrder(r, p) \/ QueueExitOrder(r, p) \/ CreateExitOrder(r, p)
      PROVE  TypeOK'
  <2>1. order' \in [Orders -> {"none", "new", "executed"}]
    BY <1>5 DEF TypeOK, Typed, QueueEntryOrder, QueueExitOrder, CreateExitOrder
  <2>2. \E o \in Orders : Queue(r, p, o)
    BY <1>5, OrderFacts DEF QueueEntryOrder, QueueExitOrder, CreateExitOrder
  <2> QED BY <2>1, <2>2, <1>4
<1>6. ASSUME NEW p \in Positions, HoldPosition(r, p) PROVE TypeOK'
  <2> USE <1>6 DEF HoldPosition
  <2>1. Typed'
    BY DEF TypeOK, Typed
  <2>2. ASSUME NEW q \in Runners PROVE Tidy(q)'
    BY DEF TypeOK, Typed, Tidy, Reviews
  <2> QED BY <2>1, <2>2 DEF TypeOK
<1>7. CASE PublishClosed(r)
  <2> USE <1>7 DEF PublishClosed, Goto, PCs
  <2>1. Typed'
    BY DEF TypeOK, Typed, Tidy
  <2>2. ASSUME NEW q \in Runners PROVE Tidy(q)'
    BY ZeroFact DEF TypeOK, Typed, Tidy
  <2> QED BY <2>1, <2>2 DEF TypeOK
<1>8. CASE QueueReady(r)
  <2> USE <1>8 DEF QueueReady, Goto, PCs
  <2>1. Typed'
    BY DEF TypeOK, Typed, NoOrders
  <2>2. ASSUME NEW q \in Runners PROVE Tidy(q)'
    BY DEF TypeOK, Typed, Tidy
  <2> QED BY <2>1, <2>2 DEF TypeOK
<1> QED BY <1>1, <1>2, <1>3, <1>5, <1>6, <1>7, <1>8 DEF RefreshOrdersQueue

\* The steps of the loop over the queued orders.
LEMMA TypeSendOrders ==
  ASSUME TypeOK, NEW r \in Runners, SendOrders(r)
  PROVE  TypeOK'
<1> USE DEF tables, events, market, locals
<1>1. ASSUME NEW o \in Orders, CheckOrder(r, o) PROVE TypeOK'
  <2> USE <1>1 DEF CheckOrder, Goto, PCs
  <2>1. Typed'
    BY DEF TypeOK, Typed
  <2>2. ASSUME NEW q \in Runners PROVE Tidy(q)'
    BY DEF TypeOK, Typed, Tidy, Heads
  <2> QED BY <2>1, <2>2 DEF TypeOK
<1>2. ASSUME NEW o \in Orders, FillOrder(r, o) PROVE TypeOK'
  <2> USE <1>2 DEF FillOrder, Goto, PCs
  <2>1. Typed'
    BY DEF TypeOK, Typed
  <2>2. ASSUME NEW q \in Runners PROVE Tidy(q)'
    BY DEF TypeOK, Typed, Tidy, Heads
  <2> QED BY <2>1, <2>2 DEF TypeOK
<1>3. ASSUME NEW o \in Orders, LoseAnswer(r, o) PROVE TypeOK'
  BY <1>3, HaltType DEF TypeOK, Typed, LoseAnswer
<1>4. ASSUME NEW o \in Orders, KillOrder(r, o) PROVE TypeOK'
  <2> USE <1>4 DEF KillOrder, Goto, PCs
  <2>1. Typed'
    BY DEF TypeOK, Typed
  <2>2. ASSUME NEW q \in Runners PROVE Tidy(q)'
    BY DEF TypeOK, Typed, Tidy, Heads
  <2> QED BY <2>1, <2>2 DEF TypeOK
<1>5. ASSUME NEW o \in Orders, RecordExecution(r, o) PROVE TypeOK'
  <2> USE <1>5 DEF RecordExecution, Goto, PCs
  <2>1. Typed'
    BY DEF TypeOK, Typed
  <2>2. ASSUME NEW q \in Runners PROVE Tidy(q)'
    BY DEF TypeOK, Typed, Tidy, Heads
  <2> QED BY <2>1, <2>2 DEF TypeOK
<1>6. CASE TickDone(r)
  <2> USE <1>6 DEF TickDone, Goto, PCs
  <2>1. Typed'
    BY DEF TypeOK, Typed
  <2>2. ASSUME NEW q \in Runners PROVE Tidy(q)'
    BY DEF TypeOK, Typed, Tidy
  <2> QED BY <2>1, <2>2 DEF TypeOK
<1> QED BY <1>1, <1>2, <1>3, <1>4, <1>5, <1>6 DEF SendOrders

\* Every step keeps the types of all variables.
LEMMA TypeStep == TypeOK /\ [Next]_vars => TypeOK'
<1> SUFFICES ASSUME TypeOK, [Next]_vars PROVE TypeOK'
  OBVIOUS
<1>1. CASE UNCHANGED vars
  BY <1>1 DEF TypeOK, Typed, Tidy, vars, tables, events, market, locals
<1>2. ASSUME NEW p \in Positions, Expire(p) PROVE TypeOK'
  BY <1>2 DEF TypeOK, Typed, Tidy, Expire, tables, events, locals
<1> QED
  BY <1>1, <1>2, TypeControl, TypeProcessSignal, TypeRefreshOrdersQueue,
     TypeSendOrders DEF Next, Work

\* The tables, the exchange and the locals of every loop keep their types,
\* and a loop that leaves a phase leaves nothing of its work behind.
THEOREM TypeCorrect == Spec => []TypeOK
<1>1. Init => TypeOK
  BY ZeroFact DEF Init, TypeOK, Typed, Tidy, NoOrders, PCs
<1> QED BY <1>1, TypeStep, PTL DEF Spec

-----------------------------------------------------------------------------
(* Which steps change what.                                                *)

\* The table of orders is changed by three statements.
LEMMA OrderFrame ==
  ASSUME [Next]_vars
  PROVE  \/ UNCHANGED order
         \/ \E r \in Runners :
              \/ CreateEntryOrder(r)
              \/ \E p \in Positions : CreateExitOrder(r, p)
              \/ \E o \in Orders : RecordExecution(r, o)
<1> USE DEF vars, tables, events, market, locals
<1>1. CASE UNCHANGED vars
  BY <1>1
<1>2. ASSUME NEW p \in Positions, Expire(p) PROVE UNCHANGED order
  BY <1>2 DEF Expire
<1>3. ASSUME NEW r \in Runners, Start(r) \/ Stop(r) \/ PauseOver(r) \/ QuietTick(r) \/ Signal(r)
      PROVE  UNCHANGED order
  BY <1>3 DEF Start, Stop, PauseOver, QuietTick, Signal
<1>4. ASSUME NEW r \in Runners, ProcessSignal(r)
      PROVE  UNCHANGED order \/ CreateEntryOrder(r)
  BY <1>4 DEF ProcessSignal, RoomForPosition, DropSignal, CreatePosition, PublishOpened
<1>5. ASSUME NEW r \in Runners, RefreshOrdersQueue(r)
      PROVE  UNCHANGED order \/ \E p \in Positions : CreateExitOrder(r, p)
  BY <1>5 DEF RefreshOrdersQueue, QueryPositions, QueryFails, ClosePosition,
     QueueEntryOrder, HoldPosition, QueueExitOrder, PublishClosed, QueueReady
<1>6. ASSUME NEW r \in Runners, SendOrders(r)
      PROVE  UNCHANGED order \/ \E o \in Orders : RecordExecution(r, o)
  BY <1>6 DEF SendOrders, CheckOrder, FillOrder, LoseAnswer, KillOrder, TickDone
<1> QED BY <1>1, <1>2, <1>3, <1>4, <1>5, <1>6 DEF Next, Work

\* The exchange is touched by an order that is sent.
LEMMA FillsFrame ==
  ASSUME [Next]_vars
  PROVE  \/ UNCHANGED fills
         \/ \E r \in Runners, o \in Orders : FillOrder(r, o) \/ LoseAnswer(r, o)
<1> USE DEF vars, tables, events, market, locals
<1>1. CASE UNCHANGED vars
  BY <1>1
<1>2. ASSUME NEW p \in Positions, Expire(p) PROVE UNCHANGED fills
  BY <1>2 DEF Expire
<1>3. ASSUME NEW r \in Runners, Start(r) \/ Stop(r) \/ PauseOver(r) \/ QuietTick(r) \/ Signal(r)
      PROVE  UNCHANGED fills
  BY <1>3 DEF Start, Stop, PauseOver, QuietTick, Signal
<1>4. ASSUME NEW r \in Runners, ProcessSignal(r) PROVE UNCHANGED fills
  BY <1>4 DEF ProcessSignal, RoomForPosition, DropSignal, CreatePosition,
     PublishOpened, CreateEntryOrder
<1>5. ASSUME NEW r \in Runners, RefreshOrdersQueue(r) PROVE UNCHANGED fills
  BY <1>5 DEF RefreshOrdersQueue, QueryPositions, QueryFails, ClosePosition,
     QueueEntryOrder, CreateExitOrder, HoldPosition, QueueExitOrder, Queue,
     PublishClosed, QueueReady
<1>6. ASSUME NEW r \in Runners, SendOrders(r)
      PROVE  UNCHANGED fills \/ \E o \in Orders : FillOrder(r, o) \/ LoseAnswer(r, o)
  BY <1>6 DEF SendOrders, CheckOrder, KillOrder, RecordExecution, TickDone
<1> QED BY <1>1, <1>2, <1>3, <1>4, <1>5, <1>6 DEF Next, Work

\* The table of positions is changed by two statements.
LEMMA PositionFrame ==
  ASSUME [Next]_vars
  PROVE  \/ UNCHANGED position
         \/ \E r \in Runners, p \in Positions :
              CreatePosition(r, p) \/ ClosePosition(r, p)
<1> USE DEF vars, tables, events, market, locals
<1>1. CASE UNCHANGED vars
  BY <1>1
<1>2. ASSUME NEW p \in Positions, Expire(p) PROVE UNCHANGED position
  BY <1>2 DEF Expire
<1>3. ASSUME NEW r \in Runners, Start(r) \/ Stop(r) \/ PauseOver(r) \/ QuietTick(r) \/ Signal(r)
      PROVE  UNCHANGED position
  BY <1>3 DEF Start, Stop, PauseOver, QuietTick, Signal
<1>4. ASSUME NEW r \in Runners, ProcessSignal(r)
      PROVE  UNCHANGED position \/ \E p \in Positions : CreatePosition(r, p)
  BY <1>4 DEF ProcessSignal, RoomForPosition, DropSignal, PublishOpened, CreateEntryOrder
<1>5. ASSUME NEW r \in Runners, RefreshOrdersQueue(r)
      PROVE  UNCHANGED position \/ \E p \in Positions : ClosePosition(r, p)
  BY <1>5 DEF RefreshOrdersQueue, QueryPositions, QueryFails,
     QueueEntryOrder, CreateExitOrder, HoldPosition, QueueExitOrder, Queue,
     PublishClosed, QueueReady
<1>6. ASSUME NEW r \in Runners, SendOrders(r) PROVE UNCHANGED position
  BY <1>6 DEF SendOrders, CheckOrder, FillOrder, LoseAnswer, KillOrder,
     RecordExecution, TickDone
<1> QED BY <1>1, <1>2, <1>3, <1>4, <1>5, <1>6 DEF Next, Work

\* Each kind of event is published by one call.
LEMMA EventsFrame ==
  ASSUME [Next]_vars
  PROVE  /\ UNCHANGED openedEvents \/ \E r \in Runners : PublishOpened(r)
         /\ UNCHANGED closedEvents \/ \E r \in Runners : PublishClosed(r)
<1> USE DEF vars, tables, events, market, locals
<1>1. CASE UNCHANGED vars
  BY <1>1
<1>2. ASSUME NEW p \in Positions, Expire(p) PROVE UNCHANGED events
  BY <1>2 DEF Expire
<1>3. ASSUME NEW r \in Runners, Start(r) \/ Stop(r) \/ PauseOver(r) \/ QuietTick(r) \/ Signal(r)
      PROVE  UNCHANGED events
  BY <1>3 DEF Start, Stop, PauseOver, QuietTick, Signal
<1>4. ASSUME NEW r \in Runners, ProcessSignal(r)
      PROVE  UNCHANGED events \/ (PublishOpened(r) /\ UNCHANGED closedEvents)
  BY <1>4 DEF ProcessSignal, RoomForPosition, DropSignal, CreatePosition,
     PublishOpened, CreateEntryOrder
<1>5. ASSUME NEW r \in Runners, RefreshOrdersQueue(r)
      PROVE  UNCHANGED events \/ (PublishClosed(r) /\ UNCHANGED openedEvents)
  BY <1>5 DEF RefreshOrdersQueue, QueryPositions, QueryFails, ClosePosition,
     QueueEntryOrder, CreateExitOrder, HoldPosition, QueueExitOrder, Queue,
     PublishClosed, QueueReady
<1>6. ASSUME NEW r \in Runners, SendOrders(r) PROVE UNCHANGED events
  BY <1>6 DEF SendOrders, CheckOrder, FillOrder, LoseAnswer, KillOrder,
     RecordExecution, TickDone
<1> QED BY <1>1, <1>2, <1>3, <1>4, <1>5, <1>6 DEF Next, Work, events

\* The control state and the local variables of q as a step leaves them.
LocalsKept(q) ==
  /\ pc'[q] = pc[q] /\ mine'[q] = mine[q] /\ todo'[q] = todo[q]
  /\ snap'[q] = snap[q] /\ pending'[q] = pending[q]

\* No loop touches the local variables of another.
LEMMA LocalsFrame ==
  ASSUME TypeOK, [Next]_vars, NEW q \in Runners
  PROVE  \/ LocalsKept(q)
         \/ Start(q) \/ Stop(q) \/ Work(q)
<1> USE DEF vars, tables, events, market, locals, Goto, LocalsKept, TypeOK, Typed
<1>1. CASE UNCHANGED vars
  BY <1>1
<1>2. ASSUME NEW p \in Positions, Expire(p) PROVE LocalsKept(q)
  BY <1>2 DEF Expire
<1>3. ASSUME NEW r \in Runners, PauseOver(r) PROVE LocalsKept(q)
  BY <1>3 DEF PauseOver
<1>4. ASSUME NEW r \in Runners \ {q}, Halt(r) PROVE LocalsKept(q)
  BY <1>4 DEF Halt
<1>5. ASSUME NEW r \in Runners \ {q}, Start(r) \/ QuietTick(r) \/ Signal(r)
      PROVE  LocalsKept(q)
  BY <1>5 DEF Start, QuietTick, Signal
<1>6. ASSUME NEW r \in Runners \ {q}, ProcessSignal(r) PROVE LocalsKept(q)
  BY <1>6 DEF ProcessSignal, RoomForPosition, DropSignal, CreatePosition,
     PublishOpened, CreateEntryOrder
<1>7. ASSUME NEW r \in Runners \ {q}, RefreshOrdersQueue(r) PROVE LocalsKept(q)
  <2>1. CASE QueryFails(r)
    BY <2>1, <1>4 DEF QueryFails
  <2>2. ASSUME NEW p \in Positions, NEW o, Queue(r, p, o) PROVE LocalsKept(q)
    BY <2>2 DEF Queue
  <2> QED
    BY <1>7, <2>1, <2>2 DEF RefreshOrdersQueue, QueryPositions, ClosePosition,
       QueueEntryOrder, CreateExitOrder, HoldPosition, QueueExitOrder,
       PublishClosed, QueueReady
<1>8. ASSUME NEW r \in Runners \ {q}, SendOrders(r) PROVE LocalsKept(q)
  <2>1. ASSUME NEW o \in Orders, LoseAnswer(r, o) PROVE LocalsKept(q)
    BY <2>1, <1>4 DEF LoseAnswer
  <2> QED
    BY <1>8, <2>1 DEF SendOrders, CheckOrder, FillOrder, KillOrder,
       RecordExecution, TickDone
<1> QED BY <1>1, <1>2, <1>3, <1>4, <1>5, <1>6, <1>7, <1>8 DEF Next, Work, Stop

-----------------------------------------------------------------------------
(* What the tables and the exchange hold, they hold for good.              *)

\* No statement removes an order or takes its execution back.
LEMMA OrderMonotone ==
  ASSUME TypeOK, [Next]_vars, NEW o \in Orders
  PROVE  /\ order[o] # "none" => order'[o] # "none"
         /\ order[o] = "executed" => order'[o] = "executed"
<1> USE OrderFacts DEF TypeOK, Typed
<1>1. ASSUME NEW r \in Runners, CreateEntryOrder(r)
      PROVE  order[o] # "none" => order'[o] = order[o]
  BY <1>1, ZeroFact DEF CreateEntryOrder, Tidy
<1>2. ASSUME NEW r \in Runners, NEW p \in Positions, CreateExitOrder(r, p)
      PROVE  order[o] # "none" => order'[o] = order[o]
  BY <1>2 DEF CreateExitOrder
<1>3. ASSUME NEW r \in Runners, NEW q \in Orders, RecordExecution(r, q)
      PROVE  order'[o] = order[o] \/ order'[o] = "executed"
  BY <1>3 DEF RecordExecution
<1> QED BY OrderFrame, <1>1, <1>2, <1>3

\* A fill is final.
LEMMA FillsMonotone ==
  ASSUME TypeOK, [Next]_vars, NEW o \in Orders
  PROVE  fills[o] > 0 => fills'[o] > 0
<1>1. ASSUME NEW r \in Runners, NEW q \in Orders, FillOrder(r, q) \/ LoseAnswer(r, q)
      PROVE  fills[o] > 0 => fills'[o] > 0
  BY <1>1 DEF TypeOK, Typed, FillOrder, LoseAnswer
<1> QED BY FillsFrame, <1>1

\* A position stays in the table, and a closed one stays closed.
LEMMA PositionMonotone ==
  ASSUME TypeOK, [Next]_vars, NEW p \in Positions
  PROVE  /\ position[p] # "none" => position'[p] # "none"
         /\ position[p] = "CLOSED" => position'[p] = "CLOSED"
<1> USE DEF TypeOK, Typed
<1>1. ASSUME NEW r \in Runners, NEW q \in Positions, CreatePosition(r, q)
      PROVE  position[p] # "none" => position'[p] = position[p]
  BY <1>1 DEF CreatePosition
<1>2. ASSUME NEW r \in Runners, NEW q \in Positions, ClosePosition(r, q)
      PROVE  position'[p] = position[p] \/ position'[p] = "CLOSED"
  BY <1>2 DEF ClosePosition
<1> QED BY PositionFrame, <1>1, <1>2

\* A published event is not withdrawn.
LEMMA OpenedMonotone ==
  ASSUME TypeOK, [Next]_vars, NEW p \in Positions
  PROVE  openedEvents[p] > 0 => openedEvents'[p] > 0
<1>1. ASSUME NEW r \in Runners, PublishOpened(r)
      PROVE  openedEvents[p] > 0 => openedEvents'[p] > 0
  BY <1>1 DEF TypeOK, Typed, Tidy, PublishOpened
<1> QED BY EventsFrame, <1>1

-----------------------------------------------------------------------------
(* The inductive invariant for any number of loops.                        *)

\* An exit order is inserted after the record of the purchase was fetched.
LEMMA OrdersConsistentStep ==
  ASSUME SharedInv, [Next]_vars
  PROVE  OrdersConsistent'
<1> SUFFICES ASSUME NEW p \in Positions, order'[Exit(p)] # "none"
             PROVE  order'[Entry(p)] = "executed"
  BY DEF OrdersConsistent
<1> USE OrderFacts DEF SharedInv, TypeOK, Typed
<1>1. CASE order[Exit(p)] # "none"
  BY <1>1, OrderMonotone DEF OrdersConsistent
<1>2. CASE order[Exit(p)] = "none"
  <2>1. ~ UNCHANGED order
    BY <1>2
  <2>2. ASSUME NEW r \in Runners, CreateEntryOrder(r) PROVE FALSE
    BY <1>2, <2>2, ZeroFact DEF CreateEntryOrder, Tidy
  <2>3. ASSUME NEW r \in Runners, NEW o \in Orders, RecordExecution(r, o)
        PROVE  FALSE
    BY <1>2, <2>3 DEF RecordExecution, QueueSound, Heads
  <2>4. ASSUME NEW r \in Runners, NEW q \in Positions, CreateExitOrder(r, q)
        PROVE  order'[Entry(p)] = "executed"
    <3>1. p = q
      BY <1>2, <2>4 DEF CreateExitOrder
    <3>2. snap[r][Entry(p)] = "executed"
      BY <2>4, <3>1 DEF CreateExitOrder, Held
    <3> QED BY <3>2, OrderMonotone DEF SnapBehind
  <2> QED BY <2>1, <2>2, <2>3, <2>4, OrderFrame
<1> QED BY <1>1, <1>2 DEF TypeOK, Typed

\* An execution is recorded after the exchange has told of the fill.
LEMMA RecordedMeansFilledStep ==
  ASSUME SharedInv, [Next]_vars
  PROVE  RecordedMeansFilled'
<1> SUFFICES ASSUME NEW o \in Orders, order'[o] = "executed"
             PROVE  fills'[o] > 0
  BY DEF RecordedMeansFilled
<1> USE OrderFacts DEF SharedInv, TypeOK, Typed
<1>1. CASE order[o] = "executed"
  BY <1>1, FillsMonotone DEF RecordedMeansFilled
<1>2. CASE order[o] # "executed"
  <2>1. ASSUME NEW r \in Runners, CreateEntryOrder(r) PROVE FALSE
    BY <1>2, <2>1, ZeroFact DEF CreateEntryOrder, Tidy
  <2>2. ASSUME NEW r \in Runners, NEW q \in Positions, CreateExitOrder(r, q)
        PROVE  FALSE
    BY <1>2, <2>2 DEF CreateExitOrder
  <2>3. ASSUME NEW r \in Runners, NEW q \in Orders, RecordExecution(r, q)
        PROVE  fills[o] > 0
    BY <1>2, <2>3 DEF RecordExecution, StepSound
  <2> QED BY <1>2, <2>1, <2>2, <2>3, OrderFrame, FillsMonotone
<1> QED BY <1>1, <1>2

\* Only an order of a queue is sent, and a queue holds orders of the table.
LEMMA FilledIsListedStep ==
  ASSUME SharedInv, [Next]_vars
  PROVE  FilledIsListed'
<1> SUFFICES ASSUME NEW o \in Orders, fills'[o] > 0
             PROVE  order[o] # "none"
  BY OrderMonotone DEF FilledIsListed, SharedInv
<1>1. CASE fills[o] > 0
  BY <1>1 DEF FilledIsListed, SharedInv
<1>2. CASE ~ fills[o] > 0
  <2>1. ASSUME NEW r \in Runners, NEW q \in Orders, FillOrder(r, q) \/ LoseAnswer(r, q)
        PROVE  order[o] # "none"
    <3>1. q = o
      BY <1>2, <2>1 DEF FillOrder, LoseAnswer, SharedInv, TypeOK, Typed
    <3> QED BY <2>1, <3>1 DEF FillOrder, LoseAnswer, Heads, SharedInv, QueueSound
  <2> QED BY <1>2, <2>1, FillsFrame
<1> QED BY <1>1, <1>2

\* The loop inserts the entry order after the position and its event.
LEMMA AnnouncedStep ==
  ASSUME SharedInv, [Next]_vars
  PROVE  Announced'
<1> SUFFICES ASSUME NEW p \in Positions, order'[Entry(p)] # "none"
             PROVE  position'[p] # "none" /\ openedEvents'[p] > 0
  BY DEF Announced
<1> USE OrderFacts DEF SharedInv, TypeOK, Typed
<1> SUFFICES position[p] # "none" /\ openedEvents[p] > 0
  BY PositionMonotone, OpenedMonotone
<1>1. CASE order[Entry(p)] # "none"
  BY <1>1 DEF Announced
<1>2. CASE order[Entry(p)] = "none"
  <2>1. ASSUME NEW r \in Runners, NEW q \in Positions, CreateExitOrder(r, q)
        PROVE  FALSE
    BY <1>2, <2>1 DEF CreateExitOrder
  <2>2. ASSUME NEW r \in Runners, NEW o \in Orders, RecordExecution(r, o)
        PROVE  FALSE
    BY <1>2, <2>2 DEF RecordExecution, QueueSound, Heads
  <2>3. ASSUME NEW r \in Runners, CreateEntryOrder(r)
        PROVE  position[p] # "none" /\ openedEvents[p] > 0
    <3>1. mine[r] \in Positions
      BY <2>3 DEF CreateEntryOrder, Tidy
    <3>2. p = mine[r]
      BY <1>2, <2>3, <3>1 DEF CreateEntryOrder
    <3> QED BY <2>3, <3>2 DEF CreateEntryOrder, StepSound
  <2> QED BY <1>2, <2>1, <2>2, <2>3, OrderFrame
<1> QED BY <1>1, <1>2

\* The event of a closed position follows the update of its status.
LEMMA ClosedEventTruthfulStep ==
  ASSUME SharedInv, [Next]_vars
  PROVE  ClosedEventTruthful'
<1> SUFFICES ASSUME NEW p \in Positions, closedEvents'[p] > 0
             PROVE  position[p] = "CLOSED" /\ openedEvents[p] > 0
  BY PositionMonotone, OpenedMonotone DEF SharedInv, ClosedEventTruthful
<1> USE DEF SharedInv, TypeOK, Typed
<1>1. CASE closedEvents[p] > 0
  BY <1>1 DEF ClosedEventTruthful
<1>2. CASE ~ closedEvents[p] > 0
  <2>1. PICK r \in Runners : PublishClosed(r)
    BY <1>2, EventsFrame
  <2>2. mine[r] = p
    BY <1>2, <2>1 DEF PublishClosed, Tidy
  <2> QED BY <2>1, <2>2 DEF PublishClosed, StepSound
<1> QED BY <1>1, <1>2

\* The table moves on, the fetched orders do not.
LEMMA SnapBehindStep ==
  ASSUME SharedInv, [Next]_vars, NEW r \in Runners
  PROVE  SnapBehind(r)'
<1> USE DEF SharedInv, TypeOK, Typed
<1>1. CASE snap'[r] = snap[r]
  BY <1>1, OrderMonotone DEF SnapBehind
<1>2. CASE snap'[r] = NoOrders
  BY <1>2 DEF SnapBehind, NoOrders
<1>3. CASE QueryPositions(r)
  BY <1>3 DEF SnapBehind, QueryPositions, tables
<1>4. \/ snap'[r] = snap[r] \/ snap'[r] = NoOrders \/ QueryPositions(r)
  <2> USE DEF locals
  <2>1. CASE Start(r) \/ Stop(r) \/ QuietTick(r) \/ Signal(r)
    BY <2>1 DEF Start, Stop, Halt, QuietTick, Signal
  <2>2. CASE ProcessSignal(r)
    BY <2>2 DEF ProcessSignal, RoomForPosition, DropSignal, CreatePosition,
       PublishOpened, CreateEntryOrder
  <2>3. CASE RefreshOrdersQueue(r)
    BY <2>3 DEF RefreshOrdersQueue, QueryFails, Halt, ClosePosition, Queue,
       QueueEntryOrder, CreateExitOrder, HoldPosition, QueueExitOrder,
       PublishClosed, QueueReady
  <2>4. CASE SendOrders(r)
    BY <2>4 DEF SendOrders, CheckOrder, FillOrder, LoseAnswer, Halt, KillOrder,
       RecordExecution, TickDone
  <2> QED BY <2>1, <2>2, <2>3, <2>4, LocalsFrame DEF LocalsKept, Work
<1> QED BY <1>1, <1>2, <1>3, <1>4

\* An order goes to the queue with the position it belongs to leaving the
\* positions to review, so it goes there once.
LEMMA QueueSoundStep ==
  ASSUME SharedInv, [Next]_vars, NEW r \in Runners
  PROVE  QueueSound(r)'
<1> USE OrderFacts DEF SharedInv, TypeOK, Typed
<1>1. ASSUME todo'[r] \subseteq todo[r], pending'[r] \subseteq pending[r],
             snap'[r] = snap[r] \/ todo'[r] = {}
      PROVE  QueueSound(r)'
  BY <1>1, OrderMonotone DEF QueueSound
<1>2. CASE QueryPositions(r)
  <2> USE <1>2 DEF QueryPositions, tables, Tidy
  <2>1. pending'[r] = {}
    OBVIOUS
  <2>2. ASSUME NEW p \in todo'[r] PROVE p \in Positions /\ order[Entry(p)] # "none"
    BY DEF OpenPositions, Wedged, Orphan, OrdersConsistent
  <2>3. snap'[r] = order
    OBVIOUS
  <2> QED BY <2>1, <2>2, <2>3 DEF QueueSound
<1>3. ASSUME NEW p \in Positions, NEW o \in {Entry(p), Exit(p)}, Queue(r, p, o),
             order'[o] # "none"
      PROVE  QueueSound(r)'
  <2> USE <1>3 DEF Queue, Reviews
  <2>1. /\ todo'[r] = todo[r] \ {p}
        /\ pending'[r] = pending[r] \cup {o}
        /\ snap'[r] = snap[r]
        /\ p \in todo[r]
    OBVIOUS
  <2>2. \A q \in pending[r] : q[1] # p
    BY <2>1 DEF QueueSound
  <2>3. \A q \in pending'[r] : order'[q] # "none"
    BY <2>1, OrderMonotone DEF QueueSound
  <2>4. \A q, u \in pending'[r] : q[1] = u[1] => q = u
    BY <2>1, <2>2 DEF QueueSound
  <2>5. ASSUME NEW q \in todo'[r]
        PROVE  /\ snap'[r][Entry(q)] # "none"
               /\ Entry(q) \notin pending'[r] /\ Exit(q) \notin pending'[r]
    BY <2>1 DEF QueueSound
  <2> QED BY <2>3, <2>4, <2>5 DEF QueueSound
<1>4. CASE LocalsKept(r) \/ Start(r) \/ Stop(r) \/ QuietTick(r) \/ Signal(r)
  BY <1>1, <1>4 DEF LocalsKept, Start, Stop, Halt, QuietTick, Signal, locals
<1>5. CASE ProcessSignal(r)
  BY <1>1, <1>5 DEF ProcessSignal, RoomForPosition, DropSignal, CreatePosition,
     PublishOpened, CreateEntryOrder, locals
<1>6. CASE RefreshOrdersQueue(r)
  <2>1. CASE QueryFails(r) \/ PublishClosed(r) \/ QueueReady(r)
    BY <1>1, <2>1 DEF QueryFails, Halt, PublishClosed, QueueReady
  <2>2. ASSUME NEW p \in Positions, ClosePosition(r, p) \/ HoldPosition(r, p)
        PROVE  QueueSound(r)'
    BY <1>1, <2>2 DEF ClosePosition, HoldPosition
  <2>3. ASSUME NEW p \in Positions, QueueEntryOrder(r, p) PROVE QueueSound(r)'
    BY <1>3, <2>3 DEF QueueEntryOrder, EntryUnfilled, SnapBehind
  <2>4. ASSUME NEW p \in Positions, QueueExitOrder(r, p) PROVE QueueSound(r)'
    BY <1>3, <2>4 DEF QueueExitOrder, SnapBehind
  <2>5. ASSUME NEW p \in Positions, CreateExitOrder(r, p) PROVE QueueSound(r)'
    BY <1>3, <2>5 DEF CreateExitOrder
  <2> QED BY <1>2, <1>6, <2>1, <2>2, <2>3, <2>4, <2>5 DEF RefreshOrdersQueue
<1>7. CASE SendOrders(r)
  BY <1>1, <1>7 DEF SendOrders, CheckOrder, FillOrder, LoseAnswer, Halt, KillOrder,
     RecordExecution, TickDone, locals
<1> QED BY <1>4, <1>5, <1>6, <1>7, LocalsFrame DEF Work

\* The queue has one head, as each position has one order in it.
LEMMA HeadUnique ==
  ASSUME NEW r \in Runners, QueueSound(r), NEW o \in Orders, NEW q \in Orders,
         Heads(r, o), Heads(r, q)
  PROVE  o = q
<1>1. \A m, n \in Nat : m <= n /\ n <= m => m = n
  OBVIOUS
<1>2. o[1] \in Nat /\ q[1] \in Nat
  BY OrderFacts, BoundAssumption DEF Positions
<1>3. o[1] <= q[1] /\ q[1] <= o[1]
  BY DEF Heads
<1>4. o[1] = q[1]
  BY <1>1, <1>2, <1>3
<1> QED BY <1>4 DEF Heads, QueueSound

\* What a loop has seen or done before its next call stays true until then.
LEMMA StepSoundStep ==
  ASSUME SharedInv, [Next]_vars, NEW r \in Runners
  PROVE  StepSound(r)'
<1> USE DEF SharedInv, TypeOK, Typed
<1>1. CASE LocalsKept(r)
  <2>1. ASSUME pc[r] = "record", NEW o \in Orders, Heads(r, o)' PROVE fills'[o] > 0
    BY <1>1, <2>1, FillsMonotone DEF LocalsKept, Heads, StepSound
  <2>2. ASSUME pc[r] \in {"announce", "enter"} PROVE position'[mine[r]] # "none"
    BY <2>2, PositionMonotone DEF Tidy, StepSound
  <2>3. ASSUME pc[r] = "enter" PROVE openedEvents'[mine[r]] > 0
    BY <2>3, OpenedMonotone DEF Tidy, StepSound
  <2>4. ASSUME pc[r] = "closing"
        PROVE  position'[mine[r]] = "CLOSED" /\ openedEvents'[mine[r]] > 0
    BY <2>4, PositionMonotone, OpenedMonotone DEF Tidy, StepSound
  <2> QED BY <1>1, <2>1, <2>2, <2>3, <2>4 DEF LocalsKept, StepSound
<1>2. ASSUME pc'[r] \notin {"record", "announce", "enter", "closing"}
      PROVE  StepSound(r)'
  BY <1>2 DEF StepSound
<1>3. CASE Start(r) \/ Stop(r) \/ QuietTick(r) \/ Signal(r)
  BY <1>2, <1>3 DEF Start, Stop, Halt, QuietTick, Signal, Goto
<1>4. CASE ProcessSignal(r)
  <2>1. CASE RoomForPosition(r) \/ DropSignal(r) \/ CreateEntryOrder(r)
    BY <1>2, <2>1 DEF RoomForPosition, DropSignal, CreateEntryOrder, Goto
  <2>2. ASSUME NEW p \in Positions, CreatePosition(r, p) PROVE StepSound(r)'
    BY <2>2 DEF CreatePosition, StepSound, Goto
  <2>3. CASE PublishOpened(r)
    <3>1. mine[r] \in Positions /\ position[mine[r]] # "none"
      BY <2>3 DEF PublishOpened, Tidy, StepSound
    <3> QED BY <2>3, <3>1 DEF PublishOpened, StepSound, Goto, tables, locals
  <2> QED BY <1>4, <2>1, <2>2, <2>3 DEF ProcessSignal
<1>5. CASE RefreshOrdersQueue(r)
  <2>1. CASE QueryPositions(r) \/ QueryFails(r) \/ PublishClosed(r) \/ QueueReady(r)
    BY <1>2, <2>1 DEF QueryPositions, QueryFails, Halt, PublishClosed, QueueReady, Goto
  <2>2. ASSUME NEW p \in Positions, NEW o, Queue(r, p, o) PROVE StepSound(r)'
    BY <1>2, <2>2 DEF Queue, Reviews
  <2>3. ASSUME NEW p \in Positions, HoldPosition(r, p) PROVE StepSound(r)'
    BY <1>2, <2>3 DEF HoldPosition, Reviews
  <2>4. ASSUME NEW p \in Positions, ClosePosition(r, p) PROVE StepSound(r)'
    <3>1. openedEvents[p] > 0
      BY <2>4, OrderFacts
         DEF ClosePosition, Reviews, QueueSound, SnapBehind, Announced
    <3> QED BY <2>4, <3>1 DEF ClosePosition, Goto, StepSound, events
  <2> QED BY <1>5, <2>1, <2>2, <2>3, <2>4
          DEF RefreshOrdersQueue, QueueEntryOrder, CreateExitOrder, QueueExitOrder
<1>6. CASE SendOrders(r)
  <2>1. ASSUME NEW o \in Orders, LoseAnswer(r, o) \/ KillOrder(r, o) \/ RecordExecution(r, o)
        PROVE  StepSound(r)'
    BY <1>2, <2>1 DEF LoseAnswer, Halt, KillOrder, RecordExecution, Goto
  <2>2. CASE TickDone(r)
    BY <1>2, <2>2 DEF TickDone, Goto
  <2>3. ASSUME NEW o \in Orders, NEW q \in Orders, Heads(r, o), Heads(r, q) PROVE o = q
    BY <2>3, HeadUnique
  <2>4. ASSUME NEW o \in Orders, CheckOrder(r, o) PROVE StepSound(r)'
    BY <2>3, <2>4 DEF CheckOrder, Goto, StepSound, Heads, market, locals
  <2>5. ASSUME NEW o \in Orders, FillOrder(r, o) PROVE StepSound(r)'
    BY <2>3, <2>5 DEF FillOrder, Goto, StepSound, Heads, locals
  <2> QED BY <1>6, <2>1, <2>2, <2>4, <2>5 DEF SendOrders
<1> QED BY <1>1, <1>3, <1>4, <1>5, <1>6, LocalsFrame DEF Work

\* Initially there are no positions.
LEMMA SharedInvariantInit == Init => SharedInv
<1> SUFFICES ASSUME Init PROVE SharedInv
  OBVIOUS
<1>1. TypeOK
  BY ZeroFact DEF Init, TypeOK, Typed, Tidy, NoOrders, PCs
<1>2. OrdersConsistent /\ RecordedMeansFilled /\ FilledIsListed /\ Announced
  BY OrderFacts DEF Init, NoOrders, OrdersConsistent, RecordedMeansFilled,
     FilledIsListed, Announced
<1>3. ClosedEventTruthful
  BY DEF Init, ClosedEventTruthful
<1>4. ASSUME NEW r \in Runners PROVE SnapBehind(r) /\ QueueSound(r) /\ StepSound(r)
  BY DEF Init, NoOrders, SnapBehind, QueueSound, StepSound
<1> QED BY <1>1, <1>2, <1>3, <1>4 DEF SharedInv

\* Every step keeps the invariant.
LEMMA SharedInvariantStep == SharedInv /\ [Next]_vars => SharedInv'
<1> SUFFICES ASSUME SharedInv, [Next]_vars PROVE SharedInv'
  OBVIOUS
<1>1. TypeOK'
  BY TypeStep DEF SharedInv
<1> QED
  BY <1>1, OrdersConsistentStep, RecordedMeansFilledStep, FilledIsListedStep,
     AnnouncedStep, ClosedEventTruthfulStep, SnapBehindStep, QueueSoundStep,
     StepSoundStep DEF SharedInv

\* The inductive invariant of overlapping loops holds in every state.
THEOREM SharedInvariant == Spec => []SharedInv
BY SharedInvariantInit, SharedInvariantStep, PTL DEF Spec

\* OrdersBreakdown meets no exit order without an executed entry order,
\* however many loops work on the positions (position.go:132-154).
THEOREM BreakdownNeverInconsistent == Spec => []OrdersConsistent
<1>1. SharedInv => OrdersConsistent
  BY DEF SharedInv
<1> QED BY <1>1, SharedInvariant, PTL

\* What recordOrderExecution writes is true of the exchange, however many
\* loops run and whatever answers were lost (workload.go:307-336).
THEOREM RecordsAreTrue == Spec => []RecordedMeansFilled
<1>1. SharedInv => RecordedMeansFilled
  BY DEF SharedInv
<1> QED BY <1>1, SharedInvariant, PTL

\* Nothing is sold that was not bought, however many loops run
\* (workload.go:464-507).
THEOREM SoldWasBought == Spec => []NoNakedSell
<1>1. SharedInv => NoNakedSell
  BY OrderFacts DEF SharedInv, NoNakedSell, FilledIsListed, OrdersConsistent,
     RecordedMeansFilled
<1> QED BY <1>1, SharedInvariant, PTL

\* The announced end of a position is its end, and follows its announced
\* beginning, however many loops run (position.go:235-258).
THEOREM AnnouncementsAreTrue == Spec => []ClosedEventTruthful
<1>1. SharedInv => ClosedEventTruthful
  BY DEF SharedInv
<1> QED BY <1>1, SharedInvariant, PTL

-----------------------------------------------------------------------------
(***************************************************************************)
(* Part two.  One loop at a time.                                          *)
(***************************************************************************)

-----------------------------------------------------------------------------
(* One loop.                                                               *)

\* A loop that is down makes no call.
LEMMA DownIdle ==
  ASSUME NEW r \in Runners, pc[r] = "down"
  PROVE  ~ Stop(r) /\ ~ Work(r)
BY DEF Stop, Work, QuietTick, Signal, ProcessSignal, RoomForPosition, DropSignal,
   CreatePosition, PublishOpened, CreateEntryOrder, RefreshOrdersQueue,
   QueryPositions, QueryFails, ClosePosition, QueueEntryOrder, CreateExitOrder,
   HoldPosition, QueueExitOrder, Queue, Reviews, PublishClosed, QueueReady,
   SendOrders, CheckOrder, FillOrder, LoseAnswer, KillOrder, RecordExecution,
   TickDone

\* A loop starts when all are down.
LEMMA OneLoopStep ==
  ASSUME Exclusive, TypeOK, OneLoop, [Next]_vars
  PROVE  OneLoop'
<1>1. ASSUME NEW r \in Runners, Start(r) PROVE OneLoop'
  BY <1>1 DEF Start, Goto, OneLoop, TypeOK, Typed
<1>2. ASSUME NEW r \in Runners, ~ Start(r), pc'[r] # "down" PROVE pc[r] # "down"
  BY <1>2, LocalsFrame, DownIdle DEF LocalsKept
<1> QED BY <1>1, <1>2 DEF OneLoop

\* While loop r runs, nobody else touches the tables, the events and the
\* exchange.
LEMMA SoleActor ==
  ASSUME TypeOK, OneLoop, [Next]_vars, NEW r \in Runners, pc[r] # "down"
  PROVE  \/ LocalsKept(r) /\ UNCHANGED <<tables, events, fills>>
         \/ Stop(r)
         \/ Work(r)
<1> USE DEF vars, tables, events, market
<1>1. CASE UNCHANGED vars
  BY <1>1 DEF locals, LocalsKept
<1>2. ASSUME NEW p \in Positions, Expire(p) PROVE LocalsKept(r) /\ UNCHANGED <<tables, events, fills>>
  BY <1>2 DEF Expire, locals, LocalsKept
<1>3. ASSUME NEW q \in Runners, PauseOver(q) PROVE LocalsKept(r) /\ UNCHANGED <<tables, events, fills>>
  BY <1>3 DEF PauseOver, locals, LocalsKept
<1>4. ASSUME NEW q \in Runners, Start(q) PROVE LocalsKept(r) /\ UNCHANGED <<tables, events, fills>>
  BY <1>4 DEF Start, Goto, locals, LocalsKept, TypeOK, Typed
<1>5. ASSUME NEW q \in Runners, q # r, Stop(q) \/ Work(q) PROVE FALSE
  <2>1. pc[q] = "down"
    BY <1>5 DEF OneLoop
  <2> QED BY <1>5, <2>1, DownIdle
<1> QED BY <1>1, <1>2, <1>3, <1>4, <1>5 DEF Next

-----------------------------------------------------------------------------
(* The local variables of the loop agree with the tables.                  *)

\* Only the loop itself changes what it fetched, and only of a position that
\* it has reviewed.
LEMMA SnapCurrentStep ==
  ASSUME ExclusiveInv, [Next]_vars, NEW r \in Runners
  PROVE  SnapCurrent(r)'
<1> USE OrderFacts DEF ExclusiveInv, SharedInv, TypeOK, Typed
<1>1. TypeOK'
  BY TypeStep
<1>2. ASSUME pc'[r] \notin {"review", "closing"} PROVE SnapCurrent(r)'
  BY <1>1, <1>2 DEF Tidy, SnapCurrent
<1>3. ASSUME todo'[r] \subseteq todo[r], snap'[r] = snap[r], UNCHANGED tables
      PROVE  SnapCurrent(r)'
  BY <1>3 DEF SnapCurrent, tables
<1>4. CASE pc[r] = "down"
  BY <1>2, <1>4, LocalsFrame, DownIdle DEF LocalsKept, Start, Goto
<1>5. CASE LocalsKept(r) /\ UNCHANGED <<tables, events, fills>>
  BY <1>3, <1>5 DEF LocalsKept
<1>6. CASE Stop(r) \/ QuietTick(r) \/ Signal(r)
  BY <1>2, <1>6 DEF Stop, Halt, QuietTick, Signal, Goto
<1>7. CASE ProcessSignal(r)
  BY <1>2, <1>7 DEF ProcessSignal, RoomForPosition, DropSignal, CreatePosition,
     PublishOpened, CreateEntryOrder, Goto
<1>8. CASE RefreshOrdersQueue(r)
  <2>1. CASE QueryFails(r) \/ QueueReady(r)
    BY <1>2, <2>1 DEF QueryFails, Halt, QueueReady, Goto
  <2>2. CASE QueryPositions(r)
    BY <2>2 DEF QueryPositions, OpenPositions, SnapCurrent, tables
  <2>3. CASE PublishClosed(r)
    BY <1>3, <2>3 DEF PublishClosed
  <2>4. ASSUME NEW p \in Positions, ClosePosition(r, p) PROVE SnapCurrent(r)'
    BY <2>4 DEF ClosePosition, SnapCurrent
  <2>5. ASSUME NEW p \in Positions, HoldPosition(r, p) PROVE SnapCurrent(r)'
    BY <1>3, <2>5 DEF HoldPosition
  <2>6. ASSUME NEW p \in Positions, QueueEntryOrder(r, p) \/ QueueExitOrder(r, p)
        PROVE  SnapCurrent(r)'
    BY <1>3, <2>6 DEF QueueEntryOrder, QueueExitOrder, Queue, tables
  <2>7. ASSUME NEW p \in Positions, CreateExitOrder(r, p) PROVE SnapCurrent(r)'
    BY <2>7 DEF CreateExitOrder, Queue, SnapCurrent
  <2> QED BY <1>8, <2>1, <2>2, <2>3, <2>4, <2>5, <2>6, <2>7 DEF RefreshOrdersQueue
<1>9. CASE SendOrders(r)
  BY <1>2, <1>9 DEF SendOrders, CheckOrder, FillOrder, LoseAnswer, Halt, KillOrder,
     RecordExecution, TickDone, Goto
<1> QED BY <1>4, <1>5, <1>6, <1>7, <1>8, <1>9, SoleActor DEF Work

\* Only the loop itself executes or abandons the orders of its queue.
LEMMA QueueCurrentStep ==
  ASSUME ExclusiveInv, [Next]_vars, NEW r \in Runners
  PROVE  QueueCurrent(r)'
<1> USE OrderFacts DEF ExclusiveInv, SharedInv, TypeOK, Typed
<1>1. TypeOK'
  BY TypeStep
<1>2. ASSUME pc'[r] \notin {"review", "closing", "orders", "execute", "record"}
      PROVE  QueueCurrent(r)'
  BY <1>1, <1>2 DEF Tidy, QueueCurrent
<1>3. ASSUME pending'[r] \subseteq pending[r], UNCHANGED tables
      PROVE  QueueCurrent(r)'
  BY <1>3 DEF QueueCurrent, tables
<1>4. CASE pc[r] = "down"
  BY <1>2, <1>4, LocalsFrame, DownIdle DEF LocalsKept, Start, Goto
<1>5. CASE LocalsKept(r) /\ UNCHANGED <<tables, events, fills>>
  BY <1>3, <1>5 DEF LocalsKept
<1>6. CASE Stop(r) \/ QuietTick(r) \/ Signal(r)
  BY <1>2, <1>6 DEF Stop, Halt, QuietTick, Signal, Goto
<1>7. CASE ProcessSignal(r)
  BY <1>2, <1>7 DEF ProcessSignal, RoomForPosition, DropSignal, CreatePosition,
     PublishOpened, CreateEntryOrder, Goto
<1>8. CASE RefreshOrdersQueue(r)
  <2>1. CASE QueryFails(r)
    BY <1>2, <2>1 DEF QueryFails, Halt, Goto
  <2>2. CASE QueryPositions(r) \/ PublishClosed(r) \/ QueueReady(r)
    BY <1>3, <2>2 DEF QueryPositions, PublishClosed, QueueReady
  <2>3. ASSUME NEW p \in Positions, HoldPosition(r, p) PROVE QueueCurrent(r)'
    BY <1>3, <2>3 DEF HoldPosition
  <2>4. ASSUME NEW p \in Positions, ClosePosition(r, p) PROVE QueueCurrent(r)'
    <3>1. \A o \in pending[r] : o[1] # p
      BY <2>4 DEF ClosePosition, Reviews, QueueSound
    <3> QED BY <2>4, <3>1 DEF ClosePosition, QueueCurrent
  <2>5. ASSUME NEW p \in Positions, NEW o \in {Entry(p), Exit(p)}, Queue(r, p, o),
               order'[o] = "new", \A q \in Orders \ {o} : order'[q] = order[q]
        PROVE  QueueCurrent(r)'
    <3>1. position'[o[1]] = "OPEN"
      BY <2>5 DEF Queue, Reviews, SnapCurrent
    <3>2. \A q \in pending[r] : q # o
      BY <2>5 DEF Queue, Reviews, QueueSound
    <3> QED BY <2>5, <3>1, <3>2 DEF Queue, QueueCurrent
  <2>6. ASSUME NEW p \in Positions, QueueEntryOrder(r, p) PROVE QueueCurrent(r)'
    BY <2>5, <2>6 DEF QueueEntryOrder, EntryUnfilled, Queue, Reviews, SnapCurrent
  <2>7. ASSUME NEW p \in Positions, QueueExitOrder(r, p) PROVE QueueCurrent(r)'
    BY <2>5, <2>7 DEF QueueExitOrder, Queue, Reviews, SnapCurrent
  <2>8. ASSUME NEW p \in Positions, CreateExitOrder(r, p) PROVE QueueCurrent(r)'
    BY <2>5, <2>8 DEF CreateExitOrder
  <2> QED BY <1>8, <2>1, <2>2, <2>3, <2>4, <2>6, <2>7, <2>8 DEF RefreshOrdersQueue
<1>9. CASE SendOrders(r)
  <2>1. ASSUME NEW o \in Orders,
               CheckOrder(r, o) \/ FillOrder(r, o) \/ KillOrder(r, o)
        PROVE  QueueCurrent(r)'
    BY <1>3, <2>1 DEF CheckOrder, FillOrder, KillOrder, locals
  <2>2. ASSUME NEW o \in Orders, LoseAnswer(r, o) PROVE QueueCurrent(r)'
    BY <1>2, <2>2 DEF LoseAnswer, Halt, Goto
  <2>3. ASSUME NEW o \in Orders, RecordExecution(r, o) PROVE QueueCurrent(r)'
    BY <2>3 DEF RecordExecution, QueueCurrent
  <2>4. CASE TickDone(r)
    BY <1>3, <2>4 DEF TickDone, locals
  <2> QED BY <1>9, <2>1, <2>2, <2>3, <2>4 DEF SendOrders
<1> QED BY <1>4, <1>5, <1>6, <1>7, <1>8, <1>9, SoleActor DEF Work

\* What the loop has checked before a call still holds when it makes it.
LEMMA StepCurrentStep ==
  ASSUME ExclusiveInv, [Next]_vars, NEW r \in Runners
  PROVE  StepCurrent(r)'
<1> USE OrderFacts DEF ExclusiveInv, SharedInv, TypeOK, Typed
<1>1. ASSUME pc'[r] \notin {"create", "announce", "enter", "execute", "closing"}
      PROVE  StepCurrent(r)'
  BY <1>1 DEF StepCurrent
<1>2. CASE pc[r] = "down"
  BY <1>1, <1>2, LocalsFrame, DownIdle DEF LocalsKept, Start, Goto
<1>3. CASE LocalsKept(r) /\ UNCHANGED <<tables, events, fills>>
  <2>1. /\ pc'[r] = pc[r] /\ mine'[r] = mine[r] /\ pending'[r] = pending[r]
        /\ position' = position /\ order' = order
        /\ closedEvents' = closedEvents /\ fills' = fills
    BY <1>3 DEF LocalsKept, tables, events
  <2>2. StepCurrent(r)
    OBVIOUS
  <2> HIDE DEF ExclusiveInv, SharedInv, TypeOK, Typed
  <2> QED BY <2>1, <2>2 DEF StepCurrent, OpenPositions, Heads
<1>4. CASE Stop(r) \/ QuietTick(r) \/ Signal(r)
  BY <1>1, <1>4 DEF Stop, Halt, QuietTick, Signal, Goto
<1>5. CASE ProcessSignal(r)
  <2>1. CASE RoomForPosition(r)
    BY <2>1 DEF RoomForPosition, Goto, StepCurrent, OpenPositions, tables
  <2>2. CASE DropSignal(r) \/ CreateEntryOrder(r)
    BY <1>1, <2>2 DEF DropSignal, CreateEntryOrder, Goto
  <2>3. ASSUME NEW p \in Positions, CreatePosition(r, p) PROVE StepCurrent(r)'
    BY <2>3 DEF CreatePosition, Goto, StepCurrent, Announced
  <2>4. CASE PublishOpened(r)
    BY <2>4 DEF PublishOpened, Goto, StepCurrent, tables, locals
  <2> QED BY <1>5, <2>1, <2>2, <2>3, <2>4 DEF ProcessSignal
<1>6. CASE RefreshOrdersQueue(r)
  <2>1. CASE QueryPositions(r) \/ QueryFails(r) \/ PublishClosed(r) \/ QueueReady(r)
    BY <1>1, <2>1 DEF QueryPositions, QueryFails, Halt, PublishClosed, QueueReady, Goto
  <2>2. ASSUME NEW p \in Positions, NEW o, Queue(r, p, o) PROVE StepCurrent(r)'
    BY <1>1, <2>2 DEF Queue, Reviews
  <2>3. ASSUME NEW p \in Positions, HoldPosition(r, p) PROVE StepCurrent(r)'
    BY <1>1, <2>3 DEF HoldPosition, Reviews
  <2>4. ASSUME NEW p \in Positions, ClosePosition(r, p) PROVE StepCurrent(r)'
    BY <2>4 DEF ClosePosition, Reviews, Goto, StepCurrent, SnapCurrent,
       OpenUnannounced, events
  <2> QED BY <1>6, <2>1, <2>2, <2>3, <2>4
          DEF RefreshOrdersQueue, QueueEntryOrder, CreateExitOrder, QueueExitOrder
<1>7. CASE SendOrders(r)
  <2>1. ASSUME NEW o \in Orders,
               \/ FillOrder(r, o) \/ LoseAnswer(r, o)
               \/ KillOrder(r, o) \/ RecordExecution(r, o)
        PROVE  StepCurrent(r)'
    BY <1>1, <2>1 DEF FillOrder, LoseAnswer, Halt, KillOrder, RecordExecution, Goto
  <2>2. CASE TickDone(r)
    BY <1>1, <2>2 DEF TickDone, Goto
  <2>3. ASSUME NEW o \in Orders, CheckOrder(r, o) PROVE StepCurrent(r)'
    <3>1. pc'[r] = IF fills[o] > 0 THEN "record" ELSE "execute"
      BY <2>3 DEF CheckOrder, Goto
    <3>2. ASSUME NEW q \in Orders, Heads(r, q)' PROVE q = o
      BY <2>3, <3>2, HeadUnique DEF CheckOrder, Heads, locals
    <3>3. fills[o] \in Nat /\ fills' = fills
      BY <2>3 DEF CheckOrder, market
    <3>4. ASSUME pc'[r] = "execute", NEW q \in Orders, Heads(r, q)' PROVE fills'[q] = 0
      BY <3>1, <3>2, <3>3, <3>4
    <3> QED BY <3>1, <3>4 DEF StepCurrent
  <2> QED BY <1>7, <2>1, <2>2, <2>3 DEF SendOrders
<1> QED BY <1>2, <1>3, <1>4, <1>5, <1>6, <1>7, SoleActor DEF Work

-----------------------------------------------------------------------------
(* The properties themselves.                                              *)

\* An order is sent only after the exchange has denied having filled it.
LEMMA SingleFillStep ==
  ASSUME ExclusiveInv, [Next]_vars
  PROVE  SingleFill'
<1>1. ASSUME NEW r \in Runners, NEW o \in Orders, FillOrder(r, o) \/ LoseAnswer(r, o)
      PROVE  SingleFill'
  <2>1. fills[o] = 0
    BY <1>1 DEF FillOrder, LoseAnswer, ExclusiveInv, StepCurrent
  <2>2. fills \in [Orders -> Nat] /\ fills' = [fills EXCEPT ![o] = fills[o] + 1]
    BY <1>1 DEF FillOrder, LoseAnswer, ExclusiveInv, SharedInv, TypeOK, Typed
  <2> QED BY <2>1, <2>2 DEF ExclusiveInv, SingleFill
<1> QED BY <1>1, FillsFrame DEF ExclusiveInv, SingleFill

\* There was room for the position when the loop counted, and there still is.
LEMMA LimitRespectedStep ==
  ASSUME ExclusiveInv, [Next]_vars
  PROVE  LimitRespected'
<1> USE LimitAssumption DEF ExclusiveInv, SharedInv, TypeOK, Typed
<1>1. IsFiniteSet(OpenPositions)
  BY FS_Interval, FS_Subset, BoundAssumption DEF OpenPositions, Positions
<1>2. Cardinality(OpenPositions) \in Nat
  BY <1>1, FS_CardinalityType
<1>3. ASSUME NEW r \in Runners, NEW p \in Positions, CreatePosition(r, p)
      PROVE  LimitRespected'
  <2>1. OpenPositions' = OpenPositions \cup {p}
    BY <1>3 DEF CreatePosition, OpenPositions
  <2>2. p \notin OpenPositions
    BY <1>3 DEF CreatePosition, OpenPositions
  <2>3. Cardinality(OpenPositions') = Cardinality(OpenPositions) + 1
    BY <1>1, <2>1, <2>2, FS_AddElement
  <2>4. Cardinality(OpenPositions) < OpenPositionsLimit
    BY <1>3 DEF CreatePosition, StepCurrent
  <2> QED BY <1>2, <2>3, <2>4 DEF LimitRespected
<1>4. ASSUME NEW r \in Runners, NEW p \in Positions, ClosePosition(r, p)
      PROVE  LimitRespected'
  <2>1. OpenPositions' \subseteq OpenPositions
    BY <1>4 DEF ClosePosition, OpenPositions
  <2>2. Cardinality(OpenPositions') <= Cardinality(OpenPositions)
    BY <1>1, <2>1, FS_Subset
  <2>3. Cardinality(OpenPositions') \in Nat
    BY <1>1, <2>1, FS_Subset, FS_CardinalityType
  <2> QED BY <1>2, <2>2, <2>3 DEF LimitRespected
<1> QED BY <1>3, <1>4, PositionFrame DEF LimitRespected, OpenPositions

\* What MustClose says of the fetched orders is true of the table.
LEMMA CloseReason ==
  ASSUME ExclusiveInv, NEW r \in Runners, NEW p \in Positions, ClosePosition(r, p)
  PROVE  /\ position[p] = "OPEN"
         /\ \/ order[Entry(p)] = "new" /\ order[Exit(p)] = "none"
            \/ order[Entry(p)] = "executed" /\ order[Exit(p)] = "executed"
<1>1. p \in todo[r]
  BY DEF ClosePosition, Reviews
<1>2. /\ position[p] = "OPEN"
      /\ snap[r][Entry(p)] = order[Entry(p)]
      /\ snap[r][Exit(p)] = order[Exit(p)]
      /\ snap[r][Entry(p)] # "none"
  BY <1>1 DEF ExclusiveInv, SharedInv, SnapCurrent, QueueSound
<1> QED BY <1>2, OrderFacts DEF ClosePosition, MustClose, EntryUnfilled, Breakdown

\* A position with an executed entry order waits for its exit order.
LEMMA ClosedAfterExitStep ==
  ASSUME ExclusiveInv, [Next]_vars
  PROVE  ClosedAfterExit'
<1> USE OrderFacts DEF ExclusiveInv, SharedInv, TypeOK, Typed
<1> SUFFICES ASSUME NEW p \in Positions, position'[p] = "CLOSED",
                    order'[Entry(p)] = "executed"
             PROVE  order'[Exit(p)] = "executed"
  BY DEF ClosedAfterExit
<1> SUFFICES order[Exit(p)] = "executed"
  BY OrderMonotone
<1>1. CASE UNCHANGED position
  <2>1. ASSUME NEW r \in Runners, NEW o \in Orders, RecordExecution(r, o)
        PROVE  order[Entry(p)] = "executed"
    BY <1>1, <2>1 DEF RecordExecution, Heads, QueueCurrent
  <2>2. ASSUME NEW r \in Runners, CreateEntryOrder(r)
        PROVE  order[Entry(p)] = "executed"
    BY <2>2, ZeroFact DEF CreateEntryOrder, Tidy
  <2>3. ASSUME NEW r \in Runners, NEW q \in Positions, CreateExitOrder(r, q)
        PROVE  order[Entry(p)] = "executed"
    BY <2>3 DEF CreateExitOrder
  <2> QED BY <1>1, <2>1, <2>2, <2>3, OrderFrame DEF ClosedAfterExit
<1>2. ASSUME NEW r \in Runners, NEW q \in Positions, CreatePosition(r, q)
      PROVE  order[Exit(p)] = "executed"
  BY <1>2 DEF CreatePosition, ClosedAfterExit
<1>3. ASSUME NEW r \in Runners, NEW q \in Positions, ClosePosition(r, q)
      PROVE  order[Exit(p)] = "executed"
  <2>1. \/ order[Entry(q)] = "new"
        \/ order[Exit(q)] = "executed"
    BY <1>3, CloseReason
  <2>2. order' = order /\ position' = [position EXCEPT ![q] = "CLOSED"]
    BY <1>3 DEF ClosePosition
  <2> QED BY <2>1, <2>2 DEF ClosedAfterExit
<1> QED BY <1>1, <1>2, <1>3, PositionFrame

\* A position is closed once, hence announced as closed once.
LEMMA ClosedEventStep ==
  ASSUME ExclusiveInv, [Next]_vars
  PROVE  ClosedEventOnce' /\ OpenUnannounced'
<1> USE DEF ExclusiveInv, SharedInv, TypeOK, Typed
<1>1. ASSUME NEW p \in Positions, position'[p] # "CLOSED" PROVE position[p] # "CLOSED"
  BY <1>1, PositionMonotone
<1>2. CASE UNCHANGED closedEvents
  BY <1>1, <1>2 DEF ClosedEventOnce, OpenUnannounced
<1>3. ASSUME NEW r \in Runners, PublishClosed(r)
      PROVE  ClosedEventOnce' /\ OpenUnannounced'
  <2>1. /\ mine[r] \in Positions
        /\ closedEvents[mine[r]] = 0
        /\ position[mine[r]] = "CLOSED"
    BY <1>3 DEF PublishClosed, Tidy, StepCurrent, StepSound
  <2>2. closedEvents' = [closedEvents EXCEPT ![mine[r]] = 1]
    BY <1>3, <2>1 DEF PublishClosed
  <2> QED BY <1>1, <2>1, <2>2 DEF ClosedEventOnce, OpenUnannounced
<1> QED BY <1>2, <1>3, EventsFrame

\* A position is left without an order by the end of the loop that inserted
\* it; the next loop gets no further than its first query.
LEMMA WedgeSoundStep ==
  ASSUME ExclusiveInv, [Next]_vars
  PROVE  WedgeSound'
<1> DEFINE Stuck(r) == \/ pc[r] \in {"down", "announce", "enter", "query"}
                       \/ pc[r] = "idle" /\ quiet[r] = "fresh"
<1> USE OrderFacts DEF ExclusiveInv, SharedInv, TypeOK, Typed
<1> SUFFICES ASSUME Wedged', NEW r \in Runners PROVE Stuck(r)'
  BY DEF WedgeSound
<1>1. CASE Wedged
  <2>1. Stuck(r)
    BY <1>1 DEF WedgeSound
  <2>2. ASSUME NEW q \in Runners, PauseOver(q) PROVE Stuck(r)'
    BY <2>1, <2>2 DEF PauseOver
  <2>3. CASE UNCHANGED vars \/ \E p \in Positions : Expire(p)
    BY <2>1, <2>3 DEF vars, Expire
  <2>4. CASE Start(r) \/ Stop(r) \/ QuietTick(r) \/ Signal(r)
    BY <2>1, <2>4 DEF Start, Stop, Halt, QuietTick, Signal, Goto
  <2>5. CASE ProcessSignal(r)
    BY <2>1, <2>5 DEF ProcessSignal, RoomForPosition, DropSignal, CreatePosition,
       PublishOpened, CreateEntryOrder, Goto
  <2>6. CASE RefreshOrdersQueue(r)
    BY <1>1, <2>1, <2>6 DEF RefreshOrdersQueue, QueryPositions, QueryFails, Halt,
       ClosePosition, QueueEntryOrder, CreateExitOrder, HoldPosition,
       QueueExitOrder, Queue, Reviews, PublishClosed, QueueReady, Goto
  <2>7. CASE SendOrders(r)
    BY <2>1, <2>7 DEF SendOrders, CheckOrder, FillOrder, LoseAnswer, KillOrder,
       RecordExecution, TickDone
  <2>8. ASSUME NEW q \in Runners, q # r, Start(q) \/ Stop(q) \/ Work(q)
        PROVE  Stuck(r)'
    <3>1. CASE Start(q)
      BY <2>1, <2>8, <3>1 DEF Start, Goto
    <3>2. CASE pc[r] = "down"
      <4>1. CASE LocalsKept(r)
        BY <3>2, <4>1 DEF LocalsKept
      <4>2. CASE Start(r)
        BY <4>2 DEF Start, Goto
      <4> QED BY <3>2, <4>1, <4>2, LocalsFrame, DownIdle
    <3>3. CASE pc[r] # "down" /\ ~ Start(q)
      BY <2>8, <3>3, DownIdle DEF OneLoop
    <3> QED BY <3>1, <3>2, <3>3
  <2> QED BY <2>2, <2>3, <2>4, <2>5, <2>6, <2>7, <2>8 DEF Next, Work
<1>2. CASE ~ Wedged
  <2>1. PICK p \in Positions : Orphan(p)'
    BY DEF Wedged
  <2>2. order[Entry(p)] = "none" /\ order[Exit(p)] = "none"
    BY <2>1, OrderMonotone DEF Orphan
  <2>3. position[p] # "OPEN"
    BY <1>2, <2>2 DEF Wedged, Orphan
  <2>4. PICK q \in Runners : CreatePosition(q, p)
    <3>1. position'[p] = "OPEN"
      BY <2>1 DEF Orphan
    <3>2. ASSUME NEW u \in Runners, NEW q \in Positions, ClosePosition(u, q) PROVE FALSE
      BY <2>3, <3>1, <3>2 DEF ClosePosition
    <3>3. ASSUME NEW u \in Runners, NEW q \in Positions, CreatePosition(u, q) PROVE q = p
      BY <2>3, <3>1, <3>3 DEF CreatePosition
    <3> QED BY <2>3, <3>1, <3>2, <3>3, PositionFrame
  <2>5. CASE r = q
    BY <2>4, <2>5 DEF CreatePosition, Goto
  <2>6. CASE r # q
    BY <2>4, <2>6 DEF CreatePosition, Goto, OneLoop
  <2> QED BY <2>5, <2>6
<1> QED BY <1>1, <1>2

\* A position is inserted by a loop that has read the positions since it was
\* started, which it cannot while one of them has no order.
LEMMA OrphanStep ==
  ASSUME ExclusiveInv, [Next]_vars
  PROVE  AtMostOneOrphan'
<1> USE OrderFacts DEF ExclusiveInv, SharedInv, TypeOK, Typed
<1> SUFFICES ASSUME NEW p \in Positions, NEW q \in Positions, Orphan(p)', Orphan(q)'
             PROVE  p = q
  BY DEF AtMostOneOrphan
<1>1. ASSUME NEW s \in Positions, Orphan(s)'
      PROVE  Orphan(s) \/ \E r \in Runners : CreatePosition(r, s)
  <2>1. order[Entry(s)] = "none" /\ order[Exit(s)] = "none" /\ position'[s] = "OPEN"
    BY <1>1, OrderMonotone DEF Orphan
  <2>2. CASE position[s] = "OPEN"
    BY <2>1, <2>2 DEF Orphan
  <2>3. CASE position[s] # "OPEN"
    <3>1. ASSUME NEW u \in Runners, NEW t \in Positions, ClosePosition(u, t) PROVE FALSE
      BY <2>1, <2>3, <3>1 DEF ClosePosition
    <3>2. ASSUME NEW u \in Runners, NEW t \in Positions, CreatePosition(u, t) PROVE t = s
      BY <2>1, <2>3, <3>2 DEF CreatePosition
    <3> QED BY <2>1, <2>3, <3>1, <3>2, PositionFrame
  <2> QED BY <2>2, <2>3
<1>2. ASSUME NEW s \in Positions, NEW r \in Runners, CreatePosition(r, s)
      PROVE  \A t \in Positions : ~Orphan(t)
  BY <1>2 DEF CreatePosition, WedgeSound, Wedged
<1>3. ASSUME NEW r \in Runners, CreatePosition(r, p), NEW u \in Runners, CreatePosition(u, q)
      PROVE  p = q
  BY <1>3 DEF CreatePosition, OneLoop
<1> QED BY <1>1, <1>2, <1>3 DEF AtMostOneOrphan

-----------------------------------------------------------------------------
(* The theorems.                                                           *)

\* The invariant is kept by every step after which one loop runs, whatever
\* keeps a second one from starting.
LEMMA SoleLoopStep ==
  ASSUME ExclusiveInv, [Next]_vars, OneLoop'
  PROVE  ExclusiveInv'
<1>1. SharedInv'
  BY SharedInvariantStep DEF ExclusiveInv
<1> QED
  BY <1>1, SingleFillStep, LimitRespectedStep, ClosedAfterExitStep,
     ClosedEventStep, WedgeSoundStep, OrphanStep, SnapCurrentStep,
     QueueCurrentStep, StepCurrentStep
  DEF ExclusiveInv

\* The invariant is kept by every step of a workload's only loop.
LEMMA ExclusiveInvariantStep ==
  ASSUME Exclusive, ExclusiveInv, [Next]_vars
  PROVE  ExclusiveInv'
  BY SoleLoopStep, OneLoopStep DEF ExclusiveInv, SharedInv

\* There are no positions in the beginning.
LEMMA ExclusiveInvariantInit == Init => ExclusiveInv
<1> SUFFICES ASSUME Init PROVE ExclusiveInv
  OBVIOUS
<1>1. SharedInv
  BY SharedInvariantInit
<1>2. OneLoop /\ SingleFill /\ ClosedAfterExit /\ ClosedEventOnce /\ OpenUnannounced
  BY DEF Init, OneLoop, SingleFill, ClosedAfterExit, ClosedEventOnce, OpenUnannounced
<1>3. OpenPositions = {}
  BY DEF Init, OpenPositions
<1>4. LimitRespected
  BY <1>3, FS_EmptySet, LimitAssumption DEF LimitRespected
<1>5. AtMostOneOrphan /\ WedgeSound
  BY <1>3 DEF AtMostOneOrphan, WedgeSound, Wedged, Orphan, OpenPositions
<1>6. ASSUME NEW r \in Runners PROVE SnapCurrent(r) /\ QueueCurrent(r) /\ StepCurrent(r)
  BY DEF Init, SnapCurrent, QueueCurrent, StepCurrent
<1> QED BY <1>1, <1>2, <1>4, <1>5, <1>6 DEF ExclusiveInv

\* The inductive invariant of one loop at a time holds in every state.
THEOREM ExclusiveInvariant ==
  ASSUME Exclusive
  PROVE  Spec => []ExclusiveInv
<1>1. ExclusiveInv /\ [Next]_vars => ExclusiveInv'
  BY ExclusiveInvariantStep
<1> QED BY <1>1, ExclusiveInvariantInit, PTL DEF Spec

\* One loop at a time never has an order filled twice, though it sends an
\* order again after a lost answer or a restart (workload.go:294-336).
THEOREM OrdersFilledOnce ==
  ASSUME Exclusive
  PROVE  Spec => []SingleFill
<1>1. ExclusiveInv => SingleFill
  BY DEF ExclusiveInv
<1> QED BY <1>1, ExclusiveInvariant, PTL

\* One loop at a time never exceeds the limit of open positions
\* (position.go:175-238).
THEOREM LimitNeverExceeded ==
  ASSUME Exclusive
  PROVE  Spec => []LimitRespected
<1>1. ExclusiveInv => LimitRespected
  BY DEF ExclusiveInv
<1> QED BY <1>1, ExclusiveInvariant, PTL

\* One loop at a time closes a recorded purchase only after its recorded
\* sale, and announces a closed position once (workload.go:452-515).
THEOREM ClosedOnceAndSold ==
  ASSUME Exclusive
  PROVE  Spec => [](ClosedAfterExit /\ ClosedEventOnce)
<1>1. ExclusiveInv => ClosedAfterExit /\ ClosedEventOnce
  BY DEF ExclusiveInv
<1> QED BY <1>1, ExclusiveInvariant, PTL

\* One loop at a time never announces the end of a position twice, wherever the
\* loop before it ended (position.go:251-261).
THEOREM AnnouncedOnce ==
  ASSUME Exclusive
  PROVE  Spec => []ClosedEventOnce
<1>1. ExclusiveInv => ClosedEventOnce
  BY DEF ExclusiveInv
<1> QED BY <1>1, ExclusiveInvariant, PTL

\* One loop at a time, ending anywhere, leaves at most one position without an
\* order (workload.go:374-395).
THEOREM OneOrphanAtMost ==
  ASSUME Exclusive
  PROVE  Spec => []AtMostOneOrphan
<1>1. ExclusiveInv => AtMostOneOrphan
  BY DEF ExclusiveInv
<1> QED BY <1>1, ExclusiveInvariant, PTL

\* One loop at a time has nothing bought or sold for a closed position
\* (workload.go:464-516).
THEOREM ClosedIsFinal ==
  ASSUME Exclusive
  PROVE  Spec => NothingTradedAfterClose
<1>1. ExclusiveInv /\ [Next]_vars => [NoTradeOfClosed]_vars
  <2> SUFFICES ASSUME ExclusiveInv, [Next]_vars PROVE NoTradeOfClosed
    OBVIOUS
  <2>1. ASSUME NEW r \in Runners, NEW o \in Orders, FillOrder(r, o) \/ LoseAnswer(r, o)
        PROVE  NoTradeOfClosed
    <3>1. position[o[1]] = "OPEN"
      BY <2>1 DEF FillOrder, LoseAnswer, Heads, ExclusiveInv, QueueCurrent
    <3>2. /\ fills' = [fills EXCEPT ![o] = fills[o] + 1]
          /\ fills \in [Orders -> Nat]
      BY <2>1 DEF FillOrder, LoseAnswer, ExclusiveInv, SharedInv, TypeOK, Typed
    <3>3. ASSUME NEW p \in Positions, NEW s \in Sides, position[p] = "CLOSED"
          PROVE  fills'[<<p, s>>] = fills[<<p, s>>]
      <4>1. <<p, s>> \in Orders /\ <<p, s>>[1] = p
        BY DEF Orders
      <4> QED BY <3>1, <3>2, <3>3, <4>1
    <3> QED BY <3>3 DEF NoTradeOfClosed
  <2> QED BY <2>1, FillsFrame DEF NoTradeOfClosed
<1> QED BY <1>1, ExclusiveInvariant, PTL DEF NothingTradedAfterClose, Spec

-----------------------------------------------------------------------------
(***************************************************************************)
(* Part three.  The refinement.                                            *)
(***************************************************************************)

-----------------------------------------------------------------------------
(* The refinement mapping.                                                 *)

\* A position whose rows do not change stays in its phase.
LEMMA PhaseKept ==
  ASSUME NEW p \in Positions, position'[p] = position[p],
         order'[Entry(p)] = order[Entry(p)], order'[Exit(p)] = order[Exit(p)]
  PROVE  Phase(p)' = Phase(p)
BY DEF Phase

\* A change of the rows of one position is a move of that position.
LEMMA OneMoves ==
  ASSUME NEW p \in Positions, NEW from, NEW to, Phase(p) = from, Phase(p)' = to,
         \A q \in Positions \ {p} : Phase(q)' = Phase(q)
  PROVE  Lifecycle!Move(p, from, to)
<1>1. PhaseOf' = [PhaseOf EXCEPT ![p] = to]
  BY DEF PhaseOf
<1>2. PhaseOf[p] = from
  BY DEF PhaseOf
<1> QED BY <1>1, <1>2 DEF Lifecycle!Move

\* Without a change of the tables and the exchange the lifecycle stutters.
LEMMA Stutter ==
  ASSUME UNCHANGED <<position, order, fills>>
  PROVE  UNCHANGED Lifecycle!vars
BY DEF Lifecycle!vars, PhaseOf, Bought, Sold, Phase

\* Without a fill nothing is bought or sold.
LEMMA NoTrade ==
  ASSUME UNCHANGED fills
  PROVE  UNCHANGED <<Bought, Sold>>
BY DEF Bought, Sold

\* A position counts as live exactly while its status is OPEN.
LEMMA LiveIsOpen ==
  ASSUME TypeOK
  PROVE  Lifecycle!Live = OpenPositions
<1>1. ASSUME NEW p \in Positions
      PROVE  Phase(p) \notin {"absent", "closed"} <=> position[p] = "OPEN"
  BY DEF Phase, TypeOK, Typed
<1> QED BY <1>1 DEF Lifecycle!Live, OpenPositions, PhaseOf

\* The instance counts as this module does.
LEMMA SameCount ==
  ASSUME NEW S
  PROVE  Lifecycle!Cardinality(S) = Cardinality(S)
BY DEF Lifecycle!Cardinality, Cardinality

-----------------------------------------------------------------------------
(* The statements and the orders, step by step.                            *)

\* CreatePosition opens a position while there is room.
LEMMA CreatePositionOpens ==
  ASSUME ExclusiveInv, NEW r \in Runners, NEW p \in Positions, CreatePosition(r, p)
  PROVE  Lifecycle!Open(p)
<1> USE OrderFacts DEF ExclusiveInv, SharedInv, TypeOK, Typed
<1>1. order' = order /\ fills' = fills /\ position' = [position EXCEPT ![p] = "OPEN"]
  BY DEF CreatePosition, market
<1>2. order[Entry(p)] = "none" /\ position[p] = "none"
  BY DEF CreatePosition, Announced
<1>3. Phase(p) = "absent" /\ Phase(p)' = "opened"
  BY <1>1, <1>2 DEF Phase
<1>4. ASSUME NEW q \in Positions \ {p} PROVE Phase(q)' = Phase(q)
  BY <1>1, PhaseKept
<1>5. Lifecycle!Cardinality(Lifecycle!Live) < OpenPositionsLimit
  BY LiveIsOpen, SameCount DEF CreatePosition, StepCurrent
<1>6. Lifecycle!Move(p, "absent", "opened")
  BY <1>3, <1>4, OneMoves
<1>7. UNCHANGED <<Bought, Sold>>
  BY <1>1, NoTrade
<1> HIDE DEF ExclusiveInv
<1> QED BY <1>5, <1>6, <1>7 DEF Lifecycle!Open

\* ClosePosition abandons a position or closes one that is sold.
LEMMA ClosePositionCloses ==
  ASSUME ExclusiveInv, NEW r \in Runners, NEW p \in Positions, ClosePosition(r, p)
  PROVE  Lifecycle!Abandon(p) \/ Lifecycle!Close(p)
<1> USE OrderFacts DEF ExclusiveInv, SharedInv, TypeOK, Typed
<1>1. order' = order /\ fills' = fills /\ position' = [position EXCEPT ![p] = "CLOSED"]
  BY DEF ClosePosition, market
<1>2. Phase(p) \in {"entering", "exited"} /\ Phase(p)' = "closed"
  <2>1. /\ position[p] = "OPEN"
        /\ \/ order[Entry(p)] = "new"
           \/ order[Entry(p)] = "executed" /\ order[Exit(p)] = "executed"
    BY CloseReason
  <2>2. position'[p] = "CLOSED"
    BY <1>1
  <2> HIDE DEF ExclusiveInv
  <2> QED BY <2>1, <2>2 DEF Phase
<1>3. ASSUME NEW q \in Positions \ {p} PROVE Phase(q)' = Phase(q)
  BY <1>1, PhaseKept
<1>4. \E from \in {"entering", "exited"} : Lifecycle!Move(p, from, "closed")
  BY <1>2, <1>3, OneMoves
<1>5. UNCHANGED <<Bought, Sold>>
  BY <1>1, NoTrade
<1> HIDE DEF ExclusiveInv
<1> QED BY <1>4, <1>5 DEF Lifecycle!Abandon, Lifecycle!Close

\* A statement that changes the row of one order.
LEMMA OrderMoves ==
  ASSUME TypeOK, NEW o \in Orders, NEW state, order' = [order EXCEPT ![o] = state],
         UNCHANGED <<position, fills>>
  PROVE  /\ \A q \in Positions \ {o[1]} : Phase(q)' = Phase(q)
         /\ UNCHANGED <<Bought, Sold>>
<1>1. ASSUME NEW q \in Positions \ {o[1]} PROVE Phase(q)' = Phase(q)
  BY OrderFacts, PhaseKept DEF TypeOK, Typed
<1> QED BY <1>1, NoTrade

\* CreateEntryOrder places the entry order of an open position.
LEMMA CreateEntryOrderPlaces ==
  ASSUME ExclusiveInv, NEW r \in Runners, CreateEntryOrder(r)
  PROVE  \E p \in Positions : Lifecycle!PlaceEntry(p)
<1>1. TypeOK
  BY DEF ExclusiveInv, SharedInv
<1>2. PICK p \in Positions :
        /\ position[p] = "OPEN" /\ order[Entry(p)] = "none"
        /\ order' = [order EXCEPT ![Entry(p)] = "new"]
        /\ UNCHANGED <<position, fills>>
  BY DEF CreateEntryOrder, ExclusiveInv, SharedInv, TypeOK, Tidy, StepCurrent, market
<1>3. position'[p] = "OPEN" /\ order'[Entry(p)] = "new"
  BY <1>1, <1>2, OrderFacts DEF TypeOK, Typed
<1>4. Phase(p) = "opened" /\ Phase(p)' = "entering"
  BY <1>2, <1>3 DEF Phase
<1>5. /\ \A q \in Positions \ {p} : Phase(q)' = Phase(q)
      /\ UNCHANGED <<Bought, Sold>>
  BY ZenonT(30), <1>1, <1>2, OrderFacts, OrderMoves
<1>6. Lifecycle!Move(p, "opened", "entering")
  BY <1>4, <1>5, OneMoves
<1> QED BY <1>5, <1>6 DEF Lifecycle!PlaceEntry

\* CreateExitOrder places the exit order of a held position.
LEMMA CreateExitOrderPlaces ==
  ASSUME ExclusiveInv, NEW r \in Runners, NEW p \in Positions, CreateExitOrder(r, p)
  PROVE  Lifecycle!PlaceExit(p)
<1>1. TypeOK
  BY DEF ExclusiveInv, SharedInv
<1>2. /\ position[p] = "OPEN" /\ order[Entry(p)] = "executed" /\ order[Exit(p)] = "none"
      /\ order' = [order EXCEPT ![Exit(p)] = "new"]
      /\ UNCHANGED <<position, fills>>
  BY DEF CreateExitOrder, Held, Queue, Reviews, ExclusiveInv, SnapCurrent, market
<1>3. /\ position'[p] = "OPEN" /\ order'[Entry(p)] = "executed"
      /\ order'[Exit(p)] = "new"
  BY <1>1, <1>2, OrderFacts DEF TypeOK, Typed
<1>4. Phase(p) = "holding" /\ Phase(p)' = "exiting"
  BY <1>2, <1>3 DEF Phase
<1>5. /\ \A q \in Positions \ {p} : Phase(q)' = Phase(q)
      /\ UNCHANGED <<Bought, Sold>>
  <2>1. Exit(p) \in Orders /\ Exit(p)[1] = p
    BY OrderFacts
  <2> QED BY <1>1, <1>2, <2>1, OrderMoves
<1>6. Lifecycle!Move(p, "holding", "exiting")
  BY <1>4, <1>5, OneMoves
<1> QED BY <1>5, <1>6 DEF Lifecycle!PlaceExit

\* What is known of an order at the head of the queue of a loop that is
\* about to send or to record it.
LEMMA HeadFacts ==
  ASSUME ExclusiveInv, NEW r \in Runners, NEW o \in Orders, Heads(r, o)
  PROVE  /\ position[o[1]] = "OPEN" /\ order[o] = "new"
         /\ o = Entry(o[1]) => order[Exit(o[1])] = "none"
         /\ o = Exit(o[1]) => order[Entry(o[1])] = "executed"
         /\ pc[r] = "execute" => fills[o] = 0
         /\ pc[r] = "record" => fills[o] = 1
<1>1. position[o[1]] = "OPEN" /\ order[o] = "new"
  BY DEF ExclusiveInv, QueueCurrent, Heads
<1>2. /\ o = Entry(o[1]) => order[Exit(o[1])] = "none"
      /\ o = Exit(o[1]) => order[Entry(o[1])] = "executed"
  BY <1>1, OrderFacts DEF ExclusiveInv, SharedInv, OrdersConsistent
<1>3. pc[r] = "execute" => fills[o] = 0
  BY DEF ExclusiveInv, StepCurrent
<1>4. pc[r] = "record" => fills[o] = 1
  <2>1. fills[o] \in Nat /\ fills[o] <= 1
    BY DEF ExclusiveInv, SharedInv, TypeOK, Typed, SingleFill
  <2>2. pc[r] = "record" => fills[o] > 0
    BY DEF ExclusiveInv, SharedInv, StepSound
  <2> QED BY <2>1, <2>2
<1> QED BY <1>1, <1>2, <1>3, <1>4

\* An order that is filled buys or sells.
LEMMA FillTrades ==
  ASSUME ExclusiveInv, NEW r \in Runners, NEW o \in Orders,
         FillOrder(r, o) \/ LoseAnswer(r, o)
  PROVE  \E p \in Positions : Lifecycle!Buy(p) \/ Lifecycle!Sell(p)
<1> DEFINE p == o[1]
<1>1. p \in Positions /\ (o = Entry(p) \/ o = Exit(p))
  BY OrderFacts
<1>2. /\ UNCHANGED <<position, order>>
      /\ fills' = [fills EXCEPT ![o] = fills[o] + 1]
      /\ pc[r] = "execute" /\ Heads(r, o)
  BY DEF FillOrder, LoseAnswer, tables
<1>3. UNCHANGED PhaseOf
  BY <1>2 DEF PhaseOf, Phase
<1>4. fills \in [Orders -> Nat] /\ fills[o] = 0
  BY <1>2, HeadFacts DEF ExclusiveInv, SharedInv, TypeOK, Typed
<1>5. fills' = [fills EXCEPT ![o] = 1]
  BY <1>2, <1>4
<1>6. CASE o = Entry(p)
  <2>1. Phase(p) = "entering"
    BY <1>1, <1>2, <1>6, HeadFacts DEF Phase
  <2>2. Bought' = [Bought EXCEPT ![p] = 1] /\ Sold' = Sold /\ Bought[p] = 0
    BY <1>1, <1>4, <1>5, <1>6, OrderFacts DEF Bought, Sold
  <2>3. PhaseOf[p] = "entering"
    BY <1>1, <2>1 DEF PhaseOf
  <2> QED BY <1>1, <1>3, <2>2, <2>3 DEF Lifecycle!Buy
<1>7. CASE o = Exit(p)
  <2>1. Phase(p) = "exiting"
    BY <1>1, <1>2, <1>7, HeadFacts DEF Phase
  <2>2. Sold' = [Sold EXCEPT ![p] = 1] /\ Bought' = Bought /\ Sold[p] = 0
    BY <1>1, <1>4, <1>5, <1>7, OrderFacts DEF Bought, Sold
  <2>3. PhaseOf[p] = "exiting"
    BY <1>1, <2>1 DEF PhaseOf
  <2> QED BY <1>1, <1>3, <2>2, <2>3 DEF Lifecycle!Sell
<1> QED BY <1>1, <1>6, <1>7

\* A recorded execution confirms what was bought or sold.
LEMMA RecordExecutionConfirms ==
  ASSUME ExclusiveInv, NEW r \in Runners, NEW o \in Orders, RecordExecution(r, o)
  PROVE  \E p \in Positions : Lifecycle!ConfirmEntry(p) \/ Lifecycle!ConfirmExit(p)
<1> DEFINE p == o[1]
<1>1. p \in Positions /\ (o = Entry(p) \/ o = Exit(p))
  BY OrderFacts
<1>2. /\ UNCHANGED <<position, fills>>
      /\ order' = [order EXCEPT ![o] = "executed"]
      /\ pc[r] = "record" /\ Heads(r, o)
  BY DEF RecordExecution, market
<1>3. TypeOK
  BY DEF ExclusiveInv, SharedInv
<1>4. /\ \A q \in Positions \ {p} : Phase(q)' = Phase(q)
      /\ UNCHANGED <<Bought, Sold>>
  BY <1>2, <1>3, OrderMoves
<1>5. /\ fills[o] = 1 /\ position[p] = "OPEN" /\ order[o] = "new"
      /\ o = Entry(p) => order[Exit(p)] = "none"
      /\ o = Exit(p) => order[Entry(p)] = "executed"
  BY <1>2, HeadFacts
<1>6. /\ position'[p] = "OPEN" /\ order'[o] = "executed"
      /\ o = Entry(p) => order'[Exit(p)] = "none"
      /\ o = Exit(p) => order'[Entry(p)] = "executed"
  BY <1>1, <1>2, <1>3, <1>5, OrderFacts DEF TypeOK, Typed
<1> HIDE DEF p
<1>7. CASE o = Entry(p)
  <2>1. Phase(p) = "entering" /\ Phase(p)' = "holding"
    BY <1>5, <1>6, <1>7 DEF Phase
  <2>2. Bought[p] = 1
    BY <1>1, <1>5, <1>7 DEF Bought
  <2>3. Lifecycle!Move(p, "entering", "holding")
    BY <1>1, <1>4, <2>1, OneMoves
  <2> QED BY <1>1, <1>4, <2>2, <2>3 DEF Lifecycle!ConfirmEntry
<1>8. CASE o = Exit(p)
  <2>1. Phase(p) = "exiting" /\ Phase(p)' = "exited"
    BY <1>5, <1>6, <1>8 DEF Phase
  <2>2. Sold[p] = 1
    BY <1>1, <1>5, <1>8 DEF Sold
  <2>3. Lifecycle!Move(p, "exiting", "exited")
    BY <1>1, <1>4, <2>1, OneMoves
  <2> QED BY <1>1, <1>4, <2>2, <2>3 DEF Lifecycle!ConfirmExit
<1> QED BY <1>1, <1>7, <1>8

-----------------------------------------------------------------------------
\* Nothing has been opened in the beginning.
LEMMA LifecycleInit == Init => Lifecycle!Init
BY OrderFacts DEF Init, Lifecycle!Init, PhaseOf, Phase, Bought, Sold

\* Every step under the invariant of a loop that is alone maps to a step of the
\* lifecycle or to a stutter.
LEMMA LifecycleStep ==
  ASSUME ExclusiveInv, [Next]_vars
  PROVE  Lifecycle!Next \/ UNCHANGED Lifecycle!vars
<1>1. CASE UNCHANGED <<position, order, fills>>
  BY <1>1, Stutter
<1>2. ASSUME NEW r \in Runners, NEW p \in Positions, CreatePosition(r, p)
      PROVE  Lifecycle!Next
  BY <1>2, CreatePositionOpens DEF Lifecycle!Next
<1>3. ASSUME NEW r \in Runners, NEW p \in Positions, ClosePosition(r, p)
      PROVE  Lifecycle!Next
  BY <1>3, ClosePositionCloses DEF Lifecycle!Next
<1>4. ASSUME NEW r \in Runners, CreateEntryOrder(r) PROVE Lifecycle!Next
  BY <1>4, CreateEntryOrderPlaces DEF Lifecycle!Next
<1>5. ASSUME NEW r \in Runners, NEW p \in Positions, CreateExitOrder(r, p)
      PROVE  Lifecycle!Next
  BY <1>5, CreateExitOrderPlaces DEF Lifecycle!Next
<1>6. ASSUME NEW r \in Runners, NEW o \in Orders, FillOrder(r, o) \/ LoseAnswer(r, o)
      PROVE  Lifecycle!Next
  BY <1>6, FillTrades DEF Lifecycle!Next
<1>7. ASSUME NEW r \in Runners, NEW o \in Orders, RecordExecution(r, o)
      PROVE  Lifecycle!Next
  BY <1>7, RecordExecutionConfirms DEF Lifecycle!Next
<1> QED BY <1>1, <1>2, <1>3, <1>4, <1>5, <1>6, <1>7, OrderFrame, PositionFrame, FillsFrame

\* One action loop at a time, ending at any call and started again, whatever
\* answers of the exchange are lost, implements the life of a position
\* (workload.go:257-537).
THEOREM LoopImplementsLifecycle ==
  ASSUME Exclusive
  PROVE  Spec => ImplementsLifecycle
<1>1. Init => Lifecycle!Init
  BY LifecycleInit
<1>2. ExclusiveInv /\ [Next]_vars => [Lifecycle!Next]_(Lifecycle!vars)
  BY LifecycleStep
<1> QED BY <1>1, <1>2, ExclusiveInvariant, PTL DEF Spec, ImplementsLifecycle, Lifecycle!Spec

-----------------------------------------------------------------------------
(***************************************************************************)
(* Part four.  The service.  A step of it is a step of ActionLoop or takes *)
(* all loops down, so the lemmas about ActionLoop carry over; what is left *)
(* is the controller's part.                                               *)
(***************************************************************************)

-----------------------------------------------------------------------------
(* A step of the service as a step of the loops.                           *)

\* The loops make a step of ActionLoop, or all of them are down.
LEMMA LoopSide ==
  ASSUME ServiceNext
  PROVE  [Next]_vars \/ LoopsDown
<1>1. ASSUME NEW i \in Runners, StartRunner(i) PROVE Next
  BY <1>1 DEF StartRunner, Next
<1>2. ASSUME NEW i \in Runners, LoopStep(i) PROVE [Next]_vars
  <2>1. CASE BeginTick(i)
    BY <2>1 DEF BeginTick, Next, Work
  <2>2. CASE BeforePrice(i)
    BY <2>2 DEF BeforePrice, Next, Work, RefreshOrdersQueue
  <2>3. CASE ReadPrice(i)
    BY <2>3 DEF ReadPrice
  <2>4. CASE AfterPrice(i)
    BY <2>4 DEF AfterPrice, Next, Work, RefreshOrdersQueue, SendOrders
  <2>5. CASE EndTick(i)
    BY <2>5 DEF EndTick, Next, Work, SendOrders
  <2>6. CASE FailTick(i)
    BY <2>6 DEF FailTick, Next, Work, RefreshOrdersQueue, SendOrders
  <2>7. CASE SeeDone(i)
    BY <2>7 DEF SeeDone, Next
  <2> QED BY <1>2, <2>1, <2>2, <2>3, <2>4, <2>5, <2>6, <2>7 DEF LoopStep
<1>3. CASE Background
  BY <1>3 DEF Background
<1>4. CASE TimePasses
  BY <1>4 DEF TimePasses, Next
<1>5. CASE ProcessEnds
  BY <1>5 DEF ProcessEnds
<1> QED BY <1>1, <1>2, <1>3, <1>4, <1>5 DEF ServiceNext

\* Loops that are down have nothing fetched and nothing queued.
LEMMA DownShared ==
  ASSUME SharedInv, LoopsDown
  PROVE  SharedInv'
<1> USE OrderFacts DEF LoopsDown, tables, events, market
<1>1. TypeOK'
  <2>1. NoOrders \in [Orders -> {"none", "new", "executed"}]
    BY DEF NoOrders
  <2>2. Typed'
    <3>1. snap' \in [Runners -> [Orders -> {"none", "new", "executed"}]]
      BY <2>1
    <3> QED BY <3>1 DEF SharedInv, TypeOK, Typed, PCs
  <2>3. \A r \in Runners : Tidy(r)'
    BY DEF Tidy, Positions
  <2> QED BY <2>2, <2>3 DEF TypeOK
<1>2. OrdersConsistent' /\ RecordedMeansFilled' /\ FilledIsListed' /\ Announced' /\ ClosedEventTruthful'
  BY DEF SharedInv, OrdersConsistent, RecordedMeansFilled, FilledIsListed, Announced,
         ClosedEventTruthful
<1>3. ASSUME NEW r \in Runners PROVE (SnapBehind(r) /\ QueueSound(r) /\ StepSound(r))'
  BY DEF SnapBehind, QueueSound, StepSound, NoOrders
<1> QED BY <1>1, <1>2, <1>3 DEF SharedInv

\* What is true with one loop is true with none.
LEMMA DownExclusive ==
  ASSUME ExclusiveInv, LoopsDown
  PROVE  ExclusiveInv'
<1> USE OrderFacts DEF LoopsDown, tables, events, market
<1>1. SharedInv'
  BY DownShared DEF ExclusiveInv
<1>2. OneLoop' /\ AtMostOneOrphan' /\ WedgeSound'
  BY DEF ExclusiveInv, OneLoop, AtMostOneOrphan, Orphan, WedgeSound
<1>3. SingleFill' /\ LimitRespected' /\ ClosedAfterExit' /\ ClosedEventOnce' /\ OpenUnannounced'
  BY DEF ExclusiveInv, SingleFill, LimitRespected, OpenPositions, ClosedAfterExit,
         ClosedEventOnce, OpenUnannounced
<1>4. ASSUME NEW r \in Runners PROVE (SnapCurrent(r) /\ QueueCurrent(r) /\ StepCurrent(r))'
  BY DEF SnapCurrent, QueueCurrent, StepCurrent
<1> QED BY <1>1, <1>2, <1>3, <1>4 DEF ExclusiveInv

\* The invariants of the loops are kept.
LEMMA LoopsStep ==
  ASSUME ServiceInv, ServiceNext
  PROVE  SharedInv' /\ (~overlapped' => ExclusiveInv')
<1>1. SharedInv'
  BY LoopSide, SharedInvariantStep, DownShared DEF ServiceInv
<1>2. ASSUME ~overlapped' PROVE ExclusiveInv'
  <2>1. OneLoop' /\ ~overlapped
    BY <1>2 DEF ServiceNext, ServiceInv, ServiceTypeOK
  <2> QED BY <2>1, LoopSide, SoleLoopStep, DownExclusive DEF ServiceInv
<1> QED BY <1>1, <1>2

-----------------------------------------------------------------------------
(* A step of the service as a step of the controller.                      *)

\* The controller makes a step of its own, or stutters.
LEMMA ControllerSide ==
  ASSUME ServiceNext
  PROVE  \/ UNCHANGED controllerVars
         \/ PassStep
         \/ \E i \in Runners : \/ Controller!Run(Workload, i) \/ Controller!DataStep(i)
                               \/ Controller!ActionStep(i)    \/ Controller!WatcherStep(i)
         \/ Controller!Restart
<1>1. ASSUME NEW i \in Runners, LoopStep(i)
      PROVE  UNCHANGED controllerVars \/ Controller!ActionStep(i)
  BY <1>1 DEF LoopStep, BeginTick, BeforePrice, ReadPrice, AfterPrice, EndTick, FailTick,
              SeeDone, Controller!ActionStep
<1>2. CASE Background
  BY <1>2 DEF Background, Controller!ActionStep
<1>3. CASE TimePasses
  BY <1>3 DEF TimePasses
<1>4. CASE ProcessEnds
  BY <1>4 DEF ProcessEnds, Controller!Crash, Controller!Panic
<1> QED BY <1>1, <1>2, <1>3, <1>4 DEF ServiceNext, StartRunner

\* The passes leave the runners alone.
LEMMA PassSide ==
  ASSUME PassStep
  PROVE  /\ UNCHANGED <<registry, owner, cell, data, action, cancelled, errChan, watcher, candles>>
         /\ ctl' \in {"wait", "fetching", "pass"} /\ visiting' \subseteq visiting \union {Workload}
         /\ last' = last \/ last' \in {Workload, NoWorkload}
         /\ ctl' = "pass" => last' = Workload \/ (ctl = "pass" /\ last' = last)
<1> USE DEF Controller!ControllerGoes, Controller!Visit, Controller!control,
        Controller!identity
<1>1. CASE \/ Controller!FetchWorkloads \/ Controller!FetchFails
           \/ Controller!BeginPass      \/ Controller!PassDone
  BY <1>1 DEF Controller!FetchWorkloads, Controller!FetchFails, Controller!BeginPass,
              Controller!PassDone
<1>2. CASE Controller!SkipRunning(Workload) \/ Controller!ConnectFails(Workload)
  BY <1>2 DEF Controller!SkipRunning, Controller!ConnectFails
<1> QED BY <1>1, <1>2 DEF PassStep

\* The variables of the controller keep their types.
LEMMA ControllerTypeStep ==
  ASSUME Controller!TypeOK, ServiceNext
  PROVE  Controller!TypeOK'
<1> USE WorkloadAssumption DEF Controller!TypeOK, Controller!Gone, Controller!identity,
        Controller!control
<1>1. CASE UNCHANGED controllerVars
  BY <1>1 DEF controllerVars
<1>2. CASE PassStep
  BY <1>2, PassSide
<1>3. ASSUME NEW i \in Runners, Controller!Run(Workload, i) PROVE Controller!TypeOK'
  BY <1>3 DEF Controller!Run, Controller!Visit
<1>4. ASSUME NEW i \in Runners, Controller!DataStep(i) PROVE Controller!TypeOK'
  <2> USE DEF Controller!DataGoes
  <2>1. CASE Controller!SaveHistory(i) \/ Controller!SaveTick(i) \/ Controller!DataFails(i)
    BY <2>1 DEF Controller!SaveHistory, Controller!SaveTick, Controller!DataFails
  <2>2. CASE Controller!DataSends(i) \/ Controller!DataSeesDone(i)
    BY <2>2 DEF Controller!DataSends, Controller!DataSeesDone
  <2>3. CASE Controller!DeleteCandles(i) \/ Controller!DataReturns(i)
    BY <2>3 DEF Controller!DeleteCandles, Controller!DataReturns
  <2> QED BY <1>4, <2>1, <2>2, <2>3 DEF Controller!DataStep
<1>5. ASSUME NEW i \in Runners, Controller!ActionStep(i) PROVE Controller!TypeOK'
  <2> USE DEF Controller!ActionGoes
  <2>1. CASE \/ Controller!ActionTick(i) \/ Controller!LastClosePrice(i)
             \/ Controller!OrdersDone(i) \/ Controller!ActionFails(i)
    BY <2>1 DEF Controller!ActionTick, Controller!LastClosePrice, Controller!OrdersDone,
                Controller!ActionFails
  <2>2. CASE Controller!ActionSends(i) \/ Controller!ActionSeesDone(i) \/ Controller!ActionReturns(i)
    BY <2>2 DEF Controller!ActionSends, Controller!ActionSeesDone, Controller!ActionReturns
  <2> QED BY <1>5, <2>1, <2>2 DEF Controller!ActionStep
<1>6. ASSUME NEW i \in Runners, Controller!WatcherStep(i) PROVE Controller!TypeOK'
  BY <1>6 DEF Controller!WatcherStep, Controller!WatcherReceives, Controller!WatcherDeletes
<1>7. CASE Controller!Restart
  BY <1>7 DEF Controller!Restart
<1> QED BY <1>1, <1>2, <1>3, <1>4, <1>5, <1>6, <1>7, ControllerSide

\* A loop that has sent its error, or ended, has not taken it back.
LEMMA SenderStep ==
  ASSUME ServiceInv, Controller!TypeOK', ServiceNext, NEW j \in Runners
  PROVE  ErrorHasSender(j)'
<1> USE DEF ServiceInv, ServiceTypeOK, ErrorHasSender, Controller!TypeOK, Controller!identity,
        Controller!control
<1>1. CASE UNCHANGED controllerVars
  BY <1>1 DEF controllerVars
<1>2. CASE PassStep
  BY <1>2, PassSide
<1>3. ASSUME NEW i \in Runners, Controller!Run(Workload, i) PROVE ErrorHasSender(j)'
  BY <1>3 DEF Controller!Run
<1>4. ASSUME NEW i \in Runners, Controller!DataStep(i) PROVE ErrorHasSender(j)'
  BY <1>4 DEF Controller!DataStep, Controller!DataGoes, Controller!SaveHistory,
     Controller!SaveTick, Controller!DataFails, Controller!DataSends,
     Controller!DataSeesDone, Controller!DeleteCandles, Controller!DataReturns
<1>5. ASSUME NEW i \in Runners, Controller!ActionStep(i) PROVE ErrorHasSender(j)'
  BY <1>5 DEF Controller!ActionStep, Controller!ActionGoes, Controller!ActionTick,
     Controller!LastClosePrice, Controller!OrdersDone, Controller!ActionFails,
     Controller!ActionSends, Controller!ActionSeesDone, Controller!ActionReturns
<1>6. ASSUME NEW i \in Runners, Controller!WatcherStep(i) PROVE ErrorHasSender(j)'
  BY <1>6 DEF Controller!WatcherStep, Controller!WatcherReceives, Controller!WatcherDeletes
<1>7. CASE Controller!Restart
  BY <1>7 DEF Controller!Restart
<1> QED BY <1>1, <1>2, <1>3, <1>4, <1>5, <1>6, <1>7, ControllerSide

\* Only a pass that finds no key starts a runner, only its watcher removes the
\* key.
LEMMA LookedAfterStep ==
  ASSUME ServiceInv, Controller!TypeOK', ServiceNext
  PROVE  LookedAfter'
<1> USE DEF ServiceInv, ServiceTypeOK, LookedAfter, Controller!TypeOK, Controller!identity,
        Controller!control
<1>1. CASE UNCHANGED controllerVars
  BY <1>1 DEF controllerVars
<1>2. CASE PassStep
  BY <1>2, PassSide
<1>3. ASSUME NEW i \in Runners, Controller!Run(Workload, i) PROVE LookedAfter'
  <2>1. \A j \in Runners : watcher[j] = "done"
    BY <1>3 DEF Controller!Run
  <2>2. last = Workload
    BY <1>3 DEF Controller!Run, Controller!Visit
  <2> QED BY <1>3, <2>1, <2>2 DEF Controller!Run
<1>4. ASSUME NEW i \in Runners, Controller!DataStep(i) PROVE LookedAfter'
  BY <1>4 DEF Controller!DataStep, Controller!DataGoes, Controller!SaveHistory,
     Controller!SaveTick, Controller!DataFails, Controller!DataSends,
     Controller!DataSeesDone, Controller!DeleteCandles, Controller!DataReturns
<1>5. ASSUME NEW i \in Runners, Controller!ActionStep(i) PROVE LookedAfter'
  BY <1>5 DEF Controller!ActionStep, Controller!ActionGoes, Controller!ActionTick,
     Controller!LastClosePrice, Controller!OrdersDone, Controller!ActionFails,
     Controller!ActionSends, Controller!ActionSeesDone, Controller!ActionReturns
<1>6. ASSUME NEW i \in Runners, Controller!WatcherReceives(i) PROVE LookedAfter'
  BY <1>6 DEF Controller!WatcherReceives
<1>7. ASSUME NEW i \in Runners, Controller!WatcherDeletes(i) PROVE LookedAfter'
  <2>1. \A j \in Runners : watcher'[j] = "done"
    BY <1>7 DEF Controller!WatcherDeletes
  <2>2. Workload \notin registry' /\ ctl' # "pass"
    BY <1>7 DEF Controller!WatcherDeletes
  <2> QED BY <2>1, <2>2
<1>8. CASE Controller!Restart
  BY <1>8 DEF Controller!Restart
<1> QED BY <1>1, <1>2, <1>3, <1>4, <1>5, <1>6, <1>7, <1>8, ControllerSide
        DEF Controller!WatcherStep

-----------------------------------------------------------------------------
(* The two sides agree.                                                    *)

\* Where the controller's model and the loop's own have a loop agrees.
LEMMA InStepStep ==
  ASSUME ServiceInv, TypeOK', Controller!TypeOK', ServiceNext, NEW j \in Runners
  PROVE  InStep(j)'
<1> USE DEF ServiceInv, ServiceTypeOK, InStep, TypeOK, Typed, Controller!TypeOK, Goto
<1>1. ASSUME NEW i \in Runners, StartRunner(i) PROVE InStep(j)'
  BY <1>1 DEF StartRunner, Controller!Run, Start
<1>2. ASSUME NEW i \in Runners, BeginTick(i) PROVE InStep(j)'
  BY <1>2 DEF BeginTick, Controller!ActionTick, Controller!ActionGoes, QuietTick, Signal
<1>3. ASSUME NEW i \in Runners, BeforePrice(i) PROVE InStep(j)'
  <2>1. UNCHANGED action /\ action[i] = "price"
    BY <1>3 DEF BeforePrice, controllerVars
  <2>2. \E label \in {"create", "query", "announce", "enter", "review"} :
          pc' = [pc EXCEPT ![i] = label]
    BY <1>3 DEF BeforePrice, ProcessSignal, RoomForPosition, DropSignal, CreatePosition,
       PublishOpened, CreateEntryOrder, QueryPositions
  <2> QED BY <2>1, <2>2
<1>4. ASSUME NEW i \in Runners, ReadPrice(i) PROVE InStep(j)'
  BY <1>4 DEF ReadPrice, vars, Controller!LastClosePrice, Controller!ActionGoes
<1>5. ASSUME NEW i \in Runners, AfterPrice(i) PROVE InStep(j)'
  <2>1. UNCHANGED action /\ action[i] = "orders"
    BY <1>5 DEF AfterPrice, controllerVars
  <2>2. pc' = pc \/ \E label \in {"closing", "review", "orders", "execute", "record"} :
                     pc' = [pc EXCEPT ![i] = label]
    BY <1>5 DEF AfterPrice, ClosePosition, Queue, QueueEntryOrder, CreateExitOrder,
       HoldPosition, QueueExitOrder, PublishClosed, QueueReady, CheckOrder, FillOrder,
       KillOrder, RecordExecution
  <2> QED BY <2>1, <2>2
<1>6. ASSUME NEW i \in Runners, EndTick(i) PROVE InStep(j)'
  BY <1>6 DEF EndTick, Controller!OrdersDone, Controller!ActionGoes, TickDone
<1>7. ASSUME NEW i \in Runners, FailTick(i) PROVE InStep(j)'
  BY <1>7 DEF FailTick, Controller!ActionFails, Controller!ActionGoes, Stop, QueryFails,
     LoseAnswer, Halt
<1>8. ASSUME NEW i \in Runners, SeeDone(i) PROVE InStep(j)'
  BY <1>8 DEF SeeDone, Controller!ActionSeesDone, Controller!ActionGoes, Stop, Halt
<1>9. CASE Background
  <2>1. UNCHANGED pc
    BY <1>9 DEF Background, vars
  <2>2. UNCHANGED action \/ \E i \in Runners : \/ Controller!ActionSends(i)
                                               \/ Controller!ActionReturns(i)
    BY <1>9, PassSide DEF Background, Controller!DataStep, Controller!DataGoes,
       Controller!SaveHistory, Controller!SaveTick, Controller!DataFails,
       Controller!DataSends, Controller!DataSeesDone, Controller!DeleteCandles,
       Controller!DataReturns, Controller!WatcherStep, Controller!WatcherReceives,
       Controller!WatcherDeletes
  <2> QED BY <2>1, <2>2 DEF Controller!ActionSends, Controller!ActionReturns,
             Controller!ActionGoes
<1>10. CASE TimePasses
  BY <1>10 DEF TimePasses, controllerVars, PauseOver, Expire
<1>11. CASE ProcessEnds
  BY <1>11 DEF ProcessEnds, LoopsDown, Controller!Crash, Controller!Panic,
     Controller!Restart
<1> QED BY <1>1, <1>2, <1>3, <1>4, <1>5, <1>6, <1>7, <1>8, <1>9, <1>10, <1>11
        DEF ServiceNext, LoopStep

-----------------------------------------------------------------------------
(* The theorems.                                                           *)

\* Nothing runs in the beginning.
LEMMA ServiceInvariantInit == ServiceInit => ServiceInv
<1> SUFFICES ASSUME ServiceInit PROVE ServiceInv
  OBVIOUS
<1>1. ExclusiveInv /\ SharedInv /\ TypeOK
  BY ExclusiveInvariantInit DEF ServiceInit, ExclusiveInv, SharedInv
<1>2. Controller!TypeOK /\ LookedAfter /\ \A i \in Runners : ErrorHasSender(i) /\ InStep(i)
  BY DEF ServiceInit, Init, Controller!Init, Controller!TypeOK, Controller!Gone,
         LookedAfter, ErrorHasSender, InStep
<1>3. starts \in 0 .. MaxStarts /\ overlapped \in BOOLEAN
  <2>1. 0 \in 0 .. MaxStarts
    BY StartsAssumption
  <2> QED BY <2>1 DEF ServiceInit
<1> QED BY <1>1, <1>2, <1>3 DEF ServiceInv, ServiceTypeOK

\* Every step keeps the invariant.
LEMMA ServiceInvariantStep ==
  ASSUME ServiceInv, [ServiceNext]_serviceVars
  PROVE  ServiceInv'
<1>1. CASE ServiceNext
  <2>1. SharedInv' /\ (~overlapped' => ExclusiveInv') /\ TypeOK'
    BY <1>1, LoopsStep DEF SharedInv
  <2>2. Controller!TypeOK'
    BY <1>1, ControllerTypeStep DEF ServiceInv, ServiceTypeOK
  <2>3. starts' \in 0 .. MaxStarts /\ overlapped' \in BOOLEAN
    BY <1>1, StartsAssumption DEF ServiceInv, ServiceTypeOK, ServiceNext, StartRunner
  <2>4. \A j \in Runners : InStep(j)' /\ ErrorHasSender(j)'
    BY <1>1, <2>1, <2>2, InStepStep, SenderStep
  <2>5. LookedAfter'
    BY <1>1, <2>2, LookedAfterStep
  <2> QED BY <2>1, <2>2, <2>3, <2>4, <2>5 DEF ServiceInv, ServiceTypeOK
<1>2. CASE UNCHANGED serviceVars
  <2>1. SharedInv' /\ TypeOK'
    BY <1>2, SharedInvariantStep DEF serviceVars, ServiceInv, SharedInv
  <2>2. ExclusiveInv => ExclusiveInv'
    BY <1>2, SoleLoopStep DEF serviceVars, vars, ExclusiveInv, OneLoop
  <2>3. UNCHANGED <<pc, controllerVars, starts, overlapped>>
    BY <1>2 DEF serviceVars, vars
  <2>4. Controller!TypeOK' /\ LookedAfter' /\ \A j \in Runners : InStep(j)' /\ ErrorHasSender(j)'
    BY <2>3 DEF ServiceInv, ServiceTypeOK, Controller!TypeOK, Controller!Gone, LookedAfter,
                InStep, ErrorHasSender, controllerVars
  <2> QED BY <2>1, <2>2, <2>3, <2>4 DEF ServiceInv, ServiceTypeOK
<1> QED BY <1>1, <1>2

\* The controller and the loops of one workload keep the invariant through any
\* number of ends of loops and of the process (workload.go:79-342).
THEOREM ServiceInvariant == ServiceSpec => []ServiceInv
  BY ServiceInvariantInit, ServiceInvariantStep, PTL DEF ServiceSpec

\* The service runs two action loops on the same tables only after a data loop
\* has left its action loop alone (workload.go:130-143, 192-206).
THEOREM ActionLoopsOverlapOnlyByData == ServiceSpec => []OverlapOnlyByData
<1>1. ServiceInv => OverlapOnlyByData
  <2> SUFFICES ASSUME ServiceInv, NEW i \in Runners, NEW j \in Runners, i # j,
                      pc[i] # "down", pc[j] # "down"
               PROVE  \E k \in {i, j} : data[k] \in {"deleting", "returned", "ended"}
    BY DEF OverlapOnlyByData
  <2>1. PICK k \in {i, j} : watcher[k] = "done"
    BY DEF ServiceInv, LookedAfter
  <2>2. k \in Runners /\ action[k] \notin {"returned", "ended"}
    BY DEF ServiceInv, ServiceTypeOK, InStep
  <2> QED BY <2>1, <2>2 DEF ServiceInv, ErrorHasSender
<1> QED BY <1>1, ServiceInvariant, PTL

\* Until two of its action loops overlap, the service fills an order once, keeps
\* the limit and closes what is sold, whatever ends (workload.go:79-342).
THEOREM ServiceAloneIsSafe == ServiceSpec => []AloneIsSafe
<1>1. ServiceInv => AloneIsSafe
  BY DEF ServiceInv, ExclusiveInv, AloneIsSafe
<1> QED BY <1>1, ServiceInvariant, PTL

-----------------------------------------------------------------------------
(* The service implements WorkloadController.                              *)

\* A step of an action loop is one of the controller's model, or is hidden
\* from it.
LEMMA LoopControlStep ==
  ASSUME NEW i \in Runners, LoopStep(i)
  PROVE  Controller!ActionStep(i) \/ UNCHANGED controllerVars
BY DEF LoopStep, BeginTick, BeforePrice, ReadPrice, AfterPrice, EndTick, FailTick,
       SeeDone, Controller!ActionStep

\* Every step of the service maps to a step of the controller or to a stutter.
LEMMA ControlStep ==
  ASSUME ServiceNext
  PROVE  Controller!Next \/ UNCHANGED controllerVars
<1>1. ASSUME NEW i \in Runners, StartRunner(i) PROVE Controller!Next
  <2>1. Controller!Run(Workload, i)
    BY <1>1 DEF StartRunner
  <2> QED BY <2>1 DEF Controller!Next, Controller!ControllerStep
<1>2. ASSUME NEW i \in Runners, LoopStep(i)
      PROVE  Controller!Next \/ UNCHANGED controllerVars
  BY <1>2, LoopControlStep DEF Controller!Next
<1>3. CASE Background
  <2>1. CASE PassStep
    BY <2>1 DEF PassStep, Controller!Next, Controller!ControllerStep
  <2>2. ASSUME NEW i \in Runners,
               \/ Controller!DataStep(i)    \/ Controller!WatcherStep(i)
               \/ Controller!ActionSends(i) \/ Controller!ActionReturns(i)
        PROVE  Controller!Next
    BY <2>2 DEF Controller!Next, Controller!ActionStep
  <2> QED BY <1>3, <2>1, <2>2 DEF Background
<1>4. CASE TimePasses
  BY <1>4 DEF TimePasses
<1>5. CASE ProcessEnds
  BY <1>5 DEF ProcessEnds, Controller!Next
<1> QED BY <1>1, <1>2, <1>3, <1>4, <1>5 DEF ServiceNext

\* Making the calls of a tick one by one adds no behaviour to the controller and
\* its runners: the service implements WorkloadController for one workload, and
\* whatever is true of every controller is true in it (workload.go:79-342).
THEOREM ServiceImplementsController == ServiceSpec => Controller!Spec
<1>1. ServiceInit => Controller!Init
  BY DEF ServiceInit
<1>2. UNCHANGED controllerVars => UNCHANGED Controller!vars
  BY DEF controllerVars, Controller!vars, Controller!control, Controller!identity
<1>3. UNCHANGED serviceVars => UNCHANGED controllerVars
  BY DEF serviceVars
<1>4. [ServiceNext]_serviceVars => [Controller!Next]_(Controller!vars)
  BY <1>2, <1>3, ControlStep
<1> QED BY <1>1, <1>4, PTL DEF ServiceSpec, Controller!Spec

-----------------------------------------------------------------------------
(* The service implements PositionLifecycle while its loops do not overlap. *)

\* The end of the process, too, leaves phases and trades alone.
LEMMA ServiceLifecycleStep ==
  ASSUME ServiceInv, [ServiceNext]_serviceVars, ~overlapped
  PROVE  Lifecycle!Next \/ UNCHANGED Lifecycle!vars
<1>1. ExclusiveInv
  BY DEF ServiceInv
<1>2. [Next]_vars \/ LoopsDown
  BY LoopSide DEF serviceVars
<1>3. CASE LoopsDown
  BY <1>3, Stutter DEF LoopsDown, tables, market
<1> QED BY <1>1, <1>2, <1>3, LifecycleStep

\* Every step of the service, up to the first moment in which two action loops
\* run, is a step of PositionLifecycle or hidden from it, and in particular every
\* step if that moment never comes (workload.go:79-537).
THEOREM ServiceFollowsLifecycle == ServiceSpec => AloneFollowsLifecycle
<1>1. ServiceInit => Lifecycle!Init
  BY LifecycleInit DEF ServiceInit
<1>2. ServiceInv /\ [ServiceNext]_serviceVars
        => [~overlapped => Lifecycle!Next \/ UNCHANGED Lifecycle!vars]_serviceVars
  BY ServiceLifecycleStep
<1> QED BY <1>1, <1>2, ServiceInvariant, PTL DEF ServiceSpec, AloneFollowsLifecycle

\* A service whose action loops never overlap implements the life of a position.
THEOREM ServiceImplementsLifecycle ==
  ServiceSpec /\ []~overlapped => ImplementsLifecycle
<1>1. ServiceInit => Lifecycle!Init
  BY LifecycleInit DEF ServiceInit
<1>2. ServiceInv /\ [ServiceNext]_serviceVars /\ ~overlapped
        => [Lifecycle!Next]_(Lifecycle!vars)
  BY ServiceLifecycleStep
<1> QED BY <1>1, <1>2, ServiceInvariant, PTL DEF ServiceSpec, ImplementsLifecycle, Lifecycle!Spec
=============================================================================
