--------------------------- MODULE TradingService ---------------------------
(***************************************************************************)
(* The service with one workload: the controller and its runners (module   *)
(* WorkloadController) and the action loops of these runners, call by call *)
(* (module ActionLoop).  The two modules speak of the same action loop:    *)
(* where it is in the controller's terms is in action, the next call it    *)
(* makes is in pc.  A step of the service is a step of both, or of one     *)
(* while the other stutters.                                               *)
(*                                                                         *)
(* With Exclusive = FALSE nothing but the controller keeps a second loop   *)
(* from starting.  The tables, the exchange and the published events are   *)
(* outside the process and survive its end.                                *)
(***************************************************************************)
EXTENDS ActionLoopInvariants

CONSTANTS Workload,    \* the only row of the workload table
          NoWorkload,  \* owner of an identity never used
          MaxStarts    \* bound: how many runners are ever started

ASSUME WorkloadAssumption == NoWorkload # Workload
ASSUME StartsAssumption == MaxStarts \in Nat

VARIABLES
  ctl, visiting, last, registry, owner, cell, data, action, cancelled, errChan,
  watcher, candles,   \* see WorkloadController; visiting is its todo
  starts,             \* number of runners started so far
  overlapped          \* history: two action loops have run at the same time

Controller == INSTANCE WorkloadController
  WITH Workloads <- {Workload}, todo <- visiting

controllerVars ==
  <<ctl, visiting, last, registry, owner, cell, data, action, cancelled, errChan, watcher, candles>>
serviceVars == <<vars, controllerVars, starts, overlapped>>
-----------------------------------------------------------------------------
\* What the two modules say of a loop agrees.
InStep(i) ==
  /\ action[i] \in {"failed", "returned", "ended"} <=> pc[i] = "down"
  /\ action[i] = "waiting" <=> pc[i] = "idle"
  /\ action[i] = "price" => pc[i] \in {"count", "create", "announce", "enter", "query", "review"}
  /\ action[i] = "orders" => pc[i] \in {"review", "closing", "orders", "execute", "record"}

ServiceTypeOK ==
  /\ TypeOK
  /\ Controller!TypeOK
  /\ starts \in 0 .. MaxStarts
  /\ overlapped \in BOOLEAN
  /\ \A i \in Runners : InStep(i)

ServiceInit == Init /\ Controller!Init /\ starts = 0 /\ overlapped = FALSE

-----------------------------------------------------------------------------
(* An action loop.                                                         *)

\* RunWorkload starts both loops of the runner.
StartRunner(i) ==
  /\ Controller!Run(Workload, i) /\ Start(i)
  /\ starts < MaxStarts /\ starts' = starts + 1

BeginTick(i) == Controller!ActionTick(i) /\ (QuietTick(i) \/ Signal(i))

\* The calls of a tick before the current price is read: the signal is
\* processed and the open positions are fetched.
BeforePrice(i) ==
  /\ action[i] = "price"
  /\ ProcessSignal(i) \/ QueryPositions(i)
  /\ UNCHANGED controllerVars

ReadPrice(i) ==
  /\ pc[i] = "review"
  /\ Controller!LastClosePrice(i)
  /\ UNCHANGED vars

\* The calls after it, up to the last order of the queue.
AfterPrice(i) ==
  /\ action[i] = "orders"
  /\ \/ \E p \in Positions : \/ ClosePosition(i, p)   \/ QueueEntryOrder(i, p)
                             \/ CreateExitOrder(i, p) \/ HoldPosition(i, p)
                             \/ QueueExitOrder(i, p)
     \/ PublishClosed(i)
     \/ QueueReady(i)
     \/ \E o \in Orders : \/ CheckOrder(i, o) \/ FillOrder(i, o)
                          \/ KillOrder(i, o)  \/ RecordExecution(i, o)
  /\ UNCHANGED controllerVars

EndTick(i) == Controller!OrdersDone(i) /\ TickDone(i)

\* A call fails, before it had an effect or, at the exchange, after it had.
FailTick(i) ==
  /\ Controller!ActionFails(i)
  /\ \/ Stop(i)
     \/ QueryFails(i)
     \/ \E o \in Orders : LoseAnswer(i, o)

\* The loop sees that its context is cancelled, between two ticks only.
SeeDone(i) == Controller!ActionSeesDone(i) /\ Stop(i)

LoopStep(i) == \/ BeginTick(i) \/ BeforePrice(i) \/ ReadPrice(i) \/ AfterPrice(i)
               \/ EndTick(i)   \/ FailTick(i)    \/ SeeDone(i)

-----------------------------------------------------------------------------
(* The rest of the process.                                                *)

\* What the controller does in a pass, but for starting a runner.
PassStep ==
  \/ Controller!FetchWorkloads \/ Controller!FetchFails
  \/ Controller!BeginPass      \/ Controller!PassDone
  \/ Controller!SkipRunning(Workload) \/ Controller!ConnectFails(Workload)

\* Passes that start nothing, watchers, data loops, and what a loop does when
\* it has left its ticks.
Background ==
  /\ \/ PassStep
     \/ \E i \in Runners : \/ Controller!DataStep(i)    \/ Controller!WatcherStep(i)
                           \/ Controller!ActionSends(i) \/ Controller!ActionReturns(i)
  /\ UNCHANGED vars

TimePasses ==
  /\ \/ \E i \in Runners : PauseOver(i)
     \/ \E p \in Positions : Expire(p)
  /\ UNCHANGED controllerVars

\* The local variables of all loops are gone.
LoopsDown ==
  /\ pc' = [r \in Runners |-> "down"]
  /\ quiet' = [r \in Runners |-> "fresh"]
  /\ mine' = [r \in Runners |-> 0]
  /\ todo' = [r \in Runners |-> {}]
  /\ snap' = [r \in Runners |-> NoOrders]
  /\ pending' = [r \in Runners |-> {}]
  /\ UNCHANGED <<tables, events, market>>

\* The process ends, for want of a candle or for any other reason.
ProcessEnds ==
  /\ \/ Controller!Crash
     \/ \E i \in Runners : pc[i] = "review" /\ Controller!Panic(i)
  /\ LoopsDown

ServiceNext ==
  /\ \/ \E i \in Runners : StartRunner(i)
     \/ /\ (\E i \in Runners : LoopStep(i)) \/ Background \/ TimePasses \/ ProcessEnds
        /\ UNCHANGED starts
  /\ overlapped' = (overlapped \/ ~OneLoop')

ServiceSpec == ServiceInit /\ [][ServiceNext]_serviceVars
=============================================================================
