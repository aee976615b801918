------------------------- MODULE WorkloadController -------------------------
(***************************************************************************)
(* The workload controller (trading/workload.go, WorkloadController): its  *)
(* registry of running workloads, the runners it starts from the registry, *)
(* the two loops of a runner (dataLoop, actionLoop), the context and the   *)
(* error channel they share, the goroutine that watches the channel, and   *)
(* the candle repository, of which only emptiness matters here.            *)
(*                                                                         *)
(* Of the action loop (module ActionLoop) only what concerns its runner is *)
(* here: a tick in progress, before and after the current price is read.   *)
(* The registry's mutex is held while ctl is "pass"; the only other holder *)
(* is WatcherDeletes, which is one step.  The rows of the workload table   *)
(* are inserted by hand and stay.  The context of main is never cancelled  *)
(* before the process ends (cmd/trading/main.go:19-20, 62).                *)
(***************************************************************************)
EXTENDS Naturals

CONSTANTS Workloads,   \* the workload table
          Runners,     \* bound: identities for runners not entirely gone
          NoWorkload   \* owner of an identity never used

ASSUME NoWorkloadAssumption == NoWorkload \notin Workloads

VARIABLES
  ctl,        \* the controller's loop: "wait"ing for the ticker, "fetching" the
              \* workloads, or in a "pass"
  todo,       \* fetched workloads the pass has not come to
  last,       \* the last of the workloads the pass has fetched
  registry,   \* the keys of wc.workloads
  owner,      \* owner[i]: the workload of runner i
  cell,       \* cell[i]: the loop variable `workload' captured by i's watcher
  data,       \* data[i]: where the data loop of i is
  action,     \* action[i]: where the action loop of i is
  cancelled,  \* cancelled[i]: loopCtx of i is cancelled
  errChan,    \* errChan[i]: number of errors buffered in the channel
  watcher,    \* watcher[i]: where the goroutine of lines 130-143 is
  candles     \* the workloads with at least one candle in the repository

control == <<ctl, todo, last, registry>>
identity == <<owner, cell>>
vars == <<control, identity, data, action, cancelled, errChan, watcher, candles>>
-----------------------------------------------------------------------------
\* None of the goroutines of runner i is left.
Gone(i) == data[i] = "ended" /\ action[i] = "ended" /\ watcher[i] = "done"

TypeOK ==
  /\ ctl \in {"wait", "fetching", "pass"}
  /\ todo \in SUBSET Workloads
  /\ last \in Workloads \cup {NoWorkload}
  /\ registry \in SUBSET Workloads
  /\ owner \in [Runners -> Workloads \cup {NoWorkload}]
  /\ cell \in [Runners -> Workloads \cup {NoWorkload}]
  /\ data \in [Runners -> {"fetching", "live", "failed", "deleting",
                           "returned", "ended"}]
  /\ action \in [Runners -> {"waiting", "price", "orders", "failed",
                             "returned", "ended"}]
  /\ cancelled \in [Runners -> BOOLEAN]
  /\ errChan \in [Runners -> {0, 1}]
  /\ watcher \in [Runners -> {"watching", "deleting", "done"}]
  /\ candles \in SUBSET Workloads
  /\ \A i \in Runners : owner[i] = NoWorkload => Gone(i)

Init ==
  /\ ctl = "wait"
  /\ todo = {}
  /\ last = NoWorkload
  /\ registry = {}
  /\ owner = [i \in Runners |-> NoWorkload]
  /\ cell = [i \in Runners |-> NoWorkload]
  /\ data = [i \in Runners |-> "ended"]
  /\ action = [i \in Runners |-> "ended"]
  /\ cancelled = [i \in Runners |-> FALSE]
  /\ errChan = [i \in Runners |-> 0]
  /\ watcher = [i \in Runners |-> "done"]
  /\ candles = {}

-----------------------------------------------------------------------------
(* The controller's loop.                                                  *)

ControllerGoes(from, to) ==
  /\ ctl = from
  /\ ctl' = to
  /\ UNCHANGED <<registry, identity, data, action, cancelled, errChan, watcher,
                 candles>>

\* At a tick the workloads are asked for.
FetchWorkloads == ControllerGoes("wait", "fetching") /\ UNCHANGED <<todo, last>>

\* The query fails, and there is no pass at this tick.
FetchFails == ControllerGoes("fetching", "wait") /\ UNCHANGED <<todo, last>>

\* The workloads have arrived, in any order, and the registry is locked.
BeginPass ==
  /\ ControllerGoes("fetching", "pass")
  /\ todo' = Workloads
  /\ last' \in Workloads

\* The pass comes to workload w.
Visit(w) == /\ ctl = "pass"
            /\ w \in todo
            /\ w = last => todo = {w}
            /\ todo' = todo \ {w}

SkipRunning(w) ==
  /\ Visit(w)
  /\ w \in registry
  /\ UNCHANGED <<ctl, last, registry, identity, data, action, cancelled,
                 errChan, watcher, candles>>

ConnectFails(w) ==
  /\ Visit(w)
  /\ w \notin registry
  /\ UNCHANGED <<ctl, last, registry, identity, data, action, cancelled,
                 errChan, watcher, candles>>

\* Mutation: the runner is not registered.
RunUnregistered(w, i) ==
  /\ Visit(w)
  /\ w \notin registry
  /\ Gone(i)
  /\ owner' = [owner EXCEPT ![i] = w]
  /\ cell' = [cell EXCEPT ![i] = last]
  /\ data' = [data EXCEPT ![i] = "fetching"]
  /\ action' = [action EXCEPT ![i] = "waiting"]
  /\ cancelled' = [cancelled EXCEPT ![i] = FALSE]
  /\ errChan' = [errChan EXCEPT ![i] = 0]
  /\ watcher' = [watcher EXCEPT ![i] = "watching"]
  /\ UNCHANGED <<ctl, last, registry, candles>>

\* RunWorkload, the registration, and the start of the watcher.  All the
\* watchers of a pass share the variable of the range clause, which is at
\* the last workload whenever they get at it: they need the mutex first.
Run(w, i) ==
  /\ Visit(w)
  /\ w \notin registry
  /\ Gone(i)
  /\ registry' = registry \cup {w}
  /\ owner' = [owner EXCEPT ![i] = w]
  /\ cell' = [cell EXCEPT ![i] = last]
  /\ data' = [data EXCEPT ![i] = "fetching"]
  /\ action' = [action EXCEPT ![i] = "waiting"]
  /\ cancelled' = [cancelled EXCEPT ![i] = FALSE]
  /\ errChan' = [errChan EXCEPT ![i] = 0]
  /\ watcher' = [watcher EXCEPT ![i] = "watching"]
  /\ UNCHANGED <<ctl, last, candles>>

PassDone ==
  /\ todo = {}
  /\ ControllerGoes("pass", "wait")
  /\ last' = NoWorkload
  /\ UNCHANGED todo

-----------------------------------------------------------------------------
(* The data loop.                                                          *)

DataGoes(i, from, to) ==
  /\ data[i] = from
  /\ data' = [data EXCEPT ![i] = to]
  /\ UNCHANGED <<control, identity, action, watcher>>

\* The history arrives, which may be empty, and is saved.
SaveHistory(i) ==
  /\ DataGoes(i, "fetching", "live")
  /\ candles' \in {candles, candles \cup {owner[i]}}
  /\ UNCHANGED <<cancelled, errChan>>

SaveTick(i) ==
  /\ DataGoes(i, "live", "live")
  /\ candles' = candles \cup {owner[i]}
  /\ UNCHANGED <<cancelled, errChan>>

\* The request for the history fails, the ticker is idle or reports an error.
DataFails(i) ==
  /\ \E from \in {"fetching", "live"} : DataGoes(i, from, "failed")
  /\ UNCHANGED <<cancelled, errChan, candles>>

DataSends(i) ==
  /\ errChan[i] = 0
  /\ DataGoes(i, "failed", "deleting")
  /\ errChan' = [errChan EXCEPT ![i] = 1]
  /\ UNCHANGED <<cancelled, candles>>

DataSeesDone(i) ==
  /\ cancelled[i]
  /\ DataGoes(i, "live", "deleting")
  /\ UNCHANGED <<cancelled, errChan, candles>>

\* The deferred DeleteCandles.
DeleteCandles(i) ==
  /\ DataGoes(i, "deleting", "returned")
  /\ candles' = candles \ {owner[i]}
  /\ UNCHANGED <<cancelled, errChan>>

DataReturns(i) ==
  /\ DataGoes(i, "returned", "ended")
  /\ cancelled' = [cancelled EXCEPT ![i] = TRUE]
  /\ UNCHANGED <<errChan, candles>>

-----------------------------------------------------------------------------
(* The action loop.                                                        *)

ActionGoes(i, from, to) ==
  /\ action[i] = from
  /\ action' = [action EXCEPT ![i] = to]
  /\ UNCHANGED <<control, identity, data, watcher, candles>>

\* A tick, until the positions are fetched.
ActionTick(i) ==
  /\ ActionGoes(i, "waiting", "price")
  /\ UNCHANGED <<cancelled, errChan>>

\* The close price of the last candle.
LastClosePrice(i) ==
  /\ owner[i] \in candles
  /\ ActionGoes(i, "price", "orders")
  /\ UNCHANGED <<cancelled, errChan>>

OrdersDone(i) ==
  /\ ActionGoes(i, "orders", "waiting")
  /\ UNCHANGED <<cancelled, errChan>>

\* A call of the tick returns an error.
ActionFails(i) ==
  /\ \E from \in {"price", "orders"} : ActionGoes(i, from, "failed")
  /\ UNCHANGED <<cancelled, errChan>>

\* Mutation: the channel has no buffer, the watcher must be there to receive.
ActionSendsUnbuffered(i) ==
  /\ errChan[i] = 0
  /\ watcher[i] = "watching"
  /\ ActionGoes(i, "failed", "returned")
  /\ errChan' = [errChan EXCEPT ![i] = 1]
  /\ UNCHANGED cancelled

ActionSends(i) ==
  /\ errChan[i] = 0
  /\ ActionGoes(i, "failed", "returned")
  /\ errChan' = [errChan EXCEPT ![i] = 1]
  /\ UNCHANGED cancelled

ActionSeesDone(i) ==
  /\ cancelled[i]
  /\ ActionGoes(i, "waiting", "returned")
  /\ UNCHANGED <<cancelled, errChan>>

ActionReturns(i) ==
  /\ ActionGoes(i, "returned", "ended")
  /\ cancelled' = [cancelled EXCEPT ![i] = TRUE]
  /\ UNCHANGED errChan

-----------------------------------------------------------------------------
(* The watcher of a runner.                                                *)

\* Mutation: the watcher does not wait for an error.
WatcherImpatient(i) ==
  /\ watcher[i] = "watching"
  /\ watcher' = [watcher EXCEPT ![i] = "deleting"]
  /\ UNCHANGED <<control, identity, data, action, cancelled, errChan, candles>>

WatcherReceives(i) ==
  /\ watcher[i] = "watching"
  /\ errChan[i] = 1
  /\ errChan' = [errChan EXCEPT ![i] = 0]
  /\ watcher' = [watcher EXCEPT ![i] = "deleting"]
  /\ UNCHANGED <<control, identity, data, action, cancelled, candles>>


\* The key is that of the captured variable.
WatcherDeletes(i) ==
  /\ watcher[i] = "deleting"
  /\ ctl # "pass"
  /\ registry' = registry \ {cell[i]}
  /\ watcher' = [watcher EXCEPT ![i] = "done"]
  /\ UNCHANGED <<ctl, todo, last, identity, data, action, cancelled, errChan,
                 candles>>

-----------------------------------------------------------------------------
\* The process ends and is started again.
Restart ==
  /\ ctl' = "wait"
  /\ todo' = {}
  /\ last' = NoWorkload
  /\ registry' = {}
  /\ owner' = [i \in Runners |-> NoWorkload]
  /\ cell' = [i \in Runners |-> NoWorkload]
  /\ data' = [i \in Runners |-> "ended"]
  /\ action' = [i \in Runners |-> "ended"]
  /\ cancelled' = [i \in Runners |-> FALSE]
  /\ errChan' = [i \in Runners |-> 0]
  /\ watcher' = [i \in Runners |-> "done"]
  /\ candles' = {}

\* candles[len(candles)-1] of an empty slice: the panic ends the process.
PricePanics(i) == action[i] = "price" /\ owner[i] \notin candles

Panic(i) == PricePanics(i) /\ Restart

\* The process is killed, at any time.
Crash == Restart

-----------------------------------------------------------------------------
ControllerStep ==
  \/ FetchWorkloads
  \/ FetchFails
  \/ BeginPass
  \/ \E w \in Workloads : \/ SkipRunning(w)
                          \/ ConnectFails(w)
                          \/ \E i \in Runners : Run(w, i)
  \/ PassDone

DataStep(i) == \/ SaveHistory(i)  \/ SaveTick(i)      \/ DataFails(i)
               \/ DataSends(i)    \/ DataSeesDone(i)
               \/ DeleteCandles(i) \/ DataReturns(i)

ActionStep(i) == \/ ActionTick(i)  \/ LastClosePrice(i) \/ OrdersDone(i)
                 \/ ActionFails(i) \/ ActionSends(i)
                 \/ ActionSeesDone(i) \/ ActionReturns(i)

WatcherStep(i) == WatcherReceives(i) \/ WatcherDeletes(i)

Next == \/ ControllerStep
        \/ \E i \in Runners : \/ DataStep(i) \/ ActionStep(i)
                              \/ WatcherStep(i) \/ Panic(i)
        \/ Crash

Spec == Init /\ [][Next]_vars

\* Goroutines are scheduled, select picks at random among the channels that
\* are ready, so a cancelled context is noticed in the end, and the mutex is
\* free for most of the minute between two passes.
Scheduling ==
  /\ WF_vars(ControllerStep)
  /\ \A i \in Runners :
       /\ WF_vars(DataStep(i)) /\ WF_vars(ActionStep(i)) /\ WF_vars(WatcherStep(i))
       /\ WF_vars(DataSeesDone(i)) /\ SF_vars(ActionSeesDone(i))
       /\ SF_vars(WatcherDeletes(i))

\* What is not the program's own doing; a call that fails because the
\* context is cancelled is.
Failure == \/ Crash
           \/ FetchFails
           \/ \E w \in Workloads : ConnectFails(w)
           \/ \E i \in Runners :
                \/ Panic(i)
                \/ ~cancelled[i] /\ (DataFails(i) \/ ActionFails(i))

FairSpec == Spec /\ Scheduling
=============================================================================
