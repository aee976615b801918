----------------------- MODULE WorkloadControllerProofs -----------------------
(***************************************************************************)
(* Type correctness of the controller for any number of workloads, and,    *)
(* for a single one, that it has at most one healthy runner and that its   *)
(* key is in the registry as long as one is looked after.                  *)
(***************************************************************************)
EXTENDS WorkloadControllerProperties, TLAPS

\* The type invariant holds initially.
LEMMA TypeInit == Init => TypeOK
  BY DEF Init, TypeOK, Gone

\* Every step of the controller preserves the type invariant.
LEMMA TypeStep == TypeOK /\ [Next]_vars => TypeOK'
<1> SUFFICES ASSUME TypeOK, [Next]_vars PROVE TypeOK'
  OBVIOUS
<1> USE NoWorkloadAssumption DEF TypeOK, Gone
<1>1. CASE ControllerStep
  <2>1. CASE FetchWorkloads \/ FetchFails \/ BeginPass
    BY <2>1 DEF FetchWorkloads, FetchFails, BeginPass, ControllerGoes, identity
  <2>2. ASSUME NEW w \in Workloads, SkipRunning(w) \/ ConnectFails(w)
        PROVE  TypeOK'
    BY <2>2 DEF SkipRunning, ConnectFails, Visit, control, identity
  <2>3. ASSUME NEW w \in Workloads, NEW i \in Runners, Run(w, i) PROVE TypeOK'
    BY <2>3 DEF Run, Visit
  <2>4. CASE PassDone
    BY <2>4 DEF PassDone, ControllerGoes, identity
  <2> QED BY <1>1, <2>1, <2>2, <2>3, <2>4 DEF ControllerStep
<1>2. ASSUME NEW i \in Runners, DataStep(i) PROVE TypeOK'
  <2> USE DEF DataGoes, control, identity
  <2>1. CASE SaveHistory(i) \/ SaveTick(i) \/ DataFails(i)
    BY <2>1 DEF SaveHistory, SaveTick, DataFails
  <2>2. CASE DataSends(i) \/ DataSeesDone(i)
    BY <2>2 DEF DataSends, DataSeesDone
  <2>3. CASE DeleteCandles(i) \/ DataReturns(i)
    BY <2>3 DEF DeleteCandles, DataReturns
  <2> QED BY <1>2, <2>1, <2>2, <2>3 DEF DataStep
<1>3. ASSUME NEW i \in Runners, ActionStep(i) PROVE TypeOK'
  <2> USE DEF ActionGoes, control, identity
  <2>1. CASE ActionTick(i) \/ LastClosePrice(i) \/ OrdersDone(i) \/ ActionFails(i)
    BY <2>1 DEF ActionTick, LastClosePrice, OrdersDone, ActionFails
  <2>2. CASE ActionSends(i) \/ ActionSeesDone(i) \/ ActionReturns(i)
    BY <2>2 DEF ActionSends, ActionSeesDone, ActionReturns
  <2> QED BY <1>3, <2>1, <2>2 DEF ActionStep
<1>4. ASSUME NEW i \in Runners, WatcherStep(i) PROVE TypeOK'
  BY <1>4 DEF WatcherStep, WatcherReceives, WatcherDeletes, control, identity
<1>5. CASE Restart
  BY <1>5 DEF Restart
<1>6. CASE UNCHANGED vars
  BY <1>6 DEF vars, control, identity
<1> QED BY <1>1, <1>2, <1>3, <1>4, <1>5, <1>6 DEF Next, Panic, Crash

\* The variables of the controller keep their types (workload.go:32-209).
THEOREM TypeCorrect == Spec => []TypeOK
  BY TypeInit, TypeStep, PTL DEF Spec

-----------------------------------------------------------------------------
(* A single workload.                                                      *)

OneWorkload == \A v, w \in Workloads : v = w

\* The invariant holds initially.
LEMMA ControllerInit == Init => ControllerInv
  BY TypeInit DEF Init, ControllerInv, RegistryAccurate, WatchedByName,
                  Unreported, Healthy

\* A step that leaves the registry, the identities and the watchers alone
\* preserves the invariant, if no runner becomes healthy and an error is only
\* buffered for a runner that is not.
LEMMA QuietStep ==
  ASSUME ControllerInv, TypeOK', UNCHANGED <<registry, identity, watcher>>,
         ctl' = "pass" => last' \in Workloads,
         \A i \in Runners : Healthy(i)' => Healthy(i) /\ errChan'[i] = errChan[i]
  PROVE  ControllerInv'
  BY DEF ControllerInv, RegistryAccurate, WatchedByName, Unreported, identity

\* Every step preserves the invariant when there is one workload.
LEMMA ControllerStepInv ==
  ASSUME OneWorkload, ControllerInv, [Next]_vars
  PROVE  ControllerInv'
<1>t. TypeOK /\ TypeOK'
  BY TypeStep DEF ControllerInv
<1>1. CASE ControllerStep
  <2>1. CASE \/ FetchWorkloads \/ FetchFails \/ BeginPass \/ PassDone
             \/ \E w \in Workloads : SkipRunning(w) \/ ConnectFails(w)
    BY <2>1, <1>t, QuietStep
    DEF FetchWorkloads, FetchFails, BeginPass, PassDone, ControllerGoes, SkipRunning,
        ConnectFails, Visit, Healthy, identity, ControllerInv
  <2>2. ASSUME NEW w \in Workloads, NEW i \in Runners, Run(w, i)
        PROVE  ControllerInv'
    <3>1. /\ last = w /\ last' = last /\ w \notin registry
          /\ registry' = registry \cup {w}
          /\ owner' = [owner EXCEPT ![i] = w]
          /\ cell' = [cell EXCEPT ![i] = w]
          /\ watcher' = [watcher EXCEPT ![i] = "watching"]
          /\ errChan' = [errChan EXCEPT ![i] = 0]
      BY <2>2 DEF Run, Visit, ControllerInv, OneWorkload
    <3>2. \A j \in Runners : watcher[j] = "done"
      BY <3>1 DEF ControllerInv, RegistryAccurate, WatchedByName, OneWorkload
    <3>3. RegistryAccurate'
      BY <3>1, <3>2, <1>t DEF RegistryAccurate, TypeOK, ControllerInv, OneWorkload
    <3>4. \A j \in Runners : WatchedByName(j)'
      BY <3>1, <3>2, <1>t DEF WatchedByName, TypeOK
    <3>5. ASSUME NEW j \in Runners PROVE Unreported(j)'
      <4>1. CASE j = i
        BY <4>1, <3>1, <1>t DEF Unreported, TypeOK
      <4>2. CASE j # i
        BY <4>2, <3>1, <3>2, <2>2, <1>t
        DEF Unreported, Healthy, TypeOK, Run, ControllerInv
      <4> QED BY <4>1, <4>2
    <3>6. \A j, k \in Runners :
            watcher'[j] # "done" /\ watcher'[k] # "done" => j = k
      BY <3>1, <3>2, <1>t DEF TypeOK
    <3> QED BY <1>t, <3>1, <3>3, <3>4, <3>5, <3>6 DEF ControllerInv
  <2> QED BY <1>1, <2>1, <2>2 DEF ControllerStep
<1>2. ASSUME NEW i \in Runners, DataStep(i) PROVE ControllerInv'
  <2>1. UNCHANGED <<registry, identity, watcher, ctl, last>>
    BY <1>2 DEF DataStep, SaveHistory, SaveTick, DataFails, DataSends, DataSeesDone,
                DeleteCandles, DataReturns, DataGoes, control
  <2>2. \A j \in Runners : Healthy(j)' => Healthy(j) /\ errChan'[j] = errChan[j]
    BY <1>2, <1>t DEF DataStep, SaveHistory, SaveTick, DataFails, DataSends, DataSeesDone,
                DeleteCandles, DataReturns, DataGoes, Healthy, TypeOK
  <2> QED BY <1>t, <2>1, <2>2, QuietStep DEF ControllerInv
<1>3. ASSUME NEW i \in Runners, ActionStep(i) PROVE ControllerInv'
  <2>1. UNCHANGED <<registry, identity, watcher, ctl, last>>
    BY <1>3 DEF ActionStep, ActionTick, LastClosePrice, OrdersDone, ActionFails,
                ActionSends, ActionSeesDone, ActionReturns, ActionGoes, control
  <2>2. \A j \in Runners : Healthy(j)' => Healthy(j) /\ errChan'[j] = errChan[j]
    BY <1>3, <1>t DEF ActionStep, ActionTick, LastClosePrice, OrdersDone, ActionFails,
                ActionSends, ActionSeesDone, ActionReturns, ActionGoes, Healthy, TypeOK
  <2> QED BY <1>t, <2>1, <2>2, QuietStep DEF ControllerInv
<1>4. ASSUME NEW i \in Runners, WatcherReceives(i) PROVE ControllerInv'
  <2>1. ~Healthy(i)
    BY <1>4 DEF WatcherReceives, ControllerInv, Unreported
  <2>2. \A j \in Runners : /\ watcher'[j] # "done" <=> watcher[j] # "done"
                           /\ Healthy(j)' <=> Healthy(j)
                           /\ j # i => watcher'[j] = watcher[j] /\ errChan'[j] = errChan[j]
    BY <1>4, <1>t DEF WatcherReceives, Healthy, TypeOK
  <2> QED BY <1>4, <1>t, <2>1, <2>2
          DEF WatcherReceives, ControllerInv, RegistryAccurate, WatchedByName,
              Unreported, control, identity
<1>5. ASSUME NEW i \in Runners, WatcherDeletes(i) PROVE ControllerInv'
  <2>1. owner[i] \in Workloads /\ cell[i] = owner[i]
    BY <1>5 DEF WatcherDeletes, ControllerInv, WatchedByName
  <2>2. \A j \in Runners : watcher[j] # "done" => j = i
    BY <1>5, <2>1 DEF WatcherDeletes, ControllerInv, WatchedByName, OneWorkload
  <2>3. \A j \in Runners : watcher'[j] = "done"
    BY <1>5, <1>t, <2>2 DEF WatcherDeletes, TypeOK
  <2>4. \A w \in Workloads : w \notin registry'
    BY <1>5, <2>1 DEF WatcherDeletes, OneWorkload
  <2>5. \A j \in Runners : Unreported(j)'
    BY <1>5, <2>2, <1>t DEF WatcherDeletes, Unreported, Healthy, ControllerInv, TypeOK
  <2> QED BY <1>5, <1>t, <2>3, <2>4, <2>5
          DEF WatcherDeletes, ControllerInv, RegistryAccurate, WatchedByName
<1>6. CASE Restart
  BY <1>6, <1>t DEF Restart, ControllerInv, RegistryAccurate, WatchedByName,
                    Unreported, Healthy
<1>7. CASE UNCHANGED vars
  BY <1>7, <1>t, QuietStep DEF vars, control, identity, Healthy, ControllerInv
<1> QED BY <1>1, <1>2, <1>3, <1>4, <1>5, <1>6, <1>7
        DEF Next, WatcherStep, Panic, Crash

\* With one workload the invariant always holds (workload.go:79-209).
THEOREM ControllerInvariant ==
  ASSUME OneWorkload PROVE Spec => []ControllerInv
  BY ControllerInit, ControllerStepInv, PTL DEF Spec

\* With one workload, however many of its runners have failed and however
\* many goroutines of theirs are left, at most one goes on
\* (workload.go:94-96, 128-143).
THEOREM AtMostOneRunner ==
  ASSUME OneWorkload PROVE Spec => []OneRunnerPerWorkload
<1>1. ControllerInv => OneRunnerPerWorkload
  BY DEF ControllerInv, OneRunnerPerWorkload, Unreported
<1> QED BY <1>1, ControllerInvariant, PTL

\* With one workload, no key is left behind and none is missing
\* (workload.go:128-143).
THEOREM RegistryIsAccurate ==
  ASSUME OneWorkload PROVE Spec => []RegistryAccurate
<1>1. ControllerInv => RegistryAccurate
  BY DEF ControllerInv
<1> QED BY <1>1, ControllerInvariant, PTL
=============================================================================
