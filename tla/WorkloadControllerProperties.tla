-------------------- MODULE WorkloadControllerProperties --------------------
(***************************************************************************)
(* What the controller guarantees: the endings for any number of           *)
(* workloads, the registry for a single one.  With two, the watchers of a  *)
(* pass share its loop variable (cell) and delete each other's keys, so    *)
(* none of OneRunnerPerWorkload, RegistryAccurate and ControllerInv holds. *)
(***************************************************************************)
EXTENDS WorkloadController

\* Runner i has not failed and has not been told to stop.
Healthy(i) == /\ data[i] \in {"fetching", "live"}
              /\ action[i] \in {"waiting", "price", "orders"}
              /\ ~cancelled[i]

-----------------------------------------------------------------------------
(* For any number of workloads, under FairSpec.                            *)

\* Time and again both loops of a runner are at work or both have ended: none
\* trades on without data, nor collects data for nobody, nor is left blocked on
\* the error channel, though both may send and only one error is ever received
\* (workload.go:130-138, 192-206).
LoopsEndTogether ==
  \A i \in Runners :
    []<>(Healthy(i) \/ (data[i] = "ended" /\ action[i] = "ended"))

-----------------------------------------------------------------------------
(* For one workload.                                                       *)

\* A workload has at most one runner that goes on: the registry, set under
\* the mutex and cleared by the watcher, keeps a second one from being
\* started (workload.go:94-96, 128-143).
OneRunnerPerWorkload ==
  \A i, j \in Runners :
    Healthy(i) /\ Healthy(j) /\ owner[i] = owner[j] => i = j

\* A workload is in the registry exactly as long as a watcher looks after a
\* runner of it: no key is left behind by a dead runner, which would keep
\* the workload from being started again (workload.go:128-143).
RegistryAccurate ==
  \A w \in Workloads :
    w \in registry <=> \E i \in Runners : owner[i] = w /\ watcher[i] # "done"

\* Whoever watches runner i watches it under its own key.
WatchedByName(i) ==
  watcher[i] # "done" => owner[i] \in Workloads /\ cell[i] = owner[i]

\* A runner that goes on has not reported anything.
Unreported(i) == Healthy(i) => watcher[i] = "watching" /\ errChan[i] = 0

\* The inductive invariant behind the two: besides them, a key belongs to one
\* watcher, which is still waiting while the runner goes on.
ControllerInv ==
  /\ TypeOK
  /\ ctl = "pass" => last \in Workloads
  /\ RegistryAccurate
  /\ \A i \in Runners : WatchedByName(i) /\ Unreported(i)
  /\ \A i, j \in Runners :
       watcher[i] # "done" /\ watcher[j] # "done" /\ owner[i] = owner[j] => i = j

-----------------------------------------------------------------------------
(* For one workload, under FairSpec.                                       *)

\* A runner works on w, and has candles to work on.
Served(w) == /\ w \in candles
             /\ \E i \in Runners : /\ owner[i] = w
                                   /\ Healthy(i)
                                   /\ data[i] = "live"

=============================================================================
