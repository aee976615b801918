---------------------- MODULE TradingServiceProperties ----------------------
(***************************************************************************)
(* What the controller and the action loops guarantee together, for one    *)
(* workload and one process that ends and is started again.                *)
(***************************************************************************)
EXTENDS TradingService

\* The failures of an action loop alone never put two loops on the same tables:
\* a loop is joined by that of another runner only after its data loop has left
\* it alone (workload.go:130-143, 192-206).
OverlapOnlyByData ==
  \A i, j \in Runners :
    i # j /\ pc[i] # "down" /\ pc[j] # "down"
      => \E k \in {i, j} : data[k] \in {"deleting", "returned", "ended"}

\* As long as no two loops have run at the same time, ends of loops and of the
\* process, wherever they come, break none of what one loop guarantees.
AloneIsSafe ==
  ~overlapped => SingleFill /\ LimitRespected /\ ClosedAfterExit /\ ClosedEventOnce

\* Whatever the controller, its runners and the process do, a position goes
\* through its life as PositionLifecycle has it, up to the first moment in which
\* two loops run (workload.go:79-537).
AloneFollowsLifecycle ==
  /\ Lifecycle!Init
  /\ [][~overlapped => Lifecycle!Next \/ UNCHANGED Lifecycle!vars]_serviceVars

\* The controller looks after one runner at most, under the right key, and the
\* key is in the registry as long as it does.
LookedAfter ==
  /\ ctl = "pass" => last = Workload
  /\ Workload \in registry <=> \E i \in Runners : watcher[i] # "done"
  /\ \A i \in Runners : watcher[i] # "done" => owner[i] = Workload /\ cell[i] = Workload
  /\ \A i, j \in Runners : watcher[i] # "done" /\ watcher[j] # "done" => i = j

\* Where there is an error, or the watcher has seen one, a loop has sent it.
ErrorHasSender(i) ==
  watcher[i] # "watching" \/ errChan[i] > 0
    => \/ data[i] \in {"deleting", "returned", "ended"}
       \/ action[i] \in {"returned", "ended"}

\* The inductive invariant behind the two.
ServiceInv ==
  /\ ServiceTypeOK
  /\ LookedAfter
  /\ \A i \in Runners : ErrorHasSender(i)
  /\ SharedInv
  /\ ~overlapped => ExclusiveInv
=============================================================================
