------------------------ MODULE ActionLoopInvariants ------------------------
(***************************************************************************)
(* The inductive invariants of ActionLoop: what the tables, the exchange   *)
(* and the local variables of the loops agree on between any two calls.    *)
(* SharedInv holds however many loops run, ExclusiveInv for one loop.      *)
(***************************************************************************)
EXTENDS ActionLoopProperties

-----------------------------------------------------------------------------
(* For any number of loops.                                                *)

\* Only an order of the table is sent to the exchange.
FilledIsListed == \A o \in Orders : fills[o] > 0 => order[o] # "none"

\* The entry order is inserted after the position and its announcement.
Announced ==
  \A p \in Positions :
    order[Entry(p)] # "none" => position[p] # "none" /\ openedEvents[p] > 0

\* The fetched orders are what the table held at some time: they may lag
\* behind the table, never be ahead of it.
SnapBehind(r) ==
  \A o \in Orders :
    /\ snap[r][o] # "none" => order[o] # "none"
    /\ snap[r][o] = "executed" => order[o] = "executed"

\* A position still to review was fetched with its entry order, and a
\* position has no more than one order in the queue, once it is reviewed.
QueueSound(r) ==
  /\ \A p \in todo[r] : /\ snap[r][Entry(p)] # "none"
                        /\ Entry(p) \notin pending[r] /\ Exit(p) \notin pending[r]
  /\ \A o \in pending[r] : order[o] # "none"
  /\ \A o, q \in pending[r] : o[1] = q[1] => o = q

\* What loop r is about to do is true of the tables and the exchange.
StepSound(r) ==
  /\ pc[r] = "record" => \A o \in Orders : Heads(r, o) => fills[o] > 0
  /\ pc[r] \in {"announce", "enter"} => position[mine[r]] # "none"
  /\ pc[r] = "enter" => openedEvents[mine[r]] > 0
  /\ pc[r] = "closing" => /\ position[mine[r]] = "CLOSED"
                          /\ openedEvents[mine[r]] > 0

\* The inductive invariant behind the properties of overlapping loops.
SharedInv ==
  /\ TypeOK
  /\ OrdersConsistent
  /\ RecordedMeansFilled
  /\ FilledIsListed
  /\ Announced
  /\ ClosedEventTruthful
  /\ \A r \in Runners : SnapBehind(r) /\ QueueSound(r) /\ StepSound(r)

-----------------------------------------------------------------------------
(* For one loop at a time.                                                 *)

\* One loop runs.
OneLoop == \A q, r \in Runners : pc[q] # "down" /\ pc[r] # "down" => q = r

\* What the loop fetched is still in the tables.
SnapCurrent(r) ==
  \A p \in todo[r] : /\ position[p] = "OPEN"
                     /\ snap[r][Entry(p)] = order[Entry(p)]
                     /\ snap[r][Exit(p)] = order[Exit(p)]

\* The queue holds orders of open positions that are not yet executed.
QueueCurrent(r) ==
  \A o \in pending[r] : order[o] = "new" /\ position[o[1]] = "OPEN"

\* What the loop has checked still holds when it acts on it.
StepCurrent(r) ==
  /\ pc[r] = "create" => Cardinality(OpenPositions) < OpenPositionsLimit
  /\ pc[r] \in {"announce", "enter"} =>
       position[mine[r]] = "OPEN" /\ order[Entry(mine[r])] = "none"
  /\ pc[r] = "execute" => \A o \in Orders : Heads(r, o) => fills[o] = 0
  /\ pc[r] = "closing" => closedEvents[mine[r]] = 0

\* An open position has not been announced as closed.
OpenUnannounced ==
  \A p \in Positions : position[p] # "CLOSED" => closedEvents[p] = 0

\* While a position has no order, its loop is about to insert it, or the
\* loop has just started and gets no further than the next query.
WedgeSound ==
  Wedged => \A r \in Runners :
              \/ pc[r] \in {"down", "announce", "enter", "query"}
              \/ pc[r] = "idle" /\ quiet[r] = "fresh"

\* The inductive invariant behind the properties of one loop at a time.
ExclusiveInv ==
  /\ SharedInv
  /\ OneLoop
  /\ SingleFill
  /\ LimitRespected
  /\ ClosedAfterExit
  /\ ClosedEventOnce
  /\ OpenUnannounced
  /\ AtMostOneOrphan
  /\ WedgeSound
  /\ \A r \in Runners : SnapCurrent(r) /\ QueueCurrent(r) /\ StepCurrent(r)
=============================================================================
