------------------------ MODULE ActionLoopProperties ------------------------
(***************************************************************************)
(* What the action loop guarantees.  The first group holds however many    *)
(* loops run on the workload at the same time; the second needs the        *)
(* controller to keep to one loop (Exclusive); the third also needs the    *)
(* fairness of FairSpec.  The last one states what the program says of     *)
(* itself and does not do.                                                 *)
(***************************************************************************)
EXTENDS ActionLoop

-----------------------------------------------------------------------------
(* For any number of overlapping loops.                                    *)

\* OrdersBreakdown never meets an inconsistent pair: an exit order is in the
\* table only once the entry order of the position is recorded as executed
\* (position.go:127-152).
OrdersConsistent ==
  \A p \in Positions : order[Exit(p)] # "none" => order[Entry(p)] = "executed"

\* An order recorded as executed was filled by the exchange, however late
\* the record was made and by whichever loop (workload.go:307-336).
RecordedMeansFilled ==
  \A o \in Orders : order[o] = "executed" => fills[o] > 0

\* The service never sells what it has not bought: an exit order is filled
\* only for a position whose entry order was filled (workload.go:464-502).
NoNakedSell ==
  \A p \in Positions : fills[Exit(p)] > 0 => fills[Entry(p)] > 0

\* A "position closed" event is published for a position that is closed, and
\* whose "position opened" event was published (position.go:235-258).
ClosedEventTruthful ==
  \A p \in Positions : closedEvents[p] > 0 => /\ position[p] = "CLOSED"
                                              /\ openedEvents[p] > 0

-----------------------------------------------------------------------------
(* For one loop at a time, which may end anywhere and be started again.    *)

\* The exchange fills an order at most once, though the loop sends it again
\* after a lost answer or a restart (workload.go:294-336).
SingleFill == \A o \in Orders : fills[o] <= 1

\* The limit of open positions is respected, though it is read long before
\* the position is inserted (position.go:175-238).
LimitRespected == Cardinality(OpenPositions) <= OpenPositionsLimit

\* A closed position whose purchase is on record is sold, and the sale is on
\* record (workload.go:452-515).
ClosedAfterExit ==
  \A p \in Positions :
    position[p] = "CLOSED" /\ order[Entry(p)] = "executed"
      => order[Exit(p)] = "executed"

\* The end of a position is announced at most once (position.go:251-261).
ClosedEventOnce == \A p \in Positions : closedEvents[p] <= 1

\* Ends of the loop between the two inserts leave at most one position
\* without an order, however many there are: the loop that comes next reads
\* the positions before it may open another one (workload.go:263-267,
\* 374-395, 408-416).
AtMostOneOrphan == \A p, q \in Positions : Orphan(p) /\ Orphan(q) => p = q

\* Nothing is bought or sold for a position that is closed: no queue holds
\* an order of a position closed in the meantime (workload.go:464-516).
NoTradeOfClosed ==
  \A p \in Positions : position[p] = "CLOSED" =>
    \A s \in Sides : fills'[<<p, s>>] = fills[<<p, s>>]

NothingTradedAfterClose == [][NoTradeOfClosed]_vars

\* The phase of a position as the tables tell it.
Phase(p) ==
  CASE position[p] = "none" -> "absent"
    [] position[p] = "CLOSED" -> "closed"
    [] OTHER -> CASE order[Entry(p)] = "none" -> "opened"
                  [] order[Entry(p)] = "new" -> "entering"
                  [] OTHER -> CASE order[Exit(p)] = "none" -> "holding"
                                [] order[Exit(p)] = "new" -> "exiting"
                                [] OTHER -> "exited"

PhaseOf == [p \in Positions |-> Phase(p)]
Bought == [p \in Positions |-> fills[Entry(p)]]
Sold == [p \in Positions |-> fills[Exit(p)]]

Lifecycle == INSTANCE PositionLifecycle
  WITH phase <- PhaseOf, bought <- Bought, sold <- Sold

\* The loop, with its failures and restarts, implements the life of a
\* position (workload.go:257-537).
ImplementsLifecycle == Lifecycle!Spec

-----------------------------------------------------------------------------
(* For one loop at a time under FairSpec.                                  *)

\* An entry order is executed, or its position is closed: it does not stay
\* in the queue for good, whatever the exchange does (workload.go:464-478).
EntryResolves ==
  \A p \in Positions :
    []<>(\/ order[Entry(p)] # "new"
         \/ position[p] = "CLOSED"
         \/ Wedged)

\* A position that was sold is closed, even if the answer of the exchange
\* was lost (workload.go:307-316, 504-515).
SoldIsClosed ==
  \A p \in Positions :
    []<>(fills[Exit(p)] > 0 => position[p] = "CLOSED" \/ Wedged)

\* An exit order is sent again and again until it is executed
\* (workload.go:504-507).
ExitKeepsTrying ==
  \A p \in Positions :
    []<>(\/ order[Exit(p)] # "new"
         \/ \E r \in Runners : pc[r] = "execute" /\ Heads(r, Exit(p))
         \/ Wedged)

-----------------------------------------------------------------------------
(* What the program says and does not do.                                  *)

\* When "Position has been closed" (event.go:39) is announced, nothing that
\* was bought for the position is left unsold.
ClosedMeansFlat ==
  \A p \in Positions : closedEvents[p] > 0 => fills[Entry(p)] = fills[Exit(p)]
=============================================================================
