------------------------- MODULE PositionLifecycle -------------------------
(***************************************************************************)
(* What the trading service promises about a position, whatever happens to *)
(* the process that manages it: a position is opened while there is room   *)
(* under the limit, bought at most once, sold at most once and only after  *)
(* the purchase is on record, and closed either before its purchase is on  *)
(* record or after its sale is.  A closed position is never touched again. *)
(*                                                                         *)
(* The phases are those of an order pair as OrdersBreakdown and            *)
(* refreshOrdersQueue (trading/position.go, trading/workload.go) tell them *)
(* apart.  Module ActionLoop implements this specification.                *)
(***************************************************************************)
EXTENDS Naturals, FiniteSets

CONSTANTS Positions,            \* identifiers of positions
          OpenPositionsLimit    \* how many may be open at a time

VARIABLES phase,    \* phase[p]: where position p is in its life
          bought,   \* bought[p]: how many times its entry order was filled
          sold      \* sold[p]: how many times its exit order was filled

vars == <<phase, bought, sold>>

Phases == {"absent",    \* no such position
           "opened",    \* recorded, no order yet
           "entering",  \* entry order recorded, not known to be executed
           "holding",   \* entry order recorded as executed
           "exiting",   \* exit order recorded, not known to be executed
           "exited",    \* exit order recorded as executed
           "closed"}

Live == {p \in Positions : phase[p] \notin {"absent", "closed"}}

Init == /\ phase = [p \in Positions |-> "absent"]
        /\ bought = [p \in Positions |-> 0]
        /\ sold = [p \in Positions |-> 0]

Move(p, from, to) ==
  /\ phase[p] = from
  /\ phase' = [phase EXCEPT ![p] = to]

Open(p) == /\ Cardinality(Live) < OpenPositionsLimit
           /\ Move(p, "absent", "opened")
           /\ UNCHANGED <<bought, sold>>

PlaceEntry(p) == Move(p, "opened", "entering") /\ UNCHANGED <<bought, sold>>

Buy(p) == /\ phase[p] = "entering"
          /\ bought[p] = 0
          /\ bought' = [bought EXCEPT ![p] = 1]
          /\ UNCHANGED <<phase, sold>>

ConfirmEntry(p) == /\ bought[p] = 1
                   /\ Move(p, "entering", "holding")
                   /\ UNCHANGED <<bought, sold>>

PlaceExit(p) == Move(p, "holding", "exiting") /\ UNCHANGED <<bought, sold>>

Sell(p) == /\ phase[p] = "exiting"
           /\ sold[p] = 0
           /\ sold' = [sold EXCEPT ![p] = 1]
           /\ UNCHANGED <<phase, bought>>

ConfirmExit(p) == /\ sold[p] = 1
                  /\ Move(p, "exiting", "exited")
                  /\ UNCHANGED <<bought, sold>>

Abandon(p) == /\ \E from \in {"opened", "entering"} : Move(p, from, "closed")
              /\ UNCHANGED <<bought, sold>>

Close(p) == Move(p, "exited", "closed") /\ UNCHANGED <<bought, sold>>

Next == \E p \in Positions :
          \/ Open(p)       \/ PlaceEntry(p) \/ Buy(p)  \/ ConfirmEntry(p)
          \/ PlaceExit(p)  \/ Sell(p)       \/ ConfirmExit(p)
          \/ Abandon(p)    \/ Close(p)

Spec == Init /\ [][Next]_vars
=============================================================================
