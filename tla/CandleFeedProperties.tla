------------------------- MODULE CandleFeedProperties -------------------------
(***************************************************************************)
(* What the idle timer and the websocket guarantee to the data loop, and   *)
(* what its end leaves behind.                                             *)
(***************************************************************************)
EXTENDS CandleFeed

\* Stop returned false: then the firing is in the channel or on its way, and
\* the receive that drains it (workload.go:241-243) cannot block for good.
DrainNeverStuck == data = "draining" => expired \/ timer = "firing"

\* A firing is there at most once, and only in the place of the armed timer;
\* the drained timer holds none when it is armed again.
OneFiring ==
  /\ expired => timer = "off"
  /\ data = "resetting" => timer = "off" /\ ~expired
  /\ data \in {"fetching", "starting"} => timer = "off" /\ ~expired
  /\ data \in {"selecting", "saving", "stopping"} => timer # "off" \/ expired

\* A firing that is not drained belongs to the last time the timer was armed.
FiringIsDue == timer = "firing" \/ expired => quiet = IdleTimeout

\* The inductive invariant behind these.
FeedInv == TypeOK /\ DrainNeverStuck /\ OneFiring /\ FiringIsDue

\* The loop gives up on an idle ticker only when the time since the last tick it
\* saved is up: no firing of an earlier wait ends it (workload.go:241-247).
IdleMeansQuiet ==
  [][data = "selecting" /\ data' = "failing" /\ expired /\ ~expired'
       => quiet = IdleTimeout]_vars

-----------------------------------------------------------------------------
(* Under FairSpec.                                                         *)

\* A loop whose ticker says nothing, refuses the connection, fails or is stuck
\* does not wait for ever: it saves ticks for good, or it ends
\* (workload.go:231-254).
TicksOrEnds == []<>(data = "saving") \/ <>(data = "ended")

\* When the other loop of the runner has ended the data loop follows, whatever
\* branch its select picks while ticks are coming, since the same context stops
\* the ticks (workload.go:251-252, binance/candle.go:71-72).  The connection is
\* closed then and what was started for it is over, but for a goroutine that is
\* in a callback: it waits for ever to send a tick or an error to the loop that
\* has ended (binance/candle.go:57-72).
ConnectionReleased ==
  cancelled ~> /\ data = "ended"
               /\ socket \in {"none", "closed"}
               /\ starter \in {"none", "ended", "refused"}
               /\ closer \in {"none", "ended"}
               /\ reader \in {"none", "ended", "tick", "garbled", "broken"}
=============================================================================
