------------------------------ MODULE CandleFeed ------------------------------
(***************************************************************************)
(* The data loop of one runner (trading/workload.go:211-255), its idle     *)
(* timer, and the goroutines behind its ticker: the one that CandlesTicker *)
(* starts (trading/binance/candle.go:49-76), and the reader and the closer *)
(* of a websocket, which belong to the exchange's client library.          *)
(*                                                                         *)
(* Both channels of the ticker are unbuffered: a sender waits in its state *)
(* until the data loop takes what it sends.  A timer runs in two steps: it *)
(* leaves the timers of the runtime, and then its channel is filled; Stop  *)
(* returns false from the first of them on.                                *)
(***************************************************************************)
EXTENDS Naturals

CONSTANT IdleTimeout    \* candleTickerIdleTimeout, in seconds

ASSUME IdleAssumption == IdleTimeout \in Nat \ {0}

VARIABLES
  data,       \* where the data loop is
  timer,      \* the idle timer: "off", "armed" or "firing"
  expired,    \* its channel holds a firing
  quiet,      \* seconds since it was armed last, as far as it matters
  cancelled,  \* the context of the runner's loops is done
  starter,    \* the goroutine started by CandlesTicker
  stop,       \* the stop channel is closed
  reader,     \* the goroutine that reads the websocket
  closer,     \* the goroutine that closes the websocket
  socket      \* the connection

loop == <<data, timer, expired, quiet>>
websocket == <<reader, closer, socket>>
vars == <<loop, cancelled, starter, stop, websocket>>
-----------------------------------------------------------------------------
TypeOK ==
  /\ data \in {"fetching", "starting", "selecting", "saving", "stopping", "draining",
               "resetting", "failing", "ending", "ended"}
  /\ timer \in {"off", "armed", "firing"}
  /\ expired \in BOOLEAN
  /\ quiet \in 0 .. IdleTimeout
  /\ cancelled \in BOOLEAN
  /\ starter \in {"none", "dialing", "refused", "waiting", "ended"}
  /\ stop \in BOOLEAN
  /\ reader \in {"none", "reading", "tick", "garbled", "broken", "ended"}
  /\ closer \in {"none", "waiting", "ended"}
  /\ socket \in {"none", "open", "lost", "closed"}

Init ==
  /\ data = "fetching"
  /\ timer = "off" /\ expired = FALSE /\ quiet = 0
  /\ cancelled = FALSE
  /\ starter = "none" /\ stop = FALSE
  /\ reader = "none" /\ closer = "none" /\ socket = "none"

Goto(from, to) == data = from /\ data' = to

-----------------------------------------------------------------------------
(* The data loop.                                                          *)

\* The history is fetched and saved, or the request fails.
FetchHistory ==
  /\ Goto("fetching", "starting") \/ Goto("fetching", "failing")
  /\ UNCHANGED <<timer, expired, quiet, cancelled, starter, stop, websocket>>

StartTicker ==
  /\ Goto("starting", "selecting")
  /\ timer' = "armed" /\ quiet' = 0
  /\ starter' = "dialing"
  /\ UNCHANGED <<expired, cancelled, stop, websocket>>

\* A tick is taken from the reader, which goes on.
ReceiveTick ==
  /\ Goto("selecting", "saving")
  /\ reader = "tick" /\ reader' = "reading"
  /\ UNCHANGED <<timer, expired, quiet, cancelled, starter, stop, closer, socket>>

SaveTick ==
  /\ Goto("saving", "stopping")
  /\ UNCHANGED <<timer, expired, quiet, cancelled, starter, stop, websocket>>

\* Mutation: what Stop returns is not looked at.
StopTimerOnly ==
  /\ Goto("stopping", "resetting")
  /\ timer' = IF timer = "armed" THEN "off" ELSE timer
  /\ UNCHANGED <<expired, quiet, cancelled, starter, stop, websocket>>

StopTimer ==
  /\ \/ timer = "armed" /\ timer' = "off" /\ Goto("stopping", "resetting")
     \/ timer # "armed" /\ UNCHANGED timer /\ Goto("stopping", "draining")
  /\ UNCHANGED <<expired, quiet, cancelled, starter, stop, websocket>>

DrainTimer ==
  /\ Goto("draining", "resetting")
  /\ expired /\ expired' = FALSE
  /\ UNCHANGED <<timer, quiet, cancelled, starter, stop, websocket>>

\* Mutation: the timer is not armed again.
ResetForgotten ==
  /\ Goto("resetting", "selecting")
  /\ UNCHANGED <<timer, expired, quiet, cancelled, starter, stop, websocket>>

ResetTimer ==
  /\ Goto("resetting", "selecting")
  /\ timer' = "armed" /\ quiet' = 0
  /\ UNCHANGED <<expired, cancelled, starter, stop, websocket>>

\* The timer has expired: an error is reported.
TickerIdle ==
  /\ Goto("selecting", "failing")
  /\ expired /\ expired' = FALSE
  /\ UNCHANGED <<timer, quiet, cancelled, starter, stop, websocket>>

\* An error is taken from the starter, which then returns, or from the reader,
\* which goes on unless its connection is the reason.
ReceiveError ==
  /\ Goto("selecting", "failing")
  /\ \/ starter = "refused" /\ starter' = "ended" /\ UNCHANGED reader
     \/ reader = "garbled" /\ reader' = "reading" /\ UNCHANGED starter
     \/ reader = "broken" /\ reader' = "ended" /\ UNCHANGED starter
  /\ UNCHANGED <<timer, expired, quiet, cancelled, stop, closer, socket>>

SeeDone ==
  /\ Goto("selecting", "ending")
  /\ cancelled
  /\ UNCHANGED <<timer, expired, quiet, cancelled, starter, stop, websocket>>

\* The error channel of the runner has room.
SendError ==
  /\ Goto("failing", "ending")
  /\ UNCHANGED <<timer, expired, quiet, cancelled, starter, stop, websocket>>

\* The candles are deleted, and the context of both loops is cancelled.
Return ==
  /\ Goto("ending", "ended")
  /\ cancelled' = TRUE
  /\ UNCHANGED <<timer, expired, quiet, starter, stop, websocket>>

\* The action loop has ended.
ActionLoopEnds ==
  /\ ~cancelled /\ cancelled' = TRUE
  /\ UNCHANGED <<loop, starter, stop, websocket>>

-----------------------------------------------------------------------------
(* The timer.                                                              *)

SecondPasses ==
  /\ timer = "armed" /\ quiet < IdleTimeout
  /\ quiet' = quiet + 1
  /\ UNCHANGED <<data, timer, expired, cancelled, starter, stop, websocket>>

TimerFires ==
  /\ timer = "armed" /\ quiet = IdleTimeout
  /\ timer' = "firing"
  /\ UNCHANGED <<data, expired, quiet, cancelled, starter, stop, websocket>>

TimerSends ==
  /\ timer = "firing"
  /\ timer' = "off" /\ expired' = TRUE
  /\ UNCHANGED <<data, quiet, cancelled, starter, stop, websocket>>

-----------------------------------------------------------------------------
(* The goroutine of CandlesTicker.                                         *)

DialFails ==
  /\ starter = "dialing" /\ starter' = "refused"
  /\ UNCHANGED <<loop, cancelled, stop, websocket>>

DialSucceeds ==
  /\ starter = "dialing" /\ starter' = "waiting"
  /\ reader' = "reading" /\ closer' = "waiting" /\ socket' = "open"
  /\ UNCHANGED <<loop, cancelled, stop>>

\* Mutation: the goroutine returns with the context, and closes nothing.
ReturnOnDone ==
  /\ starter = "waiting" /\ cancelled
  /\ starter' = "ended"
  /\ UNCHANGED <<loop, cancelled, stop, websocket>>

CloseStopChannel ==
  /\ starter = "waiting" /\ cancelled
  /\ starter' = "ended" /\ stop' = TRUE
  /\ UNCHANGED <<loop, cancelled, websocket>>

-----------------------------------------------------------------------------
(* The websocket.                                                          *)

ReadTick ==
  /\ reader = "reading" /\ socket = "open"
  /\ reader' = "tick"
  /\ UNCHANGED <<loop, cancelled, starter, stop, closer, socket>>

\* A message that is no kline is an error to the callback.
ReadGarbage ==
  /\ reader = "reading" /\ socket = "open"
  /\ reader' = "garbled"
  /\ UNCHANGED <<loop, cancelled, starter, stop, closer, socket>>

ConnectionLost ==
  /\ socket = "open" /\ socket' = "lost"
  /\ UNCHANGED <<loop, cancelled, starter, stop, reader, closer>>

\* A failing read is an error to the callback, unless it was stopped.
ReadFails ==
  /\ reader = "reading" /\ socket \in {"lost", "closed"}
  /\ reader' = IF socket = "closed" THEN "ended" ELSE "broken"
  /\ UNCHANGED <<loop, cancelled, starter, stop, closer, socket>>

CloseSocket ==
  /\ closer = "waiting" /\ (stop \/ reader = "ended")
  /\ closer' = "ended" /\ socket' = "closed"
  /\ UNCHANGED <<loop, cancelled, starter, stop, reader>>

-----------------------------------------------------------------------------
DataLoop ==
  \/ FetchHistory \/ StartTicker \/ ReceiveTick \/ SaveTick \/ StopTimer \/ DrainTimer
  \/ ResetTimer \/ TickerIdle \/ ReceiveError \/ SeeDone \/ SendError \/ Return

Timer == SecondPasses \/ TimerFires \/ TimerSends
Starter == DialFails \/ DialSucceeds \/ CloseStopChannel
Websocket == ReadTick \/ ReadGarbage \/ ConnectionLost \/ ReadFails \/ CloseSocket

Next == DataLoop \/ ActionLoopEnds \/ Timer \/ Starter \/ Websocket

Spec == Init /\ [][Next]_vars

\* The goroutines run, the clock goes on, requests and the dialing time out.
\* Nothing is assumed of the branch a select statement picks when several are
\* ready, nor of the exchange, which need not send anything.
Fairness ==
  /\ WF_vars(DataLoop)
  /\ WF_vars(Timer)
  /\ WF_vars(Starter)
  /\ WF_vars(ReadFails)
  /\ WF_vars(CloseSocket)

FairSpec == Spec /\ Fairness
=============================================================================
