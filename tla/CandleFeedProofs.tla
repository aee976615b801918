--------------------------- MODULE CandleFeedProofs ---------------------------
(***************************************************************************)
(* Proofs about the idle timer of the data loop, for any timeout.          *)
(***************************************************************************)
EXTENDS CandleFeedProperties, TLAPS

USE IdleAssumption DEF Goto, loop, websocket

\* The loop waits for the history, its timer not yet set, in the beginning.
LEMMA FeedInit == Init => FeedInv
<1>1. 0 \in 0 .. IdleTimeout
  OBVIOUS
<1> QED
  BY <1>1 DEF Init, FeedInv, TypeOK, DrainNeverStuck, OneFiring, FiringIsDue

\* The steps of the data loop that touch the timer, and those of the timer.
LEMMA FeedTimer ==
  ASSUME FeedInv,
         \/ StartTicker \/ StopTimer \/ DrainTimer \/ ResetTimer \/ TickerIdle
         \/ SecondPasses \/ TimerFires \/ TimerSends
  PROVE  FeedInv'
<1> USE DEF FeedInv, TypeOK, DrainNeverStuck, OneFiring, FiringIsDue
<1>1. CASE StartTicker \/ ResetTimer
  <2>1. 0 \in 0 .. IdleTimeout
    OBVIOUS
  <2> QED
    BY <1>1, <2>1 DEF StartTicker, ResetTimer
<1>2. CASE StopTimer
  BY <1>2 DEF StopTimer
<1>3. CASE DrainTimer
  BY ZenonT(30), <1>3 DEF DrainTimer
<1>4. CASE TickerIdle
  BY ZenonT(30), <1>4 DEF TickerIdle
<1>5. CASE SecondPasses
  BY <1>5 DEF SecondPasses
<1>6. CASE TimerFires
  BY <1>6 DEF TimerFires
<1>7. CASE TimerSends
  BY <1>7 DEF TimerSends
<1> QED
  BY <1>1, <1>2, <1>3, <1>4, <1>5, <1>6, <1>7

\* The other steps of the data loop.
LEMMA FeedLoop ==
  ASSUME FeedInv,
         \/ FetchHistory \/ ReceiveTick \/ SaveTick \/ ReceiveError \/ SeeDone
         \/ SendError \/ Return \/ ActionLoopEnds
  PROVE  FeedInv'
<1> USE DEF FeedInv, TypeOK, DrainNeverStuck, OneFiring, FiringIsDue
<1>1. CASE FetchHistory \/ SaveTick
  BY <1>1 DEF FetchHistory, SaveTick
<1>5. CASE SeeDone \/ SendError
  BY <1>5 DEF SeeDone, SendError
<1>2. CASE Return
  BY <1>2 DEF Return
<1>6. CASE ActionLoopEnds
  BY <1>6 DEF ActionLoopEnds
<1>3. CASE ReceiveTick
  BY <1>3 DEF ReceiveTick
<1>4. CASE ReceiveError
  BY <1>4 DEF ReceiveError
<1> QED
  BY <1>1, <1>2, <1>3, <1>4, <1>5, <1>6

\* The goroutines of the ticker leave loop and timer alone.
LEMMA FeedTicker ==
  ASSUME FeedInv, Starter \/ Websocket
  PROVE  FeedInv'
<1> USE DEF FeedInv, TypeOK, DrainNeverStuck, OneFiring, FiringIsDue
<1>1. UNCHANGED loop
  BY DEF Starter, DialFails, DialSucceeds, CloseStopChannel, Websocket, ReadTick,
     ReadGarbage, ConnectionLost, ReadFails, CloseSocket
<1>2. TypeOK'
  <2>1. CASE DialFails \/ DialSucceeds
    BY <2>1 DEF DialFails, DialSucceeds
  <2>4. CASE CloseStopChannel
    BY <2>4 DEF CloseStopChannel
  <2>2. CASE ReadTick \/ ReadGarbage \/ ConnectionLost
    BY <2>2 DEF ReadTick, ReadGarbage, ConnectionLost
  <2>3. CASE ReadFails \/ CloseSocket
    BY <2>3 DEF ReadFails, CloseSocket
  <2> QED
    BY <2>1, <2>2, <2>3, <2>4 DEF Starter, Websocket
<1> QED
  BY <1>1, <1>2

\* For every timeout the stop, the drain and the reset of the idle timer fit
\* together (workload.go:228-247).
THEOREM FeedInvariant == Spec => []FeedInv
<1>1. FeedInv /\ [Next]_vars => FeedInv'
  <2> SUFFICES ASSUME FeedInv, [Next]_vars PROVE FeedInv'
    OBVIOUS
  <2>1. CASE UNCHANGED vars
    BY <2>1 DEF vars, FeedInv, TypeOK, DrainNeverStuck, OneFiring, FiringIsDue
  <2>2. CASE Next
    BY <2>2, FeedTimer, FeedLoop, FeedTicker DEF Next, DataLoop, Timer
  <2> QED BY <2>1, <2>2
<1> QED
  BY FeedInit, <1>1, PTL DEF Spec

\* The receive that drains the timer always gets a firing (workload.go:241-243).
THEOREM DrainGetsFiring == Spec => []DrainNeverStuck
<1>1. FeedInv => DrainNeverStuck
  BY DEF FeedInv
<1> QED
  BY <1>1, FeedInvariant, PTL

\* The loop is ended as idle only when the timeout has passed since its last
\* tick (workload.go:244-247).
THEOREM IdleIsQuiet == Spec => IdleMeansQuiet
<1>1. FeedInv /\ [Next]_vars =>
        [data = "selecting" /\ data' = "failing" /\ expired /\ ~expired'
           => quiet = IdleTimeout]_vars
  BY DEF FeedInv, FiringIsDue
<1> QED
  BY <1>1, FeedInvariant, PTL DEF Spec, IdleMeansQuiet
=============================================================================
