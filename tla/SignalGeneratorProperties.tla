---------------------- MODULE SignalGeneratorProperties ----------------------
(* What the signals of one runner after another may rely on.               *)
EXTENDS SignalGenerator

\* No two signals are about the same closed candle, not even when the runner
\* that raised the first one failed and was replaced: the pause of
\* workload.go:263-266 outlasts a candle, and RunWorkload begins with one.
OncePerCandle ==
  \A i, j \in DOMAIN raised : i # j => raised[i].about # raised[j].about

\* The two prices a signal was derived from do not change any more (comment
\* techan/signal.go:40-41): also the candles around the place where the history
\* ends and the ticks begin, one of which never gets its last price, are out of
\* the way when a runner may raise its first signal.
SettledSignals == \A i \in DOMAIN raised : raised[i].settled

\* No signal is raised before the moving average has two values to compare
\* with, although the rule of techan/signal.go:99-119 does not ask for the
\* number of candles: a price is above an average that is not known.
NoSignalInWarmUp == \A i \in DOMAIN raised : raised[i].known >= EmaWindow + 2

\* No signal follows a price that fell: that the price crosses its average from
\* below (techan/signal.go:107-116) implies that it did not.
RisingSignals == \A i \in DOMAIN raised : raised[i].rising

\* When the pause at its start is over, a runner whose data loop is working has
\* the three candles Evaluate reads, even if the history was empty and late.
EnoughCandles == action = "running" /\ ~Paused /\ data \in {"fetching", "live"}
                   => ~EvaluatePanics

-----------------------------------------------------------------------------
\* How far the minutes of the runner are apart.
TimesInOrder ==
  /\ asked <= lastSignal /\ lastSignal <= now
  /\ data = "fetching" => now <= asked + 1
  /\ data = "live" /\ at = 0 => now <= asked + 2
  /\ at # 0 => at \in {now - 1, now}
  /\ data # "live" => list = <<>> /\ at = 0

\* The ticks have filled the end of the list: there is a candle for every minute
\* since the second one after the history was asked for, and all but the last
\* are final.
TicksAtTheEnd ==
  at # 0 =>
    /\ list # <<>> /\ list[Len(list)].minute = at
    /\ Len(list) = WindowSize \/ Len(list) >= at - asked - 1
    /\ \A j \in 0 .. Len(list) - 1 :
         j <= at - asked - 2 =>
           /\ list[Len(list) - j].minute = at - j
           /\ j # 0 => list[Len(list) - j].final

\* What was raised is about minutes that were over.
RaisedBefore == \A i \in DOMAIN raised : raised[i].about < lastSignal

\* The inductive invariant behind all of these.
SignalInv == /\ TypeOK
             /\ TimesInOrder
             /\ TicksAtTheEnd
             /\ RaisedBefore
             /\ OncePerCandle
             /\ SettledSignals
             /\ NoSignalInWarmUp
             /\ RisingSignals
=============================================================================
