--------------------------- MODULE SignalGenerator ---------------------------
(***************************************************************************)
(* When a runner raises signals, and about what: the pause of its action   *)
(* loop (trading/workload.go), the candles that its data loop keeps and    *)
(* the near-cross rule of the generator (trading/techan/signal.go).  One   *)
(* workload, one runner at a time, which may end and be started again.     *)
(*                                                                         *)
(* Time is counted in minutes.  A candle knows its minute, its close price *)
(* and, for the properties only, whether that price is final.  Candles     *)
(* come in the order of CandleStore; that their list is shared is not      *)
(* modelled again here.                                                    *)
(***************************************************************************)
EXTENDS Integers, Sequences

CONSTANTS
  Prices,         \* prices a candle may have
  WindowSize,     \* trading.CandleWindowSize
  EmaWindow,      \* window of the moving average, 50 in the code
  Pause,          \* signalGeneratorPauseTime, in minutes
  LastMinute      \* bound: the minutes the exchange lives through

ASSUME PricesAssumption == Prices \subseteq Nat \ {0}
\* With a window of one the average is the price and nothing is ever crossed.
ASSUME WindowsAssumption == /\ EmaWindow \in Nat \ {0, 1}
                            /\ WindowSize \in Nat /\ WindowSize >= EmaWindow + 2
\* The pause of the code, five minutes, is just long enough for what follows.
ASSUME PauseAssumption == Pause \in Nat /\ Pause >= 5
ASSUME TimeAssumption == LastMinute \in Nat /\ LastMinute >= EmaWindow

VARIABLES
  now,        \* the current minute
  list,       \* the candles of the workload, oldest first
  data,       \* where the data loop is
  asked,      \* the minute in which the data loop asked for the history
  at,         \* the minute of the last tick received, 0 before the first one
  action,     \* whether the action loop is running
  lastSignal, \* the minute of wr.lastSignalTime
  raised      \* history: what the signals raised so far were about

feed == <<list, data, asked, at>>
runner == <<action, lastSignal>>
vars == <<now, feed, runner, raised>>
-----------------------------------------------------------------------------
Candle(m, p, f) == [minute |-> m, price |-> p, final |-> f]
CandleSet == [minute : 1 .. LastMinute, price : Prices, final : BOOLEAN]

TypeOK ==
  /\ now \in 1 .. LastMinute
  /\ list \in Seq(CandleSet) /\ Len(list) <= WindowSize
  /\ data \in {"down", "fetching", "live", "over"}
  /\ asked \in 0 .. LastMinute /\ at \in 0 .. LastMinute
  /\ action \in {"down", "running"}
  /\ lastSignal \in 0 .. LastMinute
  /\ raised \in Seq([about : 1 .. LastMinute, settled : BOOLEAN,
                     rising : BOOLEAN, known : Nat])

\* The exchange has a past as long as the window of the moving average.
Init ==
  /\ now = EmaWindow
  /\ list = <<>> /\ data = "down" /\ asked = 0 /\ at = 0
  /\ action = "down" /\ lastSignal = 0
  /\ raised = <<>>

-----------------------------------------------------------------------------
(* The moving average of techan, an external library: nothing before its   *)
(* window is filled, then the plain average, then 2 / (EmaWindow + 1) of   *)
(* the price and the rest of the average before.  It is kept as a fraction *)
(* of integers.  Indexes begin with 0.                                     *)

Price(i) == list[i + 1].price

\* The sum of the first i prices.
PriceSum[i \in 0 .. EmaWindow] ==
  IF i = 0 THEN 0 ELSE Price(i - 1) + PriceSum[i - 1]

\* The average at index j.
Average[j \in EmaWindow - 1 .. Len(list) - 1] ==
  IF j = EmaWindow - 1
  THEN [num |-> PriceSum[EmaWindow], den |-> EmaWindow]
  ELSE LET before == Average[j - 1]
       IN [num |-> 2 * before.den * Price(j) + (EmaWindow - 1) * before.num,
           den |-> (EmaWindow + 1) * before.den]

\* The price compared with its average: -1, 0 or 1.
Cmp(i) ==
  IF i < EmaWindow - 1 THEN 1
  ELSE LET p == Average[i].den * Price(i)
           a == Average[i].num
       IN IF p > a THEN 1 ELSE IF p = a THEN 0 ELSE -1

\* Mutation: where the price was before is not looked at.
AboveAverage(i) == i # 0 /\ Cmp(i) \in {0, 1}

\* nearCrossRule.IsSatisfied
NearCrossUp(i) ==
  /\ i # 0
  /\ Cmp(i) \in {0, 1}
  /\ Cmp(i - 1) \in {0, -1}

\* Mutation: the last candle is looked at.
LastIndexChecked == Len(list) - 1

\* The index Evaluate looks at: the second to last.
CheckedIndex == Len(list) - 2

\* The values of the last three candles are logged first: without three
\* candles there is no such value, and the goroutine panics.
EvaluatePanics == Len(list) < 3

-----------------------------------------------------------------------------
(* The exchange and the data loop.                                         *)

\* The loop asks for the history, with a timeout of a minute, and gives up
\* when it has not got a tick for ten seconds: it sees no minute pass without
\* one.  After it has given up the action loop finds its context done within
\* the minute.
MinutePasses ==
  /\ now < LastMinute
  /\ data = "over" => action = "down"
  /\ data = "fetching" => now = asked
  /\ data = "live" => at = now \/ (at = 0 /\ now <= asked + 1)
  /\ now' = now + 1
  /\ UNCHANGED <<feed, runner, raised>>

\* Mutation: the new runner has never raised a signal.
StartEager ==
  /\ data \in {"down", "over"} /\ action = "down"
  /\ data' = "fetching" /\ action' = "running"
  /\ asked' = now /\ lastSignal' = 0
  /\ UNCHANGED <<now, list, at, raised>>

\* RunWorkload: the pause begins with the runner.
Start ==
  /\ data \in {"down", "over"} /\ action = "down"
  /\ data' = "fetching" /\ action' = "running"
  /\ asked' = now /\ lastSignal' = now
  /\ UNCHANGED <<now, list, at, raised>>

\* The history: n candles of the minutes up to m, the minute in which the
\* exchange answered, which is not over.
ReceiveHistory(n, m) ==
  /\ data = "fetching"
  /\ m \in asked .. now
  /\ n <= m
  /\ \E price \in [1 .. n -> Prices] :
       list' = [i \in 1 .. n |-> Candle(m - n + i, price[i], i < n)]
  /\ data' = "live"
  /\ UNCHANGED <<now, asked, at, runner, raised>>

\* SaveCandles of one candle.
Save(c) ==
  IF list # <<>> /\ list[Len(list)].minute = c.minute
  THEN [list EXCEPT ![Len(list)] = c]
  ELSE LET new == Append(list, c)
       IN IF Len(new) > WindowSize THEN Tail(new) ELSE new

\* The connection may deliver a tick of minute m: it delivers them in order, and
\* the last one of a minute, its f is TRUE, before it goes on.
Delivers(m, f) ==
  /\ m \in {now - 1, now} /\ (f => m < now)
  /\ \/ at = 0 /\ m >= asked /\ (list # <<>> => m >= list[Len(list)].minute)
     \/ at # 0 /\ m = at /\ ~list[Len(list)].final
     \/ at # 0 /\ m = at + 1 /\ list[Len(list)].final

ReceiveTick(m, p, f) ==
  /\ data = "live"
  /\ Delivers(m, f)
  /\ list' = Save(Candle(m, p, f))
  /\ at' = m
  /\ UNCHANGED <<now, data, asked, runner, raised>>

\* The data loop fails or sees that its context is done, and deletes the
\* candles.  The context of the action loop is cancelled after that.
DataEnds ==
  /\ data \in {"fetching", "live"}
  /\ data' = "over"
  /\ list' = <<>> /\ at' = 0
  /\ UNCHANGED <<now, asked, runner, raised>>

-----------------------------------------------------------------------------
(* The action loop.                                                        *)

Paused == now < lastSignal + Pause

\* What the properties ask of a signal.
Remarks == LET c == list[CheckedIndex + 1]
               before == list[CheckedIndex]
           IN [about |-> c.minute, settled |-> c.final /\ before.final,
               rising |-> c.price >= before.price, known |-> Len(list)]

\* Mutation: the time of the signal is not kept.
EvaluateAgain ==
  /\ action = "running" /\ ~Paused /\ ~EvaluatePanics
  /\ NearCrossUp(CheckedIndex)
  /\ raised' = Append(raised, Remarks)
  /\ UNCHANGED <<now, feed, runner>>

\* A tick that raises a signal, about the candle that is looked at.
Evaluate ==
  /\ action = "running" /\ ~Paused /\ ~EvaluatePanics
  /\ NearCrossUp(CheckedIndex)
  /\ lastSignal' = now
  /\ raised' = Append(raised, Remarks)
  /\ UNCHANGED <<now, feed, action>>

\* It panics: the process ends, and is started again.
Panic ==
  /\ action = "running" /\ ~Paused /\ EvaluatePanics
  /\ data' = "down" /\ action' = "down"
  /\ list' = <<>> /\ at' = 0
  /\ UNCHANGED <<now, asked, lastSignal, raised>>

\* A call of a tick fails, or the context is found done, perhaps not at once:
\* select takes a tick that is due just as well.
ActionEnds ==
  /\ action = "running"
  /\ action' = "down"
  /\ UNCHANGED <<now, feed, lastSignal, raised>>

DataStep ==
  \/ \E n \in 0 .. WindowSize, m \in 1 .. LastMinute : ReceiveHistory(n, m)
  \/ \E m \in 1 .. LastMinute, p \in Prices, f \in BOOLEAN : ReceiveTick(m, p, f)
  \/ DataEnds

ActionStep == Evaluate \/ Panic \/ ActionEnds

Next == MinutePasses \/ Start \/ DataStep \/ ActionStep

Spec == Init /\ [][Next]_vars
=============================================================================
