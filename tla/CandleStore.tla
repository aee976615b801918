----------------------------- MODULE CandleStore -----------------------------
(***************************************************************************)
(* The candle repository (trading/inmem/candle.go) between the data loops  *)
(* that fill and clear it and the action loops that take snapshots of it.  *)
(*                                                                         *)
(* Lists and snapshots hold pointers: a candle is an address, and what is  *)
(* written to it shows in every list and snapshot that holds it.  A candle *)
(* is made for every kline of the history and for every tick, and numbered *)
(* as it is made; the number also stands for the price it comes with.  A   *)
(* price is a string, that is a pointer and a length, two words that are   *)
(* written one after the other: a price whose words differ is torn.        *)
(*                                                                         *)
(* The mutex is not a variable.  A data loop that is "saving" or "writing" *)
(* holds the write lock, an action loop that is "copying" and a data loop  *)
(* that is "deleting" hold the read lock.                                  *)
(***************************************************************************)
EXTENDS Naturals, Sequences

CONSTANTS
  Keys,           \* identifiers of workloads
  Generations,    \* runners of a workload that may overlap
  WindowSize,     \* trading.CandleWindowSize
  MaxHistory,     \* bound: candles in the history a data loop begins with
  MaxMinute,      \* bound: minutes the exchange lives through
  MaxCandles      \* bound: candles that are ever made

ASSUME WindowAssumption == WindowSize \in Nat \ {0}
ASSUME BoundsAssumption ==
  /\ MaxHistory \in Nat \ {0}
  /\ MaxMinute \in Nat \ {0}
  /\ MaxCandles \in Nat

VARIABLES
  list,     \* list[k]: cr.candles[k], empty when the map has no such key
  minute,   \* minute[c]: the open time of candle c, 0 before it is made
  text,     \* text[c]: the pointer of the close price of c
  length,   \* length[c]: the length of the close price of c
  made,     \* number of candles made so far
  now,      \* the current minute of the exchange
  data,     \* data[l]: where data loop l is
  batch,    \* batch[l]: candles left to the SaveCandles call of l
  feed,     \* feed[l]: the minute of the last candle l was given
  action,   \* action[l]: where action loop l is
  snap,     \* snap[l]: the snapshot action loop l is using
  latest    \* history: latest[k][m], the last candle saved of minute m

candles == <<minute, text, length, made>>
dataLoops == <<data, batch, feed>>
readers == <<action, snap>>
vars == <<list, candles, latest, now, dataLoops, readers>>
-----------------------------------------------------------------------------
Addresses == 1 .. MaxCandles
Minutes == 1 .. MaxMinute

\* The loops of a runner: the key of its workload and a generation.
Loops == Keys \X Generations
KeyOf(l) == l[1]

LastOf(s) == s[Len(s)]
NoTicks == [m \in Minutes |-> 0]

TypeOK ==
  /\ list \in [Keys -> Seq(Addresses)]
  /\ minute \in [Addresses -> 0 .. MaxMinute]
  /\ text \in [Addresses -> 0 .. MaxCandles]
  /\ length \in [Addresses -> 0 .. MaxCandles]
  /\ made \in 0 .. MaxCandles
  /\ now \in Minutes
  /\ data \in [Loops -> {"down", "fetching", "live", "saving", "writing",
                         "deleting"}]
  /\ batch \in [Loops -> Nat]
  /\ feed \in [Loops -> 0 .. MaxMinute]
  /\ action \in [Loops -> {"idle", "copying", "using"}]
  /\ snap \in [Loops -> Seq(Addresses)]
  /\ latest \in [Keys -> [Minutes -> 0 .. MaxCandles]]

Init ==
  /\ list = [k \in Keys |-> <<>>]
  /\ minute = [c \in Addresses |-> 0]
  /\ text = [c \in Addresses |-> 0]
  /\ length = [c \in Addresses |-> 0]
  /\ made = 0
  /\ now = 1
  /\ data = [l \in Loops |-> "down"]
  /\ batch = [l \in Loops |-> 0]
  /\ feed = [l \in Loops |-> 0]
  /\ action = [l \in Loops |-> "idle"]
  /\ snap = [l \in Loops |-> <<>>]
  /\ latest = [k \in Keys |-> NoTicks]

WriteLocked == \E l \in Loops : data[l] \in {"saving", "writing"}
ReadLocked == \E l \in Loops : action[l] = "copying" \/ data[l] = "deleting"

Goto(l, label) == data' = [data EXCEPT ![l] = label]

-----------------------------------------------------------------------------
(* The exchange.                                                           *)

MinutePasses ==
  /\ now < MaxMinute
  /\ now' = now + 1
  /\ UNCHANGED <<list, candles, latest, dataLoops, readers>>

\* Candle c, of minute m, is made for data loop l.  What one loop is given
\* comes in order: the history first, then the ticks of one connection.
Delivers(l, c, m) ==
  /\ c = made + 1
  /\ feed[l] <= m /\ m <= now
  /\ made' = c
  /\ minute' = [minute EXCEPT ![c] = m]
  /\ feed' = [feed EXCEPT ![l] = m]
  /\ length' = [length EXCEPT ![c] = c]

-----------------------------------------------------------------------------
(* A data loop.                                                            *)

\* It requests the history of its pair.
Start(l) ==
  /\ data[l] = "down"
  /\ Goto(l, "fetching")
  /\ feed' = [feed EXCEPT ![l] = 0]
  /\ UNCHANGED <<list, candles, latest, now, batch, readers>>

\* SaveCandles of the history, n candles, or of one tick: the lock is taken.
BeginSave(l, n) ==
  /\ data[l] = "fetching" \/ (data[l] = "live" /\ n = 1)
  /\ ~WriteLocked /\ ~ReadLocked
  /\ made + n <= MaxCandles
  /\ batch' = [batch EXCEPT ![l] = n]
  /\ Goto(l, "saving")
  /\ UNCHANGED <<list, candles, latest, now, feed, readers>>

\* Mutation: the open time of the last candle is not looked at.
NeverRepeats(l, m) == FALSE

\* The last candle of the list is of minute m.
Repeats(l, m) == LET old == list[KeyOf(l)]
                 IN old # <<>> /\ minute[LastOf(old)] = m

\* Mutation: the newest candle goes.
EvictNewest(s) == IF Len(s) > WindowSize THEN SubSeq(s, 1, WindowSize) ELSE s

\* The oldest candle goes if the window size is exceeded.
Evict(s) == IF Len(s) > WindowSize THEN Tail(s) ELSE s

AppendCandle(l, c, m) ==
  /\ data[l] = "saving" /\ batch[l] > 0
  /\ Delivers(l, c, m)
  /\ ~Repeats(l, m)
  /\ list' = [list EXCEPT ![KeyOf(l)] = Evict(Append(@, c))]
  /\ text' = [text EXCEPT ![c] = c]
  /\ latest' = [latest EXCEPT ![KeyOf(l)][m] = c]
  /\ batch' = [batch EXCEPT ![l] = @ - 1]
  /\ UNCHANGED <<now, data, readers>>

\* Mutation: any candle of the minute is updated, wherever it is.
UpdateAnywhere(l, c, m) ==
  /\ data[l] = "saving" /\ batch[l] > 0
  /\ Delivers(l, c, m)
  /\ Repeats(l, m)
  /\ text' = [text EXCEPT ![c] = c, ![Head(list[KeyOf(l)])] = c]
  /\ latest' = [latest EXCEPT ![KeyOf(l)][m] = c]
  /\ Goto(l, "writing")
  /\ UNCHANGED <<list, now, batch, readers>>

\* The last candle is overwritten: the first word of its price ...
UpdateCandle(l, c, m) ==
  /\ data[l] = "saving" /\ batch[l] > 0
  /\ Delivers(l, c, m)
  /\ Repeats(l, m)
  /\ text' = [text EXCEPT ![c] = c, ![LastOf(list[KeyOf(l)])] = c]
  /\ latest' = [latest EXCEPT ![KeyOf(l)][m] = c]
  /\ Goto(l, "writing")
  /\ UNCHANGED <<list, now, batch, readers>>

\* ... and the second.
FinishUpdate(l) ==
  /\ data[l] = "writing"
  /\ LET last == LastOf(list[KeyOf(l)])
     IN length' = [length EXCEPT ![last] = text[last]]
  /\ Goto(l, "saving")
  /\ batch' = [batch EXCEPT ![l] = @ - 1]
  /\ UNCHANGED <<list, minute, text, made, latest, now, feed, readers>>

EndSave(l) ==
  /\ data[l] = "saving" /\ batch[l] = 0
  /\ Goto(l, "live")
  /\ UNCHANGED <<list, candles, latest, now, batch, feed, readers>>

\* The deferred DeleteCandles: the read lock is taken ...
BeginDelete(l) ==
  /\ data[l] \in {"fetching", "live"}
  /\ ~WriteLocked
  /\ Goto(l, "deleting")
  /\ UNCHANGED <<list, candles, latest, now, batch, feed, readers>>

\* ... and the map is written.
DeleteCandles(l) ==
  /\ data[l] = "deleting"
  /\ list' = [list EXCEPT ![KeyOf(l)] = <<>>]
  /\ latest' = [latest EXCEPT ![KeyOf(l)] = NoTicks]
  /\ Goto(l, "down")
  /\ UNCHANGED <<candles, now, batch, feed, readers>>

-----------------------------------------------------------------------------
(* An action loop.                                                         *)

\* Candles: the read lock is taken ...
BeginCopy(l) ==
  /\ action[l] = "idle"
  /\ ~WriteLocked
  /\ action' = [action EXCEPT ![l] = "copying"]
  /\ UNCHANGED <<list, candles, latest, now, dataLoops, snap>>

\* ... and the pointers are copied.
EndCopy(l) ==
  /\ action[l] = "copying"
  /\ snap' = [snap EXCEPT ![l] = list[KeyOf(l)]]
  /\ action' = [action EXCEPT ![l] = "using"]
  /\ UNCHANGED <<list, candles, latest, now, dataLoops>>

\* Evaluate or lastClosePrice is done with the snapshot.
DropSnapshot(l) ==
  /\ action[l] = "using"
  /\ snap' = [snap EXCEPT ![l] = <<>>]
  /\ action' = [action EXCEPT ![l] = "idle"]
  /\ UNCHANGED <<list, candles, latest, now, dataLoops>>

-----------------------------------------------------------------------------
\* The map is written while somebody else is in it: the deletion has the read
\* lock only.
MapRace ==
  \E l \in Loops :
    /\ data[l] = "deleting"
    /\ \E d \in Loops : action[d] = "copying" \/ (d # l /\ data[d] = "deleting")

\* The runtime may notice it and end the process, which is started again.
ConcurrentMapAccess ==
  /\ MapRace
  /\ list' = [k \in Keys |-> <<>>]
  /\ latest' = [k \in Keys |-> NoTicks]
  /\ data' = [l \in Loops |-> "down"]
  /\ batch' = [l \in Loops |-> 0]
  /\ feed' = [l \in Loops |-> 0]
  /\ action' = [l \in Loops |-> "idle"]
  /\ snap' = [l \in Loops |-> <<>>]
  /\ UNCHANGED <<candles, now>>

SaveCandles(l) ==
  \/ \E n \in 0 .. MaxHistory : BeginSave(l, n)
  \/ \E c \in Addresses, m \in Minutes : AppendCandle(l, c, m) \/ UpdateCandle(l, c, m)
  \/ FinishUpdate(l)
  \/ EndSave(l)

Next ==
  \/ MinutePasses
  \/ \E l \in Loops :
       \/ Start(l) \/ SaveCandles(l) \/ BeginDelete(l) \/ DeleteCandles(l)
       \/ BeginCopy(l) \/ EndCopy(l) \/ DropSnapshot(l)
  \/ ConcurrentMapAccess

Spec == Init /\ [][Next]_vars
=============================================================================
