-------------------------- MODULE CandleStoreProofs --------------------------
(***************************************************************************)
(* Proofs about the candle repository, for any window size, any number of  *)
(* workloads and runners, and any number of candles.                       *)
(***************************************************************************)
EXTENDS CandleStoreProperties, SequenceTheorems, TLAPS

USE WindowAssumption, BoundsAssumption
USE DEF Addresses, Minutes, NoTicks

-----------------------------------------------------------------------------
(* Appending to a list.                                                    *)

\* After a candle is appended and the oldest one removed if need be
\* (inmem/candle.go:43-51), the list ends in the new candle, fits into the
\* window, and keeps the other candles in their order; one goes only from a list
\* that was full.
LEMMA AppendedList ==
  ASSUME NEW s \in Seq(Addresses), NEW c \in Addresses, Len(s) <= WindowSize
  PROVE  LET t == Evict(Append(s, c))
         IN /\ t \in Seq(Addresses)
            /\ t # <<>>
            /\ Len(t) <= WindowSize
            /\ t[Len(t)] = c
            /\ \E d \in {0, 1} :
                 /\ Len(t) = Len(s) + 1 - d
                 /\ d = 1 => Len(s) = WindowSize
                 /\ \A i \in 1 .. Len(t) - 1 : t[i] = s[i + d] /\ i + d \in DOMAIN s
<1> DEFINE a == Append(s, c)
           t == Evict(a)
<1>1. /\ a \in Seq(Addresses)
      /\ Len(a) = Len(s) + 1
      /\ \A i \in 1 .. Len(s) : a[i] = s[i]
      /\ a[Len(s) + 1] = c
  OBVIOUS
<1>2. CASE Len(a) > WindowSize
  <2>1. t = Tail(a)
    BY <1>2 DEF Evict
  <2>2. /\ t \in Seq(Addresses)
        /\ Len(t) = Len(s)
        /\ \A i \in 1 .. Len(t) : t[i] = a[i + 1]
    <3>1. a # <<>> /\ Len(s) \in Nat
      BY <1>1
    <3>2. /\ Tail(a) \in Seq(Addresses)
          /\ Len(Tail(a)) = Len(a) - 1
          /\ \A i \in 1 .. Len(Tail(a)) : Tail(a)[i] = a[i + 1]
      BY <1>1, <3>1, HeadTailProperties
    <3> HIDE DEF t, a
    <3> QED
      BY <1>1, <2>1, <3>1, <3>2
  <2>3. Len(s) = WindowSize /\ Len(s) \in Nat \ {0}
    BY <1>1, <1>2
  <2>4. t[Len(t)] = c /\ t # <<>>
    BY <1>1, <2>2, <2>3
  <2>5. /\ Len(t) = Len(s) + 1 - 1
        /\ \A i \in 1 .. Len(t) - 1 : t[i] = s[i + 1] /\ i + 1 \in DOMAIN s
    BY <1>1, <2>2, <2>3
  <2> QED
    BY <2>2, <2>3, <2>4, <2>5
<1>3. CASE ~(Len(a) > WindowSize)
  <2>1. t = a
    BY <1>3 DEF Evict
  <2>2. /\ Len(t) = Len(s) + 1 - 0
        /\ \A i \in 1 .. Len(t) - 1 : t[i] = s[i + 0] /\ i + 0 \in DOMAIN s
    BY <1>1, <2>1
  <2> QED
    BY <1>1, <1>3, <2>1, <2>2
<1> QED
  BY <1>2, <1>3

-----------------------------------------------------------------------------
(* Types.                                                                  *)

\* A loop is one of the loops of its key.
LEMMA KeyFact == \A l \in Loops : KeyOf(l) \in Keys
BY DEF Loops, KeyOf

\* Nothing is stored in the beginning.
LEMMA TypeInit == Init => TypeOK
<1> SUFFICES ASSUME Init PROVE TypeOK
  OBVIOUS
<1>1. [k \in Keys |-> <<>>] \in [Keys -> Seq(Addresses)]
  OBVIOUS
<1>2. [l \in Loops |-> <<>>] \in [Loops -> Seq(Addresses)]
  OBVIOUS
<1> QED
  BY <1>1, <1>2 DEF Init, TypeOK

\* The steps that touch neither candles nor lists nor snapshots.
LEMMA TypeControl ==
  ASSUME TypeOK,
         \/ MinutePasses
         \/ \E l \in Loops : \/ Start(l) \/ EndSave(l) \/ BeginDelete(l) \/ BeginCopy(l)
                             \/ \E n \in 0 .. MaxHistory : BeginSave(l, n)
  PROVE  TypeOK'
<1> USE DEF candles, dataLoops, readers, Goto
<1>1. CASE MinutePasses
  <2>1. now' \in Minutes
    BY <1>1 DEF TypeOK, MinutePasses
  <2>2. UNCHANGED <<list, candles, latest, dataLoops, readers>>
    BY <1>1 DEF MinutePasses
  <2> QED
    BY <2>1, <2>2 DEF TypeOK
<1>2. ASSUME NEW l \in Loops, Start(l) PROVE TypeOK'
  <2>1. /\ data' = [data EXCEPT ![l] = "fetching"]
        /\ feed' = [feed EXCEPT ![l] = 0]
        /\ UNCHANGED <<list, candles, latest, now, batch, readers>>
    BY <1>2 DEF Start
  <2>2. data' \in [Loops -> {"down", "fetching", "live", "saving", "writing", "deleting"}]
    BY <2>1 DEF TypeOK
  <2>3. feed' \in [Loops -> 0 .. MaxMinute]
    <3>1. 0 \in 0 .. MaxMinute
      OBVIOUS
    <3> QED
      BY <2>1, <3>1 DEF TypeOK
  <2> QED
    BY <2>1, <2>2, <2>3 DEF TypeOK
<1>5. ASSUME NEW l \in Loops, EndSave(l) PROVE TypeOK'
  BY <1>5 DEF TypeOK, EndSave
<1>4. ASSUME NEW l \in Loops, BeginDelete(l) \/ BeginCopy(l) PROVE TypeOK'
  BY <1>4 DEF TypeOK, BeginDelete, BeginCopy
<1>3. ASSUME NEW l \in Loops, NEW n \in 0 .. MaxHistory, BeginSave(l, n)
      PROVE  TypeOK'
  <2>1. /\ batch' = [batch EXCEPT ![l] = n]
        /\ data' = [data EXCEPT ![l] = "saving"]
        /\ UNCHANGED <<list, candles, latest, now, feed, readers>>
    BY <1>3 DEF BeginSave
  <2>2. data' \in [Loops -> {"down", "fetching", "live", "saving", "writing", "deleting"}]
    BY <2>1 DEF TypeOK
  <2>3. batch' \in [Loops -> Nat]
    <3>1. n \in Nat
      OBVIOUS
    <3> QED
      BY <2>1, <3>1 DEF TypeOK
  <2> QED
    BY <2>1, <2>2, <2>3 DEF TypeOK
<1> QED BY <1>1, <1>2, <1>3, <1>4, <1>5

\* A candle is made.
LEMMA TypeDelivers ==
  ASSUME TypeOK, NEW l \in Loops, NEW c \in Addresses, NEW m \in Minutes,
         Delivers(l, c, m)
  PROVE  /\ made' \in 0 .. MaxCandles
         /\ made' = made + 1 /\ c = made + 1
         /\ minute' \in [Addresses -> 0 .. MaxMinute]
         /\ \A a \in Addresses : a <= made => minute'[a] = minute[a]
         /\ minute'[c] = m
         /\ feed' \in [Loops -> 0 .. MaxMinute]
BY SMTT(20) DEF TypeOK, Delivers

\* A new candle keeps the types.
LEMMA TypeAppend ==
  ASSUME TypeOK, AllBounded, NEW l \in Loops, NEW c \in Addresses, NEW m \in Minutes,
         AppendCandle(l, c, m)
  PROVE  TypeOK'
<1> USE DEF AppendCandle, readers
<1>1. /\ made' \in 0 .. MaxCandles
      /\ minute' \in [Addresses -> 0 .. MaxMinute]
      /\ feed' \in [Loops -> 0 .. MaxMinute]
  BY TypeDelivers
<1>2. KeyOf(l) \in Keys /\ list[KeyOf(l)] \in Seq(Addresses) /\ Len(list[KeyOf(l)]) <= WindowSize
  BY KeyFact DEF TypeOK, AllBounded, Bounded
<1>3. Evict(Append(list[KeyOf(l)], c)) \in Seq(Addresses)
  BY <1>2, AppendedList
<1>4. list' \in [Keys -> Seq(Addresses)]
  BY <1>2, <1>3 DEF TypeOK
<1>5. /\ text' \in [Addresses -> 0 .. MaxCandles]
      /\ length' \in [Addresses -> 0 .. MaxCandles]
  BY SMTT(20) DEF TypeOK, Delivers
<1>6. latest' \in [Keys -> [Minutes -> 0 .. MaxCandles]]
  <2>1. /\ latest \in [Keys -> [Minutes -> 0 .. MaxCandles]]
        /\ latest' = [latest EXCEPT ![KeyOf(l)][m] = c]
    BY DEF TypeOK
  <2>2. c \in 0 .. MaxCandles
    OBVIOUS
  <2> HIDE DEF AppendCandle, Minutes
  <2> QED
    BY <1>2, <2>1, <2>2
<1>7. batch' \in [Loops -> Nat]
  <2>1. batch \in [Loops -> Nat] /\ batch[l] > 0 /\ batch' = [batch EXCEPT ![l] = @ - 1]
    BY DEF TypeOK
  <2>2. batch[l] - 1 \in Nat
    BY <2>1
  <2> HIDE DEF AppendCandle
  <2> QED
    BY <2>1, <2>2
<1>8. /\ now' \in Minutes
      /\ data' \in [Loops -> {"down", "fetching", "live", "saving", "writing", "deleting"}]
      /\ action' \in [Loops -> {"idle", "copying", "using"}]
      /\ snap' \in [Loops -> Seq(Addresses)]
  BY DEF TypeOK
<1> QED
  BY <1>1, <1>4, <1>5, <1>6, <1>7, <1>8 DEF TypeOK

\* The first word of an update keeps the types.
LEMMA TypeUpdate ==
  ASSUME TypeOK, NEW l \in Loops, NEW c \in Addresses, NEW m \in Minutes,
         UpdateCandle(l, c, m)
  PROVE  TypeOK'
<1> USE DEF UpdateCandle, readers
<1>1. /\ made' \in 0 .. MaxCandles
      /\ minute' \in [Addresses -> 0 .. MaxMinute]
      /\ feed' \in [Loops -> 0 .. MaxMinute]
  BY TypeDelivers
<1>2. text' \in [Addresses -> 0 .. MaxCandles]
  <2>1. c \in 0 .. MaxCandles
    OBVIOUS
  <2>2. [text EXCEPT ![c] = c] \in [Addresses -> 0 .. MaxCandles]
    BY <2>1 DEF TypeOK
  <2> QED BY <2>1, <2>2
<1>6. length' \in [Addresses -> 0 .. MaxCandles]
  BY DEF TypeOK, Delivers
<1>3. latest' \in [Keys -> [Minutes -> 0 .. MaxCandles]]
  <2>1. /\ latest \in [Keys -> [Minutes -> 0 .. MaxCandles]]
        /\ latest' = [latest EXCEPT ![KeyOf(l)][m] = c]
    BY DEF TypeOK
  <2>2. KeyOf(l) \in Keys /\ c \in 0 .. MaxCandles
    BY KeyFact
  <2> HIDE DEF UpdateCandle, Minutes
  <2> QED
    BY <2>1, <2>2
<1>4. data' \in [Loops -> {"down", "fetching", "live", "saving", "writing", "deleting"}]
  BY DEF TypeOK, Goto
<1>5. /\ list' \in [Keys -> Seq(Addresses)]
      /\ now' \in Minutes
      /\ batch' \in [Loops -> Nat]
      /\ action' \in [Loops -> {"idle", "copying", "using"}]
      /\ snap' \in [Loops -> Seq(Addresses)]
  BY DEF TypeOK
<1> QED
  BY <1>1, <1>2, <1>3, <1>4, <1>5, <1>6 DEF TypeOK

\* The other steps.
LEMMA TypeRest ==
  ASSUME TypeOK, WriterHasCandle,
         \/ ConcurrentMapAccess
         \/ \E l \in Loops : \/ FinishUpdate(l) \/ DeleteCandles(l)
                             \/ EndCopy(l) \/ DropSnapshot(l)
  PROVE  TypeOK'
<1> USE DEF candles, dataLoops, readers, Goto
<1>1. CASE ConcurrentMapAccess
  <2>1. /\ list' \in [Keys -> Seq(Addresses)]
        /\ snap' \in [Loops -> Seq(Addresses)]
        /\ latest' \in [Keys -> [Minutes -> 0 .. MaxCandles]]
    BY <1>1 DEF ConcurrentMapAccess
  <2> QED
    BY SMTT(20), <1>1, <2>1 DEF TypeOK, ConcurrentMapAccess
<1>2. ASSUME NEW l \in Loops, FinishUpdate(l) PROVE TypeOK'
  <2> USE <1>2 DEF FinishUpdate
  <2>1. batch[l] > 0 /\ batch[l] \in Nat
    BY DEF TypeOK, WriterHasCandle
  <2>2. batch' \in [Loops -> Nat]
    BY <2>1 DEF TypeOK
  <2>3. KeyOf(l) \in Keys /\ list[KeyOf(l)] \in Seq(Addresses) /\ list[KeyOf(l)] # <<>>
    BY KeyFact DEF TypeOK, WriterHasCandle
  <2>4. LastOf(list[KeyOf(l)]) \in Addresses
    BY <2>3 DEF LastOf
  <2>5. length' \in [Addresses -> 0 .. MaxCandles]
    BY <2>4 DEF TypeOK
  <2> QED
    BY <2>2, <2>5 DEF TypeOK
<1>3. ASSUME NEW l \in Loops, DeleteCandles(l) PROVE TypeOK'
  <2> USE <1>3 DEF DeleteCandles
  <2>1. /\ <<>> \in Seq(Addresses)
        /\ NoTicks \in [Minutes -> 0 .. MaxCandles]
    OBVIOUS
  <2>2. /\ list' \in [Keys -> Seq(Addresses)]
        /\ latest' \in [Keys -> [Minutes -> 0 .. MaxCandles]]
    BY <2>1, KeyFact DEF TypeOK
  <2> QED
    BY <2>2 DEF TypeOK
<1>4. ASSUME NEW l \in Loops, EndCopy(l) PROVE TypeOK'
  BY <1>4, KeyFact DEF TypeOK, EndCopy
<1>5. ASSUME NEW l \in Loops, DropSnapshot(l) PROVE TypeOK'
  <2>1. <<>> \in Seq(Addresses)
    OBVIOUS
  <2> QED
    BY <1>5, <2>1 DEF TypeOK, DropSnapshot
<1> QED BY <1>1, <1>2, <1>3, <1>4, <1>5

-----------------------------------------------------------------------------
(* Steps and the inductive invariant.                                      *)

\* The steps that only take or release the lock: they leave lists, snapshots
\* and candles as they are.
LEMMA StoreControl ==
  ASSUME StoreInv,
         \/ MinutePasses
         \/ \E l \in Loops : \/ Start(l) \/ EndSave(l) \/ BeginDelete(l) \/ BeginCopy(l)
                             \/ \E n \in 0 .. MaxHistory : BeginSave(l, n)
  PROVE  StoreInv'
<1> USE DEF StoreInv
<1>1. TypeOK'
  BY TypeControl
<1>2. /\ list' = list /\ snap' = snap
      /\ text' = text /\ length' = length /\ made' = made
      /\ \A l \in Loops : (data'[l] = "writing") = (data[l] = "writing")
      /\ \A l \in Loops : data[l] = "writing" => batch'[l] = batch[l]
  <2> USE DEF TypeOK, candles, dataLoops, readers, Goto
  <2>1. CASE MinutePasses
    BY <2>1 DEF MinutePasses
  <2>2. CASE \E l \in Loops : Start(l) \/ EndSave(l)
    BY <2>2 DEF Start, EndSave
  <2>3. CASE \E l \in Loops : BeginDelete(l) \/ BeginCopy(l)
    BY <2>3 DEF BeginDelete, BeginCopy
  <2>4. CASE \E l \in Loops : \E n \in 0 .. MaxHistory : BeginSave(l, n)
    BY <2>4 DEF BeginSave
  <2> QED
    BY <2>1, <2>2, <2>3, <2>4
<1>3. LockHeld'
  <2> USE DEF TypeOK, LockHeld, candles, dataLoops, readers, Goto
  <2>1. CASE MinutePasses
    BY <2>1 DEF MinutePasses
  <2>2. ASSUME NEW l \in Loops, Start(l) \/ EndSave(l)  PROVE LockHeld'
    <3>1. CASE Start(l)
      BY <3>1 DEF Start
    <3>2. CASE EndSave(l)
      BY <3>2 DEF EndSave
    <3> QED BY <2>2, <3>1, <3>2
  <2>3. ASSUME NEW l \in Loops, BeginDelete(l) \/ BeginCopy(l)  PROVE LockHeld'
    BY <2>3 DEF BeginDelete, BeginCopy, WriteLocked
  <2>4. ASSUME NEW l \in Loops, NEW n \in 0 .. MaxHistory, BeginSave(l, n)  PROVE LockHeld'
    BY <2>4 DEF BeginSave, WriteLocked, ReadLocked
  <2> QED
    BY <2>1, <2>2, <2>3, <2>4
<1>4. (AllBounded /\ OnePlace /\ SettledAside /\ SettledWhole)'
  BY <1>2 DEF AllBounded, Bounded, OnePlace, SettledAside, SettledWhole, Torn
<1>5. TornInWriting'
  BY <1>2 DEF TornInWriting, Torn
<1>6. WriterHasCandle'
  BY <1>2, KeyFact DEF WriterHasCandle
<1> QED
  BY <1>1, <1>3, <1>4, <1>5, <1>6

\* A new candle at the end of the list of k.
LEMMA ListAfterAppend ==
  ASSUME StoreInv, NEW l \in Loops, NEW c \in Addresses, NEW m \in Minutes,
         AppendCandle(l, c, m)
  PROVE  LET k == KeyOf(l)
         IN /\ list'[k] \in Seq(Addresses)
            /\ list'[k] # <<>>
            /\ Len(list'[k]) <= WindowSize
            /\ list'[k][Len(list'[k])] = c
            /\ \E d \in {0, 1} :
                 /\ Len(list'[k]) = Len(list[k]) + 1 - d
                 /\ d = 1 => Len(list[k]) = WindowSize
                 /\ \A i \in 1 .. Len(list'[k]) - 1 :
                      list'[k][i] = list[k][i + d] /\ i + d \in DOMAIN list[k]
            /\ \A h \in Keys : h # k => list'[h] = list[h]
<1>1. KeyOf(l) \in Keys /\ list[KeyOf(l)] \in Seq(Addresses) /\ Len(list[KeyOf(l)]) <= WindowSize
  BY KeyFact DEF StoreInv, TypeOK, AllBounded, Bounded
<1>2. /\ list'[KeyOf(l)] = Evict(Append(list[KeyOf(l)], c))
      /\ \A h \in Keys : h # KeyOf(l) => list'[h] = list[h]
  BY <1>1 DEF AppendCandle, StoreInv, TypeOK
<1> DEFINE s == list[KeyOf(l)]
<1>3. LET t == Evict(Append(s, c))
      IN /\ t \in Seq(Addresses)
         /\ t # <<>>
         /\ Len(t) <= WindowSize
         /\ t[Len(t)] = c
         /\ \E d \in {0, 1} :
              /\ Len(t) = Len(s) + 1 - d
              /\ d = 1 => Len(s) = WindowSize
              /\ \A i \in 1 .. Len(t) - 1 : t[i] = s[i + d] /\ i + d \in DOMAIN s
  BY <1>1, AppendedList
<1> QED
  BY <1>2, <1>3

\* A new candle is nowhere else, and leaves what the snapshots hold alone.
LEMMA StoreAppend ==
  ASSUME StoreInv, NEW l \in Loops, NEW c \in Addresses, NEW m \in Minutes,
         AppendCandle(l, c, m)
  PROVE  StoreInv'
<1> DEFINE k == KeyOf(l)
<1> USE DEF StoreInv
<1>1. TypeOK'
  BY TypeAppend
<1>2. k \in Keys /\ list[k] \in Seq(Addresses)
  BY KeyFact DEF TypeOK
<1>3. /\ list'[k] \in Seq(Addresses)
      /\ list'[k] # <<>>
      /\ Len(list'[k]) <= WindowSize
      /\ list'[k][Len(list'[k])] = c
      /\ \A h \in Keys : h # k => list'[h] = list[h]
  BY ListAfterAppend
<1>4. PICK d \in {0, 1} : \A i \in 1 .. Len(list'[k]) - 1 :
                   list'[k][i] = list[k][i + d] /\ i + d \in DOMAIN list[k]
  BY ListAfterAppend
<1> HIDE DEF k
<1>5. /\ made \in Nat /\ made' = made + 1 /\ c = made + 1
      /\ \A a \in Addresses : a # c => text'[a] = text[a] /\ length'[a] = length[a]
      /\ text'[c] = c /\ length'[c] = c
      /\ data' = data /\ action' = action /\ snap' = snap
      /\ data[l] = "saving"
      /\ batch' = [batch EXCEPT ![l] = @ - 1]
  BY DEF AppendCandle, Delivers, readers, TypeOK
<1>6. /\ \A h \in Keys : \A i \in DOMAIN list[h] : list[h][i] \in Addresses /\ list[h][i] < c
      /\ \A r \in Loops : \A i \in DOMAIN snap[r] : snap[r][i] \in Addresses /\ snap[r][i] < c
  <2>1. /\ \A h \in Keys : list[h] \in Seq(Addresses)
        /\ \A r \in Loops : snap[r] \in Seq(Addresses)
    BY DEF TypeOK
  <2>2. /\ \A h \in Keys : \A i \in DOMAIN list[h] : list[h][i] \in Addresses
        /\ \A r \in Loops : \A i \in DOMAIN snap[r] : snap[r][i] \in Addresses
    <3>1. ASSUME NEW s \in Seq(Addresses), NEW i \in DOMAIN s PROVE s[i] \in Addresses
      OBVIOUS
    <3> QED
      BY <2>1, <3>1
  <2>3. /\ \A h \in Keys : \A i \in DOMAIN list[h] : list[h][i] <= made
        /\ \A r \in Loops : \A i \in DOMAIN snap[r] : snap[r][i] <= made
    BY DEF AllBounded, Bounded
  <2>4. \A a \in Addresses : a <= made => a < c
    BY <1>5
  <2> QED
    BY <2>2, <2>3, <2>4
\* What is in a list after the step was there before, or is c at the end.
<1>7. ASSUME NEW h \in Keys, NEW i \in DOMAIN list'[h]
      PROVE  \/ h = k /\ i = Len(list'[h]) /\ list'[h][i] = c
             \/ h = k /\ i < Len(list'[h]) /\ i + d \in DOMAIN list[h] /\ list'[h][i] = list[h][i + d]
             \/ h # k /\ i \in DOMAIN list[h] /\ list'[h] = list[h]
  <2>1. list'[h] \in Seq(Addresses) /\ list[h] \in Seq(Addresses)
    BY <1>1 DEF TypeOK
  <2>2. i \in 1 .. Len(list'[h]) /\ Len(list'[h]) \in Nat
    BY <2>1
  <2>3. CASE h = k
    <3>1. i = Len(list'[h]) \/ (i < Len(list'[h]) /\ i \in 1 .. Len(list'[h]) - 1)
      BY <2>2
    <3>2. CASE i = Len(list'[h])
      BY <2>3, <3>2, <1>3
    <3>3. CASE i < Len(list'[h]) /\ i \in 1 .. Len(list'[h]) - 1
      <4>1. list'[k][i] = list[k][i + d] /\ i + d \in DOMAIN list[k]
        BY <2>3, <3>3, <1>4
      <4> QED
        BY <2>3, <3>3, <4>1
    <3> QED
      BY <3>1, <3>2, <3>3
  <2>4. CASE h # k
    BY <2>4, <1>3
  <2> QED
    BY <2>3, <2>4
<1>8. LockHeld'
  BY <1>5 DEF LockHeld
<1>9. AllBounded'
  <2>1. ASSUME NEW h \in Keys PROVE Bounded(list[h])'
    <3>1. \A i \in DOMAIN list'[h] : list'[h][i] <= made'
      BY <1>5, <1>6, <1>7
    <3>2. Len(list'[h]) <= WindowSize
      BY <1>3 DEF AllBounded, Bounded
    <3> QED BY <3>1, <3>2 DEF Bounded
  <2>2. ASSUME NEW r \in Loops PROVE Bounded(snap[r])'
    BY <1>5, <1>6 DEF AllBounded, Bounded
  <2> QED BY <2>1, <2>2 DEF AllBounded
<1>10. OnePlace'
  <2> SUFFICES ASSUME NEW g \in Keys, NEW h \in Keys,
                      NEW i \in DOMAIN list'[g], NEW j \in DOMAIN list'[h],
                      list'[g][i] = list'[h][j]
               PROVE  g = h /\ i = j
    BY DEF OnePlace
  <2>1. /\ i \in Nat /\ j \in Nat /\ d \in Nat /\ c \in Nat
        /\ \A e \in Addresses : e < c => e # c
    <3>1. list'[g] \in Seq(Addresses) /\ list'[h] \in Seq(Addresses)
      BY <1>1 DEF TypeOK
    <3> QED BY SMTT(20), <3>1
  <2>2. CASE list'[g][i] = c
    <3>1. g = k /\ i = Len(list'[g])
      BY <2>1, <2>2, <1>6, <1>7
    <3>2. h = k /\ j = Len(list'[h])
      BY <2>1, <2>2, <1>6, <1>7
    <3> QED BY <3>1, <3>2
  <2>3. CASE list'[g][i] # c
    <3>1. \/ g = k /\ i + d \in DOMAIN list[g] /\ list'[g][i] = list[g][i + d]
          \/ g # k /\ i \in DOMAIN list[g] /\ list'[g][i] = list[g][i]
      BY <2>3, <1>7
    <3>2. \/ h = k /\ j + d \in DOMAIN list[h] /\ list'[h][j] = list[h][j + d]
          \/ h # k /\ j \in DOMAIN list[h] /\ list'[h][j] = list[h][j]
      BY <2>3, <1>7
    <3>3. CASE g = k /\ h = k
      <4>1. i + d = j + d
        BY <3>1, <3>2, <3>3 DEF OnePlace
      <4> QED BY <4>1, <3>3, <2>1
    <3>4. CASE g = k /\ h # k
      BY <3>1, <3>2, <3>4 DEF OnePlace
    <3>5. CASE g # k
      BY <3>1, <3>2, <3>5 DEF OnePlace
    <3> QED BY <3>3, <3>4, <3>5
  <2> QED BY <2>2, <2>3
<1>11. SettledAside'
  <2> SUFFICES ASSUME NEW r \in Loops, NEW h \in Keys, NEW i \in DOMAIN snap[r],
                      i < Len(snap[r]), list'[h] # <<>>
               PROVE  snap[r][i] # LastOf(list'[h])
    BY <1>5 DEF SettledAside
  <2>1. CASE h = k
    BY <2>1, <1>3, <1>6 DEF LastOf
  <2>2. CASE h # k
    BY <2>2, <1>3 DEF SettledAside, LastOf
  <2> QED BY <2>1, <2>2
<1>12. SettledWhole'
  <2> SUFFICES ASSUME NEW r \in Loops, NEW i \in DOMAIN snap[r], i < Len(snap[r])
               PROVE  ~Torn(snap[r][i])'
    BY <1>5 DEF SettledWhole
  <2>1. snap[r][i] \in Addresses /\ snap[r][i] # c
    BY <1>5, <1>6
  <2> QED
    BY <2>1, <1>5 DEF SettledWhole, Torn
<1>13. TornInWriting'
  <2> SUFFICES ASSUME NEW h \in Keys, NEW i \in DOMAIN list'[h], Torn(list[h][i])'
               PROVE  /\ i = Len(list'[h])
                      /\ \E r \in Loops : KeyOf(r) = h /\ data[r] = "writing"
    BY <1>5 DEF TornInWriting
  <2>0. \A r \in Loops : data[r] # "writing"
    BY <1>5 DEF LockHeld
  <2>1. list'[h][i] # c
    BY <1>5 DEF Torn
  <2>2. \E j \in DOMAIN list[h] : list'[h][i] = list[h][j]
    BY <2>1, <1>7
  <2>3. PICK j \in DOMAIN list[h] : list'[h][i] = list[h][j]
    BY <2>2
  <2>4. Torn(list[h][j])
    BY <2>1, <2>3, <1>5, <1>6 DEF Torn
  <2> QED
    BY <2>0, <2>4 DEF TornInWriting
<1>14. WriterHasCandle'
  BY <1>5 DEF WriterHasCandle, LockHeld
<1> QED
  BY <1>1, <1>8, <1>9, <1>10, <1>11, <1>12, <1>13, <1>14

\* The last candle of the list is overwritten, its first word first.
LEMMA StoreUpdate ==
  ASSUME StoreInv, NEW l \in Loops, NEW c \in Addresses, NEW m \in Minutes,
         UpdateCandle(l, c, m)
  PROVE  StoreInv'
<1> DEFINE k == KeyOf(l)
           last == LastOf(list[k])
<1> USE DEF StoreInv
<1>1. TypeOK'
  BY TypeUpdate
<1>2. k \in Keys /\ list[k] \in Seq(Addresses) /\ list[k] # <<>>
  BY KeyFact DEF TypeOK, UpdateCandle, Repeats
<1>3. last = list[k][Len(list[k])] /\ Len(list[k]) \in DOMAIN list[k]
  BY <1>2 DEF LastOf
<1>4. /\ made \in Nat /\ made' = made + 1 /\ c = made + 1
      /\ list' = list /\ snap' = snap /\ batch' = batch /\ action' = action
      /\ data' = [data EXCEPT ![l] = "writing"]
      /\ data[l] = "saving" /\ batch[l] > 0
      /\ \A a \in Addresses : a # c => length'[a] = length[a]
      /\ \A a \in Addresses : a # c /\ a # last => text'[a] = text[a]
  BY DEF UpdateCandle, Delivers, readers, TypeOK, Goto
<1>5. /\ \A h \in Keys : \A i \in DOMAIN list[h] : list[h][i] \in Addresses /\ list[h][i] # c
      /\ \A r \in Loops : \A i \in DOMAIN snap[r] : snap[r][i] \in Addresses /\ snap[r][i] # c
  <2>1. /\ \A h \in Keys : list[h] \in Seq(Addresses)
        /\ \A r \in Loops : snap[r] \in Seq(Addresses)
    BY DEF TypeOK
  <2>2. /\ \A h \in Keys : \A i \in DOMAIN list[h] : list[h][i] \in Addresses
        /\ \A r \in Loops : \A i \in DOMAIN snap[r] : snap[r][i] \in Addresses
    <3>1. ASSUME NEW s \in Seq(Addresses), NEW i \in DOMAIN s PROVE s[i] \in Addresses
      OBVIOUS
    <3> QED
      BY <2>1, <3>1
  <2>3. /\ \A h \in Keys : \A i \in DOMAIN list[h] : list[h][i] <= made
        /\ \A r \in Loops : \A i \in DOMAIN snap[r] : snap[r][i] <= made
    BY DEF AllBounded, Bounded
  <2>4. \A a \in Addresses : a <= made => a # c
    BY <1>4
  <2> QED
    BY <2>2, <2>3, <2>4
<1> HIDE DEF k, last
<1>6. LockHeld'
  BY <1>4 DEF LockHeld, TypeOK
<1>7. AllBounded'
  <2>1. \A a \in Addresses : a <= made => a <= made'
    BY <1>4
  <2> QED
    BY <1>4, <1>5, <2>1 DEF AllBounded, Bounded
<1>8. OnePlace' /\ SettledAside'
  BY <1>4 DEF OnePlace, SettledAside
<1>9. SettledWhole'
  <2> SUFFICES ASSUME NEW r \in Loops, NEW i \in DOMAIN snap[r], i < Len(snap[r])
               PROVE  ~Torn(snap[r][i])'
    BY <1>4 DEF SettledWhole
  <2>1. snap[r][i] # last
    BY <1>2 DEF SettledAside, last
  <2> QED
    BY <2>1, <1>4, <1>5 DEF SettledWhole, Torn
<1>10. TornInWriting'
  <2> SUFFICES ASSUME NEW h \in Keys, NEW i \in DOMAIN list[h], Torn(list[h][i])'
               PROVE  /\ i = Len(list[h])
                      /\ \E r \in Loops : KeyOf(r) = h /\ data'[r] = "writing"
    BY <1>4 DEF TornInWriting
  <2>1. data'[l] = "writing" /\ \A r \in Loops : data[r] # "writing"
    BY <1>4 DEF LockHeld, TypeOK
  <2>2. CASE list[h][i] = last
    <3>1. h = k /\ i = Len(list[k])
      BY <2>2, <1>2, <1>3 DEF OnePlace
    <3> QED BY <3>1, <2>1 DEF k
  <2>3. CASE list[h][i] # last
    <3>1. Torn(list[h][i])
      BY <2>3, <1>4, <1>5 DEF Torn
    <3> QED BY <3>1, <2>1 DEF TornInWriting
  <2> QED BY <2>2, <2>3
<1>11. WriterHasCandle'
  BY <1>2, <1>4 DEF WriterHasCandle, TypeOK, k
<1> QED
  BY <1>1, <1>6, <1>7, <1>8, <1>9, <1>10, <1>11

\* Its second word follows.
LEMMA StoreFinish ==
  ASSUME StoreInv, NEW l \in Loops, FinishUpdate(l)
  PROVE  StoreInv'
<1> DEFINE k == KeyOf(l)
           last == LastOf(list[k])
<1> USE DEF StoreInv
<1>1. TypeOK'
  BY TypeRest
<1>2. k \in Keys /\ list[k] \in Seq(Addresses) /\ list[k] # <<>>
  BY KeyFact DEF TypeOK, FinishUpdate, WriterHasCandle
<1>3. last = list[k][Len(list[k])] /\ last \in Addresses
  BY <1>2 DEF LastOf
<1>4. /\ list' = list /\ snap' = snap /\ made' = made /\ action' = action /\ text' = text
      /\ data' = [data EXCEPT ![l] = "saving"]
      /\ data[l] = "writing"
      /\ \A a \in Addresses : a # last => length'[a] = length[a]
      /\ length'[last] = text[last]
  BY <1>3 DEF FinishUpdate, readers, TypeOK, Goto
<1>5. /\ \A h \in Keys : \A i \in DOMAIN list[h] : list[h][i] \in Addresses
      /\ \A r \in Loops : \A i \in DOMAIN snap[r] : snap[r][i] \in Addresses
  <2>1. /\ \A h \in Keys : list[h] \in Seq(Addresses)
        /\ \A r \in Loops : snap[r] \in Seq(Addresses)
    BY DEF TypeOK
  <2> QED
    BY <2>1
\* No other loop is writing: what is torn now is the candle that is mended.
<1>6. \A h \in Keys : \A i \in DOMAIN list[h] : ~Torn(list[h][i])'
  <2> SUFFICES ASSUME NEW h \in Keys, NEW i \in DOMAIN list[h], Torn(list[h][i])'
               PROVE  FALSE
    OBVIOUS
  <2>1. list[h][i] # last /\ Torn(list[h][i])
    BY <1>4, <1>5 DEF Torn
  <2>2. PICK r \in Loops : i = Len(list[h]) /\ KeyOf(r) = h /\ data[r] = "writing"
    BY <2>1 DEF TornInWriting
  <2>3. r = l
    BY <2>2, <1>4 DEF LockHeld
  <2> QED
    BY <2>1, <2>2, <2>3, <1>3
<1> HIDE DEF k, last
<1>7. LockHeld'
  BY <1>4 DEF LockHeld, TypeOK
<1>8. AllBounded' /\ OnePlace' /\ SettledAside'
  BY <1>4 DEF AllBounded, Bounded, OnePlace, SettledAside
<1>9. SettledWhole'
  BY <1>4, <1>5 DEF SettledWhole, Torn
<1>10. TornInWriting'
  BY <1>4, <1>6 DEF TornInWriting
<1>11. WriterHasCandle'
  BY <1>4 DEF WriterHasCandle, LockHeld, TypeOK
<1> QED
  BY <1>1, <1>7, <1>8, <1>9, <1>10, <1>11

\* The list is deleted.
LEMMA StoreDelete ==
  ASSUME StoreInv, NEW l \in Loops, DeleteCandles(l)
  PROVE  StoreInv'
<1> DEFINE k == KeyOf(l)
<1> USE DEF StoreInv
<1>1. TypeOK'
  BY TypeRest
<1>2. k \in Keys
  BY KeyFact
<1> HIDE DEF k
<1>3. /\ list' = [list EXCEPT ![k] = <<>>]
      /\ UNCHANGED <<text, length, made, batch, action, snap>>
      /\ data' = [data EXCEPT ![l] = "down"]
      /\ data[l] = "deleting"
  BY DEF DeleteCandles, candles, readers, Goto, k
<1>4. list'[k] = <<>> /\ \A h \in Keys : h # k => list'[h] = list[h]
  BY <1>2, <1>3 DEF TypeOK
<1>5. LockHeld'
  BY <1>3 DEF LockHeld, TypeOK
<1>6. AllBounded' /\ OnePlace' /\ SettledAside' /\ SettledWhole'
  <2>1. DOMAIN list'[k] = {} /\ Len(list'[k]) = 0
    BY <1>4
  <2>2. AllBounded'
    BY <2>1, <1>3, <1>4 DEF AllBounded, Bounded
  <2>3. OnePlace'
    BY <2>1, <1>4 DEF OnePlace
  <2>4. SettledAside' /\ SettledWhole'
    BY <1>3, <1>4 DEF SettledAside, SettledWhole, Torn
  <2> QED BY <2>2, <2>3, <2>4
<1>7. \A r \in Loops : data[r] # "writing" /\ data'[r] # "writing"
  BY <1>3 DEF LockHeld, TypeOK
<1>8. TornInWriting'
  <2>1. DOMAIN list'[k] = {}
    BY <1>4
  <2> QED
    BY <2>1, <1>3, <1>4, <1>7 DEF TornInWriting, Torn
<1>9. WriterHasCandle'
  BY <1>7 DEF WriterHasCandle
<1> QED
  BY <1>1, <1>5, <1>6, <1>8, <1>9

\* A snapshot is taken: nobody is writing, so nothing in it is torn.
LEMMA StoreCopy ==
  ASSUME StoreInv, NEW l \in Loops, EndCopy(l)
  PROVE  StoreInv'
<1> USE DEF StoreInv
<1>1. TypeOK'
  BY TypeRest
<1>2. KeyOf(l) \in Keys /\ list[KeyOf(l)] \in Seq(Addresses)
  BY KeyFact DEF TypeOK
<1>3. /\ UNCHANGED <<list, text, length, made, data, batch>>
      /\ snap'[l] = list[KeyOf(l)]
      /\ \A r \in Loops : r # l => snap'[r] = snap[r]
      /\ action[l] = "copying"
      /\ action' = [action EXCEPT ![l] = "using"]
  BY DEF EndCopy, candles, dataLoops, TypeOK
<1>4. LockHeld'
  BY <1>3 DEF LockHeld, TypeOK
<1>5. AllBounded' /\ OnePlace'
  BY <1>2, <1>3 DEF AllBounded, Bounded, OnePlace
<1>6. SettledAside'
  <2> SUFFICES ASSUME NEW r \in Loops, NEW h \in Keys, NEW i \in DOMAIN snap'[r],
                      i < Len(snap'[r]), list[h] # <<>>
               PROVE  snap'[r][i] # LastOf(list[h])
    BY <1>3 DEF SettledAside
  <2>1. CASE r = l
    <3>1. list[h] \in Seq(Addresses)
      BY DEF TypeOK
    <3>2. /\ LastOf(list[h]) = list[h][Len(list[h])]
          /\ Len(list[h]) \in DOMAIN list[h]
      BY <3>1 DEF LastOf
    <3>3. i \in DOMAIN list[KeyOf(l)] /\ i # Len(list[KeyOf(l)])
      BY <2>1, <1>2, <1>3
    <3>4. list[KeyOf(l)][i] = list[h][Len(list[h])] => KeyOf(l) = h /\ i = Len(list[h])
      BY <3>2, <3>3, <1>2 DEF OnePlace
    <3>5. snap'[r][i] = list[KeyOf(l)][i]
      BY <2>1, <1>3
    <3> QED
      BY <3>2, <3>3, <3>4, <3>5
  <2>2. CASE r # l
    BY <2>2, <1>3 DEF SettledAside
  <2> QED BY <2>1, <2>2
<1>7. SettledWhole'
  <2>1. \A r \in Loops : data[r] # "writing"
    BY <1>3 DEF LockHeld
  <2>2. \A i \in DOMAIN list[KeyOf(l)] : ~Torn(list[KeyOf(l)][i])
    BY <2>1, <1>2 DEF TornInWriting
  <2> QED
    BY <2>2, <1>3 DEF SettledWhole, Torn
<1>8. TornInWriting' /\ WriterHasCandle'
  BY <1>3 DEF TornInWriting, WriterHasCandle, Torn
<1> QED
  BY <1>1, <1>4, <1>5, <1>6, <1>7, <1>8

\* A snapshot is dropped, or the process ends.
LEMMA StoreDrop ==
  ASSUME StoreInv, ConcurrentMapAccess \/ \E l \in Loops : DropSnapshot(l)
  PROVE  StoreInv'
<1> USE DEF StoreInv
<1>1. TypeOK'
  BY TypeRest
<1>2. CASE ConcurrentMapAccess
  <2>1. /\ \A k \in Keys : list'[k] = <<>>
        /\ \A r \in Loops : snap'[r] = <<>> /\ data'[r] = "down"
        /\ UNCHANGED <<text, length, made>>
    BY <1>2 DEF ConcurrentMapAccess, candles
  <2>2. Len(<<>>) = 0 /\ DOMAIN <<>> = {}
    OBVIOUS
  <2>3. LockHeld' /\ WriterHasCandle'
    BY <2>1 DEF LockHeld, WriterHasCandle
  <2>4. AllBounded'
    BY <2>1, <2>2 DEF AllBounded, Bounded
  <2>5. (OnePlace /\ SettledAside /\ SettledWhole /\ TornInWriting)'
    BY <2>1, <2>2 DEF OnePlace, SettledAside, SettledWhole, TornInWriting
  <2> QED BY <1>1, <2>3, <2>4, <2>5
<1>3. ASSUME NEW l \in Loops, DropSnapshot(l) PROVE StoreInv'
  <2>1. /\ UNCHANGED <<list, text, length, made, data, batch>>
        /\ \A r \in Loops : snap'[r] = snap[r] \/ snap'[r] = <<>>
        /\ \A r \in Loops : action'[r] = "copying" => action[r] = "copying"
    BY <1>3 DEF DropSnapshot, candles, dataLoops, TypeOK
  <2>2. Len(<<>>) = 0 /\ DOMAIN <<>> = {}
    OBVIOUS
  <2>3. LockHeld' /\ OnePlace' /\ TornInWriting' /\ WriterHasCandle'
    BY <2>1 DEF LockHeld, OnePlace, TornInWriting, WriterHasCandle, Torn
  <2>4. AllBounded'
    BY <2>1, <2>2 DEF AllBounded, Bounded
  <2>5. SettledAside' /\ SettledWhole'
    BY <2>1, <2>2 DEF SettledAside, SettledWhole, Torn
  <2> QED BY <1>1, <2>3, <2>4, <2>5
<1> QED BY <1>2, <1>3

\* The invariant holds of empty lists.
LEMMA StoreInit == Init => StoreInv
<1> SUFFICES ASSUME Init PROVE StoreInv
  OBVIOUS
<1>1. Len(<<>>) = 0 /\ DOMAIN <<>> = {}
  OBVIOUS
<1>2. /\ \A k \in Keys : list[k] = <<>>
      /\ \A r \in Loops : snap[r] = <<>> /\ data[r] = "down"
  BY DEF Init
<1>3. LockHeld /\ WriterHasCandle
  BY <1>2 DEF LockHeld, WriterHasCandle
<1>4. AllBounded
  BY <1>1, <1>2 DEF AllBounded, Bounded
<1>5. OnePlace /\ SettledAside /\ SettledWhole /\ TornInWriting
  BY <1>1, <1>2 DEF OnePlace, SettledAside, SettledWhole, TornInWriting
<1> QED
  BY TypeInit, <1>3, <1>4, <1>5 DEF StoreInv

\* Every step keeps the invariant.
LEMMA StoreNext == StoreInv /\ [Next]_vars => StoreInv'
<1> SUFFICES ASSUME StoreInv, [Next]_vars PROVE StoreInv'
  OBVIOUS
<1>1. CASE UNCHANGED vars
  BY <1>1 DEF vars, candles, dataLoops, readers, StoreInv, TypeOK, LockHeld, AllBounded,
     Bounded, OnePlace, SettledAside, SettledWhole, TornInWriting, WriterHasCandle, Torn
<1>2. CASE MinutePasses
  BY <1>2, StoreControl
<1>3. CASE ConcurrentMapAccess
  BY <1>3, StoreDrop
<1>4. ASSUME NEW l \in Loops,
             Start(l) \/ SaveCandles(l) \/ BeginDelete(l) \/ DeleteCandles(l)
      PROVE  StoreInv'
  BY <1>4, StoreControl, StoreAppend, StoreUpdate, StoreFinish, StoreDelete DEF SaveCandles
<1>5. ASSUME NEW l \in Loops, BeginCopy(l) \/ EndCopy(l) \/ DropSnapshot(l)
      PROVE  StoreInv'
  BY <1>5, StoreControl, StoreCopy, StoreDrop
<1> QED
  BY <1>1, <1>2, <1>3, <1>4, <1>5 DEF Next

\* However the data loops of a workload overlap, the repository stays sound:
\* in-place updates reach no candle but the last one of one list
\* (inmem/candle.go:22-71).
THEOREM StoreInvariant == Spec => []StoreInv
<1>1. Init => StoreInv
  BY StoreInit
<1>2. StoreInv /\ [Next]_vars => StoreInv'
  BY StoreNext
<1> QED
  BY <1>1, <1>2, PTL DEF Spec

\* No settled price of a snapshot is caught half written
\* (inmem/candle.go:36-41, 56-64).
THEOREM SettledPricesWhole == Spec => []SettledWhole
<1>1. StoreInv => SettledWhole
  BY DEF StoreInv
<1> QED
  BY <1>1, StoreInvariant, PTL

-----------------------------------------------------------------------------
(* Stability of snapshots.                                                 *)

\* No step changes a price of a snapshot other than the last
\* (techan/signal.go:40-42, inmem/candle.go:35-41).
THEOREM SnapshotsStable == Spec => SnapshotStable
<1> DEFINE Stable == \A l \in Loops : \A i \in DOMAIN snap[l] :
                       i < Len(snap[l]) => /\ text'[snap[l][i]] = text[snap[l][i]]
                                           /\ length'[snap[l][i]] = length[snap[l][i]]
<1>1. ASSUME StoreInv, Next PROVE Stable
  <2> SUFFICES ASSUME NEW r \in Loops, NEW i \in DOMAIN snap[r], i < Len(snap[r])
               PROVE  /\ text'[snap[r][i]] = text[snap[r][i]]
                      /\ length'[snap[r][i]] = length[snap[r][i]]
    OBVIOUS
  <2> DEFINE a == snap[r][i]
  <2>1. a \in Addresses /\ a <= made /\ made \in Nat
    <3>1. snap[r] \in Seq(Addresses)
      BY <1>1 DEF StoreInv, TypeOK
    <3>2. snap[r][i] \in Addresses
      BY <3>1
    <3>3. snap[r][i] <= made
      BY <1>1 DEF StoreInv, AllBounded, Bounded
    <3>4. made \in Nat
      BY <1>1 DEF StoreInv, TypeOK
    <3> QED
      BY <3>2, <3>3, <3>4
  <2>2. \A k \in Keys : list[k] # <<>> => a # LastOf(list[k])
    BY <1>1 DEF StoreInv, SettledAside
  <2> HIDE DEF a
  <2>3. CASE UNCHANGED <<text, length>>
    BY <2>3 DEF a
  <2>4. ASSUME NEW l \in Loops, NEW c \in Addresses, NEW m \in Minutes, AppendCandle(l, c, m)
        PROVE  text'[a] = text[a] /\ length'[a] = length[a]
    BY <1>1, <2>1, <2>4 DEF AppendCandle, Delivers, StoreInv, TypeOK
  <2>5. ASSUME NEW l \in Loops, NEW c \in Addresses, NEW m \in Minutes, UpdateCandle(l, c, m)
        PROVE  text'[a] = text[a] /\ length'[a] = length[a]
    <3>1. a # LastOf(list[KeyOf(l)])
      BY <2>2, <2>5, KeyFact DEF UpdateCandle, Repeats
    <3> QED
      BY <1>1, <2>1, <2>5, <3>1 DEF UpdateCandle, Delivers, StoreInv, TypeOK
  <2>6. ASSUME NEW l \in Loops, FinishUpdate(l)
        PROVE  text'[a] = text[a] /\ length'[a] = length[a]
    <3>1. a # LastOf(list[KeyOf(l)])
      BY <1>1, <2>2, <2>6, KeyFact DEF FinishUpdate, StoreInv, WriterHasCandle
    <3> QED
      BY <1>1, <2>1, <2>6, <3>1 DEF FinishUpdate, StoreInv, TypeOK
  <2>7. \/ UNCHANGED <<text, length>>
        \/ \E l \in Loops : \/ FinishUpdate(l)
                            \/ \E c \in Addresses, m \in Minutes :
                                 AppendCandle(l, c, m) \/ UpdateCandle(l, c, m)
    BY <1>1 DEF Next, SaveCandles, MinutePasses, Start, BeginSave, EndSave, BeginDelete,
       DeleteCandles, BeginCopy, EndCopy, DropSnapshot, ConcurrentMapAccess, candles
  <2> QED
    BY <2>3, <2>4, <2>5, <2>6, <2>7 DEF a
<1>2. StoreInv /\ [Next]_vars => [Stable]_vars
  BY <1>1
<1> QED
  BY <1>2, StoreInvariant, PTL DEF Spec, SnapshotStable

-----------------------------------------------------------------------------
(* Order, while one data loop is at work on a key.                         *)

\* The steps that make no candle and change no list.
LEMMA OrderControl ==
  ASSUME OrderInv,
         \/ MinutePasses
         \/ \E l \in Loops : \/ Start(l) \/ EndSave(l) \/ BeginDelete(l) \/ BeginCopy(l)
                             \/ FinishUpdate(l) \/ DropSnapshot(l)
                             \/ \E n \in 0 .. MaxHistory : BeginSave(l, n)
  PROVE  CandlesOrdered' /\ FeedAhead' /\ OldestMissing'
<1> USE DEF OrderInv, StoreInv
<1>1. /\ list' = list /\ minute' = minute /\ text' = text /\ latest' = latest
      /\ \A r \in Loops : data[r] # "down" => data'[r] # "down" /\ feed'[r] = feed[r]
  <2> USE DEF TypeOK, candles, dataLoops, readers, Goto
  <2>1. CASE MinutePasses
    BY <2>1 DEF MinutePasses
  <2>2. CASE \E l \in Loops : Start(l) \/ EndSave(l) \/ FinishUpdate(l)
    BY <2>2 DEF Start, EndSave, FinishUpdate
  <2>3. CASE \E l \in Loops : BeginDelete(l) \/ BeginCopy(l) \/ DropSnapshot(l)
    BY <2>3 DEF BeginDelete, BeginCopy, DropSnapshot
  <2>4. CASE \E l \in Loops : \E n \in 0 .. MaxHistory : BeginSave(l, n)
    BY <2>4 DEF BeginSave
  <2> QED
    BY <2>1, <2>2, <2>3, <2>4
<1>2. \A k \in Keys : AloneOn(k)' => AloneOn(k)
  BY <1>1 DEF AloneOn, AtWork
<1>3. CandlesOrdered'
  BY <1>1, <1>2 DEF CandlesOrdered, Ascending
<1>4. FeedAhead'
  BY <1>1, <1>2 DEF FeedAhead, AtWork
<1>5. OldestMissing'
  BY <1>1, <1>2 DEF OldestMissing, SavedMinutes, Shows
<1> QED BY <1>3, <1>4, <1>5

\* A candle is made for loop l: if l is alone, the minute is not older than
\* those of the list.
LEMMA OrderFresh ==
  ASSUME OrderInv, NEW l \in Loops, NEW c \in Addresses, NEW m \in Minutes,
         data[l] = "saving", Delivers(l, c, m)
  PROVE  /\ \A h \in Keys : \A i \in DOMAIN list[h] :
              list[h][i] \in Addresses /\ minute'[list[h][i]] = minute[list[h][i]]
         /\ minute'[c] = m /\ feed'[l] = m
         /\ \A r \in Loops : r # l => feed'[r] = feed[r]
         /\ AloneOn(KeyOf(l)) /\ list[KeyOf(l)] # <<>>
              => minute[LastOf(list[KeyOf(l)])] <= m
         /\ \A h \in Keys : h # KeyOf(l) /\ AloneOn(h) /\ list[h] # <<>> =>
              \E r \in Loops : /\ r # l /\ KeyOf(r) = h /\ AtWork(r)
                             /\ minute[LastOf(list[h])] <= feed[r]
<1> USE DEF OrderInv, StoreInv
<1>1. /\ made \in Nat /\ c = made + 1
      /\ \A a \in Addresses : a # c => minute'[a] = minute[a]
      /\ minute'[c] = m /\ feed'[l] = m /\ feed[l] <= m
      /\ \A r \in Loops : r # l => feed'[r] = feed[r]
  BY DEF TypeOK, Delivers
<1>2. \A h \in Keys : list[h] \in Seq(Addresses)
  BY DEF TypeOK
<1>3. \A h \in Keys : \A i \in DOMAIN list[h] : list[h][i] \in Addresses
  <2>1. ASSUME NEW s \in Seq(Addresses), NEW i \in DOMAIN s PROVE s[i] \in Addresses
    OBVIOUS
  <2> QED
    BY <1>2, <2>1
<1>4. \A h \in Keys : \A i \in DOMAIN list[h] : list[h][i] <= made
  BY DEF AllBounded, Bounded
<1>5. \A a \in Addresses : a <= made => a # c
  BY <1>1
<1>6. ASSUME AloneOn(KeyOf(l)), list[KeyOf(l)] # <<>>
      PROVE  minute[LastOf(list[KeyOf(l)])] <= m
  <2>1. PICK r \in Loops : /\ KeyOf(r) = KeyOf(l) /\ AtWork(r)
                          /\ minute[LastOf(list[KeyOf(l)])] <= feed[r]
    BY <1>6, KeyFact DEF FeedAhead
  <2>2. r = l
    BY <1>6, <2>1 DEF AloneOn, AtWork
  <2>3. LastOf(list[KeyOf(l)]) \in Addresses
    BY <1>2, <1>6, KeyFact DEF LastOf
  <2>4. minute[LastOf(list[KeyOf(l)])] \in Nat /\ feed[l] \in Nat
    BY <2>3 DEF TypeOK
  <2> QED
    BY <2>1, <2>2, <2>4, <1>1
<1>7. \A h \in Keys : h # KeyOf(l) /\ AloneOn(h) /\ list[h] # <<>> =>
        \E r \in Loops : /\ r # l /\ KeyOf(r) = h /\ AtWork(r)
                       /\ minute[LastOf(list[h])] <= feed[r]
  BY DEF FeedAhead
<1> QED
  BY <1>1, <1>3, <1>4, <1>5, <1>6, <1>7

\* The number of a candle that is made is in no list yet.
LEMMA OldAddresses ==
  ASSUME OrderInv, NEW l \in Loops, NEW c \in Addresses, NEW m \in Minutes, Delivers(l, c, m)
  PROVE  \A h \in Keys : \A i \in DOMAIN list[h] : list[h][i] # c
<1>1. c = made + 1 /\ made \in Nat
  BY DEF Delivers, OrderInv, StoreInv, TypeOK
<1>2. ASSUME NEW h \in Keys, NEW i \in DOMAIN list[h] PROVE list[h][i] \in Addresses
  <2>1. list[h] \in Seq(Addresses)
    BY DEF OrderInv, StoreInv, TypeOK
  <2> QED BY <2>1
<1>3. \A h \in Keys : \A i \in DOMAIN list[h] : list[h][i] <= made
  BY DEF OrderInv, StoreInv, AllBounded, Bounded
<1>4. \A e \in Addresses : e <= made => e # c
  BY <1>1
<1> QED
  BY <1>2, <1>3, <1>4

\* A candle that is appended is newer than all the list holds.
LEMMA OlderThanNew ==
  ASSUME OrderInv, NEW l \in Loops, NEW c \in Addresses, NEW m \in Minutes,
         AppendCandle(l, c, m), AloneOn(KeyOf(l))
  PROVE  \A i \in DOMAIN list[KeyOf(l)] : minute[list[KeyOf(l)][i]] < m
<1> DEFINE k == KeyOf(l)
<1> USE DEF OrderInv
<1>1. data[l] = "saving" /\ Delivers(l, c, m) /\ ~Repeats(l, m)
  BY DEF AppendCandle
<1>2. list[k] # <<>> => minute[LastOf(list[k])] <= m
  BY <1>1, OrderFresh
<1>3. k \in Keys /\ list[k] \in Seq(Addresses)
  BY KeyFact DEF StoreInv, TypeOK
<1>4. \A i \in DOMAIN list[k] : minute[list[k][i]] \in Nat
  <2>1. \A i \in DOMAIN list[k] : list[k][i] \in Addresses
    BY <1>3
  <2> QED
    BY <2>1 DEF StoreInv, TypeOK
<1>5. list[k] = <<>> \/ minute[LastOf(list[k])] # m
  BY <1>1 DEF Repeats
<1> HIDE DEF k
<1> SUFFICES ASSUME NEW i \in DOMAIN list[k]
             PROVE  minute[list[k][i]] < m
  BY DEF k
<1>6. /\ list[k] # <<>> /\ LastOf(list[k]) = list[k][Len(list[k])]
      /\ Len(list[k]) \in DOMAIN list[k] /\ i \in Nat /\ i <= Len(list[k])
  BY <1>3 DEF LastOf
<1>7. minute[list[k][i]] \in Nat /\ minute[LastOf(list[k])] \in Nat
  BY <1>4, <1>6
<1>8. minute[LastOf(list[k])] < m
  BY <1>2, <1>5, <1>6, <1>7
<1>9. i < Len(list[k]) => minute[list[k][i]] < minute[LastOf(list[k])]
  BY <1>3, <1>6 DEF CandlesOrdered, Ascending, k
<1> QED
  BY <1>6, <1>7, <1>8, <1>9

\* A new candle is newer than the last one, and is the last the loop was given.
LEMMA OrderAppend ==
  ASSUME OrderInv, NEW l \in Loops, NEW c \in Addresses, NEW m \in Minutes,
         AppendCandle(l, c, m)
  PROVE  CandlesOrdered' /\ FeedAhead'
<1> DEFINE k == KeyOf(l)
<1> USE DEF OrderInv
<1>1. /\ data[l] = "saving" /\ Delivers(l, c, m)
      /\ data' = data
      /\ \A h \in Keys : AloneOn(h)' => AloneOn(h)
  BY DEF AppendCandle, AloneOn, AtWork
<1>2. /\ \A h \in Keys : \A i \in DOMAIN list[h] :
           list[h][i] \in Addresses /\ minute'[list[h][i]] = minute[list[h][i]]
      /\ minute'[c] = m /\ feed'[l] = m
      /\ \A r \in Loops : r # l => feed'[r] = feed[r]
      /\ \A h \in Keys : h # k /\ AloneOn(h) /\ list[h] # <<>> =>
           \E r \in Loops : /\ r # l /\ KeyOf(r) = h /\ AtWork(r)
                          /\ minute[LastOf(list[h])] <= feed[r]
  BY <1>1, OrderFresh
<1>3. /\ list'[k] \in Seq(Addresses)
      /\ list'[k] # <<>>
      /\ list'[k][Len(list'[k])] = c
      /\ \A h \in Keys : h # k => list'[h] = list[h]
  BY ListAfterAppend
<1>4. PICK d \in {0, 1} : \A i \in 1 .. Len(list'[k]) - 1 :
                   list'[k][i] = list[k][i + d] /\ i + d \in DOMAIN list[k]
  BY ListAfterAppend
<1>5. k \in Keys /\ list[k] \in Seq(Addresses)
  BY KeyFact DEF StoreInv, TypeOK
<1> HIDE DEF k
<1>8. AloneOn(k) => \A i \in DOMAIN list[k] : minute[list[k][i]] < m
  BY OlderThanNew DEF k
<1>9. ASSUME NEW h \in Keys, AloneOn(h) PROVE Ascending(list[h])'
  <2> SUFFICES ASSUME NEW i \in DOMAIN list'[h], NEW j \in DOMAIN list'[h], i < j
               PROVE  minute'[list'[h][i]] < minute'[list'[h][j]]
    BY DEF Ascending
  <2>1. CASE h # k
    BY <2>1, <1>2, <1>3, <1>9 DEF CandlesOrdered, Ascending
  <2>2. CASE h = k
    <3>1. /\ i \in Nat /\ j \in Nat /\ j <= Len(list'[k])
          /\ i \in 1 .. Len(list'[k]) - 1
          /\ j = Len(list'[k]) \/ j \in 1 .. Len(list'[k]) - 1
      BY <2>2, <1>3
    <3>2. /\ i + d \in DOMAIN list[k] /\ list'[k][i] = list[k][i + d]
          /\ minute'[list'[k][i]] = minute[list[k][i + d]]
      <4>1. i + d \in DOMAIN list[k] /\ list'[k][i] = list[k][i + d]
        BY <3>1, <1>4
      <4> QED
        BY <4>1, <1>2, <1>5
    <3>3. CASE j = Len(list'[k])
      BY <2>2, <3>2, <3>3, <1>2, <1>3, <1>8, <1>9
    <3>4. CASE j \in 1 .. Len(list'[k]) - 1
      <4>1. /\ j + d \in DOMAIN list[k] /\ list'[k][j] = list[k][j + d]
            /\ minute'[list'[k][j]] = minute[list[k][j + d]]
        <5>1. j + d \in DOMAIN list[k] /\ list'[k][j] = list[k][j + d]
          BY <3>4, <1>4
        <5> QED
          BY <5>1, <1>2, <1>5
      <4>2. i + d < j + d
        BY <3>1
      <4>3. minute[list[k][i + d]] < minute[list[k][j + d]]
        BY <2>2, <3>2, <4>1, <4>2, <1>5, <1>9 DEF CandlesOrdered, Ascending
      <4> QED
        BY <2>2, <3>2, <4>1, <4>3
    <3> QED BY <3>1, <3>3, <3>4
  <2> QED BY <2>1, <2>2
<1>10. CandlesOrdered'
  BY <1>1, <1>9 DEF CandlesOrdered
<1>11. FeedAhead'
  <2> SUFFICES ASSUME NEW h \in Keys, AloneOn(h), list'[h] # <<>>
               PROVE  \E r \in Loops : /\ KeyOf(r) = h /\ AtWork(r)
                                      /\ minute'[LastOf(list'[h])] <= feed'[r]
    BY <1>1 DEF FeedAhead, AtWork
  <2>1. CASE h = k
    <3>1. minute'[LastOf(list'[h])] = m
      BY <2>1, <1>2, <1>3 DEF LastOf
    <3>2. m <= feed'[l] /\ AtWork(l)
      BY <1>1, <1>2 DEF AtWork
    <3> QED
      BY <2>1, <3>1, <3>2 DEF k
  <2>2. CASE h # k
    <3>1. /\ list'[h] = list[h] /\ list[h] # <<>>
          /\ list[h] \in Seq(Addresses)
      BY <2>2, <1>3 DEF StoreInv, TypeOK
    <3>2. LastOf(list[h]) = list[h][Len(list[h])] /\ Len(list[h]) \in DOMAIN list[h]
      BY <3>1 DEF LastOf
    <3>3. minute'[LastOf(list[h])] = minute[LastOf(list[h])]
      BY <3>2, <1>2
    <3> QED
      BY <2>2, <3>1, <3>3, <1>2
  <2> QED BY <2>1, <2>2
<1> QED BY <1>10, <1>11

\* The first candle of a full list makes room, and it was the oldest.
LEMMA MissingAppend ==
  ASSUME OrderInv, NEW l \in Loops, NEW c \in Addresses, NEW m \in Minutes,
         AppendCandle(l, c, m)
  PROVE  OldestMissing'
<1> DEFINE k == KeyOf(l)
<1> USE DEF OrderInv
<1>1. /\ data[l] = "saving" /\ Delivers(l, c, m)
      /\ \A h \in Keys : AloneOn(h)' => AloneOn(h)
      /\ text' = [text EXCEPT ![c] = c]
      /\ latest' = [latest EXCEPT ![k][m] = c]
  BY DEF AppendCandle, AloneOn, AtWork
<1>2. AloneOn(k) => \A i \in DOMAIN list[k] : minute[list[k][i]] < m
  BY OlderThanNew
<1>3. /\ \A h \in Keys : \A i \in DOMAIN list[h] :
           list[h][i] \in Addresses /\ minute'[list[h][i]] = minute[list[h][i]]
      /\ minute'[c] = m
  BY <1>1, OrderFresh
<1>4. /\ list'[k] \in Seq(Addresses)
      /\ list'[k] # <<>>
      /\ Len(list'[k]) <= WindowSize
      /\ list'[k][Len(list'[k])] = c
      /\ \A h \in Keys : h # k => list'[h] = list[h]
  BY ListAfterAppend DEF StoreInv
<1>5. PICK d \in {0, 1} :
           /\ Len(list'[k]) = Len(list[k]) + 1 - d
           /\ d = 1 => Len(list[k]) = WindowSize
           /\ \A i \in 1 .. Len(list'[k]) - 1 :
                list'[k][i] = list[k][i + d] /\ i + d \in DOMAIN list[k]
  BY ListAfterAppend
<1>6. k \in Keys /\ list[k] \in Seq(Addresses)
  BY KeyFact DEF StoreInv, TypeOK
<1>7. /\ \A h \in Keys : \A i \in DOMAIN list[h] : text'[list[h][i]] = text[list[h][i]]
      /\ text'[c] = c /\ c # 0
      /\ \A h \in Keys : h # k => latest'[h] = latest[h]
      /\ latest'[k][m] = c
      /\ \A n \in Minutes : n # m => latest'[k][n] = latest[k][n]
  <2>1. \A h \in Keys : \A i \in DOMAIN list[h] : list[h][i] # c
    BY <1>1, OldAddresses
  <2>2. /\ text \in [Addresses -> 0 .. MaxCandles]
        /\ latest \in [Keys -> [Minutes -> 0 .. MaxCandles]]
    BY DEF StoreInv, TypeOK
  <2>3. latest'[k] = [latest[k] EXCEPT ![m] = c] /\ latest[k] \in [Minutes -> 0 .. MaxCandles]
    BY <1>1, <1>6, <2>2
  <2>4. latest'[k][m] = c /\ \A n \in Minutes : n # m => latest'[k][n] = latest[k][n]
    BY <2>3
  <2>5. \A h \in Keys : h # k => latest'[h] = latest[h]
    BY <1>1, <1>6, <2>2
  <2> HIDE DEF k
  <2>6. text'[c] = c /\ \A e \in Addresses : e # c => text'[e] = text[e]
    BY <1>1, <2>2
  <2> QED
    BY <1>3, <2>1, <2>4, <2>5, <2>6
<1> HIDE DEF k
<1>8. ASSUME NEW h \in Keys, h # k, AloneOn(h)
      PROVE  /\ \A i \in DOMAIN list'[h] :
                  LET n == minute'[list'[h][i]]
                  IN n \in SavedMinutes(h)' /\ text'[list'[h][i]] = latest'[h][n]
             /\ \A n \in SavedMinutes(h)' :
                  \/ Shows(h, n)'
                  \/ /\ Len(list'[h]) = WindowSize
                     /\ \A i \in DOMAIN list'[h] : n < minute'[list'[h][i]]
  <2>1. /\ list'[h] = list[h] /\ latest'[h] = latest[h]
        /\ \A i \in DOMAIN list[h] : /\ minute'[list[h][i]] = minute[list[h][i]]
                                    /\ text'[list[h][i]] = text[list[h][i]]
    BY <1>3, <1>4, <1>7, <1>8
  <2>2. SavedMinutes(h)' = SavedMinutes(h)
    BY <2>1 DEF SavedMinutes
  <2>3. \A n : Shows(h, n)' <=> Shows(h, n)
    BY <2>1 DEF Shows
  <2> QED
    BY <1>8, <2>1, <2>2, <2>3 DEF OldestMissing
<1>9. ASSUME AloneOn(k), NEW i \in DOMAIN list'[k]
      PROVE  LET n == minute'[list'[k][i]]
             IN n \in SavedMinutes(k)' /\ text'[list'[k][i]] = latest'[k][n]
  <2>1. CASE i = Len(list'[k])
    BY <2>1, <1>3, <1>4, <1>7 DEF SavedMinutes
  <2>2. CASE i # Len(list'[k])
    <3>1. i \in 1 .. Len(list'[k]) - 1
      BY <2>2, <1>4
    <3>2. list'[k][i] = list[k][i + d] /\ i + d \in DOMAIN list[k]
      BY <3>1, <1>5
    <3> DEFINE j == i + d
               n == minute[list[k][j]]
    <3>3. n \in SavedMinutes(k) /\ text[list[k][j]] = latest[k][n]
      BY <3>2, <1>6, <1>9 DEF OldestMissing
    <3>4. n # m
      <4>1. n < m /\ m \in Nat /\ n \in Nat
        BY <3>2, <3>3, <1>2, <1>9 DEF SavedMinutes
      <4> QED
        BY <4>1
    <3>5. minute'[list'[k][i]] = n /\ text'[list'[k][i]] = text[list[k][j]]
      BY <3>2, <1>3, <1>6, <1>7
    <3> HIDE DEF j, n
    <3> QED
      BY <3>3, <3>4, <3>5, <1>7 DEF SavedMinutes
  <2> QED BY <2>1, <2>2
<1>10. ASSUME AloneOn(k), NEW n \in SavedMinutes(k)', ~Shows(k, n)'
       PROVE  /\ Len(list'[k]) = WindowSize
              /\ \A i \in DOMAIN list'[k] : n < minute'[list'[k][i]]
  <2>1. n # m
    BY <1>3, <1>4, <1>10 DEF Shows
  <2>2. n \in SavedMinutes(k) /\ n \in Nat /\ m \in Nat
    BY <2>1, <1>7, <1>10 DEF SavedMinutes
  \* The minute that goes, if one goes, is the first.
  <2>3. ASSUME NEW j \in DOMAIN list[k], minute[list[k][j]] = n
        PROVE  d = 1 /\ j = 1
    <3>1. j \in 1 .. Len(list[k]) /\ Len(list[k]) \in Nat
      BY <1>6
    <3>2. CASE j - d \in 1 .. Len(list'[k]) - 1
      <4>1. list'[k][j - d] = list[k][(j - d) + d]
        BY <3>2, <1>5
      <4>2. minute'[list'[k][j - d]] = n
        <5>1. (j - d) + d = j
          BY <3>1
        <5> QED
          BY <4>1, <5>1, <2>3, <1>3, <1>6
      <4>3. j - d \in DOMAIN list'[k]
        BY <3>2, <1>4
      <4> QED
        BY <4>2, <4>3, <1>10 DEF Shows
    <3>3. CASE ~(j - d \in 1 .. Len(list'[k]) - 1)
      BY <3>1, <3>3, <1>5
    <3> QED BY <3>2, <3>3
  \* It is older than whatever the list showed after it.
  <2>4. \A j \in DOMAIN list[k] : j > d => n < minute[list[k][j]]
    <3>1. CASE Shows(k, n)
      <4>1. PICK e \in DOMAIN list[k] : minute[list[k][e]] = n
        BY <3>1 DEF Shows
      <4>2. d = 1 /\ e = 1
        BY <2>3, <4>1
      <4> QED
        BY <4>1, <4>2, <1>6, <1>10 DEF CandlesOrdered, Ascending
    <3>2. CASE ~Shows(k, n)
      BY <3>2, <2>2, <1>6, <1>10 DEF OldestMissing
    <3> QED BY <3>1, <3>2
  <2>5. Len(list[k]) = WindowSize
    <3>1. CASE Shows(k, n)
      BY <3>1, <2>3, <1>5 DEF Shows
    <3>2. CASE ~Shows(k, n)
      BY <3>2, <2>2, <1>6, <1>10 DEF OldestMissing
    <3> QED BY <3>1, <3>2
  <2>6. d = 1 /\ Len(list'[k]) = WindowSize
    BY <2>5, <1>4, <1>5, <1>6
  <2>7. n < m
    <3>1. Len(list[k]) \in DOMAIN list[k] /\ Len(list[k]) \in Nat
      BY <2>5, <1>6
    <3>2. /\ minute[list[k][Len(list[k])]] < m
          /\ minute[list[k][Len(list[k])]] \in Nat
      <4>1. list[k][Len(list[k])] \in Addresses
        BY <3>1, <1>3, <1>6
      <4>2. minute \in [Addresses -> 0 .. MaxMinute]
        BY DEF StoreInv, TypeOK
      <4>3. minute[list[k][Len(list[k])]] \in Nat
        <5>1. minute[list[k][Len(list[k])]] \in 0 .. MaxMinute
          BY <4>1, <4>2
        <5> QED BY <5>1
      <4> QED
        BY <3>1, <4>3, <1>2, <1>10
    <3>3. CASE Len(list[k]) > d
      BY <3>1, <3>2, <3>3, <2>2, <2>4
    <3>4. CASE Len(list[k]) = 1
      <4>1. CASE Shows(k, n)
        <5>1. PICK e \in DOMAIN list[k] : minute[list[k][e]] = n
          BY <4>1 DEF Shows
        <5> QED
          BY <5>1, <1>2, <1>10
      <4>2. CASE ~Shows(k, n)
        <5>1. n < minute[list[k][Len(list[k])]]
          BY <4>2, <3>1, <2>2, <1>6, <1>10 DEF OldestMissing
        <5> QED
          BY <5>1, <3>2, <2>2
      <4> QED BY <4>1, <4>2
    <3> QED
      BY <3>1, <3>3, <3>4, <2>5, <2>6
  <2>8. ASSUME NEW i \in DOMAIN list'[k] PROVE n < minute'[list'[k][i]]
    <3>1. CASE i = Len(list'[k])
      BY <3>1, <2>7, <1>3, <1>4
    <3>2. CASE i # Len(list'[k])
      <4>1. i \in 1 .. Len(list'[k]) - 1
        BY <3>2, <1>4
      <4>2. list'[k][i] = list[k][i + d] /\ i + d \in DOMAIN list[k] /\ i + d > d
        BY <4>1, <2>6, <1>5
      <4>3. n < minute[list[k][i + d]]
        BY <4>2, <2>4
      <4> QED
        BY <4>2, <4>3, <1>3, <1>6
    <3> QED BY <3>1, <3>2
  <2> QED BY <2>6, <2>8
<1> QED
  BY <1>1, <1>8, <1>9, <1>10 DEF OldestMissing

\* An update leaves the minutes of the list as they are.
LEMMA OrderUpdate ==
  ASSUME OrderInv, NEW l \in Loops, NEW c \in Addresses, NEW m \in Minutes,
         UpdateCandle(l, c, m)
  PROVE  CandlesOrdered' /\ FeedAhead'
<1> DEFINE k == KeyOf(l)
<1> USE DEF OrderInv
<1>1. /\ data[l] = "saving" /\ Delivers(l, c, m)
      /\ list' = list
      /\ minute[LastOf(list[k])] = m
  BY DEF UpdateCandle, Repeats
<1>2. /\ \A h \in Keys : \A i \in DOMAIN list[h] : minute'[list[h][i]] = minute[list[h][i]]
      /\ feed'[l] = m
      /\ \A r \in Loops : r # l => feed'[r] = feed[r]
      /\ \A h \in Keys : h # k /\ AloneOn(h) /\ list[h] # <<>> =>
           \E r \in Loops : /\ r # l /\ KeyOf(r) = h /\ AtWork(r)
                          /\ minute[LastOf(list[h])] <= feed[r]
  BY <1>1, OrderFresh
<1>3. /\ \A r \in Loops : AtWork(r)' <=> AtWork(r)
      /\ \A h \in Keys : AloneOn(h)' => AloneOn(h)
  <2>1. data'[l] # "down" /\ \A r \in Loops : r # l => data'[r] = data[r]
    BY DEF UpdateCandle, Goto, StoreInv, TypeOK
  <2> QED
    BY <1>1, <2>1 DEF AloneOn, AtWork
<1> HIDE DEF k
<1>4. CandlesOrdered'
  BY <1>1, <1>2, <1>3 DEF CandlesOrdered, Ascending
<1>5. FeedAhead'
  <2> SUFFICES ASSUME NEW h \in Keys, AloneOn(h), list[h] # <<>>
               PROVE  \E r \in Loops : /\ KeyOf(r) = h /\ AtWork(r)
                                      /\ minute'[LastOf(list[h])] <= feed'[r]
    BY <1>1, <1>3 DEF FeedAhead
  <2>1. list[h] \in Seq(Addresses)
    BY DEF StoreInv, TypeOK
  <2>2. LastOf(list[h]) = list[h][Len(list[h])] /\ Len(list[h]) \in DOMAIN list[h]
    BY <2>1 DEF LastOf
  <2>3. minute'[LastOf(list[h])] = minute[LastOf(list[h])]
    BY <2>2, <1>2
  <2>4. CASE h = k
    BY <2>3, <2>4, <1>1, <1>2 DEF k, AtWork
  <2>5. CASE h # k
    BY <2>3, <2>5, <1>2
  <2> QED BY <2>4, <2>5
<1> QED BY <1>4, <1>5

\* The last candle is the only one whose last tick changes.
LEMMA MissingUpdate ==
  ASSUME OrderInv, NEW l \in Loops, NEW c \in Addresses, NEW m \in Minutes,
         UpdateCandle(l, c, m)
  PROVE  OldestMissing'
<1> DEFINE k == KeyOf(l)
           last == LastOf(list[k])
<1> USE DEF OrderInv
<1>1. k \in Keys /\ list[k] \in Seq(Addresses) /\ list[k] # <<>>
  BY KeyFact DEF StoreInv, TypeOK, UpdateCandle, Repeats
<1>2. /\ last = list[k][Len(list[k])] /\ Len(list[k]) \in DOMAIN list[k]
      /\ last \in Addresses
  BY <1>1 DEF LastOf
<1>3. /\ data[l] = "saving" /\ Delivers(l, c, m)
      /\ list' = list
      /\ minute[last] = m
      /\ text' = [text EXCEPT ![c] = c, ![last] = c]
      /\ latest' = [latest EXCEPT ![k][m] = c]
  BY DEF UpdateCandle, Repeats
<1>4. \A h \in Keys : \A i \in DOMAIN list[h] :
           list[h][i] \in Addresses /\ minute'[list[h][i]] = minute[list[h][i]]
  BY <1>3, OrderFresh
<1>5. \A h \in Keys : AloneOn(h)' => AloneOn(h)
  <2>1. data'[l] # "down" /\ \A r \in Loops : r # l => data'[r] = data[r]
    BY DEF UpdateCandle, Goto, StoreInv, TypeOK
  <2> QED
    BY <1>3, <2>1 DEF AloneOn, AtWork
<1>6. /\ \A h \in Keys : h # k => latest'[h] = latest[h]
      /\ latest'[k][m] = c /\ c # 0
      /\ \A n \in Minutes : n # m => latest'[k][n] = latest[k][n]
  <2>1. latest \in [Keys -> [Minutes -> 0 .. MaxCandles]]
    BY DEF StoreInv, TypeOK
  <2>2. latest'[k] = [latest[k] EXCEPT ![m] = c] /\ latest[k] \in [Minutes -> 0 .. MaxCandles]
    BY <1>1, <1>3, <2>1
  <2> QED
    BY <1>1, <1>3, <2>1, <2>2
<1>7. /\ text'[last] = c
      /\ \A e \in Addresses : e # c /\ e # last => text'[e] = text[e]
  BY <1>2, <1>3 DEF StoreInv, TypeOK
<1>8. \A h \in Keys : \A i \in DOMAIN list[h] :
         list[h][i] # c /\ (list[h][i] = last => h = k /\ i = Len(list[k]))
  <2>1. \A h \in Keys : \A i \in DOMAIN list[h] : list[h][i] # c
    BY <1>3, OldAddresses
  <2>2. \A h \in Keys : \A i \in DOMAIN list[h] : list[h][i] = last => h = k /\ i = Len(list[k])
    BY <1>1, <1>2 DEF StoreInv, OnePlace
  <2> QED BY <2>1, <2>2
<1> HIDE DEF k, last
<1>9. ASSUME NEW h \in Keys, AloneOn(h), NEW i \in DOMAIN list[h]
      PROVE  LET n == minute'[list[h][i]]
             IN n \in SavedMinutes(h)' /\ text'[list[h][i]] = latest'[h][n]
  <2> DEFINE n == minute[list[h][i]]
  <2>1. n \in SavedMinutes(h) /\ text[list[h][i]] = latest[h][n]
    BY <1>9 DEF OldestMissing
  <2>2. minute'[list[h][i]] = n /\ list[h][i] \in Addresses
    BY <1>4
  <2>3. CASE list[h][i] = last
    <3>1. h = k /\ n = m
      BY <2>3, <1>3, <1>8
    <3> QED
      BY <2>1, <2>2, <2>3, <3>1, <1>6, <1>7 DEF SavedMinutes
  <2>4. CASE list[h][i] # last
    <3>1. text'[list[h][i]] = text[list[h][i]]
      BY <2>2, <2>4, <1>7, <1>8
    <3>2. h = k => n # m
      <4> SUFFICES ASSUME h = k PROVE n # m
        OBVIOUS
      <4>1. i # Len(list[k]) /\ i < Len(list[k])
        BY <2>4, <1>1, <1>2
      <4>2. n < minute[last]
        BY <4>1, <1>1, <1>2, <1>9 DEF CandlesOrdered, Ascending
      <4>3. n \in Nat /\ m \in Nat
        BY <2>1 DEF SavedMinutes
      <4> QED
        BY <4>2, <4>3, <1>3
    <3> HIDE DEF n
    <3> QED
      BY <2>1, <2>2, <3>1, <3>2, <1>6 DEF SavedMinutes
  <2> QED BY <2>3, <2>4
<1>10. ASSUME NEW h \in Keys, AloneOn(h), NEW n \in SavedMinutes(h)', ~Shows(h, n)'
       PROVE  /\ Len(list[h]) = WindowSize
              /\ \A i \in DOMAIN list[h] : n < minute'[list[h][i]]
  <2>1. ~Shows(h, n)
    BY <1>3, <1>4, <1>10 DEF Shows
  <2>2. h = k => n # m
    BY <2>1, <1>2, <1>3 DEF Shows
  <2>3. n \in SavedMinutes(h)
    BY <2>2, <1>6, <1>10 DEF SavedMinutes
  <2> QED
    BY <2>1, <2>3, <1>4, <1>10 DEF OldestMissing
<1>11. ASSUME NEW h \in Keys, AloneOn(h)'
       PROVE  /\ \A i \in DOMAIN list'[h] :
                   LET n == minute'[list'[h][i]]
                   IN n \in SavedMinutes(h)' /\ text'[list'[h][i]] = latest'[h][n]
              /\ \A n \in SavedMinutes(h)' :
                   \/ Shows(h, n)'
                   \/ /\ Len(list'[h]) = WindowSize
                      /\ \A i \in DOMAIN list'[h] : n < minute'[list'[h][i]]
  <2>1. AloneOn(h)
    BY <1>5, <1>11
  <2>2. list' = list
    BY <1>3
  <2>3. \A i \in DOMAIN list[h] :
          LET n == minute'[list[h][i]]
          IN n \in SavedMinutes(h)' /\ text'[list[h][i]] = latest'[h][n]
    BY <2>1, <1>9
  <2>4. \A n \in SavedMinutes(h)' :
          \/ Shows(h, n)'
          \/ /\ Len(list[h]) = WindowSize
             /\ \A i \in DOMAIN list[h] : n < minute'[list[h][i]]
    BY <2>1, <1>10
  <2> QED
    BY <2>1, <2>2, <2>3, <2>4
<1> QED
  BY <1>11 DEF OldestMissing

\* A list goes, a snapshot is taken, or the process ends.
LEMMA OrderRest ==
  ASSUME OrderInv,
         ConcurrentMapAccess \/ \E l \in Loops : DeleteCandles(l) \/ EndCopy(l)
  PROVE  CandlesOrdered' /\ FeedAhead' /\ OldestMissing'
<1> USE DEF OrderInv, StoreInv
<1>0. DOMAIN <<>> = {}
  OBVIOUS
<1>1. CASE ConcurrentMapAccess
  BY <1>0, <1>1 DEF ConcurrentMapAccess, CandlesOrdered, Ascending, FeedAhead,
     OldestMissing, SavedMinutes
<1>2. ASSUME NEW l \in Loops, DeleteCandles(l)
      PROVE  CandlesOrdered' /\ FeedAhead' /\ OldestMissing'
  <2>1. /\ list'[KeyOf(l)] = <<>>
        /\ \A h \in Keys : h # KeyOf(l) => list'[h] = list[h]
        /\ \A r \in Loops : r # l => data'[r] = data[r]
        /\ latest'[KeyOf(l)] = NoTicks
        /\ \A h \in Keys : h # KeyOf(l) => latest'[h] = latest[h]
        /\ UNCHANGED <<minute, text, feed>>
    BY <1>2, KeyFact DEF DeleteCandles, Goto, candles, TypeOK
  <2>2. \A h \in Keys : h # KeyOf(l) /\ AloneOn(h)' => AloneOn(h)
    BY <2>1 DEF AloneOn, AtWork
  <2>3. CandlesOrdered'
    BY <1>0, <2>1, <2>2 DEF CandlesOrdered, Ascending
  <2>4. FeedAhead'
    BY <2>1, <2>2 DEF FeedAhead, AtWork
  <2>5. OldestMissing'
    BY <1>0, <2>1, <2>2 DEF OldestMissing, SavedMinutes, Shows
  <2> QED BY <2>3, <2>4, <2>5
<1>3. ASSUME NEW l \in Loops, EndCopy(l)
      PROVE  CandlesOrdered' /\ FeedAhead' /\ OldestMissing'
  <2>1. UNCHANGED <<minute, text, list, latest, feed, data>>
    BY <1>3 DEF EndCopy, candles, dataLoops
  <2> QED
    BY <2>1 DEF CandlesOrdered, Ascending, FeedAhead, AloneOn, AtWork,
       OldestMissing, SavedMinutes, Shows
<1> QED BY <1>1, <1>2, <1>3

\* The inductive invariant implies what it is for.
LEMMA KeptFact == OrderInv => NewestKept
<1> SUFFICES ASSUME OrderInv, NEW k \in Keys, AloneOn(k),
                    \A l \in Loops : KeyOf(l) = k => data[l] # "writing"
             PROVE  LET shown == {minute[list[k][i]] : i \in DOMAIN list[k]}
                    IN /\ Len(list[k]) <= WindowSize
                       /\ shown \subseteq SavedMinutes(k)
                       /\ \A m \in SavedMinutes(k) \ shown :
                            Len(list[k]) = WindowSize /\ \A n \in shown : m < n
                       /\ \A i \in DOMAIN list[k] :
                            LET tick == latest[k][minute[list[k][i]]]
                            IN text[list[k][i]] = tick /\ length[list[k][i]] = tick
  BY DEF NewestKept
<1>1. Len(list[k]) <= WindowSize
  BY DEF OrderInv, StoreInv, AllBounded, Bounded
<1>2. \A i \in DOMAIN list[k] :
        LET m == minute[list[k][i]]
        IN m \in SavedMinutes(k) /\ text[list[k][i]] = latest[k][m]
  BY DEF OrderInv, OldestMissing
<1>3. \A m \in SavedMinutes(k) :
        \/ Shows(k, m)
        \/ /\ Len(list[k]) = WindowSize
           /\ \A i \in DOMAIN list[k] : m < minute[list[k][i]]
  BY DEF OrderInv, OldestMissing
<1>4. \A i \in DOMAIN list[k] : ~Torn(list[k][i])
  BY DEF OrderInv, StoreInv, TornInWriting
<1> QED
  BY <1>1, <1>2, <1>3, <1>4 DEF Shows, Torn

\* Init and every step establish it.
LEMMA OrderInit == Init => OrderInv
<1>1. DOMAIN <<>> = {}
  OBVIOUS
<1> QED
  BY <1>1, StoreInit DEF Init, OrderInv, CandlesOrdered, Ascending, FeedAhead,
     OldestMissing, SavedMinutes

\* Every step keeps order and completeness of the lists.
LEMMA OrderNext == OrderInv /\ [Next]_vars => OrderInv'
<1>1. ASSUME OrderInv, Next PROVE OrderInv'
  <2> USE <1>1
  <2>1. StoreInv'
    BY StoreNext DEF OrderInv
  <2>2. CandlesOrdered' /\ FeedAhead' /\ OldestMissing'
    BY OrderControl, OrderAppend, OrderUpdate, OrderRest, MissingAppend, MissingUpdate
       DEF Next, SaveCandles
  <2> QED
    BY <2>1, <2>2 DEF OrderInv
<1>2. ASSUME OrderInv, UNCHANGED vars PROVE OrderInv'
  <2> USE <1>2
  <2>1. StoreInv'
    BY StoreNext DEF OrderInv
  <2> QED
    BY <2>1 DEF vars, candles, dataLoops, OrderInv, CandlesOrdered, Ascending,
       FeedAhead, AloneOn, AtWork, OldestMissing, SavedMinutes, Shows
<1> QED BY <1>1, <1>2

\* While one data loop is at work on a key, its list is in the order of the
\* open times, whoever was at work on it before (inmem/candle.go:35-44, 66-71).
THEOREM OrderInvariant == Spec => [](OrderInv /\ CandlesOrdered)
<1>1. OrderInv => CandlesOrdered
  BY DEF OrderInv
<1> QED
  BY <1>1, OrderInit, OrderNext, PTL DEF Spec

\* While one data loop is at work on a key and not in the middle of a write, the
\* list shows the newest minutes that were saved, as many as fit into the window,
\* and of each its last tick (inmem/candle.go:29-53).
THEOREM NewestCandlesKept == Spec => []NewestKept
BY KeptFact, OrderInit, OrderNext, PTL DEF Spec
=============================================================================
