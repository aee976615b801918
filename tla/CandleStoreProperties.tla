------------------------ MODULE CandleStoreProperties ------------------------
(***************************************************************************)
(* What the candle repository guarantees to the signal generator and to    *)
(* lastClosePrice.                                                         *)
(***************************************************************************)
EXTENDS CandleStore

Torn(c) == text[c] # length[c]

\* s is in the order of the open times, and no minute occurs twice.
Ascending(s) ==
  \A i, j \in DOMAIN s : i < j => minute[s[i]] < minute[s[j]]

-----------------------------------------------------------------------------
(* However many data loops of a workload overlap.                          *)

\* Only the last candle of a snapshot can change while the snapshot is used:
\* the strategy looks at the second to last one because that is stable
\* (techan/signal.go:40-42), though SaveCandles overwrites candles that
\* snapshots share (inmem/candle.go:35-41).
SnapshotStable ==
  [][\A l \in Loops : \A i \in DOMAIN snap[l] :
       i < Len(snap[l]) => /\ text'[snap[l][i]] = text[snap[l][i]]
                           /\ length'[snap[l][i]] = length[snap[l][i]]]_vars

\* No price of a snapshot but the last one can be caught between the two
\* words of an update (inmem/candle.go:36-41, 56-64).
SettledWhole ==
  \A l \in Loops : \A i \in DOMAIN snap[l] :
    i < Len(snap[l]) => ~Torn(snap[l][i])

\* A candle is in one place of one list only, so that an update through one
\* list does not show in another.
OnePlace ==
  \A k, h \in Keys : \A i \in DOMAIN list[k], j \in DOMAIN list[h] :
    list[k][i] = list[h][j] => k = h /\ i = j

\* The candle that is overwritten is no settled candle of any snapshot.
SettledAside ==
  \A l \in Loops, k \in Keys : \A i \in DOMAIN snap[l] :
    i < Len(snap[l]) /\ list[k] # <<>> => snap[l][i] # LastOf(list[k])

\* Whoever changes the repository in place is alone in it.
LockHeld ==
  \A l, d \in Loops :
    data[l] \in {"saving", "writing"} =>
      /\ action[d] # "copying"
      /\ data[d] # "deleting"
      /\ data[d] \in {"saving", "writing"} => d = l

\* A torn candle in a list is the last one, and its writer is at work on it.
TornInWriting ==
  \A k \in Keys : \A i \in DOMAIN list[k] :
    Torn(list[k][i]) => /\ i = Len(list[k])
                        /\ \E l \in Loops : KeyOf(l) = k /\ data[l] = "writing"

\* An update has a candle to overwrite and one to overwrite it with.
WriterHasCandle ==
  \A l \in Loops : data[l] = "writing" => list[KeyOf(l)] # <<>> /\ batch[l] > 0

\* Lists and snapshots stay within the window, and hold what was made.
Bounded(s) == Len(s) <= WindowSize /\ \A i \in DOMAIN s : s[i] <= made

AllBounded == /\ \A k \in Keys : Bounded(list[k])
              /\ \A l \in Loops : Bounded(snap[l])

\* The inductive invariant behind these.
StoreInv == /\ TypeOK
            /\ LockHeld
            /\ AllBounded
            /\ OnePlace
            /\ SettledAside
            /\ SettledWhole
            /\ TornInWriting
            /\ WriterHasCandle

-----------------------------------------------------------------------------
(* While one data loop is at work on a key.  With two, each is given candles *)
(* in order, but what comes of it is not: the one that is behind appends     *)
(* minutes that are older than the last, and what is removed for them may be *)
(* newer than what stays.                                                    *)

AtWork(l) == data[l] # "down"

\* At most one data loop is at work on key k.
AloneOn(k) ==
  \A l, d \in Loops :
    AtWork(l) /\ AtWork(d) /\ KeyOf(l) = k /\ KeyOf(d) = k => l = d

\* The list is in order and without repetition, whatever comes twice from
\* history and ticker, and whatever an earlier data loop of the key has left
\* behind (inmem/candle.go:35-44, 66-71).
CandlesOrdered == \A k \in Keys : AloneOn(k) => Ascending(list[k])

\* The minutes of which something was saved since the key was deleted.
SavedMinutes(k) == {m \in Minutes : latest[k][m] # 0}

\* The repository shows the newest minutes saved, as many as the window has
\* room for, and of each the last tick (inmem/candle.go:29-53).
NewestKept ==
  \A k \in Keys :
    LET shown == {minute[list[k][i]] : i \in DOMAIN list[k]}
    IN AloneOn(k) /\ (\A l \in Loops : KeyOf(l) = k => data[l] # "writing") =>
         /\ Len(list[k]) <= WindowSize
         /\ shown \subseteq SavedMinutes(k)
         /\ \A m \in SavedMinutes(k) \ shown :
              Len(list[k]) = WindowSize /\ \A n \in shown : m < n
         /\ \A i \in DOMAIN list[k] :
              LET tick == latest[k][minute[list[k][i]]]
              IN text[list[k][i]] = tick /\ length[list[k][i]] = tick

\* The loop has been given nothing older than the last candle of the list,
\* and without a loop there is no list.
FeedAhead ==
  \A k \in Keys :
    AloneOn(k) /\ list[k] # <<>> =>
      \E l \in Loops : /\ KeyOf(l) = k
                       /\ AtWork(l)
                       /\ minute[LastOf(list[k])] <= feed[l]

Shows(k, m) == \E i \in DOMAIN list[k] : minute[list[k][i]] = m

\* The list lacks only minutes that are older than all it shows, and only when
\* it is full; the price of a candle points to the last tick of its minute,
\* from the first word of an update on.
OldestMissing ==
  \A k \in Keys : AloneOn(k) =>
    /\ \A i \in DOMAIN list[k] :
         LET m == minute[list[k][i]]
         IN m \in SavedMinutes(k) /\ text[list[k][i]] = latest[k][m]
    /\ \A m \in SavedMinutes(k) :
         \/ Shows(k, m)
         \/ /\ Len(list[k]) = WindowSize
            /\ \A i \in DOMAIN list[k] : m < minute[list[k][i]]

\* The inductive invariant behind CandlesOrdered and NewestKept.
OrderInv == /\ StoreInv
            /\ CandlesOrdered
            /\ FeedAhead
            /\ OldestMissing
=============================================================================
