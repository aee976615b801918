------------------------- MODULE PostgresClientProofs -------------------------
(***************************************************************************)
(* Proofs about the database client, for any number of repositories,       *)
(* instances, demotions and idle connections.                              *)
(***************************************************************************)
EXTENDS PostgresClientProperties, TLAPS

USE NoInstanceAssumption, IdleAssumption, ClientBoundsAssumption
USE DEF Handles, NoHandle

\* The queue of idle connections of a handle keeps its type.
LEMMA QueueType ==
  ASSUME NEW s \in Seq(Instances)
  PROVE  /\ s # <<>> => Head(s) \in Instances /\ Tail(s) \in Seq(Instances)
         /\ \A i \in Instances : Append(s, i) \in Seq(Instances)
OBVIOUS

\* What taking and putting back a connection does to the pools.
LEMMA TakeType ==
  ASSUME idle \in [Handles -> Seq(Instances)], NEW h \in Handles, NEW i \in Instances,
         Take(h, i)
  PROVE  idle' \in [Handles -> Seq(Instances)]
BY QueueType DEF Take

\* A connection that is put back keeps the queues of idle ones typed.
LEMMA PutBackType ==
  ASSUME idle \in [Handles -> Seq(Instances)], NEW h \in Handles, NEW i \in Instances,
         PutBack(h, i)
  PROVE  idle' \in [Handles -> Seq(Instances)]
<1>1. idle[h] \in Seq(Instances)
  OBVIOUS
<1>2. [idle EXCEPT ![h] = Append(@, i)] \in [Handles -> Seq(Instances)]
  BY <1>1, QueueType
<1> QED
  BY <1>2 DEF PutBack

-----------------------------------------------------------------------------
(* The inductive invariant.                                                *)

\* A running statement has a connection, and so has a check that runs.
Connected ==
  /\ \A u \in Users : user[u] # "idle" => handle[u] \in Handles
  /\ \A u \in Users : user[u] = "running" => on[u] \in Instances
  /\ monitor = "checking" => checked \in Instances

FullInv == ClientInv /\ Connected

\* There is one handle, with one idle connection to the master.
LEMMA InvInit == Init => FullInv
<1> SUFFICES ASSUME Init PROVE FullInv
  OBVIOUS
<1>1. <<master>> \in Seq(Instances) /\ <<>> \in Seq(Instances)
  BY DEF Init
<1>2. idle \in [Handles -> Seq(Instances)]
  BY <1>1 DEF Init
<1>3. TypeOK
  <2>1. 1 \in Handles /\ 0 \in 0 .. MaxFailovers
    OBVIOUS
  <2>2. /\ user \in [Users -> {"idle", "holding", "running"}]
        /\ handle \in [Users -> Handles \union {NoHandle}]
        /\ on \in [Users -> Instances \union {NoInstance}]
    BY DEF Init
  <2> QED
    BY <1>2, <2>1, <2>2 DEF Init, TypeOK
<1>4. HandlesAccounted /\ LastInUse /\ LockHeld /\ Connected
  BY DEF Init, HandlesAccounted, LastInUse, LockHeld, Connected
<1> QED
  BY <1>3, <1>4 DEF FullInv, ClientInv

\* Users and instances leave the handles alone.
LEMMA InvUsers ==
  ASSUME FullInv, (\E u \in Users : Statement(u)) \/ Database
  PROVE  FullInv'
<1> USE DEF FullInv, ClientInv, handles, monitoring, instances, users
<1>1. UNCHANGED <<handles, monitoring>>
  BY DEF Statement, Instance, BeginStatement, RefuseStatement, EndStatement,
     Database, Demote, Promote, BreakConnection
<1>2. HandlesAccounted' /\ LastInUse' /\ LockHeld'
  BY <1>1 DEF HandlesAccounted, LastInUse, LockHeld
<1>3. TypeOK' /\ Connected'
  <2>1. ASSUME NEW u \in Users, Instance(u) PROVE TypeOK' /\ Connected'
    BY <2>1 DEF TypeOK, Connected, Instance
  <2>2. ASSUME NEW u \in Users, BeginStatement(u) PROVE TypeOK' /\ Connected'
    <3>1. PICK i \in Instances : Take(handle[u], i) /\ on' = [on EXCEPT ![u] = i]
      BY <2>2 DEF BeginStatement
    <3>2. handle[u] \in Handles
      BY <2>2 DEF BeginStatement, Connected
    <3>3. idle' \in [Handles -> Seq(Instances)]
      BY <3>1, <3>2, TakeType DEF TypeOK
    <3> QED
      BY <2>2, <3>1, <3>3 DEF TypeOK, Connected, BeginStatement
  <2>3. ASSUME NEW u \in Users, RefuseStatement(u) PROVE TypeOK' /\ Connected'
    BY <2>3 DEF TypeOK, Connected, RefuseStatement, TakeFails, Release
  <2>4. ASSUME NEW u \in Users, EndStatement(u) PROVE TypeOK' /\ Connected'
    <3>1. idle' \in [Handles -> Seq(Instances)]
      BY <2>4, PutBackType DEF EndStatement, TypeOK, Connected
    <3> QED
      BY <2>4, <3>1 DEF TypeOK, Connected, EndStatement, Release
  <2>5. ASSUME Demote PROVE TypeOK' /\ Connected'
    <3>1. failovers' \in 0 .. MaxFailovers
      BY <2>5 DEF TypeOK, Demote
    <3> QED
      BY <2>5, <3>1 DEF TypeOK, Connected, Demote
  <2>7. ASSUME NEW i \in Instances, Promote(i) PROVE TypeOK' /\ Connected'
    BY <2>7 DEF TypeOK, Connected, Promote
  <2>6. ASSUME NEW h \in open, BreakConnection(h) PROVE TypeOK' /\ Connected'
    <3>1. idle' \in [Handles -> Seq(Instances)]
      BY <2>6, QueueType DEF BreakConnection, TypeOK
    <3> QED
      BY <2>6, <3>1 DEF TypeOK, Connected, BreakConnection
  <2> QED
    BY <2>1, <2>2, <2>3, <2>4, <2>5, <2>6, <2>7 DEF Statement, Database
<1> QED
  BY <1>2, <1>3

\* A step of the monitor keeps the invariant.
LEMMA InvMonitor ==
  ASSUME FullInv, Monitor
  PROVE  FullInv'
<1> USE DEF FullInv, ClientInv, handles, instances, users, MonitorAt
<1>1. CASE BeginCheck
  <2>1. PICK i \in Instances : Take(database, i) /\ checked' = i
    BY <1>1 DEF BeginCheck
  <2>2. idle' \in [Handles -> Seq(Instances)]
    BY <2>1, TakeType DEF TypeOK
  <2>3. TypeOK' /\ Connected'
    BY <1>1, <2>1, <2>2 DEF BeginCheck, TypeOK, Connected
  <2>4. HandlesAccounted' /\ LastInUse' /\ LockHeld'
    BY <1>1 DEF BeginCheck, HandlesAccounted, LastInUse, LockHeld
  <2> QED BY <2>3, <2>4
<1>2. CASE EndCheck
  <2>1. idle' \in [Handles -> Seq(Instances)]
    BY <1>2, PutBackType DEF EndCheck, TypeOK, Connected
  <2>2. TypeOK' /\ Connected'
    BY <1>2, <2>1 DEF EndCheck, TypeOK, Connected
  <2>3. HandlesAccounted' /\ LastInUse' /\ LockHeld'
    BY <1>2 DEF EndCheck, HandlesAccounted, LastInUse, LockHeld
  <2> QED BY <2>2, <2>3
<1>3. CASE CheckFails
  <2>1. TypeOK' /\ Connected'
    BY <1>3 DEF CheckFails, TakeFails, TypeOK, Connected
  <2>2. HandlesAccounted' /\ LastInUse' /\ LockHeld'
    BY <1>3 DEF CheckFails, HandlesAccounted, LastInUse, LockHeld
  <2> QED BY <2>1, <2>2
<1>4. CASE Connect
  <2>1. /\ opened' = opened + 1 /\ opened' \in Handles
        /\ open' = open \union {opened'} /\ database' = database /\ locked' = locked
        /\ monitor = "connecting" /\ monitor' = "connected"
    BY <1>4 DEF Connect, TypeOK
  <2>2. <<master>> \in Seq(Instances)
    BY <1>4 DEF Connect, TypeOK
  <2>3. idle' \in [Handles -> Seq(Instances)]
    BY <1>4, <2>1, <2>2 DEF Connect, TypeOK
  <2>4. TypeOK'
    BY <1>4, <2>1, <2>3 DEF Connect, TypeOK
  <2>5. database = opened /\ open = {database} /\ opened \in Nat
    BY <2>1 DEF HandlesAccounted, LastInUse, TypeOK
  <2>6. HandlesAccounted' /\ LastInUse' /\ LockHeld'
    BY <2>1, <2>5 DEF HandlesAccounted, LastInUse, LockHeld
  <2>7. Connected'
    BY <1>4 DEF Connect, Connected
  <2> QED BY <2>4, <2>6, <2>7
<1>5. CASE ConnectFails \/ Lock
  <2>1. TypeOK' /\ Connected'
    BY <1>5 DEF ConnectFails, Lock, TypeOK, Connected
  <2>2. HandlesAccounted' /\ LastInUse' /\ LockHeld'
    BY <1>5 DEF ConnectFails, Lock, HandlesAccounted, LastInUse, LockHeld
  <2> QED BY <2>1, <2>2
<1>6. CASE Close
  <2>1. /\ open = {database, opened} /\ database # opened
        /\ open' = open \ {database}
        /\ UNCHANGED <<opened, database, locked>>
        /\ monitor = "closing" /\ monitor' = "swapping"
    BY <1>6 DEF Close, HandlesAccounted, LastInUse
  <2>2. HandlesAccounted' /\ LastInUse' /\ LockHeld'
    BY <2>1 DEF HandlesAccounted, LastInUse, LockHeld
  <2>3. idle' \in [Handles -> Seq(Instances)]
    <3>1. <<>> \in Seq(Instances)
      OBVIOUS
    <3> QED
      BY <1>6, <3>1 DEF Close, TypeOK
  <2>4. TypeOK' /\ Connected'
    BY <1>6, <2>3 DEF Close, TypeOK, Connected
  <2> QED BY <2>2, <2>4
<1>7. CASE Swap
  <2>1. TypeOK' /\ Connected'
    BY <1>7 DEF Swap, TypeOK, Connected
  <2>2. HandlesAccounted' /\ LastInUse' /\ LockHeld'
    BY <1>7 DEF Swap, HandlesAccounted, LastInUse, LockHeld
  <2> QED BY <2>1, <2>2
<1>8. CASE Unlock
  <2>1. TypeOK' /\ Connected'
    BY <1>8 DEF Unlock, TypeOK, Connected
  <2>2. HandlesAccounted' /\ LastInUse' /\ LockHeld'
    BY <1>8 DEF Unlock, HandlesAccounted, LastInUse, LockHeld
  <2> QED BY <2>1, <2>2
<1> QED
  BY <1>1, <1>2, <1>3, <1>4, <1>5, <1>6, <1>7, <1>8 DEF Monitor

\* Every step keeps the invariant.
LEMMA FullInvariant == Spec => []FullInv
<1>1. FullInv /\ UNCHANGED vars => FullInv'
  BY DEF vars, instances, handles, monitoring, users, FullInv, ClientInv, TypeOK,
     HandlesAccounted, LastInUse, LockHeld, Connected
<1>2. FullInv /\ Next => FullInv'
  BY InvUsers, InvMonitor DEF Next
<1> QED
  BY InvInit, <1>1, <1>2, PTL DEF Spec

\* The client replaces its handle without losing or forgetting one, however
\* often the database is demoted (postgres.go:64-113).
THEOREM ClientInvariant == Spec => []ClientInv
<1>1. FullInv => ClientInv
  BY DEF FullInv
<1> QED
  BY <1>1, FullInvariant, PTL

\* No replaced handle stays open (postgres.go:86-98).
THEOREM NoHandleForgotten == Spec => []HandlesAccounted
<1>1. ClientInv => HandlesAccounted
  BY DEF ClientInv
<1> QED
  BY <1>1, ClientInvariant, PTL

\* A repository is given open handles only (postgres.go:95-98, 109-113).
THEOREM HandedOutOpen == Spec => HandsOutOpen
<1> DEFINE Good == \A u \in Users : handle'[u] # handle[u] /\ handle'[u] # NoHandle
                                      => handle'[u] \in open /\ handle'[u] \in open'
<1>1. ASSUME FullInv, Next PROVE Good
  <2> SUFFICES ASSUME NEW u \in Users, handle'[u] # handle[u], handle'[u] # NoHandle
               PROVE  handle'[u] \in open /\ handle'[u] \in open'
    OBVIOUS
  <2>1. \E w \in Users : Instance(w) \/ RefuseStatement(w) \/ EndStatement(w)
    BY <1>1 DEF Next, Monitor, Database, Statement, BeginStatement, Demote, Promote,
       BreakConnection, BeginCheck, EndCheck, CheckFails, Connect, ConnectFails, Lock, Close,
       Swap, Unlock, users, monitoring
  <2>2. ASSUME NEW w \in Users, Instance(w)
        PROVE  handle'[u] \in open /\ handle'[u] \in open'
    <3>1. handle'[u] = database /\ open' = open
      BY <1>1, <2>2 DEF Instance, handles, FullInv, ClientInv, TypeOK
    <3>2. monitor \notin {"closing", "swapping", "unlocking"}
      BY <1>1, <2>2 DEF Instance, FullInv, ClientInv, LockHeld
    <3>3. database \in open
      BY <1>1, <3>2 DEF FullInv, ClientInv, HandlesAccounted, TypeOK
    <3> QED BY <3>1, <3>3
  <2>3. ASSUME NEW w \in Users, RefuseStatement(w) \/ EndStatement(w) PROVE FALSE
    BY <1>1, <2>3 DEF RefuseStatement, EndStatement, Release, FullInv, ClientInv, TypeOK
  <2> QED BY <2>1, <2>2, <2>3
<1>2. FullInv /\ [Next]_vars => [Good]_vars
  BY <1>1
<1> QED
  BY <1>2, FullInvariant, PTL DEF Spec, HandsOutOpen
=============================================================================
