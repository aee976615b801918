---------------------------- MODULE PostgresClient ----------------------------
(***************************************************************************)
(* The database client (trading/postgres/postgres.go): the goroutine that  *)
(* monitors the mode of the database and replaces the handle, and the      *)
(* repositories whose statements run on the handle they got.               *)
(*                                                                         *)
(* A handle is a pool of connections.  A connection goes to the instance   *)
(* that was the master when it was made, and stays there when the instance *)
(* is demoted; it is known by its instance here.  An instance that is not  *)
(* the master is read-only.  The pool and the instances are external.      *)
(***************************************************************************)
EXTENDS Naturals, Sequences

CONSTANTS
  Users,          \* goroutines that use the repositories
  Instances,      \* database instances
  NoInstance,     \* there is no master
  MaxIdle,        \* idle connections a pool keeps
  MaxHandles,     \* bound: handles that are ever opened
  MaxFailovers    \* bound: how often the master is demoted

ASSUME NoInstanceAssumption == NoInstance \notin Instances
ASSUME IdleAssumption == MaxIdle \in Nat \ {0}
ASSUME ClientBoundsAssumption == MaxHandles \in Nat \ {0} /\ MaxFailovers \in Nat

VARIABLES
  master,     \* the instance that takes writes
  failovers,  \* number of demotions so far
  opened,     \* number of handles opened so far, the last one included
  open,       \* the handles that are not closed
  database,   \* c.database
  idle,       \* idle[h]: the idle connections of handle h, longest idle first
  locked,     \* the mutex is held for writing
  monitor,    \* where the monitor is
  checked,    \* the instance its query runs on
  user,       \* user[u]: where user u is
  handle,     \* handle[u]: the handle it got
  on          \* on[u]: the instance its statement runs on

instances == <<master, failovers>>
handles == <<opened, open, database, locked>>
monitoring == <<monitor, checked>>
users == <<user, handle, on>>
vars == <<instances, handles, idle, monitoring, users>>
-----------------------------------------------------------------------------
Handles == 1 .. MaxHandles
NoHandle == 0

TypeOK ==
  /\ master \in Instances \union {NoInstance}
  /\ failovers \in 0 .. MaxFailovers
  /\ opened \in Handles
  /\ open \subseteq Handles
  /\ database \in Handles
  /\ idle \in [Handles -> Seq(Instances)]
  /\ locked \in BOOLEAN
  /\ monitor \in {"waiting", "checking", "connecting", "connected", "closing", "swapping",
                  "unlocking"}
  /\ checked \in Instances \union {NoInstance}
  /\ user \in [Users -> {"idle", "holding", "running"}]
  /\ handle \in [Users -> Handles \union {NoHandle}]
  /\ on \in [Users -> Instances \union {NoInstance}]

\* NewClient: the first handle has the connection it was tried with.
Init ==
  /\ master \in Instances
  /\ failovers = 0
  /\ opened = 1 /\ open = {1} /\ database = 1
  /\ idle = [h \in Handles |-> IF h = 1 THEN <<master>> ELSE <<>>]
  /\ locked = FALSE
  /\ monitor = "waiting" /\ checked = NoInstance
  /\ user = [u \in Users |-> "idle"]
  /\ handle = [u \in Users |-> NoHandle]
  /\ on = [u \in Users |-> NoInstance]

-----------------------------------------------------------------------------
(* The pool of a handle.                                                   *)

\* A statement gets the connection that is idle for the longest time, or a new
\* one if there is none and there is a master to connect to.
Take(h, i) ==
  /\ h \in open
  /\ \/ idle[h] # <<>> /\ i = Head(idle[h]) /\ idle' = [idle EXCEPT ![h] = Tail(@)]
     \/ idle[h] = <<>> /\ i = master /\ i # NoInstance /\ UNCHANGED idle

\* It does not: the handle is closed, or a new connection cannot be made,
\* whether there is a master or not.
TakeFails(h) ==
  /\ h \notin open \/ idle[h] = <<>>
  /\ UNCHANGED idle

\* The connection is idle again, or closed if there are enough.
PutBack(h, i) ==
  idle' = IF h \in open /\ Len(idle[h]) < MaxIdle
            THEN [idle EXCEPT ![h] = Append(@, i)]
            ELSE idle

-----------------------------------------------------------------------------
(* The instances.                                                          *)

\* The master is demoted.  Its connections survive, until they are found to be
\* broken.
Demote ==
  /\ master # NoInstance /\ failovers < MaxFailovers
  /\ master' = NoInstance /\ failovers' = failovers + 1
  /\ UNCHANGED <<handles, idle, monitoring, users>>

Promote(i) ==
  /\ master = NoInstance /\ master' = i
  /\ UNCHANGED <<failovers, handles, idle, monitoring, users>>

\* An idle connection is broken: the pool replaces it when it comes to it.
BreakConnection(h) ==
  /\ idle[h] # <<>>
  /\ idle' = [idle EXCEPT ![h] = Tail(@)]
  /\ UNCHANGED <<instances, handles, monitoring, users>>

-----------------------------------------------------------------------------
(* A repository.                                                           *)

\* Mutation: the mutex is not taken.
InstanceUnlocked(u) ==
  /\ user[u] = "idle"
  /\ user' = [user EXCEPT ![u] = "holding"]
  /\ handle' = [handle EXCEPT ![u] = database]
  /\ UNCHANGED <<instances, handles, idle, monitoring, on>>

Instance(u) ==
  /\ user[u] = "idle"
  /\ ~locked
  /\ user' = [user EXCEPT ![u] = "holding"]
  /\ handle' = [handle EXCEPT ![u] = database]
  /\ UNCHANGED <<instances, handles, idle, monitoring, on>>

Release(u) ==
  /\ user' = [user EXCEPT ![u] = "idle"]
  /\ handle' = [handle EXCEPT ![u] = NoHandle]
  /\ on' = [on EXCEPT ![u] = NoInstance]

BeginStatement(u) ==
  /\ user[u] = "holding"
  /\ \E i \in Instances : Take(handle[u], i) /\ on' = [on EXCEPT ![u] = i]
  /\ user' = [user EXCEPT ![u] = "running"]
  /\ UNCHANGED <<instances, handles, monitoring, handle>>

\* The statement fails before it is sent.
RefuseStatement(u) ==
  /\ user[u] = "holding"
  /\ TakeFails(handle[u])
  /\ Release(u)
  /\ UNCHANGED <<instances, handles, monitoring>>

EndStatement(u) ==
  /\ user[u] = "running"
  /\ PutBack(handle[u], on[u])
  /\ Release(u)
  /\ UNCHANGED <<instances, handles, monitoring>>

-----------------------------------------------------------------------------
(* The monitor.                                                            *)

MonitorAt(from, to) == monitor = from /\ monitor' = to

\* At a tick it asks the database for its mode.
BeginCheck ==
  /\ MonitorAt("waiting", "checking")
  /\ \E i \in Instances : Take(database, i) /\ checked' = i
  /\ UNCHANGED <<instances, handles, users>>

\* Mutation: a read-only instance will do.
CheckNothing ==
  /\ MonitorAt("checking", "waiting")
  /\ PutBack(database, checked)
  /\ checked' = NoInstance
  /\ UNCHANGED <<instances, handles, users>>

\* The answer: a read-only instance is left for the master.
EndCheck ==
  /\ MonitorAt("checking", IF checked = master THEN "waiting" ELSE "connecting")
  /\ PutBack(database, checked)
  /\ checked' = NoInstance
  /\ UNCHANGED <<instances, handles, users>>

\* The query fails: the monitor tries again at the next tick.
CheckFails ==
  /\ \/ MonitorAt("checking", "waiting") /\ UNCHANGED idle
     \/ monitor = "waiting" /\ TakeFails(database) /\ UNCHANGED monitor
  /\ checked' = NoInstance
  /\ UNCHANGED <<instances, handles, users>>

Connect ==
  /\ MonitorAt("connecting", "connected")
  /\ master # NoInstance
  /\ opened < MaxHandles /\ opened' = opened + 1
  /\ open' = open \union {opened'}
  /\ idle' = [idle EXCEPT ![opened'] = <<master>>]
  /\ UNCHANGED <<instances, database, locked, checked, users>>

\* There is no master, or it cannot be reached: the old handle is kept.
ConnectFails ==
  /\ MonitorAt("connecting", "waiting")
  /\ UNCHANGED <<instances, handles, idle, checked, users>>

Lock ==
  /\ MonitorAt("connected", "closing")
  /\ locked' = TRUE
  /\ UNCHANGED <<instances, opened, open, database, idle, checked, users>>

\* Mutation: the old handle is forgotten.
CloseNothing ==
  /\ MonitorAt("closing", "swapping")
  /\ UNCHANGED <<instances, handles, idle, checked, users>>

\* Its idle connections are closed, the others end with their statements.
Close ==
  /\ MonitorAt("closing", "swapping")
  /\ open' = open \ {database}
  /\ idle' = [idle EXCEPT ![database] = <<>>]
  /\ UNCHANGED <<instances, opened, database, locked, checked, users>>

Swap ==
  /\ MonitorAt("swapping", "unlocking")
  /\ database' = opened
  /\ UNCHANGED <<instances, opened, open, locked, idle, checked, users>>

Unlock ==
  /\ MonitorAt("unlocking", "waiting")
  /\ locked' = FALSE
  /\ UNCHANGED <<instances, opened, open, database, idle, checked, users>>

-----------------------------------------------------------------------------
Monitor == \/ BeginCheck \/ EndCheck \/ CheckFails \/ Connect \/ ConnectFails
           \/ Lock \/ Close \/ Swap \/ Unlock

Statement(u) == Instance(u) \/ BeginStatement(u) \/ RefuseStatement(u) \/ EndStatement(u)

Database == Demote \/ (\E i \in Instances : Promote(i)) \/ (\E h \in open : BreakConnection(h))

Next == Monitor \/ (\E u \in Users : Statement(u)) \/ Database

Spec == Init /\ [][Next]_vars

\* The monitor goes on, statements end, a master is promoted in the end.  A tick
\* of the monitor finds an idle connection at some time and its query is
\* answered at some time, as a minute is long for the users' statements; and of
\* the attempts to connect to a master that is there one succeeds.
Fairness ==
  /\ WF_vars(Monitor)
  /\ SF_vars(BeginCheck /\ idle[database] # <<>>)
  /\ SF_vars(EndCheck)
  /\ SF_vars(Connect)
  /\ \A u \in Users : WF_vars(BeginStatement(u) \/ RefuseStatement(u) \/ EndStatement(u))
  /\ WF_vars(\E i \in Instances : Promote(i))

FairSpec == Spec /\ Fairness
=============================================================================
