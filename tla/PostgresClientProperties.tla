----------------------- MODULE PostgresClientProperties -----------------------
(***************************************************************************)
(* What the client guarantees to the repositories when the database is     *)
(* demoted.  A handle that was given may still be closed in use, and the   *)
(* check vouches for the one connection its query ran on only.             *)
(***************************************************************************)
EXTENDS PostgresClient

\* The client has one open handle, and a second one while it replaces it: no
\* replaced handle keeps its connections (postgres.go:86-98).
HandlesAccounted ==
  open = CASE monitor \in {"connected", "closing"} -> {database, opened}
           [] monitor = "swapping" -> {opened}
           [] OTHER -> {database}

\* The handle in use is the last one opened, unless it is being replaced.
LastInUse ==
  database = opened <=> monitor \notin {"connected", "closing", "swapping"}

\* The lock is held from the close to the swap and a step longer.
LockHeld == locked <=> monitor \in {"closing", "swapping", "unlocking"}

\* The inductive invariant behind these.
ClientInv == TypeOK /\ HandlesAccounted /\ LastInUse /\ LockHeld

\* A repository is never given a handle that is closed already, though the old
\* one is closed before the new one is in its place (postgres.go:95-98, 109-113).
HandsOutOpen ==
  [][\A u \in Users : handle'[u] # handle[u] /\ handle'[u] # NoHandle
                        => handle'[u] \in open /\ handle'[u] \in open']_vars

\* The instances that the connections of the handle in use go to: the idle
\* ones, and those a statement or the check has taken.
Reached ==
  {idle[database][j] : j \in DOMAIN idle[database]}
    \union {on[u] : u \in {v \in Users : user[v] = "running" /\ handle[v] = database}}
    \union (IF monitor = "checking" THEN {checked} ELSE {})

\* The handle in use is open, and a connection of it goes to the master, or it
\* has none and the next one will.
AtMaster == database \in open /\ (Reached = {} \/ master \in Reached)

\* Under FairSpec, a client all of whose connections go to demoted instances,
\* idle or taken, does not stay so: it reconnects to the master
\* (postgres.go:71-100).
Reconnects == []<>(master # NoInstance => AtMaster)
=============================================================================
