------------------------------ MODULE Lifecycle ------------------------------
(***************************************************************************)
(* Shutdown of a topology (topology/shard/topology.go), its clusters       *)
(* (topology/cluster/cluster.go) and their pools (pool.go), while client   *)
(* goroutines use the pools and a metrics reader collects from them.       *)
(*                                                                         *)
(* Topology.Close, Cluster.Close and Pool.Close each run their body inside *)
(* a sync.Once of their own; the bodies call the Close of the parts.  The  *)
(* goroutine that runs the body of an object is unique, so a Close call    *)
(* made from a body is attributed to the object whose body it is: a caller *)
(* is a closer goroutine, the topology or a cluster, and is inside at most *)
(* one call.                                                               *)
(*                                                                         *)
(* pgxpool and the OpenTelemetry reader are modelled from how the code     *)
(* uses them: pgxpool.Close refuses new acquires and returns when every    *)
(* connection is back; a collection and an Unregister exclude each other.  *)
(***************************************************************************)
EXTENDS Integers, Sequences, FiniteSets

CONSTANTS
    Clusters, Pools,  \* the objects below the topology
    Shards,           \* Topology.shards: the clusters in registration order
    Replicas,         \* Cluster.replicas, per cluster in registration order
    Primary,          \* Cluster.primary, per cluster; None when there is none
    WithMetrics,      \* the pools created with a metrics registration
    Closers,          \* goroutines that call Close
    Targets,          \* the objects each closer calls Close on
    Clients,          \* goroutines that use connections
    topology,         \* the topology object
    None

Objects == {topology} \cup Clusters \cup Pools

ASSUME ObjectsAssumption ==
    /\ topology \notin Clusters \cup Pools
    /\ Clusters \cap Pools = {}
    /\ Closers \cap Objects = {}
    /\ None \notin Objects \cup Closers
\* A pool may be registered more than once: New accepts duplicates.
ASSUME StructureAssumption ==
    /\ Shards \in Seq(Clusters)
    /\ Replicas \in [Clusters -> Seq(Pools)]
    /\ Primary \in [Clusters -> Pools \cup {None}]
    /\ WithMetrics \subseteq Pools
    /\ Targets \in [Closers -> SUBSET Objects]

VARIABLES
    once,        \* closeOnce of every object: "fresh", "running" or "done"
    pos,         \* per topology and cluster: parts closed by its Close so far
    calling,     \* the object whose Close a caller is in; None when in none
    returned,    \* history: the objects on which a Close call has returned
    registered,  \* per pool: its metrics callback is registered
    pgx,         \* per pool, the pgxpool.Pool: "open", "closing" or "closed"
    holding,     \* per client: the pool whose connection it holds; None when none
    collecting,  \* a metrics collection is in progress
    pending      \* the callbacks the collection has still to invoke

vars == <<once, pos, calling, returned, registered, pgx, holding, collecting, pending>>

-----------------------------------------------------------------------------
(* The order in which a body closes its parts. *)

\* slices.Backward
Backward(s) == [i \in 1..Len(s) |-> s[Len(s) + 1 - i]]

\* Mutant: the parts are closed in registration order.
CloseOrderForward(o) ==
    IF o = topology THEN Shards
    ELSE Replicas[o] \o (IF Primary[o] = None THEN <<>> ELSE <<Primary[o]>>)

CloseOrder(o) ==
    IF o = topology THEN Backward(Shards)
    ELSE Backward(Replicas[o]) \o (IF Primary[o] = None THEN <<>> ELSE <<Primary[o]>>)

-----------------------------------------------------------------------------

Containers == {topology} \cup Clusters
Callers == Closers \cup Containers

Init ==
    /\ once = [o \in Objects |-> "fresh"]
    /\ pos = [o \in Containers |-> 0]
    /\ calling = [k \in Callers |-> None]
    /\ returned = {}
    /\ registered = [p \in Pools |-> p \in WithMetrics]
    /\ pgx = [p \in Pools |-> "open"]
    /\ holding = [c \in Clients |-> None]
    /\ collecting = FALSE
    /\ pending = {}

envVars == <<registered, pgx, holding, collecting, pending>>

-----------------------------------------------------------------------------
(* sync.Once around a body. *)

\* A goroutine calls Close; calling it again is allowed.
CallClose(g, o) ==
    /\ calling[g] = None
    /\ o \in Targets[g]
    /\ calling' = [calling EXCEPT ![g] = o]
    /\ UNCHANGED <<once, pos, returned, envVars>>

\* The first call in closeOnce.Do runs the body.
Enter(k) ==
    /\ calling[k] # None
    /\ once[calling[k]] = "fresh"
    /\ once' = [once EXCEPT ![calling[k]] = "running"]
    /\ UNCHANGED <<pos, calling, returned, envVars>>

\* Mutant: a flag in the place of the Once; a second call returns at once.
ReturnWithoutWaiting(k) ==
    /\ calling[k] # None
    /\ once[calling[k]] # "fresh"
    /\ returned' = returned \cup {calling[k]}
    /\ calling' = [calling EXCEPT ![k] = None]
    /\ pos' = IF k \in Containers THEN [pos EXCEPT ![k] = @ + 1] ELSE pos
    /\ UNCHANGED <<once, envVars>>

\* Do returns, to the call that ran the body and to every other, when the body
\* is done; a body that made the call goes on to its next part.
ReturnClose(k) ==
    /\ calling[k] # None
    /\ once[calling[k]] = "done"
    /\ returned' = returned \cup {calling[k]}
    /\ calling' = [calling EXCEPT ![k] = None]
    /\ pos' = IF k \in Containers THEN [pos EXCEPT ![k] = @ + 1] ELSE pos
    /\ UNCHANGED <<once, envVars>>

-----------------------------------------------------------------------------
(* The bodies of Topology.Close and Cluster.Close. *)

\* Mutant: the loop counts a part when it calls Close and again afterwards.
CloseNextTwice(o) ==
    /\ once[o] = "running"
    /\ calling[o] = None
    /\ pos[o] < Len(CloseOrder(o))
    /\ calling' = [calling EXCEPT ![o] = CloseOrder(o)[pos[o] + 1]]
    /\ pos' = [pos EXCEPT ![o] = @ + 1]
    /\ UNCHANGED <<once, returned, envVars>>

CloseNext(o) ==
    /\ once[o] = "running"
    /\ calling[o] = None
    /\ pos[o] < Len(CloseOrder(o))
    /\ calling' = [calling EXCEPT ![o] = CloseOrder(o)[pos[o] + 1]]
    /\ UNCHANGED <<once, pos, returned, envVars>>

\* Mutant: a Close that leaves early, before its Once is done, without a primary.
FinishWithPrimary(o) ==
    /\ once[o] = "running"
    /\ pos[o] = Len(CloseOrder(o))
    /\ o \in Clusters => Primary[o] # None
    /\ once' = [once EXCEPT ![o] = "done"]
    /\ UNCHANGED <<pos, calling, returned, envVars>>

Finish(o) ==
    /\ once[o] = "running"
    /\ pos[o] = Len(CloseOrder(o))
    /\ once' = [once EXCEPT ![o] = "done"]
    /\ UNCHANGED <<pos, calling, returned, envVars>>

-----------------------------------------------------------------------------
(* The body of Pool.Close. *)

onceVars == <<pos, calling, returned>>

\* p.metrics.Close(), which waits for a collection in progress.
UnregisterMetrics(p) ==
    /\ once[p] = "running"
    /\ registered[p]
    /\ ~collecting
    /\ registered' = [registered EXCEPT ![p] = FALSE]
    /\ UNCHANGED <<once, onceVars, pgx, holding, collecting, pending>>

\* Mutant: the pgx pool is closed before its metrics.
ClosePgxFirst(p) ==
    /\ once[p] = "running"
    /\ pgx[p] = "open"
    /\ pgx' = [pgx EXCEPT ![p] = "closing"]
    /\ UNCHANGED <<once, onceVars, registered, holding, collecting, pending>>

\* p.pool.Close() is called: no connection can be acquired any more.
ClosePgx(p) ==
    /\ once[p] = "running"
    /\ ~registered[p]
    /\ pgx[p] = "open"
    /\ pgx' = [pgx EXCEPT ![p] = "closing"]
    /\ UNCHANGED <<once, onceVars, registered, holding, collecting, pending>>

\* p.pool.Close() returns when every connection is back, and the Once is done.
FinishPool(p) ==
    /\ once[p] = "running"
    /\ pgx[p] = "closing"
    /\ \A c \in Clients : holding[c] # p
    /\ pgx' = [pgx EXCEPT ![p] = "closed"]
    /\ once' = [once EXCEPT ![p] = "done"]
    /\ UNCHANGED <<onceVars, registered, holding, collecting, pending>>

-----------------------------------------------------------------------------
(* The users of the pools. *)

\* A query or a transaction takes a connection; a closed pool refuses.
Acquire(c, p) ==
    /\ holding[c] = None
    /\ pgx[p] = "open"
    /\ holding' = [holding EXCEPT ![c] = p]
    /\ UNCHANGED <<once, onceVars, registered, pgx, collecting, pending>>

Release(c) ==
    /\ holding[c] # None
    /\ holding' = [holding EXCEPT ![c] = None]
    /\ UNCHANGED <<once, onceVars, registered, pgx, collecting, pending>>

\* The metrics reader collects: it invokes every registered callback, each of
\* which reads Pool.Stats.
BeginCollect ==
    /\ ~collecting
    /\ collecting' = TRUE
    /\ pending' = {p \in Pools : registered[p]}
    /\ UNCHANGED <<once, onceVars, registered, pgx, holding>>

Observe(p) ==
    /\ p \in pending
    /\ pending' = pending \ {p}
    /\ UNCHANGED <<once, onceVars, registered, pgx, holding, collecting>>

EndCollect ==
    /\ collecting
    /\ pending = {}
    /\ collecting' = FALSE
    /\ UNCHANGED <<once, onceVars, registered, pgx, holding, pending>>

-----------------------------------------------------------------------------

Next ==
    \/ \E g \in Closers, o \in Objects : CallClose(g, o)
    \/ \E k \in Callers : Enter(k) \/ ReturnClose(k)
    \/ \E o \in Containers : CloseNext(o) \/ Finish(o)
    \/ \E p \in Pools : UnregisterMetrics(p) \/ ClosePgx(p) \/ FinishPool(p)
    \/ \E c \in Clients : Release(c) \/ \E p \in Pools : Acquire(c, p)
    \/ BeginCollect
    \/ \E p \in Pools : Observe(p)
    \/ EndCollect

Spec == Init /\ [][Next]_vars

\* Goroutines that can proceed are scheduled, clients give their connections
\* back and a collection comes to its end.  An Unregister competes with the next
\* collection for a sync.Mutex, which does not starve a waiter.
Fairness ==
    /\ \A k \in Callers : WF_vars(Enter(k)) /\ WF_vars(ReturnClose(k))
    /\ \A o \in Containers : WF_vars(CloseNext(o)) /\ WF_vars(Finish(o))
    /\ \A p \in Pools : /\ SF_vars(UnregisterMetrics(p))
                        /\ WF_vars(ClosePgx(p)) /\ WF_vars(FinishPool(p))
                        /\ WF_vars(Observe(p))
    /\ \A c \in Clients : WF_vars(Release(c))
    /\ WF_vars(EndCollect)

FairSpec == Spec /\ Fairness

-----------------------------------------------------------------------------
(* Properties. *)

\* Type correctness; a caller is never inside the Close of something that is not
\* there, and a body never closes more parts than it has.
TypeOK ==
    /\ once \in [Objects -> {"fresh", "running", "done"}]
    /\ pos \in [Containers -> Nat]
    /\ \A o \in Containers : pos[o] <= Len(CloseOrder(o))
    /\ calling \in [Callers -> Objects \cup {None}]
    /\ returned \in SUBSET Objects
    /\ registered \in [Pools -> BOOLEAN]
    /\ pgx \in [Pools -> {"open", "closing", "closed"}]
    /\ holding \in [Clients -> Pools \cup {None}]
    /\ collecting \in BOOLEAN
    /\ pending \in SUBSET Pools

\* The pools an object owns.
OwnedByCluster(c) ==
    {Replicas[c][i] : i \in DOMAIN Replicas[c]} \cup ({Primary[c]} \ {None})

Owned(o) ==
    IF o = topology THEN UNION {OwnedByCluster(Shards[i]) : i \in DOMAIN Shards}
    ELSE IF o \in Clusters THEN OwnedByCluster(o)
    ELSE {o}

\* When any Close call has returned, be it the first, a repeated or a concurrent
\* one, on the topology, a cluster or a pool, everything below the object is shut
\* down: its pgx pools are closed, their metrics unregistered, and no client
\* holds one of their connections.
ReturnedIsClosed ==
    \A o \in returned : \A p \in Owned(o) :
        /\ pgx[p] = "closed"
        /\ ~registered[p]
        /\ \A c \in Clients : holding[c] # p

\* A collection never reads the statistics of a pgx pool whose Close has begun:
\* the registration is closed before the pool.
StatsOfOpenPools == \A p \in pending : pgx[p] = "open"

\* The body of o calls the Close of its next part.
NextPart(o) == calling[o] = None /\ calling'[o] # None

\* The part is the i-th of the registered ones, and the Close of all registered
\* after it is over.
IsLastOpen(part, i, parts) ==
    /\ part = parts[i]
    /\ \A j \in (i+1)..Len(parts) : once[parts[j]] = "done"

\* Parts are closed in reverse registration order, replicas before the primary,
\* each when the Close of all that come before it is over, whichever goroutine
\* performed it.
ClosesInReverse ==
    [][ /\ NextPart(topology) =>
              IsLastOpen(calling'[topology], Len(Shards) - pos[topology], Shards)
        /\ \A c \in Clusters : NextPart(c) =>
              IF pos[c] < Len(Replicas[c])
              THEN IsLastOpen(calling'[c], Len(Replicas[c]) - pos[c], Replicas[c])
              ELSE /\ calling'[c] = Primary[c]
                   /\ \A i \in DOMAIN Replicas[c] : once[Replicas[c][i]] = "done"
      ]_vars

\* Every Close call returns: no order of closers, shared pools, clients and
\* collections leaves the nested Onces waiting for each other.
CloseReturns == \A g \in Closers : calling[g] # None ~> calling[g] = None
===============================================================================
