----------------------------- MODULE Construction -----------------------------
(***************************************************************************)
(* New (pool.go) with its metrics registration, cluster.New                *)
(* (topology/cluster/cluster.go) and NewTopology                           *)
(* (topology/shard/topology.go), driven by a caller that keeps their       *)
(* ownership rules: a constructor owns its parts only once it succeeds, so *)
(* after an error the caller closes what it still holds, last first.  This *)
(* is the setup code of examples/cluster and examples/shard.               *)
(*                                                                         *)
(* Opening a pgx pool, registering with the metrics implementation and a   *)
(* ping may fail.  A metrics reader may collect at any step; its callback  *)
(* reads the statistics of the pool it was registered for.                 *)
(***************************************************************************)
EXTENDS Integers, Sequences, FiniteSets

CONSTANTS
    Pools,         \* the pools
    WithMetrics,   \* those opened with the option WithMetrics
    IDs,           \* non-empty cluster IDs
    EmptyID,       \* the empty ID
    Deployments    \* what the caller may be asked to open: one record per
                   \* cluster, with its ID, whether its labels are valid, and
                   \* its pools, the primary first

ClusterConfigs == [id : IDs \cup {EmptyID}, labelsOK : BOOLEAN, pools : Seq(Pools)]

ASSUME IDsAssumption == EmptyID \notin IDs
ASSUME MetricsAssumption == WithMetrics \subseteq Pools
\* Every pool belongs to one place of the deployment.
ASSUME DeploymentsAssumption ==
    /\ Deployments \subseteq Seq(ClusterConfigs)
    /\ \A d \in Deployments : \A i, j \in DOMAIN d :
          \A m \in DOMAIN d[i].pools : \A n \in DOMAIN d[j].pools :
             d[i].pools[m] = d[j].pools[n] => i = j /\ m = n

VARIABLES
    deployment,  \* what is being opened
    pc,          \* "new", "register", "assign", "ping", "cluster", "topology";
                 \* "closing", "undoPools", "undoClusters"; "done", "failed"
    pgx,         \* per pool, the pgxpool.Pool: "none", "open" or "closed"
    registered,  \* the pools whose callback is registered
    metrics,     \* the pools whose Pool.metrics is set
    unowned,     \* the pools of the next cluster, with the caller
    clusters,    \* the clusters cluster.New has returned, with the caller
    topology     \* the clusters the topology owns

vars == <<deployment, pc, pgx, registered, metrics, unowned, clusters, topology>>

Init ==
    /\ deployment \in Deployments
    /\ pc = IF deployment = <<>> THEN "topology" ELSE "new"
    /\ pgx = [p \in Pools |-> "none"]
    /\ registered = {}
    /\ metrics = {}
    /\ unowned = <<>>
    /\ clusters = <<>>
    /\ topology = <<>>

\* The cluster being opened and the pool being opened for it.
Current == deployment[Len(clusters) + 1]
Pool == Current.pools[Len(unowned) + 1]

\* What the caller does next once it has the pools ps of the current cluster.
AfterPools(ps) == IF ps = Current.pools THEN "cluster" ELSE "new"

-----------------------------------------------------------------------------
(* New. *)

\* A nil config, a failing option, or pgxpool.NewWithConfig fails.
NewFails ==
    /\ pc = "new"
    /\ Current.pools # <<>>
    /\ pc' = "undoPools"
    /\ UNCHANGED <<deployment, pgx, registered, metrics, unowned, clusters, topology>>

\* pgxpool.NewWithConfig succeeds.
Create ==
    /\ pc = "new"
    /\ Current.pools # <<>>
    /\ pgx' = [pgx EXCEPT ![Pool] = "open"]
    /\ pc' = "register"
    /\ UNCHANGED <<deployment, registered, metrics, unowned, clusters, topology>>

\* registerMetrics without metrics: New returns.
SkipMetrics ==
    /\ pc = "register"
    /\ Pool \notin WithMetrics
    /\ pc' = "ping"
    /\ UNCHANGED <<deployment, pgx, registered, metrics, unowned, clusters, topology>>

\* metrics.Register: collections may invoke the callback from here on.
Register ==
    /\ pc = "register"
    /\ Pool \in WithMetrics
    /\ registered' = registered \cup {Pool}
    /\ pc' = "assign"
    /\ UNCHANGED <<deployment, pgx, metrics, unowned, clusters, topology>>

\* Mutant: the registration is dropped.
AssignMetricsForgotten ==
    /\ pc = "assign"
    /\ pc' = "ping"
    /\ UNCHANGED <<deployment, pgx, registered, metrics, unowned, clusters, topology>>

\* p.metrics = registration, and New returns.
AssignMetrics ==
    /\ pc = "assign"
    /\ metrics' = metrics \cup {Pool}
    /\ pc' = "ping"
    /\ UNCHANGED <<deployment, pgx, registered, unowned, clusters, topology>>

\* Mutant: the pgx pool is left open.
RegisterFailsOpen ==
    /\ pc = "register"
    /\ Pool \in WithMetrics
    /\ pc' = "undoPools"
    /\ UNCHANGED <<deployment, pgx, registered, metrics, unowned, clusters, topology>>

\* Register fails: New closes the pool it is about to drop, which has no
\* registration yet, and returns the error.
RegisterFails ==
    /\ pc = "register"
    /\ Pool \in WithMetrics
    /\ pgx' = [pgx EXCEPT ![Pool] = "closed"]
    /\ pc' = "undoPools"
    /\ UNCHANGED <<deployment, registered, metrics, unowned, clusters, topology>>

-----------------------------------------------------------------------------
(* Pool.Close, in its two steps. *)

UnregisterMetrics(p) ==
    /\ p \in metrics \cap registered
    /\ registered' = registered \ {p}
    /\ UNCHANGED pgx

\* Called again, it does nothing.
ClosePgx(p) ==
    /\ p \notin metrics \cap registered
    /\ pgx' = [pgx EXCEPT ![p] = "closed"]
    /\ UNCHANGED registered

-----------------------------------------------------------------------------
(* The caller: one pool. *)

PingOK ==
    /\ pc = "ping"
    /\ unowned' = Append(unowned, Pool)
    /\ pc' = AfterPools(Append(unowned, Pool))
    /\ UNCHANGED <<deployment, pgx, registered, metrics, clusters, topology>>

PingFails ==
    /\ pc = "ping"
    /\ pc' = "closing"
    /\ UNCHANGED <<deployment, pgx, registered, metrics, unowned, clusters, topology>>

\* The pool that did not answer is closed before the others.
ClosePinged ==
    /\ pc = "closing"
    /\ \/ UnregisterMetrics(Pool) /\ UNCHANGED pc
       \/ ClosePgx(Pool) /\ pc' = "undoPools"
    /\ UNCHANGED <<deployment, metrics, unowned, clusters, topology>>

-----------------------------------------------------------------------------
(* cluster.New. *)

ValidCluster(c) == c.id # EmptyID /\ c.pools # <<>> /\ c.labelsOK

ClusterReady == pc = "cluster" \/ (pc = "new" /\ Current.pools = <<>>)

NewClusterFails ==
    /\ ClusterReady
    /\ ~ValidCluster(Current)
    /\ pc' = "undoPools"
    /\ UNCHANGED <<deployment, pgx, registered, metrics, unowned, clusters, topology>>

NewCluster ==
    /\ ClusterReady
    /\ ValidCluster(Current)
    /\ clusters' = Append(clusters, [id |-> Current.id, pools |-> unowned])
    /\ unowned' = <<>>
    /\ pc' = IF Len(clusters') = Len(deployment) THEN "topology" ELSE "new"
    /\ UNCHANGED <<deployment, pgx, registered, metrics, topology>>

-----------------------------------------------------------------------------
(* NewTopology. *)

\* At least one cluster, and no ID twice; no cluster is nil or has an empty ID.
ValidTopology ==
    /\ clusters # <<>>
    /\ \A i, j \in DOMAIN clusters : clusters[i].id = clusters[j].id => i = j

\* Mutant: the caller keeps the clusters it has handed over.
NewTopologyShared ==
    /\ pc = "topology"
    /\ ValidTopology
    /\ topology' = clusters
    /\ pc' = "done"
    /\ UNCHANGED <<deployment, pgx, registered, metrics, unowned, clusters>>

NewTopology ==
    /\ pc = "topology"
    /\ ValidTopology
    /\ topology' = clusters
    /\ clusters' = <<>>
    /\ pc' = "done"
    /\ UNCHANGED <<deployment, pgx, registered, metrics, unowned>>

NewTopologyFails ==
    /\ pc = "topology"
    /\ ~ValidTopology
    /\ pc' = "undoClusters"
    /\ UNCHANGED <<deployment, pgx, registered, metrics, unowned, clusters, topology>>

-----------------------------------------------------------------------------
(* The caller: closing what it still holds, last first. *)

\* One step of closePools.
UndoPools ==
    /\ pc = "undoPools"
    /\ unowned # <<>>
    /\ LET p == unowned[Len(unowned)] IN
       \/ UnregisterMetrics(p) /\ UNCHANGED unowned
       \/ ClosePgx(p) /\ unowned' = SubSeq(unowned, 1, Len(unowned) - 1)
    /\ UNCHANGED <<deployment, pc, metrics, clusters, topology>>

PoolsUndone ==
    /\ pc = "undoPools"
    /\ unowned = <<>>
    /\ pc' = "undoClusters"
    /\ UNCHANGED <<deployment, pgx, registered, metrics, unowned, clusters, topology>>

\* One step of closeClusters; Cluster.Close closes the replicas backwards and
\* the primary last.
UndoClusters ==
    /\ pc = "undoClusters"
    /\ clusters # <<>>
    /\ LET k == Len(clusters)
           ps == clusters[k].pools
           p == ps[Len(ps)]
       IN  \/ UnregisterMetrics(p) /\ UNCHANGED clusters
           \/ /\ ClosePgx(p)
              /\ clusters' = IF Len(ps) = 1 THEN SubSeq(clusters, 1, k - 1)
                             ELSE [clusters EXCEPT ![k].pools = SubSeq(ps, 1, Len(ps) - 1)]
    /\ UNCHANGED <<deployment, pc, metrics, unowned, topology>>

ClustersUndone ==
    /\ pc = "undoClusters"
    /\ clusters = <<>>
    /\ pc' = "failed"
    /\ UNCHANGED <<deployment, pgx, registered, metrics, unowned, clusters, topology>>

Ended == pc \in {"done", "failed"} /\ UNCHANGED vars

Next ==
    \/ NewFails \/ Create
    \/ SkipMetrics \/ Register \/ AssignMetrics \/ RegisterFails
    \/ PingOK \/ PingFails \/ ClosePinged
    \/ NewCluster \/ NewClusterFails
    \/ NewTopology \/ NewTopologyFails
    \/ UndoPools \/ PoolsUndone \/ UndoClusters \/ ClustersUndone
    \/ Ended

Spec == Init /\ [][Next]_vars

-----------------------------------------------------------------------------
(* Properties. *)

\* The places of sequence cs of clusters that hold pool p.
Places(cs, p) ==
    UNION {{<<i, m>> : m \in {n \in DOMAIN cs[i].pools : cs[i].pools[n] = p}} : i \in DOMAIN cs}

BeingOpened == IF pc \in {"register", "assign", "ping", "closing"} THEN {Pool} ELSE {}

\* Everyone who would close pool p.
Owners(p) ==
    Cardinality({p} \cap BeingOpened)
    + Cardinality({i \in DOMAIN unowned : unowned[i] = p})
    + Cardinality(Places(clusters, p))
    + Cardinality(Places(topology, p))

\* At every step, exactly one party is responsible for an open pool: New, the
\* caller, a cluster or the topology.  None would leak it when a later step
\* fails; two would share it after one of them has closed.
OneOwner == \A p \in Pools : Owners(p) = IF pgx[p] = "open" THEN 1 ELSE 0

\* A deployment is opened as a whole or not at all: after an error, wherever it
\* occurred, no pool is left open and no callback registered; on success the
\* topology owns every pool, open and with its metrics.
AllOrNothing ==
    /\ pc = "failed" => registered = {} /\ \A p \in Pools : pgx[p] # "open"
    /\ pc = "done" =>
          \A i \in DOMAIN deployment : \A m \in DOMAIN deployment[i].pools :
             LET p == deployment[i].pools[m] IN
             /\ pgx[p] = "open"
             /\ Places(topology, p) = {<<i, m>>}
             /\ p \in WithMetrics => p \in registered

\* A collection, whenever it happens, reads the statistics of open pools only:
\* the callback is registered after the pool is created and removed before it
\* is closed, on every error path.
RegisteredIsOpen == \A p \in registered : pgx[p] = "open"
===============================================================================
