--------------------------- MODULE ConstructionProofs ---------------------------
(***************************************************************************)
(* Proofs about Construction, for every deployment: any number of clusters *)
(* and of pools, with and without metrics, valid or not.                   *)
(*                                                                         *)
(* That an open pool has one owner is not inductive: it follows from where *)
(* the pools in the hands of the caller come from.  Its lists are the      *)
(* beginnings of the lists of the deployment, in which every pool has one  *)
(* place, and how far they reach is a function of the phase.  On every     *)
(* error path, what is still open is what is left of them.                 *)
(***************************************************************************)
EXTENDS Construction, FiniteSetTheorems, SequenceTheorems, TLAPS

-----------------------------------------------------------------------------
(* The inductive invariant. *)

\* The clusters the caller and the topology hold.
Cluster == [id : IDs \cup {EmptyID}, pools : Seq(Pools)]

\* The phases in which nothing has gone wrong yet, and those in which New or the caller
\* holds a pool that is not in a list.
Forward == {"new", "register", "assign", "ping", "cluster", "topology"}
Opening == {"register", "assign", "ping", "closing"}
Phases == Forward \cup {"closing", "undoPools", "undoClusters", "done", "failed"}

TypeOK ==
    /\ deployment \in Deployments
    /\ pc \in Phases
    /\ pgx \in [Pools -> {"none", "open", "closed"}]
    /\ registered \subseteq WithMetrics
    /\ metrics \subseteq WithMetrics
    /\ unowned \in Seq(Pools)
    /\ clusters \in Seq(Cluster)
    /\ topology \in Seq(Cluster)

Prefix(s, t) == Len(s) <= Len(t) /\ \A m \in 1..Len(s) : s[m] = t[m]

\* The lists held by the caller are the beginnings of the lists of the deployment.
ListsOK ==
    /\ Len(clusters) <= Len(deployment)
    /\ \A i \in 1..Len(clusters) :
          clusters[i].pools # <<>> /\ Prefix(clusters[i].pools, deployment[i].pools)
    /\ unowned # <<>> => Len(clusters) < Len(deployment)
    /\ Len(clusters) < Len(deployment) => Prefix(unowned, Current.pools)
    /\ pc \in Forward => \A i \in 1..Len(clusters) :
                            Len(clusters[i].pools) = Len(deployment[i].pools)

\* How far the caller has come.
PhaseOK ==
    /\ pc \in Opening \cup {"new", "cluster"} => Len(clusters) < Len(deployment)
    /\ pc \in Opening => Len(unowned) < Len(Current.pools)
    /\ pc = "register" => Pool \notin registered
    /\ pc = "assign" => Pool \in registered
    /\ pc = "new" => Current.pools = <<>> \/ Len(unowned) < Len(Current.pools)
    /\ pc = "cluster" => Len(unowned) = Len(Current.pools)
    /\ pc \in {"topology", "undoClusters", "done", "failed"} => unowned = <<>>
    /\ pc = "topology" => Len(clusters) = Len(deployment)
    /\ pc \in {"done", "failed"} => clusters = <<>>

TopologyOK ==
    /\ pc # "done" => topology = <<>>
    /\ pc = "done" =>
          /\ Len(topology) = Len(deployment)
          /\ \A i \in 1..Len(deployment) :
                /\ Len(topology[i].pools) = Len(deployment[i].pools)
                /\ Prefix(topology[i].pools, deployment[i].pools)

InList(s, p) == \E m \in 1..Len(s) : s[m] = p
InClusters(cs, p) == \E i \in 1..Len(cs) : InList(cs[i].pools, p)

\* Somebody would close pool p.
InLists(p) == InList(unowned, p) \/ InClusters(clusters, p) \/ InClusters(topology, p)
Held(p) == p \in BeingOpened \/ InLists(p)

\* What is open is what is held.
HeldOK == \A p \in Pools : pgx[p] = "open" <=> Held(p)

MetricsOK ==
    /\ \A p \in registered : pgx[p] = "open"
    /\ \A p \in registered : p \in metrics \/ (pc = "assign" /\ p = Pool)
    /\ pc \in Forward \cup {"done"} =>
          \A p \in WithMetrics :
             (InLists(p) \/ (pc \in {"assign", "ping"} /\ p = Pool)) => p \in registered

IInv == TypeOK /\ ListsOK /\ PhaseOK /\ TopologyOK /\ HeldOK /\ MetricsOK

-----------------------------------------------------------------------------
(* Lemmas about the lists. *)

\* Clusters in which every pool has one place.
Distinct(cs) ==
    \A i, j \in 1..Len(cs) : \A m \in 1..Len(cs[i].pools), n \in 1..Len(cs[j].pools) :
       cs[i].pools[m] = cs[j].pools[n] => i = j /\ m = n

\* Two places of one pool are the same.
LEMMA SamePlace ==
    ASSUME NEW cs, Distinct(cs), NEW i \in 1..Len(cs), NEW j \in 1..Len(cs),
           NEW m \in 1..Len(cs[i].pools), NEW n \in 1..Len(cs[j].pools),
           cs[i].pools[m] = cs[j].pools[n]
    PROVE  i = j /\ m = n
    BY DEF Distinct

USE IDsAssumption, MetricsAssumption, DeploymentsAssumption

\* The lists of a deployment, and the one place of each pool.
LEMMA DeploymentFacts ==
    ASSUME NEW d \in Deployments
    PROVE  /\ Len(d) \in Nat /\ DOMAIN d = 1..Len(d)
           /\ \A i \in 1..Len(d) :
                 /\ d[i].id \in IDs \cup {EmptyID}
                 /\ d[i].pools \in Seq(Pools)
                 /\ Len(d[i].pools) \in Nat
                 /\ DOMAIN d[i].pools = 1..Len(d[i].pools)
                 /\ \A m \in 1..Len(d[i].pools) : d[i].pools[m] \in Pools
           /\ \A i, j \in 1..Len(d) :
                 \A m \in 1..Len(d[i].pools), n \in 1..Len(d[j].pools) :
                    d[i].pools[m] = d[j].pools[n] => i = j /\ m = n
<1>1. d \in Seq(ClusterConfigs)
    OBVIOUS
<1>2. Len(d) \in Nat /\ DOMAIN d = 1..Len(d) /\ \A i \in 1..Len(d) : d[i] \in ClusterConfigs
    BY <1>1
<1>3. \A i \in 1..Len(d) : d[i].id \in IDs \cup {EmptyID} /\ d[i].pools \in Seq(Pools)
    BY <1>2 DEF ClusterConfigs
<1>4. \A i \in 1..Len(d) :
         /\ Len(d[i].pools) \in Nat
         /\ DOMAIN d[i].pools = 1..Len(d[i].pools)
         /\ \A m \in 1..Len(d[i].pools) : d[i].pools[m] \in Pools
  <2>1. ASSUME NEW s \in Seq(Pools)
        PROVE  Len(s) \in Nat /\ DOMAIN s = 1..Len(s) /\ \A m \in 1..Len(s) : s[m] \in Pools
      OBVIOUS
  <2> QED  BY <1>3, <2>1
<1>5. \A i, j \in DOMAIN d : \A m \in DOMAIN d[i].pools : \A n \in DOMAIN d[j].pools :
         d[i].pools[m] = d[j].pools[n] => i = j /\ m = n
    OBVIOUS
<1>6. ASSUME NEW i \in 1..Len(d), NEW j \in 1..Len(d),
             NEW m \in 1..Len(d[i].pools), NEW n \in 1..Len(d[j].pools),
             d[i].pools[m] = d[j].pools[n]
      PROVE  i = j /\ m = n
  <2>1. /\ m \in DOMAIN d[i].pools /\ n \in DOMAIN d[j].pools
        /\ i \in DOMAIN d /\ j \in DOMAIN d
      BY <1>2, <1>4
  <2> QED  BY <1>5, <1>6, <2>1
<1> QED  BY <1>2, <1>3, <1>4, <1>6

\* The same for the lists of clusters that exist.
LEMMA ClusterFacts ==
    ASSUME NEW cs \in Seq(Cluster)
    PROVE  /\ Len(cs) \in Nat /\ DOMAIN cs = 1..Len(cs)
           /\ \A i \in 1..Len(cs) :
                 /\ cs[i] \in Cluster
                 /\ cs[i].id \in IDs \cup {EmptyID}
                 /\ cs[i].pools \in Seq(Pools)
                 /\ Len(cs[i].pools) \in Nat
                 /\ DOMAIN cs[i].pools = 1..Len(cs[i].pools)
                 /\ (cs[i].pools # <<>> <=> Len(cs[i].pools) > 0)
                 /\ \A m \in 1..Len(cs[i].pools) : cs[i].pools[m] \in Pools
<1>1. Len(cs) \in Nat /\ DOMAIN cs = 1..Len(cs) /\ \A i \in 1..Len(cs) : cs[i] \in Cluster
    OBVIOUS
<1>2. \A i \in 1..Len(cs) : cs[i].id \in IDs \cup {EmptyID} /\ cs[i].pools \in Seq(Pools)
    BY <1>1 DEF Cluster
<1>3. ASSUME NEW s \in Seq(Pools)
      PROVE  /\ Len(s) \in Nat /\ DOMAIN s = 1..Len(s)
             /\ \A m \in 1..Len(s) : s[m] \in Pools
             /\ (s # <<>> <=> Len(s) > 0)
    OBVIOUS
<1> QED  BY <1>1, <1>2, <1>3

\* The types of a state, spelt out.
LEMMA TypeFacts ==
    ASSUME TypeOK
    PROVE  /\ Len(deployment) \in Nat /\ Len(clusters) \in Nat /\ Len(topology) \in Nat
           /\ Len(unowned) \in Nat /\ DOMAIN unowned = 1..Len(unowned)
           /\ (unowned = <<>> <=> Len(unowned) = 0)
           /\ \A m \in 1..Len(unowned) : unowned[m] \in Pools
           /\ (clusters = <<>> <=> Len(clusters) = 0)
           /\ (topology = <<>> <=> Len(topology) = 0)
<1>1. ASSUME NEW s \in Seq(Pools)
      PROVE  /\ Len(s) \in Nat /\ DOMAIN s = 1..Len(s)
             /\ \A m \in 1..Len(s) : s[m] \in Pools
             /\ (s = <<>> <=> Len(s) = 0)
    OBVIOUS
<1>2. ASSUME NEW s \in Seq(Cluster)
      PROVE  s = <<>> <=> Len(s) = 0
    OBVIOUS
<1> QED  BY <1>1, <1>2, DeploymentFacts, ClusterFacts DEF TypeOK

\* The list that is being opened, when there is one, and its next pool.
LEMMA CurrentFacts ==
    ASSUME TypeOK, ListsOK, PhaseOK, Len(clusters) < Len(deployment)
    PROVE  /\ Current.pools \in Seq(Pools) /\ Current.id \in IDs \cup {EmptyID}
           /\ Len(Current.pools) \in Nat
           /\ (Current.pools = <<>> <=> Len(Current.pools) = 0)
           /\ Len(unowned) < Len(Current.pools) =>
                 /\ Pool \in Pools
                 /\ ~InList(unowned, Pool) /\ ~InClusters(clusters, Pool)
<1> DEFINE k == Len(clusters) + 1
           u == Len(unowned) + 1
<1>1. k \in 1..Len(deployment) /\ Current = deployment[k] /\ u \in Nat /\ u > 0
    BY TypeFacts DEF Current
<1>2. /\ Current.pools \in Seq(Pools) /\ Current.id \in IDs \cup {EmptyID}
      /\ Len(Current.pools) \in Nat
    BY <1>1, DeploymentFacts DEF TypeOK
<1>3. Current.pools = <<>> <=> Len(Current.pools) = 0
    BY <1>2
<1>4. ASSUME Len(unowned) < Len(Current.pools)
      PROVE  /\ Pool \in Pools
             /\ ~InList(unowned, Pool) /\ ~InClusters(clusters, Pool)
  <2>1. u \in 1..Len(deployment[k].pools) /\ Pool = deployment[k].pools[u]
      BY <1>1, <1>2, <1>4, TypeFacts DEF Pool
  <2>2. Pool \in Pools
      BY <1>1, <2>1, DeploymentFacts DEF TypeOK
  <2>3. ASSUME NEW m \in 1..Len(unowned) PROVE unowned[m] # Pool
    <3>1. m \in 1..Len(deployment[k].pools) /\ unowned[m] = deployment[k].pools[m] /\ m # u
        BY <1>1, <1>2, <1>4, TypeFacts DEF ListsOK, Prefix
    <3> QED  BY <1>1, <2>1, <3>1, DeploymentFacts DEF TypeOK
  <2>4. ASSUME NEW i \in 1..Len(clusters), NEW m \in 1..Len(clusters[i].pools)
        PROVE  clusters[i].pools[m] # Pool
    <3>1. i \in 1..Len(deployment) /\ i # k
        BY TypeFacts DEF ListsOK
    <3>2. Len(clusters[i].pools) \in Nat /\ Len(deployment[i].pools) \in Nat
        BY <3>1, ClusterFacts, DeploymentFacts DEF TypeOK
    <3>3. m \in 1..Len(deployment[i].pools) /\ clusters[i].pools[m] = deployment[i].pools[m]
        BY <3>2 DEF ListsOK, Prefix
    <3> QED  BY <1>1, <2>1, <3>1, <3>3, DeploymentFacts DEF TypeOK
  <2> QED  BY <2>2, <2>3, <2>4 DEF InList, InClusters
<1> QED  BY <1>2, <1>3, <1>4

\* No pool is in two places of the lists of the caller.
LEMMA OnePlace ==
    ASSUME TypeOK, ListsOK
    PROVE  /\ \A m, n \in 1..Len(unowned) : unowned[m] = unowned[n] => m = n
           /\ \A i, j \in 1..Len(clusters) :
                 \A m \in 1..Len(clusters[i].pools), n \in 1..Len(clusters[j].pools) :
                    clusters[i].pools[m] = clusters[j].pools[n] => i = j /\ m = n
           /\ \A i \in 1..Len(clusters) :
                 \A m \in 1..Len(clusters[i].pools), n \in 1..Len(unowned) :
                    clusters[i].pools[m] # unowned[n]
<1>1. ASSUME NEW i \in 1..Len(clusters), NEW m \in 1..Len(clusters[i].pools)
      PROVE  /\ i \in 1..Len(deployment)
             /\ m \in 1..Len(deployment[i].pools)
             /\ clusters[i].pools[m] = deployment[i].pools[m]
  <2>1. i \in 1..Len(deployment)
      BY TypeFacts DEF ListsOK
  <2>2. Len(clusters[i].pools) \in Nat /\ Len(deployment[i].pools) \in Nat
      BY <2>1, ClusterFacts, DeploymentFacts DEF TypeOK
  <2> QED  BY <2>1, <2>2 DEF ListsOK, Prefix
<1>2. ASSUME NEW m \in 1..Len(unowned)
      PROVE  /\ Len(clusters) + 1 \in 1..Len(deployment)
             /\ m \in 1..Len(deployment[Len(clusters) + 1].pools)
             /\ unowned[m] = deployment[Len(clusters) + 1].pools[m]
  <2>1. Len(clusters) + 1 \in 1..Len(deployment)
      BY TypeFacts DEF ListsOK
  <2>2. Len(unowned) \in Nat /\ Len(deployment[Len(clusters) + 1].pools) \in Nat
      BY <2>1, TypeFacts, DeploymentFacts DEF TypeOK
  <2> QED  BY <2>1, <2>2, TypeFacts DEF ListsOK, Prefix, Current
<1>d. Distinct(deployment)
  <2>1. deployment \in Deployments
      BY DEF TypeOK
  <2> QED  BY <2>1, DeploymentFacts DEF Distinct
<1>3. \A m, n \in 1..Len(unowned) : unowned[m] = unowned[n] => m = n
    BY <1>2, <1>d, SamePlace
<1>4. ASSUME NEW i \in 1..Len(clusters), NEW j \in 1..Len(clusters),
             NEW m \in 1..Len(clusters[i].pools), NEW n \in 1..Len(clusters[j].pools),
             clusters[i].pools[m] = clusters[j].pools[n]
      PROVE  i = j /\ m = n
  <2>1. /\ i \in 1..Len(deployment) /\ m \in 1..Len(deployment[i].pools)
        /\ clusters[i].pools[m] = deployment[i].pools[m]
      BY <1>1
  <2>2. /\ j \in 1..Len(deployment) /\ n \in 1..Len(deployment[j].pools)
        /\ clusters[j].pools[n] = deployment[j].pools[n]
      BY <1>1
  <2>3. deployment[i].pools[m] = deployment[j].pools[n]
      BY <1>4, <2>1, <2>2
  <2> QED  BY <1>d, <2>1, <2>2, <2>3, SamePlace
<1>5. ASSUME NEW i \in 1..Len(clusters),
             NEW m \in 1..Len(clusters[i].pools), NEW n \in 1..Len(unowned),
             clusters[i].pools[m] = unowned[n]
      PROVE  FALSE
  <2>1. i = Len(clusters) + 1
      BY <1>1, <1>2, <1>5, DeploymentFacts DEF TypeOK
  <2> QED  BY <2>1, TypeFacts
<1> QED  BY <1>3, <1>4, <1>5

-----------------------------------------------------------------------------

(* It is inductive. *)

\* It holds before the first pool is opened.
LEMMA InitIInv == Init => IInv
<1> SUFFICES ASSUME Init PROVE IInv
    OBVIOUS
<1>0. /\ deployment \in Deployments /\ Len(deployment) \in Nat
      /\ (deployment = <<>> <=> Len(deployment) = 0)
      /\ unowned = <<>> /\ clusters = <<>> /\ topology = <<>>
      /\ Len(unowned) = 0 /\ Len(clusters) = 0 /\ Len(topology) = 0
    BY DeploymentFacts DEF Init, ClusterConfigs
<1>1. TypeOK
    BY <1>0 DEF Init, TypeOK, Phases, Forward
<1>2. Len(clusters) < Len(deployment) => Len(Current.pools) \in Nat
    BY <1>0, DeploymentFacts DEF Current
<1>3. ListsOK
    BY <1>0, <1>2 DEF Init, ListsOK, Prefix
<1>4. PhaseOK
  <2>1. CASE deployment = <<>>
      BY <1>0, <2>1 DEF Init, PhaseOK, Opening
  <2>2. CASE deployment # <<>>
    <3>1. Len(clusters) < Len(deployment) /\ pc = "new"
        BY <1>0, <2>2 DEF Init
    <3>2. Current.pools \in Seq(Pools) /\ Len(Current.pools) \in Nat
        BY <1>0, <3>1, DeploymentFacts DEF Current
    <3>3. Current.pools = <<>> \/ Len(unowned) < Len(Current.pools)
        BY <1>0, <3>2
    <3> QED  BY <1>0, <3>1, <3>3 DEF PhaseOK, Opening
  <2> QED  BY <2>1, <2>2
<1>5. TopologyOK
    BY <1>0 DEF Init, TopologyOK
<1>6. HeldOK /\ MetricsOK
    BY <1>0 DEF Init, HeldOK, MetricsOK, Held, InLists, InList, InClusters, BeingOpened
<1> QED  BY <1>1, <1>3, <1>4, <1>5, <1>6 DEF IInv

\* A step that leaves the lists alone leaves what they hold alone.
LEMMA Frame ==
    ASSUME UNCHANGED <<deployment, unowned, clusters, topology>>
    PROVE  /\ Pool' = Pool /\ Current' = Current
           /\ \A p : InLists(p)' = InLists(p)
    BY DEF Pool, Current, InLists, InList, InClusters

\* The steps that only change the phase.
LEMMA PhaseSteps ==
    ASSUME IInv,
           \/ NewFails \/ SkipMetrics \/ PingFails \/ NewClusterFails
           \/ NewTopologyFails \/ PoolsUndone \/ ClustersUndone
    PROVE  IInv'
<1> USE DEF IInv
<1>0. /\ UNCHANGED <<deployment, unowned, clusters, topology>>
      /\ UNCHANGED <<pgx, registered, metrics>>
    BY DEF NewFails, SkipMetrics, PingFails, NewClusterFails, NewTopologyFails,
           PoolsUndone, ClustersUndone
<1>1. /\ Pool' = Pool /\ Current' = Current
      /\ \A p : InLists(p)' = InLists(p)
    BY <1>0, Frame
<1> USE DEF Forward, Opening, Phases
<1>2. TypeOK'
    BY <1>0 DEF TypeOK, NewFails, SkipMetrics, PingFails, NewClusterFails,
                NewTopologyFails, PoolsUndone, ClustersUndone
<1>3. ListsOK'
    BY <1>0, <1>1 DEF ListsOK, Prefix, NewFails, SkipMetrics, PingFails, NewClusterFails,
                      NewTopologyFails, PoolsUndone, ClustersUndone
<1>4. PhaseOK'
    BY <1>0, <1>1, TypeFacts DEF PhaseOK, NewFails, SkipMetrics, PingFails, NewClusterFails,
                      NewTopologyFails, PoolsUndone, ClustersUndone
<1>5. TopologyOK'
    BY <1>0 DEF TopologyOK, NewFails, SkipMetrics, PingFails, NewClusterFails,
                ClusterReady, NewTopologyFails, PoolsUndone, ClustersUndone
<1>6. BeingOpened' = BeingOpened
    BY <1>0, <1>1 DEF BeingOpened, NewFails, SkipMetrics, PingFails, NewClusterFails,
                      ClusterReady, NewTopologyFails, PoolsUndone, ClustersUndone
<1>7. HeldOK'
    BY <1>0, <1>1, <1>6 DEF HeldOK, Held
<1>8. MetricsOK'
    BY <1>0, <1>1 DEF MetricsOK, NewFails, SkipMetrics, PingFails, NewClusterFails,
                      ClusterReady, NewTopologyFails, PoolsUndone, ClustersUndone
<1> QED  BY <1>2, <1>3, <1>4, <1>5, <1>7, <1>8

\* New opens a pool that nobody holds.
LEMMA CreateStep == ASSUME IInv, Create PROVE IInv'
<1> USE DEF IInv, Create, Forward, Opening, Phases
<1>1. /\ Pool' = Pool /\ Current' = Current
      /\ \A p : InLists(p)' = InLists(p)
    BY Frame
<1>2. /\ Pool \in Pools /\ ~InLists(Pool)
      /\ Len(clusters) < Len(deployment) /\ Len(unowned) < Len(Current.pools)
  <2>1. Len(clusters) < Len(deployment) /\ Len(unowned) < Len(Current.pools)
      BY DEF PhaseOK
  <2>2. ~InClusters(topology, Pool)
      BY TypeFacts DEF TopologyOK, InClusters
  <2> QED  BY <2>1, <2>2, CurrentFacts DEF InLists
<1>3. TypeOK'
    BY <1>2 DEF TypeOK
<1>4. ListsOK'
    BY <1>1 DEF ListsOK, Prefix
<1>5. PhaseOK'
  <2>1. Pool \notin registered
      BY <1>2 DEF MetricsOK, HeldOK, Held, BeingOpened
  <2> QED  BY <1>1, <1>2, <2>1 DEF PhaseOK
<1>6. TopologyOK'
    BY DEF TopologyOK
<1>7. BeingOpened = {} /\ BeingOpened' = {Pool}
    BY <1>1 DEF BeingOpened
<1>8. HeldOK'
    BY <1>1, <1>2, <1>7 DEF HeldOK, Held, TypeOK
<1>9. MetricsOK'
    BY <1>1, <1>2 DEF MetricsOK, TypeOK
<1> QED  BY <1>3, <1>4, <1>5, <1>6, <1>8, <1>9

\* The metrics are registered while New still holds the pool.
LEMMA RegisterStep == ASSUME IInv, Register PROVE IInv'
<1> USE DEF IInv, Register, Forward, Opening, Phases
<1>1. /\ Pool' = Pool /\ Current' = Current
      /\ \A p : InLists(p)' = InLists(p)
    BY Frame
<1>t. TypeOK' /\ PhaseOK'
    BY <1>1 DEF TypeOK, PhaseOK
<1>l. ListsOK' /\ TopologyOK'
    BY <1>1 DEF ListsOK, Prefix, TopologyOK
<1>2. TypeOK' /\ ListsOK' /\ PhaseOK' /\ TopologyOK'
    BY <1>t, <1>l
<1>3. BeingOpened = {Pool} /\ BeingOpened' = {Pool}
    BY <1>1 DEF BeingOpened
<1>4. HeldOK'
    BY <1>1, <1>3 DEF HeldOK, Held
<1>5. pgx[Pool] = "open"
    BY <1>3 DEF HeldOK, Held
<1>6. MetricsOK'
    BY <1>1, <1>5 DEF MetricsOK
<1> QED  BY <1>2, <1>4, <1>6

\* From here on Close will unregister them.
LEMMA AssignMetricsStep == ASSUME IInv, AssignMetrics PROVE IInv'
<1> USE DEF IInv, AssignMetrics, Forward, Opening, Phases
<1>1. /\ Pool' = Pool /\ Current' = Current
      /\ \A p : InLists(p)' = InLists(p)
    BY Frame
<1>2. TypeOK' /\ ListsOK' /\ PhaseOK' /\ TopologyOK'
    BY <1>1 DEF TypeOK, ListsOK, Prefix, PhaseOK, TopologyOK
<1>3. BeingOpened' = BeingOpened
    BY <1>1 DEF BeingOpened
<1>4. HeldOK'
    BY <1>1, <1>3 DEF HeldOK, Held
<1>5. MetricsOK'
    BY <1>1 DEF MetricsOK
<1> QED  BY <1>2, <1>4, <1>5

\* The pool that New closes is held by nobody else.
LEMMA RegisterFailsStep == ASSUME IInv, RegisterFails PROVE IInv'
<1> USE DEF IInv, RegisterFails, Forward, Opening, Phases
<1>1. /\ Pool' = Pool /\ Current' = Current
      /\ \A p : InLists(p)' = InLists(p)
    BY Frame
<1>2. Pool \in Pools /\ ~InLists(Pool)
  <2>1. Len(clusters) < Len(deployment) /\ Len(unowned) < Len(Current.pools)
      BY DEF PhaseOK
  <2>2. ~InClusters(topology, Pool)
      BY TypeFacts DEF TopologyOK, InClusters
  <2> QED  BY <2>1, <2>2, CurrentFacts DEF InLists
<1>3. TypeOK' /\ ListsOK' /\ PhaseOK' /\ TopologyOK'
    BY <1>1, <1>2 DEF TypeOK, ListsOK, Prefix, PhaseOK, TopologyOK
<1>4. BeingOpened = {Pool} /\ BeingOpened' = {}
    BY <1>1 DEF BeingOpened
<1>5. HeldOK'
    BY <1>1, <1>2, <1>4 DEF HeldOK, Held, TypeOK
<1>6. MetricsOK'
    BY <1>1 DEF MetricsOK, PhaseOK, TypeOK
<1> QED  BY <1>3, <1>5, <1>6

\* A list that has reached the length of the other is the other.
LEMMA WholePrefix ==
    ASSUME NEW s \in Seq(Pools), NEW t \in Seq(Pools), Prefix(s, t), Len(s) = Len(t)
    PROVE  s = t
    BY DEF Prefix

\* A sequence with one more element.
LEMMA AppendFacts ==
    ASSUME NEW S, NEW s \in Seq(S), NEW e \in S
    PROVE  /\ Append(s, e) \in Seq(S) /\ Append(s, e) # <<>>
           /\ Len(Append(s, e)) = Len(s) + 1
           /\ \A m \in 1..Len(s) : Append(s, e)[m] = s[m]
           /\ Append(s, e)[Len(s) + 1] = e
    OBVIOUS

\* One more pool for the cluster that is being put together.
LEMMA PingOKStep == ASSUME IInv, PingOK PROVE IInv'
<1> USE DEF IInv, PingOK, Forward, Opening, Phases
<1>1. /\ Len(clusters) < Len(deployment) /\ Len(unowned) < Len(Current.pools)
      /\ Pool \in Pools /\ Current' = Current
      /\ Current.pools \in Seq(Pools) /\ Len(Current.pools) \in Nat
  <2>1. Len(clusters) < Len(deployment) /\ Len(unowned) < Len(Current.pools)
      BY DEF PhaseOK
  <2> QED  BY <2>1, CurrentFacts DEF Current
<1>2. /\ unowned' \in Seq(Pools) /\ unowned' # <<>> /\ Len(unowned') = Len(unowned) + 1
      /\ \A m \in 1..Len(unowned) : unowned'[m] = unowned[m]
      /\ unowned'[Len(unowned) + 1] = Pool
    BY <1>1, AppendFacts DEF TypeOK
<1>3. Prefix(unowned', Current.pools)
  <2>1. Prefix(unowned, Current.pools)
      BY <1>1 DEF ListsOK
  <2>2. Pool = Current.pools[Len(unowned) + 1]
      BY DEF Pool
  <2> QED  BY <1>1, <1>2, <2>1, <2>2, TypeFacts DEF Prefix
<1>4. \/ pc' = "cluster" /\ Len(unowned') = Len(Current.pools)
      \/ pc' = "new" /\ Len(unowned') < Len(Current.pools)
  <2>1. CASE unowned' = Current.pools
      BY <2>1 DEF AfterPools
  <2>2. CASE unowned' # Current.pools
    <3>1. Len(unowned') # Len(Current.pools)
        BY <1>1, <1>2, <1>3, <2>2, WholePrefix
    <3> QED  BY <1>1, <1>2, <1>3, <2>2, <3>1, TypeFacts DEF AfterPools, Prefix
  <2> QED  BY <2>1, <2>2
<1>5. TypeOK'
    BY <1>2, <1>4 DEF TypeOK
<1>6. ListsOK'
    BY <1>1, <1>3 DEF ListsOK, Prefix
<1>7. PhaseOK' /\ TopologyOK'
    BY <1>1, <1>2, <1>4 DEF PhaseOK, TopologyOK
<1>8. \A p : InLists(p)' <=> InLists(p) \/ p = Pool
  <2>1. \A p : InList(unowned', p) <=> InList(unowned, p) \/ p = Pool
      BY <1>2, TypeFacts DEF InList
  <2> QED  BY <2>1 DEF InLists, InClusters, InList
<1>9. BeingOpened = {Pool} /\ BeingOpened' = {}
    BY <1>4 DEF BeingOpened
<1>10. HeldOK'
    BY <1>8, <1>9 DEF HeldOK, Held
<1>11. MetricsOK'
    BY <1>4, <1>8 DEF MetricsOK
<1> QED  BY <1>5, <1>6, <1>7, <1>10, <1>11

\* The pool that did not answer.
LEMMA ClosePingedStep == ASSUME IInv, ClosePinged PROVE IInv'
<1> USE DEF IInv, ClosePinged, Forward, Opening, Phases
<1>1. /\ Pool' = Pool /\ Current' = Current
      /\ \A p : InLists(p)' = InLists(p)
    BY Frame
<1>2. Pool \in Pools /\ ~InLists(Pool)
  <2>1. Len(clusters) < Len(deployment) /\ Len(unowned) < Len(Current.pools)
      BY DEF PhaseOK
  <2>2. ~InClusters(topology, Pool)
      BY TypeFacts DEF TopologyOK, InClusters
  <2> QED  BY <2>1, <2>2, CurrentFacts DEF InLists
<1>3. CASE UnregisterMetrics(Pool) /\ UNCHANGED pc
  <2> USE <1>3 DEF UnregisterMetrics
  <2>t. TypeOK' /\ PhaseOK'
      BY <1>1 DEF TypeOK, PhaseOK
  <2>l. ListsOK' /\ TopologyOK'
      BY <1>1 DEF ListsOK, Prefix, TopologyOK
  <2>1. TypeOK' /\ ListsOK' /\ PhaseOK' /\ TopologyOK'
      BY <2>t, <2>l
  <2>2. HeldOK'
      BY <1>1 DEF HeldOK, Held, BeingOpened
  <2>3. MetricsOK'
      BY <1>1 DEF MetricsOK
  <2> QED  BY <2>1, <2>2, <2>3
<1>4. CASE ClosePgx(Pool) /\ pc' = "undoPools"
  <2> USE <1>4 DEF ClosePgx
  <2>t. TypeOK' /\ PhaseOK'
      BY <1>1 DEF TypeOK, PhaseOK
  <2>l. ListsOK' /\ TopologyOK'
      BY <1>1 DEF ListsOK, Prefix, TopologyOK
  <2>1. TypeOK' /\ ListsOK' /\ PhaseOK' /\ TopologyOK'
      BY <2>t, <2>l
  <2>2. BeingOpened = {Pool} /\ BeingOpened' = {}
      BY <1>1 DEF BeingOpened
  <2>3. HeldOK'
      BY <1>1, <1>2, <2>2 DEF HeldOK, Held, TypeOK
  <2>4. MetricsOK'
      BY <1>1 DEF MetricsOK, TypeOK
  <2> QED  BY <2>1, <2>3, <2>4
<1> QED  BY <1>3, <1>4

\* The pools of a cluster pass from the caller to the cluster.
LEMMA NewClusterStep == ASSUME IInv, NewCluster PROVE IInv'
<1> USE DEF IInv, Forward, Opening, Phases
<1>0. /\ pc = "cluster" /\ Current.pools # <<>>
      /\ clusters' = Append(clusters, [id |-> Current.id, pools |-> unowned])
      /\ unowned' = <<>>
      /\ pc' = IF Len(clusters') = Len(deployment) THEN "topology" ELSE "new"
      /\ UNCHANGED <<deployment, pgx, registered, metrics, topology>>
    BY DEF NewCluster, ClusterReady, ValidCluster
<1>1. /\ Len(clusters) < Len(deployment) /\ Len(unowned) = Len(Current.pools)
      /\ Current.id \in IDs \cup {EmptyID}
      /\ Current.pools \in Seq(Pools) /\ Len(Current.pools) \in Nat
      /\ Current.pools = <<>> <=> Len(Current.pools) = 0
  <2>1. Len(clusters) < Len(deployment) /\ Len(unowned) = Len(Current.pools)
      BY <1>0 DEF PhaseOK
  <2> QED  BY <2>1, CurrentFacts
<1> DEFINE k == Len(clusters) + 1
           new == [id |-> Current.id, pools |-> unowned]
<1>2. /\ new \in Cluster /\ new.pools = unowned /\ unowned # <<>>
      /\ k \in Nat /\ Current = deployment[k]
    BY <1>0, <1>1, TypeFacts DEF Cluster, TypeOK, Current
<1> HIDE DEF new
<1>3. /\ clusters' \in Seq(Cluster) /\ Len(clusters') = k
      /\ \A i \in 1..Len(clusters) : clusters'[i] = clusters[i]
      /\ clusters'[k] = new
    BY <1>0, <1>2 DEF TypeOK, new
<1>4. TypeOK'
    BY <1>0, <1>3 DEF TypeOK
<1>5. \A i \in 1..k : /\ clusters'[i].pools # <<>>
                      /\ Len(clusters'[i].pools) = Len(deployment[i].pools)
                      /\ Prefix(clusters'[i].pools, deployment[i].pools)
  <2>1. ASSUME NEW i \in 1..k, i # k
        PROVE  /\ clusters'[i].pools # <<>>
               /\ Len(clusters'[i].pools) = Len(deployment[i].pools)
               /\ Prefix(clusters'[i].pools, deployment[i].pools)
    <3>1. i \in 1..Len(clusters) /\ clusters'[i] = clusters[i]
        BY <1>2, <1>3, <2>1, TypeFacts
    <3> QED  BY <1>0, <3>1 DEF ListsOK
  <2>2. /\ clusters'[k].pools # <<>>
        /\ Len(clusters'[k].pools) = Len(deployment[k].pools)
        /\ Prefix(clusters'[k].pools, deployment[k].pools)
      BY <1>1, <1>2, <1>3 DEF ListsOK
  <2> QED  BY <2>1, <2>2
<1>6. Len(unowned') = 0 /\ k <= Len(deployment) /\ Len(deployment) \in Nat
    BY <1>0, <1>1, TypeFacts
<1>7. ASSUME Len(clusters') < Len(deployment)
      PROVE  /\ Current'.pools \in Seq(Pools) /\ Len(Current'.pools) \in Nat
             /\ Current'.pools = <<>> <=> Len(Current'.pools) = 0
  <2>1. k + 1 \in 1..Len(deployment) /\ Current' = deployment[k + 1]
      BY <1>0, <1>2, <1>3, <1>6, <1>7 DEF Current
  <2>2. deployment[k + 1].pools \in Seq(Pools)
      BY <2>1, DeploymentFacts DEF TypeOK
  <2> QED  BY <2>1, <2>2
<1>8. ListsOK'
  <2>1. Len(clusters') < Len(deployment') => Prefix(unowned', Current'.pools)
      BY <1>0, <1>6, <1>7 DEF Prefix
  <2> QED  BY <1>0, <1>3, <1>5, <1>6, <2>1 DEF ListsOK
<1>9. PhaseOK'
    BY <1>0, <1>2, <1>3, <1>6, <1>7 DEF PhaseOK
<1>10. TopologyOK'
    BY <1>0 DEF TopologyOK
<1>11. \A p : InLists(p)' <=> InLists(p)
  <2>1. \A p : InClusters(clusters', p) <=> InClusters(clusters, p) \/ InList(unowned, p)
    <3>1. \A i \in 1..k : i \in 1..Len(clusters) \/ i = k
        BY <1>2, TypeFacts
    <3>2. 1..Len(clusters') = 1..k /\ k \in 1..k /\ 1..Len(clusters) \subseteq 1..k
        BY <1>2, <1>3, TypeFacts
    <3>3. \A p : InList(clusters'[k].pools, p) <=> InList(unowned, p)
        BY <1>2, <1>3
    <3>4. \A i \in 1..Len(clusters) : \A p :
             InList(clusters'[i].pools, p) <=> InList(clusters[i].pools, p)
        BY <1>3
    <3> QED  BY <3>1, <3>2, <3>3, <3>4 DEF InClusters
  <2>2. \A p : ~InList(unowned', p)
      BY <1>6 DEF InList
  <2>3. \A p : InClusters(topology', p) <=> InClusters(topology, p)
      BY <1>0 DEF InClusters, InList
  <2> QED  BY <2>1, <2>2, <2>3 DEF InLists
<1>12. BeingOpened = {} /\ BeingOpened' = {}
    BY <1>0 DEF BeingOpened
<1>13. HeldOK'
    BY <1>0, <1>11, <1>12 DEF HeldOK, Held
<1>14. MetricsOK'
    BY <1>0, <1>11 DEF MetricsOK
<1> QED  BY <1>4, <1>8, <1>9, <1>10, <1>13, <1>14

\* The clusters pass from the caller to the topology.
LEMMA NewTopologyStep == ASSUME IInv, NewTopology PROVE IInv'
<1> USE DEF IInv, NewTopology, Forward, Opening, Phases
<1>1. /\ Len(clusters) = Len(deployment) /\ unowned = <<>> /\ Len(unowned) = 0
      /\ topology = <<>> /\ Len(clusters') = 0 /\ Len(topology) = 0
      /\ Len(deployment) \in Nat
    BY TypeFacts DEF PhaseOK, TopologyOK
<1>2. TypeOK'
    BY DEF TypeOK
<1>3. ListsOK'
  <2>1. Len(clusters') < Len(deployment) => Prefix(unowned', Current'.pools)
    <3>1. ASSUME Len(clusters') < Len(deployment)
          PROVE  Len(Current'.pools) \in Nat
        BY <1>1, <3>1, DeploymentFacts DEF Current, TypeOK
    <3> QED  BY <1>1, <3>1 DEF Prefix
  <2> QED  BY <1>1, <2>1 DEF ListsOK
<1>4. PhaseOK'
    BY <1>1 DEF PhaseOK
<1>5. TopologyOK'
    BY <1>1 DEF TopologyOK, ListsOK
<1>6. \A p : InLists(p)' <=> InLists(p)
    BY <1>1 DEF InLists, InClusters, InList
<1>7. BeingOpened = {} /\ BeingOpened' = {}
    BY DEF BeingOpened
<1>8. HeldOK'
    BY <1>6, <1>7 DEF HeldOK, Held
<1>9. MetricsOK'
    BY <1>6 DEF MetricsOK
<1> QED  BY <1>2, <1>3, <1>4, <1>5, <1>8, <1>9

\* A sequence without its last element.
LEMMA DropLast ==
    ASSUME NEW S, NEW s \in Seq(S), s # <<>>
    PROVE  /\ Len(s) \in Nat /\ Len(s) > 0
           /\ SubSeq(s, 1, Len(s) - 1) \in Seq(S)
           /\ Len(SubSeq(s, 1, Len(s) - 1)) = Len(s) - 1
           /\ \A m \in 1..(Len(s) - 1) : SubSeq(s, 1, Len(s) - 1)[m] = s[m]
<1>1. Len(s) \in Nat /\ Len(s) > 0
    OBVIOUS
<1>2. PICK n \in Nat : n = Len(s) - 1
    BY <1>1
<1>3. n \in Int /\ 1 \in Int /\ \A i \in 1..n : s[i] \in S
    BY <1>1, <1>2
<1>4. /\ SubSeq(s, 1, n) \in Seq(S)
      /\ Len(SubSeq(s, 1, n)) = IF 1 <= n THEN n - 1 + 1 ELSE 0
      /\ \A i \in 1..(n - 1 + 1) : SubSeq(s, 1, n)[i] = s[1 + i - 1]
    BY <1>3, SubSeqProperties
<1>5. Len(SubSeq(s, 1, n)) = n /\ \A i \in 1..n : SubSeq(s, 1, n)[i] = s[i]
    BY <1>2, <1>4
<1> QED  BY <1>1, <1>2, <1>4, <1>5

\* A sequence with another element at k.
LEMMA ReplaceFacts ==
    ASSUME NEW S, NEW s \in Seq(S), NEW k \in 1..Len(s), NEW e \in S
    PROVE  /\ [s EXCEPT ![k] = e] \in Seq(S)
           /\ Len([s EXCEPT ![k] = e]) = Len(s)
           /\ \A i \in 1..Len(s) : i # k => [s EXCEPT ![k] = e][i] = s[i]
           /\ [s EXCEPT ![k] = e][k] = e
    OBVIOUS

\* The last pool that belongs to no cluster is closed.
LEMMA UndoPoolsStep == ASSUME IInv, UndoPools PROVE IInv'
<1> USE DEF IInv, UndoPools, Forward, Opening, Phases
<1> DEFINE p == unowned[Len(unowned)]
<1>0. /\ pc = "undoPools" /\ pc' = pc /\ unowned # <<>>
      /\ UNCHANGED <<deployment, metrics, clusters, topology>>
      /\ \/ UnregisterMetrics(p) /\ UNCHANGED unowned
         \/ ClosePgx(p) /\ unowned' = SubSeq(unowned, 1, Len(unowned) - 1)
    OBVIOUS
<1>1. /\ Len(unowned) \in Nat /\ Len(unowned) > 0 /\ p \in Pools
      /\ Len(clusters) < Len(deployment) /\ topology = <<>> /\ Len(topology) = 0
    BY <1>0, TypeFacts DEF ListsOK, TopologyOK
<1> HIDE DEF p
<1>2. CASE UnregisterMetrics(p) /\ UNCHANGED unowned
  <2> USE <1>2 DEF UnregisterMetrics
  <2>1. /\ Pool' = Pool /\ Current' = Current
        /\ \A q : InLists(q)' = InLists(q)
      BY <1>0, Frame
  <2>2. TypeOK' /\ ListsOK' /\ PhaseOK' /\ TopologyOK'
      BY <1>0, <2>1 DEF TypeOK, ListsOK, Prefix, PhaseOK, TopologyOK
  <2>3. HeldOK'
      BY <1>0, <2>1 DEF HeldOK, Held, BeingOpened
  <2>4. MetricsOK'
      BY <1>0, <2>1 DEF MetricsOK
  <2> QED  BY <2>2, <2>3, <2>4
<1>3. CASE ClosePgx(p) /\ unowned' = SubSeq(unowned, 1, Len(unowned) - 1)
  <2> USE <1>3 DEF ClosePgx
  <2>1. /\ unowned' \in Seq(Pools) /\ Len(unowned') = Len(unowned) - 1
        /\ \A m \in 1..(Len(unowned) - 1) : unowned'[m] = unowned[m]
      BY <1>0, DropLast DEF TypeOK
  <2>2. Current' = Current /\ Current.pools \in Seq(Pools) /\ Len(Current.pools) \in Nat
      BY <1>0, <1>1, CurrentFacts DEF Current
  <2>3. TypeOK'
      BY <1>0, <2>1 DEF TypeOK
  <2>4. ListsOK'
    <3>1. Prefix(unowned', Current'.pools)
        BY <1>1, <2>1, <2>2 DEF ListsOK, Prefix
    <3> QED  BY <1>0, <1>1, <3>1 DEF ListsOK
  <2>5. PhaseOK' /\ TopologyOK'
      BY <1>0 DEF PhaseOK, TopologyOK
  <2>6. \A q : InList(unowned', q) <=> InList(unowned, q) /\ q # p
    <3>1. \A m \in 1..Len(unowned) : unowned[m] = p <=> m = Len(unowned)
        BY <1>1, OnePlace DEF p
    <3> QED  BY <1>1, <2>1, <3>1 DEF InList
  <2>7. ~InClusters(clusters, p) /\ ~InClusters(topology, p)
    <3>1. ~InClusters(clusters, p)
        BY <1>1, OnePlace DEF p, InClusters, InList
    <3> QED  BY <1>1, <3>1 DEF InClusters
  <2>8. \A q : InLists(q)' <=> InLists(q) /\ q # p
    <3>1. \A q : /\ InClusters(clusters', q) <=> InClusters(clusters, q)
                 /\ InClusters(topology', q) <=> InClusters(topology, q)
        BY <1>0 DEF InClusters, InList
    <3> QED  BY <2>6, <2>7, <3>1 DEF InLists
  <2>9. BeingOpened = {} /\ BeingOpened' = {}
      BY <1>0 DEF BeingOpened
  <2>10. HeldOK'
      BY <1>1, <2>8, <2>9 DEF HeldOK, Held, TypeOK
  <2>11. MetricsOK'
      BY <1>0, <1>1 DEF MetricsOK, TypeOK
  <2> QED  BY <2>3, <2>4, <2>5, <2>10, <2>11
<1> QED  BY <1>0, <1>2, <1>3

\* The last pool of the last cluster is closed.
LEMMA UndoClustersStep == ASSUME IInv, UndoClusters PROVE IInv'
<1> USE DEF IInv, UndoClusters, Forward, Opening, Phases
<1> DEFINE k == Len(clusters)
           ps == clusters[k].pools
           n == Len(ps)
           p == ps[n]
           dropped == SubSeq(ps, 1, n - 1)
<1>0. /\ pc = "undoClusters" /\ pc' = pc /\ clusters # <<>>
      /\ UNCHANGED <<deployment, metrics, unowned, topology>>
      /\ \/ UnregisterMetrics(p) /\ UNCHANGED clusters
         \/ /\ ClosePgx(p)
            /\ clusters' = IF n = 1 THEN SubSeq(clusters, 1, k - 1)
                           ELSE [clusters EXCEPT ![k].pools = dropped]
    OBVIOUS
<1>1. /\ k \in Nat /\ k > 0 /\ k \in 1..k /\ clusters[k] \in Cluster
      /\ ps \in Seq(Pools) /\ ps # <<>> /\ n \in Nat /\ n > 0 /\ n \in 1..n /\ p \in Pools
  <2>1. k \in Nat /\ k > 0 /\ k \in 1..k
      BY <1>0, TypeFacts
  <2>2. clusters[k] \in Cluster /\ ps \in Seq(Pools) /\ n \in Nat /\ ps # <<>> /\ n > 0
      BY <2>1, ClusterFacts DEF TypeOK, ListsOK
  <2>3. p \in Pools
      BY <2>1, <2>2, ClusterFacts DEF TypeOK
  <2> QED  BY <2>1, <2>2, <2>3
<1>2. /\ unowned = <<>> /\ Len(unowned) = 0 /\ topology = <<>> /\ Len(topology) = 0
      /\ k <= Len(deployment) /\ Len(deployment) \in Nat
    BY <1>0, TypeFacts DEF PhaseOK, TopologyOK, ListsOK
<1>3. CASE UnregisterMetrics(p) /\ UNCHANGED clusters
  <2> USE <1>3 DEF UnregisterMetrics
  <2>1. /\ Pool' = Pool /\ Current' = Current
        /\ \A q : InLists(q)' = InLists(q)
      BY <1>0, Frame
  <2>2. TypeOK' /\ ListsOK' /\ PhaseOK' /\ TopologyOK'
      BY <1>0, <2>1 DEF TypeOK, ListsOK, Prefix, PhaseOK, TopologyOK
  <2>3. HeldOK'
      BY <1>0, <2>1 DEF HeldOK, Held, BeingOpened
  <2>4. MetricsOK'
      BY <1>0, <2>1 DEF MetricsOK
  <2> QED  BY <2>2, <2>3, <2>4
<1>4. CASE /\ ClosePgx(p)
           /\ clusters' = IF n = 1 THEN SubSeq(clusters, 1, k - 1)
                          ELSE [clusters EXCEPT ![k].pools = dropped]
  <2>1. /\ dropped \in Seq(Pools) /\ Len(dropped) = n - 1
        /\ \A m \in 1..(n - 1) : dropped[m] = ps[m]
      BY <1>1, DropLast
  <2>2. \A i \in 1..k : \A m \in 1..Len(clusters[i].pools) :
           clusters[i].pools[m] = p <=> i = k /\ m = n
    <3>1. ASSUME NEW i \in 1..k, NEW m \in 1..Len(clusters[i].pools),
                 clusters[i].pools[m] = clusters[k].pools[n]
          PROVE  i = k /\ m = n
      <4>1. \A j, l \in 1..Len(clusters) :
               \A a \in 1..Len(clusters[j].pools), b \in 1..Len(clusters[l].pools) :
                  clusters[j].pools[a] = clusters[l].pools[b] => j = l /\ a = b
          BY OnePlace
      <4>2. i \in 1..Len(clusters) /\ k \in 1..Len(clusters)
          BY <1>1
      <4>3. n \in 1..Len(clusters[k].pools)
          BY <1>1
      <4> QED  BY <3>1, <4>1, <4>2, <4>3
    <3> QED  BY <3>1
  \* What is left of the clusters.
  <2>3. /\ clusters' \in Seq(Cluster) /\ Len(clusters') <= k /\ Len(clusters') \in Nat
        /\ \A i \in 1..Len(clusters') :
              /\ clusters'[i].pools # <<>>
              /\ Prefix(clusters'[i].pools, deployment[i].pools)
        /\ \A q : InClusters(clusters', q) <=> InClusters(clusters, q) /\ q # p
    <3>1. CASE n = 1
      <4>1. /\ clusters' \in Seq(Cluster) /\ Len(clusters') = k - 1
            /\ \A i \in 1..(k - 1) : clusters'[i] = clusters[i]
          BY <1>0, <1>4, <3>1, DropLast DEF TypeOK
      <4>2. \A i \in 1..(k - 1) :
               /\ clusters'[i].pools # <<>>
               /\ Prefix(clusters'[i].pools, deployment[i].pools)
          BY <1>0, <1>1, <4>1 DEF ListsOK
      <4>3. \A i \in 1..(k - 1) : \A q :
               InList(clusters'[i].pools, q) <=> InList(clusters[i].pools, q)
          BY <4>1
      <4>4. \A q : InList(clusters[k].pools, q) <=> q = p
          BY <1>1, <3>1 DEF InList
      <4>5. \A i \in 1..(k - 1) : ~InList(clusters[i].pools, p)
          BY <1>1, <2>2 DEF InList
      <4>6. \A q : InClusters(clusters', q) <=> InClusters(clusters, q) /\ q # p
        <5>1. \A i \in 1..k : i \in 1..(k - 1) \/ i = k
            BY <1>1
        <5>2. 1..(k - 1) \subseteq 1..k
            BY <1>1
        <5> QED  BY <1>1, <4>1, <4>3, <4>4, <4>5, <5>1, <5>2 DEF InClusters
      <4> QED  BY <1>1, <4>1, <4>2, <4>6
    <3>2. CASE n # 1
      <4>1. clusters' = [clusters EXCEPT ![k] = [clusters[k] EXCEPT !.pools = dropped]]
          BY <1>4, <3>2
      <4>2. [clusters[k] EXCEPT !.pools = dropped] \in Cluster
          BY <1>1, <2>1 DEF Cluster
      <4>3. /\ clusters' \in Seq(Cluster) /\ Len(clusters') = k
            /\ \A i \in 1..k : i # k => clusters'[i] = clusters[i]
            /\ clusters'[k] = [clusters[k] EXCEPT !.pools = dropped]
        <5>1. ASSUME NEW e \in Cluster, clusters' = [clusters EXCEPT ![k] = e]
              PROVE  /\ clusters' \in Seq(Cluster) /\ Len(clusters') = k
                     /\ \A i \in 1..k : i # k => clusters'[i] = clusters[i]
                     /\ clusters'[k] = e
            BY <1>1, <5>1, ReplaceFacts DEF TypeOK
        <5> QED  BY <4>1, <4>2, <5>1
      <4>4. clusters'[k].pools = dropped /\ dropped # <<>>
        <5>1. [clusters[k] EXCEPT !.pools = dropped].pools = dropped
            BY <1>1 DEF Cluster
        <5>2. Len(dropped) > 0
          <6>1. n \in Nat /\ n > 0 /\ n # 1 /\ Len(dropped) = n - 1
              BY <1>1, <2>1, <3>2
          <6> HIDE DEF n, dropped
          <6> QED  BY <6>1
        <5> QED  BY <4>3, <5>1, <5>2
      <4>5. Prefix(dropped, deployment[k].pools)
        <5>1. Prefix(ps, deployment[k].pools) /\ Len(deployment[k].pools) \in Nat
            BY <1>1, <1>2, DeploymentFacts DEF ListsOK, TypeOK
        <5> QED  BY <1>1, <2>1, <5>1 DEF Prefix
      <4>6. \A i \in 1..k :
               /\ clusters'[i].pools # <<>>
               /\ Prefix(clusters'[i].pools, deployment[i].pools)
        <5>1. ASSUME NEW i \in 1..k, i # k
              PROVE  /\ clusters'[i].pools # <<>>
                     /\ Prefix(clusters'[i].pools, deployment[i].pools)
            BY <4>3, <5>1 DEF ListsOK
        <5> QED  BY <4>4, <4>5, <5>1
      <4>7. \A q : InList(dropped, q) <=> InList(ps, q) /\ q # p
        <5>1. \A m \in 1..n : ps[m] = p <=> m = n
            BY <1>1, <2>2
        <5>2. \A m \in 1..n : m \in 1..(n - 1) \/ m = n
            BY <1>1
        <5>3. 1..(n - 1) \subseteq 1..n /\ n \notin 1..(n - 1)
            BY <1>1
        <5> QED  BY <1>1, <2>1, <5>1, <5>2, <5>3 DEF InList
      <4>8. \A i \in 1..k : i # k => ~InList(clusters[i].pools, p)
          BY <2>2 DEF InList
      <4>9. \A i \in 1..k : \A q :
               InList(clusters'[i].pools, q) <=> InList(clusters[i].pools, q) /\ q # p
          BY <4>3, <4>4, <4>7, <4>8
      <4>10. \A q : InClusters(clusters', q) <=> InClusters(clusters, q) /\ q # p
          BY <4>3, <4>9 DEF InClusters
      <4> QED  BY <1>1, <4>3, <4>6, <4>10
    <3> QED  BY <3>1, <3>2
  <2>4. TypeOK'
      BY <1>0, <1>4, <2>3 DEF TypeOK, ClosePgx
  <2>5. Len(clusters') < Len(deployment) => Len(Current'.pools) \in Nat
    <3>1. ASSUME Len(clusters') < Len(deployment)
          PROVE  Len(Current'.pools) \in Nat
      <4>1. Len(clusters') + 1 \in 1..Len(deployment)
            /\ Current' = deployment[Len(clusters') + 1]
          BY <1>0, <1>2, <2>3, <3>1 DEF Current
      <4> QED  BY <4>1, DeploymentFacts DEF TypeOK
    <3> QED  BY <3>1
  <2>6. ListsOK'
      BY <1>0, <1>1, <1>2, <2>3, <2>5 DEF ListsOK, Prefix
  <2>7. PhaseOK' /\ TopologyOK'
      BY <1>0, <1>2 DEF PhaseOK, TopologyOK
  <2>8. \A q : InLists(q)' <=> InLists(q) /\ q # p
    <3>1. \A q : ~InList(unowned, q) /\ ~InClusters(topology, q)
        BY <1>2 DEF InList, InClusters
    <3>2. \A q : ~InList(unowned', q) /\ ~InClusters(topology', q)
        BY <1>0, <1>2 DEF InList, InClusters
    <3> QED  BY <2>3, <3>1, <3>2 DEF InLists
  <2>9. BeingOpened = {} /\ BeingOpened' = {}
      BY <1>0 DEF BeingOpened
  <2> HIDE DEF p, ps, n, k, dropped
  <2>10. HeldOK'
    <3>1. \A q \in Pools : pgx'[q] = "open" <=> pgx[q] = "open" /\ q # p
        BY <1>1, <1>4 DEF TypeOK, ClosePgx
    <3>2. \A q \in Pools : Held(q)' <=> Held(q) /\ q # p
        BY <2>8, <2>9 DEF Held
    <3> QED  BY <3>1, <3>2 DEF HeldOK
  <2>11. MetricsOK'
      BY <1>0, <1>1, <1>4 DEF MetricsOK, TypeOK, ClosePgx
  <2> QED  BY <2>4, <2>6, <2>7, <2>10, <2>11
<1> QED  BY <1>0, <1>3, <1>4

\* Every step keeps the invariant.
LEMMA NextIInv == IInv /\ [Next]_vars => IInv'
<1> SUFFICES ASSUME IInv, [Next]_vars PROVE IInv'
    OBVIOUS
<1>1. CASE UNCHANGED vars
  <2>1. /\ Pool' = Pool /\ Current' = Current
        /\ \A p : InLists(p)' = InLists(p)
      BY <1>1, Frame DEF vars
  <2> QED  BY <1>1, <2>1 DEF vars, IInv, TypeOK, ListsOK, Prefix, PhaseOK, TopologyOK,
                             HeldOK, Held, BeingOpened, MetricsOK
<1>2. CASE Next
    BY <1>1, <1>2, PhaseSteps, CreateStep, RegisterStep, AssignMetricsStep,
       RegisterFailsStep, PingOKStep, ClosePingedStep, NewClusterStep, NewTopologyStep,
       UndoPoolsStep, UndoClustersStep DEF Next, Ended
<1> QED  BY <1>1, <1>2

\* The pools that are open are those in the lists and in the hands of New, at every step
\* of New, cluster.New, NewTopology and of the caller's clean-up.
THEOREM InductiveInvariant == Spec => []IInv
    BY InitIInv, NextIInv, PTL DEF Spec

-----------------------------------------------------------------------------
(* What follows. *)

\* That place is what Places finds.
LEMMA PlacesFacts ==
    ASSUME NEW cs \in Seq(Cluster), Distinct(cs), NEW p
    PROVE  /\ \A i \in 1..Len(cs) : \A m \in 1..Len(cs[i].pools) :
                 cs[i].pools[m] = p => Places(cs, p) = {<<i, m>>}
           /\ ~InClusters(cs, p) => Places(cs, p) = {}
<1>1. /\ DOMAIN cs = 1..Len(cs)
      /\ \A i \in 1..Len(cs) : DOMAIN cs[i].pools = 1..Len(cs[i].pools)
    BY ClusterFacts
<1>2. \A x : x \in Places(cs, p) <=>
         \E i \in 1..Len(cs) : \E m \in 1..Len(cs[i].pools) :
            x = <<i, m>> /\ cs[i].pools[m] = p
    BY <1>1 DEF Places
<1>3. ASSUME NEW i \in 1..Len(cs), NEW m \in 1..Len(cs[i].pools), cs[i].pools[m] = p
      PROVE  Places(cs, p) = {<<i, m>>}
  <2>1. \A j \in 1..Len(cs) : \A n \in 1..Len(cs[j].pools) :
           cs[j].pools[n] = p => j = i /\ n = m
      BY <1>3, SamePlace
  <2>2. \A x : x \in Places(cs, p) <=> x = <<i, m>>
      BY <1>2, <1>3, <2>1
  <2> QED  BY <2>2
<1>4. ~InClusters(cs, p) => Places(cs, p) = {}
    BY <1>2 DEF InClusters, InList
<1> QED  BY <1>3, <1>4

\* The topology is the deployment.
LEMMA TopologyDistinct ==
    ASSUME TypeOK, TopologyOK
    PROVE  Distinct(topology)
<1>1. CASE pc # "done"
  <2>1. Len(topology) = 0
      BY <1>1, TypeFacts DEF TopologyOK
  <2> QED  BY <2>1 DEF Distinct
<1>2. CASE pc = "done"
  <2>1. ASSUME NEW i \in 1..Len(topology), NEW m \in 1..Len(topology[i].pools)
        PROVE  /\ i \in 1..Len(deployment) /\ m \in 1..Len(deployment[i].pools)
               /\ topology[i].pools[m] = deployment[i].pools[m]
      BY <1>2 DEF TopologyOK, Prefix
  <2>2. Distinct(deployment)
      BY DeploymentFacts DEF TypeOK, Distinct
  <2>3. ASSUME NEW i \in 1..Len(topology), NEW j \in 1..Len(topology),
               NEW m \in 1..Len(topology[i].pools), NEW n \in 1..Len(topology[j].pools),
               topology[i].pools[m] = topology[j].pools[n]
        PROVE  i = j /\ m = n
    <3>1. /\ i \in 1..Len(deployment) /\ m \in 1..Len(deployment[i].pools)
          /\ topology[i].pools[m] = deployment[i].pools[m]
        BY <2>1
    <3>2. /\ j \in 1..Len(deployment) /\ n \in 1..Len(deployment[j].pools)
          /\ topology[j].pools[n] = deployment[j].pools[n]
        BY <2>1
    <3>3. deployment[i].pools[m] = deployment[j].pools[n]
        BY <2>3, <3>1, <3>2
    <3> QED  BY <2>2, <3>1, <3>2, <3>3, SamePlace
  <2> QED  BY <2>3 DEF Distinct
<1> QED  BY <1>1, <1>2

\* The four kinds of owners, counted.
LEMMA OneOwnerFollows ==
    ASSUME IInv, NEW p \in Pools
    PROVE  Owners(p) = IF pgx[p] = "open" THEN 1 ELSE 0
<1> USE DEF IInv
<1> DEFINE B == {p} \cap BeingOpened
           U == {i \in DOMAIN unowned : unowned[i] = p}
           C == Places(clusters, p)
           T == Places(topology, p)
<1>1. \A x : Cardinality({x}) = 1
    BY FS_Singleton
<1>2. Cardinality({}) = 0
    BY FS_EmptySet
<1>3. Distinct(clusters) /\ Distinct(topology)
    BY OnePlace, TopologyDistinct DEF Distinct
<1>4. Cardinality(B) = IF p \in BeingOpened THEN 1 ELSE 0
  <2>1. CASE p \in BeingOpened
    <3>1. B = {p}  BY <2>1
    <3> QED  BY <1>1, <2>1, <3>1
  <2>2. CASE p \notin BeingOpened
    <3>1. B = {}  BY <2>2
    <3> QED  BY <1>2, <2>2, <3>1
  <2> QED  BY <2>1, <2>2
<1>5. Cardinality(U) = IF InList(unowned, p) THEN 1 ELSE 0
  <2>1. CASE InList(unowned, p)
    <3>1. PICK m \in 1..Len(unowned) : unowned[m] = p
        BY <2>1 DEF InList
    <3>2. U = {m}
        BY <3>1, OnePlace, TypeFacts
    <3> QED  BY <1>1, <2>1, <3>2
  <2>2. CASE ~InList(unowned, p)
    <3>1. U = {}
        BY <2>2, TypeFacts DEF InList
    <3> QED  BY <1>2, <2>2, <3>1
  <2> QED  BY <2>1, <2>2
<1>6. ASSUME NEW cs \in Seq(Cluster), Distinct(cs)
      PROVE  Cardinality(Places(cs, p)) = IF InClusters(cs, p) THEN 1 ELSE 0
  <2>1. CASE InClusters(cs, p)
    <3>1. PICK i \in 1..Len(cs) : \E m \in 1..Len(cs[i].pools) : cs[i].pools[m] = p
        BY <2>1 DEF InClusters, InList
    <3>2. PICK m \in 1..Len(cs[i].pools) : cs[i].pools[m] = p
        BY <3>1
    <3>3. Places(cs, p) = {<<i, m>>}
        BY <1>6, <3>2, PlacesFacts
    <3> QED  BY <1>1, <2>1, <3>3
  <2>2. CASE ~InClusters(cs, p)
    <3>1. Places(cs, p) = {}
        BY <1>6, <2>2, PlacesFacts
    <3> QED  BY <1>2, <2>2, <3>1
  <2> QED  BY <2>1, <2>2
<1>7. /\ Cardinality(C) = IF InClusters(clusters, p) THEN 1 ELSE 0
      /\ Cardinality(T) = IF InClusters(topology, p) THEN 1 ELSE 0
    BY <1>3, <1>6 DEF TypeOK
\* The four kinds of owners exclude each other.
<1>8. ~(InList(unowned, p) /\ InClusters(clusters, p))
    BY OnePlace DEF InList, InClusters
<1>9. InClusters(topology, p) =>
         ~InList(unowned, p) /\ ~InClusters(clusters, p) /\ p \notin BeingOpened
  <2>1. ASSUME InClusters(topology, p)
        PROVE  pc = "done" /\ Len(unowned) = 0 /\ Len(clusters) = 0
    <3>1. Len(topology) # 0
        BY <2>1, TypeFacts DEF InClusters
    <3> QED  BY <3>1, TypeFacts DEF TopologyOK, PhaseOK
  <2> QED  BY <2>1 DEF InList, InClusters, BeingOpened
<1>10. p \in BeingOpened => ~InList(unowned, p) /\ ~InClusters(clusters, p)
  <2>1. ASSUME p \in BeingOpened
        PROVE  pc \in Opening /\ p = Pool
      BY <2>1 DEF BeingOpened, Opening
  <2>2. ASSUME p \in BeingOpened
        PROVE  Len(clusters) < Len(deployment) /\ Len(unowned) < Len(Current.pools)
      BY <2>1, <2>2 DEF PhaseOK
  <2> QED  BY <2>1, <2>2, CurrentFacts
<1>11. pgx[p] = "open" <=>
          \/ p \in BeingOpened \/ InList(unowned, p)
          \/ InClusters(clusters, p) \/ InClusters(topology, p)
    BY DEF HeldOK, Held, InLists
<1>12. Owners(p) = Cardinality(B) + Cardinality(U) + Cardinality(C) + Cardinality(T)
    BY DEF Owners
<1> HIDE DEF B, U, C, T
<1> QED  BY <1>4, <1>5, <1>7, <1>8, <1>9, <1>10, <1>11, <1>12

\* At every step exactly one party would close an open pool, and nobody one that is not:
\* the ownership rules of cluster.New and NewTopology leak and share nothing.
THEOREM SingleOwner == Spec => []OneOwner
<1>1. IInv => OneOwner
    BY OneOwnerFollows DEF OneOwner
<1> QED  BY <1>1, InductiveInvariant, PTL

\* A deployment is opened as a whole or not at all, wherever an error occurred.
THEOREM AllOpenOrNone == Spec => []AllOrNothing
<1>1. ASSUME IInv, pc = "failed"
      PROVE  registered = {} /\ \A p \in Pools : pgx[p] # "open"
  <2> USE <1>1 DEF IInv
  <2>1. Len(unowned) = 0 /\ Len(clusters) = 0 /\ Len(topology) = 0 /\ BeingOpened = {}
      BY TypeFacts DEF PhaseOK, TopologyOK, BeingOpened
  <2>2. \A p \in Pools : pgx[p] # "open"
      BY <2>1 DEF HeldOK, Held, InLists, InList, InClusters
  <2>3. registered = {}
      BY <2>2 DEF MetricsOK, TypeOK
  <2> QED  BY <2>2, <2>3
<1>2. ASSUME IInv, pc = "done", NEW i \in DOMAIN deployment,
             NEW m \in DOMAIN deployment[i].pools, NEW p, p = deployment[i].pools[m]
      PROVE  /\ pgx[p] = "open"
             /\ Places(topology, p) = {<<i, m>>}
             /\ p \in WithMetrics => p \in registered
  <2> USE <1>2 DEF IInv
  <2>1. /\ i \in 1..Len(topology) /\ m \in 1..Len(topology[i].pools)
        /\ topology[i].pools[m] = p /\ p \in Pools
    <3>1. i \in 1..Len(deployment) /\ m \in 1..Len(deployment[i].pools) /\ p \in Pools
      <4>1. deployment \in Deployments
          BY DEF TypeOK
      <4> HIDE DEF IInv
      <4>2. i \in 1..Len(deployment)
          BY <1>2, <4>1, DeploymentFacts
      <4> QED  BY <1>2, <4>1, <4>2, DeploymentFacts
    <3>2. /\ Len(topology) = Len(deployment)
          /\ Len(topology[i].pools) = Len(deployment[i].pools)
          /\ Prefix(topology[i].pools, deployment[i].pools)
        BY <3>1 DEF TopologyOK
    <3> QED  BY <3>1, <3>2 DEF Prefix
  <2>2. InLists(p)
      BY <2>1 DEF InLists, InClusters, InList
  <2>3. pgx[p] = "open"
      BY <2>1, <2>2 DEF HeldOK, Held
  <2>4. Places(topology, p) = {<<i, m>>}
      BY <2>1, PlacesFacts, TopologyDistinct DEF TypeOK
  <2>5. p \in WithMetrics => p \in registered
      BY <2>2 DEF MetricsOK
  <2> QED  BY <2>3, <2>4, <2>5
<1>3. IInv => AllOrNothing
    BY <1>1, <1>2 DEF AllOrNothing
<1> QED  BY <1>3, InductiveInvariant, PTL

\* A metrics collection, whenever it happens, reads the statistics of open pools only.
THEOREM CollectionsReadOpenPools == Spec => []RegisteredIsOpen
<1>1. IInv => RegisteredIsOpen
    BY DEF IInv, MetricsOK, RegisteredIsOpen
<1> QED  BY <1>1, InductiveInvariant, PTL
================================================================================
