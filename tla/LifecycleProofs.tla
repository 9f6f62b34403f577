--------------------------- MODULE LifecycleProofs ---------------------------
(***************************************************************************)
(* Proofs about what becomes of pools, clusters and the topology from New  *)
(* to Close.                                                               *)
(*                                                                         *)
(* Lifecycle, for every topology, every sharing of pools between clusters  *)
(* and any number of closers and clients: every part is closed before the  *)
(* whole is, and no part of it is used after that.                         *)
(*                                                                         *)
(* Metadata and Telemetry, for any number of pools, every list of options  *)
(* and every content of the caller's maps and slices.  ExportInv says that *)
(* what the metrics reader has is a snapshot of levels that were true at   *)
(* one moment, and what is known of a callback that outlives its pool.     *)
(* MetadataInv says that pools and clusters refer only to maps and slices  *)
(* that the caller has no reference to, and that those hold what was asked *)
(* for; that it is so when New returns is shown by following applyOptions, *)
(* option after option.                                                    *)
(***************************************************************************)
EXTENDS Lifecycle, Telemetry, FiniteSetTheorems, SequenceTheorems, WellFoundedInduction,
        TLAPS


-----------------------------------------------------------------------------
(* The order in which the parts are closed. *)

\* slices.Backward yields the same elements, last first.
LEMMA BackwardFacts ==
    ASSUME NEW S, NEW s \in Seq(S)
    PROVE  /\ Backward(s) \in Seq(S)
           /\ Len(Backward(s)) = Len(s)
           /\ \A i \in 1..Len(s) : Backward(s)[i] = s[Len(s) + 1 - i]
  BY DEF Backward

\* What Topology.Close goes through.
LEMMA TopologyOrder ==
    /\ CloseOrder(topology) \in Seq(Clusters)
    /\ Len(CloseOrder(topology)) = Len(Shards)
    /\ \A i \in 1..Len(Shards) : CloseOrder(topology)[i] = Shards[Len(Shards) + 1 - i]
  BY StructureAssumption, BackwardFacts DEF CloseOrder

\* What Cluster.Close goes through: the replicas backward, then the primary.
LEMMA ClusterOrder ==
    ASSUME NEW c \in Clusters
    PROVE  LET n == Len(Replicas[c]) IN
           /\ n \in Nat
           /\ CloseOrder(c) \in Seq(Pools)
           /\ Primary[c] = None => Len(CloseOrder(c)) = n
           /\ Primary[c] # None => /\ Len(CloseOrder(c)) = n + 1
                                   /\ CloseOrder(c)[n + 1] = Primary[c]
           /\ \A i \in 1..n : CloseOrder(c)[i] = Replicas[c][n + 1 - i]
<1> DEFINE b == Backward(Replicas[c])
           n == Len(Replicas[c])
<1>1. c # topology /\ None \notin Pools
  BY ObjectsAssumption DEF Objects
<1>2. Replicas[c] \in Seq(Pools) /\ Primary[c] \in Pools \cup {None} /\ n \in Nat
  BY StructureAssumption
<1>3. b \in Seq(Pools) /\ Len(b) = n /\ \A i \in 1..n : b[i] = Replicas[c][n + 1 - i]
  BY <1>2, BackwardFacts
<1> HIDE DEF b
<1>4. CASE Primary[c] = None
  <2>1. CloseOrder(c) = b \o <<>>
    BY <1>1, <1>4 DEF CloseOrder, b
  <2>2. QED
    BY <1>2, <1>3, <1>4, <2>1
<1>5. CASE Primary[c] # None
  <2>1. CloseOrder(c) = b \o <<Primary[c]>>
    BY <1>1, <1>5 DEF CloseOrder, b
  <2>2. <<Primary[c]>> \in Seq(Pools) /\ Len(<<Primary[c]>>) = 1
    BY <1>2, <1>5
  <2>3. CloseOrder(c) \in Seq(Pools) /\ Len(CloseOrder(c)) = n + 1
    BY <1>3, <2>1, <2>2, ConcatProperties
  <2>4. \A i \in 1..(n + 1) :
           CloseOrder(c)[i] = IF i <= n THEN b[i] ELSE <<Primary[c]>>[i - n]
    BY <1>3, <2>1, <2>2, ConcatProperties
  <2>5. CloseOrder(c)[n + 1] = Primary[c]
    <3>1. n + 1 \in 1..(n + 1) /\ ~(n + 1 <= n) /\ (n + 1) - n = 1
      BY <1>2
    <3>2. QED
      BY <2>4, <3>1
  <2>6. \A i \in 1..n : CloseOrder(c)[i] = Replicas[c][n + 1 - i]
    BY <1>2, <1>3, <2>4
  <2>7. QED
    BY <1>2, <1>5, <2>3, <2>5, <2>6
<1>6. QED
  BY <1>4, <1>5

\* The parts of a body are objects.
LEMMA OrderType ==
    ASSUME NEW o \in Containers
    PROVE  /\ CloseOrder(o) \in Seq(Objects)
           /\ Len(CloseOrder(o)) \in Nat
           /\ \A i \in 1..Len(CloseOrder(o)) : CloseOrder(o)[i] \in Objects
<1>1. CASE o = topology
  BY <1>1, TopologyOrder DEF Objects
<1>2. CASE o \in Clusters
  BY <1>2, ClusterOrder DEF Objects
<1>3. QED
  BY <1>1, <1>2 DEF Containers

-----------------------------------------------------------------------------
(* The inductive invariant. *)

\* A body has closed its first pos parts, and is in the Close of the next one
\* when it is in any; a Once is done when the body has closed them all.
BodiesInv ==
    \A o \in Containers :
        /\ \A i \in 1..pos[o] : once[CloseOrder(o)[i]] = "done"
        /\ calling[o] # None => /\ pos[o] < Len(CloseOrder(o))
                                /\ calling[o] = CloseOrder(o)[pos[o] + 1]
        /\ once[o] = "done" => pos[o] = Len(CloseOrder(o))

\* A pool is unregistered before it is closed, and closed before its Once is
\* done.
PoolsInv ==
    \A p \in Pools :
        /\ once[p] = "done" => pgx[p] = "closed"
        /\ pgx[p] # "open" => ~registered[p]
        /\ pgx[p] = "closed" => \A c \in Clients : holding[c] # p

\* The callbacks a collection has still to invoke stay registered until its end.
CollectInv == \A p \in pending : registered[p] /\ collecting

ReturnedInv == \A o \in returned : once[o] = "done"

IInv == TypeOK /\ BodiesInv /\ PoolsInv /\ CollectInv /\ ReturnedInv

\* The initial state, before any Close, satisfies IInv.
LEMMA InitIInv == Init => IInv
<1> SUFFICES ASSUME Init PROVE IInv
  OBVIOUS
<1>1. TypeOK
  <2>1. \A o \in Containers : pos[o] <= Len(CloseOrder(o))
    BY OrderType DEF Init
  <2>2. registered \in [Pools -> BOOLEAN]
    <3>1. \A p \in Pools : (p \in WithMetrics) \in BOOLEAN
      OBVIOUS
    <3>2. QED
      BY <3>1 DEF Init
  <2>3. collecting \in BOOLEAN /\ pending \in SUBSET Pools /\ returned \in SUBSET Objects
    BY Zenon DEF Init
  <2>4. QED
    BY <2>1, <2>2, <2>3 DEF Init, TypeOK
<1>2. BodiesInv
  BY ObjectsAssumption DEF Init, BodiesInv, Containers, Callers, Objects
<1>3. PoolsInv
  BY DEF Init, PoolsInv, Objects
<1>4. CollectInv /\ ReturnedInv
  BY DEF Init, CollectInv, ReturnedInv
<1>5. QED
  BY <1>1, <1>2, <1>3, <1>4 DEF IInv

\* Every step keeps the invariant.
LEMMA NextIInv == IInv /\ [Next]_vars => IInv'
<1> SUFFICES ASSUME IInv, [Next]_vars PROVE IInv'
  OBVIOUS
<1> USE DEF IInv
<1>o. \A o \in Containers : o \in Objects /\ o \in Callers /\ o \notin Pools
  BY ObjectsAssumption DEF Objects, Containers, Callers
<1>p. \A p \in Pools : p \in Objects /\ p \notin Containers
  BY ObjectsAssumption DEF Objects, Containers
<1>g. \A g \in Closers : g \in Callers /\ g \notin Containers
  BY ObjectsAssumption DEF Objects, Containers, Callers
<1>1. ASSUME NEW g \in Closers, NEW o \in Objects, CallClose(g, o) PROVE IInv'
  <2> USE <1>1 DEF CallClose, envVars
  <2>1. TypeOK'
    BY <1>g DEF TypeOK
  <2>2. BodiesInv'
    BY <1>g, <1>o DEF TypeOK, BodiesInv
  <2>3. PoolsInv' /\ CollectInv' /\ ReturnedInv'
    BY DEF PoolsInv, CollectInv, ReturnedInv
  <2>4. QED
    BY <2>1, <2>2, <2>3
<1>2. ASSUME NEW k \in Callers, Enter(k) PROVE IInv'
  <2> USE <1>2 DEF Enter, envVars
  <2>0. /\ calling[k] \in Objects
        /\ \A o \in Objects : once'[o] = "done" <=> once[o] = "done"
    BY DEF TypeOK
  <2>1. TypeOK'
    BY DEF TypeOK
  <2>2. BodiesInv'
    BY <2>0, <1>o, OrderType DEF TypeOK, BodiesInv
  <2>3. PoolsInv'
    BY <2>0, <1>p DEF PoolsInv
  <2>4. CollectInv' /\ ReturnedInv'
    BY <2>0 DEF TypeOK, CollectInv, ReturnedInv
  <2>5. QED
    BY <2>1, <2>2, <2>3, <2>4
<1>3. ASSUME NEW k \in Callers, ReturnClose(k) PROVE IInv'
  <2> USE <1>3 DEF ReturnClose, envVars
  <2>0. \A o \in Containers :
           /\ pos'[o] = IF o = k THEN pos[o] + 1 ELSE pos[o]
           /\ calling'[o] = IF o = k THEN None ELSE calling[o]
    BY <1>o DEF TypeOK
  <2>1. TypeOK'
    <3>1. k \in Containers => pos[k] < Len(CloseOrder(k))
      BY DEF BodiesInv
    <3>2. \A o \in Containers : pos'[o] \in Nat /\ pos'[o] <= Len(CloseOrder(o))
      BY <2>0, <3>1, OrderType DEF TypeOK
    <3>3. pos' \in [Containers -> Nat]
      BY <3>2 DEF TypeOK
    <3>4. QED
      BY <3>2, <3>3 DEF TypeOK
  <2>2. BodiesInv'
    <3> SUFFICES ASSUME NEW o \in Containers
                 PROVE  /\ \A i \in 1..pos'[o] : once[CloseOrder(o)[i]] = "done"
                        /\ calling'[o] # None => /\ pos'[o] < Len(CloseOrder(o))
                                                 /\ calling'[o] = CloseOrder(o)[pos'[o] + 1]
                        /\ once[o] = "done" => pos'[o] = Len(CloseOrder(o))
      BY DEF BodiesInv
    <3>1. CASE o = k
      BY <2>0, <3>1, OrderType DEF TypeOK, BodiesInv
    <3>2. CASE o # k
      BY <2>0, <3>2 DEF BodiesInv
    <3>3. QED
      BY <3>1, <3>2
  <2>3. PoolsInv' /\ CollectInv' /\ ReturnedInv'
    BY DEF PoolsInv, CollectInv, ReturnedInv
  <2>4. QED
    BY <2>1, <2>2, <2>3
<1>4. ASSUME NEW o \in Containers, CloseNext(o) PROVE IInv'
  <2> USE <1>4 DEF CloseNext, envVars
  <2>0. CloseOrder(o)[pos[o] + 1] \in Objects /\ o \in Callers
    BY <1>o, OrderType DEF TypeOK
  <2>1. TypeOK'
    BY <2>0 DEF TypeOK
  <2>2. BodiesInv'
    BY <2>0, <1>o DEF TypeOK, BodiesInv
  <2>3. PoolsInv' /\ CollectInv' /\ ReturnedInv'
    BY DEF PoolsInv, CollectInv, ReturnedInv
  <2>4. QED
    BY <2>1, <2>2, <2>3
<1>5. ASSUME NEW o \in Containers, Finish(o) PROVE IInv'
  <2> USE <1>5 DEF Finish, envVars
  <2>0. \A x \in Objects : /\ once[x] = "done" => once'[x] = "done"
                           /\ x # o => once'[x] = once[x]
    BY <1>o DEF TypeOK
  <2>1. TypeOK'
    BY <1>o DEF TypeOK
  <2>2. BodiesInv'
    BY <2>0, <1>o, OrderType DEF TypeOK, BodiesInv
  <2>3. PoolsInv'
    BY <2>0, <1>p DEF PoolsInv
  <2>4. CollectInv' /\ ReturnedInv'
    BY <2>0 DEF TypeOK, CollectInv, ReturnedInv
  <2>5. QED
    BY <2>1, <2>2, <2>3, <2>4
<1>6. ASSUME NEW p \in Pools, UnregisterMetrics(p) PROVE IInv'
  <2> USE <1>6 DEF UnregisterMetrics, onceVars
  <2>1. TypeOK'
    BY DEF TypeOK
  <2>2. BodiesInv'
    BY DEF BodiesInv
  <2>3. PoolsInv'
    BY DEF TypeOK, PoolsInv
  <2>4. CollectInv' /\ ReturnedInv'
    BY DEF TypeOK, CollectInv, ReturnedInv
  <2>5. QED
    BY <2>1, <2>2, <2>3, <2>4
<1>7. ASSUME NEW p \in Pools, ClosePgx(p) PROVE IInv'
  <2> USE <1>7 DEF ClosePgx, onceVars
  <2>1. TypeOK'
    BY DEF TypeOK
  <2>2. BodiesInv'
    BY DEF BodiesInv
  <2>3. PoolsInv'
    BY <1>p DEF TypeOK, PoolsInv
  <2>4. CollectInv' /\ ReturnedInv'
    BY DEF CollectInv, ReturnedInv
  <2>5. QED
    BY <2>1, <2>2, <2>3, <2>4
<1>8. ASSUME NEW p \in Pools, FinishPool(p) PROVE IInv'
  <2> USE <1>8 DEF FinishPool, onceVars
  <2>0. \A x \in Objects : /\ once[x] = "done" => once'[x] = "done"
                           /\ x # p => once'[x] = once[x]
    BY <1>p DEF TypeOK
  <2>1. TypeOK'
    BY <1>p DEF TypeOK
  <2>2. BodiesInv'
    BY <2>0, <1>o, OrderType DEF TypeOK, BodiesInv
  <2>3. PoolsInv'
    BY <2>0, <1>p DEF TypeOK, PoolsInv
  <2>4. CollectInv' /\ ReturnedInv'
    BY <2>0 DEF TypeOK, CollectInv, ReturnedInv
  <2>5. QED
    BY <2>1, <2>2, <2>3, <2>4
<1>9. ASSUME NEW c \in Clients, NEW p \in Pools, Acquire(c, p) PROVE IInv'
  <2> USE <1>9 DEF Acquire, onceVars
  <2>1. TypeOK'
    BY DEF TypeOK
  <2>2. PoolsInv'
    BY DEF TypeOK, PoolsInv
  <2>3. BodiesInv' /\ CollectInv' /\ ReturnedInv'
    BY DEF BodiesInv, CollectInv, ReturnedInv
  <2>4. QED
    BY <2>1, <2>2, <2>3
<1>10. ASSUME NEW c \in Clients, Release(c) PROVE IInv'
  <2> USE <1>10 DEF Release, onceVars
  <2>1. TypeOK'
    BY DEF TypeOK
  <2>2. PoolsInv'
    BY <1>p, ObjectsAssumption DEF TypeOK, PoolsInv
  <2>3. BodiesInv' /\ CollectInv' /\ ReturnedInv'
    BY DEF BodiesInv, CollectInv, ReturnedInv
  <2>4. QED
    BY <2>1, <2>2, <2>3
<1>11. CASE BeginCollect
  <2> USE <1>11 DEF BeginCollect, onceVars
  <2>1. TypeOK'
    BY DEF TypeOK
  <2>2. BodiesInv' /\ PoolsInv' /\ CollectInv' /\ ReturnedInv'
    BY DEF BodiesInv, PoolsInv, CollectInv, ReturnedInv
  <2>3. QED
    BY <2>1, <2>2
<1>12. ASSUME NEW p \in Pools, Observe(p) PROVE IInv'
  <2> USE <1>12 DEF Observe, onceVars
  <2>1. TypeOK'
    BY DEF TypeOK
  <2>2. BodiesInv' /\ PoolsInv' /\ CollectInv' /\ ReturnedInv'
    BY DEF BodiesInv, PoolsInv, CollectInv, ReturnedInv
  <2>3. QED
    BY <2>1, <2>2
<1>13. CASE EndCollect
  <2> USE <1>13 DEF EndCollect, onceVars
  <2>1. TypeOK'
    BY DEF TypeOK
  <2>2. BodiesInv' /\ PoolsInv' /\ CollectInv' /\ ReturnedInv'
    BY DEF BodiesInv, PoolsInv, CollectInv, ReturnedInv
  <2>3. QED
    BY <2>1, <2>2
<1>14. CASE UNCHANGED vars
  BY <1>14 DEF vars, TypeOK, BodiesInv, PoolsInv, CollectInv, ReturnedInv
<1>15. QED
  BY <1>1, <1>2, <1>3, <1>4, <1>5, <1>6, <1>7, <1>8, <1>9, <1>10, <1>11, <1>12,
     <1>13, <1>14 DEF Next

\* IInv holds in every reachable state.
THEOREM InductiveInvariant == Spec => []IInv
  BY InitIInv, NextIInv, PTL DEF Spec

-----------------------------------------------------------------------------
(* The properties. *)

\* The types are kept; no body runs past its last part.
THEOREM TypeCorrect == Spec => []TypeOK
  BY InductiveInvariant, PTL DEF IInv

\* A cluster whose Once is done has closed every pool it owns.
LEMMA ClusterDone ==
    ASSUME IInv, NEW c \in Clusters, once[c] = "done", NEW p \in OwnedByCluster(c)
    PROVE  p \in Pools /\ once[p] = "done"
<1> DEFINE n == Len(Replicas[c])
<1>1. n \in Nat /\ c \in Containers /\ Replicas[c] \in Seq(Pools)
  BY StructureAssumption DEF Containers
<1>2. \A i \in 1..Len(CloseOrder(c)) : once[CloseOrder(c)[i]] = "done"
  BY <1>1 DEF IInv, BodiesInv
<1>3. CASE \E i \in DOMAIN Replicas[c] : p = Replicas[c][i]
  <2>1. PICK i \in 1..n : p = Replicas[c][i]
    BY <1>1, <1>3
  <2>2. n + 1 - i \in 1..n /\ n + 1 - (n + 1 - i) = i
    BY <1>1
  <2>3. CloseOrder(c)[n + 1 - i] = p /\ n + 1 - i \in 1..Len(CloseOrder(c))
    BY <1>1, <2>1, <2>2, ClusterOrder, StructureAssumption
  <2>4. QED
    BY <1>1, <1>2, <2>1, <2>3
<1>4. CASE p = Primary[c] /\ p # None
  <2>1. n + 1 \in 1..Len(CloseOrder(c)) /\ CloseOrder(c)[n + 1] = p
    BY <1>1, <1>4, ClusterOrder
  <2>2. QED
    BY <1>2, <1>4, <2>1, StructureAssumption
<1>5. QED
  BY <1>3, <1>4 DEF OwnedByCluster

\* A topology whose Once is done has closed every cluster.
LEMMA TopologyDone ==
    ASSUME IInv, once[topology] = "done", NEW i \in DOMAIN Shards
    PROVE  Shards[i] \in Clusters /\ once[Shards[i]] = "done"
<1> DEFINE n == Len(Shards)
<1>1. n \in Nat /\ i \in 1..n /\ Shards[i] \in Clusters
  BY StructureAssumption
<1>2. n + 1 - i \in 1..n /\ n + 1 - (n + 1 - i) = i
  BY <1>1
<1>3. CloseOrder(topology)[n + 1 - i] = Shards[i]
  BY <1>2, TopologyOrder
<1>4. pos[topology] = n
  BY TopologyOrder DEF IInv, BodiesInv, Containers
<1>5. QED
  BY <1>1, <1>2, <1>3, <1>4 DEF IInv, BodiesInv, Containers

\* A Close call that has returned leaves everything below its object shut down,
\* for every nesting, sharing and number of concurrent callers.
THEOREM ReturnedCloseIsComplete == Spec => []ReturnedIsClosed
<1>1. ASSUME IInv PROVE ReturnedIsClosed
  <2> SUFFICES ASSUME NEW o \in returned, NEW p \in Owned(o)
               PROVE  p \in Pools /\ once[p] = "done"
    BY <1>1 DEF ReturnedIsClosed, IInv, PoolsInv
  <2>1. once[o] = "done" /\ o \in Objects
    BY <1>1 DEF IInv, ReturnedInv, TypeOK
  <2>2. CASE o = topology
    <3>1. PICK i \in DOMAIN Shards : p \in OwnedByCluster(Shards[i])
      BY <2>2 DEF Owned
    <3>2. QED
      BY <1>1, <2>1, <2>2, <3>1, TopologyDone, ClusterDone
  <2>3. CASE o \in Clusters
    BY <1>1, <2>1, <2>3, ClusterDone, ObjectsAssumption DEF Owned
  <2>4. CASE o \in Pools
    BY <2>1, <2>4, ObjectsAssumption DEF Owned
  <2>5. QED
    BY <2>1, <2>2, <2>3, <2>4 DEF Objects
<1>2. QED
  BY <1>1, InductiveInvariant, PTL

\* No collection reads the statistics of a pool whose shutdown has begun.
THEOREM StatsAreOfOpenPools == Spec => []StatsOfOpenPools
<1>1. IInv => StatsOfOpenPools
  BY DEF IInv, TypeOK, PoolsInv, CollectInv, StatsOfOpenPools
<1>2. QED
  BY <1>1, InductiveInvariant, PTL

\* Parts are closed one after the other in reverse registration order.
THEOREM ReverseOrder == Spec => ClosesInReverse
<1> DEFINE A == /\ NextPart(topology) =>
                      IsLastOpen(calling'[topology], Len(Shards) - pos[topology], Shards)
                /\ \A c \in Clusters : NextPart(c) =>
                      IF pos[c] < Len(Replicas[c])
                      THEN IsLastOpen(calling'[c], Len(Replicas[c]) - pos[c], Replicas[c])
                      ELSE /\ calling'[c] = Primary[c]
                           /\ \A i \in DOMAIN Replicas[c] : once[Replicas[c][i]] = "done"
<1>1. ASSUME IInv, [Next]_vars PROVE [A]_vars
  <2>1. ASSUME NEW o \in Containers, NextPart(o)
        PROVE  /\ pos[o] \in Nat /\ pos[o] < Len(CloseOrder(o))
               /\ calling'[o] = CloseOrder(o)[pos[o] + 1]
               /\ \A i \in 1..pos[o] : once[CloseOrder(o)[i]] = "done"
    <3>1. PICK x \in Containers : CloseNext(x)
      BY <1>1, <2>1, ObjectsAssumption DEF IInv, TypeOK, Next, vars, NextPart, Containers, Callers,
         CallClose, Enter, ReturnClose, Finish, UnregisterMetrics, ClosePgx, FinishPool, Acquire,
         Release, BeginCollect, Observe, EndCollect, onceVars, envVars, Objects
    <3>2. x = o
      BY <1>1, <2>1, <3>1 DEF IInv, TypeOK, NextPart, CloseNext, Containers, Callers
    <3>3. QED
      BY <1>1, <3>1, <3>2 DEF IInv, TypeOK, BodiesInv, CloseNext, Containers, Callers
  <2>2. NextPart(topology) =>
           IsLastOpen(calling'[topology], Len(Shards) - pos[topology], Shards)
    <3> SUFFICES ASSUME NextPart(topology)
                 PROVE  IsLastOpen(calling'[topology], Len(Shards) - pos[topology], Shards)
      OBVIOUS
    <3> DEFINE n == Len(Shards)
               m == pos[topology]
    <3>1. /\ m \in Nat /\ n \in Nat /\ m < n
          /\ calling'[topology] = CloseOrder(topology)[m + 1]
          /\ \A i \in 1..m : once[CloseOrder(topology)[i]] = "done"
      BY <2>1, TopologyOrder, StructureAssumption DEF Containers
    <3>2. CloseOrder(topology)[m + 1] = Shards[n - m]
      <4>1. m + 1 \in 1..n /\ n + 1 - (m + 1) = n - m
        BY <3>1
      <4>2. QED
        BY <4>1, TopologyOrder
    <3>3. ASSUME NEW j \in ((n - m) + 1)..n PROVE once[Shards[j]] = "done"
      <4>1. n + 1 - j \in 1..m /\ n + 1 - j \in 1..n /\ n + 1 - (n + 1 - j) = j
        BY <3>1
      <4>2. CloseOrder(topology)[n + 1 - j] = Shards[j]
        BY <4>1, TopologyOrder
      <4>3. QED
        BY <3>1, <4>1, <4>2
    <3>4. QED
      BY <3>1, <3>2, <3>3 DEF IsLastOpen
  <2>3. ASSUME NEW c \in Clusters, NextPart(c)
        PROVE  IF pos[c] < Len(Replicas[c])
               THEN IsLastOpen(calling'[c], Len(Replicas[c]) - pos[c], Replicas[c])
               ELSE /\ calling'[c] = Primary[c]
                    /\ \A i \in DOMAIN Replicas[c] : once[Replicas[c][i]] = "done"
    <3> DEFINE n == Len(Replicas[c])
               m == pos[c]
    <3>1. /\ m \in Nat /\ n \in Nat /\ m < Len(CloseOrder(c))
          /\ calling'[c] = CloseOrder(c)[m + 1]
          /\ \A i \in 1..m : once[CloseOrder(c)[i]] = "done"
      BY <2>1, <2>3, ClusterOrder DEF Containers
    <3>n. m \in Nat /\ n \in Nat
      BY <3>1
    <3>2. \A i \in 1..n : CloseOrder(c)[i] = Replicas[c][n + 1 - i]
      BY ClusterOrder
    <3>3. ASSUME NEW j \in 1..n, n + 1 - j <= m PROVE once[Replicas[c][j]] = "done"
      <4>1. n + 1 - j \in 1..m /\ n + 1 - j \in 1..n /\ n + 1 - (n + 1 - j) = j
        BY <3>n, <3>3
      <4>2. QED
        BY <3>1, <3>2, <4>1
    <3>4. CASE m < n
      <4>1. m + 1 \in 1..n /\ n + 1 - (m + 1) = n - m
        BY <3>n, <3>4
      <4>2. calling'[c] = Replicas[c][n - m]
        BY <3>1, <3>2, <4>1
      <4>3. \A j \in ((n - m) + 1)..n : once[Replicas[c][j]] = "done"
        BY <3>1, <3>3, <3>4
      <4>4. QED
        BY <3>4, <4>2, <4>3 DEF IsLastOpen
    <3>5. CASE ~(m < n)
      <4>1. m = n /\ Primary[c] # None /\ calling'[c] = Primary[c]
        BY <3>1, <3>5, ClusterOrder
      <4>2. DOMAIN Replicas[c] = 1..n
        BY StructureAssumption
      <4>3. \A i \in 1..n : once[Replicas[c][i]] = "done"
        BY <3>1, <3>3, <4>1
      <4>4. QED
        BY <3>5, <4>1, <4>2, <4>3
    <3>6. QED
      BY <3>4, <3>5
  <2>4. QED
    BY <2>2, <2>3
<1>2. QED
  BY <1>1, InductiveInvariant, PTL DEF Spec, ClosesInReverse

-----------------------------------------------------------------------------
(* Telemetry: what is exported. *)

\* A snapshot of the levels c.
Snapshot(c) ==
    Over(c, [field \in Counters \cup {"MaxConns", "TotalConns"} |->
                CASE field = "MaxConns" -> MaxConns
                  [] field = "TotalConns" -> Total(c)
                  [] OTHER -> 0])

\* Levels a pool may have.
Possible(c) == c \in [Levels -> Nat] /\ Total(c) <= MaxConns

ConnsOK == DOMAIN conns = PoolIndices /\ \A p \in PoolIndices : Possible(conns[p])

\* The reader holds a snapshot that was true at one moment, or what it has exported
\* of one.
ReaderOK ==
    /\ reader.at \in {"rest", "read", "observed"}
    /\ reader.at = "read" => /\ reader.pool \in callbacks
                             /\ \E c : Possible(c) /\ reader.stats = Snapshot(c)
    /\ reader.at = "observed" => \E c : Possible(c)
                                          /\ reader.values = Restrict(Snapshot(c), Exported)

\* A callback that outlives the start of Close has been reported.
CallbacksOK ==
    /\ DOMAIN pc = PoolIndices
    /\ callbacks \subseteq metrics \cap PoolIndices
    /\ \A p \in callbacks : \/ pc[p] = "open"
                            \/ pc[p] \in {"closing", "closed"} /\ p \in reported

ExportInv == ConnsOK /\ ReaderOK /\ CallbacksOK

LEMMA ExportInit == TelemetryInit => ExportInv
<1> SUFFICES ASSUME TelemetryInit PROVE ExportInv
    OBVIOUS
<1>1. Possible(NoConns)
    BY MaxConnsAssumption DEF Possible, NoConns, Levels, Total
<1>2. ConnsOK
    BY <1>1 DEF TelemetryInit, ConnsOK
<1>3. ReaderOK
    BY DEF TelemetryInit, ReaderOK, Resting
<1>4. CallbacksOK
    BY DEF TelemetryInit, MetadataInit, CallbacksOK
<1> QED  BY <1>2, <1>3, <1>4 DEF ExportInv

\* A connection comes, goes or changes its state.
LEMMA LevelsStep ==
    ASSUME NEW c, Possible(c)
    PROVE  /\ Total(c) < MaxConns => Possible([c EXCEPT !.ConstructingConns = @ + 1])
           /\ c.IdleConns > 0 => Possible([c EXCEPT !.IdleConns = @ - 1])
           /\ \A from, to \in Levels :
                 c[from] > 0 /\ from # to =>
                    Possible([c EXCEPT ![from] = @ - 1, ![to] = @ + 1])
    BY MaxConnsAssumption DEF Possible, Levels, Total

LEMMA ChurnOK == ASSUME NEW p \in PoolIndices, ConnsOK, Churn(p) PROVE ConnsOK'
<1>1. DOMAIN conns = PoolIndices /\ Possible(conns[p])
    BY DEF ConnsOK
<1>2. \E d : Possible(d) /\ conns' = [conns EXCEPT ![p] = d]
  <2>1. ASSUME NEW from \in Levels, NEW to \in Levels, from # to, Move(p, from, to)
        PROVE  \E d : Possible(d) /\ conns' = [conns EXCEPT ![p] = d]
    <3> DEFINE d == [conns[p] EXCEPT ![from] = @ - 1, ![to] = @ + 1]
    <3>1. Possible(d)
        BY <1>1, <2>1, LevelsStep DEF Move
    <3>2. conns' = [conns EXCEPT ![p] = d]
        BY <1>1, <2>1 DEF Move
    <3> QED  BY <3>1, <3>2
  <2>2. CASE Total(conns[p]) < MaxConns
             /\ conns' = [conns EXCEPT ![p].ConstructingConns = @ + 1]
    <3> DEFINE d == [conns[p] EXCEPT !.ConstructingConns = @ + 1]
    <3>1. Possible(d)
        BY <1>1, <2>2, LevelsStep
    <3> QED  BY <2>2, <3>1
  <2>3. CASE conns[p].IdleConns > 0 /\ conns' = [conns EXCEPT ![p].IdleConns = @ - 1]
    <3> DEFINE d == [conns[p] EXCEPT !.IdleConns = @ - 1]
    <3>1. Possible(d)
        BY <1>1, <2>3, LevelsStep
    <3> QED  BY <2>3, <3>1
  <2> QED  BY <2>1, <2>2, <2>3 DEF Churn, Levels
<1> QED  BY <1>1, <1>2 DEF ConnsOK

\* What New and the caller do to pools that have no callback yet.
LEMMA MetadataKeepsCallbacks ==
    ASSUME CallbacksOK, MetadataNext, UNCHANGED exportVars
    PROVE  CallbacksOK'
<1>1. UNCHANGED <<callbacks, metrics, reported>>
    BY DEF exportVars
<1>2. CASE \E p \in PoolIndices : NewFails(p) \/ New(p)
  <2>1. PICK p \in PoolIndices : pc[p] = "none" /\ \E state : pc' = [pc EXCEPT ![p] = state]
      BY <1>2 DEF NewFails, New, Due
  <2> QED  BY <1>1, <2>1 DEF CallbacksOK
<1>3. CASE UNCHANGED pc
    BY <1>1, <1>3 DEF CallbacksOK
<1> QED  BY <1>2, <1>3 DEF MetadataNext, WithValue, WithLabels, WithTracers, AddOption,
                       NewCluster, WriteArgument, WriteResult, WriteConfig

LEMMA ExportNext == ExportInv /\ [TelemetryNext]_telemetryVars => ExportInv'
<1> SUFFICES ASSUME ExportInv, [TelemetryNext]_telemetryVars PROVE ExportInv'
    OBVIOUS
<1>0. ConnsOK /\ ReaderOK /\ CallbacksOK
    BY DEF ExportInv
<1>1. CASE MetadataNext /\ UNCHANGED exportVars
  <2>1. UNCHANGED <<conns, reader, callbacks>>
      BY <1>1 DEF exportVars
  <2>2. ConnsOK' /\ ReaderOK'
      BY <1>0, <2>1 DEF ConnsOK, ReaderOK
  <2> QED  BY <1>0, <1>1, <2>2, MetadataKeepsCallbacks DEF ExportInv
<1>2. ASSUME NEW p \in PoolIndices, Register(p) PROVE ExportInv'
  <2>1. ConnsOK' /\ ReaderOK'
      BY <1>0, <1>2 DEF Register, ConnsOK, ReaderOK
  <2>2. CallbacksOK'
      BY <1>0, <1>2 DEF Register, CallbacksOK
  <2> QED  BY <2>1, <2>2 DEF ExportInv
<1>3. ASSUME NEW p \in PoolIndices, RegisterFails(p) PROVE ExportInv'
  <2>1. UNCHANGED <<conns, reader, callbacks>>
      BY <1>3 DEF RegisterFails, exportVars
  <2>2. ConnsOK' /\ ReaderOK'
      BY <1>0, <2>1 DEF ConnsOK, ReaderOK
  <2>3. CallbacksOK'
      BY <1>0, <1>3 DEF RegisterFails, exportVars, CallbacksOK
  <2> QED  BY <2>2, <2>3 DEF ExportInv
<1>4. ASSUME NEW p \in PoolIndices, Churn(p) PROVE ExportInv'
  <2>1. ConnsOK'
      BY <1>0, <1>4, ChurnOK
  <2>2. UNCHANGED <<pc, metrics, callbacks, reported, reader>>
      BY <1>4 DEF Churn, metadataVars
  <2>3. ReaderOK' /\ CallbacksOK'
      BY <1>0, <2>2 DEF ReaderOK, CallbacksOK
  <2> QED  BY <2>1, <2>3 DEF ExportInv
<1>5. ASSUME NEW p \in PoolIndices, Read(p) PROVE ExportInv'
  <2>1. UNCHANGED <<pc, conns, metrics, callbacks, reported>>
      BY <1>5 DEF Read, metadataVars
  <2>2. ConnsOK' /\ CallbacksOK'
      BY <1>0, <2>1 DEF ConnsOK, CallbacksOK
  <2>3. p \in callbacks /\ reader' = [at |-> "read", pool |-> p, stats |-> Stats(p)]
      BY <1>5 DEF Read
  <2>4. Possible(conns[p]) /\ Stats(p) = Snapshot(conns[p])
      BY <1>0 DEF ConnsOK, Stats, Snapshot
  <2>5. ReaderOK'
      BY <2>1, <2>3, <2>4 DEF ReaderOK
  <2> QED  BY <2>2, <2>5 DEF ExportInv
<1>6. CASE ObserveStats
  <2>1. UNCHANGED <<pc, conns, metrics, callbacks, reported>>
      BY <1>6 DEF ObserveStats, metadataVars
  <2>2. ConnsOK' /\ CallbacksOK'
      BY <1>0, <2>1 DEF ConnsOK, CallbacksOK
  <2>3. reader.at = "read"
        /\ reader' = [at |-> "observed", pool |-> reader.pool,
                      values |-> Restrict(reader.stats, Exported)]
      BY <1>6 DEF ObserveStats
  <2>4. PICK c : Possible(c) /\ reader.stats = Snapshot(c)
      BY <1>0, <2>3 DEF ReaderOK
  <2>5. ReaderOK'
      BY <2>3, <2>4 DEF ReaderOK
  <2> QED  BY <2>2, <2>5 DEF ExportInv
<1>7. ASSUME NEW p \in PoolIndices, Unregister(p) PROVE ExportInv'
  <2>1. ConnsOK' /\ ReaderOK'
      BY <1>0, <1>7 DEF Unregister, AfterMetrics, ConnsOK, ReaderOK
  <2>2. CallbacksOK'
      BY <1>0, <1>7 DEF Unregister, AfterMetrics, CallbacksOK
  <2> QED  BY <2>1, <2>2 DEF ExportInv
<1>8. ASSUME NEW p \in PoolIndices, UnregisterFails(p) PROVE ExportInv'
  <2>1. ConnsOK' /\ ReaderOK'
      BY <1>0, <1>8 DEF UnregisterFails, AfterMetrics, ConnsOK, ReaderOK
  <2>2. CallbacksOK'
      BY <1>0, <1>8 DEF UnregisterFails, AfterMetrics, CallbacksOK
  <2> QED  BY <2>1, <2>2 DEF ExportInv
<1>9. ASSUME NEW p \in PoolIndices, ClosePool(p) PROVE ExportInv'
  <2>1. Possible(NoConns)
      BY MaxConnsAssumption DEF Possible, NoConns, Levels, Total
  <2>2. ConnsOK'
      BY <1>0, <1>9, <2>1 DEF ClosePool, ConnsOK
  <2>3. ReaderOK'
      BY <1>0, <1>9 DEF ClosePool, AfterMetrics, ReaderOK
  <2>4. CallbacksOK'
      BY <1>0, <1>9 DEF ClosePool, AfterMetrics, CallbacksOK
  <2> QED  BY <2>2, <2>3, <2>4 DEF ExportInv
<1>10. CASE UNCHANGED telemetryVars
  <2>1. UNCHANGED <<pc, conns, metrics, callbacks, reported, reader>>
      BY <1>10 DEF telemetryVars, exportVars, metadataVars
  <2> QED  BY <1>0, <2>1 DEF ExportInv, ConnsOK, ReaderOK, CallbacksOK
<1> QED  BY <1>1, <1>2, <1>3, <1>4, <1>5, <1>6, <1>7, <1>8, <1>9, <1>10 DEF TelemetryNext

\* The invariant of the export: levels within the limit, a reader that holds one
\* snapshot, and callbacks that outlive their pool only after a report.
THEOREM ExportInvariant == TelemetrySpec => []ExportInv
BY ExportInit, ExportNext, PTL DEF TelemetrySpec

\* The statistics of a closed pool are read only after a failure to unregister that
\* was reported, for any number of pools.
THEOREM NoSilentReads == TelemetrySpec => []ReadsOfClosedReported
<1>1. ExportInv => ReadsOfClosedReported
    BY DEF ExportInv, ReaderOK, CallbacksOK, ReadsOfClosedReported
<1> QED  BY <1>1, ExportInvariant, PTL

\* Every statistic has a row of an instrument that is registered.
LEMMA ExportedFields == Exported = Levels \cup Counters \cup {"MaxConns"}
<1>1. \A r \in observe : r.instrument \in observables
    BY DEF observe, Row, observables
<1>2. Exported = {row.field : row \in observe}
    BY <1>1 DEF Exported
<1>3. \A row \in observe : row.field \in Levels \cup Counters \cup {"MaxConns"}
    BY DEF observe, Row, Levels, Counters
<1>4. ASSUME NEW i, NEW f, NEW e, Row(i, f, e) \in observe
      PROVE  f \in Exported
  <2>1. Row(i, f, e).field = f
      BY DEF Row
  <2> QED  BY <1>2, <1>4, <2>1
<1>5. \A f \in Levels \cup Counters \cup {"MaxConns"} : f \in Exported
  <2> USE <1>4
  <2>1. "AcquiredConns" \in Exported /\ "ConstructingConns" \in Exported
        /\ "IdleConns" \in Exported /\ "MaxConns" \in Exported
      BY DEF observe
  <2>2. "AcquireCount" \in Exported /\ "AcquireDuration" \in Exported
        /\ "CanceledAcquireCount" \in Exported /\ "EmptyAcquireCount" \in Exported
      BY DEF observe
  <2>3. "EmptyAcquireWaitTime" \in Exported /\ "NewConnsCount" \in Exported
        /\ "MaxIdleDestroyCount" \in Exported /\ "MaxLifetimeDestroyCount" \in Exported
      BY DEF observe
  <2> QED  BY <2>1, <2>2, <2>3 DEF Levels, Counters
<1> QED  BY <1>2, <1>3, <1>5

\* A collection exports all statistics of one moment, within the limit of the pool.
THEOREM ConsistentCollection == TelemetrySpec => []ConsistentExport
<1>1. ExportInv => ConsistentExport
  <2> SUFFICES ASSUME ExportInv, reader.at = "observed"
               PROVE  /\ DOMAIN reader.values = Levels \cup Counters \cup {"MaxConns"}
                      /\ Total(reader.values) <= reader.values.MaxConns
      BY DEF ConsistentExport
  <2>1. PICK c : Possible(c) /\ reader.values = Restrict(Snapshot(c), Exported)
      BY DEF ExportInv, ReaderOK
  <2>2. DOMAIN reader.values = Levels \cup Counters \cup {"MaxConns"}
      BY <2>1, ExportedFields DEF Restrict
  <2>3. /\ \A l \in Levels : reader.values[l] = c[l]
        /\ reader.values.MaxConns = MaxConns
      BY <2>1, <2>2, ExportedFields
         DEF Restrict, Snapshot, Over, Levels, Counters, Possible
  <2> QED  BY <2>1, <2>2, <2>3 DEF Total, Levels, Possible
<1> QED  BY <1>1, ExportInvariant, PTL

-----------------------------------------------------------------------------
(* Telemetry: time series. *)

\* a holds the attributes of a row: its own, the pool's name, and labels.
Labelled(a, name, labels, row) ==
    /\ \A k \in DOMAIN row.extra : k \in DOMAIN a /\ a[k] = row.extra[k]
    /\ a[poolNameKey] = name
    /\ \A k \in DOMAIN labels \ Controlled : k \in DOMAIN a /\ a[k] = labels[k]
    /\ \A k \in DOMAIN a \ Controlled : k \in DOMAIN labels

LEMMA AttributeValues ==
    ASSUME NEW name, NEW labels, NEW row \in observe
    PROVE  Labelled(newPoolMetricAttributes(name, labels, row.extra), name, labels, row)
<1>a. PICK a : a = newPoolMetricAttributes(name, labels, row.extra)
    OBVIOUS
<1>1. DOMAIN row.extra \subseteq {connectionState, destroyReason}
    BY DEF observe, Row, Entry
<1>2. PICK extra : extra = row.extra
    OBVIOUS
<1>3. DOMAIN a = DOMAIN extra \cup {dbSystemName, poolNameKey} \cup DOMAIN labels
    BY <1>a, <1>2 DEF newPoolMetricAttributes, Over, system, Entry
<1>4. ASSUME NEW k \in DOMAIN a
      PROVE  a[k] = IF k \in DOMAIN extra THEN extra[k]
                    ELSE IF k = dbSystemName THEN <<"postgresql">>
                    ELSE IF k = poolNameKey THEN name
                    ELSE labels[k]
    BY <1>a, <1>2, <1>3, <1>4 DEF newPoolMetricAttributes, Over, system, Entry
<1>5. /\ poolNameKey \notin DOMAIN extra /\ poolNameKey # dbSystemName
      /\ Controlled = {dbSystemName, poolNameKey, connectionState, destroyReason}
    BY <1>1, <1>2
       DEF Controlled, poolNameKey, dbSystemName, connectionState, destroyReason
<1>6. Labelled(a, name, labels, row)
    BY <1>1, <1>2, <1>3, <1>4, <1>5 DEF Labelled
<1> QED  BY <1>a, <1>6

\* Two rows of one instrument differ in an attribute both have.
LEMMA RowsApart ==
    ASSUME NEW row \in observe, NEW other \in observe,
           row.instrument = other.instrument, row # other
    PROVE  \E k \in DOMAIN row.extra \cap DOMAIN other.extra : row.extra[k] # other.extra[k]
    BY DEF observe, Row, Entry

\* No two statistics share a time series, whatever names and labels the pools have.
THEOREM SeparateSeries == TelemetrySpec => []SeriesApart
<1>1. SeriesApart
  <2> SUFFICES ASSUME NEW p \in callbacks, NEW q \in callbacks,
                      NEW row \in observe, NEW other \in observe,
                      row.instrument = other.instrument,
                      Attributes(p, row) = Attributes(q, other)
               PROVE  /\ row = other
                      /\ attributes[p].name = attributes[q].name
                      /\ LabelsApart(p) = LabelsApart(q)
      BY DEF SeriesApart
  <2>1. PICK a : a = Attributes(p, row)
      OBVIOUS
  <2>2. PICK l, m : l = attributes[p].labels /\ m = attributes[q].labels
      OBVIOUS
  <2>3. /\ \A k \in DOMAIN row.extra : a[k] = row.extra[k]
        /\ a[poolNameKey] = attributes[p].name
        /\ \A k \in DOMAIN l \ Controlled : k \in DOMAIN a /\ a[k] = l[k]
        /\ \A k \in DOMAIN a \ Controlled : k \in DOMAIN l
    <3>1. Attributes(p, row) = newPoolMetricAttributes(attributes[p].name, l, row.extra)
        BY <2>2 DEF Attributes
    <3>2. PICK n : n = attributes[p].name
        OBVIOUS
    <3>3. Labelled(newPoolMetricAttributes(n, l, row.extra), n, l, row)
        BY AttributeValues
    <3> QED  BY <2>1, <3>1, <3>2, <3>3 DEF Labelled
  <2>4. /\ \A k \in DOMAIN other.extra : a[k] = other.extra[k]
        /\ a[poolNameKey] = attributes[q].name
        /\ \A k \in DOMAIN m \ Controlled : k \in DOMAIN a /\ a[k] = m[k]
        /\ \A k \in DOMAIN a \ Controlled : k \in DOMAIN m
    <3>1. Attributes(q, other) = newPoolMetricAttributes(attributes[q].name, m, other.extra)
        BY <2>2 DEF Attributes
    <3>2. PICK n : n = attributes[q].name
        OBVIOUS
    <3>3. Labelled(newPoolMetricAttributes(n, m, other.extra), n, m, other)
        BY AttributeValues
    <3> QED  BY <2>1, <3>1, <3>2, <3>3 DEF Labelled
  <2>5. row = other
      BY <2>3, <2>4, RowsApart
  <2>6. /\ DOMAIN l \ Controlled = DOMAIN m \ Controlled
        /\ \A k \in DOMAIN l \ Controlled : l[k] = m[k]
      BY <2>3, <2>4
  <2>7. LabelsApart(p) = LabelsApart(q)
      BY <2>2, <2>6 DEF LabelsApart, Restrict
  <2> QED  BY <2>3, <2>4, <2>5, <2>7
<1> QED  BY <1>1, PTL
-----------------------------------------------------------------------------
(* Metadata: what a list of options comes to. *)

LEMMA Smallest ==
    ASSUME NEW T, T \subseteq Nat, T # {}
    PROVE  \E x \in T : \A y \in T : x <= y
<1>1. PICK R : IsWellFoundedOn(R, Nat) /\ \A y, z \in Nat : y < z => <<y, z>> \in R
    BY NatLessThanWellFounded DEF OpToRel
<1>2. PICK x \in T : \A y \in T : <<y, x>> \notin R
  <2>1. ASSUME NEW Q, IsWellFoundedOn(Q, Nat)
        PROVE  \E x \in T : \A y \in T : ~(<<y, x>> \in Q)
      BY <2>1, WFMin
  <2> QED  BY <1>1, <2>1
<1>3. ASSUME NEW y \in T PROVE x <= y
  <2>1. x \in Nat /\ y \in Nat /\ ~(y < x)
      BY <1>1, <1>2
  <2> QED  BY <2>1
<1> QED  BY <1>3

Kinds == {"name", "label", "labels", "tracers", "logger", "metrics", "nil"}

\* The clone of a labels option is in the heap, behind what the caller can write to.
OptionOK(o) ==
    /\ o.kind \in Kinds
    /\ o.kind = "labels" => o.labels \in 4..Len(heap) /\ heap[o.labels] = o.meant
    /\ o.kind = "tracers" => o.tracers = TracersArgument
    /\ o.kind = "logger" => o.logger \in Tracers \cup {Nil}

OptionsOK ==
    /\ \E S : options \in Seq(S)
    /\ \A i \in 1..Len(options) : OptionOK(options[i])

HeapOK ==
    /\ \E S : heap \in Seq(S)
    /\ Len(heap) >= 3
    /\ heap[TracersArgument] \in Seq(Tracers \cup {Nil})

\* settings is what its definition says: there is a function like that.
LEMMA SettingsDef ==
    ASSUME OptionsOK
    PROVE  settings = [i \in 0..Len(options) |->
                          IF i = 0 THEN defaultSettings
                                   ELSE apply(settings[i - 1], options[i])]
<1> DEFINE Applied(f, m) ==
              f = [i \in 0..m |-> IF i = 0 THEN defaultSettings
                                           ELSE apply(f[i - 1], options[i])]
           D == {m \in Nat : ~\E f : Applied(f, m)}
<1>1. D = {}
  <2>1. SUFFICES ASSUME D # {} PROVE FALSE
      OBVIOUS
  <2>2. PICK m \in D : \A l \in D : m <= l
    <3>1. D \subseteq Nat
        OBVIOUS
    <3> HIDE DEF D
    <3> QED  BY <2>1, <3>1, Smallest
  <2>3. m # 0
    <3>1. Applied([i \in 0..0 |-> defaultSettings], 0)
        OBVIOUS
    <3> QED  BY <2>2, <3>1
  <2>4. PICK f : Applied(f, m - 1)
    <3>1. m - 1 \in Nat /\ ~(m <= m - 1)
        BY <2>2, <2>3
    <3> QED  BY <2>2, <3>1
  <2> DEFINE g == [i \in 0..m |-> IF i = m THEN apply(f[m - 1], options[m]) ELSE f[i]]
  <2>5. Applied(g, m)
    <3>1. m \in Nat /\ m - 1 \in 0..(m - 1) /\ m - 1 # m
        BY <2>2, <2>3
    <3>2. ASSUME NEW i \in 0..m
          PROVE  g[i] = IF i = 0 THEN defaultSettings ELSE apply(g[i - 1], options[i])
      <4>1. CASE i = m
          BY <2>3, <3>1, <4>1
      <4>2. CASE i # m
          BY <2>4, <3>1, <4>2
      <4> QED  BY <4>1, <4>2
    <3> QED  BY <3>2
  <2> QED  BY <2>2, <2>5
<1>2. Len(options) \in Nat
    BY DEF OptionsOK
<1>3. \E f : Applied(f, Len(options))
    BY <1>1, <1>2
<1> QED  BY <1>3 DEF settings

\* One option, applied.
Settings(name, labels, tracers, metered) ==
    [name |-> name, labels |-> labels, tracers |-> tracers, metrics |-> metered]

After(name, labels, tracers, metered, o) ==
    Settings(IF o.kind = "name" THEN o.name ELSE name,
             IF o.kind = "label" THEN Over(Entry(o.key, o.value), labels)
             ELSE IF o.kind = "labels" THEN Over(o.meant, labels)
             ELSE labels,
             IF o.kind = "tracers" THEN tracers \o heap[TracersArgument]
             ELSE IF o.kind = "logger" THEN Append(tracers, o.logger)
             ELSE tracers,
             IF o.kind = "metrics" THEN TRUE ELSE metered)

LEMMA ApplyFacts ==
    ASSUME NEW name, NEW labels, NEW tracers, NEW metered,
           NEW o, OptionOK(o), o.kind # "nil"
    PROVE  apply(Settings(name, labels, tracers, metered), o)
              = After(name, labels, tracers, metered, o)
<1> USE DEF Settings, After
<1>1. CASE o.kind = "name"
    BY <1>1 DEF apply
<1>2. CASE o.kind = "label"
    BY <1>2 DEF apply
<1>3. CASE o.kind = "labels"
    BY <1>3 DEF apply, OptionOK
<1>4. CASE o.kind = "tracers"
    BY <1>4 DEF apply, OptionOK
<1>5. CASE o.kind = "logger"
    BY <1>5 DEF apply
<1>6. CASE o.kind = "metrics"
    BY <1>6 DEF apply
<1> QED  BY <1>1, <1>2, <1>3, <1>4, <1>5, <1>6 DEF OptionOK, Kinds

\* Of the first i options, the last for a name counts.
NameOK(i, name) ==
    \/ /\ name = <<>>
       /\ \A j \in 1..i : options[j].kind # "name"
    \/ \E j \in 1..i : /\ options[j].kind = "name" /\ name = options[j].name
                       /\ \A l \in (j + 1)..i : options[l].kind # "name"

\* What the option o says of the key k.
ValueOf(o, k) == IF o.kind = "label" THEN o.value ELSE o.meant[k]

\* For every key, the last option with that key counts.
KeyOK(i, labels, k) ==
    \/ /\ k \notin DOMAIN labels
       /\ \A j \in 1..i : k \notin KeysOf(options[j])
    \/ /\ k \in DOMAIN labels
       /\ \E j \in 1..i : /\ k \in KeysOf(options[j]) /\ labels[k] = ValueOf(options[j], k)
                          /\ \A l \in (j + 1)..i : k \notin KeysOf(options[l])

LabelsOK(i, labels) ==
    /\ labels = [k \in DOMAIN labels |-> labels[k]]
    /\ \A k : KeyOK(i, labels, k)

\* The lists of tracers of the options, and their concatenation as FlattenSeq has it.
Lists == [i \in DOMAIN options |-> TracersOf(options[i])]

Joined == CHOOSE f : f = [i \in 1..Len(Lists) |->
                             IF i = 1 THEN Lists[i] ELSE f[i - 1] \o Lists[i]]

\* Of the first i options, all tracers count.
JoinedOK(i, tracers) ==
    /\ tracers \in Seq(Tracers \cup {Nil})
    /\ tracers = IF i = 0 THEN <<>> ELSE Joined[i]

LEMMA NameStep ==
    ASSUME NEW i \in Nat, NEW name, NameOK(i, name)
    PROVE  NameOK(i + 1, IF options[i + 1].kind = "name" THEN options[i + 1].name ELSE name)
<1>1. CASE options[i + 1].kind = "name"
    BY <1>1, i + 1 \in 1..(i + 1), \A l : l \notin (i + 1 + 1)..(i + 1) DEF NameOK
<1>2. CASE options[i + 1].kind # "name"
  <2>1. \A j \in 1..(i + 1) : j \in 1..i \/ j = i + 1
      OBVIOUS
  <2>2. CASE name = <<>> /\ \A j \in 1..i : options[j].kind # "name"
    <3>1. \A j \in 1..(i + 1) : options[j].kind # "name"
        BY <1>2, <2>1, <2>2
    <3> QED  BY <1>2, <2>2, <3>1 DEF NameOK
  <2>3. ASSUME NEW j \in 1..i, options[j].kind = "name", name = options[j].name,
               \A l \in (j + 1)..i : options[l].kind # "name"
        PROVE  NameOK(i + 1, name)
    <3>1. j \in 1..(i + 1) /\ \A l \in (j + 1)..(i + 1) : l \in (j + 1)..i \/ l = i + 1
        OBVIOUS
    <3>2. \A l \in (j + 1)..(i + 1) : options[l].kind # "name"
        BY <1>2, <2>3, <3>1
    <3> QED  BY <2>3, <3>1, <3>2 DEF NameOK
  <2> QED  BY <1>2, <2>2, <2>3 DEF NameOK
<1> QED  BY <1>1, <1>2

\* An option with the keys and values of the map m, copied over the labels so far.
LEMMA OverStep ==
    ASSUME NEW i \in Nat, NEW labels, LabelsOK(i, labels), NEW m,
           KeysOf(options[i + 1]) = DOMAIN m,
           \A k \in DOMAIN m : m[k] = ValueOf(options[i + 1], k)
    PROVE  LabelsOK(i + 1, Over(m, labels))
<1>1. PICK new : new = Over(m, labels)
    OBVIOUS
<1>2. /\ DOMAIN new = DOMAIN m \cup DOMAIN labels
      /\ \A k \in DOMAIN new : new[k] = IF k \in DOMAIN m THEN m[k] ELSE labels[k]
      /\ new = [k \in DOMAIN new |-> new[k]]
    BY <1>1 DEF Over
<1>3. ASSUME NEW k PROVE KeyOK(i + 1, new, k)
  <2>0. i + 1 \in 1..(i + 1) /\ \A j \in 1..(i + 1) : j \in 1..i \/ j = i + 1
      OBVIOUS
  <2>1. CASE k \in DOMAIN m
      BY <1>2, <2>0, <2>1, \A l : l \notin (i + 1 + 1)..(i + 1) DEF KeyOK
  <2>2. CASE k \notin DOMAIN m /\ k \notin DOMAIN labels
    <3>1. \A j \in 1..i : k \notin KeysOf(options[j])
        BY <2>2 DEF LabelsOK, KeyOK
    <3>2. \A j \in 1..(i + 1) : k \notin KeysOf(options[j])
        BY <2>0, <2>2, <3>1
    <3> QED  BY <1>2, <2>2, <3>2 DEF KeyOK
  <2>3. CASE k \notin DOMAIN m /\ k \in DOMAIN labels
    <3>1. PICK j \in 1..i : /\ k \in KeysOf(options[j])
                            /\ labels[k] = ValueOf(options[j], k)
                            /\ \A l \in (j + 1)..i : k \notin KeysOf(options[l])
        BY <2>3 DEF LabelsOK, KeyOK
    <3>2. j \in 1..(i + 1) /\ \A l \in (j + 1)..(i + 1) : l \in (j + 1)..i \/ l = i + 1
        OBVIOUS
    <3>3. \A l \in (j + 1)..(i + 1) : k \notin KeysOf(options[l])
        BY <2>3, <3>1, <3>2
    <3>4. k \in DOMAIN new /\ new[k] = ValueOf(options[j], k)
        BY <1>2, <2>3, <3>1
    <3> QED  BY <3>1, <3>2, <3>3, <3>4 DEF KeyOK
  <2> QED  BY <2>1, <2>2, <2>3
<1> QED  BY <1>1, <1>2, <1>3 DEF LabelsOK

\* An option without keys.
LEMMA NoKeysStep ==
    ASSUME NEW i \in Nat, NEW labels, LabelsOK(i, labels), KeysOf(options[i + 1]) = {}
    PROVE  LabelsOK(i + 1, labels)
<1>1. ASSUME NEW k PROVE KeyOK(i + 1, labels, k)
  <2>0. \A j \in 1..(i + 1) : j \in 1..i \/ j = i + 1
      OBVIOUS
  <2>1. CASE k \notin DOMAIN labels
    <3>1. \A j \in 1..i : k \notin KeysOf(options[j])
        BY <2>1 DEF LabelsOK, KeyOK
    <3> QED  BY <2>0, <2>1, <3>1 DEF KeyOK
  <2>2. CASE k \in DOMAIN labels
    <3>1. PICK j \in 1..i : /\ k \in KeysOf(options[j])
                            /\ labels[k] = ValueOf(options[j], k)
                            /\ \A l \in (j + 1)..i : k \notin KeysOf(options[l])
        BY <2>2 DEF LabelsOK, KeyOK
    <3>2. j \in 1..(i + 1) /\ \A l \in (j + 1)..(i + 1) : l \in (j + 1)..i \/ l = i + 1
        OBVIOUS
    <3>3. \A l \in (j + 1)..(i + 1) : k \notin KeysOf(options[l])
        BY <3>1, <3>2
    <3> QED  BY <2>2, <3>1, <3>2, <3>3 DEF KeyOK
  <2> QED  BY <2>1, <2>2
<1> QED  BY <1>1 DEF LabelsOK

LEMMA LabelsStep ==
    ASSUME NEW i \in Nat, NEW labels, LabelsOK(i, labels),
           NEW o, o = options[i + 1], OptionOK(o)
    PROVE  LabelsOK(i + 1, IF o.kind = "label" THEN Over(Entry(o.key, o.value), labels)
                           ELSE IF o.kind = "labels" THEN Over(o.meant, labels)
                           ELSE labels)
<1>1. CASE o.kind = "label"
  <2>1. KeysOf(o) = DOMAIN Entry(o.key, o.value)
      BY <1>1 DEF KeysOf, Entry
  <2>2. \A k \in DOMAIN Entry(o.key, o.value) : Entry(o.key, o.value)[k] = ValueOf(o, k)
      BY <1>1 DEF Entry, ValueOf
  <2>3. LabelsOK(i + 1, Over(Entry(o.key, o.value), labels))
      BY <2>1, <2>2, OverStep
  <2> QED  BY <1>1, <2>3
<1>2. CASE o.kind = "labels"
  <2>1. KeysOf(o) = DOMAIN o.meant /\ \A k \in DOMAIN o.meant : o.meant[k] = ValueOf(o, k)
      BY <1>2 DEF KeysOf, ValueOf
  <2>3. LabelsOK(i + 1, Over(o.meant, labels))
      BY <2>1, OverStep
  <2> QED  BY <1>2, <2>3
<1>3. CASE o.kind # "label" /\ o.kind # "labels"
  <2>1. KeysOf(o) = {}
      BY <1>3 DEF KeysOf
  <2> QED  BY <1>3, <2>1, NoKeysStep
<1> QED  BY <1>1, <1>2, <1>3

LEMMA ListsFacts ==
    ASSUME OptionsOK, HeapOK
    PROVE  /\ DOMAIN Lists = 1..Len(options) /\ Len(Lists) = Len(options)
           /\ Len(options) \in Nat /\ DOMAIN options = 1..Len(options)
           /\ \A i \in 1..Len(options) :
                 /\ Lists[i] \in Seq(Tracers \cup {Nil})
                 /\ Lists[i] = IF options[i].kind = "tracers" THEN heap[TracersArgument]
                               ELSE IF options[i].kind = "logger" THEN <<options[i].logger>>
                               ELSE <<>>
<1>1. Len(options) \in Nat /\ DOMAIN options = 1..Len(options)
    BY DEF OptionsOK
<1>2. DOMAIN Lists = 1..Len(options) /\ Len(Lists) = Len(options)
    BY <1>1 DEF Lists
<1>3. ASSUME NEW i \in 1..Len(options)
      PROVE  /\ Lists[i] \in Seq(Tracers \cup {Nil})
             /\ Lists[i] = IF options[i].kind = "tracers" THEN heap[TracersArgument]
                           ELSE IF options[i].kind = "logger" THEN <<options[i].logger>>
                           ELSE <<>>
  <2>1. OptionOK(options[i])
      BY DEF OptionsOK
  <2>2. PICK o : o = options[i]
      OBVIOUS
  <2>3. Lists[i] = TracersOf(o)
      BY <1>1, <2>2 DEF Lists
  <2>4. CASE o.kind = "tracers"
      BY <2>1, <2>2, <2>3, <2>4 DEF TracersOf, OptionOK, HeapOK
  <2>5. CASE o.kind = "logger"
      BY <2>1, <2>2, <2>3, <2>5 DEF TracersOf, OptionOK
  <2>6. CASE o.kind # "tracers" /\ o.kind # "logger"
      BY <2>2, <2>3, <2>6 DEF TracersOf
  <2> QED  BY <2>2, <2>4, <2>5, <2>6
<1> QED  BY <1>1, <1>2, <1>3

LEMMA JoinedDef ==
    ASSUME OptionsOK, HeapOK
    PROVE  Joined = [i \in 1..Len(Lists) |->
                        IF i = 1 THEN Lists[i] ELSE Joined[i - 1] \o Lists[i]]
<1> DEFINE Joins(f, m) ==
              f = [i \in 1..m |-> IF i = 1 THEN Lists[i] ELSE f[i - 1] \o Lists[i]]
           D == {m \in Nat : ~\E f : Joins(f, m)}
<1>1. D = {}
  <2>1. SUFFICES ASSUME D # {} PROVE FALSE
      OBVIOUS
  <2>2. PICK m \in D : \A l \in D : m <= l
    <3>1. D \subseteq Nat
        OBVIOUS
    <3> HIDE DEF D
    <3> QED  BY <2>1, <3>1, Smallest
  <2>3. m # 0
    <3>1. Joins([i \in 1..0 |-> 0], 0)
        OBVIOUS
    <3> QED  BY <2>2, <3>1
  <2>4. PICK f : Joins(f, m - 1)
    <3>1. m - 1 \in Nat /\ ~(m <= m - 1)
        BY <2>2, <2>3
    <3> QED  BY <2>2, <3>1
  <2> DEFINE g == [i \in 1..m |-> IF i # m THEN f[i]
                                  ELSE IF i = 1 THEN Lists[i] ELSE f[i - 1] \o Lists[i]]
  <2>5. Joins(g, m)
    <3>1. m \in Nat /\ m >= 1
        BY <2>2, <2>3
    <3>2. ASSUME NEW i \in 1..m
          PROVE  g[i] = IF i = 1 THEN Lists[i] ELSE g[i - 1] \o Lists[i]
      <4>1. CASE i = m
          BY <3>1, <4>1
      <4>2. CASE i # m
        <5>1. i \in 1..(m - 1) /\ g[i] = f[i]
            BY <3>1, <4>2
        <5>2. f[i] = IF i = 1 THEN Lists[i] ELSE f[i - 1] \o Lists[i]
            BY <2>4, <5>1
        <5>3. i # 1 => i - 1 \in 1..m /\ i - 1 # m
            BY <5>1
        <5>4. i # 1 => g[i - 1] = f[i - 1]
            BY <5>3
        <5> QED  BY ONLY <5>1, <5>2, <5>4
      <4> QED  BY <4>1, <4>2
    <3> QED  BY <3>2
  <2> QED  BY <2>2, <2>5
<1>2. Len(Lists) \in Nat
    BY ListsFacts
<1>3. \E f : Joins(f, Len(Lists))
    BY <1>1, <1>2
<1> QED  BY <1>3 DEF Joined

LEMMA JoinedStep ==
    ASSUME OptionsOK, HeapOK, NEW i \in 0..(Len(options) - 1),
           NEW tracers, JoinedOK(i, tracers),
           NEW o, o = options[i + 1]
    PROVE  JoinedOK(i + 1, IF o.kind = "tracers" THEN tracers \o heap[TracersArgument]
                           ELSE IF o.kind = "logger" THEN Append(tracers, o.logger)
                           ELSE tracers)
<1>1. /\ i + 1 \in 1..Len(options) /\ i \in Nat /\ Len(Lists) = Len(options)
    BY ListsFacts
<1>2. PICK l : l = Lists[i + 1]
    OBVIOUS
<1>3. /\ l \in Seq(Tracers \cup {Nil})
      /\ l = IF o.kind = "tracers" THEN heap[TracersArgument]
             ELSE IF o.kind = "logger" THEN <<o.logger>> ELSE <<>>
    BY <1>1, <1>2, ListsFacts
<1>4. tracers \in Seq(Tracers \cup {Nil})
    BY DEF JoinedOK
<1>5. Joined[i + 1] = tracers \o l
  <2>1. Joined[i + 1] = IF i + 1 = 1 THEN l ELSE Joined[i] \o l
    <3>1. i + 1 \in 1..Len(Lists) /\ i + 1 - 1 = i
        BY <1>1
    <3>2. Joined = [j \in 1..Len(Lists) |->
                       IF j = 1 THEN Lists[j] ELSE Joined[j - 1] \o Lists[j]]
        BY JoinedDef
    <3>3. Joined[i + 1] = IF i + 1 = 1 THEN Lists[i + 1]
                                       ELSE Joined[i + 1 - 1] \o Lists[i + 1]
      <4>1. PICK f, ls, n : f = Joined /\ ls = Lists /\ n = Len(Lists)
          OBVIOUS
      <4>2. f = [j \in 1..n |-> IF j = 1 THEN ls[j] ELSE f[j - 1] \o ls[j]]
          BY ONLY <3>2, <4>1
      <4>3. PICK k \in 1..n : k = i + 1
          BY <3>1, <4>1
      <4>4. f[k] = IF k = 1 THEN ls[k] ELSE f[k - 1] \o ls[k]
          BY ONLY <4>2
      <4> QED  BY ONLY <4>1, <4>3, <4>4
    <3> QED  BY ONLY <1>2, <3>1, <3>3
  <2>2. CASE i = 0
      BY <1>3, <2>1, <2>2 DEF JoinedOK
  <2>3. CASE i # 0
      BY <1>1, <2>1, <2>3 DEF JoinedOK
  <2> QED  BY <2>2, <2>3
<1>6. tracers \o l \in Seq(Tracers \cup {Nil})
    BY <1>3, <1>4
<1>7. JoinedOK(i + 1, tracers \o l)
    BY <1>1, <1>5, <1>6 DEF JoinedOK
<1>8. CASE o.kind = "tracers"
    BY <1>3, <1>7, <1>8
<1>9. CASE o.kind = "logger"
  <2>1. tracers \o <<o.logger>> = Append(tracers, o.logger)
    <3>1. \A S : \A t \in Seq(S) : \A e \in S : t \o <<e>> = Append(t, e)
        OBVIOUS
    <3>2. o.logger \in Tracers \cup {Nil}
        BY <1>3, <1>9
    <3> QED  BY <1>4, <3>1, <3>2
  <2> QED  BY <1>3, <1>7, <1>9, <2>1
<1>10. CASE o.kind # "tracers" /\ o.kind # "logger"
  <2>1. tracers \o <<>> = tracers
      BY <1>4
  <2> QED  BY <1>3, <1>7, <1>10, <2>1
<1> QED  BY <1>8, <1>9, <1>10

\* The settings after the first i options.
FoldOK(i) ==
    \E name, labels, tracers, metered :
        /\ settings[i] = Settings(name, labels, tracers, metered)
        /\ NameOK(i, name) /\ LabelsOK(i, labels) /\ JoinedOK(i, tracers)

LEMMA FoldFirst == ASSUME OptionsOK PROVE FoldOK(0)
<1>1. 0 \in 0..Len(options)
    BY DEF OptionsOK
<1>2. settings[0] = [name |-> <<>>, labels |-> <<>>, tracers |-> <<>>, metrics |-> FALSE]
    BY ONLY <1>1, SettingsDef, OptionsOK DEF defaultSettings
<1>3. NameOK(0, <<>>)
    BY DEF NameOK
<1>4. LabelsOK(0, <<>>)
  <2>1. <<>> = [k \in DOMAIN <<>> |-> <<>>[k]] /\ DOMAIN <<>> = {}
      OBVIOUS
  <2> QED  BY <2>1 DEF LabelsOK, KeyOK
<1>5. JoinedOK(0, <<>>)
    BY DEF JoinedOK
<1> QED  BY <1>2, <1>3, <1>4, <1>5 DEF FoldOK, Settings

LEMMA FoldStep ==
    ASSUME OptionsOK, HeapOK, NEW i \in 0..(Len(options) - 1), FoldOK(i),
           options[i + 1].kind # "nil"
    PROVE  FoldOK(i + 1)
<1>1. PICK name, labels, tracers, metered :
        /\ settings[i] = Settings(name, labels, tracers, metered)
        /\ NameOK(i, name) /\ LabelsOK(i, labels) /\ JoinedOK(i, tracers)
    BY DEF FoldOK
<1>2. PICK o : o = options[i + 1]
    OBVIOUS
<1>3. i \in Nat /\ i + 1 \in 1..Len(options) /\ i + 1 \in 0..Len(options)
    BY ListsFacts
<1>4. OptionOK(o)
    BY <1>2, <1>3 DEF OptionsOK
<1>5. PICK s : s = settings[i]
    OBVIOUS
<1>6. settings[i + 1] = apply(s, o)
  <2>1. i + 1 # 0 /\ i + 1 - 1 = i
      BY <1>3
  <2> QED  BY ONLY <1>2, <1>3, <1>5, <2>1, SettingsDef, OptionsOK
<1>a. settings[i + 1] = After(name, labels, tracers, metered, o)
  <2>1. o.kind # "nil"
      BY <1>2
  <2>2. s = Settings(name, labels, tracers, metered)
      BY <1>1, <1>5
  <2>3. apply(Settings(name, labels, tracers, metered), o)
           = After(name, labels, tracers, metered, o)
      BY ONLY <1>4, <2>1, ApplyFacts
  <2> QED  BY ONLY <1>6, <2>2, <2>3
<1>8. NameOK(i + 1, IF o.kind = "name" THEN o.name ELSE name)
    BY <1>1, <1>2, <1>3, NameStep
<1>9. LabelsOK(i + 1, IF o.kind = "label" THEN Over(Entry(o.key, o.value), labels)
                      ELSE IF o.kind = "labels" THEN Over(o.meant, labels)
                      ELSE labels)
    BY <1>1, <1>2, <1>3, <1>4, LabelsStep
<1>10. JoinedOK(i + 1, IF o.kind = "tracers" THEN tracers \o heap[TracersArgument]
                       ELSE IF o.kind = "logger" THEN Append(tracers, o.logger)
                       ELSE tracers)
    BY <1>1, <1>2, JoinedStep
<1> QED  BY ONLY <1>a, <1>8, <1>9, <1>10 DEF FoldOK, After

LEMMA FoldLast ==
    ASSUME OptionsOK, HeapOK, \A i \in 1..Len(options) : options[i].kind # "nil"
    PROVE  FoldOK(Len(options))
<1> DEFINE D == {i \in 0..Len(options) : ~FoldOK(i)}
<1>0. Len(options) \in Nat
    BY ListsFacts
<1>1. D = {}
  <2>1. SUFFICES ASSUME D # {} PROVE FALSE
      OBVIOUS
  <2>2. PICK i \in D : \A j \in D : i <= j
    <3>1. D \subseteq Nat
        OBVIOUS
    <3> HIDE DEF D
    <3> QED  BY <2>1, <3>1, Smallest
  <2>3. i # 0
      BY <2>2, FoldFirst
  <2>4. PICK j \in 0..(Len(options) - 1) : i = j + 1
      BY <1>0, <2>2, <2>3, i - 1 \in 0..(Len(options) - 1)
  <2>5. FoldOK(j)
      BY <1>0, <2>2, <2>4, ~(i <= j)
  <2>6. options[j + 1].kind # "nil"
      BY <1>0, <2>4
  <2>7. FoldOK(j + 1)
      BY <2>5, <2>6, FoldStep
  <2> QED  BY <2>2, <2>4, <2>7
<1> QED  BY <1>0, <1>1

LEMMA LargestOf ==
    ASSUME NEW T, T \subseteq Int, NEW j \in T, \A l \in T : l <= j
    PROVE  Max(T) = j
<1>1. \A x \in T : (\A y \in T : x >= y) <=> x = j
    BY \A l \in T : l \in Int /\ j \in Int
<1> QED  BY <1>1 DEF Max

\* What the fold arrives at is what the options ask for.
LEMMA NameAgrees ==
    ASSUME OptionsOK, HeapOK, \A i \in 1..Len(options) : Applies(options[i]),
           NEW name, NameOK(Len(options), name)
    PROVE  AskedName = IF name # <<>> THEN name ELSE DefaultName(setConfig.endpoint)
<1>0. Len(options) \in Nat /\ DOMAIN options = 1..Len(options)
    BY ListsFacts
<1>1. CASE \A j \in 1..Len(options) : options[j].kind # "name"
  <2>1. OfKind("name") = {}
      BY <1>0, <1>1 DEF OfKind
  <2>2. name = <<>>
      BY <1>1 DEF NameOK
  <2> QED  BY <2>1, <2>2 DEF AskedName
<1>2. CASE ~\A j \in 1..Len(options) : options[j].kind # "name"
  <2>1. PICK j \in 1..Len(options) :
              /\ options[j].kind = "name" /\ name = options[j].name
              /\ \A l \in (j + 1)..Len(options) : options[l].kind # "name"
      BY <1>2 DEF NameOK
  <2>2. /\ OfKind("name") \subseteq Int /\ j \in OfKind("name")
        /\ \A l \in OfKind("name") : l <= j
    <3>1. ASSUME NEW l \in OfKind("name") PROVE l <= j
      <4>1. l \in 1..Len(options) /\ options[l].kind = "name"
          BY <1>0 DEF OfKind
      <4>2. l \notin (j + 1)..Len(options)
          BY <2>1, <4>1
      <4> QED  BY <1>0, <4>1, <4>2
    <3> QED  BY <1>0, <2>1, <3>1 DEF OfKind
  <2>3. Max(OfKind("name")) = j /\ OfKind("name") # {}
      BY <2>2, LargestOf
  <2>4. name # <<>>
      BY <2>1 DEF Applies
  <2> QED  BY <2>1, <2>3, <2>4 DEF AskedName
<1> QED  BY <1>1, <1>2

LEMMA LabelsAgree ==
    ASSUME OptionsOK, HeapOK, NEW labels, LabelsOK(Len(options), labels)
    PROVE  labels = AskedLabels
<1>0. Len(options) \in Nat /\ DOMAIN options = 1..Len(options)
    BY ListsFacts
<1>1. ASSUME NEW k
      PROVE  k \in UNION {KeysOf(o) : o \in ToSet(options)}
                <=> \E j \in 1..Len(options) : k \in KeysOf(options[j])
    BY <1>0 DEF ToSet
<1>2. ASSUME NEW k
      PROVE  k \in DOMAIN labels <=> \E j \in 1..Len(options) : k \in KeysOf(options[j])
    BY DEF LabelsOK, KeyOK
<1>3. DOMAIN labels = UNION {KeysOf(o) : o \in ToSet(options)}
    BY <1>1, <1>2
<1>4. ASSUME NEW k \in DOMAIN labels
      PROVE  labels[k] = LET o == options[Max(Setting(k))]
                         IN  IF o.kind = "label" THEN o.value ELSE o.meant[k]
  <2>1. PICK j \in 1..Len(options) :
              /\ k \in KeysOf(options[j]) /\ labels[k] = ValueOf(options[j], k)
              /\ \A l \in (j + 1)..Len(options) : k \notin KeysOf(options[l])
      BY DEF LabelsOK, KeyOK
  <2>2. /\ Setting(k) \subseteq Int /\ j \in Setting(k)
        /\ \A l \in Setting(k) : l <= j
    <3>1. ASSUME NEW l \in Setting(k) PROVE l <= j
      <4>1. l \in 1..Len(options) /\ k \in KeysOf(options[l])
          BY <1>0 DEF Setting
      <4>2. l \notin (j + 1)..Len(options)
          BY <2>1, <4>1
      <4> QED  BY <1>0, <4>1, <4>2
    <3> QED  BY <1>0, <2>1, <3>1 DEF Setting
  <2>3. Max(Setting(k)) = j
      BY <2>2, LargestOf
  <2> QED  BY <2>1, <2>3 DEF ValueOf
<1>5. labels = [k \in DOMAIN labels |-> labels[k]]
    BY DEF LabelsOK
<1> QED  BY <1>3, <1>4, <1>5 DEF AskedLabels

LEMMA TracersAgree ==
    ASSUME OptionsOK, HeapOK, NEW tracers, JoinedOK(Len(options), tracers)
    PROVE  AskedTracers = IF tracers = <<>> THEN setConfig.tracers ELSE tracers
<1>0. Len(options) \in Nat /\ Len(Lists) = Len(options) /\ DOMAIN Lists = 1..Len(options)
    BY ListsFacts
<1>1. AskedTracers = IF FlattenSeq(Lists) = <<>> THEN setConfig.tracers ELSE FlattenSeq(Lists)
    BY DEF AskedTracers, Lists
<1>2. FlattenSeq(Lists) = IF Len(Lists) = 0 THEN Lists ELSE Joined[Len(Lists)]
    BY DEF FlattenSeq, Joined
<1>3. CASE Len(options) = 0
  <2>1. Lists = <<>>
      BY <1>0, <1>3 DEF Lists
  <2> QED  BY <1>0, <1>1, <1>2, <1>3, <2>1 DEF JoinedOK
<1>4. CASE Len(options) # 0
    BY <1>0, <1>1, <1>2, <1>4 DEF JoinedOK
<1> QED  BY <1>3, <1>4

\* What New takes from the options is what they ask for.
LEMMA SettingsAgree ==
    ASSUME OptionsOK, HeapOK, \A i \in 1..Len(options) : Applies(options[i]),
           config = setConfig
    PROVE  /\ poolName(applyOptions, config.endpoint) = AskedName
           /\ applyOptions.labels = AskedLabels
           /\ AskedTracers = IF applyOptions.tracers = <<>> THEN config.tracers
                                                            ELSE applyOptions.tracers
<1>1. \A i \in 1..Len(options) : options[i].kind # "nil"
    BY DEF Applies
<1>2. PICK name, labels, tracers, metered :
        /\ settings[Len(options)] = Settings(name, labels, tracers, metered)
        /\ NameOK(Len(options), name) /\ LabelsOK(Len(options), labels)
        /\ JoinedOK(Len(options), tracers)
    BY <1>1, FoldLast DEF FoldOK
<1>3. /\ applyOptions.name = name /\ applyOptions.labels = labels
      /\ applyOptions.tracers = tracers
    BY <1>2 DEF applyOptions, Settings
<1>4. AskedName = IF name # <<>> THEN name ELSE DefaultName(setConfig.endpoint)
    BY <1>2, NameAgrees
<1>5. labels = AskedLabels
    BY <1>2, LabelsAgree
<1>6. AskedTracers = IF tracers = <<>> THEN setConfig.tracers ELSE tracers
    BY <1>2, TracersAgree
<1> QED  BY <1>3, <1>4, <1>5, <1>6 DEF poolName

-----------------------------------------------------------------------------
(* Metadata: the inductive invariant. *)

PoolsOK ==
    /\ DOMAIN pc = PoolIndices /\ DOMAIN pool = PoolIndices /\ DOMAIN asked = PoolIndices
    /\ \A p \in PoolIndices :
          pc[p] \notin {"none", "failed"} =>
              /\ pool[p].labels \in 4..Len(heap)
              /\ pool[p].name = asked[p].name
              /\ heap[pool[p].labels] = asked[p].labels
              /\ pool[p].tracers = asked[p].tracers

\* The replica p of the cluster is described by info.
Describes(info, p) ==
    /\ p \in Returned
    /\ info.labels \in 4..Len(heap)
    /\ info.name = asked[p].name
    /\ heap[info.labels] = asked[p].labels

ClusterOK ==
    cluster # Nil =>
        /\ cluster.replicas \in 4..Len(heap)
        /\ cluster.labels \in 4..Len(heap)
        /\ heap[cluster.replicas] = askedCluster.replicas
        /\ heap[cluster.labels] = askedCluster.labels
        /\ DOMAIN cluster.metadata = DOMAIN askedCluster.replicas
        /\ \A i \in DOMAIN cluster.metadata :
              Describes(cluster.metadata[i], askedCluster.replicas[i])

MetadataInv ==
    /\ plan \in Seq(Requests)
    /\ config = setConfig
    /\ HeapOK
    /\ OptionsOK
    /\ PoolsOK
    /\ ClusterOK

LEMMA MetadataInvInit == MetadataInit => MetadataInv
<1> SUFFICES ASSUME MetadataInit PROVE MetadataInv
    OBVIOUS
<1>1. plan \in Seq(Requests) /\ config = setConfig
    BY PlansAssumption DEF MetadataInit
<1>2. HeapOK
  <2>1. heap \in Seq({FirstLabels, <<>>, FirstTracers}) /\ Len(heap) = 3
        /\ heap[3] = FirstTracers
      BY DEF MetadataInit
  <2> QED  BY <2>1, PlansAssumption DEF HeapOK, TracersArgument
<1>3. OptionsOK
  <2>1. options \in Seq({}) /\ Len(options) = 0
      BY DEF MetadataInit
  <2> QED  BY <2>1 DEF OptionsOK
<1>4. PoolsOK /\ ClusterOK
    BY DEF MetadataInit, PoolsOK, ClusterOK
<1> QED  BY <1>1, <1>2, <1>3, <1>4 DEF MetadataInv

LEMMA AppendFacts ==
    ASSUME NEW S, NEW s \in Seq(S), NEW e, NEW new, new = Append(s, e)
    PROVE  /\ new \in Seq(S \cup {e})
           /\ Len(s) \in Nat
           /\ Len(new) = Len(s) + 1
           /\ \A i \in 1..Len(s) : new[i] = s[i]
           /\ new[Len(s) + 1] = e
<1>1. s \in Seq(S \cup {e}) /\ e \in S \cup {e}
    OBVIOUS
<1>2. new \in Seq(S \cup {e})
    BY <1>1
<1> QED  BY <1>1, <1>2

\* What the caller cannot write to stays as it is.
Grows ==
    /\ HeapOK'
    /\ Len(heap) <= Len(heap')
    /\ \A r \in 4..Len(heap) : heap'[r] = heap[r]

LEMMA GrowsByOne ==
    ASSUME HeapOK, NEW e, heap' = Append(heap, e)
    PROVE  /\ Grows
           /\ Len(heap') = Len(heap) + 1
           /\ Len(heap) + 1 \in 4..Len(heap')
           /\ heap'[Len(heap) + 1] = e
<1>1. /\ \E S : heap' \in Seq(S)
      /\ Len(heap) \in Nat /\ Len(heap) >= 3
      /\ Len(heap') = Len(heap) + 1
      /\ \A i \in 1..Len(heap) : heap'[i] = heap[i]
      /\ heap'[Len(heap) + 1] = e
  <2>1. PICK S : heap \in Seq(S)
      BY DEF HeapOK
  <2>2. PICK s, new : s = heap /\ new = heap'
      OBVIOUS
  <2>3. s \in Seq(S) /\ new = Append(s, e)
      BY <2>1, <2>2
  <2>4. /\ new \in Seq(S \cup {e})
        /\ Len(s) \in Nat
        /\ Len(new) = Len(s) + 1
        /\ \A i \in 1..Len(s) : new[i] = s[i]
        /\ new[Len(s) + 1] = e
      BY ONLY <2>3, AppendFacts
  <2> QED  BY <2>2, <2>4 DEF HeapOK
<1>2. 3 \in 1..Len(heap) /\ \A r \in 4..Len(heap) : r \in 1..Len(heap)
    BY <1>1
<1>3. HeapOK'
    BY <1>1, <1>2 DEF HeapOK, TracersArgument
<1> QED  BY <1>1, <1>2, <1>3 DEF Grows

\* One of the caller's three is replaced.
LEMMA GrowsByNone ==
    ASSUME HeapOK, NEW a \in 1..3, NEW e, heap' = [heap EXCEPT ![a] = e],
           a = 3 => e \in Seq(Tracers \cup {Nil})
    PROVE  Grows
<1>1. PICK S : heap \in Seq(S)
    BY DEF HeapOK
<1>2. Len(heap) \in Nat /\ Len(heap) >= 3 /\ DOMAIN heap = 1..Len(heap)
    BY <1>1 DEF HeapOK
<1>3. heap' \in Seq(S \cup {e}) /\ Len(heap') = Len(heap)
    BY <1>1, <1>2
<1>4. \A i \in 1..Len(heap) : heap'[i] = IF i = a THEN e ELSE heap[i]
    BY <1>2
<1>5. heap'[3] \in Seq(Tracers \cup {Nil})
    BY <1>2, <1>4 DEF HeapOK, TracersArgument
<1> QED  BY <1>2, <1>3, <1>4, <1>5 DEF HeapOK, Grows, TracersArgument

LEMMA GrowsUnchanged == ASSUME HeapOK, UNCHANGED heap PROVE Grows
<1>1. Len(heap) \in Nat
    BY DEF HeapOK
<1> QED  BY <1>1 DEF Grows, HeapOK

LEMMA OptionsKept == ASSUME OptionsOK, HeapOK, Grows, UNCHANGED options PROVE OptionsOK'
<1>1. Len(heap) \in Nat /\ Len(heap') \in Nat /\ \A r \in 4..Len(heap) : r \in 4..Len(heap')
    BY DEF HeapOK, Grows
<1>2. ASSUME NEW i \in 1..Len(options) PROVE OptionOK(options[i])'
  <2>1. OptionOK(options[i])
      BY DEF OptionsOK
  <2>2. PICK o : o = options[i] /\ o = options'[i]
      OBVIOUS
  <2> QED  BY <1>1, <2>1, <2>2 DEF OptionOK, Grows
<1> QED  BY <1>2 DEF OptionsOK

\* The caller has made one more option.
LEMMA OptionsOneMore ==
    ASSUME OptionsOK, HeapOK, Grows, NEW o, options' = Append(options, o), OptionOK(o)'
    PROVE  OptionsOK'
<1>1. Len(heap) \in Nat /\ Len(heap') \in Nat /\ \A r \in 4..Len(heap) : r \in 4..Len(heap')
    BY DEF HeapOK, Grows
<1>2. /\ \E S : options' \in Seq(S)
      /\ Len(options) \in Nat /\ Len(options') = Len(options) + 1
      /\ \A i \in 1..Len(options) : options'[i] = options[i]
      /\ options'[Len(options) + 1] = o
  <2>1. PICK S : options \in Seq(S)
      BY DEF OptionsOK
  <2>2. PICK s, new : s = options /\ new = options'
      OBVIOUS
  <2>3. s \in Seq(S) /\ new = Append(s, o)
      BY <2>1, <2>2
  <2>4. /\ new \in Seq(S \cup {o})
        /\ Len(s) \in Nat
        /\ Len(new) = Len(s) + 1
        /\ \A i \in 1..Len(s) : new[i] = s[i]
        /\ new[Len(s) + 1] = o
      BY ONLY <2>3, AppendFacts
  <2> QED  BY <2>2, <2>4
<1>3. ASSUME NEW i \in 1..Len(options') PROVE OptionOK(options[i])'
  <2>1. CASE i = Len(options) + 1
      BY <1>2, <2>1 DEF OptionOK
  <2>2. CASE i # Len(options) + 1
    <3>1. i \in 1..Len(options)
        BY <1>2, <2>2
    <3>2. OptionOK(options[i])
        BY <3>1 DEF OptionsOK
    <3>3. PICK p : p = options[i] /\ p = options'[i]
        BY <1>2, <3>1
    <3> QED  BY <1>1, <3>2, <3>3 DEF OptionOK, Grows
  <2> QED  BY <2>1, <2>2
<1> QED  BY <1>2, <1>3 DEF OptionsOK

\* Pools that are there stay there, and those returned stay returned.
Advances ==
    /\ DOMAIN pc' = PoolIndices
    /\ \A p \in PoolIndices :
          /\ pc[p] \in {"none", "failed"} => pc'[p] \in {"none", "failed"}
          /\ p \in Returned => p \in Returned'

LEMMA PoolsKept ==
    ASSUME PoolsOK, HeapOK, Grows, Advances, UNCHANGED <<pool, asked>> PROVE PoolsOK'
<1>1. Len(heap) \in Nat /\ Len(heap') \in Nat /\ \A r \in 4..Len(heap) : r \in 4..Len(heap')
    BY DEF HeapOK, Grows
<1> QED  BY <1>1 DEF PoolsOK, Grows, Advances

\* The pools that have been returned are described as they were.
StillAsked == \A p \in Returned : p \in Returned' /\ asked'[p] = asked[p]

LEMMA ClusterKept ==
    ASSUME ClusterOK, HeapOK, Grows, StillAsked, UNCHANGED <<cluster, askedCluster>>
    PROVE  ClusterOK'
<1> SUFFICES ASSUME cluster # Nil PROVE ClusterOK'
    BY DEF ClusterOK
<1>1. Len(heap) \in Nat /\ Len(heap') \in Nat /\ \A r \in 4..Len(heap) : r \in 4..Len(heap')
    BY DEF HeapOK, Grows
<1>2. ASSUME NEW info, NEW p, Describes(info, p) PROVE Describes(info, p)'
    BY <1>1, <1>2 DEF Describes, Grows, StillAsked
<1>3. \A i \in DOMAIN cluster.metadata :
            Describes(cluster.metadata[i], askedCluster.replicas[i])'
    BY <1>2 DEF ClusterOK
<1>4. /\ cluster.replicas \in 4..Len(heap') /\ cluster.labels \in 4..Len(heap')
      /\ heap'[cluster.replicas] = askedCluster.replicas
      /\ heap'[cluster.labels] = askedCluster.labels
      /\ DOMAIN cluster.metadata = DOMAIN askedCluster.replicas
    BY <1>1 DEF ClusterOK, Grows
<1> QED  BY <1>3, <1>4 DEF ClusterOK

\* A step that neither makes an option, nor a pool, nor a cluster.
LEMMA RestKept ==
    ASSUME MetadataInv, Grows, Advances,
           UNCHANGED <<plan, options, pool, cluster, asked, askedCluster>>,
           config' = setConfig'
    PROVE  MetadataInv'
<1>1. OptionsOK'
    BY OptionsKept DEF MetadataInv
<1>2. PoolsOK'
    BY PoolsKept DEF MetadataInv
<1>3. ClusterOK'
  <2>1. StillAsked
      BY DEF Advances, StillAsked, Returned
  <2> QED  BY <2>1, ClusterKept DEF MetadataInv
<1> QED  BY <1>1, <1>2, <1>3 DEF MetadataInv, Grows

\* new is s and then t, of elements of S.
Concatenation(S, s, t, new) ==
    /\ new \in Seq(S)
    /\ Len(s) \in Nat /\ Len(t) \in Nat
    /\ Len(new) = Len(s) + Len(t)
    /\ \A i \in 1..Len(s) : new[i] = s[i]
    /\ \A i \in 1..Len(t) : new[Len(s) + i] = t[i]

LEMMA JoinFacts ==
    ASSUME NEW S, NEW s \in Seq(S), NEW t \in Seq(S), NEW new, new = s \o t
    PROVE  Concatenation(S, s, t, new)
<1>1. /\ new \in Seq(S) /\ Len(new) = Len(s) + Len(t)
      /\ Len(s) \in Nat /\ Len(t) \in Nat
      /\ \A i \in 1..(Len(s) + Len(t)) :
            new[i] = IF i <= Len(s) THEN s[i] ELSE t[i - Len(s)]
    BY ConcatProperties
<1>2. ASSUME NEW i \in 1..Len(t) PROVE new[Len(s) + i] = t[i]
  <2>1. /\ Len(s) + i \in 1..(Len(s) + Len(t)) /\ ~(Len(s) + i <= Len(s))
        /\ Len(s) + i - Len(s) = i
      BY <1>1
  <2> QED  BY <1>1, <2>1
<1> QED  BY <1>1, <1>2 DEF Concatenation

\* What cluster.New writes to the heap.
GrowsTo(n, replicas, labels, f) ==
    /\ Grows
    /\ Len(heap') = Len(heap) + 2 + n
    /\ heap'[Len(heap) + 1] = replicas /\ heap'[Len(heap) + 2] = labels
    /\ \A i \in 1..n : heap'[Len(heap) + 2 + i] = f[i]

LEMMA GrowsByCluster ==
    ASSUME HeapOK, NEW n \in Nat, NEW replicas, NEW labels, NEW f, f = [i \in 1..n |-> f[i]],
           heap' = [heap EXCEPT ![ReplicasArgument] = replicas] \o <<replicas, labels>> \o f
    PROVE  GrowsTo(n, replicas, labels, f)
<1>1. PICK T : heap \in Seq(T)
    BY DEF HeapOK
<1>s. PICK S : S = T \cup {replicas, labels} \cup {f[i] : i \in 1..n}
    OBVIOUS
<1>2. PICK h : h = [heap EXCEPT ![ReplicasArgument] = replicas]
    OBVIOUS
<1>3. PICK two : two = <<replicas, labels>>
    OBVIOUS
<1>4. PICK g : g = h \o two
    OBVIOUS
<1>5. PICK new : new = heap' /\ new = g \o f
    BY <1>2, <1>3, <1>4
<1>6. Len(heap) \in Nat /\ Len(heap) >= 3 /\ DOMAIN heap = 1..Len(heap)
    BY <1>1 DEF HeapOK
<1>7. /\ h \in Seq(S) /\ Len(h) = Len(heap)
      /\ \A i \in 1..Len(heap) : h[i] = IF i = 2 THEN replicas ELSE heap[i]
    BY <1>1, <1>2, <1>6, <1>s DEF ReplicasArgument
<1>8. two \in Seq(S) /\ Len(two) = 2 /\ two[1] = replicas /\ two[2] = labels
    BY <1>3, <1>s
<1>9. f \in Seq(S) /\ Len(f) = n
  <2>1. f \in [1..n -> S]
      BY <1>s
  <2> QED  BY <2>1
<1>10. /\ g \in Seq(S) /\ Len(g) = Len(heap) + 2
       /\ \A i \in 1..Len(heap) : g[i] = h[i]
       /\ \A i \in 1..2 : g[Len(heap) + i] = two[i]
  <2>1. Concatenation(S, h, two, g)
      BY ONLY <1>4, <1>7, <1>8, JoinFacts
  <2> QED  BY <1>7, <1>8, <2>1 DEF Concatenation
<1>11. /\ new \in Seq(S) /\ Len(new) = Len(heap) + 2 + n
       /\ \A i \in 1..(Len(heap) + 2) : new[i] = g[i]
       /\ \A i \in 1..n : new[Len(heap) + 2 + i] = f[i]
  <2>1. Concatenation(S, g, f, new)
      BY ONLY <1>5, <1>9, <1>10, JoinFacts
  <2> QED  BY <1>9, <1>10, <2>1 DEF Concatenation
<1>12. new[Len(heap) + 1] = replicas /\ new[Len(heap) + 2] = labels
  <2>1. new[Len(heap) + 1] = two[1] /\ new[Len(heap) + 2] = two[2]
      BY <1>6, <1>10, <1>11
  <2> QED  BY <1>8, <2>1
<1>13. \A i \in 1..Len(heap) : new[i] = IF i = 2 THEN replicas ELSE heap[i]
    BY <1>6, <1>7, <1>10, <1>11
<1>14. Grows
  <2>1. new[3] = heap[3] /\ \A r \in 4..Len(heap) : new[r] = heap[r]
      BY ONLY <1>6, <1>13
  <2>2. Len(heap) <= Len(new) /\ Len(new) >= 3
      BY ONLY <1>6, <1>11, n \in Nat
  <2>3. HeapOK'
      BY ONLY <1>5, <1>11, <2>1, <2>2, HeapOK DEF HeapOK, TracersArgument
  <2> QED  BY ONLY <1>5, <2>1, <2>2, <2>3 DEF Grows
<1> QED  BY ONLY <1>5, <1>11, <1>12, <1>14 DEF GrowsTo

-----------------------------------------------------------------------------
(* Metadata: the steps. *)

LEMMA OptionStep ==
    ASSUME MetadataInv, WithValue \/ WithLabels \/ WithTracers PROVE MetadataInv'
<1>0. /\ plan \in Seq(Requests) /\ config = setConfig
      /\ HeapOK /\ OptionsOK /\ PoolsOK /\ ClusterOK
    BY DEF MetadataInv
<1>1. ASSUME NEW o, AddOption(o), Grows, OptionOK(o)' PROVE MetadataInv'
  <2>1. OptionsOK'
      BY <1>0, <1>1, OptionsOneMore DEF AddOption
  <2>2. UNCHANGED <<plan, config, setConfig, pc, pool, asked, cluster, askedCluster>>
      BY <1>1 DEF AddOption
  <2>3. Advances /\ StillAsked
      BY <1>0, <2>2 DEF Advances, StillAsked, Returned, PoolsOK
  <2>4. PoolsOK' /\ ClusterOK'
      BY <1>0, <1>1, <2>2, <2>3, PoolsKept, ClusterKept
  <2> QED  BY <1>0, <1>1, <2>1, <2>2, <2>4 DEF MetadataInv, Grows
<1>2. CASE WithValue
  <2>1. PICK o : o = Request
      OBVIOUS
  <2>2. o \in Requests /\ o.kind \in {"name", "label", "logger", "metrics", "nil"}
    <3>1. PICK kind \in {"name", "label", "logger", "metrics", "nil"} : Planned(kind)
        BY <1>2 DEF WithValue
    <3>2. OptionsOK
        BY <1>0
    <3>3. Len(options) \in Nat /\ Len(plan) \in Nat
        BY <1>0 DEF OptionsOK
    <3>4. Len(options) + 1 \in 1..Len(plan)
        BY <3>1, <3>3 DEF Planned
    <3>5. plan[Len(options) + 1] \in Requests
        BY <1>0, <3>4
    <3> QED  BY <2>1, <3>1, <3>5 DEF Planned, Request
  <2>3. o.kind = "logger" => o.logger \in Tracers \cup {Nil}
      BY <2>2 DEF Requests
  <2>4. OptionOK(o)'
      BY <2>2, <2>3 DEF OptionOK, Kinds
  <2>5. AddOption(o) /\ Grows
      BY <1>0, <1>2, <2>1, GrowsUnchanged DEF WithValue
  <2> QED  BY <1>1, <2>4, <2>5
<1>3. CASE WithLabels
  <2>1. PICK o : o = [kind |-> "labels", labels |-> Len(heap) + 1,
                      meant |-> heap[LabelsArgument]]
      OBVIOUS
  <2>2. AddOption(o) /\ heap' = Append(heap, heap[LabelsArgument])
      BY <1>3, <2>1 DEF WithLabels
  <2>3. PICK e : e = heap[LabelsArgument]
      OBVIOUS
  <2>4. heap' = Append(heap, e)
      BY <2>2, <2>3
  <2>5. /\ Grows /\ Len(heap) + 1 \in 4..Len(heap')
        /\ heap'[Len(heap) + 1] = e
      BY <1>0, <2>4, GrowsByOne
  <2>6. OptionOK(o)'
      BY <2>1, <2>3, <2>5 DEF OptionOK, Kinds
  <2> QED  BY <1>1, <2>2, <2>5, <2>6
<1>4. CASE WithTracers
  <2>1. PICK o : o = [kind |-> "tracers", tracers |-> TracersArgument]
      OBVIOUS
  <2>2. AddOption(o) /\ Grows
      BY <1>0, <1>4, <2>1, GrowsUnchanged DEF WithTracers
  <2>3. OptionOK(o)'
      BY <2>1 DEF OptionOK, Kinds
  <2> QED  BY <1>1, <2>2, <2>3
<1> QED  BY <1>2, <1>3, <1>4

LEMMA NewStep == ASSUME MetadataInv, NEW p \in PoolIndices, New(p) PROVE MetadataInv'
<1>0. /\ plan \in Seq(Requests) /\ config = setConfig
      /\ HeapOK /\ OptionsOK /\ PoolsOK /\ ClusterOK
    BY DEF MetadataInv
<1>1. /\ pc[p] = "none"
      /\ UNCHANGED <<plan, config, options, cluster, setConfig, askedCluster>>
    BY DEF New, Due
<1>2. /\ poolName(applyOptions, config.endpoint) = AskedName
      /\ applyOptions.labels = AskedLabels
      /\ AskedTracers = IF applyOptions.tracers = <<>> THEN config.tracers
                                                       ELSE applyOptions.tracers
  <2>1. DOMAIN options = 1..Len(options)
      BY <1>0 DEF OptionsOK
  <2>2. \A i \in 1..Len(options) : Applies(options[i])
      BY <2>1 DEF New
  <2> QED  BY <1>0, <2>2, SettingsAgree
<1>3. PICK labels : labels = applyOptions.labels
    OBVIOUS
<1>4. heap' = Append(heap, labels)
    BY <1>3 DEF New
<1>5. /\ Grows /\ Len(heap) + 1 \in 4..Len(heap') /\ heap'[Len(heap) + 1] = labels
    BY <1>0, <1>4, GrowsByOne
<1>6. OptionsOK'
    BY <1>0, <1>1, <1>5, OptionsKept
<1>7. PICK made, wanted :
        /\ pool' = [pool EXCEPT ![p] = made] /\ asked' = [asked EXCEPT ![p] = wanted]
        /\ made.labels = Len(heap) + 1 /\ made.name = wanted.name
        /\ wanted.labels = labels /\ made.tracers = wanted.tracers
  <2> DEFINE made == [name |-> poolName(applyOptions, config.endpoint),
                      labels |-> Len(heap) + 1,
                      tracers |-> IF applyOptions.tracers = <<>> THEN config.tracers
                                                                 ELSE applyOptions.tracers]
             wanted == [name |-> AskedName, labels |-> AskedLabels, tracers |-> AskedTracers]
  <2>1. pool' = [pool EXCEPT ![p] = made] /\ asked' = [asked EXCEPT ![p] = wanted]
      BY DEF New
  <2>2. /\ made.labels = Len(heap) + 1 /\ made.name = wanted.name
        /\ wanted.labels = labels /\ made.tracers = wanted.tracers
      BY <1>2, <1>3
  <2> QED  BY <2>1, <2>2
<1>8. PICK state \in {"registering", "open"} : pc' = [pc EXCEPT ![p] = state]
    BY DEF New
<1>9. PoolsOK'
  <2>1. Len(heap) \in Nat /\ Len(heap') \in Nat /\ \A r \in 4..Len(heap) : r \in 4..Len(heap')
      BY <1>0, <1>5 DEF HeapOK, Grows
  <2>2. /\ DOMAIN pc' = PoolIndices /\ DOMAIN pool' = PoolIndices
        /\ DOMAIN asked' = PoolIndices
      BY <1>0, <1>7, <1>8 DEF PoolsOK
  <2>3. ASSUME NEW q \in PoolIndices, pc'[q] \notin {"none", "failed"}
        PROVE  /\ pool'[q].labels \in 4..Len(heap')
               /\ pool'[q].name = asked'[q].name
               /\ heap'[pool'[q].labels] = asked'[q].labels
               /\ pool'[q].tracers = asked'[q].tracers
    <3>1. CASE q = p
      <4>1. pool'[q] = made /\ asked'[q] = wanted
          BY <1>0, <1>7, <3>1 DEF PoolsOK
      <4> QED  BY <1>5, <1>7, <4>1
    <3>2. CASE q # p
      <4>1. pool'[q] = pool[q] /\ asked'[q] = asked[q] /\ pc'[q] = pc[q]
          BY <1>0, <1>7, <1>8, <3>2 DEF PoolsOK
      <4> QED  BY <1>0, <1>5, <2>1, <2>3, <4>1 DEF PoolsOK, Grows
    <3> QED  BY <3>1, <3>2
  <2> QED  BY <2>2, <2>3 DEF PoolsOK
<1>10. ClusterOK'
  <2>1. StillAsked
      BY <1>0, <1>1, <1>7, <1>8 DEF StillAsked, Returned, PoolsOK
  <2> QED  BY <1>0, <1>1, <1>5, <2>1, ClusterKept
<1> QED  BY <1>0, <1>1, <1>5, <1>6, <1>9, <1>10 DEF MetadataInv, Grows

\* What the slices of replicas are.
LEMMA ReplicaSlices ==
    ASSUME NEW S \in SUBSET PoolIndices, NEW replicas \in SetToSeqs(S)
    PROVE  \E n \in Nat : replicas \in [1..n -> S]
<1>1. IsFiniteSet(PoolIndices)
    BY BoundsAssumption, FS_Interval DEF PoolIndices
<1>2. IsFiniteSet(S)
    BY <1>1, FS_Subset
<1>3. Cardinality(S) \in Nat
    BY <1>2, FS_CardinalityType
<1> QED  BY <1>3 DEF SetToSeqs

LEMMA NewClusterStep ==
    ASSUME MetadataInv, NEW S \in SUBSET Returned, NEW replicas \in SetToSeqs(S),
           NewCluster(replicas)
    PROVE  MetadataInv'
<1>0. /\ plan \in Seq(Requests) /\ config = setConfig
      /\ HeapOK /\ OptionsOK /\ PoolsOK /\ ClusterOK
    BY DEF MetadataInv
<1>1. UNCHANGED <<plan, config, options, pc, pool, setConfig, asked>>
    BY DEF NewCluster
<1>2. PICK n \in Nat : replicas \in [1..n -> S]
  <2>1. S \in SUBSET PoolIndices
      BY DEF Returned
  <2> QED  BY <2>1, ReplicaSlices
<1>3. ASSUME NEW i \in 1..n
      PROVE  /\ replicas[i] \in Returned
             /\ pool[replicas[i]].labels \in 4..Len(heap)
             /\ pool[replicas[i]].name = asked[replicas[i]].name
             /\ heap[pool[replicas[i]].labels] = asked[replicas[i]].labels
  <2>1. replicas[i] \in Returned
      BY <1>2
  <2> QED  BY <1>0, <2>1 DEF PoolsOK, Returned
<1>4. PICK f, labels : /\ f = [i \in 1..n |-> heap[pool[replicas[i]].labels]]
                       /\ labels = heap[LabelsArgument]
    OBVIOUS
<1>5. heap' = [heap EXCEPT ![ReplicasArgument] = replicas] \o <<replicas, labels>> \o f
    BY <1>2, <1>4 DEF NewCluster
<1>6. /\ Grows
      /\ Len(heap') = Len(heap) + 2 + n
      /\ heap'[Len(heap) + 1] = replicas /\ heap'[Len(heap) + 2] = labels
      /\ \A i \in 1..n : heap'[Len(heap) + 2 + i] = f[i]
  <2>1. f = [i \in 1..n |-> f[i]]
      BY <1>4
  <2>2. GrowsTo(n, replicas, labels, f)
      BY <1>0, <1>5, <2>1, GrowsByCluster
  <2> QED  BY <2>2 DEF GrowsTo
<1>7. Len(heap) \in Nat /\ Len(heap) >= 3
    BY <1>0 DEF HeapOK
<1>8. OptionsOK'
    BY <1>0, <1>1, <1>6, OptionsKept
<1>9. PoolsOK'
  <2>1. Advances
      BY <1>0, <1>1 DEF Advances, Returned, PoolsOK
  <2> QED  BY <1>0, <1>1, <1>6, <2>1, PoolsKept
<1>10. ClusterOK'
  <2>1. PICK metadata :
            metadata = [i \in 1..n |-> [name |-> pool[replicas[i]].name,
                                        labels |-> Len(heap) + 2 + i]]
      OBVIOUS
  <2>2. /\ cluster' = [replicas |-> Len(heap) + 1, labels |-> Len(heap) + 2,
                       metadata |-> metadata]
        /\ askedCluster' = [replicas |-> replicas, labels |-> labels]
      BY <1>2, <1>4, <2>1 DEF NewCluster
  <2>3. ASSUME NEW i \in 1..n PROVE Describes(metadata[i], replicas[i])'
    <3>1. metadata[i].name = pool[replicas[i]].name /\ metadata[i].labels = Len(heap) + 2 + i
        BY <2>1
    <3>2. metadata[i].labels \in 4..Len(heap')
        BY <1>6, <1>7, <3>1
    <3>3. heap'[metadata[i].labels] = heap[pool[replicas[i]].labels]
        BY <1>4, <1>6, <3>1
    <3>4. replicas[i] \in Returned'
        BY <1>1, <1>3 DEF Returned
    <3> QED  BY <1>1, <1>3, <3>1, <3>2, <3>3, <3>4 DEF Describes
  <2>4. Len(heap) + 1 \in 4..Len(heap') /\ Len(heap) + 2 \in 4..Len(heap')
      BY <1>6, <1>7
  <2>5. DOMAIN metadata = 1..n /\ DOMAIN replicas = 1..n
      BY <1>2, <2>1
  <2> QED  BY <1>6, <2>2, <2>3, <2>4, <2>5 DEF ClusterOK
<1> QED  BY <1>0, <1>1, <1>6, <1>8, <1>9, <1>10 DEF MetadataInv, Grows

\* The caller writes behind a reference it holds.
LEMMA WriteStep ==
    ASSUME MetadataInv, WriteArgument \/ WriteResult \/ WriteConfig PROVE MetadataInv'
<1>0. HeapOK /\ PoolsOK /\ config = setConfig
    BY DEF MetadataInv
<1>1. UNCHANGED <<plan, options, pc, pool, cluster, asked, askedCluster>>
    BY DEF WriteArgument, WriteResult, WriteConfig
<1>2. Advances
    BY <1>0, <1>1 DEF Advances, Returned, PoolsOK
<1>3. config' = setConfig'
    BY <1>0 DEF WriteArgument, WriteResult, WriteConfig
<1>4. Grows
  <2>1. CASE WriteArgument
    <3>1. CASE \E k \in LabelKeys, v \in LabelValues :
                  heap' = [heap EXCEPT ![LabelsArgument] = Over(Entry(k, v), @)]
      <4>1. PICK e : heap' = [heap EXCEPT ![1] = e]
          BY <3>1 DEF LabelsArgument
      <4>2. 1 \in 1..3 /\ 1 # 3
          OBVIOUS
      <4> QED  BY <1>0, <4>1, <4>2, GrowsByNone
    <3>2. CASE \E t \in Tracers \cup {Nil} : heap' = [heap EXCEPT ![TracersArgument] = <<t>>]
      <4>1. PICK t \in Tracers \cup {Nil} : heap' = [heap EXCEPT ![3] = <<t>>]
          BY <3>2 DEF TracersArgument
      <4>2. PICK e : e = <<t>>
          OBVIOUS
      <4>3. e \in Seq(Tracers \cup {Nil}) /\ heap' = [heap EXCEPT ![3] = e]
          BY <4>1, <4>2
      <4>4. 3 \in 1..3
          OBVIOUS
      <4> QED  BY <1>0, <4>3, <4>4, GrowsByNone
    <3>3. CASE \E i \in DOMAIN heap[ReplicasArgument], p \in Returned :
                  heap' = [heap EXCEPT ![ReplicasArgument][i] = p]
      <4>1. PICK e : heap' = [heap EXCEPT ![2] = e]
          BY <3>3 DEF ReplicasArgument
      <4>2. 2 \in 1..3 /\ 2 # 3
          OBVIOUS
      <4> QED  BY <1>0, <4>1, <4>2, GrowsByNone
    <3> QED  BY <2>1, <3>1, <3>2, <3>3 DEF WriteArgument
  <2>2. CASE WriteResult
    <3>1. PICK r \in LabelMaps, k \in LabelKeys, v \in LabelValues :
              heap' = [Labels(r).heap EXCEPT ![Labels(r).ref] = Over(Entry(k, v), @)]
        BY <2>2 DEF WriteResult
    <3>2. PICK l, copy, e : l = heap[r] /\ copy = Append(heap, l)
                            /\ heap' = [copy EXCEPT ![Len(heap) + 1] = e]
        BY <3>1 DEF Labels
    <3>3. PICK S : heap \in Seq(S)
        BY <1>0 DEF HeapOK
    <3>4. heap \in Seq(S \cup {l, e}) /\ l \in S \cup {l, e} /\ e \in S \cup {l, e}
        BY <3>3
    <3>5. /\ copy \in Seq(S \cup {l, e}) /\ Len(copy) = Len(heap) + 1 /\ Len(heap) \in Nat
          /\ \A i \in 1..Len(heap) : copy[i] = heap[i]
        BY <3>2, <3>4
    <3>6. /\ heap' \in Seq(S \cup {l, e}) /\ Len(heap') = Len(heap) + 1
          /\ \A i \in 1..Len(heap) : heap'[i] = copy[i]
      <4>1. PICK n, new : n = Len(heap) /\ new = heap'
          OBVIOUS
      <4>2. /\ new = [copy EXCEPT ![n + 1] = e] /\ n \in Nat
            /\ copy \in Seq(S \cup {l, e}) /\ Len(copy) = n + 1
          BY ONLY <3>2, <3>5, <4>1
      <4>3. new \in Seq(S \cup {l, e}) /\ Len(new) = n + 1
          BY ONLY <3>4, <4>2
      <4>4. \A i \in 1..n : new[i] = copy[i]
          BY ONLY <4>2
      <4> QED  BY ONLY <4>1, <4>3, <4>4
    <3>7. \A i \in 1..Len(heap) : heap'[i] = heap[i]
        BY ONLY <3>5, <3>6
    <3>8. Len(heap) >= 3 /\ heap[3] \in Seq(Tracers \cup {Nil})
        BY <1>0 DEF HeapOK, TracersArgument
    <3>9. /\ Len(heap) <= Len(heap') /\ Len(heap') >= 3 /\ heap'[3] = heap[3]
          /\ \A i \in 4..Len(heap) : heap'[i] = heap[i]
        BY ONLY <3>5, <3>6, <3>7, <3>8
    <3> QED  BY ONLY <3>6, <3>8, <3>9 DEF Grows, HeapOK, TracersArgument
  <2>3. CASE WriteConfig
    <3>1. UNCHANGED heap
        BY <2>3 DEF WriteConfig
    <3> QED  BY <1>0, <3>1, GrowsUnchanged
  <2> QED  BY <2>1, <2>2, <2>3
<1> QED  BY <1>1, <1>2, <1>3, <1>4, RestKept

\* A step that only brings a pool along its way.
LEMMA ProgressStep ==
    ASSUME MetadataInv,
           UNCHANGED <<plan, heap, config, options, pool, cluster, setConfig, asked,
                       askedCluster>>,
           UNCHANGED pc \/ \E p \in PoolIndices :
              \/ /\ pc[p] = "none" /\ pc' = [pc EXCEPT ![p] = "failed"]
              \/ /\ pc[p] = "registering"
                 /\ \E state \in {"failed", "open"} : pc' = [pc EXCEPT ![p] = state]
              \/ /\ pc[p] \in {"open", "closing"}
                 /\ \E state \in {"closing", "closed"} : pc' = [pc EXCEPT ![p] = state]
    PROVE  MetadataInv'
<1>0. HeapOK /\ PoolsOK /\ config = setConfig
    BY DEF MetadataInv
<1>1. Advances
    BY <1>0 DEF Advances, Returned, PoolsOK
<1>2. Grows
    BY <1>0, GrowsUnchanged
<1> QED  BY <1>0, <1>1, <1>2, RestKept

LEMMA MetadataInvNext == MetadataInv /\ [TelemetryNext]_telemetryVars => MetadataInv'
<1> SUFFICES ASSUME MetadataInv, [TelemetryNext]_telemetryVars PROVE MetadataInv'
    OBVIOUS
<1>1. CASE MetadataNext
  <2>1. CASE WithValue \/ WithLabels \/ WithTracers
      BY <2>1, OptionStep
  <2>2. ASSUME NEW p \in PoolIndices, NewFails(p) PROVE MetadataInv'
      BY <2>2, ProgressStep DEF NewFails, Due
  <2>3. ASSUME NEW p \in PoolIndices, New(p) PROVE MetadataInv'
      BY <2>3, NewStep
  <2>4. ASSUME NEW S \in SUBSET Returned, NEW replicas \in SetToSeqs(S), NewCluster(replicas)
        PROVE  MetadataInv'
      BY <2>4, NewClusterStep
  <2>5. CASE WriteArgument \/ WriteResult \/ WriteConfig
      BY <2>5, WriteStep
  <2> QED  BY <1>1, <2>1, <2>2, <2>3, <2>4, <2>5 DEF MetadataNext
<1>2. ASSUME NEW p \in PoolIndices, Register(p) \/ RegisterFails(p) PROVE MetadataInv'
    BY <1>2, ProgressStep DEF Register, RegisterFails
<1>3. ASSUME NEW p \in PoolIndices, Unregister(p) \/ UnregisterFails(p) \/ ClosePool(p)
      PROVE  MetadataInv'
    BY <1>3, ProgressStep DEF Unregister, UnregisterFails, ClosePool, AfterMetrics
<1>4. CASE \/ UNCHANGED metadataVars
           \/ \E p \in PoolIndices : Churn(p) \/ Read(p)
           \/ ObserveStats
  <2>1. UNCHANGED metadataVars
      BY <1>4 DEF Churn, Read, ObserveStats
  <2> QED  BY <2>1, ProgressStep DEF metadataVars
<1> QED  BY <1>1, <1>2, <1>3, <1>4 DEF TelemetryNext, telemetryVars

\* The invariant of what pools, clusters and options refer to: every reference leads
\* behind what the caller can write to (WithLabels, New, cluster.New).
THEOREM MetadataInvariant == TelemetrySpec => []MetadataInv
<1>1. TelemetryInit => MetadataInv
    BY MetadataInvInit DEF TelemetryInit
<1> QED  BY <1>1, MetadataInvNext, PTL DEF TelemetrySpec

\* Every pool, cluster and replica description is what was asked for when it was
\* made, for all option lists and whatever the caller writes later.
THEOREM Configured == TelemetrySpec => []AsConfigured
<1>1. MetadataInv => AsConfigured
  <2> SUFFICES ASSUME MetadataInv PROVE AsConfigured
      OBVIOUS
  <2>1. PoolsOK /\ ClusterOK
      BY DEF MetadataInv
  <2> QED  BY <2>1 DEF PoolsOK, ClusterOK, Describes, Returned, AsConfigured
<1> QED  BY <1>1, MetadataInvariant, PTL
===============================================================================
