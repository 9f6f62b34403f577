----------------------------- MODULE MCLifecycle -----------------------------
(***************************************************************************)
(* A topology of two clusters: c1 with a primary and two replicas, c2      *)
(* read-only, sharing a replica with c1 and holding it twice.  Two         *)
(* goroutines close the topology, one of them also a cluster and a pool.   *)
(***************************************************************************)
EXTENDS Lifecycle, TLC

CONSTANTS c1, c2, p1, r1, r2, g1, g2

MCShards == <<c1, c2>>
MCReplicas == (c1 :> <<r1, r2>>) @@ (c2 :> <<r2, r1, r2>>)
MCPrimary == (c1 :> p1) @@ (c2 :> None)
MCTargets == (g1 :> {topology}) @@ (g2 :> {topology, c1, r2})
===============================================================================
