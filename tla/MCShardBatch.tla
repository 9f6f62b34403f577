----------------------------- MODULE MCShardBatch -----------------------------
(***************************************************************************)
(* Up to five keys over three shards: a shard that comes back after two    *)
(* others, errors in every position, up to three groups.                   *)
(***************************************************************************)
EXTENDS ShardBatch
===============================================================================
