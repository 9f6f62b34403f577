---------------------------- MODULE MCForEachShard ----------------------------
(***************************************************************************)
(* Small instances of ForEachShard.  Lengths holds the empty topology, one *)
(* and several shards; Concurrencies holds a rejected value, sequential    *)
(* dispatch, fewer workers than shards and more than there are shards.     *)
(***************************************************************************)
EXTENDS ForEachShard

MCLengths == {0, 1, 3}
MCConcurrencies == {0, 1, 2, 9}
===============================================================================
