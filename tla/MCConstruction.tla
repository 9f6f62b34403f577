---------------------------- MODULE MCConstruction ----------------------------
(***************************************************************************)
(* Up to two clusters over three pools, two of them with metrics: every   *)
(* ID, the empty one included, valid and invalid labels, no pool, one      *)
(* pool, or a primary and a replica.                                       *)
(***************************************************************************)
EXTENDS Construction

CONSTANTS a, b, p1, p2, p3

PoolLists == {<<>>, <<p1>>, <<p1, p2>>}
OtherLists == {<<>>, <<p3>>}
Configs(L) == [id : IDs \cup {EmptyID}, labelsOK : BOOLEAN, pools : L]
MCDeployments ==
    {<<>>} \cup {<<c>> : c \in Configs(PoolLists)}
        \cup {<<c, d>> : c \in Configs(PoolLists), d \in Configs(OtherLists)}
===============================================================================
