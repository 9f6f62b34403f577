------------------------------- MODULE MCRouting -------------------------------
(***************************************************************************)
(* Two callers on clusters of up to three replicas, with a counter of      *)
(* three bits that is allowed to wrap around twice: 8 is a multiple of 2   *)
(* and none of 3.                                                          *)
(***************************************************************************)
EXTENDS Routing

MCLengths == 0..3
===============================================================================
