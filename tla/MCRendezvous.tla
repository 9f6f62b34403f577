----------------------------- MODULE MCRendezvous -----------------------------
(***************************************************************************)
(* Two calls with any topologies of up to three shards.  IDs, namespaces   *)
(* and keys are prefixes of each other and hold bytes that look like       *)
(* lengths, some are too long; two hash values make ties and zeros common. *)
(***************************************************************************)
EXTENDS Rendezvous

MCIDs == {<<1>>, <<1, 2>>, <<2>>}
MCNamespaces == {<<>>, <<1>>, <<1, 2>>, <<1, 1, 1>>}
MCStringKeys == {<<1>>, <<1, 2>>, <<1, 1, 2>>}
===============================================================================
