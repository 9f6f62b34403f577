---------------------------- MODULE MCTransactions ----------------------------
(***************************************************************************)
(* Two calls of InTx, two lock keys.                                       *)
(***************************************************************************)
EXTENDS Transactions

CONSTANTS t1, t2, k1, k2
===============================================================================
