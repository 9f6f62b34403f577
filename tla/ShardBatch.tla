------------------------------ MODULE ShardBatch ------------------------------
(***************************************************************************)
(* What a caller does with groups of keys: the functions of                *)
(* examples/shard_group/main.go, over the grouping of module Grouping, the *)
(* shard handles of topology/shard/shard.go, and transactions as module    *)
(* AtomicTransaction promises them.                                        *)
(*                                                                         *)
(* There is no transaction across shards: batchActivateUsers runs one      *)
(* autocommitted statement per group and stops at the first error.  A      *)
(* statement whose answer is lost may have been executed, or be executed   *)
(* after the call has returned.  Rows may be missing, and equal keys find  *)
(* one row, so that the row count can be less than the number of keys.     *)
(***************************************************************************)
EXTENDS Grouping, FiniteSets

VARIABLES
    function,  \* the function of the example
    at,        \* the group its loop is at
    touched,   \* the keys whose rows it has read or updated
    late,      \* the keys of a statement that the server may still execute
    outcome,   \* "none", then "nil" or "error"
    (* the transaction of updateColocatedUsers *)
    work, given, dead, database, result

batchVars == <<function, at, touched, late, outcome>>
txVars == <<work, given, dead, database, result>>
vars == <<groupingVars, batchVars, txVars>>

Tx == INSTANCE AtomicTransaction WITH Calls <- {1}, Writes <- 1..MaxKeys

OpOf(f) == CASE f = "batchActivateUsers" -> "GroupByShard"
             [] f = "batchLoadUsers" -> "PartitionByShard"
             [] f \in {"updateColocatedUsers", "showShardMismatch"} -> "SameShard"

Init ==
    /\ GroupingInit
    /\ function \in {"batchActivateUsers", "batchLoadUsers", "updateColocatedUsers",
                     "showShardMismatch"}
    /\ op = OpOf(function)
    /\ at = 1
    /\ touched = {}
    /\ late = {}
    /\ outcome = "none"
    /\ Tx!Init

Group == GroupingNext /\ UNCHANGED <<batchVars, txVars>>

\* The function returns.
Return(o) == outcome = "none" /\ outcome' = o

\* The keys could not be grouped: nothing has been sent anywhere.
GroupingFails ==
    /\ pc = "failed"
    /\ function # "showShardMismatch"
    /\ Return("error")
    /\ UNCHANGED <<groupingVars, function, at, touched, late, txVars>>

\* showShardMismatch wants the keys to be on different shards.
ShowShardMismatch ==
    /\ function = "showShardMismatch"
    /\ \/ /\ pc = "done"
          /\ Return("error")
       \/ /\ pc = "failed"
          /\ Return(IF failure # 0 /\ Resolve(failure) \in Shards THEN "nil" ELSE "error")
    /\ UNCHANGED <<groupingVars, function, at, touched, late, txVars>>

-----------------------------------------------------------------------------
(* batchActivateUsers and batchLoadUsers: one statement per group.         *)

InLoop ==
    /\ pc = "done"
    /\ function \in {"batchActivateUsers", "batchLoadUsers"}
    /\ outcome = "none"
    /\ at <= Len(groups)

Keys(g) == {groups[g].keys[i] : i \in DOMAIN groups[g].keys}

\* Shard.Primary is nil.
NoPrimary ==
    /\ InLoop
    /\ Return("error")
    /\ UNCHANGED <<groupingVars, function, at, touched, late, txVars>>

\* primary.Exec succeeds; every key must have had a row of its own.
ExecGroup ==
    /\ InLoop
    /\ function = "batchActivateUsers"
    /\ \E rows \in SUBSET Keys(at) : \E affected \in 0..Cardinality(rows) :
          /\ rows # {} => affected # 0
          /\ touched' = touched \cup rows
          /\ IF affected = Len(groups[at].keys)
             THEN at' = at + 1 /\ UNCHANGED outcome
             ELSE Return("error") /\ UNCHANGED at
    /\ UNCHANGED <<groupingVars, function, late, txVars>>

\* Mutant: the error is noted and the loop goes on.
ExecGroupFailsOn ==
    /\ InLoop
    /\ function = "batchActivateUsers"
    /\ late' = late \cup Keys(at)
    /\ at' = at + 1
    /\ UNCHANGED <<groupingVars, function, touched, outcome, txVars>>

\* primary.Exec fails, and what has been sent of it is with the server.
ExecGroupFails ==
    /\ InLoop
    /\ function = "batchActivateUsers"
    /\ late' = Keys(at)
    /\ Return("error")
    /\ UNCHANGED <<groupingVars, function, at, touched, txVars>>

\* The server executes it after all, or not.
ExecutedLate ==
    /\ late # {}
    /\ \E rows \in SUBSET late : touched' = touched \cup rows
    /\ late' = {}
    /\ UNCHANGED <<groupingVars, function, at, outcome, txVars>>

\* primary.Query and CollectRows; rows may be missing.
QueryGroup ==
    /\ InLoop
    /\ function = "batchLoadUsers"
    /\ touched' = touched \cup Keys(at)
    /\ at' = at + 1
    /\ UNCHANGED <<groupingVars, function, late, outcome, txVars>>

QueryGroupFails ==
    /\ InLoop
    /\ function = "batchLoadUsers"
    /\ Return("error")
    /\ UNCHANGED <<groupingVars, function, at, touched, late, txVars>>

EndOfLoop ==
    /\ pc = "done"
    /\ function \in {"batchActivateUsers", "batchLoadUsers"}
    /\ at > Len(groups)
    /\ Return("nil")
    /\ UNCHANGED <<groupingVars, function, at, touched, late, txVars>>

-----------------------------------------------------------------------------
(* updateColocatedUsers: Shard.InPrimaryTx on the one shard of the keys.   *)

InTx ==
    /\ pc = "done"
    /\ function = "updateColocatedUsers"
    /\ outcome = "none"
    /\ UNCHANGED <<groupingVars, function, at, touched, late>>

\* The callback's UPDATE finds some of the rows.
Update ==
    /\ InTx
    /\ Tx!Work(1)
    /\ work'[1] \subseteq 1..n
    /\ UNCHANGED outcome

\* Mutant: the row count is not looked at.
CommitTxUnchecked ==
    /\ InTx
    /\ Tx!Give(1)
    /\ UNCHANGED outcome

\* It has found a row for every key, and the callback returns nil.
CommitTx ==
    /\ InTx
    /\ work[1] = 1..n
    /\ Tx!Give(1)
    /\ UNCHANGED outcome

\* The database applies the transaction, maybe after the function has returned.
ApplyTx ==
    /\ pc = "done"
    /\ database[1] = {}
    /\ Tx!Apply(1)
    /\ UNCHANGED <<groupingVars, batchVars>>

\* An error may be the one of an empty handle (ErrNoShard) or of a cluster without
\* a primary, of the UPDATE, of the row count, or of the transaction itself.
TxReturns ==
    /\ InTx
    /\ \/ Tx!ReturnNil(1) /\ Return("nil")
       \/ (Tx!ReturnFinal(1) \/ Tx!ReturnUnknown(1)) /\ Return("error")

-----------------------------------------------------------------------------

Returned == outcome # "none" /\ UNCHANGED vars

Next ==
    \/ Group \/ GroupingFails \/ ShowShardMismatch
    \/ NoPrimary \/ ExecGroup \/ ExecGroupFails \/ ExecutedLate
    \/ QueryGroup \/ QueryGroupFails \/ EndOfLoop
    \/ Update \/ CommitTx \/ ApplyTx \/ TxReturns
    \/ Returned

Spec == Init /\ [][Next]_vars

-----------------------------------------------------------------------------
(* Properties. *)

\* A batch is done group by group, and what its result means for the groups that
\* are not atomic together: those before the one it stopped at are done wholly,
\* those after it are not touched, now or later, by a statement that is still on
\* its way; nil means that every key with a shard is done, and keys that could not
\* be grouped mean that nothing was.
BatchPrefix ==
    function \in {"batchActivateUsers", "batchLoadUsers"} =>
        /\ pc # "done" => touched \cup late = {}
        /\ pc = "done" =>
              /\ \A g \in DOMAIN groups : g < at => Keys(g) \subseteq touched
              /\ \A g \in DOMAIN groups : g > at => Keys(g) \cap (touched \cup late) = {}
              /\ outcome = "nil" => touched = {k \in 1..n : answers[k] \in Shards}

\* Colocated keys are updated together, in a transaction on the one shard of them
\* all, or none of them is, whatever rows are missing and whatever breaks; nil
\* means that they are, and without a common shard nothing is.
ColocatedAllOrNothing ==
    /\ database[1] # {} =>
          database[1] = 1..n /\ \A k \in 1..n : Resolve(k) = Resolve(1) /\ Resolve(k) \in Shards
    /\ function = "updateColocatedUsers" /\ outcome = "nil" => database[1] = 1..n
===============================================================================
