--------------------------- MODULE AtomicTransaction ---------------------------
(***************************************************************************)
(* What InTx promises its caller (tx.go), with no connection, session,     *)
(* savepoint or lock in sight.  The callback adds to its work and takes    *)
(* parts of it back; the database applies the work as a whole, once, or    *)
(* never.  nil is returned for work that is applied.  A final error is     *)
(* returned for work that is not and never will be.  An unknown error, of  *)
(* a connection or a context, says nothing: the work may be applied, or    *)
(* still become so after the call has returned.                            *)
(***************************************************************************)

CONSTANTS Calls,  \* the calls of InTx
          Writes  \* what a callback may do

VARIABLES work,      \* per call, what its callback has achieved so far
          given,     \* the callback is done, and the work handed over
          dead,      \* the work will never be applied
          database,  \* what is durable
          result     \* "none" until the call returns; "nil", "final" or "unknown"

vars == <<work, given, dead, database, result>>

Init ==
    /\ work = [t \in Calls |-> {}]
    /\ given = [t \in Calls |-> FALSE]
    /\ dead = [t \in Calls |-> FALSE]
    /\ database = [t \in Calls |-> {}]
    /\ result = [t \in Calls |-> "none"]

\* The callback does something, or gives up what it did under a savepoint.
Work(t) ==
    /\ ~given[t]
    /\ result[t] = "none"
    /\ \E W \in SUBSET Writes : work' = [work EXCEPT ![t] = W]
    /\ UNCHANGED <<given, dead, database, result>>

\* The callback has returned nil.
Give(t) ==
    /\ ~given[t]
    /\ result[t] = "none"
    /\ given' = [given EXCEPT ![t] = TRUE]
    /\ UNCHANGED <<work, dead, database, result>>

\* The transaction commits, possibly after the caller has given up on it.
Apply(t) ==
    /\ given[t]
    /\ ~dead[t]
    /\ result[t] \in {"none", "unknown"}
    /\ database' = [database EXCEPT ![t] = work[t]]
    /\ UNCHANGED <<work, given, dead, result>>

ReturnNil(t) ==
    /\ given[t]
    /\ ~dead[t]
    /\ result[t] = "none"
    /\ database[t] = work[t]
    /\ result' = [result EXCEPT ![t] = "nil"]
    /\ UNCHANGED <<work, given, dead, database>>

\* The error of the callback, or a refused commit.
ReturnFinal(t) ==
    /\ result[t] = "none"
    /\ database[t] = {}
    /\ result' = [result EXCEPT ![t] = "final"]
    /\ dead' = [dead EXCEPT ![t] = TRUE]
    /\ UNCHANGED <<work, given, database>>

\* The connection or the context failed.
ReturnUnknown(t) ==
    /\ result[t] = "none"
    /\ result' = [result EXCEPT ![t] = "unknown"]
    /\ UNCHANGED <<work, given, dead, database>>

Next ==
    \E t \in Calls :
        \/ Work(t) \/ Give(t) \/ Apply(t)
        \/ ReturnNil(t) \/ ReturnFinal(t) \/ ReturnUnknown(t)

Spec == Init /\ [][Next]_vars
===============================================================================
