----------------------------- MODULE Transactions -----------------------------
(***************************************************************************)
(* Pool.InTx and InSavepoint (tx.go), the transaction-level advisory locks *)
(* (advisory.go) and the retry classification of errors (errors.go).       *)
(*                                                                         *)
(* Each call of InTx runs a callback that may do anything the API allows,  *)
(* in any order: write, fail a statement, take advisory locks, open        *)
(* savepoints, return nil or an error, or panic (a panic takes the path of *)
(* an error).  The context can be cancelled, the connection break and the  *)
(* server drop the session between any two steps.                          *)
(*                                                                         *)
(* pgx and PostgreSQL are modelled from how the code uses them.  A         *)
(* statement under a finished context is not sent and leaves the           *)
(* connection as it is; one interrupted in flight breaks the connection,   *)
(* and the server may still execute what it has received and only later    *)
(* notices that its client is gone.                                        *)
(***************************************************************************)
EXTENDS Integers, FiniteSets

CONSTANTS
    Calls,          \* the calls of InTx
    Writers,        \* the ones whose callbacks write; the others only lock
    Keys,           \* advisory lock keys
    MaxSavepoints,  \* bound: savepoints opened by one callback
    OwnContext      \* the calls that give InSavepoint a context of its own

ASSUME KeysAssumption == Keys \cap Int = {} /\ "none" \notin Keys /\ "commit" \notin Keys
ASSUME SavepointsAssumption == MaxSavepoints \in Nat
ASSUME CallsAssumption == Writers \subseteq Calls /\ OwnContext \subseteq Calls

\* The writes of a callback: 0 outside its savepoints, s in its s-th savepoint.
Writes == 0..MaxSavepoints

VARIABLES
    (* the calls *)
    pc,         \* "start", "fn", "locking", "committing" or "returned"
    in,         \* the callback of InSavepoint is running
    sp,         \* savepoints opened so far
    ctxDone,    \* the context of InTx is done
    spDone,     \* the context of the running InSavepoint has ended alone
    result,     \* "none" until InTx returns; "nil" or the kind of its error
    open,       \* the client's end of the connection is usable
    reply,      \* the server's answer to the commit, on its way to the client
    (* the server *)
    status,     \* of the session: "none", "I" idle, "T" in a transaction, "E" aborted
    pending,    \* what the server has received and not finished: a key or "commit"
    outer,      \* writes and locks of the transaction outside the open savepoint
    inner,      \* and since the open savepoint
    durable,    \* the committed writes of each call
    (* history *)
    told,       \* what succeeded as far as the callback knows
    toldInner,  \* the same in the running savepoint
    failed,     \* the savepoints whose callback returned an error
    given       \* the callback of InTx returned nil and its commit was sent

clientVars == <<pc, in, sp, ctxDone, spDone, result, open, reply>>
serverVars == <<status, pending, outer, inner, durable>>
history == <<told, toldInner, failed, given>>
vars == <<clientVars, serverVars, history>>

\* The kinds of errors: a callback may return any, "app" stands for the ones that
\* are not retryable; a commit the server refuses; and what pgx itself reports.
CallbackErrors == {"deadlock", "app"}
CommitErrors == {"serialization", "sql"}
Errors == CallbackErrors \cup CommitErrors \cup {"conn", "ctx", "commitRollback"}

\* Mutant: connection failures are taken to be retryable.
IsRetryableConnection(e) == e \in {"serialization", "deadlock", "conn"}

\* IsSerializationFailure or IsDeadlock.
IsRetryableTransaction(e) == e \in {"serialization", "deadlock"}

Init ==
    /\ pc = [t \in Calls |-> "start"]
    /\ in = [t \in Calls |-> FALSE]
    /\ sp = [t \in Calls |-> 0]
    /\ ctxDone = [t \in Calls |-> FALSE]
    /\ spDone = [t \in Calls |-> FALSE]
    /\ result = [t \in Calls |-> "none"]
    /\ open = [t \in Calls |-> FALSE]
    /\ reply = [t \in Calls |-> "none"]
    /\ status = [t \in Calls |-> "none"]
    /\ pending = [t \in Calls |-> "none"]
    /\ outer = [t \in Calls |-> {}]
    /\ inner = [t \in Calls |-> {}]
    /\ durable = [t \in Calls |-> {}]
    /\ told = [t \in Calls |-> {}]
    /\ toldInner = [t \in Calls |-> {}]
    /\ failed = [t \in Calls |-> {}]
    /\ given = [t \in Calls |-> FALSE]

Held(t) == (outer[t] \cup inner[t]) \cap Keys
Free(t, k) == \A u \in Calls \ {t} : k \notin Held(u)

-----------------------------------------------------------------------------
(* The environment. *)

\* The context of InTx ends, and with it any context derived for a savepoint.
Cancel(t) ==
    /\ ~ctxDone[t]
    /\ pc[t] # "returned"
    /\ ctxDone' = [ctxDone EXCEPT ![t] = TRUE]
    /\ UNCHANGED <<pc, in, sp, spDone, result, open, reply, serverVars, history>>

\* The context of a savepoint ends alone.
CancelSavepoint(t) ==
    /\ t \in OwnContext
    /\ in[t]
    /\ ~spDone[t]
    /\ spDone' = [spDone EXCEPT ![t] = TRUE]
    /\ UNCHANGED <<pc, in, sp, ctxDone, result, open, reply, serverVars, history>>

\* The connection breaks under a statement: the network fails or the context
\* ends in flight.  What the server has received stays with it.
Break(t) ==
    /\ pc[t] \in {"fn", "locking"}
    /\ open[t]
    /\ open' = [open EXCEPT ![t] = FALSE]
    /\ pc' = [pc EXCEPT ![t] = "fn"]
    /\ UNCHANGED <<in, sp, ctxDone, spDone, result, reply, serverVars, history>>

\* The server ends a session: it crashed, or noticed that the client is gone.
ServerDrop(t) ==
    /\ status[t] \in {"T", "E"}
    /\ status' = [status EXCEPT ![t] = "none"]
    /\ pending' = [pending EXCEPT ![t] = "none"]
    /\ outer' = [outer EXCEPT ![t] = {}]
    /\ inner' = [inner EXCEPT ![t] = {}]
    /\ UNCHANGED <<clientVars, durable, history>>

-----------------------------------------------------------------------------
(* InTx: begin. *)

\* A nil callback.
Reject(t) ==
    /\ pc[t] = "start"
    /\ pc' = [pc EXCEPT ![t] = "returned"]
    /\ result' = [result EXCEPT ![t] = "app"]
    /\ UNCHANGED <<in, sp, ctxDone, spDone, open, reply, serverVars, history>>

Begin(t) ==
    /\ pc[t] = "start"
    /\ ~ctxDone[t]
    /\ pc' = [pc EXCEPT ![t] = "fn"]
    /\ open' = [open EXCEPT ![t] = TRUE]
    /\ status' = [status EXCEPT ![t] = "T"]
    /\ UNCHANGED <<in, sp, ctxDone, spDone, result, reply, pending, outer, inner,
                   durable, history>>

\* No connection, or the connection is dropped; the server may have begun.
BeginFails(t) ==
    /\ pc[t] = "start"
    /\ pc' = [pc EXCEPT ![t] = "returned"]
    /\ result' = [result EXCEPT ![t] = IF ctxDone[t] THEN "ctx" ELSE "conn"]
    /\ \E s \in {"none", "T"} : status' = [status EXCEPT ![t] = s]
    /\ UNCHANGED <<in, sp, ctxDone, spDone, open, reply, pending, outer, inner,
                   durable, history>>

-----------------------------------------------------------------------------
(* The callback. *)

\* A statement the callback issues reaches the server, whatever its state.
Sent(t) ==
    /\ open[t]
    /\ status[t] # "none"
    /\ ~ctxDone[t] /\ ~spDone[t]

Succeeds(t) == pc[t] = "fn" /\ Sent(t) /\ status[t] = "T"

\* The server has done x for the transaction, inside the open savepoint or not.
Done(t, x) ==
    IF in[t] THEN inner' = [inner EXCEPT ![t] = @ \cup {x}] /\ UNCHANGED outer
             ELSE outer' = [outer EXCEPT ![t] = @ \cup {x}] /\ UNCHANGED inner

\* The callback is told so.
Told(t, x) ==
    IF in[t] THEN toldInner' = [toldInner EXCEPT ![t] = @ \cup {x}] /\ UNCHANGED told
             ELSE told' = [told EXCEPT ![t] = @ \cup {x}] /\ UNCHANGED toldInner

Write(t) ==
    LET x == IF in[t] THEN sp[t] ELSE 0 IN
    /\ t \in Writers
    /\ Succeeds(t)
    /\ Done(t, x)
    /\ Told(t, x)
    /\ UNCHANGED <<clientVars, status, pending, durable, failed, given>>

\* A statement, or a wait for a lock, ends in an error of the server.
StatementFails(t) ==
    /\ pc[t] \in {"fn", "locking"}
    /\ Sent(t)
    /\ status[t] = "T"
    /\ status' = [status EXCEPT ![t] = "E"]
    /\ pending' = [pending EXCEPT ![t] = "none"]
    /\ pc' = [pc EXCEPT ![t] = "fn"]
    /\ UNCHANGED <<in, sp, ctxDone, spDone, result, open, reply, outer, inner, durable,
                   history>>

\* Mutant: the query succeeded, so the lock is taken to be acquired.
TryAdvisoryXactLockIgnored(t, k) ==
    /\ Succeeds(t)
    /\ IF Free(t, k) THEN Done(t, k) ELSE UNCHANGED <<outer, inner>>
    /\ Told(t, k)
    /\ UNCHANGED <<clientVars, status, pending, durable, failed, given>>

\* TryAdvisoryXactLock that returns true; one that returns false does nothing.
TryAdvisoryXactLock(t, k) ==
    /\ Succeeds(t)
    /\ Free(t, k)
    /\ Done(t, k)
    /\ Told(t, k)
    /\ UNCHANGED <<clientVars, status, pending, durable, failed, given>>

\* AdvisoryXactLock waits at the server.
AdvisoryXactLock(t, k) ==
    /\ Succeeds(t)
    /\ pc' = [pc EXCEPT ![t] = "locking"]
    /\ pending' = [pending EXCEPT ![t] = k]
    /\ UNCHANGED <<in, sp, ctxDone, spDone, result, open, reply, status, outer, inner,
                   durable, history>>

\* The server grants the lock, to a client that may be gone.
Grant(t) ==
    /\ pending[t] \in Keys
    /\ Free(t, pending[t])
    /\ Done(t, pending[t])
    /\ pending' = [pending EXCEPT ![t] = "none"]
    /\ IF pc[t] = "locking"
       THEN /\ pc' = [pc EXCEPT ![t] = "fn"]
            /\ Told(t, pending[t])
       ELSE UNCHANGED <<pc, told, toldInner>>
    /\ UNCHANGED <<in, sp, ctxDone, spDone, result, open, reply, status, durable,
                   failed, given>>

WaitsFor(t, u) == t # u /\ pending[t] \in Held(u)

\* The server finds a cycle of waits and aborts one of its transactions.
DeadlockDetected(t) ==
    /\ \E S \in SUBSET Calls :
          /\ t \in S
          /\ \A u \in S : \E v \in S : WaitsFor(u, v)
          /\ \A u \in S : \E v \in S : WaitsFor(v, u)
    /\ status' = [status EXCEPT ![t] = "E"]
    /\ pending' = [pending EXCEPT ![t] = "none"]
    /\ pc' = [pc EXCEPT ![t] = IF @ = "locking" THEN "fn" ELSE @]
    /\ UNCHANGED <<in, sp, ctxDone, spDone, result, open, reply, outer, inner, durable,
                   history>>

-----------------------------------------------------------------------------
(* InSavepoint. *)

InSavepoint(t) ==
    /\ Succeeds(t)
    /\ ~in[t]
    /\ sp[t] < MaxSavepoints
    /\ in' = [in EXCEPT ![t] = TRUE]
    /\ sp' = [sp EXCEPT ![t] = @ + 1]
    /\ UNCHANGED <<pc, ctxDone, spDone, result, open, reply, serverVars, history>>

\* The savepoint is gone as such: what it holds belongs to the transaction.
Merge(t) ==
    /\ outer' = [outer EXCEPT ![t] = @ \cup inner[t]]
    /\ inner' = [inner EXCEPT ![t] = {}]

\* fn returned nil: release savepoint.  A savepoint that could not be released
\* counts as closed all the same, so no rollback follows.
ReleaseSavepoint(t) ==
    /\ pc[t] = "fn"
    /\ in[t]
    /\ in' = [in EXCEPT ![t] = FALSE]
    /\ spDone' = [spDone EXCEPT ![t] = FALSE]
    /\ Merge(t)
    /\ told' = [told EXCEPT ![t] = IF Sent(t) /\ status[t] = "T"
                                   THEN @ \cup toldInner[t] ELSE @]
    /\ toldInner' = [toldInner EXCEPT ![t] = {}]
    /\ UNCHANGED <<pc, sp, ctxDone, result, open, reply, status, pending, durable,
                   failed, given>>

\* Mutant: the savepoint is left as it is after an error.
RollbackSavepointMissing(t) ==
    /\ pc[t] = "fn"
    /\ in[t]
    /\ in' = [in EXCEPT ![t] = FALSE]
    /\ spDone' = [spDone EXCEPT ![t] = FALSE]
    /\ Merge(t)
    /\ toldInner' = [toldInner EXCEPT ![t] = {}]
    /\ failed' = [failed EXCEPT ![t] = @ \cup {sp[t]}]
    /\ UNCHANGED <<pc, sp, ctxDone, result, open, reply, status, pending, durable, told,
                   given>>

\* fn returned an error: rollback to savepoint, whose own error is dropped.
RollbackSavepoint(t) ==
    /\ pc[t] = "fn"
    /\ in[t]
    /\ in' = [in EXCEPT ![t] = FALSE]
    /\ spDone' = [spDone EXCEPT ![t] = FALSE]
    /\ IF Sent(t)
       THEN /\ status' = [status EXCEPT ![t] = "T"]
            /\ inner' = [inner EXCEPT ![t] = {}]
            /\ UNCHANGED outer
       ELSE Merge(t) /\ UNCHANGED status
    /\ toldInner' = [toldInner EXCEPT ![t] = {}]
    /\ failed' = [failed EXCEPT ![t] = @ \cup {sp[t]}]
    /\ UNCHANGED <<pc, sp, ctxDone, result, open, reply, pending, durable, told, given>>

-----------------------------------------------------------------------------
(* InTx: commit and rollback. *)

\* fn returned nil and the commit goes out.
Commit(t) ==
    /\ pc[t] = "fn"
    /\ ~in[t]
    /\ Sent(t)
    /\ pc' = [pc EXCEPT ![t] = "committing"]
    /\ pending' = [pending EXCEPT ![t] = "commit"]
    /\ given' = [given EXCEPT ![t] = TRUE]
    /\ UNCHANGED <<in, sp, ctxDone, spDone, result, open, reply, status, outer, inner,
                   durable, told, toldInner, failed>>

\* It cannot be sent: the connection, still in a transaction, is closed.
CommitNotSent(t) ==
    /\ pc[t] = "fn"
    /\ ~in[t]
    /\ ~Sent(t)
    /\ pc' = [pc EXCEPT ![t] = "returned"]
    /\ open' = [open EXCEPT ![t] = FALSE]
    /\ result' = [result EXCEPT ![t] = IF ctxDone[t] THEN "ctx" ELSE "conn"]
    /\ UNCHANGED <<in, sp, ctxDone, spDone, reply, serverVars, history>>

\* The server executes the commit, of an aborted transaction by rolling back.
\* It may refuse, too, and then has rolled back.
ServerCommit(t, answer) ==
    /\ pending[t] = "commit"
    /\ answer = "COMMIT" => status[t] = "T"
    /\ answer = "ROLLBACK" => status[t] = "E"
    /\ reply' = [reply EXCEPT ![t] = IF pc[t] = "committing" THEN answer ELSE @]
    /\ durable' = [durable EXCEPT ![t] = IF answer = "COMMIT" THEN outer[t] \ Keys ELSE {}]
    /\ status' = [status EXCEPT ![t] = "I"]
    /\ pending' = [pending EXCEPT ![t] = "none"]
    /\ outer' = [outer EXCEPT ![t] = {}]
    /\ UNCHANGED <<pc, in, sp, ctxDone, spDone, result, open, inner, history>>

\* Mutant: any answer of the server counts as a success.
CommitReturnsNil(t) ==
    /\ pc[t] = "committing"
    /\ reply[t] # "none"
    /\ pc' = [pc EXCEPT ![t] = "returned"]
    /\ result' = [result EXCEPT ![t] = "nil"]
    /\ reply' = [reply EXCEPT ![t] = "none"]
    /\ UNCHANGED <<in, sp, ctxDone, spDone, open, serverVars, history>>

\* InTx returns what the server answered: nil, ErrTxCommitRollback or the error.
CommitReturns(t) ==
    /\ pc[t] = "committing"
    /\ reply[t] # "none"
    /\ pc' = [pc EXCEPT ![t] = "returned"]
    /\ result' = [result EXCEPT ![t] = CASE reply[t] = "COMMIT" -> "nil"
                                         [] reply[t] = "ROLLBACK" -> "commitRollback"
                                         [] OTHER -> reply[t]]
    /\ reply' = [reply EXCEPT ![t] = "none"]
    /\ UNCHANGED <<in, sp, ctxDone, spDone, open, serverVars, history>>

\* The answer does not arrive: the connection is closed, the outcome unknown.
CommitInterrupted(t) ==
    /\ pc[t] = "committing"
    /\ pc' = [pc EXCEPT ![t] = "returned"]
    /\ open' = [open EXCEPT ![t] = FALSE]
    /\ result' = [result EXCEPT ![t] = IF ctxDone[t] THEN "ctx" ELSE "conn"]
    /\ reply' = [reply EXCEPT ![t] = "none"]
    /\ UNCHANGED <<in, sp, ctxDone, spDone, serverVars, history>>

\* Mutant: a rollback that could not be sent keeps the connection.
RollbackKeeps(t, e) ==
    /\ pc[t] = "fn"
    /\ ~in[t]
    /\ IF Sent(t)
       THEN /\ status' = [status EXCEPT ![t] = "I"]
            /\ outer' = [outer EXCEPT ![t] = {}]
       ELSE UNCHANGED <<status, outer>>
    /\ pc' = [pc EXCEPT ![t] = "returned"]
    /\ result' = [result EXCEPT ![t] = e]
    /\ UNCHANGED <<in, sp, ctxDone, spDone, open, reply, pending, inner, durable,
                   history>>

\* fn returned the error e, or panicked: rollback.  A rollback that cannot be
\* sent closes the connection and leaves the transaction to the server.
Rollback(t, e) ==
    /\ pc[t] = "fn"
    /\ ~in[t]
    /\ IF Sent(t)
       THEN /\ status' = [status EXCEPT ![t] = "I"]
            /\ outer' = [outer EXCEPT ![t] = {}]
            /\ UNCHANGED open
       ELSE /\ open' = [open EXCEPT ![t] = FALSE]
            /\ UNCHANGED <<status, outer>>
    /\ pc' = [pc EXCEPT ![t] = "returned"]
    /\ result' = [result EXCEPT ![t] = e]
    /\ UNCHANGED <<in, sp, ctxDone, spDone, reply, pending, inner, durable,
                   history>>

-----------------------------------------------------------------------------

Terminated ==
    /\ \A t \in Calls : pc[t] = "returned" /\ status[t] \in {"none", "I"}
    /\ UNCHANGED vars

Answers == {"COMMIT", "ROLLBACK"} \cup CommitErrors

Next ==
    \/ \E t \in Calls :
          \/ Cancel(t) \/ CancelSavepoint(t) \/ Break(t) \/ ServerDrop(t)
          \/ Reject(t) \/ Begin(t) \/ BeginFails(t)
          \/ Write(t) \/ StatementFails(t)
          \/ \E k \in Keys : TryAdvisoryXactLock(t, k) \/ AdvisoryXactLock(t, k)
          \/ Grant(t) \/ DeadlockDetected(t)
          \/ InSavepoint(t) \/ ReleaseSavepoint(t) \/ RollbackSavepoint(t)
          \/ Commit(t) \/ CommitNotSent(t) \/ CommitReturns(t) \/ CommitInterrupted(t)
          \/ \E answer \in Answers : ServerCommit(t, answer)
          \/ \E e \in CallbackErrors : Rollback(t, e)
    \/ Terminated

Spec == Init /\ [][Next]_vars

\* The server answers, grants free locks, breaks cycles of waits and notices
\* clients that are gone; a client notices a session that is gone; and callbacks
\* return.  No context need ever be cancelled and no statement ever fail.
FnReturns(t) ==
    \/ ReleaseSavepoint(t) \/ RollbackSavepoint(t)
    \/ Commit(t) \/ CommitNotSent(t)
    \/ \E e \in CallbackErrors : Rollback(t, e)

Fairness ==
    \A t \in Calls :
        /\ WF_vars(Grant(t)) /\ WF_vars(DeadlockDetected(t))
        /\ WF_vars(~open[t] /\ ServerDrop(t))
        /\ WF_vars(status[t] = "none" /\ (Break(t) \/ CommitInterrupted(t)))
        /\ WF_vars(\E answer \in Answers : ServerCommit(t, answer))
        /\ WF_vars(CommitReturns(t))
        /\ SF_vars(FnReturns(t))

FairSpec == Spec /\ Fairness

-----------------------------------------------------------------------------
(* Properties. *)

\* The errors after which nothing is applied, now or later; after the other ones,
\* the failures of connections and contexts, the transaction may be applied.
FinalErrors == CallbackErrors \cup CommitErrors \cup {"commitRollback"}

\* The calls whose savepoints share the context of their transaction.
Sharing == Calls \ OwnContext

\* What the callers see is the atomic transaction of module AtomicTransaction: the
\* work is what the callback has been told it achieved, without the savepoints
\* that failed.
Promise == INSTANCE AtomicTransaction WITH
    Calls <- Sharing,
    work <- [t \in Sharing |-> (told[t] \cup toldInner[t]) \ Keys],
    given <- [t \in Sharing |-> given[t]],
    dead <- [t \in Sharing |-> result[t] \in FinalErrors],
    database <- [t \in Sharing |-> durable[t]],
    result <- [t \in Sharing |->
                  CASE result[t] \in {"none", "nil"} -> result[t]
                    [] result[t] \in FinalErrors -> "final"
                    [] OTHER -> "unknown"]

\* InTx implements AtomicTransaction: a transaction is applied as a whole or not at
\* all, whatever breaks; nil means that it is applied; an error of the callback, a
\* panic or a refused commit that it never is; and a transaction whose commit was
\* lost may still be applied when InTx has returned.
ImplementsAtomicTransaction == Promise!Spec

\* An error that IsRetryableTransaction accepts means that nothing was applied
\* and nothing will be: a replay cannot apply the transaction twice.  A commit
\* whose answer was lost may be durable, and is never classified so.
RetryIsSafe == \A t \in Calls : IsRetryableTransaction(result[t]) => durable[t] = {}

\* The work of a savepoint whose callback returned an error is never committed,
\* when the savepoint runs under the context of its transaction: if that context
\* ends and the rollback to the savepoint is not sent, the commit is not either.
FailedSavepointsStayOut ==
    \A t \in Calls \ OwnContext : durable[t] \cap failed[t] = {}

\* InSavepoint's comment, "If fn returns nil, the savepoint is released; otherwise
\* it is rolled back", for every context InSavepoint may be given.
SavepointIsRolledBack == \A t \in Calls : durable[t] \cap failed[t] = {}

\* As long as its transaction can still commit, a callback holds every lock it
\* was told it acquired, and nobody else does: locks taken under a savepoint that
\* failed are not among them, and a session the server has dropped, whose locks
\* others may have taken, can no longer commit.
LocksFence ==
    \A t \in Calls :
        pc[t] \in {"fn", "locking", "committing"} /\ status[t] = "T" =>
            \A k \in (told[t] \cup toldInner[t]) \cap Keys :
                k \in Held(t) /\ Free(t, k)

\* A connection that goes back to the pool carries no transaction, no lock and no
\* unanswered statement into the next use.
PooledIsClean ==
    \A t \in Calls : pc[t] = "returned" /\ open[t] =>
        status[t] \in {"none", "I"} /\ Held(t) = {} /\ pending[t] = "none"

\* The locks of a call that has returned are released, at the latest when the
\* server notices that the connection is gone.
LocksReleased == \A t \in Calls : pc[t] = "returned" ~> Held(t) = {}

\* AdvisoryXactLock does not wait for ever: lock holders finish, deadlocks are
\* broken and lost connections found out.
LockWaitEnds == \A t \in Calls : pc[t] = "locking" ~> pc[t] # "locking"
===============================================================================
