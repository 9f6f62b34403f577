-------------------------- MODULE TransactionsProofs --------------------------
(***************************************************************************)
(* Proofs about Transactions for any number of calls, lock keys and        *)
(* savepoints, and any choice of the calls whose savepoints have contexts  *)
(* of their own: the safety properties, and that InTx implements           *)
(* AtomicTransaction.                                                      *)
(***************************************************************************)
EXTENDS Transactions, TLAPS

-----------------------------------------------------------------------------
(* The inductive invariant. *)

TypeOK ==
    /\ pc \in [Calls -> {"start", "fn", "locking", "committing", "returned"}]
    /\ in \in [Calls -> BOOLEAN]
    /\ sp \in [Calls -> Writes]
    /\ ctxDone \in [Calls -> BOOLEAN]
    /\ spDone \in [Calls -> BOOLEAN]
    /\ result \in [Calls -> Errors \cup {"none", "nil"}]
    /\ open \in [Calls -> BOOLEAN]
    /\ reply \in [Calls -> Answers \cup {"none"}]
    /\ status \in [Calls -> {"none", "I", "T", "E"}]
    /\ pending \in [Calls -> Keys \cup {"none", "commit"}]
    /\ outer \in [Calls -> SUBSET (Writes \cup Keys)]
    /\ inner \in [Calls -> SUBSET (Writes \cup Keys)]
    /\ durable \in [Calls -> SUBSET Writes]
    /\ told \in [Calls -> SUBSET (Writes \cup Keys)]
    /\ toldInner \in [Calls -> SUBSET (Writes \cup Keys)]
    /\ failed \in [Calls -> SUBSET Writes]
    /\ given \in [Calls -> BOOLEAN]

\* Where InTx is in its code says what it has done so far: its commit is handed over
\* once, no savepoint is left open by then, and every savepoint that is not running
\* has been merged or undone.
ClientOK(t) ==
    /\ pc[t] = "start" => ~open[t] /\ status[t] = "none" /\ sp[t] = 0 /\ told[t] = {}
                          /\ failed[t] = {}
    /\ pc[t] \in {"start", "fn", "locking"} =>
          ~given[t] /\ reply[t] = "none" /\ durable[t] = {}
    /\ pc[t] = "locking" => open[t] /\ (pending[t] \in Keys \/ status[t] = "none")
    /\ pc[t] = "committing" =>
          /\ given[t]
          /\ open[t]
          /\ reply[t] = "none" => pending[t] = "commit" \/ status[t] = "none"
    /\ pc[t] = "returned" <=> result[t] # "none"
    /\ in[t] => pc[t] \in {"fn", "locking"} /\ sp[t] > 0
    /\ ~in[t] => inner[t] = {} /\ toldInner[t] = {}
    /\ spDone[t] => in[t] /\ t \in OwnContext

\* What the server holds: nothing in a session that is over; a wait for a lock only
\* while the client waits or is gone; a commit only after the callback returned nil,
\* and then InTx has returned nothing that excludes it.
SessionOK(t) ==
    /\ status[t] \in {"none", "I"} => outer[t] = {} /\ inner[t] = {} /\ pending[t] = "none"
    /\ status[t] = "I" => pc[t] \in {"committing", "returned"}
    /\ pending[t] \in Keys => status[t] = "T" /\ (pc[t] = "locking" \/ ~open[t])
    /\ pending[t] = "commit" =>
          /\ given[t]
          /\ pc[t] \in {"committing", "returned"}
          /\ result[t] \in {"none", "conn", "ctx"}
          /\ reply[t] = "none"
          /\ durable[t] = {}
    /\ pc[t] = "returned" /\ open[t] => status[t] \in {"none", "I"}

\* What is durable was committed after the callback returned nil, and no error that
\* excludes it has been returned or is on its way.
OutcomeOK(t) ==
    /\ reply[t] # "none" => pc[t] = "committing" /\ status[t] = "I"
    /\ reply[t] \notin {"none", "COMMIT"} => durable[t] = {}
    /\ durable[t] # {} =>
          given[t] /\ status[t] = "I" /\ result[t] \in {"none", "nil", "conn", "ctx"}
    /\ durable[t] # {} /\ result[t] = "none" => reply[t] = "COMMIT"
    /\ result[t] = "nil" => given[t]

\* A commit of the call may still happen.
MayCommit(t) ==
    \/ pc[t] \in {"fn", "locking"} /\ open[t] /\ ~ctxDone[t]
    \/ pending[t] = "commit"

\* For a call whose savepoints share its context: as long as a commit may happen, the
\* server has exactly the work the callback knows of, and in an aborted transaction
\* the work a rollback to the open savepoint returns to; what is durable is that work
\* as a whole.
WorkOK(t) ==
    /\ MayCommit(t) /\ status[t] = "T" =>
          outer[t] \ Keys = told[t] \ Keys /\ inner[t] \ Keys = toldInner[t] \ Keys
    /\ MayCommit(t) /\ status[t] = "E" /\ in[t] => outer[t] \ Keys = told[t] \ Keys
    /\ durable[t] # {} \/ reply[t] = "COMMIT" \/ result[t] = "nil" =>
          durable[t] = told[t] \ Keys

\* Savepoints are numbered in the order they open: what has failed is never among
\* what the callback counts as done, and the open savepoint is in neither yet.
SavepointsOK(t) ==
    /\ told[t] \cap failed[t] = {}
    /\ told[t] \cup failed[t] \subseteq (0..sp[t]) \cup Keys
    /\ 0 \notin failed[t]
    /\ in[t] =>
          sp[t] \notin told[t] \cup failed[t] /\ toldInner[t] \subseteq {sp[t]} \cup Keys

\* The locks the callback was told of outside its open savepoint are outside it at the
\* server as well, so that a rollback to the savepoint does not release them.
LocksOK(t) ==
    status[t] \in {"T", "E"} =>
        told[t] \cap Keys \subseteq outer[t] /\ toldInner[t] \cap Keys \subseteq inner[t]

\* The invariant of one call; what the calls share is the locks.
CallOK(t) ==
    /\ ClientOK(t) /\ SessionOK(t) /\ OutcomeOK(t)
    /\ SavepointsOK(t) /\ LocksOK(t)
    /\ t \in Sharing => WorkOK(t)

\* No lock has two holders, those whose clients are gone included.
LocksExclusive == \A t, u \in Calls : t # u => Held(t) \cap Held(u) = {}

IInv == TypeOK /\ (\A t \in Calls : CallOK(t)) /\ LocksExclusive

-----------------------------------------------------------------------------
(* One call at a time. *)

\* Visible in all proofs of this module.
USE KeysAssumption, SavepointsAssumption
    DEF clientVars, serverVars, history, Writes, Errors, Answers, CallbackErrors,
        CommitErrors

\* A step leaves the call u as it is.
Same(u) ==
    /\ pc'[u] = pc[u] /\ in'[u] = in[u] /\ sp'[u] = sp[u]
    /\ ctxDone'[u] = ctxDone[u] /\ spDone'[u] = spDone[u]
    /\ result'[u] = result[u] /\ open'[u] = open[u] /\ reply'[u] = reply[u]
    /\ status'[u] = status[u] /\ pending'[u] = pending[u]
    /\ outer'[u] = outer[u] /\ inner'[u] = inner[u] /\ durable'[u] = durable[u]
    /\ told'[u] = told[u] /\ toldInner'[u] = toldInner[u]
    /\ failed'[u] = failed[u] /\ given'[u] = given[u]

\* It is a step of t.
Others(t) == \A u \in Calls \ {t} : Same(u)

\* A step of t takes no lock that another call holds.
NoTheft(t) == \A k \in Held(t)' : k \in Held(t) \/ Free(t, k)

\* What is to be shown of every step of t.
StepOf(t) ==
    /\ TypeOK'
    /\ Others(t)
    /\ CallOK(t)'
    /\ NoTheft(t)

\* What a step of one call has to preserve is the invariant of that call.
LEMMA Frame ==
    ASSUME IInv, NEW t \in Calls, StepOf(t)
    PROVE  IInv'
<1>1. \A u \in Calls : CallOK(u)'
  <2> SUFFICES ASSUME NEW u \in Calls, u # t PROVE CallOK(u)'
    BY DEF StepOf
  <2>1. Same(u) /\ CallOK(u)
    BY DEF StepOf, Others, IInv
  <2>2. QED
    BY <2>1 DEF Same, CallOK, ClientOK, SessionOK, OutcomeOK, SavepointsOK, LocksOK,
                WorkOK, MayCommit
<1>2. LocksExclusive'
  BY DEF StepOf, Others, Same, NoTheft, IInv, LocksExclusive, Held, Free
<1>3. QED
  BY <1>1, <1>2 DEF StepOf, IInv

-----------------------------------------------------------------------------
(* Steps: environment. *)

\* Cancel: the context of InTx ends: what was to commit may not be sent any
\* more.
LEMMA CancelStep ==
    ASSUME IInv, NEW t \in Calls, Cancel(t)
    PROVE  StepOf(t)
<1> USE DEF Cancel
<1>0. TypeOK /\ CallOK(t)
  BY DEF IInv
<1>1. TypeOK'
  BY <1>0 DEF TypeOK
<1>2. Others(t)
  BY <1>0 DEF TypeOK, Others, Same
<1>3. ClientOK(t)' /\ SessionOK(t)' /\ OutcomeOK(t)'
  BY <1>0 DEF TypeOK, CallOK, ClientOK, SessionOK, OutcomeOK
<1>4. SavepointsOK(t)' /\ LocksOK(t)'
  BY <1>0 DEF TypeOK, CallOK, ClientOK, SessionOK, SavepointsOK, LocksOK
<1>5. t \in Sharing => WorkOK(t)'
  BY <1>0 DEF TypeOK, CallOK, ClientOK, SessionOK, OutcomeOK, WorkOK, MayCommit, Sharing
<1>6. NoTheft(t)
  BY <1>0 DEF TypeOK, NoTheft, Held, Free
<1>7. QED
  BY <1>1, <1>2, <1>3, <1>4, <1>5, <1>6 DEF StepOf, CallOK

\* CancelSavepoint: the context of a savepoint ends alone, of a call that gives
\* it one.
LEMMA CancelSavepointStep ==
    ASSUME IInv, NEW t \in Calls, CancelSavepoint(t)
    PROVE  StepOf(t)
<1> USE DEF CancelSavepoint
<1>0. TypeOK /\ CallOK(t)
  BY DEF IInv
<1>1. TypeOK'
  BY <1>0 DEF TypeOK
<1>2. Others(t)
  BY <1>0 DEF TypeOK, Others, Same
<1>3. ClientOK(t)' /\ SessionOK(t)' /\ OutcomeOK(t)'
  BY <1>0 DEF TypeOK, CallOK, ClientOK, SessionOK, OutcomeOK
<1>4. SavepointsOK(t)' /\ LocksOK(t)'
  BY <1>0 DEF TypeOK, CallOK, ClientOK, SessionOK, SavepointsOK, LocksOK
<1>5. t \in Sharing => WorkOK(t)'
  BY <1>0 DEF TypeOK, CallOK, ClientOK, SessionOK, OutcomeOK, WorkOK, MayCommit, Sharing
<1>6. NoTheft(t)
  BY <1>0 DEF TypeOK, NoTheft, Held, Free
<1>7. QED
  BY <1>1, <1>2, <1>3, <1>4, <1>5, <1>6 DEF StepOf, CallOK

\* Break: the connection breaks; what the server has received stays with it.
LEMMA BreakStep ==
    ASSUME IInv, NEW t \in Calls, Break(t)
    PROVE  StepOf(t)
<1> USE DEF Break
<1>0. TypeOK /\ CallOK(t)
  BY DEF IInv
<1>1. TypeOK'
  BY <1>0 DEF TypeOK
<1>2. Others(t)
  BY <1>0 DEF TypeOK, Others, Same
<1>3. ClientOK(t)' /\ SessionOK(t)' /\ OutcomeOK(t)'
  BY <1>0 DEF TypeOK, CallOK, ClientOK, SessionOK, OutcomeOK
<1>4. SavepointsOK(t)' /\ LocksOK(t)'
  BY <1>0 DEF TypeOK, CallOK, ClientOK, SessionOK, SavepointsOK, LocksOK
<1>5. t \in Sharing => WorkOK(t)'
  BY <1>0 DEF TypeOK, CallOK, ClientOK, SessionOK, OutcomeOK, WorkOK, MayCommit, Sharing
<1>6. NoTheft(t)
  BY <1>0 DEF TypeOK, NoTheft, Held, Free
<1>7. QED
  BY <1>1, <1>2, <1>3, <1>4, <1>5, <1>6 DEF StepOf, CallOK

\* ServerDrop: the server drops the session, and with it its locks and its
\* work.
LEMMA ServerDropStep ==
    ASSUME IInv, NEW t \in Calls, ServerDrop(t)
    PROVE  StepOf(t)
<1> USE DEF ServerDrop
<1>0. TypeOK /\ CallOK(t)
  BY DEF IInv
<1>1. TypeOK'
  BY <1>0 DEF TypeOK
<1>2. Others(t)
  BY <1>0 DEF TypeOK, Others, Same
<1>3. ClientOK(t)' /\ SessionOK(t)' /\ OutcomeOK(t)'
  BY <1>0 DEF TypeOK, CallOK, ClientOK, SessionOK, OutcomeOK
<1>4. SavepointsOK(t)' /\ LocksOK(t)'
  BY <1>0 DEF TypeOK, CallOK, ClientOK, SessionOK, SavepointsOK, LocksOK
<1>5. t \in Sharing => WorkOK(t)'
  BY <1>0 DEF TypeOK, CallOK, ClientOK, SessionOK, OutcomeOK, WorkOK, MayCommit, Sharing
<1>6. NoTheft(t)
  BY <1>0 DEF TypeOK, NoTheft, Held, Free
<1>7. QED
  BY <1>1, <1>2, <1>3, <1>4, <1>5, <1>6 DEF StepOf, CallOK

-----------------------------------------------------------------------------
(* Steps: begin, callback and savepoints. *)

\* Reject: a nil callback.
LEMMA RejectStep ==
    ASSUME IInv, NEW t \in Calls, Reject(t)
    PROVE  StepOf(t)
<1> USE DEF Reject
<1>0. TypeOK /\ CallOK(t)
  BY DEF IInv
<1>1. TypeOK'
  BY <1>0 DEF TypeOK
<1>2. Others(t)
  BY <1>0 DEF TypeOK, Others, Same
<1>3. ClientOK(t)' /\ SessionOK(t)' /\ OutcomeOK(t)'
  BY <1>0 DEF TypeOK, CallOK, ClientOK, SessionOK, OutcomeOK
<1>4. SavepointsOK(t)' /\ LocksOK(t)'
  BY <1>0 DEF TypeOK, CallOK, ClientOK, SessionOK, SavepointsOK, LocksOK
<1>5. t \in Sharing => WorkOK(t)'
  BY <1>0 DEF TypeOK, CallOK, ClientOK, SessionOK, OutcomeOK, WorkOK, MayCommit, Sharing
<1>6. NoTheft(t)
  BY <1>0 DEF TypeOK, NoTheft, Held, Free
<1>7. QED
  BY <1>1, <1>2, <1>3, <1>4, <1>5, <1>6 DEF StepOf, CallOK

\* Begin: the transaction begins.
LEMMA BeginStep ==
    ASSUME IInv, NEW t \in Calls, Begin(t)
    PROVE  StepOf(t)
<1> USE DEF Begin
<1>0. TypeOK /\ CallOK(t)
  BY DEF IInv
<1>1. TypeOK'
  BY <1>0 DEF TypeOK
<1>2. Others(t)
  BY <1>0 DEF TypeOK, Others, Same
<1>3. ClientOK(t)' /\ SessionOK(t)' /\ OutcomeOK(t)'
  BY <1>0 DEF TypeOK, CallOK, ClientOK, SessionOK, OutcomeOK
<1>4. SavepointsOK(t)' /\ LocksOK(t)'
  BY <1>0 DEF TypeOK, CallOK, ClientOK, SessionOK, SavepointsOK, LocksOK
<1>5. t \in Sharing => WorkOK(t)'
  BY <1>0 DEF TypeOK, CallOK, ClientOK, SessionOK, OutcomeOK, WorkOK, MayCommit, Sharing
<1>6. NoTheft(t)
  BY <1>0 DEF TypeOK, NoTheft, Held, Free
<1>7. QED
  BY <1>1, <1>2, <1>3, <1>4, <1>5, <1>6 DEF StepOf, CallOK

\* BeginFails: it does not, for the client.
LEMMA BeginFailsStep ==
    ASSUME IInv, NEW t \in Calls, BeginFails(t)
    PROVE  StepOf(t)
<1> USE DEF BeginFails
<1>0. TypeOK /\ CallOK(t)
  BY DEF IInv
<1>1. TypeOK'
  BY <1>0 DEF TypeOK
<1>2. Others(t)
  BY <1>0 DEF TypeOK, Others, Same
<1>3. ClientOK(t)' /\ SessionOK(t)' /\ OutcomeOK(t)'
  BY <1>0 DEF TypeOK, CallOK, ClientOK, SessionOK, OutcomeOK
<1>4. SavepointsOK(t)' /\ LocksOK(t)'
  BY <1>0 DEF TypeOK, CallOK, ClientOK, SessionOK, SavepointsOK, LocksOK
<1>5. t \in Sharing => WorkOK(t)'
  BY <1>0 DEF TypeOK, CallOK, ClientOK, SessionOK, OutcomeOK, WorkOK, MayCommit, Sharing
<1>6. NoTheft(t)
  BY <1>0 DEF TypeOK, NoTheft, Held, Free
<1>7. QED
  BY <1>1, <1>2, <1>3, <1>4, <1>5, <1>6 DEF StepOf, CallOK

\* Write: a write, inside a savepoint or not.
LEMMA WriteStep ==
    ASSUME IInv, NEW t \in Calls, Write(t)
    PROVE  StepOf(t)
<1> USE DEF Write, Succeeds, Sent, Done, Told
<1>0. TypeOK /\ CallOK(t)
  BY DEF IInv
<1>1. TypeOK'
  BY <1>0, SMTT(30) DEF TypeOK
<1>2. Others(t)
  BY <1>0 DEF TypeOK, Others, Same
<1>3. ClientOK(t)' /\ SessionOK(t)' /\ OutcomeOK(t)'
  BY <1>0 DEF TypeOK, CallOK, ClientOK, SessionOK, OutcomeOK
<1>4. SavepointsOK(t)' /\ LocksOK(t)'
  BY <1>0 DEF TypeOK, CallOK, ClientOK, SessionOK, SavepointsOK, LocksOK
<1>5. t \in Sharing => WorkOK(t)'
  BY <1>0 DEF TypeOK, CallOK, ClientOK, SessionOK, OutcomeOK, WorkOK, MayCommit, Sharing
<1>6. NoTheft(t)
  BY <1>0 DEF TypeOK, NoTheft, Held, Free
<1>7. QED
  BY <1>1, <1>2, <1>3, <1>4, <1>5, <1>6 DEF StepOf, CallOK

\* StatementFails: an error of the server aborts the transaction.
LEMMA StatementFailsStep ==
    ASSUME IInv, NEW t \in Calls, StatementFails(t)
    PROVE  StepOf(t)
<1> USE DEF StatementFails, Sent
<1>0. TypeOK /\ CallOK(t)
  BY DEF IInv
<1>1. TypeOK'
  BY <1>0 DEF TypeOK
<1>2. Others(t)
  BY <1>0 DEF TypeOK, Others, Same
<1>3. ClientOK(t)' /\ SessionOK(t)' /\ OutcomeOK(t)'
  BY <1>0 DEF TypeOK, CallOK, ClientOK, SessionOK, OutcomeOK
<1>4. SavepointsOK(t)' /\ LocksOK(t)'
  BY <1>0 DEF TypeOK, CallOK, ClientOK, SessionOK, SavepointsOK, LocksOK
<1>5. t \in Sharing => WorkOK(t)'
  BY <1>0 DEF TypeOK, CallOK, ClientOK, SessionOK, OutcomeOK, WorkOK, MayCommit, Sharing
<1>6. NoTheft(t)
  BY <1>0 DEF TypeOK, NoTheft, Held, Free
<1>7. QED
  BY <1>1, <1>2, <1>3, <1>4, <1>5, <1>6 DEF StepOf, CallOK

\* TryAdvisoryXactLock: a lock that is free.
LEMMA TryAdvisoryXactLockStep ==
    ASSUME IInv, NEW t \in Calls, NEW k \in Keys, TryAdvisoryXactLock(t, k)
    PROVE  StepOf(t)
<1> USE DEF TryAdvisoryXactLock, Succeeds, Sent, Done, Told, Free, Held
<1>0. TypeOK /\ CallOK(t)
  BY DEF IInv
<1>1. TypeOK'
  <2>1. CASE in[t]
    BY <1>0, <2>1 DEF TypeOK
  <2>2. CASE ~in[t]
    BY <1>0, <2>2 DEF TypeOK
  <2>3. QED
    BY <2>1, <2>2
<1>2. Others(t)
  BY <1>0 DEF TypeOK, Others, Same
<1>3. ClientOK(t)' /\ SessionOK(t)' /\ OutcomeOK(t)'
  BY <1>0 DEF TypeOK, CallOK, ClientOK, SessionOK, OutcomeOK
<1>4. SavepointsOK(t)' /\ LocksOK(t)'
  BY <1>0 DEF TypeOK, CallOK, ClientOK, SessionOK, SavepointsOK, LocksOK
<1>5. t \in Sharing => WorkOK(t)'
  BY <1>0 DEF TypeOK, CallOK, ClientOK, SessionOK, OutcomeOK, WorkOK, MayCommit, Sharing
<1>6. NoTheft(t)
  BY <1>0 DEF TypeOK, NoTheft, Held, Free
<1>7. QED
  BY <1>1, <1>2, <1>3, <1>4, <1>5, <1>6 DEF StepOf, CallOK

\* AdvisoryXactLock: a wait for a lock.
LEMMA AdvisoryXactLockStep ==
    ASSUME IInv, NEW t \in Calls, NEW k \in Keys, AdvisoryXactLock(t, k)
    PROVE  StepOf(t)
<1> USE DEF AdvisoryXactLock, Succeeds, Sent
<1>0. TypeOK /\ CallOK(t)
  BY DEF IInv
<1>1. TypeOK'
  BY <1>0 DEF TypeOK
<1>2. Others(t)
  BY <1>0 DEF TypeOK, Others, Same
<1>3. ClientOK(t)' /\ SessionOK(t)' /\ OutcomeOK(t)'
  BY <1>0 DEF TypeOK, CallOK, ClientOK, SessionOK, OutcomeOK
<1>4. SavepointsOK(t)' /\ LocksOK(t)'
  BY <1>0 DEF TypeOK, CallOK, ClientOK, SessionOK, SavepointsOK, LocksOK
<1>5. t \in Sharing => WorkOK(t)'
  BY <1>0 DEF TypeOK, CallOK, ClientOK, SessionOK, OutcomeOK, WorkOK, MayCommit, Sharing
<1>6. NoTheft(t)
  BY <1>0 DEF TypeOK, NoTheft, Held, Free
<1>7. QED
  BY <1>1, <1>2, <1>3, <1>4, <1>5, <1>6 DEF StepOf, CallOK

\* Grant: the lock is granted, to a client that may be gone and is not told
\* then.
LEMMA GrantStep ==
    ASSUME IInv, NEW t \in Calls, Grant(t)
    PROVE  StepOf(t)
<1> USE DEF Grant, Done, Told, Free, Held
<1>0. TypeOK /\ CallOK(t)
  BY DEF IInv
<1>1. TypeOK'
  <2>1. CASE pc[t] = "locking"
    BY <1>0, <2>1, SMTT(30) DEF TypeOK
  <2>2. CASE pc[t] # "locking"
    BY <1>0, <2>2 DEF TypeOK
  <2>3. QED
    BY <2>1, <2>2
<1>2. Others(t)
  BY <1>0 DEF TypeOK, Others, Same
<1>3. ClientOK(t)' /\ SessionOK(t)' /\ OutcomeOK(t)'
  BY <1>0 DEF TypeOK, CallOK, ClientOK, SessionOK, OutcomeOK
<1>4. SavepointsOK(t)' /\ LocksOK(t)'
  BY <1>0 DEF TypeOK, CallOK, ClientOK, SessionOK, SavepointsOK, LocksOK
<1>5. t \in Sharing => WorkOK(t)'
  BY <1>0 DEF TypeOK, CallOK, ClientOK, SessionOK, OutcomeOK, WorkOK, MayCommit, Sharing
<1>6. NoTheft(t)
  BY <1>0 DEF TypeOK, NoTheft, Held, Free
<1>7. QED
  BY <1>1, <1>2, <1>3, <1>4, <1>5, <1>6 DEF StepOf, CallOK

\* DeadlockDetected: the server breaks a cycle of waits.
LEMMA DeadlockDetectedStep ==
    ASSUME IInv, NEW t \in Calls, DeadlockDetected(t)
    PROVE  StepOf(t)
<1>0. TypeOK /\ CallOK(t)
  BY DEF IInv
<1>a. pending[t] \in Keys
  <2>1. \E v : pending[t] \in Held(v)
    BY DEF DeadlockDetected, WaitsFor
  <2>2. QED
    BY <2>1 DEF Held
<1>b. /\ status' = [status EXCEPT ![t] = "E"]
      /\ pending' = [pending EXCEPT ![t] = "none"]
      /\ pc' = [pc EXCEPT ![t] = IF @ = "locking" THEN "fn" ELSE @]
      /\ UNCHANGED <<in, sp, ctxDone, spDone, result, open, reply, outer, inner, durable,
                     history>>
  BY DEF DeadlockDetected
<1>1. TypeOK'
  BY <1>0, <1>a, <1>b DEF TypeOK
<1>2. Others(t)
  BY <1>0, <1>a, <1>b DEF TypeOK, Others, Same
<1>3. ClientOK(t)' /\ SessionOK(t)' /\ OutcomeOK(t)'
  BY <1>0, <1>a, <1>b DEF TypeOK, CallOK, ClientOK, SessionOK, OutcomeOK
<1>4. SavepointsOK(t)' /\ LocksOK(t)'
  BY <1>0, <1>a, <1>b DEF TypeOK, CallOK, ClientOK, SessionOK, SavepointsOK, LocksOK
<1>5. t \in Sharing => WorkOK(t)'
  BY <1>0, <1>a, <1>b DEF TypeOK, CallOK, ClientOK, SessionOK, OutcomeOK, WorkOK, MayCommit, Sharing
<1>6. NoTheft(t)
  BY <1>0, <1>a, <1>b DEF TypeOK, NoTheft, Held, Free
<1>7. QED
  BY <1>1, <1>2, <1>3, <1>4, <1>5, <1>6 DEF StepOf, CallOK

\* InSavepoint: a savepoint opens.
LEMMA InSavepointStep ==
    ASSUME IInv, NEW t \in Calls, InSavepoint(t)
    PROVE  StepOf(t)
<1> USE DEF InSavepoint, Succeeds, Sent
<1>0. TypeOK /\ CallOK(t)
  BY DEF IInv
<1>1. TypeOK'
  BY <1>0 DEF TypeOK
<1>2. Others(t)
  BY <1>0 DEF TypeOK, Others, Same
<1>3. ClientOK(t)' /\ SessionOK(t)' /\ OutcomeOK(t)'
  BY <1>0 DEF TypeOK, CallOK, ClientOK, SessionOK, OutcomeOK
<1>4. SavepointsOK(t)' /\ LocksOK(t)'
  BY <1>0 DEF TypeOK, CallOK, ClientOK, SessionOK, SavepointsOK, LocksOK
<1>5. t \in Sharing => WorkOK(t)'
  BY <1>0 DEF TypeOK, CallOK, ClientOK, SessionOK, OutcomeOK, WorkOK, MayCommit, Sharing
<1>6. NoTheft(t)
  BY <1>0 DEF TypeOK, NoTheft, Held, Free
<1>7. QED
  BY <1>1, <1>2, <1>3, <1>4, <1>5, <1>6 DEF StepOf, CallOK

\* ReleaseSavepoint: its callback returned nil.
LEMMA ReleaseSavepointStep ==
    ASSUME IInv, NEW t \in Calls, ReleaseSavepoint(t)
    PROVE  StepOf(t)
<1> USE DEF ReleaseSavepoint, Merge, Sent
<1>0. TypeOK /\ CallOK(t)
  BY DEF IInv
<1>1. TypeOK'
  BY <1>0 DEF TypeOK
<1>2. Others(t)
  BY <1>0 DEF TypeOK, Others, Same
<1>3. ClientOK(t)' /\ SessionOK(t)' /\ OutcomeOK(t)'
  BY <1>0 DEF TypeOK, CallOK, ClientOK, SessionOK, OutcomeOK
<1>4. SavepointsOK(t)' /\ LocksOK(t)'
  BY <1>0 DEF TypeOK, CallOK, ClientOK, SessionOK, SavepointsOK, LocksOK
<1>5. t \in Sharing => WorkOK(t)'
  BY <1>0 DEF TypeOK, CallOK, ClientOK, SessionOK, OutcomeOK, WorkOK, MayCommit, Sharing
<1>6. NoTheft(t)
  BY <1>0 DEF TypeOK, NoTheft, Held, Free
<1>7. QED
  BY <1>1, <1>2, <1>3, <1>4, <1>5, <1>6 DEF StepOf, CallOK

\* RollbackSavepoint: its callback returned an error; a rollback that is not
\* sent leaves a transaction that cannot commit, unless the savepoint had a
\* context of its own.
LEMMA RollbackSavepointStep ==
    ASSUME IInv, NEW t \in Calls, RollbackSavepoint(t)
    PROVE  StepOf(t)
<1> USE DEF RollbackSavepoint, Merge, Sent
<1>0. TypeOK /\ CallOK(t)
  BY DEF IInv
<1>1. TypeOK'
  <2>1. CASE Sent(t)
    BY <1>0, <2>1 DEF TypeOK
  <2>2. CASE ~Sent(t)
    BY <1>0, <2>2, SMTT(30) DEF TypeOK
  <2>3. QED
    BY <2>1, <2>2
<1>2. Others(t)
  BY <1>0 DEF TypeOK, Others, Same
<1>c. ClientOK(t)' /\ SessionOK(t)'
  BY <1>0, SMTT(30) DEF TypeOK, CallOK, ClientOK, SessionOK
<1>o. OutcomeOK(t)'
  BY <1>0, SMTT(30) DEF TypeOK, CallOK, ClientOK, OutcomeOK
<1>3. ClientOK(t)' /\ SessionOK(t)' /\ OutcomeOK(t)'
  BY <1>c, <1>o
<1>4. SavepointsOK(t)' /\ LocksOK(t)'
  BY <1>0 DEF TypeOK, CallOK, ClientOK, SessionOK, SavepointsOK, LocksOK
<1>5. t \in Sharing => WorkOK(t)'
  BY <1>0 DEF TypeOK, CallOK, ClientOK, SessionOK, OutcomeOK, WorkOK, MayCommit, Sharing
<1>6. NoTheft(t)
  BY <1>0 DEF TypeOK, NoTheft, Held, Free
<1>7. QED
  BY <1>1, <1>2, <1>3, <1>4, <1>5, <1>6 DEF StepOf, CallOK

-----------------------------------------------------------------------------
(* Steps: commit and rollback. *)

\* Commit: the commit goes out.
LEMMA CommitStep ==
    ASSUME IInv, NEW t \in Calls, Commit(t)
    PROVE  StepOf(t)
<1> USE DEF Commit, Sent
<1>0. TypeOK /\ CallOK(t)
  BY DEF IInv
<1>1. TypeOK'
  BY <1>0 DEF TypeOK
<1>2. Others(t)
  BY <1>0 DEF TypeOK, Others, Same
<1>3. ClientOK(t)' /\ SessionOK(t)' /\ OutcomeOK(t)'
  BY <1>0 DEF TypeOK, CallOK, ClientOK, SessionOK, OutcomeOK
<1>4. SavepointsOK(t)' /\ LocksOK(t)'
  BY <1>0 DEF TypeOK, CallOK, ClientOK, SessionOK, SavepointsOK, LocksOK
<1>5. t \in Sharing => WorkOK(t)'
  BY <1>0 DEF TypeOK, CallOK, ClientOK, SessionOK, OutcomeOK, WorkOK, MayCommit, Sharing
<1>6. NoTheft(t)
  BY <1>0 DEF TypeOK, NoTheft, Held, Free
<1>7. QED
  BY <1>1, <1>2, <1>3, <1>4, <1>5, <1>6 DEF StepOf, CallOK

\* CommitNotSent: or does not.
LEMMA CommitNotSentStep ==
    ASSUME IInv, NEW t \in Calls, CommitNotSent(t)
    PROVE  StepOf(t)
<1> USE DEF CommitNotSent, Sent
<1>0. TypeOK /\ CallOK(t)
  BY DEF IInv
<1>1. TypeOK'
  BY <1>0 DEF TypeOK
<1>2. Others(t)
  BY <1>0 DEF TypeOK, Others, Same
<1>3. ClientOK(t)' /\ SessionOK(t)' /\ OutcomeOK(t)'
  BY <1>0 DEF TypeOK, CallOK, ClientOK, SessionOK, OutcomeOK
<1>4. SavepointsOK(t)' /\ LocksOK(t)'
  BY <1>0 DEF TypeOK, CallOK, ClientOK, SessionOK, SavepointsOK, LocksOK
<1>5. t \in Sharing => WorkOK(t)'
  BY <1>0 DEF TypeOK, CallOK, ClientOK, SessionOK, OutcomeOK, WorkOK, MayCommit, Sharing
<1>6. NoTheft(t)
  BY <1>0 DEF TypeOK, NoTheft, Held, Free
<1>7. QED
  BY <1>1, <1>2, <1>3, <1>4, <1>5, <1>6 DEF StepOf, CallOK

\* ServerCommit: the server commits, rolls back or refuses.
LEMMA ServerCommitStep ==
    ASSUME IInv, NEW t \in Calls, NEW a \in Answers, ServerCommit(t, a)
    PROVE  StepOf(t)
<1> USE DEF ServerCommit
<1>0. TypeOK /\ CallOK(t)
  BY DEF IInv
<1>1. TypeOK'
  BY <1>0 DEF TypeOK
<1>2. Others(t)
  BY <1>0 DEF TypeOK, Others, Same
<1>3. ClientOK(t)' /\ SessionOK(t)' /\ OutcomeOK(t)'
  BY <1>0 DEF TypeOK, CallOK, ClientOK, SessionOK, OutcomeOK
<1>4. SavepointsOK(t)' /\ LocksOK(t)'
  BY <1>0 DEF TypeOK, CallOK, ClientOK, SessionOK, SavepointsOK, LocksOK
<1>5. t \in Sharing => WorkOK(t)'
  BY <1>0 DEF TypeOK, CallOK, ClientOK, SessionOK, OutcomeOK, WorkOK, MayCommit, Sharing
<1>6. NoTheft(t)
  BY <1>0 DEF TypeOK, NoTheft, Held, Free
<1>7. QED
  BY <1>1, <1>2, <1>3, <1>4, <1>5, <1>6 DEF StepOf, CallOK

\* CommitReturns: InTx returns the answer.
LEMMA CommitReturnsStep ==
    ASSUME IInv, NEW t \in Calls, CommitReturns(t)
    PROVE  StepOf(t)
<1> USE DEF CommitReturns
<1>0. TypeOK /\ CallOK(t)
  BY DEF IInv
<1>1. TypeOK'
  BY <1>0 DEF TypeOK
<1>2. Others(t)
  BY <1>0 DEF TypeOK, Others, Same
<1>3. ClientOK(t)' /\ SessionOK(t)' /\ OutcomeOK(t)'
  BY <1>0 DEF TypeOK, CallOK, ClientOK, SessionOK, OutcomeOK
<1>4. SavepointsOK(t)' /\ LocksOK(t)'
  BY <1>0 DEF TypeOK, CallOK, ClientOK, SessionOK, SavepointsOK, LocksOK
<1>5. t \in Sharing => WorkOK(t)'
  BY <1>0 DEF TypeOK, CallOK, ClientOK, SessionOK, OutcomeOK, WorkOK, MayCommit, Sharing
<1>6. NoTheft(t)
  BY <1>0 DEF TypeOK, NoTheft, Held, Free
<1>7. QED
  BY <1>1, <1>2, <1>3, <1>4, <1>5, <1>6 DEF StepOf, CallOK

\* CommitInterrupted: or the answer is lost.
LEMMA CommitInterruptedStep ==
    ASSUME IInv, NEW t \in Calls, CommitInterrupted(t)
    PROVE  StepOf(t)
<1> USE DEF CommitInterrupted
<1>0. TypeOK /\ CallOK(t)
  BY DEF IInv
<1>1. TypeOK'
  BY <1>0 DEF TypeOK
<1>2. Others(t)
  BY <1>0 DEF TypeOK, Others, Same
<1>3. ClientOK(t)' /\ SessionOK(t)' /\ OutcomeOK(t)'
  BY <1>0 DEF TypeOK, CallOK, ClientOK, SessionOK, OutcomeOK
<1>4. SavepointsOK(t)' /\ LocksOK(t)'
  BY <1>0 DEF TypeOK, CallOK, ClientOK, SessionOK, SavepointsOK, LocksOK
<1>5. t \in Sharing => WorkOK(t)'
  BY <1>0 DEF TypeOK, CallOK, ClientOK, SessionOK, OutcomeOK, WorkOK, MayCommit, Sharing
<1>6. NoTheft(t)
  BY <1>0 DEF TypeOK, NoTheft, Held, Free
<1>7. QED
  BY <1>1, <1>2, <1>3, <1>4, <1>5, <1>6 DEF StepOf, CallOK

\* Rollback: the callback failed.
LEMMA RollbackStep ==
    ASSUME IInv, NEW t \in Calls, NEW e \in CallbackErrors, Rollback(t, e)
    PROVE  StepOf(t)
<1> USE DEF Rollback, Sent
<1>0. TypeOK /\ CallOK(t)
  BY DEF IInv
<1>1. TypeOK'
  <2>1. CASE Sent(t)
    BY <1>0, <2>1 DEF TypeOK
  <2>2. CASE ~Sent(t)
    BY <1>0, <2>2 DEF TypeOK
  <2>3. QED
    BY <2>1, <2>2
<1>2. Others(t)
  BY <1>0 DEF TypeOK, Others, Same
<1>3. ClientOK(t)' /\ SessionOK(t)' /\ OutcomeOK(t)'
  BY <1>0 DEF TypeOK, CallOK, ClientOK, SessionOK, OutcomeOK
<1>4. SavepointsOK(t)' /\ LocksOK(t)'
  BY <1>0 DEF TypeOK, CallOK, ClientOK, SessionOK, SavepointsOK, LocksOK
<1>5. t \in Sharing => WorkOK(t)'
  BY <1>0 DEF TypeOK, CallOK, ClientOK, SessionOK, OutcomeOK, WorkOK, MayCommit, Sharing
<1>6. NoTheft(t)
  BY <1>0 DEF TypeOK, NoTheft, Held, Free
<1>7. QED
  BY <1>1, <1>2, <1>3, <1>4, <1>5, <1>6 DEF StepOf, CallOK

-----------------------------------------------------------------------------
(* The invariant and the safety properties. *)

\* It holds at the start.
LEMMA InitIInv == Init => IInv
<1> SUFFICES ASSUME Init PROVE IInv
  OBVIOUS
<1>1. TypeOK
  BY DEF Init, TypeOK
<1>2. ASSUME NEW t \in Calls PROVE CallOK(t)
  BY <1>2 DEF Init, CallOK, ClientOK, SessionOK, OutcomeOK, SavepointsOK, LocksOK, WorkOK,
              MayCommit
<1>3. LocksExclusive
  BY DEF Init, LocksExclusive, Held
<1>4. QED
  BY <1>1, <1>2, <1>3 DEF IInv

\* The step of one call.
CallStep(t) ==
    \/ Cancel(t) \/ CancelSavepoint(t) \/ Break(t) \/ ServerDrop(t)
    \/ Reject(t) \/ Begin(t) \/ BeginFails(t)
    \/ Write(t) \/ StatementFails(t)
    \/ \E k \in Keys : TryAdvisoryXactLock(t, k) \/ AdvisoryXactLock(t, k)
    \/ Grant(t) \/ DeadlockDetected(t)
    \/ InSavepoint(t) \/ ReleaseSavepoint(t) \/ RollbackSavepoint(t)
    \/ Commit(t) \/ CommitNotSent(t) \/ CommitReturns(t) \/ CommitInterrupted(t)
    \/ \E a \in Answers : ServerCommit(t, a)
    \/ \E e \in CallbackErrors : Rollback(t, e)

\* Every step but a stuttering one is the step of one call.
LEMMA EveryStep ==
    ASSUME IInv, [Next]_vars
    PROVE  (\E t \in Calls : CallStep(t) /\ StepOf(t)) \/ UNCHANGED vars
<1>1. CASE UNCHANGED vars
  BY <1>1
<1>2. CASE Terminated
  BY <1>2 DEF Terminated
<1>3. ASSUME NEW t \in Calls, CallStep(t)
      PROVE  StepOf(t)
  BY <1>3, CancelStep, CancelSavepointStep, BreakStep, ServerDropStep, RejectStep,
     BeginStep, BeginFailsStep, WriteStep, StatementFailsStep, TryAdvisoryXactLockStep,
     AdvisoryXactLockStep, GrantStep, DeadlockDetectedStep, InSavepointStep,
     ReleaseSavepointStep, RollbackSavepointStep, CommitStep, CommitNotSentStep,
     ServerCommitStep, CommitReturnsStep, CommitInterruptedStep, RollbackStep DEF CallStep
<1>4. QED
  BY <1>1, <1>2, <1>3 DEF Next, CallStep

\* Every step preserves it.
LEMMA NextIInv == IInv /\ [Next]_vars => IInv'
<1> SUFFICES ASSUME IInv, [Next]_vars PROVE IInv'
  OBVIOUS
<1>1. CASE UNCHANGED vars
  BY <1>1 DEF vars, IInv, TypeOK, CallOK, ClientOK, SessionOK, OutcomeOK, SavepointsOK,
              LocksOK, WorkOK, MayCommit, LocksExclusive, Held
<1>2. QED
  BY <1>1, EveryStep, Frame

\* The inductive invariant holds in every reachable state.
THEOREM InductiveInvariant == Spec => []IInv
  BY InitIInv, NextIInv, PTL DEF Spec

\* An error IsRetryableTransaction accepts, a serialization failure or a deadlock,
\* comes from a callback or from a commit that was refused: nothing is durable, and
\* no commit is left with the server.
THEOREM RetrySafety == Spec => []RetryIsSafe
<1>1. IInv => RetryIsSafe
  BY DEF IInv, CallOK, OutcomeOK, RetryIsSafe, IsRetryableTransaction
<1>2. QED
  BY <1>1, InductiveInvariant, PTL

\* The work of a failed savepoint stays out of what is durable, for any number of
\* savepoints, when they share the context of their transaction.
THEOREM FailedSavepoints == Spec => []FailedSavepointsStayOut
<1>1. ASSUME IInv, NEW t \in Calls \ OwnContext
      PROVE  durable[t] \cap failed[t] = {}
  <2>1. CASE durable[t] = {}
    BY <2>1
  <2>2. CASE durable[t] # {}
    <3>1. durable[t] = told[t] \ Keys
      BY <1>1, <2>2 DEF IInv, CallOK, WorkOK, Sharing
    <3>2. told[t] \cap failed[t] = {}
      BY <1>1 DEF IInv, CallOK, SavepointsOK
    <3>3. QED
      BY <3>1, <3>2
  <2>3. QED
    BY <2>1, <2>2
<1>2. IInv => FailedSavepointsStayOut
  BY <1>1 DEF FailedSavepointsStayOut
<1>3. QED
  BY <1>2, InductiveInvariant, PTL

\* The locks a callback was told of are its own for as long as its transaction can
\* commit, for any number of callers and keys.
THEOREM LockFencing == Spec => []LocksFence
<1>1. ASSUME IInv, NEW t \in Calls, status[t] = "T",
             NEW k \in (told[t] \cup toldInner[t]) \cap Keys
      PROVE  k \in Held(t) /\ Free(t, k)
  <2>1. k \in Held(t)
    BY <1>1 DEF IInv, CallOK, LocksOK, Held
  <2>2. QED
    BY <1>1, <2>1 DEF IInv, LocksExclusive, Free
<1>2. IInv => LocksFence
  BY <1>1 DEF LocksFence
<1>3. QED
  BY <1>2, InductiveInvariant, PTL

\* A connection InTx gives back is clean.
THEOREM PooledClean == Spec => []PooledIsClean
<1>1. IInv => PooledIsClean
  BY DEF IInv, CallOK, SessionOK, PooledIsClean, Held
<1>2. QED
  BY <1>1, InductiveInvariant, PTL

-----------------------------------------------------------------------------
(* The refinement of AtomicTransaction. *)

\* The work of a call as AtomicTransaction sees it.
Work(t) == (told[t] \cup toldInner[t]) \ Keys

\* The result of InTx as AtomicTransaction tells it.
Shown(r) == CASE r \in {"none", "nil"} -> r
              [] r \in FinalErrors -> "final"
              [] OTHER -> "unknown"

\* The errors InTx returns are told apart by it.
LEMMA ShownFacts ==
    ASSUME NEW r \in Errors \cup {"none", "nil"}
    PROVE  /\ r \in {"none", "nil"} => Shown(r) = r /\ r \notin FinalErrors
           /\ r \in FinalErrors => Shown(r) = "final"
           /\ r \in {"conn", "ctx"} => Shown(r) = "unknown" /\ r \notin FinalErrors
           /\ Shown(r) \in {"none", "nil"} => Shown(r) = r
  BY DEF Shown, FinalErrors

\* The steps of AtomicTransaction, told of one call: a stuttering one, Work, Give,
\* Apply and the three Returns.
Stutters(t) ==
    /\ Work(t)' = Work(t) /\ given'[t] = given[t]
    /\ durable'[t] = durable[t] /\ result'[t] = result[t]

Works(t) ==
    /\ ~given[t] /\ result[t] = "none"
    /\ Work(t)' \subseteq Writes
    /\ given'[t] = given[t] /\ durable'[t] = durable[t] /\ result'[t] = result[t]

Gives(t) ==
    /\ ~given[t] /\ result[t] = "none"
    /\ given'[t] = TRUE
    /\ Work(t)' = Work(t) /\ durable'[t] = durable[t] /\ result'[t] = result[t]

Applies(t) ==
    /\ given[t] /\ result[t] \in {"none", "conn", "ctx"}
    /\ durable'[t] = Work(t)
    /\ Work(t)' = Work(t) /\ given'[t] = given[t] /\ result'[t] = result[t]

Returns(t) ==
    /\ result[t] = "none"
    /\ result'[t] = "nil" => given[t] /\ durable[t] = Work(t)
    /\ result'[t] \in FinalErrors => durable[t] = {}
    /\ result'[t] # "none"
    /\ Work(t)' = Work(t) /\ given'[t] = given[t] /\ durable'[t] = durable[t]

PromiseStep(t) == Stutters(t) \/ Works(t) \/ Gives(t) \/ Applies(t) \/ Returns(t)

\* Which step here is which there: writes, and a savepoint that is given up or whose
\* release the callback does not know of, change the work; a commit hands it over, and
\* the server applies it or not.
LEMMA Simulates ==
    ASSUME IInv, NEW t \in Sharing, CallStep(t), StepOf(t)
    PROVE  PromiseStep(t)
<1> USE DEF PromiseStep
<1>0. TypeOK /\ CallOK(t) /\ WorkOK(t) /\ TypeOK' /\ t \in Calls
  BY DEF IInv, CallOK, StepOf, Sharing
<1>1. ASSUME \/ Cancel(t) \/ CancelSavepoint(t) \/ Break(t) \/ ServerDrop(t) \/ Begin(t)
             \/ StatementFails(t) \/ DeadlockDetected(t) \/ InSavepoint(t)
             \/ \E k \in Keys : AdvisoryXactLock(t, k)
      PROVE  Stutters(t)
  BY <1>0, <1>1 DEF Cancel, CancelSavepoint, Break, ServerDrop, Begin, StatementFails,
     DeadlockDetected, InSavepoint, AdvisoryXactLock, Stutters, Work
<1>2. ASSUME NEW k \in Keys, TryAdvisoryXactLock(t, k)
      PROVE  Stutters(t)
  BY <1>0, <1>2 DEF TypeOK, TryAdvisoryXactLock, Told, Stutters, Work
<1>3. CASE Grant(t)
  BY <1>0, <1>3 DEF TypeOK, Grant, Told, Stutters, Work
<1>4. CASE Write(t)
  <2>1. /\ pc[t] = "fn" /\ given'[t] = given[t]
        /\ durable'[t] = durable[t] /\ result'[t] = result[t]
    BY <1>0, <1>4 DEF Write, Succeeds
  <2>2. ~given[t] /\ result[t] = "none"
    BY <1>0, <2>1 DEF TypeOK, CallOK, ClientOK
  <2>3. Work(t)' \subseteq Writes
    BY <1>0 DEF TypeOK, Work
  <2>4. QED
    BY <2>1, <2>2, <2>3 DEF Works
<1>5. CASE ReleaseSavepoint(t) \/ RollbackSavepoint(t)
  <2>1. /\ pc[t] = "fn" /\ given'[t] = given[t]
        /\ durable'[t] = durable[t] /\ result'[t] = result[t]
    BY <1>0, <1>5 DEF ReleaseSavepoint, RollbackSavepoint
  <2>2. ~given[t] /\ result[t] = "none"
    BY <1>0, <2>1 DEF TypeOK, CallOK, ClientOK
  <2>3. Work(t)' \subseteq Writes
    BY <1>0 DEF TypeOK, Work
  <2>4. QED
    BY <2>1, <2>2, <2>3 DEF Works
<1>6. CASE Commit(t)
  BY <1>0, <1>6 DEF TypeOK, CallOK, ClientOK, Commit, Gives, Work
<1>7. ASSUME NEW a \in Answers, ServerCommit(t, a)
      PROVE  Applies(t) \/ Stutters(t)
  <2>1. /\ given[t] /\ result[t] \in {"none", "conn", "ctx"} /\ durable[t] = {}
        /\ inner[t] = {} /\ toldInner[t] = {}
    BY <1>0, <1>7 DEF ServerCommit, CallOK, ClientOK, SessionOK
  <2>2. Work(t)' = Work(t) /\ given'[t] = given[t] /\ result'[t] = result[t]
    BY <1>0, <1>7 DEF ServerCommit, Work
  <2>3. CASE a = "COMMIT"
    <3>1. durable'[t] = outer[t] \ Keys
      BY <1>0, <1>7, <2>3 DEF ServerCommit, TypeOK
    <3>2. outer[t] \ Keys = told[t] \ Keys
      BY <1>0, <1>7, <2>3 DEF ServerCommit, WorkOK, MayCommit
    <3>3. QED
      BY <2>1, <2>2, <3>1, <3>2 DEF Applies, Work
  <2>4. CASE a # "COMMIT"
    BY <1>0, <1>7, <2>1, <2>2, <2>4 DEF ServerCommit, Stutters, TypeOK
  <2>5. QED
    BY <2>3, <2>4
<1>8. CASE CommitReturns(t)
  <2>1. /\ result[t] = "none" /\ given[t] /\ toldInner[t] = {}
        /\ reply[t] = "COMMIT" => durable[t] = told[t] \ Keys
        /\ reply[t] # "COMMIT" => durable[t] = {}
    BY <1>0, <1>8 DEF CommitReturns, TypeOK, CallOK, ClientOK, OutcomeOK, WorkOK
  <2>2. /\ reply[t] = "COMMIT" => result'[t] = "nil"
        /\ reply[t] # "COMMIT" => result'[t] \in {"commitRollback", "serialization", "sql"}
    BY <1>0, <1>8 DEF CommitReturns, TypeOK
  <2>3. Work(t)' = Work(t) /\ given'[t] = given[t] /\ durable'[t] = durable[t]
    BY <1>0, <1>8 DEF CommitReturns, Work
  <2>4. QED
    BY <2>1, <2>2, <2>3 DEF Returns, Work, FinalErrors
<1>9. CASE Reject(t) \/ BeginFails(t) \/ CommitNotSent(t) \/ CommitInterrupted(t)
           \/ \E e \in CallbackErrors : Rollback(t, e)
  <2>1. /\ pc[t] \in {"start", "fn", "committing"} /\ pc'[t] = "returned"
        /\ pc[t] = "committing" => result'[t] \in {"conn", "ctx"}
        /\ result'[t] # "nil"
        /\ Work(t)' = Work(t) /\ given'[t] = given[t] /\ durable'[t] = durable[t]
    BY <1>0, <1>9 DEF TypeOK, Reject, BeginFails, CommitNotSent, CommitInterrupted,
       Rollback, Work
  <2>2. result[t] = "none" /\ (pc[t] # "committing" => durable[t] = {})
    BY <1>0, <2>1 DEF TypeOK, CallOK, ClientOK
  <2>3. result'[t] # "none"
    BY <2>1 DEF StepOf, CallOK, ClientOK
  <2>4. QED
    BY <2>1, <2>2, <2>3 DEF Returns, FinalErrors
<1>10. QED
  BY <1>1, <1>2, <1>3, <1>4, <1>5, <1>6, <1>7, <1>8, <1>9 DEF CallStep

\* A step of one call lifts to a step of the calls AtomicTransaction is about.
LEMMA Lifts ==
    ASSUME TypeOK, TypeOK', NEW t \in Calls, Others(t), t \in Sharing => PromiseStep(t)
    PROVE  [Promise!Next]_(Promise!vars)
<1> DEFINE work == [u \in Sharing |-> (told[u] \cup toldInner[u]) \ Keys]
           gave == [u \in Sharing |-> given[u]]
           dead == [u \in Sharing |-> result[u] \in FinalErrors]
           database == [u \in Sharing |-> durable[u]]
           shown == [u \in Sharing |-> CASE result[u] \in {"none", "nil"} -> result[u]
                                         [] result[u] \in FinalErrors -> "final"
                                         [] OTHER -> "unknown"]
<1>0. \A u \in Sharing : u \in Calls
  BY DEF Sharing
<1>1. \A u \in Sharing :
         /\ work[u] = Work(u) /\ work'[u] = Work(u)'
         /\ gave[u] = given[u] /\ gave'[u] = given'[u]
         /\ dead[u] = (result[u] \in FinalErrors) /\ dead'[u] = (result'[u] \in FinalErrors)
         /\ database[u] = durable[u] /\ database'[u] = durable'[u]
         /\ shown[u] = Shown(result[u]) /\ shown'[u] = Shown(result'[u])
  BY DEF Work, Shown
<1>2. ASSUME NEW u \in Sharing, u # t
      PROVE  /\ work'[u] = work[u] /\ gave'[u] = gave[u] /\ dead'[u] = dead[u]
             /\ database'[u] = database[u] /\ shown'[u] = shown[u]
  BY <1>0, <1>2 DEF Others, Same
<1>3. \A f \in {work, gave, dead, database, shown} : f = [u \in Sharing |-> f[u]]
  OBVIOUS
<1>4. \A f \in {work', gave', dead', database', shown'} : f = [u \in Sharing |-> f[u]]
  OBVIOUS
<1>5. \A u \in Sharing : given[u] \in BOOLEAN /\ given'[u] \in BOOLEAN
          /\ result[u] \in Errors \cup {"none", "nil"}
          /\ result'[u] \in Errors \cup {"none", "nil"}
  BY <1>0 DEF TypeOK
<1> HIDE DEF work, gave, dead, database, shown
<1>6. CASE t \notin Sharing \/ Stutters(t)
  <2>1. UNCHANGED <<work, gave, dead, database, shown>>
    BY <1>1, <1>2, <1>3, <1>4, <1>6 DEF Stutters
  <2>2. QED
    BY <2>1 DEF Promise!vars, work, gave, dead, database, shown
<1>7. CASE t \in Sharing /\ Works(t)
  <2>1. UNCHANGED <<gave, dead, database, shown>>
    BY <1>1, <1>2, <1>3, <1>4, <1>7 DEF Works
  <2>2. work' = [work EXCEPT ![t] = Work(t)']
    BY <1>1, <1>2, <1>3, <1>4, <1>7
  <2>3. \E W \in SUBSET Writes : work' = [work EXCEPT ![t] = W]
    BY <1>7, <2>2 DEF Works
  <2>4. ~gave[t] /\ shown[t] = "none"
    BY <1>1, <1>5, <1>7, ShownFacts DEF Works
  <2>5. Promise!Work(t)
    BY <2>1, <2>3, <2>4, Zenon DEF Promise!Work, work, gave, dead, database, shown
  <2>6. QED
    BY <1>7, <2>5 DEF Promise!Next
<1>8. CASE t \in Sharing /\ Gives(t)
  <2>1. UNCHANGED <<work, dead, database, shown>>
    BY <1>1, <1>2, <1>3, <1>4, <1>8 DEF Gives
  <2>2. gave' = [gave EXCEPT ![t] = TRUE]
    BY <1>1, <1>2, <1>3, <1>4, <1>8 DEF Gives
  <2>3. ~gave[t] /\ shown[t] = "none"
    BY <1>1, <1>5, <1>8, ShownFacts DEF Gives
  <2>4. Promise!Give(t)
    BY <2>1, <2>2, <2>3, Zenon DEF Promise!Give, work, gave, dead, database, shown
  <2>5. QED
    BY <1>8, <2>4 DEF Promise!Next
<1>9. CASE t \in Sharing /\ Applies(t)
  <2>1. UNCHANGED <<work, gave, dead, shown>>
    <3>1. dead'[t] = dead[t] /\ shown'[t] = shown[t]
      BY <1>1, <1>9 DEF Applies
    <3>2. work'[t] = work[t] /\ gave'[t] = gave[t]
      BY <1>1, <1>9 DEF Applies
    <3>3. QED
      BY <1>2, <1>3, <1>4, <1>9, <3>1, <3>2
  <2>2. database' = [database EXCEPT ![t] = work[t]]
    BY <1>1, <1>2, <1>3, <1>4, <1>9 DEF Applies
  <2>3. gave[t] /\ ~dead[t] /\ shown[t] \in {"none", "unknown"}
    <3>1. gave[t] /\ ~dead[t]
      BY <1>1, <1>9 DEF Applies, FinalErrors
    <3>2. shown[t] \in {"none", "unknown"}
      BY <1>1, <1>5, <1>9, ShownFacts DEF Applies, FinalErrors
    <3>3. QED
      BY <3>1, <3>2
  <2>4. Promise!Apply(t)
    BY <2>1, <2>2, <2>3, Zenon DEF Promise!Apply, work, gave, dead, database, shown
  <2>5. QED
    BY <1>9, <2>4 DEF Promise!Next
<1>10. CASE t \in Sharing /\ Returns(t)
  <2>1. UNCHANGED <<work, gave, database>>
    BY <1>1, <1>2, <1>3, <1>4, <1>10 DEF Returns
  <2>2. shown[t] = "none" /\ ~dead[t]
    BY <1>1, <1>5, <1>10, ShownFacts DEF Returns, FinalErrors
  <2>3. shown' = [shown EXCEPT ![t] = Shown(result'[t])]
    BY <1>1, <1>2, <1>3, <1>4, <1>10
  <2>4. CASE result'[t] = "nil"
    <3>1. UNCHANGED dead
      <4>1. (result[t] \in FinalErrors) = (result'[t] \in FinalErrors)
        BY <1>10, <2>4 DEF Returns, FinalErrors
      <4>2. dead'[t] = dead[t]
        BY <1>1, <1>10, <4>1
      <4>3. QED
        BY <1>2, <1>3, <1>4, <1>10, <4>2
    <3>2. shown' = [shown EXCEPT ![t] = "nil"]
      BY <1>5, <1>10, <2>3, <2>4, ShownFacts
    <3>3. gave[t] /\ database[t] = work[t]
      BY <1>1, <1>10, <2>4 DEF Returns
    <3>4. Promise!ReturnNil(t)
      BY <2>1, <2>2, <3>1, <3>2, <3>3, Zenon
         DEF Promise!ReturnNil, work, gave, dead, database, shown
    <3>5. QED
      BY <1>10, <3>4 DEF Promise!Next
  <2>5. CASE result'[t] \in FinalErrors
    <3>1. dead' = [dead EXCEPT ![t] = TRUE]
      BY <1>1, <1>2, <1>3, <1>4, <1>10, <2>5
    <3>2. shown' = [shown EXCEPT ![t] = "final"]
      BY <1>5, <1>10, <2>3, <2>5, ShownFacts
    <3>3. database[t] = {}
      BY <1>1, <1>10, <2>5 DEF Returns
    <3>4. Promise!ReturnFinal(t)
      BY <2>1, <2>2, <3>1, <3>2, <3>3, Zenon
         DEF Promise!ReturnFinal, work, gave, dead, database, shown
    <3>5. QED
      BY <1>10, <3>4 DEF Promise!Next
  <2>6. CASE result'[t] \in {"conn", "ctx"}
    <3>1. UNCHANGED dead
      <4>1. (result[t] \in FinalErrors) = (result'[t] \in FinalErrors)
        BY <1>10, <2>6 DEF Returns, FinalErrors
      <4>2. dead'[t] = dead[t]
        BY <1>1, <1>10, <4>1
      <4>3. QED
        BY <1>2, <1>3, <1>4, <1>10, <4>2
    <3>2. shown' = [shown EXCEPT ![t] = "unknown"]
      BY <1>5, <1>10, <2>3, <2>6, ShownFacts
    <3>3. Promise!ReturnUnknown(t)
      BY <2>1, <2>2, <3>1, <3>2, Zenon
         DEF Promise!ReturnUnknown, work, gave, dead, database, shown
    <3>4. QED
      BY <1>10, <3>3 DEF Promise!Next
  <2>7. QED
    BY <1>5, <1>10, <2>4, <2>5, <2>6 DEF Returns, FinalErrors
<1>11. QED
  BY <1>6, <1>7, <1>8, <1>9, <1>10 DEF PromiseStep

\* InTx implements AtomicTransaction, for any number of calls that run at the same
\* time, wherever contexts end, connections break and sessions are dropped.
THEOREM AtomicTransactions == Spec => ImplementsAtomicTransaction
<1>1. Init => Promise!Init
  <2> SUFFICES ASSUME Init PROVE Promise!Init
    OBVIOUS
  <2>1. \A t \in Sharing : t \in Calls
    BY DEF Sharing
  <2>2. [t \in Sharing |-> (told[t] \cup toldInner[t]) \ Keys] = [t \in Sharing |-> {}]
    BY <2>1 DEF Init
  <2>3. \A t \in Sharing : result[t] = "none" /\ (result[t] \in FinalErrors) = FALSE
    BY <2>1 DEF Init, FinalErrors
  <2>4. [t \in Sharing |-> result[t] \in FinalErrors] = [t \in Sharing |-> FALSE]
    BY <2>3
  <2>5. [t \in Sharing |-> CASE result[t] \in {"none", "nil"} -> result[t]
                              [] result[t] \in FinalErrors -> "final"
                              [] OTHER -> "unknown"] = [t \in Sharing |-> "none"]
    BY <2>3
  <2>6. /\ [t \in Sharing |-> given[t]] = [t \in Sharing |-> FALSE]
        /\ [t \in Sharing |-> durable[t]] = [t \in Sharing |-> {}]
    BY <2>1 DEF Init
  <2>7. QED
    BY <2>2, <2>4, <2>5, <2>6, Zenon DEF Promise!Init
<1>2. IInv /\ [Next]_vars => [Promise!Next]_(Promise!vars)
  <2> SUFFICES ASSUME IInv, [Next]_vars PROVE [Promise!Next]_(Promise!vars)
    OBVIOUS
  <2>1. CASE UNCHANGED vars
    BY <2>1 DEF vars, Promise!vars
  <2>2. ASSUME NEW t \in Calls, CallStep(t), StepOf(t)
        PROVE  [Promise!Next]_(Promise!vars)
    <3>1. TypeOK /\ TypeOK' /\ Others(t)
      BY <2>2 DEF IInv, StepOf
    <3>2. t \in Sharing => PromiseStep(t)
      BY <2>2, Simulates
    <3>3. QED
      BY <3>1, <3>2, Lifts
  <2>3. QED
    BY <2>1, <2>2, EveryStep
<1>3. QED
  BY <1>1, <1>2, InductiveInvariant, PTL DEF Spec, Promise!Spec, ImplementsAtomicTransaction
===============================================================================
