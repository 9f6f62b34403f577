----------------------------- MODULE ForEachShard -----------------------------
(***************************************************************************)
(* Topology.ForEachShard (topology/shard/foreach.go): one goroutine, the   *)
(* dispatcher, hands the indices 0..n-1 of the registered shards over an   *)
(* unbuffered channel to min(concurrency, n) worker goroutines, which run  *)
(* the caller's callback and write into a shared results slice that was    *)
(* allocated with every Err field nil.  The context may be cancelled       *)
(* between any two steps of any goroutine, and a callback may end the      *)
(* goroutine it runs in (runtime.Goexit).  A callback that panics ends the *)
(* process, and with it the call.                                          *)
(*                                                                         *)
(* Every read of ctx.Err() is a step of its own: what it returned may be   *)
(* stale when the goroutine acts on it.                                    *)
(***************************************************************************)
EXTENDS Integers, FiniteSets

CONSTANTS Lengths,       \* the topology lengths a call may meet
          Concurrencies  \* the concurrency arguments a call may be given

ASSUME LengthsAssumption == Lengths \subseteq Nat
ASSUME ConcurrenciesAssumption == Concurrencies \subseteq Int

VARIABLES
    n,            \* len(t.shards); 0 stands for a nil or empty topology
    concurrency,  \* the concurrency argument
    fnNil,        \* fn == nil
    cancelled,    \* ctx.Err() != nil; never reset
    pc,           \* control point of the dispatcher
    nextIndex,    \* local variable of the dispatcher
    jobsClosed,   \* close(jobs) has happened
    wpc,          \* control point of each worker
    index,        \* the index each worker received last
    results,      \* the Err field of each result; "nil" when allocated
    err,          \* the returned error: the failures it joins
    outcome,      \* history: what the callback of each shard has done so far
    late          \* history: callbacks started after the cancellation

args == <<n, concurrency, fnNil>>
vars == <<args, cancelled, pc, nextIndex, jobsClosed, wpc, index, results, err,
          outcome, late>>

Indices == 0..(n-1)
Results == {"nil", "callbackErr", "ctxErr"}

\* Mutant: one worker per shard, whatever the concurrency argument.
WorkerCountUnbounded == n

\* min(concurrency, len(t.shards))
WorkerCount == IF concurrency < n THEN concurrency ELSE n
Workers == 1..WorkerCount

\* ForEachShardResults.Err: errors.Join of the non-nil Err fields.  The joined
\* error is the map from the failing indices to their errors, so it is nil
\* (the empty map) exactly when errs stays empty.
Err(rs) == [i \in {j \in DOMAIN rs : rs[j] # "nil"} |-> rs[i]]

\* What the Err field reads of a shard whose callback did o: a callback that ended
\* its goroutine left it as it was allocated.
Recorded(o) ==
    CASE o = "none" -> "ctxErr"
      [] o = "exited" -> "nil"
      [] OTHER -> o

Init ==
    /\ n \in Lengths
    /\ concurrency \in Concurrencies
    /\ fnNil \in BOOLEAN
    /\ cancelled \in BOOLEAN
    /\ pc = "enter"
    /\ nextIndex = 0
    /\ jobsClosed = FALSE
    /\ wpc = [w \in 1..n |-> "unborn"]
    /\ index = [w \in 1..n |-> 0]
    /\ results = [i \in Indices |-> "nil"]
    /\ err = <<>>
    /\ outcome = [i \in Indices |-> "none"]
    /\ late = 0

-----------------------------------------------------------------------------
(* The environment. *)

Cancel ==
    /\ ~cancelled
    /\ cancelled' = TRUE
    /\ UNCHANGED <<args, pc, nextIndex, jobsClosed, wpc, index, results, err,
                   outcome, late>>

-----------------------------------------------------------------------------
(* The dispatcher. *)

workerVars == <<wpc, index, outcome, late>>

ArgumentsValid == n > 0 /\ concurrency > 0 /\ ~fnNil

RejectArguments ==
    /\ pc = "enter"
    /\ ~ArgumentsValid
    /\ pc' = "rejected"
    /\ UNCHANGED <<args, cancelled, nextIndex, jobsClosed, results, err, workerVars>>

\* Mutant: an early return that leaves the allocated, nil results.
ReturnCancelledUnfilled ==
    /\ pc = "enter"
    /\ ArgumentsValid
    /\ cancelled
    /\ err' = Err(results)
    /\ pc' = "returned"
    /\ UNCHANGED <<args, cancelled, nextIndex, jobsClosed, results, workerVars>>

\* The context was cancelled before anything was scheduled.
ReturnCancelled ==
    /\ pc = "enter"
    /\ ArgumentsValid
    /\ cancelled
    /\ results' = [i \in Indices |-> "ctxErr"]
    /\ err' = Err(results')
    /\ pc' = "returned"
    /\ UNCHANGED <<args, cancelled, nextIndex, jobsClosed, workerVars>>

StartWorkers ==
    /\ pc = "enter"
    /\ ArgumentsValid
    /\ ~cancelled
    /\ wpc' = [w \in 1..n |-> IF w \in Workers THEN "receive" ELSE "unborn"]
    /\ pc' = "loop"
    /\ UNCHANGED <<args, cancelled, nextIndex, jobsClosed, index, results, err,
                   outcome, late>>

\* Mutant: <= len(t.shards), one job too many.
LoopTestOffByOne ==
    /\ pc = "loop"
    /\ pc' = IF nextIndex <= n /\ ~cancelled THEN "select" ELSE "close"
    /\ UNCHANGED <<args, cancelled, nextIndex, jobsClosed, results, err, workerVars>>

\* The loop condition: nextIndex < len(t.shards) && ctx.Err() == nil.
LoopTest ==
    /\ pc = "loop"
    /\ pc' = IF nextIndex < n /\ ~cancelled THEN "select" ELSE "close"
    /\ UNCHANGED <<args, cancelled, nextIndex, jobsClosed, results, err, workerVars>>

\* case jobs <- nextIndex: the channel is unbuffered, so the send completes
\* together with the receive of a worker that waits for a job.
Send(w) ==
    /\ pc = "select"
    /\ wpc[w] = "receive"
    /\ index' = [index EXCEPT ![w] = nextIndex]
    /\ wpc' = [wpc EXCEPT ![w] = "check"]
    /\ nextIndex' = nextIndex + 1
    /\ pc' = "loop"
    /\ UNCHANGED <<args, cancelled, jobsClosed, results, err, outcome, late>>

\* case <-ctx.Done().  When a worker is ready too, select picks either case.
SelectDone ==
    /\ pc = "select"
    /\ cancelled
    /\ pc' = "loop"
    /\ UNCHANGED <<args, cancelled, nextIndex, jobsClosed, results, err, workerVars>>

\* Mutant: the channel is closed only by a dispatch loop that ran to its end.
CloseJobsUnlessCancelled ==
    /\ pc = "close"
    /\ jobsClosed' = (nextIndex = n)
    /\ pc' = "wait"
    /\ UNCHANGED <<args, cancelled, nextIndex, results, err, workerVars>>

CloseJobs ==
    /\ pc = "close"
    /\ jobsClosed' = TRUE
    /\ pc' = "wait"
    /\ UNCHANGED <<args, cancelled, nextIndex, results, err, workerVars>>

\* Mutant: the call does not wait for the running callbacks once cancelled.
WaitUnlessCancelled ==
    /\ pc = "wait"
    /\ cancelled \/ \A w \in Workers : wpc[w] = "done"
    /\ pc' = "fill"
    /\ UNCHANGED <<args, cancelled, nextIndex, jobsClosed, results, err, workerVars>>

\* Mutant: workers.Add(len(t.shards)), more than the workers that call Done.
WaitForAll ==
    /\ pc = "wait"
    /\ \A w \in 1..n : wpc[w] = "done"
    /\ pc' = "fill"
    /\ UNCHANGED <<args, cancelled, nextIndex, jobsClosed, results, err, workerVars>>

\* workers.Wait() returns once every worker has called Done.
Wait ==
    /\ pc = "wait"
    /\ \A w \in Workers : wpc[w] = "done"
    /\ pc' = "fill"
    /\ UNCHANGED <<args, cancelled, nextIndex, jobsClosed, results, err, workerVars>>

\* Mutant: the results return as the workers left them.
FillAndReturnUnfilled ==
    /\ pc = "fill"
    /\ err' = Err(results)
    /\ pc' = "returned"
    /\ UNCHANGED <<args, cancelled, nextIndex, jobsClosed, results, workerVars>>

\* The indices never handed out get the context error; then both values return.
FillAndReturn ==
    /\ pc = "fill"
    /\ results' = IF cancelled
                  THEN [i \in Indices |-> IF i >= nextIndex THEN "ctxErr"
                                                            ELSE results[i]]
                  ELSE results
    /\ err' = Err(results')
    /\ pc' = "returned"
    /\ UNCHANGED <<args, cancelled, nextIndex, jobsClosed, workerVars>>

-----------------------------------------------------------------------------
(* A worker. *)

\* Mutant: the worker does not look at the context.
CheckContextSkipped(w) ==
    /\ wpc[w] = "check"
    /\ wpc' = [wpc EXCEPT ![w] = "call"]
    /\ UNCHANGED <<args, cancelled, pc, nextIndex, jobsClosed, index, results, err,
                   outcome, late>>

\* The worker's read of ctx.Err() before the callback.
CheckContext(w) ==
    /\ wpc[w] = "check"
    /\ \/ /\ cancelled
          /\ results' = [results EXCEPT ![index[w]] = "ctxErr"]
          /\ wpc' = [wpc EXCEPT ![w] = "receive"]
       \/ /\ ~cancelled
          /\ wpc' = [wpc EXCEPT ![w] = "call"]
          /\ UNCHANGED results
    /\ UNCHANGED <<args, cancelled, pc, nextIndex, jobsClosed, index, err, outcome, late>>

Call(w) ==
    /\ wpc[w] = "call"
    /\ wpc' = [wpc EXCEPT ![w] = "run"]
    /\ outcome' = [outcome EXCEPT ![index[w]] = "running"]
    /\ late' = IF cancelled THEN late + 1 ELSE late
    /\ UNCHANGED <<args, cancelled, pc, nextIndex, jobsClosed, index, results, err>>

\* fn returns; ctx.Err() is one of the errors it can return once it is set.
Return(w, result) ==
    /\ wpc[w] = "run"
    /\ result = "ctxErr" => cancelled
    /\ results' = [results EXCEPT ![index[w]] = result]
    /\ outcome' = [outcome EXCEPT ![index[w]] = result]
    /\ wpc' = [wpc EXCEPT ![w] = "receive"]
    /\ UNCHANGED <<args, cancelled, pc, nextIndex, jobsClosed, index, err, late>>

\* fn ends the goroutine: nothing is assigned, and the deferred workers.Done() runs.
Exit(w) ==
    /\ wpc[w] = "run"
    /\ outcome' = [outcome EXCEPT ![index[w]] = "exited"]
    /\ wpc' = [wpc EXCEPT ![w] = "done"]
    /\ UNCHANGED <<args, cancelled, pc, nextIndex, jobsClosed, index, results, err, late>>

\* The range over jobs ends when the channel is closed: deferred workers.Done().
Finish(w) ==
    /\ wpc[w] = "receive"
    /\ jobsClosed
    /\ wpc' = [wpc EXCEPT ![w] = "done"]
    /\ UNCHANGED <<args, cancelled, pc, nextIndex, jobsClosed, index, results, err,
                   outcome, late>>

-----------------------------------------------------------------------------

Dispatcher ==
    \/ RejectArguments
    \/ ReturnCancelled
    \/ StartWorkers
    \/ LoopTest
    \/ \E w \in Workers : Send(w)
    \/ SelectDone
    \/ CloseJobs
    \/ Wait
    \/ FillAndReturn

Worker(w) ==
    \/ CheckContext(w)
    \/ Call(w)
    \/ \E result \in Results : Return(w, result)
    \/ Exit(w)
    \/ Finish(w)

\* The call has returned: nothing is left to do.
Returned == pc \in {"rejected", "returned"}

Terminated == Returned /\ UNCHANGED vars

Next ==
    \/ Cancel
    \/ Dispatcher
    \/ \E w \in Workers : Worker(w)
    \/ Terminated

Spec == Init /\ [][Next]_vars

\* Goroutines that can proceed are scheduled.  Nothing makes a callback return
\* while the context lives; a callback that observes its context ends once the
\* context is cancelled, which is all that is assumed of it here.
WorkerIds == UNION {1..l : l \in Lengths}

Fairness ==
    /\ WF_vars(Dispatcher)
    /\ \A w \in WorkerIds :
          /\ WF_vars(w \in Workers /\ (CheckContext(w) \/ Call(w) \/ Finish(w)))
          /\ WF_vars(/\ w \in Workers
                     /\ cancelled
                     /\ (\E result \in Results : Return(w, result)) \/ Exit(w))

FairSpec == Spec /\ Fairness

-----------------------------------------------------------------------------
(* Properties. *)

DispatcherStates == {"enter", "loop", "select", "close", "wait", "fill",
                     "rejected", "returned"}
WorkerStates == {"unborn", "receive", "check", "call", "run", "done"}

\* Type correctness of the dispatcher's and the workers' local state and of the
\* shared results slice.
TypeOK ==
    /\ n \in Nat
    /\ concurrency \in Int
    /\ fnNil \in BOOLEAN
    /\ cancelled \in BOOLEAN
    /\ pc \in DispatcherStates
    /\ nextIndex \in 0..n
    /\ jobsClosed \in BOOLEAN
    /\ wpc \in [1..n -> WorkerStates]
    /\ index \in [1..n -> Nat]
    /\ results \in [Indices -> Results]
    /\ outcome \in [Indices -> {"none", "running", "exited"} \cup Results]
    /\ late \in Nat

\* A worker that received a job holds its slot of results until it waits for the
\* next one.
Holds(w) == wpc[w] \in {"check", "call", "run"}

\* No two goroutines ever touch one result slot: distinct workers hold distinct
\* slots, all below nextIndex, and the dispatcher, which fills the slots from
\* nextIndex up and then reads all of them, does so when no worker holds any.
\* The slice has no lock; this is what makes the unsynchronised writes race-free.
SlotsExclusive ==
    \A w \in Workers : Holds(w) =>
        /\ pc \notin {"fill", "returned"}
        /\ index[w] < nextIndex
        /\ \A v \in Workers \ {w} : Holds(v) => index[v] # index[w]

RunningCallbacks == {i \in Indices : outcome[i] = "running"}

\* At most concurrency callbacks run at once, and none when the arguments were
\* rejected (concurrency <= 0).
BoundedConcurrency ==
    RunningCallbacks # {} => Cardinality(RunningCallbacks) <= concurrency

\* Cancellation does not stop a callback whose worker has already read
\* ctx.Err() == nil; it stops all others, so no more than one callback per worker
\* starts after it.
LateStartsBounded == late > 0 => late <= WorkerCount

\* The returned results tell the truth about every shard, although a slot that
\* nobody wrote reads "nil" like a success: the recorded error is what the
\* callback returned, or the context error of a cancelled call for a callback
\* that never ran; and the returned error is nil only if every callback ran and
\* none failed.  A callback that ended its goroutine is the one that reads like a
\* success.
ReportExact ==
    pc = "returned" =>
        /\ \A i \in Indices :
              outcome[i] # "running" /\ results[i] = Recorded(outcome[i])
        /\ (\E i \in Indices : outcome[i] = "none") => cancelled
        /\ DOMAIN err = {i \in Indices : outcome[i] \notin {"nil", "exited"}}

\* What the caller sees is the atomic fan-out of module FanOut: the report
\* appears at once, when the call returns.
Contract == INSTANCE FanOut WITH
    status <- IF Returned THEN pc ELSE "pending",
    report <- IF pc = "returned" THEN results ELSE <<>>

\* ForEachShard implements FanOut.
ImplementsFanOut == Contract!Spec

\* Once the context is cancelled the call returns, provided the callbacks that
\* are running observe the context.
CancelReturns == cancelled ~> Returned

\* Callbacks have ended all workers while there are shards to hand out.
Abandoned == pc = "select" /\ \A w \in Workers : wpc[w] = "done"

\* The call returns whenever its callbacks do, cancelled or not: no hand-over on
\* the channel and no Wait blocks for ever, unless no worker is left to take over.
ReturnsWithCallbacks ==
    []<>(RunningCallbacks = {}) => <>(Returned \/ Abandoned)

===============================================================================
