-------------------------------- MODULE FanOut --------------------------------
(***************************************************************************)
(* What Topology.ForEachShard promises its caller, with no worker, channel *)
(* or partially written result in sight.  n callbacks, one per registered  *)
(* shard, are started and finish in any order, at most limit of them at a  *)
(* time.  The call replies once, with the outcome of every callback that   *)
(* ran and the context error for every callback that did not; the latter   *)
(* happens only after the context was cancelled.  Cancellation lets at     *)
(* most limit further callbacks start.  A callback that ends its goroutine *)
(* instead of returning is reported like one that succeeded.               *)
(***************************************************************************)
EXTENDS Integers, FiniteSets

CONSTANTS Lengths,       \* the topology lengths a call may meet
          Concurrencies  \* the concurrency arguments a call may be given

VARIABLES n,            \* len(t.shards); 0 stands for a nil or empty topology
          concurrency,  \* the concurrency argument
          fnNil,        \* the callback argument is nil
          cancelled,    \* ctx.Err() # nil
          outcome,      \* per shard: what its callback has done so far
          late,         \* callbacks started after the cancellation
          status,       \* "pending" until the call returns
          report        \* per shard: the Err field of the returned results

vars == <<n, concurrency, fnNil, cancelled, outcome, late, status, report>>

Results == {"nil", "callbackErr", "ctxErr"}  \* the Err field of one result
Outcomes == {"none", "running", "exited"} \cup Results

\* The most callbacks that may run at once.
Limit == IF concurrency < n THEN concurrency ELSE n

ArgumentsValid == n > 0 /\ concurrency > 0 /\ ~fnNil

Running == {i \in 0..(n-1) : outcome[i] = "running"}

Init ==
    /\ n \in Lengths
    /\ concurrency \in Concurrencies
    /\ fnNil \in BOOLEAN
    /\ cancelled \in BOOLEAN
    /\ outcome = [i \in 0..(n-1) |-> "none"]
    /\ late = 0
    /\ status = "pending"
    /\ report = <<>>

\* The caller, or the deadline, cancels the context.
Cancel ==
    /\ cancelled' = TRUE
    /\ UNCHANGED <<n, concurrency, fnNil, outcome, late, status, report>>

Start(i) ==
    /\ status = "pending" /\ ArgumentsValid
    /\ outcome[i] = "none"
    /\ Cardinality(Running) < Limit
    /\ cancelled => late < Limit
    /\ outcome' = [outcome EXCEPT ![i] = "running"]
    /\ late' = IF cancelled THEN late + 1 ELSE late
    /\ UNCHANGED <<n, concurrency, fnNil, cancelled, status, report>>

Finish(i, result) ==
    /\ outcome[i] = "running"
    /\ result = "ctxErr" => cancelled
    /\ outcome' = [outcome EXCEPT ![i] = result]
    /\ UNCHANGED <<n, concurrency, fnNil, cancelled, late, status, report>>

\* runtime.Goexit in the callback.
Exit(i) ==
    /\ outcome[i] = "running"
    /\ outcome' = [outcome EXCEPT ![i] = "exited"]
    /\ UNCHANGED <<n, concurrency, fnNil, cancelled, late, status, report>>

Reject ==
    /\ status = "pending" /\ ~ArgumentsValid
    /\ status' = "rejected"
    /\ UNCHANGED <<n, concurrency, fnNil, cancelled, outcome, late, report>>

\* The report: the callback's own outcome, or the context error for a callback
\* that was never started.
Report == [i \in 0..(n-1) |->
              CASE outcome[i] = "none" -> "ctxErr"
                [] outcome[i] = "exited" -> "nil"
                [] OTHER -> outcome[i]]

Reply ==
    /\ status = "pending" /\ ArgumentsValid
    /\ Running = {}
    /\ (\E i \in 0..(n-1) : outcome[i] = "none") => cancelled
    /\ status' = "returned"
    /\ report' = Report
    /\ UNCHANGED <<n, concurrency, fnNil, cancelled, outcome, late>>

Next ==
    \/ Cancel
    \/ \E i \in 0..(n-1) : Start(i)
    \/ \E i \in 0..(n-1), result \in Results : Finish(i, result)
    \/ \E i \in 0..(n-1) : Exit(i)
    \/ Reject
    \/ Reply

Spec == Init /\ [][Next]_vars
===============================================================================
