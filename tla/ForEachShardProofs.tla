-------------------------- MODULE ForEachShardProofs --------------------------
(***************************************************************************)
(* Proofs about ForEachShard for every topology length and every           *)
(* concurrency argument: the inductive invariant, the safety properties it *)
(* implies, and the refinement of FanOut.                                  *)
(***************************************************************************)
EXTENDS ForEachShard, FiniteSetTheorems, TLAPS

-----------------------------------------------------------------------------
(* The inductive invariant. *)

\* A slot below nextIndex that no worker holds has its final value.
Settled(i) ==
    /\ outcome[i] # "running"
    /\ results[i] = Recorded(outcome[i])
    /\ outcome[i] = "none" => cancelled

\* Where the dispatcher is says how far the hand-over of jobs has come.
DispatcherInv ==
    /\ pc \in {"enter", "rejected"} =>
          /\ nextIndex = 0
          /\ \A w \in Workers : wpc[w] = "unborn"
    /\ pc \notin {"enter", "rejected"} => ArgumentsValid
    /\ pc = "select" => nextIndex < n
    /\ pc \in {"close", "wait", "fill"} => nextIndex = n \/ cancelled
    /\ jobsClosed => pc \in {"wait", "fill", "returned"}
    /\ pc \in {"fill", "returned"} => \A w \in Workers : wpc[w] \in {"unborn", "done"}

\* A worker holds a slot of its own; what the callback of that slot has done is
\* told by the worker's control point.
WorkersInv ==
    \A w \in Workers :
        /\ Holds(w) =>
              /\ index[w] < nextIndex
              /\ results[index[w]] = "nil"
              /\ \A v \in Workers \ {w} : Holds(v) => index[v] # index[w]
        /\ wpc[w] \in {"check", "call"} => outcome[index[w]] = "none"
        /\ wpc[w] = "run" => outcome[index[w]] = "running"

SlotsInv ==
    \A i \in Indices :
        /\ outcome[i] = "running" => \E w \in Workers : wpc[w] = "run" /\ index[w] = i
        /\ i >= nextIndex => outcome[i] = "none" /\ (pc # "returned" => results[i] = "nil")
        /\ pc # "returned" /\ i < nextIndex /\ (\A w \in Workers : Holds(w) => index[w] # i)
              => Settled(i)

\* After the cancellation no worker can reach the call, so the callbacks
\* started late and the workers still about to call never exceed the workers.
Calling == {w \in Workers : wpc[w] = "call"}

LateInv ==
    /\ ~cancelled => late = 0
    /\ late # 0 => pc \notin {"enter", "rejected"}
    /\ ArgumentsValid => late + Cardinality(Calling) <= WorkerCount

IInv ==
    /\ TypeOK
    /\ DispatcherInv
    /\ WorkersInv
    /\ SlotsInv
    /\ LateInv
    /\ ReportExact

-----------------------------------------------------------------------------
(* Counting workers. *)

\* The workers of a call with valid arguments: min(concurrency, n) of them.
LEMMA WorkersFinite ==
    ASSUME TypeOK
    PROVE  /\ WorkerCount \in Int
           /\ IsFiniteSet(Workers)
           /\ WorkerCount >= 0 => Cardinality(Workers) = WorkerCount
           /\ ArgumentsValid => WorkerCount > 0
           /\ Workers \subseteq 1..n
<1>1. /\ WorkerCount \in Int
      /\ ArgumentsValid => WorkerCount > 0
      /\ Workers \subseteq 1..n
  BY DEF TypeOK, WorkerCount, Workers, ArgumentsValid
<1>2. /\ IsFiniteSet(1..WorkerCount)
      /\ Cardinality(1..WorkerCount) = IF 1 > WorkerCount THEN 0 ELSE WorkerCount - 1 + 1
  BY <1>1, FS_Interval
<1>3. QED
  BY <1>1, <1>2 DEF Workers

\* A set of workers is finite and no larger than the worker count.
LEMMA WorkerSetBound ==
    ASSUME TypeOK, ArgumentsValid, NEW S \in SUBSET Workers
    PROVE  /\ IsFiniteSet(S)
           /\ Cardinality(S) \in Nat
           /\ Cardinality(S) <= WorkerCount
<1>1. IsFiniteSet(S) /\ Cardinality(S) <= Cardinality(Workers)
  BY WorkersFinite, FS_Subset
<1>2. Cardinality(S) \in Nat
  BY <1>1, FS_CardinalityType
<1>3. QED
  BY <1>1, <1>2, WorkersFinite

-----------------------------------------------------------------------------
(* The invariant is inductive. *)

\* Every initial state, with any of the allowed arguments, satisfies IInv.
LEMMA InitIInv == Init => IInv
<1> SUFFICES ASSUME Init PROVE IInv
  OBVIOUS
<1> USE LengthsAssumption, ConcurrenciesAssumption
<1>1. TypeOK
  <2>1. fnNil \in BOOLEAN /\ cancelled \in BOOLEAN /\ jobsClosed \in BOOLEAN
    BY Zenon DEF Init
  <2>2. n \in Nat /\ concurrency \in Int /\ nextIndex \in 0..n /\ late \in Nat
    BY DEF Init
  <2>3. /\ pc \in DispatcherStates
        /\ wpc \in [1..n -> WorkerStates]
        /\ index \in [1..n -> Nat]
        /\ results \in [Indices -> Results]
        /\ outcome \in [Indices -> {"none", "running"} \cup Results]
    BY <2>2 DEF Init, Results, DispatcherStates, WorkerStates
  <2>4. QED
    BY <2>1, <2>2, <2>3 DEF TypeOK
<1>2. \A w \in Workers : wpc[w] = "unborn"
  BY <1>1, WorkersFinite DEF Init
<1>3. DispatcherInv
  BY <1>1, <1>2 DEF Init, DispatcherInv
<1>4. WorkersInv
  BY <1>2 DEF WorkersInv, Holds
<1>5. SlotsInv
  BY <1>1 DEF Init, SlotsInv, Indices, TypeOK
<1>6. LateInv
  <2>1. Calling = {}
    BY <1>2 DEF Calling
  <2>2. Cardinality(Calling) = 0
    BY <2>1, FS_EmptySet
  <2>3. QED
    BY <1>1, <2>2, WorkersFinite DEF Init, LateInv
<1>7. ReportExact
  BY DEF Init, ReportExact
<1>8. QED
  BY <1>1, <1>3, <1>4, <1>5, <1>6, <1>7 DEF IInv

\* Every step keeps the types; a worker's slot number stays below n because
\* the loop test guards each hand-over.
LEMMA TypeStep == IInv /\ [Next]_vars => TypeOK'
<1> SUFFICES ASSUME IInv, [Next]_vars PROVE TypeOK'
  OBVIOUS
<1> USE DEF IInv, TypeOK, DispatcherStates, WorkerStates, Results, Indices
<1>w. Workers \subseteq 1..n
  BY WorkersFinite
<1>h. \A w \in Workers : Holds(w) => index[w] \in Indices
  BY <1>w DEF WorkersInv
<1>1. CASE Cancel
  BY <1>1 DEF Cancel, args
<1>2. CASE RejectArguments
  BY <1>2 DEF RejectArguments, args, workerVars
<1>3. CASE ReturnCancelled
  BY <1>3 DEF ReturnCancelled, args, workerVars
<1>4. CASE StartWorkers
  BY <1>4 DEF StartWorkers, args
<1>5. CASE LoopTest
  BY <1>5 DEF LoopTest, args, workerVars
<1>6. ASSUME NEW w \in Workers, Send(w) PROVE TypeOK'
  BY <1>6, <1>w DEF Send, args, DispatcherInv
<1>7. CASE SelectDone
  BY <1>7 DEF SelectDone, args, workerVars
<1>8. CASE CloseJobs
  BY <1>8 DEF CloseJobs, args, workerVars
<1>9. CASE Wait
  BY <1>9 DEF Wait, args, workerVars
<1>10. CASE FillAndReturn
  BY <1>10 DEF FillAndReturn, args, workerVars
<1>11. ASSUME NEW w \in Workers, CheckContext(w) PROVE TypeOK'
  BY <1>11, <1>w, <1>h DEF CheckContext, args, Holds
<1>12. ASSUME NEW w \in Workers, Call(w) PROVE TypeOK'
  BY <1>12, <1>w, <1>h DEF Call, args, Holds
<1>13. ASSUME NEW w \in Workers, NEW result \in Results, Return(w, result) PROVE TypeOK'
  BY <1>13, <1>w, <1>h DEF Return, args, Holds
<1>exit. ASSUME NEW w \in Workers, Exit(w) PROVE TypeOK'
  BY <1>exit, <1>w, <1>h DEF Exit, args, Holds
<1>14. ASSUME NEW w \in Workers, Finish(w) PROVE TypeOK'
  BY <1>14, <1>w DEF Finish, args
<1>15. CASE UNCHANGED vars
  BY <1>15 DEF vars, args
<1>16. QED
  BY <1>1, <1>2, <1>3, <1>4, <1>5, <1>6, <1>7, <1>8, <1>9, <1>10, <1>11, <1>12,
     <1>13, <1>14, <1>15, <1>exit DEF Next, Dispatcher, Worker, Terminated

\* A step that moves the dispatcher only, and does not return, disturbs neither
\* the workers nor the slots.
LEMMA DispatcherMoves ==
    ASSUME IInv, UNCHANGED <<args, cancelled, nextIndex, results, workerVars>>,
           pc # "returned", pc' # "returned",
           pc' \in {"enter", "rejected"} => pc \in {"enter", "rejected"}
    PROVE  WorkersInv' /\ SlotsInv' /\ LateInv' /\ ReportExact'
<1> USE DEF IInv, args, workerVars
<1>1. WorkersInv'
  BY DEF WorkersInv, Holds, Workers, WorkerCount
<1>2. SlotsInv'
  BY DEF SlotsInv, Settled, Recorded, Holds, Indices, Workers, WorkerCount
<1>3. LateInv'
  BY DEF LateInv, Calling, Workers, WorkerCount, ArgumentsValid
<1>4. ReportExact'
  BY DEF ReportExact
<1>5. QED
  BY <1>1, <1>2, <1>3, <1>4

\* Every step keeps the invariant.
LEMMA NextIInv == IInv /\ [Next]_vars => IInv'
<1> SUFFICES ASSUME IInv, [Next]_vars PROVE IInv'
  OBVIOUS
<1>t. TypeOK'
  BY TypeStep
<1>w. Workers \subseteq 1..n
  BY WorkersFinite DEF IInv
<1>c. ArgumentsValid => /\ WorkerCount \in Nat
                        /\ Cardinality(Calling) \in Nat
                        /\ Cardinality(Calling) <= WorkerCount
                        /\ IsFiniteSet(Calling)
  BY WorkersFinite, WorkerSetBound DEF IInv, Calling
<1> USE DEF IInv, TypeOK, Indices
<1>1. CASE Cancel
  <2> USE <1>1 DEF Cancel, args
  <2>1. DispatcherInv'
    BY DEF DispatcherInv, Workers, WorkerCount, ArgumentsValid
  <2>2. WorkersInv'
    BY DEF WorkersInv, Holds, Workers, WorkerCount
  <2>3. SlotsInv'
    BY DEF SlotsInv, Settled, Recorded, Holds, Workers, WorkerCount
  <2>4. LateInv'
    BY DEF LateInv, Calling, Workers, WorkerCount, ArgumentsValid
  <2>5. ReportExact'
    BY DEF ReportExact
  <2>6. QED
    BY <1>t, <2>1, <2>2, <2>3, <2>4, <2>5
<1>2. CASE RejectArguments
  <2>1. DispatcherInv'
    BY <1>2 DEF RejectArguments, args, workerVars, DispatcherInv, Workers, WorkerCount,
       ArgumentsValid
  <2>2. WorkersInv' /\ SlotsInv' /\ LateInv' /\ ReportExact'
    BY <1>2, DispatcherMoves DEF RejectArguments
  <2>3. QED
    BY <1>t, <2>1, <2>2
<1>3. CASE ReturnCancelled
  <2> USE <1>3 DEF ReturnCancelled, args, workerVars
  <2>1. DispatcherInv'
    BY DEF DispatcherInv, Workers, WorkerCount, ArgumentsValid
  <2>2. WorkersInv'
    BY DEF WorkersInv, DispatcherInv, Holds, Workers, WorkerCount
  <2>3. SlotsInv'
    BY DEF SlotsInv, Settled, Recorded, Holds, Workers, WorkerCount
  <2>4. LateInv'
    BY DEF LateInv, Calling, Workers, WorkerCount, ArgumentsValid, DispatcherInv
  <2>5. ReportExact'
    BY DEF ReportExact, SlotsInv, DispatcherInv, Err, Recorded
  <2>6. QED
    BY <1>t, <2>1, <2>2, <2>3, <2>4, <2>5
<1>4. CASE StartWorkers
  <2> USE <1>4 DEF StartWorkers, args
  <2>0. \A w \in Workers : wpc'[w] = "receive"
    BY <1>w
  <2>1. DispatcherInv'
    BY <2>0 DEF DispatcherInv, Workers, WorkerCount, ArgumentsValid
  <2>2. WorkersInv'
    BY <2>0 DEF WorkersInv, Holds, Workers, WorkerCount
  <2>3. SlotsInv'
    BY DEF SlotsInv, DispatcherInv, Settled, Recorded, Holds, Workers, WorkerCount
  <2>4. LateInv'
    <3>1. Calling' = {}
      BY <2>0 DEF Calling, Workers, WorkerCount
    <3>2. Cardinality(Calling') = 0
      BY <3>1, FS_EmptySet
    <3>3. QED
      BY <1>c, <3>2 DEF LateInv, WorkerCount, ArgumentsValid
  <2>5. ReportExact'
    BY DEF ReportExact
  <2>6. QED
    BY <1>t, <2>1, <2>2, <2>3, <2>4, <2>5
<1>5. CASE LoopTest
  <2>1. DispatcherInv'
    BY <1>5 DEF LoopTest, args, workerVars, DispatcherInv, Workers, WorkerCount,
       ArgumentsValid
  <2>2. WorkersInv' /\ SlotsInv' /\ LateInv' /\ ReportExact'
    BY <1>5, DispatcherMoves DEF LoopTest
  <2>3. QED
    BY <1>t, <2>1, <2>2
<1>6. ASSUME NEW w \in Workers, Send(w) PROVE IInv'
  <2> USE <1>6 DEF Send, args
  <2>0. /\ w \in 1..n
        /\ \A v \in Workers : wpc'[v] = (IF v = w THEN "check" ELSE wpc[v])
        /\ \A v \in Workers : index'[v] = (IF v = w THEN nextIndex ELSE index[v])
    BY <1>w
  <2>1. DispatcherInv'
    BY <2>0 DEF DispatcherInv, Workers, WorkerCount, ArgumentsValid
  <2>2. WorkersInv'
    <3> SUFFICES ASSUME NEW v \in Workers
                 PROVE  /\ Holds(v)' =>
                           /\ index'[v] < nextIndex'
                           /\ results'[index'[v]] = "nil"
                           /\ \A u \in Workers \ {v} : Holds(u)' => index'[u] # index'[v]
                        /\ wpc'[v] \in {"check", "call"} => outcome'[index'[v]] = "none"
                        /\ wpc'[v] = "run" => outcome'[index'[v]] = "running"
      BY DEF WorkersInv, Workers, WorkerCount
    <3>1. /\ nextIndex \in Indices /\ nextIndex' = nextIndex + 1
          /\ outcome[nextIndex] = "none" /\ results'[nextIndex] = "nil"
      BY DEF DispatcherInv, SlotsInv
    <3>2. \A u \in Workers : Holds(u) => index[u] \in Nat /\ index[u] < nextIndex
      BY <1>w DEF WorkersInv
    <3>3. CASE v = w
      <4>1. index'[v] = nextIndex /\ wpc'[v] = "check"
        BY <2>0, <3>3
      <4>2. ASSUME NEW u \in Workers \ {v}, Holds(u)' PROVE index'[u] # index'[v]
        BY <2>0, <3>2, <3>3, <4>1, <4>2 DEF Holds
      <4>3. QED
        BY <3>1, <4>1, <4>2
    <3>4. CASE v # w
      <4>1. index'[v] = index[v] /\ wpc'[v] = wpc[v]
        BY <2>0, <3>4
      <4>2. Holds(v)' => Holds(v)
        BY <4>1 DEF Holds
      <4>3. ASSUME Holds(v), NEW u \in Workers \ {v}, Holds(u)' PROVE index'[u] # index'[v]
        <5>1. CASE u = w
          BY <2>0, <3>2, <4>1, <4>3, <5>1
        <5>2. CASE u # w
          BY <2>0, <4>1, <4>3, <5>2 DEF WorkersInv, Holds
        <5>3. QED
          BY <5>1, <5>2
      <4>4. QED
        BY <3>1, <3>2, <4>1, <4>2, <4>3 DEF WorkersInv
    <3>5. QED
      BY <3>3, <3>4
  <2>3. SlotsInv'
    <3> SUFFICES ASSUME NEW i \in Indices
                 PROVE  /\ outcome[i] = "running" =>
                              \E v \in Workers : wpc'[v] = "run" /\ index'[v] = i
                        /\ i >= nextIndex + 1 => outcome[i] = "none" /\ results[i] = "nil"
                        /\ /\ i < nextIndex + 1
                           /\ \A v \in Workers : Holds(v)' => index'[v] # i
                           => Settled(i)'
      BY DEF SlotsInv, Workers, WorkerCount
    <3>1. outcome[i] = "running" => \E v \in Workers : wpc'[v] = "run" /\ index'[v] = i
      BY <2>0 DEF SlotsInv
    <3>2. i >= nextIndex + 1 => outcome[i] = "none" /\ results[i] = "nil"
      BY DEF SlotsInv
    <3>3. ASSUME i < nextIndex + 1, \A v \in Workers : Holds(v)' => index'[v] # i
          PROVE  Settled(i)'
      <4>1. i # nextIndex
        BY <2>0, <3>3 DEF Holds
      <4>2. \A v \in Workers : Holds(v) => index[v] # i
        BY <2>0, <3>3 DEF Holds
      <4>3. i < nextIndex
        BY <3>3, <4>1 DEF DispatcherInv
      <4>4. Settled(i)
        BY <4>2, <4>3 DEF SlotsInv
      <4>5. QED
        BY <4>4 DEF Settled, Recorded
    <3>4. QED
      BY <3>1, <3>2, <3>3
  <2>4. LateInv'
    <3>1. Calling' = Calling
      BY <2>0 DEF Calling, Workers, WorkerCount
    <3>2. QED
      BY <3>1 DEF LateInv, DispatcherInv, WorkerCount, ArgumentsValid
  <2>5. ReportExact'
    BY DEF ReportExact
  <2>6. QED
    BY <1>t, <2>1, <2>2, <2>3, <2>4, <2>5
<1>7. CASE SelectDone
  <2>1. DispatcherInv'
    BY <1>7 DEF SelectDone, args, workerVars, DispatcherInv, Workers, WorkerCount,
       ArgumentsValid
  <2>2. WorkersInv' /\ SlotsInv' /\ LateInv' /\ ReportExact'
    BY <1>7, DispatcherMoves DEF SelectDone
  <2>3. QED
    BY <1>t, <2>1, <2>2
<1>8. CASE CloseJobs
  <2>1. DispatcherInv'
    BY <1>8 DEF CloseJobs, args, workerVars, DispatcherInv, Workers, WorkerCount,
       ArgumentsValid
  <2>2. WorkersInv' /\ SlotsInv' /\ LateInv' /\ ReportExact'
    BY <1>8, DispatcherMoves DEF CloseJobs
  <2>3. QED
    BY <1>t, <2>1, <2>2
<1>9. CASE Wait
  <2>1. DispatcherInv'
    BY <1>9 DEF Wait, args, workerVars, DispatcherInv, Workers, WorkerCount,
       ArgumentsValid
  <2>2. WorkersInv' /\ SlotsInv' /\ LateInv' /\ ReportExact'
    BY <1>9, DispatcherMoves DEF Wait
  <2>3. QED
    BY <1>t, <2>1, <2>2
<1>10. CASE FillAndReturn
  <2> USE <1>10 DEF FillAndReturn, args, workerVars
  <2>1. DispatcherInv'
    BY DEF DispatcherInv, Workers, WorkerCount, ArgumentsValid
  <2>2. WorkersInv'
    BY DEF WorkersInv, Holds, Workers, WorkerCount
  <2>3. SlotsInv'
    BY DEF SlotsInv, Workers, WorkerCount
  <2>4. LateInv'
    BY DEF LateInv, Calling, Workers, WorkerCount, ArgumentsValid
  <2>5. ReportExact'
    <3>1. \A i \in Indices : i < nextIndex => Settled(i)
      BY DEF SlotsInv, DispatcherInv, Holds
    <3>2. \A i \in Indices : i >= nextIndex => outcome[i] = "none" /\ cancelled
      BY DEF SlotsInv, DispatcherInv
    <3>3. \A i \in Indices :
             outcome[i] # "running" /\ results'[i] = Recorded(outcome[i])
      BY <3>1, <3>2 DEF Settled, Recorded
    <3>4. ASSUME NEW i \in Indices, outcome[i] = "none" PROVE cancelled
      <4>1. i < nextIndex \/ i >= nextIndex
        OBVIOUS
      <4>2. QED
        BY <3>1, <3>2, <3>4, <4>1 DEF Settled, Recorded
    <3>5. DOMAIN err' = {i \in Indices : outcome[i] \notin {"nil", "exited"}}
      BY <3>3, <1>t DEF Err, Recorded
    <3>6. QED
      BY <3>3, <3>4, <3>5 DEF ReportExact
  <2>6. QED
    BY <1>t, <2>1, <2>2, <2>3, <2>4, <2>5
<1>11. ASSUME NEW w \in Workers, CheckContext(w) PROVE IInv'
  <2> USE <1>11 DEF CheckContext, args
  <2>0. /\ w \in 1..n
        /\ index[w] \in Indices
        /\ \A v \in Workers \ {w} : wpc'[v] = wpc[v]
        /\ wpc'[w] = IF cancelled THEN "receive" ELSE "call"
        /\ \A i \in Indices \ {index[w]} : results'[i] = results[i]
        /\ ~cancelled => results' = results
        /\ cancelled => results'[index[w]] = "ctxErr"
    BY <1>w DEF WorkersInv, Holds
  <2>1. DispatcherInv'
    BY <2>0 DEF DispatcherInv, Workers, WorkerCount, ArgumentsValid
  <2>2. WorkersInv'
    <3> SUFFICES ASSUME NEW v \in Workers
                 PROVE  /\ Holds(v)' =>
                           /\ index'[v] < nextIndex'
                           /\ results'[index'[v]] = "nil"
                           /\ \A u \in Workers \ {v} : Holds(u)' => index'[u] # index'[v]
                        /\ wpc'[v] \in {"check", "call"} => outcome'[index'[v]] = "none"
                        /\ wpc'[v] = "run" => outcome'[index'[v]] = "running"
      BY DEF WorkersInv, Workers, WorkerCount
    <3>1. Holds(w) /\ \A u \in Workers : Holds(u)' => Holds(u)
      BY <2>0 DEF Holds
    <3>2. CASE v = w
      BY <2>0, <3>1, <3>2 DEF WorkersInv, Holds
    <3>3. CASE v # w
      <4>1. Holds(v) => index[v] # index[w] /\ index[v] \in Indices
        BY <1>w, <3>1, <3>3 DEF WorkersInv
      <4>2. /\ wpc'[v] = wpc[v]
            /\ Holds(v) => /\ outcome'[index[v]] = outcome[index[v]]
                           /\ results'[index[v]] = results[index[v]]
        BY <2>0, <3>3, <4>1
      <4>3. wpc[v] \in {"check", "call", "run"} => Holds(v)
        BY DEF Holds
      <4>4. QED
        BY <3>1, <4>2, <4>3 DEF WorkersInv
    <3>4. QED
      BY <3>2, <3>3
  <2>3. SlotsInv'
    <3> SUFFICES ASSUME NEW i \in Indices
                 PROVE  /\ outcome'[i] = "running" =>
                              \E v \in Workers : wpc'[v] = "run" /\ index'[v] = i
                        /\ i >= nextIndex =>
                              outcome'[i] = "none" /\ (pc # "returned" => results'[i] = "nil")
                        /\ /\ pc # "returned" /\ i < nextIndex
                           /\ \A v \in Workers : Holds(v)' => index'[v] # i
                           => Settled(i)'
      BY DEF SlotsInv, Workers, WorkerCount
    <3>1. outcome'[i] = "running" => \E v \in Workers : wpc'[v] = "run" /\ index'[v] = i
      BY <2>0, <1>w DEF SlotsInv
    <3>2. i >= nextIndex => outcome'[i] = "none" /\ (pc # "returned" => results'[i] = "nil")
      BY <2>0, <1>w DEF SlotsInv, WorkersInv, Holds
    <3>3. ASSUME pc # "returned", i < nextIndex,
                 \A v \in Workers : Holds(v)' => index'[v] # i
          PROVE  Settled(i)'
      <4>1. \A v \in Workers \ {w} : Holds(v) => index[v] # i
        BY <3>3, <2>0 DEF Holds
      <4>2. CASE i = index[w]
        BY <2>0, <3>3, <4>2 DEF WorkersInv, Settled, Recorded, Holds
      <4>3. CASE i # index[w]
        BY <2>0, <3>3, <4>1, <4>3 DEF SlotsInv, Settled, Recorded
      <4>4. QED
        BY <4>2, <4>3
    <3>4. QED
      BY <3>1, <3>2, <3>3
  <2>4. LateInv'
    <3>1. CASE cancelled
      <4>1. Calling' = Calling
        BY <2>0, <3>1 DEF Calling, Workers, WorkerCount
      <4>2. QED
        BY <3>1, <4>1 DEF LateInv, WorkerCount, ArgumentsValid
    <3>2. CASE ~cancelled
      <4>1. ArgumentsValid => Cardinality(Calling') <= WorkerCount
        BY WorkerSetBound DEF Calling, Workers, WorkerCount
      <4>2. pc \notin {"enter", "rejected"}
        BY DEF DispatcherInv
      <4>3. late = 0 /\ late' = 0
        BY <3>2 DEF LateInv
      <4>4. ArgumentsValid => Cardinality(Calling') \in Nat
        BY WorkerSetBound DEF Calling, Workers, WorkerCount
      <4>5. QED
        BY <4>1, <4>2, <4>3, <4>4, <1>c DEF LateInv, WorkerCount, ArgumentsValid
    <3>3. QED
      BY <3>1, <3>2
  <2>5. ReportExact'
    BY DEF ReportExact, DispatcherInv
  <2>6. QED
    BY <1>t, <2>1, <2>2, <2>3, <2>4, <2>5
<1>12. ASSUME NEW w \in Workers, Call(w) PROVE IInv'
  <2> USE <1>12 DEF Call, args
  <2>0. /\ w \in 1..n
        /\ index[w] \in Indices
        /\ \A v \in Workers \ {w} : wpc'[v] = wpc[v]
        /\ wpc'[w] = "run"
        /\ \A i \in Indices \ {index[w]} : outcome'[i] = outcome[i]
        /\ outcome'[index[w]] = "running"
    BY <1>w DEF WorkersInv, Holds
  <2>1. DispatcherInv'
    BY <2>0 DEF DispatcherInv, Workers, WorkerCount, ArgumentsValid
  <2>2. WorkersInv'
    <3> SUFFICES ASSUME NEW v \in Workers
                 PROVE  /\ Holds(v)' =>
                           /\ index'[v] < nextIndex'
                           /\ results'[index'[v]] = "nil"
                           /\ \A u \in Workers \ {v} : Holds(u)' => index'[u] # index'[v]
                        /\ wpc'[v] \in {"check", "call"} => outcome'[index'[v]] = "none"
                        /\ wpc'[v] = "run" => outcome'[index'[v]] = "running"
      BY DEF WorkersInv, Workers, WorkerCount
    <3>1. Holds(w) /\ \A u \in Workers : Holds(u)' => Holds(u)
      BY <2>0 DEF Holds
    <3>2. CASE v = w
      BY <2>0, <3>1, <3>2 DEF WorkersInv, Holds
    <3>3. CASE v # w
      <4>1. Holds(v) => index[v] # index[w] /\ index[v] \in Indices
        BY <1>w, <3>1, <3>3 DEF WorkersInv
      <4>2. /\ wpc'[v] = wpc[v]
            /\ Holds(v) => /\ outcome'[index[v]] = outcome[index[v]]
                           /\ results'[index[v]] = results[index[v]]
        BY <2>0, <3>3, <4>1
      <4>3. wpc[v] \in {"check", "call", "run"} => Holds(v)
        BY DEF Holds
      <4>4. QED
        BY <3>1, <4>2, <4>3 DEF WorkersInv
    <3>4. QED
      BY <3>2, <3>3
  <2>3. SlotsInv'
    <3> SUFFICES ASSUME NEW i \in Indices
                 PROVE  /\ outcome'[i] = "running" =>
                              \E v \in Workers : wpc'[v] = "run" /\ index'[v] = i
                        /\ i >= nextIndex =>
                              outcome'[i] = "none" /\ (pc # "returned" => results'[i] = "nil")
                        /\ /\ pc # "returned" /\ i < nextIndex
                           /\ \A v \in Workers : Holds(v)' => index'[v] # i
                           => Settled(i)'
      BY DEF SlotsInv, Workers, WorkerCount
    <3>1. outcome'[i] = "running" => \E v \in Workers : wpc'[v] = "run" /\ index'[v] = i
      BY <2>0, <1>w DEF SlotsInv
    <3>2. i >= nextIndex => outcome'[i] = "none" /\ (pc # "returned" => results'[i] = "nil")
      BY <2>0, <1>w DEF SlotsInv, WorkersInv, Holds
    <3>3. ASSUME pc # "returned", i < nextIndex,
                 \A v \in Workers : Holds(v)' => index'[v] # i
          PROVE  Settled(i)'
      <4>1. \A v \in Workers \ {w} : Holds(v) => index[v] # i
        BY <3>3, <2>0 DEF Holds
      <4>2. CASE i = index[w]
        BY <2>0, <3>3, <4>2 DEF WorkersInv, Settled, Recorded, Holds
      <4>3. CASE i # index[w]
        BY <2>0, <3>3, <4>1, <4>3 DEF SlotsInv, Settled, Recorded
      <4>4. QED
        BY <4>2, <4>3
    <3>4. QED
      BY <3>1, <3>2, <3>3
  <2>4. LateInv'
    <3>1. Calling' = Calling \ {w} /\ w \in Calling
      BY <2>0 DEF Calling, Workers, WorkerCount
    <3>2. ArgumentsValid => Cardinality(Calling') = Cardinality(Calling) - 1
      BY <3>1, <1>c, FS_RemoveElement
    <3>3. pc \notin {"enter", "rejected"}
      BY DEF DispatcherInv
    <3>4. QED
      BY <3>2, <3>3, <1>c DEF LateInv, WorkerCount, ArgumentsValid
  <2>5. ReportExact'
    BY DEF ReportExact, DispatcherInv
  <2>6. QED
    BY <1>t, <2>1, <2>2, <2>3, <2>4, <2>5
<1>13. ASSUME NEW w \in Workers, NEW result \in Results, Return(w, result) PROVE IInv'
  <2> USE <1>13 DEF Return, args
  <2>0. /\ w \in 1..n
        /\ index[w] \in Indices
        /\ \A v \in Workers \ {w} : wpc'[v] = wpc[v]
        /\ wpc'[w] = "receive"
        /\ \A i \in Indices \ {index[w]} :
              results'[i] = results[i] /\ outcome'[i] = outcome[i]
        /\ results'[index[w]] = result /\ outcome'[index[w]] = result
        /\ result \notin {"none", "running", "exited"}
    BY <1>w DEF WorkersInv, Holds, Results
  <2>1. DispatcherInv'
    BY <2>0 DEF DispatcherInv, Workers, WorkerCount, ArgumentsValid
  <2>2. WorkersInv'
    <3> SUFFICES ASSUME NEW v \in Workers
                 PROVE  /\ Holds(v)' =>
                           /\ index'[v] < nextIndex'
                           /\ results'[index'[v]] = "nil"
                           /\ \A u \in Workers \ {v} : Holds(u)' => index'[u] # index'[v]
                        /\ wpc'[v] \in {"check", "call"} => outcome'[index'[v]] = "none"
                        /\ wpc'[v] = "run" => outcome'[index'[v]] = "running"
      BY DEF WorkersInv, Workers, WorkerCount
    <3>1. Holds(w) /\ \A u \in Workers : Holds(u)' => Holds(u)
      BY <2>0 DEF Holds
    <3>2. CASE v = w
      BY <2>0, <3>1, <3>2 DEF WorkersInv, Holds
    <3>3. CASE v # w
      <4>1. Holds(v) => index[v] # index[w] /\ index[v] \in Indices
        BY <1>w, <3>1, <3>3 DEF WorkersInv
      <4>2. /\ wpc'[v] = wpc[v]
            /\ Holds(v) => /\ outcome'[index[v]] = outcome[index[v]]
                           /\ results'[index[v]] = results[index[v]]
        BY <2>0, <3>3, <4>1
      <4>3. wpc[v] \in {"check", "call", "run"} => Holds(v)
        BY DEF Holds
      <4>4. QED
        BY <3>1, <4>2, <4>3 DEF WorkersInv
    <3>4. QED
      BY <3>2, <3>3
  <2>3. SlotsInv'
    <3> SUFFICES ASSUME NEW i \in Indices
                 PROVE  /\ outcome'[i] = "running" =>
                              \E v \in Workers : wpc'[v] = "run" /\ index'[v] = i
                        /\ i >= nextIndex =>
                              outcome'[i] = "none" /\ (pc # "returned" => results'[i] = "nil")
                        /\ /\ pc # "returned" /\ i < nextIndex
                           /\ \A v \in Workers : Holds(v)' => index'[v] # i
                           => Settled(i)'
      BY DEF SlotsInv, Workers, WorkerCount
    <3>1. outcome'[i] = "running" => \E v \in Workers : wpc'[v] = "run" /\ index'[v] = i
      BY <2>0, <1>w DEF SlotsInv, WorkersInv, Holds
    <3>2. i >= nextIndex => outcome'[i] = "none" /\ (pc # "returned" => results'[i] = "nil")
      BY <2>0, <1>w DEF SlotsInv, WorkersInv, Holds
    <3>3. ASSUME pc # "returned", i < nextIndex,
                 \A v \in Workers : Holds(v)' => index'[v] # i
          PROVE  Settled(i)'
      <4>1. \A v \in Workers \ {w} : Holds(v) => index[v] # i
        BY <3>3, <2>0 DEF Holds
      <4>2. CASE i = index[w]
        BY <2>0, <3>3, <4>2 DEF WorkersInv, Settled, Recorded, Holds
      <4>3. CASE i # index[w]
        BY <2>0, <3>3, <4>1, <4>3 DEF SlotsInv, Settled, Recorded
      <4>4. QED
        BY <4>2, <4>3
    <3>4. QED
      BY <3>1, <3>2, <3>3
  <2>4. LateInv'
    <3>1. Calling' = Calling
      BY <2>0 DEF Calling, Workers, WorkerCount
    <3>2. QED
      BY <3>1 DEF LateInv, WorkerCount, ArgumentsValid
  <2>5. ReportExact'
    BY DEF ReportExact, DispatcherInv
  <2>6. QED
    BY <1>t, <2>1, <2>2, <2>3, <2>4, <2>5
<1>exit. ASSUME NEW w \in Workers, Exit(w) PROVE IInv'
  <2> USE <1>exit DEF Exit, args
  <2>0. /\ w \in 1..n
        /\ index[w] \in Indices
        /\ \A v \in Workers \ {w} : wpc'[v] = wpc[v]
        /\ wpc'[w] = "done"
        /\ results' = results
        /\ \A i \in Indices \ {index[w]} : outcome'[i] = outcome[i]
        /\ outcome'[index[w]] = "exited"
    BY <1>w DEF WorkersInv, Holds
  <2>1. DispatcherInv'
    BY <2>0 DEF DispatcherInv, Workers, WorkerCount, ArgumentsValid
  <2>2. WorkersInv'
    <3> SUFFICES ASSUME NEW v \in Workers
                 PROVE  /\ Holds(v)' =>
                           /\ index'[v] < nextIndex'
                           /\ results'[index'[v]] = "nil"
                           /\ \A u \in Workers \ {v} : Holds(u)' => index'[u] # index'[v]
                        /\ wpc'[v] \in {"check", "call"} => outcome'[index'[v]] = "none"
                        /\ wpc'[v] = "run" => outcome'[index'[v]] = "running"
      BY DEF WorkersInv, Workers, WorkerCount
    <3>1. Holds(w) /\ \A u \in Workers : Holds(u)' => Holds(u)
      BY <2>0 DEF Holds
    <3>2. CASE v = w
      BY <2>0, <3>1, <3>2 DEF WorkersInv, Holds
    <3>3. CASE v # w
      <4>1. Holds(v) => index[v] # index[w] /\ index[v] \in Indices
        BY <1>w, <3>1, <3>3 DEF WorkersInv
      <4>2. /\ wpc'[v] = wpc[v]
            /\ Holds(v) => /\ outcome'[index[v]] = outcome[index[v]]
                           /\ results'[index[v]] = results[index[v]]
        BY <2>0, <3>3, <4>1
      <4>3. wpc[v] \in {"check", "call", "run"} => Holds(v)
        BY DEF Holds
      <4>4. QED
        BY <3>1, <4>2, <4>3 DEF WorkersInv
    <3>4. QED
      BY <3>2, <3>3
  <2>3. SlotsInv'
    <3> SUFFICES ASSUME NEW i \in Indices
                 PROVE  /\ outcome'[i] = "running" =>
                              \E v \in Workers : wpc'[v] = "run" /\ index'[v] = i
                        /\ i >= nextIndex =>
                              outcome'[i] = "none" /\ (pc # "returned" => results'[i] = "nil")
                        /\ /\ pc # "returned" /\ i < nextIndex
                           /\ \A v \in Workers : Holds(v)' => index'[v] # i
                           => Settled(i)'
      BY DEF SlotsInv, Workers, WorkerCount
    <3>1. outcome'[i] = "running" => \E v \in Workers : wpc'[v] = "run" /\ index'[v] = i
      BY <2>0, <1>w DEF SlotsInv, WorkersInv, Holds
    <3>2. i >= nextIndex => outcome'[i] = "none" /\ (pc # "returned" => results'[i] = "nil")
      BY <2>0, <1>w DEF SlotsInv, WorkersInv, Holds
    <3>3. ASSUME pc # "returned", i < nextIndex,
                 \A v \in Workers : Holds(v)' => index'[v] # i
          PROVE  Settled(i)'
      <4>1. \A v \in Workers \ {w} : Holds(v) => index[v] # i
        BY <3>3, <2>0 DEF Holds
      <4>2. CASE i = index[w]
        BY <2>0, <3>3, <4>2 DEF WorkersInv, Settled, Recorded, Holds
      <4>3. CASE i # index[w]
        BY <2>0, <3>3, <4>1, <4>3 DEF SlotsInv, Settled, Recorded
      <4>4. QED
        BY <4>2, <4>3
    <3>4. QED
      BY <3>1, <3>2, <3>3
  <2>4. LateInv'
    <3>1. Calling' = Calling
      BY <2>0 DEF Calling, Workers, WorkerCount
    <3>2. QED
      BY <3>1 DEF LateInv, WorkerCount, ArgumentsValid
  <2>5. ReportExact'
    BY DEF ReportExact, DispatcherInv
  <2>6. QED
    BY <1>t, <2>1, <2>2, <2>3, <2>4, <2>5
<1>14. ASSUME NEW w \in Workers, Finish(w) PROVE IInv'
  <2> USE <1>14 DEF Finish, args
  <2>0. /\ w \in 1..n
        /\ \A v \in Workers \ {w} : wpc'[v] = wpc[v]
        /\ wpc'[w] = "done"
    BY <1>w
  <2>1. DispatcherInv'
    BY <2>0 DEF DispatcherInv, Workers, WorkerCount, ArgumentsValid
  <2>2. WorkersInv'
    BY <2>0 DEF WorkersInv, Holds, Workers, WorkerCount
  <2>3. SlotsInv'
    <3> SUFFICES ASSUME NEW i \in Indices
                 PROVE  /\ outcome'[i] = "running" =>
                              \E v \in Workers : wpc'[v] = "run" /\ index'[v] = i
                        /\ i >= nextIndex =>
                              outcome'[i] = "none" /\ (pc # "returned" => results'[i] = "nil")
                        /\ /\ pc # "returned" /\ i < nextIndex
                           /\ \A v \in Workers : Holds(v)' => index'[v] # i
                           => Settled(i)'
      BY DEF SlotsInv, Workers, WorkerCount
    <3>1. outcome'[i] = "running" => \E v \in Workers : wpc'[v] = "run" /\ index'[v] = i
      BY <2>0, <1>w DEF SlotsInv
    <3>2. i >= nextIndex => outcome'[i] = "none" /\ (pc # "returned" => results'[i] = "nil")
      BY <2>0, <1>w DEF SlotsInv, WorkersInv, Holds
    <3>3. ASSUME pc # "returned", i < nextIndex,
                 \A v \in Workers : Holds(v)' => index'[v] # i
          PROVE  Settled(i)'
      <4>1. \A v \in Workers \ {w} : Holds(v) => index[v] # i
        BY <3>3, <2>0 DEF Holds
      <4>2. ~Holds(w)
        BY DEF Holds
      <4>3. QED
        BY <2>0, <3>3, <4>1, <4>2 DEF SlotsInv, Settled, Recorded
    <3>4. QED
      BY <3>1, <3>2, <3>3
  <2>4. LateInv'
    <3>1. Calling' = Calling
      BY <2>0 DEF Calling, Workers, WorkerCount
    <3>2. QED
      BY <3>1 DEF LateInv, WorkerCount, ArgumentsValid
  <2>5. ReportExact'
    BY DEF ReportExact
  <2>6. QED
    BY <1>t, <2>1, <2>2, <2>3, <2>4, <2>5
<1>15. CASE UNCHANGED vars
  BY <1>15, <1>t DEF vars, args, DispatcherInv, WorkersInv, SlotsInv, LateInv, ReportExact,
     Settled, Recorded, Holds, Calling, Workers, WorkerCount, ArgumentsValid
<1>16. QED
  BY <1>1, <1>2, <1>3, <1>4, <1>5, <1>6, <1>7, <1>8, <1>9, <1>10, <1>11, <1>12,
     <1>13, <1>14, <1>15, <1>exit DEF Next, Dispatcher, Worker, Terminated

\* IInv holds in every reachable state, whatever the length and the concurrency.
THEOREM InductiveInvariant == Spec => []IInv
  BY InitIInv, NextIInv, PTL DEF Spec

-----------------------------------------------------------------------------
(* The safety properties. *)

\* The dispatcher's and the workers' state always has its type; in particular
\* nextIndex never leaves 0..n.
THEOREM TypeCorrect == Spec => []TypeOK
  BY InductiveInvariant, PTL DEF IInv

\* The unsynchronised writes to the results slice never meet: every slot has one
\* writer at a time and none while the dispatcher fills and reads the slice.
THEOREM SlotsAreExclusive == Spec => []SlotsExclusive
<1>1. IInv => SlotsExclusive
  BY DEF IInv, DispatcherInv, WorkersInv, SlotsExclusive, Holds
<1>2. QED
  BY <1>1, InductiveInvariant, PTL

\* The results and the error a call returns are what the callbacks did.
THEOREM ReportIsExact == Spec => []ReportExact
  BY InductiveInvariant, PTL DEF IInv

\* Cancellation lets at most one more callback per worker start.
THEOREM LateStartsAreBounded == Spec => []LateStartsBounded
<1>1. IInv => LateStartsBounded
  <2> SUFFICES ASSUME IInv, late > 0 PROVE late <= WorkerCount
    BY DEF LateStartsBounded
  <2>1. ArgumentsValid
    BY DEF IInv, TypeOK, LateInv, DispatcherInv
  <2>2. Cardinality(Calling) \in Nat /\ WorkerCount \in Int
    BY <2>1, WorkersFinite, WorkerSetBound DEF IInv, Calling
  <2>3. QED
    BY <2>1, <2>2 DEF IInv, TypeOK, LateInv
<1>2. QED
  BY <1>1, InductiveInvariant, PTL

\* The running callbacks are no more than the workers that run one.
LEMMA RunningBound ==
    ASSUME IInv, ArgumentsValid,
           NEW S \in SUBSET Workers, \A w \in Workers : wpc[w] = "run" => w \in S
    PROVE  /\ Cardinality(RunningCallbacks) \in Nat
           /\ Cardinality(RunningCallbacks) <= Cardinality(S)
<1> DEFINE R == {w \in Workers : wpc[w] = "run"}
           f == [w \in R |-> index[w]]
<1>1. IsFiniteSet(S) /\ Cardinality(S) \in Nat
  BY WorkerSetBound DEF IInv
<1>2. R \in SUBSET S
  OBVIOUS
<1>3. IsFiniteSet(R) /\ Cardinality(R) <= Cardinality(S)
  BY <1>1, <1>2, FS_Subset
<1>4. Cardinality(R) \in Nat
  BY <1>3, FS_CardinalityType
<1>5. f \in Surjection(R, RunningCallbacks)
  <2>1. Workers \subseteq 1..n
    BY WorkersFinite DEF IInv
  <2>2. \A w \in R : index[w] \in RunningCallbacks
    BY <2>1 DEF IInv, TypeOK, WorkersInv, RunningCallbacks, Holds, Indices
  <2>3. \A i \in RunningCallbacks : \E w \in R : f[w] = i
    BY DEF IInv, SlotsInv, RunningCallbacks
  <2>4. QED
    BY <2>2, <2>3 DEF Surjection
<1>6. IsFiniteSet(RunningCallbacks) /\ Cardinality(RunningCallbacks) <= Cardinality(R)
  <2> HIDE DEF R, f
  <2>1. QED
    BY <1>3, <1>5, FS_Surjection
<1>7. Cardinality(RunningCallbacks) \in Nat
  BY <1>6, FS_CardinalityType
<1>8. QED
  BY <1>1, <1>3, <1>4, <1>6, <1>7

\* No more than concurrency callbacks run at once.
THEOREM ConcurrencyIsBounded == Spec => []BoundedConcurrency
<1>1. IInv => BoundedConcurrency
  <2> SUFFICES ASSUME IInv, RunningCallbacks # {}
               PROVE  Cardinality(RunningCallbacks) <= concurrency
    BY DEF BoundedConcurrency
  <2>1. PICK w \in Workers : wpc[w] = "run"
    BY DEF IInv, SlotsInv, RunningCallbacks
  <2>2. ArgumentsValid
    BY <2>1 DEF IInv, DispatcherInv
  <2>3. /\ Cardinality(RunningCallbacks) <= Cardinality(Workers)
        /\ Cardinality(RunningCallbacks) \in Nat
    BY <2>2, RunningBound
  <2>4. WorkerCount <= concurrency /\ Cardinality(Workers) = WorkerCount /\ WorkerCount \in Int
    BY <2>2, WorkersFinite DEF IInv, TypeOK, WorkerCount
  <2>5. QED
    BY <2>3, <2>4 DEF IInv, TypeOK
<1>2. QED
  BY <1>1, InductiveInvariant, PTL

-----------------------------------------------------------------------------
(* The refinement of FanOut. *)

\* A worker about to call leaves room, under the contract's limits, for its
\* callback: the others alone cannot exhaust them.
LEMMA RoomToStart ==
    ASSUME IInv, NEW w \in Workers, wpc[w] = "call"
    PROVE  /\ ArgumentsValid
           /\ Cardinality(RunningCallbacks) < WorkerCount
           /\ late < WorkerCount
<1>1. ArgumentsValid
  BY DEF IInv, DispatcherInv
<1>2. WorkerCount \in Int /\ IsFiniteSet(Workers) /\ Cardinality(Workers) = WorkerCount
  BY <1>1, WorkersFinite DEF IInv
<1>3. Cardinality(Workers \ {w}) = WorkerCount - 1
  BY <1>2, FS_RemoveElement
<1>4. Cardinality(RunningCallbacks) \in Nat /\ Cardinality(RunningCallbacks) < WorkerCount
  <2>1. \A v \in Workers : wpc[v] = "run" => v \in Workers \ {w}
    OBVIOUS
  <2>2. Cardinality(RunningCallbacks) \in Nat
        /\ Cardinality(RunningCallbacks) <= Cardinality(Workers \ {w})
    BY <1>1, <2>1, RunningBound
  <2>3. QED
    BY <1>2, <1>3, <2>2
<1>5. late < WorkerCount
  <2>1. IsFiniteSet(Calling) /\ Cardinality(Calling) \in Nat
    BY <1>1, WorkerSetBound DEF IInv, Calling
  <2>2. Cardinality(Calling) # 0
    BY <2>1, FS_EmptySet DEF Calling
  <2>3. QED
    BY <1>1, <1>2, <2>1, <2>2 DEF IInv, TypeOK, LateInv
<1>6. QED
  BY <1>1, <1>4, <1>5

\* Every step of ForEachShard is a step of FanOut or leaves its state alone.
LEMMA StepRefines == IInv /\ IInv' /\ [Next]_vars => [Contract!Next]_(Contract!vars)
<1> SUFFICES ASSUME IInv, IInv', [Next]_vars PROVE [Contract!Next]_(Contract!vars)
  OBVIOUS
<1> USE DEF Contract!vars, Contract!Next, args, Returned
<1>1. CASE Cancel
  <2>1. Contract!Cancel
    BY <1>1 DEF Cancel, Contract!Cancel
  <2>2. QED
    BY <2>1
<1>2. CASE RejectArguments
  <2>1. Contract!Reject
    BY <1>2 DEF RejectArguments, workerVars, Contract!Reject, Contract!ArgumentsValid,
       ArgumentsValid
  <2>2. QED
    BY <2>1
<1>3. CASE ReturnCancelled
  <2>1. Contract!Running = {}
    BY <1>3 DEF ReturnCancelled, Contract!Running, IInv, SlotsInv, DispatcherInv, Indices
  <2>2. results' = Contract!Report
    BY <1>3 DEF ReturnCancelled, Contract!Report, IInv, TypeOK, SlotsInv, DispatcherInv, Indices
  <2>3. Contract!Reply
    BY <1>3, <2>1, <2>2 DEF ReturnCancelled, workerVars, Contract!Reply,
       Contract!ArgumentsValid, ArgumentsValid
  <2>4. QED
    BY <2>3
<1>4. CASE StartWorkers
  BY <1>4 DEF StartWorkers
<1>5. CASE LoopTest
  BY <1>5 DEF LoopTest, workerVars
<1>6. ASSUME NEW w \in Workers, Send(w) PROVE UNCHANGED Contract!vars
  BY <1>6 DEF Send
<1>7. CASE SelectDone
  BY <1>7 DEF SelectDone, workerVars
<1>8. CASE CloseJobs
  BY <1>8 DEF CloseJobs, workerVars
<1>9. CASE Wait
  BY <1>9 DEF Wait, workerVars
<1>10. CASE FillAndReturn
  <2>1. pc' = "returned" /\ ReportExact' /\ TypeOK'
    BY <1>10 DEF FillAndReturn, IInv
  <2>2. Contract!Running = {}
    BY <1>10 DEF FillAndReturn, Contract!Running, IInv, SlotsInv, DispatcherInv, Indices
  <2>3. results' = Contract!Report
    BY <1>10, <2>1 DEF FillAndReturn, workerVars, ReportExact, Recorded, Contract!Report,
       TypeOK, Indices
  <2>4. (\E i \in 0..(n-1) : outcome[i] = "none") => cancelled
    BY <1>10, <2>1 DEF FillAndReturn, workerVars, ReportExact, Indices
  <2>5. ArgumentsValid
    BY <1>10 DEF FillAndReturn, IInv, DispatcherInv
  <2>6. Contract!Reply
    BY <1>10, <2>2, <2>3, <2>4, <2>5 DEF FillAndReturn, workerVars, Contract!Reply,
       Contract!ArgumentsValid, ArgumentsValid
  <2>7. QED
    BY <2>6
<1>11. ASSUME NEW w \in Workers, CheckContext(w) PROVE UNCHANGED Contract!vars
  BY <1>11 DEF CheckContext, IInv, DispatcherInv
<1>12. ASSUME NEW w \in Workers, Call(w) PROVE Contract!Next
  <2>1. /\ ArgumentsValid
        /\ Cardinality(RunningCallbacks) < WorkerCount
        /\ late < WorkerCount
    BY <1>12, RoomToStart DEF Call
  <2>2. index[w] \in 0..(n-1) /\ outcome[index[w]] = "none"
    BY <1>12, WorkersFinite DEF Call, IInv, TypeOK, WorkersInv, Holds
  <2>3. pc \notin {"rejected", "returned"} /\ pc' = pc
    BY <1>12 DEF Call, IInv, DispatcherInv
  <2>4. Contract!ArgumentsValid
    BY <2>1 DEF Contract!ArgumentsValid, ArgumentsValid
  <2>5. Contract!Cardinality(Contract!Running) < Contract!Limit /\ late < Contract!Limit
    <3>1. \A S : Contract!Cardinality(S) = Cardinality(S)
      BY DEF Contract!Cardinality, Cardinality, Contract!IsFiniteSet, IsFiniteSet
    <3>2. QED
      BY <2>1, <3>1 DEF Contract!Running, RunningCallbacks, Indices, Contract!Limit, WorkerCount
  <2>6. Contract!Start(index[w])
    BY <1>12, <2>2, <2>3, <2>4, <2>5 DEF Call, Contract!Start
  <2>7. QED
    BY <2>2, <2>6
<1>13. ASSUME NEW w \in Workers, NEW result \in Results, Return(w, result)
       PROVE  Contract!Next
  <2>r. wpc[w] = "run"
    BY <1>13 DEF Return
  <2>h. index[w] \in 0..(n-1) /\ outcome[index[w]] = "running"
    BY <2>r, WorkersFinite DEF IInv, TypeOK, WorkersInv, Holds
  <2>p. pc # "returned"
    BY <2>r, WorkersFinite DEF IInv, DispatcherInv
  <2>1. index[w] \in 0..(n-1) /\ outcome[index[w]] = "running" /\ pc # "returned"
    BY <2>h, <2>p
  <2>2. Contract!Finish(index[w], result)
    BY <1>13, <2>1 DEF Return, Contract!Finish
  <2>3. QED
    BY <2>1, <2>2 DEF Contract!Results, Results
<1>exit. ASSUME NEW w \in Workers, Exit(w) PROVE Contract!Next
  <2>r. wpc[w] = "run"
    BY <1>exit DEF Exit
  <2>h. index[w] \in 0..(n-1) /\ outcome[index[w]] = "running"
    BY <2>r, WorkersFinite DEF IInv, TypeOK, WorkersInv, Holds
  <2>p. pc # "returned"
    BY <2>r, WorkersFinite DEF IInv, DispatcherInv
  <2>1. index[w] \in 0..(n-1) /\ outcome[index[w]] = "running" /\ pc # "returned"
    BY <2>h, <2>p
  <2>2. Contract!Exit(index[w])
    BY <1>exit, <2>1 DEF Exit, Contract!Exit
  <2>3. QED
    BY <2>1, <2>2
<1>14. ASSUME NEW w \in Workers, Finish(w) PROVE UNCHANGED Contract!vars
  BY <1>14 DEF Finish
<1>15. CASE UNCHANGED vars
  BY <1>15 DEF vars
<1>16. QED
  BY <1>1, <1>2, <1>3, <1>4, <1>5, <1>6, <1>7, <1>8, <1>9, <1>10, <1>11, <1>12,
     <1>13, <1>14, <1>15, <1>exit DEF Next, Dispatcher, Worker, Terminated

\* ForEachShard implements FanOut for every length and every concurrency: its
\* caller cannot tell the worker pool from an atomic report.
THEOREM Refinement == Spec => ImplementsFanOut
<1>1. Init => Contract!Init
  BY DEF Init, Contract!Init, Returned, Indices
<1>2. QED
  BY <1>1, StepRefines, InductiveInvariant, PTL DEF Spec, ImplementsFanOut, Contract!Spec
===============================================================================
