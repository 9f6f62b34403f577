-------------------------------- MODULE Routing --------------------------------
(***************************************************************************)
(* A cluster routes transactions: ReadPool and its policies                *)
(* (topology/cluster/resolver.go), the replica selectors (selector.go),    *)
(* InPrimaryTx and InReadTx (tx.go).  Goroutines call the cluster          *)
(* concurrently; all they share is the counter of the round-robin          *)
(* selector, an unsigned integer that wraps around at Modulus.             *)
(*                                                                         *)
(* A pool is the index of a replica, or primary.                           *)
(***************************************************************************)
EXTENDS Integers, FiniteSets

CONSTANTS
    Callers,      \* goroutines
    Lengths,      \* the numbers of replicas a cluster may have
    Modulus,      \* 2^64, the values of the counter
    MaxSelects,   \* bound: tickets drawn from the round-robin counter
    primary,      \* the primary pool
    none,         \* no pool, no answer, no error
    ErrNoReplica, \* the error of a selector that finds no replica eligible
    ErrSelector   \* any other error of a selector

ASSUME LengthsAssumption == Lengths \subseteq Nat
ASSUME ModulusAssumption ==
    Modulus \in Nat /\ \A l \in Lengths : l < Modulus
ASSUME ValuesAssumption ==
    /\ {primary, none, ErrNoReplica, ErrSelector} \cap Int = {}
    /\ primary # none /\ ErrNoReplica # none /\ ErrSelector # none
    /\ ErrNoReplica # ErrSelector

Policies == {"primary", "preferred", "required", "unknown"}

VARIABLES
    length,      \* len(c.replicas)
    hasPrimary,  \* c.primary # nil
    roundRobin,  \* the selector is the default one, not the user's
    counter,     \* roundRobinSelector.next
    pc,          \* per caller: "idle", "resolve", "pick", "selected", "returned"
    policy,      \* per caller: the policy of InReadTx, or "write" in InPrimaryTx
    askedReadOnly, \* per caller: InPrimaryTx was given AccessMode pgx.ReadOnly
    next,        \* per caller: the ticket drawn from the counter
    answer,      \* per caller: what the selector returned
    pool,        \* per caller: the pool of its transaction; none when it failed
    err,         \* per caller: the error of the call
    readOnly,    \* per caller: the access mode of its transaction
    drawn,       \* history: tickets drawn
    share        \* history: per replica, how often the counter has selected it

cluster == <<length, hasPrimary, roundRobin>>
request == <<policy, askedReadOnly>>
vars == <<cluster, counter, pc, request, next, answer, pool, err, readOnly, drawn, share>>

Indices == 0..(length - 1)

Init ==
    /\ length \in Lengths
    /\ hasPrimary \in BOOLEAN
    /\ length > 0 \/ hasPrimary
    /\ roundRobin \in BOOLEAN
    /\ counter = 0
    /\ pc = [c \in Callers |-> "idle"]
    /\ policy = [c \in Callers |-> "primary"]
    /\ askedReadOnly = [c \in Callers |-> FALSE]
    /\ next = [c \in Callers |-> 0]
    /\ answer = [c \in Callers |-> none]
    /\ pool = [c \in Callers |-> none]
    /\ err = [c \in Callers |-> none]
    /\ readOnly = [c \in Callers |-> FALSE]
    /\ drawn = 0
    /\ share = [i \in Indices |-> 0]

selector == <<counter, drawn, share>>

-----------------------------------------------------------------------------
(* The calls. *)

\* The bound on the tickets is one on the calls, so that no call gets stuck.
Resolving == {c \in Callers : pc[c] = "resolve"}

CallInReadTx(c, p) ==
    /\ pc[c] = "idle"
    /\ p \in {"preferred", "required"} => drawn + Cardinality(Resolving) < MaxSelects
    /\ pc' = [pc EXCEPT ![c] = "resolve"]
    /\ policy' = [policy EXCEPT ![c] = p]
    /\ askedReadOnly' = [askedReadOnly EXCEPT ![c] = FALSE]
    /\ UNCHANGED <<cluster, selector, next, answer, pool, err, readOnly>>

\* The caller chooses the access mode.
CallInPrimaryTx(c) ==
    /\ pc[c] = "idle"
    /\ pc' = [pc EXCEPT ![c] = "resolve"]
    /\ policy' = [policy EXCEPT ![c] = "write"]
    /\ \E readOnlyMode \in BOOLEAN :
          askedReadOnly' = [askedReadOnly EXCEPT ![c] = readOnlyMode]
    /\ UNCHANGED <<cluster, selector, next, answer, pool, err, readOnly>>

\* Mutant: a read transaction that ends on the primary may write.
BeginOnWritable(c, p) ==
    /\ pool' = [pool EXCEPT ![c] = p]
    /\ readOnly' = [readOnly EXCEPT ![c] = p # primary]
    /\ pc' = [pc EXCEPT ![c] = "returned"]
    /\ UNCHANGED err

\* The transaction begins on pool p; InReadTx sets the access mode itself.
BeginOn(c, p) ==
    /\ pool' = [pool EXCEPT ![c] = p]
    /\ readOnly' = [readOnly EXCEPT ![c] = policy[c] # "write" \/ askedReadOnly[c]]
    /\ pc' = [pc EXCEPT ![c] = "returned"]
    /\ UNCHANGED err

Fail(c, e) ==
    /\ err' = [err EXCEPT ![c] = e]
    /\ pc' = [pc EXCEPT ![c] = "returned"]
    /\ UNCHANGED <<pool, readOnly>>

\* resolvePrimary
ResolvePrimary(c) == IF hasPrimary THEN BeginOn(c, primary) ELSE Fail(c, "ErrNoPrimary")

-----------------------------------------------------------------------------
(* ReadPool. *)

UsePrimary(c) ==
    /\ pc[c] = "resolve"
    /\ policy[c] \in {"primary", "write"}
    /\ ResolvePrimary(c)
    /\ UNCHANGED <<cluster, selector, request, next, answer>>

UnsupportedPolicy(c) ==
    /\ pc[c] = "resolve"
    /\ policy[c] = "unknown"
    /\ Fail(c, "unsupported")
    /\ UNCHANGED <<cluster, selector, request, next, answer>>

WantsReplica(c) == pc[c] = "resolve" /\ policy[c] \in {"preferred", "required"}

Answer(c, a) ==
    /\ answer' = [answer EXCEPT ![c] = a]
    /\ pc' = [pc EXCEPT ![c] = "selected"]

\* resolveReplica without replicas does not ask the selector.
NoReplicas(c) ==
    /\ WantsReplica(c)
    /\ length = 0
    /\ Answer(c, ErrNoReplica)
    /\ UNCHANGED <<cluster, selector, request, next, pool, err, readOnly>>

\* The selector of the user returns an index, in range or not, or an error.
SelectCustom(c) ==
    /\ WantsReplica(c)
    /\ length > 0
    /\ ~roundRobin
    /\ \E a \in (-1..length) \cup {ErrNoReplica, ErrSelector} : Answer(c, a)
    /\ UNCHANGED <<cluster, selector, request, next, pool, err, readOnly>>

\* A single replica leaves the counter alone.
SelectOnly(c) ==
    /\ WantsReplica(c)
    /\ roundRobin
    /\ length = 1
    /\ Answer(c, 0)
    /\ UNCHANGED <<cluster, selector, request, next, pool, err, readOnly>>

Draw(c) ==
    /\ next' = [next EXCEPT ![c] = counter]
    /\ drawn' = drawn + 1
    /\ pc' = [pc EXCEPT ![c] = "pick"]
    /\ UNCHANGED <<cluster, request, answer, pool, err, readOnly, share>>

\* Mutant: a load and a store in the place of the atomic Add; the store may
\* overwrite the one of another caller.
DrawTicketLost(c) ==
    /\ WantsReplica(c)
    /\ roundRobin
    /\ length > 1
    /\ counter' \in {counter, (counter + 1) % Modulus}
    /\ Draw(c)

\* next.Add(1) - 1
DrawTicket(c) ==
    /\ WantsReplica(c)
    /\ roundRobin
    /\ length > 1
    /\ counter' = (counter + 1) % Modulus
    /\ Draw(c)

\* int(next % uint64(length))
PickReplica(c) ==
    /\ pc[c] = "pick"
    /\ Answer(c, next[c] % length)
    /\ share' = [share EXCEPT ![answer'[c]] = @ + 1]
    /\ UNCHANGED <<cluster, counter, drawn, request, next, pool, err, readOnly>>

IsIndex(a) == a \in Indices
IsError(a) == a \in {ErrNoReplica, ErrSelector}

UseReplica(c) ==
    /\ pc[c] = "selected"
    /\ IsIndex(answer[c])
    /\ BeginOn(c, answer[c])
    /\ UNCHANGED <<cluster, selector, request, next, answer>>

\* Mutant: every selector error falls back.
FallBackAlways(c) ==
    /\ pc[c] = "selected"
    /\ IsError(answer[c])
    /\ policy[c] = "preferred"
    /\ ResolvePrimary(c)
    /\ UNCHANGED <<cluster, selector, request, next, answer>>

\* ReadReplicaPreferred falls back to the primary.
FallBack(c) ==
    /\ pc[c] = "selected"
    /\ answer[c] = ErrNoReplica
    /\ policy[c] = "preferred"
    /\ ResolvePrimary(c)
    /\ UNCHANGED <<cluster, selector, request, next, answer>>

\* An invalid index, and the errors there is no fallback for.
SelectFails(c) ==
    /\ pc[c] = "selected"
    /\ ~IsIndex(answer[c])
    /\ ~(answer[c] = ErrNoReplica /\ policy[c] = "preferred")
    /\ Fail(c, IF IsError(answer[c]) THEN answer[c] ELSE "invalidIndex")
    /\ UNCHANGED <<cluster, selector, request, next, answer>>

\* The call is over; the goroutine may make another one.
Return(c) ==
    /\ pc[c] = "returned"
    /\ pc' = [pc EXCEPT ![c] = "idle"]
    /\ next' = [next EXCEPT ![c] = 0]
    /\ answer' = [answer EXCEPT ![c] = none]
    /\ pool' = [pool EXCEPT ![c] = none]
    /\ err' = [err EXCEPT ![c] = none]
    /\ readOnly' = [readOnly EXCEPT ![c] = FALSE]
    /\ UNCHANGED <<cluster, selector, request>>

Next ==
    \E c \in Callers :
        \/ \E p \in Policies : CallInReadTx(c, p)
        \/ CallInPrimaryTx(c)
        \/ UsePrimary(c) \/ UnsupportedPolicy(c)
        \/ NoReplicas(c) \/ SelectCustom(c) \/ SelectOnly(c)
        \/ DrawTicket(c) \/ PickReplica(c)
        \/ UseReplica(c) \/ FallBack(c) \/ SelectFails(c)
        \/ Return(c)

Spec == Init /\ [][Next]_vars

-----------------------------------------------------------------------------
(* Properties. *)

\* InPrimaryTx runs its transaction on the primary, in the access mode it was given;
\* InReadTx runs its own read-only, on a replica and on the primary too.
WritesOnPrimary ==
    \A c \in Callers : pool[c] # none =>
        /\ policy[c] = "write" => pool[c] = primary /\ (readOnly[c] <=> askedReadOnly[c])
        /\ policy[c] # "write" => readOnly[c]

\* A read ends on the primary only if its policy asks for it or allows it and the
\* selector found no replica eligible: never because the selector failed or
\* returned an index that does not exist.
FallsBackOnlyWithoutReplica ==
    \A c \in Callers : pool[c] = primary =>
        \/ policy[c] \in {"primary", "write"}
        \/ policy[c] = "preferred" /\ answer[c] = ErrNoReplica

\* The times the counter has wrapped around in the middle of a rotation.
BrokenRotations == IF Modulus % length = 0 THEN 0 ELSE drawn \div Modulus

\* Callers between the draw of a ticket and its use.
InFlight == {c \in Callers : pc[c] = "pick"}

\* The round-robin selector spreads the reads of concurrent callers: the replicas'
\* shares differ by at most one, not counting the calls in flight, and by one more
\* for every time the counter has wrapped around while 2^64 is not a multiple of
\* the number of replicas.
EvenShares ==
    \A i, j \in Indices :
        share[i] - share[j] <= 1 + Cardinality(InFlight) + BrokenRotations
===============================================================================
