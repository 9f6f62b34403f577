------------------------------- MODULE Grouping -------------------------------
(***************************************************************************)
(* SameShard, GroupByShard and PartitionByShard                            *)
(* (topology/shard/group.go): one pass over the caller's keys, each        *)
(* resolved once, one key a step, by a CustomResolver                      *)
(* (topology/shard/resolver/custom.go).  A resolve function can answer     *)
(* anything, so every other resolver's answers are among its own.          *)
(*                                                                         *)
(* A key is its position in the input, which a group keeps in the place of *)
(* the key itself; what the function answers for each position is chosen   *)
(* at the start, so equal keys and a function that is not deterministic    *)
(* are among the cases.                                                    *)
(***************************************************************************)
EXTENDS Integers, Sequences

CONSTANTS
    MaxKeys,     \* bound: the keys of a call
    Shards,      \* the shards of the topology
    UnknownIDs,  \* IDs the topology does not know, the empty one among them
    NoShard,     \* the error ErrNoShard
    OtherError   \* any other error

ASSUME MaxKeysAssumption == MaxKeys \in Nat
ASSUME ErrorsAssumption ==
    NoShard \notin Shards /\ OtherError \notin Shards /\ NoShard # OtherError
ASSUME UnknownAssumption == UnknownIDs \cap (Shards \cup {NoShard, OtherError}) = {}

Operations == {"SameShard", "GroupByShard", "PartitionByShard"}
Answers == Shards \cup UnknownIDs \cup {NoShard, OtherError}

VARIABLES
    op,          \* the function called
    answers,     \* what the resolve function answers, per key
    pc,          \* "resolve", then "done" or "failed"
    index,       \* the loop variable: the key resolved next
    expected,    \* SameShard: the shard of the first key
    groups,      \* the groups made so far
    indexByID,   \* per shard, the index of its group
    unresolved,  \* PartitionByShard: the keys without a shard
    failure      \* the key an error is about; 0 for none

groupingVars == <<op, answers, pc, index, expected, groups, indexByID, unresolved, failure>>

GroupingInit ==
    /\ op \in Operations
    /\ \E n \in 0..MaxKeys : answers \in [1..n -> Answers]
    /\ pc = "resolve"
    /\ index = 1
    /\ expected = NoShard
    /\ groups = <<>>
    /\ indexByID = <<>>
    /\ unresolved = <<>>
    /\ failure = 0

\* CustomResolver.Resolve: an error is passed on, an ID the topology does not know
\* is an UnknownShardError.
Resolve(k) == IF answers[k] \in UnknownIDs THEN OtherError ELSE answers[k]

n == Len(answers)
More == pc = "resolve" /\ index <= n
Advance == index' = index + 1

\* The call returns an error about key k and nothing else.
Fail(k) ==
    /\ pc' = "failed"
    /\ failure' = k
    /\ groups' = <<>>
    /\ unresolved' = <<>>

-----------------------------------------------------------------------------

\* resolver.Resolve failed, and it is not a key PartitionByShard sets aside.
ResolveFails ==
    /\ More
    /\ \/ Resolve(index) = OtherError
       \/ Resolve(index) = NoShard /\ op # "PartitionByShard"
    /\ Fail(index)
    /\ UNCHANGED <<op, answers, index, expected, indexByID>>

\* SameShard without keys: ErrNoShard.
NoKeys ==
    /\ pc = "resolve"
    /\ op = "SameShard"
    /\ n = 0
    /\ Fail(0)
    /\ UNCHANGED <<op, answers, index, expected, indexByID>>

FirstKey ==
    /\ More
    /\ op = "SameShard"
    /\ index = 1
    /\ Resolve(1) \in Shards
    /\ expected' = Resolve(1)
    /\ Advance
    /\ UNCHANGED <<op, answers, pc, groups, indexByID, unresolved, failure>>

\* Mutant: the index of a loop over keys[1:] is reported as it is.
NextKeyUnshifted ==
    /\ More
    /\ op = "SameShard"
    /\ index > 1
    /\ Resolve(index) \in Shards
    /\ IF Resolve(index) = expected
       THEN Advance /\ UNCHANGED <<pc, groups, unresolved, failure>>
       ELSE Fail(index - 1) /\ UNCHANGED index
    /\ UNCHANGED <<op, answers, expected, indexByID>>

\* The keys after the first: a MismatchError at the first other shard.
NextKey ==
    /\ More
    /\ op = "SameShard"
    /\ index > 1
    /\ Resolve(index) \in Shards
    /\ IF Resolve(index) = expected
       THEN Advance /\ UNCHANGED <<pc, groups, unresolved, failure>>
       ELSE Fail(index) /\ UNCHANGED index
    /\ UNCHANGED <<op, answers, expected, indexByID>>

\* Mutant: a new group for every run of keys.
AddKeyToLastGroup ==
    /\ More
    /\ op # "SameShard"
    /\ Resolve(index) \in Shards
    /\ LET s == Resolve(index) IN
       IF groups # <<>> /\ groups[Len(groups)].shard = s
       THEN groups' = [groups EXCEPT ![Len(groups)].keys = Append(@, index)]
       ELSE groups' = Append(groups, [shard |-> s, keys |-> <<index>>])
    /\ Advance
    /\ UNCHANGED <<op, answers, pc, expected, indexByID, unresolved, failure>>

\* addKeyToGroup: a new group at the end, or the shard's own.
AddKeyToGroup ==
    /\ More
    /\ op # "SameShard"
    /\ Resolve(index) \in Shards
    /\ LET s == Resolve(index) IN
       IF s \in DOMAIN indexByID
       THEN /\ groups' = [groups EXCEPT ![indexByID[s]].keys = Append(@, index)]
            /\ UNCHANGED indexByID
       ELSE /\ groups' = Append(groups, [shard |-> s, keys |-> <<index>>])
            /\ indexByID' = [r \in DOMAIN indexByID \cup {s} |->
                                IF r = s THEN Len(groups) + 1 ELSE indexByID[r]]
    /\ Advance
    /\ UNCHANGED <<op, answers, pc, expected, unresolved, failure>>

SetAside ==
    /\ More
    /\ op = "PartitionByShard"
    /\ Resolve(index) = NoShard
    /\ unresolved' = Append(unresolved, index)
    /\ Advance
    /\ UNCHANGED <<op, answers, pc, expected, groups, indexByID, failure>>

Finish ==
    /\ pc = "resolve"
    /\ index > n
    /\ op = "SameShard" => n > 0
    /\ pc' = "done"
    /\ UNCHANGED <<op, answers, index, expected, groups, indexByID, unresolved, failure>>

GroupingNext ==
    \/ ResolveFails \/ NoKeys
    \/ FirstKey \/ NextKey
    \/ AddKeyToGroup \/ SetAside
    \/ Finish

-----------------------------------------------------------------------------
(* Properties. *)

\* keys lists the set S of positions, in the order of the input.
Lists(keys, S) ==
    /\ \A i \in DOMAIN keys : keys[i] \in S
    /\ \A k \in S : \E i \in DOMAIN keys : keys[i] = k
    /\ \A i, j \in DOMAIN keys : i < j => keys[i] < keys[j]

KeysOf(a) == {k \in 1..n : answers[k] = a}

\* GroupByShard and PartitionByShard lose and duplicate no key and mix no shards:
\* every shard that occurs has one group, which lists its keys in input order;
\* groups are in the order of their first keys; and the keys set aside are those
\* without a shard, in input order.
GroupsExact ==
    pc = "done" /\ op # "SameShard" =>
        /\ \A g \in DOMAIN groups :
              /\ groups[g].keys # <<>>
              /\ Lists(groups[g].keys, KeysOf(groups[g].shard))
        /\ \A k \in 1..n : answers[k] \in Shards =>
              \E g \in DOMAIN groups : groups[g].shard = answers[k]
        /\ \A g, h \in DOMAIN groups : g < h => groups[g].keys[1] < groups[h].keys[1]
        /\ Lists(unresolved, KeysOf(NoShard))

\* Key k makes the call fail.
Fatal(k) ==
    \/ answers[k] \in UnknownIDs \cup {OtherError}
    \/ answers[k] = NoShard /\ op # "PartitionByShard"
    \/ op = "SameShard" /\ answers[k] # answers[1]

\* A call fails for the first key that makes it fail and returns no groups then;
\* it succeeds if there is no such key.  SameShard succeeds exactly when all keys
\* are on one shard, and there are keys.
FailsAtFirst ==
    /\ pc = "failed" =>
          /\ groups = <<>> /\ unresolved = <<>>
          /\ failure = 0 => op = "SameShard" /\ n = 0
          /\ failure # 0 => Fatal(failure) /\ \A k \in 1..(failure - 1) : ~Fatal(k)
    /\ pc = "done" =>
          /\ \A k \in 1..n : ~Fatal(k)
          /\ op = "SameShard" => n > 0 /\ \A k \in 1..n : answers[k] = expected
===============================================================================
