---------------------------- MODULE RangeResolver ----------------------------
(***************************************************************************)
(* RangeResolver (topology/shard/resolver/range.go): NewRange validates    *)
(* the caller's half-open ranges, sorts a copy by Start and checks only    *)
(* neighbours for overlap; Resolve finds a key by binary search over the   *)
(* upper boundaries.  Both are loops here, one iteration a step.  The loop *)
(* of the search is sort.Search of the standard library; the code gives it *)
(* the predicate, EndsAfter.                                               *)
(*                                                                         *)
(* K is any ordered type.  For floating-point keys there are values that   *)
(* compare with nothing; NaN stands for them.                              *)
(***************************************************************************)
EXTENDS Integers, Sequences

CONSTANTS
    NaN,         \* the value no comparison holds for
    Values,      \* the boundaries and keys that occur
    ShardIDs,    \* the IDs registered in the topology
    BadIDs,      \* the empty ID and the IDs the topology does not know
    NoShard,     \* the result shard.ErrNoShard
    Configs      \* the range lists NewRange may be given

Ranges == [start : Values, end : Values, id : ShardIDs \cup BadIDs]

ASSUME ValuesAssumption == Values \subseteq Int \cup {NaN} /\ NaN \notin Int
ASSUME IDsAssumption == ShardIDs \cap BadIDs = {} /\ NoShard \notin ShardIDs
ASSUME ConfigsAssumption == Configs \subseteq Seq(Ranges)

VARIABLES
    ranges,   \* the caller's slice
    pc,       \* "call", "validate", "sort", "overlap", "noTopology", "failed";
              \* "ready", "search", "answered"
    index,    \* loop variable of NewRange
    entries,  \* the internal representation
    key,      \* the key of the current Resolve
    lo, hi,   \* sort.Search: the answer is in lo..hi (0-based)
    result    \* what the last search returned

vars == <<ranges, pc, index, entries, key, lo, hi, result>>

\* The < and <= of an ordered Go type.
Less(x, y) == x # NaN /\ y # NaN /\ x < y
LessEq(x, y) == x # NaN /\ y # NaN /\ x <= y

Init ==
    /\ ranges \in Configs
    /\ pc = "call"
    /\ index = 1
    /\ entries = <<>>
    /\ key = NaN
    /\ lo = 0
    /\ hi = 0
    /\ result = NoShard

-----------------------------------------------------------------------------
(* NewRange. *)

lookupVars == <<key, lo, hi, result>>

\* requireTopology: without shards, whatever the ranges, there is no resolver.
RequireTopology ==
    /\ pc = "call"
    /\ pc' \in {"validate", "noTopology"}
    /\ UNCHANGED <<ranges, index, entries, lookupVars>>

ValidRange(r) == r.id \in ShardIDs /\ Less(r.start, r.end)

\* The error paths: no range, an ID that is empty or unknown, or start >= end.
RejectRange ==
    /\ pc = "validate"
    /\ \/ ranges = <<>>
       \/ index <= Len(ranges) /\ ~ValidRange(ranges[index])
    /\ pc' = "failed"
    /\ UNCHANGED <<ranges, index, entries, lookupVars>>

CopyRange ==
    /\ pc = "validate"
    /\ index <= Len(ranges)
    /\ ValidRange(ranges[index])
    /\ entries' = Append(entries, [start |-> ranges[index].start, end |-> ranges[index].end,
                                   shard |-> ranges[index].id, sourceIndex |-> index])
    /\ index' = index + 1
    /\ UNCHANGED <<ranges, pc, lookupVars>>

\* The loop is over.
Validated ==
    /\ pc = "validate"
    /\ ranges # <<>>
    /\ index > Len(ranges)
    /\ pc' = "sort"
    /\ UNCHANGED <<ranges, index, entries, lookupVars>>

\* f rearranges a sequence of length n.
Rearrangements(n) ==
    {f \in [1..n -> 1..n] : /\ \A i, j \in 1..n : f[i] = f[j] => i = j
                            /\ \A j \in 1..n : \E i \in 1..n : f[i] = j}

\* slices.SortStableFunc by start: equal starts keep their order.
Sort ==
    /\ pc = "sort"
    /\ \E f \in Rearrangements(Len(entries)) :
          /\ entries' = [i \in 1..Len(entries) |-> entries[f[i]]]
          /\ \A i, j \in 1..Len(entries) : i < j =>
                \/ entries'[i].start < entries'[j].start
                \/ entries'[i].start = entries'[j].start /\ f[i] < f[j]
    /\ pc' = "overlap"
    /\ index' = 2
    /\ UNCHANGED <<ranges, lookupVars>>

\* Mutant: ranges that share a boundary are taken to overlap.
CheckNeighboursStrict ==
    /\ pc = "overlap"
    /\ index <= Len(entries)
    /\ \/ /\ Less(entries[index - 1].end, entries[index].start)
          /\ index' = index + 1
          /\ UNCHANGED pc
       \/ /\ ~Less(entries[index - 1].end, entries[index].start)
          /\ pc' = "failed"
          /\ UNCHANGED index
    /\ UNCHANGED <<ranges, entries, lookupVars>>

CheckNeighbours ==
    /\ pc = "overlap"
    /\ index <= Len(entries)
    /\ \/ /\ LessEq(entries[index - 1].end, entries[index].start)
          /\ index' = index + 1
          /\ UNCHANGED pc
       \/ /\ ~LessEq(entries[index - 1].end, entries[index].start)
          /\ pc' = "failed"
          /\ UNCHANGED index
    /\ UNCHANGED <<ranges, entries, lookupVars>>

Accept ==
    /\ pc = "overlap"
    /\ index > Len(entries)
    /\ pc' = "ready"
    /\ UNCHANGED <<ranges, index, entries, lookupVars>>

-----------------------------------------------------------------------------
(* Resolve. *)

Resolve(k) ==
    /\ pc \in {"ready", "answered"}
    /\ key' = k
    /\ lo' = 0
    /\ hi' = Len(entries)
    /\ pc' = "search"
    /\ UNCHANGED <<ranges, index, entries, result>>

\* The nil resolver of a NewRange that failed answers no key, with an error.
ResolveUninitialised ==
    /\ pc \in {"noTopology", "failed"}
    /\ UNCHANGED vars

\* Mutant: a key equal to the upper boundary is taken to be inside.
EndsAtOrAfter(i) == LessEq(key, entries[i].end)

\* The predicate given to sort.Search.
EndsAfter(i) == Less(key, entries[i].end)

\* One probe of sort.Search for the first range that ends after the key.
Search ==
    /\ pc = "search"
    /\ lo < hi
    /\ LET h == (lo + hi) \div 2 IN
       IF EndsAfter(h + 1) THEN hi' = h /\ UNCHANGED lo
                           ELSE lo' = h + 1 /\ UNCHANGED hi
    /\ UNCHANGED <<ranges, pc, index, entries, key, result>>

\* Mutant: the first range that ends after the key is taken to contain it.
AnswerInGap ==
    /\ pc = "search"
    /\ lo >= hi
    /\ result' = IF lo = Len(entries) THEN NoShard ELSE entries[lo + 1].shard
    /\ pc' = "answered"
    /\ UNCHANGED <<ranges, index, entries, key, lo, hi>>

\* No range ends after the key, the first that does starts after it too, or it
\* contains the key.
Answer ==
    /\ pc = "search"
    /\ lo >= hi
    /\ result' = IF lo = Len(entries) THEN NoShard
                 ELSE IF Less(key, entries[lo + 1].start) THEN NoShard
                 ELSE entries[lo + 1].shard
    /\ pc' = "answered"
    /\ UNCHANGED <<ranges, index, entries, key, lo, hi>>

Next ==
    \/ RequireTopology \/ RejectRange \/ CopyRange \/ Validated
    \/ Sort \/ CheckNeighbours \/ Accept
    \/ \E k \in Values : Resolve(k)
    \/ ResolveUninitialised \/ Search \/ Answer

Spec == Init /\ [][Next]_vars

-----------------------------------------------------------------------------
(* Properties. *)

Entries == [start : Int, end : Int, shard : ShardIDs, sourceIndex : Nat]

\* Type correctness: the search stays inside the entries.
TypeOK ==
    /\ ranges \in Seq(Ranges)
    /\ pc \in {"call", "validate", "sort", "overlap", "noTopology", "failed",
               "ready", "search", "answered"}
    /\ index \in Nat \ {0}
    /\ entries \in Seq(Entries)
    /\ key \in Values \cup {NaN}
    /\ lo \in Nat /\ hi \in Nat
    /\ hi <= Len(entries)
    /\ pc = "search" => lo <= hi
    /\ result \in ShardIDs \cup {NoShard}

\* Two ranges have a key in common.
Overlap(r, s) == Less(r.start, s.end) /\ Less(s.start, r.end)

\* The lists NewRange is meant to accept: every range valid, no two overlapping.
WellFormed ==
    /\ ranges # <<>>
    /\ \A i \in DOMAIN ranges : ValidRange(ranges[i])
    /\ \A i, j \in DOMAIN ranges : i # j => ~Overlap(ranges[i], ranges[j])

\* Given a topology with shards, checking neighbours after the sort finds every
\* overlap, in whatever order the caller lists the ranges, and rejects nothing else;
\* ranges may touch.
AcceptsExactlyWellFormed ==
    /\ pc \in {"ready", "search", "answered"} => WellFormed
    /\ pc = "failed" => ~WellFormed

Contains(r, k) == LessEq(r.start, k) /\ Less(k, r.end)

\* Resolve returns the shard of the range that contains the key, at both
\* boundaries of it, and ErrNoShard for a key in a gap, outside all ranges, or
\* not comparable.
LookupExact ==
    pc = "answered" =>
        \/ \E i \in DOMAIN ranges : Contains(ranges[i], key) /\ result = ranges[i].id
        \/ result = NoShard /\ \A i \in DOMAIN ranges : ~Contains(ranges[i], key)
===============================================================================
