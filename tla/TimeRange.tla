------------------------------ MODULE TimeRange ------------------------------
(***************************************************************************)
(* TimeRangeResolver (topology/shard/resolver/time_range.go).  Its contract *)
(* is that of RangeResolver over instants; what differs is the order.  A    *)
(* time.Time may carry a reading of the monotonic clock besides the wall    *)
(* clock, and Before, After and Compare use the monotonic readings when     *)
(* both times have one.  Such an order is not transitive when the wall      *)
(* clock has been set.  timeToUTC leaves the wall clock alone.              *)
(***************************************************************************)
EXTENDS Integers, Sequences

CONSTANTS
    None,        \* no monotonic reading; no key
    Times,       \* the boundaries and keys that occur
    ShardIDs,    \* the IDs registered in the topology
    BadIDs,      \* the empty ID and the IDs the topology does not know
    NoShard,     \* the result shard.ErrNoShard
    Configs      \* the range lists NewTimeRange may be given

\* A location is left out: no comparison looks at it.
Time == [wall : Int, mono : Int \cup {None}]
TimeRanges == [start : Times, end : Times, id : ShardIDs \cup BadIDs]

ASSUME TimesAssumption == Times \subseteq Time /\ None \notin Int
ASSUME IDsAssumption == ShardIDs \cap BadIDs = {} /\ NoShard \notin ShardIDs
ASSUME ConfigsAssumption == Configs \subseteq Seq(TimeRanges)

VARIABLES
    ranges,   \* the caller's slice
    pc,       \* "call", "validate", "sort", "overlap", "noTopology", "failed";
              \* "ready", "search", "answered"
    index,    \* loop variable of NewTimeRange
    entries,  \* the internal representation
    key,      \* the key of the current Resolve
    lo, hi,   \* sort.Search: the answer is in lo..hi (0-based)
    result    \* what the last search returned

vars == <<ranges, pc, index, entries, key, lo, hi, result>>

-----------------------------------------------------------------------------
(* Package time. *)

Before(t, u) ==
    IF t.mono # None /\ u.mono # None THEN t.mono < u.mono ELSE t.wall < u.wall

\* Mutant: the monotonic reading is kept.
timeToUTCWithReading(t) == t

\* t.UTC() strips the monotonic reading.
timeToUTC(t) == [wall |-> t.wall, mono |-> None]

-----------------------------------------------------------------------------
(* NewTimeRange. *)

lookupVars == <<key, lo, hi, result>>

Init ==
    /\ ranges \in Configs
    /\ pc = "call"
    /\ index = 1
    /\ entries = <<>>
    /\ key = [wall |-> None, mono |-> None]
    /\ lo = 0
    /\ hi = 0
    /\ result = NoShard

\* requireTopology: without shards, whatever the ranges, there is no resolver.
RequireTopology ==
    /\ pc = "call"
    /\ pc' \in {"validate", "noTopology"}
    /\ UNCHANGED <<ranges, index, entries, lookupVars>>

ValidRange(r) == r.id \in ShardIDs /\ Before(timeToUTC(r.start), timeToUTC(r.end))

\* The error paths: no range, an ID that is empty or unknown, or start >= end.
RejectRange ==
    /\ pc = "validate"
    /\ \/ ranges = <<>>
       \/ index <= Len(ranges) /\ ~ValidRange(ranges[index])
    /\ pc' = "failed"
    /\ UNCHANGED <<ranges, index, entries, lookupVars>>

CopyRange ==
    /\ pc = "validate"
    /\ index <= Len(ranges)
    /\ LET r == ranges[index] IN
       /\ ValidRange(r)
       /\ entries' = Append(entries, [start |-> timeToUTC(r.start), end |-> timeToUTC(r.end),
                                      shard |-> r.id, sourceIndex |-> index])
    /\ index' = index + 1
    /\ UNCHANGED <<ranges, pc, lookupVars>>

\* The loop is over.
Validated ==
    /\ pc = "validate"
    /\ ranges # <<>>
    /\ index > Len(ranges)
    /\ pc' = "sort"
    /\ UNCHANGED <<ranges, index, entries, lookupVars>>

\* f puts n things in a new order.
Orders(n) ==
    {f \in [1..n -> 1..n] : /\ \A i, j \in 1..n : f[i] = f[j] => i = j
                            /\ \A j \in 1..n : \E i \in 1..n : f[i] = j}

\* slices.SortStableFunc by start: a later entry never starts before an earlier
\* one, and those that start together keep their order.
Sort ==
    /\ pc = "sort"
    /\ \E f \in Orders(Len(entries)) :
          /\ entries' = [i \in 1..Len(entries) |-> entries[f[i]]]
          /\ \A i, j \in 1..Len(entries) : i < j =>
                /\ ~Before(entries[f[j]].start, entries[f[i]].start)
                /\ Before(entries[f[i]].start, entries[f[j]].start) \/ f[i] < f[j]
    /\ pc' = "overlap"
    /\ index' = 2
    /\ UNCHANGED <<ranges, lookupVars>>

\* previous.end.After(current.start)
NeighboursOverlap == Before(entries[index].start, entries[index - 1].end)

CheckNeighbours ==
    /\ pc = "overlap"
    /\ index <= Len(entries)
    /\ \/ ~NeighboursOverlap /\ index' = index + 1 /\ UNCHANGED pc
       \/ NeighboursOverlap /\ pc' = "failed" /\ UNCHANGED index
    /\ UNCHANGED <<ranges, entries, lookupVars>>

Accept ==
    /\ pc = "overlap"
    /\ index > Len(entries)
    /\ pc' = "ready"
    /\ UNCHANGED <<ranges, index, entries, lookupVars>>

-----------------------------------------------------------------------------
(* Resolve. *)

Resolve(t) ==
    /\ pc \in {"ready", "answered"}
    /\ key' = timeToUTC(t)
    /\ lo' = 0
    /\ hi' = Len(entries)
    /\ pc' = "search"
    /\ UNCHANGED <<ranges, index, entries, result>>

\* The nil resolver of a NewTimeRange that failed answers no key, with an error.
ResolveUninitialised ==
    /\ pc \in {"noTopology", "failed"}
    /\ UNCHANGED vars

\* The predicate given to sort.Search.
EndsAfter(i) == Before(key, entries[i].end)

\* One probe of sort.Search for the first range that ends after the key.
Search ==
    /\ pc = "search"
    /\ lo < hi
    /\ LET h == (lo + hi) \div 2 IN
       IF EndsAfter(h + 1) THEN hi' = h /\ UNCHANGED lo
                           ELSE lo' = h + 1 /\ UNCHANGED hi
    /\ UNCHANGED <<ranges, pc, index, entries, key, result>>

\* No range ends after the key, the first that does starts after it too, or it
\* contains the key.
Answer ==
    /\ pc = "search"
    /\ lo >= hi
    /\ result' = IF lo = Len(entries) \/ Before(key, entries[lo + 1].start)
                 THEN NoShard ELSE entries[lo + 1].shard
    /\ pc' = "answered"
    /\ UNCHANGED <<ranges, index, entries, key, lo, hi>>

Next ==
    \/ RequireTopology \/ RejectRange \/ CopyRange \/ Validated
    \/ Sort \/ CheckNeighbours \/ Accept
    \/ \E t \in Times : Resolve(t)
    \/ ResolveUninitialised \/ Search \/ Answer

Spec == Init /\ [][Next]_vars

-----------------------------------------------------------------------------
(* The resolver over instants. *)

\* Ranges and entries by the wall clock alone.
RangeOnWallClock(r) == [start |-> r.start.wall, end |-> r.end.wall, id |-> r.id]
EntryOnWallClock(e) == [start |-> e.start.wall, end |-> e.end.wall,
                        shard |-> e.shard, sourceIndex |-> e.sourceIndex]

Walls == {t.wall : t \in Times}

Instants ==
    INSTANCE RangeResolver WITH
        NaN <- None,
        Values <- Walls,
        Configs <- Seq([start : Walls, end : Walls, id : ShardIDs \cup BadIDs]),
        ranges <- [i \in DOMAIN ranges |-> RangeOnWallClock(ranges[i])],
        entries <- [i \in DOMAIN entries |-> EntryOnWallClock(entries[i])],
        key <- key.wall

\* Whatever clocks its boundaries and keys were read from, the resolver accepts,
\* sorts and answers as the integer range resolver does for the instants: what
\* RangeResolver guarantees holds for times.
ImplementsRangeResolver == Instants!Spec
===============================================================================
