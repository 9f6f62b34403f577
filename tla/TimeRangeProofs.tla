---------------------------- MODULE TimeRangeProofs ----------------------------
(***************************************************************************)
(* Proofs about TimeRange: the time range resolver implements the range    *)
(* resolver, for every set of times and every list of ranges.              *)
(*                                                                         *)
(* The invariant says that nothing the resolver keeps has a monotonic      *)
(* reading, so that every comparison it makes is one of the wall clock.    *)
(* What RangeResolverProofs proves of the range resolver then holds for    *)
(* times.                                                                  *)
(***************************************************************************)
EXTENDS TimeRange, TLAPS

Stripped == [wall : Int, mono : {None}]
Entries == [start : Stripped, end : Stripped, shard : ShardIDs, sourceIndex : Nat]

Inv ==
    /\ ranges \in Seq(TimeRanges)
    /\ index \in Nat \ {0}
    /\ pc = "overlap" => index >= 2
    /\ entries \in Seq(Entries)
    /\ key.mono = None
    /\ pc = "search" => key \in Stripped /\ lo <= hi
    /\ lo \in Nat /\ hi \in Nat
    /\ hi <= Len(entries)

-----------------------------------------------------------------------------
(* The wall clock. *)

\* A time that timeToUTC returned has no reading, and is the same instant.
LEMMA UTCIsStripped ==
    ASSUME NEW t \in Times
    PROVE  timeToUTC(t) \in Stripped /\ timeToUTC(t).wall = t.wall /\ t.wall \in Walls
BY TimesAssumption DEF timeToUTC, Stripped, Time, Walls

\* Without readings, Before is the order of the instants.
LEMMA BeforeIsLess ==
    ASSUME NEW t \in Stripped, NEW u \in Stripped
    PROVE  /\ Before(t, u) <=> t.wall < u.wall
           /\ Before(t, u) <=> Instants!Less(t.wall, u.wall)
           /\ ~Before(t, u) <=> Instants!LessEq(u.wall, t.wall)
BY TimesAssumption DEF Before, Stripped, Instants!Less, Instants!LessEq

LEMMA RangesAgree ==
    ASSUME NEW r \in TimeRanges
    PROVE  /\ RangeOnWallClock(r) \in [start : Walls, end : Walls, id : ShardIDs \cup BadIDs]
           /\ Instants!ValidRange(RangeOnWallClock(r)) <=> ValidRange(r)
<1>1. r.start \in Times /\ r.end \in Times /\ r.id \in ShardIDs \cup BadIDs
  BY DEF TimeRanges
<1>2. Before(timeToUTC(r.start), timeToUTC(r.end)) <=> Instants!Less(r.start.wall, r.end.wall)
  BY <1>1, UTCIsStripped, BeforeIsLess
<1>3. QED
  BY <1>1, <1>2, UTCIsStripped DEF RangeOnWallClock, ValidRange, Instants!ValidRange

-----------------------------------------------------------------------------
(* The steps. *)

\* The mapped variables.
Ranges == [i \in DOMAIN ranges |-> RangeOnWallClock(ranges[i])]
Mapped == [i \in DOMAIN entries |-> EntryOnWallClock(entries[i])]

LEMMA FunctionIsSequence ==
    ASSUME NEW T, NEW n \in Nat, NEW f \in [1..n -> T]
    PROVE  f \in Seq(T) /\ Len(f) = n
OBVIOUS

\* The mapping keeps lengths and works element by element.
LEMMA MappedElements ==
    ASSUME Inv
    PROVE  /\ Ranges \in Seq([start : Walls, end : Walls, id : ShardIDs \cup BadIDs])
           /\ Len(Ranges) = Len(ranges)
           /\ \A i \in 1..Len(ranges) :
                 ranges[i] \in TimeRanges /\ Ranges[i] = RangeOnWallClock(ranges[i])
           /\ Mapped \in Seq([start : Int, end : Int, shard : ShardIDs, sourceIndex : Nat])
           /\ Len(Mapped) = Len(entries)
           /\ \A i \in 1..Len(entries) :
                 entries[i] \in Entries /\ Mapped[i] = EntryOnWallClock(entries[i])
<1> DEFINE R == [start : Walls, end : Walls, id : ShardIDs \cup BadIDs]
           E == [start : Int, end : Int, shard : ShardIDs, sourceIndex : Nat]
<1>1. ranges \in Seq(TimeRanges) /\ entries \in Seq(Entries)
  BY DEF Inv
<1>2. /\ DOMAIN ranges = 1..Len(ranges) /\ Len(ranges) \in Nat
      /\ DOMAIN entries = 1..Len(entries) /\ Len(entries) \in Nat
      /\ \A i \in 1..Len(ranges) : ranges[i] \in TimeRanges
      /\ \A i \in 1..Len(entries) : entries[i] \in Entries
  BY <1>1
<1>3. \A r \in TimeRanges : RangeOnWallClock(r) \in R
  BY RangesAgree
<1>4. \A e \in Entries : EntryOnWallClock(e) \in E
  BY DEF Entries, Stripped, EntryOnWallClock
<1> HIDE DEF R, E
<1>5. Ranges \in [1..Len(ranges) -> R] /\ Mapped \in [1..Len(entries) -> E]
  BY <1>2, <1>3, <1>4 DEF Ranges, Mapped
<1>6. Ranges \in Seq(R) /\ Len(Ranges) = Len(ranges)
  BY <1>2, <1>5, FunctionIsSequence
<1>7. Mapped \in Seq(E) /\ Len(Mapped) = Len(entries)
  BY <1>2, <1>5, FunctionIsSequence
<1>8. QED
  BY <1>2, <1>6, <1>7 DEF Ranges, Mapped, R, E

-----------------------------------------------------------------------------
(* The invariant is inductive. *)

LEMMA InvInit == Init => Inv
BY ConfigsAssumption DEF Init, Inv

\* What a copied range looks like.
CopyOf(r, i) == [start |-> timeToUTC(r.start), end |-> timeToUTC(r.end),
                 shard |-> r.id, sourceIndex |-> i]

LEMMA CopyIsEntry ==
    ASSUME NEW r \in TimeRanges, NEW i \in Nat, ValidRange(r)
    PROVE  /\ CopyOf(r, i) \in Entries
           /\ EntryOnWallClock(CopyOf(r, i)) =
                 [start |-> RangeOnWallClock(r).start, end |-> RangeOnWallClock(r).end,
                  shard |-> RangeOnWallClock(r).id, sourceIndex |-> i]
<1>1. r.start \in Times /\ r.end \in Times /\ r.id \in ShardIDs
  BY DEF TimeRanges, ValidRange
<1>2. QED
  BY <1>1, UTCIsStripped DEF CopyOf, Entries, EntryOnWallClock, RangeOnWallClock

\* A rearrangement of the entries consists of entries.
LEMMA ReorderedEntries ==
    ASSUME NEW s \in Seq(Entries), NEW f \in [1..Len(s) -> 1..Len(s)]
    PROVE  /\ [i \in 1..Len(s) |-> s[f[i]]] \in Seq(Entries)
           /\ Len([i \in 1..Len(s) |-> s[f[i]]]) = Len(s)
<1>1. [i \in 1..Len(s) |-> s[f[i]]] \in [1..Len(s) -> Entries]
  OBVIOUS
<1>2. Len(s) \in Nat
  OBVIOUS
<1>3. QED
  BY <1>1, <1>2, FunctionIsSequence

LEMMA InvNext == Inv /\ [Next]_vars => Inv'
<1> SUFFICES ASSUME Inv, [Next]_vars PROVE Inv'
  OBVIOUS
<1> USE DEF Inv
<1>1. CASE RejectRange
  BY <1>1 DEF RejectRange, lookupVars
<1>2. CASE CopyRange
  <2>1. ranges[index] \in TimeRanges /\ ValidRange(ranges[index])
    BY <1>2 DEF CopyRange
  <2>2. entries' = Append(entries, CopyOf(ranges[index], index))
    BY <1>2 DEF CopyRange, CopyOf
  <2>3. CopyOf(ranges[index], index) \in Entries
    BY <2>1, CopyIsEntry
  <2>4. entries' \in Seq(Entries) /\ Len(entries') = Len(entries) + 1
    BY <2>2, <2>3
  <2>5. QED
    BY <1>2, <2>4 DEF CopyRange, lookupVars
<1>3. CASE Validated
  BY <1>3 DEF Validated, lookupVars
<1>4. CASE Sort
  <2>1. PICK f \in Orders(Len(entries)) : entries' = [i \in 1..Len(entries) |-> entries[f[i]]]
    BY <1>4 DEF Sort
  <2>2. f \in [1..Len(entries) -> 1..Len(entries)]
    BY DEF Orders
  <2>3. entries' \in Seq(Entries) /\ Len(entries') = Len(entries)
    BY <2>1, <2>2, ReorderedEntries
  <2>4. QED
    BY <1>4, <2>3 DEF Sort, lookupVars
<1>5. CASE CheckNeighbours
  BY <1>5 DEF CheckNeighbours, lookupVars
<1>6. CASE Accept
  BY <1>6 DEF Accept, lookupVars
<1>7. ASSUME NEW t \in Times, Resolve(t) PROVE Inv'
  <2>1. timeToUTC(t) \in Stripped /\ timeToUTC(t).mono = None
    BY UTCIsStripped DEF timeToUTC
  <2>2. QED
    BY <1>7, <2>1 DEF Resolve
<1>8. CASE Search
  BY <1>8 DEF Search
<1>9. CASE Answer
  BY <1>9 DEF Answer
<1>10. CASE RequireTopology
  BY <1>10 DEF RequireTopology, lookupVars
<1>11. CASE ResolveUninitialised \/ UNCHANGED vars
  BY <1>11 DEF ResolveUninitialised, vars
<1>12. QED
  BY <1>1, <1>2, <1>3, <1>4, <1>5, <1>6, <1>7, <1>8, <1>9, <1>10, <1>11 DEF Next

\* Nothing the resolver keeps has a monotonic reading.
THEOREM Normalised == Spec => []Inv
BY InvInit, InvNext, PTL DEF Spec

-----------------------------------------------------------------------------
(* Refinement. *)

LEMMA RefinesInit == Init => Instants!Init
<1> SUFFICES ASSUME Init PROVE Instants!Init
  OBVIOUS
<1>1. Inv
  BY InvInit
<1>2. Ranges \in Seq([start : Walls, end : Walls, id : ShardIDs \cup BadIDs])
  BY <1>1, MappedElements
<1>3. [i \in DOMAIN entries |-> EntryOnWallClock(entries[i])] = <<>>
  BY DEF Init
<1>4. key.wall = None
  BY DEF Init
<1>5. QED
  BY <1>2, <1>3, <1>4 DEF Init, Instants!Init, Ranges

LEMMA RefinesNext == Inv /\ [Next]_vars => [Instants!Next]_(Instants!vars)
<1> SUFFICES ASSUME Inv, [Next]_vars PROVE Instants!Next \/ UNCHANGED Instants!vars
  OBVIOUS
<1>r. /\ ranges \in Seq(TimeRanges) /\ Len(ranges) \in Nat
      /\ Len(Ranges) = Len(ranges)
      /\ ranges = <<>> <=> Ranges = <<>>
      /\ \A i \in 1..Len(ranges) :
            ranges[i] \in TimeRanges /\ Ranges[i] = RangeOnWallClock(ranges[i])
  <2>1. ranges \in Seq(TimeRanges)
    BY DEF Inv
  <2>2. Ranges \in Seq([start : Walls, end : Walls, id : ShardIDs \cup BadIDs])
        /\ Len(Ranges) = Len(ranges)
    BY MappedElements
  <2>3. ranges = <<>> <=> Ranges = <<>>
    BY <2>1, <2>2
  <2>4. QED
    BY <2>1, <2>2, <2>3, MappedElements
<1>e. /\ entries \in Seq(Entries) /\ Len(entries) \in Nat
      /\ Len(Mapped) = Len(entries)
      /\ \A i \in 1..Len(entries) :
            /\ entries[i] \in Entries
            /\ entries[i].start \in Stripped /\ entries[i].end \in Stripped
            /\ Mapped[i] = EntryOnWallClock(entries[i])
            /\ Mapped[i].start = entries[i].start.wall
            /\ Mapped[i].end = entries[i].end.wall
            /\ Mapped[i].shard = entries[i].shard
  <2>1. entries \in Seq(Entries) /\ Len(entries) \in Nat
    BY DEF Inv
  <2>2. /\ Len(Mapped) = Len(entries)
        /\ \A i \in 1..Len(entries) :
              entries[i] \in Entries /\ Mapped[i] = EntryOnWallClock(entries[i])
    BY <2>1, MappedElements
  <2>3. \A i \in 1..Len(entries) :
           entries[i].start \in Stripped /\ entries[i].end \in Stripped
    BY <2>1, <2>2 DEF Entries
  <2>4. \A i \in 1..Len(entries) :
           /\ Mapped[i].start = entries[i].start.wall
           /\ Mapped[i].end = entries[i].end.wall
           /\ Mapped[i].shard = entries[i].shard
    <3>1. ASSUME NEW e
          PROVE  /\ EntryOnWallClock(e).start = e.start.wall
                 /\ EntryOnWallClock(e).end = e.end.wall
                 /\ EntryOnWallClock(e).shard = e.shard
      BY DEF EntryOnWallClock
    <3>2. QED
      BY <2>2, <3>1
  <2>5. QED
    BY <2>1, <2>2, <2>3, <2>4
<1>i. index \in Nat \ {0} /\ lo \in Nat /\ hi \in Nat /\ hi <= Len(entries)
  BY DEF Inv
<1>1. CASE RejectRange
  <2>1. ASSUME index <= Len(ranges), ~ValidRange(ranges[index])
        PROVE  ~Instants!ValidRange(Ranges[index])
    BY <1>r, <1>i, <2>1, RangesAgree
  <2>2. Instants!RejectRange
    BY <1>1, <1>r, <2>1
       DEF RejectRange, lookupVars, Instants!RejectRange, Instants!lookupVars, Ranges
  <2>3. QED
    BY <2>2 DEF Instants!Next
<1>2. CASE CopyRange
  <2> DEFINE r == ranges[index]
             e == CopyOf(r, index)
  <2>1. r \in TimeRanges /\ ValidRange(r) /\ Ranges[index] = RangeOnWallClock(r)
    BY <1>2, <1>r, <1>i DEF CopyRange
  <2>2. Instants!ValidRange(Ranges[index])
    BY <2>1, RangesAgree
  <2>3. entries' = Append(entries, e)
    BY <1>2 DEF CopyRange, CopyOf
  <2>4. EntryOnWallClock(e) = [start |-> Ranges[index].start, end |-> Ranges[index].end,
                               shard |-> Ranges[index].id, sourceIndex |-> index]
    BY <1>i, <2>1, CopyIsEntry
  <2>5. Mapped' = Append(Mapped, EntryOnWallClock(e))
    BY <1>e, <2>3 DEF Mapped
  <2>6. Instants!CopyRange
    BY <1>2, <1>r, <2>2, <2>4, <2>5
       DEF CopyRange, lookupVars, Instants!CopyRange, Instants!lookupVars, Ranges, Mapped
  <2>7. QED
    BY <2>6 DEF Instants!Next
<1>3. CASE Validated
  <2>1. Instants!Validated
    BY <1>3, <1>r
       DEF Validated, lookupVars, Instants!Validated, Instants!lookupVars, Ranges
  <2>2. QED
    BY <2>1 DEF Instants!Next
<1>4. CASE Sort
  <2> DEFINE n == Len(entries)
  <2>1. PICK f \in Orders(n) :
           /\ entries' = [i \in 1..n |-> entries[f[i]]]
           /\ \A i, j \in 1..n : i < j =>
                 /\ ~Before(entries[f[j]].start, entries[f[i]].start)
                 /\ Before(entries[f[i]].start, entries[f[j]].start) \/ f[i] < f[j]
    BY <1>4 DEF Sort
  <2>2. f \in [1..n -> 1..n] /\ f \in Instants!Rearrangements(n)
    BY DEF Orders, Instants!Rearrangements
  <2>3. Mapped' = [i \in 1..n |-> Mapped[f[i]]]
    BY <1>e, <2>1, <2>2 DEF Mapped
  <2>4. ASSUME NEW i \in 1..n, NEW j \in 1..n, i < j
        PROVE  \/ Mapped'[i].start < Mapped'[j].start
               \/ Mapped'[i].start = Mapped'[j].start /\ f[i] < f[j]
    <3>1. /\ f[i] \in 1..n /\ f[j] \in 1..n
          /\ Mapped'[i].start = entries[f[i]].start.wall
          /\ Mapped'[j].start = entries[f[j]].start.wall
      BY <1>e, <2>2, <2>3
    <3>2. /\ ~Before(entries[f[j]].start, entries[f[i]].start)
          /\ Before(entries[f[i]].start, entries[f[j]].start) \/ f[i] < f[j]
      BY <2>1, <2>4
    <3>3. /\ ~(entries[f[j]].start.wall < entries[f[i]].start.wall)
          /\ entries[f[i]].start.wall < entries[f[j]].start.wall \/ f[i] < f[j]
      BY <1>e, <3>1, <3>2, BeforeIsLess
    <3>4. entries[f[i]].start.wall \in Int /\ entries[f[j]].start.wall \in Int
      BY <1>e, <3>1 DEF Stripped
    <3>5. QED
      BY <3>1, <3>3, <3>4
  <2>5. \E g \in Instants!Rearrangements(Len(Mapped)) :
           /\ Mapped' = [i \in 1..Len(Mapped) |-> Mapped[g[i]]]
           /\ \A i, j \in 1..Len(Mapped) : i < j =>
                 \/ Mapped'[i].start < Mapped'[j].start
                 \/ Mapped'[i].start = Mapped'[j].start /\ g[i] < g[j]
    BY <1>e, <2>2, <2>3, <2>4
  <2>6. /\ pc = "sort" /\ pc' = "overlap" /\ index' = 2
        /\ Ranges' = Ranges /\ UNCHANGED <<key, lo, hi, result>>
    BY <1>4 DEF Sort, lookupVars, Ranges
  <2>7. Instants!Sort
    BY <2>5, <2>6 DEF Instants!Sort, Instants!lookupVars, Mapped, Ranges
  <2>8. QED
    BY <2>7 DEF Instants!Next
<1>5. CASE CheckNeighbours
  <2>1. index \in 1..Len(entries) /\ index - 1 \in 1..Len(entries)
    BY <1>5, <1>e, <1>i DEF CheckNeighbours, Inv
  <2>2. ~NeighboursOverlap <=> Instants!LessEq(Mapped[index - 1].end, Mapped[index].start)
    BY <1>e, <2>1, BeforeIsLess DEF NeighboursOverlap
  <2>3. Instants!CheckNeighbours
    BY <1>5, <1>e, <2>2
       DEF CheckNeighbours, lookupVars, Instants!CheckNeighbours, Instants!lookupVars, Mapped
  <2>4. QED
    BY <2>3 DEF Instants!Next
<1>6. CASE Accept
  <2>1. Instants!Accept
    BY <1>6, <1>e DEF Accept, lookupVars, Instants!Accept, Instants!lookupVars, Mapped
  <2>2. QED
    BY <2>1 DEF Instants!Next
<1>7. ASSUME NEW t \in Times, Resolve(t)
      PROVE  Instants!Next
  <2>1. t.wall \in Walls /\ timeToUTC(t).wall = t.wall
    BY UTCIsStripped
  <2>2. Instants!Resolve(t.wall)
    BY <1>7, <1>e, <2>1 DEF Resolve, Instants!Resolve, Mapped
  <2>3. QED
    BY <2>1, <2>2 DEF Instants!Next
<1>8. CASE Search
  <2> DEFINE h == (lo + hi) \div 2
  <2>1. h + 1 \in 1..Len(entries) /\ key \in Stripped
    BY <1>8, <1>e, <1>i DEF Search, Inv
  <2>2. Before(key, entries[h + 1].end) <=> Instants!Less(key.wall, Mapped[h + 1].end)
    BY <1>e, <2>1, BeforeIsLess
  <2>3. Instants!Search
    BY <1>8, <2>2 DEF Search, EndsAfter, Instants!Search, Instants!EndsAfter, Mapped
  <2>4. QED
    BY <2>3 DEF Instants!Next
<1>9. CASE Answer
  <2>1. key \in Stripped /\ (lo # Len(entries) => lo + 1 \in 1..Len(entries))
    <3>1. pc = "search" /\ lo >= hi
      BY <1>9 DEF Answer
    <3>2. QED
      BY <3>1, <1>i, <1>e DEF Inv
  <2>2. lo # Len(entries) =>
           (Before(key, entries[lo + 1].start) <=> Instants!Less(key.wall, Mapped[lo + 1].start))
    BY <1>e, <2>1, BeforeIsLess
  <2>3. Instants!Answer
    BY <1>9, <1>e, <2>1, <2>2 DEF Answer, Instants!Answer, Mapped
  <2>4. QED
    BY <2>3 DEF Instants!Next
<1>10. CASE RequireTopology
  <2>1. Instants!RequireTopology
    BY <1>10 DEF RequireTopology, lookupVars, Instants!RequireTopology, Instants!lookupVars
  <2>2. QED
    BY <2>1 DEF Instants!Next
<1>11. CASE ResolveUninitialised \/ UNCHANGED vars
  <2>1. UNCHANGED Instants!vars
    BY <1>11 DEF ResolveUninitialised, vars, Instants!vars
  <2>2. QED
    BY <2>1
<1>12. QED
  BY <1>1, <1>2, <1>3, <1>4, <1>5, <1>6, <1>7, <1>8, <1>9, <1>10, <1>11 DEF Next

\* Every behaviour of the time range resolver is one of the range resolver for
\* the instants of its boundaries and keys.
THEOREM Refinement == Spec => ImplementsRangeResolver
<1>1. Instants!Init /\ [][Instants!Next]_(Instants!vars) => ImplementsRangeResolver
  BY DEF ImplementsRangeResolver, Instants!Spec
<1>2. QED
  BY <1>1, Normalised, RefinesInit, RefinesNext, PTL DEF Spec

-----------------------------------------------------------------------------
(* What the range resolver guarantees, for times. *)

Promises ==
    INSTANCE RangeResolverProofs WITH
        NaN <- None,
        Values <- Walls,
        Configs <- Seq([start : Walls, end : Walls, id : ShardIDs \cup BadIDs]),
        ranges <- [i \in DOMAIN ranges |-> RangeOnWallClock(ranges[i])],
        entries <- [i \in DOMAIN entries |-> EntryOnWallClock(entries[i])],
        key <- key.wall

\* The two instances are the same resolver.
LEMMA OneResolver == Instants!Spec => Promises!Spec
<1>1. Instants!Init => Promises!Init
  BY DEF Instants!Init, Promises!Init
<1>2. [Instants!Next]_(Instants!vars) => [Promises!Next]_(Promises!vars)
  BY Zenon DEF Instants!Next, Promises!Next,
               Instants!vars, Promises!vars,
               Instants!lookupVars, Promises!lookupVars,
               Instants!Less, Promises!Less,
               Instants!LessEq, Promises!LessEq,
               Instants!ValidRange, Promises!ValidRange,
               Instants!RejectRange, Promises!RejectRange,
               Instants!CopyRange, Promises!CopyRange,
               Instants!Validated, Promises!Validated,
               Instants!Rearrangements, Promises!Rearrangements,
               Instants!Sort, Promises!Sort,
               Instants!CheckNeighbours, Promises!CheckNeighbours,
               Instants!Accept, Promises!Accept,
               Instants!Resolve, Promises!Resolve,
               Instants!Search, Promises!Search,
               Instants!Answer, Promises!Answer,
               Instants!RequireTopology, Promises!RequireTopology,
               Instants!ResolveUninitialised, Promises!ResolveUninitialised,
               Instants!EndsAfter, Promises!EndsAfter,
               Instants!Ranges, Promises!Ranges
<1>3. QED
  BY <1>1, <1>2, PTL DEF Instants!Spec, Promises!Spec

\* The instants are values the range resolver accepts.
LEMMA InstantsAreValues ==
    /\ Walls \subseteq Int \cup {None} /\ None \notin Int
    /\ ShardIDs \cap BadIDs = {} /\ NoShard \notin ShardIDs
    /\ Seq([start : Walls, end : Walls, id : ShardIDs \cup BadIDs]) \subseteq Seq(Promises!Ranges)
BY TimesAssumption, IDsAssumption DEF Walls, Time, Promises!Ranges

\* NewTimeRange accepts the lists of ranges that are valid and pairwise disjoint on
\* the wall clock and no other, whatever monotonic readings their boundaries carry.
THEOREM AcceptanceIsExact == Spec => []Instants!AcceptsExactlyWellFormed
<1>1. Promises!Spec => []Promises!AcceptsExactlyWellFormed
  BY InstantsAreValues, Promises!AcceptanceIsExact, Zenon
<1>2. Promises!AcceptsExactlyWellFormed => Instants!AcceptsExactlyWellFormed
  BY Zenon DEF Instants!AcceptsExactlyWellFormed, Promises!AcceptsExactlyWellFormed,
               Instants!WellFormed, Promises!WellFormed,
               Instants!ValidRange, Promises!ValidRange,
               Instants!Overlap, Promises!Overlap,
               Instants!Less, Promises!Less,
               Instants!LessEq, Promises!LessEq
<1>3. QED
  BY <1>1, <1>2, OneResolver, Refinement, PTL DEF ImplementsRangeResolver

\* Resolve returns the shard of the caller's range that contains the instant of the
\* key, whatever clocks the key and the boundaries were read from, and ErrNoShard
\* when there is none.
THEOREM LookupIsExact == Spec => []Instants!LookupExact
<1>1. Promises!Spec => []Promises!LookupExact
  BY InstantsAreValues, Promises!LookupIsExact, Zenon
<1>2. Promises!LookupExact => Instants!LookupExact
  BY Zenon DEF Instants!LookupExact, Promises!LookupExact,
               Instants!Contains, Promises!Contains,
               Instants!Less, Promises!Less,
               Instants!LessEq, Promises!LessEq
<1>3. QED
  BY <1>1, <1>2, OneResolver, Refinement, PTL DEF ImplementsRangeResolver
===============================================================================
