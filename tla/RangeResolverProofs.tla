------------------------- MODULE RangeResolverProofs -------------------------
(***************************************************************************)
(* Proofs about RangeResolver for every list of ranges, of any length and  *)
(* over any integers and NaN, and every key.                               *)
(***************************************************************************)
EXTENDS RangeResolver, TLAPS

-----------------------------------------------------------------------------
(* The inductive invariant. *)

Constructed == {"ready", "search", "answered"}
Copied == {"sort", "overlap"} \cup Constructed

\* Every entry is a copy of the valid range it names as its source.
CopiesInv ==
    \A i \in 1..Len(entries) :
        /\ entries[i].sourceIndex \in 1..Len(ranges)
        /\ ValidRange(ranges[entries[i].sourceIndex])
        /\ entries[i].start = ranges[entries[i].sourceIndex].start
        /\ entries[i].end = ranges[entries[i].sourceIndex].end
        /\ entries[i].shard = ranges[entries[i].sourceIndex].id

\* The copies so far are those before index; later, every range has exactly one.
SourcesInv ==
    /\ pc \in {"call", "validate"} =>
          /\ Len(entries) = index - 1
          /\ index <= Len(ranges) + 1
          /\ \A i \in 1..Len(entries) : entries[i].sourceIndex = i
    /\ pc \in Copied =>
          /\ ranges # <<>>
          /\ \A i, j \in 1..Len(entries) :
                entries[i].sourceIndex = entries[j].sourceIndex => i = j
          /\ \A j \in 1..Len(ranges) : \E i \in 1..Len(entries) : entries[i].sourceIndex = j

\* The neighbours checked so far order all pairs before index.
OrderInv ==
    /\ pc = "overlap" =>
          /\ index >= 2
          /\ \A i, j \in 1..Len(entries) : i < j => entries[i].start <= entries[j].start
          /\ \A i, j \in 1..Len(entries) : i < j /\ j < index => entries[i].end <= entries[j].start
    /\ pc \in Constructed =>
          \A i, j \in 1..Len(entries) : i < j => entries[i].end <= entries[j].start

\* The key is beyond the ranges up to lo and below the end of those from hi on.
SearchInv ==
    pc = "search" =>
        /\ \A i \in 1..lo : ~Less(key, entries[i].end)
        /\ \A i \in (hi + 1)..Len(entries) : Less(key, entries[i].end)

IInv ==
    /\ TypeOK
    /\ CopiesInv
    /\ SourcesInv
    /\ OrderInv
    /\ SearchInv
    /\ AcceptsExactlyWellFormed
    /\ LookupExact

-----------------------------------------------------------------------------
(* Lemmas. *)

\* A valid range has integer boundaries.
LEMMA ValidIsInt ==
    ASSUME NEW r \in Ranges, ValidRange(r)
    PROVE  r.start \in Int /\ r.end \in Int /\ r.start < r.end /\ r.id \in ShardIDs
  BY ValuesAssumption DEF Ranges, ValidRange, Less

\* The boundaries of the entries are integers in order.
LEMMA EntryFacts ==
    ASSUME IInv, NEW i \in 1..Len(entries)
    PROVE  /\ entries[i] \in Entries
           /\ entries[i].start \in Int /\ entries[i].end \in Int
           /\ entries[i].start < entries[i].end
           /\ entries[i].shard \in ShardIDs
<1>1. entries[i] \in Entries /\ entries[i].sourceIndex \in 1..Len(ranges)
  BY DEF IInv, TypeOK, CopiesInv
<1>2. ranges[entries[i].sourceIndex] \in Ranges /\ ValidRange(ranges[entries[i].sourceIndex])
  BY <1>1 DEF IInv, TypeOK, CopiesInv
<1>3. QED
  BY <1>1, <1>2, ValidIsInt DEF IInv, CopiesInv

\* No two of the caller's ranges overlap once all pairs of entries are in order.
LEMMA OrderedIsWellFormed ==
    ASSUME IInv, pc \in Copied,
           \A i, j \in 1..Len(entries) : i < j => entries[i].end <= entries[j].start
    PROVE  WellFormed
<1>1. ASSUME NEW x \in 1..Len(ranges)
      PROVE  /\ ValidRange(ranges[x])
             /\ \E i \in 1..Len(entries) :
                   /\ entries[i].sourceIndex = x
                   /\ ranges[x].start = entries[i].start /\ ranges[x].end = entries[i].end
  <2>1. PICK i \in 1..Len(entries) : entries[i].sourceIndex = x
    BY DEF IInv, SourcesInv
  <2>2. QED
    BY <2>1 DEF IInv, CopiesInv
<1>2. ASSUME NEW x \in 1..Len(ranges), NEW y \in 1..Len(ranges), x # y
      PROVE  ~Overlap(ranges[x], ranges[y])
  <2>1. PICK i \in 1..Len(entries) :
           /\ entries[i].sourceIndex = x
           /\ ranges[x].start = entries[i].start /\ ranges[x].end = entries[i].end
    BY <1>1
  <2>2. PICK j \in 1..Len(entries) :
           /\ entries[j].sourceIndex = y
           /\ ranges[y].start = entries[j].start /\ ranges[y].end = entries[j].end
    BY <1>1
  <2>3. Len(entries) \in Nat /\ i \in Int /\ j \in Int /\ i # j
    BY <1>2, <2>1, <2>2 DEF IInv, TypeOK
  <2>4. entries[i].end <= entries[j].start \/ entries[j].end <= entries[i].start
    BY <2>3
  <2>5. QED
    BY <2>1, <2>2, <2>4, EntryFacts DEF Overlap, Less
<1>3. DOMAIN ranges = 1..Len(ranges) /\ ranges # <<>>
  BY DEF IInv, TypeOK, SourcesInv
<1>4. QED
  BY <1>1, <1>2, <1>3 DEF WellFormed

\* At the end of the search the entry at lo contains the key or no range does.
LEMMA AnswerExact ==
    ASSUME IInv, Answer
    PROVE  \/ \E i \in DOMAIN ranges : Contains(ranges[i], key) /\ result' = ranges[i].id
           \/ result' = NoShard /\ \A i \in DOMAIN ranges : ~Contains(ranges[i], key)
<1>1. /\ lo = hi /\ lo \in Nat /\ lo <= Len(entries) /\ Len(entries) \in Nat
      /\ DOMAIN ranges = 1..Len(ranges)
  BY DEF IInv, TypeOK, Answer
<1>2. key = NaN \/ key \in Int
  BY ValuesAssumption DEF IInv, TypeOK
<1>3. /\ \A i \in 1..lo : ~Less(key, entries[i].end)
      /\ \A i \in (lo + 1)..Len(entries) : Less(key, entries[i].end)
  BY <1>1 DEF IInv, SearchInv, Answer
\* A range that contains the key has its entry beyond lo, starting no later.
<1>4. ASSUME NEW x \in 1..Len(ranges), Contains(ranges[x], key)
      PROVE  \E i \in (lo + 1)..Len(entries) : /\ entries[i].sourceIndex = x
                                                /\ LessEq(entries[i].start, key)
  <2>1. PICK i \in 1..Len(entries) : entries[i].sourceIndex = x
    BY DEF IInv, SourcesInv, Answer, Copied, Constructed
  <2>2. entries[i].start = ranges[x].start /\ entries[i].end = ranges[x].end
    BY <2>1 DEF IInv, CopiesInv
  <2>3. i > lo
    BY <1>1, <1>3, <1>4, <2>2 DEF Contains
  <2>4. QED
    BY <1>1, <1>4, <2>1, <2>2, <2>3 DEF Contains
<1>5. CASE lo = Len(entries)
  <2>1. result' = NoShard
    BY <1>5 DEF Answer
  <2>2. QED
    BY <1>1, <1>4, <1>5, <2>1
<1>6. CASE lo # Len(entries)
  <2> DEFINE e == entries[lo + 1]
  <2>1. lo + 1 \in 1..Len(entries) /\ lo + 1 \in (lo + 1)..Len(entries)
    BY <1>1, <1>6
  <2>2. /\ e.start \in Int /\ e.end \in Int
        /\ e.sourceIndex \in 1..Len(ranges)
        /\ e.start = ranges[e.sourceIndex].start /\ e.end = ranges[e.sourceIndex].end
        /\ e.shard = ranges[e.sourceIndex].id
    BY <2>1, EntryFacts DEF IInv, CopiesInv
  <2>3. Less(key, e.end)
    BY <1>3, <2>1
  <2>4. CASE Less(key, e.start)
    <3>1. result' = NoShard
      BY <1>6, <2>4 DEF Answer
    <3>2. ASSUME NEW i \in (lo + 1)..Len(entries) PROVE ~LessEq(entries[i].start, key)
      <4>1. i \in 1..Len(entries)
        BY <1>1
      <4>2. e.start <= entries[i].start
        <5>1. CASE i = lo + 1
          BY <2>2, <5>1
        <5>2. CASE i # lo + 1
          <6>1. e.end <= entries[i].start /\ e.start < e.end
            BY <1>1, <2>1, <4>1, <5>2, EntryFacts DEF IInv, OrderInv, Answer, Constructed
          <6>2. QED
            BY <2>2, <4>1, <6>1, EntryFacts
        <5>3. QED
          BY <5>1, <5>2
      <4>3. entries[i].start \in Int
        BY <4>1, EntryFacts
      <4>4. QED
        BY <1>2, <2>2, <2>4, <4>2, <4>3 DEF Less, LessEq
    <3>3. QED
      BY <1>1, <1>4, <3>1, <3>2
  <2>5. CASE ~Less(key, e.start)
    <3>1. result' = e.shard
      BY <1>6, <2>5 DEF Answer
    <3>2. LessEq(e.start, key)
      BY <1>2, <2>2, <2>3, <2>5, ValuesAssumption DEF Less, LessEq
    <3>3. Contains(ranges[e.sourceIndex], key)
      BY <2>2, <2>3, <3>2 DEF Contains
    <3>4. QED
      BY <1>1, <2>2, <3>1, <3>3
  <2>6. QED
    BY <2>4, <2>5
<1>7. QED
  BY <1>5, <1>6

-----------------------------------------------------------------------------
(* The invariant is inductive. *)

\* NewRange starts with no entry.
LEMMA InitIInv == Init => IInv
<1> SUFFICES ASSUME Init PROVE IInv
  OBVIOUS
<1>1. TypeOK
  BY ConfigsAssumption DEF Init, TypeOK
<1>2. Len(entries) = 0 /\ Len(ranges) \in Nat
  BY <1>1 DEF Init, TypeOK
<1>3. CopiesInv /\ SourcesInv
  BY <1>2 DEF Init, CopiesInv, SourcesInv, Copied, Constructed
<1>4. OrderInv /\ SearchInv
  BY DEF Init, OrderInv, SearchInv, Constructed
<1>5. AcceptsExactlyWellFormed /\ LookupExact
  BY DEF Init, AcceptsExactlyWellFormed, LookupExact
<1>6. QED
  BY <1>1, <1>3, <1>4, <1>5 DEF IInv

\* Every iteration and every probe keeps the invariant.
LEMMA NextIInv == IInv /\ [Next]_vars => IInv'
<1> SUFFICES ASSUME IInv, [Next]_vars PROVE IInv'
  OBVIOUS
<1> USE DEF IInv, Copied, Constructed
<1>n. Len(entries) \in Nat /\ Len(ranges) \in Nat
  BY DEF TypeOK
<1>1. CASE RejectRange
  <2> USE <1>1 DEF RejectRange, lookupVars
  <2>1. TypeOK' /\ CopiesInv' /\ SourcesInv' /\ OrderInv' /\ SearchInv'
    BY DEF TypeOK, CopiesInv, SourcesInv, OrderInv, SearchInv
  <2>2. ~WellFormed
    <3>1. index <= Len(ranges) => index \in DOMAIN ranges
      BY DEF TypeOK
    <3>2. QED
      BY <3>1 DEF WellFormed
  <2>3. AcceptsExactlyWellFormed' /\ LookupExact'
    BY <2>2 DEF AcceptsExactlyWellFormed, WellFormed, LookupExact
  <2>4. QED
    BY <2>1, <2>3
<1>2. CASE CopyRange
  <2> USE <1>2 DEF CopyRange, lookupVars
  <2> DEFINE e == [start |-> ranges[index].start, end |-> ranges[index].end,
                   shard |-> ranges[index].id, sourceIndex |-> index]
  <2>1. ranges[index] \in Ranges /\ index \in 1..Len(ranges)
    BY DEF TypeOK
  <2>2. e \in Entries
    BY <2>1, ValidIsInt DEF Entries, TypeOK
  <2>3. /\ entries' \in Seq(Entries)
        /\ Len(entries') = Len(entries) + 1
        /\ \A i \in 1..Len(entries) : entries'[i] = entries[i]
        /\ entries'[Len(entries) + 1] = e
    BY <2>2 DEF TypeOK
  <2>4. TypeOK'
    BY <2>3, <1>n DEF TypeOK
  <2>5. CopiesInv'
    <3> SUFFICES ASSUME NEW i \in 1..(Len(entries) + 1)
                 PROVE  /\ entries'[i].sourceIndex \in 1..Len(ranges)
                        /\ ValidRange(ranges[entries'[i].sourceIndex])
                        /\ entries'[i].start = ranges[entries'[i].sourceIndex].start
                        /\ entries'[i].end = ranges[entries'[i].sourceIndex].end
                        /\ entries'[i].shard = ranges[entries'[i].sourceIndex].id
      BY <2>3 DEF CopiesInv
    <3>1. CASE i \in 1..Len(entries)
      BY <2>3, <3>1 DEF CopiesInv
    <3>2. CASE i = Len(entries) + 1
      BY <2>1, <2>3, <3>2
    <3>3. QED
      BY <3>1, <3>2, <1>n
  <2>6. SourcesInv'
    BY <2>1, <2>3, <1>n DEF TypeOK, SourcesInv
  <2>7. OrderInv' /\ SearchInv' /\ AcceptsExactlyWellFormed' /\ LookupExact'
    BY DEF OrderInv, SearchInv, AcceptsExactlyWellFormed, LookupExact
  <2>8. QED
    BY <2>4, <2>5, <2>6, <2>7
<1>3. CASE Validated
  <2> USE <1>3 DEF Validated, lookupVars
  <2>1. TypeOK' /\ CopiesInv'
    BY DEF TypeOK, CopiesInv
  <2>2. Len(entries) = Len(ranges)
    BY <1>n DEF TypeOK, SourcesInv
  <2>3. SourcesInv'
    BY <2>2 DEF SourcesInv
  <2>4. OrderInv' /\ SearchInv' /\ AcceptsExactlyWellFormed' /\ LookupExact'
    BY DEF OrderInv, SearchInv, AcceptsExactlyWellFormed, LookupExact
  <2>5. QED
    BY <2>1, <2>3, <2>4
<1>4. CASE Sort
  <2> DEFINE n == Len(entries)
  <2>0. /\ pc = "sort" /\ pc' = "overlap" /\ index' = 2 /\ ranges' = ranges
        /\ key' = key /\ lo' = lo /\ hi' = hi /\ result' = result
    BY <1>4 DEF Sort, lookupVars
  <2>1. PICK f \in Rearrangements(n) :
           /\ entries' = [i \in 1..n |-> entries[f[i]]]
           /\ \A i, j \in 1..n : i < j =>
                 \/ entries'[i].start < entries'[j].start
                 \/ entries'[i].start = entries'[j].start /\ f[i] < f[j]
    BY <1>4 DEF Sort
  <2>2. /\ \A i \in 1..n : f[i] \in 1..n
        /\ \A i, j \in 1..n : f[i] = f[j] => i = j
        /\ \A j \in 1..n : \E i \in 1..n : f[i] = j
    BY DEF Rearrangements
  <2>3. /\ entries' \in Seq(Entries) /\ Len(entries') = n
        /\ \A i \in 1..n : entries'[i] = entries[f[i]]
    <3>1. \A i \in 1..n : entries[f[i]] \in Entries
      BY <2>2 DEF TypeOK
    <3>2. entries' \in [1..n -> Entries]
      BY <2>1, <3>1
    <3>3. QED
      BY <2>1, <3>2, <1>n
  <2>4. TypeOK'
    BY <2>0, <2>3 DEF TypeOK
  <2>5. CopiesInv'
    <3> SUFFICES ASSUME NEW i \in 1..n
                 PROVE  /\ entries'[i].sourceIndex \in 1..Len(ranges)
                        /\ ValidRange(ranges[entries'[i].sourceIndex])
                        /\ entries'[i].start = ranges[entries'[i].sourceIndex].start
                        /\ entries'[i].end = ranges[entries'[i].sourceIndex].end
                        /\ entries'[i].shard = ranges[entries'[i].sourceIndex].id
      BY <2>0, <2>3 DEF CopiesInv
    <3>1. entries'[i] = entries[f[i]] /\ f[i] \in 1..n
      BY <2>2, <2>3
    <3>2. QED
      BY <3>1 DEF CopiesInv
  <2>6. SourcesInv'
    <3>1. ASSUME NEW i \in 1..n, NEW j \in 1..n,
                 entries'[i].sourceIndex = entries'[j].sourceIndex
          PROVE  i = j
      <4>1. entries[f[i]].sourceIndex = entries[f[j]].sourceIndex /\ f[i] \in 1..n /\ f[j] \in 1..n
        BY <2>2, <2>3, <3>1
      <4>2. f[i] = f[j]
        BY <2>0, <4>1 DEF SourcesInv
      <4>3. QED
        BY <2>2, <4>2
    <3>2. ASSUME NEW j \in 1..Len(ranges)
          PROVE  \E i \in 1..n : entries'[i].sourceIndex = j
      <4>1. PICK k \in 1..n : entries[k].sourceIndex = j
        BY <2>0 DEF SourcesInv
      <4>2. PICK i \in 1..n : f[i] = k
        BY <2>2
      <4>3. QED
        BY <2>3, <4>1, <4>2
    <3>3. QED
      BY <2>0, <2>3, <3>1, <3>2 DEF SourcesInv
  <2>7. OrderInv'
    <3>1. \A i \in 1..n : entries'[i].start \in Int
      BY <2>2, <2>3, EntryFacts
    <3>2. \A i, j \in 1..n : i < j => entries'[i].start <= entries'[j].start
      BY <2>1, <3>1
    <3>3. \A i, j \in 1..n : ~(i < j /\ j < 2)
      BY <1>n
    <3>4. QED
      BY <2>0, <2>3, <3>2, <3>3 DEF OrderInv
  <2>8. SearchInv' /\ AcceptsExactlyWellFormed' /\ LookupExact'
    BY <2>0 DEF SearchInv, AcceptsExactlyWellFormed, LookupExact
  <2>9. QED
    BY <2>4, <2>5, <2>6, <2>7, <2>8
<1>5. CASE CheckNeighbours
  <2> USE <1>5 DEF CheckNeighbours, lookupVars
  <2>1. index - 1 \in 1..Len(entries) /\ index \in 1..Len(entries)
    BY <1>n DEF TypeOK, OrderInv
  <2> DEFINE p == entries[index - 1]
             c == entries[index]
  <2>2. /\ p.start \in Int /\ p.end \in Int /\ p.start < p.end
        /\ c.start \in Int /\ c.end \in Int /\ c.start < c.end
    BY <2>1, EntryFacts
  <2>3. LessEq(p.end, c.start) <=> p.end <= c.start
    BY <2>2, ValuesAssumption DEF LessEq
  <2>4. CASE p.end <= c.start
    <3>1. index' = index + 1 /\ pc' = pc /\ entries' = entries /\ ranges' = ranges
      BY <2>3, <2>4
    <3>2. TypeOK' /\ CopiesInv' /\ SourcesInv'
      BY <3>1, <2>4, <2>3 DEF TypeOK, CopiesInv, SourcesInv
    <3>3. ASSUME NEW i \in 1..Len(entries), NEW j \in 1..Len(entries), i < j, j < index + 1
          PROVE  entries[i].end <= entries[j].start
      <4>1. CASE j < index
        BY <3>3, <4>1 DEF OrderInv
      <4>2. CASE j = index /\ i = index - 1
        BY <2>4, <4>2
      <4>3. CASE j = index /\ i < index - 1
        <5>1. entries[i].end <= p.start
          BY <2>1, <4>3 DEF OrderInv, TypeOK
        <5>2. entries[i].end \in Int
          BY EntryFacts
        <5>3. QED
          BY <2>2, <2>4, <4>3, <5>1, <5>2
      <4>4. QED
        BY <3>3, <4>1, <4>2, <4>3 DEF TypeOK
    <3>4. OrderInv'
      BY <3>1, <3>3 DEF OrderInv, TypeOK
    <3>5. SearchInv' /\ AcceptsExactlyWellFormed' /\ LookupExact'
      BY <3>1 DEF SearchInv, AcceptsExactlyWellFormed, LookupExact
    <3>6. QED
      BY <3>2, <3>4, <3>5
  <2>5. CASE ~(p.end <= c.start)
    <3>1. pc' = "failed" /\ index' = index /\ entries' = entries /\ ranges' = ranges
      BY <2>3, <2>5
    <3>2. TypeOK' /\ CopiesInv' /\ SourcesInv' /\ OrderInv' /\ SearchInv'
      BY <3>1, <2>5, <2>3 DEF TypeOK, CopiesInv, SourcesInv, OrderInv, SearchInv
    <3>3. ~WellFormed
      <4>1. p.start <= c.start
        BY <2>1 DEF OrderInv, TypeOK
      <4>2. Less(p.start, c.end) /\ Less(c.start, p.end)
        BY <2>2, <2>5, <4>1, ValuesAssumption DEF Less
      <4>3. /\ p.sourceIndex \in DOMAIN ranges /\ c.sourceIndex \in DOMAIN ranges
            /\ p.start = ranges[p.sourceIndex].start /\ p.end = ranges[p.sourceIndex].end
            /\ c.start = ranges[c.sourceIndex].start /\ c.end = ranges[c.sourceIndex].end
        BY <2>1 DEF CopiesInv, TypeOK
      <4>4. p.sourceIndex # c.sourceIndex
        <5>1. index - 1 # index
          BY DEF TypeOK
        <5>2. QED
          BY <2>1, <5>1 DEF SourcesInv
      <4>5. QED
        BY <4>2, <4>3, <4>4 DEF WellFormed, Overlap
    <3>4. AcceptsExactlyWellFormed' /\ LookupExact'
      BY <3>1, <3>3 DEF AcceptsExactlyWellFormed, WellFormed, LookupExact
    <3>5. QED
      BY <3>2, <3>4
  <2>6. QED
    BY <2>4, <2>5
<1>6. CASE Accept
  <2> USE <1>6 DEF Accept, lookupVars
  <2>1. \A i, j \in 1..Len(entries) : i < j => entries[i].end <= entries[j].start
    BY <1>n DEF OrderInv, TypeOK
  <2>2. WellFormed
    BY <2>1, OrderedIsWellFormed
  <2>3. TypeOK' /\ CopiesInv' /\ SourcesInv' /\ OrderInv' /\ SearchInv'
    BY <2>1 DEF TypeOK, CopiesInv, SourcesInv, OrderInv, SearchInv
  <2>4. AcceptsExactlyWellFormed' /\ LookupExact'
    BY <2>2 DEF AcceptsExactlyWellFormed, WellFormed, LookupExact
  <2>5. QED
    BY <2>3, <2>4
<1>7. ASSUME NEW k \in Values, Resolve(k) PROVE IInv'
  <2> USE <1>7 DEF Resolve
  <2>a. TypeOK'
    BY <1>n DEF TypeOK
  <2>b. CopiesInv' /\ SourcesInv' /\ OrderInv'
    BY <1>n DEF CopiesInv, SourcesInv, OrderInv
  <2>1. TypeOK' /\ CopiesInv' /\ SourcesInv' /\ OrderInv'
    BY <2>a, <2>b
  <2>2. SearchInv'
    BY <1>n DEF SearchInv
  <2>3. AcceptsExactlyWellFormed' /\ LookupExact'
    BY DEF AcceptsExactlyWellFormed, WellFormed, LookupExact
  <2>4. QED
    BY <2>1, <2>2, <2>3
<1>8. CASE Search
  <2> USE <1>8 DEF Search, EndsAfter
  <2> DEFINE h == (lo + hi) \div 2
  <2>1. h \in Nat /\ lo <= h /\ h < hi /\ h + 1 \in 1..Len(entries)
    BY DEF TypeOK
  <2>2. \A i \in 1..Len(entries) : entries[i].end \in Int
    BY EntryFacts
  <2>3. \A i, j \in 1..Len(entries) : i < j => entries[i].end < entries[j].end
    <3>1. ASSUME NEW i \in 1..Len(entries), NEW j \in 1..Len(entries), i < j
          PROVE  entries[i].end < entries[j].end
      <4>1. entries[i].end <= entries[j].start
        BY <3>1 DEF OrderInv
      <4>2. QED
        BY <4>1, EntryFacts
    <3>2. QED
      BY <3>1
  <2>4. key = NaN \/ key \in Int
    BY ValuesAssumption DEF TypeOK
  <2>5. CASE Less(key, entries[h + 1].end)
    <3>1. hi' = h /\ lo' = lo
      BY <2>5
    <3>2. TypeOK'
      BY <2>1, <3>1 DEF TypeOK
    <3>3. ASSUME NEW i \in (h + 1)..Len(entries) PROVE Less(key, entries[i].end)
      <4>1. i = h + 1 \/ h + 1 < i
        BY <2>1
      <4>2. i \in 1..Len(entries)
        BY <2>1
      <4>3. QED
        BY <2>1, <2>2, <2>3, <2>4, <2>5, <4>1, <4>2, ValuesAssumption DEF Less
    <3>4. SearchInv'
      BY <3>1, <3>3 DEF SearchInv
    <3>5. CopiesInv' /\ SourcesInv' /\ OrderInv' /\ AcceptsExactlyWellFormed' /\ LookupExact'
      BY DEF CopiesInv, SourcesInv, OrderInv, AcceptsExactlyWellFormed, WellFormed, LookupExact
    <3>6. QED
      BY <3>2, <3>4, <3>5
  <2>6. CASE ~Less(key, entries[h + 1].end)
    <3>1. lo' = h + 1 /\ hi' = hi
      BY <2>6
    <3>2. TypeOK'
      BY <2>1, <3>1 DEF TypeOK
    <3>3. ASSUME NEW i \in 1..(h + 1) PROVE ~Less(key, entries[i].end)
      <4>1. i = h + 1 \/ i < h + 1
        BY <2>1
      <4>2. i \in 1..Len(entries)
        BY <2>1
      <4>3. QED
        BY <2>1, <2>2, <2>3, <2>4, <2>6, <4>1, <4>2, ValuesAssumption DEF Less
    <3>4. SearchInv'
      BY <3>1, <3>3 DEF SearchInv
    <3>5. CopiesInv' /\ SourcesInv' /\ OrderInv' /\ AcceptsExactlyWellFormed' /\ LookupExact'
      BY DEF CopiesInv, SourcesInv, OrderInv, AcceptsExactlyWellFormed, WellFormed, LookupExact
    <3>6. QED
      BY <3>2, <3>4, <3>5
  <2>7. QED
    BY <2>5, <2>6
<1>9. CASE Answer
  <2> USE <1>9 DEF Answer
  <2>1. lo = hi /\ lo \in Nat /\ lo <= Len(entries)
    BY DEF TypeOK
  <2>2. lo < Len(entries) => lo + 1 \in 1..Len(entries)
    BY <2>1, <1>n
  <2>3. TypeOK'
    BY <2>1, <2>2, EntryFacts DEF TypeOK
  <2>4. CopiesInv' /\ SourcesInv' /\ OrderInv' /\ SearchInv' /\ AcceptsExactlyWellFormed'
    BY DEF CopiesInv, SourcesInv, OrderInv, SearchInv, AcceptsExactlyWellFormed, WellFormed
  <2>5. LookupExact'
    BY AnswerExact DEF LookupExact
  <2>6. QED
    BY <2>3, <2>4, <2>5
<1>10. CASE RequireTopology
  <2> USE <1>10 DEF RequireTopology, lookupVars
  <2>1. TypeOK' /\ CopiesInv' /\ SourcesInv'
    BY DEF TypeOK, CopiesInv, SourcesInv
  <2>2. OrderInv' /\ SearchInv' /\ AcceptsExactlyWellFormed' /\ LookupExact'
    BY DEF OrderInv, SearchInv, AcceptsExactlyWellFormed, LookupExact
  <2>3. QED
    BY <2>1, <2>2
<1>11. CASE UNCHANGED vars
  BY <1>11 DEF vars, TypeOK, CopiesInv, SourcesInv, OrderInv, SearchInv, AcceptsExactlyWellFormed,
     WellFormed, LookupExact
<1>12. QED
  BY <1>1, <1>2, <1>3, <1>4, <1>5, <1>6, <1>7, <1>8, <1>9, <1>10, <1>11
     DEF Next, ResolveUninitialised

\* IInv holds in every reachable state.
THEOREM InductiveInvariant == Spec => []IInv
  BY InitIInv, NextIInv, PTL DEF Spec

-----------------------------------------------------------------------------
(* The properties. *)

\* The search never probes outside the entries.
THEOREM TypeCorrect == Spec => []TypeOK
  BY InductiveInvariant, PTL DEF IInv

\* NewRange accepts the lists of valid, pairwise disjoint ranges and no other,
\* for every length and order of the list.
THEOREM AcceptanceIsExact == Spec => []AcceptsExactlyWellFormed
  BY InductiveInvariant, PTL DEF IInv

\* Resolve agrees with the caller's ranges on every key.
THEOREM LookupIsExact == Spec => []LookupExact
  BY InductiveInvariant, PTL DEF IInv
===============================================================================
