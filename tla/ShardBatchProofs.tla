--------------------------- MODULE ShardBatchProofs ---------------------------
(***************************************************************************)
(* Proofs about Grouping and ShardBatch for any number of keys and shards  *)
(* and any answers of the resolve function: what the three functions       *)
(* return, and what their callers may rely on.                             *)
(***************************************************************************)
EXTENDS ShardBatch, FiniteSetTheorems, TLAPS

-----------------------------------------------------------------------------
(* The inductive invariant of the grouping. *)

TypeOK ==
    /\ op \in Operations
    /\ answers \in Seq(Answers)
    /\ pc \in {"resolve", "done", "failed"}
    /\ index \in 1..(n + 1)
    /\ expected \in Shards \cup {NoShard}
    /\ groups \in Seq([shard : Shards, keys : Seq(1..n)])
    /\ DOMAIN indexByID \subseteq Shards
    /\ unresolved \in Seq(1..n)
    /\ failure \in 0..n

\* The keys before the next one whose answer is a.
Before(a) == {k \in 1..(index - 1) : answers[k] = a}

\* The keys before index were not fatal, and SameShard has compared them with the first.
PassOK ==
    /\ pc # "failed" => \A k \in 1..(index - 1) : ~Fatal(k)
    /\ op = "SameShard" =>
          /\ groups = <<>> /\ unresolved = <<>>
          /\ index > 1 => expected = answers[1] /\ expected \in Shards
    /\ pc = "done" => index = n + 1 /\ (op = "SameShard" => n > 0)
    /\ pc = "failed" =>
          /\ groups = <<>> /\ unresolved = <<>>
          /\ failure = 0 => op = "SameShard" /\ n = 0
          /\ failure # 0 => Fatal(failure) /\ \A k \in 1..(failure - 1) : ~Fatal(k)

\* A group lists the keys of its shard so far, and is the one the index leads to.
GroupOK(g) ==
    /\ groups[g].keys # <<>>
    /\ Lists(groups[g].keys, Before(groups[g].shard))
    /\ groups[g].shard \in DOMAIN indexByID
    /\ indexByID[groups[g].shard] = g

\* The index leads to a group for every shard seen so far, and to no other.
IndexOK ==
    /\ \A s \in DOMAIN indexByID :
          indexByID[s] \in DOMAIN groups /\ groups[indexByID[s]].shard = s
    /\ \A k \in 1..(index - 1) : answers[k] \in Shards => answers[k] \in DOMAIN indexByID

\* Groups are in the order of their first keys.
OrderOK ==
    \A g, h \in DOMAIN groups : g < h => groups[g].keys[1] < groups[h].keys[1]

GroupsOK ==
    pc # "failed" /\ op # "SameShard" =>
        /\ \A g \in DOMAIN groups : GroupOK(g)
        /\ IndexOK
        /\ OrderOK
        /\ Lists(unresolved, Before(NoShard))

GroupingInv == TypeOK /\ PassOK /\ GroupsOK

-----------------------------------------------------------------------------
(* Operators. *)

\* The sequences of the state.
LEMMA TypeFacts ==
    ASSUME TypeOK
    PROVE  /\ n \in Nat /\ index \in Nat
           /\ groups \in Seq([shard : Shards, keys : Seq(1..n)])
           /\ Len(groups) \in Nat /\ DOMAIN groups = 1..Len(groups)
           /\ \A g \in DOMAIN groups :
                 /\ groups[g] \in [shard : Shards, keys : Seq(1..n)]
                 /\ groups[g].shard \in Shards
                 /\ groups[g].keys \in Seq(1..n)
<1>1. n \in Nat
  BY DEF TypeOK, n
<1>2. groups \in Seq([shard : Shards, keys : Seq(1..n)])
  BY DEF TypeOK
<1>3. Len(groups) \in Nat /\ DOMAIN groups = 1..Len(groups)
  BY <1>2
<1>4. \A g \in DOMAIN groups : groups[g] \in [shard : Shards, keys : Seq(1..n)]
  <2> DEFINE R == [shard : Shards, keys : Seq(1..n)]
  <2>1. groups \in Seq(R)
    BY <1>2
  <2> HIDE DEF R
  <2>2. \A g \in DOMAIN groups : groups[g] \in R
    BY <1>3, <2>1
  <2>3. QED
    BY <2>2 DEF R
<1>5. QED
  BY <1>1, <1>2, <1>3, <1>4 DEF TypeOK

\* What Resolve makes of the answer for a key.
LEMMA ResolveFacts ==
    ASSUME answers \in Seq(Answers), NEW k \in 1..n
    PROVE  /\ Resolve(k) \in Shards <=> answers[k] \in Shards
           /\ Resolve(k) \in Shards => Resolve(k) = answers[k]
           /\ Resolve(k) = NoShard <=> answers[k] = NoShard
           /\ Resolve(k) = OtherError <=> answers[k] \in UnknownIDs \cup {OtherError}
           /\ Resolve(k) \in Shards \cup {NoShard, OtherError}
<1>1. answers[k] \in Answers
  BY DEF n
<1>2. QED
  BY <1>1, ErrorsAssumption, UnknownAssumption DEF Resolve, Answers

\* A list stays one when the next position is appended.
LEMMA ListsAppend ==
    ASSUME NEW m \in Nat, NEW keys \in Seq(1..m), NEW S, Lists(keys, S),
           NEW k \in 1..m, \A j \in S : j \in 1..(k - 1)
    PROVE  /\ Lists(Append(keys, k), S \cup {k})
           /\ Append(keys, k) \in Seq(1..m)
           /\ keys # <<>> => Append(keys, k)[1] = keys[1]
<1> DEFINE new == Append(keys, k)
<1>1. /\ new \in Seq(1..m)
      /\ DOMAIN new = 1..(Len(keys) + 1) /\ DOMAIN keys = 1..Len(keys) /\ Len(keys) \in Nat
      /\ \A i \in 1..Len(keys) : new[i] = keys[i]
      /\ new[Len(keys) + 1] = k
      /\ keys # <<>> => 1 \in 1..Len(keys)
  OBVIOUS
<1> HIDE DEF new
<1>2. ASSUME NEW i \in DOMAIN new
      PROVE  new[i] \in S \cup {k}
  <2>1. CASE i \in 1..Len(keys)
    BY <1>1, <2>1 DEF Lists
  <2>2. CASE i = Len(keys) + 1
    BY <1>1, <2>2
  <2>3. QED
    BY <1>1, <2>1, <2>2
<1>3. \A j \in S \cup {k} : \E i \in DOMAIN new : new[i] = j
  BY <1>1 DEF Lists
<1>4. \A i, j \in DOMAIN new : i < j => new[i] < new[j]
  <2> SUFFICES ASSUME NEW i \in DOMAIN new, NEW j \in DOMAIN new, i < j
               PROVE  new[i] < new[j]
    OBVIOUS
  <2>1. i \in 1..Len(keys) /\ new[i] = keys[i] /\ keys[i] \in S
    BY <1>1 DEF Lists
  <2>2. CASE j \in 1..Len(keys)
    BY <1>1, <2>1, <2>2 DEF Lists
  <2>3. CASE j = Len(keys) + 1
    BY <1>1, <2>1, <2>3
  <2>4. QED
    BY <1>1, <2>2, <2>3
<1>5. QED
  BY <1>1, <1>2, <1>3, <1>4 DEF Lists, new

\* The list of one position, and of none.
LEMMA ListsNew ==
    ASSUME NEW m \in Nat, NEW k \in 1..m
    PROVE  /\ Lists(<<k>>, {k}) /\ <<k>> \in Seq(1..m) /\ <<k>> # <<>> /\ <<k>>[1] = k
           /\ Lists(<<>>, {})
  BY DEF Lists

\* Of the keys before the next one those with its answer grow by it, the other ones
\* do not.
LEMMA BeforeGrows ==
    ASSUME TypeOK, index \in 1..n, UNCHANGED answers, index' = index + 1, NEW a
    PROVE  /\ a = answers[index] => Before(a)' = Before(a) \cup {index}
           /\ a # answers[index] => Before(a)' = Before(a)
           /\ \A j \in Before(a) : j \in 1..(index - 1)
  BY DEF TypeOK, Before, n

-----------------------------------------------------------------------------
(* The grouping. *)

\* The invariant holds before the first key.
LEMMA GroupingInitInv == GroupingInit => GroupingInv
<1> SUFFICES ASSUME GroupingInit PROVE GroupingInv
  OBVIOUS
<1>1. PICK m \in 0..MaxKeys : answers \in [1..m -> Answers]
  BY DEF GroupingInit
<1>2. answers \in Seq(Answers) /\ n = m /\ m \in Nat
  BY <1>1, MaxKeysAssumption DEF n
<1>3. TypeOK
  BY <1>2 DEF GroupingInit, TypeOK
<1>4. PassOK
  BY <1>2 DEF GroupingInit, PassOK
<1>5. GroupsOK
  <2>1. groups = <<>> /\ DOMAIN groups = {} /\ DOMAIN indexByID = {} /\ index = 1
        /\ unresolved = <<>> /\ DOMAIN unresolved = {}
    BY DEF GroupingInit
  <2>2. \A a : Before(a) = {}
    BY <2>1 DEF Before
  <2>3. QED
    BY <2>1, <2>2 DEF GroupsOK, IndexOK, OrderOK, Lists
<1>6. QED
  BY <1>3, <1>4, <1>5 DEF GroupingInv

\* The call fails for the key it is at, or for want of keys: the keys before were fine.
LEMMA FailInv ==
    ASSUME GroupingInv, ResolveFails \/ NoKeys
    PROVE  GroupingInv'
<1> USE DEF GroupingInv
<1>1. n \in Nat /\ n' = n
  BY DEF TypeOK, n, ResolveFails, NoKeys
<1>2. TypeOK'
  <2>1. /\ op' = op /\ answers' = answers /\ index' = index /\ expected' = expected
        /\ indexByID' = indexByID /\ pc' = "failed" /\ failure' \in 0..n
        /\ groups' = <<>> /\ unresolved' = <<>>
    BY <1>1 DEF TypeOK, ResolveFails, NoKeys, More, Fail
  <2>2. <<>> \in Seq([shard : Shards, keys : Seq(1..n)]) /\ <<>> \in Seq(1..n)
    OBVIOUS
  <2>3. QED
    BY <1>1, <2>1, <2>2 DEF TypeOK
<1>3. PassOK'
  <2>1. CASE ResolveFails
    <3>1. /\ index \in 1..n /\ pc = "resolve" /\ failure' = index /\ pc' = "failed"
          /\ groups' = <<>> /\ unresolved' = <<>>
          /\ op' = op /\ answers' = answers /\ index' = index /\ expected' = expected
      BY <2>1, <1>1 DEF ResolveFails, More, Fail, TypeOK
    <3>2. Fatal(index)
      BY <2>1, <3>1, ResolveFacts DEF ResolveFails, Fatal, TypeOK
    <3>3. \A k \in 1..(index - 1) : ~Fatal(k)
      BY <3>1 DEF PassOK
    <3>4. QED
      BY <1>1, <3>1, <3>2, <3>3 DEF PassOK, Fatal
  <2>2. CASE NoKeys
    BY <1>1, <2>2 DEF NoKeys, Fail, PassOK, Fatal, TypeOK
  <2>3. QED
    BY <2>1, <2>2
<1>4. GroupsOK'
  BY DEF GroupsOK, ResolveFails, NoKeys, Fail
<1>5. QED
  BY <1>2, <1>3, <1>4

\* SameShard: the shard of the first key, and the comparison of the other ones with it.
LEMMA SameShardInv ==
    ASSUME GroupingInv, FirstKey \/ NextKey
    PROVE  GroupingInv'
<1> USE DEF GroupingInv
<1>1. /\ n \in Nat /\ n' = n /\ op = "SameShard" /\ op' = op /\ answers' = answers
      /\ index \in 1..n /\ pc = "resolve"
  BY DEF TypeOK, n, FirstKey, NextKey, More
<1>2. TypeOK'
  <2>1. /\ index' \in 1..(n + 1) /\ expected' \in Shards \cup {NoShard}
        /\ indexByID' = indexByID /\ pc' \in {"resolve", "failed"} /\ failure' \in 0..n
        /\ groups' = groups \/ groups' = <<>>
        /\ unresolved' = unresolved \/ unresolved' = <<>>
    BY <1>1 DEF TypeOK, FirstKey, NextKey, Fail, Advance
  <2>2. <<>> \in Seq([shard : Shards, keys : Seq(1..n)]) /\ <<>> \in Seq(1..n)
    OBVIOUS
  <2>3. QED
    BY <1>1, <2>1, <2>2 DEF TypeOK
<1>3. PassOK'
  <2>1. /\ Resolve(index) \in Shards
        /\ answers[index] = Resolve(index)
        /\ groups = <<>> /\ unresolved = <<>>
        /\ \A k \in 1..(index - 1) : ~Fatal(k)
    BY <1>1, ResolveFacts DEF FirstKey, NextKey, TypeOK, PassOK
  <2>2. CASE FirstKey
    <3>1. /\ index = 1 /\ index' = 2 /\ expected' = answers[1] /\ pc' = pc
          /\ groups' = groups /\ unresolved' = unresolved
      BY <2>1, <2>2 DEF FirstKey, Advance
    <3>2. ~Fatal(1)
      BY <1>1, <2>1, <3>1, ErrorsAssumption, UnknownAssumption DEF Fatal
    <3>3. QED
      BY <1>1, <2>1, <3>1, <3>2 DEF PassOK, Fatal
  <2>3. CASE NextKey /\ Resolve(index) = expected
    <3>1. /\ index > 1 /\ index' = index + 1 /\ expected = answers[1] /\ pc' = pc
          /\ groups' = groups /\ unresolved' = unresolved /\ expected' = expected
      BY <1>1, <2>1, <2>3 DEF NextKey, Advance, PassOK
    <3>2. ~Fatal(index)
      BY <1>1, <2>1, <2>3, <3>1, ErrorsAssumption, UnknownAssumption DEF Fatal
    <3>3. \A k \in 1..(index' - 1) : k \in 1..(index - 1) \/ k = index
      BY <1>1, <3>1
    <3>4. QED
      BY <1>1, <2>1, <2>3, <3>1, <3>2, <3>3 DEF PassOK, Fatal
  <2>4. CASE NextKey /\ Resolve(index) # expected
    <3>1. /\ index > 1 /\ index' = index /\ expected = answers[1] /\ pc' = "failed"
          /\ failure' = index /\ groups' = <<>> /\ unresolved' = <<>> /\ expected' = expected
      BY <1>1, <2>4 DEF NextKey, Fail, PassOK
    <3>2. Fatal(index)
      BY <1>1, <2>1, <2>4, <3>1 DEF Fatal
    <3>3. QED
      BY <1>1, <2>1, <2>4, <3>1, <3>2 DEF PassOK, Fatal
  <2>5. QED
    BY <2>2, <2>3, <2>4
<1>4. GroupsOK'
  BY <1>1 DEF GroupsOK
<1>5. QED
  BY <1>2, <1>3, <1>4

\* The pass goes on after a key that is not fatal.
LEMMA PassGoesOn ==
    ASSUME GroupingInv, index \in 1..n, pc = "resolve", op # "SameShard", ~Fatal(index),
           index' = index + 1, UNCHANGED <<op, answers, pc, expected, failure>>
    PROVE  PassOK'
<1>1. \A k \in 1..(index' - 1) : k \in 1..(index - 1) \/ k = index
  BY DEF TypeOK, GroupingInv
<1>2. QED
  BY <1>1 DEF GroupingInv, PassOK, Fatal, n

\* A key goes to the group of its shard, which is new for the first of the shard.
LEMMA AddKeyInv ==
    ASSUME GroupingInv, AddKeyToGroup
    PROVE  GroupingInv'
<1>1. TypeOK /\ PassOK /\ GroupsOK
  BY DEF GroupingInv
<1>2. /\ n \in Nat /\ n' = n /\ op # "SameShard" /\ op' = op /\ answers' = answers
      /\ index \in 1..n /\ pc = "resolve" /\ pc' = pc /\ index' = index + 1
      /\ expected' = expected /\ unresolved' = unresolved /\ failure' = failure
  BY <1>1, TypeFacts DEF TypeOK, n, AddKeyToGroup, More, Advance
<1>3. PICK s \in Shards : s = Resolve(index)
  BY DEF AddKeyToGroup
<1>4. answers[index] = s /\ s # NoShard /\ ~Fatal(index)
  BY <1>1, <1>2, <1>3, ResolveFacts, ErrorsAssumption, UnknownAssumption
     DEF AddKeyToGroup, TypeOK, Fatal
<1>5. PassOK'
  BY <1>2, <1>4, PassGoesOn
<1>6. /\ \A a : a # s => Before(a)' = Before(a)
      /\ Before(s)' = Before(s) \cup {index}
      /\ \A j \in Before(s) : j \in 1..(index - 1)
  <2>1. ASSUME NEW a PROVE a # s => Before(a)' = Before(a)
    BY <1>1, <1>2, <1>4, BeforeGrows
  <2>2. QED
    BY <1>1, <1>2, <1>4, <2>1, BeforeGrows
<1>7. Lists(unresolved', Before(NoShard)')
  BY <1>1, <1>2, <1>4, <1>6 DEF GroupsOK
<1>8. /\ \A g \in DOMAIN groups : GroupOK(g)
      /\ IndexOK /\ OrderOK
  BY <1>1, <1>2 DEF GroupsOK
<1>9. \A k \in 1..(index' - 1) : k \in 1..(index - 1) \/ k = index
  BY <1>2
<1>10. CASE s \in DOMAIN indexByID
  <2>1. PICK g \in DOMAIN groups : g = indexByID[s] /\ groups[g].shard = s
    BY <1>8, <1>10 DEF IndexOK
  <2>2. PICK new : new = Append(groups[g].keys, index)
    OBVIOUS
  <2>3. groups[g].keys \in Seq(1..n)
    BY <1>1, TypeFacts
  <2>4. Lists(groups[g].keys, Before(s)) /\ groups[g].keys # <<>>
    BY <1>8, <2>1 DEF GroupOK
  <2>5. /\ Lists(new, Before(s) \cup {index}) /\ new \in Seq(1..n)
        /\ new[1] = groups[g].keys[1] /\ new # <<>>
    <3>1. ASSUME NEW m \in Nat, NEW keys \in Seq(1..m), NEW S, Lists(keys, S),
                 NEW k \in 1..m, \A j \in S : j \in 1..(k - 1), keys # <<>>
          PROVE  /\ Lists(Append(keys, k), S \cup {k})
                 /\ Append(keys, k) \in Seq(1..m)
                 /\ Append(keys, k)[1] = keys[1]
      BY ONLY <3>1, ListsAppend
    <3>2. \A j \in Before(s) : j \in 1..(index - 1)
      BY <1>6
    <3>3. /\ Lists(new, Before(s) \cup {index}) /\ new \in Seq(1..n)
          /\ new[1] = groups[g].keys[1]
      BY <1>2, <2>2, <2>3, <2>4, <3>1, <3>2
    <3>4. new # <<>>
      BY <2>2, <2>3
    <3>5. QED
      BY <3>3, <3>4
  <2>6. /\ indexByID' = indexByID
        /\ groups' = [groups EXCEPT ![g].keys = new]
    BY <1>3, <1>10, <2>1, <2>2 DEF AddKeyToGroup
  <2>7. /\ groups \in Seq([shard : Shards, keys : Seq(1..n)])
        /\ [groups[g] EXCEPT !.keys = new] \in [shard : Shards, keys : Seq(1..n)]
        /\ [groups[g] EXCEPT !.keys = new].keys = new
        /\ [groups[g] EXCEPT !.keys = new].shard = s
    BY <1>1, <2>1, <2>5, TypeFacts
  <2>8. /\ DOMAIN groups' = DOMAIN groups
        /\ \A h \in DOMAIN groups : h # g => groups'[h] = groups[h]
        /\ groups'[g] = [groups[g] EXCEPT !.keys = new]
        /\ groups' \in Seq([shard : Shards, keys : Seq(1..n)])
    BY <2>1, <2>6, <2>7
  <2>9. TypeOK'
    BY <1>1, <1>2, <2>6, <2>8 DEF TypeOK
  <2>10. ASSUME NEW h \in DOMAIN groups
         PROVE  GroupOK(h)' /\ groups'[h].keys[1] = groups[h].keys[1]
                /\ groups'[h].shard = groups[h].shard
    <3>1. CASE h = g
      <4>1. groups'[g].keys = new /\ groups'[g].shard = s
        BY <2>7, <2>8
      <4>2. QED
        BY <1>6, <1>10, <2>1, <2>5, <2>6, <3>1, <4>1 DEF GroupOK
    <3>2. CASE h # g
      <4>1. GroupOK(h) /\ groups'[h] = groups[h]
        BY <1>8, <2>8, <3>2
      <4>2. PICK r : r = groups[h].shard
        OBVIOUS
      <4>3. r # s /\ Before(r)' = Before(r)
        BY <1>6, <2>1, <3>2, <4>1, <4>2 DEF GroupOK
      <4>4. Before(groups[h].shard)' = Before(groups[h].shard)
        BY <1>2, <4>1, <4>2, <4>3 DEF Before
      <4>5. QED
        BY <2>6, <4>1, <4>4 DEF GroupOK
    <3>3. QED
      BY <3>1, <3>2
  <2>11. IndexOK'
    BY <1>2, <1>4, <1>8, <1>9, <1>10, <2>6, <2>8, <2>10 DEF IndexOK
  <2>12. OrderOK'
    BY <1>8, <2>8, <2>10 DEF OrderOK
  <2>13. QED
    BY <1>5, <1>7, <2>8, <2>9, <2>10, <2>11, <2>12 DEF GroupingInv, GroupsOK
<1>11. CASE s \notin DOMAIN indexByID
  <2>1. PICK m \in Nat : m = Len(groups)
    BY <1>1, TypeFacts
  <2>2. PICK new : new = [shard |-> s, keys |-> <<index>>]
    OBVIOUS
  <2>3. /\ groups' = Append(groups, new)
        /\ indexByID' = [r \in DOMAIN indexByID \cup {s} |->
                            IF r = s THEN m + 1 ELSE indexByID[r]]
    BY <1>3, <1>11, <2>1, <2>2 DEF AddKeyToGroup
  <2>4. Before(s) = {}
    BY <1>8, <1>11 DEF IndexOK, Before
  <2>5. Lists(<<index>>, Before(s)') /\ <<index>> \in Seq(1..n) /\ <<index>> # <<>>
        /\ <<index>>[1] = index
    BY <1>2, <1>6, <2>4, ListsNew
  <2>6. /\ groups \in Seq([shard : Shards, keys : Seq(1..n)])
        /\ new \in [shard : Shards, keys : Seq(1..n)]
        /\ new.shard = s /\ new.keys = <<index>>
    BY <1>1, <2>2, <2>5, TypeFacts
  <2>7. /\ DOMAIN groups = 1..m /\ DOMAIN groups' = 1..(m + 1)
        /\ \A h \in 1..m : groups'[h] = groups[h]
        /\ groups'[m + 1] = new
        /\ groups' \in Seq([shard : Shards, keys : Seq(1..n)])
    BY <2>1, <2>3, <2>6
  <2>8. \A h \in 1..(m + 1) : h \in 1..m \/ h = m + 1
    BY <2>1
  <2>9. /\ DOMAIN indexByID' = DOMAIN indexByID \cup {s} /\ indexByID'[s] = m + 1
        /\ \A r \in DOMAIN indexByID : indexByID'[r] = indexByID[r]
    BY <1>11, <2>3
  <2>10. TypeOK'
    BY <1>1, <1>2, <2>7, <2>9 DEF TypeOK
  <2>11. ASSUME NEW h \in 1..m
         PROVE  GroupOK(h)' /\ groups[h].keys[1] \in 1..(index - 1)
    <3>1. GroupOK(h) /\ groups'[h] = groups[h] /\ groups[h].keys \in Seq(1..n)
      BY <1>1, <1>8, <2>7, TypeFacts
    <3>2. PICK r : r = groups[h].shard
      OBVIOUS
    <3>3. r # s /\ Before(r)' = Before(r)
      BY <1>6, <1>11, <3>1, <3>2 DEF GroupOK
    <3>4. Before(groups[h].shard)' = Before(groups[h].shard)
      BY <1>2, <3>1, <3>2, <3>3 DEF Before
    <3>5. GroupOK(h)'
      BY <2>9, <3>1, <3>4 DEF GroupOK
    <3>6. groups[h].keys[1] \in Before(groups[h].shard)
      BY <3>1 DEF GroupOK, Lists
    <3>7. QED
      BY <3>5, <3>6 DEF Before
  <2>12. GroupOK(m + 1)'
    <3>1. groups'[m + 1].shard = s /\ groups'[m + 1].keys = <<index>>
      BY <2>6, <2>7
    <3>2. QED
      BY <2>5, <2>9, <3>1 DEF GroupOK
  <2>13. IndexOK'
    <3>1. ASSUME NEW r \in DOMAIN indexByID'
          PROVE  indexByID'[r] \in DOMAIN groups' /\ groups'[indexByID'[r]].shard = r
      <4>1. CASE r = s
        BY <2>1, <2>6, <2>7, <2>9, <4>1
      <4>2. CASE r # s
        BY <1>8, <2>1, <2>7, <2>9, <4>2 DEF IndexOK
      <4>3. QED
        BY <4>1, <4>2
    <3>2. \A k \in 1..(index' - 1) : answers[k] \in Shards => answers[k] \in DOMAIN indexByID'
      BY <1>4, <1>8, <1>9, <2>9 DEF IndexOK
    <3>3. QED
      BY <1>2, <3>1, <3>2 DEF IndexOK
  <2>14. OrderOK'
    <3> SUFFICES ASSUME NEW g \in 1..(m + 1), NEW h \in 1..(m + 1), g < h
                 PROVE  groups'[g].keys[1] < groups'[h].keys[1]
      BY <2>7 DEF OrderOK
    <3>1. g \in 1..m /\ groups'[g] = groups[g]
      BY <2>1, <2>7
    <3>2. CASE h \in 1..m
      BY <1>8, <2>7, <3>1, <3>2 DEF OrderOK
    <3>3. CASE h = m + 1
      <4>1. groups'[h].keys[1] = index
        BY <2>5, <2>6, <2>7, <3>3
      <4>2. groups[g].keys[1] \in 1..(index - 1)
        BY <2>11, <3>1
      <4>3. QED
        BY <1>2, <3>1, <4>1, <4>2
    <3>4. QED
      BY <2>8, <3>2, <3>3
  <2>15. \A h \in DOMAIN groups' : GroupOK(h)'
    BY <2>7, <2>8, <2>11, <2>12
  <2>16. QED
    BY <1>5, <1>7, <2>10, <2>13, <2>14, <2>15 DEF GroupingInv, GroupsOK
<1>12. QED
  BY <1>10, <1>11

\* PartitionByShard sets a key without a shard aside.
LEMMA SetAsideInv ==
    ASSUME GroupingInv, SetAside
    PROVE  GroupingInv'
<1>1. TypeOK /\ PassOK /\ GroupsOK
  BY DEF GroupingInv
<1>2. /\ n \in Nat /\ n' = n /\ op = "PartitionByShard" /\ op' = op /\ answers' = answers
      /\ index \in 1..n /\ pc = "resolve" /\ pc' = pc /\ index' = index + 1
      /\ expected' = expected /\ groups' = groups /\ indexByID' = indexByID
      /\ failure' = failure /\ unresolved' = Append(unresolved, index)
  BY <1>1 DEF TypeOK, n, SetAside, More, Advance
<1>3. answers[index] = NoShard /\ ~Fatal(index)
  BY <1>1, <1>2, ResolveFacts, ErrorsAssumption, UnknownAssumption
     DEF SetAside, TypeOK, Fatal
<1>4. PassOK'
  BY <1>2, <1>3, PassGoesOn
<1>5. /\ \A a : a # NoShard => Before(a)' = Before(a)
      /\ Before(NoShard)' = Before(NoShard) \cup {index}
      /\ \A j \in Before(NoShard) : j \in 1..(index - 1)
  BY <1>1, <1>2, <1>3, BeforeGrows
<1>6. Lists(unresolved', Before(NoShard)') /\ unresolved' \in Seq(1..n)
  BY <1>1, <1>2, <1>5, ListsAppend DEF GroupsOK, TypeOK
<1>7. TypeOK'
  BY <1>1, <1>2, <1>6 DEF TypeOK
<1>8. GroupsOK'
  <2>1. /\ \A g \in DOMAIN groups : GroupOK(g)
        /\ IndexOK /\ OrderOK
    BY <1>1, <1>2 DEF GroupsOK
  <2>2. ASSUME NEW g \in DOMAIN groups
        PROVE  GroupOK(g)'
    <3>1. PICK r : r = groups[g].shard
      OBVIOUS
    <3>2. r # NoShard /\ Before(r)' = Before(r)
      BY <1>1, <1>5, <3>1, TypeFacts, ErrorsAssumption
    <3>3. Before(groups[g].shard)' = Before(groups[g].shard)
      BY <1>2, <3>1, <3>2 DEF Before
    <3>4. QED
      BY <1>2, <2>1, <3>3 DEF GroupOK
  <2>3. \A k \in 1..(index' - 1) : k \in 1..(index - 1) \/ k = index
    BY <1>2
  <2>4. IndexOK'
    BY <1>2, <1>3, <2>1, <2>3, ErrorsAssumption DEF IndexOK
  <2>5. OrderOK'
    BY <1>2, <2>1 DEF OrderOK
  <2>6. QED
    BY <1>2, <1>6, <2>2, <2>4, <2>5 DEF GroupsOK
<1>9. QED
  BY <1>4, <1>7, <1>8 DEF GroupingInv

\* The pass is over.
LEMMA FinishInv ==
    ASSUME GroupingInv, Finish
    PROVE  GroupingInv'
<1>1. n \in Nat /\ n' = n /\ index = n + 1
  BY TypeFacts DEF GroupingInv, TypeOK, n, Finish
<1>2. TypeOK'
  BY <1>1 DEF GroupingInv, TypeOK, Finish
<1>3. PassOK'
  BY <1>1 DEF GroupingInv, TypeOK, PassOK, Fatal, Finish
<1>4. GroupsOK'
  <2>1. /\ UNCHANGED <<op, answers, index, groups, indexByID, unresolved>>
        /\ pc # "failed" /\ pc' # "failed"
    BY DEF Finish
  <2>2. CASE op = "SameShard"
    BY <2>1, <2>2 DEF GroupsOK
  <2>3. CASE op # "SameShard"
    <3>1. (\A g \in DOMAIN groups : GroupOK(g)) /\ IndexOK /\ OrderOK
          /\ Lists(unresolved, Before(NoShard))
      BY <2>1, <2>3 DEF GroupingInv, GroupsOK
    <3>2. \A g \in DOMAIN groups' : GroupOK(g)'
      BY <2>1, <3>1 DEF GroupOK, Before
    <3>3. IndexOK' /\ OrderOK' /\ Lists(unresolved', Before(NoShard)')
      BY <2>1, <3>1 DEF IndexOK, OrderOK, Before
    <3>4. QED
      BY <2>1, <3>2, <3>3 DEF GroupsOK
  <2>4. QED
    BY <2>2, <2>3
<1>5. QED
  BY <1>2, <1>3, <1>4 DEF GroupingInv

\* Every step of the grouping preserves its invariant.
LEMMA GroupingStepInv ==
    ASSUME GroupingInv, GroupingNext \/ UNCHANGED groupingVars
    PROVE  GroupingInv'
<1>1. CASE UNCHANGED groupingVars
  <2>1. TypeOK'
    BY <1>1 DEF groupingVars, GroupingInv, TypeOK, n
  <2>2. PassOK'
    BY <1>1 DEF groupingVars, GroupingInv, PassOK, Fatal, n
  <2>3. GroupsOK'
    BY <1>1 DEF groupingVars, GroupingInv, GroupsOK, GroupOK, IndexOK, OrderOK, Before
  <2>4. QED
    BY <2>1, <2>2, <2>3 DEF GroupingInv
<1>2. QED
  BY <1>1, FailInv, SameShardInv, AddKeyInv, SetAsideInv, FinishInv DEF GroupingNext

-----------------------------------------------------------------------------
(* What the functions of the grouping return. *)

\* The state of module Grouping only changes by its own steps.
LEMMA GroupingInvariant == Spec => []GroupingInv
<1>1. Init => GroupingInv
  BY GroupingInitInv DEF Init
<1>2. GroupingInv /\ [Next]_vars => GroupingInv'
  <2> SUFFICES ASSUME GroupingInv, [Next]_vars PROVE GroupingInv'
    OBVIOUS
  <2>1. GroupingNext \/ UNCHANGED groupingVars
    BY DEF Next, vars, Group, GroupingFails, ShowShardMismatch, NoPrimary, ExecGroup,
       ExecGroupFails, ExecutedLate, QueryGroup, QueryGroupFails, EndOfLoop, Update, CommitTx,
       ApplyTx, TxReturns, InTx, Returned
  <2>2. QED
    BY <2>1, GroupingStepInv
<1>3. QED
  BY <1>1, <1>2, PTL DEF Spec

\* When the pass is over, all keys are before the next one.
LEMMA AllBefore ==
    ASSUME TypeOK, index = n + 1, NEW a
    PROVE  Before(a) = KeysOf(a)
  BY TypeFacts DEF Before, KeysOf

\* No key is lost, duplicated or put into the group of another shard, for any number of
\* keys and any answers of the resolve function.
THEOREM ExactGroups == Spec => []GroupsExact
<1>1. ASSUME GroupingInv, pc = "done", op # "SameShard"
      PROVE  GroupsExact
  <2>1. TypeOK /\ PassOK /\ index = n + 1 /\ index - 1 = n
    BY <1>1, TypeFacts DEF GroupingInv, PassOK
  <2>2. (\A g \in DOMAIN groups : GroupOK(g)) /\ IndexOK /\ OrderOK
        /\ Lists(unresolved, Before(NoShard))
    BY <1>1 DEF GroupingInv, GroupsOK
  <2>3. ASSUME NEW g \in DOMAIN groups
        PROVE  groups[g].keys # <<>> /\ Lists(groups[g].keys, KeysOf(groups[g].shard))
    BY <2>1, <2>2, AllBefore DEF GroupOK
  <2>4. ASSUME NEW k \in 1..n, answers[k] \in Shards
        PROVE  \E g \in DOMAIN groups : groups[g].shard = answers[k]
    BY <2>1, <2>2, <2>4 DEF IndexOK
  <2>5. Lists(unresolved, KeysOf(NoShard))
    BY <2>1, <2>2, AllBefore
  <2>6. QED
    BY <2>2, <2>3, <2>4, <2>5 DEF GroupsExact, OrderOK
<1>2. GroupingInv => GroupsExact
  BY <1>1 DEF GroupsExact
<1>3. QED
  BY <1>2, GroupingInvariant, PTL

\* A call fails for the first key that must make it fail, and for no other.
THEOREM FirstFailure == Spec => []FailsAtFirst
<1>1. ASSUME GroupingInv, pc = "done"
      PROVE  /\ \A k \in 1..n : ~Fatal(k)
             /\ op = "SameShard" => n > 0 /\ \A k \in 1..n : answers[k] = expected
  <2>1. PassOK /\ index - 1 = n /\ n \in Nat
    BY <1>1, TypeFacts DEF GroupingInv, PassOK
  <2>2. \A k \in 1..n : ~Fatal(k)
    BY <1>1, <2>1 DEF PassOK
  <2>3. ASSUME op = "SameShard"
        PROVE  n > 0 /\ \A k \in 1..n : answers[k] = expected
    BY <1>1, <2>1, <2>2, <2>3 DEF PassOK, Fatal
  <2>4. QED
    BY <2>2, <2>3
<1>2. GroupingInv => FailsAtFirst
  BY <1>1 DEF FailsAtFirst, GroupingInv, PassOK
<1>3. QED
  BY <1>2, GroupingInvariant, PTL

-----------------------------------------------------------------------------
(* The invariant of the functions that use the groups. *)

\* The functions that go through the groups.
Batch == {"batchActivateUsers", "batchLoadUsers"}

BatchTypeOK ==
    /\ function \in Batch \cup {"updateColocatedUsers", "showShardMismatch"}
    /\ op = OpOf(function)
    /\ at \in Nat
    /\ touched \subseteq 1..n
    /\ late \subseteq 1..n
    /\ outcome \in {"none", "nil", "error"}

\* The loop has done the groups before at wholly; what it has touched is in them and in
\* the group it is at, a statement still on its way included.
LoopOK ==
    /\ pc # "done" \/ function \notin Batch => at = 1 /\ touched = {} /\ late = {}
    /\ pc = "resolve" => outcome = "none"
    /\ pc = "failed" /\ function # "showShardMismatch" => outcome # "nil"
    /\ pc = "done" /\ function \in Batch =>
          /\ at \in 1..(Len(groups) + 1)
          /\ \A g \in DOMAIN groups : g < at => Keys(g) \subseteq touched
          /\ \A k \in touched \cup late : \E g \in DOMAIN groups : g <= at /\ k \in Keys(g)
          /\ late # {} => outcome = "error"
          /\ outcome = "nil" => at = Len(groups) + 1

\* The transaction is only handed over with a row for every key, and what the database
\* applies of it, now or later, is that.
TxOK ==
    /\ work \in [{1} -> SUBSET (1..MaxKeys)]
    /\ given \in [{1} -> BOOLEAN]
    /\ database \in [{1} -> SUBSET (1..MaxKeys)]
    /\ given[1] => pc = "done" /\ function = "updateColocatedUsers" /\ work[1] = 1..n
    /\ database[1] # {} => given[1] /\ database[1] = 1..n
    /\ function = "updateColocatedUsers" /\ outcome = "nil" =>
          given[1] /\ database[1] = 1..n

IInv == GroupingInv /\ BatchTypeOK /\ LoopOK /\ TxOK

\* A group has as many keys as its list is long.
LEMMA KeyCount ==
    ASSUME NEW m \in Nat, NEW keys \in Seq(1..m)
    PROVE  LET S == {keys[i] : i \in DOMAIN keys} IN
           IsFiniteSet(S) /\ Cardinality(S) \in Nat /\ Cardinality(S) <= Len(keys)
<1> DEFINE S == {keys[i] : i \in DOMAIN keys}
           f == [i \in 1..Len(keys) |-> keys[i]]
<1>1. Len(keys) \in Nat /\ DOMAIN keys = 1..Len(keys)
  OBVIOUS
<1>2. IsFiniteSet(1..Len(keys)) /\ Cardinality(1..Len(keys)) = Len(keys)
  <2>1. /\ IsFiniteSet(1..Len(keys))
        /\ Cardinality(1..Len(keys)) = IF 1 > Len(keys) THEN 0 ELSE Len(keys) - 1 + 1
    BY <1>1, 1 \in Int, Len(keys) \in Int, FS_Interval
  <2>2. QED
    BY <1>1, <2>1
<1>3. f \in Surjection(1..Len(keys), S)
  BY <1>1 DEF Surjection
<1>4. QED
  BY <1>2, <1>3, FS_Surjection, FS_CardinalityType

\* The keys of a group are those of its shard, and of no other group.
LEMMA KeysFacts ==
    ASSUME GroupingInv, pc = "done", op # "SameShard", NEW g \in DOMAIN groups
    PROVE  /\ Keys(g) = KeysOf(groups[g].shard)
           /\ groups[g].shard \in Shards
           /\ Keys(g) \subseteq 1..n
           /\ \A h \in DOMAIN groups : h # g => Keys(g) \cap Keys(h) = {}
           /\ IsFiniteSet(Keys(g)) /\ Cardinality(Keys(g)) \in Nat
           /\ Cardinality(Keys(g)) <= Len(groups[g].keys)
<1>1. TypeOK /\ index = n + 1
  BY DEF GroupingInv, PassOK
<1>2. \A h \in DOMAIN groups :
         /\ Lists(groups[h].keys, KeysOf(groups[h].shard))
         /\ indexByID[groups[h].shard] = h
  BY <1>1, AllBefore DEF GroupingInv, GroupsOK, GroupOK
<1>3. ASSUME NEW h \in DOMAIN groups PROVE Keys(h) = KeysOf(groups[h].shard)
  BY <1>2 DEF Keys, Lists
<1>4. ASSUME NEW h \in DOMAIN groups, h # g PROVE Keys(g) \cap Keys(h) = {}
  BY <1>2, <1>3, <1>4 DEF KeysOf
<1>5. QED
  BY <1>1, <1>3, <1>4, TypeFacts, KeyCount DEF Keys, KeysOf

\* A statement that affected as many rows as the group has keys found a row for each.
LEMMA AllRows ==
    ASSUME GroupingInv, pc = "done", op # "SameShard", NEW g \in DOMAIN groups,
           NEW rows \in SUBSET Keys(g), Len(groups[g].keys) \in 0..Cardinality(rows)
    PROVE  rows = Keys(g)
<1>1. IsFiniteSet(Keys(g)) /\ Cardinality(Keys(g)) \in Nat
      /\ Cardinality(Keys(g)) <= Len(groups[g].keys)
  BY KeysFacts
<1>2. rows # Keys(g) => Cardinality(rows) < Cardinality(Keys(g)) /\ Cardinality(rows) \in Nat
  BY <1>1, FS_Subset, FS_CardinalityType
<1>3. QED
  BY <1>1, <1>2, TypeFacts DEF GroupingInv

\* It holds at the start.
LEMMA InitIInv == Init => IInv
<1> SUFFICES ASSUME Init PROVE IInv
  OBVIOUS
<1>1. GroupingInv
  BY GroupingInitInv DEF Init
<1>2. pc = "resolve"
  BY DEF Init, GroupingInit
<1>3. BatchTypeOK /\ LoopOK
  BY <1>2 DEF Init, BatchTypeOK, LoopOK, Batch
<1>4. TxOK
  BY <1>2 DEF Init, TxOK, Tx!Init
<1>5. QED
  BY <1>1, <1>3, <1>4 DEF IInv

\* The pass over the keys, while nothing has been done for them yet.
LEMMA GroupInv ==
    ASSUME IInv, Group
    PROVE  IInv'
<1>1. /\ GroupingInv /\ BatchTypeOK /\ LoopOK /\ TxOK
      /\ pc = "resolve" /\ GroupingNext /\ UNCHANGED <<batchVars, txVars>>
  BY DEF IInv, Group, GroupingNext, ResolveFails, NoKeys, FirstKey, NextKey, AddKeyToGroup,
         SetAside, Finish, More
<1>2. GroupingInv'
  BY <1>1, GroupingStepInv
<1>3. op' = op /\ answers' = answers /\ n' = n /\ pc' \in {"resolve", "done", "failed"}
  BY <1>1, <1>2 DEF GroupingNext, ResolveFails, NoKeys, FirstKey, NextKey, AddKeyToGroup,
         SetAside, Finish, n, GroupingInv, TypeOK
<1>4. BatchTypeOK'
  BY <1>1, <1>3 DEF BatchTypeOK, batchVars
<1>5. LoopOK'
  <2>1. at = 1 /\ touched = {} /\ late = {} /\ outcome = "none"
    BY <1>1 DEF LoopOK
  <2>2. UNCHANGED <<function, at, touched, late, outcome>>
    BY <1>1 DEF batchVars
  <2>3. 1 \in 1..(Len(groups') + 1) /\ \A g \in DOMAIN groups' : ~(g < 1)
    BY <1>2, TypeFacts DEF GroupingInv, TypeOK
  <2>4. QED
    BY <2>1, <2>2, <2>3 DEF LoopOK
<1>6. TxOK'
  BY <1>1, <1>3 DEF TxOK, batchVars, txVars
<1>7. QED
  BY <1>2, <1>4, <1>5, <1>6 DEF IInv

\* A function that returns without having touched a key.
LEMMA ReturnInv ==
    ASSUME IInv, GroupingFails \/ ShowShardMismatch \/ NoPrimary \/ QueryGroupFails \/ EndOfLoop
    PROVE  IInv'
<1>1. GroupingInv /\ BatchTypeOK /\ LoopOK /\ TxOK
  BY DEF IInv
<1>2. /\ UNCHANGED groupingVars
      /\ UNCHANGED <<function, at, touched, late, txVars>>
      /\ outcome = "none"
  BY DEF GroupingFails, ShowShardMismatch, NoPrimary, QueryGroupFails, EndOfLoop, Return,
         groupingVars
<1>3. GroupingInv' /\ n' = n /\ pc' = pc /\ groups' = groups
  BY <1>1, <1>2, GroupingStepInv DEF groupingVars, n
<1>4. /\ outcome' \in {"nil", "error"}
      /\ outcome' = "nil" => \/ function = "showShardMismatch"
                             \/ function \in Batch /\ at > Len(groups) /\ pc = "done"
      /\ pc # "resolve"
  BY DEF GroupingFails, ShowShardMismatch, NoPrimary, QueryGroupFails, EndOfLoop, Return,
         InLoop, Batch
<1>5. BatchTypeOK'
  BY <1>1, <1>2, <1>3, <1>4 DEF BatchTypeOK, groupingVars
<1>6. LoopOK'
  <2>1. \A g : Keys(g)' = Keys(g)
    BY <1>3 DEF Keys
  <2>2. Len(groups) \in Nat
    BY <1>1, TypeFacts DEF GroupingInv
  <2>3. QED
    BY <1>1, <1>2, <1>3, <1>4, <2>1, <2>2 DEF LoopOK, BatchTypeOK, Batch
<1>7. TxOK'
  BY <1>1, <1>2, <1>3, <1>4 DEF TxOK, txVars, Batch
<1>8. QED
  BY <1>3, <1>5, <1>6, <1>7 DEF IInv

\* The loop over the groups, and what arrives late of it.
LEMMA LoopInv ==
    ASSUME IInv, ExecGroup \/ ExecGroupFails \/ ExecutedLate \/ QueryGroup
    PROVE  IInv'
<1>1. GroupingInv /\ BatchTypeOK /\ LoopOK /\ TxOK
  BY DEF IInv
<1>2. UNCHANGED groupingVars /\ UNCHANGED <<function, txVars>>
  BY DEF ExecGroup, ExecGroupFails, ExecutedLate, QueryGroup, groupingVars
<1>3. /\ GroupingInv' /\ n' = n /\ pc' = pc /\ groups' = groups /\ op' = op
      /\ \A g : Keys(g)' = Keys(g)
  BY <1>1, <1>2, GroupingStepInv DEF groupingVars, n, Keys
<1>4. pc = "done" /\ function \in Batch /\ op # "SameShard"
  BY <1>1 DEF ExecGroup, ExecGroupFails, ExecutedLate, QueryGroup, InLoop, LoopOK, Batch,
              BatchTypeOK, OpOf
<1>5. Len(groups) \in Nat /\ DOMAIN groups = 1..Len(groups)
  BY <1>1, TypeFacts DEF GroupingInv
<1>6. /\ at \in 1..(Len(groups) + 1)
      /\ \A g \in DOMAIN groups : g < at => Keys(g) \subseteq touched
      /\ \A k \in touched \cup late : \E g \in DOMAIN groups : g <= at /\ k \in Keys(g)
      /\ late # {} => outcome = "error"
      /\ outcome = "nil" => at = Len(groups) + 1
      /\ touched \subseteq 1..n /\ late \subseteq 1..n /\ outcome \in {"none", "nil", "error"}
  BY <1>1, <1>4 DEF LoopOK, BatchTypeOK
<1>7. /\ at' \in 1..(Len(groups) + 1)
      /\ \A g \in DOMAIN groups : g < at' => Keys(g) \subseteq touched'
      /\ \A k \in touched' \cup late' : \E g \in DOMAIN groups : g <= at' /\ k \in Keys(g)
      /\ late' # {} => outcome' = "error"
      /\ outcome' = "nil" => at' = Len(groups) + 1
      /\ touched' \subseteq 1..n /\ late' \subseteq 1..n
      /\ outcome' \in {"none", "nil", "error"}
  <2>1. CASE ExecutedLate
    BY <1>6, <2>1 DEF ExecutedLate
  <2>2. ASSUME InLoop
        PROVE  /\ at \in DOMAIN groups /\ Keys(at) \subseteq 1..n
               /\ outcome = "none" /\ late = {}
    <3>1. at \in DOMAIN groups
      BY <1>5, <1>6, <2>2 DEF InLoop
    <3>2. QED
      BY <1>1, <1>4, <1>6, <2>2, <3>1, KeysFacts DEF InLoop
  <2>advance. ASSUME InLoop, at' = at + 1, touched' = touched \cup Keys(at), late' = late,
               outcome' = outcome
        PROVE  /\ at' \in 1..(Len(groups) + 1)
               /\ \A g \in DOMAIN groups : g < at' => Keys(g) \subseteq touched'
               /\ \A k \in touched' \cup late' : \E g \in DOMAIN groups : g <= at' /\ k \in Keys(g)
    <3>1. \A g \in DOMAIN groups : g < at + 1 => g < at \/ g = at
      BY <1>5, <1>6
    <3>2. at' \in 1..(Len(groups) + 1)
      BY <1>5, <1>6, <2>2, <2>advance
    <3>3. ASSUME NEW g \in DOMAIN groups, g < at'
          PROVE  Keys(g) \subseteq touched'
      BY <1>6, <2>advance, <3>1, <3>3
    <3>4. ASSUME NEW k \in touched' \cup late'
          PROVE  \E g \in DOMAIN groups : g <= at' /\ k \in Keys(g)
      <4>1. CASE k \in Keys(at)
        BY <1>5, <1>6, <2>2, <2>advance, <4>1
      <4>2. CASE k \in touched \cup late
        <5>1. PICK g \in DOMAIN groups : g <= at /\ k \in Keys(g)
          BY <1>6, <4>2
        <5>2. g <= at'
          BY <1>5, <1>6, <2>advance, <5>1
        <5>3. QED
          BY <5>1, <5>2
      <4>3. QED
        BY <2>advance, <3>4, <4>1, <4>2
    <3>5. QED
      BY <3>2, <3>3, <3>4
  <2>3. CASE ExecGroupFails
    BY <1>5, <1>6, <2>2, <2>3 DEF ExecGroupFails, Return
  <2>4. CASE QueryGroup
    <3>1. /\ InLoop /\ at' = at + 1 /\ touched' = touched \cup Keys(at) /\ late' = late
          /\ outcome' = outcome
      BY <2>4 DEF QueryGroup
    <3>2. QED
      BY <1>6, <2>2, <2>advance, <3>1
  <2>5. CASE ExecGroup
    <3>1. PICK rows \in SUBSET Keys(at) : \E affected \in 0..Cardinality(rows) :
             /\ touched' = touched \cup rows
             /\ IF affected = Len(groups[at].keys)
                THEN at' = at + 1 /\ UNCHANGED outcome
                ELSE Return("error") /\ UNCHANGED at
      BY <2>5 DEF ExecGroup
    <3>2. InLoop /\ late' = late
      BY <2>5 DEF ExecGroup
    <3>3. CASE at' = at + 1 /\ UNCHANGED outcome /\ Len(groups[at].keys) \in 0..Cardinality(rows)
      <4>1. rows = Keys(at)
        BY <1>1, <1>4, <2>2, <3>2, <3>3, AllRows
      <4>2. QED
        BY <1>6, <2>2, <2>advance, <3>1, <3>2, <3>3, <4>1
    <3>4. CASE Return("error") /\ UNCHANGED at
      <4>1. at' = at /\ outcome' = "error" /\ late' = {} /\ touched' = touched \cup rows
            /\ rows \subseteq Keys(at)
        BY <2>2, <3>1, <3>2, <3>4 DEF Return
      <4>2. \A g \in DOMAIN groups : g < at => Keys(g) \subseteq touched'
        BY <1>6, <4>1
      <4>3. ASSUME NEW k \in touched'
            PROVE  \E g \in DOMAIN groups : g <= at /\ k \in Keys(g)
        <5>1. CASE k \in rows
          BY <1>5, <2>2, <3>2, <4>1, <5>1
        <5>2. CASE k \in touched
          BY <1>6, <5>2
        <5>3. QED
          BY <4>1, <4>3, <5>1, <5>2
      <4>4. QED
        BY <1>6, <2>2, <3>2, <4>1, <4>2, <4>3
    <3>5. QED
      BY <3>1, <3>3, <3>4
  <2>6. QED
    BY <2>1, <2>3, <2>4, <2>5
<1>8. BatchTypeOK'
  BY <1>1, <1>2, <1>3, <1>5, <1>7 DEF BatchTypeOK
<1>9. LoopOK'
  BY <1>2, <1>3, <1>4, <1>7 DEF LoopOK
<1>10. TxOK'
  BY <1>1, <1>2, <1>3, <1>4 DEF TxOK, txVars, Batch
<1>11. QED
  BY <1>3, <1>8, <1>9, <1>10 DEF IInv

\* The transaction of updateColocatedUsers.
LEMMA TxInv ==
    ASSUME IInv, Update \/ CommitTx \/ ApplyTx \/ TxReturns
    PROVE  IInv'
<1>1. GroupingInv /\ BatchTypeOK /\ LoopOK /\ TxOK
  BY DEF IInv
<1>2. /\ UNCHANGED groupingVars /\ UNCHANGED <<function, at, touched, late>> /\ pc = "done"
  BY DEF Update, CommitTx, ApplyTx, TxReturns, InTx, groupingVars, batchVars
<1>3. /\ GroupingInv' /\ n' = n /\ pc' = pc /\ groups' = groups /\ op' = op
      /\ \A g : Keys(g)' = Keys(g)
  BY <1>1, <1>2, GroupingStepInv DEF groupingVars, n, Keys
<1>4. function = "updateColocatedUsers"
  BY <1>1 DEF Update, CommitTx, ApplyTx, TxReturns, InTx, TxOK, Tx!Apply
<1>5. BatchTypeOK'
  BY <1>1, <1>2, <1>3 DEF BatchTypeOK, Update, CommitTx, ApplyTx, TxReturns, Return, batchVars
<1>6. LoopOK'
  BY <1>1, <1>2, <1>3, <1>4 DEF LoopOK, Batch
<1>7. TxOK'
  <2>1. CASE Update
    BY <1>1, <1>2, <1>3, <1>4, <2>1 DEF TxOK, Update, InTx, Tx!Work
  <2>2. CASE CommitTx
    BY <1>1, <1>2, <1>3, <1>4, <2>2 DEF TxOK, CommitTx, InTx, Tx!Give
  <2>3. CASE ApplyTx
    BY <1>1, <1>2, <1>3, <1>4, <2>3 DEF TxOK, ApplyTx, batchVars, Tx!Apply
  <2>4. CASE TxReturns
    BY <1>1, <1>2, <1>3, <1>4, <2>4 DEF TxOK, TxReturns, InTx, Return, Tx!ReturnNil,
       Tx!ReturnFinal, Tx!ReturnUnknown
  <2>5. QED
    BY <2>1, <2>2, <2>3, <2>4
<1>8. QED
  BY <1>3, <1>5, <1>6, <1>7 DEF IInv

\* Every step preserves it.
LEMMA NextIInv == IInv /\ [Next]_vars => IInv'
<1> SUFFICES ASSUME IInv, [Next]_vars PROVE IInv'
  OBVIOUS
<1>1. CASE UNCHANGED vars
  <2>1. GroupingInv' /\ n' = n
    BY <1>1, GroupingStepInv DEF IInv, vars, groupingVars, n
  <2>2. UNCHANGED <<groupingVars, batchVars, txVars>>
    BY <1>1 DEF vars
  <2>3. BatchTypeOK' /\ TxOK'
    BY <2>1, <2>2 DEF IInv, BatchTypeOK, TxOK, groupingVars, batchVars, txVars
  <2>4. LoopOK'
    BY <2>1, <2>2 DEF IInv, LoopOK, Keys, groupingVars, batchVars
  <2>5. QED
    BY <2>1, <2>3, <2>4 DEF IInv
<1>2. CASE Next
  BY <1>1, <1>2, GroupInv, ReturnInv, LoopInv, TxInv DEF Next, Returned
<1>3. QED
  BY <1>1, <1>2

\* The inductive invariant holds in every reachable state.
THEOREM InductiveInvariant == Spec => []IInv
  BY InitIInv, NextIInv, PTL DEF Spec

\* A batch is a prefix of its groups, done in their order, for any number of groups.
THEOREM BatchIsPrefix == Spec => []BatchPrefix
<1>1. ASSUME IInv, function \in Batch, pc = "done"
      PROVE  /\ \A g \in DOMAIN groups : g < at => Keys(g) \subseteq touched
             /\ \A g \in DOMAIN groups : g > at => Keys(g) \cap (touched \cup late) = {}
             /\ outcome = "nil" => touched = {k \in 1..n : answers[k] \in Shards}
  <2>1. GroupingInv /\ TypeOK /\ op # "SameShard" /\ index = n + 1 /\ n \in Nat
    BY <1>1, TypeFacts DEF IInv, GroupingInv, BatchTypeOK, OpOf, Batch, PassOK
  <2>2. /\ at \in 1..(Len(groups) + 1)
        /\ \A g \in DOMAIN groups : g < at => Keys(g) \subseteq touched
        /\ \A k \in touched \cup late : \E g \in DOMAIN groups : g <= at /\ k \in Keys(g)
        /\ outcome = "nil" => at = Len(groups) + 1
        /\ touched \subseteq 1..n
    BY <1>1 DEF IInv, LoopOK, BatchTypeOK
  <2>3. Len(groups) \in Nat /\ DOMAIN groups = 1..Len(groups)
    BY <2>1, TypeFacts
  <2>4. ASSUME NEW g \in DOMAIN groups, g > at, NEW k \in Keys(g) \cap (touched \cup late)
        PROVE  FALSE
    <3>1. PICK h \in DOMAIN groups : h <= at /\ k \in Keys(h)
      BY <2>2, <2>4
    <3>2. h # g
      BY <2>2, <2>3, <2>4, <3>1
    <3>3. QED
      BY <1>1, <2>1, <2>4, <3>1, <3>2, KeysFacts
  <2>5. ASSUME outcome = "nil", NEW k \in touched
        PROVE  k \in 1..n /\ answers[k] \in Shards
    <3>1. PICK h \in DOMAIN groups : k \in Keys(h)
      BY <2>2, <2>5
    <3>2. QED
      BY <1>1, <2>1, <2>2, <2>5, <3>1, KeysFacts DEF KeysOf
  <2>6. ASSUME outcome = "nil", NEW k \in 1..n, answers[k] \in Shards
        PROVE  k \in touched
    <3>1. IndexOK
      BY <1>1, <2>1 DEF GroupingInv, GroupsOK
    <3>2. PICK g \in DOMAIN groups : groups[g].shard = answers[k]
      BY <2>1, <2>6, <3>1 DEF IndexOK
    <3>3. k \in Keys(g)
      BY <1>1, <2>1, <2>6, <3>2, KeysFacts DEF KeysOf
    <3>4. g < at
      BY <2>2, <2>3, <2>6, <3>2
    <3>5. QED
      BY <2>2, <3>2, <3>3, <3>4
  <2>7. QED
    BY <2>2, <2>4, <2>5, <2>6
<1>2. IInv => BatchPrefix
  BY <1>1 DEF BatchPrefix, IInv, LoopOK, Batch
<1>3. QED
  BY <1>2, InductiveInvariant, PTL

\* Colocated keys are updated together on their one shard or not at all.
THEOREM ColocatedTogether == Spec => []ColocatedAllOrNothing
<1>1. ASSUME IInv, database[1] # {}
      PROVE  /\ database[1] = 1..n
             /\ \A k \in 1..n : Resolve(k) = Resolve(1) /\ Resolve(k) \in Shards
  <2>1. database[1] = 1..n /\ pc = "done" /\ op = "SameShard" /\ TypeOK /\ PassOK
    BY <1>1 DEF IInv, TxOK, GroupingInv, BatchTypeOK, OpOf
  <2>2. n \in Nat /\ index - 1 = n /\ n > 0
    BY <2>1, TypeFacts DEF PassOK
  <2>3. \A k \in 1..n : ~Fatal(k)
    BY <2>1, <2>2 DEF PassOK
  <2>4. expected = answers[1] /\ expected \in Shards
    BY <2>1, <2>2 DEF PassOK
  <2>5. \A k \in 1..n : answers[k] = answers[1] /\ answers[k] \in Shards
    BY <2>1, <2>3, <2>4 DEF Fatal
  <2>6. 1 \in 1..n /\ answers \in Seq(Answers)
    BY <2>1, <2>2 DEF TypeOK
  <2>7. QED
    BY <2>1, <2>5, <2>6, ResolveFacts
<1>2. IInv => ColocatedAllOrNothing
  BY <1>1 DEF ColocatedAllOrNothing, IInv, TxOK
<1>3. QED
  BY <1>2, InductiveInvariant, PTL
===============================================================================
