----------------------------- MODULE RoutingProofs -----------------------------
(***************************************************************************)
(* Proofs about where an operation is routed to.                           *)
(*                                                                         *)
(* Routing, for every number of goroutines and of replicas and every width *)
(* of the counter of the round-robin selector.                             *)
(* The shares of the replicas are not inductive: they follow from an       *)
(* account of the tickets.  A ticket that has been drawn has been used or  *)
(* is held by a caller in flight, and the tickets that have been drawn for *)
(* a replica are a function of drawn, by the arithmetic of the first       *)
(* section.                                                                *)
(*                                                                         *)
(* Rendezvous, for every set of IDs, every namespace, key and hash and     *)
(* every width of the integers that are encoded.  The invariant says that  *)
(* the candidate kept so far beats all candidates before it, that what has *)
(* been hashed is the input of its namespace, key and ID, and that a shard *)
(* that was answered beats all shards there were.  Two namespaces, keys or *)
(* IDs never share an input, since every part but the last is preceded by  *)
(* its length, and the encoders do not confuse two keys.                   *)
(***************************************************************************)
EXTENDS Routing, Rendezvous, FiniteSetTheorems, WellFoundedInduction, SequenceTheorems, TLAPS

-----------------------------------------------------------------------------
(* Division. *)

\* A quotient and a remainder in its range are the only ones.
LEMMA QuotientUnique ==
    ASSUME NEW n \in Nat, NEW m \in Nat, m > 0,
           NEW q \in Nat, NEW r \in Nat, n = m * q + r, r < m
    PROVE  n \div m = q /\ n % m = r
<1> DEFINE a == n \div m
           b == n % m
<1>1. a \in Nat /\ b \in 0..(m - 1) /\ n = m * a + b
    OBVIOUS
<1> HIDE DEF a, b
<1>2. CASE a > q
  <2>1. PICK k \in Nat : a = q + 1 + k  BY <1>1, <1>2
  <2>2. m * a = m * q + m + m * k  BY <1>1, <2>1
  <2>3. m * k >= 0  BY <2>1
  <2>4. m * q \in Nat /\ m * k \in Nat  BY <2>1
  <2> QED  BY <1>1, <2>2, <2>3, <2>4
<1>3. CASE a < q
  <2>1. PICK k \in Nat : q = a + 1 + k  BY <1>1, <1>3
  <2>2. m * q = m * a + m + m * k  BY <1>1, <2>1
  <2>4. m * a \in Nat /\ m * k \in Nat  BY <2>1, <1>1
  <2> QED  BY <1>1, <2>2, <2>4
<1>4. CASE a = q
    BY <1>1, <1>4 DEF a, b
<1> QED  BY <1>1, <1>2, <1>3, <1>4

\* One step of counting in base m.
LEMMA SuccessorDivision ==
    ASSUME NEW n \in Nat, NEW m \in Nat, m > 0
    PROVE  /\ (n % m) + 1 < m => (n + 1) \div m = n \div m /\ (n + 1) % m = (n % m) + 1
           /\ (n % m) + 1 = m => (n + 1) \div m = n \div m + 1 /\ (n + 1) % m = 0
           /\ (n % m) + 1 <= m
<1> DEFINE q == n \div m
           r == n % m
<1>1. q \in Nat /\ r \in 0..(m - 1) /\ n = m * q + r
    OBVIOUS
<1> HIDE DEF q, r
<1>2. CASE r + 1 < m
    BY <1>1, <1>2, QuotientUnique, n + 1 = m * q + (r + 1) DEF q, r
<1>3. CASE r + 1 = m
  <2>1. n + 1 = m * (q + 1) + 0  BY <1>1, <1>3
  <2> QED  BY <1>1, <1>3, <2>1, QuotientUnique DEF q, r
<1> QED  BY <1>1, <1>2, <1>3 DEF q, r

\* How many of the numbers 0 .. n - 1 are i modulo l.
Seen(n, l, i) == n \div l + (IF i < n % l THEN 1 ELSE 0)

\* Counting one more number.
LEMMA SeenNext ==
    ASSUME NEW n \in Nat, NEW l \in Nat, l > 0, NEW i \in 0..(l - 1)
    PROVE  /\ Seen(n, l, i) \in Nat
           /\ Seen(0, l, i) = 0
           /\ Seen(n + 1, l, i) = Seen(n, l, i) + (IF n % l = i THEN 1 ELSE 0)
<1>1. n \div l \in Nat /\ n % l \in 0..(l - 1)
    OBVIOUS
<1>2. 0 \div l = 0 /\ 0 % l = 0
    BY QuotientUnique, l * 0 + 0 = 0
<1> QED  BY <1>1, <1>2, SuccessorDivision DEF Seen

\* Two residues differ by one at most, and by nothing after a whole rotation.
LEMMA SeenApart ==
    ASSUME NEW n \in Nat, NEW l \in Nat, l > 0, NEW i \in 0..(l - 1), NEW j \in 0..(l - 1)
    PROVE  /\ Seen(n, l, i) - Seen(n, l, j) <= 1
           /\ n % l = 0 => Seen(n, l, i) = Seen(n, l, j)
<1>1. n \div l \in Nat /\ n % l \in 0..(l - 1)
    OBVIOUS
<1> QED  BY <1>1 DEF Seen

-----------------------------------------------------------------------------
(* The order of the IDs. *)

LEMMA EqualSequences ==
    ASSUME NEW S, NEW s \in Seq(S), NEW T, NEW t \in Seq(T),
           Len(s) = Len(t), \A i \in 1..Len(s) : s[i] = t[i]
    PROVE  s = t
    OBVIOUS

LEMMA Smallest ==
    ASSUME NEW T, T \subseteq Nat, T # {}
    PROVE  \E x \in T : \A y \in T : x <= y
<1>1. PICK R : IsWellFoundedOn(R, Nat) /\ \A y, z \in Nat : y < z => <<y, z>> \in R
    BY NatLessThanWellFounded DEF OpToRel
<1>2. PICK x \in T : \A y \in T : <<y, x>> \notin R
  <2>1. ASSUME NEW Q, IsWellFoundedOn(Q, Nat)
        PROVE  \E x \in T : \A y \in T : ~(<<y, x>> \in Q)
      BY <2>1, WFMin
  <2> QED  BY <1>1, <2>1
<1>3. ASSUME NEW y \in T PROVE x <= y
  <2>1. x \in Nat /\ y \in Nat /\ ~(y < x)
      BY <1>1, <1>2
  <2> QED  BY <2>1
<1> QED  BY <1>3

LEMMA BeforeAsymmetric ==
    ASSUME NEW s \in Seq(Nat), NEW t \in Seq(Nat), Before(s, t)
    PROVE  ~Before(t, s)
<1>1. /\ Len(s) \in Nat /\ \A i \in 1..Len(s) : s[i] \in Nat
      /\ Len(t) \in Nat /\ \A i \in 1..Len(t) : t[i] \in Nat
    OBVIOUS
<1>2. PICK k \in 0..(Len(t) - 1) :
         /\ k <= Len(s)
         /\ \A i \in 1..k : s[i] = t[i]
         /\ k = Len(s) \/ s[k + 1] < t[k + 1]
    BY DEF Before
<1>3. ASSUME NEW l \in 0..(Len(s) - 1),
             l <= Len(t),
             \A i \in 1..l : t[i] = s[i],
             l = Len(t) \/ t[l + 1] < s[l + 1]
      PROVE  FALSE
  <2>1. CASE k < l
    <3>1. k + 1 \in 1..l /\ k + 1 \in 1..Len(s) /\ k + 1 \in 1..Len(t)
        BY <1>1, <1>3, <2>1
    <3>2. t[k + 1] = s[k + 1] /\ s[k + 1] \in Nat /\ k # Len(s)
        BY <1>1, <1>3, <2>1, <3>1
    <3> QED  BY <1>2, <3>2
  <2>2. CASE l < k
    <3>1. l + 1 \in 1..k /\ l + 1 \in 1..Len(s) /\ l + 1 \in 1..Len(t)
        BY <1>1, <1>2, <2>2
    <3>2. s[l + 1] = t[l + 1] /\ s[l + 1] \in Nat /\ l # Len(t)
        BY <1>1, <1>2, <2>2, <3>1
    <3> QED  BY <1>3, <3>2
  <2>3. CASE k = l
      BY <1>1, <1>2, <1>3, <2>3, k + 1 \in 1..Len(s), k + 1 \in 1..Len(t)
  <2> QED  BY <1>1, <1>2, <1>3, <2>1, <2>2, <2>3
<1> QED  BY <1>3 DEF Before

LEMMA BeforeTransitive ==
    ASSUME NEW s \in Seq(Nat), NEW t \in Seq(Nat), NEW u \in Seq(Nat),
           Before(s, t), Before(t, u)
    PROVE  Before(s, u)
<1>1. /\ Len(s) \in Nat /\ \A i \in 1..Len(s) : s[i] \in Nat
      /\ Len(t) \in Nat /\ \A i \in 1..Len(t) : t[i] \in Nat
      /\ Len(u) \in Nat /\ \A i \in 1..Len(u) : u[i] \in Nat
    OBVIOUS
<1>2. PICK k \in 0..(Len(t) - 1) :
         /\ k <= Len(s)
         /\ \A i \in 1..k : s[i] = t[i]
         /\ k = Len(s) \/ s[k + 1] < t[k + 1]
    BY DEF Before
<1>3. PICK l \in 0..(Len(u) - 1) :
         /\ l <= Len(t)
         /\ \A i \in 1..l : t[i] = u[i]
         /\ l = Len(t) \/ t[l + 1] < u[l + 1]
    BY DEF Before
<1>4. CASE k <= l
  <2>a. k \in 0..(Len(u) - 1)
      BY <1>1, <1>2, <1>3, <1>4
  <2>b. ASSUME NEW i \in 1..k PROVE s[i] = u[i]
    <3>1. i \in 1..l
        BY <1>2, <1>3, <1>4
    <3> QED  BY <1>2, <1>3, <3>1
  <2>1. k \in 0..(Len(u) - 1) /\ \A i \in 1..k : s[i] = u[i]
      BY <2>a, <2>b
  <2>2. k = Len(s) \/ s[k + 1] < u[k + 1]
    <3>1. CASE k = Len(s)
        BY <3>1
    <3>2. CASE k # Len(s) /\ k < l
        BY <1>1, <1>2, <1>3, <3>2, k + 1 \in 1..l
    <3>3. CASE k # Len(s) /\ k = l
      <4>1. s[k + 1] < t[k + 1] /\ t[k + 1] < u[k + 1]
          BY <1>1, <1>2, <1>3, <3>3
      <4>2. s[k + 1] \in Nat /\ t[k + 1] \in Nat /\ u[k + 1] \in Nat
          BY <1>1, <1>2, <1>3, <3>3, k + 1 \in 1..Len(s), k + 1 \in 1..Len(t),
             k + 1 \in 1..Len(u)
      <4>3. \A a, b, c \in Nat : a < b /\ b < c => a < c
          OBVIOUS
      <4> QED  BY <4>1, <4>2, <4>3
    <3> QED  BY <1>1, <1>2, <1>3, <1>4, <3>1, <3>2, <3>3
  <2> QED  BY <1>2, <2>1, <2>2 DEF Before
<1>5. CASE l < k
  <2>1. l \in 0..(Len(u) - 1) /\ l <= Len(s)
      BY <1>1, <1>2, <1>3, <1>5
  <2>3. \A i \in 1..l : s[i] = u[i]
      BY <1>2, <1>3, <1>5
  <2>2. s[l + 1] < u[l + 1]
      BY <1>1, <1>2, <1>3, <1>5, l + 1 \in 1..k
  <2> QED  BY <2>1, <2>2, <2>3 DEF Before
<1> QED  BY <1>4, <1>5

LEMMA BeforeTotal ==
    ASSUME NEW s \in Seq(Nat), NEW t \in Seq(Nat), s # t
    PROVE  Before(s, t) \/ Before(t, s)
<1>1. /\ Len(s) \in Nat /\ \A i \in 1..Len(s) : s[i] \in Nat
      /\ Len(t) \in Nat /\ \A i \in 1..Len(t) : t[i] \in Nat
    OBVIOUS
<1> DEFINE D == {k \in Nat : k = Len(s) \/ k = Len(t) \/ s[k + 1] # t[k + 1]}
<1>2. PICK k \in D : \A l \in D : k <= l
    BY <1>1, Smallest, Len(s) \in D
<1>3. k \in Nat /\ k <= Len(s) /\ k <= Len(t)
    BY <1>1, <1>2, Len(s) \in D, Len(t) \in D
<1>4. \A i \in 1..k : s[i] = t[i]
  <2>1. SUFFICES ASSUME NEW i \in 1..k, s[i] # t[i] PROVE FALSE
      OBVIOUS
  <2>2. i - 1 \in Nat /\ s[(i - 1) + 1] # t[(i - 1) + 1]
      BY <1>3, <2>1
  <2>3. i - 1 \in D
      BY <2>2
  <2>4. k <= i - 1
      BY <1>2, <2>3
  <2> QED  BY <1>3, <2>4
<1>5. CASE k = Len(s) /\ k = Len(t)
  <2>1. Len(s) = Len(t) /\ \A i \in 1..Len(s) : s[i] = t[i]
      BY <1>4, <1>5
  <2> QED  BY <2>1, EqualSequences
<1>6. CASE k = Len(s) /\ k # Len(t)
    BY <1>1, <1>3, <1>4, <1>6 DEF Before
<1>7. CASE k # Len(s) /\ k = Len(t)
    BY <1>1, <1>3, <1>4, <1>7 DEF Before
<1>8. CASE k # Len(s) /\ k # Len(t)
  <2>1. s[k + 1] # t[k + 1] /\ s[k + 1] \in Nat /\ t[k + 1] \in Nat
      BY <1>1, <1>2, <1>3, <1>8
  <2>2. k \in 0..(Len(s) - 1) /\ k \in 0..(Len(t) - 1)
      BY <1>1, <1>3, <1>8
  <2>3. s[k + 1] < t[k + 1] \/ t[k + 1] < s[k + 1]
      BY <2>1
  <2> QED  BY <1>3, <1>4, <2>2, <2>3 DEF Before
<1> QED  BY <1>5, <1>6, <1>7, <1>8

-----------------------------------------------------------------------------
(* Routing: the inductive invariant. *)

PCs == {"idle", "resolve", "pick", "selected", "returned"}
Errors == {none, ErrNoReplica, ErrSelector, "ErrNoPrimary", "unsupported", "invalidIndex"}

TypeOK ==
    /\ length \in Lengths
    /\ hasPrimary \in BOOLEAN
    /\ roundRobin \in BOOLEAN
    /\ counter \in 0..(Modulus - 1)
    /\ pc \in [Callers -> PCs]
    /\ policy \in [Callers -> Policies \cup {"write"}]
    /\ askedReadOnly \in [Callers -> BOOLEAN]
    /\ next \in [Callers -> Nat]
    /\ answer \in [Callers -> Int \cup {none, ErrNoReplica, ErrSelector}]
    /\ pool \in [Callers -> Nat \cup {primary, none}]
    /\ err \in [Callers -> Errors]
    /\ readOnly \in [Callers -> BOOLEAN]
    /\ drawn \in Nat
    /\ share \in [Indices -> Nat]

\* A caller between the calls of its selector and the beginning of its transaction.
CallOK(c) ==
    /\ pc[c] # "returned" => pool[c] = none
    /\ pc[c] \in {"pick", "selected"} => policy[c] \in {"preferred", "required"}
    /\ pc[c] = "pick" => length > 1
    /\ pool[c] # none =>
          /\ readOnly[c] <=> policy[c] # "write" \/ askedReadOnly[c]
          /\ policy[c] = "write" => pool[c] = primary
    /\ pool[c] = primary =>
          \/ policy[c] \in {"primary", "write"}
          \/ policy[c] = "preferred" /\ answer[c] = ErrNoReplica

CallsOK == \A c \in Callers : CallOK(c)

\* The callers that are about to pick replica i.
Picking(i) == {c \in InFlight : next[c] % length = i}

\* The tickets for replica i that have been drawn: the counter has been through all of
\* its values drawn \div Modulus times, and through the first ones once more.
Tickets(i) == (drawn \div Modulus) * Seen(Modulus, length, i) + Seen(counter, length, i)

\* Every ticket that has been drawn is accounted for.
TicketsOK ==
    /\ IsFiniteSet(InFlight)
    /\ counter = drawn % Modulus
    /\ length > 0 =>
          \A i \in Indices : share[i] + Cardinality(Picking(i)) = Tickets(i)

IInv == TypeOK /\ CallsOK /\ TicketsOK

USE LengthsAssumption, ModulusAssumption, ValuesAssumption
USE DEF cluster, request, selector, Indices, Policies, PCs, Errors, IsIndex, IsError

-----------------------------------------------------------------------------
(* Routing: it is inductive. *)

\* The counter has more values than there are replicas.
LEMMA LengthFacts ==
    ASSUME TypeOK
    PROVE  length \in Nat /\ Modulus \in Nat /\ length < Modulus
    BY DEF TypeOK

\* It holds before the first call.
LEMMA InitIInv == Init => IInv
<1> SUFFICES ASSUME Init PROVE IInv
    OBVIOUS
<1>0. length \in Nat /\ Modulus \in Nat /\ length < Modulus
    BY DEF Init
<1>1. TypeOK
    BY <1>0 DEF TypeOK, Init
<1>2. CallsOK
    BY DEF CallsOK, CallOK, Init
<1>3. InFlight = {}
    BY DEF Init, InFlight
<1>4. 0 \div Modulus = 0 /\ 0 % Modulus = 0
    BY <1>0, QuotientUnique, Modulus * 0 + 0 = 0
<1>5. ASSUME length > 0, NEW i \in Indices
      PROVE  share[i] + Cardinality(Picking(i)) = Tickets(i)
  <2>1. Picking(i) = {}
      BY <1>3 DEF Picking
  <2>2. Seen(0, length, i) = 0 /\ Seen(Modulus, length, i) \in Nat
      BY <1>0, <1>5, SeenNext
  <2>3. Tickets(i) = 0
      BY <1>4, <2>2 DEF Tickets, Init
  <2> QED  BY <2>1, <2>3, FS_EmptySet DEF Init
<1>6. TicketsOK
    BY <1>3, <1>4, <1>5, FS_EmptySet DEF TicketsOK, Init
<1> QED  BY <1>1, <1>2, <1>6 DEF IInv

\* A step that neither draws nor uses a ticket leaves the account alone.
LEMMA TicketsFrame ==
    ASSUME TicketsOK, UNCHANGED <<cluster, selector>>,
           UNCHANGED next \/ \E c \in Callers : /\ pc[c] # "pick"
                                                /\ next' = [next EXCEPT ![c] = 0],
           TypeOK,
           InFlight' = InFlight
    PROVE  TicketsOK'
<1>1. ASSUME NEW i PROVE Picking(i)' = Picking(i)
  <2>1. \A c \in InFlight : next'[c] = next[c]
      BY DEF TypeOK, InFlight
  <2>2. length' = length
      OBVIOUS
  <2> QED  BY <2>1, <2>2 DEF Picking
<1>2. \A i : Tickets(i)' = Tickets(i)
    BY DEF Tickets
<1> QED  BY <1>1, <1>2 DEF TicketsOK

\* Every step but DrawTicket and PickReplica.
LEMMA QuietStep ==
    ASSUME IInv, NEW c \in Callers,
           \/ \E p \in Policies : CallInReadTx(c, p)
           \/ CallInPrimaryTx(c)
           \/ UsePrimary(c) \/ UnsupportedPolicy(c)
           \/ NoReplicas(c) \/ SelectCustom(c) \/ SelectOnly(c)
           \/ UseReplica(c) \/ FallBack(c) \/ SelectFails(c)
           \/ Return(c)
    PROVE  IInv'
<1> USE DEF IInv
<1>0. length \in Nat /\ Modulus \in Nat /\ length < Modulus
    BY LengthFacts
<1> USE DEF BeginOn, Fail, ResolvePrimary, WantsReplica, Answer
<1>1. CASE \E p \in Policies : CallInReadTx(c, p)
  <2>1. TypeOK'  BY <1>1 DEF TypeOK, CallInReadTx
  <2>2. CallsOK'  BY <1>1 DEF CallsOK, CallOK, TypeOK, CallInReadTx
  <2>3. TicketsOK'  BY <1>1, TicketsFrame DEF InFlight, TypeOK, CallInReadTx
  <2> QED  BY <2>1, <2>2, <2>3
<1>2. CASE CallInPrimaryTx(c)
  <2>1. TypeOK'  BY <1>2 DEF TypeOK, CallInPrimaryTx
  <2>2. CallsOK'  BY <1>2 DEF CallsOK, CallOK, TypeOK, CallInPrimaryTx
  <2>3. TicketsOK'  BY <1>2, TicketsFrame DEF InFlight, TypeOK, CallInPrimaryTx
  <2> QED  BY <2>1, <2>2, <2>3
<1>3. CASE UsePrimary(c)
  <2>1. TypeOK'  BY <1>3 DEF TypeOK, UsePrimary
  <2>2. ASSUME NEW d \in Callers PROVE CallOK(d)'
    <3>1. CASE d # c
        BY <1>3, <3>1 DEF CallsOK, CallOK, TypeOK, UsePrimary
    <3>2. CASE d = c /\ hasPrimary
      <4>1. pool'[c] = primary /\ pc'[c] = "returned" /\ request' = request
          BY <1>3, <3>2 DEF TypeOK, UsePrimary
      <4>2. readOnly'[c] = (policy[c] # "write" \/ askedReadOnly[c])
          BY <1>3, <3>2 DEF TypeOK, UsePrimary
      <4> QED  BY <1>3, <3>2, <4>1, <4>2 DEF CallOK, UsePrimary
    <3>3. CASE d = c /\ ~hasPrimary
        BY <1>3, <3>3 DEF CallsOK, CallOK, TypeOK, UsePrimary
    <3> QED  BY <3>1, <3>2, <3>3
  <2>3. TicketsOK'  BY <1>3, TicketsFrame DEF InFlight, TypeOK, UsePrimary
  <2> QED  BY <2>1, <2>2, <2>3 DEF CallsOK
<1>4. CASE UnsupportedPolicy(c)
  <2>1. TypeOK'  BY <1>4 DEF TypeOK, UnsupportedPolicy
  <2>2. CallsOK'  BY <1>4 DEF CallsOK, CallOK, TypeOK, UnsupportedPolicy
  <2>3. TicketsOK'  BY <1>4, TicketsFrame DEF InFlight, TypeOK, UnsupportedPolicy
  <2> QED  BY <2>1, <2>2, <2>3
<1>5. CASE NoReplicas(c)
  <2>1. TypeOK'  BY <1>5 DEF TypeOK, NoReplicas
  <2>2. CallsOK'  BY <1>5 DEF CallsOK, CallOK, TypeOK, NoReplicas
  <2>3. TicketsOK'  BY <1>5, TicketsFrame DEF InFlight, TypeOK, NoReplicas
  <2> QED  BY <2>1, <2>2, <2>3
<1>6. CASE SelectCustom(c)
  <2>1. TypeOK'  BY <1>0, <1>6 DEF TypeOK, SelectCustom
  <2>2. CallsOK'  BY <1>6 DEF CallsOK, CallOK, TypeOK, SelectCustom
  <2>3. TicketsOK'  BY <1>6, TicketsFrame DEF InFlight, TypeOK, SelectCustom
  <2> QED  BY <2>1, <2>2, <2>3
<1>7. CASE SelectOnly(c)
  <2>1. TypeOK'  BY <1>7 DEF TypeOK, SelectOnly
  <2>2. CallsOK'  BY <1>7 DEF CallsOK, CallOK, TypeOK, SelectOnly
  <2>3. TicketsOK'  BY <1>7, TicketsFrame DEF InFlight, TypeOK, SelectOnly
  <2> QED  BY <2>1, <2>2, <2>3
<1>8. CASE UseReplica(c)
  <2>1. TypeOK'  BY <1>0, <1>8 DEF TypeOK, UseReplica
  <2>2. ASSUME NEW d \in Callers PROVE CallOK(d)'
    <3>1. CASE d # c
        BY <1>8, <3>1 DEF CallsOK, CallOK, TypeOK, UseReplica
    <3>2. CASE d = c
      <4>1. pool'[c] = answer[c] /\ pc'[c] = "returned" /\ request' = request
          BY <1>8 DEF TypeOK, UseReplica
      <4>2. readOnly'[c] = (policy[c] # "write" \/ askedReadOnly[c])
          BY <1>8 DEF TypeOK, UseReplica
      <4>3. answer[c] \in Int /\ policy[c] # "write"
          BY <1>0, <1>8 DEF CallsOK, CallOK, UseReplica
      <4> QED  BY <3>2, <4>1, <4>2, <4>3 DEF CallOK
    <3> QED  BY <3>1, <3>2
  <2>3. TicketsOK'  BY <1>8, TicketsFrame DEF InFlight, TypeOK, UseReplica
  <2> QED  BY <2>1, <2>2, <2>3 DEF CallsOK
<1>9. CASE FallBack(c)
  <2>1. TypeOK'  BY <1>9 DEF TypeOK, FallBack
  <2>2. CallsOK'  BY <1>9 DEF CallsOK, CallOK, TypeOK, FallBack
  <2>3. TicketsOK'  BY <1>9, TicketsFrame DEF InFlight, TypeOK, FallBack
  <2> QED  BY <2>1, <2>2, <2>3
<1>10. CASE SelectFails(c)
  <2>1. TypeOK'  BY <1>10 DEF TypeOK, SelectFails
  <2>2. CallsOK'  BY <1>10 DEF CallsOK, CallOK, TypeOK, SelectFails
  <2>3. TicketsOK'  BY <1>10, TicketsFrame DEF InFlight, TypeOK, SelectFails
  <2> QED  BY <2>1, <2>2, <2>3
<1>11. CASE Return(c)
  <2>1. TypeOK'  BY <1>11 DEF TypeOK, Return
  <2>2. CallsOK'  BY <1>11 DEF CallsOK, CallOK, TypeOK, Return
  <2>3. TicketsOK'  BY <1>11, TicketsFrame DEF InFlight, TypeOK, Return
  <2> QED  BY <2>1, <2>2, <2>3
<1> QED  BY <1>1, <1>2, <1>3, <1>4, <1>5, <1>6, <1>7, <1>8, <1>9, <1>10, <1>11

\* The atomic Add: the ticket goes to one caller, and the counter may wrap around.
LEMMA DrawTicketStep ==
    ASSUME IInv, NEW c \in Callers, DrawTicket(c)
    PROVE  IInv'
<1> USE DEF IInv
<1>0. length \in Nat /\ Modulus \in Nat /\ length < Modulus /\ length > 1
    BY LengthFacts DEF DrawTicket
<1>a. /\ counter \in Nat /\ counter < Modulus /\ drawn \in Nat
      /\ length > 0 /\ Modulus > 0
    BY <1>0 DEF TypeOK
<1>b. ASSUME NEW i \in Indices
      PROVE  /\ Seen(counter, length, i) \in Nat
             /\ Seen(counter + 1, length, i)
                   = Seen(counter, length, i) + (IF counter % length = i THEN 1 ELSE 0)
  <2>1. i \in 0..(length - 1)
      BY <1>0
  <2>2. ASSUME NEW d \in Nat, NEW l \in Nat, l > 0, NEW j \in 0..(l - 1)
        PROVE  /\ Seen(d, l, j) \in Nat
               /\ Seen(d + 1, l, j) = Seen(d, l, j) + (IF d % l = j THEN 1 ELSE 0)
      BY ONLY <2>2, SeenNext
  <2> QED  BY <1>a, <1>0, <2>1, <2>2
<1>c. counter' \in 0..(Modulus - 1)
    BY <1>a, <1>0 DEF DrawTicket
<1> USE DEF DrawTicket, Draw, WantsReplica
<1>1. TypeOK'
    BY <1>0, <1>a, <1>c DEF TypeOK
<1>2. CallsOK'
    BY <1>0 DEF CallsOK, CallOK, TypeOK
<1>3. InFlight' = InFlight \cup {c} /\ c \notin InFlight
    BY DEF InFlight, TypeOK
<1>4. IsFiniteSet(InFlight')
    BY <1>3, FS_AddElement DEF TicketsOK
<1>5. /\ counter' = drawn' % Modulus
      /\ \/ /\ counter + 1 < Modulus /\ counter' = counter + 1
            /\ drawn' \div Modulus = drawn \div Modulus
         \/ /\ counter + 1 = Modulus /\ counter' = 0
            /\ drawn' \div Modulus = drawn \div Modulus + 1
  <2>1. /\ counter = drawn % Modulus
        /\ drawn' = drawn + 1 /\ counter' = (counter + 1) % Modulus
      BY DEF TicketsOK
  <2>2. CASE counter + 1 < Modulus
    <3>1. counter + 1 = Modulus * 0 + (counter + 1)
        BY <1>0, <1>a
    <3>2. (counter + 1) % Modulus = counter + 1
        BY <1>0, <1>a, <2>2, <3>1, QuotientUnique,
           0 \in Nat, counter + 1 \in Nat
    <3>3. (drawn % Modulus) + 1 < Modulus
        BY <2>1, <2>2
    <3>4. /\ (drawn + 1) % Modulus = (drawn % Modulus) + 1
          /\ (drawn + 1) \div Modulus = drawn \div Modulus
        BY <1>a, <3>3, SuccessorDivision
    <3> QED  BY <2>1, <2>2, <3>2, <3>4
  <2>3. CASE counter + 1 = Modulus
    <3>1. counter + 1 = Modulus * 1 + 0
        BY <1>0, <1>a, <2>3
    <3>2. (counter + 1) % Modulus = 0
        BY <1>0, <1>a, <2>3, <3>1, QuotientUnique,
           0 \in Nat, 1 \in Nat, counter + 1 \in Nat
    <3>3. (drawn % Modulus) + 1 = Modulus
        BY <2>1, <2>3
    <3>4. /\ (drawn + 1) % Modulus = 0
          /\ (drawn + 1) \div Modulus = drawn \div Modulus + 1
        BY <1>a, <3>3, SuccessorDivision
    <3> QED  BY <2>1, <2>3, <3>2, <3>4
  <2> QED  BY <1>a, <1>0, <2>2, <2>3
<1>6. ASSUME NEW i \in Indices
      PROVE  Tickets(i)' = Tickets(i) + (IF counter % length = i THEN 1 ELSE 0)
  <2>1. PICK q \in Nat : q = drawn \div Modulus
      BY <1>a, <1>0
  <2>2. PICK t \in Nat : t = Seen(Modulus, length, i)
      BY <1>0, <1>a, SeenNext
  <2>3. /\ Seen(counter, length, i) \in Nat
        /\ Seen(counter + 1, length, i)
              = Seen(counter, length, i) + (IF counter % length = i THEN 1 ELSE 0)
      BY <1>b
  <2>4. Tickets(i) = q * t + Seen(counter, length, i)
      BY <2>1, <2>2 DEF Tickets
  <2>5. CASE counter + 1 < Modulus
    <3>1. Tickets(i)' = q * t + Seen(counter + 1, length, i)
        BY <1>0, <1>a, <1>5, <2>1, <2>2, <2>5 DEF Tickets
    <3> QED  BY <2>3, <2>4, <3>1, q * t \in Nat
  <2>6. CASE counter + 1 = Modulus
    <3>1. Tickets(i)' = (q + 1) * t + Seen(0, length, i)
        BY <1>0, <1>a, <1>5, <2>1, <2>2, <2>6 DEF Tickets
    <3>2. Seen(0, length, i) = 0
        BY <1>0, <1>a, SeenNext
    <3>3. t = Seen(counter, length, i) + (IF counter % length = i THEN 1 ELSE 0)
        BY <2>2, <2>3, <2>6
    <3>4. (q + 1) * t = q * t + t
        BY <2>1, <2>2
    <3> QED  BY <2>2, <2>3, <2>4, <3>1, <3>2, <3>3, <3>4, q * t \in Nat
  <2> QED  BY <1>0, <1>a, <2>5, <2>6
<1>7. ASSUME NEW i \in Indices
      PROVE  Cardinality(Picking(i)')
                = Cardinality(Picking(i)) + (IF counter % length = i THEN 1 ELSE 0)
  <2>1. IsFiniteSet(Picking(i)) /\ c \notin Picking(i)
      BY <1>3, FS_Subset DEF Picking, TicketsOK
  <2>2. CASE counter % length = i
    <3>1. next'[c] % length = i /\ \A d \in InFlight : next'[d] = next[d]
        BY <1>3, <2>2 DEF TypeOK, InFlight
    <3>2. Picking(i)' = Picking(i) \cup {c}
        BY <1>3, <3>1 DEF Picking
    <3> QED  BY <2>1, <2>2, <3>2, FS_AddElement, FS_CardinalityType
  <2>3. CASE counter % length # i
    <3>1. Picking(i)' = Picking(i)
        BY <1>3, <2>3 DEF Picking, TypeOK
    <3> QED  BY <2>1, <2>3, <3>1, FS_CardinalityType
  <2> QED  BY <2>2, <2>3
<1>8. ASSUME NEW i \in Indices'
      PROVE  share'[i] + Cardinality(Picking(i)') = Tickets(i)'
  <2>1. i \in Indices /\ share' = share
      BY <1>8
  <2>2. share[i] + Cardinality(Picking(i)) = Tickets(i) /\ share[i] \in Nat
      BY <1>a, <2>1 DEF TicketsOK, TypeOK
  <2>3. Cardinality(Picking(i)) \in Nat
      BY <1>3, FS_Subset, FS_CardinalityType DEF Picking, TicketsOK
  <2> QED  BY <1>6, <1>7, <2>1, <2>2, <2>3
<1>9. TicketsOK'
    BY <1>4, <1>5, <1>8 DEF TicketsOK
<1> QED  BY <1>1, <1>2, <1>9

\* The ticket is used: it moves from its caller to the share of a replica.
LEMMA PickReplicaStep ==
    ASSUME IInv, NEW c \in Callers, PickReplica(c)
    PROVE  IInv'
<1> USE DEF IInv, PickReplica, Answer
<1>0. length \in Nat /\ length > 1 /\ next[c] \in Nat /\ c \in InFlight
    BY LengthFacts DEF CallsOK, CallOK, InFlight, TypeOK
<1> DEFINE k == next[c] % length
<1>1. k \in Indices
    BY <1>0
<1>2. answer'[c] = k
    BY DEF TypeOK
<1>3. share' = [share EXCEPT ![k] = @ + 1]
    BY <1>2
<1> HIDE DEF k
<1>4. TypeOK'
    BY <1>0, <1>1, <1>3, SMTT(30) DEF TypeOK, k
<1>5. CallsOK'
    BY DEF CallsOK, CallOK, TypeOK
<1>6. InFlight' = InFlight \ {c}
    BY DEF InFlight, TypeOK
<1>7. IsFiniteSet(InFlight')
    BY <1>6, FS_RemoveElement DEF TicketsOK
<1>8. ASSUME NEW i \in Indices
      PROVE  share'[i] + Cardinality(Picking(i)') = Tickets(i)'
  <2>1. /\ Tickets(i)' = Tickets(i)
        /\ Tickets(i) = share[i] + Cardinality(Picking(i))
        /\ share[i] \in Nat
    <3>1. Tickets(i)' = Tickets(i)
        BY DEF Tickets
    <3>2. Tickets(i) = share[i] + Cardinality(Picking(i))
        BY <1>0 DEF TicketsOK
    <3> QED  BY <3>1, <3>2 DEF TypeOK
  <2>2. IsFiniteSet(Picking(i))
      BY FS_Subset DEF Picking, TicketsOK
  <2>3. CASE i = k
    <3>1. Picking(i)' = Picking(i) \ {c} /\ c \in Picking(i)
        BY <1>0, <1>6, <2>3 DEF Picking, k
    <3>2. share'[i] = share[i] + 1
        BY <1>3, <2>3 DEF TypeOK
    <3>3. /\ Cardinality(Picking(i)') = Cardinality(Picking(i)) - 1
          /\ Cardinality(Picking(i)) \in Nat
        BY <2>2, <3>1, FS_RemoveElement, FS_CardinalityType
    <3> QED  BY <2>1, <3>2, <3>3
  <2>4. CASE i # k
    <3>1. Picking(i)' = Picking(i)
        BY <1>0, <1>6, <2>4 DEF Picking, k
    <3>2. share'[i] = share[i]
        BY <1>3, <2>4 DEF TypeOK
    <3> QED  BY <2>1, <3>1, <3>2
  <2> QED  BY <2>3, <2>4
<1>9. TicketsOK'
    BY <1>7, <1>8 DEF TicketsOK
<1> QED  BY <1>4, <1>5, <1>9

\* Every step keeps the invariant.
LEMMA NextIInv == IInv /\ [Next]_vars => IInv'
<1> SUFFICES ASSUME IInv, [Next]_vars PROVE IInv'
    OBVIOUS
<1>1. CASE UNCHANGED vars
    BY <1>1 DEF vars, IInv, TypeOK, CallsOK, CallOK, TicketsOK, Picking, Tickets, InFlight
<1>2. ASSUME NEW c \in Callers, DrawTicket(c) PROVE IInv'
    BY <1>2, DrawTicketStep
<1>3. ASSUME NEW c \in Callers, PickReplica(c) PROVE IInv'
    BY <1>3, PickReplicaStep
<1> QED  BY <1>1, <1>2, <1>3, QuietStep DEF Next

-----------------------------------------------------------------------------
(* Routing: what follows. *)

\* At every step of concurrent calls of ReadPool, every ticket of the round-robin
\* counter that has been drawn is accounted for.
THEOREM InductiveInvariant == Spec => []IInv
    BY InitIInv, NextIInv, PTL DEF Spec

\* InPrimaryTx runs on the primary in the access mode it was given; InReadTx runs
\* read-only wherever its policy leads, after a fallback to the primary too.
THEOREM OnlyPrimaryWrites == Spec => []WritesOnPrimary
<1>1. IInv => WritesOnPrimary
    BY DEF IInv, TypeOK, CallsOK, CallOK, WritesOnPrimary
<1> QED  BY <1>1, InductiveInvariant, PTL

\* ReadReplicaPreferred ends on the primary only when the selector has answered that no
\* replica is eligible (ReadPool).
THEOREM Fallback == Spec => []FallsBackOnlyWithoutReplica
<1>1. IInv => FallsBackOnlyWithoutReplica
    BY DEF IInv, CallsOK, CallOK, FallsBackOnlyWithoutReplica
<1> QED  BY <1>1, InductiveInvariant, PTL

\* The account bounds the difference of any two shares.
LEMMA Balanced ==
    ASSUME IInv, NEW i \in Indices, NEW j \in Indices
    PROVE  share[i] - share[j] <= 1 + Cardinality(InFlight) + BrokenRotations
<1> USE DEF IInv
<1>0. /\ length \in Nat /\ length > 0 /\ Modulus \in Nat /\ Modulus > 0
      /\ counter \in Nat /\ drawn \in Nat
    BY LengthFacts DEF TypeOK
<1>1. ASSUME NEW k \in Indices
      PROVE  /\ share[k] \in Nat /\ Cardinality(Picking(k)) \in Nat
             /\ share[k] + Cardinality(Picking(k)) = Tickets(k)
             /\ Cardinality(Picking(k)) <= Cardinality(InFlight)
             /\ Cardinality(InFlight) \in Nat
    BY <1>0, FS_Subset, FS_CardinalityType DEF Picking, TypeOK, TicketsOK
<1>2. PICK q \in Nat : q = drawn \div Modulus
    BY <1>0
<1> DEFINE a(k) == Seen(Modulus, length, k)
           r(k) == Seen(counter, length, k)
<1>3. /\ a(i) \in Nat /\ a(j) \in Nat /\ r(i) \in Nat /\ r(j) \in Nat
      /\ a(i) - a(j) <= 1 /\ r(i) - r(j) <= 1
      /\ Modulus % length = 0 => a(i) = a(j)
  <2>1. length > 0 /\ i \in 0..(length - 1) /\ j \in 0..(length - 1)
      BY <1>0
  <2>2. a(i) \in Nat /\ a(j) \in Nat /\ r(i) \in Nat /\ r(j) \in Nat
      BY <1>0, <2>1, SeenNext
  <2>3. a(i) - a(j) <= 1 /\ (Modulus % length = 0 => a(i) = a(j))
      BY <1>0, <2>1, SeenApart
  <2>4. r(i) - r(j) <= 1
      BY <1>0, <2>1, SeenApart
  <2> QED  BY <2>2, <2>3, <2>4
<1>4. Tickets(i) = q * a(i) + r(i) /\ Tickets(j) = q * a(j) + r(j)
    BY <1>2 DEF Tickets
<1> HIDE DEF a, r
<1>5. q * a(i) - q * a(j) <= BrokenRotations /\ BrokenRotations \in Nat
  <2>1. CASE Modulus % length = 0
      BY <1>2, <1>3, <2>1 DEF BrokenRotations
  <2>2. CASE Modulus % length # 0
    <3>1. BrokenRotations = q
        BY <1>2, <2>2 DEF BrokenRotations
    <3>2. PICK d \in Nat : a(j) + 1 = a(i) + d
      <4>1. a(j) + 1 - a(i) \in Nat /\ a(j) + 1 = a(i) + (a(j) + 1 - a(i))
          BY <1>3
      <4> QED  BY <4>1
    <3>3. q * (a(j) + 1) = q * (a(i) + d)
        BY <3>2
    <3>4. q * a(j) + q = q * a(i) + q * d /\ q * d \in Nat
        BY <1>3, <3>2, <3>3
    <3> QED  BY <1>3, <3>1, <3>4, q * a(i) \in Nat, q * a(j) \in Nat
  <2> QED  BY <2>1, <2>2
<1>6. q * a(i) \in Nat /\ q * a(j) \in Nat
    BY <1>3
<1> QED  BY <1>1, <1>3, <1>4, <1>5, <1>6

\* The round-robin selector spreads concurrent reads evenly, for every number of
\* replicas and of callers, through every wrap-around of its counter.
THEOREM EvenSpread == Spec => []EvenShares
<1>1. IInv => EvenShares
    BY Balanced DEF EvenShares
<1> QED  BY <1>1, InductiveInvariant, PTL

-----------------------------------------------------------------------------
(* Rendezvous: the inductive invariant. *)

\* What the candidates of a call share of the input.
Start(ns, k) == PutUint32(Len(ns)) \o ns \o KeyPart(Encode(k))

\* The whole of it, whatever is left in the buffer from other candidates.
Whole(ns, k, id) ==
    LET part == PutUint32(Len(id)) \o id IN
    [i \in 1..(Len(Start(ns, k)) + 1 + Len(id)) |->
        IF i <= Len(Start(ns, k)) THEN Start(ns, k)[i] ELSE part[i - Len(Start(ns, k))]]

ResolverTypeOK ==
    /\ encoder \in {"bytes", "int64", "uint64"}
    /\ shards \in Seq(IDs)
    /\ \A i \in 1..Len(shards) : Len(shards[i]) <= MaxUint32
    /\ namespace \in Seq(Nat) /\ Len(namespace) <= MaxUint32
    /\ stage \in {"idle", "loop"}

\* What has been hashed is the input of a namespace, a key and an ID, and the hash is
\* a function.
HashedOK ==
    /\ \A h \in hashed :
          /\ h.namespace \in Seq(Nat) /\ Len(h.namespace) <= MaxUint32
          /\ h.key \in Keys /\ Len(Encode(h.key)) <= MaxUint32
          /\ h.id \in IDs /\ Len(h.id) <= MaxUint32
          /\ h.input = Whole(h.namespace, h.key, h.id)
          /\ h.score \in Nat
    /\ \A g, h \in hashed : g.input = h.input => g.score = h.score

\* In H the score of a namespace, a key and an ID is s.
Hash(H, ns, k, id, s) ==
    \E h \in H : h.namespace = ns /\ h.key = k /\ h.id = id /\ h.score = s

\* In H, w is at least as good for the key as id.
Beats(H, ns, k, w, id) ==
    \E s, r \in Nat : /\ Hash(H, ns, k, w, s) /\ Hash(H, ns, k, id, r)
                      /\ (r < s \/ (r = s /\ (w = id \/ Before(w, id))))

\* The buffer begins with what the candidates share, whatever they have left behind.
BufferOK ==
    stage = "loop" =>
        /\ key \in Keys /\ Len(Encode(key)) <= MaxUint32
        /\ DOMAIN buffer = 1..Len(buffer)
        /\ Len(buffer) = Len(Start(namespace, key)) + 1 + maxIDLength
        /\ \A i \in 1..Len(Start(namespace, key)) : buffer[i] = Start(namespace, key)[i]

\* The best index so far is the best of those before index.
LoopOK ==
    stage = "loop" =>
        /\ Len(shards) > 0
        /\ index \in 1..(Len(shards) + 1)
        /\ hasBest <=> index > 1
        /\ hasBest => /\ \E j \in 1..(index - 1) : bestID = shards[j]
                      /\ best \in Nat
                      /\ Hash(hashed, namespace, key, bestID, best)
        /\ \A j \in 1..(index - 1) : Beats(hashed, namespace, key, bestID, shards[j])

\* The shard of a key is the best of all shards.
PlacedOK ==
    \A p \in placed :
        /\ p.shards \subseteq IDs
        /\ p.shard \in p.shards
        /\ \A id \in p.shards : Beats(hashed, p.namespace, p.key, p.shard, id)

ResolverInv == ResolverTypeOK /\ HashedOK /\ BufferOK /\ LoopOK /\ PlacedOK

-----------------------------------------------------------------------------
(* Rendezvous: the input of the hash. *)

USE IDsAssumption, BytesAssumption, WidthAssumption, ScoresAssumption

LEMMA LengthPrefix ==
    ASSUME NEW n \in Nat
    PROVE  /\ PutUint32(n) \in Seq(Nat) /\ Len(PutUint32(n)) = 1
           /\ PutUint32(n)[1] = n % (MaxUint32 + 1)
           /\ n <= MaxUint32 => PutUint32(n)[1] = n
    BY DEF PutUint32

\* An encoded key is a sequence.
LEMMA EncodeFacts ==
    ASSUME ResolverTypeOK, NEW k \in Keys
    PROVE  \E S : Nat \subseteq S /\ Encode(k) \in Seq(S)
<1>1. CASE encoder = "bytes"
    BY <1>1 DEF Keys, Encode
<1>2. CASE encoder # "bytes"
  <2>1. Encode(k) = PutUint64(k)
      BY <1>2 DEF Encode
  <2>2. ASSUME NEW T, NEW f, f = [i \in 1..Width |-> T[i]]
        PROVE  f \in Seq(Nat \cup {T[i] : i \in 1..Width})
      BY <2>2
  <2> DEFINE T == [i \in 1..Width |-> ((k % PowerOf2[Width]) \div PowerOf2[Width - i]) % 2]
  <2>3. PutUint64(k) = [i \in 1..Width |-> T[i]]
      BY DEF PutUint64
  <2>4. PutUint64(k) \in Seq(Nat \cup {T[i] : i \in 1..Width})
      BY <2>2, <2>3
  <2> QED  BY <2>1, <2>4
<1> QED  BY <1>1, <1>2

\* The two parts of what the candidates share.
LEMMA StartFacts ==
    ASSUME ResolverTypeOK, NEW ns \in Seq(Nat), NEW k \in Keys
    PROVE  \E S : /\ Nat \subseteq S
                  /\ PutUint32(Len(ns)) \o ns \in Seq(S)
                  /\ Len(PutUint32(Len(ns)) \o ns) = 1 + Len(ns)
                  /\ KeyPart(Encode(k)) \in Seq(S)
                  /\ Len(KeyPart(Encode(k))) = 1 + Len(Encode(k))
                  /\ Len(Encode(k)) \in Nat
                  /\ Start(ns, k) \in Seq(S)
<1> DEFINE e == Encode(k)
           a == PutUint32(Len(ns))
           b == PutUint32(Len(e))
<1>1. PICK S : Nat \subseteq S /\ e \in Seq(S)
    BY EncodeFacts
<1>2. Len(ns) \in Nat /\ Len(e) \in Nat
    BY <1>1
<1>3. a \in Seq(Nat) /\ b \in Seq(Nat) /\ Len(a) = 1 /\ Len(b) = 1
    BY <1>2, LengthPrefix
<1>4. ASSUME NEW s \in Seq(Nat) PROVE s \in Seq(S)
    BY <1>1
<1>5. ns \in Seq(S) /\ a \in Seq(S) /\ b \in Seq(S)
    BY <1>3, <1>4
<1>6. Start(ns, k) = (a \o ns) \o (b \o e) /\ KeyPart(e) = b \o e
    BY DEF Start, KeyPart
<1> HIDE DEF e, a, b
<1>c. ASSUME NEW s \in Seq(S), NEW t \in Seq(S)
      PROVE  s \o t \in Seq(S) /\ Len(s \o t) = Len(s) + Len(t)
    OBVIOUS
<1>7. a \o ns \in Seq(S) /\ Len(a \o ns) = 1 + Len(ns)
    BY <1>5, <1>3, <1>c
<1>8. b \o e \in Seq(S) /\ Len(b \o e) = 1 + Len(e)
    BY <1>1, <1>5, <1>3, <1>c
<1>9. (a \o ns) \o (b \o e) \in Seq(S)
    BY <1>7, <1>8, <1>c
<1> QED  BY <1>1, <1>2, <1>6, <1>7, <1>8, <1>9 DEF e, a, b

\* The length prefix is a prefix of the buffer, and so is the input of the index
\* that is hashed, whatever the others have left behind it.
LEMMA InputIsWhole ==
    ASSUME ResolverTypeOK, BufferOK, stage = "loop",
           NEW id \in IDs, Len(id) <= maxIDLength,
           maxIDLength \in Nat
    PROVE  /\ Input(id) = Whole(namespace, key, id)
           /\ DOMAIN Copy(id) = 1..Len(buffer) /\ Len(Copy(id)) = Len(buffer)
           /\ \A i \in 1..Len(Start(namespace, key)) : Copy(id)[i] = buffer[i]
<1> DEFINE start == Start(namespace, key)
           part == PutUint32(Len(id)) \o id
           l == Len(start)
<1>1. l \in Nat /\ namespace \in Seq(Nat) /\ key \in Keys
  <2>1. namespace \in Seq(Nat) /\ key \in Keys
      BY DEF ResolverTypeOK, BufferOK
  <2> QED  BY <2>1, StartFacts
<1>2. id \in Seq(Nat) /\ Len(id) \in Nat
    OBVIOUS
<1>3. DOMAIN part = 1..(1 + Len(id))
  <2>1. PutUint32(Len(id)) \in Seq(Nat) /\ Len(PutUint32(Len(id))) = 1
      BY <1>2, LengthPrefix
  <2> DEFINE a == PutUint32(Len(id))
  <2> HIDE DEF a
  <2>c. ASSUME NEW s \in Seq(Nat), NEW t \in Seq(Nat)
        PROVE  s \o t \in Seq(Nat) /\ Len(s \o t) = Len(s) + Len(t)
      OBVIOUS
  <2>2. a \o id \in Seq(Nat) /\ Len(a \o id) = 1 + Len(id)
      BY <1>2, <2>1, <2>c DEF a
  <2> QED  BY <2>2, <1>2 DEF a
<1>4. /\ DOMAIN buffer = 1..Len(buffer)
      /\ Len(buffer) = l + 1 + maxIDLength
      /\ \A i \in 1..l : buffer[i] = start[i]
    BY DEF BufferOK
<1>5. Whole(namespace, key, id)
         = [i \in 1..(l + 1 + Len(id)) |-> IF i <= l THEN start[i] ELSE part[i - l]]
    BY DEF Whole
<1>6. idLengthOffset = l
    BY <1>1, <1>4 DEF idLengthOffset
<1> DEFINE c == [i \in 1..Len(buffer) |->
                    IF i - l \in DOMAIN part THEN part[i - l] ELSE buffer[i]]
<1>7. Copy(id) = c
    BY <1>4, <1>6 DEF Copy
<1>8. Input(id) = SubSeq(c, 1, l + 1 + Len(id))
    BY <1>6, <1>7 DEF Input
<1> HIDE DEF start, part, l
<1>9. Len(c) = Len(buffer) /\ DOMAIN c = 1..Len(buffer) /\ Len(buffer) \in Nat
    BY <1>1, <1>4
<1>10. \A i \in 1..l : c[i] = buffer[i]
    BY <1>1, <1>3, <1>4, <1>2
<1>11. \A i \in 1..(l + 1 + Len(id)) : c[i] = IF i <= l THEN start[i] ELSE part[i - l]
    BY <1>1, <1>2, <1>3, <1>4
<1> HIDE DEF c
<1>12. SubSeq(c, 1, l + 1 + Len(id)) = [i \in 1..(l + 1 + Len(id)) |-> c[i]]
    BY <1>1, <1>2
<1>13. Input(id) = Whole(namespace, key, id)
    BY <1>5, <1>8, <1>11, <1>12
<1> QED  BY <1>7, <1>9, <1>10, <1>13 DEF l, start

-----------------------------------------------------------------------------
(* Rendezvous: the longest ID. *)

LEMMA ShardFacts ==
    ASSUME ResolverTypeOK
    PROVE  /\ Len(shards) \in Nat /\ DOMAIN shards = 1..Len(shards)
           /\ \A i \in 1..Len(shards) : shards[i] \in IDs
           /\ ToSet(shards) = {shards[i] : i \in 1..Len(shards)}
<1>1. shards \in Seq(IDs)
    BY DEF ResolverTypeOK
<1>2. /\ Len(shards) \in Nat /\ DOMAIN shards = 1..Len(shards)
      /\ \A i \in 1..Len(shards) : shards[i] \in IDs
    BY ONLY <1>1
<1>3. ToSet(shards) = {shards[i] : i \in 1..Len(shards)}
    BY ONLY <1>2 DEF ToSet
<1> QED  BY <1>2, <1>3

\* The lengths of the IDs have a maximum, since each fits its prefix.
LEMMA LongestID ==
    ASSUME ResolverTypeOK, Len(shards) > 0
    PROVE  /\ maxIDLength \in Nat
           /\ \A i \in 1..Len(shards) : Len(shards[i]) <= maxIDLength
<1> DEFINE L == {Len(id) : id \in ToSet(shards)}
           D == {n \in Nat : MaxUint32 - n \in L}
<1>1. /\ \A i \in 1..Len(shards) : shards[i] \in IDs /\ Len(shards[i]) \in L
      /\ Len(shards) \in Nat
    BY ShardFacts
<1>2. \A n \in L : n \in Nat /\ n <= MaxUint32
  <2>1. SUFFICES ASSUME NEW i \in 1..Len(shards)
                 PROVE  Len(shards[i]) \in Nat /\ Len(shards[i]) <= MaxUint32
      BY ShardFacts
  <2>2. shards[i] \in Seq(Nat)
      BY <1>1
  <2> QED  BY <2>2 DEF ResolverTypeOK
<1> HIDE DEF L
<1>3. \E n \in L : TRUE
    BY <1>1, 1 \in 1..Len(shards)
<1>4. PICK n \in L : TRUE
    BY <1>3
<1>5. MaxUint32 - n \in D
    BY <1>2, MaxUint32 - (MaxUint32 - n) = n
<1>6. PICK d \in D : \A x \in D : d <= x
    BY <1>5, Smallest
<1>7. \A x \in L : MaxUint32 - d >= x
  <2>1. SUFFICES ASSUME NEW x \in L PROVE MaxUint32 - d >= x
      OBVIOUS
  <2>2. x \in Nat /\ x <= MaxUint32 /\ MaxUint32 - (MaxUint32 - x) = x
      BY <1>2
  <2>3. MaxUint32 - x \in D
      BY <2>2
  <2>4. d \in Nat /\ d <= MaxUint32 - x
      BY <1>6, <2>3
  <2> QED  BY <2>2, <2>4
<1>8. MaxUint32 - d \in L
    BY <1>6
<1>9. maxIDLength = Max(L)
    BY DEF maxIDLength, L
<1>10. Max(L) \in L /\ \A x \in L : Max(L) >= x
    BY <1>7, <1>8 DEF Max
<1>11. maxIDLength \in L /\ \A x \in L : x <= maxIDLength
  <2>1. ASSUME NEW x \in L PROVE x <= maxIDLength
    <3>1. Max(L) >= x /\ x \in Nat /\ Max(L) \in Nat
        BY <1>2, <1>10
    <3> QED  BY <1>9, <3>1
  <2> QED  BY <1>9, <1>10, <2>1
<1> QED  BY <1>1, <1>2, <1>11

-----------------------------------------------------------------------------
(* Rendezvous: scores. *)

\* A namespace, a key and an ID have one score.
LEMMA OneScore ==
    ASSUME HashedOK, NEW ns, NEW k, NEW id, NEW s, NEW r,
           Hash(hashed, ns, k, id, s), Hash(hashed, ns, k, id, r)
    PROVE  s = r /\ s \in Nat
<1>1. PICK g \in hashed : g.namespace = ns /\ g.key = k /\ g.id = id /\ g.score = s
    BY DEF Hash
<1>2. PICK h \in hashed : h.namespace = ns /\ h.key = k /\ h.id = id /\ h.score = r
    BY DEF Hash
<1>3. g.input = Whole(ns, k, id) /\ h.input = Whole(ns, k, id)
    BY <1>1, <1>2 DEF HashedOK
<1> QED  BY <1>1, <1>2, <1>3 DEF HashedOK

\* Only one ID of a set can be the best of it.
LEMMA BeatsAntisymmetric ==
    ASSUME HashedOK, NEW ns, NEW k, NEW v \in IDs, NEW w \in IDs,
           Beats(hashed, ns, k, v, w), Beats(hashed, ns, k, w, v)
    PROVE  v = w
<1>1. PICK s \in Nat, r \in Nat :
         /\ Hash(hashed, ns, k, v, s) /\ Hash(hashed, ns, k, w, r)
         /\ r < s \/ (r = s /\ (v = w \/ Before(v, w)))
    BY DEF Beats
<1>2. PICK t \in Nat, u \in Nat :
         /\ Hash(hashed, ns, k, w, t) /\ Hash(hashed, ns, k, v, u)
         /\ u < t \/ (u = t /\ (w = v \/ Before(w, v)))
    BY DEF Beats
<1>3. s = u /\ r = t
    BY <1>1, <1>2, OneScore
<1>4. v \in Seq(Nat) /\ w \in Seq(Nat)
    OBVIOUS
<1>5. ~(Before(v, w) /\ Before(w, v))
    BY <1>4, BeforeAsymmetric
<1> QED  BY <1>1, <1>2, <1>3, <1>5

-----------------------------------------------------------------------------
(* Rendezvous: the invariant is inductive. *)

LEMMA ResolverInitOK == RendezvousInit => ResolverInv
<1> SUFFICES ASSUME RendezvousInit PROVE ResolverInv
    OBVIOUS
<1> USE DEF RendezvousInit
<1>1. <<>> \in Seq(IDs) /\ <<>> \in Seq(Nat) /\ Len(<<>>) = 0
    OBVIOUS
<1>2. ResolverTypeOK
    BY <1>1 DEF ResolverTypeOK
<1> QED  BY <1>2 DEF ResolverInv, HashedOK, BufferOK, LoopOK, PlacedOK

\* A step that computes no hash changes nothing about what has been hashed.
LEMMA HashedKept ==
    ASSUME HashedOK, UNCHANGED <<encoder, hashed>>
    PROVE  /\ HashedOK'
           /\ \A ns, k, w, id : Beats(hashed, ns, k, w, id) => Beats(hashed', ns, k, w, id)
           /\ \A ns, k, id, s : Hash(hashed, ns, k, id, s) => Hash(hashed', ns, k, id, s)
<1>1. HashedOK'
  <2>1. Keys' = Keys
      BY DEF Keys
  <2>2. ASSUME NEW k PROVE Encode(k)' = Encode(k)
      BY DEF Encode
  <2>3. ASSUME NEW ns, NEW k, NEW id PROVE Whole(ns, k, id)' = Whole(ns, k, id)
      BY DEF Whole, Start, KeyPart, Encode
  <2>4. ASSUME NEW h \in hashed
        PROVE  /\ h.namespace \in Seq(Nat) /\ Len(h.namespace) <= MaxUint32
               /\ h.key \in Keys' /\ Len(Encode(h.key)') <= MaxUint32
               /\ h.id \in IDs /\ Len(h.id) <= MaxUint32
               /\ h.input = Whole(h.namespace, h.key, h.id)'
               /\ h.score \in Nat
      BY <2>1, <2>2, <2>3 DEF HashedOK
  <2> QED  BY <2>4 DEF HashedOK
<1>2. \A ns, k, id, s : Hash(hashed, ns, k, id, s) => Hash(hashed', ns, k, id, s)
    BY DEF Hash
<1>3. \A ns, k, w, id : Beats(hashed, ns, k, w, id) => Beats(hashed', ns, k, w, id)
    BY DEF Beats, Hash
<1> QED  BY <1>1, <1>2, <1>3

LEMMA PlacedKept ==
    ASSUME PlacedOK, UNCHANGED placed,
           \A ns, k, w, id : Beats(hashed, ns, k, w, id) => Beats(hashed', ns, k, w, id)
    PROVE  PlacedOK'
    BY DEF PlacedOK

LEMMA NewRendezvousOK == ResolverInv /\ NewRendezvous => ResolverInv'
<1> SUFFICES ASSUME ResolverInv, NewRendezvous PROVE ResolverInv'
    OBVIOUS
<1>1. PICK order \in Orders, text \in Namespaces \ {<<>>} :
         /\ \A s \in {text} \cup ToSet(order) : Len(s) <= MaxUint32
         /\ shards' = order /\ namespace' = text
    BY DEF NewRendezvous
<1>2. order \in Seq(IDs)
  <2>1. PICK S \in (SUBSET IDs) \ {{}} : order \in SetToSeqs(S)
      BY <1>1 DEF Orders
  <2>2. IsFiniteSet(S)
      BY <2>1, FS_Subset
  <2>3. PICK n : n = Cardinality(S)
      OBVIOUS
  <2>4. n \in Nat
    <3>1. n = Cardinality(S)
        BY <2>3 DEF Cardinality, Cardinality
    <3> QED  BY <2>2, <3>1, FS_CardinalityType
  <2>5. order \in [1..n -> S]
      BY <2>1, <2>3 DEF SetToSeqs
  <2>6. ASSUME NEW c \in Nat, NEW f, f \in [1..c -> IDs]
        PROVE  f \in Seq(IDs)
      BY ONLY <2>6
  <2>7. order \in [1..n -> IDs]
      BY <2>1, <2>5
  <2> QED  BY <2>4, <2>6, <2>7
<1>3. \A i \in 1..Len(order) : Len(order[i]) <= MaxUint32
  <2>1. ASSUME NEW i \in 1..Len(order) PROVE order[i] \in ToSet(order)
      BY <1>2, <2>1 DEF ToSet
  <2> QED  BY <1>1, <2>1
<1>4. /\ UNCHANGED <<encoder, stage, hashed, placed>>
      /\ stage = "idle"
    BY DEF NewRendezvous
<1>5. ResolverTypeOK'
    BY <1>1, <1>2, <1>3, <1>4 DEF ResolverInv, ResolverTypeOK
<1>6. HashedOK' /\ PlacedOK'
    BY <1>4, HashedKept, PlacedKept DEF ResolverInv
<1> QED  BY <1>4, <1>5, <1>6 DEF ResolverInv, BufferOK, LoopOK

LEMMA ResolveOK ==
    ASSUME NEW k \in Keys, ResolverInv, Resolve(k)
    PROVE  ResolverInv'
<1> USE DEF Resolve, resolverVars
<1> DEFINE start == Start(namespace, k)
           zeros == [i \in 1..(1 + maxIDLength) |-> 0]
<1>1. ResolverTypeOK /\ ResolverTypeOK'
    BY DEF ResolverInv, ResolverTypeOK
<1>2. HashedOK' /\ PlacedOK'
    BY HashedKept, PlacedKept DEF ResolverInv
<1>3. Len(shards) \in Nat /\ Len(shards) > 0
  <2>1. shards \in Seq(IDs) /\ shards # <<>>
      BY <1>1 DEF ResolverTypeOK
  <2> QED  BY <2>1
<1>4. maxIDLength \in Nat
    BY <1>1, <1>3, LongestID
<1>5. Start(namespace, k)' = start /\ key' = k /\ namespace' = namespace /\ k \in Keys'
    BY DEF Start, KeyPart, Encode, Keys
<1>6. PICK S : Nat \subseteq S /\ start \in Seq(S)
    BY <1>1, StartFacts DEF ResolverTypeOK
<1>7. buffer' = start \o zeros
    BY DEF Start, Prefix
<1>8. zeros \in Seq(S) /\ Len(zeros) = 1 + maxIDLength
    BY <1>4, <1>6
<1> HIDE DEF start, zeros
<1>9. ASSUME NEW s \in Seq(S), NEW t \in Seq(S)
      PROVE  /\ Len(s \o t) = Len(s) + Len(t) /\ DOMAIN (s \o t) = 1..Len(s \o t)
             /\ \A i \in 1..Len(s) : (s \o t)[i] = s[i]
    OBVIOUS
<1>10. /\ DOMAIN buffer' = 1..Len(buffer') /\ Len(buffer') = Len(start) + Len(zeros)
       /\ \A i \in 1..Len(start) : buffer'[i] = start[i]
  <2>1. /\ Len(start \o zeros) = Len(start) + Len(zeros)
        /\ DOMAIN (start \o zeros) = 1..Len(start \o zeros)
        /\ \A i \in 1..Len(start) : (start \o zeros)[i] = start[i]
      BY <1>6, <1>8, <1>9
  <2> QED  BY ONLY <1>7, <2>1
<1>11. Len(start) \in Nat
    BY <1>6
<1>12. Len(buffer') = Len(start) + 1 + maxIDLength'
  <2>1. maxIDLength' = maxIDLength
      BY DEF maxIDLength
  <2> QED  BY <1>4, <1>8, <1>10, <1>11, <2>1
<1>13. Len(Encode(k)') <= MaxUint32
    BY DEF Encode
<1>14. BufferOK'
    BY <1>5, <1>10, <1>12, <1>13 DEF BufferOK, start
<1>15. LoopOK'
    BY <1>3 DEF LoopOK
<1> QED  BY <1>1, <1>2, <1>14, <1>15 DEF ResolverInv

\* What was hashed for one index keeps its score; another one is compared with the
\* best so far.
LEMMA CandidateOK == ResolverInv /\ Candidate => ResolverInv'
<1> SUFFICES ASSUME ResolverInv, Candidate PROVE ResolverInv'
    OBVIOUS
<1>i. PICK id : id = shards[index]
    OBVIOUS
<1>w. PICK w : w = bestID'
    OBVIOUS
<1>0. ResolverTypeOK /\ HashedOK /\ BufferOK /\ LoopOK /\ PlacedOK
    BY DEF ResolverInv
<1>1. /\ stage = "loop" /\ index \in 1..Len(shards) /\ Len(shards) \in Nat
      /\ \A j \in 1..Len(shards) : shards[j] \in IDs /\ shards[j] \in Seq(Nat)
      /\ id \in IDs
  <2>1. stage = "loop" /\ index <= Len(shards)
      BY DEF Candidate
  <2>2. /\ Len(shards) \in Nat
        /\ \A j \in 1..Len(shards) : shards[j] \in IDs /\ shards[j] \in Seq(Nat)
      BY <1>0, ShardFacts
  <2> QED  BY <1>0, <1>i, <2>1, <2>2 DEF LoopOK
<1>2. PICK score \in Scores :
         /\ \A h \in hashed : h.input = Input(id) => h.score = score
         /\ hashed' = hashed \cup {[input |-> Input(id), score |-> score,
                                    namespace |-> namespace, key |-> key, id |-> id]}
         /\ buffer' = Copy(id)
         /\ IF Better(score, id)
            THEN best' = score /\ bestID' = id /\ hasBest' = TRUE
            ELSE UNCHANGED <<best, bestID, hasBest>>
    BY <1>i DEF Candidate
<1>3. /\ index' = index + 1
      /\ UNCHANGED <<encoder, shards, namespace, stage, key, placed>>
    BY DEF Candidate, resolverVars
<1>4. maxIDLength \in Nat /\ Len(id) <= maxIDLength
    BY <1>0, <1>1, <1>i, LongestID
<1>5. /\ Input(id) = Whole(namespace, key, id)
      /\ DOMAIN Copy(id) = 1..Len(buffer) /\ Len(Copy(id)) = Len(buffer)
      /\ \A i \in 1..Len(Start(namespace, key)) : Copy(id)[i] = buffer[i]
    BY <1>0, <1>1, <1>4, InputIsWhole
<1>6. ResolverTypeOK'
    BY <1>0, <1>3 DEF ResolverTypeOK
<1>7. HashedOK'
  <2>1. Keys' = Keys
      BY <1>3 DEF Keys
  <2>2. ASSUME NEW k PROVE Encode(k)' = Encode(k)
      BY <1>3 DEF Encode
  <2>3. ASSUME NEW ns, NEW k, NEW i PROVE Whole(ns, k, i)' = Whole(ns, k, i)
      BY <1>3 DEF Whole, Start, KeyPart, Encode
  <2>4. /\ namespace \in Seq(Nat) /\ Len(namespace) <= MaxUint32
        /\ key \in Keys /\ Len(Encode(key)) <= MaxUint32
        /\ Len(id) <= MaxUint32 /\ score \in Nat
      BY <1>0, <1>1, <1>i DEF ResolverTypeOK, BufferOK
  <2>5. ASSUME NEW h \in hashed'
        PROVE  /\ h.namespace \in Seq(Nat) /\ Len(h.namespace) <= MaxUint32
               /\ h.key \in Keys /\ Len(Encode(h.key)) <= MaxUint32
               /\ h.id \in IDs /\ Len(h.id) <= MaxUint32
               /\ h.input = Whole(h.namespace, h.key, h.id)
               /\ h.score \in Nat
      BY <1>0, <1>1, <1>2, <1>5, <2>4 DEF HashedOK
  <2>6. \A g, h \in hashed' : g.input = h.input => g.score = h.score
      BY <1>0, <1>2 DEF HashedOK
  <2>7. \A h \in hashed' :
           /\ h.key \in Keys' /\ Len(Encode(h.key)') <= MaxUint32
           /\ h.input = Whole(h.namespace, h.key, h.id)'
      BY <2>1, <2>2, <2>3, <2>5
  <2> QED  BY <2>5, <2>6, <2>7 DEF HashedOK
<1>8. BufferOK'
  <2>1. /\ Keys' = Keys /\ Encode(key)' = Encode(key)
        /\ Start(namespace, key)' = Start(namespace, key)
        /\ maxIDLength' = maxIDLength
      BY <1>3 DEF Keys, Encode, Start, KeyPart, maxIDLength
  <2>2. /\ key \in Keys /\ Len(Encode(key)) <= MaxUint32
        /\ Len(buffer) = Len(Start(namespace, key)) + 1 + maxIDLength
        /\ \A i \in 1..Len(Start(namespace, key)) : buffer[i] = Start(namespace, key)[i]
      BY <1>0, <1>1 DEF BufferOK
  <2> QED  BY <1>2, <1>3, <1>5, <2>1, <2>2 DEF BufferOK
<1>9. \A ns, k, i, s : Hash(hashed, ns, k, i, s) => Hash(hashed', ns, k, i, s)
    BY <1>2 DEF Hash
<1>10. \A ns, k, v, i : Beats(hashed, ns, k, v, i) => Beats(hashed', ns, k, v, i)
    BY <1>9 DEF Beats
<1>11. Hash(hashed', namespace, key, id, score) /\ score \in Nat
  <2>1. [input |-> Input(id), score |-> score, namespace |-> namespace,
         key |-> key, id |-> id] \in hashed'
      BY <1>2
  <2> QED  BY <1>3, <2>1 DEF Hash
<1>12. PlacedOK'
    BY <1>0, <1>3, <1>10, PlacedKept
<1>13. /\ \E j \in 1..index : w = shards[j]
       /\ hasBest' /\ best' \in Nat
       /\ Hash(hashed', namespace, key, w, best')
       /\ \A j \in 1..index : Beats(hashed', namespace, key, w, shards[j])
  <2>1. CASE Better(score, id)
    <3>1. best' = score /\ w = id /\ hasBest'
        BY <1>2, <1>w, <2>1
    <3>2. ASSUME NEW j \in 1..(index - 1)
          PROVE  Beats(hashed', namespace, key, w, shards[j])
      <4>1. hasBest /\ best \in Nat /\ Hash(hashed, namespace, key, bestID, best)
            /\ Beats(hashed, namespace, key, bestID, shards[j])
          BY <1>0, <1>1, <3>2 DEF LoopOK
      <4>2. PICK s \in Nat, r \in Nat :
               /\ Hash(hashed, namespace, key, bestID, s)
               /\ Hash(hashed, namespace, key, shards[j], r)
               /\ r < s \/ (r = s /\ (bestID = shards[j] \/ Before(bestID, shards[j])))
          BY <4>1 DEF Beats
      <4>3. s = best
          BY <1>0, <4>1, <4>2, OneScore
      <4>4. score > best \/ (score = best /\ Before(id, bestID))
          BY <2>1, <4>1 DEF Better
      <4>5. /\ bestID \in Seq(Nat) /\ id \in Seq(Nat) /\ shards[j] \in Seq(Nat)
        <5>1. PICK l \in 1..(index - 1) : bestID = shards[l]
            BY <1>0, <1>1, <4>1 DEF LoopOK
        <5>2. \A n \in 1..Len(shards) : shards[n] \in Seq(Nat)
            BY ONLY <1>1
        <5>3. l \in 1..Len(shards) /\ j \in 1..Len(shards)
            BY ONLY <1>1, <3>2, <5>1
        <5> QED  BY ONLY <1>1, <1>i, <5>1, <5>2, <5>3
      <4>6. r < score \/ (r = score /\ Before(id, shards[j]))
        <5>1. CASE score > best
            BY <1>11, <4>1, <4>2, <4>3, <5>1
        <5>2. CASE score = best /\ Before(id, bestID) /\ r < best
            BY <5>2
        <5>3. CASE score = best /\ Before(id, bestID) /\ r = best
            BY <4>2, <4>3, <4>5, <5>3, BeforeTransitive
        <5> QED  BY <4>2, <4>3, <4>4, <5>1, <5>2, <5>3
      <4>7. Hash(hashed', namespace, key, shards[j], r)
          BY <1>9, <4>2
      <4> QED  BY <1>11, <3>1, <4>2, <4>6, <4>7 DEF Beats
    <3>3. Beats(hashed', namespace, key, w, shards[index])
        BY <1>i, <1>11, <3>1 DEF Beats
    <3>4. \A j \in 1..index : j \in 1..(index - 1) \/ j = index
        BY <1>1
    <3>5. Hash(hashed', namespace, key, w, best')
        BY <1>11, <3>1
    <3>6. \A j \in 1..index : Beats(hashed', namespace, key, w, shards[j])
        BY <3>2, <3>3, <3>4
    <3>7. \E j \in 1..index : w = shards[j]
        BY <1>1, <1>i, <3>1
    <3> QED  BY <1>11, <3>1, <3>5, <3>6, <3>7
  <2>2. CASE ~Better(score, id)
    <3>1. best' = best /\ w = bestID /\ hasBest' = hasBest /\ hasBest
        BY <1>2, <1>w, <2>2 DEF Better
    <3>2. /\ best \in Nat /\ Hash(hashed, namespace, key, bestID, best)
          /\ \E j \in 1..(index - 1) : bestID = shards[j]
          /\ \A j \in 1..(index - 1) : Beats(hashed, namespace, key, bestID, shards[j])
        BY <1>0, <1>1, <3>1 DEF LoopOK
    <3>3. bestID \in Seq(Nat) /\ id \in Seq(Nat)
      <4>1. PICK l \in 1..(index - 1) : bestID = shards[l]
          BY <3>2
      <4> QED  BY <1>1, <1>i, <4>1
    <3>4. score < best \/ (score = best /\ (bestID = id \/ Before(bestID, id)))
        BY <1>11, <2>2, <3>2, <3>3, BeforeTotal DEF Better
    <3>6. Hash(hashed', namespace, key, w, best')
        BY <1>9, <3>1, <3>2
    <3>7. Beats(hashed', namespace, key, w, shards[index])
        BY <1>i, <1>11, <3>1, <3>2, <3>4, <3>6 DEF Beats
    <3>8. ASSUME NEW j \in 1..(index - 1)
          PROVE  Beats(hashed', namespace, key, w, shards[j])
        BY <1>10, <3>1, <3>2, <3>8
    <3>9. \A j \in 1..index : j \in 1..(index - 1) \/ j = index
        BY <1>1
    <3>10. \A j \in 1..index : Beats(hashed', namespace, key, w, shards[j])
        BY <3>7, <3>8, <3>9
    <3>11. \E j \in 1..index : w = shards[j]
        BY <1>1, <3>1, <3>2
    <3> QED  BY <3>1, <3>2, <3>6, <3>10, <3>11
  <2> QED  BY <2>1, <2>2
<1>14. LoopOK'
  <2>1. /\ index' - 1 = index /\ index' \in 1..(Len(shards) + 1)
        /\ index' > 1 /\ Len(shards) > 0
      BY <1>1, <1>3
  <2> QED  BY <1>3, <1>w, <1>13, <2>1 DEF LoopOK
<1> QED  BY <1>6, <1>7, <1>8, <1>12, <1>14 DEF ResolverInv

\* The best of all candidates is the answer.
LEMMA SelectOK == ResolverInv /\ Select => ResolverInv'
<1> SUFFICES ASSUME ResolverInv, Select PROVE ResolverInv'
    OBVIOUS
<1>0. ResolverTypeOK /\ HashedOK /\ BufferOK /\ LoopOK /\ PlacedOK
    BY DEF ResolverInv
<1>1. /\ stage = "loop" /\ index > Len(shards) /\ stage' = "idle"
      /\ UNCHANGED <<encoder, shards, namespace, hashed>>
      /\ placed' = placed \cup {[namespace |-> namespace, key |-> key,
                                 shards |-> ToSet(shards),
                                 shard |-> IF hasBest THEN bestID ELSE None]}
    BY DEF Select, resolverVars
<1>2. ResolverTypeOK'
    BY <1>0, <1>1 DEF ResolverTypeOK
<1>3. /\ HashedOK'
      /\ \A ns, k, w, id : Beats(hashed, ns, k, w, id) => Beats(hashed', ns, k, w, id)
    BY <1>0, <1>1, HashedKept
<1>4. /\ Len(shards) \in Nat /\ ToSet(shards) = {shards[i] : i \in 1..Len(shards)}
      /\ ToSet(shards) \subseteq IDs
    BY <1>0, ShardFacts
<1>5. index = Len(shards) + 1 /\ hasBest
    BY <1>0, <1>1, <1>4 DEF LoopOK
<1>6. /\ bestID \in ToSet(shards)
      /\ \A id \in ToSet(shards) : Beats(hashed, namespace, key, bestID, id)
    BY <1>0, <1>1, <1>4, <1>5 DEF LoopOK
<1>7. ASSUME NEW p \in placed'
      PROVE  /\ p.shards \subseteq IDs
             /\ p.shard \in p.shards
             /\ \A id \in p.shards : Beats(hashed, p.namespace, p.key, p.shard, id)
    BY <1>0, <1>1, <1>4, <1>5, <1>6 DEF PlacedOK
<1>8. PlacedOK'
    BY <1>3, <1>7 DEF PlacedOK
<1> QED  BY <1>1, <1>2, <1>3, <1>8 DEF ResolverInv, BufferOK, LoopOK

LEMMA ResolverNextOK == ResolverInv /\ [RendezvousNext]_rendezvousVars => ResolverInv'
<1> SUFFICES ASSUME ResolverInv, [RendezvousNext]_rendezvousVars PROVE ResolverInv'
    OBVIOUS
<1>1. CASE UNCHANGED rendezvousVars
  <2>1. UNCHANGED <<encoder, shards, namespace, stage, key, buffer, index,
                    best, bestID, hasBest, hashed, placed>>
      BY <1>1 DEF rendezvousVars, resolverVars, loopVars
  <2>2. HashedOK' /\ PlacedOK'
      BY <2>1, HashedKept, PlacedKept DEF ResolverInv
  <2>3. ResolverTypeOK'
      BY <2>1 DEF ResolverInv, ResolverTypeOK
  <2>4. BufferOK'
      BY <2>1 DEF ResolverInv, BufferOK, Keys, Encode, Start, KeyPart, maxIDLength
  <2>5. LoopOK'
      BY <2>1 DEF ResolverInv, LoopOK, Beats, Hash
  <2> QED  BY <2>2, <2>3, <2>4, <2>5 DEF ResolverInv
<1> QED  BY <1>1, NewRendezvousOK, ResolveOK, CandidateOK, SelectOK
         DEF RendezvousNext, Terminated

\* The invariant holds for any resolvers and any number of calls.
THEOREM ResolverInvariant ==
    RendezvousSpec => []ResolverInv
<1>1. RendezvousInit => ResolverInv
    BY ResolverInitOK
<1>2. ResolverInv /\ [RendezvousNext]_rendezvousVars => ResolverInv'
    BY ResolverNextOK
<1> QED  BY <1>1, <1>2, PTL DEF RendezvousSpec

\* Rendezvous hashing places every key, and moves none that it need not move, for
\* every function that hashes, any shards and any order of registration.
THEOREM Placement ==
    RendezvousSpec => []StablePlacement
<1>1. ResolverInv => StablePlacement
  <2> SUFFICES ASSUME ResolverInv PROVE StablePlacement
      OBVIOUS
  <2>1. \A p \in placed : p.shard \in p.shards
      BY DEF ResolverInv, PlacedOK
  <2>2. ASSUME NEW p \in placed, NEW q \in placed,
               p.namespace = q.namespace, p.key = q.key,
               p.shards \subseteq q.shards, q.shard \in p.shards
        PROVE  p.shard = q.shard
    <3>1. /\ Beats(hashed, p.namespace, p.key, p.shard, q.shard)
          /\ Beats(hashed, p.namespace, p.key, q.shard, p.shard)
          /\ p.shard \in IDs /\ q.shard \in IDs
        BY <2>2 DEF ResolverInv, PlacedOK
    <3> QED  BY <3>1, BeatsAntisymmetric DEF ResolverInv
  <2> QED  BY <2>1, <2>2 DEF StablePlacement
<1> QED  BY <1>1, ResolverInvariant, PTL

-----------------------------------------------------------------------------
(* Rendezvous: the framing of the input. *)

\* A namespace, a key and an ID whose lengths fit their prefixes.
Fits(ns, k, id) ==
    /\ ns \in Seq(Nat) /\ Len(ns) <= MaxUint32
    /\ k \in Keys /\ Len(Encode(k)) <= MaxUint32
    /\ id \in IDs /\ Len(id) <= MaxUint32

\* What is where in an input x.
Frames(x, ns, e, id) ==
    /\ Len(ns) \in Nat /\ Len(e) \in Nat /\ Len(id) \in Nat
    /\ x[1] = Len(ns)
    /\ \A i \in 1..Len(ns) : x[1 + i] = ns[i]
    /\ x[2 + Len(ns)] = Len(e)
    /\ \A i \in 1..Len(e) : x[2 + Len(ns) + i] = e[i]
    /\ x[3 + Len(ns) + Len(e)] = Len(id)
    /\ \A i \in 1..Len(id) : x[3 + Len(ns) + Len(e) + i] = id[i]

LEMMA WholeFacts ==
    ASSUME ResolverTypeOK, NEW ns, NEW k, NEW id, Fits(ns, k, id)
    PROVE  Frames(Whole(ns, k, id), ns, Encode(k), id)
<1> DEFINE e == Encode(k)
           a == PutUint32(Len(ns))
           b == PutUint32(Len(e))
           c == PutUint32(Len(id))
           whole == Whole(ns, k, id)
           start == Start(ns, k)
<1>f. /\ ns \in Seq(Nat) /\ Len(ns) <= MaxUint32 /\ k \in Keys /\ Len(e) <= MaxUint32
      /\ id \in IDs /\ Len(id) <= MaxUint32
    BY DEF Fits
<1>1. PICK S : Nat \subseteq S /\ e \in Seq(S)
    BY <1>f, EncodeFacts
<1>2. Len(ns) \in Nat /\ Len(e) \in Nat /\ Len(id) \in Nat /\ id \in Seq(Nat)
  <2>1. id \in Seq(Nat)
      BY <1>f
  <2> QED  BY <1>1, <1>f, <2>1
<1>3. /\ a \in Seq(Nat) /\ Len(a) = 1 /\ a[1] = Len(ns)
      /\ b \in Seq(Nat) /\ Len(b) = 1 /\ b[1] = Len(e)
      /\ c \in Seq(Nat) /\ Len(c) = 1 /\ c[1] = Len(id)
    BY <1>2, <1>f, LengthPrefix
<1>4. ASSUME NEW s \in Seq(Nat) PROVE s \in Seq(S)
    BY <1>1
<1>5. ns \in Seq(S) /\ a \in Seq(S) /\ b \in Seq(S)
    BY <1>3, <1>4, <1>f
<1>6. start = (a \o ns) \o (b \o e)
    BY DEF Start, KeyPart
<1>7. whole = [i \in 1..(Len(start) + 1 + Len(id)) |->
                  IF i <= Len(start) THEN start[i] ELSE (c \o id)[i - Len(start)]]
    BY DEF Whole
<1> HIDE DEF e, a, b, c, start, whole
<1>c. ASSUME NEW s \in Seq(S), NEW t \in Seq(S)
      PROVE  /\ Len(s \o t) = Len(s) + Len(t)
             /\ \A i \in 1..Len(s) : (s \o t)[i] = s[i]
             /\ \A i \in 1..Len(t) : (s \o t)[Len(s) + i] = t[i]
  <2>1. Len(s) \in Nat /\ Len(t) \in Nat /\ Len(s \o t) = Len(s) + Len(t)
      OBVIOUS
  <2>2. ASSUME NEW i \in 1..Len(s) PROVE (s \o t)[i] = s[i]
    <3>1. i \in 1..Len(s \o t) /\ i <= Len(s)
        BY <2>1
    <3> QED  BY <2>1, <3>1
  <2>3. ASSUME NEW i \in 1..Len(t) PROVE (s \o t)[Len(s) + i] = t[i]
    <3>1. Len(s) + i \in 1..Len(s \o t) /\ ~(Len(s) + i <= Len(s)) /\ Len(s) + i - Len(s) = i
        BY <2>1
    <3> QED  BY <2>1, <3>1
  <2> QED  BY <2>1, <2>2, <2>3
<1>p. ASSUME NEW s \in Seq(S), NEW t \in Seq(S), Len(s) = 1
      PROVE  /\ s \o t \in Seq(S) /\ Len(s \o t) = 1 + Len(t)
             /\ (s \o t)[1] = s[1]
             /\ \A i \in 1..Len(t) : (s \o t)[1 + i] = t[i]
  <2>1. s \o t \in Seq(S)
      OBVIOUS
  <2>c. /\ Len(s \o t) = Len(s) + Len(t)
        /\ \A i \in 1..Len(s) : (s \o t)[i] = s[i]
        /\ \A i \in 1..Len(t) : (s \o t)[Len(s) + i] = t[i]
      BY <1>c
  <2>2. Len(s \o t) = 1 + Len(t) /\ \A i \in 1..Len(t) : (s \o t)[1 + i] = t[i]
      BY <1>p, <2>c
  <2>3. 1 \in 1..Len(s)
      BY <1>p
  <2>4. (s \o t)[1] = s[1]
      BY <2>c, <2>3
  <2> QED  BY <2>1, <2>2, <2>4
<1>8. PICK u : u = a \o ns
    OBVIOUS
<1>9. /\ u \in Seq(S) /\ Len(u) = 1 + Len(ns) /\ u[1] = Len(ns)
      /\ \A i \in 1..Len(ns) : u[1 + i] = ns[i]
  <2>1. a \in Seq(S) /\ ns \in Seq(S) /\ Len(a) = 1
      BY <1>3, <1>5
  <2>2. /\ a \o ns \in Seq(S) /\ Len(a \o ns) = 1 + Len(ns)
        /\ (a \o ns)[1] = a[1]
        /\ \A i \in 1..Len(ns) : (a \o ns)[1 + i] = ns[i]
      BY <1>p, <2>1
  <2> QED  BY <1>3, <1>8, <2>2
<1>10. PICK v : v = b \o e
    OBVIOUS
<1>11. /\ v \in Seq(S) /\ Len(v) = 1 + Len(e) /\ v[1] = Len(e)
       /\ \A i \in 1..Len(e) : v[1 + i] = e[i]
  <2>1. b \in Seq(S) /\ e \in Seq(S) /\ Len(b) = 1
      BY <1>1, <1>3, <1>5
  <2>2. /\ b \o e \in Seq(S) /\ Len(b \o e) = 1 + Len(e)
        /\ (b \o e)[1] = b[1]
        /\ \A i \in 1..Len(e) : (b \o e)[1 + i] = e[i]
      BY <1>p, <2>1
  <2> QED  BY <1>3, <1>10, <2>2
<1>12. PICK w : w = c \o id
    OBVIOUS
<1>13. /\ Len(w) = 1 + Len(id) /\ w[1] = Len(id)
       /\ \A i \in 1..Len(id) : w[1 + i] = id[i]
  <2>1. c \in Seq(S) /\ id \in Seq(S)
      BY <1>2, <1>3, <1>4
  <2> QED  BY <1>3, <1>12, <1>p, <2>1
<1>14. /\ Len(start) = 2 + Len(ns) + Len(e)
       /\ \A i \in 1..(1 + Len(ns)) : start[i] = u[i]
       /\ \A i \in 1..(1 + Len(e)) : start[1 + Len(ns) + i] = v[i]
  <2>1. start = u \o v
      BY <1>6, <1>8, <1>10
  <2>2. /\ Len(start) = Len(u) + Len(v)
        /\ \A i \in 1..Len(u) : start[i] = u[i]
        /\ \A i \in 1..Len(v) : start[Len(u) + i] = v[i]
      BY <1>9, <1>11, <1>c, <2>1
  <2> QED  BY <1>2, <1>9, <1>11, <2>2
<1>15. /\ \A i \in 1..(2 + Len(ns) + Len(e)) : whole[i] = start[i]
       /\ \A i \in 1..(1 + Len(id)) : whole[2 + Len(ns) + Len(e) + i] = w[i]
  <2>1. PICK m \in Nat : m = 2 + Len(ns) + Len(e)
      BY <1>2
  <2>2. whole = [i \in 1..(m + 1 + Len(id)) |-> IF i <= m THEN start[i] ELSE w[i - m]]
      BY <1>7, <1>12, <1>14, <2>1
  <2>3. \A i \in 1..m : whole[i] = start[i]
      BY <1>2, <2>1, <2>2
  <2>4. ASSUME NEW i \in 1..(1 + Len(id)) PROVE whole[m + i] = w[i]
    <3>1. m + i \in 1..(m + 1 + Len(id)) /\ ~(m + i <= m) /\ m + i - m = i
        BY <1>2, <2>1
    <3> QED  BY <2>2, <3>1
  <2> QED  BY <2>1, <2>3, <2>4
<1>16. whole[1] = Len(ns)
  <2>1. 1 \in 1..(2 + Len(ns) + Len(e)) /\ 1 \in 1..(1 + Len(ns))
      BY <1>2
  <2> QED  BY <1>9, <1>14, <1>15, <2>1
<1>17. ASSUME NEW i \in 1..Len(ns) PROVE whole[1 + i] = ns[i]
  <2>1. 1 + i \in 1..(2 + Len(ns) + Len(e)) /\ 1 + i \in 1..(1 + Len(ns))
      BY <1>2
  <2> QED  BY <1>9, <1>14, <1>15, <2>1
<1>18. whole[2 + Len(ns)] = Len(e)
  <2>1. /\ 2 + Len(ns) \in 1..(2 + Len(ns) + Len(e)) /\ 1 \in 1..(1 + Len(e))
        /\ 1 + Len(ns) + 1 = 2 + Len(ns)
      BY <1>2
  <2>2. start[1 + Len(ns) + 1] = v[1]
      BY <1>14, <2>1
  <2> QED  BY <1>11, <1>15, <2>1, <2>2
<1>19. ASSUME NEW i \in 1..Len(e) PROVE whole[2 + Len(ns) + i] = e[i]
  <2>1. /\ 2 + Len(ns) + i \in 1..(2 + Len(ns) + Len(e)) /\ 1 + i \in 1..(1 + Len(e))
        /\ 1 + Len(ns) + (1 + i) = 2 + Len(ns) + i
      BY <1>2
  <2>2. start[1 + Len(ns) + (1 + i)] = v[1 + i]
      BY <1>14, <2>1
  <2> QED  BY <1>11, <1>15, <2>1, <2>2
<1>20. whole[3 + Len(ns) + Len(e)] = Len(id)
  <2>1. 1 \in 1..(1 + Len(id)) /\ 2 + Len(ns) + Len(e) + 1 = 3 + Len(ns) + Len(e)
      BY <1>2
  <2>2. whole[2 + Len(ns) + Len(e) + 1] = w[1]
      BY <1>15, <2>1
  <2> QED  BY <1>13, <2>1, <2>2
<1>21. ASSUME NEW i \in 1..Len(id) PROVE whole[3 + Len(ns) + Len(e) + i] = id[i]
  <2>1. /\ 1 + i \in 1..(1 + Len(id))
        /\ 2 + Len(ns) + Len(e) + (1 + i) = 3 + Len(ns) + Len(e) + i
      BY <1>2
  <2>2. whole[2 + Len(ns) + Len(e) + (1 + i)] = w[1 + i]
      BY <1>15, <2>1
  <2> QED  BY <1>13, <2>1, <2>2
<1> QED  BY <1>2, <1>16, <1>17, <1>18, <1>19, <1>20, <1>21 DEF Frames, e, whole

\* Nothing else has the same input, unless the encoder maps two keys to the same bytes.
LEMMA FramingIsUnambiguous ==
    ASSUME ResolverTypeOK, NEW ns, NEW k, NEW id, Fits(ns, k, id),
           NEW ms, NEW l, NEW jd, Fits(ms, l, jd),
           Whole(ns, k, id) = Whole(ms, l, jd)
    PROVE  ns = ms /\ Encode(k) = Encode(l) /\ id = jd
<1>1. PICK x, e, f : x = Whole(ns, k, id) /\ e = Encode(k) /\ f = Encode(l)
    OBVIOUS
<1>2. Frames(x, ns, e, id) /\ Frames(x, ms, f, jd)
    BY <1>1, WholeFacts
<1>3. ns \in Seq(Nat) /\ ms \in Seq(Nat) /\ id \in Seq(Nat) /\ jd \in Seq(Nat)
    BY DEF Fits
<1>4. Len(ns) = Len(ms) /\ \A i \in 1..Len(ns) : ns[i] = ms[i]
    BY <1>2 DEF Frames
<1>5. Len(e) = Len(f) /\ \A i \in 1..Len(e) : e[i] = f[i]
    BY <1>2, <1>4 DEF Frames
<1>6. Len(id) = Len(jd) /\ \A i \in 1..Len(id) : id[i] = jd[i]
    BY <1>2, <1>4, <1>5 DEF Frames
<1>7. e = f
  <2>1. k \in Keys /\ l \in Keys
      BY DEF Fits
  <2>2. PICK S : e \in Seq(S)
      BY <1>1, <2>1, EncodeFacts
  <2>3. PICK T : f \in Seq(T)
      BY <1>1, <2>1, EncodeFacts
  <2> QED  BY <1>5, <2>2, <2>3, EqualSequences
<1>8. ns = ms /\ id = jd
    BY <1>3, <1>4, <1>6, EqualSequences
<1> QED  BY <1>1, <1>7, <1>8

-----------------------------------------------------------------------------
(* Rendezvous: the encoders tell their keys apart. *)

\* PowerOf2 is what its definition says: there is a function like that.
LEMMA PowerOf2Def ==
    PowerOf2 = [n \in 0..Width |-> IF n = 0 THEN 1 ELSE 2 * PowerOf2[n - 1]]
<1> DEFINE Doubles(f, m) == /\ f \in [0..m -> Nat] /\ f[0] = 1
                            /\ \A i \in 1..m : f[i] = 2 * f[i - 1]
           D == {m \in Nat : ~\E f : Doubles(f, m)}
<1>1. D = {}
  <2>1. SUFFICES ASSUME D # {} PROVE FALSE
      OBVIOUS
  <2>2. PICK m \in D : \A l \in D : m <= l
      BY <2>1, Smallest
  <2>3. m # 0
    <3>1. Doubles([i \in 0..0 |-> 1], 0)
        OBVIOUS
    <3> QED  BY <2>2, <3>1
  <2>4. PICK f : Doubles(f, m - 1)
    <3>1. m - 1 \in Nat /\ ~(m <= m - 1)
        BY <2>2, <2>3
    <3> QED  BY <2>2, <3>1
  <2> DEFINE g == [i \in 0..m |-> IF i = m THEN 2 * f[m - 1] ELSE f[i]]
  <2>5. Doubles(g, m)
    <3>1. m \in Nat /\ m - 1 \in 0..(m - 1)
        BY <2>2, <2>3
    <3>2. \A i \in 0..m : g[i] \in Nat
        BY <2>4, <3>1
    <3>3. g[0] = 1
        BY <2>3, <2>4, <3>1
    <3>4. ASSUME NEW i \in 1..m PROVE g[i] = 2 * g[i - 1]
        BY <2>4, <3>1
    <3> QED  BY <3>2, <3>3, <3>4
  <2> QED  BY <2>2, <2>5
<1>2. PICK f : Doubles(f, Width)
    BY <1>1
<1>3. f = [n \in 0..Width |-> IF n = 0 THEN 1 ELSE 2 * f[n - 1]]
    BY <1>2
<1> QED  BY <1>3 DEF PowerOf2

LEMMA PowerOf2Facts ==
    /\ PowerOf2[0] = 1
    /\ \A n \in 1..Width : PowerOf2[n] = 2 * PowerOf2[n - 1]
    /\ \A n \in 0..Width : PowerOf2[n] \in Nat /\ PowerOf2[n] > 0
<1> DEFINE D == {n \in 0..Width : ~(PowerOf2[n] \in Nat /\ PowerOf2[n] > 0)}
<1>1. /\ PowerOf2[0] = 1
      /\ \A n \in 1..Width : PowerOf2[n] = 2 * PowerOf2[n - 1]
  <2>1. 0 \in 0..Width /\ \A n \in 1..Width : n \in 0..Width /\ n # 0
      OBVIOUS
  <2> QED  BY ONLY <2>1, PowerOf2Def
<1>2. D = {}
  <2>1. SUFFICES ASSUME D # {} PROVE FALSE
      OBVIOUS
  <2>a. D \subseteq Nat
      OBVIOUS
  <2>2. PICK n \in D : \A m \in D : n <= m
    <3> HIDE DEF D
    <3> QED  BY <2>1, <2>a, Smallest
  <2>3. n # 0
      BY <1>1, <2>2
  <2>4. n \in 1..Width /\ n - 1 \in 0..Width /\ ~(n <= n - 1)
      BY <2>2, <2>3
  <2>5. PowerOf2[n - 1] \in Nat /\ PowerOf2[n - 1] > 0
      BY <2>2, <2>4
  <2>6. PowerOf2[n] = 2 * PowerOf2[n - 1]
      BY ONLY <1>1, <2>4
  <2>7. PowerOf2[n] \in Nat /\ PowerOf2[n] > 0
      BY ONLY <2>5, <2>6
  <2> QED  BY <2>2, <2>7
<1> QED  BY <1>1, <1>2

\* Half of a quotient is the quotient by the double.
LEMMA HalfQuotient ==
    ASSUME NEW k \in Nat, NEW p \in Nat, p > 0
    PROVE  k \div p = 2 * (k \div (2 * p)) + ((k \div p) % 2)
<1> DEFINE a == k \div p
           r == k % p
           h == a \div 2
           b == a % 2
<1>1. a \in Nat /\ r \in 0..(p - 1) /\ k = p * a + r
    OBVIOUS
<1> HIDE DEF a, r
<1>2. h \in Nat /\ b \in 0..1 /\ a = 2 * h + b
    BY <1>1
<1> HIDE DEF h, b
<1>3. p * a = (2 * p) * h + p * b
    BY <1>2
<1>4. p * b \in Nat /\ p * b <= p /\ (2 * p) * h \in Nat
    BY <1>2
<1> DEFINE s == p * b + r
           m == 2 * p
<1>5. k = m * h + s /\ s \in Nat /\ s < m /\ m \in Nat /\ m > 0
    BY <1>1, <1>3, <1>4
<1> HIDE DEF s, m
<1>6. k \div m = h
    BY <1>2, <1>5, QuotientUnique
<1> QED  BY <1>2, <1>6 DEF m, a, b

\* The bits of an unsigned number determine it.
LEMMA BitsDetermine ==
    ASSUME NEW k \in 0..(PowerOf2[Width] - 1), NEW l \in 0..(PowerOf2[Width] - 1),
           \A i \in 1..Width :
              (k \div PowerOf2[Width - i]) % 2 = (l \div PowerOf2[Width - i]) % 2
    PROVE  k = l
<1> DEFINE Q(n, i) == n \div PowerOf2[Width - i]
           D == {i \in 0..Width : Q(k, i) # Q(l, i)}
<1>1. \A i \in 0..Width : PowerOf2[Width - i] \in Nat /\ PowerOf2[Width - i] > 0
    BY PowerOf2Facts
<1>2. k \in Nat /\ l \in Nat /\ k < PowerOf2[Width] /\ l < PowerOf2[Width]
  <2>1. PowerOf2[Width] \in Nat
      BY PowerOf2Facts
  <2> QED  BY <2>1
<1>3. D = {}
  <2>1. SUFFICES ASSUME D # {} PROVE FALSE
      OBVIOUS
  <2>a. D \subseteq Nat
      OBVIOUS
  <2>2. PICK i \in D : \A j \in D : i <= j
    <3> HIDE DEF D
    <3> QED  BY <2>1, <2>a, Smallest
  <2>3. i # 0
    <3>1. PICK m \in Nat : m = PowerOf2[Width] /\ m > 0
      <4>1. Width \in 0..Width
          OBVIOUS
      <4>2. PowerOf2[Width] \in Nat /\ PowerOf2[Width] > 0
          BY ONLY <4>1, PowerOf2Facts
      <4> QED  BY ONLY <4>2
    <3>2. k = m * 0 + k /\ l = m * 0 + l
        BY <1>2, <3>1
    <3>3. k \div m = 0 /\ l \div m = 0
        BY <1>2, <3>1, <3>2, QuotientUnique
    <3>4. Width - 0 = Width
        OBVIOUS
    <3> QED  BY <2>2, <3>1, <3>3, <3>4
  <2>4. i \in 1..Width /\ i - 1 \in 0..Width /\ ~(i <= i - 1)
      BY <2>2, <2>3
  <2>5. Q(k, i - 1) = Q(l, i - 1)
      BY <2>2, <2>4
  <2>6. PICK p \in Nat : p = PowerOf2[Width - i] /\ p > 0
      BY <1>1, <2>4
  <2>7. PowerOf2[Width - (i - 1)] = 2 * p
    <3>1. Width - (i - 1) \in 1..Width /\ Width - (i - 1) - 1 = Width - i
        BY <2>4
    <3> QED  BY <2>6, <3>1, PowerOf2Facts
  <2>8. k \div (2 * p) = l \div (2 * p) /\ (k \div p) % 2 = (l \div p) % 2
      BY <2>4, <2>5, <2>6, <2>7
  <2>9. k \div p = l \div p
    <3>1. ASSUME NEW n \in Nat PROVE n \div p = 2 * (n \div (2 * p)) + ((n \div p) % 2)
        BY <2>6, HalfQuotient
    <3>2. /\ k \div p = 2 * (k \div (2 * p)) + ((k \div p) % 2)
          /\ l \div p = 2 * (l \div (2 * p)) + ((l \div p) % 2)
        BY ONLY <1>2, <3>1
    <3> QED  BY ONLY <2>8, <3>2
  <2> QED  BY <2>2, <2>6, <2>9
<1>4. k \div 1 = l \div 1
    BY <1>3, PowerOf2Facts, Width \in 0..Width, Width - Width = 0
<1> QED  BY <1>2, <1>4

\* The two's complement of a signed number determines it.
LEMMA ComplementDetermines ==
    ASSUME NEW m \in Nat, NEW k \in (-m)..(m - 1), NEW l \in (-m)..(m - 1), m > 0,
           k % (2 * m) = l % (2 * m)
    PROVE  k = l
<1>1. PICK w \in Nat : w = 2 * m /\ w > 0
    OBVIOUS
<1>2. ASSUME NEW j \in (-m)..(m - 1)
      PROVE  j % w = IF j < 0 THEN j + w ELSE j
  <2> DEFINE q == j \div w
             r == j % w
  <2>1. q \in Int /\ r \in 0..(w - 1) /\ j = w * q + r
      BY <1>1
  <2> HIDE DEF q, r
  <2>2. q < 1
    <3>1. SUFFICES ASSUME q >= 1 PROVE FALSE
        BY <2>1
    <3>2. w * q >= w
        BY <1>1, <2>1, <3>1
    <3> QED  BY <1>1, <2>1, <3>2
  <2>3. q > -2
    <3>1. SUFFICES ASSUME q <= -2 PROVE FALSE
        BY <2>1
    <3>2. w * q <= w * (-2)
        BY <1>1, <2>1, <3>1
    <3> QED  BY <1>1, <2>1, <3>2
  <2>4. q = 0 \/ q = -1
      BY <2>1, <2>2, <2>3
  <2> QED  BY <1>1, <2>1, <2>4 DEF r
<1> QED  BY <1>1, <1>2

\* The encoder tells its keys apart.
KeysApart == \A k, l \in Keys : Encode(k) = Encode(l) => k = l

LEMMA EncodersTellApart == ResolverTypeOK => KeysApart
<1> SUFFICES ASSUME ResolverTypeOK, NEW k \in Keys, NEW l \in Keys, Encode(k) = Encode(l)
             PROVE  k = l
    BY DEF KeysApart
<1>1. CASE encoder = "bytes"
    BY <1>1 DEF Encode
<1>2. CASE encoder # "bytes"
  <2>1. PICK m \in Nat : m = PowerOf2[Width] /\ m > 0
      BY PowerOf2Facts
  <2>2. k \in Int /\ l \in Int
    <3>1. encoder = "int64" \/ encoder = "uint64"
        BY <1>2 DEF ResolverTypeOK
    <3> QED  BY <3>1 DEF Keys
  <2>3. k % m = l % m
    <3>1. k % m \in 0..(m - 1) /\ l % m \in 0..(m - 1)
        BY <2>1, <2>2
    <3>2. PutUint64(k) = PutUint64(l)
        BY <1>2 DEF Encode
    <3>3. ASSUME NEW i \in 1..Width
          PROVE  ((k % m) \div PowerOf2[Width - i]) % 2 = ((l % m) \div PowerOf2[Width - i]) % 2
        BY <2>1, <3>2 DEF PutUint64
    <3> QED  BY <2>1, <3>1, <3>3, BitsDetermine
  <2>4. CASE encoder = "uint64"
    <3>1. k \in 0..(m - 1) /\ l \in 0..(m - 1)
        BY <2>1, <2>4 DEF Keys
    <3>2. k = m * 0 + k /\ l = m * 0 + l
        BY <2>1, <3>1
    <3>3. m \in Nat /\ m > 0 /\ k \in Nat /\ k < m /\ l \in Nat /\ l < m /\ 0 \in Nat
        BY ONLY <2>1, <3>1
    <3>4. k % m = k
        BY ONLY <3>2, <3>3, QuotientUnique
    <3>5. l % m = l
        BY ONLY <3>2, <3>3, QuotientUnique
    <3> QED  BY <2>3, <3>4, <3>5
  <2>5. CASE encoder = "int64"
    <3>1. PICK h \in Nat : h = PowerOf2[Width - 1] /\ h > 0 /\ m = 2 * h
        BY <2>1, PowerOf2Facts, Width - 1 \in 0..Width, Width \in 1..Width
    <3>2. k \in (-h)..(h - 1) /\ l \in (-h)..(h - 1)
        BY <2>5, <3>1 DEF Keys
    <3> QED  BY <2>3, <3>1, <3>2, ComplementDetermines
  <2> QED  BY <1>2, <2>4, <2>5 DEF ResolverTypeOK
<1> QED  BY <1>1, <1>2

\* Scores are independent: what is hashed for a namespace, a key and a shard is never
\* what is hashed for others, for every encoder, all texts and all integers.
THEOREM Independence == RendezvousSpec => []InputsApart
<1>1. ResolverInv => InputsApart
  <2> SUFFICES ASSUME ResolverInv, NEW g \in hashed, NEW h \in hashed, g.input = h.input
               PROVE  g.namespace = h.namespace /\ g.key = h.key /\ g.id = h.id
      BY DEF InputsApart
  <2>1. /\ Fits(g.namespace, g.key, g.id) /\ g.input = Whole(g.namespace, g.key, g.id)
        /\ Fits(h.namespace, h.key, h.id) /\ h.input = Whole(h.namespace, h.key, h.id)
      BY DEF ResolverInv, HashedOK, Fits
  <2>2. ResolverTypeOK /\ KeysApart
      BY EncodersTellApart DEF ResolverInv
  <2>3. /\ g.namespace = h.namespace /\ g.id = h.id
        /\ Encode(g.key) = Encode(h.key)
    <3>1. Whole(g.namespace, g.key, g.id) = Whole(h.namespace, h.key, h.id)
        BY <2>1
    <3> QED  BY <2>1, <2>2, <3>1, FramingIsUnambiguous
  <2>4. g.key \in Keys /\ h.key \in Keys
      BY <2>1 DEF Fits
  <2> QED  BY <2>2, <2>3, <2>4 DEF KeysApart
<1> QED  BY <1>1, ResolverInvariant, PTL
===============================================================================
