------------------------------ MODULE Rendezvous ------------------------------
(***************************************************************************)
(* NewRendezvous and RendezvousResolver.Resolve                            *)
(* (topology/shard/resolver/rendezvous.go) with the key encoders           *)
(* (encoder.go): the shard with the highest hash of namespace, key and     *)
(* shard ID.  Keys are resolved by resolvers that differ in their shards,  *)
(* registration order and namespace; a step is one iteration of the loop   *)
(* over the candidates.                                                    *)
(*                                                                         *)
(* The input of the hash is put together in a buffer that the candidates   *)
(* of a call share: namespace, key and ID, each after its length.  A       *)
(* length is one unit, up to MaxUint32.  The constant prefix               *)
(* rendezvousDomain is left out.  SHA-256 is any function, with            *)
(* collisions and with zero among its values; hashed holds what has been   *)
(* computed with it.                                                       *)
(***************************************************************************)
EXTENDS Integers, SequencesExt

CONSTANTS
    IDs,         \* the shard IDs, as sequences of bytes
    Namespaces,  \* the namespaces, as sequences of bytes, also ones that are refused
    StringKeys,  \* keys for the encoders that keep the bytes: strings, []byte, arrays
    Width,       \* the bits of an integer key, each of which is a byte here
    MaxUint32,   \* the largest length that fits its prefix
    Scores,      \* the values of the hash
    MaxCalls,    \* bound: the calls of Resolve
    None         \* no ID

ASSUME IDsAssumption ==
    IDs \subseteq Seq(Nat) \ {<<>>} /\ None \notin IDs /\ IsFiniteSet(IDs)
ASSUME BytesAssumption == Namespaces \cup StringKeys \subseteq Seq(Nat)
ASSUME WidthAssumption == Width \in Nat \ {0} /\ MaxUint32 \in Nat \ {0}
ASSUME ScoresAssumption == Scores \subseteq Nat /\ 0 \in Scores
ASSUME MaxCallsAssumption == MaxCalls \in Nat

VARIABLES
    encoder,    \* the key encoder: "bytes", "int64" or "uint64"
    shards,     \* resolver.shards, in registration order; <<>> for no resolver
    namespace,  \* the namespace in resolver.prefix
    stage,      \* "idle" or "loop"
    key,        \* the key of the call
    buffer,     \* scoreInput
    index,      \* the candidate of the next iteration
    best,       \* the highest score so far
    bestID,     \* the candidate that has it, which is also the one selected
    hasBest,
    hashed,     \* the inputs hashed so far, what they stand for, and their scores
    placed,     \* history: namespace, key, shards and result of each call so far
    calls       \* history: calls so far

resolverVars == <<encoder, shards, namespace>>
loopVars == <<index, best, bestID, hasBest>>
rendezvousVars == <<resolverVars, stage, key, buffer, loopVars, hashed, placed, calls>>

\* Registration orders: NewTopology refuses duplicate IDs.
Orders == UNION {SetToSeqs(S) : S \in (SUBSET IDs) \ {{}}}

RendezvousInit ==
    /\ encoder \in {"bytes", "int64", "uint64"}
    /\ shards = <<>>
    /\ namespace = <<>>
    /\ stage = "idle"
    /\ key = None
    /\ buffer = <<>>
    /\ index = 1
    /\ best = 0
    /\ bestID = None
    /\ hasBest = FALSE
    /\ hashed = {}
    /\ placed = {}
    /\ calls = 0

-----------------------------------------------------------------------------
(* The key encoders. *)

PowerOf2[n \in 0..Width] == IF n = 0 THEN 1 ELSE 2 * PowerOf2[n - 1]

\* The keys an encoder is for.
Keys ==
    CASE encoder = "bytes" -> StringKeys
      [] encoder = "int64" -> (-PowerOf2[Width - 1])..(PowerOf2[Width - 1] - 1)
      [] encoder = "uint64" -> 0..(PowerOf2[Width] - 1)

\* Big-endian two's complement.
PutUint64(k) == [i \in 1..Width |-> ((k % PowerOf2[Width]) \div PowerOf2[Width - i]) % 2]

Encode(k) == IF encoder = "bytes" THEN k ELSE PutUint64(k)

-----------------------------------------------------------------------------

\* A resolver for any shards and namespace that are not refused, when no call of
\* another one is under way.
NewRendezvous ==
    /\ stage = "idle"
    /\ calls < MaxCalls
    /\ \E order \in Orders, text \in Namespaces \ {<<>>} :
          /\ \A s \in {text} \cup ToSet(order) : Len(s) <= MaxUint32
          /\ shards' = order
          /\ namespace' = text
    /\ UNCHANGED <<encoder, stage, key, buffer, loopVars, hashed, placed, calls>>

PutUint32(length) == <<length % (MaxUint32 + 1)>>

\* resolver.prefix
Prefix == PutUint32(Len(namespace)) \o namespace

\* Mutant: the encoded key follows the namespace without its length.
KeyPartBare(encoded) == encoded

KeyPart(encoded) == PutUint32(Len(encoded)) \o encoded

maxIDLength == Max({Len(id) : id \in ToSet(shards)})

\* The key is encoded and a buffer made for the longest ID; a key that is too
\* large, or that a custom encoder refuses, is an error before anything else
\* happens.
Resolve(k) ==
    /\ stage = "idle"
    /\ shards # <<>>
    /\ calls < MaxCalls
    /\ Len(Encode(k)) <= MaxUint32
    /\ stage' = "loop"
    /\ key' = k
    /\ buffer' = Prefix \o KeyPart(Encode(k)) \o [i \in 1..(1 + maxIDLength) |-> 0]
    /\ index' = 1
    /\ best' = 0
    /\ bestID' = None
    /\ hasBest' = FALSE
    /\ calls' = calls + 1
    /\ UNCHANGED <<resolverVars, hashed, placed>>

\* Where the ID's part of the buffer begins.
idLengthOffset == Len(buffer) - (1 + maxIDLength)

\* The candidate's length and ID over what the buffer holds.
Copy(id) ==
    LET part == PutUint32(Len(id)) \o id IN
    [i \in DOMAIN buffer |->
        IF i - idLengthOffset \in DOMAIN part THEN part[i - idLengthOffset] ELSE buffer[i]]

\* scoreInput[:inputEnd]
Input(id) == SubSeq(Copy(id), 1, idLengthOffset + 1 + Len(id))

\* candidateID < bestID, the order of Go strings.
Before(s, t) ==
    \E k \in 0..(Len(t) - 1) :
        /\ k <= Len(s)
        /\ \A i \in 1..k : s[i] = t[i]
        /\ k = Len(s) \/ s[k + 1] < t[k + 1]

\* Mutant: the first registered of two equal scores wins.
BetterFirst(score, id) == ~hasBest \/ score > best

\* Mutant: no flag, an all-zero best score stands for none.
BetterUnflagged(score, id) ==
    score > best \/ (score = best /\ bestID # None /\ Before(id, bestID))

Better(score, id) == ~hasBest \/ score > best \/ (score = best /\ Before(id, bestID))

Candidate ==
    /\ stage = "loop"
    /\ index <= Len(shards)
    /\ LET id == shards[index] IN
       \E score \in Scores :
          /\ \A h \in hashed : h.input = Input(id) => h.score = score
          /\ hashed' = hashed \cup {[input |-> Input(id), score |-> score,
                                     namespace |-> namespace, key |-> key, id |-> id]}
          /\ buffer' = Copy(id)
          /\ IF Better(score, id)
             THEN best' = score /\ bestID' = id /\ hasBest' = TRUE
             ELSE UNCHANGED <<best, bestID, hasBest>>
    /\ index' = index + 1
    /\ UNCHANGED <<resolverVars, stage, key, placed, calls>>

\* The selected shard, or ErrNoShard when there is none.
Select ==
    /\ stage = "loop"
    /\ index > Len(shards)
    /\ placed' = placed \cup {[namespace |-> namespace, key |-> key, shards |-> ToSet(shards),
                               shard |-> IF hasBest THEN bestID ELSE None]}
    /\ stage' = "idle"
    /\ key' = None
    /\ buffer' = <<>>
    /\ index' = 1
    /\ best' = 0
    /\ bestID' = None
    /\ hasBest' = FALSE
    /\ UNCHANGED <<resolverVars, hashed, calls>>

\* No more calls.
Terminated == stage = "idle" /\ calls = MaxCalls /\ UNCHANGED rendezvousVars

RendezvousNext ==
    \/ NewRendezvous
    \/ \E k \in Keys : Resolve(k)
    \/ Candidate \/ Select
    \/ Terminated

RendezvousSpec == RendezvousInit /\ [][RendezvousNext]_rendezvousVars

-----------------------------------------------------------------------------
(* Properties. *)

\* Every key has a shard, whatever the hash, and keeps it when shards are added to
\* or removed from the topology, unless it moves to an added one or its own was
\* removed; it does not depend on the order of registration, even when scores are
\* equal, nor on what other candidates have left in the buffer.
StablePlacement ==
    /\ \A p \in placed : p.shard \in p.shards
    /\ \A p, q \in placed :
          /\ p.namespace = q.namespace
          /\ p.key = q.key
          /\ p.shards \subseteq q.shards
          /\ q.shard \in p.shards
          => p.shard = q.shard

\* The scores of different namespaces, keys or shards are independent: what is
\* hashed for one is never what is hashed for another, however long their bytes
\* are and whatever they hold, and integer keys of either sign are told apart.
InputsApart ==
    \A g, h \in hashed :
        g.input = h.input => /\ g.namespace = h.namespace
                             /\ g.key = h.key
                             /\ g.id = h.id
===============================================================================
