------------------------------- MODULE Metadata -------------------------------
(***************************************************************************)
(* What a pool, a cluster and its replica metadata say about themselves:   *)
(* the options of New (options.go), New itself (pool.go), and the labels   *)
(* and metadata cluster.New takes over (topology/cluster/cluster.go,       *)
(* selector.go).                                                           *)
(*                                                                         *)
(* Go maps and slices are references, and New may come long after an       *)
(* option was made: so a caller that goes on writing to its maps, slices   *)
(* and pgx config, or to what an accessor gave it, must not reach into     *)
(* what is configured.  heap holds the maps and slices; a reference is a   *)
(* position in it.  An option list and a config may serve several pools.   *)
(*                                                                         *)
(* A text is the sequence of its parts, the empty text is <<>>.            *)
(***************************************************************************)
EXTENDS Integers, SequencesExt

CONSTANTS
    NumPools,     \* bound: the pools the caller opens, one after the other
    LabelKeys,    \* the keys the caller writes to maps; "" is not a valid one
    LabelValues,  \* and the values
    Tracers,      \* query tracers, and loggers wrapped as such
    Nil,          \* a nil logger, tracer or cluster
    Endpoints,    \* records of an address and a database
    Plans,        \* the option lists a caller may want, as sequences of requests;
                  \* names are trimmed, a blank name is <<>>
    FirstLabels,  \* what the caller's label map holds at first,
    FirstTracers, \* its slice of tracers,
    FirstConfig,  \* and its pgx config
    MaxChanges    \* bound: how often the caller writes behind a reference

ASSUME BoundsAssumption == NumPools \in Nat /\ MaxChanges \in Nat
ASSUME NilAssumption == Nil \notin Tracers

\* An option the caller wants: for "labels" and "tracers" it takes its map or slice
\* as they are then.
Requests ==
    [kind : {"name"}, name : Seq(STRING)]
        \cup [kind : {"label"}, key : STRING, value : Seq(STRING)]
        \cup [kind : {"labels", "tracers", "nil"}]
        \cup [kind : {"logger"}, logger : Tracers \cup {Nil}]
        \cup [kind : {"metrics"}, isNil : BOOLEAN]

ASSUME PlansAssumption ==
    /\ Plans \subseteq Seq(Requests)
    /\ FirstTracers \in Seq(Tracers \cup {Nil})

PoolIndices == 1..NumPools

VARIABLES
    plan,        \* the option list this caller wants
    heap,        \* the contents of every map and slice
    config,      \* the caller's pgxpool.Config, its endpoint and tracers
    options,     \* the caller's option list
    pc,          \* per pool: "none", "failed", or how far it has come
    pool,        \* per pool: name, reference of its labels, tracers
    cluster,     \* the cluster made of them, or Nil
    changes,     \* how often the caller has written behind a reference
    (* history: what the caller asked for *)
    setConfig,   \* the config as the caller has set it
    asked,       \* per pool: name, labels and tracers
    askedCluster

metadataVars == <<plan, heap, config, options, pc, pool, cluster, changes, setConfig,
                  asked, askedCluster>>

\* The map, the slice of replicas and the slice of tracers that the caller fills.
LabelsArgument == 1
ReplicasArgument == 2
TracersArgument == 3

Nothing == [name |-> <<>>, labels |-> LabelsArgument, tracers |-> <<>>]

MetadataInit ==
    /\ plan \in Plans
    /\ heap = << FirstLabels, <<>>, FirstTracers >>
    /\ config = FirstConfig
    /\ options = <<>>
    /\ pc = [p \in PoolIndices |-> "none"]
    /\ pool = [p \in PoolIndices |-> Nothing]
    /\ cluster = Nil
    /\ changes = 0
    /\ setConfig = config
    /\ asked = [p \in PoolIndices |-> [Nothing EXCEPT !.labels = <<>>]]
    /\ askedCluster = Nil

-----------------------------------------------------------------------------
(* Maps. *)

\* A map with one entry.
Entry(k, v) == [key \in {k} |-> v]

\* f is copied over g.
Over(f, g) ==
    [k \in DOMAIN f \cup DOMAIN g |-> IF k \in DOMAIN f THEN f[k] ELSE g[k]]

-----------------------------------------------------------------------------
(* The constructors of options.  An option for labels also records, as     *)
(* history, what its map held when the option was made.                    *)

\* The caller makes the next option of its plan.
AddOption(o) ==
    /\ options' = Append(options, o)
    /\ UNCHANGED <<plan, config, pc, pool, cluster, changes, setConfig, asked, askedCluster>>

Planned(kind) == Len(options) < Len(plan) /\ plan[Len(options) + 1].kind = kind
Request == plan[Len(options) + 1]

\* WithName, WithLabel, WithLogger, WithMetrics and a nil option keep nothing but
\* values.
WithValue ==
    /\ \E kind \in {"name", "label", "logger", "metrics", "nil"} : Planned(kind)
    /\ AddOption(Request)
    /\ UNCHANGED heap

\* Mutant: the option keeps the caller's map.
WithLabelsShared ==
    /\ Planned("labels")
    /\ AddOption([kind |-> "labels", labels |-> LabelsArgument,
                  meant |-> heap[LabelsArgument]])
    /\ UNCHANGED heap

\* WithLabels clones the map when the option is made.
WithLabels ==
    /\ Planned("labels")
    /\ AddOption([kind |-> "labels", labels |-> Len(heap) + 1,
                  meant |-> heap[LabelsArgument]])
    /\ heap' = Append(heap, heap[LabelsArgument])

\* WithTracers does not clone the slice: the option reads it when it is applied.
WithTracers ==
    /\ Planned("tracers")
    /\ AddOption([kind |-> "tracers", tracers |-> TracersArgument])
    /\ UNCHANGED heap

\* apply returns no error.
Applies(o) ==
    CASE o.kind = "name" -> o.name # <<>>
      [] o.kind = "label" -> o.key # ""
      [] o.kind = "labels" -> "" \notin DOMAIN heap[o.labels]
      [] o.kind = "tracers" -> ~Contains(heap[o.tracers], Nil)
      [] o.kind = "logger" -> o.logger # Nil
      [] o.kind = "metrics" -> ~o.isNil
      [] o.kind = "nil" -> FALSE

apply(s, o) ==
    CASE o.kind = "name" -> [s EXCEPT !.name = o.name]
      [] o.kind = "label" -> [s EXCEPT !.labels = Over(Entry(o.key, o.value), @)]
      [] o.kind = "labels" -> [s EXCEPT !.labels = Over(heap[o.labels], @)]
      [] o.kind = "tracers" -> [s EXCEPT !.tracers = @ \o heap[o.tracers]]
      [] o.kind = "logger" -> [s EXCEPT !.tracers = Append(@, o.logger)]
      [] o.kind = "metrics" -> [s EXCEPT !.metrics = TRUE]

defaultSettings == [name |-> <<>>, labels |-> <<>>, tracers |-> <<>>, metrics |-> FALSE]

settings[i \in 0..Len(options)] ==
    IF i = 0 THEN defaultSettings ELSE apply(settings[i - 1], options[i])

applyOptions == settings[Len(options)]

\* The address, and the database if there is one.
DefaultName(e) == IF e.database = "" THEN <<e.address>> ELSE <<e.address, e.database>>

poolName(s, e) == IF s.name # <<>> THEN s.name ELSE DefaultName(e)

-----------------------------------------------------------------------------
(* What the options in the list ask for, in words of their documentation:  *)
(* the last name, for every key the last value, and all tracers in order,  *)
(* which replace those of the config if there are any.                     *)

OfKind(kind) == {i \in DOMAIN options : options[i].kind = kind}

AskedName ==
    IF OfKind("name") = {} THEN DefaultName(setConfig.endpoint)
                           ELSE options[Max(OfKind("name"))].name

KeysOf(o) == CASE o.kind = "label" -> {o.key}
               [] o.kind = "labels" -> DOMAIN o.meant
               [] OTHER -> {}

Setting(k) == {i \in DOMAIN options : k \in KeysOf(options[i])}

AskedLabels ==
    [k \in UNION {KeysOf(o) : o \in ToSet(options)} |->
        LET o == options[Max(Setting(k))]
        IN  IF o.kind = "label" THEN o.value ELSE o.meant[k]]

TracersOf(o) == CASE o.kind = "tracers" -> heap[o.tracers]
                  [] o.kind = "logger" -> <<o.logger>>
                  [] OTHER -> <<>>

AskedTracers ==
    LET all == FlattenSeq([i \in DOMAIN options |-> TracersOf(options[i])])
    IN  IF all = <<>> THEN setConfig.tracers ELSE all

-----------------------------------------------------------------------------
(* New. *)

\* The caller's next pool.
Due(p) == pc[p] = "none" /\ \A q \in 1..(p - 1) : pc[q] \notin {"none", "registering"}

\* A failing option: New returns its error, before there is a pool.
NewFails(p) ==
    /\ Due(p)
    /\ \E i \in DOMAIN options : ~Applies(options[i])
    /\ pc' = [pc EXCEPT ![p] = "failed"]
    /\ UNCHANGED <<plan, heap, config, options, pool, cluster, changes, setConfig, asked,
                   askedCluster>>

\* The config is copied and gets the tracers of the options, if there are any;
\* the labels become a map of the pool's own.  A pool with metrics is registered
\* next.
New(p) ==
    LET s == applyOptions
        tracers == IF s.tracers = <<>> THEN config.tracers ELSE s.tracers
    IN
    /\ Due(p)
    /\ \A i \in DOMAIN options : Applies(options[i])
    /\ pc' = [pc EXCEPT ![p] = IF s.metrics THEN "registering" ELSE "open"]
    /\ heap' = Append(heap, s.labels)
    /\ pool' = [pool EXCEPT ![p] = [name |-> poolName(s, config.endpoint),
                                    labels |-> Len(heap) + 1,
                                    tracers |-> tracers]]
    /\ asked' = [asked EXCEPT ![p] = [name |-> AskedName, labels |-> AskedLabels,
                                      tracers |-> AskedTracers]]
    /\ UNCHANGED <<plan, config, options, cluster, changes, setConfig, askedCluster>>

\* Labels returns a copy: its reference, in the heap that holds it.
Labels(r) == [heap |-> Append(heap, heap[r]), ref |-> Len(heap) + 1]

-----------------------------------------------------------------------------
(* cluster.New. *)

\* The pools New has returned.
Returned == {p \in PoolIndices : pc[p] \notin {"none", "failed", "registering"}}

\* A cluster of replicas alone; labels and slice are cloned, name and labels of
\* every replica captured.  Labels with an empty key, or no pool at all, are
\* refused, and then there is no cluster.
NewCluster(replicas) ==
    LET last == Len(heap) IN
    /\ cluster = Nil
    /\ replicas # <<>>
    /\ "" \notin DOMAIN heap[LabelsArgument]
    /\ heap' = [heap EXCEPT ![ReplicasArgument] = replicas]
                  \o << replicas, heap[LabelsArgument] >>
                  \o [i \in DOMAIN replicas |-> heap[pool[replicas[i]].labels]]
    /\ cluster' = [replicas |-> last + 1,
                   labels |-> last + 2,
                   metadata |-> [i \in DOMAIN replicas |->
                                    [name |-> pool[replicas[i]].name,
                                     labels |-> last + 2 + i]]]
    /\ askedCluster' = [replicas |-> replicas, labels |-> heap[LabelsArgument]]
    /\ UNCHANGED <<plan, config, options, pc, pool, changes, setConfig, asked>>

-----------------------------------------------------------------------------
(* The caller writes behind references it holds. *)

Change == changes < MaxChanges /\ changes' = changes + 1

\* To the map, to the slice of tracers or to the slice of replicas it passed.
WriteArgument ==
    /\ Change
    /\ \/ \E k \in LabelKeys, v \in LabelValues :
             heap' = [heap EXCEPT ![LabelsArgument] = Over(Entry(k, v), @)]
       \/ \E t \in Tracers \cup {Nil} : heap' = [heap EXCEPT ![TracersArgument] = <<t>>]
       \/ \E i \in DOMAIN heap[ReplicasArgument], p \in Returned :
             heap' = [heap EXCEPT ![ReplicasArgument][i] = p]
    /\ UNCHANGED <<plan, config, options, pc, pool, cluster, setConfig, asked, askedCluster>>

LabelMaps ==
    {pool[p].labels : p \in Returned}
        \cup IF cluster = Nil THEN {}
             ELSE {cluster.labels} \cup {info.labels : info \in ToSet(cluster.metadata)}

\* To the map that Pool.Labels, Cluster.Labels or ReplicaInfo.Labels returned; a
\* nil map, which stands for no labels, cannot be written to.
WriteResult ==
    /\ Change
    /\ \E r \in LabelMaps, k \in LabelKeys, v \in LabelValues :
          LET result == Labels(r) IN
          /\ heap[r] # <<>>
          /\ heap' = [result.heap EXCEPT ![result.ref] = Over(Entry(k, v), @)]
    /\ UNCHANGED <<plan, config, options, pc, pool, cluster, setConfig, asked, askedCluster>>

\* To the pgx config.
WriteConfig ==
    /\ Change
    /\ \E e \in Endpoints, ts \in {<<>>} \cup {<<t>> : t \in Tracers} :
          config' = [endpoint |-> e, tracers |-> ts]
    /\ setConfig' = config'
    /\ UNCHANGED <<plan, heap, options, pc, pool, cluster, asked, askedCluster>>

MetadataNext ==
    \/ WithValue \/ WithLabels \/ WithTracers
    \/ \E p \in PoolIndices : NewFails(p) \/ New(p)
    \/ \E S \in SUBSET Returned : \E replicas \in SetToSeqs(S) : NewCluster(replicas)
    \/ WriteArgument \/ WriteResult \/ WriteConfig

-----------------------------------------------------------------------------
(* Properties. *)

\* Every pool has the name, labels and tracers that its own options and config
\* asked for, for ever, whatever is done later to the maps, slices and configs
\* they were given as or to what the accessors returned, and whatever other pools
\* the options and the config were used for.  The same holds for a cluster, and
\* its metadata describes, at every index, the replica at that index.
AsConfigured ==
    /\ \A p \in Returned :
          /\ pool[p].name = asked[p].name
          /\ heap[pool[p].labels] = asked[p].labels
          /\ pool[p].tracers = asked[p].tracers
    /\ cluster # Nil =>
          /\ heap[cluster.replicas] = askedCluster.replicas
          /\ heap[cluster.labels] = askedCluster.labels
          /\ DOMAIN cluster.metadata = DOMAIN askedCluster.replicas
          /\ \A i \in DOMAIN cluster.metadata :
                LET p == askedCluster.replicas[i] IN
                /\ cluster.metadata[i].name = asked[p].name
                /\ heap[cluster.metadata[i].labels] = asked[p].labels
===============================================================================
