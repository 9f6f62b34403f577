------------------------------- MODULE Telemetry -------------------------------
(***************************************************************************)
(* The OpenTelemetry export of pool statistics: Metrics.Register, the      *)
(* callback it registers and the registration's Close (extra/otelxpg), on  *)
(* top of Stats (stats.go), Pool.Close (pool.go) and the names and labels  *)
(* of module Metadata.                                                     *)
(*                                                                         *)
(* A metrics reader invokes the callback in a goroutine of its own, while  *)
(* connections come and go.  The SDK is external: collections and a        *)
(* successful Unregister exclude each other, other implementations may     *)
(* fail to unregister, and what is observed for an instrument that was not *)
(* registered with the callback is dropped.                                *)
(***************************************************************************)
EXTENDS Metadata

CONSTANTS
    Watched,  \* bound: the pools whose connections come and go and are collected
    MaxConns  \* the connection limit of every pool

ASSUME WatchedAssumption == Watched \subseteq PoolIndices
ASSUME MaxConnsAssumption == MaxConns \in Nat \ {0}

VARIABLES
    conns,       \* per pool, its connections by state
    metrics,     \* the pools with a registration in Pool.metrics
    callbacks,   \* the pools whose callback is registered
    attributes,  \* per pool, name and labels as Register captured them
    reported,    \* the pools whose Unregister failed and was handed to otel.Handle
    reader       \* the metrics reader: where it is, for which pool, and what it has

exportVars == <<conns, metrics, callbacks, attributes, reported, reader>>
telemetryVars == <<metadataVars, exportVars>>

Levels == {"AcquiredConns", "ConstructingConns", "IdleConns"}
NoConns == [l \in Levels |-> 0]
Resting == [at |-> "rest"]

TelemetryInit ==
    /\ MetadataInit
    /\ conns = [p \in PoolIndices |-> NoConns]
    /\ metrics = {}
    /\ callbacks = {}
    /\ attributes = [p \in PoolIndices |-> [name |-> <<>>, labels |-> <<>>]]
    /\ reported = {}
    /\ reader = Resting

-----------------------------------------------------------------------------
(* The connections of a pool (pgxpool). *)

Total(c) == c.AcquiredConns + c.ConstructingConns + c.IdleConns

Move(p, from, to) ==
    /\ conns[p][from] > 0
    /\ conns' = [conns EXCEPT ![p][from] = @ - 1, ![p][to] = @ + 1]

\* Construct, finish, acquire, release or destroy a connection.  The connections of
\* a pool without metrics stand still, as nobody looks at them.
Churn(p) ==
    /\ p \in Watched \cap metrics
    /\ pc[p] \in {"open", "closing"}
    /\ \/ /\ pc[p] = "open"
          /\ Total(conns[p]) < MaxConns
          /\ conns' = [conns EXCEPT ![p].ConstructingConns = @ + 1]
       \/ Move(p, "ConstructingConns", "IdleConns")
       \/ Move(p, "ConstructingConns", "AcquiredConns")
       \/ pc[p] = "open" /\ Move(p, "IdleConns", "AcquiredConns")
       \/ Move(p, "AcquiredConns", "IdleConns")
       \/ conns[p].IdleConns > 0 /\ conns' = [conns EXCEPT ![p].IdleConns = @ - 1]
    /\ UNCHANGED <<metadataVars, metrics, callbacks, attributes, reported, reader>>

-----------------------------------------------------------------------------
(* Metrics.Register. *)

\* The attribute keys xpg sets itself, and their values.
dbSystemName == "db.system.name"
poolNameKey == "db.client.connection.pool.name"
connectionState == "db.client.connection.state"
destroyReason == "xpg.pool.connection.destroy.reason"
Controlled == {dbSystemName, poolNameKey, connectionState, destroyReason}

system(name) == Over(Entry(dbSystemName, <<"postgresql">>), Entry(poolNameKey, name))

\* Mutant: the system attributes come first.
newPoolMetricAttributesSystemFirst(name, labels, extra) ==
    Over(extra, Over(labels, system(name)))

\* Of values for one key the last one counts: labels, system attributes, then the
\* attribute of the row.
newPoolMetricAttributes(name, labels, extra) == Over(extra, Over(system(name), labels))

\* Register captures the pool's name and a copy of its labels; the callback may be
\* invoked from here on.
Register(p) ==
    /\ pc[p] = "registering"
    /\ attributes' = [attributes EXCEPT ![p] = [name |-> pool[p].name,
                                                labels |-> heap[pool[p].labels]]]
    /\ callbacks' = callbacks \cup {p}
    /\ metrics' = metrics \cup {p}
    /\ pc' = [pc EXCEPT ![p] = "open"]
    /\ UNCHANGED <<plan, heap, config, options, pool, cluster, changes, setConfig, asked,
                   askedCluster, conns, reported, reader>>

\* A nil Metrics, an instrument that cannot be created, or RegisterCallback fails:
\* New closes the pgx pool and returns the error.
RegisterFails(p) ==
    /\ pc[p] = "registering"
    /\ pc' = [pc EXCEPT ![p] = "failed"]
    /\ UNCHANGED <<plan, heap, config, options, pool, cluster, changes, setConfig, asked,
                   askedCluster, exportVars>>

-----------------------------------------------------------------------------
(* A collection: the callback reads one snapshot, then observes its rows. *)

Row(instrument, field, extra) == [instrument |-> instrument, field |-> field, extra |-> extra]

\* poolMetricInstruments.observe
observe == {
    Row("connectionCount", "IdleConns", Entry(connectionState, <<"idle">>)),
    Row("connectionCount", "AcquiredConns", Entry(connectionState, <<"used">>)),
    Row("connectionMax", "MaxConns", <<>>),
    Row("constructingConnections", "ConstructingConns", <<>>),
    Row("acquireCount", "AcquireCount", <<>>),
    Row("acquireTime", "AcquireDuration", <<>>),
    Row("canceledAcquireCount", "CanceledAcquireCount", <<>>),
    Row("emptyAcquireCount", "EmptyAcquireCount", <<>>),
    Row("emptyAcquireWaitTime", "EmptyAcquireWaitTime", <<>>),
    Row("createdConnections", "NewConnsCount", <<>>),
    Row("destroyedConnections", "MaxIdleDestroyCount",
        Entry(destroyReason, <<"idle_timeout">>)),
    Row("destroyedConnections", "MaxLifetimeDestroyCount",
        Entry(destroyReason, <<"lifetime">>))}

\* poolMetricInstruments.observables: what the callback is registered for, made by
\* newPoolMetricInstruments.
observables == {
    "connectionCount", "connectionMax", "constructingConnections", "acquireCount",
    "acquireTime", "canceledAcquireCount", "emptyAcquireCount", "emptyAcquireWaitTime",
    "createdConnections", "destroyedConnections"}

\* The statistics whose rows are not dropped.
Exported == {row.field : row \in {r \in observe : r.instrument \in observables}}

Counters == {
    "AcquireCount", "AcquireDuration", "CanceledAcquireCount", "EmptyAcquireCount",
    "EmptyAcquireWaitTime", "NewConnsCount", "MaxIdleDestroyCount",
    "MaxLifetimeDestroyCount"}

\* A detached snapshot of the levels; the cumulative counters stand still.
Stats(p) ==
    Over(conns[p], [field \in Counters \cup {"MaxConns", "TotalConns"} |->
                       CASE field = "MaxConns" -> MaxConns
                         [] field = "TotalConns" -> Total(conns[p])
                         [] OTHER -> 0])

Read(p) ==
    /\ reader.at # "read"
    /\ p \in Watched \cap callbacks
    /\ reader' = [at |-> "read", pool |-> p, stats |-> Stats(p)]
    /\ UNCHANGED <<metadataVars, conns, metrics, callbacks, attributes, reported>>

\* Mutant: every row asks the pool for its statistics again.
ObserveLive ==
    /\ reader.at = "read"
    /\ reader' = [at |-> "observed", pool |-> reader.pool,
                  values |-> Over(Entry("IdleConns", reader.stats.IdleConns),
                                 Restrict(Stats(reader.pool), Exported))]
    /\ UNCHANGED <<metadataVars, conns, metrics, callbacks, attributes, reported>>

ObserveStats ==
    /\ reader.at = "read"
    /\ reader' = [at |-> "observed", pool |-> reader.pool,
                  values |-> Restrict(reader.stats, Exported)]
    /\ UNCHANGED <<metadataVars, conns, metrics, callbacks, attributes, reported>>

-----------------------------------------------------------------------------
(* Pool.Close. *)

AfterMetrics(p, state) ==
    /\ pc' = [pc EXCEPT ![p] = state]
    /\ UNCHANGED <<plan, heap, config, options, pool, cluster, changes, setConfig, asked,
                   askedCluster, metrics, attributes, reader>>

Unregister(p) ==
    /\ pc[p] = "open"
    /\ p \in metrics
    /\ reader.at # "read"
    /\ callbacks' = callbacks \ {p}
    /\ AfterMetrics(p, "closing")
    /\ UNCHANGED <<conns, reported>>

\* Mutant: the error is dropped.
UnregisterFailsSilently(p) ==
    /\ pc[p] = "open"
    /\ p \in metrics
    /\ AfterMetrics(p, "closing")
    /\ UNCHANGED <<conns, callbacks, reported>>

\* The error goes to the global error handler, and the pool is closed all the same.
UnregisterFails(p) ==
    /\ pc[p] = "open"
    /\ p \in metrics
    /\ reported' = reported \cup {p}
    /\ AfterMetrics(p, "closing")
    /\ UNCHANGED <<conns, callbacks>>

\* The pgx pool waits for its connections and destroys them.
ClosePool(p) ==
    /\ pc[p] = "closing" \/ (pc[p] = "open" /\ p \notin metrics)
    /\ conns[p].AcquiredConns = 0
    /\ conns[p].ConstructingConns = 0
    /\ conns' = [conns EXCEPT ![p] = NoConns]
    /\ AfterMetrics(p, "closed")
    /\ UNCHANGED <<callbacks, reported>>

TelemetryNext ==
    \/ MetadataNext /\ UNCHANGED exportVars
    \/ \E p \in PoolIndices :
          \/ Register(p) \/ RegisterFails(p)
          \/ Churn(p) \/ Read(p)
          \/ Unregister(p) \/ UnregisterFails(p) \/ ClosePool(p)
    \/ ObserveStats

TelemetrySpec == TelemetryInit /\ [][TelemetryNext]_telemetryVars

-----------------------------------------------------------------------------
(* Properties. *)

Attributes(p, row) ==
    newPoolMetricAttributes(attributes[p].name, attributes[p].labels, row.extra)

LabelsApart(p) == Restrict(attributes[p].labels, DOMAIN attributes[p].labels \ Controlled)

\* Two statistics never end up in one time series: not two of one pool, nor those
\* of two pools, unless the pools have the same name and labels, whatever
\* attributes of xpg's own the labels imitate.
SeriesApart ==
    \A p, q \in callbacks : \A row, other \in observe :
        row.instrument = other.instrument /\ Attributes(p, row) = Attributes(q, other) =>
            /\ row = other
            /\ attributes[p].name = attributes[q].name
            /\ LabelsApart(p) = LabelsApart(q)

\* A collection exports every statistic, and connection counts that were true at
\* one moment: never more than the pool may have.
ConsistentExport ==
    reader.at = "observed" =>
        /\ DOMAIN reader.values = Levels \cup Counters \cup {"MaxConns"}
        /\ Total(reader.values) <= reader.values.MaxConns

\* The statistics of a closed pool are read only if its callback could not be
\* unregistered, and that was reported.
ReadsOfClosedReported ==
    reader.at = "read" /\ pc[reader.pool] = "closed" => reader.pool \in reported
===============================================================================
