------------------------------ MODULE MCTelemetry ------------------------------
(***************************************************************************)
(* Two pools; labels that imitate the pool name or the connection state;   *)
(* option lists with several labels, names and tracers, and with every     *)
(* option that is refused.                                                 *)
(***************************************************************************)
EXTENDS Telemetry

CONSTANTS t1, t2

name(n) == [kind |-> "name", name |-> n]
label(k, v) == [kind |-> "label", key |-> k, value |-> v]
logger(l) == [kind |-> "logger", logger |-> l]
metric(isNil) == [kind |-> "metrics", isNil |-> isNil]
of(kind) == [kind |-> kind]

MCPlans == {
    <<metric(FALSE), of("labels")>>,
    <<of("labels"), label(poolNameKey, <<"b">>), of("labels")>>,
    <<name(<<"a">>), of("tracers"), logger(t2), name(<<"b">>)>>,
    <<metric(FALSE), name(<<>>)>>,
    <<label("", <<"a">>)>>,
    <<logger(Nil)>>,
    <<metric(TRUE)>>,
    <<of("nil")>> }

MCLabelKeys == {poolNameKey, ""}
MCLabelValues == {<<"b">>}
MCEndpoints == {[address |-> "e", database |-> "d"]}
MCFirstConfig == [endpoint |-> [address |-> "e", database |-> ""], tracers |-> <<>>]
MCFirstTracers == <<t1>>
MCFirstLabels == Over(Entry(poolNameKey, <<"a">>), Entry(connectionState, <<"idle">>))
===============================================================================
