----------------------------- MODULE MCTimeRange -----------------------------
(***************************************************************************)
(* Instants 0 to 3, each without a monotonic reading or with one taken     *)
(* while the wall clock was set back step by step, so that the two clocks  *)
(* order any two times in opposite ways.                                   *)
(***************************************************************************)
EXTENDS TimeRange

CONSTANTS a, b, unknown

MCIDs == {a, b}

Parsed(w) == [wall |-> w, mono |-> None]
Measured(w) == [wall |-> w, mono |-> 3 - w]
MCTimes == {Parsed(w) : w \in 0..3} \cup {Measured(w) : w \in 0..3}

\* The i-th range of a list has the i-th ID; one unknown ID is enough.
Pair(s, e, id) == [start |-> s, end |-> e, id |-> id]
Firsts == {Pair(s, e, id) : s \in MCTimes, e \in MCTimes, id \in {a, unknown}}
Others == {Pair(s, e, b) : s \in MCTimes, e \in MCTimes}
Proper(R) == {r \in R : r.id # unknown /\ r.start.wall < r.end.wall}
MCConfigs ==
    {<<>>} \cup {<<r>> : r \in Firsts} \cup {<<r, s>> : r \in Proper(Firsts), s \in Others}
        \cup {<<r, s, t>> : r \in Proper(Firsts), s \in Proper(Others),
                            t \in {x \in Proper(Others) : x.start.mono = None}}
===============================================================================
