--------------------------- MODULE MCRangeResolver ---------------------------
(***************************************************************************)
(* Every list of up to three ranges over four boundaries and NaN, with a   *)
(* registered and an unknown shard; and, for deeper searches, every        *)
(* arrangement of four of the six unit ranges between 0 and 6.             *)
(***************************************************************************)
EXTENDS RangeResolver, FiniteSets

CONSTANTS a, b, unknown

MCValues == {NaN} \cup 0..6
ShortValues == {NaN} \cup 0..3
MCIDs == {a, b}

\* The i-th range of a list has the i-th ID; one unknown ID is enough.
Pair(s, e, id) == [start |-> s, end |-> e, id |-> id]
Firsts == {Pair(s, e, id) : s \in ShortValues, e \in ShortValues, id \in {a, unknown}}
Others == {Pair(s, e, b) : s \in ShortValues, e \in ShortValues}
ShortConfigs ==
    {<<>>} \cup {<<r>> : r \in Firsts} \cup {<<r, s>> : r \in Firsts, s \in Others}
        \cup {<<r, s, t>> : r \in {x \in Firsts : ValidRange(x)}, s \in Others, t \in Others}

Unit(i) == Pair(i, i + 1, IF i % 2 = 0 THEN a ELSE b)
LongConfigs ==
    LET Rows == {s \in [1..4 -> 0..5] : \A i, j \in 1..4 : i # j => s[i] # s[j]}
    IN  {[i \in 1..4 |-> Unit(s[i])] : s \in Rows}

MCConfigs == ShortConfigs \cup LongConfigs
===============================================================================
