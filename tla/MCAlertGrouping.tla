--------------------------- MODULE MCAlertGrouping ---------------------------
(* Small instances of AlertGrouping.                                       *)
EXTENDS AlertGrouping, TLC

CONSTANTS a1, a2, r1, r2, k1, j1, j2

TwoAlerts == {a1, a2}
TwoRules == {r1, r2}
OneKey == {k1}
TwoJobs == {j1, j2}

\* a1 is critical, a2 a warning.
Severities == [a \in TwoAlerts |-> IF a = a1 THEN 4 ELSE 2]

TakesAll(position) == [position |-> position, enabled |-> TRUE, key |-> [a \in TwoAlerts |-> k1]]
TakesFirst == [TakesAll(1) EXCEPT !.key = [@ EXCEPT ![a2] = NoKey]]
Disabled == [TakesAll(1) EXCEPT !.enabled = FALSE]

ThreeContents == {TakesAll(2), TakesFirst, Disabled}

Interchangeable == Permutations(Rules) \union Permutations(Jobs)
=============================================================================
