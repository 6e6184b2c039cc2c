------------------------- MODULE MCEscalationEngine -------------------------
(* Small instances of EscalationEngine.                                    *)
EXTENDS EscalationEngine, TLC

CONSTANTS a1, a2, w1, w2

OneAlert == {a1}
TwoAlerts == {a1, a2}
OneWorker == {w1}
TwoWorkers == {w1, w2}

TierOf(n, minutes) == [tier |-> n, timeout |-> minutes]

TwoTiers == [tiers |-> <<TierOf(1, 1), TierOf(2, 1)>>, repeat |-> 0]
TwoTiersRepeated == [TwoTiers EXCEPT !.repeat = 1]
ThreeTiers == [tiers |-> <<TierOf(1, 0), TierOf(2, 2), TierOf(4, 1)>>, repeat |-> 0]
ThreeTiersRepeated == [ThreeTiers EXCEPT !.repeat = 1]
OneTier == [tiers |-> <<TierOf(3, 1)>>, repeat |-> 0]
Unordered == [tiers |-> <<TierOf(2, 1), TierOf(1, 1)>>, repeat |-> 0]

EditedPolicies == {TwoTiers, TwoTiersRepeated, Unordered}
OrderedPolicies == {TwoTiers, TwoTiersRepeated, ThreeTiers, ThreeTiersRepeated, OneTier}
RepeatingPolicy == {TwoTiersRepeated}

Interchangeable == Permutations(Workers)
=============================================================================
