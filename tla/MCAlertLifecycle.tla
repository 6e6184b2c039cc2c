-------------------------- MODULE MCAlertLifecycle --------------------------
(* Small instances of AlertLifecycle.                                      *)
EXTENDS AlertLifecycle, TLC

CONSTANTS a1, a2, a3, r1, r2, f1, f2

TwoAlerts == {a1, a2}
ThreeAlerts == {a1, a2, a3}
OneFingerprint == {f1}
TwoFingerprints == {f1, f2}
TwoSlots == {r1, r2}

NoFaults == {}
ResolveOnly == {"resolve"}

\* Ids, slots and fingerprints are interchangeable.
Interchangeable ==
    Permutations(Alerts) \union Permutations(Requests) \union Permutations(Fingerprints)
=============================================================================
