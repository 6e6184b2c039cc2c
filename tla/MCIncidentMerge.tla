--------------------------- MODULE MCIncidentMerge ---------------------------
(* Small instances of IncidentMerge.                                       *)
EXTENDS IncidentMerge, TLC

CONSTANTS i1, i2, i3, f1, a1, m1, m2

ThreeIncidents == {i1, i2, i3}
OneFingerprint == {f1}
OneAlert == {a1}
TwoMerges == {m1, m2}

Interchangeable == Permutations(Incidents) \union Permutations(Merges)
=============================================================================
