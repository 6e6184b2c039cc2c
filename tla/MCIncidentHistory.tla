------------------------- MODULE MCIncidentHistory -------------------------
(* Small instances of IncidentHistory.                                     *)
EXTENDS IncidentHistory, TLC

CONSTANTS i1, i2, f1, g1, u1, q1, q2, b1

TwoIncidents == {i1, i2}
OneFingerprint == {f1}
OneTag == {g1}
OneRunbook == {b1}
OneUrl == {u1}
TwoRequests == {q1, q2}
TwoLengths == 0 .. 1

Nothing == [fps |-> {}, tags |-> {}, solution |-> 0, runbook |-> None]
Everything == [fps |-> {f1}, tags |-> {g1}, solution |-> 1, runbook |-> b1]
ByAgent == [fps |-> {f1}, tags |-> {g1}, solution |-> 1, runbook |-> None]

\* One that knows nothing, one that knows all, and what an agent resolved.
ThreeReports == {Nothing, Everything, ByAgent}

\* The solution is taken back, or all but the solution is written.
TwoUpdates == {[Everything EXCEPT !.solution = 0], [Nothing EXCEPT !.solution = 1]}

Interchangeable == Permutations(Incidents) \union Permutations(Requests)
=============================================================================
