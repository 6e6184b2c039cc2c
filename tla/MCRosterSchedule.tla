-------------------------- MODULE MCRosterSchedule --------------------------
(* Small instances of RosterSchedule.                                      *)
EXTENDS RosterSchedule

CONSTANTS a, b, request, topUp

TwoUsers == {a, b}
TwoFounders == {<<a, b>>}
OneRequest == {request}

\* An admin may ask for the first two weeks again, and may set the third week by hand.
FirstTwoWeeks == {[from |-> 1, n |-> 2]}
ThirdWeekByHand == {[week |-> 3, row |-> [primary |-> b, secondary |-> a, locked |-> TRUE]]}
=============================================================================
