------------------------------ MODULE MCOnCall ------------------------------
(* Small instances of OnCall, with days of four instants.                  *)
EXTENDS OnCall, TLC

CONSTANTS a, b, r1, r2, o1, o2

TwoRosters == {r1, r2}
TwoUsers == {a, b}
TwoOverrides == {o1, o2}

\* Handoff on Mondays: two rosters that relieve each other, at 18:00 of a zone twelve hours ahead of UTC
\* and at 12:00 of one six hours behind; one that is always on duty (and was created with handoff_day 8),
\* one with active hours past midnight.
Morning == [day |-> 1, time |-> 3, zone |-> 2, fts |-> TRUE, hours |-> None]
Evening == [day |-> 1, time |-> 2, zone |-> -1, fts |-> TRUE, hours |-> None]
Always == [day |-> 8, time |-> 2, zone |-> 1, fts |-> FALSE, hours |-> None]
Nights == [day |-> 1, time |-> 2, zone |-> 0, fts |-> TRUE, hours |-> [start |-> 3, end |-> 1]]

Pair(s, t) == [r \in Rosters |-> IF r = r1 THEN s ELSE t]
Mixed == {Pair(Morning, Evening), Pair(Always, None), Pair(Nights, None)}

ToThursday == {[day |-> 4, time |-> 2, zone |-> 1]}
FromWednesday == {10}
EitherOne == {[primary |-> a, secondary |-> b], [primary |-> b, secondary |-> None]}
ByHand == {[start |-> 15, primary |-> None, secondary |-> a],
           [start |-> 11, primary |-> b, secondary |-> a]}

\* Sunday 14 is the last day of a week; an override across its midnight, one within, none at all.
Covers == {[user |-> a, from |-> 57, to |-> 61], [user |-> b, from |-> 59, to |-> 60],
           [user |-> a, from |-> 58, to |-> 58]}
UTC(t) == [at |-> t, offset |-> 0]
East(t) == [at |-> t, offset |-> 1]
West(t) == [at |-> t, offset |-> -2]
AroundHandoff == {UTC(32), UTC(60), East(59), West(61)}
TwoWindows == {[from |-> UTC(56), to |-> UTC(63), step |-> 2],
               [from |-> East(58), to |-> West(61), step |-> 1]}

\* Ids of overrides are interchangeable.
Interchangeable == Permutations(OverrideIds)
=============================================================================
