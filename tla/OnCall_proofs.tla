---------------------------- MODULE OnCall_proofs ----------------------------
(***************************************************************************)
(* Proofs about OnCall, for every number of rosters and overrides, every   *)
(* length of day and every setting of a roster.                            *)
(***************************************************************************)
EXTENDS OnCall, WellFoundedInduction, TLAPS

\* Weeks that begin on day d.
BeginsOn(start, d) == (start - d) % 7 = 0

\* The part of TypeOK that the weeks rest on, with the columns it leaves out.
WeeksType ==
    /\ rosters \in [Rosters -> Settings \union {None}]
    /\ schedule \in [Rosters -> SUBSET Row]
    /\ shifted \in [Rosters -> BOOLEAN]
    /\ gen = [r \in Rosters |-> gen[r]]
    /\ \A r \in Rosters :
         /\ rosters[r] = None => schedule[r] = {}
         /\ \A x, y \in schedule[r] : x.start = y.start => x = y
         /\ DOMAIN gen[r] = DOMAIN Resting /\ gen[r].start \in Int /\ gen[r].left \in Int

\* As long as the handoff day of a roster stays, its weeks and those its generation will write
\* begin on it.
WeeksAligned ==
    \A r \in Rosters : rosters[r] # None /\ ~shifted[r] =>
        /\ \A x \in schedule[r] : BeginsOn(x.start, rosters[r].day)
        /\ gen[r].pc # "idle" => BeginsOn(gen[r].start, rosters[r].day)

WeeksInv == WeeksType /\ WeeksAligned

-----------------------------------------------------------------------------
LEMMA AlignedBegins ==
    ASSUME NEW date \in Int, NEW d \in Int
    PROVE  AlignToHandoffDay(date, d) \in Int /\ BeginsOn(AlignToHandoffDay(date, d), d)
BY DEF AlignToHandoffDay, BeginsOn

LEMMA NextBegins ==
    ASSUME NEW start \in Int, NEW d \in Int, BeginsOn(start, d)
    PROVE  BeginsOn(start + 7, d)
BY DEF BeginsOn

LEMMA SameDay ==
    ASSUME NEW start \in Int, NEW d \in Int, NEW e \in Int, BeginsOn(start, d), (e - d) % 7 = 0
    PROVE  BeginsOn(start, e)
BY DEF BeginsOn

LEMMA BeginsApart ==
    ASSUME NEW s \in Int, NEW t \in Int, NEW d \in Int, BeginsOn(s, d), BeginsOn(t, d), s # t
    PROVE  s >= t + 7 \/ t >= s + 7
BY DEF BeginsOn
LEMMA UpsertedRows ==
    ASSUME NEW rows \in SUBSET Row, NEW row \in Row,
           \A x, y \in rows : x.start = y.start => x = y
    PROVE  /\ Upserted(rows, row) \in SUBSET Row
           /\ \A x, y \in Upserted(rows, row) : x.start = y.start => x = y
           /\ \A x \in Upserted(rows, row) : x \in rows \/ x = row
BY DEF Upserted

\* A statement that inserts or updates week row of roster r.
LEMMA UpsertKeeps ==
    ASSUME WeeksInv, NEW r \in Rosters, NEW row \in Row,
           rosters[r] # None,
           schedule' = [schedule EXCEPT ![r] = Upserted(@, row)],
           UNCHANGED rosters,
           shifted' \in [Rosters -> BOOLEAN],
           \A q \in Rosters : ~shifted'[q] => ~shifted[q],
           ~shifted'[r] => BeginsOn(row.start, rosters[r].day),
           gen' = [q \in Rosters |-> gen'[q]],
           \A q \in Rosters : DOMAIN gen'[q] = DOMAIN Resting /\ gen'[q].start \in Int /\ gen'[q].left \in Int,
           \A q \in Rosters : rosters[q] # None /\ ~shifted'[q] /\ gen'[q].pc # "idle" =>
                               BeginsOn(gen'[q].start, rosters[q].day)
    PROVE  WeeksInv'
<1> USE DEF WeeksInv
<1>1. schedule'[r] = Upserted(schedule[r], row) /\ \A q \in Rosters \ {r} : schedule'[q] = schedule[q]
  BY DEF WeeksType
<1>2. schedule[r] \in SUBSET Row /\ \A x, y \in schedule[r] : x.start = y.start => x = y
  BY DEF WeeksType
<1>3. /\ schedule'[r] \in SUBSET Row
      /\ \A x, y \in schedule'[r] : x.start = y.start => x = y
      /\ \A x \in schedule'[r] : x \in schedule[r] \/ x = row
  BY <1>1, <1>2, UpsertedRows
<1>4. WeeksType'
  BY <1>1, <1>3 DEF WeeksType
<1>5. WeeksAligned'
  <2> SUFFICES ASSUME NEW q \in Rosters, rosters[q] # None, ~shifted'[q],
                      NEW x \in schedule'[q]
               PROVE  BeginsOn(x.start, rosters[q].day)
    BY DEF WeeksAligned
  <2>1. CASE q = r
    BY <1>3, <2>1 DEF WeeksAligned
  <2>2. CASE q # r
    BY <1>1, <2>2 DEF WeeksAligned
  <2> QED
    BY <2>1, <2>2
<1> QED
  BY <1>4, <1>5

\* A step that leaves rosters and weeks alone.
LEMMA GenerationKeeps ==
    ASSUME WeeksInv, UNCHANGED <<rosters, schedule, shifted>>,
           NEW r \in Rosters, NEW g, gen' = [gen EXCEPT ![r] = g],
           DOMAIN g = DOMAIN Resting, g.start \in Int, g.left \in Int,
           rosters[r] # None /\ ~shifted[r] /\ g.pc # "idle" => BeginsOn(g.start, rosters[r].day)
    PROVE  WeeksInv'
<1>1. gen'[r] = g /\ \A q \in Rosters \ {r} : gen'[q] = gen[q]
  BY DEF WeeksInv, WeeksType
<1>2. WeeksType'
  BY <1>1 DEF WeeksInv, WeeksType
<1>3. WeeksAligned'
  BY <1>1 DEF WeeksInv, WeeksAligned
<1> QED
  BY <1>2, <1>3 DEF WeeksInv

LEMMA QuietKeeps ==
    ASSUME WeeksInv, UNCHANGED <<rosters, schedule, gen, shifted>>
    PROVE  WeeksInv'
BY DEF WeeksInv, WeeksType, WeeksAligned

LEMMA FoundedDays ==
    /\ \A s \in Settings : s.day \in Int
    /\ NewRosters \subseteq Settings
BY ConstantsAssumption DEF Settings, NewRosters

-----------------------------------------------------------------------------
LEMMA WeeksInit == Init => WeeksInv
<1> SUFFICES ASSUME Init PROVE WeeksInv
  OBVIOUS
<1>1. rosters \in [Rosters -> Settings \union {None}]
  BY ConstantsAssumption DEF Init
<1>2. \A r \in Rosters : gen[r] = Resting /\ schedule[r] = {} /\ ~shifted[r]
  BY DEF Init
<1>3. gen = [r \in Rosters |-> gen[r]] /\ schedule \in [Rosters -> SUBSET Row]
  BY DEF Init
<1> QED
  BY <1>1, <1>2, <1>3 DEF Init, WeeksInv, WeeksType, WeeksAligned, Resting

LEMMA WeeksCreateRoster ==
    ASSUME WeeksInv, NEW r \in Rosters, NEW s \in NewRosters, CreateRoster(r, s)
    PROVE  WeeksInv'
<1>1. rosters'[r] = s /\ \A q \in Rosters \ {r} : rosters'[q] = rosters[q]
  BY DEF WeeksInv, WeeksType, CreateRoster
<1>2. s \in Settings /\ s # None
  BY FoundedDays, ConstantsAssumption
<1>3. WeeksType'
  BY <1>1, <1>2 DEF WeeksInv, WeeksType, CreateRoster
<1>4. WeeksAligned'
  BY <1>1 DEF WeeksInv, WeeksType, WeeksAligned, CreateRoster
<1> QED
  BY <1>3, <1>4 DEF WeeksInv

LEMMA WeeksUpdateRoster ==
    ASSUME WeeksInv, NEW r \in Rosters, NEW u \in Updates, UpdateRoster(r, u)
    PROVE  WeeksInv'
<1>1. /\ rosters[r] \in Settings /\ rosters[r].day \in Int /\ u.day \in Int
      /\ rosters'[r] = Updated(rosters[r], u)
      /\ \A q \in Rosters \ {r} : rosters'[q] = rosters[q]
  BY FoundedDays, ConstantsAssumption DEF WeeksInv, WeeksType, UpdateRoster
<1>2. rosters'[r] \in Settings /\ rosters'[r].day = u.day
  BY <1>1, ConstantsAssumption DEF Updated, Settings
<1>3. /\ shifted' \in [Rosters -> BOOLEAN]
      /\ \A q \in Rosters \ {r} : shifted'[q] = shifted[q]
      /\ ~shifted'[r] => ~shifted[r] /\ (u.day - rosters[r].day) % 7 = 0
  <2>1. shifted \in [Rosters -> BOOLEAN]
    BY DEF WeeksInv, WeeksType
  <2>2. PICK b \in BOOLEAN : /\ shifted' = [shifted EXCEPT ![r] = b]
                             /\ b = (shifted[r] \/ (u.day - rosters[r].day) % 7 # 0)
    BY <2>1 DEF UpdateRoster
  <2> QED
    BY <2>1, <2>2
<1>4. WeeksType'
  <2>1. rosters' \in [Rosters -> Settings \union {None}]
    BY <1>1, <1>2 DEF WeeksInv, WeeksType, UpdateRoster
  <2>2. \A q \in Rosters : rosters'[q] = None => schedule[q] = {}
    BY <1>1, <1>2, ConstantsAssumption DEF WeeksInv, WeeksType
  <2>3. UNCHANGED <<schedule, gen>>
    BY DEF UpdateRoster
  <2> QED
    BY <1>3, <2>1, <2>2, <2>3 DEF WeeksInv, WeeksType
<1>5. WeeksAligned'
  <2>1. ASSUME NEW q \in Rosters \ {r}, rosters'[q] # None, ~shifted'[q]
        PROVE  /\ \A x \in schedule'[q] : BeginsOn(x.start, rosters'[q].day)
               /\ gen'[q].pc # "idle" => BeginsOn(gen'[q].start, rosters'[q].day)
    BY <1>1, <1>3, <2>1 DEF WeeksInv, WeeksAligned, UpdateRoster
  <2>2. ASSUME ~shifted'[r]
        PROVE  /\ \A x \in schedule'[r] : BeginsOn(x.start, rosters'[r].day)
               /\ gen'[r].pc # "idle" => BeginsOn(gen'[r].start, rosters'[r].day)
    <3>1. /\ \A x \in schedule[r] : BeginsOn(x.start, rosters[r].day) /\ x.start \in Int
          /\ gen[r].start \in Int
          /\ gen[r].pc # "idle" => BeginsOn(gen[r].start, rosters[r].day)
      BY <1>3, <2>2 DEF WeeksInv, WeeksType, WeeksAligned, UpdateRoster, Row
    <3> QED
      BY <1>1, <1>2, <1>3, <2>2, <3>1, SameDay DEF UpdateRoster
  <2> QED
    BY <2>1, <2>2 DEF WeeksAligned
<1> QED
  BY <1>4, <1>5 DEF WeeksInv

LEMMA WeeksDeleteRoster ==
    ASSUME WeeksInv, NEW r \in Rosters, DeleteRoster(r)
    PROVE  WeeksInv'
<1>1. /\ rosters'[r] = None /\ schedule'[r] = {}
      /\ \A q \in Rosters \ {r} : rosters'[q] = rosters[q] /\ schedule'[q] = schedule[q]
  BY DEF WeeksInv, WeeksType, DeleteRoster
<1>2. WeeksType'
  BY <1>1 DEF WeeksInv, WeeksType, DeleteRoster
<1>3. WeeksAligned'
  BY <1>1 DEF WeeksInv, WeeksAligned, DeleteRoster
<1> QED
  BY <1>2, <1>3 DEF WeeksInv

LEMMA WeeksUpdateScheduleWeek ==
    ASSUME WeeksInv, NEW r \in Rosters, NEW edit \in Edits, UpdateScheduleWeek(r, edit)
    PROVE  WeeksInv'
<1>1. SetByHand(edit) \in Row /\ SetByHand(edit).start = edit.start /\ edit.start \in Int
  BY ConstantsAssumption DEF SetByHand, Row
<1>2. /\ shifted' \in [Rosters -> BOOLEAN]
      /\ \A q \in Rosters : ~shifted'[q] => ~shifted[q]
      /\ ~shifted'[r] => BeginsOn(edit.start, rosters[r].day)
  <2>1. shifted \in [Rosters -> BOOLEAN]
    BY DEF WeeksInv, WeeksType
  <2>2. PICK b \in BOOLEAN : /\ shifted' = [shifted EXCEPT ![r] = b]
                             /\ b = (shifted[r] \/ (edit.start - rosters[r].day) % 7 # 0)
    BY <2>1 DEF UpdateScheduleWeek
  <2> QED
    BY <2>1, <2>2 DEF BeginsOn
<1>3. \A q \in Rosters : rosters[q] # None /\ ~shifted'[q] /\ gen'[q].pc # "idle" =>
                            BeginsOn(gen'[q].start, rosters[q].day)
  BY <1>2 DEF WeeksInv, WeeksAligned, UpdateScheduleWeek
<1>4. /\ gen' = [q \in Rosters |-> gen'[q]]
      /\ \A q \in Rosters : DOMAIN gen'[q] = DOMAIN Resting /\ gen'[q].start \in Int /\ gen'[q].left \in Int
  BY DEF WeeksInv, WeeksType, UpdateScheduleWeek
<1> QED
  BY <1>1, <1>2, <1>3, <1>4, UpsertKeeps DEF UpdateScheduleWeek

LEMMA WeeksUnlock ==
    ASSUME WeeksInv, NEW r \in Rosters, NEW start, UnlockScheduleWeek(r, start)
    PROVE  WeeksInv'
<1>1. PICK x \in schedule[r] :
        schedule' = [schedule EXCEPT ![r] = Upserted(@, [x EXCEPT !.locked = FALSE])]
  BY DEF UnlockScheduleWeek
<1>2. [x EXCEPT !.locked = FALSE] \in Row /\ [x EXCEPT !.locked = FALSE].start = x.start
  <2>1. x \in Row
    BY <1>1 DEF WeeksInv, WeeksType
  <2> QED
    BY <2>1 DEF Row
<1>3. rosters[r] # None /\ (~shifted[r] => BeginsOn(x.start, rosters[r].day))
  BY <1>1 DEF WeeksInv, WeeksType, WeeksAligned
<1>4. \A q \in Rosters : rosters[q] # None /\ ~shifted[q] /\ gen[q].pc # "idle" =>
                            BeginsOn(gen[q].start, rosters[q].day)
  BY DEF WeeksInv, WeeksAligned
<1>5. /\ gen = [q \in Rosters |-> gen[q]] /\ shifted \in [Rosters -> BOOLEAN]
      /\ \A q \in Rosters : DOMAIN gen[q] = DOMAIN Resting /\ gen[q].start \in Int /\ gen[q].left \in Int
  BY DEF WeeksInv, WeeksType
<1>6. UNCHANGED <<rosters, gen, shifted>>
  BY DEF UnlockScheduleWeek
<1> QED
  BY <1>1, <1>2, <1>3, <1>4, <1>5, <1>6, UpsertKeeps

LEMMA WeeksGenerate ==
    ASSUME WeeksInv, NEW r \in Rosters, NEW from \in Froms, Generate(r, from)
    PROVE  WeeksInv'
<1> DEFINE g == [pc |-> "read", start |-> AlignToHandoffDay(from, rosters[r].day),
                 left |-> Ahead, locked |-> {}]
<1>1. rosters[r] \in Settings /\ rosters[r].day \in Int /\ from \in Int /\ Ahead \in Int
  BY FoundedDays, ConstantsAssumption DEF WeeksInv, WeeksType, Generate
<1>2. g.start \in Int /\ BeginsOn(g.start, rosters[r].day)
  BY <1>1, AlignedBegins
<1>3. DOMAIN g = DOMAIN Resting /\ g.left \in Int
  BY <1>1 DEF Resting
<1>4. gen' = [gen EXCEPT ![r] = g] /\ UNCHANGED <<rosters, schedule, shifted>>
  BY DEF Generate, tables
<1> QED
  BY <1>2, <1>3, <1>4, GenerationKeeps

LEMMA WeeksReadLocked ==
    ASSUME WeeksInv, NEW r \in Rosters, ReadLocked(r)
    PROVE  WeeksInv'
<1>1. PICK locked : gen' = [gen EXCEPT ![r] = [@ EXCEPT !.pc = "write", !.locked = locked]]
  BY DEF ReadLocked
<1> DEFINE g == [gen[r] EXCEPT !.pc = "write", !.locked = locked]
<1>2. DOMAIN gen[r] = DOMAIN Resting /\ gen[r].start \in Int /\ gen[r].left \in Int
  BY DEF WeeksInv, WeeksType
<1>3. DOMAIN g = DOMAIN Resting /\ g.start = gen[r].start /\ g.left = gen[r].left
  BY <1>2 DEF Resting
<1>4. gen' = [gen EXCEPT ![r] = g] /\ UNCHANGED <<rosters, schedule, shifted>> /\ gen[r].pc # "idle"
  BY <1>1 DEF ReadLocked, tables
<1>5. rosters[r] # None /\ ~shifted[r] => BeginsOn(g.start, rosters[r].day)
  BY <1>3, <1>4 DEF WeeksInv, WeeksAligned
<1> QED
  BY <1>2, <1>3, <1>4, <1>5, GenerationKeeps
LEMMA LaterBegins ==
    ASSUME NEW g, DOMAIN g = DOMAIN Resting, g.start \in Int, g.left \in Int,
           NEW d \in Int, BeginsOn(g.start, d)
    PROVE  /\ DOMAIN Later(g) = DOMAIN Resting /\ Later(g).start \in Int /\ Later(g).left \in Int
           /\ Later(g).pc # "idle" => BeginsOn(Later(g).start, d)
<1>1. CASE g.left = 1
  BY <1>1 DEF Later, Resting
<1>2. CASE g.left # 1
  BY <1>2, NextBegins DEF Later, Resting
<1> QED
  BY <1>1, <1>2

LEMMA LaterType ==
    ASSUME NEW g, DOMAIN g = DOMAIN Resting, g.start \in Int, g.left \in Int
    PROVE  DOMAIN Later(g) = DOMAIN Resting /\ Later(g).start \in Int /\ Later(g).left \in Int
BY DEF Later, Resting

LEMMA WeeksWriteWeek ==
    ASSUME WeeksInv, NEW r \in Rosters, WriteWeek(r)
    PROVE  WeeksInv'
<1>1. /\ DOMAIN gen[r] = DOMAIN Resting /\ gen[r].start \in Int /\ gen[r].left \in Int
      /\ rosters[r] # None => rosters[r].day \in Int
      /\ rosters[r] # None /\ ~shifted[r] => BeginsOn(gen[r].start, rosters[r].day)
  BY FoundedDays DEF WeeksInv, WeeksType, WeeksAligned, WriteWeek
<1>2. /\ DOMAIN Later(gen[r]) = DOMAIN Resting
      /\ Later(gen[r]).start \in Int /\ Later(gen[r]).left \in Int
  BY <1>1, LaterType
<1>3. rosters[r] # None /\ ~shifted[r] /\ Later(gen[r]).pc # "idle" =>
        BeginsOn(Later(gen[r]).start, rosters[r].day)
  BY <1>1, LaterBegins
<1>4. UNCHANGED <<rosters, shifted>>
  BY DEF WriteWeek
<1>5. CASE gen' = [gen EXCEPT ![r] = Later(@)] /\ UNCHANGED schedule
  BY <1>2, <1>3, <1>4, <1>5, GenerationKeeps
<1>6. ASSUME NEW d \in Duties, rosters[r] # None,
             gen' = [gen EXCEPT ![r] = Later(@)],
             schedule' = [schedule EXCEPT ![r] =
                            Upserted(@, [start |-> gen[r].start, primary |-> d.primary,
                                         secondary |-> d.secondary, locked |-> FALSE])]
      PROVE  WeeksInv'
  <2> DEFINE row == [start |-> gen[r].start, primary |-> d.primary,
                     secondary |-> d.secondary, locked |-> FALSE]
  <2>1. row \in Row /\ row.start = gen[r].start
    BY <1>1, ConstantsAssumption DEF Row
  <2>2. gen'[r] = Later(gen[r]) /\ \A q \in Rosters \ {r} : gen'[q] = gen[q]
    BY <1>6 DEF WeeksInv, WeeksType
  <2>3. /\ gen' = [q \in Rosters |-> gen'[q]]
        /\ \A q \in Rosters : DOMAIN gen'[q] = DOMAIN Resting /\ gen'[q].start \in Int /\ gen'[q].left \in Int
    BY <1>2, <1>6, <2>2 DEF WeeksInv, WeeksType
  <2>4. \A q \in Rosters : rosters[q] # None /\ ~shifted[q] /\ gen'[q].pc # "idle" =>
                              BeginsOn(gen'[q].start, rosters[q].day)
    BY <1>3, <2>2 DEF WeeksInv, WeeksAligned
  <2>5. ~shifted[r] => BeginsOn(row.start, rosters[r].day)
    BY <1>1, <1>6, <2>1
  <2>6. shifted \in [Rosters -> BOOLEAN]
    BY DEF WeeksInv, WeeksType
  <2>7. schedule' = [schedule EXCEPT ![r] = Upserted(@, row)]
    BY <1>6
  <2> QED
    BY <1>4, <1>6, <2>1, <2>3, <2>4, <2>5, <2>6, <2>7, UpsertKeeps
<1>7. CASE gen' = [gen EXCEPT ![r] = Resting] /\ UNCHANGED schedule
  <2>1. DOMAIN Resting = DOMAIN Resting /\ Resting.start \in Int /\ Resting.left \in Int /\ Resting.pc = "idle"
    BY DEF Resting
  <2> QED
    BY <1>4, <1>7, <2>1, GenerationKeeps
<1> QED
  BY <1>5, <1>6, <1>7 DEF WriteWeek

LEMMA WeeksStep == WeeksInv /\ [Next]_vars => WeeksInv'
<1> SUFFICES ASSUME WeeksInv, [Next]_vars PROVE WeeksInv'
  OBVIOUS
<1>1. ASSUME NEW r \in Rosters,
             \/ \E s \in NewRosters : CreateRoster(r, s)
             \/ \E u \in Updates : UpdateRoster(r, u)
             \/ DeleteRoster(r)
      PROVE  WeeksInv'
  BY <1>1, WeeksCreateRoster, WeeksUpdateRoster, WeeksDeleteRoster
<1>2. ASSUME NEW r \in Rosters,
             \/ \E edit \in Edits : UpdateScheduleWeek(r, edit) \/ UnlockScheduleWeek(r, edit.start)
             \/ \E from \in Froms : Generate(r, from)
             \/ ReadLocked(r) \/ WriteWeek(r)
      PROVE  WeeksInv'
  BY <1>2, WeeksUpdateScheduleWeek, WeeksUnlock, WeeksGenerate, WeeksReadLocked, WeeksWriteWeek
<1>3. ASSUME NEW r \in Rosters,
             \/ \E o \in OverrideIds, shape \in Shapes : CreateOverride(r, o, shape)
             \/ \E ts \in Timestamps : GetOnCall(r, ts)
             \/ FetchRows(r)
             \/ ExportICS(r)
      PROVE  WeeksInv'
  <2>1. UNCHANGED <<rosters, schedule, gen, shifted>>
    BY <1>3 DEF CreateOverride, GetOnCall, FetchRows, ExportICS, tables
  <2> QED
    BY <2>1, QuietKeeps
<1>4. CASE \/ \E o \in OverrideIds : DeleteOverride(o)
           \/ CheckOverride \/ LookUpWeek \/ OnCallReadFails
           \/ \E w \in Windows : GetCoverage(w)
           \/ FetchOverrides \/ Compute \/ ExportWeeks \/ ExportOverrides \/ Answered
  <2>1. UNCHANGED <<rosters, schedule, gen, shifted>>
    BY <1>4 DEF DeleteOverride, CheckOverride, LookUpWeek, OnCallReadFails, GetCoverage,
       FetchOverrides, Compute, ExportWeeks, ExportOverrides, Answered, tables
  <2> QED
    BY <2>1, QuietKeeps
<1>5. CASE UNCHANGED vars
  <2>1. UNCHANGED <<rosters, schedule, gen, shifted>>
    BY <1>5 DEF vars, tables
  <2> QED
    BY <2>1, QuietKeeps
<1> QED
  BY <1>1, <1>2, <1>3, <1>4, <1>5 DEF Next

-----------------------------------------------------------------------------
(* TypeOK.                                                                 *)

QuerySteps == {"idle", "override", "schedule", "rows", "overrides", "compute", "weeks", "export",
               "answered"}

\* The weeks have two people, and a generation is inside its window.
GenerationType ==
    \A r \in Rosters :
      /\ \A x \in schedule[r] : x.primary # x.secondary
      /\ gen[r].pc \in {"idle", "read", "write"}
      /\ gen[r].pc # "idle" => gen[r].left \in 1..Ahead

\* An override lasts, and is of a roster that exists.
OverridesType ==
    /\ overrides = [o \in OverrideIds |-> overrides[o]]
    /\ \A o \in OverrideIds : overrides[o] # None =>
         /\ overrides[o].from < overrides[o].to
         /\ \A r \in Rosters : overrides[o].roster = r => rosters[r] # None

QueryType ==
    /\ DOMAIN query = DOMAIN Idle
    /\ query.pc \in QuerySteps
    /\ query.todo \subseteq DOMAIN query.seen
    /\ query.pc \in {"rows", "overrides"} => query.todo # {}
    /\ events \in 0..MaxEvents

LEMMA EventType == QueryType /\ Event => events' \in 0..MaxEvents
BY ConstantsAssumption DEF QueryType, Event

LEMMA ChangedType ==
    ASSUME QueryType, NEW n, Changed(n)
    PROVE  /\ DOMAIN query' = DOMAIN Idle /\ query'.pc = query.pc
           /\ query'.todo = query.todo /\ query'.seen = query.seen
BY DEF QueryType, Changed, Idle

LEMMA QueryInit == Init => QueryType
BY ConstantsAssumption DEF Init, QueryType, QuerySteps, Idle

LEMMA QueryStep == QueryType /\ [Next]_vars => QueryType'
<1> SUFFICES ASSUME QueryType, [Next]_vars PROVE QueryType'
  OBVIOUS
<1>1. ASSUME Event, NEW n, Changed(n) PROVE QueryType'
  BY <1>1, EventType, ChangedType DEF QueryType
<1>2. ASSUME Event, UNCHANGED query PROVE QueryType'
  BY <1>2, EventType DEF QueryType
<1>3. ASSUME NEW r \in Rosters,
             \/ \E s \in NewRosters : CreateRoster(r, s)
             \/ \E u \in Updates : UpdateRoster(r, u)
             \/ DeleteRoster(r)
             \/ \E o \in OverrideIds, shape \in Shapes : CreateOverride(r, o, shape)
             \/ \E edit \in Edits : UpdateScheduleWeek(r, edit) \/ UnlockScheduleWeek(r, edit.start)
      PROVE  QueryType'
  BY <1>1, <1>3 DEF CreateRoster, UpdateRoster, DeleteRoster, CreateOverride, UpdateScheduleWeek,
     UnlockScheduleWeek
<1>4. ASSUME NEW r \in Rosters, NEW from \in Froms, Generate(r, from) PROVE QueryType'
  BY <1>2, <1>4 DEF Generate
<1>5. ASSUME NEW r \in Rosters, ReadLocked(r) \/ WriteWeek(r) PROVE QueryType'
  <2>1. events' = events /\ (UNCHANGED query \/ \E n : Changed(n))
    BY <1>5 DEF ReadLocked, WriteWeek
  <2> QED
    BY <2>1, ChangedType DEF QueryType
<1>6. ASSUME NEW kind, NEW pc \in {"override", "weeks"}, NEW r, NEW at, Ask(kind, pc, r, at),
             UNCHANGED events
      PROVE  QueryType'
  BY <1>6 DEF Ask, QueryType, QuerySteps, Idle
<1>7. ASSUME NEW r \in Rosters, (\E ts \in Timestamps : GetOnCall(r, ts)) \/ ExportICS(r) PROVE QueryType'
  BY <1>6, <1>7 DEF GetOnCall, ExportICS
<1>8. ASSUME NEW r \in Rosters, FetchRows(r) PROVE QueryType'
  BY <1>8, EventType DEF FetchRows, QueryType, QuerySteps, Idle
<1>9. ASSUME NEW o \in OverrideIds, DeleteOverride(o) PROVE QueryType'
  BY <1>1, <1>9 DEF DeleteOverride
<1>10. ASSUME NEW a, Answer(a), UNCHANGED events PROVE QueryType'
  BY <1>10 DEF Answer, QueryType, QuerySteps, Idle
<1>11. CASE CheckOverride \/ LookUpWeek \/ OnCallReadFails
  <2>1. CASE CheckOverride
    BY <2>1 DEF CheckOverride, QueryType, QuerySteps, Idle
  <2>2. CASE LookUpWeek
    BY <1>10, <2>2 DEF LookUpWeek
  <2>3. CASE OnCallReadFails
    <3>1. events' \in 0..MaxEvents
      BY <2>3, EventType DEF OnCallReadFails
    <3>2. \/ query' = Idle
          \/ \E a : query' = [query EXCEPT !.pc = "answered", !.answer = a, !.failed = TRUE]
      BY <2>3 DEF OnCallReadFails
    <3>3. CASE query' = Idle
      BY <3>1, <3>3 DEF QueryType, QuerySteps, Idle
    <3>4. ASSUME NEW a, query' = [query EXCEPT !.pc = "answered", !.answer = a, !.failed = TRUE]
          PROVE  QueryType'
      BY <3>1, <3>4 DEF QueryType, QuerySteps, Idle
    <3> QED
      BY <3>2, <3>3, <3>4
  <2> QED
    BY <1>11, <2>1, <2>2, <2>3
<1>12. ASSUME NEW w \in Windows, GetCoverage(w) PROVE QueryType'
  <2>1. /\ DOMAIN query' = DOMAIN Idle
        /\ query'.pc = (IF Listed = {} THEN "compute" ELSE "rows")
        /\ query'.todo = Listed /\ DOMAIN query'.seen = Listed
    BY <1>12 DEF GetCoverage, Idle
  <2>2. events' = events
    BY <1>12 DEF GetCoverage
  <2> QED
    BY <2>1, <2>2 DEF QueryType, QuerySteps
<1>13. CASE FetchOverrides
  <2> DEFINE rest == query.todo \ {query.roster}
  <2>1. /\ DOMAIN query' = DOMAIN Idle
        /\ query'.pc = (IF rest = {} THEN "compute" ELSE "rows")
        /\ query'.todo = rest /\ query'.seen = query.seen
    BY <1>13 DEF FetchOverrides, QueryType, Idle
  <2>2. events' \in 0..MaxEvents
    BY <1>13, EventType DEF FetchOverrides, QueryType
  <2> QED
    BY <2>1, <2>2 DEF QueryType, QuerySteps
<1>14. CASE Compute \/ ExportOverrides
  BY <1>10, <1>14 DEF Compute, ExportOverrides
<1>15. CASE ExportWeeks \/ Answered
  <2>1. CASE ExportWeeks
    <3>1. /\ DOMAIN query' = DOMAIN Idle /\ query'.pc = "export"
          /\ query'.todo = query.todo /\ query'.seen = query.seen
      BY <2>1 DEF ExportWeeks, QueryType, Idle
    <3> QED
      BY <2>1, <3>1 DEF ExportWeeks, QueryType, QuerySteps
  <2>2. CASE Answered
    BY <2>2 DEF Answered, QueryType, QuerySteps, Idle
  <2> QED
    BY <1>15, <2>1, <2>2
<1>16. CASE UNCHANGED vars
  BY <1>16 DEF vars, QueryType
<1> QED
  BY <1>3, <1>4, <1>5, <1>7, <1>8, <1>9, <1>11, <1>12, <1>13, <1>14, <1>15, <1>16 DEF Next

LEMMA OverridesInit == Init => OverridesType
BY DEF Init, OverridesType

LEMMA OverridesStep == WeeksInv /\ OverridesType /\ [Next]_vars => OverridesType'
<1> SUFFICES ASSUME WeeksInv, OverridesType, [Next]_vars PROVE OverridesType'
  OBVIOUS
<1> USE DEF OverridesType
<1>1. ASSUME UNCHANGED overrides, \A r \in Rosters : rosters[r] # None => rosters'[r] # None
      PROVE  OverridesType'
  BY <1>1
<1>2. ASSUME NEW r \in Rosters, NEW s \in NewRosters, CreateRoster(r, s) PROVE OverridesType'
  <2>1. s # None /\ UNCHANGED overrides
    BY <1>2, FoundedDays, ConstantsAssumption DEF CreateRoster
  <2> QED
    BY <1>1, <1>2, <2>1 DEF CreateRoster, WeeksInv, WeeksType
<1>3. ASSUME NEW r \in Rosters, NEW u \in Updates, UpdateRoster(r, u) PROVE OverridesType'
  <2>1. rosters[r] \in Settings /\ UNCHANGED overrides /\ rosters'[r] = Updated(rosters[r], u)
        /\ \A q \in Rosters \ {r} : rosters'[q] = rosters[q]
    BY <1>3 DEF UpdateRoster, WeeksInv, WeeksType
  <2>2. rosters'[r] \in Settings
    BY <2>1, ConstantsAssumption DEF Updated, Settings
  <2> QED
    BY <1>1, <2>1, <2>2, ConstantsAssumption
<1>4. ASSUME NEW r \in Rosters, DeleteRoster(r) PROVE OverridesType'
  BY <1>4 DEF DeleteRoster, WeeksInv, WeeksType
<1>5. ASSUME NEW r \in Rosters, NEW o \in OverrideIds, NEW shape \in Shapes,
             CreateOverride(r, o, shape)
      PROVE  OverridesType'
  BY <1>5, ConstantsAssumption DEF CreateOverride, NewOverride, ValidPeriod
<1>6. ASSUME NEW o \in OverrideIds, DeleteOverride(o) PROVE OverridesType'
  BY <1>6 DEF DeleteOverride
<1>7. ASSUME NEW r \in Rosters,
             \/ \E edit \in Edits : UpdateScheduleWeek(r, edit) \/ UnlockScheduleWeek(r, edit.start)
             \/ \E from \in Froms : Generate(r, from)
             \/ ReadLocked(r) \/ WriteWeek(r)
             \/ \E ts \in Timestamps : GetOnCall(r, ts)
             \/ FetchRows(r)
             \/ ExportICS(r)
      PROVE  OverridesType'
  <2>1. UNCHANGED <<rosters, overrides>>
    BY <1>7 DEF UpdateScheduleWeek, UnlockScheduleWeek, Generate, ReadLocked, WriteWeek, GetOnCall,
       FetchRows, ExportICS, tables
  <2> QED
    BY <2>1
<1>8. CASE \/ CheckOverride \/ LookUpWeek \/ OnCallReadFails
           \/ \E w \in Windows : GetCoverage(w)
           \/ FetchOverrides \/ Compute \/ ExportWeeks \/ ExportOverrides \/ Answered
           \/ UNCHANGED vars
  <2>1. UNCHANGED <<rosters, overrides>>
    BY <1>8 DEF CheckOverride, LookUpWeek, OnCallReadFails, GetCoverage, FetchOverrides, Compute,
       ExportWeeks, ExportOverrides, Answered, tables, vars
  <2> QED
    BY <2>1
<1> QED
  BY <1>2, <1>3, <1>4, <1>5, <1>6, <1>7, <1>8 DEF Next

LEMMA GenerationInit == Init => GenerationType
BY DEF Init, GenerationType, Resting

LEMMA GenerationStep == WeeksInv /\ GenerationType /\ [Next]_vars => GenerationType'
<1> SUFFICES ASSUME WeeksInv, GenerationType, [Next]_vars PROVE GenerationType'
  OBVIOUS
<1> USE DEF GenerationType
\* Who is in a week that is written.
<1>1. ASSUME NEW r \in Rosters, NEW row, row.primary # row.secondary,
             schedule' = [schedule EXCEPT ![r] = Upserted(@, row)]
      PROVE  \A q \in Rosters : \A x \in schedule'[q] : x.primary # x.secondary
  BY <1>1 DEF WeeksInv, WeeksType, Upserted
<1>2. ASSUME UNCHANGED <<schedule, gen>> PROVE GenerationType'
  BY <1>2
<1>3. ASSUME NEW r \in Rosters, DeleteRoster(r) PROVE GenerationType'
  BY <1>3 DEF DeleteRoster, WeeksInv, WeeksType
<1>4. ASSUME NEW r \in Rosters, NEW edit \in Edits, UpdateScheduleWeek(r, edit)
      PROVE  GenerationType'
  <2>1. SetByHand(edit).primary # SetByHand(edit).secondary
    BY <1>4 DEF UpdateScheduleWeek, SetByHand
  <2> QED
    BY <1>1, <1>4, <2>1 DEF UpdateScheduleWeek
<1>5. ASSUME NEW r \in Rosters, NEW start, UnlockScheduleWeek(r, start) PROVE GenerationType'
  <2>1. PICK x \in schedule[r] :
          schedule' = [schedule EXCEPT ![r] = Upserted(@, [x EXCEPT !.locked = FALSE])]
    BY <1>5 DEF UnlockScheduleWeek
  <2>2. x \in Row
    BY <2>1 DEF WeeksInv, WeeksType
  <2>3. [x EXCEPT !.locked = FALSE].primary # [x EXCEPT !.locked = FALSE].secondary
    BY <2>1, <2>2 DEF Row
  <2> QED
    BY <1>1, <1>5, <2>1, <2>3 DEF UnlockScheduleWeek
<1>6. ASSUME NEW r \in Rosters, NEW from \in Froms, Generate(r, from) PROVE GenerationType'
  <2>1. Ahead \in 1..Ahead
    BY ConstantsAssumption
  <2>2. /\ gen'[r].pc = "read" /\ gen'[r].left = Ahead
        /\ \A q \in Rosters \ {r} : gen'[q] = gen[q]
    BY <1>6 DEF Generate, WeeksInv, WeeksType
  <2> QED
    BY <1>6, <2>1, <2>2 DEF Generate, tables
<1>7. ASSUME NEW r \in Rosters, ReadLocked(r) PROVE GenerationType'
  <2>1. /\ gen'[r].pc = "write" /\ gen'[r].left = gen[r].left
        /\ \A q \in Rosters \ {r} : gen'[q] = gen[q]
    BY <1>7 DEF ReadLocked, WeeksInv, WeeksType, Resting
  <2> QED
    BY <1>7, <2>1 DEF ReadLocked, tables
<1>8. ASSUME NEW r \in Rosters, WriteWeek(r) PROVE GenerationType'
  <2>1. \A q \in Rosters : \A x \in schedule'[q] : x.primary # x.secondary
    <3>1. CASE UNCHANGED schedule
      BY <3>1
    <3>2. ASSUME NEW d \in Duties,
                 schedule' = [schedule EXCEPT ![r] =
                                Upserted(@, [start |-> gen[r].start, primary |-> d.primary,
                                             secondary |-> d.secondary, locked |-> FALSE])]
          PROVE  \A q \in Rosters : \A x \in schedule'[q] : x.primary # x.secondary
      <4> DEFINE row == [start |-> gen[r].start, primary |-> d.primary,
                         secondary |-> d.secondary, locked |-> FALSE]
      <4>1. row.primary # row.secondary
        BY ConstantsAssumption
      <4>2. schedule' = [schedule EXCEPT ![r] = Upserted(@, row)]
        BY <3>2
      <4> HIDE DEF row
      <4> QED
        BY <1>1, <4>1, <4>2
    <3> QED
      BY <1>8, <3>1, <3>2 DEF WriteWeek
  <2>2. gen' = [gen EXCEPT ![r] = Later(@)] \/ gen' = [gen EXCEPT ![r] = Resting]
    BY <1>8 DEF WriteWeek
  <2>3. /\ gen[r].pc = "write" /\ gen[r].left \in 1..Ahead /\ DOMAIN gen[r] = DOMAIN Resting
        /\ gen'[r] \in {Later(gen[r]), Resting} /\ \A q \in Rosters \ {r} : gen'[q] = gen[q]
    BY <1>8, <2>2 DEF WriteWeek, WeeksInv, WeeksType
  <2>4. /\ gen'[r].pc \in {"idle", "read", "write"}
        /\ gen'[r].pc # "idle" => gen'[r].left \in 1..Ahead
    <3>1. CASE gen'[r] = Resting
      BY <3>1 DEF Resting
    <3>2. CASE gen'[r] = Later(gen[r]) /\ gen[r].left # 1
      <4>1. gen'[r].pc = "write" /\ gen'[r].left = gen[r].left - 1
        BY <2>3, <3>2 DEF Later, Resting
      <4> QED
        BY <2>3, <3>2, <4>1, ConstantsAssumption
    <3> QED
      BY <2>3, <3>1, <3>2 DEF Later
  <2> QED
    BY <2>1, <2>3, <2>4
<1>9. ASSUME NEW r \in Rosters,
             \/ \E s \in NewRosters : CreateRoster(r, s)
             \/ \E u \in Updates : UpdateRoster(r, u)
             \/ \E o \in OverrideIds, shape \in Shapes : CreateOverride(r, o, shape)
             \/ \E ts \in Timestamps : GetOnCall(r, ts)
             \/ FetchRows(r)
             \/ ExportICS(r)
      PROVE  GenerationType'
  <2>1. UNCHANGED <<schedule, gen>>
    BY <1>9 DEF CreateRoster, UpdateRoster, CreateOverride, GetOnCall, FetchRows, ExportICS, tables
  <2> QED
    BY <1>2, <2>1
<1>10. CASE \/ \E o \in OverrideIds : DeleteOverride(o)
            \/ CheckOverride \/ LookUpWeek \/ OnCallReadFails
            \/ \E w \in Windows : GetCoverage(w)
            \/ FetchOverrides \/ Compute \/ ExportWeeks \/ ExportOverrides \/ Answered
            \/ UNCHANGED vars
  <2>1. UNCHANGED <<schedule, gen>>
    BY <1>10 DEF DeleteOverride, CheckOverride, LookUpWeek, OnCallReadFails, GetCoverage,
       FetchOverrides, Compute, ExportWeeks, ExportOverrides, Answered, tables, vars
  <2> QED
    BY <1>2, <2>1
<1> QED
  BY <1>3, <1>4, <1>5, <1>6, <1>7, <1>8, <1>9, <1>10 DEF Next

(***************************************************************************)
(* The tables keep their constraints, whatever overlaps, a generation is   *)
(* inside its window and a request looks only at rosters that it listed    *)
(* (store.go and service.go; migrations 000010 and 000016).                *)
(***************************************************************************)
THEOREM TypeCorrect == Spec => []TypeOK
<1>1. WeeksInv /\ GenerationType /\ OverridesType /\ QueryType => TypeOK
  BY DEF WeeksInv, WeeksType, GenerationType, OverridesType, QueryType, QuerySteps, TypeOK,
     OfRoster, Row
<1> QED
  BY <1>1, WeeksInit, WeeksStep, GenerationInit, GenerationStep, OverridesInit, OverridesStep,
     QueryInit, QueryStep, PTL DEF Spec

-----------------------------------------------------------------------------
(***************************************************************************)
(* However generations, edits by hand, unlocking and new rosters overlap,  *)
(* the weeks of a roster are apart for as long as its handoff day stays    *)
(* and weeks set by hand begin on it (scheduler.go, alignToHandoffDay;     *)
(* store.go, UpsertScheduleWeek and GetScheduleForTime).                   *)
(***************************************************************************)
THEOREM OneWeekPerDayCorrect == Spec => []OneWeekPerDay
<1>1. WeeksInv => OneWeekPerDay
  <2> SUFFICES ASSUME WeeksInv, NEW r \in Rosters, ~shifted[r],
                      NEW x \in schedule[r], NEW y \in schedule[r], x # y
               PROVE  x.start >= y.start + 7 \/ y.start >= x.start + 7
    BY DEF OneWeekPerDay
  <2>1. rosters[r] # None /\ rosters[r].day \in Int
    BY FoundedDays DEF WeeksInv, WeeksType
  <2>2. x.start \in Int /\ y.start \in Int /\ x.start # y.start
    BY DEF WeeksInv, WeeksType, Row
  <2>3. BeginsOn(x.start, rosters[r].day) /\ BeginsOn(y.start, rosters[r].day)
    BY <2>1 DEF WeeksInv, WeeksAligned
  <2> QED
    BY <2>1, <2>2, <2>3, BeginsApart
<1> QED
  BY <1>1, WeeksInit, WeeksStep, PTL DEF Spec
-----------------------------------------------------------------------------
(* Days and instants.                                                      *)

LEMMA Multiplied ==
    ASSUME NEW a \in Int, NEW b \in Int, NEW n \in Nat, a <= b
    PROVE  a * n \in Int /\ a * n <= b * n
<1>1. b - a \in Nat
  OBVIOUS
<1>2. (b - a) * n >= 0
  BY <1>1
<1>3. (b - a) * n = b * n - a * n
  OBVIOUS
<1> QED
  BY <1>2, <1>3

LEMMA DayOf ==
    ASSUME NEW t \in Int
    PROVE  Day(t) \in Int /\ Day(t) * PerDay <= t /\ t < (Day(t) + 1) * PerDay
BY ConstantsAssumption DEF Day

\* A day has begun by t if its first instant has come.
LEMMA DayHasBegun ==
    ASSUME NEW t \in Int, NEW d \in Int
    PROVE  d * PerDay <= t <=> d <= Day(t)
<1>1. Day(t) \in Int /\ Day(t) * PerDay <= t /\ t < (Day(t) + 1) * PerDay
  BY DayOf
<1>2. PerDay \in Nat
  BY ConstantsAssumption
<1>3. ASSUME d <= Day(t) PROVE d * PerDay <= t
  <2>1. d * PerDay \in Int /\ d * PerDay <= Day(t) * PerDay
    BY <1>1, <1>2, <1>3, Multiplied
  <2>2. Day(t) * PerDay \in Int
    BY <1>1, <1>2, Multiplied
  <2> QED
    BY <1>1, <2>1, <2>2
<1>4. ASSUME ~ (d <= Day(t)) PROVE ~ (d * PerDay <= t)
  <2>1. Day(t) + 1 \in Int /\ Day(t) + 1 <= d
    BY <1>1, <1>4
  <2>2. (Day(t) + 1) * PerDay \in Int /\ (Day(t) + 1) * PerDay <= d * PerDay
    BY <1>2, <2>1, Multiplied
  <2>3. d * PerDay \in Int
    BY <1>2, Multiplied
  <2> QED
    BY <1>1, <2>2, <2>3
<1> QED
  BY <1>3, <1>4
-----------------------------------------------------------------------------
(* Numbers.                                                                *)

LEMMA LeastIndex ==
    ASSUME NEW S, S \subseteq Nat, S # {}
    PROVE  \E i \in S : \A j \in S : i <= j
<1>1. PICK i \in S : \A j \in S : ~ (<<j, i>> \in OpToRel(<, Nat))
  BY WFMin, NatLessThanWellFounded
<1>2. ASSUME NEW j \in Nat, j < i PROVE <<j, i>> \in OpToRel(<, Nat)
  BY <1>2 DEF OpToRel
<1>3. \A j \in S : ~ (j < i)
  BY <1>1, <1>2
<1> QED
  BY <1>3

\* A set that has 0 and with a number the next one has all of them up to n.
LEMMA Induction ==
    ASSUME NEW n \in Nat, NEW S, 0 \in S, \A k \in 0 .. n - 1 : k \in S => k + 1 \in S
    PROVE  0 .. n \subseteq S
<1> DEFINE D == {k \in 0 .. n : k \notin S}
<1> SUFFICES ASSUME D # {} PROVE FALSE
  OBVIOUS
<1>1. D \subseteq Nat
  OBVIOUS
<1>2. PICK k \in D : \A j \in D : k <= j
  BY <1>1, LeastIndex
<1>3. k - 1 \in 0 .. n - 1 /\ k - 1 + 1 = k
  BY <1>2
<1>4. k - 1 \notin D
  BY <1>2
<1> QED
  BY <1>2, <1>3, <1>4

\* What is left of a number after taking whole days from it.
LEMMA Remainder ==
    ASSUME NEW q \in Int, NEW z \in 0 .. PerDay - 1
    PROVE  (q * PerDay + z) % PerDay = z
<1>1. PerDay \in Nat \ {0}
  BY ConstantsAssumption
<1> DEFINE y == q * PerDay + z
           d == y \div PerDay
           m == y % PerDay
<1>2. y \in Int /\ d \in Int /\ m \in 0 .. PerDay - 1 /\ y = d * PerDay + m
  BY <1>1
<1>3. d = q
  <2>1. CASE d < q
    <3>1. d + 1 \in Int /\ d + 1 <= q
      BY <1>2, <2>1
    <3>2. (d + 1) * PerDay <= q * PerDay
      BY <1>1, <3>1, Multiplied
    <3> QED
      BY <1>1, <1>2, <3>2
  <2>2. CASE d > q
    <3>1. q + 1 \in Int /\ q + 1 <= d
      BY <1>2, <2>2
    <3>2. (q + 1) * PerDay <= d * PerDay
      BY <1>1, <1>2, <3>1, Multiplied
    <3> QED
      BY <1>1, <1>2, <3>2
  <2> QED
    BY <1>2, <2>1, <2>2
<1>4. y = d * PerDay + z
  BY <1>3
<1>5. m = z
  <2> HIDE DEF y, d, m
  <2>1. d * PerDay \in Int
    BY <1>1, <1>2
  <2> QED
    BY <1>2, <1>4, <2>1
<1> QED
  BY <1>5

\* A time of the day is a number of whole days before or after.
LEMMA TimeOfDay ==
    ASSUME NEW t \in Int
    PROVE  /\ t % PerDay \in 0 .. PerDay - 1
           /\ \E q \in Int : t = q * PerDay + (t % PerDay)
<1>1. PerDay \in Nat \ {0}
  BY ConstantsAssumption
<1>2. t % PerDay \in 0 .. PerDay - 1
  BY <1>1
<1>3. t \div PerDay \in Int /\ t = (t \div PerDay) * PerDay + (t % PerDay)
  BY <1>1
<1> QED
  BY <1>2, <1>3

\* The time on the clock between two times of it.
LEMMA ClockDifference ==
    ASSUME NEW x \in Times, NEW y \in Times
    PROVE  (x - y) % PerDay = IF x >= y THEN x - y ELSE x - y + PerDay
<1>1. PerDay \in Nat \ {0}
  BY ConstantsAssumption
<1>2. CASE x >= y
  <2>1. x - y \in 0 .. PerDay - 1 /\ x - y = 0 * PerDay + (x - y)
    BY <1>1, <1>2 DEF Times
  <2> QED
    BY <1>2, <2>1, Remainder
<1>3. CASE ~ (x >= y)
  <2>1. x - y + PerDay \in 0 .. PerDay - 1 /\ x - y = (-1) * PerDay + (x - y + PerDay)
    BY <1>1, <1>3 DEF Times
  <2>2. ((-1) * PerDay + (x - y + PerDay)) % PerDay = x - y + PerDay
    BY <2>1, Remainder
  <2> QED
    BY <1>3, <2>1, <2>2
<1> QED
  BY <1>2, <1>3
-----------------------------------------------------------------------------
(* Who is on duty.                                                         *)

LEMMA LocalTime ==
    ASSUME NEW s \in Settings, NEW t \in Int
    PROVE  /\ Local(s, t) \in Times /\ s.time \in Times /\ s.zone \in Offsets
           /\ s.hours # None => s.hours.start \in Times /\ s.hours.end \in Times
BY ConstantsAssumption DEF Local, Settings, Times, Offsets

\* Twelve hours, past midnight or not.
LEMMA HandoffWindow ==
    ASSUME NEW s \in Settings, NEW t \in Int
    PROVE  InHandoffWindow(s, t) <=> (Local(s, t) - s.time) % PerDay < PerDay \div 2
<1>1. /\ PerDay \in Nat \ {0} /\ Local(s, t) \in Times /\ s.time \in Times
      /\ (Local(s, t) - s.time) % PerDay =
           IF Local(s, t) >= s.time THEN Local(s, t) - s.time ELSE Local(s, t) - s.time + PerDay
  BY ConstantsAssumption, LocalTime, ClockDifference
<1>2. PICK x \in Times : x = Local(s, t)
  BY <1>1
<1>3. PICK half \in Nat : half = PerDay \div 2 /\ half < PerDay
  BY <1>1
<1>4. InHandoffWindow(s, t) <=>
        \/ s.time + half >= PerDay /\ (x >= s.time \/ x < s.time + half - PerDay)
        \/ ~ (s.time + half >= PerDay) /\ x >= s.time /\ x < s.time + half
  BY <1>1, <1>2, <1>3 DEF InHandoffWindow, Times
<1>5. (x - s.time) % PerDay = IF x >= s.time THEN x - s.time ELSE x - s.time + PerDay
  BY <1>1, <1>2
<1>6. (x - s.time) % PerDay < half <=>
        \/ s.time + half >= PerDay /\ (x >= s.time \/ x < s.time + half - PerDay)
        \/ ~ (s.time + half >= PerDay) /\ x >= s.time /\ x < s.time + half
  BY <1>1, <1>3, <1>5 DEF Times
<1> QED
  BY <1>2, <1>3, <1>4, <1>6

LEMMA ActiveHours ==
    ASSUME NEW s \in Settings, NEW t \in Int, s.hours # None
    PROVE  InActiveHours(s, t) <=> OnClock(Local(s, t), s.hours.start, s.hours.end)
<1> DEFINE x == Local(s, t)
           f == s.hours.start
           e == s.hours.end
<1>1. /\ PerDay \in Nat \ {0} /\ x \in Times /\ f \in Times /\ e \in Times
      /\ (x - f) % PerDay = IF x >= f THEN x - f ELSE x - f + PerDay
      /\ (e - f) % PerDay = IF e >= f THEN e - f ELSE e - f + PerDay
  BY ConstantsAssumption, LocalTime, ClockDifference
<1>2. InActiveHours(s, t) <=> IF e > f THEN x >= f /\ x < e ELSE x >= f \/ x < e
  BY DEF InActiveHours
<1>3. OnClock(x, f, e) <=> f = e \/ (x - f) % PerDay < (e - f) % PerDay
  BY DEF OnClock
<1> HIDE DEF x, f, e
<1>4. OnClock(x, f, e) <=> IF e > f THEN x >= f /\ x < e ELSE x >= f \/ x < e
  BY <1>1, <1>3 DEF Times
<1> QED
  BY <1>2, <1>4 DEF x, f, e

\* The code's arithmetic on minutes of the day is that of the clock.
LEMMA ActiveIsOnDuty ==
    ASSUME NEW s \in Settings, NEW t \in Int
    PROVE  RosterActiveAt(s, t) <=> OnDuty(s, t)
<1>1. CASE s.hours = None
  BY <1>1, HandoffWindow DEF RosterActiveAt, OnDuty, InActiveHours
<1>2. CASE s.hours # None
  BY <1>2, ActiveHours DEF RosterActiveAt, OnDuty
<1> QED
  BY <1>1, <1>2

\* How long before t the twelve hours of a roster last began.
LEMMA SinceRelief ==
    ASSUME NEW s \in Settings, NEW t \in Int
    PROVE  /\ Relieves(s) \in 0 .. PerDay - 1
           /\ (Local(s, t) - s.time) % PerDay = (t - Relieves(s)) % PerDay
<1>1. PerDay \in Nat \ {0} /\ s.zone \in Int /\ s.time \in Int
  BY ConstantsAssumption, LocalTime DEF Times, Offsets
<1> DEFINE c == t + s.zone
           d == s.time - s.zone
           y == (c % PerDay) - s.time
           z == t - (d % PerDay)
<1>2. c \in Int /\ d \in Int /\ t = c - s.zone /\ s.time = d + s.zone
  BY <1>1
<1>3. PICK p \in Int : c = p * PerDay + (c % PerDay)
  <2> HIDE DEF c
  <2> QED
    BY <1>2, TimeOfDay
<1>4. PICK q \in Int : d = q * PerDay + (d % PerDay)
  <2> HIDE DEF d
  <2> QED
    BY <1>2, TimeOfDay
<1>5. d % PerDay \in 0 .. PerDay - 1 /\ c % PerDay \in 0 .. PerDay - 1
  <2> HIDE DEF c, d
  <2> QED
    BY <1>2, TimeOfDay
<1>6. y \in Int /\ z \in Int
  BY <1>1, <1>5
<1>7. PICK k \in Int : y = k * PerDay + (y % PerDay)
  <2> HIDE DEF y
  <2> QED
    BY <1>6, TimeOfDay
<1>8. y % PerDay \in 0 .. PerDay - 1
  <2> HIDE DEF y
  <2> QED
    BY <1>6, TimeOfDay
<1>9. z = (k + p + q) * PerDay + (y % PerDay)
  <2>1. p * PerDay \in Int /\ q * PerDay \in Int /\ k * PerDay \in Int
    BY <1>1
  <2>2. (k + p + q) * PerDay = k * PerDay + p * PerDay + q * PerDay
    BY <1>1
  <2>3. PICK e \in Int : e = c % PerDay
    BY <1>5
  <2>4. PICK f \in Int : f = d % PerDay
    BY <1>5
  <2>5. y = e - s.time /\ z = t - f
    BY <2>3, <2>4
  <2>6. c = p * PerDay + e /\ d = q * PerDay + f
    BY <1>3, <1>4, <2>3, <2>4
  <2>7. PICK m \in Int : m = y % PerDay
    BY <1>8
  <2>8. y = k * PerDay + m
    BY <1>7, <2>7
  <2> HIDE DEF c, d, y, z
  <2>9. z = (k + p + q) * PerDay + m
    <3>1. PICK kk \in Int, pp \in Int, qq \in Int :
            kk = k * PerDay /\ pp = p * PerDay /\ qq = q * PerDay
      BY <2>1
    <3>2. PICK time \in Int, zone \in Int : time = s.time /\ zone = s.zone
      BY <1>1
    <3>3. kk + m = e - time /\ t = pp + e - zone /\ time = qq + f + zone
      BY <1>2, <2>5, <2>6, <2>8, <3>1, <3>2
    <3>4. t - f = kk + pp + qq + m
      BY <3>3
    <3> QED
      BY <2>2, <2>5, <3>1, <3>4
  <2> QED
    BY <2>7, <2>9
<1>10. z % PerDay = y % PerDay
  <2> HIDE DEF y, z
  <2> QED
    BY <1>8, <1>9, Remainder
<1> QED
  BY <1>5, <1>10 DEF Relieves, Local
\* Of two rosters half a day apart one is on duty: when the twelve hours of the first are over, those
\* of the second have begun.
LEMMA OneOfTwo ==
    ASSUME NEW s1 \in Settings, NEW s2 \in Settings, NEW t \in Int,
           s1.fts, s1.hours = None, s2.hours = None, s2.fts,
           (Relieves(s1) - Relieves(s2)) % PerDay = PerDay \div 2
    PROVE  RosterActiveAt(s1, t) \/ RosterActiveAt(s2, t)
<1>1. PICK half \in Nat : half = PerDay \div 2 /\ PerDay = half + half /\ PerDay \in Nat \ {0}
  BY ConstantsAssumption
<1>2. PICK a \in 0 .. PerDay - 1 : a = Relieves(s1)
  BY SinceRelief
<1>3. PICK b \in 0 .. PerDay - 1 : b = Relieves(s2)
  BY SinceRelief
<1>4. /\ RosterActiveAt(s1, t) <=> (t - a) % PerDay < half
      /\ RosterActiveAt(s2, t) <=> (t - b) % PerDay < half
  <2>1. ASSUME NEW s \in Settings, s.hours = None, s.fts
        PROVE  RosterActiveAt(s, t) <=> (t - Relieves(s)) % PerDay < PerDay \div 2
    BY <2>1, HandoffWindow, SinceRelief DEF RosterActiveAt, InActiveHours
  <2> QED
    BY <1>1, <1>2, <1>3, <2>1
<1>5. half = IF a >= b THEN a - b ELSE a - b + PerDay
  BY <1>1, <1>2, <1>3, ClockDifference DEF Times
<1> DEFINE d == t - a
<1>6. d \in Int
  BY <1>2
<1>7. PICK u \in 0 .. PerDay - 1 : u = d % PerDay
  <2> HIDE DEF d
  <2> QED
    BY <1>6, TimeOfDay
<1>8. PICK k \in Int : d = k * PerDay + u
  <2> HIDE DEF d
  <2> QED
    BY <1>6, <1>7, TimeOfDay
<1>9. CASE u >= half
  <2>1. PICK q \in Int : q = IF a >= b THEN k + 1 ELSE k
    OBVIOUS
  <2>2. u - half \in 0 .. PerDay - 1 /\ u - half < half
    BY <1>1, <1>9
  <2>3. (k + 1) * PerDay = k * PerDay + PerDay /\ k * PerDay \in Int
    BY <1>1
  <2>4. t - b = q * PerDay + (u - half)
    <3>1. PICK kk \in Int : kk = k * PerDay
      BY <2>3
    <3>2. t = kk + u + a
      BY <1>2, <1>8, <3>1
    <3>3. q * PerDay = IF a >= b THEN kk + PerDay ELSE kk
      BY <2>1, <2>3, <3>1
    <3>4. t - b = (IF a >= b THEN kk + PerDay ELSE kk) + (u - half)
      BY <1>1, <1>2, <1>3, <1>5, <3>2
    <3> QED
      BY <3>3, <3>4
  <2>5. (t - b) % PerDay = u - half
    BY <2>2, <2>4, Remainder
  <2> QED
    BY <1>4, <2>2, <2>5
<1>10. CASE ~ (u >= half)
  BY <1>1, <1>4, <1>7, <1>10
<1> QED
  BY <1>9, <1>10

-----------------------------------------------------------------------------
(* The loop that tracks gaps.                                              *)

LEMMA SlotsInOrder ==
    ASSUME NEW w \in Windows
    PROVE  /\ Len(SlotTimes(w)) \in Nat /\ DOMAIN SlotTimes(w) = 1 .. Len(SlotTimes(w))
           /\ \A i \in 1 .. Len(SlotTimes(w)) : SlotTimes(w)[i] \in Int /\ SlotTimes(w)[i] < w.to.at
           /\ \A i, j \in 1 .. Len(SlotTimes(w)) : i < j => SlotTimes(w)[i] < SlotTimes(w)[j]
<1>1. PICK from \in Int, to \in Int, step \in Nat \ {0} : from = w.from.at /\ to = w.to.at /\ step = w.step
  BY ConstantsAssumption
<1>2. PICK n \in Int : /\ n = (w.to.at - w.from.at + w.step - 1) \div w.step
                       /\ n * step <= to - from + step - 1
  BY <1>1
<1>3. SlotTimes(w) = [i \in 1 .. n |-> from + (i - 1) * step]
  BY <1>1, <1>2 DEF SlotTimes
<1>4. PICK m \in Nat : m = IF n >= 0 THEN n ELSE 0
  BY <1>2
<1>5. 1 .. n = 1 .. m
  BY <1>4
<1>6. \A i \in 1 .. m : (i - 1) * step \in Int
  BY <1>1
<1>7. SlotTimes(w) \in [1 .. m -> Int]
  BY <1>3, <1>5, <1>6
<1>8. SlotTimes(w) \in Seq(Int)
  BY <1>7
<1>9. Len(SlotTimes(w)) = m /\ DOMAIN SlotTimes(w) = 1 .. m
  BY <1>7, <1>8
<1>10. ASSUME NEW i \in 1 .. m
       PROVE  SlotTimes(w)[i] = from + (i - 1) * step /\ SlotTimes(w)[i] < to
  <2>1. i - 1 \in Int /\ i - 1 <= n - 1 /\ n - 1 \in Int
    BY <1>4
  <2>2. (i - 1) * step <= (n - 1) * step /\ (i - 1) * step \in Int
    BY <1>1, <2>1, Multiplied
  <2>3. (n - 1) * step = n * step - step /\ n * step \in Int
    BY <1>1
  <2>4. SlotTimes(w)[i] = from + (i - 1) * step
    BY <1>3, <1>5
  <2>5. PICK x \in Int, y \in Int : x = (i - 1) * step /\ y = n * step
    BY <2>2, <2>3
  <2>6. x <= y - step /\ y <= to - from + step - 1
    BY <1>2, <2>2, <2>3, <2>5
  <2> QED
    BY <1>1, <2>4, <2>5, <2>6
<1>11. ASSUME NEW i \in 1 .. m, NEW j \in 1 .. m, i < j
       PROVE  SlotTimes(w)[i] < SlotTimes(w)[j]
  <2>1. i - 1 \in Int /\ i \in Int /\ j - 1 \in Int /\ i <= j - 1
    BY <1>11
  <2>2. i * step <= (j - 1) * step /\ i * step \in Int /\ (j - 1) * step \in Int
    BY <1>1, <2>1, Multiplied
  <2>3. (i - 1) * step = i * step - step
    BY <1>1
  <2>4. PICK x \in Int, y \in Int : x = i * step /\ y = (j - 1) * step
    BY <2>2
  <2> QED
    BY <1>1, <1>10, <2>2, <2>3, <2>4
<1> QED
  BY <1>1, <1>7, <1>9, <1>10, <1>11
\* What the recursive function in Scan makes of the slot before.
Scanned(seen, w, scan, i) ==
    IF i = 0 THEN [since |-> None, gaps |-> <<>>] ELSE Track(seen, scan[i - 1], SlotTimes(w)[i])

LEMMA ScanUnfolds ==
    ASSUME NEW seen, NEW w
    PROVE  Scan(seen, w) =
             CHOOSE scan : scan = [i \in 0 .. Len(SlotTimes(w)) |-> Scanned(seen, w, scan, i)]
BY DEF Scan, Scanned

\* That function exists: it can be continued by one more slot.
LEMMA ScanExists ==
    ASSUME NEW seen, NEW w, Len(SlotTimes(w)) \in Nat
    PROVE  Scan(seen, w) = [i \in 0 .. Len(SlotTimes(w)) |-> Scanned(seen, w, Scan(seen, w), i)]
<1> DEFINE n == Len(SlotTimes(w))
           Upto(g, m) == g = [k \in 0 .. m |-> Scanned(seen, w, g, k)]
           G == {m \in 0 .. n : \E g : Upto(g, m)}
<1>1. 0 \in G
  <2> DEFINE g == [k \in 0 .. 0 |-> [since |-> None, gaps |-> <<>>]]
  <2>1. g = [k \in 0 .. 0 |-> Scanned(seen, w, g, k)]
    BY DEF Scanned
  <2> QED
    BY <2>1
<1>2. ASSUME NEW m \in 0 .. n - 1, m \in G PROVE m + 1 \in G
  <2>1. PICK g : Upto(g, m)
    BY <1>2
  <2> DEFINE f == [k \in 0 .. m + 1 |-> IF k = m + 1 THEN Scanned(seen, w, g, k) ELSE g[k]]
  <2>2. ASSUME NEW k \in 0 .. m + 1 PROVE f[k] = Scanned(seen, w, f, k)
    <3>1. CASE k = 0
      BY <2>1, <3>1 DEF Scanned
    <3>2. CASE k # 0
      <4>1. k - 1 \in 0 .. m /\ k - 1 # m + 1
        BY <3>2
      <4>2. f[k - 1] = g[k - 1]
        BY <4>1
      <4>3. f[k] = Scanned(seen, w, g, k)
        BY <2>1
      <4> QED
        BY <4>2, <4>3, <3>2 DEF Scanned
    <3> QED
      BY <3>1, <3>2
  <2>3. f = [k \in 0 .. m + 1 |-> Scanned(seen, w, f, k)]
    BY <2>2
  <2>4. \E g1 : Upto(g1, m + 1)
    BY <2>3
  <2>5. m + 1 \in 0 .. n
    OBVIOUS
  <2> QED
    BY <2>4, <2>5
<1>3. n \in G
  <2> HIDE DEF G
  <2>1. 0 .. n \subseteq G
    BY <1>1, <1>2, Induction
  <2> QED
    BY <2>1
<1>4. \E g : Upto(g, n)
  BY <1>3
<1> QED
  BY <1>4, ScanUnfolds

LEMMA ScanBySteps ==
    ASSUME NEW seen, NEW w, Len(SlotTimes(w)) \in Nat
    PROVE  /\ Scan(seen, w)[0] = [since |-> None, gaps |-> <<>>]
           /\ \A i \in 1 .. Len(SlotTimes(w)) :
                Scan(seen, w)[i] = Track(seen, Scan(seen, w)[i - 1], SlotTimes(w)[i])
<1> DEFINE scan == Scan(seen, w)
<1>1. scan = [i \in 0 .. Len(SlotTimes(w)) |-> Scanned(seen, w, scan, i)]
  BY ScanExists
<1> HIDE DEF scan
<1>2. scan[0] = [since |-> None, gaps |-> <<>>]
  BY <1>1 DEF Scanned
<1>3. \A i \in 1 .. Len(SlotTimes(w)) : scan[i] = Track(seen, scan[i - 1], SlotTimes(w)[i])
  BY <1>1 DEF Scanned
<1> QED
  BY <1>2, <1>3 DEF scan

Gap == [from : Int, to : Int]

\* T[1] to T[i] are the slots so far, gaps the closed gaps and since the start of the open one.
InClosedGap(gaps, t) == \E k \in 1 .. Len(gaps) : gaps[k].from <= t /\ t < gaps[k].to

ClosedGaps(T, i, gaps) ==
    /\ gaps \in Seq(Gap)
    /\ \A k \in 1 .. Len(gaps) :
         /\ gaps[k].from < gaps[k].to
         /\ \E j \in 1 .. i : gaps[k].from = T[j]
         /\ \E j \in 1 .. i : gaps[k].to = T[j]
    /\ \A k, l \in 1 .. Len(gaps) : k < l => gaps[k].to < gaps[l].from

Tracked(seen, T, i, since, gaps) ==
    /\ ClosedGaps(T, i, gaps)
    /\ \A j \in 1 .. i : ListedAt(seen, T[j]) = {} <=>
         InClosedGap(gaps, T[j]) \/ (since # None /\ since <= T[j])
    /\ since # None =>
         /\ \E j \in 1 .. i : since = T[j]
         /\ \A k \in 1 .. Len(gaps) : gaps[k].to < since

\* The first n of the slots are numbered in order.
Ordered(T, n) ==
    /\ \A i \in 1 .. n : T[i] \in Int
    /\ \A i, j \in 1 .. n : i < j => T[i] < T[j]

\* Closing a gap that begins after the others.
LEMMA OneMoreGap ==
    ASSUME NEW gaps \in Seq(Gap), NEW since \in Int, NEW to \in Int, NEW t \in Int
    PROVE  LET more == Append(gaps, [from |-> since, to |-> to])
           IN /\ more \in Seq(Gap) /\ Len(more) = Len(gaps) + 1
              /\ \A k \in 1 .. Len(gaps) : more[k] = gaps[k]
              /\ more[Len(gaps) + 1] = [from |-> since, to |-> to]
              /\ InClosedGap(more, t) <=> InClosedGap(gaps, t) \/ (since <= t /\ t < to)
<1> DEFINE g == [from |-> since, to |-> to]
           more == Append(gaps, g)
<1>1. g \in Gap /\ g.from = since /\ g.to = to
  BY DEF Gap
<1>2. more \in Seq(Gap) /\ Len(more) = Len(gaps) + 1 /\ Len(gaps) \in Nat
  BY <1>1
<1>3. (\A k \in 1 .. Len(gaps) : more[k] = gaps[k]) /\ more[Len(gaps) + 1] = g
  BY <1>1
<1> HIDE DEF g, more
<1>4. InClosedGap(more, t) <=> InClosedGap(gaps, t) \/ (since <= t /\ t < to)
  <2>1. ASSUME InClosedGap(more, t) PROVE InClosedGap(gaps, t) \/ (since <= t /\ t < to)
    <3>1. PICK k \in 1 .. Len(more) : more[k].from <= t /\ t < more[k].to
      BY <2>1 DEF InClosedGap
    <3>2. CASE k = Len(gaps) + 1
      BY <1>1, <1>3, <3>1, <3>2
    <3>3. CASE k # Len(gaps) + 1
      <4>1. k \in 1 .. Len(gaps)
        BY <1>2, <3>3
      <4> QED
        BY <1>3, <3>1, <4>1 DEF InClosedGap
    <3> QED
      BY <3>2, <3>3
  <2>2. ASSUME NEW k \in 1 .. Len(gaps), gaps[k].from <= t, t < gaps[k].to PROVE InClosedGap(more, t)
    <3>1. k \in 1 .. Len(more) /\ more[k] = gaps[k]
      BY <1>2, <1>3
    <3> QED
      BY <2>2, <3>1 DEF InClosedGap
  <2>3. ASSUME since <= t, t < to PROVE InClosedGap(more, t)
    <3>1. Len(gaps) + 1 \in 1 .. Len(more)
      BY <1>2
    <3> QED
      BY <1>1, <1>3, <2>3, <3>1 DEF InClosedGap
  <2> QED
    BY <2>1, <2>2, <2>3 DEF InClosedGap
<1> QED
  BY <1>2, <1>3, <1>4 DEF g, more
\* The closed gaps are those of the slots so far, each before slot t that comes next.
LEMMA ClosedBefore ==
    ASSUME NEW T, NEW i \in Nat, Ordered(T, i + 1), NEW gaps, ClosedGaps(T, i, gaps)
    PROVE  /\ T[i + 1] \in Int
           /\ \A j \in 1 .. i : T[j] \in Int /\ T[j] < T[i + 1]
           /\ Len(gaps) \in Nat
           /\ \A k \in 1 .. Len(gaps) :
                gaps[k].from \in Int /\ gaps[k].to \in Int /\ gaps[k].to < T[i + 1]
           /\ ~ InClosedGap(gaps, T[i + 1])
           /\ ClosedGaps(T, i + 1, gaps)
<1>1. T[i + 1] \in Int /\ \A j \in 1 .. i : T[j] \in Int /\ T[j] < T[i + 1]
  BY DEF Ordered
<1>2. gaps \in Seq(Gap) /\ Len(gaps) \in Nat /\ \A k \in 1 .. Len(gaps) : gaps[k] \in Gap
  BY DEF ClosedGaps
<1>3. \A k \in 1 .. Len(gaps) :
        gaps[k].from \in Int /\ gaps[k].to \in Int /\ gaps[k].to < T[i + 1]
  BY <1>1, <1>2 DEF ClosedGaps, Gap
<1>4. ~ InClosedGap(gaps, T[i + 1])
  BY <1>1, <1>3 DEF InClosedGap
<1>5. ClosedGaps(T, i + 1, gaps)
  <2>1. \A j \in 1 .. i : j \in 1 .. i + 1
    OBVIOUS
  <2> QED
    BY <2>1 DEF ClosedGaps
<1> QED
  BY <1>1, <1>2, <1>3, <1>4, <1>5

\* more is gaps and a gap from since to to.
ClosedBy(T, i, gaps, since, to, more) ==
    /\ more \in Seq(Gap)
    /\ \A k \in 1 .. Len(more) :
         /\ more[k].from < more[k].to
         /\ \E j \in 1 .. i : more[k].from = T[j]
         /\ (\E j \in 1 .. i : more[k].to = T[j]) \/ more[k].to = to
    /\ \A k, l \in 1 .. Len(more) : k < l => more[k].to < more[l].from
    /\ \A t \in Int : InClosedGap(more, t) <=> InClosedGap(gaps, t) \/ (since <= t /\ t < to)

\* A gap that ends at a later moment to is one more closed gap.
LEMMA CloseGap ==
    ASSUME NEW T, NEW i \in Nat, \A j \in 1 .. i : T[j] \in Int, NEW gaps, ClosedGaps(T, i, gaps),
           NEW since \in Int, NEW to \in Int, since < to,
           \E j \in 1 .. i : since = T[j],
           \A k \in 1 .. Len(gaps) : gaps[k].to < since,
           NEW more, more = Append(gaps, [from |-> since, to |-> to])
    PROVE  ClosedBy(T, i, gaps, since, to, more)
<1>1. gaps \in Seq(Gap) /\ Len(gaps) \in Nat
  BY DEF ClosedGaps
<1>2. /\ more \in Seq(Gap) /\ Len(more) = Len(gaps) + 1
      /\ \A k \in 1 .. Len(gaps) : more[k] = gaps[k]
      /\ more[Len(gaps) + 1] = [from |-> since, to |-> to]
      /\ \A t \in Int : InClosedGap(more, t) <=> InClosedGap(gaps, t) \/ (since <= t /\ t < to)
  BY <1>1, OneMoreGap
<1>3. more[Len(gaps) + 1].from = since /\ more[Len(gaps) + 1].to = to
  BY <1>2
<1>4. \A k \in 1 .. Len(more) : k = Len(gaps) + 1 \/ k \in 1 .. Len(gaps)
  BY <1>1, <1>2
<1>5. ASSUME NEW k \in 1 .. Len(more)
      PROVE  /\ more[k].from < more[k].to
             /\ \E j \in 1 .. i : more[k].from = T[j]
             /\ (\E j \in 1 .. i : more[k].to = T[j]) \/ more[k].to = to
  <2>1. CASE k = Len(gaps) + 1
    BY <1>3, <2>1
  <2>2. CASE k \in 1 .. Len(gaps)
    BY <1>2, <2>2 DEF ClosedGaps
  <2> QED
    BY <1>4, <2>1, <2>2
<1>6. ASSUME NEW k \in 1 .. Len(more), NEW l \in 1 .. Len(more), k < l
      PROVE  more[k].to < more[l].from
  <2>1. k \in 1 .. Len(gaps)
    BY <1>1, <1>2, <1>6
  <2>2. CASE l = Len(gaps) + 1
    BY <1>2, <1>3, <2>1, <2>2
  <2>3. CASE l \in 1 .. Len(gaps)
    BY <1>2, <1>6, <2>1, <2>3 DEF ClosedGaps
  <2> QED
    BY <1>4, <2>2, <2>3
<1> QED
  BY <1>2, <1>5, <1>6 DEF ClosedBy

LEMMA TrackStep ==
    ASSUME NEW seen, NEW T, NEW i \in Nat, Ordered(T, i + 1), NEW since, NEW gaps,
           Tracked(seen, T, i, since, gaps)
    PROVE  \E s, g : /\ Track(seen, [since |-> since, gaps |-> gaps], T[i + 1]) = [since |-> s, gaps |-> g]
                     /\ Tracked(seen, T, i + 1, s, g)
<1> DEFINE t == T[i + 1]
           scan == [since |-> since, gaps |-> gaps]
<1>1. ClosedGaps(T, i, gaps)
  BY DEF Tracked
<1>2. /\ t \in Int /\ t # None
      /\ \A j \in 1 .. i : T[j] \in Int /\ T[j] < t
      /\ Len(gaps) \in Nat
      /\ \A k \in 1 .. Len(gaps) : gaps[k].from \in Int /\ gaps[k].to \in Int /\ gaps[k].to < t
      /\ ~ InClosedGap(gaps, t)
      /\ ClosedGaps(T, i + 1, gaps)
  BY <1>1, ClosedBefore, ConstantsAssumption
<1>3. since # None => since \in Int /\ since < t
  BY <1>2 DEF Tracked
<1>4. \A j \in 1 .. i + 1 : j \in 1 .. i \/ j = i + 1
  OBVIOUS
<1>5. \A j \in 1 .. i : ListedAt(seen, T[j]) = {} <=>
        InClosedGap(gaps, T[j]) \/ (since # None /\ since <= T[j])
  BY DEF Tracked
<1>6. CASE ListedAt(seen, t) = {} /\ since = None
  <2>1. Track(seen, scan, t) = [since |-> t, gaps |-> gaps]
    BY <1>6 DEF Track
  <2>2. ASSUME NEW j \in 1 .. i + 1
        PROVE  ListedAt(seen, T[j]) = {} <=> InClosedGap(gaps, T[j]) \/ (t # None /\ t <= T[j])
    <3>1. CASE j \in 1 .. i
      <4>1. T[j] \in Int /\ ~ (t <= T[j])
        BY <1>2, <3>1
      <4> QED
        BY <1>5, <1>6, <3>1, <4>1
    <3>2. CASE j = i + 1
      BY <1>2, <1>6, <3>2
    <3> QED
      BY <1>4, <3>1, <3>2
  <2>3. \E j \in 1 .. i + 1 : t = T[j]
    OBVIOUS
  <2>4. Tracked(seen, T, i + 1, t, gaps)
    BY <1>2, <2>2, <2>3 DEF Tracked
  <2> QED
    BY <2>1, <2>4
<1>7. CASE ListedAt(seen, t) # {} /\ since # None
  <2> DEFINE more == Append(gaps, [from |-> since, to |-> t])
  <2>1. Track(seen, scan, t) = [since |-> None, gaps |-> more]
    BY <1>7 DEF Track
  <2>2. \A k \in 1 .. Len(gaps) : gaps[k].to < since
    BY <1>7 DEF Tracked
  <2>3. \E j \in 1 .. i : since = T[j]
    BY <1>7 DEF Tracked
  <2>4. /\ more \in Seq(Gap)
        /\ \A k \in 1 .. Len(more) :
             /\ more[k].from < more[k].to
             /\ \E j \in 1 .. i : more[k].from = T[j]
             /\ (\E j \in 1 .. i : more[k].to = T[j]) \/ more[k].to = t
        /\ \A k, l \in 1 .. Len(more) : k < l => more[k].to < more[l].from
        /\ \A x \in Int : InClosedGap(more, x) <=> InClosedGap(gaps, x) \/ (since <= x /\ x < t)
    <3>1. PICK u \in Int : u = t
      BY <1>2
    <3>2. since \in Int /\ since < u /\ \A j \in 1 .. i : T[j] \in Int
      BY <1>2, <1>3, <1>7, <3>1
    <3>3. more = Append(gaps, [from |-> since, to |-> u])
      BY <3>1
    <3> HIDE DEF t, more
    <3>4. ClosedBy(T, i, gaps, since, u, more)
      BY <1>1, <2>2, <2>3, <3>2, <3>3, CloseGap
    <3> QED
      BY <3>1, <3>4 DEF ClosedBy
  <2> HIDE DEF more
  <2>5. ClosedGaps(T, i + 1, more)
    <3>1. i + 1 \in 1 .. i + 1 /\ \A j \in 1 .. i : j \in 1 .. i + 1
      OBVIOUS
    <3>2. ASSUME NEW k \in 1 .. Len(more)
          PROVE  /\ more[k].from < more[k].to
                 /\ \E j \in 1 .. i + 1 : more[k].from = T[j]
                 /\ \E j \in 1 .. i + 1 : more[k].to = T[j]
      BY <2>4, <3>1
    <3> QED
      BY <2>4, <3>2 DEF ClosedGaps
  <2>6. ASSUME NEW j \in 1 .. i + 1
        PROVE  ListedAt(seen, T[j]) = {} <=> InClosedGap(more, T[j]) \/ (None # None /\ None <= T[j])
    <3>1. CASE j \in 1 .. i
      <4>1. T[j] \in Int /\ T[j] < t
        BY <1>2, <3>1
      <4> QED
        BY <1>5, <1>7, <2>4, <3>1, <4>1
    <3>2. CASE j = i + 1
      BY <1>2, <1>7, <2>4, <3>2
    <3> QED
      BY <1>4, <3>1, <3>2
  <2>7. Tracked(seen, T, i + 1, None, more)
    BY <2>5, <2>6 DEF Tracked
  <2> QED
    BY <2>1, <2>7
<1>8. CASE ListedAt(seen, t) = {} /\ since # None
  <2>1. Track(seen, scan, t) = scan
    BY <1>8 DEF Track
  <2>2. ASSUME NEW j \in 1 .. i + 1
        PROVE  ListedAt(seen, T[j]) = {} <=> InClosedGap(gaps, T[j]) \/ (since # None /\ since <= T[j])
    <3>1. CASE j \in 1 .. i
      BY <1>5, <3>1
    <3>2. CASE j = i + 1
      BY <1>2, <1>3, <1>8, <3>2
    <3> QED
      BY <1>4, <3>1, <3>2
  <2>3. \E j \in 1 .. i + 1 : since = T[j]
    BY <1>8 DEF Tracked
  <2>4. \A k \in 1 .. Len(gaps) : gaps[k].to < since
    BY <1>8 DEF Tracked
  <2>5. Tracked(seen, T, i + 1, since, gaps)
    BY <1>2, <2>2, <2>3, <2>4 DEF Tracked
  <2> QED
    BY <2>1, <2>5
<1>9. CASE ListedAt(seen, t) # {} /\ since = None
  <2>1. Track(seen, scan, t) = scan
    BY <1>9 DEF Track
  <2>2. ASSUME NEW j \in 1 .. i + 1
        PROVE  ListedAt(seen, T[j]) = {} <=> InClosedGap(gaps, T[j]) \/ (since # None /\ since <= T[j])
    <3>1. CASE j \in 1 .. i
      BY <1>5, <3>1
    <3>2. CASE j = i + 1
      BY <1>2, <1>9, <3>2
    <3> QED
      BY <1>4, <3>1, <3>2
  <2>3. Tracked(seen, T, i + 1, since, gaps)
    BY <1>2, <1>9, <2>2 DEF Tracked
  <2> QED
    BY <2>1, <2>3
<1> QED
  BY <1>6, <1>7, <1>8, <1>9
LEMMA ScanTracks ==
    ASSUME NEW seen, NEW w \in Windows
    PROVE  \E since, gaps :
             /\ Scan(seen, w)[Len(SlotTimes(w))] = [since |-> since, gaps |-> gaps]
             /\ Tracked(seen, SlotTimes(w), Len(SlotTimes(w)), since, gaps)
<1> DEFINE T == SlotTimes(w)
           n == Len(T)
           Scans(i) == \E since, gaps : /\ Scan(seen, w)[i] = [since |-> since, gaps |-> gaps]
                                        /\ Tracked(seen, T, i, since, gaps)
           G == {i \in 0 .. n : Scans(i)}
<1>1. n \in Nat /\ Ordered(T, n)
  BY SlotsInOrder DEF Ordered
<1>2. /\ Scan(seen, w)[0] = [since |-> None, gaps |-> <<>>]
      /\ \A i \in 1 .. n : Scan(seen, w)[i] = Track(seen, Scan(seen, w)[i - 1], T[i])
  BY <1>1, ScanBySteps
<1>3. Scans(0)
  <2>1. <<>> \in Seq(Gap) /\ 1 .. Len(<<>>) = {} /\ 1 .. 0 = {}
    OBVIOUS
  <2>2. ClosedGaps(T, 0, <<>>)
    BY <2>1 DEF ClosedGaps
  <2>3. Tracked(seen, T, 0, None, <<>>)
    BY <2>1, <2>2 DEF Tracked
  <2> QED
    BY <1>2, <2>3
<1>4. ASSUME NEW i \in 0 .. n - 1, Scans(i) PROVE Scans(i + 1)
  <2>1. i \in Nat /\ i + 1 \in 1 .. n /\ i + 1 - 1 = i
    BY <1>1
  <2>2. Ordered(T, i + 1)
    BY <1>1, <2>1 DEF Ordered
  <2>3. PICK since, gaps : /\ Scan(seen, w)[i] = [since |-> since, gaps |-> gaps]
                           /\ Tracked(seen, T, i, since, gaps)
    BY <1>4
  <2> HIDE DEF T, n
  <2>4. PICK s, g : /\ Track(seen, [since |-> since, gaps |-> gaps], T[i + 1]) = [since |-> s, gaps |-> g]
                    /\ Tracked(seen, T, i + 1, s, g)
    BY <2>1, <2>2, <2>3, TrackStep
  <2>5. Scan(seen, w)[i + 1] = [since |-> s, gaps |-> g]
    BY <1>2, <2>1, <2>3, <2>4
  <2> QED
    BY <2>4, <2>5
<1>5. 0 \in G /\ \A i \in 0 .. n - 1 : i \in G => i + 1 \in G
  <2> HIDE DEF Scans, n
  <2> QED
    BY <1>1, <1>3, <1>4
<1>6. Scans(n)
  <2> HIDE DEF Scans, n
  <2>1. 0 .. n \subseteq G
    <3> HIDE DEF G
    <3> QED
      BY <1>1, <1>5, Induction
  <2> QED
    BY <1>1, <2>1
<1> QED
  BY <1>6

\* What the summary of the gaps says of the slots.
ExactGaps(seen, w, gaps) ==
    /\ gaps \in Seq(Gap)
    /\ \A j \in 1 .. Len(SlotTimes(w)) :
         ListedAt(seen, SlotTimes(w)[j]) = {} <=> InClosedGap(gaps, SlotTimes(w)[j])
    /\ \A k \in 1 .. Len(gaps) :
         /\ gaps[k].from < gaps[k].to
         /\ \E j \in 1 .. Len(SlotTimes(w)) : gaps[k].from = SlotTimes(w)[j]
         /\ (\E j \in 1 .. Len(SlotTimes(w)) : gaps[k].to = SlotTimes(w)[j]) \/ gaps[k].to = w.to.at
    /\ \A k, l \in 1 .. Len(gaps) : k < l => gaps[k].to < gaps[l].from

LEMMA GapsExact ==
    ASSUME NEW seen, NEW w \in Windows
    PROVE  ExactGaps(seen, w, Gaps(seen, w))
<1> DEFINE T == SlotTimes(w)
           n == Len(T)
<1>1. PICK since, gaps : /\ Scan(seen, w)[n] = [since |-> since, gaps |-> gaps]
                         /\ Tracked(seen, T, n, since, gaps)
  BY ScanTracks
<1>2. n \in Nat /\ w.to.at \in Int /\ \A j \in 1 .. n : T[j] \in Int /\ T[j] < w.to.at
  BY SlotsInOrder, ConstantsAssumption
<1>3. Gaps(seen, w) = IF since = None THEN gaps ELSE Append(gaps, [from |-> since, to |-> w.to.at])
  BY <1>1 DEF Gaps, AllGaps
<1>4. CASE since = None
  BY <1>1, <1>3, <1>4 DEF ExactGaps, Tracked, ClosedGaps
<1>5. CASE since # None
  <2>1. PICK more : more = Append(gaps, [from |-> since, to |-> w.to.at])
    OBVIOUS
  <2>2. /\ since \in Int /\ since < w.to.at /\ \E j \in 1 .. n : since = T[j]
        /\ \A k \in 1 .. Len(gaps) : gaps[k].to < since
        /\ ClosedGaps(T, n, gaps)
    BY <1>1, <1>2, <1>5 DEF Tracked
  <2>3. PICK u \in Int : u = w.to.at
    BY <1>2
  <2>4. ClosedBy(T, n, gaps, since, u, more)
    <3>1. \A j \in 1 .. n : T[j] \in Int
      BY <1>2
    <3>2. since < u /\ more = Append(gaps, [from |-> since, to |-> u])
      BY <2>1, <2>2, <2>3
    <3> HIDE DEF T, n
    <3> QED
      BY <1>2, <2>2, <3>1, <3>2, CloseGap
  <2>5. \A j \in 1 .. n : ListedAt(seen, T[j]) = {} <=> InClosedGap(more, T[j])
    <3> SUFFICES ASSUME NEW j \in 1 .. n
                 PROVE  ListedAt(seen, T[j]) = {} <=> InClosedGap(more, T[j])
      OBVIOUS
    <3>1. T[j] \in Int /\ T[j] < u
      BY <1>2, <2>3
    <3>2. InClosedGap(more, T[j]) <=> InClosedGap(gaps, T[j]) \/ (since <= T[j] /\ T[j] < u)
      BY <2>4, <3>1 DEF ClosedBy
    <3> QED
      BY <1>1, <1>5, <3>1, <3>2 DEF Tracked
  <2>6. Gaps(seen, w) = more
    BY <1>3, <1>5, <2>1
  <2> HIDE DEF T, n
  <2>7. /\ more \in Seq(Gap)
        /\ \A k \in 1 .. Len(more) :
             /\ more[k].from < more[k].to
             /\ \E j \in 1 .. n : more[k].from = T[j]
             /\ (\E j \in 1 .. n : more[k].to = T[j]) \/ more[k].to = w.to.at
        /\ \A k, l \in 1 .. Len(more) : k < l => more[k].to < more[l].from
    BY <2>3, <2>4 DEF ClosedBy
  <2> QED
    BY <2>5, <2>6, <2>7 DEF ExactGaps, T, n
<1> QED
  BY <1>4, <1>5

\* Where somebody is on duty whenever a slot begins there is no gap.
LEMMA NoGap ==
    ASSUME NEW seen, NEW w \in Windows, \A t \in Int : ListedAt(seen, t) # {}
    PROVE  Gaps(seen, w) = <<>>
<1>1. PICK gaps : gaps = Gaps(seen, w)
  OBVIOUS
<1>2. ExactGaps(seen, w, gaps)
  BY <1>1, GapsExact
<1>3. gaps \in Seq(Gap) /\ Len(gaps) \in Nat
  BY <1>2 DEF ExactGaps
<1>4. ASSUME Len(gaps) # 0 PROVE FALSE
  <2>1. 1 \in 1 .. Len(gaps)
    BY <1>3, <1>4
  <2>2. PICK j \in 1 .. Len(SlotTimes(w)) : gaps[1].from = SlotTimes(w)[j] /\ gaps[1].from < gaps[1].to
    BY <1>2, <2>1 DEF ExactGaps
  <2>3. SlotTimes(w)[j] \in Int
    BY SlotsInOrder
  <2>4. InClosedGap(gaps, SlotTimes(w)[j])
    BY <2>1, <2>2, <2>3 DEF InClosedGap
  <2> QED
    BY <1>2, <2>3, <2>4 DEF ExactGaps
<1> QED
  BY <1>1, <1>3, <1>4
-----------------------------------------------------------------------------
(* Edits while a request is under way.                                     *)

OverrideRows == overrides \in [OverrideIds -> Override \union {None}]

\* The overrides of roster r at moment m.
Covering(m, r) ==
    {m.overrides[o] : o \in {o \in OverrideIds : m.overrides[o] # None /\ m.overrides[o].roster = r}}

\* The weeks of one roster differ, or the overrides of one, or nothing does.
AtMostOne(m, n) ==
    \A r, s \in Rosters :
      /\ m.schedule[r] = n.schedule[r] \/ Covering(m, s) = Covering(n, s)
      /\ r # s => m.schedule[r] = n.schedule[r] \/ m.schedule[s] = n.schedule[s]
      /\ r # s => Covering(m, r) = Covering(n, r) \/ Covering(m, s) = Covering(n, s)

MomentType(m) ==
    /\ \A r \in Rosters : m.schedule[r] \in SUBSET Row
    /\ \A o \in OverrideIds : m.overrides[o] \in Override \union {None}

Quiet == UNCHANGED <<tables, query>>
OneEdit == Changed(1) /\ AtMostOne(Now, Now')

Reading ==
    /\ UNCHANGED tables
    /\ \/ \E r \in Rosters :
            \/ \E ts \in Timestamps : GetOnCall(r, ts)
            \/ FetchRows(r)
            \/ ExportICS(r)
       \/ CheckOverride \/ LookUpWeek \/ OnCallReadFails
       \/ \E w \in Windows : GetCoverage(w)
       \/ FetchOverrides \/ Compute
       \/ ExportWeeks \/ ExportOverrides
       \/ Answered

LEMMA WeeksOfOne ==
    ASSUME NEW r, \A q \in Rosters : q # r => schedule'[q] = schedule[q], UNCHANGED overrides
    PROVE  AtMostOne(Now, Now')
<1>1. \A q \in Rosters : Covering(Now, q) = Covering(Now', q)
  BY DEF Covering, Now
<1>2. \A q \in Rosters : q # r => Now.schedule[q] = Now'.schedule[q]
  BY DEF Now
<1> QED
  BY <1>1, <1>2 DEF AtMostOne

LEMMA OverridesOfOne ==
    ASSUME NEW r, UNCHANGED schedule,
           \A q \in Rosters : q # r => Covering(Now', q) = Covering(Now, q)
    PROVE  AtMostOne(Now, Now')
<1>1. \A q \in Rosters : Now.schedule[q] = Now'.schedule[q]
  BY DEF Now
<1> QED
  BY <1>1 DEF AtMostOne

LEMMA OverrideRowsInit == Init => OverrideRows
BY DEF Init, OverrideRows

\* The overrides stay, go, or one comes.
LEMMA OverridesChange ==
    ASSUME WeeksInv, OverridesType, [Next]_vars
    PROVE  \/ UNCHANGED overrides
           \/ \E r \in Rosters : DeleteRoster(r)
           \/ \E r \in Rosters, o \in OverrideIds, shape \in Shapes : CreateOverride(r, o, shape)
           \/ \E o \in OverrideIds : DeleteOverride(o)
BY DEF Next, CreateRoster, UpdateRoster, UpdateScheduleWeek, UnlockScheduleWeek, Generate, ReadLocked,
   WriteWeek, GetOnCall, FetchRows, ExportICS, CheckOverride, LookUpWeek, OnCallReadFails, GetCoverage,
   FetchOverrides, Compute, ExportWeeks, ExportOverrides, Answered, tables, vars

LEMMA OverrideRowsStep == WeeksInv /\ OverridesType /\ OverrideRows /\ [Next]_vars => OverrideRows'
<1> SUFFICES ASSUME WeeksInv, OverridesType, OverrideRows, [Next]_vars PROVE OverrideRows'
  OBVIOUS
<1> USE DEF OverrideRows
<1>1. ASSUME NEW r \in Rosters, DeleteRoster(r) PROVE OverrideRows'
  BY <1>1 DEF DeleteRoster
<1>2. ASSUME NEW r \in Rosters, NEW o \in OverrideIds, NEW shape \in Shapes,
             CreateOverride(r, o, shape)
      PROVE  OverrideRows'
  <2>1. NewOverride(r, shape) \in Override
    BY ConstantsAssumption DEF NewOverride, Override
  <2> QED
    BY <1>2, <2>1 DEF CreateOverride
<1>3. ASSUME NEW o \in OverrideIds, DeleteOverride(o) PROVE OverrideRows'
  BY <1>3 DEF DeleteOverride
<1> QED
  BY <1>1, <1>2, <1>3, OverridesChange

LEMMA StepKinds ==
    ASSUME WeeksInv, OverridesType, OverrideRows, [Next]_vars
    PROVE  Quiet \/ OneEdit \/ Changed(2) \/ Reading
<1>1. ASSUME NEW r \in Rosters, NEW s \in NewRosters, CreateRoster(r, s) PROVE OneEdit
  BY <1>1, WeeksOfOne DEF CreateRoster, OneEdit
<1>2. ASSUME NEW r \in Rosters, NEW u \in Updates, UpdateRoster(r, u) PROVE OneEdit
  BY <1>2, WeeksOfOne DEF UpdateRoster, OneEdit
<1>3. ASSUME NEW r \in Rosters, DeleteRoster(r) PROVE Changed(2)
  BY <1>3 DEF DeleteRoster
<1>4. ASSUME NEW r \in Rosters, NEW o \in OverrideIds, NEW shape \in Shapes,
             CreateOverride(r, o, shape)
      PROVE  OneEdit
  <2>1. ASSUME NEW q \in Rosters, q # r PROVE Covering(Now', q) = Covering(Now, q)
    <3>1. \A p \in OverrideIds : p # o => overrides'[p] = overrides[p]
      BY <1>4 DEF CreateOverride, OverrideRows
    <3>2. overrides[o] = None /\ overrides'[o].roster = r
      BY <1>4 DEF CreateOverride, OverrideRows, NewOverride
    <3> QED
      BY <2>1, <3>1, <3>2 DEF Covering, Now
  <2> QED
    BY <1>4, <2>1, OverridesOfOne DEF CreateOverride, OneEdit
<1>5. ASSUME NEW o \in OverrideIds, DeleteOverride(o) PROVE OneEdit
  <2>1. ASSUME NEW q \in Rosters, q # overrides[o].roster PROVE Covering(Now', q) = Covering(Now, q)
    <3>1. \A p \in OverrideIds : p # o => overrides'[p] = overrides[p]
      BY <1>5 DEF DeleteOverride, OverrideRows
    <3>2. overrides'[o] = None
      BY <1>5 DEF DeleteOverride, OverrideRows
    <3> QED
      BY <2>1, <3>1, <3>2 DEF Covering, Now
  <2> QED
    BY <1>5, <2>1, OverridesOfOne DEF DeleteOverride, OneEdit
<1>6. ASSUME NEW r \in Rosters, NEW row, schedule' = [schedule EXCEPT ![r] = row],
             UNCHANGED overrides, Changed(1)
      PROVE  OneEdit
  <2>1. \A q \in Rosters : q # r => schedule'[q] = schedule[q]
    BY <1>6 DEF WeeksInv, WeeksType
  <2> QED
    BY <1>6, <2>1, WeeksOfOne DEF OneEdit
<1>7. ASSUME NEW r \in Rosters, NEW edit \in Edits, UpdateScheduleWeek(r, edit) PROVE OneEdit
  BY <1>6, <1>7 DEF UpdateScheduleWeek
<1>8. ASSUME NEW r \in Rosters, NEW start, UnlockScheduleWeek(r, start) PROVE OneEdit
  BY <1>6, <1>8 DEF UnlockScheduleWeek
<1>9. ASSUME NEW r \in Rosters, WriteWeek(r) PROVE Quiet \/ OneEdit
  <2>1. CASE UNCHANGED <<schedule, query>>
    BY <1>9, <2>1 DEF WriteWeek, Quiet, tables
  <2>2. CASE Changed(1) /\ \E row : schedule' = [schedule EXCEPT ![r] = row]
    BY <1>6, <1>9, <2>2 DEF WriteWeek
  <2> QED
    BY <1>9, <2>1, <2>2 DEF WriteWeek
<1>10. ASSUME NEW r \in Rosters, (\E from \in Froms : Generate(r, from)) \/ ReadLocked(r) PROVE Quiet
  BY <1>10 DEF Generate, ReadLocked, Quiet
<1>11. ASSUME NEW r \in Rosters,
              \/ \E ts \in Timestamps : GetOnCall(r, ts)
              \/ FetchRows(r)
              \/ ExportICS(r)
       PROVE  Reading
  BY <1>11 DEF Reading, GetOnCall, FetchRows, ExportICS
<1>12. CASE \/ CheckOverride \/ LookUpWeek \/ OnCallReadFails
            \/ \E w \in Windows : GetCoverage(w)
            \/ FetchOverrides \/ Compute
            \/ ExportWeeks \/ ExportOverrides
            \/ Answered
  BY <1>12 DEF Reading, CheckOverride, LookUpWeek, OnCallReadFails, GetCoverage, FetchOverrides,
     Compute, ExportWeeks, ExportOverrides, Answered
<1>13. CASE UNCHANGED vars
  BY <1>13 DEF vars, Quiet
<1> QED
  BY <1>1, <1>2, <1>3, <1>4, <1>5, <1>7, <1>8, <1>9, <1>10, <1>11, <1>12, <1>13 DEF Next
\* A request that has seen one edit knows the moment before it; one that rests has seen none.
EditInv ==
    /\ query.edits \in 0 .. 2
    /\ query.pc = "idle" => query.edits = 0
    /\ query.edits = 1 => MomentType(query.before) /\ AtMostOne(query.before, Now)

SameQuestion ==
    /\ query'.pc = query.pc /\ query'.kind = query.kind /\ query'.roster = query.roster
    /\ query'.at = query.at /\ query'.seen = query.seen /\ query'.todo = query.todo
    /\ query'.rows = query.rows /\ query'.found = query.found /\ query'.answer = query.answer
    /\ query'.failed = query.failed

LEMMA NowType == WeeksInv /\ OverrideRows => MomentType(Now)
BY DEF WeeksInv, WeeksType, OverrideRows, MomentType, Now

LEMMA EditKeepsQuestion ==
    ASSUME QueryType, Quiet \/ OneEdit \/ Changed(2)
    PROVE  SameQuestion
<1>1. ASSUME NEW n, Changed(n) PROVE SameQuestion
  BY <1>1 DEF QueryType, Changed, Idle, SameQuestion
<1>2. CASE Quiet
  BY <1>2 DEF Quiet, SameQuestion
<1> QED
  BY <1>1, <1>2 DEF OneEdit

LEMMA EditCounts ==
    ASSUME QueryType, EditInv, NEW n \in {1, 2}, Changed(n), query.pc # "idle"
    PROVE  \/ query.edits = 0 /\ n = 1 /\ query'.edits = 1 /\ query'.before = Now
           \/ query'.edits = 2
BY DEF QueryType, EditInv, Changed, Idle

\* What happens to the count of edits when the request itself takes a step.
LEMMA ReadingCounts ==
    ASSUME QueryType, EditInv, Reading
    PROVE  /\ Now' = Now
           /\ query'.edits = 0 \/ (query'.edits = query.edits /\ query'.before = query.before)
           /\ query'.pc = "idle" => query'.edits = 0
<1>1. UNCHANGED tables
  BY DEF Reading
<1>2. Now' = Now
  BY <1>1 DEF tables, Now
<1> DEFINE Fine == /\ query'.edits = 0 \/ (query'.edits = query.edits /\ query'.before = query.before)
                   /\ query'.pc = "idle" => query'.edits = 0
<1>3. ASSUME NEW kind, NEW pc, NEW r, NEW at, Ask(kind, pc, r, at) PROVE Fine
  BY <1>3 DEF Ask, Idle
<1>4. ASSUME NEW a, Answer(a) PROVE Fine
  BY <1>4 DEF Answer, QueryType, Idle
<1>5. ASSUME NEW r \in Rosters, FetchRows(r) PROVE Fine
  BY <1>5 DEF FetchRows, QueryType, Idle
<1>6. ASSUME FetchOverrides PROVE Fine
  BY <1>6 DEF FetchOverrides, QueryType, Idle
<1>7. ASSUME CheckOverride PROVE Fine
  BY <1>7 DEF CheckOverride, QueryType, Idle
<1>8. ASSUME OnCallReadFails PROVE Fine
  <2>1. CASE query' = Idle
    BY <2>1 DEF Idle
  <2>2. ASSUME NEW a, query' = [query EXCEPT !.pc = "answered", !.answer = a, !.failed = TRUE]
        PROVE  Fine
    BY <2>2 DEF QueryType, Idle
  <2>3. \/ query' = Idle
        \/ \E a : query' = [query EXCEPT !.pc = "answered", !.answer = a, !.failed = TRUE]
    BY <1>8 DEF OnCallReadFails
  <2> QED
    BY <2>1, <2>2, <2>3
<1>9. ASSUME NEW w \in Windows, GetCoverage(w) PROVE Fine
  BY <1>9 DEF GetCoverage, Idle
<1>10. ASSUME ExportWeeks PROVE Fine
  BY <1>10 DEF ExportWeeks, QueryType, Idle
<1>11. ASSUME Answered PROVE Fine
  BY <1>11 DEF Answered, Idle
<1>12. ASSUME LookUpWeek \/ Compute \/ ExportOverrides PROVE Fine
  BY <1>4, <1>12 DEF LookUpWeek, Compute, ExportOverrides
<1>13. ASSUME NEW r \in Rosters, (\E ts \in Timestamps : GetOnCall(r, ts)) \/ ExportICS(r) PROVE Fine
  BY <1>3, <1>13 DEF GetOnCall, ExportICS
<1>14. Fine
  BY <1>5, <1>6, <1>7, <1>8, <1>9, <1>10, <1>11, <1>12, <1>13 DEF Reading
<1> QED
  BY <1>2, <1>14

LEMMA EditInit == Init => EditInv
BY DEF Init, Idle, EditInv

LEMMA EditStep ==
    WeeksInv /\ OverridesType /\ OverrideRows /\ QueryType /\ EditInv /\ [Next]_vars => EditInv'
<1> SUFFICES ASSUME WeeksInv, OverridesType, OverrideRows, QueryType, EditInv, [Next]_vars
             PROVE  EditInv'
  OBVIOUS
<1>1. CASE Quiet
  BY <1>1 DEF Quiet, EditInv, tables, Now
<1>2. CASE query.pc = "idle" /\ \E n \in {1, 2} : Changed(n)
  BY <1>2 DEF Changed, EditInv
<1>3. CASE query.pc # "idle" /\ OneEdit
  <2>1. query'.pc # "idle"
    BY <1>3, EditKeepsQuestion DEF SameQuestion
  <2>2. CASE query'.edits = 1 /\ query'.before = Now
    BY <1>3, <2>1, <2>2, NowType DEF OneEdit, EditInv
  <2>3. CASE query'.edits = 2
    BY <2>1, <2>3 DEF EditInv
  <2> QED
    BY <1>3, <2>2, <2>3, EditCounts DEF OneEdit
<1>4. CASE query.pc # "idle" /\ Changed(2)
  <2>1. query'.pc # "idle" /\ query'.edits = 2
    BY <1>4, EditKeepsQuestion, EditCounts DEF SameQuestion
  <2> QED
    BY <2>1 DEF EditInv
<1>5. CASE Reading
  <2>1. CASE query'.edits = 0
    BY <2>1 DEF EditInv
  <2>2. CASE query'.edits = query.edits /\ query'.before = query.before
    BY <1>5, <2>2, ReadingCounts DEF EditInv
  <2> QED
    BY <1>5, <2>1, <2>2, ReadingCounts
<1> QED
  BY <1>1, <1>2, <1>3, <1>4, <1>5, StepKinds DEF OneEdit

\* An edit adds a moment to those a request may answer from.
LEMMA MomentsGrow ==
    ASSUME QueryType, EditInv, Quiet \/ OneEdit \/ Changed(2), query.pc # "idle", query'.edits < 2
    PROVE  query.edits < 2 /\ \A m \in Moments : m \in Moments'
<1>1. CASE Quiet
  BY <1>1 DEF Quiet, Moments, Now, tables
<1>2. CASE OneEdit \/ Changed(2)
  <2>1. query.edits = 0 /\ query'.edits = 1 /\ query'.before = Now
    BY <1>2, EditCounts DEF OneEdit
  <2>2. Moments = {Now} /\ Moments' = {Now', Now}
    BY <2>1 DEF Moments
  <2> QED
    BY <2>1, <2>2
<1> QED
  BY <1>1, <1>2

LEMMA MomentsStay ==
    ASSUME QueryType, EditInv, Reading, query'.edits = query.edits, query'.before = query.before
    PROVE  Moments' = Moments
BY ReadingCounts DEF Moments

\* A request that knows something of one moment and reads one more part of the tables now knows it
\* all of one moment: if the part has changed since, nothing else has.
LEMMA TypedMoments ==
    ASSUME WeeksInv, OverrideRows, EditInv, query.edits < 2, NEW m \in Moments
    PROVE  MomentType(m) /\ AtMostOne(m, Now) /\ Now \in Moments
<1>1. AtMostOne(Now, Now) /\ MomentType(Now)
  BY NowType DEF AtMostOne
<1>2. query.edits \in {0, 1}
  BY DEF EditInv
<1> QED
  BY <1>1, <1>2 DEF Moments, EditInv
-----------------------------------------------------------------------------
(* What a request is and has at each step.                                 *)

AskedOnCall ==
    /\ query.kind = "oncall" /\ query.pc \in {"override", "schedule", "answered"}
    /\ query.roster \in Rosters /\ query.at \in Timestamps
    /\ query.pc = "override" => query.found[query.roster] = {}

AskedCoverage ==
    /\ query.kind = "coverage" /\ query.pc \in {"rows", "overrides", "compute", "answered"}
    /\ query.at \in Windows
    /\ DOMAIN query.seen \subseteq Rosters /\ \A r \in DOMAIN query.seen : query.seen[r] \in Settings
    /\ query.pc = "overrides" => query.roster \in query.todo
    /\ query.pc \in {"compute", "answered"} => query.todo = {}

AskedCalendar ==
    /\ query.kind = "calendar" /\ query.pc \in {"weeks", "export", "answered"}
    /\ query.roster \in Rosters /\ query.seen[query.roster] \in Settings

Asked ==
    query.pc # "idle" =>
      /\ query.rows = [r \in Rosters |-> query.rows[r]]
      /\ query.found = [r \in Rosters |-> query.found[r]]
      /\ AskedOnCall \/ AskedCoverage \/ AskedCalendar

\* The fields of the request after each of its steps.
SameTerms ==
    /\ query'.kind = query.kind /\ query'.at = query.at /\ query'.seen = query.seen
    /\ query'.edits = query.edits /\ query'.before = query.before

LEMMA AfterAsk ==
    ASSUME NEW kind, NEW pc, NEW r, NEW at, Ask(kind, pc, r, at)
    PROVE  /\ query'.kind = kind /\ query'.pc = pc /\ query'.roster = r /\ query'.at = at
           /\ query'.seen = [x \in {r} |-> rosters[x]] /\ query'.failed = FALSE
           /\ query'.rows = [q \in Rosters |-> {}] /\ query'.found = [q \in Rosters |-> {}]
BY DEF Ask, Idle

LEMMA AfterAnswer ==
    ASSUME QueryType, NEW a, Answer(a)
    PROVE  /\ SameTerms /\ query'.pc = "answered" /\ query'.answer = a
           /\ query'.roster = query.roster /\ query'.todo = query.todo /\ query'.rows = query.rows
           /\ query'.found = query.found /\ query'.failed = query.failed
BY DEF QueryType, Answer, Idle, SameTerms

LEMMA AfterCheckOverride ==
    ASSUME QueryType, Asked, CheckOverride
    PROVE  /\ SameTerms /\ query'.pc = "schedule"
           /\ query'.roster = query.roster /\ query'.rows = query.rows /\ query'.failed = query.failed
           /\ query'.found = [r \in Rosters |-> query'.found[r]]
           /\ \/ /\ ActiveOverrides(query.roster, query.at.at) = {}
                 /\ query'.found[query.roster] = {}
              \/ \E o \in ActiveOverrides(query.roster, query.at.at) : query'.found[query.roster] = {o}
<1>1. /\ query.found = [r \in Rosters |-> query.found[r]] /\ query.roster \in Rosters
      /\ query.found[query.roster] = {}
  BY DEF Asked, AskedOnCall, AskedCoverage, AskedCalendar, CheckOverride
<1>2. CASE ActiveOverrides(query.roster, query.at.at) = {}
  BY <1>1, <1>2 DEF QueryType, CheckOverride, Idle, SameTerms
<1>3. ASSUME NEW o \in ActiveOverrides(query.roster, query.at.at),
             query' = [query EXCEPT !.pc = "schedule", !.found[query.roster] = {o}]
      PROVE  /\ SameTerms /\ query'.pc = "schedule"
             /\ query'.roster = query.roster /\ query'.rows = query.rows /\ query'.failed = query.failed
             /\ query'.found = [r \in Rosters |-> query'.found[r]]
             /\ query'.found[query.roster] = {o}
  <2>1. query'.found = [query.found EXCEPT ![query.roster] = {o}]
    BY <1>3 DEF QueryType, Idle
  <2> QED
    BY <1>1, <1>3, <2>1 DEF QueryType, Idle, SameTerms
<1> QED
  BY <1>2, <1>3 DEF CheckOverride

LEMMA AfterFetchRows ==
    ASSUME QueryType, Asked, NEW r \in Rosters, FetchRows(r)
    PROVE  /\ SameTerms /\ query'.pc = "overrides" /\ query'.roster = r
           /\ query'.todo = query.todo /\ query'.found = query.found
           /\ query'.rows = [q \in Rosters |-> query'.rows[q]]
           /\ \A q \in Rosters : q # r => query'.rows[q] = query.rows[q]
           /\ ~ query'.failed => /\ ~ query.failed
                                 /\ query'.rows[r] = RowsFrom(schedule[r], LookBack(query.at.from),
                                                              Date(query.at.to))
<1>1. query.rows = [q \in Rosters |-> query.rows[q]]
  BY DEF Asked, FetchRows
<1>2. ASSUME NEW rows, query' = [query EXCEPT !.pc = "overrides", !.roster = r, !.rows[r] = rows]
      PROVE  /\ SameTerms /\ query'.pc = "overrides" /\ query'.roster = r
             /\ query'.todo = query.todo /\ query'.found = query.found
             /\ query'.rows = [q \in Rosters |-> query'.rows[q]]
             /\ \A q \in Rosters : q # r => query'.rows[q] = query.rows[q]
             /\ query'.failed = query.failed /\ query'.rows[r] = rows
  <2>1. query'.rows = [query.rows EXCEPT ![r] = rows]
    BY <1>2 DEF QueryType, Idle
  <2> QED
    BY <1>1, <1>2, <2>1 DEF QueryType, Idle, SameTerms
<1>3. CASE query' = [query EXCEPT !.pc = "overrides", !.roster = r, !.failed = TRUE]
  BY <1>1, <1>3 DEF QueryType, Idle, SameTerms
<1> QED
  BY <1>2, <1>3 DEF FetchRows

LEMMA AfterFetchOverrides ==
    ASSUME QueryType, Asked, FetchOverrides
    PROVE  /\ SameTerms /\ query'.roster = query.roster /\ query'.todo = query.todo \ {query.roster}
           /\ query'.pc = IF query'.todo = {} THEN "compute" ELSE "rows"
           /\ query'.rows = query.rows /\ query.roster \in query.todo /\ query.kind = "coverage"
           /\ query'.found = [q \in Rosters |-> query'.found[q]]
           /\ \A q \in Rosters : q # query.roster => query'.found[q] = query.found[q]
           /\ ~ query'.failed =>
                /\ ~ query.failed
                /\ query'.found[query.roster] = OverridesIn(query.roster, query.at.from.at, query.at.to.at)
<1>1. /\ query.found = [q \in Rosters |-> query.found[q]] /\ query.roster \in query.todo
      /\ query.roster \in Rosters /\ query.kind = "coverage"
  BY DEF QueryType, Asked, AskedOnCall, AskedCoverage, AskedCalendar, FetchOverrides
<1> DEFINE rest == query.todo \ {query.roster}
           next == [query EXCEPT !.pc = IF rest = {} THEN "compute" ELSE "rows", !.todo = rest]
<1>2. /\ DOMAIN next = DOMAIN Idle /\ next.kind = query.kind /\ next.at = query.at
      /\ next.seen = query.seen /\ next.edits = query.edits /\ next.before = query.before
      /\ next.roster = query.roster /\ next.todo = rest /\ next.rows = query.rows
      /\ next.found = query.found /\ next.failed = query.failed
      /\ next.pc = IF rest = {} THEN "compute" ELSE "rows"
  BY DEF QueryType, Idle
<1>3. \/ query' = [next EXCEPT !.found[query.roster] =
                     OverridesIn(query.roster, query.at.from.at, query.at.to.at)]
      \/ query' = [next EXCEPT !.failed = TRUE]
  BY DEF FetchOverrides
<1> HIDE DEF next
<1>4. ASSUME NEW found, query' = [next EXCEPT !.found[query.roster] = found]
      PROVE  /\ SameTerms /\ query'.roster = query.roster /\ query'.todo = rest
             /\ query'.pc = IF rest = {} THEN "compute" ELSE "rows"
             /\ query'.rows = query.rows /\ query'.failed = query.failed
             /\ query'.found = [q \in Rosters |-> query'.found[q]]
             /\ \A q \in Rosters : q # query.roster => query'.found[q] = query.found[q]
             /\ query'.found[query.roster] = found
  <2>1. query'.found = [next.found EXCEPT ![query.roster] = found]
    BY <1>2, <1>4 DEF Idle
  <2>2. query'.found = [query.found EXCEPT ![query.roster] = found]
    BY <1>2, <2>1
  <2> QED
    BY <1>1, <1>2, <1>4, <2>2 DEF Idle, SameTerms
<1>5. CASE query' = [next EXCEPT !.failed = TRUE]
  BY <1>1, <1>2, <1>5 DEF Idle, SameTerms
<1> QED
  BY <1>1, <1>3, <1>4, <1>5
LEMMA AfterFails ==
    ASSUME QueryType, OnCallReadFails
    PROVE  \/ query'.pc = "idle"
           \/ /\ SameTerms /\ query'.pc = "answered" /\ query'.roster = query.roster
              /\ query'.rows = query.rows /\ query'.found = query.found /\ query'.failed = TRUE
<1>1. CASE query' = Idle
  BY <1>1 DEF Idle
<1>2. ASSUME NEW a, query' = [query EXCEPT !.pc = "answered", !.answer = a, !.failed = TRUE]
      PROVE  /\ SameTerms /\ query'.pc = "answered" /\ query'.roster = query.roster
             /\ query'.rows = query.rows /\ query'.found = query.found /\ query'.failed = TRUE
  BY <1>2 DEF QueryType, Idle, SameTerms
<1>3. \/ query' = Idle
      \/ \E a : query' = [query EXCEPT !.pc = "answered", !.answer = a, !.failed = TRUE]
  BY DEF OnCallReadFails
<1> QED
  BY <1>1, <1>2, <1>3

LEMMA AfterExportWeeks ==
    ASSUME QueryType, Asked, ExportWeeks
    PROVE  /\ SameTerms /\ query'.pc = "export" /\ query'.roster = query.roster
           /\ query'.found = query.found /\ query'.rows = [q \in Rosters |-> query'.rows[q]]
           /\ query'.rows[query.roster] = Exported(schedule[query.roster])
<1>1. query.rows = [q \in Rosters |-> query.rows[q]] /\ query.roster \in Rosters
  BY DEF Asked, AskedOnCall, AskedCoverage, AskedCalendar, ExportWeeks
<1>2. query'.rows = [query.rows EXCEPT ![query.roster] = Exported(schedule[query.roster])]
  BY DEF QueryType, Idle, ExportWeeks
<1> QED
  BY <1>1, <1>2 DEF QueryType, Idle, SameTerms, ExportWeeks

LEMMA AfterGetCoverage ==
    ASSUME NEW w \in Windows, GetCoverage(w)
    PROVE  /\ query'.kind = "coverage" /\ query'.at = w /\ query'.failed = FALSE
           /\ query'.pc = IF Listed = {} THEN "compute" ELSE "rows"
           /\ query'.seen = [r \in Listed |-> rosters[r]] /\ query'.todo = Listed
           /\ query'.rows = [q \in Rosters |-> {}] /\ query'.found = [q \in Rosters |-> {}]
           /\ query'.edits = 0
BY DEF GetCoverage, Idle

LEMMA AskedInit == Init => Asked
BY DEF Init, Idle, Asked

LEMMA AskedStep ==
    WeeksInv /\ OverridesType /\ OverrideRows /\ QueryType /\ Asked /\ [Next]_vars => Asked'
<1> SUFFICES ASSUME WeeksInv, OverridesType, OverrideRows, QueryType, Asked, [Next]_vars
             PROVE  Asked'
  OBVIOUS
<1>1. CASE Quiet \/ OneEdit \/ Changed(2)
  <2>1. SameQuestion
    BY <1>1, EditKeepsQuestion
  <2>2. AskedOnCall => AskedOnCall'
    BY <2>1 DEF SameQuestion, AskedOnCall
  <2>3. AskedCoverage => AskedCoverage'
    BY <2>1 DEF SameQuestion, AskedCoverage
  <2>4. AskedCalendar => AskedCalendar'
    BY <2>1 DEF SameQuestion, AskedCalendar
  <2> QED
    BY <2>1, <2>2, <2>3, <2>4 DEF SameQuestion, Asked
<1>2. ASSUME NEW r \in Rosters, NEW ts \in Timestamps, GetOnCall(r, ts) PROVE Asked'
  <2>0. Ask("oncall", "override", r, ts)
    BY <1>2 DEF GetOnCall
  <2>1. AskedOnCall'
    <3>1. /\ query'.kind = "oncall" /\ query'.pc = "override" /\ query'.roster = r /\ query'.at = ts
          /\ query'.found = [q \in Rosters |-> {}]
      BY <2>0, AfterAsk
    <3> QED
      BY <3>1 DEF AskedOnCall
  <2> QED
    BY <1>2, <2>1, AfterAsk DEF GetOnCall, Asked
<1>3. ASSUME NEW r \in Rosters, ExportICS(r) PROVE Asked'
  <2>1. rosters[r] \in Settings
    BY <1>3 DEF ExportICS, WeeksInv, WeeksType
  <2>0. Ask("calendar", "weeks", r, Today)
    BY <1>3 DEF ExportICS
  <2>2. AskedCalendar'
    <3>1. /\ query'.kind = "calendar" /\ query'.pc = "weeks" /\ query'.roster = r
          /\ query'.seen = [x \in {r} |-> rosters[x]]
      BY <2>0, AfterAsk
    <3> QED
      BY <2>1, <3>1 DEF AskedCalendar
  <2> QED
    BY <1>3, <2>2, AfterAsk DEF ExportICS, Asked
<1>4. CASE CheckOverride
  <2>1. AskedOnCall
    BY <1>4 DEF CheckOverride, Asked, AskedOnCall, AskedCoverage, AskedCalendar
  <2>2. AskedOnCall'
    BY <1>4, <2>1, AfterCheckOverride DEF AskedOnCall, SameTerms
  <2> QED
    BY <1>4, <2>2, AfterCheckOverride DEF Asked, CheckOverride
<1>5. CASE LookUpWeek
  <2>1. AskedOnCall
    BY <1>5 DEF LookUpWeek, Asked, AskedOnCall, AskedCoverage, AskedCalendar
  <2>2. PICK a : Answer(a)
    BY <1>5 DEF LookUpWeek
  <2>3. AskedOnCall'
    BY <2>1, <2>2, AfterAnswer DEF AskedOnCall, SameTerms
  <2> QED
    BY <1>5, <2>2, <2>3, AfterAnswer DEF Asked, LookUpWeek
<1>6. CASE OnCallReadFails
  <2>1. AskedOnCall
    BY <1>6 DEF OnCallReadFails, Asked, AskedOnCall, AskedCoverage, AskedCalendar
  <2>2. CASE query'.pc = "idle"
    BY <2>2 DEF Asked
  <2>3. CASE query'.pc # "idle"
    <3>1. AskedOnCall'
      BY <1>6, <2>1, <2>3, AfterFails DEF AskedOnCall, SameTerms
    <3> QED
      BY <1>6, <2>3, <3>1, AfterFails DEF Asked, OnCallReadFails
  <2> QED
    BY <2>2, <2>3
<1>7. ASSUME NEW w \in Windows, GetCoverage(w) PROVE Asked'
  <2>1. \A r \in Listed : rosters[r] \in Settings
    BY DEF Listed, WeeksInv, WeeksType
  <2>2. query'.seen = [r \in Listed |-> rosters[r]] /\ Listed \subseteq Rosters
    BY <1>7, AfterGetCoverage DEF Listed
  <2>3. DOMAIN query'.seen \subseteq Rosters /\ \A r \in DOMAIN query'.seen : query'.seen[r] \in Settings
    BY <2>1, <2>2
  <2>4. AskedCoverage'
    BY <1>7, <2>3, AfterGetCoverage DEF AskedCoverage
  <2> QED
    BY <1>7, <2>4, AfterGetCoverage DEF Asked
<1>8. ASSUME NEW r \in Rosters, FetchRows(r) PROVE Asked'
  <2>1. AskedCoverage
    BY <1>8 DEF FetchRows, Asked, AskedOnCall, AskedCoverage, AskedCalendar
  <2>2. r \in query.todo
    BY <1>8 DEF FetchRows
  <2>3. AskedCoverage'
    BY <1>8, <2>1, <2>2, AfterFetchRows DEF AskedCoverage, SameTerms
  <2> QED
    BY <1>8, <2>3, AfterFetchRows DEF Asked, FetchRows
<1>9. CASE FetchOverrides
  <2>1. AskedCoverage
    BY <1>9 DEF FetchOverrides, Asked, AskedOnCall, AskedCoverage, AskedCalendar
  <2>2. AskedCoverage'
    BY <1>9, <2>1, AfterFetchOverrides DEF AskedCoverage, SameTerms
  <2> QED
    BY <1>9, <2>2, AfterFetchOverrides DEF Asked, FetchOverrides
<1>10. CASE Compute
  <2>1. AskedCoverage
    BY <1>10 DEF Compute, Asked, AskedOnCall, AskedCoverage, AskedCalendar
  <2>2. PICK a : Answer(a)
    BY <1>10 DEF Compute
  <2>3. AskedCoverage'
    BY <1>10, <2>1, <2>2, AfterAnswer DEF AskedCoverage, SameTerms, Compute
  <2> QED
    BY <1>10, <2>2, <2>3, AfterAnswer DEF Asked, Compute
<1>11. CASE ExportWeeks
  <2>1. AskedCalendar
    BY <1>11 DEF ExportWeeks, Asked, AskedOnCall, AskedCoverage, AskedCalendar
  <2>2. AskedCalendar'
    BY <1>11, <2>1, AfterExportWeeks DEF AskedCalendar, SameTerms
  <2> QED
    BY <1>11, <2>2, AfterExportWeeks DEF Asked, ExportWeeks
<1>12. CASE ExportOverrides
  <2>1. AskedCalendar
    BY <1>12 DEF ExportOverrides, Asked, AskedOnCall, AskedCoverage, AskedCalendar
  <2>2. PICK a : Answer(a)
    BY <1>12 DEF ExportOverrides
  <2>3. AskedCalendar'
    BY <2>1, <2>2, AfterAnswer DEF AskedCalendar, SameTerms
  <2> QED
    BY <1>12, <2>2, <2>3, AfterAnswer DEF Asked, ExportOverrides
<1>13. CASE Answered
  BY <1>13 DEF Answered, Idle, Asked
<1> QED
  BY <1>1, <1>2, <1>3, <1>4, <1>5, <1>6, <1>7, <1>8, <1>9, <1>10, <1>11, <1>12, <1>13, StepKinds
  DEF Reading
-----------------------------------------------------------------------------
(* Coverage: the gaps.                                                     *)

SlotsOf(seen, w) == IF seen = <<>> THEN {} ELSE {SlotTimes(w)[i] : i \in DOMAIN SlotTimes(w)}

\* The answer is made of what the request has read.
Computed ==
    Answers("coverage") =>
      query.answer =
        [slots |-> [t \in SlotsOf(query.seen, query.at) |->
                      [r \in ListedAt(query.seen, t) |->
                         ResolveFromCache(query.rows[r], query.found[r], t)]],
         gaps |-> IF query.seen = <<>> THEN <<>> ELSE Gaps(query.seen, query.at)]

LEMMA ComputedInit == Init => Computed
BY DEF Init, Idle, Computed, Answers

\* Which steps answer, and what.
LEMMA AnswerSteps ==
    ASSUME WeeksInv, OverridesType, OverrideRows, QueryType, Asked, [Next]_vars,
           query'.pc = "answered"
    PROVE  \/ SameQuestion /\ (Quiet \/ OneEdit \/ Changed(2))
           \/ LookUpWeek /\ AskedOnCall
           \/ OnCallReadFails /\ AskedOnCall
           \/ Compute /\ AskedCoverage
           \/ ExportOverrides /\ AskedCalendar
<1>1. CASE Quiet \/ OneEdit \/ Changed(2)
  BY <1>1, EditKeepsQuestion
<1>2. CASE Reading
  <2>1. ASSUME NEW r \in Rosters, NEW ts \in Timestamps, GetOnCall(r, ts) PROVE FALSE
    <3>1. Ask("oncall", "override", r, ts)
      BY <2>1 DEF GetOnCall
    <3> QED
      BY <3>1, AfterAsk
  <2>2. ASSUME NEW r \in Rosters, ExportICS(r) PROVE FALSE
    <3>1. Ask("calendar", "weeks", r, Today)
      BY <2>2 DEF ExportICS
    <3> QED
      BY <3>1, AfterAsk
  <2>3. ASSUME NEW r \in Rosters, FetchRows(r) PROVE FALSE
    BY <2>3, AfterFetchRows
  <2>4. ~ CheckOverride /\ ~ ExportWeeks
    BY AfterCheckOverride, AfterExportWeeks
  <2>5. ~ FetchOverrides
    <3>1. ASSUME FetchOverrides PROVE query'.pc \in {"compute", "rows"}
      BY <3>1, AfterFetchOverrides
    <3> QED
      BY <3>1
  <2>6. ASSUME NEW w \in Windows, GetCoverage(w) PROVE FALSE
    <3>1. query'.pc \in {"compute", "rows"}
      BY <2>6, AfterGetCoverage
    <3> QED
      BY <3>1
  <2>7. ~ Answered
    BY DEF Answered, Idle
  <2>8. /\ LookUpWeek \/ OnCallReadFails => AskedOnCall
        /\ Compute => AskedCoverage
        /\ ExportOverrides => AskedCalendar
    BY DEF LookUpWeek, OnCallReadFails, Compute, ExportOverrides, Asked, AskedOnCall, AskedCoverage,
       AskedCalendar
  <2> QED
    BY <1>2, <2>1, <2>2, <2>3, <2>4, <2>5, <2>6, <2>7, <2>8 DEF Reading
<1> QED
  BY <1>1, <1>2, StepKinds

LEMMA ComputedStep ==
    WeeksInv /\ OverridesType /\ OverrideRows /\ QueryType /\ Asked /\ Computed /\ [Next]_vars
      => Computed'
<1> SUFFICES ASSUME WeeksInv, OverridesType, OverrideRows, QueryType, Asked, Computed, [Next]_vars,
                    Answers("coverage")'
             PROVE  query'.answer =
                      [slots |-> [t \in SlotsOf(query'.seen, query'.at) |->
                                    [r \in ListedAt(query'.seen, t) |->
                                       ResolveFromCache(query'.rows[r], query'.found[r], t)]],
                       gaps |-> IF query'.seen = <<>> THEN <<>> ELSE Gaps(query'.seen, query'.at)]
  BY DEF Computed
<1>1. query'.pc = "answered" /\ query'.kind = "coverage"
  BY DEF Answers
<1>2. CASE SameQuestion
  BY <1>1, <1>2 DEF SameQuestion, Computed, Answers
<1>3. CASE LookUpWeek /\ AskedOnCall
  <2>1. PICK a : Answer(a)
    BY <1>3 DEF LookUpWeek
  <2> QED
    BY <1>1, <1>3, <2>1, AfterAnswer DEF AskedOnCall, SameTerms
<1>4. CASE OnCallReadFails /\ AskedOnCall
  BY <1>1, <1>4, AfterFails DEF AskedOnCall, SameTerms
<1>5. CASE ExportOverrides /\ AskedCalendar
  <2>1. PICK a : Answer(a)
    BY <1>5 DEF ExportOverrides
  <2> QED
    BY <1>1, <1>5, <2>1, AfterAnswer DEF AskedCalendar, SameTerms
<1>6. CASE Compute
  <2> DEFINE a == [slots |-> [t \in SlotsOf(query.seen, query.at) |->
                                [r \in ListedAt(query.seen, t) |->
                                   ResolveFromCache(query.rows[r], query.found[r], t)]],
                   gaps |-> IF query.seen = <<>> THEN <<>> ELSE Gaps(query.seen, query.at)]
  <2>1. Answer(a)
    BY <1>6 DEF Compute, SlotsOf
  <2> HIDE DEF a
  <2>2. /\ query'.answer = a /\ query'.seen = query.seen /\ query'.at = query.at
        /\ query'.rows = query.rows /\ query'.found = query.found
    BY <2>1, AfterAnswer DEF SameTerms
  <2> QED
    BY <2>2 DEF a
<1> QED
  BY <1>1, <1>2, <1>3, <1>4, <1>5, <1>6, AnswerSteps

\* What every request has, at every step.
RequestInv == /\ WeeksInv /\ OverridesType /\ OverrideRows /\ QueryType /\ Asked /\ Computed

LEMMA RequestInit == Init => RequestInv
BY WeeksInit, OverridesInit, OverrideRowsInit, QueryInit, AskedInit, ComputedInit DEF RequestInv

LEMMA RequestStep == RequestInv /\ [Next]_vars => RequestInv'
BY WeeksStep, OverridesStep, OverrideRowsStep, QueryStep, AskedStep, ComputedStep DEF RequestInv

\* The slots of an answer, and who is listed in them.
LEMMA AnsweredSlots ==
    ASSUME RequestInv, Answers("coverage")
    PROVE  /\ query.at \in Windows
           /\ \A r \in DOMAIN query.seen : query.seen[r] \in Settings
           /\ DOMAIN query.answer.slots = SlotsOf(query.seen, query.at)
           /\ query.answer.gaps = IF query.seen = <<>> THEN <<>> ELSE Gaps(query.seen, query.at)
           /\ \A t \in SlotsOf(query.seen, query.at) : t \in Int
<1>1. AskedCoverage
  BY DEF RequestInv, Asked, AskedOnCall, AskedCoverage, AskedCalendar, Answers
<1>2. query.at \in Windows /\ \A r \in DOMAIN query.seen : query.seen[r] \in Settings
  BY <1>1 DEF AskedCoverage
<1>3. \A t \in SlotsOf(query.seen, query.at) : t \in Int
  BY <1>2, SlotsInOrder DEF SlotsOf
<1> QED
  BY <1>2, <1>3 DEF RequestInv, Computed

LEMMA ListedOnDuty ==
    ASSUME NEW seen, \A r \in DOMAIN seen : seen[r] \in Settings, NEW t \in Int
    PROVE  ListedAt(seen, t) = {} <=> \A r \in DOMAIN seen : ~ OnDuty(seen[r], t)
BY ActiveIsOnDuty DEF ListedAt
(***************************************************************************)
(* For every window, slot length and set of rosters, the summary of        *)
(* GetCoverage (service.go) covers the slots with nobody on duty, and only *)
(* those; its gaps come in order and do not touch.                         *)
(***************************************************************************)
THEOREM GapsAreExactCorrect == Spec => []GapsAreExact
<1>1. RequestInv => GapsAreExact
  <2> SUFFICES ASSUME RequestInv, Answers("coverage") PROVE GapsAreExact
    BY DEF GapsAreExact
  <2> DEFINE gaps == query.answer.gaps
             slots == DOMAIN query.answer.slots
             seen == query.seen
             w == query.at
  <2>1. /\ w \in Windows /\ \A r \in DOMAIN seen : seen[r] \in Settings
        /\ slots = SlotsOf(seen, w)
        /\ gaps = IF seen = <<>> THEN <<>> ELSE Gaps(seen, w)
        /\ \A t \in slots : t \in Int
    BY AnsweredSlots
  <2>2. CASE seen = <<>>
    <3>1. slots = {} /\ gaps = <<>> /\ DOMAIN gaps = {}
      BY <2>1, <2>2 DEF SlotsOf
    <3> QED
      BY <3>1 DEF GapsAreExact
  <2>3. CASE seen # <<>>
    <3>1. ExactGaps(seen, w, gaps)
      BY <2>1, <2>3, GapsExact
    <3>2. gaps \in Seq(Gap) /\ DOMAIN gaps = 1 .. Len(gaps)
      BY <3>1 DEF ExactGaps
    <3>3. slots = {SlotTimes(w)[j] : j \in 1 .. Len(SlotTimes(w))}
      BY <2>1, <2>3, SlotsInOrder DEF SlotsOf
    <3>4. ASSUME NEW t \in slots
          PROVE  (\A r \in DOMAIN seen : ~ OnDuty(seen[r], t)) <=>
                   \E i \in DOMAIN gaps : gaps[i].from <= t /\ t < gaps[i].to
      <4>1. PICK j \in 1 .. Len(SlotTimes(w)) : t = SlotTimes(w)[j]
        BY <3>3
      <4>2. ListedAt(seen, t) = {} <=> InClosedGap(gaps, t)
        BY <3>1, <4>1 DEF ExactGaps
      <4>3. ListedAt(seen, t) = {} <=> \A r \in DOMAIN seen : ~ OnDuty(seen[r], t)
        <5> HIDE DEF seen, slots
        <5> QED
          BY <2>1, ListedOnDuty
      <4> QED
        BY <3>2, <4>2, <4>3 DEF InClosedGap
    <3>5. ASSUME NEW i \in DOMAIN gaps
          PROVE  /\ gaps[i].from \in slots /\ gaps[i].from < gaps[i].to
                 /\ gaps[i].to \in slots \union {w.to.at}
                 /\ \A j \in DOMAIN gaps : i < j => gaps[i].to < gaps[j].from
      <4> HIDE DEF gaps, slots, seen, w
      <4> QED
        BY <3>1, <3>2, <3>3 DEF ExactGaps
    <3> QED
      BY <3>4, <3>5 DEF GapsAreExact
  <2> QED
    BY <2>2, <2>3
<1> QED
  BY <1>1, RequestInit, RequestStep, PTL DEF Spec

(***************************************************************************)
(* For every length of day and whatever the offsets of their zones are,    *)
(* rosters that take over from each other leave no gap (service.go, isInHandoffWindow, which      *)
(* wraps past midnight; docs/04-integrations-workflow.md).                 *)
(***************************************************************************)
THEOREM RelayHasNoGapCorrect == Spec => []RelayHasNoGap
<1>1. RequestInv => RelayHasNoGap
  <2> SUFFICES ASSUME RequestInv, Answers("coverage"),
                      NEW r \in DOMAIN query.seen, NEW s \in DOMAIN query.seen,
                      query.seen[r].fts, query.seen[r].hours = None,
                      query.seen[s].fts, query.seen[s].hours = None,
                      (Relieves(query.seen[r]) - Relieves(query.seen[s])) % PerDay = PerDay \div 2
               PROVE  query.answer.gaps = <<>>
    BY DEF RelayHasNoGap
  <2>1. PICK w \in Windows : w = query.at
    BY AnsweredSlots
  <2>2. query.seen[r] \in Settings /\ query.seen[s] \in Settings
    BY AnsweredSlots
  <2>3. ASSUME NEW t \in Int PROVE ListedAt(query.seen, t) # {}
    <3>1. RosterActiveAt(query.seen[r], t) \/ RosterActiveAt(query.seen[s], t)
      BY <2>2, OneOfTwo
    <3> QED
      BY <3>1 DEF ListedAt
  <2>4. PICK seen : seen = query.seen
    OBVIOUS
  <2>5. Gaps(seen, w) = <<>>
    BY <2>3, <2>4, NoGap
  <2> QED
    BY <2>1, <2>4, <2>5, AnsweredSlots
<1> QED
  BY <1>1, RequestInit, RequestStep, PTL DEF Spec
-----------------------------------------------------------------------------
(* The on-call endpoint.                                                   *)

LEMMA InstantsOfOverride ==
    ASSUME NEW m, MomentType(m), NEW r, NEW o \in Covering(m, r)
    PROVE  o \in Override /\ o # None /\ o.from \in Int /\ o.to \in Int /\ o.roster = r
BY DEF Covering, MomentType, Override

LEMMA InForceAt ==
    ASSUME NEW m, MomentType(m), NEW r, NEW t \in Int
    PROVE  InForce(m, r, t) = {o \in Covering(m, r) : o.from <= t /\ o.to > t}
<1>1. ASSUME NEW o \in InForce(m, r, t) PROVE o \in Covering(m, r) /\ o.from <= t /\ o.to > t
  <2>1. o \in Covering(m, r) /\ t \in o.from .. (o.to - 1)
    BY <1>1 DEF InForce, Covering
  <2>2. o.from \in Int /\ o.to \in Int
    BY <2>1, InstantsOfOverride
  <2> QED
    BY <2>1, <2>2
<1>2. ASSUME NEW o \in Covering(m, r), o.from <= t, o.to > t PROVE o \in InForce(m, r, t)
  <2>1. o.from \in Int /\ o.to \in Int
    BY InstantsOfOverride
  <2>2. t \in o.from .. (o.to - 1)
    BY <1>2, <2>1
  <2> QED
    BY <1>2, <2>2 DEF InForce, Covering
<1> QED
  BY <1>1, <1>2

\* A week covers the same instants by its dates and by its first and last instant.
LEMMA WeekCovers ==
    ASSUME NEW x \in Row, NEW t \in Int
    PROVE  /\ x.start * PerDay <= t <=> x.start <= Day(t)
           /\ t < (x.start + 7) * PerDay <=> WeekEnd(x) > Day(t)
           /\ x.start * PerDay \in Int /\ (x.start + 7) * PerDay \in Int
<1>1. PICK d \in Int : d = x.start
  BY DEF Row
<1>2. d + 7 \in Int /\ Day(t) \in Int /\ PerDay \in Nat
  BY DayOf, ConstantsAssumption
<1>3. d * PerDay <= t <=> d <= Day(t)
  BY DayHasBegun
<1>4. (d + 7) * PerDay <= t <=> d + 7 <= Day(t)
  BY <1>2, DayHasBegun
<1>5. d * PerDay \in Int /\ (d + 7) * PerDay \in Int
  BY <1>2
<1>6. t < (d + 7) * PerDay <=> d + 7 > Day(t)
  <2>1. PICK e \in Int : e = (d + 7) * PerDay
    BY <1>5
  <2> QED
    BY <1>2, <1>4, <2>1
<1> QED
  BY <1>1, <1>3, <1>5, <1>6 DEF WeekEnd

\* The weeks that have the day of t, which begin and end at midnight UTC.
OnDay(rows, t) == {x \in rows : x.start <= Day(t) /\ WeekEnd(x) > Day(t)}

LEMMA WeeksAtRows ==
    ASSUME NEW m, MomentType(m), NEW r \in Rosters, NEW t \in Int
    PROVE  WeeksAt(m, r, t) = OnDay(m.schedule[r], t)
<1>1. ASSUME NEW x \in m.schedule[r]
      PROVE  t \in (x.start * PerDay) .. ((x.start + 7) * PerDay - 1) <=>
               x.start <= Day(t) /\ WeekEnd(x) > Day(t)
  <2>1. x \in Row
    BY DEF MomentType
  <2>2. PICK f \in Int, e \in Int : f = x.start * PerDay /\ e = (x.start + 7) * PerDay
    BY <2>1, WeekCovers
  <2>3. t \in f .. (e - 1) <=> f <= t /\ t < e
    OBVIOUS
  <2> QED
    BY <2>1, <2>2, <2>3, WeekCovers
<1> QED
  BY <1>1 DEF WeeksAt, OnDay

\* The weeks the endpoint may take are those of the date on the caller's clock.
LEMMA RowsOnClock ==
    ASSUME NEW m, MomentType(m), NEW r \in Rosters, NEW ts, ts.at \in Int, ts.offset \in Int
    PROVE  WeeksAt(m, r, ts.at + ts.offset) = RowsOn(m.schedule[r], ts)
<1>1. PICK t \in Int : t = ts.at + ts.offset
  OBVIOUS
<1> QED
  BY <1>1, WeeksAtRows DEF RowsOn, OnDay, Date

LEMMA Timestamp ==
    ASSUME NEW ts \in Timestamps
    PROVE  ts.at \in Int /\ ts.offset \in Int
BY ConstantsAssumption DEF Offsets

\* Whom roster r may name to a caller who gives timestamp ts.
NamedOn(m, r, ts) == OnCallIn(m, r, ts.at, WeeksAt(m, r, ts.at + ts.offset))

\* What the request has read of the overrides was so at moment m.
ReadOverride(m, r, t, found) ==
    \/ found = {} /\ InForce(m, r, t) = {}
    \/ \E o \in InForce(m, r, t) : found = {o}

LEMMA ResolveFits ==
    ASSUME NEW m, MomentType(m), NEW r \in Rosters, NEW ts \in Timestamps, NEW found,
           ReadOverride(m, r, ts.at, found), NEW o \in OneOf(found),
           NEW x \in OneOf(RowsOn(m.schedule[r], ts))
    PROVE  Resolve(o, x) \in NamedOn(m, r, ts)
<1> DEFINE weeks == WeeksAt(m, r, ts.at + ts.offset)
<1>1. weeks = RowsOn(m.schedule[r], ts)
  BY RowsOnClock, Timestamp
<1>2. \A y \in weeks : y # None
  BY RowAssumption DEF WeeksAt, MomentType
<1>3. (weeks = {} /\ x = None) \/ (weeks # {} /\ x \in weeks /\ x # None)
  BY <1>1, <1>2 DEF OneOf
<1>4. CASE InForce(m, r, ts.at) = {}
  <2>1. o = None
    BY <1>4 DEF ReadOverride, OneOf
  <2>2. CASE weeks = {}
    BY <1>3, <1>4, <2>1, <2>2 DEF Resolve, NamedOn, OnCallIn
  <2>3. CASE weeks # {}
    BY <1>3, <1>4, <2>1, <2>3 DEF Resolve, NamedOn, OnCallIn
  <2> QED
    BY <2>2, <2>3
<1>5. CASE InForce(m, r, ts.at) # {}
  <2>1. o \in InForce(m, r, ts.at)
    BY <1>5 DEF ReadOverride, OneOf
  <2>2. o # None
    BY <2>1 DEF InForce
  <2> DEFINE u == IF x = None THEN None ELSE x.secondary
  <2>3. u \in OneOf({y.secondary : y \in weeks})
    BY <1>3 DEF OneOf
  <2>4. Resolve(o, x) = [source |-> "override", primary |-> o.user, secondary |-> u]
    BY <2>2 DEF Resolve
  <2>5. ASSUME NEW p \in InForce(m, r, ts.at), NEW v \in OneOf({y.secondary : y \in weeks})
        PROVE  [source |-> "override", primary |-> p.user, secondary |-> v] \in NamedOn(m, r, ts)
    <3> DEFINE S(n) == {[source |-> "override", primary |-> q.user, secondary |-> n] :
                          q \in InForce(m, r, ts.at)}
    <3>1. [source |-> "override", primary |-> p.user, secondary |-> v] \in S(v)
      OBVIOUS
    <3>2. NamedOn(m, r, ts) = UNION {S(n) : n \in OneOf({y.secondary : y \in weeks})}
      BY <1>5 DEF NamedOn, OnCallIn
    <3> HIDE DEF S
    <3> QED
      BY <3>1, <3>2
  <2> HIDE DEF u, weeks
  <2> QED
    BY <2>1, <2>3, <2>4, <2>5
<1> QED
  BY <1>4, <1>5

OnCallInv ==
    query.edits < 2 =>
      /\ query.pc = "schedule" =>
           \E m \in Moments : ReadOverride(m, query.roster, query.at.at, query.found[query.roster])
      /\ Answers("oncall") /\ ~ query.failed =>
           \E m \in Moments : query.answer \in NamedOn(m, query.roster, query.at)

\* Which steps lead to the second half of the endpoint, of a read of coverage or of the calendar.
LEMMA MiddleSteps ==
    ASSUME RequestInv, [Next]_vars
    PROVE  /\ query'.pc = "schedule" =>
                (SameQuestion /\ (Quiet \/ OneEdit \/ Changed(2))) \/ CheckOverride
           /\ query'.pc = "export" =>
                (SameQuestion /\ (Quiet \/ OneEdit \/ Changed(2))) \/ ExportWeeks
           /\ query'.pc \in {"rows", "overrides", "compute"} =>
                \/ SameQuestion /\ (Quiet \/ OneEdit \/ Changed(2))
                \/ \E w \in Windows : GetCoverage(w)
                \/ \E r \in Rosters : FetchRows(r)
                \/ FetchOverrides
<1> USE DEF RequestInv
<1>1. CASE Quiet \/ OneEdit \/ Changed(2)
  BY <1>1, EditKeepsQuestion
<1>2. CASE Reading
  <2>1. ASSUME NEW r \in Rosters, (\E ts \in Timestamps : GetOnCall(r, ts)) \/ ExportICS(r)
        PROVE  query'.pc \in {"override", "weeks"}
    <3>1. \E kind, at : \E pc \in {"override", "weeks"} : Ask(kind, pc, r, at)
      BY <2>1 DEF GetOnCall, ExportICS
    <3> QED
      BY <3>1, AfterAsk
  <2>2. CheckOverride => query'.pc = "schedule"
    BY AfterCheckOverride
  <2>3. ASSUME LookUpWeek \/ Compute \/ ExportOverrides PROVE query'.pc = "answered"
    <3>1. \E a : Answer(a)
      BY <2>3 DEF LookUpWeek, Compute, ExportOverrides
    <3> QED
      BY <3>1, AfterAnswer
  <2>4. OnCallReadFails => query'.pc \in {"answered", "idle"}
    BY AfterFails
  <2>5. ExportWeeks => query'.pc = "export"
    BY AfterExportWeeks
  <2>6. Answered => query'.pc = "idle"
    BY DEF Answered, Idle
  <2>7. ASSUME \/ \E w \in Windows : GetCoverage(w)
               \/ FetchOverrides
        PROVE  query'.pc \in {"rows", "compute"}
    BY <2>7, AfterGetCoverage, AfterFetchOverrides
  <2>8. ASSUME NEW r \in Rosters, FetchRows(r) PROVE query'.pc = "overrides"
    BY <2>8, AfterFetchRows
  <2> QED
    BY <1>2, <2>1, <2>2, <2>3, <2>4, <2>5, <2>6, <2>7, <2>8 DEF Reading
<1> QED
  BY <1>1, <1>2, StepKinds
LEMMA ActiveInForce ==
    ASSUME MomentType(Now), NEW r, NEW t \in Int
    PROVE  ActiveOverrides(r, t) = InForce(Now, r, t)
<1>1. OfRoster(r) = Covering(Now, r)
  BY DEF OfRoster, Covering, Now
<1>2. InForce(Now, r, t) = {o \in Covering(Now, r) : o.from <= t /\ o.to > t}
  BY InForceAt
<1> QED
  BY <1>1, <1>2 DEF ActiveOverrides

\* A question that an edit leaves alone.
LEMMA KeepsMoment ==
    ASSUME RequestInv, EditInv, SameQuestion, Quiet \/ OneEdit \/ Changed(2),
           query.pc # "idle", query'.edits < 2
    PROVE  query.edits < 2 /\ \A m \in Moments : m \in Moments'
BY MomentsGrow DEF RequestInv

\* The moments after a step in which the request reads.
LEMMA ReadsMoment ==
    ASSUME RequestInv, EditInv, Reading, SameTerms, query'.edits < 2
    PROVE  query.edits < 2 /\ Moments' = Moments /\ Now \in Moments
<1>1. query.edits < 2 /\ query.edits \in {0, 1}
  BY DEF SameTerms, EditInv
<1>2. Moments' = Moments
  BY MomentsStay DEF RequestInv, SameTerms
<1> QED
  BY <1>1, <1>2 DEF Moments

LEMMA OnCallInit == Init => OnCallInv
BY DEF Init, Idle, OnCallInv, Answers

\* The second read: who is named was on call at the moment of one of the two reads.
LEMMA LookUpWeekFits ==
    ASSUME RequestInv, EditInv, OnCallInv, LookUpWeek, query'.edits < 2
    PROVE  \E m \in Moments' : query'.answer \in NamedOn(m, query'.roster, query'.at)
<1>1. AskedOnCall /\ query.pc = "schedule"
  BY DEF LookUpWeek, RequestInv, Asked, AskedOnCall, AskedCoverage, AskedCalendar
<1>2. PICK r \in Rosters, ts \in Timestamps : r = query.roster /\ ts = query.at
  BY <1>1 DEF AskedOnCall
<1>3. PICK found : found = query.found[query.roster]
  OBVIOUS
<1>4. PICK o \in OneOf(found), x \in OneOf(RowsOn(schedule[r], ts)) : Answer(Resolve(o, x))
  BY <1>2, <1>3 DEF LookUpWeek
<1>5. /\ query'.answer = Resolve(o, x) /\ query'.roster = r /\ query'.at = ts /\ SameTerms
  BY <1>2, <1>4, AfterAnswer DEF RequestInv, SameTerms
<1>6. query.edits < 2 /\ Moments' = Moments /\ Now \in Moments
  BY <1>5, ReadsMoment DEF Reading, LookUpWeek
<1>7. PICK m \in Moments : ReadOverride(m, r, ts.at, found)
  BY <1>1, <1>2, <1>3, <1>6 DEF OnCallInv
<1>8. MomentType(m) /\ AtMostOne(m, Now) /\ MomentType(Now)
  BY <1>6, TypedMoments DEF RequestInv
<1>9. m.schedule[r] = Now.schedule[r] \/ Covering(m, r) = Covering(Now, r)
  BY <1>8 DEF AtMostOne
<1>10. Now.schedule[r] = schedule[r]
  BY DEF Now
<1>11. CASE m.schedule[r] = Now.schedule[r]
  <2>1. Resolve(o, x) \in NamedOn(m, r, ts)
    BY <1>4, <1>7, <1>8, <1>10, <1>11, ResolveFits
  <2> QED
    BY <1>5, <1>6, <2>1
<1>12. CASE Covering(m, r) = Covering(Now, r)
  <2>1. InForce(m, r, ts.at) = InForce(Now, r, ts.at)
    BY <1>8, <1>12, InForceAt, Timestamp
  <2>2. ReadOverride(Now, r, ts.at, found)
    BY <1>7, <2>1 DEF ReadOverride
  <2>3. Resolve(o, x) \in NamedOn(Now, r, ts)
    <3>1. PICK n : n = Now
      OBVIOUS
    <3> QED
      BY <1>4, <1>8, <1>10, <2>2, <3>1, ResolveFits
  <2> QED
    BY <1>5, <1>6, <2>3
<1> QED
  BY <1>9, <1>11, <1>12

LEMMA OnCallStep == RequestInv /\ EditInv /\ OnCallInv /\ [Next]_vars => OnCallInv'
<1> SUFFICES ASSUME RequestInv, EditInv, OnCallInv, [Next]_vars, query'.edits < 2
             PROVE  /\ query'.pc = "schedule" =>
                         \E m \in Moments' :
                           ReadOverride(m, query'.roster, query'.at.at, query'.found[query'.roster])
                    /\ Answers("oncall")' /\ ~ query'.failed =>
                         \E m \in Moments' : query'.answer \in NamedOn(m, query'.roster, query'.at)
  BY DEF OnCallInv
<1>1. ASSUME query'.pc = "schedule"
      PROVE  \E m \in Moments' :
               ReadOverride(m, query'.roster, query'.at.at, query'.found[query'.roster])
  <2>1. CASE SameQuestion /\ (Quiet \/ OneEdit \/ Changed(2))
    <3>1. query.pc = "schedule"
      BY <1>1, <2>1 DEF SameQuestion
    <3>2. query.edits < 2 /\ \A m \in Moments : m \in Moments'
      BY <2>1, <3>1, KeepsMoment
    <3>3. PICK m \in Moments :
            ReadOverride(m, query.roster, query.at.at, query.found[query.roster])
      BY <3>1, <3>2 DEF OnCallInv
    <3> QED
      BY <2>1, <3>2, <3>3 DEF SameQuestion
  <2>2. CASE CheckOverride
    <3>1. AskedOnCall
      BY <2>2 DEF CheckOverride, RequestInv, Asked, AskedOnCall, AskedCoverage, AskedCalendar
    <3>2. PICK r \in Rosters, t \in Int : r = query.roster /\ t = query.at.at
      BY <3>1, Timestamp DEF AskedOnCall
    <3>3. /\ SameTerms /\ query'.roster = r /\ query'.at.at = t
          /\ \/ ActiveOverrides(r, t) = {} /\ query'.found[r] = {}
             \/ \E o \in ActiveOverrides(r, t) : query'.found[r] = {o}
      BY <2>2, <3>2, AfterCheckOverride DEF RequestInv, SameTerms
    <3>4. Moments' = Moments /\ Now \in Moments
      BY <2>2, <3>3, ReadsMoment DEF Reading, CheckOverride
    <3>5. ActiveOverrides(r, t) = InForce(Now, r, t)
      BY NowType, ActiveInForce DEF RequestInv
    <3>6. ReadOverride(Now, r, t, query'.found[r])
      BY <3>3, <3>5 DEF ReadOverride
    <3> QED
      BY <3>3, <3>4, <3>6
  <2> QED
    BY <1>1, <2>1, <2>2, MiddleSteps
<1>2. ASSUME Answers("oncall")', ~ query'.failed
      PROVE  \E m \in Moments' : query'.answer \in NamedOn(m, query'.roster, query'.at)
  <2>1. query'.pc = "answered" /\ query'.kind = "oncall"
    BY <1>2 DEF Answers
  <2>2. CASE SameQuestion /\ (Quiet \/ OneEdit \/ Changed(2))
    <3>1. query.pc = "answered" /\ query.kind = "oncall" /\ ~ query.failed
      BY <1>2, <2>1, <2>2 DEF SameQuestion
    <3>2. query.edits < 2 /\ \A m \in Moments : m \in Moments'
      BY <2>2, <3>1, KeepsMoment
    <3>3. PICK m \in Moments : query.answer \in NamedOn(m, query.roster, query.at)
      BY <3>1, <3>2 DEF OnCallInv, Answers
    <3> QED
      BY <2>2, <3>2, <3>3 DEF SameQuestion
  <2>3. CASE LookUpWeek
    BY <2>3, LookUpWeekFits
  <2>4. CASE OnCallReadFails
    BY <1>2, <2>1, <2>4, AfterFails DEF RequestInv
  <2>5. CASE Compute /\ AskedCoverage
    <3>1. \E a : Answer(a)
      BY <2>5 DEF Compute
    <3> QED
      BY <2>1, <2>5, <3>1, AfterAnswer DEF RequestInv, AskedCoverage, SameTerms
  <2>6. CASE ExportOverrides /\ AskedCalendar
    <3>1. \E a : Answer(a)
      BY <2>6 DEF ExportOverrides
    <3> QED
      BY <2>1, <2>6, <3>1, AfterAnswer DEF RequestInv, AskedCalendar, SameTerms
  <2> QED
    BY <2>1, <2>2, <2>3, <2>4, <2>5, <2>6, AnswerSteps DEF RequestInv
<1> QED
  BY <1>1, <1>2

LEMMA EditStepOfRequest == RequestInv /\ EditInv /\ [Next]_vars => EditInv'
BY EditStep DEF RequestInv

(***************************************************************************)
(* For any number of rosters and overrides and any offset of the caller's  *)
(* clock, whoever the on-call endpoint names was on call on that clock at  *)
(* one moment during the request, although its reads share no snapshot, as *)
(* long as one statement at most changed what it reads (service.go,        *)
(* GetOnCall and resolveOnCall; store.go, GetScheduleForTime).             *)
(***************************************************************************)
THEOREM AnswerWasTrueCorrect == Spec => []AnswerWasTrue
<1>1. OnCallInv => AnswerWasTrue
  BY DEF OnCallInv, AnswerWasTrue, NamedOn
<1> QED
  BY <1>1, RequestInit, RequestStep, EditInit, EditStepOfRequest, OnCallInit, OnCallStep, PTL DEF Spec
-----------------------------------------------------------------------------
(* The calendar.                                                           *)

CalendarInv ==
    query.edits < 2 =>
      /\ query.pc = "export" =>
           \E m \in Moments : query.rows[query.roster] = Exported(m.schedule[query.roster])
      /\ Answers("calendar") =>
           \E m \in Moments :
             query.answer = Calendar(query.seen[query.roster], Exported(m.schedule[query.roster]),
                                     Covering(m, query.roster))

LEMMA CalendarInit == Init => CalendarInv
BY DEF Init, Idle, CalendarInv, Answers

\* The second read: the calendar is that of the moment of one of the two.
LEMMA ExportFits ==
    ASSUME RequestInv, EditInv, CalendarInv, ExportOverrides, query'.edits < 2
    PROVE  \E m \in Moments' :
             query'.answer = Calendar(query'.seen[query'.roster], Exported(m.schedule[query'.roster]),
                                      Covering(m, query'.roster))
<1>1. AskedCalendar /\ query.pc = "export"
  BY DEF ExportOverrides, RequestInv, Asked, AskedOnCall, AskedCoverage, AskedCalendar
<1>2. PICK r \in Rosters : r = query.roster
  BY <1>1 DEF AskedCalendar
<1>3. OfRoster(r) = Covering(Now, r)
  BY DEF OfRoster, Covering, Now
<1>4. Answer(Calendar(query.seen[r], query.rows[r], Covering(Now, r)))
  BY <1>2, <1>3 DEF ExportOverrides
<1>5. /\ query'.answer = Calendar(query.seen[r], query.rows[r], Covering(Now, r))
      /\ query'.roster = r /\ query'.seen = query.seen /\ SameTerms
  <2>1. PICK a : a = Calendar(query.seen[r], query.rows[r], Covering(Now, r))
    OBVIOUS
  <2>2. Answer(a)
    BY <1>4, <2>1
  <2> QED
    BY <1>2, <2>1, <2>2, AfterAnswer DEF RequestInv, SameTerms
<1>6. query.edits < 2 /\ Moments' = Moments /\ Now \in Moments
  BY <1>5, ReadsMoment DEF Reading, ExportOverrides
<1>7. PICK m \in Moments : query.rows[r] = Exported(m.schedule[r])
  BY <1>1, <1>2, <1>6 DEF CalendarInv
<1>8. AtMostOne(m, Now)
  BY <1>6, TypedMoments DEF RequestInv
<1>9. m.schedule[r] = Now.schedule[r] \/ Covering(m, r) = Covering(Now, r)
  BY <1>8 DEF AtMostOne
<1> QED
  BY <1>5, <1>6, <1>7, <1>9

LEMMA CalendarStep == RequestInv /\ EditInv /\ CalendarInv /\ [Next]_vars => CalendarInv'
<1> SUFFICES ASSUME RequestInv, EditInv, CalendarInv, [Next]_vars, query'.edits < 2
             PROVE  /\ query'.pc = "export" =>
                         \E m \in Moments' :
                           query'.rows[query'.roster] = Exported(m.schedule[query'.roster])
                    /\ Answers("calendar")' =>
                         \E m \in Moments' :
                           query'.answer = Calendar(query'.seen[query'.roster],
                                                    Exported(m.schedule[query'.roster]),
                                                    Covering(m, query'.roster))
  BY DEF CalendarInv
<1>1. ASSUME query'.pc = "export"
      PROVE  \E m \in Moments' :
               query'.rows[query'.roster] = Exported(m.schedule[query'.roster])
  <2>1. CASE SameQuestion /\ (Quiet \/ OneEdit \/ Changed(2))
    <3>1. query.pc = "export"
      BY <1>1, <2>1 DEF SameQuestion
    <3>2. query.edits < 2 /\ \A m \in Moments : m \in Moments'
      BY <2>1, <3>1, KeepsMoment
    <3>3. PICK m \in Moments : query.rows[query.roster] = Exported(m.schedule[query.roster])
      BY <3>1, <3>2 DEF CalendarInv
    <3> QED
      BY <2>1, <3>2, <3>3 DEF SameQuestion
  <2>2. CASE ExportWeeks
    <3>1. /\ SameTerms /\ query'.roster = query.roster
          /\ query'.rows[query.roster] = Exported(schedule[query.roster])
      BY <2>2, AfterExportWeeks DEF RequestInv
    <3>2. Moments' = Moments /\ Now \in Moments
      BY <2>2, <3>1, ReadsMoment DEF Reading, ExportWeeks
    <3>3. Now.schedule[query.roster] = schedule[query.roster]
      BY DEF Now
    <3> QED
      BY <3>1, <3>2, <3>3
  <2> QED
    BY <1>1, <2>1, <2>2, MiddleSteps
<1>2. ASSUME Answers("calendar")'
      PROVE  \E m \in Moments' :
               query'.answer = Calendar(query'.seen[query'.roster],
                                        Exported(m.schedule[query'.roster]),
                                        Covering(m, query'.roster))
  <2>1. query'.pc = "answered" /\ query'.kind = "calendar"
    BY <1>2 DEF Answers
  <2>2. CASE SameQuestion /\ (Quiet \/ OneEdit \/ Changed(2))
    <3>1. query.pc = "answered" /\ query.kind = "calendar"
      BY <2>1, <2>2 DEF SameQuestion
    <3>2. query.edits < 2 /\ \A m \in Moments : m \in Moments'
      BY <2>2, <3>1, KeepsMoment
    <3>3. PICK m \in Moments :
            query.answer = Calendar(query.seen[query.roster], Exported(m.schedule[query.roster]),
                                    Covering(m, query.roster))
      BY <3>1, <3>2 DEF CalendarInv, Answers
    <3> QED
      BY <2>2, <3>2, <3>3 DEF SameQuestion
  <2>3. CASE ExportOverrides
    BY <2>3, ExportFits
  <2>4. CASE (LookUpWeek \/ OnCallReadFails) /\ AskedOnCall
    <3>1. (\E a : Answer(a)) \/ OnCallReadFails
      BY <2>4 DEF LookUpWeek
    <3>2. SameTerms
      BY <2>1, <3>1, AfterAnswer, AfterFails DEF RequestInv
    <3> QED
      BY <2>1, <2>4, <3>2 DEF AskedOnCall, SameTerms
  <2>5. CASE Compute /\ AskedCoverage
    <3>1. \E a : Answer(a)
      BY <2>5 DEF Compute
    <3> QED
      BY <2>1, <2>5, <3>1, AfterAnswer DEF RequestInv, AskedCoverage, SameTerms
  <2> QED
    BY <2>1, <2>2, <2>3, <2>4, <2>5, AnswerSteps DEF RequestInv
<1> QED
  BY <1>1, <1>2

\* What a calendar shows of one kind at t.
Shown(calendar, kind, t) ==
    {e.who : e \in {e \in calendar : e.kind = kind /\ e.from <= t /\ t < e.to}}

LEMMA ShownOverrides ==
    ASSUME NEW m, MomentType(m), NEW r, NEW s, NEW rows, NEW t \in Int
    PROVE  Shown(Calendar(s, rows, Covering(m, r)), "override", t) = {o.user : o \in InForce(m, r, t)}
<1> DEFINE handoff == s.time - s.zone
           found == Covering(m, r)
           W == {[kind |-> "week", who |-> x.primary, from |-> x.start * PerDay + handoff,
                  to |-> WeekEnd(x) * PerDay + handoff] : x \in rows}
           O == {[kind |-> "override", who |-> o.user, from |-> o.from, to |-> o.to] : o \in found}
           C == Calendar(s, rows, found)
<1>1. C = W \union O
  BY DEF Calendar
<1>2. \A e \in W : e.kind = "week"
  OBVIOUS
<1>3. InForce(m, r, t) = {o \in found : o.from <= t /\ o.to > t}
  BY InForceAt
<1>4. \A o \in found : o.from \in Int /\ o.to \in Int
  BY InstantsOfOverride
<1>5. ASSUME NEW e \in C, e.kind = "override", e.from <= t, t < e.to
      PROVE  \E o \in InForce(m, r, t) : e.who = o.user
  <2>1. PICK o \in found : e = [kind |-> "override", who |-> o.user, from |-> o.from, to |-> o.to]
    BY <1>1, <1>2, <1>5
  <2> HIDE DEF found
  <2> QED
    BY <1>3, <1>4, <1>5, <2>1
<1>6. ASSUME NEW o \in InForce(m, r, t)
      PROVE  \E e \in C : e.kind = "override" /\ e.from <= t /\ t < e.to /\ e.who = o.user
  <2>1. o \in found /\ o.from <= t /\ o.to > t
    BY <1>3
  <2>2. PICK e \in O : e = [kind |-> "override", who |-> o.user, from |-> o.from, to |-> o.to]
    BY <2>1
  <2> HIDE DEF found
  <2> QED
    BY <1>1, <1>4, <2>1, <2>2
<1> HIDE DEF C
<1> QED
  BY <1>5, <1>6 DEF Shown, C
\* A week of the calendar covers t if the endpoint's week covers it, on either side of the handoff.
LEMMA HandoffShift ==
    ASSUME NEW x \in Row, NEW h \in Int, NEW t \in Int, Day(t) = Day(t - h)
    PROVE  /\ x.start * PerDay + h <= t <=> x.start <= Day(t)
           /\ t < WeekEnd(x) * PerDay + h <=> WeekEnd(x) > Day(t)
<1>1. PICK u \in Int : u = t - h
  OBVIOUS
<1>2. /\ x.start * PerDay <= u <=> x.start <= Day(u)
      /\ u < (x.start + 7) * PerDay <=> WeekEnd(x) > Day(u)
      /\ x.start * PerDay \in Int /\ (x.start + 7) * PerDay \in Int
  BY WeekCovers
<1>3. PICK f \in Int, e \in Int : f = x.start * PerDay /\ e = (x.start + 7) * PerDay
  BY <1>2
<1>4. (f + h <= t <=> f <= u) /\ (t < e + h <=> u < e)
  BY <1>1
<1>5. WeekEnd(x) * PerDay = e
  BY <1>3 DEF WeekEnd
<1>6. Day(u) = Day(t)
  BY <1>1
<1> QED
  BY <1>2, <1>3, <1>4, <1>5, <1>6

\* The week of a day near the export is exported.
LEMMA NearWeeks ==
    ASSUME NEW m, MomentType(m), NEW r \in Rosters, NEW t \in Int,
           Day(t) \in (Today - 22) .. (Today + 7 * Ahead)
    PROVE  /\ \A x \in OnDay(m.schedule[r], t) : x \in Exported(m.schedule[r])
           /\ \A x \in Exported(m.schedule[r]) : x \in m.schedule[r] /\ x \in Row
<1>1. \A x \in m.schedule[r] : x \in Row /\ x.start \in Int
  BY DEF MomentType, Row
<1>2. Today \in Int /\ Ahead \in Nat /\ Day(t) \in Int
  BY ConstantsAssumption, DayOf
<1>3. ASSUME NEW x \in OnDay(m.schedule[r], t) PROVE x \in Exported(m.schedule[r])
  <2>1. x \in m.schedule[r] /\ x.start \in Int /\ x.start <= Day(t) /\ x.start + 7 > Day(t)
    BY <1>1 DEF OnDay, WeekEnd
  <2>2. Today - 28 <= x.start /\ x.start <= Today + 7 * Ahead
    BY <1>2, <2>1
  <2> QED
    BY <2>1, <2>2 DEF Exported, RowsFrom
<1> QED
  BY <1>1, <1>3 DEF Exported, RowsFrom

\* The calendar of roster r at moment m shows the primaries of the weeks of t.
ShowsWeeks(m, r, s, found, t) ==
    Shown(Calendar(s, Exported(m.schedule[r]), found), "week", t) =
      {x.primary : x \in WeeksAt(m, r, t)}

LEMMA ShownWeeks ==
    ASSUME NEW m, MomentType(m), NEW r \in Rosters, NEW s \in Settings, NEW found, NEW t \in Int,
           NEW h \in Int, h = s.time - s.zone, Day(t) = Day(t - h), Day(t) \in (Today - 22) .. (Today + 7 * Ahead)
    PROVE  ShowsWeeks(m, r, s, found, t)
<1>1. h = s.time - s.zone
  OBVIOUS
<1>2. PICK rows : rows = Exported(m.schedule[r])
  OBVIOUS
<1> DEFINE W == {[kind |-> "week", who |-> x.primary, from |-> x.start * PerDay + h,
                  to |-> WeekEnd(x) * PerDay + h] : x \in rows}
           O == {[kind |-> "override", who |-> o.user, from |-> o.from, to |-> o.to] : o \in found}
           C == Calendar(s, rows, found)
<1>3. C = W \union O
  BY <1>1 DEF Calendar
<1>4. \A e \in O : e.kind = "override"
  OBVIOUS
<1>5. WeeksAt(m, r, t) = OnDay(m.schedule[r], t)
  BY WeeksAtRows
<1>6. /\ \A x \in OnDay(m.schedule[r], t) : x \in rows
      /\ \A x \in rows : x \in m.schedule[r] /\ x \in Row
  BY <1>2, NearWeeks
<1>7. \A x \in rows : /\ x.start * PerDay + h <= t <=> x.start <= Day(t)
                      /\ t < WeekEnd(x) * PerDay + h <=> WeekEnd(x) > Day(t)
  BY <1>1, <1>6, HandoffShift
<1>8. ASSUME NEW e \in C, e.kind = "week", e.from <= t, t < e.to
      PROVE  \E x \in OnDay(m.schedule[r], t) : e.who = x.primary
  <2>1. PICK x \in rows : e = [kind |-> "week", who |-> x.primary, from |-> x.start * PerDay + h,
                               to |-> WeekEnd(x) * PerDay + h]
    BY <1>3, <1>4, <1>8
  <2>2. x.start <= Day(t) /\ WeekEnd(x) > Day(t)
    BY <1>7, <1>8, <2>1
  <2> QED
    BY <1>6, <2>1, <2>2 DEF OnDay
<1>9. ASSUME NEW x \in OnDay(m.schedule[r], t)
      PROVE  \E e \in C : e.kind = "week" /\ e.from <= t /\ t < e.to /\ e.who = x.primary
  <2>1. x \in rows /\ x.start <= Day(t) /\ WeekEnd(x) > Day(t)
    BY <1>6 DEF OnDay
  <2>2. PICK e \in W : e = [kind |-> "week", who |-> x.primary, from |-> x.start * PerDay + h,
                            to |-> WeekEnd(x) * PerDay + h]
    BY <2>1
  <2>3. x.start * PerDay + h <= t /\ t < WeekEnd(x) * PerDay + h
    BY <1>7, <2>1
  <2>4. /\ e.kind = "week" /\ e.who = x.primary /\ e.from = x.start * PerDay + h
        /\ e.to = WeekEnd(x) * PerDay + h
    BY <2>2
  <2>5. e \in C
    BY <1>3
  <2> HIDE DEF C, W
  <2> QED
    BY <2>3, <2>4, <2>5
<1>10. Shown(C, "week", t) = {x.primary : x \in OnDay(m.schedule[r], t)}
  <2> HIDE DEF C
  <2> QED
    BY <1>8, <1>9 DEF Shown
<1> QED
  BY <1>2, <1>5, <1>10 DEF ShowsWeeks

(***************************************************************************)
(* For any offset of a zone, handoff time and length of day, the calendar  *)
(* names whom the endpoint names to those who ask in UTC, but for the      *)
(* hours between midnight and the handoff                                  *)
(* (ical.go, generateICSFromSchedule; handler.go, handleExportICS, which   *)
(* reads weeks and overrides apart).                                       *)
(***************************************************************************)
THEOREM CalendarAgreesCorrect == Spec => []CalendarAgrees
<1>1. RequestInv /\ EditInv /\ CalendarInv => CalendarAgrees
  <2> SUFFICES ASSUME RequestInv, EditInv, CalendarInv, Answers("calendar"), query.edits < 2
               PROVE  CalendarAgrees
    BY DEF CalendarAgrees
  <2>1. PICK r : r = query.roster
    OBVIOUS
  <2>2. AskedCalendar
    BY DEF Answers, RequestInv, Asked, AskedOnCall, AskedCoverage, AskedCalendar
  <2>3. PICK s : s = query.seen[r]
    OBVIOUS
  <2>4. r \in Rosters /\ s \in Settings
    BY <2>1, <2>2, <2>3 DEF AskedCalendar
  <2>5. PICK m \in Moments : query.answer = Calendar(s, Exported(m.schedule[r]), Covering(m, r))
    BY <2>1, <2>3 DEF CalendarInv
  <2>6. MomentType(m)
    BY TypedMoments DEF RequestInv
  <2>7. ASSUME NEW t \in {ts.at : ts \in Timestamps}
        PROVE  /\ Shown(query.answer, "override", t) = {o.user : o \in InForce(m, r, t)}
               /\ Day(t) = Day(t - (s.time - s.zone)) /\ Day(t) \in (Today - 22) .. (Today + 7 * Ahead) =>
                    Shown(query.answer, "week", t) = {x.primary : x \in WeeksAt(m, r, t)}
    <3>1. t \in Int
      BY Timestamp
    <3>2. PICK rows : rows = Exported(m.schedule[r])
      OBVIOUS
    <3>3. Shown(query.answer, "override", t) = {o.user : o \in InForce(m, r, t)}
      BY <2>5, <2>6, <3>1, <3>2, ShownOverrides
    <3>4. PICK found : found = Covering(m, r)
      OBVIOUS
    <3>5. ASSUME Day(t) = Day(t - (s.time - s.zone)), Day(t) \in (Today - 22) .. (Today + 7 * Ahead)
          PROVE  Shown(query.answer, "week", t) = {x.primary : x \in WeeksAt(m, r, t)}
      <4>1. PICK h \in Int : h = s.time - s.zone
        BY <2>4, LocalTime, ConstantsAssumption DEF Times, Offsets
      <4>2. Day(t) = Day(t - h)
        BY <3>5, <4>1
      <4>3. ShowsWeeks(m, r, s, found, t)
        BY <2>4, <2>6, <3>1, <3>5, <4>1, <4>2, ShownWeeks
      <4> QED
        BY <2>5, <3>4, <4>3 DEF ShowsWeeks
    <3> QED
      BY <3>3, <3>5
  <2> QED
    BY <2>1, <2>3, <2>7 DEF CalendarAgrees, Shown
<1> QED
  BY <1>1, RequestInit, RequestStep, EditInit, EditStepOfRequest, CalendarInit, CalendarStep, PTL
  DEF Spec
-----------------------------------------------------------------------------
(* Coverage: who is named.                                                 *)

\* What the two statements for roster r read, had they run at moment m.
WeeksOf(m, r, w) == RowsFrom(m.schedule[r], LookBack(w.from), Date(w.to))
OverridesOf(m, r, w) == {o \in Covering(m, r) : o.to > w.from.at /\ o.from < w.to.at}

\* All that the request has read was so at moment m.
Fetched(m) ==
    \A r \in DOMAIN query.seen :
      /\ r \notin query.todo => /\ query.rows[r] = WeeksOf(m, r, query.at)
                                /\ query.found[r] = OverridesOf(m, r, query.at)
      /\ query.pc = "overrides" /\ r = query.roster => query.rows[r] = WeeksOf(m, r, query.at)

CoverageInv ==
    /\ query.edits < 2 /\ ~ query.failed
    /\ query.pc \in {"rows", "overrides", "compute"} \/ Answers("coverage")
    => \E m \in Moments : Fetched(m)

LEMMA CoverageInit == Init => CoverageInv
BY DEF Init, Idle, CoverageInv, Answers

LEMMA FetchRowsFits ==
    ASSUME RequestInv, EditInv, CoverageInv, NEW r \in Rosters, FetchRows(r),
           query'.edits < 2, ~ query'.failed
    PROVE  \E m \in Moments' : Fetched(m)'
<1>1. AskedCoverage /\ query.pc = "rows" /\ r \in query.todo
  BY DEF FetchRows, RequestInv, Asked, AskedOnCall, AskedCoverage, AskedCalendar
<1>2. PICK w : w = query.at
  OBVIOUS
<1>3. /\ SameTerms /\ query'.pc = "overrides" /\ query'.roster = r
      /\ query'.todo = query.todo /\ query'.found = query.found
      /\ \A q \in Rosters : q # r => query'.rows[q] = query.rows[q]
      /\ ~ query.failed
      /\ query'.rows[r] = RowsFrom(schedule[r], LookBack(query.at.from), Date(query.at.to))
  BY AfterFetchRows DEF RequestInv
<1>4. query.edits < 2 /\ Moments' = Moments /\ Now \in Moments
  BY <1>3, ReadsMoment DEF Reading, FetchRows
<1>5. PICK m \in Moments : Fetched(m)
  BY <1>1, <1>3, <1>4 DEF CoverageInv
<1>6. AtMostOne(m, Now)
  BY <1>4, TypedMoments DEF RequestInv
<1>7. query'.rows[r] = WeeksOf(Now, r, w)
  BY <1>2, <1>3 DEF WeeksOf, Now
<1>8. DOMAIN query.seen \subseteq Rosters
  BY <1>1 DEF AskedCoverage
<1>9. ASSUME NEW n \in Moments, WeeksOf(n, r, w) = WeeksOf(Now, r, w),
             \A q \in Rosters : q # r => /\ WeeksOf(n, q, w) = WeeksOf(m, q, w)
                                         /\ OverridesOf(n, q, w) = OverridesOf(m, q, w)
      PROVE  Fetched(n)'
  <2> SUFFICES ASSUME NEW q \in DOMAIN query.seen
               PROVE  /\ q \notin query.todo => /\ query'.rows[q] = WeeksOf(n, q, w)
                                                /\ query.found[q] = OverridesOf(n, q, w)
                      /\ q = r => query'.rows[q] = WeeksOf(n, q, w)
    BY <1>2, <1>3 DEF Fetched, SameTerms, WeeksOf, OverridesOf, Covering, RowsFrom, LookBack, Date, Day
  <2>1. CASE q = r
    BY <1>1, <1>7, <1>9, <2>1
  <2>2. CASE q # r
    BY <1>2, <1>3, <1>5, <1>8, <1>9, <2>2 DEF Fetched
  <2> QED
    BY <2>1, <2>2
<1>10. CASE m.schedule[r] = Now.schedule[r]
  <2>1. WeeksOf(m, r, w) = WeeksOf(Now, r, w)
    BY <1>10 DEF WeeksOf
  <2> QED
    BY <1>4, <1>9, <2>1
<1>11. CASE m.schedule[r] # Now.schedule[r]
  <2>1. \A q \in Rosters : q # r => /\ m.schedule[q] = Now.schedule[q]
                                    /\ Covering(m, q) = Covering(Now, q)
    BY <1>6, <1>11 DEF AtMostOne
  <2>2. \A q \in Rosters : q # r => /\ WeeksOf(Now, q, w) = WeeksOf(m, q, w)
                                    /\ OverridesOf(Now, q, w) = OverridesOf(m, q, w)
    BY <2>1 DEF WeeksOf, OverridesOf
  <2> QED
    BY <1>4, <1>9, <2>2
<1> QED
  BY <1>10, <1>11

LEMMA FetchOverridesFits ==
    ASSUME RequestInv, EditInv, CoverageInv, FetchOverrides, query'.edits < 2, ~ query'.failed
    PROVE  \E m \in Moments' : Fetched(m)'
<1>1. AskedCoverage /\ query.pc = "overrides"
  BY DEF FetchOverrides, RequestInv, Asked, AskedOnCall, AskedCoverage, AskedCalendar
<1>2. PICK w, r : w = query.at /\ r = query.roster
  OBVIOUS
<1>3. /\ SameTerms /\ query'.roster = r /\ query'.todo = query.todo \ {r}
      /\ query'.pc # "overrides" /\ query'.rows = query.rows /\ r \in query.todo
      /\ \A q \in Rosters : q # r => query'.found[q] = query.found[q]
      /\ ~ query.failed /\ query'.found[r] = OverridesIn(r, query.at.from.at, query.at.to.at)
  BY <1>2, AfterFetchOverrides DEF RequestInv
<1>4. query.edits < 2 /\ Moments' = Moments /\ Now \in Moments
  BY <1>3, ReadsMoment DEF Reading, FetchOverrides
<1>5. PICK m \in Moments : Fetched(m)
  BY <1>1, <1>3, <1>4 DEF CoverageInv
<1>6. AtMostOne(m, Now)
  BY <1>4, TypedMoments DEF RequestInv
<1>7. query'.found[r] = OverridesOf(Now, r, w)
  BY <1>2, <1>3 DEF OverridesOf, OverridesIn, OfRoster, Covering, Now
<1>8. DOMAIN query.seen \subseteq Rosters /\ r \in Rosters /\ r \in DOMAIN query.seen
  BY <1>1, <1>3 DEF AskedCoverage, RequestInv, QueryType
<1>9. ASSUME NEW n \in Moments, OverridesOf(n, r, w) = OverridesOf(Now, r, w),
             WeeksOf(n, r, w) = WeeksOf(m, r, w),
             \A q \in Rosters : q # r => /\ WeeksOf(n, q, w) = WeeksOf(m, q, w)
                                         /\ OverridesOf(n, q, w) = OverridesOf(m, q, w)
      PROVE  Fetched(n)'
  <2> SUFFICES ASSUME NEW q \in DOMAIN query.seen, q \notin query.todo \ {r}
               PROVE  /\ query.rows[q] = WeeksOf(n, q, w)
                      /\ query'.found[q] = OverridesOf(n, q, w)
    BY <1>2, <1>3 DEF Fetched, SameTerms, WeeksOf, OverridesOf, Covering, RowsFrom, LookBack, Date, Day
  <2>1. CASE q = r
    BY <1>1, <1>2, <1>5, <1>7, <1>9, <2>1 DEF Fetched
  <2>2. CASE q # r
    BY <1>2, <1>3, <1>5, <1>8, <1>9, <2>2 DEF Fetched
  <2> QED
    BY <2>1, <2>2
<1>10. CASE Covering(m, r) = Covering(Now, r)
  <2>1. OverridesOf(m, r, w) = OverridesOf(Now, r, w)
    BY <1>10 DEF OverridesOf
  <2> QED
    BY <1>4, <1>9, <2>1
<1>11. CASE Covering(m, r) # Covering(Now, r)
  <2>1. /\ \A q \in Rosters : m.schedule[q] = Now.schedule[q]
        /\ \A q \in Rosters : q # r => Covering(m, q) = Covering(Now, q)
    BY <1>6, <1>8, <1>11 DEF AtMostOne
  <2>2. /\ \A q \in Rosters : WeeksOf(Now, q, w) = WeeksOf(m, q, w)
        /\ \A q \in Rosters : q # r => OverridesOf(Now, q, w) = OverridesOf(m, q, w)
    BY <2>1 DEF WeeksOf, OverridesOf
  <2> QED
    BY <1>4, <1>8, <1>9, <2>2
<1> QED
  BY <1>10, <1>11
LEMMA GetCoverageFits ==
    ASSUME RequestInv, EditInv, NEW w \in Windows, GetCoverage(w), query'.edits < 2
    PROVE  \E m \in Moments' : Fetched(m)'
<1>1. /\ query'.edits = 0 /\ query'.pc # "overrides"
      /\ \A r \in DOMAIN query'.seen : r \in query'.todo
  BY DEF GetCoverage, Idle
<1>2. Moments' = {Now'}
  BY <1>1 DEF Moments
<1>3. \A m : Fetched(m)'
  BY <1>1 DEF Fetched
<1> QED
  BY <1>2, <1>3

LEMMA CoverageStep == RequestInv /\ EditInv /\ CoverageInv /\ [Next]_vars => CoverageInv'
<1> SUFFICES ASSUME RequestInv, EditInv, CoverageInv, [Next]_vars,
                    query'.edits < 2, ~ query'.failed,
                    query'.pc \in {"rows", "overrides", "compute"} \/ Answers("coverage")'
             PROVE  \E m \in Moments' : Fetched(m)'
  BY DEF CoverageInv
<1> DEFINE Asks == query.pc \in {"rows", "overrides", "compute"} \/ Answers("coverage")
<1>1. ASSUME SameQuestion, Quiet \/ OneEdit \/ Changed(2) PROVE \E m \in Moments' : Fetched(m)'
  <2>1. Asks /\ query.pc # "idle" /\ ~ query.failed
    BY <1>1 DEF SameQuestion, Answers
  <2>2. query.edits < 2 /\ \A m \in Moments : m \in Moments'
    BY <1>1, <2>1, KeepsMoment
  <2>3. PICK m \in Moments : Fetched(m)
    BY <2>1, <2>2 DEF CoverageInv
  <2>4. Fetched(m)'
    BY <1>1, <2>3 DEF SameQuestion, Fetched
  <2> QED
    BY <2>2, <2>3, <2>4
<1>2. ASSUME query'.pc \in {"rows", "overrides", "compute"} PROVE \E m \in Moments' : Fetched(m)'
  BY <1>1, <1>2, MiddleSteps, GetCoverageFits, FetchRowsFits, FetchOverridesFits
<1>3. ASSUME Answers("coverage")' PROVE \E m \in Moments' : Fetched(m)'
  <2>1. query'.pc = "answered" /\ query'.kind = "coverage"
    BY <1>3 DEF Answers
  <2>2. CASE Compute
    <3>1. PICK a : Answer(a)
      BY <2>2 DEF Compute
    <3>2. /\ SameTerms /\ query'.todo = query.todo /\ query'.rows = query.rows
          /\ query'.roster = query.roster /\ query'.found = query.found
          /\ query'.failed = query.failed
      BY <3>1, AfterAnswer DEF RequestInv
    <3>3. query.edits < 2 /\ Moments' = Moments
      BY <2>2, <3>2, ReadsMoment DEF Reading, Compute
    <3>4. PICK m \in Moments : Fetched(m)
      BY <2>2, <3>2, <3>3 DEF CoverageInv, Compute
    <3>5. Fetched(m)'
      BY <2>1, <3>2, <3>4 DEF SameTerms, Fetched
    <3> QED
      BY <3>3, <3>4, <3>5
  <2>3. ASSUME (LookUpWeek \/ OnCallReadFails) /\ AskedOnCall PROVE FALSE
    <3>1. (\E a : Answer(a)) \/ OnCallReadFails
      BY <2>3 DEF LookUpWeek
    <3>2. SameTerms
      BY <2>1, <3>1, AfterAnswer, AfterFails DEF RequestInv
    <3> QED
      BY <2>1, <2>3, <3>2 DEF AskedOnCall, SameTerms
  <2>4. ASSUME ExportOverrides, AskedCalendar PROVE FALSE
    <3>1. \E a : Answer(a)
      BY <2>4 DEF ExportOverrides
    <3> QED
      BY <2>1, <2>4, <3>1, AfterAnswer DEF RequestInv, AskedCalendar, SameTerms
  <2> QED
    BY <1>1, <2>1, <2>2, <2>3, <2>4, AnswerSteps DEF RequestInv
<1> QED
  BY <1>2, <1>3
LEMMA SlotsFromStart ==
    ASSUME NEW w \in Windows, NEW i \in DOMAIN SlotTimes(w)
    PROVE  w.from.at <= SlotTimes(w)[i]
<1>1. PICK from \in Int, step \in Nat : from = w.from.at /\ step = w.step
  BY ConstantsAssumption
<1>2. SlotTimes(w)[i] = from + (i - 1) * step /\ i \in Int /\ i >= 1
  <2>1. DOMAIN SlotTimes(w) = 1 .. ((w.to.at - w.from.at + w.step - 1) \div w.step)
    BY DEF SlotTimes
  <2>2. ((w.to.at - w.from.at + w.step - 1) \div w.step) \in Int
    BY ConstantsAssumption
  <2> QED
    BY <1>1, <2>1, <2>2 DEF SlotTimes
<1>3. 0 * step <= (i - 1) * step /\ (i - 1) * step \in Int
  <2>1. i - 1 \in Int /\ 0 <= i - 1
    BY <1>2
  <2>2. PICK k \in Int : k = i - 1 /\ 0 <= k
    BY <2>1
  <2>3. 0 * step <= k * step
    BY <1>1, <2>2, Multiplied
  <2>4. k * step \in Int
    BY <1>1
  <2> QED
    BY <2>2, <2>3, <2>4
<1> QED
  BY <1>1, <1>2, <1>3

\* No clock is a day ahead of UTC.
LEMMA DayAhead ==
    ASSUME NEW at \in Int, NEW offset \in Offsets
    PROVE  Day(at + offset) <= Day(at) + 1
<1>1. PICK n \in Nat, d \in Int, u \in Int : n = PerDay /\ d = Day(at) /\ u = Day(at + offset) /\ offset < n
  BY ConstantsAssumption, DayOf DEF Offsets, Day
<1>2. offset \in Int
  BY ConstantsAssumption DEF Offsets
<1>3. ASSUME d + 2 <= u PROVE FALSE
  <2>1. (d + 2) * n <= at + offset
    BY <1>1, <1>2, <1>3, DayHasBegun
  <2>2. at < (d + 1) * n
    BY <1>1, DayOf
  <2>3. (d + 2) * n = (d + 1) * n + n /\ (d + 1) * n \in Int
    BY <1>1
  <2>4. PICK e \in Int : e = (d + 1) * n
    BY <2>3
  <2>5. e + n <= at + offset /\ at < e
    BY <2>1, <2>2, <2>3, <2>4
  <2> QED
    BY <1>1, <1>2, <2>4, <2>5
<1> QED
  BY <1>1, <1>3

\* The weeks of t that coverage knows of: it reads those that begin by the date of the window's end.
Known(m, r, w, t) == {x \in WeeksAt(m, r, t) : x.start <= Date(w.to)}

LEMMA WindowType ==
    ASSUME NEW w \in Windows
    PROVE  /\ w.from.at \in Int /\ w.from.offset \in Offsets
           /\ w.to.at \in Int /\ w.to.offset \in Offsets /\ Date(w.to) \in Int
<1>1. w.from.at \in Int /\ w.from.offset \in Offsets /\ w.to.at \in Int /\ w.to.offset \in Offsets
  BY ConstantsAssumption
<1>2. w.to.at + w.to.offset \in Int
  BY <1>1, ConstantsAssumption DEF Offsets
<1> QED
  BY <1>1, <1>2, DayOf DEF Date

\* What the statements of coverage read is enough for every slot of the window, but for weeks that
\* begin after the date its end has on the caller's clock.
LEMMA ReadEnough ==
    ASSUME NEW m, MomentType(m), NEW r \in Rosters, NEW w \in Windows, NEW t \in Int,
           w.from.at <= t, t < w.to.at
    PROVE  /\ {o \in OverridesOf(m, r, w) : o.from <= t /\ t < o.to} = InForce(m, r, t)
           /\ {x \in WeeksOf(m, r, w) : x.start * PerDay <= t /\ t < WeekEnd(x) * PerDay} =
                Known(m, r, w, t)
<1>1. PICK from \in Int, to \in Int : from = w.from.at /\ to = w.to.at /\ from <= t /\ t < to
  BY WindowType
<1>2. InForce(m, r, t) = {o \in Covering(m, r) : o.from <= t /\ o.to > t}
  BY InForceAt
<1>3. \A o \in Covering(m, r) : o.from \in Int /\ o.to \in Int
  BY InstantsOfOverride
<1>4. {o \in OverridesOf(m, r, w) : o.from <= t /\ t < o.to} = InForce(m, r, t)
  BY <1>1, <1>2, <1>3 DEF OverridesOf
<1>5. Day(from) \in Int /\ Day(t) \in Int
  BY DayOf
<1>6. Day(from) <= Day(t)
  <2>1. PICK f \in Int : f = Day(from) * PerDay
    BY <1>5, ConstantsAssumption
  <2>2. f <= from
    BY <2>1, DayOf
  <2> QED
    BY <1>1, <1>5, <2>1, <2>2, DayHasBegun
<1>7. Date(w.from) \in Int /\ Date(w.from) <= Day(from) + 1
  <2>1. w.from.at + w.from.offset \in Int
    BY WindowType, ConstantsAssumption DEF Offsets
  <2> QED
    BY <1>1, <2>1, WindowType, DayOf, DayAhead DEF Date
<1>8. ASSUME NEW x \in m.schedule[r]
      PROVE  /\ x \in OnDay(m.schedule[r], t) <=>
                  x.start * PerDay <= t /\ t < WeekEnd(x) * PerDay
             /\ x \in OnDay(m.schedule[r], t) =>
                  (x \in WeeksOf(m, r, w) <=> x.start <= Date(w.to))
  <2>1. x \in Row /\ x.start \in Int
    BY DEF MomentType, Row
  <2>2. x.start * PerDay <= t /\ t < WeekEnd(x) * PerDay <=> x.start <= Day(t) /\ WeekEnd(x) > Day(t)
    BY <2>1, WeekCovers DEF WeekEnd
  <2>3. ASSUME x.start <= Day(t), WeekEnd(x) > Day(t)
        PROVE  x \in WeeksOf(m, r, w) <=> x.start <= Date(w.to)
    <3>1. Date(w.from) - 7 <= x.start
      BY <1>5, <1>6, <1>7, <2>1, <2>3 DEF WeekEnd
    <3> QED
      BY <3>1 DEF WeeksOf, RowsFrom, LookBack
  <2> QED
    BY <2>2, <2>3 DEF OnDay
<1>9. \A x \in WeeksOf(m, r, w) : x \in m.schedule[r]
  BY DEF WeeksOf, RowsFrom
<1>10. \A x \in OnDay(m.schedule[r], t) : x \in m.schedule[r]
  BY DEF OnDay
<1>11. WeeksAt(m, r, t) = OnDay(m.schedule[r], t)
  BY WeeksAtRows
<1>12. {x \in WeeksOf(m, r, w) : x.start * PerDay <= t /\ t < WeekEnd(x) * PerDay} =
         {x \in OnDay(m.schedule[r], t) : x.start <= Date(w.to)}
  BY <1>8, <1>9, <1>10
<1> QED
  BY <1>4, <1>11, <1>12 DEF Known

\* One of the weeks of t begins first.
LEMMA FirstWeek ==
    ASSUME NEW m, MomentType(m), NEW r \in Rosters, NEW t \in Int, NEW weeks,
           weeks \subseteq WeeksAt(m, r, t), weeks # {}
    PROVE  \E x \in weeks : \A y \in weeks : x.start <= y.start
<1>1. weeks # {}
  OBVIOUS
<1>2. weeks \subseteq OnDay(m.schedule[r], t)
  BY WeeksAtRows
<1>3. PICK d \in Int : d = Day(t)
  BY DayOf
<1>4. \A x \in weeks : x.start \in Int /\ x.start - (d - 6) \in Nat
  <2> TAKE x \in weeks
  <2>1. x.start \in Int /\ x.start + 7 > d
    BY <1>2, <1>3 DEF MomentType, Row, OnDay, WeekEnd
  <2> QED
    BY <2>1
<1>5. PICK S : S = {x.start - (d - 6) : x \in weeks}
  OBVIOUS
<1>6. S \subseteq Nat /\ S # {}
  BY <1>1, <1>4, <1>5
<1>7. PICK i \in S : \A j \in S : i <= j
  BY <1>6, LeastIndex
<1>8. PICK x \in weeks : i = x.start - (d - 6)
  BY <1>5, <1>7
<1>9. \A y \in weeks : x.start <= y.start
  <2> TAKE y \in weeks
  <2>1. y.start - (d - 6) \in S
    BY <1>5
  <2>2. x.start - (d - 6) <= y.start - (d - 6)
    BY <1>7, <1>8, <2>1
  <2> QED
    BY <1>4, <2>2
<1> QED
  BY <1>9
LEMMA NamedByEndpoint ==
    ASSUME NEW m, MomentType(m), NEW r \in Rosters, NEW t \in Int, NEW rows, NEW found,
           {o \in found : o.from <= t /\ t < o.to} = InForce(m, r, t),
           NEW known, known \subseteq WeeksAt(m, r, t),
           {x \in rows : x.start * PerDay <= t /\ t < WeekEnd(x) * PerDay} = known,
           NEW e \in ResolveFromCache(rows, found, t)
    PROVE  \E a \in OnCallIn(m, r, t, known) : Agrees(e, a)
<1>1. PICK active, weeks : active = InForce(m, r, t) /\ weeks = known
  OBVIOUS
<1> DEFINE first == CHOOSE x \in weeks : \A y \in weeks : x.start <= y.start
<1>2. e \in IF active # {}
              THEN {[source |-> "override", primary |-> o.user, secondary |-> None] :
                      o \in {o \in active : \A p \in active : o.from <= p.from}}
              ELSE IF weeks # {} /\ first.primary # None
                     THEN {[source |-> "schedule", primary |-> first.primary,
                            secondary |-> first.secondary]}
                     ELSE {[source |-> "unassigned", primary |-> None, secondary |-> None]}
  BY <1>1 DEF ResolveFromCache
<1>3. CASE active # {}
  <2>1. PICK o \in active :
          e = [source |-> "override", primary |-> o.user, secondary |-> None]
    BY <1>2, <1>3
  <2> DEFINE S(n) == {[source |-> "override", primary |-> q.user, secondary |-> n] : q \in active}
  <2>2. OnCallIn(m, r, t, known) = UNION {S(n) : n \in OneOf({y.secondary : y \in weeks})}
    BY <1>1, <1>3 DEF OnCallIn
  <2>3. PICK n : n \in OneOf({y.secondary : y \in weeks})
    BY DEF OneOf
  <2>4. PICK a : a = [source |-> "override", primary |-> o.user, secondary |-> n]
    OBVIOUS
  <2>5. a \in S(n)
    BY <2>4
  <2> HIDE DEF S
  <2>6. a \in OnCallIn(m, r, t, known)
    BY <2>2, <2>3, <2>5
  <2>7. Agrees(e, a)
    BY <2>1, <2>4 DEF Agrees
  <2> QED
    BY <2>6, <2>7
<1>4. CASE active = {} /\ weeks # {}
  <2>1. OnCallIn(m, r, t, known) =
          {[source |-> "schedule", primary |-> x.primary, secondary |-> x.secondary] : x \in weeks}
    BY <1>1, <1>4 DEF OnCallIn
  <2>2. first \in weeks
    BY <1>1, <1>4, FirstWeek
  <2>3. PICK x \in weeks : x = first
    BY <2>2
  <2> HIDE DEF first
  <2>4. PICK a : a = [source |-> "schedule", primary |-> x.primary, secondary |-> x.secondary]
    OBVIOUS
  <2>5. a \in OnCallIn(m, r, t, known)
    BY <2>1, <2>4
  <2>6. \/ e = a
        \/ x.primary = None /\ e = [source |-> "unassigned", primary |-> None, secondary |-> None]
    BY <1>2, <1>4, <2>3, <2>4
  <2>7. Agrees(e, a)
    BY <2>4, <2>6 DEF Agrees
  <2> QED
    BY <2>5, <2>7
<1>5. CASE active = {} /\ weeks = {}
  <2>1. OnCallIn(m, r, t, known) = {[source |-> "unassigned", primary |-> None, secondary |-> None]}
    BY <1>1, <1>5 DEF OnCallIn
  <2>2. e = [source |-> "unassigned", primary |-> None, secondary |-> None]
    BY <1>2, <1>5
  <2>3. Agrees(e, e)
    BY DEF Agrees
  <2> QED
    BY <2>1, <2>2, <2>3
<1> QED
  BY <1>3, <1>4, <1>5

(***************************************************************************)
(* For any rosters, window, offsets and slot length, coverage names nobody *)
(* whom the on-call endpoint, asked in UTC, would not have named at one    *)
(* moment during the request, of the weeks that begin by the date the end  *)
(* of the window has on the caller's clock (service.go, GetCoverage and    *)
(* resolveFromCache against resolveOnCall), as long as one statement at    *)
(* most changed what the request reads.                                    *)
(***************************************************************************)
THEOREM CoverageAgreesCorrect == Spec => []CoverageAgrees
<1>1. RequestInv /\ EditInv /\ CoverageInv => CoverageAgrees
  <2> SUFFICES ASSUME RequestInv, EditInv, CoverageInv,
                      Answers("coverage"), ~ query.failed, query.edits < 2
               PROVE  \E m \in Moments : \A t \in DOMAIN query.answer.slots :
                        \A r \in DOMAIN query.answer.slots[t] : \A e \in query.answer.slots[t][r] :
                          \E a \in OnCallIn(m, r, t, Known(m, r, query.at, t)) : Agrees(e, a)
    BY DEF CoverageAgrees, Known
  <2>1. AskedCoverage /\ query.todo = {}
    BY DEF Answers, RequestInv, Asked, AskedOnCall, AskedCoverage, AskedCalendar
  <2>2. PICK w \in Windows, seen \in {query.seen} : w = query.at /\ seen = query.seen
    BY <2>1 DEF AskedCoverage
  <2>3. PICK m \in Moments : Fetched(m)
    BY DEF CoverageInv
  <2>4. MomentType(m)
    BY TypedMoments DEF RequestInv
  <2>5. query.answer.slots = [t \in SlotsOf(seen, w) |->
                                [r \in ListedAt(seen, t) |->
                                   ResolveFromCache(query.rows[r], query.found[r], t)]]
    BY <2>2 DEF RequestInv, Computed
  <2>6. ASSUME NEW t \in SlotsOf(seen, w), NEW r \in ListedAt(seen, t),
               NEW e \in ResolveFromCache(query.rows[r], query.found[r], t)
        PROVE  \E a \in OnCallIn(m, r, t, Known(m, r, w, t)) : Agrees(e, a)
    <3>1. r \in DOMAIN seen /\ r \in Rosters
      BY <2>1, <2>2 DEF ListedAt, AskedCoverage
    <3>2. PICK i \in DOMAIN SlotTimes(w) : t = SlotTimes(w)[i]
      BY DEF SlotsOf
    <3>3. t \in Int /\ w.from.at <= t /\ t < w.to.at
      BY <3>2, SlotsInOrder, SlotsFromStart
    <3>4. PICK rows, found : rows = query.rows[r] /\ found = query.found[r]
      OBVIOUS
    <3>5. rows = WeeksOf(m, r, w) /\ found = OverridesOf(m, r, w)
      BY <2>1, <2>2, <2>3, <3>1, <3>4 DEF Fetched
    <3>6. /\ {o \in found : o.from <= t /\ t < o.to} = InForce(m, r, t)
          /\ {x \in rows : x.start * PerDay <= t /\ t < WeekEnd(x) * PerDay} =
               Known(m, r, w, t)
          /\ Known(m, r, w, t) \subseteq WeeksAt(m, r, t)
      BY <2>4, <3>1, <3>3, <3>5, ReadEnough DEF Known
    <3> QED
      BY <2>4, <3>1, <3>3, <3>4, <3>6, NamedByEndpoint
  <2>7. PICK slots : slots = query.answer.slots
    OBVIOUS
  <2>8. ASSUME NEW t \in DOMAIN slots, NEW r \in DOMAIN slots[t], NEW e \in slots[t][r]
        PROVE  \E a \in OnCallIn(m, r, t, Known(m, r, w, t)) : Agrees(e, a)
    <3>1. t \in SlotsOf(seen, w)
      BY <2>5, <2>7
    <3>2. slots[t] = [q \in ListedAt(seen, t) |-> ResolveFromCache(query.rows[q], query.found[q], t)]
      BY <2>5, <2>7, <3>1
    <3>3. r \in ListedAt(seen, t) /\ slots[t][r] = ResolveFromCache(query.rows[r], query.found[r], t)
      BY <3>2
    <3> QED
      BY <2>6, <3>1, <3>3
  <2> QED
    BY <2>2, <2>7, <2>8
<1> QED
  BY <1>1, RequestInit, RequestStep, EditInit, EditStepOfRequest, CoverageInit, CoverageStep, PTL
  DEF Spec
=============================================================================
