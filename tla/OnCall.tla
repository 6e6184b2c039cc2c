------------------------------- MODULE OnCall -------------------------------
(***************************************************************************)
(* Who is on call: the rosters, their weeks and overrides, and the three   *)
(* answers pkg/roster derives from them, the on-call endpoint              *)
(* (service.go, resolveOnCall), the coverage of all rosters (GetCoverage)  *)
(* and the calendar (ical.go).  Each answer takes several statements on    *)
(* tables that are edited meanwhile, and each reads them its own way.      *)
(*                                                                         *)
(* Days are numbered, day 0 being a Sunday, and have PerDay instants,      *)
(* counted in UTC.  A caller gives an instant with an offset, and where it *)
(* is compared with a date, the date is that of the caller's own clock.    *)
(* The zone of a roster is an offset too: daylight saving is left out.     *)
(* Whom a generation assigns is the subject of RosterSchedule: here it is  *)
(* anyone.  The rosters have members and are active throughout (nothing    *)
(* ever clears is_active, and end_date is not looked at).  Names, notes    *)
(* and the text of the calendar are left out.                              *)
(***************************************************************************)
EXTENDS Integers, SequencesExt

CONSTANTS
    Rosters,       \* ids the rosters table can hand out
    Users,
    OverrideIds,   \* a bound: overrides that exist at once
    PerDay,        \* instants in a day
    Foundings,     \* the rosters there may be to begin with, [Rosters -> Settings or None]
    Updates,       \* a bound: the [day, time, zone] an admin may set
    Froms,         \* a bound: the dates from which weeks are generated
    Ahead,         \* schedule_weeks_ahead
    Duties,        \* a bound: the [primary, secondary] a generated week may get
    Edits,         \* a bound: the [start, primary, secondary] an admin may set by hand
    Shapes,        \* a bound: the [user, from, to] of the overrides an admin may ask for
    Timestamps,    \* a bound: the [at, offset] the on-call endpoint is asked about
    Windows,       \* a bound: the [from, to, step] coverage is asked for, from and to as timestamps
    Today,         \* the day on which calendars are exported
    MaxEvents,     \* a bound: edits, generations and failed statements
    None           \* nobody, nothing, no roster

Anyone == Users \union {None}
Times == 0..(PerDay - 1)
Offsets == (1 - PerDay)..(PerDay - 1)

\* The columns of rosters that matter: day is handoff_day, 0 to 6 by its comment and any number by
\* its check, zone is the time zone, hours is active_hours_start and active_hours_end.
Settings == [day : Int, time : Times, zone : Offsets, fts : BOOLEAN,
             hours : [start : Times, end : Times] \union {None}]

ASSUME ConstantsAssumption ==
    /\ PerDay \in Nat \ {0} /\ PerDay % 2 = 0   \* twelve hours are a number of instants
    /\ Ahead \in Nat \ {0} /\ MaxEvents \in Nat /\ Today \in Int
    /\ None \notin Users /\ None \notin Settings /\ None \notin Int
    /\ Foundings \subseteq [Rosters -> Settings \union {None}]
    /\ Updates \subseteq [day : Int, time : Times, zone : Offsets]
    /\ Froms \subseteq Int
    /\ Duties \subseteq [primary : Anyone, secondary : Anyone]
    /\ \A d \in Duties : d.primary # d.secondary   \* the check of the table
    /\ Edits \subseteq [start : Int, primary : Anyone, secondary : Anyone]
    /\ Shapes \subseteq [user : Users, from : Int, to : Int]
    /\ Timestamps \subseteq [at : Int, offset : Offsets]
    /\ Windows \subseteq [from : [at : Int, offset : Offsets], to : [at : Int, offset : Offsets],
                           step : Nat \ {0}]

\* A row of roster_schedule, and one of roster_overrides.
Row == [start : Int, primary : Anyone, secondary : Anyone, locked : BOOLEAN]
Override == [roster : Rosters, user : Users, from : Int, to : Int]

ASSUME RowAssumption == None \notin Row

VARIABLES
    rosters,     \* rosters[r], the row of roster r or None
    schedule,    \* schedule[r], the rows of roster_schedule for r
    overrides,   \* overrides[o], the row of override o or None
    gen,         \* gen[r], the local variables of GenerateSchedule for r
    query,       \* the local variables of the request that asks
    \* history
    shifted,     \* shifted[r]: a week of r was set off its handoff day, or that day changed
    events       \* edits, generations and failed statements so far

tables == <<rosters, schedule, overrides>>
vars == <<tables, gen, query, shifted, events>>

Resting == [pc |-> "idle", start |-> 0, left |-> 0, locked |-> {}]
Idle == [pc |-> "idle", kind |-> None, roster |-> None, at |-> None, seen |-> <<>>, todo |-> {},
         rows |-> [r \in Rosters |-> {}], found |-> [r \in Rosters |-> {}], answer |-> None,
         edits |-> 0, before |-> None, failed |-> FALSE]

Init ==
    /\ rosters \in Foundings
    /\ schedule = [r \in Rosters |-> {}]
    /\ overrides = [o \in OverrideIds |-> None]
    /\ gen = [r \in Rosters |-> Resting]
    /\ query = Idle
    /\ shifted = [r \in Rosters |-> FALSE]
    /\ events = 0

Event == events < MaxEvents /\ events' = events + 1

Now == [rosters |-> rosters, schedule |-> schedule, overrides |-> overrides]

\* n statements' worth of change, of which a request under way remembers what it was before.
Changed(n) ==
    query' = IF query.pc = "idle" THEN query
             ELSE [query EXCEPT !.edits = IF @ + n > 2 THEN 2 ELSE @ + n,
                                !.before = IF query.edits = 0 /\ n = 1 THEN Now ELSE None]

-----------------------------------------------------------------------------
(* The statements of store.go.                                             *)

Day(t) == t \div PerDay

\* A timestamp keeps the offset it was given with, and its date is the one on that clock.
Date(ts) == Day(ts.at + ts.offset)

WeekEnd(row) == row.start + 7

\* UpsertScheduleWeek: one row for each first day.
Upserted(rows, row) == {x \in rows : x.start # row.start} \union {row}

\* ListSchedule, the days included.
RowsFrom(rows, from, to) == {x \in rows : from <= x.start /\ x.start <= to}

\* Faulty variant: the last day counts too.
RowsOnOrEnding(rows, ts) == {x \in rows : x.start <= Date(ts) /\ Date(ts) <= WeekEnd(x)}

\* GetScheduleForTime takes the first of these in no particular order.
RowsOn(rows, ts) == {x \in rows : x.start <= Date(ts) /\ WeekEnd(x) > Date(ts)}

OfRoster(r) == {overrides[o] : o \in {o \in OverrideIds : overrides[o] # None /\ overrides[o].roster = r}}

\* GetActiveOverride takes one of these, LIMIT 1, in no particular order.
ActiveOverrides(r, t) == {o \in OfRoster(r) : o.from <= t /\ o.to > t}

\* Faulty variant: only what starts inside the window.
OverridesStartingIn(r, from, to) == {o \in OfRoster(r) : o.from >= from /\ o.from < to}

\* ListOverridesInRange
OverridesIn(r, from, to) == {o \in OfRoster(r) : o.to > from /\ o.from < to}

-----------------------------------------------------------------------------
(* Rosters.                                                                *)

\* What CreateRoster of the store can insert; it checks neither handoff_day nor the hours.
NewRosters == (UNION {{f[x] : x \in Rosters} : f \in Foundings}) \ {None}

\* handleCreateRoster; the generation it starts finds no member of a new roster.
CreateRoster(r, s) ==
    /\ Event
    /\ rosters[r] = None /\ gen[r].pc = "idle" /\ r \notin DOMAIN query.seen   \* a new id
    /\ rosters' = [rosters EXCEPT ![r] = s]
    /\ Changed(1)
    /\ UNCHANGED <<schedule, overrides, gen, shifted>>

\* UpdateRoster of the store leaves the active hours and follow-the-sun alone.
Updated(s, u) == [s EXCEPT !.day = u.day, !.time = u.time, !.zone = u.zone]

\* handleUpdateRoster; the weeks there are stay as they are.
UpdateRoster(r, u) ==
    /\ Event
    /\ rosters[r] # None
    /\ rosters' = [rosters EXCEPT ![r] = Updated(@, u)]
    /\ shifted' = [shifted EXCEPT ![r] = @ \/ (u.day - rosters[r].day) % 7 # 0]
    /\ Changed(1)
    /\ UNCHANGED <<schedule, overrides, gen>>

\* handleDeleteRoster, which cascades to weeks and overrides.
DeleteRoster(r) ==
    /\ Event
    /\ rosters[r] # None
    /\ rosters' = [rosters EXCEPT ![r] = None]
    /\ schedule' = [schedule EXCEPT ![r] = {}]
    /\ overrides' = [o \in OverrideIds |->
                       IF overrides[o] # None /\ overrides[o].roster = r THEN None ELSE overrides[o]]
    /\ Changed(2)
    /\ UNCHANGED <<gen, shifted>>

-----------------------------------------------------------------------------
(* Overrides.                                                              *)

\* Faulty variant: an override may be empty.
ValidOrEmpty(from, to) == to >= from

\* CreateOverride of the service.
ValidPeriod(from, to) == to > from

\* CreateOverride of the store: overrides may overlap.
NewOverride(r, shape) == [roster |-> r, user |-> shape.user, from |-> shape.from, to |-> shape.to]

\* handleCreateOverride
CreateOverride(r, o, shape) ==
    /\ Event
    /\ rosters[r] # None /\ overrides[o] = None
    /\ ValidPeriod(shape.from, shape.to)
    /\ overrides' = [overrides EXCEPT ![o] = NewOverride(r, shape)]
    /\ Changed(1)
    /\ UNCHANGED <<rosters, schedule, gen, shifted>>

\* handleDeleteOverride, by the id alone.
DeleteOverride(o) ==
    /\ Event
    /\ overrides[o] # None
    /\ overrides' = [overrides EXCEPT ![o] = None]
    /\ Changed(1)
    /\ UNCHANGED <<rosters, schedule, gen, shifted>>

-----------------------------------------------------------------------------
(* Weeks.                                                                  *)

\* UpdateScheduleWeek of the service: any date may begin a week, which is locked.
SetByHand(edit) == [start |-> edit.start, primary |-> edit.primary,
                    secondary |-> edit.secondary, locked |-> TRUE]

\* handleUpdateScheduleWeek
UpdateScheduleWeek(r, edit) ==
    /\ Event
    /\ rosters[r] # None
    /\ edit.primary # edit.secondary
    /\ schedule' = [schedule EXCEPT ![r] = Upserted(@, SetByHand(edit))]
    /\ shifted' = [shifted EXCEPT ![r] = @ \/ (edit.start - rosters[r].day) % 7 # 0]
    /\ Changed(1)
    /\ UNCHANGED <<rosters, overrides, gen>>

\* handleUnlockScheduleWeek
UnlockScheduleWeek(r, start) ==
    /\ Event
    /\ \E x \in schedule[r] :
         /\ x.start = start
         /\ schedule' = [schedule EXCEPT ![r] = Upserted(@, [x EXCEPT !.locked = FALSE])]
    /\ Changed(1)
    /\ UNCHANGED <<rosters, overrides, gen, shifted>>

\* Faulty variant: the date as it was given.
Unaligned(date, day) == date

\* alignToHandoffDay
AlignToHandoffDay(date, day) ==
    LET diff == (date % 7) - day
    IN date - (IF diff < 0 THEN diff + 7 ELSE diff)

\* GenerateSchedule, for the top-up, a change of members or a request, reads the roster.
Generate(r, from) ==
    /\ Event
    /\ rosters[r] # None /\ gen[r].pc = "idle"
    /\ gen' = [gen EXCEPT ![r] = [pc |-> "read", start |-> AlignToHandoffDay(from, rosters[r].day),
                                  left |-> Ahead, locked |-> {}]]
    /\ UNCHANGED <<tables, query, shifted>>

\* It reads which weeks of its window are locked.
ReadLocked(r) ==
    /\ gen[r].pc = "read"
    /\ gen' = [gen EXCEPT ![r] = [@ EXCEPT !.pc = "write",
                 !.locked = {x.start : x \in {x \in RowsFrom(schedule[r], gen[r].start,
                                                             gen[r].start + 7 * Ahead) : x.locked}}]]
    /\ UNCHANGED <<tables, query, shifted, events>>

Later(g) == IF g.left = 1 THEN Resting ELSE [g EXCEPT !.start = @ + 7, !.left = @ - 1]

(***************************************************************************)
(* It writes the next week, unless that was locked; the roster may be gone *)
(* and the insert fail.                                                    *)
(***************************************************************************)
WriteWeek(r) ==
    /\ gen[r].pc = "write"
    /\ \/ /\ gen[r].start \in gen[r].locked
          /\ gen' = [gen EXCEPT ![r] = Later(@)]
          /\ UNCHANGED <<schedule, query>>
       \/ /\ gen[r].start \notin gen[r].locked /\ rosters[r] # None
          /\ \E d \in Duties :
               schedule' = [schedule EXCEPT ![r] =
                              Upserted(@, [start |-> gen[r].start, primary |-> d.primary,
                                           secondary |-> d.secondary, locked |-> FALSE])]
          /\ gen' = [gen EXCEPT ![r] = Later(@)]
          /\ Changed(1)
       \/ /\ gen[r].start \notin gen[r].locked /\ rosters[r] = None
          /\ gen' = [gen EXCEPT ![r] = Resting]
          /\ UNCHANGED <<schedule, query>>
    /\ UNCHANGED <<rosters, overrides, shifted, events>>

-----------------------------------------------------------------------------
(* The on-call endpoint.                                                   *)

\* GetRoster
Ask(kind, pc, r, at) ==
    query' = [Idle EXCEPT !.kind = kind, !.pc = pc, !.roster = r, !.at = at,
                          !.seen = [x \in {r} |-> rosters[x]]]

Answer(a) == query' = [query EXCEPT !.pc = "answered", !.answer = a]

\* handleGetOnCall and GetOnCall: the roster, or a 404.
GetOnCall(r, ts) ==
    /\ query.pc = "idle"
    /\ rosters[r] # None
    /\ Ask("oncall", "override", r, ts)
    /\ UNCHANGED <<tables, gen, shifted, events>>

\* The first half of resolveOnCall.
CheckOverride ==
    /\ query.pc = "override"
    /\ LET active == ActiveOverrides(query.roster, query.at.at)
       IN IF active = {} THEN query' = [query EXCEPT !.pc = "schedule"]
          ELSE \E o \in active : query' = [query EXCEPT !.pc = "schedule", !.found[query.roster] = {o}]
    /\ UNCHANGED <<tables, gen, shifted, events>>

\* Faulty variant: the week that was read wins.
PreferSchedule(o, x) ==
    IF x # None THEN [source |-> "schedule", primary |-> x.primary, secondary |-> x.secondary]
    ELSE IF o # None THEN [source |-> "override", primary |-> o.user, secondary |-> None]
    ELSE [source |-> "unassigned", primary |-> None, secondary |-> None]

\* What the endpoint says of an override o and a week x, either of which may be None.
Resolve(o, x) ==
    IF o # None THEN [source |-> "override", primary |-> o.user,
                      secondary |-> IF x = None THEN None ELSE x.secondary]
    ELSE IF x # None THEN [source |-> "schedule", primary |-> x.primary, secondary |-> x.secondary]
    ELSE [source |-> "unassigned", primary |-> None, secondary |-> None]

OneOf(S) == IF S = {} THEN {None} ELSE S

\* The second half of resolveOnCall.
LookUpWeek ==
    /\ query.pc = "schedule"
    /\ \E o \in OneOf(query.found[query.roster]), x \in OneOf(RowsOn(schedule[query.roster], query.at)) :
         Answer(Resolve(o, x))
    /\ UNCHANGED <<tables, gen, shifted, events>>

\* With an override, the error of the second read is dropped; any other error is a 500.
OnCallReadFails ==
    /\ query.pc \in {"override", "schedule"}
    /\ Event
    /\ IF query.found[query.roster] = {} THEN query' = Idle
       ELSE \E o \in query.found[query.roster] :
              query' = [query EXCEPT !.pc = "answered", !.answer = Resolve(o, None), !.failed = TRUE]
    /\ UNCHANGED <<tables, gen, shifted>>

-----------------------------------------------------------------------------
(* Coverage.                                                               *)

\* ListRosters and the filter on is_active.
Listed == {r \in Rosters : rosters[r] # None}

\* handleGetCoverage
GetCoverage(w) ==
    /\ query.pc = "idle"
    /\ query' = [Idle EXCEPT !.kind = "coverage", !.pc = IF Listed = {} THEN "compute" ELSE "rows",
                             !.at = w, !.seen = [r \in Listed |-> rosters[r]], !.todo = Listed]
    /\ UNCHANGED <<tables, gen, shifted, events>>

\* Faulty variant: no look back.
LookBackNone(ts) == Date(ts)

\* A week that covers ts began less than seven days before.
LookBack(ts) == Date(ts) - 7

\* ListSchedule of one of the rosters; an error leaves it empty.
FetchRows(r) ==
    /\ query.pc = "rows" /\ r \in query.todo
    /\ \/ /\ query' = [query EXCEPT !.pc = "overrides", !.roster = r, !.rows[r] =
                         RowsFrom(schedule[r], LookBack(query.at.from), Date(query.at.to))]
          /\ UNCHANGED events
       \/ /\ Event
          /\ query' = [query EXCEPT !.pc = "overrides", !.roster = r, !.failed = TRUE]
    /\ UNCHANGED <<tables, gen, shifted>>

\* ListOverridesInRange of the same roster; an error leaves it empty.
FetchOverrides ==
    /\ query.pc = "overrides"
    /\ LET rest == query.todo \ {query.roster}
           next == [query EXCEPT !.pc = IF rest = {} THEN "compute" ELSE "rows", !.todo = rest]
       IN \/ /\ query' = [next EXCEPT !.found[query.roster] =
                            OverridesIn(query.roster, query.at.from.at, query.at.to.at)]
             /\ UNCHANGED events
          \/ Event /\ query' = [next EXCEPT !.failed = TRUE]
    /\ UNCHANGED <<tables, gen, shifted>>

Local(s, t) == (t + s.zone) % PerDay

\* Faulty variant: the twelve hours stop at midnight.
InHandoffWindowToday(s, t) ==
    Local(s, t) >= s.time /\ Local(s, t) < s.time + PerDay \div 2

\* isInHandoffWindow: twelve hours from the handoff time.
InHandoffWindow(s, t) ==
    LET shiftEnd == s.time + PerDay \div 2
    IN IF shiftEnd >= PerDay THEN Local(s, t) >= s.time \/ Local(s, t) < shiftEnd - PerDay
       ELSE Local(s, t) >= s.time /\ Local(s, t) < shiftEnd

\* isInActiveHours
InActiveHours(s, t) ==
    IF s.hours = None THEN InHandoffWindow(s, t)
    ELSE IF s.hours.end > s.hours.start
           THEN Local(s, t) >= s.hours.start /\ Local(s, t) < s.hours.end
           ELSE Local(s, t) >= s.hours.start \/ Local(s, t) < s.hours.end

\* isRosterActiveAt
RosterActiveAt(s, t) == s.fts => InActiveHours(s, t)

(***************************************************************************)
(* resolveFromCache: the first override by its start and the first week,   *)
(* of which a secondary is read in a scheduled week only.                  *)
(***************************************************************************)
ResolveFromCache(rows, found, t) ==
    LET active == {o \in found : o.from <= t /\ t < o.to}
        weeks == {x \in rows : x.start * PerDay <= t /\ t < WeekEnd(x) * PerDay}
        first == CHOOSE x \in weeks : \A y \in weeks : x.start <= y.start
    IN IF active # {}
         THEN {[source |-> "override", primary |-> o.user, secondary |-> None] :
                 o \in {o \in active : \A p \in active : o.from <= p.from}}
         ELSE IF weeks # {} /\ first.primary # None
                THEN {[source |-> "schedule", primary |-> first.primary, secondary |-> first.secondary]}
                ELSE {[source |-> "unassigned", primary |-> None, secondary |-> None]}

\* The instants at which a slot of window w begins.
SlotTimes(w) ==
    [i \in 1..((w.to.at - w.from.at + w.step - 1) \div w.step) |-> w.from.at + (i - 1) * w.step]

ListedAt(seen, t) == {r \in DOMAIN seen : RosterActiveAt(seen[r], t)}

\* Faulty variant: a gap that lasts to the end of the window is forgotten.
ClosedGapsOnly(scan, to) == scan.gaps

\* A gap that is still open ends with the window.
AllGaps(scan, to) ==
    IF scan.since = None THEN scan.gaps ELSE Append(scan.gaps, [from |-> scan.since, to |-> to])

\* What the loop that tracks gaps makes of the slot that begins at t.
Track(seen, scan, t) ==
    CASE ListedAt(seen, t) = {} /\ scan.since = None -> [scan EXCEPT !.since = t]
      [] ListedAt(seen, t) # {} /\ scan.since # None ->
           [since |-> None, gaps |-> Append(scan.gaps, [from |-> scan.since, to |-> t])]
      [] OTHER -> scan

\* That loop, slot by slot.
Scan(seen, w) ==
    LET scan[i \in 0 .. Len(SlotTimes(w))] ==
            IF i = 0 THEN [since |-> None, gaps |-> <<>>]
                     ELSE Track(seen, scan[i - 1], SlotTimes(w)[i])
    IN scan

Gaps(seen, w) == AllGaps(Scan(seen, w)[Len(SlotTimes(w))], w.to.at)

(***************************************************************************)
(* The slots, for each of which the rosters on duty are listed, and the    *)
(* summary of the gaps; without a roster there are no slots.               *)
(***************************************************************************)
Compute ==
    /\ query.pc = "compute"
    /\ LET slots == IF query.seen = <<>> THEN {}
                    ELSE {SlotTimes(query.at)[i] : i \in DOMAIN SlotTimes(query.at)}
       IN Answer([slots |-> [t \in slots |-> [r \in ListedAt(query.seen, t) |->
                               ResolveFromCache(query.rows[r], query.found[r], t)]],
                  gaps |-> IF query.seen = <<>> THEN <<>> ELSE Gaps(query.seen, query.at)])
    /\ UNCHANGED <<tables, gen, shifted, events>>

-----------------------------------------------------------------------------
(* The calendar.                                                           *)

\* handleExportICS reads the roster, four weeks back and the weeks ahead, and all overrides.
ExportICS(r) ==
    /\ query.pc = "idle"
    /\ rosters[r] # None
    /\ Ask("calendar", "weeks", r, Today)
    /\ UNCHANGED <<tables, gen, shifted, events>>

\* Faulty variant: the week that has begun is left out.
ExportedFromToday(rows) == RowsFrom(rows, Today, Today + 7 * Ahead)

Exported(rows) == RowsFrom(rows, Today - 28, Today + 7 * Ahead)

ExportWeeks ==
    /\ query.pc = "weeks"
    /\ query' = [query EXCEPT !.pc = "export", !.rows[query.roster] = Exported(schedule[query.roster])]
    /\ UNCHANGED <<tables, gen, shifted, events>>

\* generateICSFromSchedule: weeks change hands at the handoff time, in the zone of the roster.
Calendar(s, rows, found) ==
    LET handoff == s.time - s.zone
    IN {[kind |-> "week", who |-> x.primary, from |-> x.start * PerDay + handoff,
         to |-> WeekEnd(x) * PerDay + handoff] : x \in rows}
       \union {[kind |-> "override", who |-> o.user, from |-> o.from, to |-> o.to] : o \in found}

ExportOverrides ==
    /\ query.pc = "export"
    /\ Answer(Calendar(query.seen[query.roster], query.rows[query.roster], OfRoster(query.roster)))
    /\ UNCHANGED <<tables, gen, shifted, events>>

\* The answer is out.
Answered ==
    /\ query.pc = "answered"
    /\ query' = Idle
    /\ UNCHANGED <<tables, gen, shifted, events>>

-----------------------------------------------------------------------------
Next ==
    \/ \E r \in Rosters :
         \/ \E s \in NewRosters : CreateRoster(r, s)
         \/ \E u \in Updates : UpdateRoster(r, u)
         \/ DeleteRoster(r)
         \/ \E o \in OverrideIds, shape \in Shapes : CreateOverride(r, o, shape)
         \/ \E edit \in Edits : UpdateScheduleWeek(r, edit) \/ UnlockScheduleWeek(r, edit.start)
         \/ \E from \in Froms : Generate(r, from)
         \/ ReadLocked(r) \/ WriteWeek(r)
         \/ \E ts \in Timestamps : GetOnCall(r, ts)
         \/ FetchRows(r)
         \/ ExportICS(r)
    \/ \E o \in OverrideIds : DeleteOverride(o)
    \/ CheckOverride \/ LookUpWeek \/ OnCallReadFails
    \/ \E w \in Windows : GetCoverage(w)
    \/ FetchOverrides \/ Compute
    \/ ExportWeeks \/ ExportOverrides
    \/ Answered

Spec == Init /\ [][Next]_vars

-----------------------------------------------------------------------------
(* Properties.                                                             *)

(***************************************************************************)
(* The tables obey their constraints (migrations 000010 and 000016), and a *)
(* request reads a roster only after the list of rosters.                  *)
(***************************************************************************)
TypeOK ==
    /\ rosters \in [Rosters -> Settings \union {None}]
    /\ \A r \in Rosters :
         /\ \A x \in schedule[r] : x.start \in Int /\ x.primary # x.secondary /\ x.locked \in BOOLEAN
         /\ \A x, y \in schedule[r] : x.start = y.start => x = y
         /\ rosters[r] = None => schedule[r] = {} /\ OfRoster(r) = {}
         /\ gen[r].pc \in {"idle", "read", "write"}
         /\ gen[r].pc # "idle" => gen[r].left \in 1..Ahead
    /\ \A o \in OverrideIds : overrides[o] # None => overrides[o].from < overrides[o].to
    /\ query.pc \in {"idle", "override", "schedule", "rows", "overrides", "compute", "weeks",
                     "export", "answered"}
    /\ query.todo \subseteq DOMAIN query.seen
    /\ query.pc \in {"rows", "overrides"} => query.todo # {}
    /\ shifted \in [Rosters -> BOOLEAN]
    /\ events \in 0..MaxEvents

(***************************************************************************)
(* Every instant belongs to one week at most, whatever date weeks are      *)
(* generated from, and GetScheduleForTime needs no order, as long as the   *)
(* handoff day stays and weeks set by hand begin on it.                    *)
(***************************************************************************)
OneWeekPerDay ==
    \A r \in Rosters : ~shifted[r] =>
        \A x, y \in schedule[r] : x # y => x.start >= y.start + 7 \/ y.start >= x.start + 7

(***************************************************************************)
(* What was true.  A request may answer from any moment since it began; an *)
(* edit of one table leaves two of them.                                   *)
(***************************************************************************)
Moments == CASE query.edits = 0 -> {Now}
             [] query.edits = 1 -> {Now, query.before}
             [] OTHER -> {}

InForce(m, r, t) == {o \in {m.overrides[i] : i \in OverrideIds} :
                       o # None /\ o.roster = r /\ t \in o.from..(o.to - 1)}
WeeksAt(m, r, t) == {x \in m.schedule[r] : t \in (x.start * PerDay)..((x.start + 7) * PerDay - 1)}

(***************************************************************************)
(* Whom roster r may name at t if the week is one of weeks: an override in *)
(* force, whoever the week names, or nobody.                               *)
(***************************************************************************)
OnCallIn(m, r, t, weeks) ==
    IF InForce(m, r, t) # {}
      THEN UNION {{[source |-> "override", primary |-> o.user, secondary |-> u] :
                     o \in InForce(m, r, t)} : u \in OneOf({x.secondary : x \in weeks})}
      ELSE IF weeks # {}
             THEN {[source |-> "schedule", primary |-> x.primary, secondary |-> x.secondary] :
                     x \in weeks}
             ELSE {[source |-> "unassigned", primary |-> None, secondary |-> None]}

\* Whom it may name at t: weeks begin and end at midnight UTC.
OnCallAt(m, r, t) == OnCallIn(m, r, t, WeeksAt(m, r, t))

Answers(kind) == query.pc = "answered" /\ query.kind = kind

(***************************************************************************)
(* The three statements of GetOnCall read no common snapshot; still, if    *)
(* one statement at most changed a table meanwhile and none failed, there  *)
(* was a moment at which the roster had the person named on call: by an    *)
(* override in force at the instant asked for, or by the week of the date  *)
(* it has on the caller's clock. Of the instant itself (store.go:413) this *)
(* does not hold: next to midnight UTC it has two dates (424), and at the  *)
(* end of a week two people are named for it.                              *)
(***************************************************************************)
AnswerWasTrue ==
    Answers("oncall") /\ ~query.failed /\ query.edits < 2 =>
        \E m \in Moments :
            query.answer \in OnCallIn(m, query.roster, query.at.at,
                                      WeeksAt(m, query.roster, query.at.at + query.at.offset))

\* What coverage says of a roster is what the endpoint may say (the secondary next to an override is
\* left out).
Agrees(e, a) ==
    /\ a.primary = e.primary
    /\ e.source = "schedule" => a.secondary = e.secondary
    /\ e.source = "override" <=> a.source = "override"

(***************************************************************************)
(* Coverage reads other statements, compares instants where the on-call    *)
(* endpoint compares dates, and orders overlaps; it names nobody whom the  *)
(* endpoint, asked in UTC, would not have named then. It knows of the      *)
(* weeks that begin by the date the end of its window has on the caller's  *)
(* clock, and of all those that began before it: west of UTC the slots of  *)
(* a week that begins on the last day are unassigned (service.go:282),     *)
(* whoever is on call in them (docs/08-roster-v2.md:678).                  *)
(***************************************************************************)
CoverageAgrees ==
    Answers("coverage") /\ ~query.failed /\ query.edits < 2 =>
        \E m \in Moments : \A t \in DOMAIN query.answer.slots :
            \A r \in DOMAIN query.answer.slots[t] : \A e \in query.answer.slots[t][r] :
                \E a \in OnCallIn(m, r, t, {x \in WeeksAt(m, r, t) : x.start <= Date(query.at.to)}) :
                    Agrees(e, a)

\* x lies between from and to on the clock; from a time to the same time is a whole day.
OnClock(x, from, to) == from = to \/ (x - from) % PerDay < (to - from) % PerDay

OnDuty(s, t) ==
    \/ ~s.fts
    \/ s.hours # None /\ OnClock(Local(s, t), s.hours.start, s.hours.end)
    \/ s.hours = None /\ (Local(s, t) - s.time) % PerDay < PerDay \div 2

(***************************************************************************)
(* The gap summary is exact: a slot lies in a gap if and only if no roster *)
(* is on duty when it begins, hours past midnight included; gaps come in   *)
(* order, apart, and end where a roster takes over or the window ends. On  *)
(* duty is what isRosterActiveAt takes for it. An override does not count, *)
(* against docs/08-roster-v2.md:778 and 789 (see OverridesFillGaps); a     *)
(* follow-the-sun roster without hours has twelve of them, against 777 of  *)
(* that document and as docs/04-integrations-workflow.md:249 says.         *)
(***************************************************************************)
GapsAreExact ==
    Answers("coverage") =>
        LET gaps == query.answer.gaps
            slots == DOMAIN query.answer.slots
        IN /\ \A t \in slots : (\A r \in DOMAIN query.seen : ~OnDuty(query.seen[r], t)) <=>
                                 \E i \in DOMAIN gaps : gaps[i].from <= t /\ t < gaps[i].to
           /\ \A i \in DOMAIN gaps :
                /\ gaps[i].from \in slots /\ gaps[i].from < gaps[i].to
                /\ gaps[i].to \in slots \union {query.at.to.at}
                /\ \A j \in DOMAIN gaps : i < j => gaps[i].to < gaps[j].from

(***************************************************************************)
(* "If an override exists during what would be a gap, the gap is filled"   *)
(* (docs/08-roster-v2.md:778; "Overrides fill gaps when applicable", 789). *)
(* Whether a roster is on duty is decided by its hours before any override *)
(* is looked at (service.go:312): this does not hold.                      *)
(***************************************************************************)
OverridesFillGaps ==
    Answers("coverage") =>
        \A t \in DOMAIN query.answer.slots, i \in DOMAIN query.answer.gaps, r \in DOMAIN query.seen :
            query.answer.gaps[i].from <= t /\ t < query.answer.gaps[i].to =>
                ~ \E o \in query.found[r] : o.from <= t /\ t < o.to

\* When, in UTC, the twelve hours of a follow-the-sun roster begin.
Relieves(s) == (s.time - s.zone) % PerDay

(***************************************************************************)
(* Two follow-the-sun rosters, each of which "covers a 12-hour window      *)
(* starting from its handoff_time" (docs/04-integrations-workflow.md:249), *)
(* leave no gap if they take over from each other, whatever the offsets of *)
(* their zones are.                                                        *)
(***************************************************************************)
RelayHasNoGap ==
    /\ Answers("coverage")
    /\ \E r, s \in {r \in DOMAIN query.seen : query.seen[r].fts /\ query.seen[r].hours = None} :
         (Relieves(query.seen[r]) - Relieves(query.seen[s])) % PerDay = PerDay \div 2
    => query.answer.gaps = <<>>

(***************************************************************************)
(* The calendar shows whom the on-call endpoint names to those who ask in  *)
(* UTC, on every day that belongs to a week that begins in the four weeks  *)
(* before the export or in the weeks ahead, but for the hours between      *)
(* midnight, when the endpoint changes weeks, and the handoff time, when   *)
(* the calendar does.                                                      *)
(***************************************************************************)
CalendarAgrees ==
    Answers("calendar") /\ query.edits < 2 =>
        LET s == query.seen[query.roster]
            At(kind, t) == {e.who : e \in {e \in query.answer : e.kind = kind /\ e.from <= t /\ t < e.to}}
        IN \E m \in Moments : \A t \in {ts.at : ts \in Timestamps} :
             /\ At("override", t) = {o.user : o \in InForce(m, query.roster, t)}
             /\ Day(t) = Day(t - (s.time - s.zone)) /\ Day(t) \in (Today - 22) .. (Today + 7 * Ahead) =>
                  At("week", t) = {x.primary : x \in WeeksAt(m, query.roster, t)}
=============================================================================
