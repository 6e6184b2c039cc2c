--------------------------- MODULE RosterSchedule ---------------------------
(***************************************************************************)
(* The weekly on-call schedule of one roster, pkg/roster.  A generation    *)
(* (scheduler.go, GenerateSchedule) reads the active members, their duty   *)
(* counts, the schedule of its window and the weeks before it, statement   *)
(* by statement, and then writes week after week; it follows every change  *)
(* of the members, a request of an admin, and the top-up of the worker     *)
(* (worker.go).  Nothing keeps generations, manual edits and unlocking     *)
(* from interleaving, and the errors of two kinds of reads are dropped.    *)
(*                                                                         *)
(* Weeks are numbered; the dates, which all start on the handoff day of    *)
(* the roster, and the notes of a week are left out.  The roster is active *)
(* throughout and its settings are constants.                              *)
(***************************************************************************)
EXTENDS Integers, FiniteSets, Sequences

CONSTANTS
    Users,
    Founders,        \* the members a roster may have before its first generation, in order
    LastWeek,        \* a bound: weeks are 1..LastWeek
    Ahead,           \* schedule_weeks_ahead
    MaxConsecutive,  \* max_consecutive_weeks, which the store defaults to 2
    Windows,         \* a bound: the [from, n] an admin may ask for
    Edits,           \* a bound: the rows an admin may set by hand, [week, row]
    Requests,        \* slots for generations inside API requests
    Worker,          \* the slot of the top-up loop
    MaxEvents,       \* a bound: members changed, weeks set or unlocked, statements failed
    None             \* nobody, no week

Weeks == 1..LastWeek
Slots == Requests \union {Worker}
Anyone == Users \union {None}

\* The CHECK of roster_schedule: IS DISTINCT FROM also rules out two NULLs.
Rows == {row \in [primary : Anyone, secondary : Anyone, locked : BOOLEAN] :
            row.primary # row.secondary}

ASSUME ConstantsAssumption ==
    /\ LastWeek \in Nat /\ Ahead \in 1..LastWeek /\ MaxConsecutive \in Nat \ {0}
    /\ Windows \subseteq [from : Nat \ {0}, n : Nat \ {0}]
    /\ Worker \notin Requests /\ None \notin Slots /\ None \notin Users /\ None \notin Rows
    /\ \A f \in Founders : /\ f \in Seq(Users)
                           /\ \A i, j \in DOMAIN f : f[i] = f[j] => i = j   \* UNIQUE(roster_id, user_id)
    /\ Edits \subseteq [week : Weeks, row : {row \in Rows : row.locked}]
    /\ MaxEvents \in Nat

VARIABLES
    now,        \* the week that contains today
    joined,     \* roster_members ordered by joined_at
    active,     \* the members with is_active
    schedule,   \* schedule[w], the row of week w or None
    gen,        \* gen[g], the local variables of GenerateSchedule in slot g, and, as history,
                \* which of its reads were lost
    \* history
    held,       \* held[w], the row of w as it was locked by hand with no generation about to
                \* write w, until it is unlocked; None otherwise
    clean,      \* clean[g], nobody but g changed members or schedule since it started
    settled,    \* the first week of a plan that has been undisturbed since; None if there is none
    events      \* members changed, weeks set or unlocked, statements failed so far

tables == <<joined, active, schedule>>
history == <<held, clean, settled>>
vars == <<now, tables, gen, history, events>>

Listed(members) == {members[i] : i \in DOMAIN members}

NoCounts == [u \in Users |-> 0]
Idle == [pc |-> "idle", from |-> 1, n |-> 0, week |-> 1, members |-> <<>>, at |-> 1,
         primaries |-> NoCounts, secondaries |-> NoCounts, locked |-> [w \in Weeks |-> None],
         last |-> None, consecutive |-> 0, lost |-> {}]

Init ==
    /\ now = 1
    /\ joined \in Founders
    /\ active = Listed(joined)
    /\ schedule = [w \in Weeks |-> None]
    /\ gen = [g \in Slots |-> Idle]
    /\ held = [w \in Weeks |-> None]
    /\ clean = [g \in Slots |-> TRUE]
    /\ settled = None
    /\ events = 0

Event == events < MaxEvents /\ events' = events + 1

PrimaryOf(w) == IF w \in Weeks /\ schedule[w] # None THEN schedule[w].primary ELSE None

\* How many weeks in S the user u has been primary or secondary.
PrimaryWeeks(u, S) == Cardinality({w \in S : schedule[w] # None /\ schedule[w].primary = u})
SecondaryWeeks(u, S) == Cardinality({w \in S : schedule[w] # None /\ schedule[w].secondary = u})

Running(g) == gen[g].pc # "idle"
Window(g) == gen[g].from..(gen[g].from + gen[g].n - 1)

\* Generation g has read the schedule, without a lock on w, and has not come to w yet.
WillWrite(g, w) == /\ gen[g].pc \in {"look back", "assign"}
                   /\ w \in Window(g) /\ w >= gen[g].week
                   /\ gen[g].locked[w] = None

\* Everyone else's generation is no longer alone.
Disturbed(g) == [h \in Slots |-> ~Running(h) \/ (h = g /\ clean[g])]

-----------------------------------------------------------------------------
(* Generations.                                                            *)

(***************************************************************************)
(* A generation starts.  A plan is undisturbed if the generation starts    *)
(* inside it or right behind it.                                           *)
(***************************************************************************)
Started(g, from, n) ==
    /\ ~Running(g)
    /\ from + n - 1 <= LastWeek
    /\ gen' = [gen EXCEPT ![g] = [Idle EXCEPT !.pc = "members", !.from = from, !.n = n,
                                              !.week = from]]

InsidePlan(from) ==
    /\ settled # None
    /\ settled <= from
    /\ \A w \in settled..(from - 1) : schedule[w] # None

Generate(g, from, n) ==
    /\ Started(g, from, n)
    /\ settled' = IF InsidePlan(from) THEN settled ELSE None
    /\ UNCHANGED <<now, tables, held, clean, events>>

\* handleGenerateSchedule: any first week and any number of weeks.
GenerateOnRequest(g) == g \in Requests /\ \E window \in Windows : Generate(g, window.from, window.n)

\* topUpTenant, at start and every six hours.
TopUp == Generate(Worker, now, Ahead)

Ended(g) == gen' = [gen EXCEPT ![g] = Idle]

\* Faulty variant: the weeks that are about to be overwritten count as served.
BeforeAndInside(from) == Weeks

\* The weeks before the window, which CountPrimaryWeeksBefore and its like count.
Before(from) == {w \in Weeks : w < from}

\* Faulty variant: members who left are listed too.
EveryMember(order, who) == order

\* ListActiveMembers, row by row in the order of joined_at.
ActiveMembers(order, who) ==
    LET upTo[n \in 0..Len(order)] ==
            IF n = 0 THEN <<>>
            ELSE IF order[n] \in who THEN Append(upTo[n - 1], order[n]) ELSE upTo[n - 1]
    IN upTo[Len(order)]

\* ListActiveMembers; without a member there is nothing to generate.
ReadMembers(g) ==
    /\ gen[g].pc = "members"
    /\ LET members == ActiveMembers(joined, active)
       IN IF members = <<>>
            THEN Ended(g) /\ clean' = [clean EXCEPT ![g] = TRUE]
            ELSE /\ gen' = [gen EXCEPT ![g] = [@ EXCEPT !.pc = "primary", !.members = members]]
                 /\ UNCHANGED clean
    /\ UNCHANGED <<now, tables, held, settled, events>>

(***************************************************************************)
(* A count or a look back fails, its error is dropped, and the generation  *)
(* goes on as s.  What it assigns is not what a plan says any more.        *)
(***************************************************************************)
Loses(g, read, s) ==
    /\ Event
    /\ gen' = [gen EXCEPT ![g] = [s EXCEPT !.lost = @ \union {read}]]
    /\ settled' = None

GoesOn(g, s) == gen' = [gen EXCEPT ![g] = s] /\ UNCHANGED <<settled, events>>

\* CountPrimaryWeeksBefore of the next member; a failed count is 0.
CountPrimary(g) ==
    /\ gen[g].pc = "primary"
    /\ LET u == gen[g].members[gen[g].at]
           next == [gen[g] EXCEPT !.pc = "secondary"]
       IN \/ GoesOn(g, [next EXCEPT !.primaries[u] = PrimaryWeeks(u, Before(gen[g].from))])
          \/ Loses(g, "counts", next)
    /\ UNCHANGED <<now, tables, held, clean>>

\* CountSecondaryWeeksBefore of the same member.
CountSecondary(g) ==
    /\ gen[g].pc = "secondary"
    /\ LET u == gen[g].members[gen[g].at]
           next == [gen[g] EXCEPT !.at = @ + 1,
                      !.pc = IF gen[g].at < Len(gen[g].members) THEN "primary" ELSE "schedule"]
       IN \/ GoesOn(g, [next EXCEPT !.secondaries[u] = SecondaryWeeks(u, Before(gen[g].from))])
          \/ Loses(g, "counts", next)
    /\ UNCHANGED <<now, tables, held, clean>>

\* Faulty variant: the first week of the window is not read.
LockedRowAfter(g, w) ==
    IF w \in Window(g) /\ w > gen[g].from /\ schedule[w] # None /\ schedule[w].locked
      THEN schedule[w] ELSE None

LockedRow(g, w) ==
    IF w \in Window(g) /\ schedule[w] # None /\ schedule[w].locked THEN schedule[w] ELSE None

\* ListSchedule, of which only the locked weeks are used.
ReadSchedule(g) ==
    /\ gen[g].pc = "schedule"
    /\ gen' = [gen EXCEPT ![g] = [@ EXCEPT !.pc = "look back",
                                           !.locked = [w \in Weeks |-> LockedRow(g, w)]]]
    /\ UNCHANGED <<now, tables, history, events>>

(***************************************************************************)
(* GetScheduleWeek of the week before those looked at so far, until the    *)
(* primary is another or the run has come to the limit.  A failed read     *)
(* counts as a week without a row.                                         *)
(***************************************************************************)
LookBack(g) ==
    /\ gen[g].pc = "look back"
    /\ LET run == gen[g].consecutive + 1
           p == PrimaryOf(gen[g].from - run)
           over == [gen[g] EXCEPT !.pc = "assign"]
       IN \/ GoesOn(g, IF p = None \/ (run > 1 /\ p # gen[g].last) THEN over
                       ELSE [gen[g] EXCEPT !.last = p, !.consecutive = run,
                                           !.pc = IF run < MaxConsecutive THEN "look back" ELSE "assign"])
          \/ Loses(g, "look back", over)
    /\ UNCHANGED <<now, tables, held, clean>>

\* The primary of the week just passed is p, who may be nobody.
Follow(s, p) ==
    IF p = None THEN s
    ELSE [s EXCEPT !.last = p, !.consecutive = IF s.last = p THEN s.consecutive + 1 ELSE 1]

\* On to the next week, or the loop is over and what it tracked is gone.
NextWeekOf(s) ==
    IF s.week < s.from + s.n - 1 THEN [s EXCEPT !.week = @ + 1]
    ELSE [Idle EXCEPT !.pc = "done", !.from = s.from, !.n = s.n, !.members = s.members, !.lost = s.lost]

\* A week that was locked in what was read is left alone.
SkipLocked(g) ==
    /\ gen[g].pc = "assign"
    /\ LET row == gen[g].locked[gen[g].week]
       IN /\ row # None
          /\ gen' = [gen EXCEPT ![g] = NextWeekOf(Follow(@, row.primary))]
    /\ UNCHANGED <<now, tables, history, events>>

\* The first in the list of the members in S that have served least.
LeastServed(members, S, served) ==
    LET least == {i \in DOMAIN members :
                    /\ members[i] \in S
                    /\ \A u \in S : served[members[i]] <= served[u]}
    IN members[CHOOSE i \in least : \A j \in least : i <= j]

\* Faulty variant: the limit is noticed a week late.
PickPrimaryLate(s) ==
    LET blocked == IF s.consecutive > MaxConsecutive THEN {s.last} ELSE {}
        free == Listed(s.members) \ blocked
    IN LeastServed(s.members, IF free = {} THEN Listed(s.members) ELSE free, s.primaries)

\* Faulty variant: the duty served does not matter.
PickPrimaryFirst(s) ==
    LET blocked == IF s.consecutive >= MaxConsecutive THEN {s.last} ELSE {}
        free == Listed(s.members) \ blocked
    IN LeastServed(s.members, IF free = {} THEN Listed(s.members) ELSE free, NoCounts)

\* pickPrimary: the limit on consecutive weeks is dropped if it blocks everyone.
PickPrimary(s) ==
    LET blocked == IF s.consecutive >= MaxConsecutive THEN {s.last} ELSE {}
        free == Listed(s.members) \ blocked
    IN LeastServed(s.members, IF free = {} THEN Listed(s.members) ELSE free, s.primaries)

\* Faulty variant: the primary is not left out.
PickSecondaryOfAll(s, primary) ==
    LeastServed(s.members, Listed(s.members), [u \in Users |-> s.primaries[u] + s.secondaries[u]])

\* pickSecondary
PickSecondary(s, primary) ==
    LeastServed(s.members, Listed(s.members) \ {primary},
                [u \in Users |-> s.primaries[u] + s.secondaries[u]])

OneMore(served, u) == IF u = None THEN served ELSE [served EXCEPT ![u] = @ + 1]

\* The week counts as served by both.
Counted(s, p, second) ==
    [s EXCEPT !.primaries = OneMore(@, p), !.secondaries = OneMore(@, second)]

(***************************************************************************)
(* A week is assigned and upserted: generated, with no lock, whatever the  *)
(* table holds by now.                                                     *)
(***************************************************************************)
AssignWeek(g) ==
    /\ gen[g].pc = "assign"
    /\ gen[g].locked[gen[g].week] = None
    /\ \E p \in {PickPrimary(gen[g])} :
       \E second \in {IF Len(gen[g].members) > 1 THEN PickSecondary(gen[g], p) ELSE None} :
         /\ schedule' = [schedule EXCEPT ![gen[g].week] =
                           [primary |-> p, secondary |-> second, locked |-> FALSE]]
         /\ gen' = [gen EXCEPT ![g] = NextWeekOf(Counted(Follow(@, p), p, second))]
    /\ clean' = Disturbed(g)
    /\ UNCHANGED <<now, joined, active, held, settled, events>>

(***************************************************************************)
(* GenerateSchedule returns.  If it was alone and lost no read, and no     *)
(* week from the first one on is locked or beyond its window, it has laid  *)
(* down a plan.                                                            *)
(***************************************************************************)
Respond(g) ==
    /\ gen[g].pc = "done"
    /\ Ended(g)
    /\ clean' = [clean EXCEPT ![g] = TRUE]
    /\ settled' = IF /\ clean[g] /\ gen[g].lost = {}
                     /\ \A h \in Slots \ {g} : ~Running(h)
                     /\ \A w \in Weeks : w >= gen[g].from /\ schedule[w] # None =>
                                           w \in Window(g) /\ ~schedule[w].locked
                    THEN gen[g].from ELSE settled
    /\ UNCHANGED <<now, tables, held, events>>

(***************************************************************************)
(* A statement fails whose error is returned, GetRoster, ListActiveMembers,*)
(* ListSchedule or an upsert: the weeks written so far stay.               *)
(***************************************************************************)
GenerateFails(g) ==
    /\ \/ gen[g].pc \in {"members", "schedule"}
       \/ gen[g].pc = "assign" /\ gen[g].locked[gen[g].week] = None
    /\ Event
    /\ Ended(g)
    /\ clean' = [clean EXCEPT ![g] = TRUE]
    /\ UNCHANGED <<now, tables, held, settled>>

Work(g) ==
    \/ ReadMembers(g) \/ CountPrimary(g) \/ CountSecondary(g) \/ ReadSchedule(g) \/ LookBack(g)
    \/ SkipLocked(g) \/ AssignWeek(g) \/ Respond(g) \/ GenerateFails(g)

-----------------------------------------------------------------------------
(* Members and manual edits.                                               *)

\* The members change, and the same request generates the schedule again.
ChangeMembers(g) ==
    /\ g \in Requests
    /\ Started(g, now, Ahead)
    /\ clean' = Disturbed(g)
    /\ settled' = None
    /\ Event
    /\ UNCHANGED <<now, schedule, held>>

\* AddMember, and SetMemberActive of somebody who is a member already.
AddMember(g, u) ==
    /\ ChangeMembers(g)
    /\ active' = active \union {u}
    /\ joined' = IF \E i \in DOMAIN joined : joined[i] = u THEN joined ELSE Append(joined, u)

\* DeactivateMember, and SetMemberActive
DeactivateMember(g, u) ==
    /\ ChangeMembers(g)
    /\ active' = active \ {u}
    /\ UNCHANGED joined

Edited(w, row) ==
    /\ schedule' = [schedule EXCEPT ![w] = row]
    /\ clean' = Disturbed(None)
    /\ settled' = None
    /\ Event
    /\ UNCHANGED <<now, joined, active, gen>>

\* UpdateScheduleWeek: a week that is set by hand is locked.
UpdateScheduleWeek(w, row) ==
    /\ Edited(w, row)
    /\ held' = [held EXCEPT ![w] = IF \E g \in Slots : WillWrite(g, w) THEN None ELSE row]

\* UnlockScheduleWeek
UnlockScheduleWeek(w) ==
    /\ schedule[w] # None
    /\ Edited(w, [schedule[w] EXCEPT !.locked = FALSE])
    /\ held' = [held EXCEPT ![w] = None]

\* The week is over.
WeekPasses ==
    /\ now + Ahead <= LastWeek
    /\ now' = now + 1
    /\ UNCHANGED <<tables, gen, history, events>>

Next ==
    \/ TopUp
    \/ \E g \in Slots : GenerateOnRequest(g) \/ Work(g)
    \/ \E g \in Requests, u \in Users : AddMember(g, u) \/ DeactivateMember(g, u)
    \/ \E w \in Weeks : UnlockScheduleWeek(w)
    \/ \E edit \in Edits : UpdateScheduleWeek(edit.week, edit.row)
    \/ WeekPasses

(***************************************************************************)
(* RunScheduleTopUpLoop never ends, and the statements of its generations  *)
(* return, if only with an error.  A request may hang.                     *)
(***************************************************************************)
Fairness == WF_vars(TopUp \/ Work(Worker))
Spec == Init /\ [][Next]_vars /\ Fairness

-----------------------------------------------------------------------------
(* Properties.                                                             *)

(***************************************************************************)
(* The tables obey the constraints of migration 000016, and a generation   *)
(* keeps to its window.                                                    *)
(***************************************************************************)
TypeOK ==
    /\ now \in Weeks
    /\ active \subseteq Listed(joined) /\ Listed(joined) \subseteq Users
    /\ Cardinality(Listed(joined)) = Len(joined)
    /\ schedule \in [Weeks -> Rows \union {None}]
    /\ held \in [Weeks -> Rows \union {None}]
    /\ clean \in [Slots -> BOOLEAN]
    /\ settled \in Weeks \union {None}
    /\ \A g \in Slots :
         /\ gen[g].pc \in {"idle", "members", "primary", "secondary", "schedule", "look back",
                           "assign", "done"}
         /\ gen[g].pc \in {"primary", "secondary"} => gen[g].at \in DOMAIN gen[g].members
         /\ gen[g].pc = "assign" => gen[g].week \in Window(g)
         /\ gen[g].pc = "done" => \A w \in Window(g) : schedule[w] # None
         /\ gen[g].last \in Anyone
         /\ gen[g].locked \in [Weeks -> Rows \union {None}]

(***************************************************************************)
(* is_locked "prevents auto-regeneration from overwriting manual edits"    *)
(* (docs/08-roster-v2.md:129).  The upsert of GenerateSchedule does not    *)
(* look at the lock, so this holds of the locks that were set before the   *)
(* generations at work read the schedule.                                  *)
(***************************************************************************)
LocksHold == \A w \in Weeks : held[w] # None => schedule[w] = held[w]

LockedIn(S) == {w \in S : schedule[w] # None /\ schedule[w].locked}

\* The members g knew are no further apart than it found them but for one week and those locked in its
\* window, which GenerateSchedule does not count.
TurnsAreEven(g) ==
    LET before == {w \in Weeks : w < gen[g].from}
        after == before \union Window(g)
        Apart(S, d) == \A u, v \in Listed(gen[g].members) : PrimaryWeeks(u, S) <= PrimaryWeeks(v, S) + d
        slack == 1 + Cardinality(LockedIn(Window(g)))
    IN \A d \in 0..LastWeek : Apart(before, d) => Apart(after, d + slack)

(***************************************************************************)
(* "Fair distribution: primary duty spread evenly across all active        *)
(* members" (docs/08-roster-v2.md:182): a generation that was alone may    *)
(* leave the members it knew further apart than it found them by one week, *)
(* for the first of them or the limit on consecutive weeks, and by the     *)
(* weeks locked in its window.  This takes counts that were all read: one  *)
(* that fails is taken for 0, and the member who has served most is the    *)
(* next (scheduler.go:37).  The look back does not matter.                 *)
(***************************************************************************)
EvenTurns ==
    \A g \in Slots : gen[g].pc = "done" /\ clean[g] /\ "counts" \notin gen[g].lost => TurnsAreEven(g)

\* Generation g made no run longer than the limit, counting the weeks before its window and the
\* locked ones it passed.
LimitIsKept(g) ==
    \A w \in Window(g) \ LockedIn(Weeks) :
        w > MaxConsecutive => \E i \in 1..MaxConsecutive : PrimaryOf(w - i) # PrimaryOf(w)

(***************************************************************************)
(* "Filter out anyone who has been primary for max_consecutive weeks in a  *)
(* row" (docs/08-roster-v2.md:173): a generation that was alone, among     *)
(* several members, assigns nobody to more weeks in a row, whatever it     *)
(* counted, if it could look back.  A look back that fails is taken for a  *)
(* week without a primary, and the run starts afresh (scheduler.go:60, 67).*)
(***************************************************************************)
NoLongRun ==
    \A g \in Slots : gen[g].pc = "done" /\ clean[g] /\ Len(gen[g].members) > 1
                       /\ "look back" \notin gen[g].lost => LimitIsKept(g)

(***************************************************************************)
(* Generating again is no reason to change who is on call: until the       *)
(* members change, a week is edited, weeks are left out or the error of a  *)
(* read is dropped, the weeks of an undisturbed plan stay as announced,    *)
(* however the top-ups and requests interleave and fail.  Without a count  *)
(* or the look back the next weeks that are written may be others.         *)
(***************************************************************************)
AnnouncedWeeksStay ==
    [][settled # None /\ settled' # None =>
         \A w \in Weeks : w >= settled /\ schedule[w] # None => schedule'[w] = schedule[w]]_vars

(***************************************************************************)
(* Once the members stop changing, the weeks ahead that are not locked     *)
(* have only active members on duty, whatever an older generation wrote    *)
(* over them last.                                                         *)
(***************************************************************************)
DutyFollowsMembers ==
    <>[](active # {} => \A w \in now..(now + Ahead - 1) :
           /\ schedule[w] # None
           /\ schedule[w].locked \/ /\ schedule[w].primary \in active
                                    /\ schedule[w].secondary \in active \union {None})
=============================================================================
