------------------------ MODULE RosterSchedule_proofs ------------------------
(***************************************************************************)
(* Proofs about RosterSchedule, for every number of members, weeks and     *)
(* generations at work.                                                    *)
(***************************************************************************)
EXTENDS RosterSchedule, FiniteSetTheorems, SequenceTheorems, WellFoundedInduction, TLAPS

(***************************************************************************)
(* What the locks rest on: a generation that has read the schedule is at a *)
(* week of its window, so it writes no week but those of WillWrite.        *)
(***************************************************************************)
Reading == {"members", "primary", "secondary", "schedule", "look back"}

GenerationInv ==
    /\ now \in Nat \ {0}
    /\ gen = [g \in Slots |-> gen[g]] /\ schedule = [w \in Weeks |-> schedule[w]]
    /\ held = [w \in Weeks |-> held[w]]
    /\ \A g \in Slots :
         /\ DOMAIN gen[g] = DOMAIN Idle
         /\ {gen[g].from, gen[g].n, gen[g].week} \subseteq Nat
         /\ gen[g].pc \in Reading => gen[g].week = gen[g].from /\ gen[g].n # 0
         /\ gen[g].pc = "assign" => gen[g].week \in Window(g)

\* A week that is held is locked, and no generation is going to write it.
LockInv ==
    \A w \in Weeks : held[w] # None =>
      /\ schedule[w] = held[w] /\ held[w].locked
      /\ \A g \in Slots : ~WillWrite(g, w)

\* The fields that decide what a generation will write.
Same(s, r) == s.from = r.from /\ s.n = r.n /\ s.week = r.week /\ s.locked = r.locked

WellFormed(s) == DOMAIN s = DOMAIN Idle /\ {s.from, s.n, s.week} \subseteq Nat

LEMMA FollowKeeps ==
    ASSUME NEW s, WellFormed(s), NEW p
    PROVE  WellFormed(Follow(s, p)) /\ Same(Follow(s, p), s) /\ Follow(s, p).pc = s.pc
BY DEF Follow, WellFormed, Same, Idle

LEMMA CountedKeeps ==
    ASSUME NEW s, WellFormed(s), NEW r, Same(s, r), NEW p, NEW second
    PROVE  LET c == Counted(s, p, second)
           IN WellFormed(c) /\ Same(c, r) /\ c.pc = s.pc
BY DEF Counted, WellFormed, Same, Idle

\* A generation that goes on is at the next week of its window, or done.
LEMMA NextWeekGoesOn ==
    ASSUME NEW s, WellFormed(s), s.week \in s.from .. (s.from + s.n - 1)
    PROVE  LET r == NextWeekOf(s)
           IN /\ WellFormed(r)
              /\ \/ /\ r.pc = s.pc /\ r.from = s.from /\ r.n = s.n /\ r.locked = s.locked
                    /\ r.week = s.week + 1 /\ r.week \in r.from .. (r.from + r.n - 1)
                 \/ r.pc = "done"
<1>1. CASE s.week < s.from + s.n - 1
  BY <1>1 DEF NextWeekOf, WellFormed, Idle
<1>2. CASE ~(s.week < s.from + s.n - 1)
  BY <1>2 DEF NextWeekOf, WellFormed, Idle
<1> QED
  BY <1>1, <1>2

Others(g) == \A h \in Slots \ {g} : gen'[h] = gen[h]

\* Generation g becomes s, with weeks left to write that it had before.
LEMMA GenerationBecomes ==
    ASSUME GenerationInv, NEW g \in Slots, NEW s, gen' = [gen EXCEPT ![g] = s], WellFormed(s),
           now' \in Nat \ {0},
           schedule' = [w \in Weeks |-> schedule'[w]], held' = [w \in Weeks |-> held'[w]],
           s.pc \in Reading => s.week = s.from /\ s.n # 0,
           s.pc = "assign" => s.week \in s.from .. (s.from + s.n - 1)
    PROVE  GenerationInv' /\ gen'[g] = s /\ Others(g)
<1>1. gen'[g] = s /\ Others(g) /\ gen' = [h \in Slots |-> gen'[h]]
  BY DEF GenerationInv, Others
<1>2. ASSUME NEW h \in Slots
      PROVE  /\ DOMAIN gen'[h] = DOMAIN Idle
             /\ {gen'[h].from, gen'[h].n, gen'[h].week} \subseteq Nat
             /\ gen'[h].pc \in Reading => gen'[h].week = gen'[h].from /\ gen'[h].n # 0
             /\ gen'[h].pc = "assign" => gen'[h].week \in Window(h)'
  <2>1. CASE h = g
    BY <1>1, <2>1 DEF WellFormed, Window
  <2>2. CASE h # g
    BY <1>1, <2>2 DEF GenerationInv, Others, Window
  <2> QED
    BY <2>1, <2>2
<1> QED
  BY <1>1, <1>2 DEF GenerationInv

\* A step of generation g that leaves the locks alone.
LEMMA LocksUntouched ==
    ASSUME LockInv, NEW g \in Slots, Others(g), UNCHANGED <<schedule, held>>,
           \A w \in Weeks : held[w] # None => ~WillWrite(g, w)'
    PROVE  LockInv'
<1>1. \A h \in Slots \ {g}, w \in Weeks : WillWrite(h, w)' <=> WillWrite(h, w)
  BY DEF Others, WillWrite, Window
<1> QED
  BY <1>1 DEF LockInv

LEMMA IdleIsWellFormed == WellFormed(Idle) /\ Idle.pc = "idle"
BY DEF Idle, WellFormed

LEMMA LocksInit == Init => GenerationInv /\ LockInv
<1> SUFFICES ASSUME Init PROVE GenerationInv /\ LockInv
  OBVIOUS
<1>1. GenerationInv
  <2>1. \A g \in Slots : gen[g] = Idle
    BY DEF Init
  <2>2. "idle" \notin Reading
    BY DEF Reading
  <2>3. /\ DOMAIN Idle = DOMAIN Idle /\ {Idle.from, Idle.n, Idle.week} \subseteq Nat
        /\ Idle.pc \notin Reading /\ Idle.pc # "assign"
    BY <2>2, IdleIsWellFormed DEF WellFormed
  <2> QED
    BY <2>1, <2>3 DEF Init, GenerationInv
<1>2. LockInv
  BY DEF Init, LockInv
<1> QED
  BY <1>1, <1>2

LEMMA LocksStart ==
    ASSUME GenerationInv, LockInv, NEW g \in Slots, NEW from \in Nat \ {0}, NEW n \in Nat \ {0},
           Started(g, from, n), UNCHANGED <<now, schedule, held>>
    PROVE  GenerationInv' /\ LockInv'
<1> DEFINE s == [Idle EXCEPT !.pc = "members", !.from = from, !.n = n, !.week = from]
<1>1. WellFormed(s) /\ s.pc = "members" /\ s.week = s.from /\ s.n # 0
  BY DEF WellFormed, Idle
<1>2. gen' = [gen EXCEPT ![g] = s]
  BY DEF Started
<1> HIDE DEF s
<1>3. GenerationInv' /\ gen'[g] = s /\ Others(g)
  BY <1>1, <1>2, GenerationBecomes DEF GenerationInv
<1> QED
  BY <1>1, <1>3, LocksUntouched DEF WillWrite

LEMMA LocksEnd ==
    ASSUME GenerationInv, LockInv, NEW g \in Slots, Ended(g), UNCHANGED <<now, schedule, held>>
    PROVE  GenerationInv' /\ LockInv'
<1>1. GenerationInv' /\ gen'[g] = Idle /\ Others(g)
  BY IdleIsWellFormed, GenerationBecomes DEF Ended, GenerationInv, Reading
<1> QED
  BY <1>1, IdleIsWellFormed, LocksUntouched DEF WillWrite

LEMMA FirstOfWindow == ASSUME NEW from \in Nat, NEW n \in Nat, n # 0 PROVE from \in from .. (from + n - 1)
OBVIOUS

\* A generation goes on reading, and will write no week that it would not have written before.
LEMMA LocksReads ==
    ASSUME GenerationInv, LockInv, NEW g \in Slots, gen[g].pc \in Reading, UNCHANGED <<now, schedule, held>>,
           NEW s, gen' = [gen EXCEPT ![g] = s], WellFormed(s), Same(s, gen[g]), s.pc \in Reading \union {"assign"},
           s.pc \in {"look back", "assign"} => gen[g].pc = "look back"
    PROVE  GenerationInv' /\ LockInv'
<1>1. gen[g].week = gen[g].from /\ gen[g].n # 0
  BY DEF GenerationInv
<1>2. s.week = s.from /\ s.n # 0 /\ s.week \in s.from .. (s.from + s.n - 1)
  <2>1. PICK from \in Nat, n \in Nat : from = s.from /\ n = s.n
    BY DEF WellFormed
  <2>2. s.week = from /\ n # 0
    BY <1>1, <2>1 DEF Same
  <2>3. from \in from .. (from + n - 1)
    BY <2>2, FirstOfWindow
  <2> QED
    BY <2>1, <2>2, <2>3
<1>3. GenerationInv' /\ gen'[g] = s /\ Others(g)
  BY <1>2, GenerationBecomes DEF GenerationInv
<1>4. \A w \in Weeks : WillWrite(g, w)' => WillWrite(g, w)
  BY <1>3 DEF WillWrite, Window, Same
<1> QED
  BY <1>3, <1>4, LocksUntouched DEF LockInv

(***************************************************************************)
(* The statements whose errors are dropped: g becomes s, and the plan is   *)
(* off if the read is lost.                                                *)
(***************************************************************************)
Reads(g, s, read) ==
    /\ gen' = [gen EXCEPT ![g] = s] /\ UNCHANGED <<now, tables, held, clean>>
    /\ WellFormed(s) /\ Same(s, gen[g]) /\ s.members = gen[g].members
    /\ \/ s.lost = gen[g].lost /\ UNCHANGED settled
       \/ s.lost = gen[g].lost \union {read} /\ settled' = None

PrimaryRead(g, s, u) ==
    /\ gen[g].pc = "primary" /\ Reads(g, s, "counts") /\ u = gen[g].members[gen[g].at]
    /\ s.pc = "secondary" /\ s.at = gen[g].at /\ s.secondaries = gen[g].secondaries
    /\ s.last = gen[g].last /\ s.consecutive = gen[g].consecutive
    /\ \/ s.primaries = [gen[g].primaries EXCEPT ![u] = PrimaryWeeks(u, Before(gen[g].from))]
       \/ s.primaries = gen[g].primaries /\ "counts" \in s.lost /\ settled' = None

SecondaryRead(g, s, u) ==
    /\ gen[g].pc = "secondary" /\ Reads(g, s, "counts") /\ u = gen[g].members[gen[g].at]
    /\ s.pc = IF gen[g].at < Len(gen[g].members) THEN "primary" ELSE "schedule"
    /\ s.at = gen[g].at + 1 /\ s.primaries = gen[g].primaries
    /\ s.last = gen[g].last /\ s.consecutive = gen[g].consecutive
    /\ \/ s.secondaries = [gen[g].secondaries EXCEPT ![u] = SecondaryWeeks(u, Before(gen[g].from))]
       \/ s.secondaries = gen[g].secondaries /\ "counts" \in s.lost /\ settled' = None

\* The week before the run is another's or nobody's, or it is one more of the run, or the read is lost.
WeekRead(g, s, p) ==
    /\ gen[g].pc = "look back" /\ Reads(g, s, "look back")
    /\ p = PrimaryOf(gen[g].from - (gen[g].consecutive + 1))
    /\ s.at = gen[g].at /\ s.primaries = gen[g].primaries /\ s.secondaries = gen[g].secondaries
    /\ \/ /\ p = None \/ (gen[g].consecutive + 1 > 1 /\ p # gen[g].last)
          /\ s.pc = "assign" /\ s.last = gen[g].last /\ s.consecutive = gen[g].consecutive
       \/ /\ ~(p = None \/ (gen[g].consecutive + 1 > 1 /\ p # gen[g].last))
          /\ s.pc = IF gen[g].consecutive + 1 < MaxConsecutive THEN "look back" ELSE "assign"
          /\ s.last = p /\ s.consecutive = gen[g].consecutive + 1
       \/ /\ s.pc = "assign" /\ s.last = gen[g].last /\ s.consecutive = gen[g].consecutive
          /\ "look back" \in s.lost /\ settled' = None

LEMMA CountPrimaryIs ==
    ASSUME GenerationInv, NEW g \in Slots, CountPrimary(g)
    PROVE  \E s, u : PrimaryRead(g, s, u)
<1>1. PICK r : r = gen[g] /\ WellFormed(r)
  BY DEF GenerationInv, WellFormed
<1>2. PICK u : u = r.members[r.at]
  OBVIOUS
<1>3. PICK next : next = [r EXCEPT !.pc = "secondary"]
  OBVIOUS
<1>4. PICK counts : counts = [r.primaries EXCEPT ![u] = PrimaryWeeks(u, Before(r.from))]
  OBVIOUS
<1>5. r.pc = "primary" /\ UNCHANGED <<now, tables, held, clean>>
  BY <1>1 DEF CountPrimary
<1>6. CASE GoesOn(g, [next EXCEPT !.primaries[u] = PrimaryWeeks(u, Before(r.from))])
  <2>1. PICK s : s = [r EXCEPT !.pc = "secondary", !.primaries = counts]
    OBVIOUS
  <2>2. [next EXCEPT !.primaries[u] = PrimaryWeeks(u, Before(r.from))] = s
    BY <1>1, <1>3, <1>4, <2>1 DEF WellFormed, Idle
  <2>3. gen' = [gen EXCEPT ![g] = s] /\ UNCHANGED settled
    BY <1>6, <2>2 DEF GoesOn
  <2>4. /\ WellFormed(s) /\ Same(s, r) /\ s.members = r.members /\ s.lost = r.lost
        /\ s.pc = "secondary" /\ s.at = r.at /\ s.secondaries = r.secondaries
        /\ s.last = r.last /\ s.consecutive = r.consecutive /\ s.primaries = counts
    BY <1>1, <2>1 DEF WellFormed, Same, Idle
  <2>5. Reads(g, s, "counts")
    BY <1>1, <1>5, <2>3, <2>4 DEF Reads
  <2>6. PrimaryRead(g, s, u)
    BY <1>1, <1>2, <1>4, <1>5, <2>4, <2>5 DEF PrimaryRead
  <2> QED
    BY <2>6
<1>7. CASE Loses(g, "counts", next)
  <2>1. PICK s : s = [r EXCEPT !.pc = "secondary", !.lost = @ \union {"counts"}]
    OBVIOUS
  <2>2. [next EXCEPT !.lost = @ \union {"counts"}] = s
    BY <1>1, <1>3, <2>1 DEF WellFormed, Idle
  <2>3. gen' = [gen EXCEPT ![g] = s] /\ settled' = None
    BY <1>7, <2>2 DEF Loses
  <2>4. /\ WellFormed(s) /\ Same(s, r) /\ s.members = r.members /\ s.lost = r.lost \union {"counts"}
        /\ s.pc = "secondary" /\ s.at = r.at /\ s.secondaries = r.secondaries
        /\ s.last = r.last /\ s.consecutive = r.consecutive /\ s.primaries = r.primaries
    BY <1>1, <2>1 DEF WellFormed, Same, Idle
  <2>5. Reads(g, s, "counts")
    BY <1>1, <1>5, <2>3, <2>4 DEF Reads
  <2>6. PrimaryRead(g, s, u)
    BY <1>1, <1>2, <1>5, <2>3, <2>4, <2>5 DEF PrimaryRead
  <2> QED
    BY <2>6
<1> QED
  BY <1>1, <1>2, <1>3, <1>6, <1>7 DEF CountPrimary

LEMMA CountSecondaryIs ==
    ASSUME GenerationInv, NEW g \in Slots, CountSecondary(g)
    PROVE  \E s, u : SecondaryRead(g, s, u)
<1>1. PICK r : r = gen[g] /\ WellFormed(r)
  BY DEF GenerationInv, WellFormed
<1>2. PICK u, pc, at : /\ u = r.members[r.at] /\ at = r.at + 1
                       /\ pc = IF r.at < Len(r.members) THEN "primary" ELSE "schedule"
  OBVIOUS
<1>3. PICK next : next = [r EXCEPT !.at = at, !.pc = pc]
  OBVIOUS
<1>4. PICK counts : counts = [r.secondaries EXCEPT ![u] = SecondaryWeeks(u, Before(r.from))]
  OBVIOUS
<1>5. r.pc = "secondary" /\ UNCHANGED <<now, tables, held, clean>>
  BY <1>1 DEF CountSecondary
<1>6. CASE GoesOn(g, [next EXCEPT !.secondaries[u] = SecondaryWeeks(u, Before(r.from))])
  <2>1. PICK s : s = [r EXCEPT !.at = at, !.pc = pc, !.secondaries = counts]
    OBVIOUS
  <2>2. [next EXCEPT !.secondaries[u] = SecondaryWeeks(u, Before(r.from))] = s
    BY <1>1, <1>3, <1>4, <2>1 DEF WellFormed, Idle
  <2>3. gen' = [gen EXCEPT ![g] = s] /\ UNCHANGED settled
    BY <1>6, <2>2 DEF GoesOn
  <2>4. /\ WellFormed(s) /\ Same(s, r) /\ s.members = r.members /\ s.lost = r.lost
        /\ s.pc = pc /\ s.at = at /\ s.primaries = r.primaries
        /\ s.last = r.last /\ s.consecutive = r.consecutive /\ s.secondaries = counts
    BY <1>1, <2>1 DEF WellFormed, Same, Idle
  <2>5. Reads(g, s, "counts")
    BY <1>1, <1>5, <2>3, <2>4 DEF Reads
  <2>6. SecondaryRead(g, s, u)
    BY <1>1, <1>2, <1>4, <1>5, <2>4, <2>5 DEF SecondaryRead
  <2> QED
    BY <2>6
<1>7. CASE Loses(g, "counts", next)
  <2>1. PICK s : s = [r EXCEPT !.at = at, !.pc = pc, !.lost = @ \union {"counts"}]
    OBVIOUS
  <2>2. [next EXCEPT !.lost = @ \union {"counts"}] = s
    BY <1>1, <1>3, <2>1 DEF WellFormed, Idle
  <2>3. gen' = [gen EXCEPT ![g] = s] /\ settled' = None
    BY <1>7, <2>2 DEF Loses
  <2>4. /\ WellFormed(s) /\ Same(s, r) /\ s.members = r.members /\ s.lost = r.lost \union {"counts"}
        /\ s.pc = pc /\ s.at = at /\ s.primaries = r.primaries
        /\ s.last = r.last /\ s.consecutive = r.consecutive /\ s.secondaries = r.secondaries
    BY <1>1, <2>1 DEF WellFormed, Same, Idle
  <2>5. Reads(g, s, "counts")
    BY <1>1, <1>5, <2>3, <2>4 DEF Reads
  <2>6. SecondaryRead(g, s, u)
    BY <1>1, <1>2, <1>5, <2>3, <2>4, <2>5 DEF SecondaryRead
  <2> QED
    BY <2>6
<1>8. [r EXCEPT !.at = @ + 1, !.pc = IF r.at < Len(r.members) THEN "primary" ELSE "schedule"] = next
  BY <1>2, <1>3
<1> QED
  BY <1>1, <1>2, <1>6, <1>7, <1>8 DEF CountSecondary

LEMMA LookBackIs ==
    ASSUME GenerationInv, NEW g \in Slots, LookBack(g)
    PROVE  \E s, p : WeekRead(g, s, p)
<1>1. PICK r : r = gen[g] /\ WellFormed(r)
  BY DEF GenerationInv, WellFormed
<1>2. PICK run, p, pc : /\ run = r.consecutive + 1 /\ p = PrimaryOf(r.from - run)
                        /\ pc = IF run < MaxConsecutive THEN "look back" ELSE "assign"
  OBVIOUS
<1>3. PICK over : over = [r EXCEPT !.pc = "assign"]
  OBVIOUS
<1>4. r.pc = "look back" /\ UNCHANGED <<now, tables, held, clean>>
  BY <1>1 DEF LookBack
<1>5. /\ WellFormed(over) /\ Same(over, r) /\ over.members = r.members /\ over.lost = r.lost
      /\ over.pc = "assign" /\ over.at = r.at /\ over.primaries = r.primaries
      /\ over.secondaries = r.secondaries /\ over.last = r.last /\ over.consecutive = r.consecutive
  BY <1>1, <1>3 DEF WellFormed, Same, Idle
<1>6. CASE GoesOn(g, over) /\ (p = None \/ (run > 1 /\ p # r.last))
  <2>1. Reads(g, over, "look back")
    BY <1>1, <1>4, <1>5, <1>6 DEF GoesOn, Reads
  <2>2. WeekRead(g, over, p)
    BY <1>1, <1>2, <1>4, <1>5, <1>6, <2>1 DEF WeekRead
  <2> QED
    BY <2>2
<1>7. CASE /\ GoesOn(g, [r EXCEPT !.last = p, !.consecutive = run, !.pc = pc])
           /\ ~(p = None \/ (run > 1 /\ p # r.last))
  <2>1. PICK s : s = [r EXCEPT !.last = p, !.consecutive = run, !.pc = pc]
    OBVIOUS
  <2>2. /\ WellFormed(s) /\ Same(s, r) /\ s.members = r.members /\ s.lost = r.lost
        /\ s.pc = pc /\ s.at = r.at /\ s.primaries = r.primaries
        /\ s.secondaries = r.secondaries /\ s.last = p /\ s.consecutive = run
    BY <1>1, <2>1 DEF WellFormed, Same, Idle
  <2>3. gen' = [gen EXCEPT ![g] = s] /\ UNCHANGED settled
    BY <1>7, <2>1 DEF GoesOn
  <2>4. Reads(g, s, "look back")
    BY <1>1, <1>4, <2>2, <2>3 DEF Reads
  <2>5. WeekRead(g, s, p)
    BY <1>1, <1>2, <1>4, <1>7, <2>2, <2>4 DEF WeekRead
  <2> QED
    BY <2>5
<1>8. CASE Loses(g, "look back", over)
  <2>1. PICK s : s = [over EXCEPT !.lost = @ \union {"look back"}]
    OBVIOUS
  <2>2. /\ WellFormed(s) /\ Same(s, r) /\ s.members = r.members /\ s.lost = r.lost \union {"look back"}
        /\ s.pc = "assign" /\ s.at = r.at /\ s.primaries = r.primaries
        /\ s.secondaries = r.secondaries /\ s.last = r.last /\ s.consecutive = r.consecutive
    BY <1>5, <2>1 DEF WellFormed, Same, Idle
  <2>3. gen' = [gen EXCEPT ![g] = s] /\ settled' = None
    BY <1>8, <2>1 DEF Loses
  <2>4. Reads(g, s, "look back")
    BY <1>1, <1>4, <2>2, <2>3 DEF Reads
  <2>5. WeekRead(g, s, p)
    BY <1>1, <1>2, <1>4, <2>2, <2>3, <2>4 DEF WeekRead
  <2> QED
    BY <2>5
<1>9. \/ GoesOn(g, IF p = None \/ (run > 1 /\ p # r.last) THEN over
                  ELSE [r EXCEPT !.last = p, !.consecutive = run, !.pc = pc])
      \/ Loses(g, "look back", over)
  BY <1>1, <1>2, <1>3 DEF LookBack
<1> QED
  BY <1>6, <1>7, <1>8, <1>9

LEMMA LocksReadMembers ==
    ASSUME GenerationInv, LockInv, NEW g \in Slots, ReadMembers(g)
    PROVE  GenerationInv' /\ LockInv'
<1>1. UNCHANGED <<now, schedule, held>> /\ gen[g].pc = "members"
  BY DEF ReadMembers, tables
<1>2. CASE Ended(g)
  BY <1>1, <1>2, LocksEnd
<1>3. ASSUME NEW members, gen' = [gen EXCEPT ![g] = [@ EXCEPT !.pc = "primary", !.members = members]]
      PROVE  GenerationInv' /\ LockInv'
  <2>1. PICK s : s = [gen[g] EXCEPT !.pc = "primary", !.members = members]
    OBVIOUS
  <2>2. WellFormed(s) /\ Same(s, gen[g]) /\ s.pc = "primary"
    BY <2>1 DEF GenerationInv, WellFormed, Same, Idle
  <2>3. gen' = [gen EXCEPT ![g] = s]
    BY <1>3, <2>1
  <2> QED
    BY <1>1, <2>2, <2>3, LocksReads DEF Reading
<1> QED
  BY <1>2, <1>3 DEF ReadMembers

LEMMA LocksCounts ==
    ASSUME GenerationInv, LockInv, NEW g \in Slots, CountPrimary(g) \/ CountSecondary(g) \/ LookBack(g)
    PROVE  GenerationInv' /\ LockInv'
<1>1. ASSUME NEW s, NEW u, PrimaryRead(g, s, u) PROVE GenerationInv' /\ LockInv'
  BY <1>1, LocksReads DEF PrimaryRead, Reads, Reading, tables
<1>2. ASSUME NEW s, NEW u, SecondaryRead(g, s, u) PROVE GenerationInv' /\ LockInv'
  BY <1>2, LocksReads DEF SecondaryRead, Reads, Reading, tables
<1>3. ASSUME NEW s, NEW p, WeekRead(g, s, p) PROVE GenerationInv' /\ LockInv'
  BY <1>3, LocksReads DEF WeekRead, Reads, Reading, tables
<1> QED
  BY <1>1, <1>2, <1>3, CountPrimaryIs, CountSecondaryIs, LookBackIs

\* The weeks that are held are among those a generation reads as locked.
LEMMA LocksReadSchedule ==
    ASSUME GenerationInv, LockInv, NEW g \in Slots, ReadSchedule(g)
    PROVE  GenerationInv' /\ LockInv'
<1> DEFINE L == [w \in Weeks |-> LockedRow(g, w)]
           s == [gen[g] EXCEPT !.pc = "look back", !.locked = L]
<1>1. gen' = [gen EXCEPT ![g] = s]
  BY DEF ReadSchedule
<1>2. UNCHANGED <<now, schedule, held>>
  BY DEF ReadSchedule, tables, history
<1>3. gen[g].pc = "schedule" /\ WellFormed(gen[g]) /\ gen[g].week = gen[g].from /\ gen[g].n # 0
  BY DEF ReadSchedule, GenerationInv, WellFormed, Reading
<1> HIDE DEF L
<1>4. /\ WellFormed(s) /\ s.pc = "look back" /\ s.week = s.from /\ s.n # 0
      /\ s.from = gen[g].from /\ s.n = gen[g].n /\ s.locked = L
  BY <1>3 DEF WellFormed, Idle
<1> HIDE DEF s
<1>5. GenerationInv' /\ gen'[g] = s /\ Others(g)
  BY <1>1, <1>2, <1>4, GenerationBecomes DEF GenerationInv, Reading
<1>6. ASSUME NEW w \in Weeks, held[w] # None PROVE ~WillWrite(g, w)'
  <2> SUFFICES ASSUME w \in Window(g)' PROVE gen'[g].locked[w] # None
    BY DEF WillWrite
  <2>1. w \in Window(g)
    BY <1>4, <1>5 DEF Window
  <2>2. schedule[w] # None /\ schedule[w].locked
    BY <1>6 DEF LockInv
  <2>3. L[w] = LockedRow(g, w)
    BY DEF L
  <2> QED
    BY <1>4, <1>5, <2>1, <2>2, <2>3 DEF LockedRow
<1> QED
  BY <1>2, <1>5, <1>6, LocksUntouched

\* On to the next week: no week is left to write that was not before.
LEMMA LocksNextWeek ==
    ASSUME GenerationInv, LockInv, NEW g \in Slots, gen[g].pc = "assign", NEW s,
           WellFormed(s), Same(s, gen[g]), s.pc = "assign",
           gen' = [gen EXCEPT ![g] = NextWeekOf(s)],
           now' \in Nat \ {0},
           schedule' = [w \in Weeks |-> schedule'[w]], held' = [w \in Weeks |-> held'[w]]
    PROVE  /\ GenerationInv' /\ Others(g)
           /\ \A w \in Weeks : WillWrite(g, w)' => WillWrite(g, w)
<1> DEFINE r == NextWeekOf(s)
<1>1. s.week \in s.from .. (s.from + s.n - 1)
  BY DEF GenerationInv, Same, Window
<1>2. /\ WellFormed(r)
      /\ \/ /\ r.pc = "assign" /\ r.from = s.from /\ r.n = s.n /\ r.locked = s.locked
            /\ r.week = s.week + 1 /\ r.week \in r.from .. (r.from + r.n - 1)
         \/ r.pc = "done"
  BY <1>1, NextWeekGoesOn
<1> HIDE DEF r
<1>3. GenerationInv' /\ gen'[g] = r /\ Others(g)
  BY <1>2, GenerationBecomes DEF Reading, r
<1>4. \A w \in Weeks : WillWrite(g, w)' => WillWrite(g, w)
  <2> SUFFICES ASSUME NEW w \in Weeks, WillWrite(g, w)' PROVE WillWrite(g, w)
    OBVIOUS
  <2>1. r.pc = "assign" /\ w \in r.from .. (r.from + r.n - 1) /\ w >= r.week /\ r.locked[w] = None
    BY <1>2, <1>3 DEF WillWrite, Window
  <2>2. w \in Window(g) /\ gen[g].locked[w] = None
    BY <1>2, <2>1 DEF Same, Window
  <2>3. w >= gen[g].week
    <3>1. w \in Nat /\ gen[g].week \in Nat
      BY ConstantsAssumption DEF Weeks, GenerationInv
    <3>2. w >= gen[g].week + 1
      BY <1>2, <2>1 DEF Same
    <3> QED
      BY <3>1, <3>2
  <2> QED
    BY <2>2, <2>3 DEF WillWrite
<1> QED
  BY <1>3, <1>4

LEMMA LocksSkipLocked ==
    ASSUME GenerationInv, LockInv, NEW g \in Slots, SkipLocked(g)
    PROVE  GenerationInv' /\ LockInv'
<1>1. PICK p : gen' = [gen EXCEPT ![g] = NextWeekOf(Follow(@, p))]
  BY DEF SkipLocked
<1>2. gen[g].pc = "assign" /\ WellFormed(gen[g]) /\ UNCHANGED <<now, schedule, held>>
  BY DEF SkipLocked, tables, history, GenerationInv, WellFormed
<1>3. WellFormed(Follow(gen[g], p)) /\ Same(Follow(gen[g], p), gen[g]) /\ Follow(gen[g], p).pc = "assign"
  BY <1>2, FollowKeeps
<1>4. GenerationInv' /\ Others(g) /\ \A w \in Weeks : WillWrite(g, w)' => WillWrite(g, w)
  BY <1>1, <1>2, <1>3, LocksNextWeek DEF GenerationInv
<1> QED
  BY <1>2, <1>4, LocksUntouched DEF LockInv

\* The week that is written is one of WillWrite: it is not held.
LEMMA LocksAssignWeek ==
    ASSUME GenerationInv, LockInv, NEW g \in Slots, AssignWeek(g)
    PROVE  GenerationInv' /\ LockInv'
<1> DEFINE v == gen[g].week
<1>1. PICK p, second :
        /\ schedule' = [schedule EXCEPT ![v] = [primary |-> p, secondary |-> second, locked |-> FALSE]]
        /\ gen' = [gen EXCEPT ![g] = NextWeekOf(Counted(Follow(gen[g], p), p, second))]
  BY DEF AssignWeek
<1> DEFINE s == Counted(Follow(gen[g], p), p, second)
<1>2. /\ gen[g].pc = "assign" /\ gen[g].locked[v] = None /\ v \in Window(g) /\ v \in Nat
      /\ WellFormed(gen[g]) /\ UNCHANGED <<now, held>>
  BY DEF AssignWeek, GenerationInv, WellFormed
<1>3. /\ WellFormed(Follow(gen[g], p)) /\ Same(Follow(gen[g], p), gen[g])
      /\ Follow(gen[g], p).pc = "assign"
  BY <1>2, FollowKeeps
<1>4. WellFormed(s) /\ Same(s, gen[g]) /\ s.pc = "assign"
  BY <1>3, CountedKeeps
<1> HIDE DEF s
<1>5. schedule' = [w \in Weeks |-> schedule'[w]] /\ \A w \in Weeks : w # v => schedule'[w] = schedule[w]
  BY <1>1 DEF GenerationInv
<1>6. GenerationInv' /\ Others(g) /\ \A w \in Weeks : WillWrite(g, w)' => WillWrite(g, w)
  BY <1>1, <1>2, <1>4, <1>5, LocksNextWeek DEF GenerationInv, s
<1>7. v \in Weeks => held[v] = None
  <2>1. v >= v /\ gen[g].pc \in {"look back", "assign"}
    BY <1>2
  <2> QED
    BY <1>2, <2>1 DEF LockInv, WillWrite
<1>8. \A h \in Slots \ {g}, w \in Weeks : WillWrite(h, w)' <=> WillWrite(h, w)
  BY <1>6 DEF Others, WillWrite, Window
<1>9. ASSUME NEW w \in Weeks, held'[w] # None
      PROVE  /\ schedule'[w] = held'[w] /\ held'[w].locked
             /\ \A h \in Slots : ~WillWrite(h, w)'
  <2>1. held[w] # None /\ held'[w] = held[w] /\ w # v
    BY <1>2, <1>7, <1>9
  <2>2. schedule'[w] = schedule[w]
    BY <1>5, <2>1
  <2> QED
    BY <1>6, <1>8, <2>1, <2>2 DEF LockInv
<1> QED
  BY <1>6, <1>9 DEF LockInv

LEMMA LocksOfWork ==
    ASSUME GenerationInv, LockInv, NEW g \in Slots, Work(g)
    PROVE  GenerationInv' /\ LockInv'
<1>1. CASE Respond(g) \/ GenerateFails(g)
  BY <1>1, LocksEnd DEF Respond, GenerateFails, tables
<1> QED
  BY <1>1, LocksReadMembers, LocksCounts, LocksReadSchedule, LocksSkipLocked, LocksAssignWeek DEF Work

LEMMA LocksOfStarts ==
    ASSUME GenerationInv, LockInv,
           \/ TopUp
           \/ \E g \in Slots : GenerateOnRequest(g)
           \/ \E g \in Requests, u \in Users : AddMember(g, u) \/ DeactivateMember(g, u)
    PROVE  GenerationInv' /\ LockInv'
<1>1. now \in Nat \ {0} /\ Ahead \in Nat \ {0}
  BY ConstantsAssumption DEF GenerationInv
<1>2. CASE TopUp
  BY <1>1, <1>2, LocksStart DEF TopUp, Generate, tables, Slots
<1>3. ASSUME NEW g \in Slots, GenerateOnRequest(g) PROVE GenerationInv' /\ LockInv'
  <2>1. PICK window \in Windows : Generate(g, window.from, window.n)
    BY <1>3 DEF GenerateOnRequest
  <2>2. window.from \in Nat \ {0} /\ window.n \in Nat \ {0}
    BY ConstantsAssumption
  <2> QED
    BY <2>1, <2>2, LocksStart DEF Generate, tables
<1>4. ASSUME NEW g \in Requests, ChangeMembers(g) PROVE GenerationInv' /\ LockInv'
  BY <1>1, <1>4, LocksStart DEF ChangeMembers, Slots
<1> QED
  BY <1>2, <1>3, <1>4 DEF AddMember, DeactivateMember

\* A week is set or unlocked by hand.
LEMMA LocksOfEdits ==
    ASSUME GenerationInv, LockInv, NEW w \in Weeks, NEW row, Edited(w, row),
           held' = [held EXCEPT ![w] = None]
             \/ (row.locked /\ held' = [held EXCEPT ![w] = IF \E g \in Slots : WillWrite(g, w) THEN None ELSE row])
    PROVE  GenerationInv' /\ LockInv'
<1>1. UNCHANGED <<now, gen>> /\ schedule' = [schedule EXCEPT ![w] = row]
  BY DEF Edited
<1>2. GenerationInv'
  BY <1>1 DEF GenerationInv, Window
<1>3. \A g \in Slots, v \in Weeks : WillWrite(g, v)' <=> WillWrite(g, v)
  BY <1>1 DEF WillWrite, Window
<1>4. ASSUME NEW v \in Weeks, held'[v] # None
      PROVE  /\ schedule'[v] = held'[v] /\ held'[v].locked
             /\ \A g \in Slots : ~WillWrite(g, v)
  <2>1. CASE v = w
    BY <1>1, <1>4, <2>1 DEF GenerationInv
  <2>2. CASE v # w
    BY <1>1, <1>4, <2>2 DEF GenerationInv, LockInv
  <2> QED
    BY <2>1, <2>2
<1> QED
  BY <1>2, <1>3, <1>4 DEF LockInv

LEMMA LocksStep == GenerationInv /\ LockInv /\ [Next]_vars => GenerationInv' /\ LockInv'
<1> SUFFICES ASSUME GenerationInv, LockInv, [Next]_vars PROVE GenerationInv' /\ LockInv'
  OBVIOUS
<1>1. ASSUME NEW w \in Weeks, UnlockScheduleWeek(w) PROVE GenerationInv' /\ LockInv'
  BY <1>1, LocksOfEdits DEF UnlockScheduleWeek
<1>2. ASSUME NEW edit \in Edits, UpdateScheduleWeek(edit.week, edit.row) PROVE GenerationInv' /\ LockInv'
  <2>1. edit.week \in Weeks /\ edit.row.locked
    BY ConstantsAssumption
  <2> QED
    BY <1>2, <2>1, LocksOfEdits DEF UpdateScheduleWeek
<1>3. CASE WeekPasses \/ UNCHANGED vars
  <2>1. UNCHANGED <<schedule, gen, held>> /\ now' \in Nat \ {0}
    BY <1>3 DEF WeekPasses, vars, tables, history, GenerationInv
  <2> QED
    BY <2>1 DEF GenerationInv, LockInv, WillWrite, Window
<1> QED
  BY <1>1, <1>2, <1>3, LocksOfStarts, LocksOfWork DEF Next

\* A week locked by hand stays as it was set, whatever the generations, the top-up and the changes of
\* members do, unless a generation had read the schedule before the lock and not come to that week
\* (roster/scheduler.go:47-56; docs/08-roster-v2.md:129).
THEOREM LocksHoldCorrect == Spec => []LocksHold
<1>1. LockInv => LocksHold
  BY DEF LockInv, LocksHold
<1> QED
  BY <1>1, LocksInit, LocksStep, PTL DEF Spec
-----------------------------------------------------------------------------
(* Members.                                                                *)

LEMMA LeastIndex ==
    ASSUME NEW S, S \subseteq Nat, S # {}
    PROVE  \E i \in S : \A j \in S : i <= j
<1>1. PICK i \in S : \A j \in S : ~ (<<j, i>> \in OpToRel(<, Nat))
  BY WFMin, NatLessThanWellFounded
<1>2. ASSUME NEW j \in Nat, j < i PROVE <<j, i>> \in OpToRel(<, Nat)
  BY <1>2 DEF OpToRel
<1>3. \A j \in S : ~ (j < i)
  BY <1>1, <1>2
<1> QED
  BY <1>3

\* A set that has 0 and with a number the next one has all of them up to n.
LEMMA Induction ==
    ASSUME NEW n \in Nat, NEW S, 0 \in S, \A k \in 0 .. n - 1 : k \in S => k + 1 \in S
    PROVE  0 .. n \subseteq S
<1> DEFINE D == {k \in 0 .. n : k \notin S}
<1> SUFFICES ASSUME D # {} PROVE FALSE
  OBVIOUS
<1>1. D \subseteq Nat
  OBVIOUS
<1>2. PICK k \in D : \A j \in D : k <= j
  BY <1>1, LeastIndex
<1>3. k - 1 \in 0 .. n - 1 /\ k - 1 + 1 = k
  BY <1>2
<1>4. k - 1 \notin D
  BY <1>2
<1> QED
  BY <1>2, <1>3, <1>4

Distinct(members) == \A i, j \in DOMAIN members : members[i] = members[j] => i = j

LEMMA OneMoreMember ==
    ASSUME NEW members \in Seq(Users), Distinct(members), NEW u \in Users, u \notin Listed(members)
    PROVE  /\ Append(members, u) \in Seq(Users) /\ Distinct(Append(members, u))
           /\ Listed(Append(members, u)) = Listed(members) \union {u}
<1>1. PICK n \in Nat : n = Len(members) /\ DOMAIN members = 1 .. n
  OBVIOUS
<1>2. PICK more \in Seq(Users) : more = Append(members, u)
  BY AppendProperties
<1>3. /\ DOMAIN more = 1 .. n + 1 /\ more[n + 1] = u
      /\ \A i \in 1 .. n : more[i] = members[i]
  <2>1. /\ Len(more) = n + 1 /\ more[n + 1] = u
        /\ \A i \in 1 .. n : more[i] = members[i]
    BY <1>1, <1>2, AppendProperties
  <2> QED
    BY <1>2, <2>1
<1>4. \A i \in 1 .. n + 1 : i = n + 1 \/ i \in 1 .. n
  OBVIOUS
<1>5. Listed(more) = Listed(members) \union {u}
  BY <1>1, <1>3, <1>4 DEF Listed
<1>6. Distinct(more)
  <2> SUFFICES ASSUME NEW i \in 1 .. n + 1, NEW j \in 1 .. n + 1, more[i] = more[j] PROVE i = j
    BY <1>3 DEF Distinct
  <2>1. \A k \in 1 .. n : more[k] # u
    BY <1>1, <1>3 DEF Listed
  <2>2. CASE i = n + 1 \/ j = n + 1
    BY <1>3, <1>4, <2>1, <2>2
  <2>3. CASE i \in 1 .. n /\ j \in 1 .. n
    BY <1>1, <1>3, <2>3 DEF Distinct
  <2> QED
    BY <1>4, <2>2, <2>3
<1> QED
  BY <1>2, <1>5, <1>6

\* What the recursive function in ActiveMembers makes of the rows before.
Taken(order, who, f, n) ==
    IF n = 0 THEN <<>> ELSE IF order[n] \in who THEN Append(f[n - 1], order[n]) ELSE f[n - 1]

LEMMA ActiveMembersUnfolds ==
    ASSUME NEW order, NEW who
    PROVE  \E f : /\ f = CHOOSE g : g = [n \in 0 .. Len(order) |-> Taken(order, who, g, n)]
                  /\ ActiveMembers(order, who) = f[Len(order)]
BY DEF ActiveMembers, Taken

LEMMA TakenExists ==
    ASSUME NEW order, NEW who, Len(order) \in Nat
    PROVE  \E g : g = [n \in 0 .. Len(order) |-> Taken(order, who, g, n)]
<1> DEFINE Upto(g, m) == g = [k \in 0 .. m |-> Taken(order, who, g, k)]
           n == Len(order)
           G == {m \in 0 .. n : \E g : Upto(g, m)}
<1>1. 0 \in G
  <2> DEFINE g == [k \in 0 .. 0 |-> <<>>]
  <2>1. g = [k \in 0 .. 0 |-> Taken(order, who, g, k)]
    BY DEF Taken
  <2> QED
    BY <2>1
<1>2. ASSUME NEW m \in 0 .. n - 1, m \in G PROVE m + 1 \in G
  <2>1. PICK g : Upto(g, m)
    BY <1>2
  <2> DEFINE f == [k \in 0 .. m + 1 |-> IF k = m + 1 THEN Taken(order, who, g, k) ELSE g[k]]
  <2>2. ASSUME NEW k \in 0 .. m + 1 PROVE f[k] = Taken(order, who, f, k)
    <3>1. CASE k = 0
      BY <2>1, <3>1 DEF Taken
    <3>2. CASE k # 0
      <4>1. k - 1 \in 0 .. m /\ k - 1 # m + 1
        BY <3>2
      <4>2. f[k - 1] = g[k - 1]
        BY <4>1
      <4>3. f[k] = Taken(order, who, g, k)
        BY <2>1
      <4> QED
        BY <3>2, <4>2, <4>3 DEF Taken
    <3> QED
      BY <3>1, <3>2
  <2>3. f = [k \in 0 .. m + 1 |-> Taken(order, who, f, k)]
    BY <2>2
  <2>4. \E g1 : Upto(g1, m + 1)
    BY <2>3
  <2>5. m + 1 \in 0 .. n
    OBVIOUS
  <2> QED
    BY <2>4, <2>5
<1>3. n \in G
  <2> HIDE DEF G
  <2>1. 0 .. n \subseteq G
    BY <1>1, <1>2, Induction
  <2> QED
    BY <2>1
<1> QED
  BY <1>3

\* ListActiveMembers lists the active members, each of them once.
LEMMA ActiveMembersAre ==
    ASSUME NEW order \in Seq(Users), Distinct(order), NEW who
    PROVE  /\ ActiveMembers(order, who) \in Seq(Users) /\ Distinct(ActiveMembers(order, who))
           /\ Listed(ActiveMembers(order, who)) = Listed(order) \intersect who
<1>1. PICK n \in Nat : n = Len(order) /\ DOMAIN order = 1 .. n
  OBVIOUS
<1>2. PICK f : /\ f = CHOOSE g : g = [k \in 0 .. Len(order) |-> Taken(order, who, g, k)]
               /\ ActiveMembers(order, who) = f[Len(order)]
  BY ActiveMembersUnfolds
<1>3. f = [k \in 0 .. n |-> Taken(order, who, f, k)]
  BY <1>1, <1>2, TakenExists
<1> DEFINE Fine(k) == /\ f[k] \in Seq(Users) /\ Distinct(f[k])
                      /\ Listed(f[k]) = {order[i] : i \in 1 .. k} \intersect who
           S == {k \in 0 .. n : Fine(k)}
<1>4. 0 \in S
  <2>1. f[0] = <<>>
    BY <1>3 DEF Taken
  <2>2. <<>> \in Seq(Users) /\ DOMAIN <<>> = {}
    OBVIOUS
  <2>3. Listed(<<>>) = {} /\ Distinct(<<>>)
    BY <2>2 DEF Distinct, Listed
  <2>4. {order[i] : i \in 1 .. 0} = {}
    OBVIOUS
  <2>5. 0 \in 0 .. n
    OBVIOUS
  <2> QED
    BY <2>1, <2>2, <2>3, <2>4, <2>5
<1>5. ASSUME NEW k \in 0 .. n - 1, k \in S PROVE k + 1 \in S
  <2>1. k + 1 \in 1 .. n /\ k + 1 # 0 /\ (k + 1) - 1 = k
    OBVIOUS
  <2>2. f[k + 1] = IF order[k + 1] \in who THEN Append(f[k], order[k + 1]) ELSE f[k]
    <3>1. k + 1 \in 0 .. n
      OBVIOUS
    <3>2. f[k + 1] = Taken(order, who, f, k + 1)
      BY <1>3, <3>1
    <3> QED
      BY <2>1, <3>2 DEF Taken
  <2>3. {order[i] : i \in 1 .. k + 1} = {order[i] : i \in 1 .. k} \union {order[k + 1]}
    <3>1. \A i \in 1 .. k + 1 : i = k + 1 \/ i \in 1 .. k
      OBVIOUS
    <3> QED
      BY <3>1
  <2>4. order[k + 1] \in Users
    BY <1>1, <2>1
  <2>5. order[k + 1] \notin {order[i] : i \in 1 .. k}
    BY <1>1, <2>1 DEF Distinct
  <2>6. Fine(k)
    BY <1>5
  <2>7. CASE order[k + 1] \in who
    <3>1. order[k + 1] \notin Listed(f[k])
      BY <2>5, <2>6
    <3>2. PICK m : m = f[k] /\ m \in Seq(Users) /\ Distinct(m)
      BY <2>6
    <3>3. PICK u \in Users : u = order[k + 1]
      BY <2>4
    <3>4. /\ Append(m, u) \in Seq(Users) /\ Distinct(Append(m, u))
          /\ Listed(Append(m, u)) = Listed(m) \union {u}
      BY <3>1, <3>2, <3>3, OneMoreMember
    <3>5. f[k + 1] = Append(m, u)
      BY <2>2, <2>7, <3>2, <3>3
    <3> HIDE DEF Listed
    <3>6. Listed(f[k + 1]) = {order[i] : i \in 1 .. k + 1} \intersect who
      BY <2>3, <2>6, <2>7, <3>2, <3>3, <3>4, <3>5
    <3>7. f[k + 1] \in Seq(Users) /\ Distinct(f[k + 1])
      BY <3>4, <3>5
    <3>8. k + 1 \in 0 .. n
      OBVIOUS
    <3> QED
      BY <3>6, <3>7, <3>8
  <2>8. CASE order[k + 1] \notin who
    <3>1. f[k + 1] = f[k]
      BY <2>2, <2>8
    <3>2. {order[i] : i \in 1 .. k + 1} \intersect who = {order[i] : i \in 1 .. k} \intersect who
      BY <2>3, <2>8
    <3> QED
      BY <2>1, <2>6, <3>1, <3>2
  <2> QED
    BY <2>7, <2>8
<1>6. n \in S
  <2> HIDE DEF S
  <2>1. 0 .. n \subseteq S
    BY <1>4, <1>5, Induction
  <2> QED
    BY <2>1
<1>7. Fine(n) /\ ActiveMembers(order, who) = f[n]
  BY <1>1, <1>2, <1>6
<1>8. Listed(order) = {order[i] : i \in 1 .. n}
  BY <1>1 DEF Listed
<1> QED
  BY <1>7, <1>8
LEMMA MembersCounted ==
    ASSUME NEW members \in Seq(Users), Distinct(members)
    PROVE  Cardinality(Listed(members)) = Len(members)
<1>1. PICK n \in Nat : n = Len(members) /\ DOMAIN members = 1 .. n
  OBVIOUS
<1> DEFINE f == [i \in 1 .. n |-> members[i]]
<1>2. f \in Bijection(1 .. n, Listed(members))
  <2>1. f \in [1 .. n -> Listed(members)] /\ \A e \in Listed(members) : \E i \in 1 .. n : f[i] = e
    BY <1>1 DEF Listed
  <2>2. \A i, j \in 1 .. n : f[i] = f[j] => i = j
    BY <1>1 DEF Distinct
  <2> HIDE DEF f
  <2>3. f \in Injection(1 .. n, Listed(members))
    <3>1. DOMAIN f = 1 .. n
      BY <2>1
    <3>2. IsInjective(f)
      BY <2>2, <3>1 DEF IsInjective
    <3> QED
      BY <2>1, <3>2 DEF Injection
  <2>4. f \in Surjection(1 .. n, Listed(members))
    BY <2>1 DEF Surjection
  <2> QED
    BY <2>3, <2>4 DEF Bijection
<1>3. ExistsBijection(1 .. n, Listed(members))
  BY <1>2 DEF ExistsBijection
<1> QED
  BY <1>1, <1>3, FS_CountingElements

-----------------------------------------------------------------------------
(* Who is picked.                                                          *)

Least(u, S, served) == u \in S /\ \A v \in S : served[u] <= served[v]

\* pickPrimary and pickSecondary pick one of those who have served least.
LEMMA LeastServedIs ==
    ASSUME NEW members \in Seq(Users), NEW S, S \subseteq Listed(members), S # {},
           NEW served \in [Users -> Nat]
    PROVE  Least(LeastServed(members, S, served), S, served)
<1> DEFINE least == {i \in DOMAIN members : members[i] \in S /\ \A u \in S : served[members[i]] <= served[u]}
           counts == {served[u] : u \in S}
<1>1. PICK n \in Nat : n = Len(members) /\ DOMAIN members = 1 .. n
  OBVIOUS
<1>2. S \subseteq Users
  BY <1>1 DEF Listed
<1>3. PICK u \in S : \A v \in S : served[u] <= served[v]
  <2>1. counts \subseteq Nat /\ counts # {}
    BY <1>2
  <2>2. PICK c \in counts : \A d \in counts : c <= d
    <3> HIDE DEF counts
    <3> QED
      BY <2>1, LeastIndex
  <2> QED
    BY <2>2
<1>4. PICK i \in 1 .. n : members[i] = u
  BY <1>1, <1>3 DEF Listed
<1>5. i \in least
  BY <1>1, <1>3, <1>4
<1>6. least \subseteq Nat
  BY <1>1
<1>7. PICK j \in least : \A k \in least : j <= k
  <2> HIDE DEF least
  <2> QED
    BY <1>5, <1>6, LeastIndex
<1> DEFINE first == CHOOSE k \in least : \A l \in least : k <= l
<1>8. first \in least
  <2> HIDE DEF least
  <2> QED
    BY <1>7
<1>9. LeastServed(members, S, served) = members[first]
  BY DEF LeastServed
<1> HIDE DEF first
<1> QED
  BY <1>8, <1>9 DEF Least
\* pickPrimary picks a member who has served least, or less than all but the one who is over the limit.
LEMMA PickPrimaryIs ==
    ASSUME NEW s, s.members \in Seq(Users), s.members # <<>>, s.primaries \in [Users -> Nat],
           MaxConsecutive \in Nat, s.consecutive \in Nat
    PROVE  LET p == PickPrimary(s)
               blocked == s.consecutive >= MaxConsecutive
           IN /\ p \in Listed(s.members)
              /\ \A u \in Listed(s.members) :
                   s.primaries[p] <= s.primaries[u] \/ (blocked /\ u = s.last)
              /\ blocked /\ p = s.last => Listed(s.members) = {p}
<1> DEFINE blocked == IF s.consecutive >= MaxConsecutive THEN {s.last} ELSE {}
           all == Listed(s.members)
           free == all \ blocked
           S == IF free = {} THEN all ELSE free
<1>1. all # {}
  <2>1. PICK m \in Seq(Users) : m = s.members /\ m # <<>>
    OBVIOUS
  <2>2. 1 \in DOMAIN m
    BY <2>1
  <2>3. m[1] \in Listed(m)
    BY <2>2 DEF Listed
  <2> QED
    BY <2>1, <2>3
<1>2. S \subseteq all /\ S # {}
  BY <1>1
<1>3. PickPrimary(s) = LeastServed(s.members, S, s.primaries)
  BY DEF PickPrimary
<1>4. \A u \in all : u \in S \/ (s.consecutive >= MaxConsecutive /\ u = s.last)
  OBVIOUS
<1>5. s.consecutive >= MaxConsecutive /\ s.last \in S => all = {s.last}
  BY <1>1
<1> HIDE DEF S, all
<1>6. Least(PickPrimary(s), S, s.primaries)
  BY <1>2, <1>3, LeastServedIs DEF all
<1> QED
  BY <1>2, <1>4, <1>5, <1>6 DEF Least, all

LEMMA PickSecondaryIs ==
    ASSUME NEW s, s.members \in Seq(Users), Distinct(s.members), Len(s.members) > 1,
           s.primaries \in [Users -> Nat], s.secondaries \in [Users -> Nat], NEW p
    PROVE  PickSecondary(s, p) \in Listed(s.members) \ {p}
<1> DEFINE S == Listed(s.members) \ {p}
           served == [u \in Users |-> s.primaries[u] + s.secondaries[u]]
<1>2. S # {}
  <2>1. PICK m \in Seq(Users) : m = s.members /\ Len(m) > 1 /\ Distinct(m)
    OBVIOUS
  <2>2. 1 \in DOMAIN m /\ 2 \in DOMAIN m
    BY <2>1
  <2>3. m[1] \in Listed(m) /\ m[2] \in Listed(m) /\ m[1] # m[2]
    BY <2>1, <2>2 DEF Listed, Distinct
  <2> QED
    BY <2>1, <2>3
<1>3. served \in [Users -> Nat]
  OBVIOUS
<1>4. PickSecondary(s, p) = LeastServed(s.members, S, served)
  BY DEF PickSecondary
<1>5. S \subseteq Listed(s.members)
  OBVIOUS
<1> HIDE DEF S, served
<1>6. Least(PickSecondary(s, p), S, served)
  BY <1>2, <1>3, <1>4, <1>5, LeastServedIs
<1> QED
  BY <1>6 DEF Least, S

-----------------------------------------------------------------------------
(* What is read.                                                           *)

LEMMA WeeksAreFinite == Weeks \subseteq Nat \ {0} /\ IsFiniteSet(Weeks)
BY ConstantsAssumption, FS_Interval DEF Weeks

LEMMA ServedWeeks ==
    ASSUME NEW S, S \subseteq Weeks, NEW u
    PROVE  PrimaryWeeks(u, S) \in Nat /\ SecondaryWeeks(u, S) \in Nat
<1>1. \A T \in SUBSET Weeks : Cardinality(T) \in Nat
  BY WeeksAreFinite, FS_Subset, FS_CardinalityType
<1>2. /\ {w \in S : schedule[w] # None /\ schedule[w].primary = u} \in SUBSET Weeks
      /\ {w \in S : schedule[w] # None /\ schedule[w].secondary = u} \in SUBSET Weeks
  OBVIOUS
<1> QED
  BY <1>1, <1>2 DEF PrimaryWeeks, SecondaryWeeks

\* The last weeks up to w have had the same primary.
Unbroken(w, k) == \A i \in 1 .. k : PrimaryOf(w + 1 - i) = PrimaryOf(w)

-----------------------------------------------------------------------------
(* Types.                                                                  *)

(***************************************************************************)
(* The local variables of a generation.  The window of a generation at     *)
(* work ends within the weeks, and its members, once read, are some and    *)
(* different; what it has not read yet is as it was initialized.           *)
(***************************************************************************)
Counting == {"members", "primary", "secondary", "schedule"}

TypedRun(s) ==
    /\ WellFormed(s) /\ s.pc \in Counting \union {"idle", "look back", "assign", "done"}
    /\ s.from # 0
    /\ s.pc # "idle" => s.n # 0 /\ s.from + s.n - 1 <= LastWeek
    /\ s.members \in Seq(Users) /\ Distinct(s.members)
    /\ s.pc \in {"primary", "secondary", "schedule", "look back", "assign"} => s.members # <<>>
    /\ s.at \in Nat \ {0}
    /\ s.pc = "members" => s.at = 1 /\ s.primaries = NoCounts /\ s.secondaries = NoCounts
    /\ s.pc \in {"primary", "secondary"} => s.at <= Len(s.members)
    /\ s.pc \in {"schedule", "look back"} => s.at = Len(s.members) + 1
    /\ s.pc \in Counting => s.last = None /\ s.consecutive = 0
    /\ s.primaries \in [Users -> Nat] /\ s.secondaries \in [Users -> Nat]
    /\ s.locked \in [Weeks -> Rows \union {None}]
    /\ s.last \in Anyone /\ s.consecutive \in Nat

\* The weeks a generation has passed, and those it found locked, have a row.
Provided(s) ==
    \A w \in Weeks :
      /\ w \in s.from .. (s.from + s.n - 1)
      /\ s.pc = "done" \/ (s.pc \in {"look back", "assign"} /\ (w < s.week \/ s.locked[w] # None))
      => schedule[w] # None

TypedTables ==
    /\ now \in Weeks
    /\ joined \in Seq(Users) /\ Distinct(joined) /\ active \subseteq Listed(joined)
    /\ schedule \in [Weeks -> Rows \union {None}]
    /\ held \in [Weeks -> Rows \union {None}]
    /\ clean \in [Slots -> BOOLEAN]
    /\ settled \in Weeks \union {None}

TypedRuns == \A g \in Slots : TypedRun(gen[g]) /\ Provided(gen[g])

TypeInv == TypedTables /\ TypedRuns

LEMMA IdleIsTyped == TypedRun(Idle) /\ Idle.pc = "idle"
<1>1. <<>> \in Seq(Users) /\ Distinct(<<>>)
  BY DEF Distinct
<1> QED
  BY <1>1 DEF Idle, TypedRun, WellFormed, NoCounts, Anyone, Counting

LEMMA TypeInit == Init => TypeInv
<1> SUFFICES ASSUME Init PROVE TypeInv
  OBVIOUS
<1>1. joined \in Seq(Users) /\ Distinct(joined)
  BY ConstantsAssumption DEF Init, Distinct
<1>2. TypedTables
  BY <1>1, ConstantsAssumption DEF Init, TypedTables, Weeks
<1>3. TypedRuns
  BY IdleIsTyped DEF Init, TypedRuns, Provided
<1> QED
  BY <1>2, <1>3 DEF TypeInv

RowsStay == \A w \in Weeks : schedule[w] # None => schedule'[w] # None

\* Generation g becomes s; the others find the rows they need.
LEMMA RunsBecome ==
    ASSUME TypedRuns, GenerationInv, RowsStay, NEW g \in Slots, NEW s, gen' = [gen EXCEPT ![g] = s],
           TypedRun(s), Provided(s)'
    PROVE  TypedRuns'
<1>1. gen'[g] = s /\ \A h \in Slots : h # g => gen'[h] = gen[h]
  BY DEF GenerationInv
<1>2. ASSUME NEW h \in Slots PROVE TypedRun(gen'[h]) /\ Provided(gen[h])'
  <2>1. CASE h = g
    BY <1>1, <2>1 DEF Provided
  <2>2. CASE h # g
    BY <1>1, <2>2 DEF Provided, TypedRuns, RowsStay
  <2> QED
    BY <2>1, <2>2
<1> QED
  BY <1>2 DEF TypedRuns, TypedRun, WellFormed

LEMMA RunsEnd ==
    ASSUME TypedRuns, GenerationInv, UNCHANGED schedule, NEW g \in Slots, Ended(g)
    PROVE  TypedRuns'
BY IdleIsTyped, RunsBecome DEF Ended, Provided, RowsStay

LEMMA RunsStart ==
    ASSUME TypedRuns, GenerationInv, UNCHANGED schedule, NEW g \in Slots,
           NEW from \in Nat \ {0}, NEW n \in Nat \ {0}, Started(g, from, n)
    PROVE  TypedRuns'
<1> DEFINE s == [Idle EXCEPT !.pc = "members", !.from = from, !.n = n, !.week = from]
<1>1. TypedRun(s) /\ s.pc = "members"
  BY IdleIsTyped DEF Started, TypedRun, WellFormed, Idle, Counting
<1>2. gen' = [gen EXCEPT ![g] = s]
  BY DEF Started
<1> HIDE DEF s
<1> QED
  BY <1>1, <1>2, RunsBecome DEF Provided, RowsStay

LEMMA WindowEnds ==
    ASSUME NEW from \in Nat, NEW n \in Nat, NEW w \in from .. (from + n - 1)
    PROVE  from <= w /\ w < from + n
OBVIOUS

LEMMA NothingBefore ==
    ASSUME NEW from \in Nat, NEW v \in Weeks
    PROVE  ~(from <= v /\ v < from)
BY WeeksAreFinite

LEMMA WindowNumbers ==
    ASSUME NEW s, TypedRun(s)
    PROVE  /\ s.from \in Nat \ {0} /\ s.n \in Nat /\ s.week \in Nat
           /\ s.pc # "idle" => s.from .. (s.from + s.n - 1) \subseteq Weeks
<1>1. PICK from, n : from = s.from /\ n = s.n
  OBVIOUS
<1>2. from \in Nat \ {0} /\ n \in Nat /\ s.week \in Nat
  BY <1>1 DEF TypedRun, WellFormed
<1>3. s.pc # "idle" => from + n - 1 <= LastWeek
  BY <1>1 DEF TypedRun
<1>4. s.pc # "idle" => from .. (from + n - 1) \subseteq Weeks
  BY <1>2, <1>3, ConstantsAssumption DEF Weeks
<1> QED
  BY <1>1, <1>2, <1>4

LEMMA TypeReadMembers ==
    ASSUME TypeInv, GenerationInv, NEW g \in Slots, ReadMembers(g)
    PROVE  TypeInv'
<1>1. UNCHANGED <<now, tables, held, settled>> /\ gen[g].pc = "members"
  BY DEF ReadMembers
<1>2. CASE Ended(g) /\ clean' = [clean EXCEPT ![g] = TRUE]
  BY <1>1, <1>2, RunsEnd DEF TypeInv, TypedTables, tables
<1>3. CASE ~ (Ended(g) /\ clean' = [clean EXCEPT ![g] = TRUE])
  <2>1. PICK members, s : /\ members = ActiveMembers(joined, active)
                          /\ s = [gen[g] EXCEPT !.pc = "primary", !.members = members]
    OBVIOUS
  <2>2. members # <<>> /\ UNCHANGED clean /\ gen' = [gen EXCEPT ![g] = s]
    BY <1>3, <2>1 DEF ReadMembers
  <2>3. members \in Seq(Users) /\ Distinct(members) /\ 1 <= Len(members)
    <3>1. members \in Seq(Users) /\ Distinct(members)
      BY <2>1, ActiveMembersAre DEF TypeInv, TypedTables
    <3> QED
      BY <2>2, <3>1
  <2>4. TypedRun(gen[g])
    BY DEF TypeInv, TypedRuns
  <2>5. TypedRun(s) /\ s.pc = "primary"
    BY <1>1, <2>1, <2>2, <2>3, <2>4 DEF TypedRun, WellFormed, Idle, Counting
  <2>6. TypedRuns'
    BY <1>1, <2>2, <2>5, RunsBecome DEF Provided, RowsStay, TypeInv, tables
  <2> QED
    BY <1>1, <2>2, <2>6 DEF TypeInv, TypedTables, tables
<1> QED
  BY <1>2, <1>3

\* A read whose error would be dropped, lost or not.
LEMMA TypeReads ==
    ASSUME TypeInv, GenerationInv, NEW g \in Slots, NEW s, NEW read, Reads(g, s, read), TypedRun(s), Provided(s)
    PROVE  TypeInv'
<1>1. UNCHANGED <<now, tables, held, clean>> /\ settled' \in {settled, None} /\ gen' = [gen EXCEPT ![g] = s]
  BY DEF Reads
<1>2. TypedRuns'
  BY <1>1, RunsBecome DEF Provided, RowsStay, TypeInv, tables
<1> QED
  BY <1>1, <1>2 DEF TypeInv, TypedTables, tables

LEMMA TypeCounts ==
    ASSUME TypeInv, GenerationInv, NEW g \in Slots, CountPrimary(g) \/ CountSecondary(g)
    PROVE  TypeInv'
<1>1. PICK r : r = gen[g] /\ TypedRun(r)
  BY DEF TypeInv, TypedRuns
<1>2. \A u : PrimaryWeeks(u, Before(r.from)) \in Nat /\ SecondaryWeeks(u, Before(r.from)) \in Nat
  <2>1. PICK S : S = Before(r.from) /\ S \subseteq Weeks
    BY DEF Before
  <2> QED
    BY <2>1, ServedWeeks
<1>3. PICK n \in Nat : n = Len(r.members) /\ r.members \in Seq(Users)
  <2>1. PICK m : m = r.members /\ m \in Seq(Users)
    BY <1>1 DEF TypedRun
  <2> QED
    BY <2>1
<1>4. ASSUME NEW s, NEW u, PrimaryRead(g, s, u) PROVE TypeInv'
  <2>1. r.pc = "primary" /\ s.pc = "secondary" /\ Reads(g, s, "counts") /\ s.at = r.at
    BY <1>1, <1>4 DEF PrimaryRead
  <2>2. s.primaries \in [Users -> Nat]
    <3>1. PICK c \in [Users -> Nat] : c = r.primaries
      BY <1>1 DEF TypedRun
    <3>2. PICK k \in Nat : k = PrimaryWeeks(u, Before(r.from))
      BY <1>2
    <3>3. s.primaries = [c EXCEPT ![u] = k] \/ s.primaries = c
      BY <1>1, <1>4, <3>1, <3>2 DEF PrimaryRead
    <3> QED
      BY <3>1, <3>2, <3>3
  <2>3. TypedRun(s)
    BY <1>1, <1>4, <2>1, <2>2 DEF PrimaryRead, Reads, TypedRun, Same, Counting
  <2>4. Provided(s)
    BY <2>1 DEF Provided
  <2> QED
    BY <2>1, <2>3, <2>4, TypeReads
<1>5. ASSUME NEW s, NEW u, SecondaryRead(g, s, u) PROVE TypeInv'
  <2>1. /\ r.pc = "secondary" /\ Reads(g, s, "counts") /\ s.at = r.at + 1
        /\ s.pc = IF r.at < n THEN "primary" ELSE "schedule"
    BY <1>1, <1>3, <1>5 DEF SecondaryRead
  <2>2. s.secondaries \in [Users -> Nat]
    <3>1. PICK c \in [Users -> Nat] : c = r.secondaries
      BY <1>1 DEF TypedRun
    <3>2. PICK k \in Nat : k = SecondaryWeeks(u, Before(r.from))
      BY <1>2
    <3>3. s.secondaries = [c EXCEPT ![u] = k] \/ s.secondaries = c
      BY <1>1, <1>5, <3>1, <3>2 DEF SecondaryRead
    <3> QED
      BY <3>1, <3>2, <3>3
  <2>3. r.at \in Nat \ {0} /\ r.at <= n /\ s.members = r.members
    BY <1>1, <1>3, <2>1 DEF TypedRun, Reads
  <2>4. /\ s.pc \in {"primary", "schedule"} /\ s.at \in Nat \ {0}
        /\ s.pc = "primary" => s.at <= n
        /\ s.pc = "schedule" => s.at = n + 1
    <3>1. PICK at \in Nat : at = r.at
      BY <2>3
    <3>2. CASE at < n
      BY <2>1, <3>1, <3>2
    <3>3. CASE at = n
      BY <2>1, <3>1, <3>3
    <3> QED
      BY <2>3, <3>1, <3>2, <3>3
  <2>5. TypedRun(s)
    BY <1>1, <1>3, <1>5, <2>1, <2>2, <2>3, <2>4 DEF SecondaryRead, Reads, TypedRun, Same, Counting
  <2>6. Provided(s)
    BY <2>4 DEF Provided
  <2> QED
    BY <2>1, <2>5, <2>6, TypeReads
<1> QED
  BY <1>4, <1>5, CountPrimaryIs, CountSecondaryIs

LEMMA TypeReadSchedule ==
    ASSUME TypeInv, GenerationInv, NEW g \in Slots, ReadSchedule(g)
    PROVE  TypeInv'
<1> DEFINE L == [w \in Weeks |-> LockedRow(g, w)]
           s == [gen[g] EXCEPT !.pc = "look back", !.locked = L]
<1>1. UNCHANGED <<now, tables, history>> /\ gen[g].pc = "schedule" /\ gen' = [gen EXCEPT ![g] = s]
  BY DEF ReadSchedule
<1>2. TypedRun(gen[g]) /\ gen[g].week = gen[g].from
  BY <1>1 DEF TypeInv, TypedRuns, GenerationInv, Reading, TypedRun, WellFormed
<1>3. schedule \in [Weeks -> Rows \union {None}]
  BY DEF TypeInv, TypedTables
<1>4. L \in [Weeks -> Rows \union {None}] /\ \A w \in Weeks : L[w] # None => schedule[w] # None
  BY <1>3 DEF LockedRow
<1> HIDE DEF L
<1>5. TypedRun(s) /\ s.pc = "look back" /\ s.week = s.from /\ s.locked = L
  BY <1>1, <1>2, <1>4 DEF TypedRun, WellFormed, Idle, Counting
<1> HIDE DEF s
<1>6. PICK r : r = s
  OBVIOUS
<1>7. \A w \in Weeks : r.locked[w] # None => schedule'[w] # None
  BY <1>1, <1>4, <1>5, <1>6 DEF tables
<1>8. Provided(r)'
  <2>1. \A w \in Weeks : w \in r.from .. (r.from + r.n - 1) => ~(w < r.week)
    <3>1. PICK from \in Nat, n \in Nat : from = r.from /\ n = r.n /\ r.week = from
      BY <1>5, <1>6, WindowNumbers
    <3>2. \A w \in Weeks : w \in from .. (from + n - 1) => ~(w < from)
      BY <3>1, WeeksAreFinite
    <3> QED
      BY <3>1, <3>2
  <2> QED
    BY <1>5, <1>6, <1>7, <2>1 DEF Provided
<1>9. TypedRuns'
  BY <1>1, <1>5, <1>6, <1>8, RunsBecome DEF RowsStay, TypeInv, tables
<1> QED
  BY <1>1, <1>9 DEF TypeInv, TypedTables, tables, history

LEMMA TypeLookBack ==
    ASSUME TypeInv, GenerationInv, NEW g \in Slots, LookBack(g)
    PROVE  TypeInv'
<1>1. PICK r : r = gen[g] /\ TypedRun(r) /\ Provided(r)
  BY DEF TypeInv, TypedRuns
<1>2. PICK s, p : WeekRead(g, s, p)
  BY LookBackIs
<1>3. /\ r.pc = "look back" /\ s.pc \in {"look back", "assign"} /\ Reads(g, s, "look back")
      /\ s.at = r.at /\ s.primaries = r.primaries /\ s.secondaries = r.secondaries
  BY <1>1, <1>2 DEF WeekRead
<1>4. s.last \in Anyone /\ s.consecutive \in Nat
  <2>1. schedule \in [Weeks -> Rows \union {None}]
    BY DEF TypeInv, TypedTables
  <2>2. \A w : PrimaryOf(w) \in Anyone
    BY <2>1 DEF PrimaryOf, Rows, Anyone
  <2>3. r.last \in Anyone /\ r.consecutive \in Nat
    BY <1>1 DEF TypedRun
  <2>4. s.last \in {r.last, p} /\ s.consecutive \in {r.consecutive, r.consecutive + 1} /\ p \in Anyone
    BY <1>1, <1>2, <2>2 DEF WeekRead
  <2> QED
    BY <2>3, <2>4
<1>5. TypedRun(s)
  BY <1>1, <1>3, <1>4 DEF Reads, TypedRun, Same, Counting
<1>6. Provided(s)
  BY <1>1, <1>3 DEF Provided, Reads, Same
<1> QED
  BY <1>1, <1>3, <1>5, <1>6, TypeReads

\* The fields that passing a week does not change.
Like(r, s) ==
    /\ DOMAIN r = DOMAIN s /\ r.pc = s.pc /\ r.from = s.from /\ r.n = s.n /\ r.week = s.week
    /\ r.members = s.members /\ r.at = s.at /\ r.locked = s.locked /\ r.lost = s.lost

LEMMA FollowTyped ==
    ASSUME NEW s, TypedRun(s), s.pc = "assign", NEW p \in Anyone
    PROVE  TypedRun(Follow(s, p))
<1>1. CASE p = None
  BY <1>1 DEF Follow
<1>2. CASE p # None
  <2>1. PICK k \in Nat : k = IF s.last = p THEN s.consecutive + 1 ELSE 1
    BY DEF TypedRun
  <2>2. PICK r : r = [s EXCEPT !.last = p, !.consecutive = k]
    OBVIOUS
  <2>3. r = Follow(s, p)
    BY <1>2, <2>1, <2>2 DEF Follow
  <2>4. r.last = p /\ r.consecutive = k /\ Like(r, s)
    BY <2>2 DEF TypedRun, WellFormed, Idle, Like
  <2>5. r.primaries = s.primaries /\ r.secondaries = s.secondaries
    BY <2>2 DEF TypedRun, WellFormed, Idle
  <2> QED
    BY <2>3, <2>4, <2>5 DEF TypedRun, WellFormed, Like, Counting
<1> QED
  BY <1>1, <1>2

LEMMA OneMoreTyped ==
    ASSUME NEW served \in [Users -> Nat], NEW u \in Anyone
    PROVE  OneMore(served, u) \in [Users -> Nat]
BY DEF OneMore, Anyone

LEMMA CountedTyped ==
    ASSUME NEW s, TypedRun(s), s.pc = "assign", NEW p \in Anyone, NEW second \in Anyone
    PROVE  TypedRun(Counted(s, p, second))
<1>1. PICK primaries \in [Users -> Nat] : primaries = OneMore(s.primaries, p)
  BY OneMoreTyped DEF TypedRun
<1>2. PICK secondaries \in [Users -> Nat] : secondaries = OneMore(s.secondaries, second)
  BY OneMoreTyped DEF TypedRun
<1>3. Counted(s, p, second) = [s EXCEPT !.primaries = primaries, !.secondaries = secondaries]
  BY <1>1, <1>2 DEF Counted
<1>4. PICK r : r = [s EXCEPT !.primaries = primaries, !.secondaries = secondaries]
  OBVIOUS
<1>5. Like(r, s) /\ r.last = s.last /\ r.consecutive = s.consecutive
  BY <1>4 DEF TypedRun, WellFormed, Idle, Like
<1>6. r.primaries = primaries /\ r.secondaries = secondaries
  BY <1>4 DEF TypedRun, WellFormed, Idle
<1> QED
  BY <1>3, <1>4, <1>5, <1>6 DEF TypedRun, WellFormed, Like, Counting

LEMMA NextWeekTyped ==
    ASSUME NEW s, TypedRun(s), s.pc = "assign", s.week \in s.from .. (s.from + s.n - 1)
    PROVE  LET r == NextWeekOf(s)
           IN /\ TypedRun(r) /\ r.from = s.from /\ r.n = s.n
              /\ \/ r.pc = "assign" /\ r.week = s.week + 1 /\ r.locked = s.locked
                 \/ r.pc = "done" /\ s.week = s.from + s.n - 1
<1>1. CASE s.week < s.from + s.n - 1
  <2>1. PICK r : r = [s EXCEPT !.week = s.week + 1]
    OBVIOUS
  <2>2. NextWeekOf(s) = r
    BY <1>1, <2>1 DEF NextWeekOf
  <2>3. /\ DOMAIN r = DOMAIN s /\ r.pc = s.pc /\ r.from = s.from /\ r.n = s.n /\ r.week = s.week + 1
        /\ r.members = s.members /\ r.at = s.at /\ r.locked = s.locked
        /\ r.last = s.last /\ r.consecutive = s.consecutive
        /\ r.primaries = s.primaries /\ r.secondaries = s.secondaries
    BY <2>1 DEF TypedRun, WellFormed, Idle
  <2>4. WellFormed(r)
    <3>1. s.week + 1 \in Nat /\ {r.from, r.n} \subseteq Nat
      BY <2>3, WindowNumbers
    <3> QED
      BY <2>3, <3>1 DEF TypedRun, WellFormed
  <2>5. TypedRun(r)
    BY <2>3, <2>4 DEF TypedRun, Counting
  <2> QED
    BY <2>2, <2>3, <2>5
<1>2. CASE ~(s.week < s.from + s.n - 1)
  <2>1. s.week = s.from + s.n - 1
    BY <1>2, WindowNumbers
  <2>2. NextWeekOf(s) = [Idle EXCEPT !.pc = "done", !.from = s.from, !.n = s.n, !.members = s.members,
                                 !.lost = s.lost]
    BY <1>2 DEF NextWeekOf
  <2>3. PICK r : r = [Idle EXCEPT !.pc = "done", !.from = s.from, !.n = s.n, !.members = s.members,
                                  !.lost = s.lost]
    OBVIOUS
  <2>4. /\ DOMAIN r = DOMAIN Idle /\ r.pc = "done" /\ r.from = s.from /\ r.n = s.n /\ r.week = Idle.week
        /\ r.members = s.members /\ r.at = Idle.at /\ r.locked = Idle.locked
        /\ r.last = Idle.last /\ r.consecutive = Idle.consecutive
        /\ r.primaries = Idle.primaries /\ r.secondaries = Idle.secondaries
    BY <2>3 DEF Idle
  <2>5. TypedRun(r)
    BY <2>4, IdleIsTyped DEF TypedRun, WellFormed, Counting
  <2> QED
    BY <2>1, <2>2, <2>3, <2>4, <2>5
<1> QED
  BY <1>1, <1>2

\* A week has been passed, and has a row.
LEMMA RunsGoOn ==
    ASSUME TypedRuns, GenerationInv, RowsStay, NEW g \in Slots, gen[g].pc = "assign",
           NEW s, TypedRun(s), Same(s, gen[g]), s.pc = "assign",
           gen' = [gen EXCEPT ![g] = NextWeekOf(s)], schedule'[s.week] # None
    PROVE  TypedRuns'
<1>1. s.week \in s.from .. (s.from + s.n - 1)
  BY DEF GenerationInv, Same, Window
<1>2. PICK r : r = NextWeekOf(s)
  OBVIOUS
<1>3. /\ TypedRun(r) /\ r.from = s.from /\ r.n = s.n
      /\ \/ r.pc = "assign" /\ r.week = s.week + 1 /\ r.locked = s.locked
         \/ r.pc = "done" /\ s.week = s.from + s.n - 1
  BY <1>1, <1>2, NextWeekTyped
<1>4. ASSUME NEW w \in Weeks, w \in s.from .. (s.from + s.n - 1), w <= s.week \/ s.locked[w] # None
      PROVE  schedule'[w] # None
  <2>1. CASE w = s.week
    BY <2>1
  <2>2. CASE w # s.week
    <3>1. w < s.week \/ s.locked[w] # None
      BY <1>4, <2>2, WeeksAreFinite DEF TypedRun, WellFormed
    <3>2. schedule[w] # None
      BY <1>4, <3>1 DEF TypedRuns, Provided, Same
    <3> QED
      BY <3>2 DEF RowsStay
  <2> QED
    BY <2>1, <2>2
<1>5. Provided(r)'
  <2> SUFFICES ASSUME NEW w \in Weeks, w \in r.from .. (r.from + r.n - 1),
                      r.pc = "done" \/ (r.pc = "assign" /\ (w < r.week \/ r.locked[w] # None))
               PROVE  schedule'[w] # None
    <3>1. r.pc \in {"look back", "assign"} <=> r.pc = "assign"
      BY <1>3
    <3> QED
      BY <3>1 DEF Provided
  <2>1. w <= s.week \/ s.locked[w] # None
    <3>1. PICK v \in Nat : v = s.week
      BY WindowNumbers
    <3>2. w \in Nat
      BY WeeksAreFinite
    <3>3. CASE r.pc = "done" /\ v = s.from + s.n - 1
      BY <1>3, <3>1, <3>2, <3>3
    <3>4. CASE r.pc = "assign" /\ r.week = v + 1 /\ r.locked = s.locked
      <4>1. w < v + 1 \/ s.locked[w] # None
        BY <3>4
      <4> QED
        BY <3>1, <3>2, <4>1
    <3> QED
      BY <1>3, <3>1, <3>3, <3>4
  <2> QED
    BY <1>3, <1>4, <2>1
<1> QED
  BY <1>2, <1>3, <1>5, RunsBecome

LEMMA TypeSkipLocked ==
    ASSUME TypeInv, GenerationInv, NEW g \in Slots, SkipLocked(g)
    PROVE  TypeInv'
<1>1. PICK row : /\ row = gen[g].locked[gen[g].week] /\ row # None /\ gen[g].pc = "assign"
                 /\ gen' = [gen EXCEPT ![g] = NextWeekOf(Follow(@, row.primary))]
  BY DEF SkipLocked
<1>2. UNCHANGED <<now, tables, history>>
  BY DEF SkipLocked
<1>3. TypedRun(gen[g]) /\ Provided(gen[g]) /\ gen[g].week \in Window(g)
  BY <1>1 DEF TypeInv, TypedRuns, GenerationInv
<1>4. gen[g].week \in Weeks
  BY <1>1, <1>3, WindowNumbers DEF Window
<1>5. row \in Rows /\ row.primary \in Anyone
  BY <1>1, <1>3, <1>4 DEF TypedRun, Rows
<1>6. PICK s : s = Follow(gen[g], row.primary)
  OBVIOUS
<1>7. TypedRun(s) /\ Same(s, gen[g]) /\ s.pc = "assign"
  <2>1. WellFormed(gen[g])
    BY <1>3 DEF TypedRun
  <2> QED
    BY <1>1, <1>3, <1>5, <1>6, <2>1, FollowTyped, FollowKeeps
<1>8. schedule'[s.week] # None
  BY <1>1, <1>2, <1>3, <1>4, <1>7 DEF Provided, Same, Window, tables
<1>9. TypedRuns'
  BY <1>1, <1>2, <1>6, <1>7, <1>8, RunsGoOn DEF RowsStay, TypeInv, tables
<1> QED
  BY <1>2, <1>9 DEF TypeInv, TypedTables, tables, history

\* Who is assigned: two members, or the only one.
LEMMA AssignedAre ==
    ASSUME NEW s, TypedRun(s), s.pc = "assign", NEW p, p = PickPrimary(s),
           NEW second, second = IF Len(s.members) > 1 THEN PickSecondary(s, p) ELSE None
    PROVE  p \in Users /\ second \in Anyone /\ p # second
<1>1. Listed(s.members) \subseteq Users
  <2>1. PICK m \in Seq(Users) : m = s.members
    BY DEF TypedRun
  <2>2. \A i \in DOMAIN m : m[i] \in Users
    BY <2>1
  <2> QED
    BY <2>1, <2>2 DEF Listed
<1>2. p \in Users
  BY <1>1, PickPrimaryIs, ConstantsAssumption DEF TypedRun
<1>3. CASE Len(s.members) > 1
  <2>1. second \in Listed(s.members) \ {p}
    BY <1>3, PickSecondaryIs DEF TypedRun
  <2> QED
    BY <1>1, <1>2, <2>1 DEF Anyone
<1>4. CASE ~(Len(s.members) > 1)
  BY <1>2, <1>4, ConstantsAssumption DEF Anyone
<1> QED
  BY <1>3, <1>4

LEMMA TypeAssignWeek ==
    ASSUME TypeInv, GenerationInv, NEW g \in Slots, AssignWeek(g)
    PROVE  TypeInv'
<1>1. PICK p, second :
        /\ p = PickPrimary(gen[g])
        /\ second = IF Len(gen[g].members) > 1 THEN PickSecondary(gen[g], p) ELSE None
        /\ schedule' = [schedule EXCEPT ![gen[g].week] =
                          [primary |-> p, secondary |-> second, locked |-> FALSE]]
        /\ gen' = [gen EXCEPT ![g] = NextWeekOf(Counted(Follow(@, p), p, second))]
  BY DEF AssignWeek
<1>2. /\ gen[g].pc = "assign" /\ clean' = Disturbed(g)
      /\ UNCHANGED <<now, joined, active, held, settled, events>>
  BY DEF AssignWeek
<1>3. TypedRun(gen[g]) /\ gen[g].week \in Window(g)
  BY <1>2 DEF TypeInv, TypedRuns, GenerationInv
<1>4. gen[g].week \in Weeks
  BY <1>2, <1>3, WindowNumbers DEF Window
<1>5. p \in Anyone /\ second \in Anyone /\ p # second
  BY <1>1, <1>2, <1>3, AssignedAre DEF Anyone
<1>6. PICK row \in Rows : row = [primary |-> p, secondary |-> second, locked |-> FALSE]
  BY <1>5 DEF Rows
<1>7. schedule' \in [Weeks -> Rows \union {None}] /\ schedule'[gen[g].week] # None /\ RowsStay
  BY <1>1, <1>4, <1>6, ConstantsAssumption DEF TypeInv, TypedTables, RowsStay
<1>8. PICK f : f = Follow(gen[g], p)
  OBVIOUS
<1>9. TypedRun(f) /\ Same(f, gen[g]) /\ f.pc = "assign"
  <2>1. WellFormed(gen[g])
    BY <1>3 DEF TypedRun
  <2> QED
    BY <1>2, <1>3, <1>5, <1>8, <2>1, FollowTyped, FollowKeeps
<1>10. PICK s : s = Counted(f, p, second)
  OBVIOUS
<1>11. TypedRun(s) /\ Same(s, gen[g]) /\ s.pc = "assign"
  <2>1. WellFormed(f)
    BY <1>9 DEF TypedRun
  <2>2. Same(s, gen[g]) /\ s.pc = f.pc
    BY <1>9, <1>10, <2>1, CountedKeeps
  <2>3. TypedRun(s)
    BY <1>5, <1>9, <1>10, CountedTyped
  <2> QED
    BY <1>9, <2>2, <2>3
<1>12. gen' = [gen EXCEPT ![g] = NextWeekOf(s)] /\ schedule'[s.week] # None
  BY <1>1, <1>7, <1>8, <1>10, <1>11 DEF Same
<1>13. TypedRuns'
  BY <1>2, <1>7, <1>11, <1>12, RunsGoOn DEF TypeInv
<1>14. clean' \in [Slots -> BOOLEAN]
  BY <1>2 DEF Disturbed, TypeInv, TypedTables
<1> QED
  BY <1>2, <1>7, <1>13, <1>14 DEF TypeInv, TypedTables
LEMMA TypeRespond ==
    ASSUME TypeInv, GenerationInv, NEW g \in Slots, Respond(g)
    PROVE  TypeInv'
<1>1. /\ gen[g].pc = "done" /\ Ended(g) /\ clean' = [clean EXCEPT ![g] = TRUE]
      /\ settled' = gen[g].from \/ settled' = settled
      /\ UNCHANGED <<now, tables, held, events>>
  BY DEF Respond
<1>2. TypedRun(gen[g])
  BY DEF TypeInv, TypedRuns
<1>3. gen[g].from \in Weeks
  <2>1. PICK from \in Nat \ {0}, n \in Nat \ {0} : from = gen[g].from /\ n = gen[g].n
    BY <1>1, <1>2, WindowNumbers DEF TypedRun
  <2>2. from \in from .. (from + n - 1)
    OBVIOUS
  <2>3. from .. (from + n - 1) \subseteq Weeks
    BY <1>1, <1>2, <2>1, WindowNumbers
  <2> QED
    BY <2>1, <2>2, <2>3
<1>4. settled' \in Weeks \union {None}
  BY <1>1, <1>3 DEF TypeInv, TypedTables
<1>5. TypedRuns'
  BY <1>1, RunsEnd DEF TypeInv, tables
<1> QED
  BY <1>1, <1>4, <1>5 DEF TypeInv, TypedTables, tables

LEMMA TypeGenerateFails ==
    ASSUME TypeInv, GenerationInv, NEW g \in Slots, GenerateFails(g)
    PROVE  TypeInv'
<1>1. TypedRuns'
  BY RunsEnd DEF GenerateFails, TypeInv, tables
<1> QED
  BY <1>1 DEF GenerateFails, TypeInv, TypedTables, tables

LEMMA TypeGenerate ==
    ASSUME TypeInv, GenerationInv, NEW g \in Slots, NEW from \in Nat \ {0}, NEW n \in Nat \ {0},
           Generate(g, from, n)
    PROVE  TypeInv'
<1>1. TypedRuns'
  BY RunsStart DEF Generate, TypeInv, tables
<1> QED
  BY <1>1 DEF Generate, TypeInv, TypedTables, tables

LEMMA TypeChangeMembers ==
    ASSUME TypeInv, GenerationInv, NEW g \in Requests, ChangeMembers(g),
           joined' \in Seq(Users), Distinct(joined'), active' \subseteq Listed(joined')
    PROVE  TypeInv'
<1>1. now \in Nat \ {0} /\ Ahead \in Nat \ {0} /\ g \in Slots
  BY ConstantsAssumption DEF GenerationInv, Slots
<1>2. Started(g, now, Ahead) /\ UNCHANGED <<now, schedule, held>> /\ clean' = Disturbed(g) /\ settled' = None
  BY DEF ChangeMembers
<1>3. TypedRuns'
  BY <1>1, <1>2, RunsStart DEF TypeInv
<1>4. clean' \in [Slots -> BOOLEAN]
  BY <1>2 DEF Disturbed, TypeInv, TypedTables
<1> QED
  BY <1>2, <1>3, <1>4 DEF TypeInv, TypedTables

LEMMA TypeMembers ==
    ASSUME TypeInv, GenerationInv, NEW g \in Requests, NEW u \in Users,
           AddMember(g, u) \/ DeactivateMember(g, u)
    PROVE  TypeInv'
<1>1. joined \in Seq(Users) /\ Distinct(joined) /\ active \subseteq Listed(joined)
  BY DEF TypeInv, TypedTables
<1>2. CASE DeactivateMember(g, u)
  BY <1>1, <1>2, TypeChangeMembers DEF DeactivateMember
<1>3. CASE AddMember(g, u)
  <2>1. /\ ChangeMembers(g) /\ active' = active \union {u}
        /\ joined' = IF \E i \in DOMAIN joined : joined[i] = u THEN joined ELSE Append(joined, u)
    BY <1>3 DEF AddMember
  <2>2. CASE u \in Listed(joined)
    <3>1. joined' = joined /\ active' \subseteq Listed(joined)
      BY <1>1, <2>1, <2>2 DEF Listed
    <3> QED
      BY <1>1, <2>1, <3>1, TypeChangeMembers
  <2>3. CASE u \notin Listed(joined)
    <3>1. joined' = Append(joined, u)
      BY <2>1, <2>3 DEF Listed
    <3>2. /\ joined' \in Seq(Users) /\ Distinct(joined')
          /\ Listed(joined') = Listed(joined) \union {u}
      BY <1>1, <2>3, <3>1, OneMoreMember
    <3>3. active' \subseteq Listed(joined')
      BY <1>1, <2>1, <3>2
    <3> QED
      BY <2>1, <3>2, <3>3, TypeChangeMembers
  <2> QED
    BY <2>2, <2>3
<1> QED
  BY <1>2, <1>3

LEMMA TypeEdited ==
    ASSUME TypeInv, GenerationInv, NEW w \in Weeks, NEW row \in Rows, Edited(w, row),
           held' \in [Weeks -> Rows \union {None}]
    PROVE  TypeInv'
<1>1. /\ schedule' = [schedule EXCEPT ![w] = row] /\ clean' = Disturbed(None) /\ settled' = None
      /\ UNCHANGED <<now, joined, active, gen>>
  BY DEF Edited
<1>2. schedule' \in [Weeks -> Rows \union {None}] /\ RowsStay
  BY <1>1, ConstantsAssumption DEF TypeInv, TypedTables, RowsStay
<1>3. TypedRuns'
  BY <1>1, <1>2 DEF TypeInv, TypedRuns, TypedRun, WellFormed, Provided, RowsStay
<1>4. clean' \in [Slots -> BOOLEAN]
  BY <1>1 DEF Disturbed, TypeInv, TypedTables
<1> QED
  BY <1>1, <1>2, <1>3, <1>4 DEF TypeInv, TypedTables

LEMMA TypeWorks ==
    ASSUME TypeInv, GenerationInv, NEW g \in Slots, Work(g)
    PROVE  TypeInv'
BY TypeReadMembers, TypeCounts, TypeReadSchedule, TypeLookBack, TypeSkipLocked, TypeAssignWeek, TypeRespond, TypeGenerateFails
   DEF Work

LEMMA TypeStep == TypeInv /\ GenerationInv /\ [Next]_vars => TypeInv'
<1> SUFFICES ASSUME TypeInv, GenerationInv, [Next]_vars PROVE TypeInv'
  OBVIOUS
<1>1. CASE TopUp
  <2>1. now \in Nat \ {0} /\ Ahead \in Nat \ {0} /\ Worker \in Slots
    BY ConstantsAssumption DEF GenerationInv, Slots
  <2> QED
    BY <1>1, <2>1, TypeGenerate DEF TopUp
<1>2. ASSUME NEW g \in Slots, GenerateOnRequest(g) PROVE TypeInv'
  <2>1. PICK window \in Windows : Generate(g, window.from, window.n)
    BY <1>2 DEF GenerateOnRequest
  <2>2. window.from \in Nat \ {0} /\ window.n \in Nat \ {0}
    BY ConstantsAssumption
  <2> QED
    BY <2>1, <2>2, TypeGenerate
<1>3. ASSUME NEW w \in Weeks, UnlockScheduleWeek(w) PROVE TypeInv'
  <2>1. schedule[w] \in Rows
    BY <1>3 DEF UnlockScheduleWeek, TypeInv, TypedTables
  <2>2. PICK row \in Rows : row = [schedule[w] EXCEPT !.locked = FALSE]
    BY <2>1 DEF Rows
  <2>3. Edited(w, row) /\ held' \in [Weeks -> Rows \union {None}]
    BY <1>3, <2>2 DEF UnlockScheduleWeek, TypeInv, TypedTables
  <2> QED
    BY <2>3, TypeEdited
<1>4. ASSUME NEW edit \in Edits, UpdateScheduleWeek(edit.week, edit.row) PROVE TypeInv'
  <2>1. edit.week \in Weeks /\ edit.row \in Rows
    BY ConstantsAssumption
  <2>2. PICK w \in Weeks, row \in Rows : w = edit.week /\ row = edit.row
    BY <2>1
  <2>3. Edited(w, row) /\ held' \in [Weeks -> Rows \union {None}]
    BY <1>4, <2>2 DEF UpdateScheduleWeek, TypeInv, TypedTables
  <2> QED
    BY <2>3, TypeEdited
<1>5. CASE WeekPasses
  <2>1. now' \in Weeks
    BY <1>5, ConstantsAssumption DEF WeekPasses, Weeks, TypeInv, TypedTables
  <2>2. UNCHANGED <<tables, gen, history>>
    BY <1>5 DEF WeekPasses
  <2> QED
    BY <2>1, <2>2 DEF TypeInv, TypedTables, TypedRuns, TypedRun, WellFormed, Provided, tables, history
<1>6. CASE UNCHANGED vars
  BY <1>6 DEF vars, tables, history, TypeInv, TypedTables, TypedRuns, TypedRun, WellFormed, Provided
<1> QED
  BY <1>1, <1>2, <1>3, <1>4, <1>5, <1>6, TypeMembers, TypeWorks DEF Next

LEMMA TypesAre == TypeInv /\ GenerationInv => TypeOK
<1> SUFFICES ASSUME TypeInv, GenerationInv PROVE TypeOK
  OBVIOUS
<1>1. Listed(joined) \subseteq Users
  <2>1. \A i \in DOMAIN joined : joined[i] \in Users
    BY DEF TypeInv, TypedTables
  <2> QED
    BY <2>1 DEF Listed
<1>2. Cardinality(Listed(joined)) = Len(joined)
  BY MembersCounted DEF TypeInv, TypedTables
<1>3. ASSUME NEW g \in Slots
      PROVE  /\ gen[g].pc \in {"idle", "members", "primary", "secondary", "schedule", "look back",
                               "assign", "done"}
             /\ gen[g].pc \in {"primary", "secondary"} => gen[g].at \in DOMAIN gen[g].members
             /\ gen[g].pc = "assign" => gen[g].week \in Window(g)
             /\ gen[g].pc = "done" => \A w \in Window(g) : schedule[w] # None
             /\ gen[g].last \in Anyone
             /\ gen[g].locked \in [Weeks -> Rows \union {None}]
  <2>1. TypedRun(gen[g]) /\ Provided(gen[g])
    BY DEF TypeInv, TypedRuns
  <2>2. gen[g].pc = "done" => \A w \in Window(g) : w \in Weeks
    BY <2>1, WindowNumbers DEF Window
  <2>3. gen[g].pc \in {"primary", "secondary"} => gen[g].at \in DOMAIN gen[g].members
    <3>1. PICK m, at : m = gen[g].members /\ at = gen[g].at
      OBVIOUS
    <3>2. /\ m \in Seq(Users) /\ at \in Nat \ {0}
          /\ gen[g].pc \in {"primary", "secondary"} => at <= Len(m)
      BY <2>1, <3>1 DEF TypedRun
    <3> QED
      BY <3>1, <3>2
  <2> QED
    BY <2>1, <2>2, <2>3 DEF TypedRun, GenerationInv, Provided, Window, Counting
<1> QED
  BY <1>1, <1>2, <1>3 DEF TypeOK, TypeInv, TypedTables

\* For any members, weeks, windows, edits and slots for generations: no week has the same person as
\* primary and secondary or neither (the CHECK of migration 000016), every member is listed once, a
\* generation stays in its window, and it returns only when every week of it has a row
\* (roster/scheduler.go:76-126; roster/store.go:264-290).
THEOREM TypeCorrect == Spec => []TypeOK
<1>1. Init => GenerationInv /\ LockInv /\ TypeInv
  BY LocksInit, TypeInit
<1>2. GenerationInv /\ LockInv /\ TypeInv /\ [Next]_vars => (GenerationInv /\ LockInv /\ TypeInv)'
  BY LocksStep, TypeStep
<1> QED
  BY <1>1, <1>2, TypesAre, PTL DEF Spec
-----------------------------------------------------------------------------
(* What a generation knows.                                                *)

Served(u, w) == PrimaryWeeks(u, Before(w))
Seconded(u, w) == SecondaryWeeks(u, Before(w))

\* Whether somebody has been primary for the k weeks before w.
LongRun(w, k) == PrimaryOf(w - 1) # None /\ k <= w - 1 /\ Unbroken(w - 1, k)

\* The run that a generation tracks is exactly the one before its week, up to the limit.
TracksExactly(w, last, consecutive) ==
    /\ last = PrimaryOf(w - 1)
    /\ \A k \in 1 .. MaxConsecutive : k <= consecutive <=> LongRun(w, k)

\* The first members of the list, and the counts if only those in S have been counted.
FirstOf(members, k) == {members[i] : i \in {j \in DOMAIN members : j < k}}
DutyOf(S, w) == [u \in Users |-> IF u \in S THEN Served(u, w) ELSE 0]
SecondDutyOf(S, w) == [u \in Users |-> IF u \in S THEN Seconded(u, w) ELSE 0]

\* The counts read so far are those of the weeks before the window.
KnownCounts(s) ==
    /\ s.primaries = DutyOf(FirstOf(s.members, IF s.pc = "secondary" THEN s.at + 1 ELSE s.at), s.from)
    /\ s.secondaries = SecondDutyOf(FirstOf(s.members, s.at), s.from)

\* The run found so far is one before the window, and short of the limit.
Looking(s) ==
    /\ s.consecutive < MaxConsecutive
    /\ \/ s.last = None /\ s.consecutive = 0
       \/ s.last # None /\ s.last = PrimaryOf(s.from - 1) /\ s.consecutive # 0 /\ LongRun(s.from, s.consecutive)

Knowing == {"primary", "secondary", "schedule", "look back"}

LEMMA FirstOfList ==
    ASSUME NEW m \in Seq(Users)
    PROVE  /\ FirstOf(m, 1) = {} /\ FirstOf(m, Len(m) + 1) = Listed(m)
           /\ \A k \in Nat \ {0} : k <= Len(m) => FirstOf(m, k + 1) = FirstOf(m, k) \union {m[k]}
<1>1. DOMAIN m = 1 .. Len(m) /\ Len(m) \in Nat
  OBVIOUS
<1>2. FirstOf(m, 1) = {}
  <2>1. \A j \in DOMAIN m : ~(j < 1)
    BY <1>1
  <2> QED
    BY <2>1 DEF FirstOf
<1>3. FirstOf(m, Len(m) + 1) = Listed(m)
  <2>1. \A j \in DOMAIN m : j < Len(m) + 1
    BY <1>1
  <2> QED
    BY <2>1 DEF FirstOf, Listed
<1>4. ASSUME NEW k \in Nat \ {0}, k <= Len(m) PROVE FirstOf(m, k + 1) = FirstOf(m, k) \union {m[k]}
  <2>1. k \in DOMAIN m /\ \A j \in DOMAIN m : j < k + 1 <=> j < k \/ j = k
    BY <1>1, <1>4
  <2> QED
    BY <2>1 DEF FirstOf
<1> QED
  BY <1>2, <1>3, <1>4

\* A count that is not lost is known.
LEMMA CountsKnown ==
    ASSUME TypeInv, GenerationInv, NEW g \in Slots, CountPrimary(g) \/ CountSecondary(g)
    PROVE  \E s : /\ Reads(g, s, "counts") /\ gen[g].pc \in {"primary", "secondary"}
                  /\ s.pc \in {"primary", "secondary", "schedule"}
                  /\ KnownCounts(gen[g]) => KnownCounts(s) \/ ("counts" \in s.lost /\ settled' = None)
<1>1. PICK r : r = gen[g] /\ TypedRun(r)
  BY DEF TypeInv, TypedRuns
<1>first. PICK from : from = r.from
  OBVIOUS
<1>2. PICK m \in Seq(Users), at \in Nat \ {0} : m = r.members /\ at = r.at
  BY <1>1 DEF TypedRun
<1>3. CASE CountPrimary(g)
  <2>1. PICK s, u : PrimaryRead(g, s, u)
    BY <1>3, CountPrimaryIs
  <2>2. /\ Reads(g, s, "counts") /\ r.pc = "primary" /\ s.pc = "secondary" /\ u = m[at]
        /\ s.at = at /\ s.secondaries = r.secondaries /\ s.members = m /\ s.from = from
    BY <1>1, <1>first, <1>2, <2>1 DEF PrimaryRead, Reads, Same
  <2>3. at <= Len(m)
    BY <1>1, <1>first, <1>2, <2>2 DEF TypedRun
  <2>4. u \in Users
    BY <1>first, <1>2, <2>2, <2>3
  <2>5. ASSUME KnownCounts(r), s.primaries = [r.primaries EXCEPT ![u] = PrimaryWeeks(u, Before(from))]
        PROVE  KnownCounts(s)
    <3>1. PICK S : S = FirstOf(m, at)
      OBVIOUS
    <3>2. r.primaries = DutyOf(S, from) /\ r.secondaries = SecondDutyOf(S, from)
      BY <1>first, <1>2, <2>2, <2>5, <3>1 DEF KnownCounts
    <3>3. s.primaries = DutyOf(S \union {u}, from)
      <4>1. DutyOf(S \union {u}, from) = [DutyOf(S, from) EXCEPT ![u] = Served(u, from)]
        BY <2>4 DEF DutyOf, SecondDutyOf
      <4>2. Served(u, from) = PrimaryWeeks(u, Before(from))
        BY DEF Served
      <4> QED
        BY <2>5, <3>2, <4>1, <4>2
    <3>4. FirstOf(m, at + 1) = S \union {u}
      BY <1>first, <1>2, <2>2, <2>3, <3>1, FirstOfList
    <3> QED
      BY <2>2, <3>1, <3>2, <3>3, <3>4 DEF KnownCounts
  <2>6. \/ s.primaries = [r.primaries EXCEPT ![u] = PrimaryWeeks(u, Before(from))]
        \/ "counts" \in s.lost /\ settled' = None
    BY <1>1, <1>first, <1>2, <2>1 DEF PrimaryRead
  <2> QED
    BY <1>1, <2>2, <2>5, <2>6
<1>4. CASE CountSecondary(g)
  <2>1. PICK s, u : SecondaryRead(g, s, u)
    BY <1>4, CountSecondaryIs
  <2>2. /\ Reads(g, s, "counts") /\ r.pc = "secondary" /\ s.pc \in {"primary", "schedule"} /\ u = m[at]
        /\ s.at = at + 1 /\ s.primaries = r.primaries /\ s.members = m /\ s.from = from
    BY <1>1, <1>first, <1>2, <2>1 DEF SecondaryRead, Reads, Same
  <2>3. at <= Len(m)
    BY <1>1, <1>first, <1>2, <2>2 DEF TypedRun
  <2>4. u \in Users
    BY <1>first, <1>2, <2>2, <2>3
  <2>5. ASSUME KnownCounts(r), s.secondaries = [r.secondaries EXCEPT ![u] = SecondaryWeeks(u, Before(from))]
        PROVE  KnownCounts(s)
    <3>1. PICK S : S = FirstOf(m, at)
      OBVIOUS
    <3>2. r.primaries = DutyOf(FirstOf(m, at + 1), from) /\ r.secondaries = SecondDutyOf(S, from)
      BY <1>first, <1>2, <2>2, <2>5, <3>1 DEF KnownCounts
    <3>3. s.secondaries = SecondDutyOf(S \union {u}, from)
      <4>1. SecondDutyOf(S \union {u}, from) = [SecondDutyOf(S, from) EXCEPT ![u] = Seconded(u, from)]
        BY <2>4 DEF DutyOf, SecondDutyOf
      <4>2. Seconded(u, from) = SecondaryWeeks(u, Before(from))
        BY DEF Seconded
      <4> QED
        BY <2>5, <3>2, <4>1, <4>2
    <3>4. FirstOf(m, at + 1) = S \union {u}
      BY <1>first, <1>2, <2>2, <2>3, <3>1, FirstOfList
    <3> QED
      BY <2>2, <3>2, <3>3, <3>4 DEF KnownCounts
  <2>6. \/ s.secondaries = [r.secondaries EXCEPT ![u] = SecondaryWeeks(u, Before(from))]
        \/ "counts" \in s.lost /\ settled' = None
    BY <1>1, <1>first, <1>2, <2>1 DEF SecondaryRead
  <2> QED
    BY <1>1, <2>2, <2>5, <2>6
<1> QED
  BY <1>3, <1>4

\* Once the schedule is to be read every member has been counted.
LEMMA AllKnown ==
    ASSUME NEW s, TypedRun(s), s.pc \in {"schedule", "look back"}, KnownCounts(s)
    PROVE  s.primaries = DutyOf(Listed(s.members), s.from) /\ s.secondaries = SecondDutyOf(Listed(s.members), s.from)
<1>1. PICK m \in Seq(Users) : m = s.members /\ s.at = Len(m) + 1
  BY DEF TypedRun
<1>2. FirstOf(m, s.at) = Listed(m)
  BY <1>1, FirstOfList
<1> QED
  BY <1>1, <1>2 DEF KnownCounts

LEMMA RunsAreNested ==
    ASSUME NEW from, NEW k \in Nat, NEW l \in Nat, from \in Nat, l <= k, LongRun(from, k)
    PROVE  LongRun(from, l)
<1>1. 1 .. l \subseteq 1 .. k /\ l <= from - 1
  BY DEF LongRun
<1> QED
  BY <1>1 DEF LongRun, Unbroken

\* The look back ends with the run before the window, cut off at the limit.
LEMMA LooksBackTo ==
    ASSUME NEW from \in Nat \ {0}, NEW c \in Nat, c < MaxConsecutive, NEW last, NEW p, p = PrimaryOf(from - (c + 1)),
           \/ last = None /\ c = 0
           \/ last # None /\ last = PrimaryOf(from - 1) /\ c # 0 /\ LongRun(from, c)
    PROVE  /\ p = None \/ (c + 1 > 1 /\ p # last) => TracksExactly(from, last, c)
           /\ ~(p = None \/ (c + 1 > 1 /\ p # last)) =>
                /\ p # None /\ p = PrimaryOf(from - 1) /\ LongRun(from, c + 1)
                /\ c + 1 = MaxConsecutive => TracksExactly(from, p, c + 1)
<1>1. MaxConsecutive \in Nat \ {0} /\ from - 1 \in Nat
  BY ConstantsAssumption
<1>2. ASSUME p = None \/ (c + 1 > 1 /\ p # last) PROVE TracksExactly(from, last, c)
  <2>1. CASE c = 0
    <3>1. last = None /\ PrimaryOf(from - 1) = None
      BY <1>2, <2>1
    <3>2. \A k \in 1 .. MaxConsecutive : ~(k <= c) /\ ~LongRun(from, k)
      BY <1>1, <2>1, <3>1 DEF LongRun
    <3> QED
      BY <3>1, <3>2 DEF TracksExactly
  <2>2. CASE c # 0
    <3>1. last # None /\ last = PrimaryOf(from - 1) /\ LongRun(from, c) /\ p # last
      BY <1>2, <2>2
    <3>2. ASSUME NEW k \in 1 .. MaxConsecutive, k <= c PROVE LongRun(from, k)
      BY <1>1, <3>1, <3>2, RunsAreNested
    <3>3. ASSUME NEW k \in 1 .. MaxConsecutive, LongRun(from, k), ~(k <= c) PROVE FALSE
      <4>1. c + 1 \in 1 .. k /\ from - 1 + 1 - (c + 1) = from - (c + 1)
        BY <1>1, <3>3
      <4>2. PrimaryOf(from - (c + 1)) = PrimaryOf(from - 1)
        BY <3>3, <4>1 DEF LongRun, Unbroken
      <4> QED
        BY <3>1, <4>2
    <3> QED
      BY <3>1, <3>2, <3>3 DEF TracksExactly
  <2> QED
    BY <2>1, <2>2
<1>3. ASSUME ~(p = None \/ (c + 1 > 1 /\ p # last))
      PROVE  /\ p # None /\ p = PrimaryOf(from - 1) /\ LongRun(from, c + 1)
             /\ c + 1 = MaxConsecutive => TracksExactly(from, p, c + 1)
  <2>1. p # None /\ p = PrimaryOf(from - 1)
    <3>1. CASE c = 0
      BY <1>3, <3>1
    <3>2. CASE c # 0
      BY <1>3, <3>2
    <3> QED
      BY <3>1, <3>2
  <2>2. c + 1 <= from - 1
    <3>1. from - (c + 1) \in Weeks
      BY <2>1 DEF PrimaryOf
    <3> QED
      BY <1>1, <3>1, ConstantsAssumption DEF Weeks
  <2>3. ASSUME NEW i \in 1 .. c + 1 PROVE PrimaryOf(from - 1 + 1 - i) = PrimaryOf(from - 1)
    <3>1. CASE i = c + 1
      <4>1. from - 1 + 1 - i = from - (c + 1)
        BY <1>1, <3>1
      <4> QED
        BY <2>1, <4>1
    <3>2. CASE i # c + 1
      <4>1. c # 0 /\ i \in 1 .. c
        BY <3>2
      <4>2. LongRun(from, c)
        BY <4>1
      <4> QED
        BY <4>1, <4>2 DEF LongRun, Unbroken
    <3> QED
      BY <3>1, <3>2
  <2>4. LongRun(from, c + 1)
    BY <2>1, <2>2, <2>3 DEF LongRun, Unbroken
  <2>5. ASSUME c + 1 = MaxConsecutive PROVE TracksExactly(from, p, c + 1)
    <3>1. \A k \in 1 .. MaxConsecutive : k <= c + 1 /\ LongRun(from, k)
      BY <1>1, <2>4, <2>5, RunsAreNested
    <3> QED
      BY <2>1, <3>1 DEF TracksExactly
  <2> QED
    BY <2>1, <2>4, <2>5
<1> QED
  BY <1>2, <1>3

LEMMA LookBackKnown ==
    ASSUME TypeInv, GenerationInv, NEW g \in Slots, LookBack(g)
    PROVE  \E s : /\ Reads(g, s, "look back") /\ gen[g].pc = "look back" /\ s.pc \in {"look back", "assign"}
                  /\ s.at = gen[g].at /\ s.primaries = gen[g].primaries /\ s.secondaries = gen[g].secondaries
                  /\ Looking(gen[g]) => \/ s.pc = "look back" /\ Looking(s)
                                        \/ s.pc = "assign" /\ TracksExactly(s.from, s.last, s.consecutive)
                                        \/ "look back" \in s.lost /\ settled' = None
<1>1. PICK r : r = gen[g] /\ TypedRun(r)
  BY DEF TypeInv, TypedRuns
<1>2. PICK s, p : WeekRead(g, s, p)
  BY LookBackIs
<1>last. PICK last : last = r.last
  OBVIOUS
<1>3. PICK from \in Nat \ {0}, c \in Nat : from = r.from /\ c = r.consecutive
  BY <1>1, WindowNumbers DEF TypedRun
<1>4. /\ Reads(g, s, "look back") /\ r.pc = "look back" /\ s.pc \in {"look back", "assign"}
      /\ s.at = r.at /\ s.primaries = r.primaries /\ s.secondaries = r.secondaries
      /\ p = PrimaryOf(from - (c + 1)) /\ s.from = from
  BY <1>1, <1>2, <1>last, <1>3 DEF WeekRead, Reads, Same
<1>5. ASSUME Looking(r)
      PROVE  \/ s.pc = "look back" /\ Looking(s)
             \/ s.pc = "assign" /\ TracksExactly(s.from, s.last, s.consecutive)
             \/ "look back" \in s.lost /\ settled' = None
  <2>1. /\ c < MaxConsecutive
        /\ \/ last = None /\ c = 0
           \/ last # None /\ last = PrimaryOf(from - 1) /\ c # 0 /\ LongRun(from, c)
    BY <1>last, <1>3, <1>5 DEF Looking
  <2>2. /\ p = None \/ (c + 1 > 1 /\ p # last) => TracksExactly(from, last, c)
        /\ ~(p = None \/ (c + 1 > 1 /\ p # last)) =>
             /\ p # None /\ p = PrimaryOf(from - 1) /\ LongRun(from, c + 1)
             /\ c + 1 = MaxConsecutive => TracksExactly(from, p, c + 1)
    <3>1. p = PrimaryOf(from - (c + 1))
      BY <1>4
    <3> QED
      BY <2>1, <3>1, LooksBackTo
  <2>3. CASE /\ p = None \/ (c + 1 > 1 /\ p # last)
             /\ s.pc = "assign" /\ s.last = last /\ s.consecutive = c
    BY <1>4, <2>2, <2>3
  <2>4. CASE /\ ~(p = None \/ (c + 1 > 1 /\ p # last))
             /\ s.pc = IF c + 1 < MaxConsecutive THEN "look back" ELSE "assign"
             /\ s.last = p /\ s.consecutive = c + 1
    <3>1. CASE c + 1 < MaxConsecutive
      <4>1. p # None /\ p = PrimaryOf(from - 1) /\ LongRun(from, c + 1)
        BY <2>2, <2>4
      <4>2. s.pc = "look back" /\ s.last = p /\ s.consecutive = c + 1 /\ c + 1 # 0 /\ s.from = from
        <5>1. s.pc = "look back"
          BY <2>4, <3>1
        <5>2. s.last = p /\ s.consecutive = c + 1
          BY <2>4
        <5>3. c + 1 # 0
          OBVIOUS
        <5> QED
          BY <1>4, <5>1, <5>2, <5>3
      <4> QED
        BY <3>1, <4>1, <4>2 DEF Looking
    <3>2. CASE ~(c + 1 < MaxConsecutive)
      <4>1. c + 1 = MaxConsecutive
        BY <2>1, <3>2, ConstantsAssumption
      <4> QED
        BY <1>4, <2>2, <2>4, <3>2, <4>1
    <3> QED
      BY <3>1, <3>2
  <2>5. CASE "look back" \in s.lost /\ settled' = None
    BY <2>5
  <2> QED
    BY <1>1, <1>2, <1>last, <1>3, <2>3, <2>4, <2>5 DEF WeekRead
<1> QED
  BY <1>1, <1>4, <1>5

\* What is known is about the schedule.
LEMMA KnownSame ==
    ASSUME UNCHANGED schedule
    PROVE  /\ \A S, w : DutyOf(S, w)' = DutyOf(S, w) /\ SecondDutyOf(S, w)' = SecondDutyOf(S, w)
           /\ \A w, k : LongRun(w, k)' <=> LongRun(w, k)
           /\ \A w, last, consecutive : TracksExactly(w, last, consecutive)' <=> TracksExactly(w, last, consecutive)
<1>1. \A u, w : Served(u, w)' = Served(u, w) /\ Seconded(u, w)' = Seconded(u, w)
  BY DEF Served, Seconded, PrimaryWeeks, SecondaryWeeks, Before
<1>2. \A w : PrimaryOf(w)' = PrimaryOf(w)
  BY DEF PrimaryOf
<1>3. \A w, k : LongRun(w, k)' <=> LongRun(w, k)
  BY <1>2 DEF LongRun, Unbroken
<1>4. \A S, w : DutyOf(S, w)' = DutyOf(S, w) /\ SecondDutyOf(S, w)' = SecondDutyOf(S, w)
  BY <1>1 DEF DutyOf, SecondDutyOf
<1>5. \A w, last, consecutive : TracksExactly(w, last, consecutive)' <=> TracksExactly(w, last, consecutive)
  BY <1>2, <1>3 DEF TracksExactly
<1> QED
  BY <1>3, <1>4, <1>5

LEMMA KnowingSame ==
    ASSUME UNCHANGED schedule, NEW s
    PROVE  (KnownCounts(s) => KnownCounts(s)') /\ (Looking(s) => Looking(s)')
<1>1. \A w : PrimaryOf(w)' = PrimaryOf(w)
  BY DEF PrimaryOf
<1>2. KnownCounts(s) => KnownCounts(s)'
  BY KnownSame DEF KnownCounts, FirstOf
<1>3. Looking(s) => Looking(s)'
  BY <1>1, KnownSame DEF Looking
<1> QED
  BY <1>2, <1>3

-----------------------------------------------------------------------------
(* A generation that is alone.                                             *)

\* The first week a generation has not passed.
Reached(s) == IF s.pc = "done" THEN s.from + s.n ELSE s.week

\* The weeks locked when the schedule was read are still as they were.
Kept(s) == \A w \in Weeks : s.locked[w] # None => schedule[w] = s.locked[w] /\ schedule[w].locked

\* A run up to the week before w is known.
Tracked(w, last, consecutive) ==
    PrimaryOf(w - 1) # None =>
      \A k \in 1 .. w - 1 :
        k <= MaxConsecutive /\ Unbroken(w - 1, k) => last = PrimaryOf(w - 1) /\ k <= consecutive

Changed(w) == w > MaxConsecutive => \E i \in 1 .. MaxConsecutive : PrimaryOf(w - i) # PrimaryOf(w)

NoRun(from, w) == \A v \in Weeks : from <= v /\ v < w /\ ~schedule[v].locked => Changed(v)

Skipped(from, w) == Cardinality(LockedIn({v \in Weeks : from <= v /\ v < w}))
WithinOf(members, w, d) == \A u, v \in members : Served(u, w) <= Served(v, w) + d

Even(members, from, w) ==
    \A d \in 0 .. LastWeek :
      WithinOf(members, from, d) => WithinOf(members, w, d + 1 + Skipped(from, w))

\* The counts miss the weeks that were skipped.  The last primary is closer to the others than anybody:
\* that is what the limit on consecutive weeks may cost.
Balanced(members, from, w, primaries, last) ==
    \A u \in members :
      /\ primaries[u] <= Served(u, w) /\ Served(u, w) <= primaries[u] + Skipped(from, w)
      /\ last \in members =>
           \A d \in 0 .. LastWeek :
             WithinOf(members, from, d) => Served(u, w) <= Served(last, w) + d + Skipped(from, w)

\* What rests on the counts: the turns.
SoundCounts(s) ==
    /\ s.pc \in Knowing => KnownCounts(s)
    /\ s.pc = "assign" => Balanced(Listed(s.members), s.from, s.week, s.primaries, s.last)
    /\ s.pc \in {"assign", "done"} => Even(Listed(s.members), s.from, Reached(s))

\* What rests on the look back: the limit on consecutive weeks.
SoundRuns(s) ==
    /\ s.pc = "look back" => Looking(s)
    /\ s.pc = "assign" => Tracked(s.week, s.last, s.consecutive)
    /\ s.pc \in {"assign", "done"} /\ Len(s.members) > 1 => NoRun(s.from, Reached(s))

Sound(s) ==
    /\ s.pc \in {"look back", "assign"} => Kept(s)
    /\ "counts" \notin s.lost => SoundCounts(s)
    /\ "look back" \notin s.lost => SoundRuns(s)

AloneInv == \A g \in Slots : clean[g] => Sound(gen[g])

PrimariesIn(u, S) == {v \in S : schedule[v] # None /\ schedule[v].primary = u}

OnlyWeek(w) == schedule'[w] # None /\ \A v \in Weeks : v # w => schedule'[v] = schedule[v]

LEMMA BeforeNext ==
    ASSUME NEW w \in Weeks
    PROVE  Before(w) \subseteq Weeks /\ w \notin Before(w) /\ Before(w + 1) = Before(w) \union {w}
<1>1. w \in Nat /\ \A v \in Weeks : v \in Nat
  BY WeeksAreFinite
<1>2. ~(w < w) /\ \A v \in Weeks : v < w + 1 <=> v < w \/ v = w
  BY <1>1
<1>3. Before(w) \subseteq Weeks /\ w \notin Before(w)
  BY <1>2 DEF Before
<1>4. \A v : v \in Before(w + 1) <=> v \in Before(w) \union {w}
  BY <1>2 DEF Before
<1>5. Before(w + 1) = Before(w) \union {w}
  BY <1>4
<1> QED
  BY <1>3, <1>5

LEMMA OneMoreElement ==
    ASSUME NEW S, S \subseteq Weeks, NEW w \in Weeks, w \notin S
    PROVE  /\ Cardinality(S) \in Nat
           /\ Cardinality(S \union {w}) = Cardinality(S) + 1
<1>1. IsFiniteSet(S)
  BY WeeksAreFinite, FS_Subset
<1> QED
  BY <1>1, FS_AddElement, FS_CardinalityType

\* The weeks before count as they did, and the week that is passed counts for its primary.
LEMMA ServedNext ==
    ASSUME NEW w \in Weeks, OnlyWeek(w), NEW u
    PROVE  /\ Served(u, w)' = Served(u, w) /\ Served(u, w) \in Nat
           /\ Served(u, w + 1)' = IF schedule'[w].primary = u THEN Served(u, w) + 1 ELSE Served(u, w)
<1> DEFINE S == PrimariesIn(u, Before(w))
<1>1. Before(w) \subseteq Weeks /\ w \notin Before(w) /\ Before(w + 1) = Before(w) \union {w}
  BY BeforeNext
<1>2. \A v \in Before(w) : schedule'[v] = schedule[v]
  BY <1>1 DEF OnlyWeek
<1>3. PrimariesIn(u, Before(w))' = S
  BY <1>2 DEF PrimariesIn, Before
<1>4. PrimariesIn(u, Before(w + 1))' = IF schedule'[w].primary = u THEN S \union {w} ELSE S
  BY <1>1, <1>2 DEF PrimariesIn, Before, OnlyWeek
<1>5. S \subseteq Weeks /\ w \notin S
  BY <1>1 DEF PrimariesIn
<1>6. /\ Served(u, w) = Cardinality(S) /\ Served(u, w)' = Cardinality(PrimariesIn(u, Before(w))')
      /\ Served(u, w + 1)' = Cardinality(PrimariesIn(u, Before(w + 1))')
  BY DEF Served, PrimaryWeeks, PrimariesIn
<1> HIDE DEF S
<1>7. Cardinality(S) \in Nat /\ Cardinality(S \union {w}) = Cardinality(S) + 1
  BY <1>5, OneMoreElement
<1> QED
  BY <1>3, <1>4, <1>6, <1>7

LEMMA ServedBefore ==
    ASSUME NEW w \in Weeks, OnlyWeek(w), NEW u, NEW from \in Nat, from <= w
    PROVE  Served(u, from)' = Served(u, from)
<1>1. \A v \in Before(from) : v \in Weeks /\ v # w
  BY WeeksAreFinite DEF Before
<1>2. PrimariesIn(u, Before(from))' = PrimariesIn(u, Before(from))
  BY <1>1 DEF PrimariesIn, OnlyWeek, Before
<1> QED
  BY <1>2 DEF Served, PrimaryWeeks, PrimariesIn

LEMMA SkippedNext ==
    ASSUME NEW w \in Weeks, OnlyWeek(w), NEW from \in Nat, from <= w
    PROVE  /\ Skipped(from, w) \in Nat
           /\ Skipped(from, w + 1)' = IF schedule'[w].locked THEN Skipped(from, w) + 1 ELSE Skipped(from, w)
<1> DEFINE V == {v \in Weeks : from <= v /\ v < w}
           U == {v \in Weeks : from <= v /\ v < w + 1}
           S == LockedIn(V)
<1>1. w \notin V /\ U = V \union {w} /\ V \subseteq Weeks
  <2>1. w \in Nat /\ \A v \in Weeks : v \in Nat
    BY WeeksAreFinite
  <2>2. ~(w < w) /\ \A v \in Weeks : v < w + 1 <=> v < w \/ v = w
    BY <2>1
  <2>3. \A v : v \in U <=> v \in V \union {w}
    BY <2>2
  <2>4. w \notin V /\ V \subseteq Weeks
    BY <2>2
  <2> HIDE DEF U, V
  <2> QED
    BY <2>3, <2>4
<1> HIDE DEF V, U
<1>2. \A v \in V : schedule'[v] = schedule[v]
  BY <1>1 DEF OnlyWeek
<1>3. {v \in U : schedule'[v] # None /\ schedule'[v].locked} = IF schedule'[w].locked THEN S \union {w} ELSE S
  BY <1>1, <1>2 DEF LockedIn, OnlyWeek
<1>4. S \subseteq Weeks /\ w \notin S
  BY <1>1 DEF LockedIn
<1>5. Skipped(from, w) = Cardinality(S)
  BY DEF Skipped, V
<1>6. Skipped(from, w + 1)' = Cardinality({v \in U : schedule'[v] # None /\ schedule'[v].locked})
  BY DEF Skipped, U, LockedIn
<1> HIDE DEF S
<1>7. Cardinality(S) \in Nat /\ Cardinality(S \union {w}) = Cardinality(S) + 1
  BY <1>4, OneMoreElement
<1> QED
  BY <1>3, <1>5, <1>6, <1>7
LEMMA PrimaryNext ==
    ASSUME NEW w \in Weeks, OnlyWeek(w)
    PROVE  PrimaryOf(w)' = schedule'[w].primary /\ \A v : v # w => PrimaryOf(v)' = PrimaryOf(v)
BY DEF PrimaryOf, OnlyWeek

\* Follow keeps track of the run.
LEMMA TrackedNext ==
    ASSUME NEW w \in Weeks, OnlyWeek(w), NEW last, NEW consecutive \in Nat,
           Tracked(w, last, consecutive), NEW p, p = schedule'[w].primary
    PROVE  Tracked(w + 1, IF p = None THEN last ELSE p,
                   IF p = None THEN consecutive ELSE IF last = p THEN consecutive + 1 ELSE 1)'
<1>1. w \in Nat \ {0} /\ w + 1 - 1 = w /\ PrimaryOf(w)' = p
  BY WeeksAreFinite, PrimaryNext
<1>2. ASSUME p # None, NEW k \in 1 .. w, k <= MaxConsecutive, Unbroken(w, k)', k # 1
      PROVE  last = p /\ k - 1 <= consecutive
  <2>1. k - 1 \in 1 .. w - 1 /\ k - 1 <= MaxConsecutive /\ 2 \in 1 .. k
    BY <1>1, <1>2, ConstantsAssumption
  <2>2. \A i \in 1 .. k : PrimaryOf(w + 1 - i)' = p
    BY <1>1, <1>2 DEF Unbroken
  <2>3. \A i \in 1 .. k - 1 : PrimaryOf(w - 1 + 1 - i) = p
    <3> SUFFICES ASSUME NEW i \in 1 .. k - 1 PROVE PrimaryOf(w - 1 + 1 - i) = p
      OBVIOUS
    <3>1. i + 1 \in 1 .. k /\ w + 1 - (i + 1) = w - 1 + 1 - i /\ w - 1 + 1 - i # w
      BY <1>1
    <3> QED
      BY <2>2, <3>1, PrimaryNext
  <2>4. PrimaryOf(w - 1) = p
    <3>1. 1 \in 1 .. k - 1 /\ w - 1 + 1 - 1 = w - 1
      BY <1>1, <2>1
    <3> QED
      BY <2>3, <3>1
  <2>5. Unbroken(w - 1, k - 1)
    BY <2>3, <2>4 DEF Unbroken
  <2> QED
    BY <1>2, <2>1, <2>4, <2>5 DEF Tracked
<1>3. ASSUME p # None, NEW k \in 1 .. w, k <= MaxConsecutive, Unbroken(w, k)'
      PROVE  k <= IF last = p THEN consecutive + 1 ELSE 1
  BY <1>2, <1>3
<1> QED
  BY <1>1, <1>3 DEF Tracked

LEMMA NoRunNext ==
    ASSUME NEW w \in Weeks, OnlyWeek(w), NEW from, NoRun(from, w),
           schedule'[w].locked \/ Changed(w)'
    PROVE  NoRun(from, w + 1)'
<1>1. w \in Nat \ {0} /\ \A v \in Weeks : v \in Nat
  BY WeeksAreFinite
<1>2. ASSUME NEW v \in Weeks, from <= v, v < w, ~schedule[v].locked PROVE Changed(v)'
  <2> SUFFICES ASSUME v > MaxConsecutive
               PROVE  \E i \in 1 .. MaxConsecutive : PrimaryOf(v - i)' # PrimaryOf(v)'
    BY DEF Changed
  <2>1. PICK i \in 1 .. MaxConsecutive : PrimaryOf(v - i) # PrimaryOf(v)
    BY <1>2 DEF NoRun, Changed
  <2>2. v - i # w /\ v # w
    BY <1>1, <1>2, ConstantsAssumption
  <2> QED
    BY <2>1, <2>2, PrimaryNext
<1> SUFFICES ASSUME NEW v \in Weeks, from <= v, v < w + 1, ~schedule'[v].locked PROVE Changed(v)'
  BY DEF NoRun
<1>3. CASE v = w
  BY <1>3
<1>4. CASE v # w
  BY <1>1, <1>2, <1>4 DEF OnlyWeek
<1> QED
  BY <1>3, <1>4

\* pickPrimary breaks a run that has reached the limit, if there is somebody else.
LEMMA PickBreaksRun ==
    ASSUME NEW w \in Weeks, OnlyWeek(w), NEW s, TypedRun(s), s.pc = "assign", Len(s.members) > 1,
           Tracked(w, s.last, s.consecutive), PickPrimary(s) = schedule'[w].primary
    PROVE  Changed(w)'
<1>1. PICK p : p = PickPrimary(s) /\ p = PrimaryOf(w)'
  BY PrimaryNext
<1>2. p \in Users /\ p # None /\ MaxConsecutive \in Nat \ {0} /\ w \in Nat \ {0}
  <2>1. PICK second : second = IF Len(s.members) > 1 THEN PickSecondary(s, p) ELSE None
    OBVIOUS
  <2> QED
    BY <1>1, <2>1, AssignedAre, ConstantsAssumption, WeeksAreFinite
<1> SUFFICES ASSUME w > MaxConsecutive, \A i \in 1 .. MaxConsecutive : PrimaryOf(w - i)' = p
             PROVE  FALSE
  BY <1>1 DEF Changed
<1>3. \A i \in 1 .. MaxConsecutive : PrimaryOf(w - i) = p
  <2> SUFFICES ASSUME NEW i \in 1 .. MaxConsecutive PROVE PrimaryOf(w - i) = p
    OBVIOUS
  <2>1. w - i # w
    BY <1>2
  <2> QED
    BY <2>1, PrimaryNext
<1>4. PrimaryOf(w - 1) = p /\ MaxConsecutive \in 1 .. w - 1
  BY <1>2, <1>3
<1>5. Unbroken(w - 1, MaxConsecutive)
  <2>1. \A i \in 1 .. MaxConsecutive : w - 1 + 1 - i = w - i
    BY <1>2
  <2> QED
    BY <1>3, <1>4, <2>1 DEF Unbroken
<1>6. s.last = p /\ MaxConsecutive <= s.consecutive
  BY <1>2, <1>4, <1>5 DEF Tracked
<1>7. Listed(s.members) = {p}
  <2>1. s.consecutive >= MaxConsecutive /\ s.consecutive \in Nat
    BY <1>2, <1>6 DEF TypedRun
  <2> QED
    BY <1>1, <1>2, <1>6, <2>1, PickPrimaryIs DEF TypedRun
<1>8. PICK m \in Seq(Users) : m = s.members /\ Distinct(m) /\ Len(m) > 1
  BY DEF TypedRun
<1>9. 1 \in DOMAIN m /\ 2 \in DOMAIN m
  BY <1>8
<1>10. m[1] = p /\ m[2] = p
  BY <1>7, <1>8, <1>9 DEF Listed
<1> QED
  BY <1>8, <1>9, <1>10 DEF Distinct
\* Nobody moves by more than one week: the slack of one more skipped week makes up for it.
LEMMA EvenWhenSkipped ==
    ASSUME NEW w \in Weeks, OnlyWeek(w), NEW from \in Nat, from <= w, NEW M, schedule'[w].locked,
           Even(M, from, w)
    PROVE  Even(M, from, w + 1)'
<1> SUFFICES ASSUME NEW d \in 0 .. LastWeek, WithinOf(M, from, d)', NEW u \in M, NEW v \in M
             PROVE  Served(u, w + 1)' <= Served(v, w + 1)' + (d + 1 + Skipped(from, w + 1)')
  BY DEF Even, WithinOf
<1>1. WithinOf(M, from, d)
  BY ServedBefore DEF WithinOf
<1>2. PICK K \in Nat : K = Skipped(from, w) /\ Skipped(from, w + 1)' = K + 1
  BY SkippedNext
<1>3. Served(u, w) <= Served(v, w) + (d + 1 + K)
  BY <1>1, <1>2 DEF Even, WithinOf
<1>4. PICK a \in Nat, b \in Nat : a = Served(u, w) /\ b = Served(v, w)
  BY ServedNext
<1>5. PICK c \in Nat, e \in Nat : /\ c = Served(u, w + 1)' /\ e = Served(v, w + 1)'
                                  /\ c <= a + 1 /\ b <= e
  <2>1. Served(u, w + 1)' = IF schedule'[w].primary = u THEN a + 1 ELSE a
    BY <1>4, ServedNext
  <2>2. Served(v, w + 1)' = IF schedule'[w].primary = v THEN b + 1 ELSE b
    BY <1>4, ServedNext
  <2> QED
    BY <2>1, <2>2
<1> QED
  BY <1>2, <1>3, <1>4, <1>5

LEMMA BalancedWhenSkipped ==
    ASSUME NEW w \in Weeks, OnlyWeek(w), NEW from \in Nat, from <= w, NEW M, schedule'[w].locked,
           M \subseteq Users, NEW served \in [Users -> Nat], NEW last,
           Even(M, from, w), Balanced(M, from, w, served, last), NEW p, p = schedule'[w].primary
    PROVE  Balanced(M, from, w + 1, served, IF p = None THEN last ELSE p)'
<1>1. PICK K \in Nat : K = Skipped(from, w) /\ Skipped(from, w + 1)' = K + 1
  BY SkippedNext
<1>2. \A u : /\ Served(u, w) \in Nat
             /\ Served(u, w + 1)' = IF p = u THEN Served(u, w) + 1 ELSE Served(u, w)
  BY ServedNext
<1>3. ASSUME NEW u \in M
      PROVE  served[u] <= Served(u, w + 1)' /\ Served(u, w + 1)' <= served[u] + (K + 1)
  <2>1. PICK a \in Nat, n \in Nat : a = Served(u, w) /\ n = served[u] /\ n <= a /\ a <= n + K
    BY <1>1, <1>2 DEF Balanced
  <2> QED
    BY <1>2, <2>1
<1>4. ASSUME NEW u \in M, NEW l \in M, l = IF p = None THEN last ELSE p,
             NEW d \in 0 .. LastWeek, WithinOf(M, from, d)'
      PROVE  Served(u, w + 1)' <= Served(l, w + 1)' + d + (K + 1)
  <2>1. WithinOf(M, from, d)
    BY <1>4, ServedBefore DEF WithinOf
  <2>2. PICK a \in Nat, b \in Nat : a = Served(u, w) /\ b = Served(l, w)
    BY <1>2
  <2>3. a <= b + (d + 1 + K)
    BY <1>1, <2>1, <2>2 DEF Even, WithinOf
  <2>4. CASE p = l
    <3>1. Served(l, w + 1)' = b + 1
      BY <1>2, <2>2, <2>4
    <3>2. CASE u = l
      BY <2>2, <3>1, <3>2
    <3>3. CASE u # l
      <4>1. Served(u, w + 1)' = a
        BY <1>2, <2>2, <2>4, <3>3
      <4> QED
        BY <2>3, <3>1, <4>1
    <3> QED
      BY <3>2, <3>3
  <2>5. CASE p # l
    <3>1. p = None /\ l = last
      BY <1>4, <2>5
    <3>2. a <= b + d + K
      BY <1>1, <2>1, <2>2, <3>1 DEF Balanced
    <3>3. None \notin Users
      BY ConstantsAssumption
    <3>4. Served(l, w + 1)' = b /\ Served(u, w + 1)' = a
      BY <1>2, <2>2, <3>1, <3>3
    <3> QED
      BY <3>2, <3>4
  <2> QED
    BY <2>4, <2>5
<1> QED
  BY <1>1, <1>3, <1>4 DEF Balanced

\* The member who is picked has served least, but for the last primary if a run is at the limit.
LEMMA EvenWhenPicked ==
    ASSUME NEW w \in Weeks, OnlyWeek(w), NEW from \in Nat, from <= w, NEW M, M \subseteq Users,
           ~schedule'[w].locked, NEW served \in [Users -> Nat], NEW last,
           Even(M, from, w), Balanced(M, from, w, served, last),
           NEW p \in M, p = schedule'[w].primary, \A u \in M : served[p] <= served[u] \/ u = last
    PROVE  /\ Even(M, from, w + 1)'
           /\ Balanced(M, from, w + 1, OneMore(served, p), p)'
<1>1. PICK K \in Nat : K = Skipped(from, w) /\ Skipped(from, w + 1)' = K
  BY SkippedNext
<1>2. \A u : /\ Served(u, w) \in Nat
             /\ Served(u, w + 1)' = IF p = u THEN Served(u, w) + 1 ELSE Served(u, w)
  BY ServedNext
<1>3. PICK a \in Nat, n \in Nat : a = Served(p, w) /\ n = served[p] /\ n <= a /\ a <= n + K
  BY <1>1, <1>2 DEF Balanced
<1>4. Served(p, w + 1)' = a + 1
  BY <1>2, <1>3
<1>5. ASSUME NEW d \in 0 .. LastWeek, WithinOf(M, from, d)', NEW v \in M
      PROVE  Served(p, w) <= Served(v, w) + d + K
  <2>1. WithinOf(M, from, d)
    BY <1>5, ServedBefore DEF WithinOf
  <2>2. CASE v = last
    BY <1>1, <2>1, <2>2 DEF Balanced
  <2>3. CASE v # last
    <3>1. PICK b \in Nat, m \in Nat : b = Served(v, w) /\ m = served[v] /\ m <= b
      BY <1>2 DEF Balanced
    <3>2. n <= m
      BY <1>3, <2>3, <3>1
    <3>3. a <= b + d + K
      BY <1>3, <3>1, <3>2
    <3> QED
      BY <1>3, <3>1, <3>3
  <2> QED
    BY <2>2, <2>3
<1>6. ASSUME NEW d \in 0 .. LastWeek, WithinOf(M, from, d)', NEW u \in M, NEW v \in M
      PROVE  /\ Served(u, w + 1)' <= Served(v, w + 1)' + (d + 1 + K)
             /\ Served(u, w + 1)' <= Served(p, w + 1)' + d + K
  <2>1. WithinOf(M, from, d)
    BY <1>6, ServedBefore DEF WithinOf
  <2>2. PICK x \in Nat, y \in Nat : x = Served(u, w) /\ y = Served(v, w)
    BY <1>2
  <2>3. x <= y + (d + 1 + K) /\ x <= a + (d + 1 + K) /\ a <= y + d + K
    BY <1>1, <1>3, <1>5, <1>6, <2>1, <2>2 DEF Even, WithinOf
  <2>4. PICK z \in Nat : z = Served(v, w + 1)' /\ y <= z
    BY <1>2, <2>2
  <2>5. CASE u = p
    BY <1>3, <1>4, <2>2, <2>3, <2>4, <2>5
  <2>6. CASE u # p
    <3>1. Served(u, w + 1)' = x
      BY <1>2, <2>2, <2>6
    <3> QED
      BY <1>4, <2>3, <2>4, <3>1
  <2> QED
    BY <2>5, <2>6
<1>7. Even(M, from, w + 1)'
  BY <1>1, <1>6 DEF Even, WithinOf
<1>8. p # None /\ OneMore(served, p) = [served EXCEPT ![p] = @ + 1]
  BY ConstantsAssumption DEF OneMore
<1>9. ASSUME NEW u \in M
      PROVE  OneMore(served, p)[u] <= Served(u, w + 1)' /\ Served(u, w + 1)' <= OneMore(served, p)[u] + K
  <2>1. CASE u = p
    <3>1. OneMore(served, p)[u] = n + 1
      BY <1>3, <1>8, <2>1
    <3> QED
      BY <1>3, <1>4, <2>1, <3>1
  <2>2. CASE u # p
    <3>1. OneMore(served, p)[u] = served[u] /\ Served(u, w + 1)' = Served(u, w)
      BY <1>2, <1>8, <2>2
    <3> QED
      BY <1>1, <3>1 DEF Balanced
  <2> QED
    BY <2>1, <2>2
<1>10. Balanced(M, from, w + 1, OneMore(served, p), p)'
  BY <1>1, <1>6, <1>9 DEF Balanced
<1> QED
  BY <1>7, <1>10
\* What holds of a generation is about its variables and the schedule.
LEMMA SoundSame ==
    ASSUME UNCHANGED schedule, NEW s, Sound(s)
    PROVE  Sound(s)'
<1>1. PICK M : M = Listed(s.members)
  OBVIOUS
<1>2. \A u, w : Served(u, w)' = Served(u, w)
  BY DEF Served, PrimaryWeeks, Before
<1>3. \A from, w : Skipped(from, w)' = Skipped(from, w)
  BY DEF Skipped, LockedIn
<1>4. \A w : PrimaryOf(w)' = PrimaryOf(w)
  BY DEF PrimaryOf
<1>5. \A w, d : WithinOf(M, w, d)' <=> WithinOf(M, w, d)
  BY <1>2 DEF WithinOf
<1>6. Even(M, s.from, Reached(s)) => Even(M, s.from, Reached(s))'
  BY <1>3, <1>5 DEF Even, Reached
<1>7. Balanced(M, s.from, s.week, s.primaries, s.last) => Balanced(M, s.from, s.week, s.primaries, s.last)'
  BY <1>2, <1>3, <1>5 DEF Balanced
<1>8. \A w, k : Unbroken(w, k)' <=> Unbroken(w, k)
  BY <1>4 DEF Unbroken
<1>9. Tracked(s.week, s.last, s.consecutive) => Tracked(s.week, s.last, s.consecutive)'
  BY <1>4, <1>8 DEF Tracked
<1>10. \A w : Changed(w)' <=> Changed(w)
  BY <1>4 DEF Changed
<1>11. NoRun(s.from, Reached(s)) => NoRun(s.from, Reached(s))'
  BY <1>10 DEF NoRun, Reached
<1>12. Kept(s) => Kept(s)'
  BY DEF Kept
<1>13. SoundCounts(s) => SoundCounts(s)'
  BY <1>1, <1>6, <1>7, KnowingSame DEF SoundCounts
<1>14. SoundRuns(s) => SoundRuns(s)'
  BY <1>9, <1>11, KnowingSame DEF SoundRuns
<1> QED
  BY <1>12, <1>13, <1>14 DEF Sound

\* A generation in a state that was or is sound.
LEMMA SoundBecomes ==
    ASSUME NEW h, NEW s, s = gen'[h], Sound(s)'
    PROVE  Sound(gen[h])'
BY DEF Sound, SoundCounts, SoundRuns, Reached, KnownCounts, Looking, Kept

\* One that is not at work.
LEMMA SoundIfIdle ==
    ASSUME NEW s, s.pc \in {"idle", "members"}
    PROVE  Sound(s)
BY DEF Sound, SoundCounts, SoundRuns, Knowing

\* A step of g, which nobody else at work takes for its own.
LEMMA AloneStep ==
    ASSUME AloneInv, NEW g \in Slots, Others(g),
           \A h \in Slots \ {g} : clean'[h] /\ Running(h) => clean[h] /\ UNCHANGED schedule,
           clean'[g] => Sound(gen[g])'
    PROVE  AloneInv'
<1> SUFFICES ASSUME NEW h \in Slots, clean'[h], h # g PROVE Sound(gen[h])'
  BY DEF AloneInv
<1>1. PICK s : s = gen[h] /\ s = gen'[h]
  BY DEF Others
<1>2. CASE Running(h)
  <2>1. Sound(s) /\ UNCHANGED schedule
    BY <1>1, <1>2 DEF AloneInv
  <2>2. Sound(s)'
    BY <2>1, SoundSame
  <2> QED
    BY <1>1, <2>2, SoundBecomes
<1>3. CASE ~Running(h)
  <2>1. s.pc = "idle"
    BY <1>1, <1>3 DEF Running
  <2>2. Sound(s)'
    BY <2>1 DEF Sound, SoundCounts, SoundRuns, Knowing
  <2> QED
    BY <1>1, <2>2, SoundBecomes
<1> QED
  BY <1>2, <1>3

LEMMA NothingPassed == ASSUME NEW from \in Nat PROVE Skipped(from, from) = 0
<1>1. {v \in Weeks : from <= v /\ v < from} = {}
  <2>1. \A v \in Weeks : ~(from <= v /\ v < from)
    BY WeeksAreFinite
  <2> QED
    BY <2>1
<1>2. LockedIn({}) = {}
  BY DEF LockedIn
<1> QED
  BY <1>1, <1>2, FS_EmptySet DEF Skipped

\* The turns and the run as a generation finds them.
LEMMA TurnsAtFirst ==
    ASSUME NEW from \in Nat \ {0}, NEW M, M \subseteq Users, NEW last
    PROVE  Even(M, from, from) /\ Balanced(M, from, from, DutyOf(M, from), last)
<1>1. Skipped(from, from) = 0 /\ \A u : Served(u, from) \in Nat
  BY NothingPassed, ServedWeeks DEF Served, Before
<1>2. \A u \in M : DutyOf(M, from)[u] = Served(u, from)
  BY DEF DutyOf
<1>3. Balanced(M, from, from, DutyOf(M, from), last)
  BY <1>1, <1>2 DEF Balanced, WithinOf
<1>4. Even(M, from, from)
  <2> SUFFICES ASSUME NEW d \in 0 .. LastWeek, NEW u \in M, NEW v \in M, Served(u, from) <= Served(v, from) + d
               PROVE  Served(u, from) <= Served(v, from) + (d + 1 + Skipped(from, from))
    BY DEF Even, WithinOf
  <2>1. PICK a \in Nat, b \in Nat : a = Served(u, from) /\ b = Served(v, from)
    BY <1>1
  <2> QED
    BY <1>1, <2>1
<1> QED
  BY <1>3, <1>4

LEMMA RunAtFirst ==
    ASSUME NEW from \in Nat \ {0}, NEW last, NEW consecutive \in Nat, TracksExactly(from, last, consecutive)
    PROVE  Tracked(from, last, consecutive)
<1>1. ASSUME NEW k \in 1 .. from - 1, PrimaryOf(from - 1) # None, k <= MaxConsecutive, Unbroken(from - 1, k)
      PROVE  last = PrimaryOf(from - 1) /\ k <= consecutive
  <2>1. LongRun(from, k) /\ k \in 1 .. MaxConsecutive
    BY <1>1, ConstantsAssumption DEF LongRun
  <2> QED
    BY <2>1 DEF TracksExactly
<1> QED
  BY <1>1 DEF Tracked

LEMMA NoRunAtFirst == ASSUME NEW from \in Nat \ {0} PROVE NoRun(from, from)
BY WeeksAreFinite DEF NoRun

LEMMA ListedAreUsers == ASSUME NEW m \in Seq(Users) PROVE Listed(m) \subseteq Users
<1>1. \A i \in DOMAIN m : m[i] \in Users
  OBVIOUS
<1> QED
  BY <1>1 DEF Listed

\* When the look back is over, what is tracked is the run, and the turns are as they were.
LEMMA SoundAtFirst ==
    ASSUME NEW s, TypedRun(s), s.pc = "assign", s.week = s.from, Kept(s),
           "look back" \notin s.lost => TracksExactly(s.from, s.last, s.consecutive),
           "counts" \notin s.lost => s.primaries = DutyOf(Listed(s.members), s.from)
    PROVE  Sound(s)
<1>1. PICK from \in Nat \ {0}, consecutive \in Nat, m \in Seq(Users) :
        from = s.from /\ consecutive = s.consecutive /\ m = s.members
  BY WindowNumbers DEF TypedRun
<1>2. Reached(s) = from
  BY <1>1 DEF Reached
<1>3. "counts" \notin s.lost => SoundCounts(s)
  <2>1. Even(Listed(m), from, from) /\ Balanced(Listed(m), from, from, DutyOf(Listed(m), from), s.last)
    BY <1>1, TurnsAtFirst, ListedAreUsers
  <2> QED
    BY <1>1, <1>2, <2>1 DEF SoundCounts, Knowing
<1>4. "look back" \notin s.lost => SoundRuns(s)
  <2>1. TracksExactly(from, s.last, consecutive) => Tracked(from, s.last, consecutive)
    BY RunAtFirst
  <2>2. NoRun(from, from)
    BY NoRunAtFirst
  <2> QED
    BY <1>1, <1>2, <2>1, <2>2 DEF SoundRuns
<1> QED
  BY <1>3, <1>4 DEF Sound

LEMMA AloneReadMembers ==
    ASSUME AloneInv, TypeInv, GenerationInv, NEW g \in Slots, ReadMembers(g)
    PROVE  AloneInv'
<1>1. UNCHANGED schedule /\ gen[g].pc = "members"
  BY DEF ReadMembers, tables
<1>2. CASE Ended(g) /\ clean' = [clean EXCEPT ![g] = TRUE]
  <2>1. gen'[g] = Idle /\ Others(g) /\ \A h \in Slots \ {g} : clean'[h] = clean[h]
    BY <1>2 DEF Ended, GenerationInv, Others, TypeInv, TypedTables
  <2>2. Sound(gen[g])'
    BY <2>1, IdleIsTyped DEF Sound, SoundCounts, SoundRuns, Knowing
  <2> QED
    BY <1>1, <2>1, <2>2, AloneStep
<1>3. CASE ~ (Ended(g) /\ clean' = [clean EXCEPT ![g] = TRUE])
  <2>1. PICK members, s : /\ members = ActiveMembers(joined, active)
                          /\ s = [gen[g] EXCEPT !.pc = "primary", !.members = members]
    OBVIOUS
  <2>2. UNCHANGED clean /\ gen' = [gen EXCEPT ![g] = s]
    BY <1>3, <2>1 DEF ReadMembers
  <2>3. gen'[g] = s /\ Others(g)
    BY <2>2 DEF GenerationInv, Others
  <2>4. TypedRun(gen[g]) /\ members \in Seq(Users)
    BY <2>1, ActiveMembersAre DEF TypeInv, TypedTables, TypedRuns
  <2>5. /\ s.pc = "primary" /\ s.members = members /\ s.from = gen[g].from
        /\ s.at = 1 /\ s.primaries = NoCounts /\ s.secondaries = NoCounts
    BY <1>1, <2>1, <2>4 DEF TypedRun, WellFormed, Idle
  <2>6. KnownCounts(s)
    <3>1. FirstOf(members, 1) = {}
      BY <2>4, FirstOfList
    <3> QED
      BY <2>5, <3>1 DEF KnownCounts, DutyOf, SecondDutyOf, NoCounts
  <2>7. Sound(s)
    BY <2>5, <2>6 DEF Sound, SoundCounts, SoundRuns
  <2>8. Sound(gen[g])'
    BY <1>1, <2>3, <2>7, SoundSame, SoundBecomes
  <2> QED
    BY <1>1, <2>2, <2>3, <2>8, AloneStep
<1> QED
  BY <1>2, <1>3

\* A read of g whose error would be dropped leaves the schedule to the others.
LEMMA AloneReads ==
    ASSUME AloneInv, GenerationInv, NEW g \in Slots, NEW s, NEW read, Reads(g, s, read),
           clean[g] => Sound(s)
    PROVE  AloneInv'
<1>1. UNCHANGED <<schedule, clean>> /\ gen'[g] = s /\ Others(g)
  BY DEF Reads, tables, GenerationInv, Others
<1>2. clean'[g] => Sound(gen[g])'
  BY <1>1, SoundSame, SoundBecomes
<1> QED
  BY <1>1, <1>2, AloneStep

LEMMA AloneCounts ==
    ASSUME AloneInv, TypeInv, GenerationInv, NEW g \in Slots, CountPrimary(g) \/ CountSecondary(g)
    PROVE  AloneInv'
<1>1. PICK s : /\ Reads(g, s, "counts") /\ gen[g].pc \in {"primary", "secondary"}
               /\ s.pc \in {"primary", "secondary", "schedule"}
               /\ KnownCounts(gen[g]) => KnownCounts(s) \/ ("counts" \in s.lost /\ settled' = None)
  BY CountsKnown
<1>2. s.lost = gen[g].lost \/ s.lost = gen[g].lost \union {"counts"}
  BY <1>1 DEF Reads
<1>3. ASSUME clean[g] PROVE Sound(s)
  <2>1. "counts" \notin gen[g].lost => KnownCounts(gen[g])
    BY <1>1, <1>3 DEF AloneInv, Sound, SoundCounts, Knowing
  <2>2. "counts" \notin s.lost => KnownCounts(s)
    BY <1>1, <1>2, <2>1
  <2> QED
    BY <1>1, <2>2 DEF Sound, SoundCounts, SoundRuns, Knowing
<1> QED
  BY <1>1, <1>3, AloneReads

LEMMA AloneReadSchedule ==
    ASSUME AloneInv, TypeInv, GenerationInv, NEW g \in Slots, ReadSchedule(g)
    PROVE  AloneInv'
<1> DEFINE L == [w \in Weeks |-> LockedRow(g, w)]
<1>1. PICK s : s = [gen[g] EXCEPT !.pc = "look back", !.locked = L]
  OBVIOUS
<1>2. UNCHANGED <<schedule, clean>> /\ gen[g].pc = "schedule" /\ gen' = [gen EXCEPT ![g] = s]
  BY <1>1 DEF ReadSchedule, tables, history
<1>3. gen'[g] = s /\ Others(g)
  BY <1>2 DEF GenerationInv, Others
<1>4. TypedRun(gen[g]) /\ WellFormed(gen[g])
  BY DEF TypeInv, TypedRuns, TypedRun
<1>5. \A w \in Weeks : L[w] # None => schedule[w] = L[w] /\ schedule[w].locked
  BY DEF LockedRow
<1> HIDE DEF L
<1>6. /\ s.pc = "look back" /\ s.from = gen[g].from /\ s.locked = L /\ s.lost = gen[g].lost
      /\ s.members = gen[g].members /\ s.primaries = gen[g].primaries /\ s.secondaries = gen[g].secondaries
      /\ s.at = gen[g].at /\ s.last = gen[g].last /\ s.consecutive = gen[g].consecutive
  BY <1>1, <1>4 DEF WellFormed, Idle
<1>7. Looking(s)
  <2>1. s.last = None /\ s.consecutive = 0
    BY <1>2, <1>4, <1>6 DEF TypedRun, Counting
  <2>2. 0 < MaxConsecutive
    BY ConstantsAssumption
  <2> QED
    BY <2>1, <2>2 DEF Looking
<1>8. ASSUME clean[g] PROVE Sound(s)
  <2>1. "counts" \notin gen[g].lost => KnownCounts(gen[g])
    BY <1>2, <1>8 DEF AloneInv, Sound, SoundCounts, Knowing
  <2>2. KnownCounts(gen[g]) => KnownCounts(s)
    BY <1>2, <1>6 DEF KnownCounts
  <2> QED
    BY <1>5, <1>6, <1>7, <2>1, <2>2 DEF Sound, SoundCounts, SoundRuns, Knowing, Kept
<1>9. clean'[g] => Sound(gen[g])'
  BY <1>2, <1>3, <1>8, SoundSame, SoundBecomes
<1> QED
  BY <1>2, <1>3, <1>9, AloneStep

LEMMA AloneLookBack ==
    ASSUME AloneInv, TypeInv, GenerationInv, NEW g \in Slots, LookBack(g), TypeInv'
    PROVE  AloneInv'
<1>1. PICK s : /\ Reads(g, s, "look back") /\ gen[g].pc = "look back" /\ s.pc \in {"look back", "assign"}
               /\ s.at = gen[g].at /\ s.primaries = gen[g].primaries /\ s.secondaries = gen[g].secondaries
               /\ Looking(gen[g]) => \/ s.pc = "look back" /\ Looking(s)
                                     \/ s.pc = "assign" /\ TracksExactly(s.from, s.last, s.consecutive)
                                     \/ "look back" \in s.lost /\ settled' = None
  BY LookBackKnown
<1>2. /\ s.lost = gen[g].lost \/ s.lost = gen[g].lost \union {"look back"}
      /\ s.members = gen[g].members /\ Same(s, gen[g]) /\ gen' = [gen EXCEPT ![g] = s]
  BY <1>1 DEF Reads
<1>3. TypedRun(gen[g]) /\ TypedRun(s) /\ s.week = s.from
  <2>1. gen'[g] = s
    BY <1>2 DEF GenerationInv
  <2>2. TypedRun(s)
    BY <2>1 DEF TypeInv, TypedRuns, TypedRun, WellFormed
  <2> QED
    BY <1>1, <1>2, <2>2 DEF TypeInv, TypedRuns, GenerationInv, Reading, Same
<1>4. ASSUME clean[g] PROVE Sound(s)
  <2>1. Kept(s)
    BY <1>1, <1>2, <1>4 DEF AloneInv, Sound, Kept, Same
  <2>2. "counts" \notin s.lost => "counts" \notin gen[g].lost /\ KnownCounts(gen[g])
    BY <1>1, <1>2, <1>4 DEF AloneInv, Sound, SoundCounts, Knowing
  <2>3. "look back" \notin s.lost => \/ s.pc = "look back" /\ Looking(s)
                                     \/ s.pc = "assign" /\ TracksExactly(s.from, s.last, s.consecutive)
    <3>1. "look back" \notin gen[g].lost => Looking(gen[g])
      BY <1>1, <1>4 DEF AloneInv, Sound, SoundRuns
    <3> QED
      BY <1>1, <1>2, <3>1
  <2>4. CASE s.pc = "look back"
    <3>1. KnownCounts(gen[g]) => KnownCounts(s)
      BY <1>1, <1>2, <2>4 DEF KnownCounts, Same
    <3> QED
      BY <2>1, <2>2, <2>3, <2>4, <3>1 DEF Sound, SoundCounts, SoundRuns
  <2>5. CASE s.pc = "assign"
    <3>1. "counts" \notin s.lost => s.primaries = DutyOf(Listed(s.members), s.from)
      BY <1>1, <1>2, <1>3, <2>2, AllKnown DEF Same
    <3> QED
      BY <1>3, <2>1, <2>3, <2>5, <3>1, SoundAtFirst
  <2> QED
    BY <1>1, <2>4, <2>5
<1> QED
  BY <1>1, <1>4, AloneReads

LEMMA FollowIs ==
    ASSUME NEW s, TypedRun(s), NEW p
    PROVE  LET f == Follow(s, p)
           IN /\ f.last = IF p = None THEN s.last ELSE p
              /\ f.consecutive = IF p = None THEN s.consecutive ELSE IF s.last = p THEN s.consecutive + 1 ELSE 1
              /\ f.pc = s.pc /\ f.from = s.from /\ f.n = s.n /\ f.week = s.week
              /\ f.members = s.members /\ f.locked = s.locked /\ f.lost = s.lost
              /\ f.primaries = s.primaries /\ f.secondaries = s.secondaries
BY DEF Follow, TypedRun, WellFormed, Idle

LEMMA NextWeekIs ==
    ASSUME NEW s, TypedRun(s), s.pc = "assign", s.week \in s.from .. (s.from + s.n - 1)
    PROVE  LET r == NextWeekOf(s)
           IN /\ r.from = s.from /\ r.members = s.members /\ r.lost = s.lost /\ Reached(r) = s.week + 1
              /\ \/ r.pc = "done"
                 \/ /\ r.pc = "assign" /\ r.week = s.week + 1 /\ r.locked = s.locked
                    /\ r.primaries = s.primaries /\ r.secondaries = s.secondaries
                    /\ r.last = s.last /\ r.consecutive = s.consecutive
<1>1. CASE s.week < s.from + s.n - 1
  BY <1>1 DEF NextWeekOf, TypedRun, WellFormed, Idle, Reached
<1>2. CASE ~(s.week < s.from + s.n - 1)
  <2>1. s.week + 1 = s.from + s.n
    <3>1. PICK from \in Nat, n \in Nat, week \in Nat : from = s.from /\ n = s.n /\ week = s.week
      BY WindowNumbers
    <3>2. week <= from + n - 1 /\ ~(week < from + n - 1)
      BY <1>2, <3>1
    <3>3. week + 1 = from + n
      BY <3>2
    <3> QED
      BY <3>1, <3>3
  <2>2. NextWeekOf(s) = [Idle EXCEPT !.pc = "done", !.from = s.from, !.n = s.n, !.members = s.members,
                                 !.lost = s.lost]
    BY <1>2 DEF NextWeekOf
  <2> QED
    BY <2>1, <2>2 DEF Idle, Reached
<1> QED
  BY <1>1, <1>2

\* What is left of a generation when its last week is passed follows from what is left if it goes on.
LEMMA SoundGoesOn ==
    ASSUME NEW s, TypedRun(s), s.pc = "assign", s.week \in s.from .. (s.from + s.n - 1), Kept(s)',
           "counts" \notin s.lost =>
             /\ Balanced(Listed(s.members), s.from, s.week + 1, s.primaries, s.last)'
             /\ Even(Listed(s.members), s.from, s.week + 1)',
           "look back" \notin s.lost =>
             /\ Tracked(s.week + 1, s.last, s.consecutive)'
             /\ Len(s.members) > 1 => NoRun(s.from, s.week + 1)'
    PROVE  Sound(NextWeekOf(s))'
<1>1. PICK r : r = NextWeekOf(s)
  OBVIOUS
<1>2. /\ r.from = s.from /\ r.members = s.members /\ r.lost = s.lost /\ Reached(r) = s.week + 1
      /\ \/ r.pc = "done"
         \/ /\ r.pc = "assign" /\ r.week = s.week + 1 /\ r.locked = s.locked
            /\ r.primaries = s.primaries /\ r.last = s.last /\ r.consecutive = s.consecutive
  BY <1>1, NextWeekIs
<1>3. PICK M : M = Listed(s.members)
  OBVIOUS
<1>4. Kept(r)' \/ r.pc = "done"
  BY <1>2 DEF Kept
<1>5. "counts" \notin r.lost => SoundCounts(r)'
  <2> SUFFICES ASSUME "counts" \notin r.lost PROVE SoundCounts(r)'
    OBVIOUS
  <2>1. Balanced(M, s.from, s.week + 1, s.primaries, s.last)' /\ Even(M, s.from, s.week + 1)'
    BY <1>2, <1>3
  <2>2. r.pc = "assign" => Balanced(M, r.from, r.week, r.primaries, r.last)'
    BY <1>2, <2>1
  <2>3. Even(M, r.from, Reached(r))'
    BY <1>2, <2>1
  <2> QED
    BY <1>2, <1>3, <2>2, <2>3 DEF SoundCounts, Knowing
<1>6. "look back" \notin r.lost => SoundRuns(r)'
  <2> SUFFICES ASSUME "look back" \notin r.lost PROVE SoundRuns(r)'
    OBVIOUS
  <2>1. r.pc = "assign" => Tracked(r.week, r.last, r.consecutive)'
    BY <1>2
  <2>2. Len(r.members) > 1 => NoRun(r.from, Reached(r))'
    BY <1>2
  <2> QED
    BY <1>2, <2>1, <2>2 DEF SoundRuns
<1>7. Sound(r)'
  BY <1>2, <1>4, <1>5, <1>6 DEF Sound
<1> QED
  BY <1>1, <1>7

LEMMA AloneSkipLocked ==
    ASSUME AloneInv, TypeInv, GenerationInv, NEW g \in Slots, SkipLocked(g)
    PROVE  AloneInv'
<1>1. PICK s, row : /\ s = gen[g] /\ row = s.locked[s.week] /\ row # None /\ s.pc = "assign"
                    /\ gen' = [gen EXCEPT ![g] = NextWeekOf(Follow(s, row.primary))]
                    /\ UNCHANGED <<schedule, clean>>
  BY DEF SkipLocked, tables, history
<1>2. TypedRun(s) /\ s.week \in s.from .. (s.from + s.n - 1)
  BY <1>1 DEF TypeInv, TypedRuns, GenerationInv, Window
<1>3. PICK w \in Weeks, from \in Nat, M \in {Listed(s.members)} :
        w = s.week /\ from = s.from /\ from <= w /\ M = Listed(s.members)
  BY <1>1, <1>2, WindowNumbers
<1>4. PICK p : p = row.primary
  OBVIOUS
<1>5. p \in Anyone /\ M \subseteq Users
  <2>1. row \in Rows
    BY <1>1, <1>2, <1>3 DEF TypedRun
  <2>2. s.members \in Seq(Users)
    BY <1>2 DEF TypedRun
  <2>3. \A i \in DOMAIN s.members : s.members[i] \in Users
    BY <2>2
  <2> QED
    BY <1>3, <1>4, <2>1, <2>3 DEF Rows, Listed
<1>6. PICK f : f = Follow(s, p)
  OBVIOUS
<1>7. /\ TypedRun(f) /\ f.pc = "assign" /\ f.week = w /\ f.from = from /\ f.n = s.n
      /\ f.members = s.members /\ f.primaries = s.primaries /\ f.locked = s.locked /\ f.lost = s.lost
      /\ f.last = IF p = None THEN s.last ELSE p
      /\ f.consecutive = IF p = None THEN s.consecutive ELSE IF s.last = p THEN s.consecutive + 1 ELSE 1
  BY <1>1, <1>2, <1>3, <1>5, <1>6, FollowIs, FollowTyped
<1>8. ASSUME clean[g] PROVE Sound(NextWeekOf(f))'
  <2>1. Sound(s)
    BY <1>1, <1>8 DEF AloneInv
  <2>2. /\ Kept(s)
        /\ "counts" \notin s.lost => Balanced(M, from, w, s.primaries, s.last) /\ Even(M, from, w)
        /\ "look back" \notin s.lost =>
             Tracked(w, s.last, s.consecutive) /\ (Len(s.members) > 1 => NoRun(from, w))
    BY <1>1, <1>3, <2>1 DEF Sound, SoundCounts, SoundRuns, Reached
  <2>3. OnlyWeek(w) /\ schedule'[w].primary = p /\ schedule'[w].locked
    BY <1>1, <1>3, <1>4, <2>2 DEF Kept, OnlyWeek
  <2>4. Kept(f)'
    BY <1>1, <1>7, <2>2 DEF Kept
  <2>5. PICK consecutive \in Nat, last \in {s.last}, served \in [Users -> Nat] :
          last = s.last /\ consecutive = s.consecutive /\ served = s.primaries
    BY <1>2 DEF TypedRun
  <2>6. "look back" \notin s.lost =>
          Tracked(w + 1, f.last, f.consecutive)' /\ (Len(s.members) > 1 => NoRun(from, w + 1)')
    <3>1. Tracked(w, last, consecutive) => Tracked(w + 1, f.last, f.consecutive)'
      BY <1>7, <2>3, <2>5, TrackedNext
    <3>2. NoRun(from, w) => NoRun(from, w + 1)'
      BY <2>3, NoRunNext
    <3> QED
      BY <2>2, <2>5, <3>1, <3>2
  <2>7. "counts" \notin s.lost => Balanced(M, from, w + 1, f.primaries, f.last)' /\ Even(M, from, w + 1)'
    <3>1. Even(M, from, w) => Even(M, from, w + 1)'
      BY <1>3, <2>3, EvenWhenSkipped
    <3>2. Balanced(M, from, w, served, last) /\ Even(M, from, w) => Balanced(M, from, w + 1, f.primaries, f.last)'
      BY <1>3, <1>5, <1>7, <2>3, <2>5, BalancedWhenSkipped
    <3> QED
      BY <2>2, <2>5, <3>1, <3>2
  <2> QED
    BY <1>2, <1>3, <1>7, <2>4, <2>6, <2>7, SoundGoesOn
<1>9. gen'[g] = NextWeekOf(f) /\ Others(g)
  BY <1>1, <1>4, <1>6 DEF GenerationInv, Others
<1>10. clean'[g] => Sound(gen[g])'
  BY <1>1, <1>8, <1>9, SoundBecomes
<1> QED
  BY <1>1, <1>9, <1>10, AloneStep
\* What a generation assigns, and how it goes on.
LEMMA AssignWeekIs ==
    ASSUME NEW g \in Slots, AssignWeek(g)
    PROVE  \E s, p, second :
             /\ s = gen[g] /\ s.pc = "assign" /\ s.locked[s.week] = None /\ p = PickPrimary(s)
             /\ second = IF Len(s.members) > 1 THEN PickSecondary(s, p) ELSE None
             /\ schedule' = [schedule EXCEPT ![s.week] = [primary |-> p, secondary |-> second, locked |-> FALSE]]
             /\ gen' = [gen EXCEPT ![g] = NextWeekOf(Counted(Follow(s, p), p, second))]
<1>1. PICK s : s = gen[g]
  OBVIOUS
<1>2. PICK p, second :
        /\ p = PickPrimary(gen[g])
        /\ second = IF Len(gen[g].members) > 1 THEN PickSecondary(gen[g], p) ELSE None
        /\ schedule' = [schedule EXCEPT ![gen[g].week] =
                          [primary |-> p, secondary |-> second, locked |-> FALSE]]
        /\ gen' = [gen EXCEPT ![g] = NextWeekOf(Counted(Follow(@, p), p, second))]
  BY DEF AssignWeek
<1>3. s.pc = "assign" /\ s.locked[s.week] = None
  BY <1>1 DEF AssignWeek
<1> QED
  BY <1>1, <1>2, <1>3

LEMMA AloneAssignWeek ==
    ASSUME AloneInv, TypeInv, GenerationInv, NEW g \in Slots, AssignWeek(g)
    PROVE  AloneInv'
<1>1. PICK s, p, second :
        /\ s = gen[g] /\ s.pc = "assign" /\ s.locked[s.week] = None /\ p = PickPrimary(s)
        /\ second = IF Len(s.members) > 1 THEN PickSecondary(s, p) ELSE None
        /\ schedule' = [schedule EXCEPT ![s.week] = [primary |-> p, secondary |-> second, locked |-> FALSE]]
        /\ gen' = [gen EXCEPT ![g] = NextWeekOf(Counted(Follow(s, p), p, second))]
  BY AssignWeekIs
<1>2. clean' = Disturbed(g)
  BY DEF AssignWeek
<1>3. TypedRun(s) /\ s.week \in s.from .. (s.from + s.n - 1)
  BY <1>1 DEF TypeInv, TypedRuns, GenerationInv, Window
<1>4. PICK w \in Weeks, from \in Nat, M \in {Listed(s.members)} :
        w = s.week /\ from = s.from /\ from <= w /\ M = Listed(s.members)
  BY <1>1, <1>3, WindowNumbers
<1>5. p \in Users /\ p # None /\ second \in Anyone
  BY <1>1, <1>3, AssignedAre, ConstantsAssumption
<1>6. M \subseteq Users
  <2>1. s.members \in Seq(Users)
    BY <1>3 DEF TypedRun
  <2>2. \A i \in DOMAIN s.members : s.members[i] \in Users
    BY <2>1
  <2> QED
    BY <1>4, <2>2 DEF Listed
<1>7. PICK row : row = [primary |-> p, secondary |-> second, locked |-> FALSE]
  OBVIOUS
<1>8. OnlyWeek(w) /\ schedule'[w].primary = p /\ ~schedule'[w].locked
  <2>1. DOMAIN schedule = Weeks /\ schedule' = [schedule EXCEPT ![w] = row]
    BY <1>1, <1>4, <1>7 DEF TypeInv, TypedTables
  <2>2. row \in Rows
    BY <1>1, <1>3, <1>5, <1>7, AssignedAre DEF Rows, Anyone
  <2>3. row # None
    BY <2>2, ConstantsAssumption
  <2> QED
    BY <1>7, <2>1, <2>3 DEF OnlyWeek
<1>9. PICK f : f = Follow(s, p)
  OBVIOUS
<1>10. /\ TypedRun(f) /\ f.pc = "assign" /\ f.week = w /\ f.from = from /\ f.n = s.n
       /\ f.members = s.members /\ f.primaries = s.primaries /\ f.locked = s.locked /\ f.lost = s.lost
       /\ f.last = p /\ f.consecutive = IF s.last = p THEN s.consecutive + 1 ELSE 1
  BY <1>1, <1>3, <1>4, <1>5, <1>9, FollowIs, FollowTyped DEF Anyone
<1>11. PICK c : c = Counted(f, p, second)
  OBVIOUS
<1>12. /\ TypedRun(c) /\ c.pc = "assign" /\ c.week = w /\ c.from = from /\ c.n = s.n
       /\ c.members = s.members /\ c.primaries = OneMore(s.primaries, p) /\ c.locked = s.locked
       /\ c.lost = s.lost /\ c.last = f.last /\ c.consecutive = f.consecutive
  <2>1. TypedRun(c)
    BY <1>5, <1>10, <1>11, CountedTyped DEF Anyone
  <2>2. DOMAIN f = DOMAIN Idle
    BY <1>10 DEF TypedRun, WellFormed
  <2> QED
    BY <1>10, <1>11, <2>1, <2>2 DEF Counted, Idle
<1>13. PICK served \in [Users -> Nat], consecutive \in Nat, last \in {s.last} :
         served = s.primaries /\ consecutive = s.consecutive /\ last = s.last
  BY <1>3 DEF TypedRun
<1>14. p \in M /\ \A u \in M : served[p] <= served[u] \/ u = last
  BY <1>1, <1>3, <1>4, <1>13, PickPrimaryIs, ConstantsAssumption DEF TypedRun
<1>15. ASSUME clean[g] PROVE Sound(NextWeekOf(c))'
  <2>1. Sound(s)
    BY <1>1, <1>15 DEF AloneInv
  <2>2. /\ Kept(s)
        /\ "counts" \notin s.lost => Balanced(M, from, w, served, last) /\ Even(M, from, w)
        /\ "look back" \notin s.lost =>
             Tracked(w, last, consecutive) /\ (Len(s.members) > 1 => NoRun(from, w))
    BY <1>1, <1>4, <1>13, <2>1 DEF Sound, SoundCounts, SoundRuns, Reached
  <2>3. Kept(c)'
    <3>1. c.locked = s.locked /\ s.locked[w] = None /\ \A v \in Weeks : v # w => schedule'[v] = schedule[v]
      BY <1>1, <1>4, <1>8, <1>12 DEF OnlyWeek
    <3>2. \A v \in Weeks : s.locked[v] # None => schedule[v] = s.locked[v] /\ schedule[v].locked
      BY <2>2 DEF Kept
    <3> QED
      BY <3>1, <3>2 DEF Kept
  <2>4. ASSUME "look back" \notin s.lost
        PROVE  Tracked(w + 1, c.last, c.consecutive)' /\ (Len(s.members) > 1 => NoRun(from, w + 1)')
    <3>1. Tracked(w, last, consecutive) /\ (Len(s.members) > 1 => NoRun(from, w))
      BY <2>2, <2>4
    <3>2. Tracked(w + 1, c.last, c.consecutive)'
      BY <1>5, <1>8, <1>10, <1>12, <1>13, <3>1, TrackedNext
    <3>3. Len(s.members) > 1 => NoRun(from, w + 1)'
      BY <1>1, <1>3, <1>8, <1>13, <3>1, NoRunNext, PickBreaksRun
    <3> QED
      BY <3>2, <3>3
  <2>5. ASSUME "counts" \notin s.lost
        PROVE  Balanced(M, from, w + 1, c.primaries, c.last)' /\ Even(M, from, w + 1)'
    <3>1. Even(M, from, w + 1)' /\ Balanced(M, from, w + 1, OneMore(served, p), p)'
      BY <1>4, <1>6, <1>8, <1>14, <2>2, <2>5, EvenWhenPicked
    <3> QED
      BY <1>10, <1>12, <1>13, <3>1
  <2> QED
    BY <1>3, <1>4, <1>12, <2>3, <2>4, <2>5, SoundGoesOn
<1>16. gen'[g] = NextWeekOf(c) /\ Others(g)
  BY <1>1, <1>9, <1>11 DEF GenerationInv, Others
<1>17. clean'[g] => Sound(gen[g])'
  <2>1. clean'[g] => clean[g]
    BY <1>1, <1>2 DEF Disturbed, Running
  <2> QED
    BY <1>15, <1>16, <2>1, SoundBecomes
<1>18. \A h \in Slots \ {g} : ~(clean'[h] /\ Running(h))
  BY <1>2 DEF Disturbed
<1> QED
  BY <1>16, <1>17, <1>18, AloneStep

LEMMA AloneStart ==
    ASSUME AloneInv, GenerationInv, NEW g \in Slots, NEW from, NEW n, Started(g, from, n), UNCHANGED schedule,
           UNCHANGED clean \/ clean' = Disturbed(g)
    PROVE  AloneInv'
<1>1. gen' = [gen EXCEPT ![g] = [Idle EXCEPT !.pc = "members", !.from = from, !.n = n, !.week = from]]
  BY DEF Started
<1>2. gen'[g].pc = "members" /\ Others(g)
  BY <1>1 DEF GenerationInv, Others, Idle
<1>3. Sound(gen[g])'
  BY <1>2 DEF Sound, SoundCounts, SoundRuns, Knowing
<1>4. \A h \in Slots \ {g} : clean'[h] /\ Running(h) => clean[h]
  BY DEF Disturbed
<1> QED
  BY <1>2, <1>3, <1>4, AloneStep

LEMMA AloneEnd ==
    ASSUME AloneInv, TypeInv, GenerationInv, NEW g \in Slots, Ended(g), UNCHANGED schedule,
           clean' = [clean EXCEPT ![g] = TRUE]
    PROVE  AloneInv'
<1>1. gen'[g] = Idle /\ Others(g) /\ \A h \in Slots \ {g} : clean'[h] = clean[h]
  BY DEF Ended, GenerationInv, Others, TypeInv, TypedTables
<1>2. Sound(gen[g])'
  BY <1>1, IdleIsTyped DEF Sound, SoundCounts, SoundRuns, Knowing
<1> QED
  BY <1>1, <1>2, AloneStep

LEMMA AloneEdited ==
    ASSUME AloneInv, NEW w, NEW row, Edited(w, row)
    PROVE  AloneInv'
<1>1. clean' = Disturbed(None) /\ UNCHANGED gen
  BY DEF Edited
<1>2. \A h \in Slots : clean'[h] => ~Running(h)
  BY <1>1, ConstantsAssumption DEF Disturbed
<1> QED
  BY <1>1, <1>2 DEF AloneInv, Sound, SoundCounts, SoundRuns, Knowing, Running

LEMMA AloneInit == Init => AloneInv
<1> SUFFICES ASSUME Init, NEW g \in Slots PROVE Sound(gen[g])
  BY DEF AloneInv
<1>1. gen[g].pc = "idle"
  BY IdleIsTyped DEF Init
<1> QED
  BY <1>1, SoundIfIdle

LEMMA AloneWorks ==
    ASSUME AloneInv, TypeInv, GenerationInv, TypeInv', NEW g \in Slots, Work(g)
    PROVE  AloneInv'
<1>1. CASE Respond(g) \/ GenerateFails(g)
  BY <1>1, AloneEnd DEF Respond, GenerateFails, tables
<1> QED
  BY <1>1, AloneReadMembers, AloneCounts, AloneReadSchedule, AloneLookBack, AloneSkipLocked, AloneAssignWeek
     DEF Work

LEMMA AloneNext == AloneInv /\ TypeInv /\ GenerationInv /\ [Next]_vars /\ TypeInv' => AloneInv'
<1> SUFFICES ASSUME AloneInv, TypeInv, GenerationInv, [Next]_vars, TypeInv' PROVE AloneInv'
  OBVIOUS
<1>1. ASSUME NEW g \in Slots, NEW from, NEW n, Generate(g, from, n) PROVE AloneInv'
  BY <1>1, AloneStart DEF Generate, tables
<1>2. CASE TopUp
  BY <1>1, <1>2 DEF TopUp, Slots
<1>3. ASSUME NEW g \in Slots, GenerateOnRequest(g) PROVE AloneInv'
  BY <1>1, <1>3 DEF GenerateOnRequest
<1>4. ASSUME NEW g \in Requests, ChangeMembers(g) PROVE AloneInv'
  BY <1>4, AloneStart DEF ChangeMembers, Slots
<1>5. ASSUME NEW w \in Weeks, UnlockScheduleWeek(w) PROVE AloneInv'
  BY <1>5, AloneEdited DEF UnlockScheduleWeek
<1>6. ASSUME NEW edit \in Edits, UpdateScheduleWeek(edit.week, edit.row) PROVE AloneInv'
  BY <1>6, AloneEdited DEF UpdateScheduleWeek
<1>7. CASE WeekPasses \/ UNCHANGED vars
  <2>1. UNCHANGED <<schedule, gen, clean>>
    BY <1>7 DEF WeekPasses, vars, tables, history
  <2>2. ASSUME NEW h \in Slots, clean'[h] PROVE Sound(gen[h])'
    <3>1. PICK s : s = gen[h] /\ s = gen'[h]
      BY <2>1
    <3>2. Sound(s)'
      BY <2>1, <2>2, <3>1, SoundSame DEF AloneInv
    <3> QED
      BY <3>1, <3>2, SoundBecomes
  <2> QED
    BY <2>2 DEF AloneInv
<1> QED
  BY <1>2, <1>3, <1>4, <1>5, <1>6, <1>7, AloneWorks DEF Next, AddMember, DeactivateMember

LEMMA AloneStays ==
    /\ Init => GenerationInv /\ LockInv /\ TypeInv /\ AloneInv
    /\ GenerationInv /\ LockInv /\ TypeInv /\ AloneInv /\ [Next]_vars
         => (GenerationInv /\ LockInv /\ TypeInv /\ AloneInv)'
BY LocksInit, LocksStep, TypeInit, TypeStep, AloneInit, AloneNext

LEMMA NoLongRunHolds == TypeInv /\ AloneInv => NoLongRun
<1> SUFFICES ASSUME TypeInv, AloneInv, NEW g \in Slots, gen[g].pc = "done", clean[g], Len(gen[g].members) > 1,
                    "look back" \notin gen[g].lost, NEW w \in Window(g), w \notin LockedIn(Weeks)
             PROVE  Changed(w)
  BY DEF NoLongRun, LimitIsKept, Changed
<1>1. TypedRun(gen[g]) /\ Provided(gen[g]) /\ Sound(gen[g])
  BY DEF TypeInv, TypedRuns, AloneInv
<1>2. w \in Weeks /\ gen[g].from <= w /\ w < gen[g].from + gen[g].n
  <2>1. PICK from \in Nat, n \in Nat : from = gen[g].from /\ n = gen[g].n
    BY <1>1, WindowNumbers
  <2>2. w \in from .. (from + n - 1) /\ from .. (from + n - 1) \subseteq Weeks
    <3>1. w \in gen[g].from .. (gen[g].from + gen[g].n - 1)
      BY DEF Window
    <3>2. gen[g].from .. (gen[g].from + gen[g].n - 1) \subseteq Weeks
      <4>1. gen[g].pc # "idle"
        OBVIOUS
      <4> QED
        BY <1>1, <4>1, WindowNumbers
    <3> QED
      BY <2>1, <3>1, <3>2
  <2>3. from <= w /\ w < from + n
    BY <2>2, WindowEnds
  <2> QED
    BY <2>1, <2>2, <2>3
<1>3. schedule[w] # None
  BY <1>1, <1>2 DEF Provided, Window
<1>4. NoRun(gen[g].from, gen[g].from + gen[g].n)
  BY <1>1 DEF Sound, SoundRuns, Reached
<1> QED
  BY <1>2, <1>3, <1>4 DEF NoRun, LockedIn

LEMMA EvenTurnsHolds == TypeInv /\ AloneInv => EvenTurns
<1> SUFFICES ASSUME TypeInv, AloneInv, NEW g \in Slots, gen[g].pc = "done", clean[g],
                    "counts" \notin gen[g].lost, NEW d \in 0 .. LastWeek,
                    \A u, v \in Listed(gen[g].members) :
                      PrimaryWeeks(u, Before(gen[g].from)) <= PrimaryWeeks(v, Before(gen[g].from)) + d,
                    NEW u \in Listed(gen[g].members), NEW v \in Listed(gen[g].members)
             PROVE  PrimaryWeeks(u, Before(gen[g].from) \union Window(g))
                      <= PrimaryWeeks(v, Before(gen[g].from) \union Window(g))
                           + (d + (1 + Cardinality(LockedIn(Window(g)))))
  BY DEF EvenTurns, TurnsAreEven, Before
<1>1. TypedRun(gen[g]) /\ Sound(gen[g])
  BY DEF TypeInv, TypedRuns, AloneInv
<1>2. PICK from \in Nat \ {0}, n \in Nat, M \in {Listed(gen[g].members)} :
        from = gen[g].from /\ n = gen[g].n /\ M = Listed(gen[g].members)
  BY <1>1, WindowNumbers
<1>3. Window(g) = from .. (from + n - 1) /\ from .. (from + n - 1) \subseteq Weeks
  BY <1>1, <1>2, WindowNumbers DEF Window
<1>4. Before(from) \union Window(g) = Before(from + n)
  <2>1. \A w \in Weeks : w < from + n <=> w < from \/ w \in from .. (from + n - 1)
    <3>1. \A w \in Nat : w < from + n <=> w < from \/ w \in from .. (from + n - 1)
      OBVIOUS
    <3> QED
      BY <3>1, WeeksAreFinite
  <2>2. \A w : w \in Before(from + n) <=> w \in Before(from) \union (from .. (from + n - 1))
    BY <1>3, <2>1 DEF Before
  <2> QED
    BY <1>3, <2>2
<1>5. LockedIn(Window(g)) = LockedIn({w \in Weeks : from <= w /\ w < from + n})
  <2>1. \A w \in Weeks : from <= w /\ w < from + n <=> w \in from .. (from + n - 1)
    <3>1. \A w \in Nat : from <= w /\ w < from + n <=> w \in from .. (from + n - 1)
      OBVIOUS
    <3> QED
      BY <3>1, WeeksAreFinite
  <2>2. Window(g) = {w \in Weeks : from <= w /\ w < from + n}
    BY <1>3, <2>1
  <2> QED
    BY <2>2
<1>6. Even(M, from, from + n)
  BY <1>1, <1>2 DEF Sound, SoundCounts, Reached
<1>7. WithinOf(M, from, d)
  BY <1>2 DEF WithinOf, Served
<1>8. Served(u, from + n) <= Served(v, from + n) + (d + 1 + Skipped(from, from + n))
  BY <1>2, <1>6, <1>7 DEF Even, WithinOf
<1>9. PICK a \in Nat, b \in Nat, K \in Nat :
        a = Served(u, from + n) /\ b = Served(v, from + n) /\ K = Skipped(from, from + n)
  <2>1. \A T \in SUBSET Weeks : Cardinality(T) \in Nat
    BY WeeksAreFinite, FS_Subset, FS_CardinalityType
  <2>2. Skipped(from, from + n) \in Nat
    BY <2>1 DEF Skipped, LockedIn
  <2> QED
    BY <2>2, ServedWeeks DEF Served, Before
<1>10. a <= b + (d + (1 + K))
  BY <1>8, <1>9
<1> QED
  BY <1>2, <1>4, <1>5, <1>9, <1>10 DEF Served, Skipped

\* For any members, weeks, locks and limit: when a generation returns that nobody interfered with and
\* whose look back did not fail, whatever became of its counts, no member of several has been assigned to
\* a week that makes a run longer than max_consecutive_weeks, counting the weeks before the window and the
\* locked ones (roster/scheduler.go:58-74, 107-115, 141-176).
THEOREM NoLongRunCorrect == Spec => []NoLongRun
<1>1. Init => GenerationInv /\ LockInv /\ TypeInv /\ AloneInv
  BY AloneStays
<1>2. GenerationInv /\ LockInv /\ TypeInv /\ AloneInv /\ [Next]_vars
        => (GenerationInv /\ LockInv /\ TypeInv /\ AloneInv)'
  BY AloneStays
<1> QED
  BY <1>1, <1>2, NoLongRunHolds, PTL DEF Spec

\* For any members, weeks, locks and limit: a generation that nobody interfered with and whose counts were
\* all read, whatever became of its look back, leaves the primary weeks of its members no further apart
\* than it found them, but for one week and those locked in its window (roster/scheduler.go:28-41, 82-119,
\* 141-176; docs/08-roster-v2.md, 3.3).
THEOREM EvenTurnsCorrect == Spec => []EvenTurns
<1>1. Init => GenerationInv /\ LockInv /\ TypeInv /\ AloneInv
  BY AloneStays
<1>2. GenerationInv /\ LockInv /\ TypeInv /\ AloneInv /\ [Next]_vars
        => (GenerationInv /\ LockInv /\ TypeInv /\ AloneInv)'
  BY AloneStays
<1> QED
  BY <1>1, <1>2, EvenTurnsHolds, PTL DEF Spec
-----------------------------------------------------------------------------
(* The plan.                                                               *)

\* The duty of the members before week w.
Duty(w, members) == [u \in Users |-> IF u \in Listed(members) THEN Served(u, w) ELSE 0]
SecondDuty(w, members) == [u \in Users |-> IF u \in Listed(members) THEN Seconded(u, w) ELSE 0]

\* What the weeks before w make of week w, whatever was read when.
Limited(w) == IF LongRun(w, MaxConsecutive) THEN {PrimaryOf(w - 1)} ELSE {}
PlannedPrimary(w, members) ==
    LET free == Listed(members) \ Limited(w)
    IN LeastServed(members, IF free = {} THEN Listed(members) ELSE free, Duty(w, members))
PlannedSecondary(w, members) ==
    IF Len(members) > 1
      THEN LeastServed(members, Listed(members) \ {PlannedPrimary(w, members)},
                       [u \in Users |-> Duty(w, members)[u] + SecondDuty(w, members)[u]])
      ELSE None
Planned(w, members) ==
    [primary |-> PlannedPrimary(w, members), secondary |-> PlannedSecondary(w, members), locked |-> FALSE]

Members == ActiveMembers(joined, active)

\* What a generation knows is what is in the tables.
Exact(s) ==
    /\ s.pc \in Knowing \union {"assign", "done"} => s.members = Members
    /\ s.pc \in Knowing => KnownCounts(s)
    /\ s.pc = "look back" => Looking(s)
    /\ s.pc = "assign" => /\ s.primaries = Duty(s.week, s.members)
                          /\ s.secondaries = SecondDuty(s.week, s.members)
                          /\ TracksExactly(s.week, s.last, s.consecutive)

Unlocked(from, w) == \A v \in Weeks : from <= v /\ v < w => ~schedule[v].locked
Passing(s) == s.pc \in {"assign", "done"}

\* A generation that is alone, has lost no read and has skipped no week so far.
Undisturbed(g) ==
    clean[g] /\ gen[g].lost = {} /\ (Passing(gen[g]) => Unlocked(gen[g].from, Reached(gen[g])))

\* Such a generation lays down a plan.
Laid(s) == Passing(s) => \A v \in Weeks : s.from <= v /\ v < Reached(s) => schedule[v] = Planned(v, Members)

\* From week S on there is nothing but the plan, without a gap.
OnlyPlan(S) ==
    \A w \in Weeks : S <= w /\ schedule[w] # None =>
      /\ schedule[w] = Planned(w, Members)
      /\ \A v \in Weeks : S <= v /\ v < w => schedule[v] # None

\* The generation started inside the plan or right behind it, and found no lock.
Within(S, s) ==
    s.pc # "idle" =>
      /\ S <= s.from
      /\ \A v \in Weeks : S <= v /\ v < (IF Passing(s) THEN Reached(s) ELSE s.from) => schedule[v] # None
      /\ s.pc \in {"look back", "assign"} => \A w \in Weeks : s.locked[w] = None

PlanInv ==
    /\ \A g \in Slots : settled # None \/ Undisturbed(g) => Exact(gen[g])
    /\ \A g \in Slots : Undisturbed(g) => Laid(gen[g])
    /\ settled # None => OnlyPlan(settled) /\ \A g \in Slots : Within(settled, gen[g])

SecondedIn(u, S) == {v \in S : schedule[v] # None /\ schedule[v].secondary = u}

LEMMA SecondedNext ==
    ASSUME NEW w \in Weeks, OnlyWeek(w), NEW u
    PROVE  /\ Seconded(u, w)' = Seconded(u, w) /\ Seconded(u, w) \in Nat
           /\ Seconded(u, w + 1)' = IF schedule'[w].secondary = u THEN Seconded(u, w) + 1 ELSE Seconded(u, w)
<1> DEFINE S == SecondedIn(u, Before(w))
<1>1. Before(w) \subseteq Weeks /\ w \notin Before(w) /\ Before(w + 1) = Before(w) \union {w}
  BY BeforeNext
<1>2. \A v \in Before(w) : schedule'[v] = schedule[v]
  BY <1>1 DEF OnlyWeek
<1>3. SecondedIn(u, Before(w))' = S
  BY <1>2 DEF SecondedIn, Before
<1>4. SecondedIn(u, Before(w + 1))' = IF schedule'[w].secondary = u THEN S \union {w} ELSE S
  BY <1>1, <1>2 DEF SecondedIn, Before, OnlyWeek
<1>5. S \subseteq Weeks /\ w \notin S
  BY <1>1 DEF SecondedIn
<1>6. /\ Seconded(u, w) = Cardinality(S) /\ Seconded(u, w)' = Cardinality(SecondedIn(u, Before(w))')
      /\ Seconded(u, w + 1)' = Cardinality(SecondedIn(u, Before(w + 1))')
  BY DEF Seconded, SecondaryWeeks, SecondedIn
<1> HIDE DEF S
<1>7. Cardinality(S) \in Nat /\ Cardinality(S \union {w}) = Cardinality(S) + 1
  BY <1>5, OneMoreElement
<1> QED
  BY <1>3, <1>4, <1>6, <1>7

LEMMA SecondedBefore ==
    ASSUME NEW w \in Weeks, OnlyWeek(w), NEW u, NEW from \in Nat, from <= w
    PROVE  Seconded(u, from)' = Seconded(u, from)
<1>1. \A v \in Before(from) : v \in Weeks /\ v # w
  BY WeeksAreFinite DEF Before
<1>2. SecondedIn(u, Before(from))' = SecondedIn(u, Before(from))
  BY <1>1 DEF SecondedIn, OnlyWeek, Before
<1> QED
  BY <1>2 DEF Seconded, SecondaryWeeks, SecondedIn

LEMMA DutyBefore ==
    ASSUME NEW w \in Weeks, OnlyWeek(w), NEW v \in Nat, v <= w, NEW members
    PROVE  Duty(v, members)' = Duty(v, members) /\ SecondDuty(v, members)' = SecondDuty(v, members)
<1>1. \A u : Served(u, v)' = Served(u, v) /\ Seconded(u, v)' = Seconded(u, v)
  BY ServedBefore, SecondedBefore
<1> QED
  BY <1>1 DEF Duty, SecondDuty

\* Counting a week in the generation and counting it in the table come to the same.
LEMMA DutyNext ==
    ASSUME NEW w \in Weeks, OnlyWeek(w), NEW members, Listed(members) \subseteq Users,
           NEW p \in Listed(members), p = schedule'[w].primary,
           NEW second \in Listed(members) \union {None}, second = schedule'[w].secondary
    PROVE  /\ Duty(w + 1, members)' = OneMore(Duty(w, members), p)
           /\ SecondDuty(w + 1, members)' = OneMore(SecondDuty(w, members), second)
<1>1. PICK M : M = Listed(members)
  OBVIOUS
<1>2. p # None /\ \A u \in Users : u # None
  BY ConstantsAssumption
<1>3. PICK a, b : /\ a = [u \in Users |-> IF u \in M THEN Served(u, w) ELSE 0]
                  /\ b = [u \in Users |-> IF u \in M THEN Seconded(u, w) ELSE 0]
  OBVIOUS
<1>4. Duty(w, members) = a /\ SecondDuty(w, members) = b
  BY <1>1, <1>3 DEF Duty, SecondDuty
<1>5. Duty(w + 1, members)' =
        [u \in Users |-> IF u \in M THEN (IF p = u THEN Served(u, w) + 1 ELSE Served(u, w)) ELSE 0]
  <2>1. \A u : Served(u, w + 1)' = IF p = u THEN Served(u, w) + 1 ELSE Served(u, w)
    BY ServedNext
  <2> QED
    BY <1>1, <2>1 DEF Duty
<1>6. SecondDuty(w + 1, members)' =
        [u \in Users |-> IF u \in M THEN (IF second = u THEN Seconded(u, w) + 1 ELSE Seconded(u, w)) ELSE 0]
  <2>1. \A u : Seconded(u, w + 1)' = IF second = u THEN Seconded(u, w) + 1 ELSE Seconded(u, w)
    BY SecondedNext
  <2> QED
    BY <1>1, <2>1 DEF SecondDuty
<1>7. Duty(w + 1, members)' = OneMore(a, p)
  BY <1>1, <1>2, <1>3, <1>5 DEF OneMore
<1>8. SecondDuty(w + 1, members)' = OneMore(b, second)
  <2>1. CASE second = None
    BY <1>1, <1>2, <1>3, <1>6, <2>1 DEF OneMore
  <2>2. CASE second # None
    BY <1>1, <1>2, <1>3, <1>6, <2>2 DEF OneMore
  <2> QED
    BY <2>1, <2>2
<1> QED
  BY <1>4, <1>7, <1>8
\* What is planned for week v depends on the weeks before v alone.
LEMMA LongRunBefore ==
    ASSUME NEW w \in Weeks, OnlyWeek(w), NEW v \in Weeks, v <= w, NEW k \in Nat \ {0}
    PROVE  LongRun(v, k)' <=> LongRun(v, k)
<1>1. v \in Nat /\ w \in Nat /\ v - 1 # w
  BY WeeksAreFinite
<1>2. PrimaryOf(v - 1)' = PrimaryOf(v - 1)
  BY <1>1, PrimaryNext
<1>3. ASSUME NEW i \in 1 .. k PROVE PrimaryOf(v - 1 + 1 - i)' = PrimaryOf(v - 1 + 1 - i)
  <2>1. v - 1 + 1 - i # w
    BY <1>1
  <2> QED
    BY <2>1, PrimaryNext
<1>4. Unbroken(v - 1, k)' <=> Unbroken(v - 1, k)
  BY <1>2, <1>3 DEF Unbroken
<1> QED
  BY <1>2, <1>4 DEF LongRun

LEMMA PlannedBefore ==
    ASSUME NEW w \in Weeks, OnlyWeek(w), NEW v \in Weeks, v <= w, NEW members
    PROVE  Planned(v, members)' = Planned(v, members)
<1>1. v \in Nat /\ v - 1 # w /\ MaxConsecutive \in Nat \ {0}
  BY WeeksAreFinite, ConstantsAssumption
<1>2. Duty(v, members)' = Duty(v, members) /\ SecondDuty(v, members)' = SecondDuty(v, members)
  BY <1>1, DutyBefore
<1>3. Limited(v)' = Limited(v)
  <2>1. PrimaryOf(v - 1)' = PrimaryOf(v - 1)
    BY <1>1, PrimaryNext
  <2> QED
    BY <1>1, <2>1, LongRunBefore DEF Limited
<1>4. PlannedPrimary(v, members)' = PlannedPrimary(v, members)
  BY <1>2, <1>3 DEF PlannedPrimary
<1>5. PlannedSecondary(v, members)' = PlannedSecondary(v, members)
  BY <1>2, <1>4 DEF PlannedSecondary
<1> QED
  BY <1>4, <1>5 DEF Planned

\* The run that is longer by the week passed.
LEMMA UnbrokenNext ==
    ASSUME NEW w \in Weeks, OnlyWeek(w), NEW p, p = schedule'[w].primary, p # None,
           NEW k \in Nat, k > 1
    PROVE  LongRun(w + 1, k)' <=> PrimaryOf(w - 1) = p /\ LongRun(w, k - 1)
<1>1. w \in Nat \ {0} /\ w + 1 - 1 = w /\ PrimaryOf(w)' = p
  BY WeeksAreFinite, PrimaryNext
<1>2. LongRun(w + 1, k)' <=> k <= w /\ \A i \in 1 .. k : PrimaryOf(w + 1 - i)' = p
  BY <1>1 DEF LongRun, Unbroken
<1>3. PrimaryOf(w + 1 - 1)' = p
  BY <1>1
<1>4. ASSUME \A i \in 1 .. k : PrimaryOf(w + 1 - i)' = p
      PROVE  PrimaryOf(w - 1) = p /\ Unbroken(w - 1, k - 1)
  <2>1. ASSUME NEW i \in 1 .. k - 1 PROVE PrimaryOf(w - 1 + 1 - i) = p
    <3>1. i + 1 \in 1 .. k /\ w + 1 - (i + 1) = w - 1 + 1 - i /\ w - 1 + 1 - i # w
      BY <1>1
    <3> QED
      BY <1>4, <3>1, PrimaryNext
  <2>2. PrimaryOf(w - 1) = p
    <3>1. 1 \in 1 .. k - 1 /\ w - 1 + 1 - 1 = w - 1
      BY <1>1
    <3> QED
      BY <2>1, <3>1
  <2> QED
    BY <2>1, <2>2 DEF Unbroken
<1>5. ASSUME PrimaryOf(w - 1) = p, Unbroken(w - 1, k - 1), NEW i \in 1 .. k
      PROVE  PrimaryOf(w + 1 - i)' = p
  <2>1. CASE i = 1
    BY <1>3, <2>1
  <2>2. CASE i # 1
    <3>1. i - 1 \in 1 .. k - 1 /\ w - 1 + 1 - (i - 1) = w + 1 - i /\ w + 1 - i # w
      BY <1>1, <2>2
    <3>2. PrimaryOf(w - 1 + 1 - (i - 1)) = p
      BY <1>5, <3>1 DEF Unbroken
    <3> QED
      BY <3>1, <3>2, PrimaryNext
  <2> QED
    BY <2>1, <2>2
<1>6. k <= w <=> k - 1 <= w - 1
  BY <1>1
<1> QED
  BY <1>2, <1>4, <1>5, <1>6 DEF LongRun

LEMMA ExactlyNext ==
    ASSUME NEW w \in Weeks, OnlyWeek(w), NEW last, NEW consecutive \in Nat,
           TracksExactly(w, last, consecutive), NEW p, p = schedule'[w].primary, p # None
    PROVE  TracksExactly(w + 1, p, IF last = p THEN consecutive + 1 ELSE 1)'
<1>1. w \in Nat \ {0} /\ w + 1 - 1 = w /\ PrimaryOf(w)' = p /\ MaxConsecutive \in Nat
  BY WeeksAreFinite, PrimaryNext, ConstantsAssumption
<1>2. PICK c \in Nat : c = IF last = p THEN consecutive + 1 ELSE 1
  OBVIOUS
<1>3. ASSUME NEW k \in 1 .. MaxConsecutive PROVE k <= c <=> LongRun(w + 1, k)'
  <2>1. CASE k = 1
    <3>1. \A i \in 1 .. 1 : w + 1 - i = w
      BY <1>1
    <3>2. Unbroken(w, 1)'
      BY <3>1 DEF Unbroken
    <3>3. LongRun(w + 1, 1)'
      BY <1>1, <3>2 DEF LongRun
    <3> QED
      BY <1>2, <2>1, <3>3
  <2>2. CASE k # 1
    <3>1. k \in Nat /\ k > 1 /\ k - 1 \in 1 .. MaxConsecutive
      BY <1>1, <2>2
    <3>2. LongRun(w + 1, k)' <=> last = p /\ LongRun(w, k - 1)
      BY <3>1, UnbrokenNext DEF TracksExactly
    <3>3. k - 1 <= consecutive <=> LongRun(w, k - 1)
      BY <3>1 DEF TracksExactly
    <3> QED
      BY <1>2, <3>1, <3>2, <3>3
  <2> QED
    BY <2>1, <2>2
<1> QED
  BY <1>1, <1>2, <1>3 DEF TracksExactly

\* Whoever knows what is in the tables assigns what is planned.
LEMMA PicksPlanned ==
    ASSUME NEW s, TypedRun(s), s.pc = "assign", Exact(s)
    PROVE  /\ PickPrimary(s) = PlannedPrimary(s.week, s.members)
           /\ (IF Len(s.members) > 1 THEN PickSecondary(s, PickPrimary(s)) ELSE None)
                = PlannedSecondary(s.week, s.members)
<1>1. PICK c \in Nat, w \in {s.week}, m \in {s.members} : w = s.week /\ c = s.consecutive /\ m = s.members
  BY DEF TypedRun
<1>2. /\ s.primaries = Duty(w, m) /\ s.secondaries = SecondDuty(w, m)
      /\ TracksExactly(w, s.last, c)
  BY <1>1 DEF Exact
<1>3. c >= MaxConsecutive <=> LongRun(w, MaxConsecutive)
  <2>1. MaxConsecutive \in 1 .. MaxConsecutive
    BY ConstantsAssumption
  <2>2. MaxConsecutive <= c <=> LongRun(w, MaxConsecutive)
    BY <1>2, <2>1 DEF TracksExactly
  <2> QED
    BY <2>2, ConstantsAssumption
<1>4. (IF s.consecutive >= MaxConsecutive THEN {s.last} ELSE {}) = Limited(w)
  BY <1>1, <1>2, <1>3 DEF Limited, TracksExactly
<1>5. PickPrimary(s) = PlannedPrimary(w, m)
  BY <1>1, <1>2, <1>4 DEF PickPrimary, PlannedPrimary
<1>6. Len(m) > 1 => PickSecondary(s, PlannedPrimary(w, m)) = PlannedSecondary(w, m)
  BY <1>1, <1>2 DEF PickSecondary, PlannedSecondary
<1>7. ~(Len(m) > 1) => PlannedSecondary(w, m) = None
  BY DEF PlannedSecondary
<1> QED
  BY <1>1, <1>5, <1>6, <1>7
\* All this is about the tables.
LEMMA PlanSame ==
    ASSUME UNCHANGED tables
    PROVE  /\ Members' = Members
           /\ \A w, members : Planned(w, members)' = Planned(w, members)
           /\ \A w, members : /\ Duty(w, members)' = Duty(w, members)
                              /\ SecondDuty(w, members)' = SecondDuty(w, members)
           /\ \A w, last, consecutive :
                TracksExactly(w, last, consecutive)' <=> TracksExactly(w, last, consecutive)
<1>1. UNCHANGED schedule /\ Members' = Members
  BY DEF tables, Members
<1>2. \A u, w : Served(u, w)' = Served(u, w) /\ Seconded(u, w)' = Seconded(u, w)
  BY <1>1 DEF Served, Seconded, PrimaryWeeks, SecondaryWeeks, Before
<1>3. \A w, members : /\ Duty(w, members)' = Duty(w, members)
                      /\ SecondDuty(w, members)' = SecondDuty(w, members)
  BY <1>2 DEF Duty, SecondDuty
<1>4. \A w : PrimaryOf(w)' = PrimaryOf(w)
  BY <1>1 DEF PrimaryOf
<1>5. \A w, k : LongRun(w, k)' <=> LongRun(w, k)
  <2>1. \A w, k : Unbroken(w, k)' <=> Unbroken(w, k)
    BY <1>4 DEF Unbroken
  <2> QED
    BY <1>4, <2>1 DEF LongRun
<1>6. \A w, last, consecutive : TracksExactly(w, last, consecutive)' <=> TracksExactly(w, last, consecutive)
  BY <1>4, <1>5 DEF TracksExactly
<1>7. \A w : Limited(w)' = Limited(w)
  BY <1>4, <1>5 DEF Limited
<1>8. \A w, members : PlannedPrimary(w, members)' = PlannedPrimary(w, members)
  BY <1>3, <1>7 DEF PlannedPrimary
<1>9. \A w, members : PlannedSecondary(w, members)' = PlannedSecondary(w, members)
  BY <1>3, <1>8 DEF PlannedSecondary
<1>10. \A w, members : Planned(w, members)' = Planned(w, members)
  BY <1>8, <1>9 DEF Planned
<1> QED
  BY <1>1, <1>3, <1>6, <1>10

LEMMA KnowledgeSame ==
    ASSUME UNCHANGED tables, NEW s, NEW S
    PROVE  /\ Exact(s) => Exact(s)'
           /\ Laid(s) => Laid(s)'
           /\ Unlocked(s.from, Reached(s))' => Unlocked(s.from, Reached(s))
           /\ OnlyPlan(S) => OnlyPlan(S)'
           /\ Within(S, s) => Within(S, s)'
<1>1. UNCHANGED schedule
  BY DEF tables
<1>2. PICK M : M = Members /\ M = Members'
  BY PlanSame
<1>3. Exact(s) => Exact(s)'
  BY <1>1, <1>2, PlanSame, KnowingSame DEF Exact
<1>4. \A w \in Weeks : Planned(w, M)' = Planned(w, M)
  BY PlanSame
<1>5. Laid(s) => Laid(s)'
  BY <1>1, <1>2, <1>4 DEF Laid, Passing, Reached
<1>6. OnlyPlan(S) => OnlyPlan(S)'
  BY <1>1, <1>2, <1>4 DEF OnlyPlan
<1>7. Unlocked(s.from, Reached(s))' => Unlocked(s.from, Reached(s))
  BY <1>1 DEF Unlocked, Reached
<1>8. Within(S, s) => Within(S, s)'
  BY <1>1 DEF Within, Passing, Reached
<1> QED
  BY <1>3, <1>5, <1>6, <1>7, <1>8

LEMMA ExactBecomes ==
    ASSUME NEW h, NEW s, s = gen'[h], Exact(s)'
    PROVE  Exact(gen[h])'
BY DEF Exact, KnownCounts, Looking

LEMMA NothingKnown ==
    ASSUME NEW s, s.pc \in {"idle", "members"}
    PROVE  Exact(s) /\ Laid(s) /\ \A S : s.pc = "idle" => Within(S, s)
BY DEF Exact, Laid, Passing, Within, Knowing

\* A step of g that leaves the tables as they are.
LEMMA PlanQuiet ==
    ASSUME PlanInv, NEW g \in Slots, Others(g), UNCHANGED tables, settled' = settled \/ settled' = None,
           \A h \in Slots \ {g} : clean'[h] => clean[h] \/ ~Running(h),
           settled' # None \/ Undisturbed(g)' => Exact(gen[g])',
           Undisturbed(g)' => Laid(gen[g])',
           settled' # None => Within(settled, gen[g])'
    PROVE  PlanInv'
<1>1. ASSUME NEW h \in Slots, h # g
      PROVE  /\ settled' # None \/ Undisturbed(h)' => Exact(gen[h])'
             /\ Undisturbed(h)' => Laid(gen[h])'
             /\ settled' # None => Within(settled, gen[h])'
  <2>1. PICK s : s = gen[h] /\ s = gen'[h]
    BY <1>1 DEF Others
  <2>2. PICK S : S = settled
    OBVIOUS
  <2>3. CASE s.pc = "idle"
    <3>1. Exact(s)' /\ Laid(s)' /\ Within(settled, s)'
      BY <2>3 DEF Exact, Laid, Passing, Within, Knowing
    <3>2. Exact(gen[h])'
      BY <2>1, <3>1, ExactBecomes
    <3> QED
      BY <2>1, <3>1, <3>2 DEF Laid, Within, Passing, Reached
  <2>4. CASE s.pc # "idle"
    <3>1. clean'[h] => clean[h]
      BY <1>1, <2>1, <2>4 DEF Running
    <3>2. Undisturbed(h)' => Undisturbed(h)
      <4>1. Undisturbed(h)' => clean'[h] /\ s.lost = {} /\ (Passing(s) => Unlocked(s.from, Reached(s))')
        BY <2>1 DEF Undisturbed, Passing, Unlocked, Reached
      <4>2. clean[h] /\ s.lost = {} /\ (Passing(s) => Unlocked(s.from, Reached(s))) => Undisturbed(h)
        BY <2>1 DEF Undisturbed
      <4> QED
        BY <3>1, <4>1, <4>2, KnowledgeSame
    <3>3. settled' # None \/ Undisturbed(h)' => Exact(s)'
      BY <2>1, <3>2, KnowledgeSame DEF PlanInv
    <3>4. Undisturbed(h)' => Laid(s)'
      BY <2>1, <3>2, KnowledgeSame DEF PlanInv
    <3>5. settled' # None => Within(S, s)'
      BY <2>1, <2>2, KnowledgeSame DEF PlanInv
    <3>6. Exact(s)' => Exact(gen[h])'
      BY <2>1, ExactBecomes
    <3>7. Laid(s)' => Laid(gen[h])'
      BY <2>1 DEF Laid, Passing, Reached
    <3>8. settled' # None /\ Within(S, s)' => Within(settled, gen[h])'
      BY <2>1, <2>2 DEF Within, Passing, Reached
    <3> QED
      BY <3>3, <3>4, <3>5, <3>6, <3>7, <3>8
  <2> QED
    BY <2>3, <2>4
<1>2. settled' # None => OnlyPlan(settled)'
  <2>1. PICK S : S = settled
    OBVIOUS
  <2>2. settled' # None => OnlyPlan(S)'
    BY <2>1, KnowledgeSame DEF PlanInv
  <2> QED
    BY <2>1, <2>2 DEF OnlyPlan
<1>3. ASSUME NEW h \in Slots
      PROVE  /\ settled' # None \/ Undisturbed(h)' => Exact(gen[h])'
             /\ Undisturbed(h)' => Laid(gen[h])'
             /\ settled' # None => Within(settled, gen[h])'
  <2>1. CASE h = g
    BY <2>1
  <2>2. CASE h # g
    BY <1>1, <2>2
  <2> QED
    BY <2>1, <2>2
<1> QED
  BY <1>2, <1>3 DEF PlanInv

\* The same for what g becomes.
LEMMA PlanMoves ==
    ASSUME PlanInv, NEW g \in Slots, NEW s, gen'[g] = s, Others(g), UNCHANGED <<tables, clean>>,
           settled' = settled \/ settled' = None,
           settled' # None \/ Undisturbed(g)' => Exact(s), Laid(s), settled # None => Within(settled, s)
    PROVE  PlanInv'
<1>1. PICK S : S = settled
  OBVIOUS
<1>2. settled' # None \/ Undisturbed(g)' => Exact(s)'
  BY KnowledgeSame
<1>3. settled' # None \/ Undisturbed(g)' => Exact(gen[g])'
  BY <1>2, ExactBecomes
<1>4. Laid(gen[g])'
  <2>1. Laid(s)'
    BY KnowledgeSame
  <2> QED
    BY <2>1 DEF Laid, Passing, Reached
<1>5. settled' # None => Within(settled, gen[g])'
  <2>1. settled' # None => Within(S, s)'
    BY <1>1, KnowledgeSame
  <2> QED
    BY <1>1, <2>1 DEF Within, Passing, Reached
<1> QED
  BY <1>3, <1>4, <1>5, PlanQuiet

\* A step after which nobody who is further than the start is alone.
LEMMA PlanIsOff ==
    ASSUME settled' = None, \A h \in Slots : clean'[h] => gen'[h].pc \in {"idle", "members"}
    PROVE  PlanInv'
<1>1. ASSUME NEW h \in Slots, Undisturbed(h)' PROVE Exact(gen[h])' /\ Laid(gen[h])'
  <2>1. clean'[h]
    BY <1>1 DEF Undisturbed
  <2>2. gen'[h].pc \in {"idle", "members"}
    BY <2>1
  <2> QED
    BY <2>2 DEF Exact, Laid, Passing, Knowing
<1> QED
  BY <1>1 DEF PlanInv

LEMMA PlanInit == Init => PlanInv
<1> SUFFICES ASSUME Init PROVE PlanInv
  OBVIOUS
<1>1. settled = None /\ \A g \in Slots : gen[g].pc = "idle"
  BY IdleIsTyped DEF Init
<1> QED
  BY <1>1, NothingKnown DEF PlanInv

LEMMA PlanEnd ==
    ASSUME PlanInv, TypeInv, GenerationInv, NEW g \in Slots, Ended(g), UNCHANGED <<tables, settled>>,
           clean' = [clean EXCEPT ![g] = TRUE]
    PROVE  PlanInv'
<1>1. gen'[g].pc = "idle" /\ Others(g) /\ \A h \in Slots \ {g} : clean'[h] = clean[h]
  BY IdleIsTyped DEF Ended, GenerationInv, Others, TypeInv, TypedTables
<1>2. Exact(gen[g])' /\ Laid(gen[g])' /\ Within(settled, gen[g])'
  BY <1>1 DEF Exact, Laid, Passing, Within, Knowing
<1> QED
  BY <1>1, <1>2, PlanQuiet

LEMMA PlanGenerate ==
    ASSUME PlanInv, TypeInv, GenerationInv, NEW g \in Slots, NEW from, from \in Nat, NEW n, Generate(g, from, n)
    PROVE  PlanInv'
<1>1. gen' = [gen EXCEPT ![g] = [Idle EXCEPT !.pc = "members", !.from = from, !.n = n, !.week = from]]
  BY DEF Generate, Started
<1>2. gen'[g].pc = "members" /\ gen'[g].from = from /\ Others(g)
  BY <1>1 DEF GenerationInv, Others, Idle
<1>3. UNCHANGED <<tables, clean>>
  BY DEF Generate
<1>4. Exact(gen[g])' /\ Laid(gen[g])'
  BY <1>2 DEF Exact, Laid, Passing, Knowing
<1>5. settled' = settled \/ settled' = None
  BY DEF Generate
<1>6. ASSUME settled' # None PROVE Within(settled, gen[g])'
  <2>1. InsidePlan(from) /\ settled' = settled
    BY <1>6 DEF Generate
  <2>2. settled \in Nat /\ \A v \in Weeks : v \in Nat
    BY <2>1, WeeksAreFinite DEF InsidePlan, TypeInv, TypedTables
  <2>3. settled <= from /\ \A v \in Weeks : settled <= v /\ v < from => schedule[v] # None
    BY <2>1, <2>2 DEF InsidePlan
  <2>4. UNCHANGED schedule
    BY <1>3 DEF tables
  <2> QED
    BY <1>2, <2>1, <2>3, <2>4 DEF Within, Passing
<1> QED
  BY <1>2, <1>3, <1>4, <1>5, <1>6, PlanQuiet
LEMMA PlanReadMembers ==
    ASSUME PlanInv, TypeInv, GenerationInv, NEW g \in Slots, ReadMembers(g)
    PROVE  PlanInv'
<1>1. UNCHANGED <<tables, settled>> /\ gen[g].pc = "members"
  BY DEF ReadMembers
<1>2. CASE Ended(g) /\ clean' = [clean EXCEPT ![g] = TRUE]
  BY <1>1, <1>2, PlanEnd
<1>3. CASE ~ (Ended(g) /\ clean' = [clean EXCEPT ![g] = TRUE])
  <2>1. PICK members, r, s : /\ members = ActiveMembers(joined, active) /\ r = gen[g]
                             /\ s = [r EXCEPT !.pc = "primary", !.members = members]
    OBVIOUS
  <2>2. UNCHANGED clean /\ gen' = [gen EXCEPT ![g] = s]
    BY <1>3, <2>1 DEF ReadMembers
  <2>3. gen'[g] = s /\ Others(g)
    BY <2>2 DEF GenerationInv, Others
  <2>4. TypedRun(r) /\ members \in Seq(Users)
    BY <2>1, ActiveMembersAre DEF TypeInv, TypedTables, TypedRuns
  <2>5. /\ s.pc = "primary" /\ s.members = members /\ s.from = r.from
        /\ s.at = 1 /\ s.primaries = NoCounts /\ s.secondaries = NoCounts
    BY <1>1, <2>1, <2>4 DEF TypedRun, WellFormed, Idle
  <2>6. KnownCounts(s)
    <3>1. FirstOf(members, 1) = {}
      BY <2>4, FirstOfList
    <3> QED
      BY <2>5, <3>1 DEF KnownCounts, DutyOf, SecondDutyOf, NoCounts
  <2>7. Exact(s) /\ Laid(s)
    BY <2>1, <2>5, <2>6 DEF Exact, Members, Laid, Passing
  <2>8. PICK S : S = settled /\ S = settled'
    BY <1>1
  <2>9. S # None => Within(S, s)
    <3>1. S # None => Within(S, r)
      BY <2>1, <2>8 DEF PlanInv
    <3> QED
      BY <1>1, <2>1, <2>5, <3>1 DEF Within, Passing
  <2>10. PlanInv'
    BY <1>1, <2>2, <2>3, <2>7, <2>8, <2>9, PlanMoves
  <2> QED
    BY <2>10
<1> QED
  BY <1>2, <1>3

\* A count or a look back.
LEMMA PlanReads ==
    ASSUME PlanInv, GenerationInv, NEW g \in Slots, NEW s, NEW read, Reads(g, s, read),
           gen[g].pc \in Knowing, s.pc \in Knowing \union {"assign"},
           s.pc \in {"look back", "assign"} => gen[g].pc = "look back",
           Exact(gen[g]) => Exact(s) \/ (read \in s.lost /\ settled' = None)
    PROVE  PlanInv'
<1>1. PICK r : r = gen[g]
  OBVIOUS
<1>2. /\ UNCHANGED <<tables, clean>> /\ gen'[g] = s /\ Others(g)
      /\ s.from = r.from /\ s.week = r.week /\ s.locked = r.locked
      /\ (s.lost = r.lost /\ settled' = settled) \/ (s.lost = r.lost \union {read} /\ settled' = None)
  BY <1>1 DEF Reads, GenerationInv, Others, Same
<1>3. s.week = s.from
  BY <1>1, <1>2 DEF GenerationInv, Knowing, Reading
<1>4. Laid(s)
  <2>1. s.from \in Nat /\ \A v \in Weeks : v \in Nat
    BY <1>1, <1>2, WeeksAreFinite DEF GenerationInv
  <2>2. Passing(s) => Reached(s) = s.from
    BY <1>3 DEF Passing, Reached, Knowing
  <2>3. \A v \in Weeks : ~(s.from <= v /\ v < s.from)
    <3>1. PICK from \in Nat : from = s.from
      BY <2>1
    <3>2. \A v \in Weeks : ~(from <= v /\ v < from)
      BY NothingBefore
    <3> QED
      BY <3>1, <3>2
  <2> QED
    BY <2>2, <2>3 DEF Laid
<1>5. settled' # None \/ Undisturbed(g)' => Exact(s)
  <2>1. Undisturbed(g)' => clean[g] /\ s.lost = {}
    BY <1>2 DEF Undisturbed
  <2>2. ~Passing(r)
    BY <1>1 DEF Passing, Knowing
  <2>3. settled' # None \/ Undisturbed(g)' => settled # None \/ Undisturbed(g)
    BY <1>1, <1>2, <2>1, <2>2 DEF Undisturbed
  <2>4. settled' # None \/ Undisturbed(g)' => Exact(gen[g])
    BY <2>3 DEF PlanInv
  <2> QED
    BY <2>1, <2>4
<1>6. PICK S : S = settled
  OBVIOUS
<1>7. S # None => Within(S, s)
  <2>1. S # None => Within(S, r)
    BY <1>1, <1>6 DEF PlanInv
  <2>2. r.pc \in Knowing /\ r.pc # "idle" /\ ~Passing(r)
    BY <1>1 DEF Passing, Knowing
  <2>3. s.pc # "done" /\ (Passing(s) => Reached(s) = s.from)
    BY <1>3 DEF Passing, Reached, Knowing
  <2> QED
    BY <1>1, <1>2, <2>1, <2>2, <2>3 DEF Within
<1> QED
  BY <1>2, <1>4, <1>5, <1>6, <1>7, PlanMoves

LEMMA PlanCounts ==
    ASSUME PlanInv, TypeInv, GenerationInv, NEW g \in Slots, CountPrimary(g) \/ CountSecondary(g)
    PROVE  PlanInv'
<1>1. PICK s : /\ Reads(g, s, "counts") /\ gen[g].pc \in {"primary", "secondary"}
               /\ s.pc \in {"primary", "secondary", "schedule"}
               /\ KnownCounts(gen[g]) => KnownCounts(s) \/ ("counts" \in s.lost /\ settled' = None)
  BY CountsKnown
<1>2. s.members = gen[g].members
  BY <1>1 DEF Reads
<1>3. Exact(gen[g]) => KnownCounts(gen[g]) /\ s.members = Members
  BY <1>1, <1>2 DEF Exact, Knowing
<1>4. KnownCounts(s) /\ s.members = Members => Exact(s)
  BY <1>1 DEF Exact, Knowing
<1>5. Exact(gen[g]) => Exact(s) \/ ("counts" \in s.lost /\ settled' = None)
  BY <1>1, <1>3, <1>4
<1>6. gen[g].pc \in Knowing /\ s.pc \in Knowing \union {"assign"} /\ s.pc \notin {"look back", "assign"}
  BY <1>1 DEF Knowing
<1> QED
  BY <1>1, <1>5, <1>6, PlanReads

LEMMA PlanReadSchedule ==
    ASSUME PlanInv, TypeInv, GenerationInv, NEW g \in Slots, ReadSchedule(g)
    PROVE  PlanInv'
<1>1. UNCHANGED <<tables, settled, clean>> /\ gen[g].pc = "schedule"
  BY DEF ReadSchedule, history
<1>2. PICK r, locked, s : /\ r = gen[g] /\ locked = [w \in Weeks |-> LockedRow(g, w)]
                          /\ s = [r EXCEPT !.pc = "look back", !.locked = locked]
  OBVIOUS
<1>3. gen'[g] = s /\ Others(g)
  BY <1>2 DEF ReadSchedule, GenerationInv, Others
<1>4. TypedRun(r) /\ r.from \in Nat \ {0} /\ r.pc = "schedule" /\ r.last = None /\ r.consecutive = 0
  <2>1. TypedRun(r) /\ r.pc = "schedule"
    BY <1>1, <1>2 DEF TypeInv, TypedRuns
  <2>2. r.last = None /\ r.consecutive = 0
    BY <2>1 DEF TypedRun, Counting
  <2> QED
    BY <2>1, <2>2, WindowNumbers
<1>5. /\ s.pc = "look back" /\ s.members = r.members /\ s.primaries = r.primaries /\ s.lost = r.lost
      /\ s.secondaries = r.secondaries /\ s.from = r.from /\ s.at = r.at /\ s.locked = locked
      /\ s.last = r.last /\ s.consecutive = r.consecutive
  BY <1>2, <1>4 DEF TypedRun, WellFormed, Idle
<1>6. settled' # None \/ Undisturbed(g)' => Exact(s)
  <2>1. Undisturbed(g)' => Undisturbed(g)
    BY <1>1, <1>2, <1>3, <1>5 DEF Undisturbed, Passing
  <2>2. settled' # None \/ Undisturbed(g)' => Exact(r)
    BY <1>1, <1>2, <2>1 DEF PlanInv
  <2>3. Exact(r) => KnownCounts(r) /\ r.members = Members
    BY <1>4 DEF Exact, Knowing
  <2>4. KnownCounts(r) => KnownCounts(s)
    BY <1>4, <1>5 DEF KnownCounts
  <2>5. Looking(s)
    <3>1. 0 < MaxConsecutive
      BY ConstantsAssumption
    <3> QED
      BY <1>4, <1>5, <3>1 DEF Looking
  <2>6. KnownCounts(s) /\ r.members = Members => Exact(s)
    BY <1>5, <2>5 DEF Exact
  <2> QED
    BY <2>2, <2>3, <2>4, <2>6
<1>7. Laid(s)
  BY <1>5 DEF Laid, Passing
<1>8. PICK S : S = settled /\ S = settled'
  BY <1>1
<1>9. ASSUME S # None PROVE Within(S, s)
  <2>1. Within(S, r) /\ OnlyPlan(S)
    BY <1>2, <1>8, <1>9 DEF PlanInv
  <2>2. S \in Nat /\ S <= r.from
    BY <1>4, <1>8, <1>9, <2>1, WeeksAreFinite DEF Within, TypeInv, TypedTables
  <2>3. ASSUME NEW w \in Weeks PROVE s.locked[w] = None
    <3>1. s.locked[w] = LockedRow(g, w)
      BY <1>2, <1>5
    <3>2. ASSUME w \in Window(g), schedule[w] # None PROVE ~schedule[w].locked
      <4>1. w \in Nat /\ r.from <= w
        <5>1. PICK from \in Nat, n \in Nat : from = gen[g].from /\ n = gen[g].n
          BY DEF GenerationInv
        <5>2. w \in from .. (from + n - 1)
          BY <3>2, <5>1 DEF Window
        <5> QED
          BY <1>2, <5>1, <5>2, WeeksAreFinite
      <4>2. S <= w
        BY <1>4, <2>2, <4>1
      <4>3. schedule[w] = Planned(w, Members)
        BY <2>1, <3>2, <4>2 DEF OnlyPlan
      <4> QED
        BY <4>3 DEF Planned
    <3> QED
      BY <3>1, <3>2 DEF LockedRow
  <2> QED
    BY <1>4, <1>5, <2>1, <2>3 DEF Within, Passing
<1> QED
  BY <1>1, <1>3, <1>6, <1>7, <1>8, <1>9, PlanMoves

LEMMA PlanLookBack ==
    ASSUME PlanInv, TypeInv, GenerationInv, NEW g \in Slots, LookBack(g)
    PROVE  PlanInv'
<1>1. PICK s : /\ Reads(g, s, "look back") /\ gen[g].pc = "look back" /\ s.pc \in {"look back", "assign"}
               /\ s.at = gen[g].at /\ s.primaries = gen[g].primaries /\ s.secondaries = gen[g].secondaries
               /\ Looking(gen[g]) => \/ s.pc = "look back" /\ Looking(s)
                                     \/ s.pc = "assign" /\ TracksExactly(s.from, s.last, s.consecutive)
                                     \/ "look back" \in s.lost /\ settled' = None
  BY LookBackKnown
<1>2. PICK r : r = gen[g] /\ TypedRun(r) /\ r.week = r.from
  BY <1>1 DEF TypeInv, TypedRuns, GenerationInv, Reading
<1>3. s.members = r.members /\ s.from = r.from /\ s.week = r.from
  BY <1>1, <1>2 DEF Reads, Same
<1>4. Exact(r) => Looking(r) /\ KnownCounts(r) /\ s.members = Members
  BY <1>1, <1>2, <1>3 DEF Exact, Knowing
<1>5. ASSUME s.pc = "look back", Looking(s), KnownCounts(r), s.members = Members PROVE Exact(s)
  <2>1. KnownCounts(s)
    BY <1>1, <1>2, <1>3, <1>5 DEF KnownCounts
  <2> QED
    BY <1>5, <2>1 DEF Exact
<1>6. ASSUME s.pc = "assign", TracksExactly(s.from, s.last, s.consecutive), KnownCounts(r), s.members = Members
      PROVE  Exact(s)
  <2>1. r.primaries = DutyOf(Listed(r.members), r.from) /\ r.secondaries = SecondDutyOf(Listed(r.members), r.from)
    BY <1>1, <1>2, <1>6, AllKnown
  <2>2. s.primaries = Duty(s.week, s.members) /\ s.secondaries = SecondDuty(s.week, s.members)
    BY <1>1, <1>2, <1>3, <2>1 DEF Duty, SecondDuty, DutyOf, SecondDutyOf
  <2> QED
    BY <1>3, <1>6, <2>2 DEF Exact, Knowing
<1>7. Exact(gen[g]) => Exact(s) \/ ("look back" \in s.lost /\ settled' = None)
  BY <1>1, <1>2, <1>4, <1>5, <1>6
<1>8. gen[g].pc \in Knowing /\ s.pc \in Knowing \union {"assign"}
  BY <1>1 DEF Knowing
<1> QED
  BY <1>1, <1>7, <1>8, PlanReads

\* A week that is skipped is locked: then there is no plan, and the generation lays down none.
LEMMA PlanSkipLocked ==
    ASSUME PlanInv, AloneInv, TypeInv, GenerationInv, NEW g \in Slots, SkipLocked(g)
    PROVE  PlanInv'
<1>1. PICK s, row : /\ s = gen[g] /\ row = s.locked[s.week] /\ row # None /\ s.pc = "assign"
                    /\ gen' = [gen EXCEPT ![g] = NextWeekOf(Follow(s, row.primary))]
                    /\ UNCHANGED <<tables, settled, clean>>
  BY DEF SkipLocked, history
<1>2. TypedRun(s) /\ s.week \in s.from .. (s.from + s.n - 1)
  BY <1>1 DEF TypeInv, TypedRuns, GenerationInv, Window
<1>3. PICK w \in Weeks, from \in Nat : w = s.week /\ from = s.from /\ from <= w
  BY <1>1, <1>2, WindowNumbers
<1>4. settled = None
  BY <1>1, <1>3 DEF PlanInv, Within
<1>5. row.primary \in Anyone
  <2>1. row \in Rows
    BY <1>1, <1>2, <1>3 DEF TypedRun
  <2> QED
    BY <2>1 DEF Rows
<1>6. PICK f : f = Follow(s, row.primary)
  OBVIOUS
<1>7. TypedRun(f) /\ f.pc = "assign" /\ f.week = w /\ f.from = from /\ f.n = s.n
  BY <1>1, <1>2, <1>3, <1>5, <1>6, FollowIs, FollowTyped
<1>8. PICK r : r = NextWeekOf(f)
  OBVIOUS
<1>9. r.from = from /\ Reached(r) = w + 1 /\ r.pc \in {"assign", "done"}
  BY <1>2, <1>3, <1>7, <1>8, NextWeekIs
<1>10. gen'[g] = r /\ Others(g)
  BY <1>1, <1>6, <1>8 DEF GenerationInv, Others
<1>11. ~Undisturbed(g)'
  <2> SUFFICES ASSUME Undisturbed(g)' PROVE FALSE
    OBVIOUS
  <2>1. clean[g] /\ Unlocked(from, w + 1)'
    BY <1>1, <1>9, <1>10 DEF Undisturbed, Passing, Reached
  <2>2. Kept(s)
    BY <1>1, <2>1 DEF AloneInv, Sound
  <2>3. schedule[w].locked
    BY <1>1, <1>3, <2>2 DEF Kept
  <2>4. w \in Nat /\ w < w + 1
    BY WeeksAreFinite
  <2>5. ~schedule'[w].locked
    BY <1>3, <2>1, <2>4 DEF Unlocked
  <2> QED
    BY <1>1, <2>3, <2>5 DEF tables
<1> QED
  BY <1>1, <1>4, <1>10, <1>11, PlanQuiet
\* Whoever has not come to week w knows what is in the tables when w alone is written.
LEMMA ExactBefore ==
    ASSUME NEW w \in Weeks, OnlyWeek(w), Members' = Members, NEW s, Exact(s), TypedRun(s),
           s.pc \in Knowing => s.from <= w,
           s.pc = "assign" => s.week \in Weeks /\ s.week <= w
    PROVE  Exact(s)'
<1>1. s.from \in Nat \ {0} /\ s.week \in Nat
  BY WindowNumbers
<1>2. ASSUME s.pc \in Knowing PROVE KnownCounts(s)'
  <2>1. PICK from \in Nat : from = s.from /\ from <= w
    BY <1>1, <1>2
  <2>2. \A u : Served(u, from)' = Served(u, from) /\ Seconded(u, from)' = Seconded(u, from)
    BY <2>1, ServedBefore, SecondedBefore
  <2>3. \A S : DutyOf(S, from)' = DutyOf(S, from) /\ SecondDutyOf(S, from)' = SecondDutyOf(S, from)
    BY <2>2 DEF DutyOf, SecondDutyOf
  <2>4. KnownCounts(s)
    BY <1>2 DEF Exact
  <2> QED
    BY <2>1, <2>3, <2>4 DEF KnownCounts, FirstOf
<1>3. ASSUME s.pc = "look back" PROVE Looking(s)'
  <2>1. PICK from \in Weeks : from = s.from /\ from <= w /\ from \in Nat
    <3>1. s.from <= w
      BY <1>3 DEF Knowing
    <3>2. LastWeek \in Nat /\ w \in 1 .. LastWeek
      BY ConstantsAssumption DEF Weeks
    <3>3. \A from \in Nat \ {0} : from <= w => from \in 1 .. LastWeek
      BY <3>2
    <3> QED
      BY <1>1, <3>1, <3>3 DEF Weeks
  <2>2. from - 1 # w
    BY <2>1, WeeksAreFinite
  <2>3. PrimaryOf(from - 1)' = PrimaryOf(from - 1)
    BY <2>2, PrimaryNext
  <2>4. PICK k \in Nat : k = s.consecutive
    BY DEF TypedRun
  <2>5. k # 0 => (LongRun(from, k)' <=> LongRun(from, k))
    BY <2>1, LongRunBefore
  <2>6. Looking(s)
    BY <1>3 DEF Exact
  <2> QED
    BY <2>1, <2>3, <2>4, <2>5, <2>6 DEF Looking
<1>4. ASSUME s.pc = "assign"
      PROVE  /\ Duty(s.week, s.members)' = Duty(s.week, s.members)
             /\ SecondDuty(s.week, s.members)' = SecondDuty(s.week, s.members)
             /\ TracksExactly(s.week, s.last, s.consecutive)'
  <2>1. PICK v \in Weeks : v = s.week /\ v <= w /\ v \in Nat
    BY <1>1, <1>4
  <2>2. Duty(v, s.members)' = Duty(v, s.members) /\ SecondDuty(v, s.members)' = SecondDuty(v, s.members)
    BY <2>1, DutyBefore
  <2>3. TracksExactly(v, s.last, s.consecutive)
    BY <1>4, <2>1 DEF Exact
  <2>4. \A k \in 1 .. MaxConsecutive : LongRun(v, k)' <=> LongRun(v, k)
    BY <2>1, LongRunBefore, ConstantsAssumption
  <2>5. v - 1 # w
    BY <2>1, WeeksAreFinite
  <2>6. PrimaryOf(v - 1)' = PrimaryOf(v - 1)
    BY <2>5, PrimaryNext
  <2>7. TracksExactly(v, s.last, s.consecutive)'
    BY <2>3, <2>4, <2>6 DEF TracksExactly
  <2> QED
    BY <2>1, <2>2, <2>7
<1> QED
  BY <1>2, <1>3, <1>4 DEF Exact

\* The generation that writes week w knows it in the tables as it counts it.
LEMMA ExactGoesOn ==
    ASSUME NEW s, TypedRun(s), s.pc = "assign", Exact(s), Members' = Members,
           NEW w \in Weeks, w = s.week, w \in s.from .. (s.from + s.n - 1), OnlyWeek(w),
           NEW p, p = PickPrimary(s), p = schedule'[w].primary,
           NEW second, second = IF Len(s.members) > 1 THEN PickSecondary(s, p) ELSE None,
           second = schedule'[w].secondary
    PROVE  Exact(NextWeekOf(Counted(Follow(s, p), p, second)))'
<1>1. PICK m \in Seq(Users) : m = s.members /\ Distinct(m) /\ m # <<>>
  BY DEF TypedRun
<1>2. Listed(m) \subseteq Users
  <2>1. \A i \in DOMAIN m : m[i] \in Users
    OBVIOUS
  <2> QED
    BY <2>1 DEF Listed
<1>3. p \in Listed(m) /\ p # None
  <2>1. PickPrimary(s) \in Listed(s.members)
    BY <1>1, PickPrimaryIs, ConstantsAssumption DEF TypedRun
  <2> QED
    BY <1>1, <1>2, <2>1, ConstantsAssumption
<1>4. second \in Listed(m) \union {None}
  BY <1>1, PickSecondaryIs DEF TypedRun
<1>5. Duty(w + 1, m)' = OneMore(Duty(w, m), p) /\ SecondDuty(w + 1, m)' = OneMore(SecondDuty(w, m), second)
  BY <1>2, <1>3, <1>4, DutyNext
<1>6. PICK f : f = Follow(s, p)
  OBVIOUS
<1>7. p \in Anyone /\ second \in Anyone
  BY <1>2, <1>3, <1>4 DEF Anyone
<1>8. /\ TypedRun(f) /\ f.pc = "assign" /\ f.week = w /\ f.from = s.from /\ f.n = s.n
      /\ f.members = m /\ f.primaries = s.primaries /\ f.secondaries = s.secondaries
      /\ f.last = p /\ f.consecutive = IF s.last = p THEN s.consecutive + 1 ELSE 1
  BY <1>1, <1>3, <1>6, <1>7, FollowIs, FollowTyped
<1>9. PICK c : c = Counted(f, p, second)
  OBVIOUS
<1>10. /\ TypedRun(c) /\ c.pc = "assign" /\ c.week = w /\ c.from = s.from /\ c.n = s.n /\ c.members = m
       /\ c.primaries = OneMore(s.primaries, p) /\ c.secondaries = OneMore(s.secondaries, second)
       /\ c.last = f.last /\ c.consecutive = f.consecutive
  <2>1. TypedRun(c)
    BY <1>7, <1>8, <1>9, CountedTyped
  <2>2. DOMAIN f = DOMAIN Idle
    BY <1>8 DEF TypedRun, WellFormed
  <2> QED
    BY <1>8, <1>9, <2>1, <2>2 DEF Counted, Idle
<1>11. /\ s.members = Members /\ s.primaries = Duty(w, m) /\ s.secondaries = SecondDuty(w, m)
       /\ TracksExactly(w, s.last, s.consecutive)
  BY <1>1 DEF Exact
<1>12. TracksExactly(w + 1, c.last, c.consecutive)'
  <2>1. PICK last \in {s.last}, consecutive \in Nat : last = s.last /\ consecutive = s.consecutive
    BY DEF TypedRun
  <2>2. PICK more : more = IF last = p THEN consecutive + 1 ELSE 1
    OBVIOUS
  <2>3. TracksExactly(w + 1, p, more)'
    BY <1>3, <1>11, <2>1, <2>2, ExactlyNext
  <2>4. c.last = p /\ c.consecutive = more
    BY <1>8, <1>10, <2>1, <2>2
  <2> QED
    BY <2>3, <2>4
<1>13. PICK r : r = NextWeekOf(c)
  OBVIOUS
<1>14. /\ r.members = m
       /\ \/ r.pc = "done"
          \/ /\ r.pc = "assign" /\ r.week = w + 1
             /\ r.primaries = c.primaries /\ r.secondaries = c.secondaries
             /\ r.last = c.last /\ r.consecutive = c.consecutive
  BY <1>8, <1>10, <1>13, NextWeekIs
<1>15. Members' = m
  BY <1>1, <1>11
<1>16. r.pc = "assign" => /\ r.primaries = Duty(w + 1, m)' /\ r.secondaries = SecondDuty(w + 1, m)'
                          /\ TracksExactly(w + 1, r.last, r.consecutive)'
  BY <1>5, <1>10, <1>11, <1>12, <1>14
<1>17. Exact(r)'
  BY <1>14, <1>15, <1>16 DEF Exact, Knowing
<1> QED
  BY <1>6, <1>9, <1>13, <1>17

LEMMA PlanGrows ==
    ASSUME NEW w \in Weeks, OnlyWeek(w), Members' = Members, NEW S \in Nat, S <= w, OnlyPlan(S),
           \A v \in Weeks : S <= v /\ v < w => schedule[v] # None,
           schedule[w] = None, schedule'[w] = Planned(w, Members)
    PROVE  OnlyPlan(S)'
<1>1. \A v \in Weeks : v \in Nat
  BY WeeksAreFinite
<1>2. PICK M : M = Members /\ M = Members'
  OBVIOUS
<1>3. ASSUME NEW v \in Weeks, S <= v, schedule'[v] # None
      PROVE  /\ v <= w /\ schedule'[v] = Planned(v, M)'
             /\ \A u \in Weeks : S <= u /\ u < v => schedule'[u] # None
  <2>1. v <= w
    <3>1. CASE v = w
      BY <1>1, <3>1
    <3>2. CASE v # w
      <4>1. schedule[v] # None
        BY <1>3, <3>2 DEF OnlyWeek
      <4>2. ~(w < v)
        BY <1>3, <4>1 DEF OnlyPlan
      <4> QED
        BY <1>1, <4>2
    <3> QED
      BY <3>1, <3>2
  <2>2. Planned(v, M)' = Planned(v, M)
    BY <2>1, PlannedBefore
  <2>3. schedule'[v] = Planned(v, M)
    <3>1. CASE v = w
      BY <1>2, <3>1
    <3>2. CASE v # w
      BY <1>2, <1>3, <3>2 DEF OnlyWeek, OnlyPlan
    <3> QED
      BY <3>1, <3>2
  <2>4. ASSUME NEW u \in Weeks, S <= u, u < v PROVE schedule'[u] # None
    <3>1. u < w /\ u # w
      BY <1>1, <2>1, <2>4
    <3> QED
      BY <2>4, <3>1 DEF OnlyWeek
  <2> QED
    BY <2>1, <2>2, <2>3, <2>4
<1> QED
  BY <1>2, <1>3 DEF OnlyPlan
\* A plan that is not disturbed stays one when a generation writes week w as planned.
LEMMA PlanStays ==
    ASSUME TypedRuns, GenerationInv, NEW g \in Slots, Others(g), NEW w \in Weeks, OnlyWeek(w),
           schedule = [v \in Weeks |-> schedule[v]], schedule' = [v \in Weeks |-> schedule'[v]],
           UNCHANGED <<joined, active>>, NEW S \in Nat, S <= w, OnlyPlan(S),
           \A h \in Slots : Within(S, gen[h]) /\ Exact(gen[h]),
           \A v \in Weeks : S <= v /\ v < w => schedule[v] # None,
           schedule'[w] = Planned(w, Members)
    PROVE  OnlyPlan(S)' /\ \A h \in Slots \ {g} : Exact(gen[h])' /\ Within(S, gen[h])'
<1>1. Members' = Members
  BY DEF Members
<1>2. \A v \in Weeks : v \in Nat
  BY WeeksAreFinite
<1>3. CASE schedule[w] # None
  <2>1. schedule'[w] = schedule[w]
    BY <1>3 DEF OnlyPlan
  <2>2. schedule' = schedule
    <3>1. \A v \in Weeks : schedule'[v] = schedule[v]
      BY <2>1 DEF OnlyWeek
    <3> QED
      BY <3>1
  <2>3. UNCHANGED tables
    BY <2>2 DEF tables
  <2>4. OnlyPlan(S)'
    BY <2>3, KnowledgeSame
  <2>5. ASSUME NEW h \in Slots \ {g} PROVE Exact(gen[h])' /\ Within(S, gen[h])'
    <3>1. PICK s : s = gen[h] /\ s = gen'[h]
      BY DEF Others
    <3>2. Exact(s)' /\ Within(S, s)'
      BY <2>3, <3>1, KnowledgeSame
    <3>3. Exact(gen[h])'
      BY <3>1, <3>2, ExactBecomes
    <3> QED
      BY <3>1, <3>2, <3>3 DEF Within, Passing, Reached
  <2> QED
    BY <2>4, <2>5
<1>4. CASE schedule[w] = None
  <2>1. OnlyPlan(S)'
    BY <1>1, <1>4, PlanGrows
  <2>2. ASSUME NEW h \in Slots \ {g} PROVE Exact(gen[h])' /\ Within(S, gen[h])'
    <3>1. PICK s : s = gen[h] /\ s = gen'[h]
      BY DEF Others
    <3>2. Exact(s) /\ Within(S, s) /\ TypedRun(s)
      BY <3>1 DEF TypedRuns
    <3>3. s.from \in Nat /\ s.week \in Nat
      BY <3>2, WindowNumbers
    <3>4. s.pc \in Knowing => s.from <= w
      <4>1. s.pc \in Knowing => ~(w < s.from)
        BY <1>4, <3>2 DEF Within, Passing, Knowing
      <4> QED
        BY <1>2, <3>3, <4>1
    <3>5. s.pc = "assign" => s.week \in Weeks /\ s.week <= w
      <4>1. s.pc = "assign" => ~(w < s.week)
        BY <1>4, <3>2 DEF Within, Passing, Reached
      <4>2. s.pc = "assign" => s.week \in Weeks
        <5>1. s.pc = "assign" => s.week \in s.from .. (s.from + s.n - 1)
          BY <3>1 DEF GenerationInv, Window
        <5> QED
          BY <3>2, <5>1, WindowNumbers
      <4> QED
        BY <1>2, <3>3, <4>1, <4>2
    <3>6. Exact(s)'
      BY <1>1, <3>2, <3>4, <3>5, ExactBefore
    <3>7. Within(S, s)'
      <4>1. \A v \in Weeks : schedule[v] # None => schedule'[v] # None
        BY DEF OnlyWeek
      <4> QED
        BY <3>2, <4>1 DEF Within, Passing, Reached
    <3>8. Exact(gen[h])'
      BY <3>1, <3>6, ExactBecomes
    <3> QED
      BY <3>1, <3>7, <3>8 DEF Within, Passing, Reached
  <2> QED
    BY <2>1, <2>2
<1> QED
  BY <1>3, <1>4
LEMMA PlanAssignWeek ==
    ASSUME PlanInv, TypeInv, GenerationInv, GenerationInv', NEW g \in Slots, AssignWeek(g)
    PROVE  PlanInv'
<1>1. PICK s, p, second :
        /\ s = gen[g] /\ s.pc = "assign" /\ s.locked[s.week] = None /\ p = PickPrimary(s)
        /\ second = IF Len(s.members) > 1 THEN PickSecondary(s, p) ELSE None
        /\ schedule' = [schedule EXCEPT ![s.week] = [primary |-> p, secondary |-> second, locked |-> FALSE]]
        /\ gen' = [gen EXCEPT ![g] = NextWeekOf(Counted(Follow(s, p), p, second))]
  BY AssignWeekIs
<1>2. clean' = Disturbed(g) /\ UNCHANGED <<joined, active, settled>> /\ Members' = Members
  BY DEF AssignWeek, Members
<1>3. TypedRun(s) /\ s.week \in s.from .. (s.from + s.n - 1)
  BY <1>1 DEF TypeInv, TypedRuns, GenerationInv, Window
<1>4. PICK w \in Weeks, from \in Nat : w = s.week /\ from = s.from /\ from <= w
  BY <1>1, <1>3, WindowNumbers
<1>5. p \in Users /\ second \in Anyone /\ p # second
  BY <1>1, <1>3, AssignedAre
<1>6. PICK row : row = [primary |-> p, secondary |-> second, locked |-> FALSE]
  OBVIOUS
<1>7. OnlyWeek(w) /\ schedule'[w] = row /\ row.primary = p /\ row.secondary = second
  <2>1. DOMAIN schedule = Weeks /\ schedule' = [schedule EXCEPT ![w] = row]
    BY <1>1, <1>4, <1>6 DEF TypeInv, TypedTables
  <2>2. row \in Rows
    BY <1>5, <1>6 DEF Rows, Anyone
  <2>3. row # None
    BY <2>2, ConstantsAssumption
  <2> QED
    BY <1>6, <2>1, <2>3 DEF OnlyWeek
<1>8. PICK r : r = NextWeekOf(Counted(Follow(s, p), p, second))
  OBVIOUS
<1>9. gen'[g] = r /\ Others(g)
  BY <1>1, <1>8 DEF GenerationInv, Others
<1>10. /\ r.from = from /\ Reached(r) = w + 1 /\ r.pc \in {"assign", "done"} /\ r.lost = s.lost
       /\ r.pc = "assign" => r.locked = s.locked
  <2>1. PICK f : f = Follow(s, p)
    OBVIOUS
  <2>2. /\ TypedRun(f) /\ f.pc = "assign" /\ f.week = w /\ f.from = from /\ f.n = s.n /\ f.locked = s.locked /\ f.lost = s.lost
    BY <1>1, <1>3, <1>4, <1>5, <2>1, FollowIs, FollowTyped DEF Anyone
  <2>3. PICK c : c = Counted(f, p, second)
    OBVIOUS
  <2>4. TypedRun(c)
    BY <1>5, <2>2, <2>3, CountedTyped DEF Anyone
  <2>5. c.pc = "assign" /\ c.week = w /\ c.from = from /\ c.n = s.n /\ c.locked = s.locked /\ c.lost = s.lost
    <3>1. DOMAIN f = DOMAIN Idle
      BY <2>2 DEF TypedRun, WellFormed
    <3> QED
      BY <2>2, <2>3, <3>1 DEF Counted, Idle
  <2> QED
    BY <1>3, <1>4, <1>8, <2>1, <2>3, <2>4, <2>5, NextWeekIs
<1>11. w \in Nat /\ \A v \in Weeks : v \in Nat
  BY WeeksAreFinite
<1>12. Undisturbed(g)' => Undisturbed(g)
  <2> SUFFICES ASSUME Undisturbed(g)' PROVE clean[g] /\ s.lost = {} /\ Unlocked(from, w)
    BY <1>1, <1>4 DEF Undisturbed, Reached
  <2>1. clean[g] /\ s.lost = {}
    BY <1>1, <1>2, <1>9, <1>10 DEF Undisturbed, Disturbed, Running
  <2>2. Unlocked(from, w + 1)'
    BY <1>9, <1>10 DEF Undisturbed, Passing, Reached
  <2>3. \A v \in Weeks : v < w => v # w /\ v < w + 1
    BY <1>11
  <2> QED
    BY <1>7, <2>1, <2>2, <2>3 DEF Unlocked, OnlyWeek
<1>13. ASSUME settled # None \/ Undisturbed(g)
       PROVE  /\ Exact(r)' /\ row = Planned(w, Members)
              /\ Exact(s)
  <2>1. Exact(s)
    BY <1>1, <1>13 DEF PlanInv
  <2>2. s.members = Members
    BY <1>1, <2>1 DEF Exact
  <2>3. p = PlannedPrimary(w, Members) /\ second = PlannedSecondary(w, Members)
    BY <1>1, <1>3, <1>4, <2>1, <2>2, PicksPlanned
  <2>4. row = Planned(w, Members)
    BY <1>6, <2>3 DEF Planned
  <2>5. Exact(NextWeekOf(Counted(Follow(s, p), p, second)))'
    BY <1>1, <1>2, <1>3, <1>4, <1>7, <2>1, ExactGoesOn
  <2>6. Exact(r)'
    BY <1>8, <2>5
  <2> QED
    BY <2>1, <2>4, <2>6
<1>14. ASSUME Undisturbed(g)' PROVE Laid(gen[g])'
  <2>1. PICK M : M = Members /\ M = Members'
    BY <1>2
  <2>2. \A v \in Weeks : from <= v /\ v < w => schedule[v] = Planned(v, M)
    BY <1>1, <1>4, <1>12, <1>14, <2>1 DEF PlanInv, Laid, Passing, Reached
  <2>3. row = Planned(w, M)
    BY <1>12, <1>13, <1>14, <2>1
  <2>4. ASSUME NEW v \in Weeks, from <= v, v < w + 1 PROVE schedule'[v] = Planned(v, M)'
    <3>1. v <= w
      BY <1>11, <2>4
    <3>2. Planned(v, M)' = Planned(v, M)
      BY <1>7, <3>1, PlannedBefore
    <3>3. CASE v = w
      BY <1>7, <2>3, <3>2, <3>3
    <3>4. CASE v # w
      <4>1. v < w
        BY <1>11, <3>1, <3>4
      <4> QED
        BY <1>7, <2>2, <2>4, <3>2, <3>4, <4>1 DEF OnlyWeek
    <3> QED
      BY <3>3, <3>4
  <2>5. Laid(r)'
    BY <1>10, <2>1, <2>4 DEF Laid, Reached
  <2> QED
    BY <1>9, <2>5 DEF Laid, Passing, Reached
<1>15. ASSUME settled # None
       PROVE  /\ OnlyPlan(settled)'
              /\ \A h \in Slots : Exact(gen[h])' /\ Within(settled, gen[h])'
  <2>1. PICK S \in Nat : S = settled /\ S = settled'
    BY <1>2, <1>11, <1>15 DEF TypeInv, TypedTables
  <2>2. OnlyPlan(S) /\ \A h \in Slots : Within(S, gen[h]) /\ Exact(gen[h])
    BY <1>15, <2>1 DEF PlanInv
  <2>3. /\ S <= from /\ \A v \in Weeks : S <= v /\ v < w => schedule[v] # None
        /\ \A v \in Weeks : s.locked[v] = None
    BY <1>1, <1>4, <2>2 DEF Within, Passing, Reached
  <2>4. S <= w
    BY <1>4, <1>11, <2>3
  <2>5. schedule'[w] = Planned(w, Members)
    BY <1>7, <1>13, <1>15
  <2>6. OnlyPlan(S)' /\ \A h \in Slots \ {g} : Exact(gen[h])' /\ Within(S, gen[h])'
    <3>1. schedule = [v \in Weeks |-> schedule[v]] /\ schedule' = [v \in Weeks |-> schedule'[v]]
      BY DEF GenerationInv
    <3> QED
      BY <1>2, <1>7, <1>9, <2>2, <2>3, <2>4, <2>5, <3>1, PlanStays DEF TypeInv
  <2>7. Exact(gen[g])'
    BY <1>9, <1>13, <1>15, ExactBecomes
  <2>8. Within(S, r)'
    <3>1. ASSUME NEW v \in Weeks, S <= v, v < w + 1 PROVE schedule'[v] # None
      <4>1. CASE v = w
        BY <1>7, <4>1 DEF OnlyWeek
      <4>2. CASE v # w
        <5>1. v < w
          BY <1>11, <3>1, <4>2
        <5> QED
          BY <1>7, <2>3, <3>1, <4>2, <5>1 DEF OnlyWeek
      <4> QED
        BY <4>1, <4>2
    <3> QED
      BY <1>10, <2>3, <3>1 DEF Within, Passing, Reached
  <2>9. Within(S, gen[g])'
    BY <1>9, <2>8 DEF Within, Passing, Reached
  <2>10. ASSUME NEW h \in Slots PROVE Exact(gen[h])' /\ Within(S, gen[h])'
    <3>1. CASE h = g
      BY <2>7, <2>9, <3>1
    <3>2. CASE h # g
      BY <2>6, <3>2
    <3> QED
      BY <3>1, <3>2
  <2>11. \A h \in Slots : Within(settled, gen[h])'
    BY <2>1, <2>10 DEF Within
  <2>12. OnlyPlan(settled)'
    BY <2>1, <2>6 DEF OnlyPlan
  <2> QED
    BY <2>10, <2>11, <2>12
<1>16. ASSUME NEW h \in Slots, Undisturbed(h)' PROVE Exact(gen[h])' /\ Laid(gen[h])'
  <2>1. CASE h = g
    <3>1. Exact(r)'
      BY <1>12, <1>13, <1>16, <2>1
    <3> QED
      BY <1>9, <1>14, <1>16, <2>1, <3>1, ExactBecomes
  <2>2. CASE h # g
    <3>1. gen'[h].pc = "idle"
      BY <1>2, <1>9, <1>16, <2>2 DEF Undisturbed, Disturbed, Running, Others
    <3> QED
      BY <3>1 DEF Exact, Laid, Passing, Knowing
  <2> QED
    BY <2>1, <2>2
<1> QED
  BY <1>2, <1>15, <1>16 DEF PlanInv
\* The generation that returns alone, without a lock or a row beyond its window, has laid down a plan.
LEMMA PlanRespond ==
    ASSUME PlanInv, TypeInv, GenerationInv, NEW g \in Slots, Respond(g)
    PROVE  PlanInv'
<1>1. Ended(g) /\ clean' = [clean EXCEPT ![g] = TRUE] /\ UNCHANGED tables /\ gen[g].pc = "done"
  BY DEF Respond
<1>2. CASE UNCHANGED settled
  BY <1>1, <1>2, PlanEnd
<1>3. CASE ~UNCHANGED settled
  <2>1. PICK s, from : s = gen[g] /\ from = s.from
    OBVIOUS
  <2>2. /\ clean[g] /\ gen[g].lost = {} /\ \A h \in Slots \ {g} : ~Running(h)
        /\ \A w \in Weeks : w >= from /\ schedule[w] # None => w \in Window(g) /\ ~schedule[w].locked
        /\ settled' = from
    BY <1>3, <2>1 DEF Respond
  <2>3. TypedRun(s) /\ Provided(s) /\ s.pc = "done"
    BY <1>1, <2>1 DEF TypeInv, TypedRuns
  <2>4. PICK n \in Nat : n = s.n
    BY <2>3, WindowNumbers
  <2>5. from \in Nat /\ \A v \in Weeks : v \in Nat
    BY <2>1, <2>3, WindowNumbers, WeeksAreFinite
  <2>6. \A v \in Weeks : from <= v /\ v < from + n <=> v \in from .. (from + n - 1)
    BY <2>5
  <2>7. \A v \in Weeks : from <= v /\ v < from + n => schedule[v] # None
    BY <2>1, <2>3, <2>4, <2>6 DEF Provided
  <2>8. Undisturbed(g)
    <3>1. Unlocked(from, from + n)
      BY <2>2, <2>5, <2>7 DEF Unlocked
    <3> QED
      BY <2>1, <2>2, <2>3, <2>4, <3>1 DEF Undisturbed, Reached
  <2>9. \A v \in Weeks : from <= v /\ v < from + n => schedule[v] = Planned(v, Members)
    BY <2>1, <2>3, <2>4, <2>8 DEF PlanInv, Laid, Passing, Reached
  <2>10. OnlyPlan(from)
    <3>1. ASSUME NEW v \in Weeks, from <= v, schedule[v] # None PROVE from <= v /\ v < from + n
      <4>1. v \in Window(g)
        BY <2>2, <2>5, <3>1
      <4> QED
        BY <2>1, <2>4, <2>6, <4>1 DEF Window
    <3>2. ASSUME NEW v \in Weeks, from <= v, schedule[v] # None, NEW u \in Weeks, from <= u, u < v
          PROVE  schedule[u] # None
      <4>1. v < from + n
        BY <3>1, <3>2
      <4>2. u < from + n
        BY <2>4, <2>5, <3>2, <4>1
      <4> QED
        BY <2>7, <3>2, <4>2
    <3> QED
      BY <2>9, <3>1, <3>2 DEF OnlyPlan
  <2>11. OnlyPlan(settled)'
    <3>1. OnlyPlan(from)'
      BY <1>1, <2>10, KnowledgeSame
    <3> QED
      BY <2>2, <3>1 DEF OnlyPlan
  <2>12. \A h \in Slots : gen'[h].pc = "idle"
    BY <1>1, <2>2, IdleIsTyped DEF Ended, GenerationInv, Running
  <2>13. \A h \in Slots : Exact(gen[h])' /\ Laid(gen[h])' /\ Within(settled, gen[h])'
    BY <2>12 DEF Exact, Laid, Passing, Within, Knowing
  <2> QED
    BY <2>11, <2>13 DEF PlanInv
<1> QED
  BY <1>2, <1>3

LEMMA PlanWorks ==
    ASSUME PlanInv, AloneInv, TypeInv, GenerationInv, GenerationInv', NEW g \in Slots, Work(g)
    PROVE  PlanInv'
<1>1. CASE GenerateFails(g)
  BY <1>1, PlanEnd DEF GenerateFails
<1> QED
  BY <1>1, PlanReadMembers, PlanCounts, PlanReadSchedule, PlanLookBack, PlanSkipLocked, PlanAssignWeek,
     PlanRespond DEF Work

LEMMA PlanNext ==
    PlanInv /\ AloneInv /\ TypeInv /\ GenerationInv /\ [Next]_vars /\ GenerationInv' => PlanInv'
<1> SUFFICES ASSUME PlanInv, AloneInv, TypeInv, GenerationInv, [Next]_vars, GenerationInv' PROVE PlanInv'
  OBVIOUS
<1>1. CASE TopUp
  BY <1>1, PlanGenerate DEF TopUp, Slots, GenerationInv
<1>2. ASSUME NEW g \in Slots, GenerateOnRequest(g) PROVE PlanInv'
  <2>1. PICK window \in Windows : Generate(g, window.from, window.n)
    BY <1>2 DEF GenerateOnRequest
  <2>2. window.from \in Nat
    BY ConstantsAssumption
  <2> QED
    BY <2>1, <2>2, PlanGenerate
<1>3. ASSUME NEW g \in Requests, ChangeMembers(g) PROVE PlanInv'
  <2>1. settled' = None /\ clean' = Disturbed(g) /\ Started(g, now, Ahead)
    BY <1>3 DEF ChangeMembers
  <2>2. g \in Slots
    BY DEF Slots
  <2>3. /\ gen'[g].pc = "members"
        /\ \A h \in Slots \ {g} : gen'[h] = gen[h]
    BY <2>1, <2>2 DEF Started, GenerationInv, Idle
  <2>4. \A h \in Slots \ {g} : clean'[h] => gen[h].pc = "idle"
    BY <2>1 DEF Disturbed, Running
  <2> QED
    BY <2>1, <2>3, <2>4, PlanIsOff
<1>4. ASSUME NEW w, NEW row, Edited(w, row) PROVE PlanInv'
  <2>1. settled' = None /\ clean' = Disturbed(None) /\ UNCHANGED gen
    BY <1>4 DEF Edited
  <2>2. \A h \in Slots : clean'[h] => gen[h].pc = "idle"
    BY <2>1, ConstantsAssumption DEF Disturbed, Running
  <2> QED
    BY <2>1, <2>2, PlanIsOff
<1>5. CASE WeekPasses \/ UNCHANGED vars
  <2>1. UNCHANGED <<tables, gen, history>>
    BY <1>5 DEF WeekPasses, vars
  <2>2. UNCHANGED <<tables, gen, clean, settled>>
    BY <2>1 DEF history
  <2>3. PICK g \in Slots : TRUE
    BY DEF Slots
  <2>4. PICK s, S : s = gen[g] /\ s = gen'[g] /\ S = settled /\ S = settled'
    BY <2>2
  <2>5. Undisturbed(g)' => Undisturbed(g)
    BY <2>2 DEF Undisturbed, Unlocked, Passing, Reached, tables
  <2>6. settled' # None \/ Undisturbed(g)' => Exact(s)'
    BY <2>2, <2>4, <2>5, KnowledgeSame DEF PlanInv
  <2>7. Undisturbed(g)' => Laid(s)'
    BY <2>2, <2>4, <2>5, KnowledgeSame DEF PlanInv
  <2>8. settled' # None => Within(S, s)'
    BY <2>2, <2>4, KnowledgeSame DEF PlanInv
  <2>9. Exact(s)' => Exact(gen[g])'
    BY <2>4, ExactBecomes
  <2>10. Laid(s)' => Laid(gen[g])'
    BY <2>4 DEF Laid, Passing, Reached
  <2>11. Within(S, s)' => Within(settled, gen[g])'
    BY <2>4 DEF Within, Passing, Reached
  <2>12. Others(g)
    BY <2>2 DEF Others
  <2> QED
    BY <2>2, <2>6, <2>7, <2>8, <2>9, <2>10, <2>11, <2>12, PlanQuiet
<1> QED
  BY <1>1, <1>2, <1>3, <1>4, <1>5, PlanWorks DEF Next, AddMember, DeactivateMember, UnlockScheduleWeek,
     UpdateScheduleWeek

\* Whatever is written while there is a plan is what the plan says.
LEMMA PlanIsWritten ==
    ASSUME PlanInv, TypeInv, GenerationInv, settled # None, NEW g \in Slots, AssignWeek(g),
           NEW v \in Weeks, v >= settled, schedule[v] # None
    PROVE  schedule'[v] = schedule[v]
<1>1. PICK s, p, second :
        /\ s = gen[g] /\ s.pc = "assign" /\ s.locked[s.week] = None /\ p = PickPrimary(s)
        /\ second = IF Len(s.members) > 1 THEN PickSecondary(s, p) ELSE None
        /\ schedule' = [schedule EXCEPT ![s.week] = [primary |-> p, secondary |-> second, locked |-> FALSE]]
        /\ gen' = [gen EXCEPT ![g] = NextWeekOf(Counted(Follow(s, p), p, second))]
  BY AssignWeekIs
<1>2. TypedRun(s) /\ s.pc = "assign" /\ DOMAIN schedule = Weeks
  BY <1>1 DEF AssignWeek, TypeInv, TypedRuns, TypedTables
<1>3. Exact(s) /\ OnlyPlan(settled)
  BY <1>1 DEF PlanInv
<1>4. s.members = Members
  BY <1>2, <1>3 DEF Exact
<1>5. p = PlannedPrimary(s.week, Members) /\ second = PlannedSecondary(s.week, Members)
  BY <1>1, <1>2, <1>3, <1>4, PicksPlanned
<1>6. schedule[v] = Planned(v, Members)
  BY <1>3, WeeksAreFinite DEF OnlyPlan, TypeInv, TypedTables
<1>7. CASE v = s.week
  <2>1. schedule'[v] = [primary |-> p, secondary |-> second, locked |-> FALSE]
    BY <1>1, <1>2, <1>7
  <2> QED
    BY <1>5, <1>6, <1>7, <2>1 DEF Planned
<1>8. CASE v # s.week
  BY <1>1, <1>2, <1>8
<1> QED
  BY <1>7, <1>8

LEMMA AnnouncedWeeksStayStep ==
    ASSUME PlanInv, TypeInv, GenerationInv, [Next]_vars, settled # None, settled' # None,
           NEW v \in Weeks, v >= settled, schedule[v] # None
    PROVE  schedule'[v] = schedule[v]
<1>1. ASSUME NEW g \in Slots, Work(g) PROVE schedule'[v] = schedule[v]
  <2>1. CASE AssignWeek(g)
    BY <2>1, PlanIsWritten
  <2>2. CASE ~AssignWeek(g)
    BY <1>1, <2>2 DEF Work, ReadMembers, CountPrimary, CountSecondary, ReadSchedule, LookBack,
       SkipLocked, Respond, GenerateFails, tables
  <2> QED
    BY <2>1, <2>2
<1>2. ASSUME NEW g, NEW from, NEW n, Generate(g, from, n) PROVE schedule'[v] = schedule[v]
  BY <1>2 DEF Generate, tables
<1>3. ASSUME NEW g, ChangeMembers(g) PROVE FALSE
  BY <1>3 DEF ChangeMembers
<1>4. ASSUME NEW w, NEW row, Edited(w, row) PROVE FALSE
  BY <1>4 DEF Edited
<1>5. CASE WeekPasses \/ UNCHANGED vars
  BY <1>5 DEF WeekPasses, vars, tables
<1> QED
  BY <1>1, <1>2, <1>3, <1>4, <1>5 DEF Next, TopUp, GenerateOnRequest, AddMember, DeactivateMember,
     UnlockScheduleWeek, UpdateScheduleWeek

\* For any members, weeks, windows and limit: while there is a plan that nobody disturbed and no read was
\* lost, no step of a top-up or a request, complete or failed, changes a week of it.  Every generation
\* finds the members, counts and runs that the first one had, and assigns the same
\* (roster/scheduler.go:14-131).  A count or look back whose error is dropped (37, 39, 60, 67) ends the plan.
THEOREM AnnouncedWeeksStayCorrect == Spec => AnnouncedWeeksStay
<1> DEFINE Inv == GenerationInv /\ LockInv /\ TypeInv /\ AloneInv /\ PlanInv
           Stays == settled # None /\ settled' # None =>
                      \A w \in Weeks : w >= settled /\ schedule[w] # None => schedule'[w] = schedule[w]
<1>1. Init => Inv
  BY AloneStays, PlanInit
<1>2. Inv /\ [Next]_vars => Inv'
  BY AloneStays, PlanNext
<1>3. Inv /\ [Next]_vars => [Stays]_vars
  BY AnnouncedWeeksStayStep
<1> QED
  BY <1>1, <1>2, <1>3, PTL DEF Spec, AnnouncedWeeksStay
=============================================================================
