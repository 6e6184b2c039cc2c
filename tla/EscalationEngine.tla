-------------------------- MODULE EscalationEngine --------------------------
(***************************************************************************)
(* The escalation engine of pkg/escalation/engine.go, which the worker     *)
(* process runs (internal/app/app.go runWorker): every tick it lists the   *)
(* firing alerts that have a policy and takes them up one by one, reading  *)
(* the policy, moving the alert's tier, recording an event and publishing  *)
(* it, each in a statement of its own.  Meanwhile people acknowledge and   *)
(* resolve alerts and edit the policy.  One tenant and one policy; another *)
(* tenant is another schema with the same behaviour.                       *)
(*                                                                         *)
(* The alert rows are those of AlertLifecycle, reduced to what the engine  *)
(* reads.  A row that a webhook inserts has no policy (alert/store.go);    *)
(* the rows in Seeded have one, as the rows of internal/seed do.           *)
(***************************************************************************)
EXTENDS Naturals, Sequences, FiniteSets

CONSTANTS
    Alerts,
    Seeded,          \* the alerts whose row names the policy, within Alerts
    Workers,         \* worker processes running at once
    Policies,        \* the contents the policy may be given
    Editable,        \* whether people edit the policy meanwhile
    MaxFailures,     \* a bound: failed statements and restarts of a worker
    MaxAge,          \* a bound: ages in minutes are counted up to here
    MaxEscalations   \* a bound: an alert with this many escalations is not listed any more

Tiers == [tier : Nat, timeout : Nat]

ASSUME ConstantsAssumption ==
    /\ Seeded \subseteq Alerts
    /\ Policies \subseteq [tiers : Seq(Tiers), repeat : Nat]
    /\ Editable \in BOOLEAN
    /\ MaxFailures \in Nat
    /\ MaxAge \in Nat
    /\ MaxEscalations \in Nat
    /\ IsFiniteSet(Workers)

Row == [alert : Alerts, tier : Nat]

NoRow == <<>>

VARIABLES
    status,    \* status[a], "absent" before the row is inserted
    tier,      \* tier[a], the current_escalation_tier column
    age,       \* age[a], minutes since created_at
    policy,    \* the escalation_policies row
    events,    \* events[a], the number of escalation_events rows of a
    step,      \* step[w], what worker w does next
    todo,      \* todo[w], the listed rows worker w has still to take up, as they were then
    chosen,    \* chosen[w], the row being escalated with its new tier, or NoRow
    bumps,     \* history: bumps[a], how often the tier of a was written
    late,      \* history: late[a], the workers that did it after a stopped firing
    failures   \* history: how many statements failed and workers restarted

db == <<status, tier, age, policy, events>>
engine == <<step, todo, chosen>>
history == <<bumps, late>>
vars == <<db, engine, history, failures>>

-----------------------------------------------------------------------------
(* processAlert's choice of a tier, from the policy and the listed tier.   *)

Higher(ts, current) == {i \in DOMAIN ts : ts[i].tier > current}

FirstHigher(ts, current) ==
    CHOOSE i \in Higher(ts, current) : \A j \in Higher(ts, current) : i <= j

\* Faulty variant: the comparison lets the current tier through.
NextIndexOrSame(p, current) ==
    LET S == {i \in DOMAIN p.tiers : p.tiers[i].tier >= current}
    IN  IF S = {} THEN 0 ELSE CHOOSE i \in S : \A j \in S : i <= j

(***************************************************************************)
(* The index of the tier to escalate to, 0 for none: the first tier in     *)
(* list order above the current one; past the last, the first again if the *)
(* policy repeats.  How often it has repeated is not looked at.            *)
(***************************************************************************)
NextIndex(p, current) ==
    CASE Higher(p.tiers, current) # {} -> FirstHigher(p.tiers, current)
      [] /\ Higher(p.tiers, current) = {}
         /\ Len(p.tiers) > 0
         /\ p.repeat > 0
         /\ current >= p.tiers[Len(p.tiers)].tier -> 1
      [] OTHER -> 0

\* Minutes from created_at to tier i: the timeouts up to and including its own.
Cumulative(ts, i) ==
    LET sum[j \in 0..i] == IF j = 0 THEN 0 ELSE sum[j - 1] + ts[j].timeout
    IN  sum[i]

-----------------------------------------------------------------------------
\* A statement fails, or the process stops.
Failure ==
    /\ failures < MaxFailures
    /\ failures' = failures + 1

\* Faulty variant: the query leaves out resolved alerts only.
PendingUnresolved ==
    {[alert |-> a, tier |-> tier[a]] : a \in {b \in Seeded : status[b] \in {"firing", "acknowledged"}}}

\* ListPendingEscalationAlerts.
Pending == {[alert |-> a, tier |-> tier[a]] : a \in {b \in Seeded : status[b] = "firing"}}

(***************************************************************************)
(* A tick.  The rows it lists are a snapshot: status and tier are not read *)
(* again.  The condition on bumps is the bound.                            *)
(***************************************************************************)
List(w) ==
    /\ step[w] = "idle"
    /\ todo' = [todo EXCEPT ![w] = {x \in Pending : bumps[x.alert] < MaxEscalations}]
    /\ step' = [step EXCEPT ![w] = "policy"]
    /\ UNCHANGED <<db, chosen, history, failures>>

\* The tick ends when every listed alert was taken up.
EndTick(w) ==
    /\ step[w] = "policy"
    /\ todo[w] = {}
    /\ step' = [step EXCEPT ![w] = "idle"]
    /\ UNCHANGED <<db, todo, chosen, history, failures>>

\* Worker w goes on to the listed alert after a.
NextAlert(w) ==
    /\ step' = [step EXCEPT ![w] = "policy"]
    /\ chosen' = [chosen EXCEPT ![w] = NoRow]

\* ORDER BY created_at ASC.
Oldest(S) == {x \in S : \A y \in S : age[y.alert] <= age[x.alert]}

Due(a, i) == i > 0 /\ age[a] >= Cumulative(policy.tiers, i)

\* Faulty variant: the tick ends at the first alert that is not due.
ReadPolicyUntilNotDue(w) ==
    /\ step[w] = "policy"
    /\ \E x \in Oldest(todo[w]) :
         LET i == NextIndex(policy, x.tier) IN
           IF Due(x.alert, i)
             THEN /\ todo' = [todo EXCEPT ![w] = @ \ {x}]
                  /\ chosen' = [chosen EXCEPT ![w] = [x EXCEPT !.tier = policy.tiers[i].tier]]
                  /\ step' = [step EXCEPT ![w] = "tier"]
             ELSE todo' = [todo EXCEPT ![w] = {}] /\ UNCHANGED <<chosen, step>>
    /\ UNCHANGED <<db, history, failures>>

\* The policy is read afresh for every alert; the alert itself is not.
ReadPolicy(w) ==
    /\ step[w] = "policy"
    /\ \E x \in Oldest(todo[w]) :
         /\ todo' = [todo EXCEPT ![w] = @ \ {x}]
         /\ LET i == NextIndex(policy, x.tier) IN
              IF Due(x.alert, i)
                THEN /\ chosen' = [chosen EXCEPT ![w] = [x EXCEPT !.tier = policy.tiers[i].tier]]
                     /\ step' = [step EXCEPT ![w] = "tier"]
                ELSE UNCHANGED <<chosen, step>>
    /\ UNCHANGED <<db, history, failures>>

\* GetEscalationPolicy fails: the alert is left for the next tick.
ReadPolicyFails(w) ==
    /\ Failure
    /\ step[w] = "policy"
    /\ \E x \in Oldest(todo[w]) : todo' = [todo EXCEPT ![w] = @ \ {x}]
    /\ UNCHANGED <<db, step, chosen, history>>

\* Faulty variant: the event is recorded before the tier is moved.
UpdateTierAfterEvent(w) ==
    /\ step[w] = "tier"
    /\ events' = [events EXCEPT ![chosen[w].alert] = @ + 1]
    /\ step' = [step EXCEPT ![w] = "publish"]
    /\ UNCHANGED <<status, tier, age, policy, todo, chosen, history, failures>>

\* UpdateAlertEscalationTier: WHERE id = $1, whatever the status or tier is by now.
UpdateTier(w) ==
    /\ step[w] = "tier"
    /\ LET a == chosen[w].alert IN
         /\ tier' = [tier EXCEPT ![a] = chosen[w].tier]
         /\ bumps' = [bumps EXCEPT ![a] = @ + 1]
         /\ late' = [late EXCEPT ![a] = IF status[a] = "firing" THEN @ ELSE @ \union {w}]
    /\ step' = [step EXCEPT ![w] = "event"]
    /\ UNCHANGED <<status, age, policy, events, todo, chosen, failures>>

UpdateTierFails(w) ==
    /\ Failure
    /\ step[w] = "tier"
    /\ NextAlert(w)
    /\ UNCHANGED <<db, todo, history>>

CreateEvent(w) ==
    /\ step[w] = "event"
    /\ events' = [events EXCEPT ![chosen[w].alert] = @ + 1]
    /\ step' = [step EXCEPT ![w] = "publish"]
    /\ UNCHANGED <<status, tier, age, policy, todo, chosen, history, failures>>

\* The tier stays moved: the escalation is neither recorded nor published, nor tried again.
CreateEventFails(w) ==
    /\ Failure
    /\ step[w] = "event"
    /\ NextAlert(w)
    /\ UNCHANGED <<db, todo, history>>

\* PUBLISH nightowl:alert:escalated, its result ignored.
Publish(w) ==
    /\ step[w] = "publish"
    /\ NextAlert(w)
    /\ UNCHANGED <<db, todo, history, failures>>

\* Faulty variant: the worker comes up again in the middle of what it did.
RestartMidway(w) ==
    /\ Failure
    /\ step[w] # "idle"
    /\ todo' = [todo EXCEPT ![w] = {}]
    /\ chosen' = [chosen EXCEPT ![w] = NoRow]
    /\ UNCHANGED <<db, step, history>>

\* The worker stops and comes up again.
Restart(w) ==
    /\ Failure
    /\ step[w] # "idle"
    /\ step' = [step EXCEPT ![w] = "idle"]
    /\ todo' = [todo EXCEPT ![w] = {}]
    /\ chosen' = [chosen EXCEPT ![w] = NoRow]
    /\ UNCHANGED <<db, history>>

-----------------------------------------------------------------------------
(* The world of the engine.                                                *)

\* A webhook inserts a firing row, without a policy.
Raise(a) ==
    /\ a \notin Seeded
    /\ status[a] = "absent"
    /\ status' = [status EXCEPT ![a] = "firing"]
    /\ UNCHANGED <<tier, age, policy, events, engine, history, failures>>

\* Acknowledge and resolve, of a row that is still of interest to the engine.
Stop(a, s) ==
    /\ status[a] = "firing"
    /\ status' = [status EXCEPT ![a] = s]
    /\ UNCHANGED <<tier, age, policy, events, engine, history, failures>>

\* handleUpdate replaces the policy; no shape is asked of the tiers but that there is one.
UpdatePolicy(p) ==
    /\ Editable
    /\ p # policy
    /\ policy' = p
    /\ UNCHANGED <<status, tier, age, events, engine, history, failures>>

Minute ==
    /\ \E a \in Alerts : status[a] # "absent" /\ age[a] < MaxAge
    /\ age' = [a \in Alerts |->
                 IF status[a] # "absent" /\ age[a] < MaxAge THEN age[a] + 1 ELSE age[a]]
    /\ UNCHANGED <<status, tier, policy, events, engine, history, failures>>

-----------------------------------------------------------------------------
Init ==
    /\ status = [a \in Alerts |-> IF a \in Seeded THEN "firing" ELSE "absent"]
    /\ tier = [a \in Alerts |-> 0]
    /\ age = [a \in Alerts |-> 0]
    /\ policy \in Policies
    /\ events = [a \in Alerts |-> 0]
    /\ step = [w \in Workers |-> "idle"]
    /\ todo = [w \in Workers |-> {}]
    /\ chosen = [w \in Workers |-> NoRow]
    /\ bumps = [a \in Alerts |-> 0]
    /\ late = [a \in Alerts |-> {}]
    /\ failures = 0

Work(w) ==
    \/ List(w)
    \/ EndTick(w)
    \/ ReadPolicy(w)
    \/ ReadPolicyFails(w)
    \/ UpdateTier(w)
    \/ UpdateTierFails(w)
    \/ CreateEvent(w)
    \/ CreateEventFails(w)
    \/ Publish(w)

Next ==
    \/ \E w \in Workers : Work(w) \/ Restart(w)
    \/ \E a \in Alerts : Raise(a) \/ \E s \in {"acknowledged", "resolved"} : Stop(a, s)
    \/ \E p \in Policies : UpdatePolicy(p)
    \/ Minute

Spec == Init /\ [][Next]_vars

\* The ticker of each worker fires every 30 seconds, a tick runs to its end, time goes on.
FairSpec == Spec /\ WF_vars(Minute) /\ \A w \in Workers : WF_vars(Work(w))

-----------------------------------------------------------------------------
TypeOK ==
    /\ status \in [Alerts -> {"absent", "firing", "acknowledged", "resolved"}]
    /\ tier \in [Alerts -> Nat]
    /\ age \in [Alerts -> 0..MaxAge]
    /\ policy \in Policies
    /\ events \in [Alerts -> Nat]
    /\ step \in [Workers -> {"idle", "policy", "tier", "event", "publish"}]
    /\ todo \in [Workers -> SUBSET Row]
    /\ chosen \in [Workers -> Row \union {NoRow}]
    /\ bumps \in [Alerts -> Nat]
    /\ late \in [Alerts -> SUBSET Workers]
    /\ failures \in 0..MaxFailures
    /\ \A w \in Workers : step[w] \in {"tier", "event", "publish"} => chosen[w] # NoRow

Escalated(a) == bumps'[a] # bumps[a]

(***************************************************************************)
(* The engine does not read the status again after listing, so an alert    *)
(* that was acknowledged or resolved meanwhile is still escalated; but     *)
(* each worker does that to it at most once, whatever fails and restarts:  *)
(* an escalation of an alert that stopped firing is the first one by that  *)
(* worker (engine.go, processTenant and processAlert).                     *)
(***************************************************************************)
OneLateEscalationPerWorker ==
    [][\A a \in Alerts :
          Escalated(a) /\ status[a] # "firing" => late'[a] # late[a]]_vars

(***************************************************************************)
(* The tier is moved before the event is recorded.  An event is never      *)
(* recorded for an escalation that did not happen, and when nothing fails  *)
(* every escalation is recorded as soon as its worker is past that         *)
(* statement (engine.go, processAlert).                                    *)
(***************************************************************************)
Recording(a) == {w \in Workers : step[w] = "event" /\ chosen[w].alert = a}

EventsMatchEscalations ==
    \A a \in Alerts :
        /\ events[a] + Cardinality(Recording(a)) <= bumps[a]
        /\ bumps[a] <= events[a] + Cardinality(Recording(a)) + failures

(***************************************************************************)
(* handleDryRun: the tiers in list order, each with the minutes summed up  *)
(* to it.                                                                  *)
(***************************************************************************)
DryRun(p) ==
    [i \in DOMAIN p.tiers |-> [tier |-> p.tiers[i].tier, minutes |-> Cumulative(p.tiers, i)]]

(***************************************************************************)
(* The escalations of an alert are those the dry run of its policy shows,  *)
(* in that order and none before the minutes it shows, through every       *)
(* repetition (engine.go processAlert against handler.go handleDryRun).    *)
(***************************************************************************)
EngineFollowsDryRun ==
    [][\A a \in Alerts : Escalated(a) =>
          LET n == Len(policy.tiers)
              shown == DryRun(policy)[(bumps[a] % n) + 1]
          IN  tier'[a] = shown.tier /\ age[a] >= shown.minutes]_vars

(***************************************************************************)
(* With one worker and nothing failing, every step the dry run shows is    *)
(* carried out, unless the alert stops firing before.  It holds of         *)
(* policies that list their tiers in ascending order, from 1 on;           *)
(* docs/04-integrations-workflow.md:313 says it of every policy ("the full *)
(* escalation path", "the sequence of tiers"), and nothing makes a policy  *)
(* list its tiers so (engine.go processAlert, handler.go handleDryRun).    *)
(***************************************************************************)
DryRunIsCarriedOut ==
    \A a \in Seeded : <>(status[a] # "firing" \/ bumps[a] >= Len(policy.tiers))

-----------------------------------------------------------------------------
(* A statement of the repository that the code does not live up to.        *)

(***************************************************************************)
(* engine.go:157, "Calculate how many full cycles we've done.", and the    *)
(* "Repeats: n" of the policy page: the policy runs through 1 + n times.   *)
(***************************************************************************)
RepeatsAsOftenAsConfigured ==
    \A a \in Alerts : bumps[a] <= (1 + policy.repeat) * Len(policy.tiers)
=============================================================================
