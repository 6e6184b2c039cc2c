---------------------------- MODULE AlertGrouping ----------------------------
(***************************************************************************)
(* Alert grouping, pkg/alertgroup: createOrDedup evaluates a firing alert  *)
(* it has just inserted against the grouping rules (evaluator.go Evaluate, *)
(* called from pkg/alert/webhook.go), and saving a rule backfills it with  *)
(* the firing alerts that have no group (handler.go, BackfillRule).  Both  *)
(* are jobs that run statement by statement beside each other, while rules *)
(* are edited and deleted and alerts closed.                               *)
(*                                                                         *)
(* What matchers and group_by say of the labels of an alert is one         *)
(* function here: the group key of the alert, or NoKey where a matcher     *)
(* does not match.  A group is named by its rule and its key, which are    *)
(* UNIQUE, and a rule id is never used again.                              *)
(***************************************************************************)
EXTENDS Naturals, FiniteSets

CONSTANTS
    Alerts,        \* ids of alerts
    Rules,         \* ids the grouping rules table can hand out (a bound)
    Keys,          \* group keys
    NoKey,         \* no matcher matches
    Contents,      \* what a rule may be given: [position, enabled, key]
    SeverityOf,    \* severity of each alert, 1 (info, the column default) to 4 (critical)
    Jobs,          \* slots for evaluations and backfills running at once
    MaxFailures,   \* a bound: failed statements and jobs cut short
    None           \* no group, no rule, no job

ASSUME ConstantsAssumption ==
    /\ NoKey \notin Keys
    /\ Contents \subseteq [position : Nat, enabled : BOOLEAN, key : [Alerts -> Keys \union {NoKey}]]
    /\ SeverityOf \in [Alerts -> 1..4]
    /\ MaxFailures \in Nat
    /\ None \notin Contents
    /\ None \notin Rules \X Keys
    /\ None \notin Alerts /\ None \notin [rule : Rules, content : Contents]
    /\ Alerts \intersect [rule : Rules, content : Contents] = {}

\* What is counted can be counted.
ASSUME FiniteAssumption == IsFiniteSet(Alerts) /\ IsFiniteSet(Jobs)

Groups == Rules \X Keys

VARIABLES
    \* the tables
    rule,       \* rule[r], the content of a rule, None before it is created and after it is deleted
    firing,     \* the alerts whose row says firing
    groupOf,    \* groupOf[a], the alert_group_id column
    count,      \* count[g], the alert_count column; 0 while there is no row
    severity,   \* severity[g], the max_severity column
    groups,     \* the groups that have a row
    \* the jobs
    pc,         \* pc[j], the statement job j executes next
    subject,    \* subject[j], the alert evaluated or the [rule, content] saved
    plan,       \* plan[j], the <<alert, group>> pairs still to be worked off
    current,    \* current[j], the pair being assigned
    \* history
    inserted,   \* alerts that were inserted
    used,       \* rule ids that were used
    orphaned,   \* alerts that lost a group, or an assignment to one, to the deletion of a rule
    failures    \* failed statements and jobs cut short

tables == <<rule, firing, groupOf, count, severity, groups>>
jobs == <<pc, subject, plan, current>>
history == <<inserted, used, orphaned>>
vars == <<tables, jobs, history, failures>>

Bigger(m, n) == IF m >= n THEN m ELSE n

Matching(a) == {r \in Rules : rule[r] # None /\ rule[r].enabled /\ rule[r].key[a] # NoKey}

-----------------------------------------------------------------------------
(* Starting and ending jobs.                                               *)

\* createOrDedup inserts a firing alert and goes on to Evaluate.
Insert(j, a) ==
    /\ pc[j] = "idle"
    /\ a \notin inserted
    /\ inserted' = inserted \union {a}
    /\ firing' = firing \union {a}
    /\ pc' = [pc EXCEPT ![j] = "list_rules"]
    /\ subject' = [subject EXCEPT ![j] = a]
    /\ UNCHANGED <<rule, groupOf, count, severity, groups, plan, current, used, orphaned, failures>>

\* Job j is done with its list or goes on to the next entry of it.
Continue(j, rest) ==
    /\ pc' = [pc EXCEPT ![j] = IF rest = {} THEN "idle" ELSE "upsert"]
    /\ subject' = [subject EXCEPT ![j] = IF rest = {} THEN None ELSE @]
    /\ plan' = [plan EXCEPT ![j] = rest]
    /\ current' = [current EXCEPT ![j] = None]

\* Faulty variant: a rule that is only switched on is not backfilled.
SaveRuleBackfillNew(j, r, c) ==
    /\ pc[j] = "idle"
    /\ rule[r] # None \/ r \notin used
    /\ rule' = [rule EXCEPT ![r] = c]
    /\ used' = used \union {r}
    /\ IF c.enabled /\ r \notin used
         THEN /\ pc' = [pc EXCEPT ![j] = "list_alerts"]
              /\ subject' = [subject EXCEPT ![j] = [rule |-> r, content |-> c]]
         ELSE UNCHANGED <<pc, subject>>
    /\ UNCHANGED <<firing, groupOf, count, severity, groups, plan, current, inserted, orphaned,
                   failures>>

(***************************************************************************)
(* handleCreateRule and handleUpdateRule: the row is written, then the     *)
(* rule as it was written is backfilled, if it is enabled.                 *)
(***************************************************************************)
SaveRule(j, r, c) ==
    /\ pc[j] = "idle"
    /\ rule[r] # None \/ r \notin used
    /\ rule' = [rule EXCEPT ![r] = c]
    /\ used' = used \union {r}
    /\ IF c.enabled
         THEN /\ pc' = [pc EXCEPT ![j] = "list_alerts"]
              /\ subject' = [subject EXCEPT ![j] = [rule |-> r, content |-> c]]
         ELSE UNCHANGED <<pc, subject>>
    /\ UNCHANGED <<firing, groupOf, count, severity, groups, plan, current, inserted, orphaned,
                   failures>>

\* ListEnabledRules, and the first rule by position that matches (names break ties).
ListRules(j) ==
    /\ pc[j] = "list_rules"
    /\ LET a == subject[j]
           first == {r \in Matching(a) :
                       \A q \in Matching(a) : rule[r].position <= rule[q].position}
       IN  IF first = {}
             THEN Continue(j, {})
             ELSE \E r \in first : Continue(j, {<<a, <<r, rule[r].key[a]>>>>})
    /\ UNCHANGED <<tables, history, failures>>

\* ListUngroupedAlerts, and what the saved rule makes of them.
ListAlerts(j) ==
    /\ pc[j] = "list_alerts"
    /\ LET s == subject[j]
           taken == {a \in firing : groupOf[a] = None /\ s.content.key[a] # NoKey}
       IN  Continue(j, {<<a, <<s.rule, s.content.key[a]>>>> : a \in taken})
    /\ UNCHANGED <<tables, history, failures>>

-----------------------------------------------------------------------------
(* The three statements for one alert.                                     *)

\* FindOrCreateGroup; without its rule the row cannot be inserted.
Upsert(j) ==
    /\ pc[j] = "upsert"
    /\ \E x \in plan[j] :
         LET a == x[1]  g == x[2] IN
           \/ /\ rule[g[1]] # None
              /\ groups' = groups \union {g}
              /\ pc' = [pc EXCEPT ![j] = "assign"]
              /\ plan' = [plan EXCEPT ![j] = @ \ {x}]
              /\ current' = [current EXCEPT ![j] = x]
              /\ UNCHANGED <<subject, orphaned>>
           \/ /\ rule[g[1]] = None
              /\ orphaned' = orphaned \union {a}
              /\ Continue(j, plan[j] \ {x})
              /\ UNCHANGED groups
    /\ UNCHANGED <<rule, firing, groupOf, count, severity, inserted, used, failures>>

\* Faulty variant: an alert that has a group already is moved without being counted.
AssignUncounted(j) ==
    /\ pc[j] = "assign"
    /\ LET a == current[j][1]  g == current[j][2] IN
         \/ /\ g \in groups
            /\ groupOf' = [groupOf EXCEPT ![a] = g]
            /\ IF groupOf[a] = None
                 THEN pc' = [pc EXCEPT ![j] = "count"] /\ UNCHANGED <<subject, plan, current>>
                 ELSE Continue(j, plan[j])
            /\ UNCHANGED orphaned
         \/ /\ g \notin groups
            /\ orphaned' = orphaned \union {a}
            /\ Continue(j, plan[j])
            /\ UNCHANGED groupOf
    /\ UNCHANGED <<rule, firing, count, severity, groups, inserted, used, failures>>

\* AssignAlertToGroup, first statement: whatever group and status the alert has by now.
Assign(j) ==
    /\ pc[j] = "assign"
    /\ LET a == current[j][1]  g == current[j][2] IN
         \/ /\ g \in groups
            /\ groupOf' = [groupOf EXCEPT ![a] = g]
            /\ pc' = [pc EXCEPT ![j] = "count"]
            /\ UNCHANGED <<subject, plan, current, orphaned>>
         \/ /\ g \notin groups
            /\ orphaned' = orphaned \union {a}
            /\ Continue(j, plan[j])
            /\ UNCHANGED groupOf
    /\ UNCHANGED <<rule, firing, count, severity, groups, inserted, used, failures>>

\* AssignAlertToGroup, second statement: no row is updated if the group is gone.
Count(j) ==
    /\ pc[j] = "count"
    /\ LET a == current[j][1]  g == current[j][2] IN
         IF g \in groups
           THEN /\ count' = [count EXCEPT ![g] = @ + 1]
                /\ severity' = [severity EXCEPT ![g] = Bigger(@, SeverityOf[a])]
           ELSE UNCHANGED <<count, severity>>
    /\ Continue(j, plan[j])
    /\ UNCHANGED <<rule, firing, groupOf, groups, history, failures>>

-----------------------------------------------------------------------------
\* Faulty variant: the alerts of the groups keep naming them.
DeleteRuleKeepsMembers(r) ==
    /\ rule[r] # None
    /\ rule' = [rule EXCEPT ![r] = None]
    /\ LET gone == {g \in groups : g[1] = r}
       IN  /\ groups' = groups \ gone
           /\ count' = [g \in Groups |-> IF g \in gone THEN 0 ELSE count[g]]
           /\ severity' = [g \in Groups |-> IF g \in gone THEN 1 ELSE severity[g]]
    /\ UNCHANGED <<groupOf, orphaned, firing, jobs, inserted, used, failures>>

\* Deletes the rule, with it its groups (CASCADE), and unassigns their alerts (SET NULL).
DeleteRule(r) ==
    /\ rule[r] # None
    /\ rule' = [rule EXCEPT ![r] = None]
    /\ LET gone == {g \in groups : g[1] = r}
           members == {a \in Alerts : groupOf[a] \in gone}
       IN  /\ groups' = groups \ gone
           /\ count' = [g \in Groups |-> IF g \in gone THEN 0 ELSE count[g]]
           /\ severity' = [g \in Groups |-> IF g \in gone THEN 1 ELSE severity[g]]
           /\ groupOf' = [a \in Alerts |-> IF a \in members THEN None ELSE groupOf[a]]
           /\ orphaned' = orphaned \union members
    /\ UNCHANGED <<firing, jobs, inserted, used, failures>>

\* Acknowledged or resolved, the alert keeps its group.
Close(a) ==
    /\ a \in firing
    /\ firing' = firing \ {a}
    /\ UNCHANGED <<rule, groupOf, count, severity, groups, jobs, history, failures>>

Failure ==
    /\ failures < MaxFailures
    /\ failures' = failures + 1

\* A statement fails: a list ends the job, any other statement the entry it is for.
StatementFails(j) ==
    /\ Failure
    /\ \/ pc[j] \in {"list_rules", "list_alerts"} /\ Continue(j, {})
       \/ pc[j] = "upsert" /\ \E x \in plan[j] : Continue(j, plan[j] \ {x})
       \/ pc[j] \in {"assign", "count"} /\ Continue(j, plan[j])
    /\ UNCHANGED <<tables, history>>

\* The client gives up or the process stops; a crash is the end of every job.
JobStops(j) ==
    /\ Failure
    /\ pc[j] # "idle"
    /\ Continue(j, {})
    /\ UNCHANGED <<tables, history>>

-----------------------------------------------------------------------------
Init ==
    /\ rule = [r \in Rules |-> None]
    /\ firing = {}
    /\ groupOf = [a \in Alerts |-> None]
    /\ count = [g \in Groups |-> 0]
    /\ severity = [g \in Groups |-> 1]
    /\ groups = {}
    /\ pc = [j \in Jobs |-> "idle"]
    /\ subject = [j \in Jobs |-> None]
    /\ plan = [j \in Jobs |-> {}]
    /\ current = [j \in Jobs |-> None]
    /\ inserted = {}
    /\ used = {}
    /\ orphaned = {}
    /\ failures = 0

Work(j) ==
    \/ ListRules(j)
    \/ ListAlerts(j)
    \/ Upsert(j)
    \/ Assign(j)
    \/ Count(j)
    \/ StatementFails(j)
    \/ JobStops(j)

Next ==
    \/ \E j \in Jobs, a \in Alerts : Insert(j, a)
    \/ \E j \in Jobs, r \in Rules, c \in Contents : SaveRule(j, r, c)
    \/ \E j \in Jobs : Work(j)
    \/ \E r \in Rules : DeleteRule(r)
    \/ \E a \in Alerts : Close(a)

Spec == Init /\ [][Next]_vars

-----------------------------------------------------------------------------
Pair == Alerts \X Groups

TypeOK ==
    /\ rule \in [Rules -> Contents \union {None}]
    /\ firing \subseteq inserted
    /\ groupOf \in [Alerts -> groups \union {None}]
    /\ count \in [Groups -> Nat]
    /\ severity \in [Groups -> 1..4]
    /\ groups \in SUBSET Groups
    /\ pc \in [Jobs -> {"idle", "list_rules", "list_alerts", "upsert", "assign", "count"}]
    /\ subject \in [Jobs -> Alerts \union [rule : Rules, content : Contents] \union {None}]
    /\ plan \in [Jobs -> SUBSET Pair]
    /\ current \in [Jobs -> Pair \union {None}]
    /\ inserted \in SUBSET Alerts
    /\ used \in SUBSET Rules
    /\ orphaned \in SUBSET inserted
    /\ failures \in 0..MaxFailures

Members(g) == {a \in Alerts : groupOf[a] = g}

Uncounted(g) == {j \in Jobs : pc[j] = "count" /\ current[j][2] = g}

(***************************************************************************)
(* Assigning an alert and counting it are two statements, and a backfill   *)
(* may take an alert that an evaluation is just assigning elsewhere.  The  *)
(* counters of a group still sum its members up, except for assignments    *)
(* not counted yet or interrupted by a failure: alert_count is no less     *)
(* than the number of members, max_severity no less than any of theirs     *)
(* (store.go, AssignAlertToGroup).                                         *)
(***************************************************************************)
CountersCoverMembers ==
    \A g \in groups :
        /\ Cardinality(Members(g)) <= count[g] + Cardinality(Uncounted(g)) + failures
        /\ failures = 0 =>
             \A a \in Members(g) :
                 \/ SeverityOf[a] <= severity[g]
                 \/ \E j \in Uncounted(g) : current[j][1] = a

Evaluating(a) == {j \in Jobs : subject[j] = a}

Backfilling(r) == {j \in Jobs : pc[j] # "idle" /\ subject[j] \notin Alerts /\ subject[j].rule = r}

(***************************************************************************)
(* An evaluation lists the rules after its alert is inserted, a backfill   *)
(* the alerts after its rule is written: of an alert and a rule that are   *)
(* written at the same time, one finds the other.  So, when nothing fails, *)
(* a firing alert that an enabled rule matches has a group once neither is *)
(* being worked on, unless the deletion of a rule took one from it         *)
(* (evaluator.go, Evaluate and BackfillRule).                              *)
(***************************************************************************)
NothingSlipsThrough ==
    failures = 0 =>
        \A a \in firing \ orphaned :
            groupOf[a] = None /\ Evaluating(a) = {} =>
                \A r \in Matching(a) : Backfilling(r) # {}
=============================================================================
