------------------------ MODULE AlertGrouping_proofs ------------------------
(***************************************************************************)
(* Proofs about AlertGrouping, for every number of alerts, rules and jobs  *)
(* that run at once.                                                       *)
(***************************************************************************)
EXTENDS AlertGrouping, FiniteSetTheorems, WellFoundedInduction, TLAPS

\* What a backfill is the subject of.
Saved == [rule : Rules, content : Contents]

\* An alert that has a group, or lost one to the deletion of its rule.
Settled(a) == groupOf[a] # None \/ a \in orphaned

(***************************************************************************)
(* A job and what it is at: an evaluation has one pair at most, of its own *)
(* alert, and counts an alert that it has assigned.                        *)
(***************************************************************************)
JobOK(j) ==
    /\ pc[j] = "idle" <=> subject[j] = None
    /\ pc[j] = "list_rules" => subject[j] \in Alerts
    /\ pc[j] = "list_alerts" => subject[j] \in Saved
    /\ pc[j] \in {"idle", "list_rules", "list_alerts"} => plan[j] = {}
    /\ pc[j] \in {"assign", "count"} => current[j] \in Pair /\ current[j][1] \in inserted
    /\ \A x \in plan[j] : x[1] \in inserted
    /\ pc[j] = "count" => Settled(current[j][1])
    /\ subject[j] \in Alerts =>
         /\ subject[j] \in inserted
         /\ pc[j] = "upsert" => \E x \in Pair : x[1] = subject[j] /\ plan[j] = {x}
         /\ pc[j] \in {"assign", "count"} => current[j][1] = subject[j] /\ plan[j] = {}

TypeInv ==
    /\ TypeOK
    /\ \A j \in Jobs : JobOK(j)
    /\ \A a \in Alerts : groupOf[a] # None => a \in inserted

\* Job j is what keeps alert a from slipping past rule r.
Handles(j, a, r) ==
    \/ subject[j] = a
    \/ /\ subject[j] \in Saved /\ subject[j].rule = r
       /\ \/ pc[j] = "list_alerts" /\ subject[j].content = rule[r]
          \/ \E x \in plan[j] : x[1] = a
          \/ pc[j] = "assign" /\ current[j][1] = a

Loose(a) == a \in firing /\ ~Settled(a)

CoverInv ==
    failures = 0 =>
      \A a \in Alerts : Loose(a) => \A r \in Matching(a) : \E j \in Jobs : Handles(j, a, r)

-----------------------------------------------------------------------------
LEMMA Constants ==
    /\ None \notin Contents /\ None \notin Groups /\ None \notin Alerts /\ None \notin Saved
    /\ Alerts \intersect Saved = {}
BY ConstantsAssumption DEF Groups, Saved

\* The other jobs are where they were.
Others(j) ==
    \A i \in Jobs \ {j} :
      pc'[i] = pc[i] /\ subject'[i] = subject[i] /\ plan'[i] = plan[i] /\ current'[i] = current[i]

\* A step forgets no alert that was inserted and settled.
Forward == inserted \subseteq inserted' /\ \A a \in Alerts : Settled(a) => Settled(a)'

LEMMA OthersStayOK ==
    ASSUME TypeInv, NEW j \in Jobs, Others(j), Forward, NEW i \in Jobs, i # j
    PROVE  JobOK(i)'
<1>1. JobOK(i) /\ pc'[i] = pc[i] /\ subject'[i] = subject[i] /\ plan'[i] = plan[i] /\ current'[i] = current[i]
  BY DEF TypeInv, Others
<1>2. pc[i] \in {"assign", "count"} => current[i][1] \in Alerts
  BY <1>1 DEF JobOK, Pair
<1> QED
  BY <1>1, <1>2 DEF JobOK, Forward

LEMMA ContinueTypes ==
    ASSUME TypeInv, NEW j \in Jobs, NEW rest \in SUBSET Pair, Continue(j, rest)
    PROVE  /\ Others(j)
           /\ pc'[j] = (IF rest = {} THEN "idle" ELSE "upsert")
           /\ subject'[j] = (IF rest = {} THEN None ELSE subject[j])
           /\ plan'[j] = rest /\ current'[j] = None
           /\ pc' \in [Jobs -> {"idle", "list_rules", "list_alerts", "upsert", "assign", "count"}]
           /\ subject' \in [Jobs -> Alerts \union Saved \union {None}]
           /\ plan' \in [Jobs -> SUBSET Pair]
           /\ current' \in [Jobs -> Pair \union {None}]
BY DEF Continue, Others, TypeInv, TypeOK, Saved

\* A job that goes on with a list that it may have.
LEMMA ContinueOK ==
    ASSUME TypeInv, NEW j \in Jobs, NEW rest \in SUBSET Pair, Continue(j, rest), pc[j] # "idle",
           Forward, \A x \in rest : x[1] \in inserted',
           subject[j] \in Alerts => rest = {} \/ \E x \in Pair : x[1] = subject[j] /\ rest = {x}
    PROVE  \A i \in Jobs : JobOK(i)'
<1>1. JobOK(j)'
  <2>1. JobOK(j) /\ subject[j] # None
    BY DEF TypeInv, JobOK
  <2>2. CASE rest = {}
    BY <2>2, ContinueTypes, Constants DEF JobOK
  <2>3. CASE rest # {}
    <3>1. pc'[j] = "upsert" /\ subject'[j] = subject[j] /\ plan'[j] = rest
      BY <2>3, ContinueTypes
    <3> QED
      BY <2>1, <2>3, <3>1 DEF JobOK, Forward
  <2> QED
    BY <2>2, <2>3
<1> QED
  BY <1>1, ContinueTypes, OthersStayOK

LEMMA TypeInit == Init => TypeInv
BY ConstantsAssumption, Constants DEF Init, TypeInv, TypeOK, JobOK

LEMMA TypeInsert ==
    ASSUME TypeInv, NEW j \in Jobs, NEW a \in Alerts, Insert(j, a)
    PROVE  TypeInv'
<1>1. TypeOK'
  BY DEF Insert, TypeInv, TypeOK
<1>2. Others(j) /\ Forward
  BY DEF Insert, Others, Forward, Settled, TypeInv, TypeOK
<1>3. /\ pc'[j] = "list_rules" /\ subject'[j] = a /\ plan'[j] = plan[j] /\ a \in inserted'
      /\ inserted \subseteq inserted'
  BY DEF Insert, TypeInv, TypeOK
<1>4. pc[j] = "idle" /\ JobOK(j)
  BY DEF Insert, TypeInv
<1>5. JobOK(j)'
  BY <1>3, <1>4, Constants DEF JobOK
<1> QED
  BY <1>1, <1>2, <1>5, OthersStayOK DEF TypeInv, Insert

LEMMA TypeSaveRule ==
    ASSUME TypeInv, NEW j \in Jobs, NEW r \in Rules, NEW c \in Contents, SaveRule(j, r, c)
    PROVE  TypeInv'
<1> DEFINE s == [rule |-> r, content |-> c]
<1>1. s \in Saved
  BY DEF Saved
<1>2. TypeOK'
  BY <1>1 DEF SaveRule, TypeInv, TypeOK, Saved
<1>3. Others(j) /\ Forward
  BY DEF SaveRule, Others, Forward, Settled, TypeInv, TypeOK
<1>4. UNCHANGED <<plan, current, inserted, groupOf, orphaned>> /\ pc[j] = "idle" /\ JobOK(j)
  BY DEF SaveRule, TypeInv
<1>5. JobOK(j)'
  <2>1. CASE c.enabled
    <3>1. pc'[j] = "list_alerts" /\ subject'[j] = s
      BY <2>1 DEF SaveRule, TypeInv, TypeOK
    <3> QED
      BY <1>1, <1>4, <3>1, Constants DEF JobOK
  <2>2. CASE ~c.enabled
    BY <1>4, <2>2 DEF SaveRule, JobOK, Settled
  <2> QED
    BY <2>1, <2>2
<1> QED
  BY <1>2, <1>3, <1>4, <1>5, OthersStayOK DEF TypeInv

\* A step of a job that goes on, and leaves the tables and what is inserted alone.
LEMMA TypeContinues ==
    ASSUME TypeInv, NEW j \in Jobs, NEW rest \in SUBSET Pair, Continue(j, rest), pc[j] # "idle",
           UNCHANGED <<tables, history>>, failures' \in 0 .. MaxFailures,
           \A x \in rest : x[1] \in inserted,
           subject[j] \in Alerts => rest = {} \/ \E x \in Pair : x[1] = subject[j] /\ rest = {x}
    PROVE  TypeInv'
<1>1. UNCHANGED <<rule, firing, groupOf, count, severity, groups, inserted, used, orphaned>>
  BY DEF tables, history
<1>2. Forward
  BY <1>1 DEF Forward, Settled
<1>3. \A i \in Jobs : JobOK(i)'
  BY <1>1, <1>2, ContinueOK
<1>4. TypeOK'
  BY <1>1, ContinueTypes DEF TypeInv, TypeOK, Saved
<1> QED
  BY <1>1, <1>3, <1>4 DEF TypeInv

LEMMA PairsOfGroups ==
    ASSUME NEW x \in Pair
    PROVE  x[1] \in Alerts /\ x[2] \in Groups /\ x[2][1] \in Rules
BY DEF Pair, Groups

LEMMA TypeListRules ==
    ASSUME TypeInv, NEW j \in Jobs, ListRules(j)
    PROVE  TypeInv'
<1> DEFINE a == subject[j]
<1>1. a \in Alerts /\ a \in inserted /\ pc[j] = "list_rules"
  BY DEF ListRules, TypeInv, JobOK
<1>2. UNCHANGED <<tables, history>> /\ failures' \in 0 .. MaxFailures
  BY DEF ListRules, TypeInv, TypeOK
<1>3. CASE Continue(j, {})
  BY <1>1, <1>2, <1>3, TypeContinues
<1>4. ASSUME NEW r \in Matching(a), Continue(j, {<<a, <<r, rule[r].key[a]>>>>}) PROVE TypeInv'
  <2>1. r \in Rules /\ rule[r] \in Contents /\ rule[r].key[a] # NoKey
    BY DEF Matching, TypeInv, TypeOK
  <2>2. rule[r].key[a] \in Keys
    BY <1>1, <2>1, ConstantsAssumption
  <2>3. <<a, <<r, rule[r].key[a]>>>> \in Pair
    BY <1>1, <2>1, <2>2 DEF Pair, Groups
  <2> QED
    BY <1>1, <1>2, <1>4, <2>3, TypeContinues
<1> QED
  BY <1>3, <1>4 DEF ListRules

LEMMA TypeListAlerts ==
    ASSUME TypeInv, NEW j \in Jobs, ListAlerts(j)
    PROVE  TypeInv'
<1> DEFINE s == subject[j]
<1> DEFINE taken == {a \in firing : groupOf[a] = None /\ s.content.key[a] # NoKey}
<1> DEFINE rest == {<<a, <<s.rule, s.content.key[a]>>>> : a \in taken}
<1>1. s \in Saved /\ s \notin Alerts /\ pc[j] = "list_alerts"
  BY Constants DEF ListAlerts, TypeInv, JobOK
<1>2. s.rule \in Rules /\ s.content.key \in [Alerts -> Keys \union {NoKey}]
  BY <1>1, ConstantsAssumption DEF Saved
<1>3. ASSUME NEW a \in taken
      PROVE  <<a, <<s.rule, s.content.key[a]>>>> \in Pair /\ a \in inserted
  BY <1>2 DEF Pair, Groups, TypeInv, TypeOK
<1>4. rest \in SUBSET Pair /\ \A x \in rest : x[1] \in inserted
  BY <1>3
<1>5. Continue(j, rest) /\ UNCHANGED <<tables, history>> /\ failures' \in 0 .. MaxFailures
  BY DEF ListAlerts, TypeInv, TypeOK
<1> HIDE DEF rest
<1> QED
  BY <1>1, <1>4, <1>5, TypeContinues

\* What is left of the list of a job, with or without one entry.
LEMMA RestOfPlan ==
    ASSUME TypeInv, NEW j \in Jobs, NEW rest \in SUBSET plan[j],
           pc[j] \in {"upsert", "assign", "count"},
           pc[j] = "upsert" => \E x \in plan[j] : rest = plan[j] \ {x}
    PROVE  /\ rest \in SUBSET Pair /\ \A x \in rest : x[1] \in inserted
           /\ subject[j] \in Alerts => rest = {} \/ \E x \in Pair : x[1] = subject[j] /\ rest = {x}
<1>1. plan[j] \in SUBSET Pair /\ JobOK(j)
  BY DEF TypeInv, TypeOK
<1>2. subject[j] \in Alerts => rest = {}
  BY <1>1 DEF JobOK
<1> QED
  BY <1>1, <1>2 DEF JobOK

LEMMA TypeUpsert ==
    ASSUME TypeInv, NEW j \in Jobs, Upsert(j)
    PROVE  TypeInv'
<1>1. PICK x \in plan[j] :
        \/ /\ groups' = groups \union {x[2]}
           /\ pc' = [pc EXCEPT ![j] = "assign"]
           /\ plan' = [plan EXCEPT ![j] = @ \ {x}]
           /\ current' = [current EXCEPT ![j] = x]
           /\ UNCHANGED <<subject, orphaned>>
        \/ /\ orphaned' = orphaned \union {x[1]}
           /\ Continue(j, plan[j] \ {x})
           /\ UNCHANGED groups
  BY DEF Upsert
<1>2. /\ UNCHANGED <<rule, firing, groupOf, count, severity, inserted, used, failures>>
      /\ pc[j] = "upsert"
  BY DEF Upsert
<1>3. x \in Pair /\ x[1] \in Alerts /\ x[1] \in inserted /\ x[2] \in Groups
  BY PairsOfGroups DEF TypeInv, TypeOK, JobOK
<1>4. CASE /\ groups' = groups \union {x[2]}
           /\ pc' = [pc EXCEPT ![j] = "assign"]
           /\ plan' = [plan EXCEPT ![j] = @ \ {x}]
           /\ current' = [current EXCEPT ![j] = x]
           /\ UNCHANGED <<subject, orphaned>>
  <2>1. TypeOK'
    BY <1>2, <1>3, <1>4 DEF TypeInv, TypeOK
  <2>2. Others(j) /\ Forward
    BY <1>2, <1>4 DEF Others, Forward, Settled, TypeInv, TypeOK
  <2>3. /\ pc'[j] = "assign" /\ plan'[j] = plan[j] \ {x} /\ current'[j] = x /\ subject'[j] = subject[j]
        /\ JobOK(j)
    BY <1>4 DEF TypeInv, TypeOK
  <2>4. subject[j] \in Alerts => x[1] = subject[j] /\ plan[j] \ {x} = {}
    BY <1>2, <2>3 DEF JobOK
  <2>5. JobOK(j)'
    BY <1>2, <1>3, <2>3, <2>4 DEF JobOK
  <2> QED
    BY <1>2, <2>1, <2>2, <2>5, OthersStayOK DEF TypeInv
<1>5. CASE /\ orphaned' = orphaned \union {x[1]}
           /\ Continue(j, plan[j] \ {x})
           /\ UNCHANGED groups
  <2>1. Forward
    BY <1>2, <1>5 DEF Forward, Settled
  <2> DEFINE rest == plan[j] \ {x}
  <2>2. rest \in SUBSET plan[j] /\ \E y \in plan[j] : rest = plan[j] \ {y}
    OBVIOUS
  <2>3. Continue(j, rest)
    BY <1>5
  <2> HIDE DEF rest
  <2>4. /\ rest \in SUBSET Pair /\ \A y \in rest : y[1] \in inserted
        /\ subject[j] \in Alerts => rest = {} \/ \E y \in Pair : y[1] = subject[j] /\ rest = {y}
    BY <1>2, <2>2, RestOfPlan
  <2>5. \A i \in Jobs : JobOK(i)'
    BY <1>2, <1>5, <2>1, <2>3, <2>4, ContinueOK
  <2>6. TypeOK'
    BY <1>2, <1>3, <1>5, <2>3, <2>4, ContinueTypes DEF TypeInv, TypeOK, Saved
  <2> QED
    BY <1>2, <2>5, <2>6 DEF TypeInv
<1> QED
  BY <1>1, <1>4, <1>5

\* What Assign and Count work on.
LEMMA CurrentPair ==
    ASSUME TypeInv, NEW j \in Jobs, pc[j] \in {"assign", "count"}
    PROVE  /\ current[j] \in Pair /\ current[j][1] \in Alerts /\ current[j][1] \in inserted
           /\ current[j][2] \in Groups
BY PairsOfGroups DEF TypeInv, JobOK

LEMMA TypeAssign ==
    ASSUME TypeInv, NEW j \in Jobs, Assign(j)
    PROVE  TypeInv'
<1> DEFINE a == current[j][1]
<1> DEFINE g == current[j][2]
<1>1. /\ UNCHANGED <<rule, firing, count, severity, groups, inserted, used, failures>>
      /\ pc[j] = "assign" /\ current[j] \in Pair /\ a \in Alerts /\ a \in inserted /\ g \in Groups
  BY CurrentPair DEF Assign
<1>2. CASE /\ g \in groups
           /\ groupOf' = [groupOf EXCEPT ![a] = g]
           /\ pc' = [pc EXCEPT ![j] = "count"]
           /\ UNCHANGED <<subject, plan, current, orphaned>>
  <2>1. TypeOK'
    BY <1>1, <1>2 DEF TypeInv, TypeOK
  <2>2. groupOf'[a] = g /\ \A b \in Alerts \ {a} : groupOf'[b] = groupOf[b]
    BY <1>1, <1>2 DEF TypeInv, TypeOK
  <2>3. g # None
    BY <1>1, Constants
  <2>4. Others(j) /\ Forward
    BY <1>1, <1>2, <2>2, <2>3 DEF Others, Forward, Settled, TypeInv, TypeOK
  <2>5. JobOK(j) /\ pc'[j] = "count"
    BY <1>2 DEF TypeInv, TypeOK
  <2>6. JobOK(j)'
    BY <1>1, <1>2, <2>2, <2>3, <2>5 DEF JobOK, Settled
  <2> QED
    BY <1>1, <2>1, <2>2, <2>4, <2>6, OthersStayOK DEF TypeInv
<1>3. CASE /\ orphaned' = orphaned \union {a}
           /\ Continue(j, plan[j])
           /\ UNCHANGED groupOf
  <2>1. Forward
    BY <1>1, <1>3 DEF Forward, Settled
  <2>2. /\ plan[j] \in SUBSET Pair /\ \A y \in plan[j] : y[1] \in inserted
        /\ subject[j] \in Alerts => plan[j] = {} \/ \E y \in Pair : y[1] = subject[j] /\ plan[j] = {y}
    BY <1>1, RestOfPlan
  <2>3. \A i \in Jobs : JobOK(i)'
    BY <1>1, <1>3, <2>1, <2>2, ContinueOK
  <2>4. TypeOK'
    BY <1>1, <1>3, <2>2, ContinueTypes DEF TypeInv, TypeOK, Saved
  <2> QED
    BY <1>1, <1>3, <2>3, <2>4 DEF TypeInv
<1> QED
  BY <1>2, <1>3 DEF Assign

LEMMA TypeCount ==
    ASSUME TypeInv, NEW j \in Jobs, Count(j)
    PROVE  TypeInv'
<1>1. /\ UNCHANGED <<rule, firing, groupOf, groups, inserted, used, orphaned, failures>>
      /\ pc[j] = "count" /\ Continue(j, plan[j])
  BY DEF Count, history
<1>2. /\ plan[j] \in SUBSET Pair /\ \A y \in plan[j] : y[1] \in inserted
      /\ subject[j] \in Alerts => plan[j] = {} \/ \E y \in Pair : y[1] = subject[j] /\ plan[j] = {y}
  BY <1>1, RestOfPlan
<1>3. Forward
  BY <1>1 DEF Forward, Settled
<1>4. \A i \in Jobs : JobOK(i)'
  BY <1>1, <1>2, <1>3, ContinueOK
<1>5. count' \in [Groups -> Nat] /\ severity' \in [Groups -> 1 .. 4]
  <2>1. SeverityOf[current[j][1]] \in 1 .. 4 /\ current[j][2] \in Groups
    BY <1>1, CurrentPair, ConstantsAssumption
  <2> QED
    BY <2>1 DEF Count, Bigger, TypeInv, TypeOK
<1>6. TypeOK'
  BY <1>1, <1>2, <1>5, ContinueTypes DEF TypeInv, TypeOK, Saved
<1> QED
  BY <1>1, <1>4, <1>6 DEF TypeInv

LEMMA JobsUntouched ==
    ASSUME TypeInv, UNCHANGED jobs, Forward
    PROVE  \A i \in Jobs : JobOK(i)'
<1> SUFFICES ASSUME NEW i \in Jobs PROVE JobOK(i)'
  OBVIOUS
<1>1. JobOK(i) /\ UNCHANGED <<pc, subject, plan, current>>
  BY DEF TypeInv, jobs
<1>2. pc[i] \in {"assign", "count"} => current[i][1] \in Alerts
  BY <1>1 DEF JobOK, Pair
<1> QED
  BY <1>1, <1>2 DEF JobOK, Forward

LEMMA TypeDeleteRule ==
    ASSUME TypeInv, NEW r \in Rules, DeleteRule(r)
    PROVE  TypeInv'
<1> DEFINE gone == {g \in groups : g[1] = r}
<1> DEFINE members == {a \in Alerts : groupOf[a] \in gone}
<1>1. /\ rule' = [rule EXCEPT ![r] = None] /\ groups' = groups \ gone
      /\ count' = [g \in Groups |-> IF g \in gone THEN 0 ELSE count[g]]
      /\ severity' = [g \in Groups |-> IF g \in gone THEN 1 ELSE severity[g]]
      /\ groupOf' = [a \in Alerts |-> IF a \in members THEN None ELSE groupOf[a]]
      /\ orphaned' = orphaned \union members
      /\ UNCHANGED <<firing, jobs, inserted, used, failures>>
  BY DEF DeleteRule
<1>2. None \notin gone /\ \A a \in members : groupOf[a] # None
  BY Constants DEF TypeInv, TypeOK
<1>3. \A a \in Alerts : a \notin members => groupOf[a] \in groups' \union {None}
  BY <1>1 DEF TypeInv, TypeOK
<1> HIDE DEF members, gone
<1>4. members \subseteq Alerts
  BY DEF members
<1>5. Forward
  BY <1>1, <1>2, <1>4 DEF Forward, Settled
<1>6. TypeOK'
  BY <1>1, <1>2, <1>3, <1>4 DEF TypeInv, TypeOK, jobs
<1>7. \A a \in Alerts : groupOf'[a] # None => a \in inserted'
  BY <1>1, <1>4 DEF TypeInv
<1> QED
  BY <1>1, <1>5, <1>6, <1>7, JobsUntouched DEF TypeInv

\* Close and stuttering leave the jobs alone.
LEMMA TypeClose ==
    ASSUME TypeInv, (\E a \in Alerts : Close(a)) \/ UNCHANGED vars
    PROVE  TypeInv'
<1>1. /\ UNCHANGED <<rule, groupOf, count, severity, groups, jobs, history, failures>>
      /\ firing' \subseteq firing
  BY DEF Close, vars, tables
<1>2. Forward
  BY <1>1 DEF Forward, Settled, history
<1>3. TypeOK'
  BY <1>1 DEF TypeInv, TypeOK, jobs, history
<1> QED
  BY <1>1, <1>2, <1>3, JobsUntouched DEF TypeInv, history

LEMMA TypeFailures ==
    ASSUME TypeInv, NEW j \in Jobs, StatementFails(j) \/ JobStops(j)
    PROVE  TypeInv'
<1>1. UNCHANGED <<tables, history>> /\ failures' \in 0 .. MaxFailures
  BY ConstantsAssumption DEF StatementFails, JobStops, Failure, TypeInv, TypeOK
<1>2. CASE pc[j] # "idle" /\ Continue(j, {})
  BY <1>1, <1>2, TypeContinues
<1>3. ASSUME pc[j] = "upsert", NEW x \in plan[j], Continue(j, plan[j] \ {x}) PROVE TypeInv'
  BY <1>1, <1>3, RestOfPlan, TypeContinues
<1>4. CASE pc[j] \in {"assign", "count"} /\ Continue(j, plan[j])
  <2> DEFINE rest == plan[j]
  <2>1. /\ rest \in SUBSET Pair /\ \A y \in rest : y[1] \in inserted
        /\ subject[j] \in Alerts => rest = {} \/ \E y \in Pair : y[1] = subject[j] /\ rest = {y}
    BY <1>4, RestOfPlan
  <2>2. Continue(j, rest) /\ pc[j] # "idle"
    BY <1>4
  <2> HIDE DEF rest
  <2> QED
    BY <1>1, <2>1, <2>2, TypeContinues
<1> QED
  BY <1>2, <1>3, <1>4 DEF StatementFails, JobStops

LEMMA TypeStep == TypeInv /\ [Next]_vars => TypeInv'
<1> SUFFICES ASSUME TypeInv, [Next]_vars PROVE TypeInv'
  OBVIOUS
<1>1. ASSUME NEW j \in Jobs, Work(j) PROVE TypeInv'
  BY <1>1, TypeListRules, TypeListAlerts, TypeUpsert, TypeAssign, TypeCount, TypeFailures DEF Work
<1> QED
  BY <1>1, TypeInsert, TypeSaveRule, TypeDeleteRule, TypeClose DEF Next

\* The columns keep to their constraints, and alert_group_id names a group that has a row
\* (migrations 000023 and 000024 of the tenant; alertgroup/store.go).
THEOREM TypeCorrect == Spec => []TypeOK
<1>1. TypeInv => TypeOK
  BY DEF TypeInv
<1> QED
  BY <1>1, TypeInit, TypeStep, PTL DEF Spec

-----------------------------------------------------------------------------
(* Nothing slips through.                                                  *)

\* A job that is not the one at work handles what it handled.
LEMMA OthersHandle ==
    ASSUME NEW j \in Jobs, Others(j), NEW i \in Jobs \ {j}, NEW a \in Alerts, NEW r \in Rules,
           Handles(i, a, r), rule'[r] = rule[r]
    PROVE  Handles(i, a, r)'
BY DEF Others, Handles

(***************************************************************************)
(* A step that writes no rule: it is enough that the job at work goes on   *)
(* handling what it handled, or settles the alert.                         *)
(***************************************************************************)
LEMMA CoverByOne ==
    ASSUME TypeInv, CoverInv, NEW j \in Jobs, Others(j), Forward, UNCHANGED <<rule, failures>>,
           firing' \subseteq firing,
           ASSUME NEW a \in Alerts, NEW r \in Matching(a), Loose(a), ~Settled(a)', Handles(j, a, r)
           PROVE  Handles(j, a, r)'
    PROVE  CoverInv'
<1> SUFFICES ASSUME failures = 0, NEW a \in Alerts, Loose(a)', NEW r \in Matching(a)'
             PROVE  \E i \in Jobs : Handles(i, a, r)'
  BY DEF CoverInv
<1>1. Loose(a) /\ ~Settled(a)' /\ r \in Matching(a) /\ r \in Rules /\ rule'[r] = rule[r]
  BY DEF Loose, Forward, Matching
<1>2. PICK i \in Jobs : Handles(i, a, r)
  BY <1>1 DEF CoverInv
<1>3. CASE i = j
  BY <1>1, <1>2, <1>3
<1>4. CASE i # j
  BY <1>1, <1>2, <1>4, OthersHandle
<1> QED
  BY <1>3, <1>4

LEMMA CoverInit == Init => CoverInv
BY DEF Init, CoverInv, Loose

\* The evaluation of an alert that was just inserted handles it.
LEMMA CoverInsert ==
    ASSUME TypeInv, CoverInv, NEW j \in Jobs, NEW b \in Alerts, Insert(j, b)
    PROVE  CoverInv'
<1>1. /\ Others(j) /\ subject'[j] = b /\ pc[j] = "idle" /\ subject[j] = None /\ plan[j] = {}
      /\ UNCHANGED <<rule, groupOf, orphaned, failures>> /\ firing' = firing \union {b}
  BY DEF Insert, Others, TypeInv, TypeOK, JobOK
<1> SUFFICES ASSUME failures = 0, NEW a \in Alerts, Loose(a)', NEW r \in Matching(a)'
             PROVE  \E i \in Jobs : Handles(i, a, r)'
  BY <1>1 DEF CoverInv
<1>2. CASE a = b
  BY <1>1, <1>2 DEF Handles
<1>3. CASE a # b
  <2>1. Loose(a) /\ r \in Matching(a) /\ r \in Rules /\ rule'[r] = rule[r]
    BY <1>1, <1>3 DEF Loose, Settled, Matching
  <2>2. PICK i \in Jobs : Handles(i, a, r)
    BY <2>1 DEF CoverInv
  <2>3. i # j
    BY <1>1, <2>2, Constants DEF Handles
  <2> QED
    BY <1>1, <2>1, <2>2, <2>3, OthersHandle
<1> QED
  BY <1>2, <1>3

\* The backfill of a rule that was just written handles all alerts.
LEMMA CoverSaveRule ==
    ASSUME TypeInv, CoverInv, NEW j \in Jobs, NEW s \in Rules, NEW c \in Contents, SaveRule(j, s, c)
    PROVE  CoverInv'
<1>1. /\ Others(j) /\ pc[j] = "idle" /\ subject[j] = None
      /\ UNCHANGED <<groupOf, orphaned, failures, firing>>
      /\ rule'[s] = c /\ \A r \in Rules \ {s} : rule'[r] = rule[r]
  BY DEF SaveRule, Others, TypeInv, TypeOK, JobOK
<1>2. c.enabled => pc'[j] = "list_alerts" /\ subject'[j] = [rule |-> s, content |-> c]
  BY DEF SaveRule, TypeInv, TypeOK
<1> SUFFICES ASSUME failures = 0, NEW a \in Alerts, Loose(a)', NEW r \in Matching(a)'
             PROVE  \E i \in Jobs : Handles(i, a, r)'
  BY <1>1 DEF CoverInv
<1>3. CASE r = s
  <2>1. c.enabled
    BY <1>1, <1>3 DEF Matching
  <2> QED
    BY <1>1, <1>2, <1>3, <2>1 DEF Handles, Saved
<1>4. CASE r # s
  <2>1. Loose(a) /\ r \in Rules /\ rule'[r] = rule[r] /\ r \in Matching(a)
    BY <1>1, <1>4 DEF Loose, Settled, Matching
  <2>2. PICK i \in Jobs : Handles(i, a, r)
    BY <2>1 DEF CoverInv
  <2>3. i # j
    BY <1>1, <2>2, Constants DEF Handles, Saved
  <2> QED
    BY <1>1, <2>1, <2>2, <2>3, OthersHandle
<1> QED
  BY <1>3, <1>4

LEMMA LeastExists ==
    ASSUME NEW S, S \subseteq Nat, S # {}
    PROVE  \E n \in S : \A m \in S : n <= m
<1>1. PICK n \in S : \A m \in S : ~ (<<m, n>> \in OpToRel(<, Nat))
  BY WFMin, NatLessThanWellFounded
<1>2. ASSUME NEW m \in Nat, m < n PROVE <<m, n>> \in OpToRel(<, Nat)
  BY <1>2 DEF OpToRel
<1>3. \A m \in S : ~ (m < n)
  BY <1>1, <1>2
<1> QED
  BY <1>3

\* Of some rules that match, one comes first.
LEMMA FirstExists ==
    ASSUME TypeInv, NEW a \in Alerts, Matching(a) # {}
    PROVE  \E r \in Matching(a) : \A q \in Matching(a) : rule[r].position <= rule[q].position
<1> DEFINE S == {rule[r].position : r \in Matching(a)}
<1>1. S \subseteq Nat /\ S # {}
  <2>1. \A r \in Matching(a) : rule[r] \in Contents
    BY DEF Matching, TypeInv, TypeOK
  <2> QED
    BY <2>1, ConstantsAssumption
<1>2. PICK n \in S : \A m \in S : n <= m
  <2> HIDE DEF S
  <2> QED
    BY <1>1, LeastExists
<1> QED
  BY <1>2

\* An evaluation that finds no rule has no rule to handle.
LEMMA CoverListRules ==
    ASSUME TypeInv, CoverInv, NEW j \in Jobs, ListRules(j)
    PROVE  CoverInv'
<1> DEFINE b == subject[j]
<1>1. /\ b \in Alerts /\ UNCHANGED <<rule, firing, groupOf, failures, orphaned, inserted>>
  BY DEF ListRules, TypeInv, JobOK, tables, history
<1>2. Forward
  BY <1>1 DEF Forward, Settled
<1>3. PICK rest \in SUBSET Pair : Continue(j, rest) /\ (rest = {} => Matching(b) = {})
  <2>1. CASE Matching(b) = {}
    BY <2>1 DEF ListRules
  <2>2. CASE Matching(b) # {}
    <3>1. PICK r \in Matching(b) : Continue(j, {<<b, <<r, rule[r].key[b]>>>>})
      BY <1>1, <2>2, FirstExists DEF ListRules
    <3>2. r \in Rules /\ rule[r] \in Contents /\ rule[r].key[b] # NoKey
      BY DEF Matching, TypeInv, TypeOK
    <3>3. rule[r].key[b] \in Keys
      BY <1>1, <3>2, ConstantsAssumption
    <3>4. <<b, <<r, rule[r].key[b]>>>> \in Pair
      BY <1>1, <3>2, <3>3 DEF Pair, Groups
    <3> QED
      BY <3>1, <3>4
  <2> QED
    BY <2>1, <2>2
<1>4. Others(j) /\ subject'[j] = (IF rest = {} THEN None ELSE subject[j])
  BY <1>3, ContinueTypes
<1>5. ASSUME NEW a \in Alerts, NEW r \in Matching(a), Handles(j, a, r) PROVE Handles(j, a, r)'
  <2>1. a = b
    BY <1>1, <1>5, Constants DEF Handles
  <2> QED
    BY <1>3, <1>4, <2>1 DEF Handles
<1> QED
  BY <1>1, <1>2, <1>4, <1>5, CoverByOne

\* A backfill takes every loose alert that its rule, as it was written, matches.
LEMMA CoverListAlerts ==
    ASSUME TypeInv, CoverInv, NEW j \in Jobs, ListAlerts(j)
    PROVE  CoverInv'
<1> DEFINE s == subject[j]
<1> DEFINE taken == {a \in firing : groupOf[a] = None /\ s.content.key[a] # NoKey}
<1> DEFINE rest == {<<a, <<s.rule, s.content.key[a]>>>> : a \in taken}
<1>1. /\ s \in Saved /\ s \notin Alerts /\ pc[j] = "list_alerts" /\ plan[j] = {}
      /\ UNCHANGED <<rule, firing, groupOf, failures, orphaned, inserted>>
  BY Constants DEF ListAlerts, TypeInv, JobOK, tables, history
<1>2. s.rule \in Rules /\ s.content.key \in [Alerts -> Keys \union {NoKey}]
  BY <1>1, ConstantsAssumption DEF Saved
<1>3. \A a \in taken : <<a, <<s.rule, s.content.key[a]>>>> \in Pair
  BY <1>2 DEF Pair, Groups, TypeInv, TypeOK
<1>4. rest \in SUBSET Pair /\ \A a \in taken : \E x \in rest : x[1] = a
  <2>1. ASSUME NEW a \in taken PROVE \E x \in rest : x[1] = a
    <3>1. <<a, <<s.rule, s.content.key[a]>>>> \in rest
      OBVIOUS
    <3> QED
      BY <3>1
  <2> QED
    BY <1>3, <2>1
<1>5. Continue(j, rest)
  BY DEF ListAlerts
<1> HIDE DEF rest
<1>6. /\ Others(j) /\ plan'[j] = rest
      /\ rest # {} => subject'[j] = s
  BY <1>4, <1>5, ContinueTypes
<1>7. Forward
  BY <1>1 DEF Forward, Settled
<1>8. ASSUME NEW a \in Alerts, NEW r \in Matching(a), Loose(a), Handles(j, a, r)
      PROVE  Handles(j, a, r)'
  <2>1. s.rule = r /\ s.content = rule[r]
    BY <1>1, <1>8 DEF Handles
  <2>2. a \in taken
    BY <1>8, <2>1 DEF Loose, Settled, Matching
  <2>3. PICK x \in rest : x[1] = a
    BY <1>4, <2>2
  <2> QED
    BY <1>1, <1>6, <2>1, <2>3 DEF Handles
<1> QED
  BY <1>1, <1>6, <1>7, <1>8, CoverByOne

LEMMA CoverUpsert ==
    ASSUME TypeInv, CoverInv, NEW j \in Jobs, Upsert(j)
    PROVE  CoverInv'
<1>1. PICK x \in plan[j] :
        \/ /\ pc' = [pc EXCEPT ![j] = "assign"]
           /\ plan' = [plan EXCEPT ![j] = @ \ {x}]
           /\ current' = [current EXCEPT ![j] = x]
           /\ UNCHANGED <<subject, orphaned>>
        \/ /\ orphaned' = orphaned \union {x[1]}
           /\ Continue(j, plan[j] \ {x})
  BY DEF Upsert
<1>2. /\ UNCHANGED <<rule, firing, groupOf, inserted, failures>>
      /\ pc[j] = "upsert" /\ JobOK(j) /\ plan[j] \in SUBSET Pair
  BY DEF Upsert, TypeInv, TypeOK
<1>3. Forward
  BY <1>1, <1>2 DEF Forward, Settled, Continue
<1>4. CASE /\ pc' = [pc EXCEPT ![j] = "assign"]
           /\ plan' = [plan EXCEPT ![j] = @ \ {x}]
           /\ current' = [current EXCEPT ![j] = x]
           /\ UNCHANGED <<subject, orphaned>>
  <2>1. /\ Others(j) /\ pc'[j] = "assign" /\ plan'[j] = plan[j] \ {x} /\ current'[j] = x
        /\ subject'[j] = subject[j]
    BY <1>4 DEF Others, TypeInv, TypeOK
  <2>2. ASSUME NEW a \in Alerts, NEW r \in Matching(a), Handles(j, a, r) PROVE Handles(j, a, r)'
    BY <1>2, <2>1, <2>2 DEF Handles
  <2> QED
    BY <1>2, <1>3, <2>1, <2>2, CoverByOne
<1>5. CASE /\ orphaned' = orphaned \union {x[1]}
           /\ Continue(j, plan[j] \ {x})
  <2> DEFINE rest == plan[j] \ {x}
  <2>1. /\ Others(j) /\ plan'[j] = rest
        /\ rest # {} => subject'[j] = subject[j]
    BY <1>2, <1>5, ContinueTypes
  <2>2. ASSUME NEW a \in Alerts, NEW r \in Matching(a), ~Settled(a)', Handles(j, a, r)
        PROVE  Handles(j, a, r)'
    <3>1. a # x[1]
      BY <1>5, <2>2 DEF Settled
    <3>2. subject[j] # a
      BY <1>2, <3>1 DEF JobOK
    <3> QED
      BY <1>2, <2>1, <2>2, <3>1, <3>2 DEF Handles
  <2> QED
    BY <1>2, <1>3, <2>1, <2>2, CoverByOne
<1> QED
  BY <1>1, <1>4, <1>5

LEMMA CoverAssign ==
    ASSUME TypeInv, CoverInv, NEW j \in Jobs, Assign(j)
    PROVE  CoverInv'
<1>1. PICK b \in Alerts, g \in Groups :
        /\ b = current[j][1] /\ g = current[j][2]
        /\ \/ groupOf' = [groupOf EXCEPT ![b] = g] /\ UNCHANGED orphaned
           \/ orphaned' = orphaned \union {b} /\ UNCHANGED groupOf
  BY CurrentPair DEF Assign
<1>2. /\ UNCHANGED <<rule, firing, inserted, failures>>
      /\ pc[j] = "assign" /\ JobOK(j) /\ plan[j] \in SUBSET Pair
  BY DEF Assign, TypeInv, TypeOK
<1>3. Settled(b)' /\ Forward
  BY <1>1, <1>2, Constants DEF Settled, Forward, TypeInv, TypeOK
<1>4. Others(j) /\ plan'[j] = plan[j] /\ (plan[j] # {} => subject'[j] = subject[j])
  <2>1. CASE Continue(j, plan[j])
    BY <1>2, <2>1, ContinueTypes
  <2>2. CASE pc' = [pc EXCEPT ![j] = "count"] /\ UNCHANGED <<subject, plan, current>>
    BY <2>2 DEF Others, TypeInv, TypeOK
  <2> QED
    BY <2>1, <2>2 DEF Assign
<1>5. ASSUME NEW a \in Alerts, NEW r \in Matching(a), ~Settled(a)', Handles(j, a, r)
      PROVE  Handles(j, a, r)'
  <2>1. a # b
    BY <1>3, <1>5
  <2>2. subject[j] # a
    BY <1>1, <1>2, <2>1 DEF JobOK
  <2> QED
    BY <1>1, <1>2, <1>4, <1>5, <2>1, <2>2 DEF Handles
<1> QED
  BY <1>2, <1>3, <1>4, <1>5, CoverByOne

LEMMA CoverCount ==
    ASSUME TypeInv, CoverInv, NEW j \in Jobs, Count(j)
    PROVE  CoverInv'
<1>1. /\ UNCHANGED <<rule, firing, groupOf, inserted, orphaned, failures>>
      /\ pc[j] = "count" /\ JobOK(j) /\ Continue(j, plan[j]) /\ plan[j] \in SUBSET Pair
  BY DEF Count, history, TypeInv, TypeOK
<1>2. Forward
  BY <1>1 DEF Forward, Settled
<1>3. Others(j) /\ plan'[j] = plan[j] /\ (plan[j] # {} => subject'[j] = subject[j])
  BY <1>1, ContinueTypes
<1>4. ASSUME NEW a \in Alerts, NEW r \in Matching(a), Loose(a), Handles(j, a, r)
      PROVE  Handles(j, a, r)'
  <2>1. subject[j] # a
    BY <1>1, <1>4 DEF JobOK, Loose
  <2> QED
    BY <1>1, <1>3, <1>4, <2>1 DEF Handles
<1> QED
  BY <1>1, <1>2, <1>3, <1>4, CoverByOne

LEMMA CoverFailures ==
    ASSUME TypeInv, NEW j \in Jobs, StatementFails(j) \/ JobStops(j)
    PROVE  CoverInv'
<1>1. failures' # 0
  BY ConstantsAssumption DEF StatementFails, JobStops, Failure, TypeInv, TypeOK
<1> QED
  BY <1>1 DEF CoverInv

\* The deletion of a rule takes its groups from their alerts, which are not loose then.
LEMMA CoverDeleteRule ==
    ASSUME TypeInv, CoverInv, NEW s \in Rules, DeleteRule(s)
    PROVE  CoverInv'
<1>1. /\ rule'[s] = None /\ \A r \in Rules \ {s} : rule'[r] = rule[r]
      /\ UNCHANGED <<pc, subject, plan, current, firing, failures>>
  BY DEF DeleteRule, jobs, TypeInv, TypeOK
<1>2. \A a \in Alerts : Settled(a) => Settled(a)'
  <2>1. None \notin groups
    BY Constants DEF TypeInv, TypeOK
  <2> QED
    BY <2>1 DEF DeleteRule, Settled
<1> SUFFICES ASSUME failures = 0, NEW a \in Alerts, Loose(a)', NEW r \in Matching(a)'
             PROVE  \E i \in Jobs : Handles(i, a, r)'
  BY <1>1 DEF CoverInv
<1>3. Loose(a) /\ r \in Matching(a) /\ rule'[r] = rule[r]
  BY <1>1, <1>2 DEF Loose, Matching
<1> QED
  BY <1>1, <1>3 DEF CoverInv, Handles

LEMMA CoverClose ==
    ASSUME TypeInv, CoverInv, (\E a \in Alerts : Close(a)) \/ UNCHANGED vars
    PROVE  CoverInv'
<1>1. /\ UNCHANGED <<rule, groupOf, pc, subject, plan, current, orphaned, failures>>
      /\ firing' \subseteq firing
  BY DEF Close, vars, tables, jobs, history
<1> QED
  BY <1>1 DEF CoverInv, Loose, Settled, Matching, Handles

LEMMA CoverStep == TypeInv /\ CoverInv /\ [Next]_vars => CoverInv'
<1> SUFFICES ASSUME TypeInv, CoverInv, [Next]_vars PROVE CoverInv'
  OBVIOUS
<1>1. ASSUME NEW j \in Jobs, Work(j) PROVE CoverInv'
  BY <1>1, CoverListRules, CoverListAlerts, CoverUpsert, CoverAssign, CoverCount, CoverFailures DEF Work
<1> QED
  BY <1>1, CoverInsert, CoverSaveRule, CoverDeleteRule, CoverClose DEF Next

\* Of an alert and a rule that are written at the same time one finds the other, however many
\* evaluations and backfills run (alertgroup/evaluator.go:28, 91, BackfillRule).
THEOREM NothingSlipsThroughCorrect == Spec => []NothingSlipsThrough
<1>1. TypeInv /\ CoverInv => NothingSlipsThrough
  <2> SUFFICES ASSUME TypeInv, CoverInv, failures = 0, NEW a \in firing \ orphaned,
                      groupOf[a] = None, Evaluating(a) = {}, NEW r \in Matching(a)
               PROVE  Backfilling(r) # {}
    BY DEF NothingSlipsThrough
  <2>1. a \in Alerts /\ Loose(a)
    BY DEF Loose, Settled, TypeInv, TypeOK
  <2>2. PICK j \in Jobs : Handles(j, a, r)
    BY <2>1 DEF CoverInv
  <2>3. subject[j] # a
    BY DEF Evaluating
  <2>4. subject[j] \in Saved /\ subject[j].rule = r
    BY <2>2, <2>3 DEF Handles
  <2>5. subject[j] \notin Alerts /\ pc[j] # "idle"
    BY <2>4, Constants DEF TypeInv, JobOK
  <2> QED
    BY <2>4, <2>5 DEF Backfilling
<1> QED
  BY <1>1, TypeInit, TypeStep, CoverInit, CoverStep, PTL DEF Spec

-----------------------------------------------------------------------------
(* The counters of the groups.                                             *)

Covered(g) ==
    /\ Cardinality(Members(g)) <= count[g] + Cardinality(Uncounted(g)) + failures
    /\ failures = 0 =>
         \A a \in Members(g) :
             \/ SeverityOf[a] <= severity[g]
             \/ \E j \in Uncounted(g) : current[j][1] = a

LEMMA Countable ==
    /\ \A g : IsFiniteSet(Members(g)) /\ Cardinality(Members(g)) \in Nat
    /\ \A g : IsFiniteSet(Uncounted(g)) /\ Cardinality(Uncounted(g)) \in Nat
<1>1. \A g : Members(g) \subseteq Alerts /\ Uncounted(g) \subseteq Jobs
  BY DEF Members, Uncounted
<1> QED
  BY <1>1, FiniteAssumption, FS_Subset, FS_CardinalityType

LEMMA CountableNext ==
    /\ \A g : IsFiniteSet(Members(g)') /\ Cardinality(Members(g)') \in Nat
    /\ \A g : IsFiniteSet(Uncounted(g)') /\ Cardinality(Uncounted(g)') \in Nat
<1>1. \A g : Members(g)' \subseteq Alerts /\ Uncounted(g)' \subseteq Jobs
  BY DEF Members, Uncounted
<1> QED
  BY <1>1, FiniteAssumption, FS_Subset, FS_CardinalityType

LEMMA NoMore ==
    ASSUME NEW T, IsFiniteSet(T), NEW S \in SUBSET T
    PROVE  Cardinality(S) <= Cardinality(T)
BY FS_Subset

LEMMA OneMore ==
    ASSUME NEW S, IsFiniteSet(S), NEW x
    PROVE  /\ IsFiniteSet(S \union {x}) /\ Cardinality(S) \in Nat
           /\ Cardinality(S \union {x}) <= Cardinality(S) + 1
           /\ x \notin S => Cardinality(S \union {x}) = Cardinality(S) + 1
<1>1. Cardinality(S) \in Nat
  BY FS_CardinalityType
<1>2. /\ IsFiniteSet(S \union {x})
      /\ Cardinality(S \union {x}) = IF x \in S THEN Cardinality(S) ELSE Cardinality(S) + 1
  BY FS_AddElement
<1> QED
  BY <1>1, <1>2

\* A step that counts and assigns nothing in g, and at which nothing fails.
LEMMA CoveredStays ==
    ASSUME TypeInv, NEW g \in Groups, Covered(g),
           Members(g)' \subseteq Members(g), Uncounted(g) \subseteq Uncounted(g)',
           count'[g] = count[g], severity'[g] = severity[g], failures' = failures,
           \A j \in Uncounted(g) : current'[j] = current[j]
    PROVE  Covered(g)'
<1>1. Cardinality(Members(g)') <= Cardinality(Members(g))
  BY Countable, NoMore
<1>2. Cardinality(Uncounted(g)) <= Cardinality(Uncounted(g)')
  BY CountableNext, NoMore
<1>3. count[g] \in Nat /\ failures \in Nat
  BY ConstantsAssumption DEF TypeInv, TypeOK
<1>4. Cardinality(Members(g)') <= count'[g] + Cardinality(Uncounted(g)') + failures'
  BY <1>1, <1>2, <1>3, Countable, CountableNext DEF Covered
<1> QED
  BY <1>4 DEF Covered

LEMMA CoveredFailures ==
    ASSUME TypeInv, NEW g \in Groups, Covered(g), NEW j \in Jobs,
           StatementFails(j) \/ JobStops(j)
    PROVE  Covered(g)'
<1>1. UNCHANGED tables /\ failures' = failures + 1 /\ failures \in Nat /\ count[g] \in Nat
  BY ConstantsAssumption DEF StatementFails, JobStops, Failure, TypeInv, TypeOK
<1>2. \E rest : Continue(j, rest)
  BY DEF StatementFails, JobStops
<1>3. \A i \in Jobs \ {j} : pc'[i] = pc[i] /\ current'[i] = current[i]
  BY <1>2 DEF Continue, TypeInv, TypeOK
<1>4. Members(g)' = Members(g) /\ Uncounted(g) \subseteq Uncounted(g)' \union {j}
  BY <1>1, <1>3 DEF Members, Uncounted, tables
<1>5. Cardinality(Uncounted(g)) <= Cardinality(Uncounted(g)') + 1
  <2>1. /\ IsFiniteSet(Uncounted(g)' \union {j})
        /\ Cardinality(Uncounted(g)' \union {j}) <= Cardinality(Uncounted(g)') + 1
    BY CountableNext, OneMore
  <2>2. Cardinality(Uncounted(g)) <= Cardinality(Uncounted(g)' \union {j})
    BY <1>4, <2>1, NoMore
  <2>3. Cardinality(Uncounted(g)' \union {j}) \in Nat
    BY <2>1, FS_CardinalityType
  <2> QED
    BY <2>1, <2>2, <2>3, Countable, CountableNext
<1>6. Cardinality(Members(g)') <= count'[g] + Cardinality(Uncounted(g)') + failures'
  BY <1>1, <1>4, <1>5, Countable, CountableNext DEF Covered, tables
<1>7. failures' # 0
  BY <1>1
<1> QED
  BY <1>6, <1>7 DEF Covered

LEMMA CoveredAssign ==
    ASSUME TypeInv, NEW g \in groups, Covered(g), NEW j \in Jobs, Assign(j)
    PROVE  Covered(g)'
<1> DEFINE a == current[j][1]
<1>1. /\ UNCHANGED <<count, severity, groups, failures>>
      /\ pc[j] = "assign" /\ current[j] \in Pair /\ a \in Alerts /\ g \in Groups
      /\ count[g] \in Nat /\ failures \in Nat
  BY CurrentPair, ConstantsAssumption DEF Assign, TypeInv, TypeOK
<1>2. \A i \in Jobs \ {j} : pc'[i] = pc[i] /\ current'[i] = current[i]
  BY DEF Assign, Continue, TypeInv, TypeOK
<1>3. j \notin Uncounted(g)
  BY <1>1 DEF Uncounted
<1>4. Uncounted(g) \subseteq Uncounted(g)' /\ \A i \in Uncounted(g) : current'[i] = current[i]
  BY <1>2, <1>3 DEF Uncounted
<1>5. CASE g # current[j][2] \/ UNCHANGED groupOf
  <2>1. Members(g)' \subseteq Members(g)
    BY <1>1, <1>5 DEF Assign, Members, TypeInv, TypeOK
  <2> QED
    BY <1>1, <1>4, <2>1, CoveredStays
<1>6. CASE g = current[j][2] /\ groupOf' # groupOf
  <2>1. /\ groupOf' = [groupOf EXCEPT ![a] = g] /\ pc' = [pc EXCEPT ![j] = "count"]
        /\ UNCHANGED current
    BY <1>6 DEF Assign
  <2>2. Members(g)' \subseteq Members(g) \union {a}
    BY <1>1, <2>1 DEF Members, TypeInv, TypeOK
  <2>3. Uncounted(g)' = Uncounted(g) \union {j} /\ j \in Uncounted(g)'
    BY <1>6, <2>1 DEF Uncounted, TypeInv, TypeOK
  <2>4. Cardinality(Members(g)') <= Cardinality(Members(g)) + 1
    <3>1. /\ IsFiniteSet(Members(g) \union {a})
          /\ Cardinality(Members(g) \union {a}) <= Cardinality(Members(g)) + 1
      BY Countable, OneMore
    <3>2. Cardinality(Members(g)') <= Cardinality(Members(g) \union {a})
      BY <2>2, <3>1, NoMore
    <3>3. Cardinality(Members(g) \union {a}) \in Nat
      BY <3>1, FS_CardinalityType
    <3> QED
      BY <3>1, <3>2, <3>3, Countable, CountableNext
  <2>5. Cardinality(Uncounted(g)') = Cardinality(Uncounted(g)) + 1
    BY <1>3, <2>3, Countable, OneMore
  <2>6. Cardinality(Members(g)') <= count'[g] + Cardinality(Uncounted(g)') + failures'
    BY <1>1, <2>4, <2>5, Countable, CountableNext DEF Covered
  <2>7. ASSUME failures' = 0, NEW b \in Members(g)'
        PROVE  \/ SeverityOf[b] <= severity'[g]
               \/ \E i \in Uncounted(g)' : current'[i][1] = b
    <3>1. CASE b = a
      BY <2>1, <2>3, <3>1
    <3>2. CASE b # a
      BY <1>1, <1>4, <2>2, <2>7, <3>2 DEF Covered
    <3> QED
      BY <3>1, <3>2
  <2> QED
    BY <2>6, <2>7 DEF Covered
<1> QED
  BY <1>5, <1>6

LEMMA CoveredCount ==
    ASSUME TypeInv, NEW g \in groups, Covered(g), NEW j \in Jobs, Count(j)
    PROVE  Covered(g)'
<1> DEFINE a == current[j][1]
<1>1. /\ UNCHANGED <<groupOf, groups, failures>>
      /\ pc[j] = "count" /\ a \in Alerts /\ g \in Groups /\ current[j][2] \in Groups
      /\ count[g] \in Nat /\ failures \in Nat /\ severity[g] \in Nat
      /\ SeverityOf \in [Alerts -> Nat]
  BY CurrentPair, ConstantsAssumption DEF Count, TypeInv, TypeOK
<1>2. \A i \in Jobs \ {j} : pc'[i] = pc[i] /\ current'[i] = current[i]
  BY DEF Count, Continue, TypeInv, TypeOK
<1>3. Members(g)' = Members(g)
  BY <1>1 DEF Members
<1>4. CASE g # current[j][2]
  <2>1. /\ Uncounted(g) \subseteq Uncounted(g)'
        /\ \A i \in Uncounted(g) : current'[i] = current[i]
    BY <1>2, <1>4 DEF Uncounted
  <2>2. count'[g] = count[g] /\ severity'[g] = severity[g]
    BY <1>1, <1>4 DEF Count, TypeInv, TypeOK
  <2> QED
    BY <1>1, <1>3, <2>1, <2>2, CoveredStays
<1>5. CASE g = current[j][2]
  <2>1. /\ count'[g] = count[g] + 1 /\ severity'[g] = Bigger(severity[g], SeverityOf[a])
    BY <1>1, <1>5 DEF Count, TypeInv, TypeOK
  <2>2. SeverityOf[a] <= severity'[g] /\ severity[g] <= severity'[g] /\ severity'[g] \in Nat
    BY <1>1, <2>1 DEF Bigger
  <2>3. Uncounted(g) \subseteq Uncounted(g)' \union {j}
    BY <1>2 DEF Uncounted
  <2>4. Cardinality(Uncounted(g)) <= Cardinality(Uncounted(g)') + 1
    <3>1. /\ IsFiniteSet(Uncounted(g)' \union {j})
          /\ Cardinality(Uncounted(g)' \union {j}) <= Cardinality(Uncounted(g)') + 1
      BY CountableNext, OneMore
    <3>2. Cardinality(Uncounted(g)) <= Cardinality(Uncounted(g)' \union {j})
      BY <2>3, <3>1, NoMore
    <3>3. Cardinality(Uncounted(g)' \union {j}) \in Nat
      BY <3>1, FS_CardinalityType
    <3> QED
      BY <3>1, <3>2, <3>3, Countable, CountableNext
  <2>5. Cardinality(Members(g)') <= count'[g] + Cardinality(Uncounted(g)') + failures'
    BY <1>1, <1>3, <2>1, <2>4, Countable, CountableNext DEF Covered
  <2>6. ASSUME failures' = 0, NEW b \in Members(g)'
        PROVE  \/ SeverityOf[b] <= severity'[g]
               \/ \E i \in Uncounted(g)' : current'[i][1] = b
    <3>1. CASE b = a
      BY <2>2, <3>1
    <3>2. CASE SeverityOf[b] <= severity[g]
      <4>1. SeverityOf[b] \in Nat
        BY <1>1, <2>6 DEF Members
      <4> QED
        BY <1>1, <2>2, <3>2, <4>1
    <3>3. ASSUME b # a, NEW i \in Uncounted(g), current[i][1] = b
          PROVE  \E k \in Uncounted(g)' : current'[k][1] = b
      BY <1>2, <2>3, <3>3 DEF Uncounted
    <3> QED
      BY <1>1, <1>3, <2>6, <3>1, <3>2, <3>3 DEF Covered
  <2> QED
    BY <2>5, <2>6 DEF Covered
<1> QED
  BY <1>4, <1>5

\* A group that has just been created has no members yet.
LEMMA CoveredUpsert ==
    ASSUME TypeInv, CountersCoverMembers, NEW j \in Jobs, Upsert(j), NEW g \in groups'
    PROVE  Covered(g)'
<1>1. UNCHANGED <<groupOf, count, severity, failures>> /\ pc[j] = "upsert" /\ TypeInv'
  BY TypeUpsert DEF Upsert
<1>2. g \in Groups
  BY <1>1 DEF TypeInv, TypeOK
<1>3. \A i \in Jobs \ {j} : pc'[i] = pc[i] /\ current'[i] = current[i]
  BY DEF Upsert, Continue, TypeInv, TypeOK
<1>4. CASE g \in groups
  <2>1. Members(g)' = Members(g)
    BY <1>1 DEF Members
  <2>2. /\ Uncounted(g) \subseteq Uncounted(g)'
        /\ \A i \in Uncounted(g) : current'[i] = current[i]
    BY <1>1, <1>3 DEF Uncounted
  <2>3. Covered(g)
    BY <1>4 DEF CountersCoverMembers, Covered
  <2> QED
    BY <1>1, <1>2, <2>1, <2>2, <2>3, CoveredStays
<1>5. CASE g \notin groups
  <2>1. Members(g)' = {}
    BY <1>1, <1>2, <1>5, Constants DEF Members, TypeInv, TypeOK
  <2>2. Cardinality(Members(g)') = 0
    BY <2>1, FS_EmptySet
  <2>3. count'[g] \in Nat /\ failures' \in Nat
    BY <1>1, <1>2, ConstantsAssumption DEF TypeInv, TypeOK
  <2> QED
    BY <2>1, <2>2, <2>3, CountableNext DEF Covered
<1> QED
  BY <1>4, <1>5

LEMMA CoveredDeleteRule ==
    ASSUME TypeInv, CountersCoverMembers, NEW r \in Rules, DeleteRule(r), NEW g \in groups'
    PROVE  Covered(g)'
<1>1. g \in groups /\ g \in Groups /\ g \notin {x \in groups : x[1] = r}
  BY DEF DeleteRule, TypeInv, TypeOK
<1>2. count'[g] = count[g] /\ severity'[g] = severity[g] /\ UNCHANGED <<pc, current, failures>>
  BY <1>1 DEF DeleteRule, jobs
<1>3. Members(g)' \subseteq Members(g)
  BY <1>1, Constants DEF DeleteRule, Members
<1>4. Uncounted(g)' = Uncounted(g)
  BY <1>2 DEF Uncounted
<1>5. Covered(g)
  BY <1>1 DEF CountersCoverMembers, Covered
<1> QED
  BY <1>1, <1>2, <1>3, <1>4, <1>5, CoveredStays

\* The steps that touch neither groups nor members, and count nothing.
LEMMA CoveredElsewhere ==
    ASSUME TypeInv, CountersCoverMembers, NEW g \in groups',
           UNCHANGED <<groupOf, count, severity, groups, failures>>,
           \A j \in Jobs : pc[j] = "count" => pc'[j] = pc[j] /\ current'[j] = current[j]
    PROVE  Covered(g)'
<1>1. g \in Groups /\ Covered(g)
  BY DEF TypeInv, TypeOK, CountersCoverMembers, Covered
<1>2. Members(g)' = Members(g)
  BY DEF Members
<1>3. Uncounted(g) \subseteq Uncounted(g)' /\ \A j \in Uncounted(g) : current'[j] = current[j]
  BY DEF Uncounted
<1> QED
  BY <1>1, <1>2, <1>3, CoveredStays

LEMMA CoveredInit == Init => CountersCoverMembers
BY DEF Init, CountersCoverMembers

LEMMA CoveredStep == TypeInv /\ CountersCoverMembers /\ [Next]_vars => CountersCoverMembers'
<1> SUFFICES ASSUME TypeInv, CountersCoverMembers, [Next]_vars, NEW g \in groups'
             PROVE  Covered(g)'
  BY DEF CountersCoverMembers, Covered
<1>0. g \in groups => g \in Groups /\ Covered(g)
  BY DEF TypeInv, TypeOK, CountersCoverMembers, Covered
<1>1. ASSUME NEW j \in Jobs, NEW a \in Alerts, Insert(j, a) PROVE Covered(g)'
  BY <1>1, CoveredElsewhere DEF Insert, TypeInv, TypeOK
<1>2. ASSUME NEW j \in Jobs, NEW r \in Rules, NEW c \in Contents, SaveRule(j, r, c)
      PROVE  Covered(g)'
  BY <1>2, CoveredElsewhere DEF SaveRule, TypeInv, TypeOK
<1>3. ASSUME NEW j \in Jobs, ListRules(j) \/ ListAlerts(j) PROVE Covered(g)'
  <2>1. UNCHANGED <<groupOf, count, severity, groups, failures>> /\ pc[j] # "count"
    BY <1>3 DEF ListRules, ListAlerts, tables
  <2>2. \E rest : Continue(j, rest)
    BY <1>3 DEF ListRules, ListAlerts
  <2>3. \A i \in Jobs \ {j} : pc'[i] = pc[i] /\ current'[i] = current[i]
    BY <2>2 DEF Continue, TypeInv, TypeOK
  <2> QED
    BY <2>1, <2>3, CoveredElsewhere
<1>4. ASSUME NEW j \in Jobs, Upsert(j) PROVE Covered(g)'
  BY <1>4, CoveredUpsert
<1>5. ASSUME NEW j \in Jobs, Assign(j) PROVE Covered(g)'
  <2>1. groups' = groups
    BY <1>5 DEF Assign
  <2> QED
    BY <1>0, <1>5, <2>1, CoveredAssign
<1>6. ASSUME NEW j \in Jobs, Count(j) PROVE Covered(g)'
  <2>1. groups' = groups
    BY <1>6 DEF Count
  <2> QED
    BY <1>0, <1>6, <2>1, CoveredCount
<1>7. ASSUME NEW j \in Jobs, StatementFails(j) \/ JobStops(j) PROVE Covered(g)'
  <2>1. groups' = groups
    BY <1>7 DEF StatementFails, JobStops, tables
  <2> QED
    BY <1>0, <1>7, <2>1, CoveredFailures
<1>8. ASSUME NEW r \in Rules, DeleteRule(r) PROVE Covered(g)'
  BY <1>8, CoveredDeleteRule
<1>9. ASSUME (\E a \in Alerts : Close(a)) \/ UNCHANGED vars PROVE Covered(g)'
  <2>1. UNCHANGED <<groupOf, count, severity, groups, failures, pc, current>>
    BY <1>9 DEF Close, vars, tables, jobs
  <2> QED
    BY <2>1, CoveredElsewhere
<1> QED
  BY <1>1, <1>2, <1>3, <1>4, <1>5, <1>6, <1>7, <1>8, <1>9 DEF Next, Work

\* However evaluations and backfills overlap, alert_count and max_severity of a group cover its
\* members, but for assignments under way or interrupted (alertgroup/store.go,
\* AssignAlertToGroup).
THEOREM CountersCoverMembersCorrect == Spec => []CountersCoverMembers
BY TypeInit, TypeStep, CoveredInit, CoveredStep, PTL DEF Spec
=============================================================================
