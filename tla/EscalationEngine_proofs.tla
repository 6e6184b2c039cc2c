----------------------- MODULE EscalationEngine_proofs -----------------------
(***************************************************************************)
(* Proofs about EscalationEngine, for any number of alerts, policies,      *)
(* failures and, as long as it is finite, workers.                         *)
(***************************************************************************)
EXTENDS EscalationEngine, FiniteSetTheorems, WellFoundedInduction, TLAPS

-----------------------------------------------------------------------------
(* The choice of a tier.                                                   *)

LEMMA LeastIndex ==
    ASSUME NEW S, S \subseteq Nat, S # {}
    PROVE  \E i \in S : \A j \in S : i <= j
<1>1. PICK i \in S : \A j \in S : ~ (<<j, i>> \in OpToRel(<, Nat))
  BY WFMin, NatLessThanWellFounded
<1>2. ASSUME NEW j \in Nat, j < i PROVE <<j, i>> \in OpToRel(<, Nat)
  BY <1>2 DEF OpToRel
<1>3. \A j \in S : ~ (j < i)
  BY <1>1, <1>2
<1> QED
  BY <1>3

LEMMA NextIndexIsATier ==
    ASSUME NEW p \in Policies, NEW current \in Nat, NextIndex(p, current) # 0
    PROVE  NextIndex(p, current) \in DOMAIN p.tiers /\ p.tiers[NextIndex(p, current)].tier \in Nat
<1> DEFINE i == NextIndex(p, current)
<1>1. p.tiers \in Seq(Tiers)
  BY ConstantsAssumption
<1>2. i \in DOMAIN p.tiers
  <2>1. CASE Higher(p.tiers, current) # {}
    <3>1. Higher(p.tiers, current) \subseteq Nat
      BY <1>1 DEF Higher
    <3>2. FirstHigher(p.tiers, current) \in Higher(p.tiers, current)
      BY <2>1, <3>1, LeastIndex DEF FirstHigher
    <3> QED
      BY <2>1, <3>2 DEF NextIndex, Higher
  <2>2. CASE Higher(p.tiers, current) = {}
    BY <1>1, <2>2 DEF NextIndex
  <2> QED
    BY <2>1, <2>2
<1>3. p.tiers[i] \in Tiers
  BY <1>1, <1>2
<1> QED
  BY <1>2, <1>3 DEF Tiers

\* What reading the policy can do.
LEMMA ReadPolicyCases ==
    ASSUME TypeOK, NEW w \in Workers, ReadPolicy(w)
    PROVE  \E x \in todo[w] :
             /\ todo' = [todo EXCEPT ![w] = @ \ {x}]
             /\ \/ UNCHANGED <<chosen, step>>
                \/ /\ step' = [step EXCEPT ![w] = "tier"]
                   /\ \E y \in Row : y.alert = x.alert /\ chosen' = [chosen EXCEPT ![w] = y]
<1>1. PICK x \in Oldest(todo[w]) :
         /\ todo' = [todo EXCEPT ![w] = @ \ {x}]
         /\ LET i == NextIndex(policy, x.tier) IN
              IF Due(x.alert, i)
                THEN /\ chosen' = [chosen EXCEPT ![w] = [x EXCEPT !.tier = policy.tiers[i].tier]]
                     /\ step' = [step EXCEPT ![w] = "tier"]
                ELSE UNCHANGED <<chosen, step>>
  BY DEF ReadPolicy
<1>2. x \in todo[w] /\ x.tier \in Nat
  BY <1>1 DEF Oldest, TypeOK, Row
<1>3. Due(x.alert, NextIndex(policy, x.tier)) => policy.tiers[NextIndex(policy, x.tier)].tier \in Nat
  BY <1>2, NextIndexIsATier DEF Due, TypeOK
<1>4. x \in Row
  BY <1>2 DEF TypeOK
<1>5. \A t \in Nat : [x EXCEPT !.tier = t] \in Row /\ [x EXCEPT !.tier = t].alert = x.alert
  BY <1>4 DEF Row
<1> QED
  BY <1>1, <1>2, <1>3, <1>5

-----------------------------------------------------------------------------
LEMMA RowsAreNotNoRow == NoRow \notin Row
BY DEF NoRow, Row

LEMMA ChosenIsRow ==
    ASSUME TypeOK, NEW w \in Workers, step[w] \in {"tier", "event", "publish"}
    PROVE  chosen[w] \in Row /\ chosen[w].alert \in Alerts /\ chosen[w].tier \in Nat
<1>1. chosen[w] \in Row
  BY DEF TypeOK
<1> QED
  BY <1>1 DEF Row

\* The two statements that use what the worker chose.
LEMMA TypeUpdateTier ==
    ASSUME TypeOK, NEW w \in Workers, UpdateTier(w)
    PROVE  TypeOK'
<1>1. chosen[w] \in Row /\ chosen[w].alert \in Alerts /\ chosen[w].tier \in Nat
  BY ChosenIsRow DEF UpdateTier
<1>2. tier' \in [Alerts -> Nat]
  BY <1>1 DEF TypeOK, UpdateTier
<1>3. bumps' \in [Alerts -> Nat]
  BY <1>1 DEF TypeOK, UpdateTier
<1>4. late' \in [Alerts -> SUBSET Workers]
  BY <1>1 DEF TypeOK, UpdateTier
<1>5. step' \in [Workers -> {"idle", "policy", "tier", "event", "publish"}]
  BY DEF TypeOK, UpdateTier
<1>6. \A v \in Workers : step'[v] \in {"tier", "event", "publish"} => chosen'[v] # NoRow
  BY <1>1, RowsAreNotNoRow DEF TypeOK, UpdateTier
<1>7. UNCHANGED <<status, age, policy, events, todo, chosen, failures>>
  BY DEF UpdateTier
<1> QED
  BY <1>2, <1>3, <1>4, <1>5, <1>6, <1>7 DEF TypeOK

LEMMA TypeCreateEvent ==
    ASSUME TypeOK, NEW w \in Workers, CreateEvent(w)
    PROVE  TypeOK'
<1>1. chosen[w] \in Row /\ chosen[w].alert \in Alerts
  BY ChosenIsRow DEF CreateEvent
<1>2. events' \in [Alerts -> Nat]
  BY <1>1 DEF TypeOK, CreateEvent
<1>3. step' \in [Workers -> {"idle", "policy", "tier", "event", "publish"}]
  BY DEF TypeOK, CreateEvent
<1>4. \A v \in Workers : step'[v] \in {"tier", "event", "publish"} => chosen'[v] # NoRow
  BY <1>1, RowsAreNotNoRow DEF TypeOK, CreateEvent
<1>5. UNCHANGED <<status, tier, age, policy, todo, chosen, bumps, late, failures>>
  BY DEF CreateEvent, history
<1> QED
  BY <1>2, <1>3, <1>4, <1>5 DEF TypeOK

\* An alert that comes or stops changes its status alone.
LEMMA TypeStatus ==
    ASSUME TypeOK, NEW a \in Alerts, Raise(a) \/ \E s \in {"acknowledged", "resolved"} : Stop(a, s)
    PROVE  TypeOK'
<1>1. PICK s \in {"firing", "acknowledged", "resolved"} : status' = [status EXCEPT ![a] = s]
  BY DEF Raise, Stop
<1>2. status' \in [Alerts -> {"absent", "firing", "acknowledged", "resolved"}]
  BY <1>1 DEF TypeOK
<1>3. UNCHANGED <<tier, age, policy, events, failures>> /\ UNCHANGED <<step, todo, chosen, bumps, late>>
  BY DEF Raise, Stop, engine, history
<1>4. /\ tier' \in [Alerts -> Nat] /\ age' \in [Alerts -> 0..MaxAge] /\ policy' \in Policies
      /\ events' \in [Alerts -> Nat] /\ failures' \in 0..MaxFailures
  BY <1>3 DEF TypeOK
<1>5. /\ step' \in [Workers -> {"idle", "policy", "tier", "event", "publish"}]
      /\ todo' \in [Workers -> SUBSET Row] /\ chosen' \in [Workers -> Row \union {NoRow}]
      /\ bumps' \in [Alerts -> Nat] /\ late' \in [Alerts -> SUBSET Workers]
      /\ \A w \in Workers : step'[w] \in {"tier", "event", "publish"} => chosen'[w] # NoRow
  BY <1>3 DEF TypeOK
<1> QED
  BY <1>2, <1>4, <1>5 DEF TypeOK

LEMMA TypeInit == Init => TypeOK
<1> SUFFICES ASSUME Init PROVE TypeOK
  OBVIOUS
<1>1. age \in [Alerts -> 0..MaxAge] /\ failures \in 0..MaxFailures
  BY ConstantsAssumption DEF Init
<1> QED
  BY <1>1 DEF Init, TypeOK

LEMMA TypeStep == TypeOK /\ [Next]_vars => TypeOK'
<1> SUFFICES ASSUME TypeOK, [Next]_vars PROVE TypeOK'
  OBVIOUS
<1> USE ConstantsAssumption, RowsAreNotNoRow
    DEF TypeOK, db, engine, history, NextAlert, Failure
<1>1. ASSUME NEW w \in Workers, List(w) PROVE TypeOK'
  BY <1>1, SMTT(30) DEF List, Pending, Row
<1>2. ASSUME NEW w \in Workers, EndTick(w) PROVE TypeOK'
  BY <1>2 DEF EndTick
<1>3. ASSUME NEW w \in Workers, ReadPolicy(w) PROVE TypeOK'
  <2>1. PICK x \in todo[w] :
           /\ todo' = [todo EXCEPT ![w] = @ \ {x}]
           /\ \/ UNCHANGED <<chosen, step>>
              \/ /\ step' = [step EXCEPT ![w] = "tier"]
                 /\ \E y \in Row : y.alert = x.alert /\ chosen' = [chosen EXCEPT ![w] = y]
    BY <1>3, ReadPolicyCases
  <2>2. todo' \in [Workers -> SUBSET Row] /\ UNCHANGED <<db, history, failures>>
    BY <1>3, <2>1 DEF ReadPolicy
  <2>3. CASE UNCHANGED <<chosen, step>>
    BY <2>2, <2>3
  <2>4. ASSUME NEW y \in Row, chosen' = [chosen EXCEPT ![w] = y], step' = [step EXCEPT ![w] = "tier"]
        PROVE  TypeOK'
    BY <2>2, <2>4
  <2> QED
    BY <2>1, <2>3, <2>4
<1>4. ASSUME NEW w \in Workers, ReadPolicyFails(w) PROVE TypeOK'
  BY <1>4 DEF ReadPolicyFails
<1>5. ASSUME NEW w \in Workers, UpdateTier(w) PROVE TypeOK'
  BY <1>5, TypeUpdateTier
<1>6. ASSUME NEW w \in Workers, UpdateTierFails(w) PROVE TypeOK'
  BY <1>6 DEF UpdateTierFails
<1>7. ASSUME NEW w \in Workers, CreateEvent(w) PROVE TypeOK'
  BY <1>7, TypeCreateEvent
<1>8. ASSUME NEW w \in Workers, CreateEventFails(w) PROVE TypeOK'
  BY <1>8 DEF CreateEventFails
<1>9. ASSUME NEW w \in Workers, Publish(w) PROVE TypeOK'
  BY <1>9 DEF Publish
<1>10. ASSUME NEW w \in Workers, Restart(w) PROVE TypeOK'
  BY <1>10 DEF Restart
<1>11. ASSUME NEW a \in Alerts, Raise(a) \/ \E s \in {"acknowledged", "resolved"} : Stop(a, s)
       PROVE  TypeOK'
  BY <1>11, TypeStatus
<1>12. ASSUME NEW p \in Policies, UpdatePolicy(p) PROVE TypeOK'
  BY <1>12 DEF UpdatePolicy
<1>13. CASE Minute
  BY <1>13, SMTT(30) DEF Minute
<1>14. CASE UNCHANGED vars
  BY <1>14 DEF vars
<1> QED
  BY <1>1, <1>2, <1>3, <1>4, <1>5, <1>6, <1>7, <1>8, <1>9, <1>10, <1>11, <1>12, <1>13, <1>14
     DEF Next, Work

(* TypeOK is inductive.                                                    *)
THEOREM TypeCorrect == Spec => []TypeOK
BY TypeInit, TypeStep, PTL DEF Spec

-----------------------------------------------------------------------------
(* Late escalations.                                                       *)

\* A worker escalates seeded alerts, each row it listed once.
ListedOnce ==
    \A w \in Workers :
        /\ \A x \in todo[w] : x.alert \in Seeded
        /\ \A x, y \in todo[w] : x.alert = y.alert => x = y
        /\ step[w] = "tier" =>
             chosen[w].alert \in Seeded /\ \A x \in todo[w] : x.alert # chosen[w].alert

\* One that was late with an alert has it no more, and will not list it again.
LateIsOver ==
    \A w \in Workers, a \in Alerts : w \in late[a] =>
        /\ a \in Seeded /\ status[a] # "firing"
        /\ \A x \in todo[w] : x.alert # a
        /\ step[w] = "tier" => chosen[w].alert # a

LateInv == ListedOnce /\ LateIsOver

LEMMA LateInit == Init => LateInv
BY DEF Init, LateInv, ListedOnce, LateIsOver

\* Worker w drops rows, and takes up none.
LEMMA LateDrops ==
    ASSUME TypeOK, LateInv, NEW w \in Workers,
           UNCHANGED <<status, late>>,
           \A v \in Workers : todo'[v] \subseteq todo[v],
           \A v \in Workers : step'[v] = "tier" => step[v] = "tier" /\ chosen'[v] = chosen[v]
    PROVE  LateInv'
BY DEF LateInv, ListedOnce, LateIsOver

LEMMA LateList ==
    ASSUME TypeOK, LateInv, NEW w \in Workers, List(w)
    PROVE  LateInv'
<1>1. todo'[w] \subseteq Pending /\ \A v \in Workers \ {w} : todo'[v] = todo[v]
  BY DEF List, TypeOK
<1>2. /\ \A x \in Pending : x.alert \in Seeded /\ status[x.alert] = "firing"
      /\ \A x, y \in Pending : x.alert = y.alert => x = y
  BY DEF Pending
<1>3. \A v \in Workers : step'[v] = "tier" => v # w /\ step[v] = "tier" /\ chosen'[v] = chosen[v]
  BY DEF List, TypeOK
<1>4. UNCHANGED <<status, late>>
  BY DEF List, db, history
<1>5. ListedOnce'
  BY <1>1, <1>2, <1>3 DEF LateInv, ListedOnce
<1>6. LateIsOver'
  BY <1>1, <1>2, <1>3, <1>4 DEF LateInv, LateIsOver
<1> QED
  BY <1>5, <1>6 DEF LateInv

LEMMA LateReadPolicy ==
    ASSUME TypeOK, LateInv, NEW w \in Workers, ReadPolicy(w)
    PROVE  LateInv'
<1>1. PICK x \in todo[w] :
         /\ todo' = [todo EXCEPT ![w] = @ \ {x}]
         /\ \/ UNCHANGED <<chosen, step>>
            \/ /\ step' = [step EXCEPT ![w] = "tier"]
               /\ \E y \in Row : y.alert = x.alert /\ chosen' = [chosen EXCEPT ![w] = y]
  BY ReadPolicyCases
<1>2. UNCHANGED <<status, late>>
  BY DEF ReadPolicy, db, history
<1>3. todo'[w] = todo[w] \ {x} /\ \A v \in Workers : todo'[v] \subseteq todo[v]
  BY <1>1 DEF TypeOK
<1>4. CASE UNCHANGED <<chosen, step>>
  BY <1>2, <1>3, <1>4, LateDrops
<1>5. ASSUME NEW y \in Row, y.alert = x.alert, chosen' = [chosen EXCEPT ![w] = y],
             step' = [step EXCEPT ![w] = "tier"]
      PROVE  LateInv'
  <2>1. \A v \in Workers : v # w => step'[v] = step[v] /\ chosen'[v] = chosen[v]
    BY <1>5 DEF TypeOK
  <2>2. chosen'[w].alert = x.alert
    BY <1>5 DEF TypeOK
  <2>3. ListedOnce'
    BY <1>3, <2>1, <2>2 DEF LateInv, ListedOnce
  <2>4. LateIsOver'
    BY <1>2, <1>3, <2>1, <2>2 DEF LateInv, LateIsOver
  <2> QED
    BY <2>3, <2>4 DEF LateInv
<1> QED
  BY <1>1, <1>4, <1>5

LEMMA LateUpdateTier ==
    ASSUME TypeOK, LateInv, NEW w \in Workers, UpdateTier(w)
    PROVE  LateInv'
<1>1. chosen[w].alert \in Alerts /\ step[w] = "tier"
  BY ChosenIsRow DEF UpdateTier
<1>2. /\ step'[w] = "event" /\ \A v \in Workers \ {w} : step'[v] = step[v]
      /\ UNCHANGED <<status, todo, chosen>>
  BY DEF UpdateTier, TypeOK
<1>3. \A a \in Alerts : late'[a] \subseteq
        IF a = chosen[w].alert /\ status[a] # "firing" THEN late[a] \union {w} ELSE late[a]
  BY <1>1 DEF UpdateTier, TypeOK
<1>4. ListedOnce'
  BY <1>1, <1>2 DEF LateInv, ListedOnce
<1>5. LateIsOver'
  BY <1>1, <1>2, <1>3 DEF LateInv, LateIsOver, ListedOnce
<1> QED
  BY <1>4, <1>5 DEF LateInv

LEMMA LateStep == TypeOK /\ LateInv /\ [Next]_vars => LateInv'
<1> SUFFICES ASSUME TypeOK, LateInv, [Next]_vars PROVE LateInv'
  OBVIOUS
<1> USE DEF db, engine, history
<1>1. ASSUME NEW w \in Workers, Work(w) \/ Restart(w) PROVE LateInv'
  <2>1. CASE EndTick(w) \/ CreateEvent(w)
    BY <2>1, LateDrops DEF EndTick, CreateEvent, TypeOK
  <2>2. CASE ReadPolicyFails(w)
    BY <2>2, LateDrops DEF ReadPolicyFails, TypeOK
  <2>3. CASE UpdateTierFails(w) \/ CreateEventFails(w) \/ Publish(w)
    BY <2>3, LateDrops DEF UpdateTierFails, CreateEventFails, Publish, NextAlert, TypeOK
  <2>4. CASE Restart(w)
    BY <2>4, LateDrops DEF Restart, TypeOK
  <2> QED
    BY <1>1, <2>1, <2>2, <2>3, <2>4, LateList, LateReadPolicy, LateUpdateTier DEF Work
<1>2. ASSUME NEW a \in Alerts, Raise(a) \/ \E s \in {"acknowledged", "resolved"} : Stop(a, s)
      PROVE  LateInv'
  BY <1>2 DEF Raise, Stop, LateInv, ListedOnce, LateIsOver, TypeOK
<1>3. ASSUME UNCHANGED <<status, todo, step, chosen, late>> PROVE LateInv'
  BY <1>3 DEF LateInv, ListedOnce, LateIsOver
<1> QED
  BY <1>1, <1>2, <1>3 DEF Next, UpdatePolicy, Minute, vars

LateOnce ==
    \A a \in Alerts : Escalated(a) /\ status[a] # "firing" => late'[a] # late[a]

(***************************************************************************)
(* An escalation of an alert that stopped firing is the first one by that  *)
(* worker, for any number of workers, failures and restarts (engine.go,    *)
(* processTenant and processAlert).                                        *)
(***************************************************************************)
THEOREM OneLateEscalationPerWorkerCorrect == Spec => OneLateEscalationPerWorker
<1>1. ASSUME TypeOK, LateInv, [Next]_vars PROVE LateOnce
  <2> SUFFICES ASSUME NEW a \in Alerts, bumps'[a] # bumps[a], status[a] # "firing"
               PROVE  late'[a] # late[a]
    BY DEF LateOnce, Escalated
  <2>1. PICK w \in Workers : UpdateTier(w)
    BY <1>1 DEF Next, Work, List, EndTick, ReadPolicy, ReadPolicyFails, UpdateTierFails, CreateEvent,
                CreateEventFails, Publish, Restart, Raise, Stop, UpdatePolicy, Minute, vars, history
  <2>2. step[w] = "tier" /\ chosen[w].alert = a
    BY <1>1, <2>1 DEF UpdateTier, TypeOK
  <2>3. w \notin late[a]
    BY <1>1, <2>2 DEF LateInv, LateIsOver
  <2>4. late'[a] = late[a] \union {w}
    BY <1>1, <2>1, <2>2 DEF UpdateTier, TypeOK
  <2> QED
    BY <2>3, <2>4
<1>2. LateOnce => [LateOnce]_vars
  OBVIOUS
<1> QED
  BY <1>1, <1>2, TypeCorrect, LateInit, LateStep, PTL
     DEF Spec, OneLateEscalationPerWorker, LateOnce

-----------------------------------------------------------------------------
(* Events and escalations.                                                 *)

LEMMA RecordingIsFinite ==
    ASSUME NEW a
    PROVE  IsFiniteSet(Recording(a)) /\ Cardinality(Recording(a)) \in Nat
<1>1. Recording(a) \in SUBSET Workers /\ IsFiniteSet(Workers)
  BY ConstantsAssumption DEF Recording
<1> QED
  BY <1>1, FS_Subset, FS_CardinalityType

\* What worker w can do to the recordings: begin one or end one.
LEMMA RecordingGrows ==
    ASSUME NEW a, NEW w \in Workers, Recording(a)' = Recording(a) \union {w}, w \notin Recording(a)
    PROVE  Cardinality(Recording(a)') = Cardinality(Recording(a)) + 1
BY RecordingIsFinite, FS_AddElement

LEMMA RecordingShrinks ==
    ASSUME NEW a, NEW w \in Workers, Recording(a)' = Recording(a) \ {w}, w \in Recording(a)
    PROVE  Cardinality(Recording(a)') = Cardinality(Recording(a)) - 1
BY RecordingIsFinite, FS_RemoveElement

LEMMA EventsInit == Init => EventsMatchEscalations
<1> SUFFICES ASSUME Init PROVE EventsMatchEscalations
  OBVIOUS
<1>1. \A a \in Alerts : Recording(a) = {}
  BY DEF Init, Recording
<1>2. \A a \in Alerts : Cardinality(Recording(a)) = 0
  BY <1>1, FS_EmptySet
<1>3. \A a \in Alerts : events[a] = 0 /\ bumps[a] = 0
  BY DEF Init
<1>4. failures = 0
  BY DEF Init
<1> QED
  BY <1>2, <1>3, <1>4 DEF EventsMatchEscalations

\* The steps that record nothing: nobody is added, and who gives up counts as a failure.
LEMMA EventsUnrecorded ==
    ASSUME TypeOK, EventsMatchEscalations, failures' \in Nat, UNCHANGED <<events, bumps>>,
           \/ /\ failures' >= failures
              /\ \A a \in Alerts : Recording(a)' = Recording(a)
           \/ /\ failures' = failures + 1
              /\ \E w \in Workers : \A a \in Alerts : Recording(a)' = Recording(a) \ {w}
    PROVE  EventsMatchEscalations'
<1> SUFFICES ASSUME NEW a \in Alerts
             PROVE  /\ events'[a] + Cardinality(Recording(a)') <= bumps'[a]
                    /\ bumps'[a] <= events'[a] + Cardinality(Recording(a)') + failures'
  BY DEF EventsMatchEscalations
<1>1. /\ events[a] + Cardinality(Recording(a)) <= bumps[a]
      /\ bumps[a] <= events[a] + Cardinality(Recording(a)) + failures
      /\ events[a] \in Nat /\ bumps[a] \in Nat /\ failures \in Nat
  BY DEF EventsMatchEscalations, TypeOK
<1>2. \/ Recording(a)' = Recording(a) /\ failures' >= failures
      \/ /\ Cardinality(Recording(a)') \in {Cardinality(Recording(a)), Cardinality(Recording(a)) - 1}
         /\ failures' = failures + 1
  BY RecordingIsFinite, FS_RemoveElement
<1> QED
  BY <1>1, <1>2, RecordingIsFinite

LEMMA EventsStep == TypeOK /\ TypeOK' /\ EventsMatchEscalations /\ [Next]_vars => EventsMatchEscalations'
<1> SUFFICES ASSUME TypeOK, TypeOK', EventsMatchEscalations, [Next]_vars
             PROVE  EventsMatchEscalations'
  OBVIOUS
<1> USE DEF db, engine, history
<1>1. failures \in Nat /\ failures' \in Nat
  BY ConstantsAssumption DEF TypeOK
<1>2. ASSUME UNCHANGED <<events, bumps>>, failures' >= failures,
             \A v \in Workers : \/ step'[v] = step[v] /\ chosen'[v] = chosen[v]
                                \/ step'[v] # "event" /\ step[v] # "event"
      PROVE  EventsMatchEscalations'
  <2>1. \A a \in Alerts : Recording(a)' = Recording(a)
    BY <1>2 DEF Recording
  <2> QED
    BY <1>1, <1>2, <2>1, EventsUnrecorded
<1>3. ASSUME NEW w \in Workers, CreateEventFails(w) \/ Restart(w) PROVE EventsMatchEscalations'
  <2>1. \A a \in Alerts : Recording(a)' = Recording(a) \ {w}
    BY <1>3 DEF Recording, CreateEventFails, Restart, NextAlert, TypeOK
  <2> QED
    BY <1>1, <1>3, <2>1, EventsUnrecorded DEF CreateEventFails, Restart, Failure
<1>4. ASSUME NEW w \in Workers, UpdateTier(w) PROVE EventsMatchEscalations'
  <2>1. chosen[w].alert \in Alerts
    BY <1>4, ChosenIsRow DEF UpdateTier
  <2> SUFFICES ASSUME NEW a \in Alerts
               PROVE  /\ events'[a] + Cardinality(Recording(a)') <= bumps'[a]
                      /\ bumps'[a] <= events'[a] + Cardinality(Recording(a)') + failures'
    BY DEF EventsMatchEscalations
  <2>2. /\ events[a] + Cardinality(Recording(a)) <= bumps[a]
        /\ bumps[a] <= events[a] + Cardinality(Recording(a)) + failures
        /\ events[a] \in Nat /\ bumps[a] \in Nat /\ UNCHANGED <<events, failures>>
    BY <1>4 DEF EventsMatchEscalations, UpdateTier, TypeOK
  <2>3. CASE chosen[w].alert = a
    <3>1. Recording(a)' = Recording(a) \union {w} /\ w \notin Recording(a)
      BY <1>4, <2>3 DEF Recording, UpdateTier, TypeOK
    <3>2. bumps'[a] = bumps[a] + 1
      BY <1>4, <2>3 DEF UpdateTier, TypeOK
    <3> QED
      BY <1>1, <2>2, <3>1, <3>2, RecordingGrows, RecordingIsFinite
  <2>4. CASE chosen[w].alert # a
    <3>1. Recording(a)' = Recording(a)
      BY <1>4, <2>4 DEF Recording, UpdateTier, TypeOK
    <3>2. bumps'[a] = bumps[a]
      BY <1>4, <2>1, <2>4 DEF UpdateTier, TypeOK
    <3> QED
      BY <2>2, <3>1, <3>2
  <2> QED
    BY <2>3, <2>4
<1>5. ASSUME NEW w \in Workers, CreateEvent(w) PROVE EventsMatchEscalations'
  <2>1. chosen[w].alert \in Alerts
    BY <1>5, ChosenIsRow DEF CreateEvent
  <2> SUFFICES ASSUME NEW a \in Alerts
               PROVE  /\ events'[a] + Cardinality(Recording(a)') <= bumps'[a]
                      /\ bumps'[a] <= events'[a] + Cardinality(Recording(a)') + failures'
    BY DEF EventsMatchEscalations
  <2>2. /\ events[a] + Cardinality(Recording(a)) <= bumps[a]
        /\ bumps[a] <= events[a] + Cardinality(Recording(a)) + failures
        /\ events[a] \in Nat /\ bumps[a] \in Nat /\ UNCHANGED <<bumps, failures>>
    BY <1>5 DEF EventsMatchEscalations, CreateEvent, TypeOK
  <2>3. CASE chosen[w].alert = a
    <3>1. Recording(a)' = Recording(a) \ {w} /\ w \in Recording(a)
      BY <1>5, <2>3 DEF Recording, CreateEvent, TypeOK
    <3>2. events'[a] = events[a] + 1
      BY <1>5, <2>3 DEF CreateEvent, TypeOK
    <3> QED
      BY <1>1, <2>2, <3>1, <3>2, RecordingShrinks, RecordingIsFinite
  <2>4. CASE chosen[w].alert # a
    <3>1. Recording(a)' = Recording(a)
      BY <1>5, <2>4 DEF Recording, CreateEvent, TypeOK
    <3>2. events'[a] = events[a]
      BY <1>5, <2>1, <2>4 DEF CreateEvent, TypeOK
    <3> QED
      BY <2>2, <3>1, <3>2
  <2> QED
    BY <2>3, <2>4
<1>6. ASSUME NEW w \in Workers, List(w) \/ EndTick(w) \/ ReadPolicyFails(w) \/ UpdateTierFails(w) \/ Publish(w)
      PROVE  EventsMatchEscalations'
  BY <1>1, <1>2, <1>6
     DEF List, EndTick, ReadPolicyFails, UpdateTierFails, Publish, NextAlert, Failure, TypeOK
<1>7. ASSUME NEW w \in Workers, ReadPolicy(w) PROVE EventsMatchEscalations'
  BY <1>1, <1>2, <1>7, ReadPolicyCases DEF ReadPolicy, TypeOK
<1>8. CASE UNCHANGED <<events, bumps, failures, step, chosen>>
  BY <1>1, <1>2, <1>8
<1> QED
  BY <1>3, <1>4, <1>5, <1>6, <1>7, <1>8 DEF Next, Work, Raise, Stop, UpdatePolicy, Minute, vars

(***************************************************************************)
(* No event without its escalation, and no escalation without its event    *)
(* but for failures and restarts, for any number of workers (engine.go,    *)
(* processAlert).                                                          *)
(***************************************************************************)
THEOREM EventsMatchEscalationsCorrect == Spec => []EventsMatchEscalations
BY TypeCorrect, EventsInit, EventsStep, PTL DEF Spec
-----------------------------------------------------------------------------
(* The engine and the dry run.                                             *)

\* What one worker does when nobody edits policies and each lists its tiers in ascending order.
Ascending(p) ==
    /\ \A i \in DOMAIN p.tiers : p.tiers[i].tier > 0
    /\ \A i, j \in DOMAIN p.tiers : i < j => p.tiers[i].tier < p.tiers[j].tier

\* The step of the dry run that follows b escalations, and the tier they lead to.
Place(p, b) == (b % Len(p.tiers)) + 1
TierAfter(p, b) == IF b = 0 THEN 0 ELSE p.tiers[Place(p, b - 1)].tier

LEMMA Multiplied ==
    ASSUME NEW a \in Int, NEW b \in Int, NEW n \in Nat, a <= b
    PROVE  a * n \in Int /\ a * n <= b * n
<1>1. b - a \in Nat
  OBVIOUS
<1>2. (b - a) * n >= 0
  BY <1>1
<1>3. (b - a) * n = b * n - a * n
  OBVIOUS
<1> QED
  BY <1>2, <1>3

LEMMA Remainder ==
    ASSUME NEW n \in Nat \ {0}, NEW q \in Int, NEW z \in 0 .. n - 1
    PROVE  (q * n + z) % n = z
<1> DEFINE y == q * n + z
           d == y \div n
           m == y % n
<1>1. n \in Nat
  OBVIOUS
<1>2. y \in Int /\ d \in Int /\ m \in 0 .. n - 1 /\ y = d * n + m
  OBVIOUS
<1>3. d = q
  <2>1. CASE d < q
    <3>1. d + 1 \in Int /\ d + 1 <= q
      BY <1>2, <2>1
    <3>2. (d + 1) * n <= q * n
      BY <1>1, <3>1, Multiplied
    <3> QED
      BY <1>2, <3>2
  <2>2. CASE d > q
    <3>1. q + 1 \in Int /\ q + 1 <= d
      BY <1>2, <2>2
    <3>2. (q + 1) * n <= d * n
      BY <1>1, <1>2, <3>1, Multiplied
    <3> QED
      BY <1>2, <3>2
  <2> QED
    BY <1>2, <2>1, <2>2
<1>4. y = d * n + z
  BY <1>3
<1>5. m = z
  <2> HIDE DEF y, d, m
  <2>1. d * n \in Int
    BY <1>2
  <2> QED
    BY <1>2, <1>4, <2>1
<1> QED
  BY <1>5

LEMMA NextRemainder ==
    ASSUME NEW n \in Nat \ {0}, NEW c \in Nat
    PROVE  /\ c % n \in 0 .. n - 1
           /\ (c + 1) % n = IF (c % n) + 1 = n THEN 0 ELSE (c % n) + 1
<1>1. PICK q \in Int, z \in 0 .. n - 1 : c = q * n + z /\ z = c % n
  <2>1. c \div n \in Int /\ c % n \in 0 .. n - 1 /\ c = (c \div n) * n + (c % n)
    OBVIOUS
  <2> QED
    BY <2>1
<1>2. CASE z + 1 = n
  <2>1. PICK m \in Int : m = q * n
    OBVIOUS
  <2>2. (q + 1) * n = m + n
    BY <2>1
  <2>3. c + 1 = m + n
    <3>1. c = m + z
      BY <1>1, <2>1
    <3> QED
      BY <1>2, <3>1
  <2>4. c + 1 = (q + 1) * n + 0
    BY <2>2, <2>3
  <2>5. q + 1 \in Int /\ 0 \in 0 .. n - 1
    OBVIOUS
  <2>6. ((q + 1) * n + 0) % n = 0
    BY <2>5, Remainder
  <2> QED
    BY <1>1, <1>2, <2>4, <2>6
<1>3. CASE z + 1 # n
  <2>1. c + 1 = q * n + (z + 1)
    BY <1>1
  <2>2. z + 1 \in 0 .. n - 1
    BY <1>1, <1>3
  <2>3. (q * n + (z + 1)) % n = z + 1
    BY <2>2, Remainder
  <2> QED
    BY <1>1, <1>3, <2>1, <2>3
<1> QED
  BY <1>2, <1>3

\* A set that has 0 and with a number the next one has all of them up to n.
LEMMA Induction ==
    ASSUME NEW n \in Nat, NEW S, 0 \in S, \A k \in 0 .. n - 1 : k \in S => k + 1 \in S
    PROVE  0 .. n \subseteq S
<1> DEFINE D == {k \in 0 .. n : k \notin S}
<1> SUFFICES ASSUME D # {} PROVE FALSE
  OBVIOUS
<1>1. D \subseteq Nat
  OBVIOUS
<1>2. PICK k \in D : \A j \in D : k <= j
  BY <1>1, LeastIndex
<1>3. k - 1 \in 0 .. n - 1 /\ k - 1 + 1 = k
  BY <1>2
<1>4. k - 1 \notin D
  BY <1>2
<1> QED
  BY <1>2, <1>3, <1>4
\* What the recursive function in Cumulative makes of the tier before.
Added(ts, sum, j) == IF j = 0 THEN 0 ELSE sum[j - 1] + ts[j].timeout

LEMMA CumulativeUnfolds ==
    ASSUME NEW ts, NEW i
    PROVE  \E f : /\ f = CHOOSE sum : sum = [j \in 0 .. i |-> Added(ts, sum, j)]
                  /\ Cumulative(ts, i) = f[i]
BY DEF Cumulative, Added

\* The timeouts of a policy add up to a number.
LEMMA CumulativeType ==
    ASSUME NEW ts \in Seq(Tiers), NEW i \in 0 .. Len(ts)
    PROVE  Cumulative(ts, i) \in Nat
<1> DEFINE Sums(g, m) == g = [k \in 0 .. m |-> Added(ts, g, k)] /\ \A k \in 0 .. m : g[k] \in Nat
           G == {m \in 0 .. i : \E g : Sums(g, m)}
<1>1. 0 \in G
  <2> DEFINE g == [k \in 0 .. 0 |-> 0]
  <2>1. g = [k \in 0 .. 0 |-> Added(ts, g, k)] /\ \A k \in 0 .. 0 : g[k] \in Nat
    BY DEF Added
  <2> QED
    BY <2>1
<1>2. ASSUME NEW m \in 0 .. i - 1, m \in G PROVE m + 1 \in G
  <2>1. PICK g : Sums(g, m)
    BY <1>2
  <2> DEFINE f == [k \in 0 .. m + 1 |-> IF k = m + 1 THEN Added(ts, g, k) ELSE g[k]]
  <2>2. ASSUME NEW k \in 0 .. m + 1 PROVE f[k] = Added(ts, f, k) /\ f[k] \in Nat
    <3>1. CASE k = 0
      BY <2>1, <3>1 DEF Added
    <3>2. CASE k # 0
      <4>1. k - 1 \in 0 .. m /\ k - 1 # m + 1
        BY <3>2
      <4>2. f[k - 1] = g[k - 1] /\ g[k - 1] \in Nat
        BY <2>1, <4>1
      <4>3. f[k] = Added(ts, g, k)
        <5>1. CASE k = m + 1
          BY <5>1
        <5>2. CASE k # m + 1
          <6>1. k \in 0 .. m /\ f[k] = g[k]
            BY <5>2
          <6>2. g = [l \in 0 .. m |-> Added(ts, g, l)]
            BY <2>1
          <6>3. g[k] = Added(ts, g, k)
            BY <6>1, <6>2
          <6> QED
            BY <6>1, <6>3
        <5> QED
          BY <5>1, <5>2
      <4>4. ts[k] \in Tiers
        <5>1. k \in 1 .. Len(ts)
          BY <3>2
        <5> QED
          BY <5>1
      <4>5. ts[k].timeout \in Nat
        BY <4>4 DEF Tiers
      <4> HIDE DEF f
      <4>6. Added(ts, g, k) = g[k - 1] + ts[k].timeout /\ Added(ts, f, k) = f[k - 1] + ts[k].timeout
        BY <3>2 DEF Added
      <4> QED
        BY <4>2, <4>3, <4>5, <4>6
    <3> QED
      BY <3>1, <3>2
  <2>3. Sums(f, m + 1)
    <3>1. f = [k \in 0 .. m + 1 |-> Added(ts, f, k)]
      BY <2>2
    <3> QED
      BY <2>2, <3>1
  <2>4. m + 1 \in 0 .. i
    OBVIOUS
  <2> QED
    BY <2>3, <2>4
<1>3. i \in G
  <2> HIDE DEF G
  <2>1. 0 .. i \subseteq G
    BY <1>1, <1>2, Induction
  <2> QED
    BY <2>1
<1>4. PICK g : Sums(g, i)
  BY <1>3
<1>5. PICK f : /\ f = CHOOSE sum : sum = [j \in 0 .. i |-> Added(ts, sum, j)]
               /\ Cumulative(ts, i) = f[i]
  BY CumulativeUnfolds
<1>6. f = [j \in 0 .. i |-> Added(ts, f, j)]
  BY <1>4, <1>5
<1>7. \A k \in 0 .. i : f[k] \in Nat
  <2> DEFINE S == {k \in 0 .. i : f[k] \in Nat}
  <2>1. 0 \in S
    BY <1>6 DEF Added
  <2>2. ASSUME NEW k \in 0 .. i - 1, k \in S PROVE k + 1 \in S
    <3>1. k + 1 \in 0 .. i /\ k + 1 # 0 /\ (k + 1) - 1 = k
      OBVIOUS
    <3>2. f[k + 1] = f[k] + ts[k + 1].timeout
      BY <1>6, <3>1 DEF Added
    <3>3. ts[k + 1] \in Tiers
      BY <3>1
    <3> QED
      BY <2>2, <3>1, <3>2, <3>3 DEF Tiers
  <2> HIDE DEF S
  <2>3. 0 .. i \subseteq S
    BY <2>1, <2>2, Induction
  <2> QED
    BY <2>3 DEF S
<1> QED
  BY <1>5, <1>7

\* Where the engine goes on after b escalations is where the dry run does.
LEMMA NextIndexFollows ==
    ASSUME NEW p \in Policies, Ascending(p), NEW b \in Nat, b > 0 => p.tiers # <<>>,
           NextIndex(p, TierAfter(p, b)) # 0
    PROVE  /\ p.tiers # <<>> /\ Place(p, b) \in DOMAIN p.tiers
           /\ NextIndex(p, TierAfter(p, b)) = Place(p, b)
<1>1. PICK ts \in Seq(Tiers) : ts = p.tiers
  BY ConstantsAssumption
<1>2. PICK n \in Nat : n = Len(ts) /\ DOMAIN ts = 1 .. n
  OBVIOUS
<1>3. PICK current : current = TierAfter(p, b)
  OBVIOUS
<1>4. \A i \in 1 .. n : ts[i] \in Tiers
  BY <1>2
<1>5. \A i \in 1 .. n : ts[i].tier \in Nat
  BY <1>4 DEF Tiers
<1>6. /\ \A i \in 1 .. n : ts[i].tier > 0
      /\ \A i, j \in 1 .. n : i < j => ts[i].tier < ts[j].tier
  BY <1>1, <1>2 DEF Ascending
<1>7. n # 0
  <2>1. CASE b > 0
    BY <1>1, <1>2, <2>1
  <2>2. ASSUME n = 0 PROVE NextIndex(p, current) = 0
    BY <1>1, <1>2, <2>2 DEF NextIndex, Higher
  <2> QED
    BY <1>3, <2>2
<1>8. n \in Nat \ {0}
  BY <1>7
<1>9. PICK k \in 0 .. n : /\ current = IF k = 0 THEN 0 ELSE ts[k].tier
                          /\ Place(p, b) = IF k = n THEN 1 ELSE k + 1
  <2>1. CASE b = 0
    <3>1. current = 0
      BY <1>3, <2>1 DEF TierAfter
    <3>2. 0 % n = 0
      <4>1. (0 * n + 0) % n = 0
        BY <1>8, Remainder
      <4> QED
        BY <4>1
    <3>3. Place(p, b) = 1
      <4>1. Len(p.tiers) = n
        BY <1>1, <1>2
      <4>2. PICK r : r = b % Len(p.tiers)
        OBVIOUS
      <4>3. r = 0
        BY <2>1, <3>2, <4>1, <4>2
      <4>4. Place(p, b) = r + 1
        BY <4>2 DEF Place
      <4> QED
        BY <4>3, <4>4
    <3> QED
      BY <1>7, <3>1, <3>3
  <2>2. CASE b # 0
    <3>1. PICK c \in Nat : c = b - 1 /\ b = c + 1
      BY <2>2
    <3>2. /\ c % n \in 0 .. n - 1
          /\ (c + 1) % n = IF (c % n) + 1 = n THEN 0 ELSE (c % n) + 1
      BY <1>8, NextRemainder
    <3>3. PICK z \in 0 .. n - 1 : z = c % n /\ b % n = IF z + 1 = n THEN 0 ELSE z + 1
      BY <3>1, <3>2
    <3>4. Place(p, b) = IF z + 1 = n THEN 1 ELSE z + 2
      <4>1. Len(p.tiers) = n
        BY <1>1, <1>2
      <4>2. PICK r : r = b % Len(p.tiers)
        OBVIOUS
      <4>3. r = IF z + 1 = n THEN 0 ELSE z + 1
        BY <3>3, <4>1, <4>2
      <4>4. Place(p, b) = r + 1
        BY <4>2 DEF Place
      <4> QED
        BY <1>8, <4>3, <4>4
    <3>5. Place(p, b - 1) = z + 1
      BY <1>1, <1>2, <3>1, <3>3 DEF Place
    <3>6. current = ts[z + 1].tier
      BY <1>1, <1>3, <2>2, <3>5 DEF TierAfter
    <3>7. z + 1 \in 0 .. n /\ z + 1 # 0
      OBVIOUS
    <3> QED
      BY <3>4, <3>6, <3>7
  <2> QED
    BY <2>1, <2>2
<1>10. Higher(ts, current) = {i \in 1 .. n : i > k}
  <2>1. ASSUME NEW i \in 1 .. n PROVE ts[i].tier > current <=> i > k
    <3>1. CASE k = 0
      BY <1>6, <1>9, <3>1
    <3>2. CASE k # 0
      <4>1. k \in 1 .. n /\ current = ts[k].tier
        BY <1>9, <3>2
      <4>2. i < k => ts[i].tier < ts[k].tier
        BY <1>6, <4>1
      <4>3. k < i => ts[k].tier < ts[i].tier
        BY <1>6, <4>1
      <4>4. i = k => ts[i].tier = ts[k].tier
        OBVIOUS
      <4> QED
        BY <1>5, <4>1, <4>2, <4>3, <4>4
    <3> QED
      BY <3>1, <3>2
  <2> QED
    BY <1>2, <2>1 DEF Higher
<1>11. CASE k < n
  <2>1. k + 1 \in Higher(ts, current) /\ \A j \in Higher(ts, current) : k + 1 <= j
    BY <1>10, <1>11
  <2>2. FirstHigher(ts, current) = k + 1
    <3>1. PICK S : S = Higher(ts, current)
      OBVIOUS
    <3>2. S \subseteq Nat
      BY <1>10, <3>1
    <3>3. \A i \in S : (\A j \in S : i <= j) => i = k + 1
      BY <2>1, <3>1, <3>2
    <3> QED
      BY <2>1, <3>1, <3>3 DEF FirstHigher
  <2>3. NextIndex(p, current) = k + 1
    BY <1>1, <2>1, <2>2 DEF NextIndex
  <2> QED
    BY <1>1, <1>2, <1>3, <1>7, <1>9, <1>11, <2>3
<1>12. CASE k = n
  <2>1. Higher(ts, current) = {}
    BY <1>10, <1>12
  <2>2. NextIndex(p, current) \in {0, 1}
    BY <1>1, <2>1 DEF NextIndex
  <2> QED
    BY <1>1, <1>2, <1>3, <1>7, <1>9, <1>12, <2>2
<1> QED
  BY <1>11, <1>12
\* One worker, and a policy that stays and lists its tiers in ascending order, from 1 on.
Steady ==
    /\ \A v, w \in Workers : v = w
    /\ ~ Editable
    /\ \A p \in Policies : Ascending(p)

\* Where every alert is in the dry run, and that the worker knows it of the rows it has listed.
OnCourse(a) ==
    /\ bumps[a] > 0 => policy.tiers # <<>>
    /\ tier[a] = TierAfter(policy, bumps[a])

DueNow(y) ==
    LET i == Place(policy, bumps[y.alert])
    IN /\ policy.tiers # <<>> /\ i \in DOMAIN policy.tiers
       /\ y.tier = policy.tiers[i].tier /\ age[y.alert] >= Cumulative(policy.tiers, i)

PlanInv ==
    /\ \A a \in Alerts : OnCourse(a)
    /\ \A w \in Workers :
         /\ \A x \in todo[w] : x.tier = tier[x.alert]
         /\ step[w] = "tier" => DueNow(chosen[w])

LEMMA PlanInit == Init => PlanInv
BY DEF Init, PlanInv, OnCourse, TierAfter

\* A worker drops rows and takes up none.
LEMMA PlanDrops ==
    ASSUME TypeOK, PlanInv, UNCHANGED <<tier, age, policy, bumps>>,
           \A v \in Workers : todo'[v] \subseteq todo[v],
           \A v \in Workers : step'[v] = "tier" => step[v] = "tier" /\ chosen'[v] = chosen[v]
    PROVE  PlanInv'
BY DEF PlanInv, OnCourse, DueNow

LEMMA PlanList ==
    ASSUME TypeOK, PlanInv, NEW w \in Workers, List(w)
    PROVE  PlanInv'
<1>1. todo'[w] \subseteq Pending /\ \A v \in Workers \ {w} : todo'[v] = todo[v]
  BY DEF List, TypeOK
<1>2. \A x \in Pending : x.tier = tier[x.alert]
  BY DEF Pending
<1>3. \A v \in Workers : step'[v] = "tier" => step[v] = "tier" /\ chosen'[v] = chosen[v]
  BY DEF List, TypeOK
<1>4. UNCHANGED <<tier, age, policy, bumps>>
  BY DEF List, db, history
<1> QED
  BY <1>1, <1>2, <1>3, <1>4 DEF PlanInv, OnCourse, DueNow

\* The tier the worker chooses is the next of the dry run, and due.
LEMMA PlanReadPolicy ==
    ASSUME Steady, TypeOK, PlanInv, NEW w \in Workers, ReadPolicy(w)
    PROVE  PlanInv'
<1>1. PICK x \in Oldest(todo[w]) :
         /\ todo' = [todo EXCEPT ![w] = @ \ {x}]
         /\ LET i == NextIndex(policy, x.tier) IN
              IF Due(x.alert, i)
                THEN /\ chosen' = [chosen EXCEPT ![w] = [x EXCEPT !.tier = policy.tiers[i].tier]]
                     /\ step' = [step EXCEPT ![w] = "tier"]
                ELSE UNCHANGED <<chosen, step>>
  BY DEF ReadPolicy
<1>2. x \in todo[w] /\ x \in Row /\ x.alert \in Alerts
  BY <1>1 DEF Oldest, TypeOK, Row
<1>3. UNCHANGED <<tier, age, policy, bumps>>
  BY DEF ReadPolicy, db, history
<1>4. \A v \in Workers : todo'[v] \subseteq todo[v]
  BY <1>1 DEF TypeOK
<1>5. PICK i : i = NextIndex(policy, x.tier)
  OBVIOUS
<1>6. CASE ~ Due(x.alert, i)
  BY <1>1, <1>3, <1>4, <1>5, <1>6, PlanDrops
<1>7. CASE Due(x.alert, i)
  <2>1. PICK y : y = [x EXCEPT !.tier = policy.tiers[i].tier]
    OBVIOUS
  <2>2. y.alert = x.alert /\ y.tier = policy.tiers[i].tier
    BY <1>2, <2>1 DEF Row
  <2>3. chosen' = [chosen EXCEPT ![w] = y] /\ step' = [step EXCEPT ![w] = "tier"]
    BY <1>1, <1>5, <1>7, <2>1
  <2>4. chosen'[w] = y /\ \A v \in Workers \ {w} : chosen'[v] = chosen[v] /\ step'[v] = step[v]
    BY <2>3 DEF TypeOK
  <2>5. i # 0 /\ age[x.alert] >= Cumulative(policy.tiers, i)
    <3>1. i > 0 /\ age[x.alert] >= Cumulative(policy.tiers, i)
      BY <1>7 DEF Due
    <3>2. ~ (0 > 0)
      OBVIOUS
    <3> QED
      BY <3>1, <3>2
  <2>6. PICK p \in Policies, b \in Nat : p = policy /\ b = bumps[x.alert]
    BY <1>2 DEF TypeOK
  <2>7. x.tier = TierAfter(p, b) /\ (b > 0 => p.tiers # <<>>)
    BY <1>2, <2>6 DEF PlanInv, OnCourse
  <2>8. Ascending(p)
    BY DEF Steady
  <2>9. i = NextIndex(p, TierAfter(p, b))
    BY <1>5, <2>6, <2>7
  <2>10. p.tiers # <<>> /\ Place(p, b) \in DOMAIN p.tiers /\ i = Place(p, b)
    BY <2>5, <2>7, <2>8, <2>9, NextIndexFollows
  <2>11. DueNow(y)
    BY <2>2, <2>5, <2>6, <2>10 DEF DueNow
  <2>12. DueNow(y)'
    BY <1>3, <2>11 DEF DueNow
  <2>13. DueNow(chosen[w])'
    BY <2>4, <2>12 DEF DueNow
  <2>14. ASSUME NEW v \in Workers
         PROVE  /\ \A z \in todo'[v] : z.tier = tier'[z.alert]
                /\ step'[v] = "tier" => DueNow(chosen[v])'
    <3>1. \A z \in todo'[v] : z.tier = tier'[z.alert]
      BY <1>3, <1>4 DEF PlanInv
    <3>2. step'[v] = "tier" => DueNow(chosen[v])'
      <4>1. CASE v = w
        BY <2>13, <4>1
      <4>2. CASE v # w
        BY <1>3, <2>4, <4>2 DEF PlanInv, DueNow
      <4> QED
        BY <4>1, <4>2
    <3> QED
      BY <3>1, <3>2
  <2> QED
    BY <1>3, <2>14 DEF PlanInv, OnCourse
<1> QED
  BY <1>6, <1>7

\* The alert moves on by one step of the dry run, and no row of it is left in the list.
LEMMA PlanUpdateTier ==
    ASSUME Steady, TypeOK, LateInv, PlanInv, NEW w \in Workers, UpdateTier(w)
    PROVE  PlanInv'
<1>1. PICK a \in Alerts : a = chosen[w].alert /\ step[w] = "tier" /\ DueNow(chosen[w])
  BY ChosenIsRow DEF UpdateTier, PlanInv
<1>2. PICK p \in {policy}, b \in Nat : p = policy /\ b = bumps[a]
  BY DEF TypeOK
<1>3. p.tiers # <<>> /\ chosen[w].tier = p.tiers[Place(p, b)].tier
  BY <1>1, <1>2 DEF DueNow
<1>4. /\ tier'[a] = chosen[w].tier /\ bumps'[a] = b + 1
      /\ \A c \in Alerts \ {a} : tier'[c] = tier[c] /\ bumps'[c] = bumps[c]
      /\ policy' = p /\ UNCHANGED <<age, todo, chosen>>
      /\ step'[w] = "event"
  BY <1>1, <1>2 DEF UpdateTier, TypeOK
<1>5. b + 1 # 0 /\ (b + 1) - 1 = b
  OBVIOUS
<1>6. TierAfter(p, b + 1) = p.tiers[Place(p, b)].tier
  BY <1>5 DEF TierAfter
<1>7. \A c \in Alerts : OnCourse(c)'
  <2>1. OnCourse(a)'
    BY <1>3, <1>4, <1>6 DEF OnCourse
  <2>2. \A c \in Alerts \ {a} : OnCourse(c)'
    BY <1>2, <1>4 DEF OnCourse, PlanInv
  <2> QED
    BY <2>1, <2>2
<1>8. \A v \in Workers : v = w
  BY DEF Steady
<1>9. \A x \in todo[w] : x.alert # a /\ x.alert \in Alerts
  BY <1>1 DEF LateInv, ListedOnce, TypeOK, Row
<1>10. \A x \in todo[w] : x.tier = tier'[x.alert]
  BY <1>4, <1>9 DEF PlanInv
<1> QED
  BY <1>4, <1>7, <1>8, <1>10 DEF PlanInv

LEMMA PlanMinute ==
    ASSUME TypeOK, PlanInv, Minute
    PROVE  PlanInv'
<1>1. UNCHANGED <<tier, policy, bumps, todo, step, chosen>>
  BY DEF Minute, engine, history
<1>2. \A a \in Alerts : age[a] \in Nat /\ age'[a] \in Nat /\ age'[a] >= age[a]
  BY ConstantsAssumption DEF Minute, TypeOK
<1>3. ASSUME NEW w \in Workers, step[w] = "tier" PROVE DueNow(chosen[w])'
  <2>1. DueNow(chosen[w])
    BY <1>3 DEF PlanInv
  <2>2. PICK a \in Alerts : a = chosen[w].alert
    BY <1>3, ChosenIsRow
  <2>3. PICK i : i = Place(policy, bumps[a])
    OBVIOUS
  <2>4. policy.tiers \in Seq(Tiers) /\ i \in DOMAIN policy.tiers
    BY <2>1, <2>2, <2>3, ConstantsAssumption DEF TypeOK, DueNow
  <2>5. PICK s \in Nat : s = Cumulative(policy.tiers, i)
    BY <2>4, CumulativeType
  <2>6. age[a] >= s
    BY <2>1, <2>2, <2>3, <2>5 DEF DueNow
  <2>7. age'[a] >= s
    BY <1>2, <2>6
  <2> QED
    BY <1>1, <2>1, <2>2, <2>3, <2>5, <2>7 DEF DueNow
<1> QED
  BY <1>1, <1>3 DEF PlanInv, OnCourse

LEMMA PlanStep == Steady /\ TypeOK /\ LateInv /\ PlanInv /\ [Next]_vars => PlanInv'
<1> SUFFICES ASSUME Steady, TypeOK, LateInv, PlanInv, [Next]_vars PROVE PlanInv'
  OBVIOUS
<1> USE DEF db, engine, history
<1>1. ASSUME NEW w \in Workers, Work(w) \/ Restart(w) PROVE PlanInv'
  <2>1. CASE EndTick(w) \/ CreateEvent(w)
    BY <2>1, PlanDrops DEF EndTick, CreateEvent, TypeOK
  <2>2. CASE ReadPolicyFails(w)
    BY <2>2, PlanDrops DEF ReadPolicyFails, TypeOK
  <2>3. CASE UpdateTierFails(w) \/ CreateEventFails(w) \/ Publish(w)
    BY <2>3, PlanDrops DEF UpdateTierFails, CreateEventFails, Publish, NextAlert, TypeOK
  <2>4. CASE Restart(w)
    BY <2>4, PlanDrops DEF Restart, TypeOK
  <2> QED
    BY <1>1, <2>1, <2>2, <2>3, <2>4, PlanList, PlanReadPolicy, PlanUpdateTier DEF Work
<1>2. ASSUME UNCHANGED <<tier, age, policy, bumps, todo, step, chosen>> PROVE PlanInv'
  BY <1>2 DEF PlanInv, OnCourse, DueNow
<1> QED
  BY <1>1, <1>2, PlanMinute DEF Steady, Next, Raise, Stop, UpdatePolicy, vars

FollowsDryRun ==
    \A a \in Alerts : Escalated(a) =>
      LET n == Len(policy.tiers)
          shown == DryRun(policy)[(bumps[a] % n) + 1]
      IN  tier'[a] = shown.tier /\ age[a] >= shown.minutes

(***************************************************************************)
(* For any policy that lists its tiers in ascending order and stays, every *)
(* escalation is the one the dry run of the policy shows next, and none    *)
(* before its minutes, through every repetition and every failed statement *)
(* and restart of the worker (engine.go, processAlert against handler.go,  *)
(* handleDryRun).                                                          *)
(***************************************************************************)
THEOREM EngineFollowsDryRunCorrect ==
    ASSUME Steady
    PROVE  Spec => EngineFollowsDryRun
<1>1. ASSUME TypeOK, PlanInv, [Next]_vars PROVE FollowsDryRun
  <2> SUFFICES ASSUME NEW a \in Alerts, bumps'[a] # bumps[a]
               PROVE  LET n == Len(policy.tiers)
                          shown == DryRun(policy)[(bumps[a] % n) + 1]
                      IN  tier'[a] = shown.tier /\ age[a] >= shown.minutes
    BY DEF FollowsDryRun, Escalated
  <2>1. PICK w \in Workers : UpdateTier(w)
    BY <1>1 DEF Next, Work, List, EndTick, ReadPolicy, ReadPolicyFails, UpdateTierFails, CreateEvent,
                CreateEventFails, Publish, Restart, Raise, Stop, UpdatePolicy, Minute, vars, history
  <2>2. /\ step[w] = "tier" /\ chosen[w].alert = a /\ tier'[a] = chosen[w].tier
    BY <1>1, <2>1 DEF UpdateTier, TypeOK
  <2>3. DueNow(chosen[w])
    BY <1>1, <2>2 DEF PlanInv
  <2>4. PICK i : i = Place(policy, bumps[a])
    OBVIOUS
  <2>5. /\ i \in DOMAIN policy.tiers /\ tier'[a] = policy.tiers[i].tier
        /\ age[a] >= Cumulative(policy.tiers, i)
    BY <2>2, <2>3, <2>4 DEF DueNow
  <2>6. DryRun(policy)[i] = [tier |-> policy.tiers[i].tier, minutes |-> Cumulative(policy.tiers, i)]
    BY <2>5 DEF DryRun
  <2> QED
    BY <2>4, <2>5, <2>6 DEF Place
<1>2. FollowsDryRun => [FollowsDryRun]_vars
  OBVIOUS
<1>3. PlanInv /\ TypeOK /\ LateInv /\ [Next]_vars => PlanInv'
  BY PlanStep
<1> QED
  BY <1>1, <1>2, <1>3, TypeCorrect, LateInit, LateStep, PlanInit, PTL
     DEF Spec, EngineFollowsDryRun, FollowsDryRun
=============================================================================
