------------------------ MODULE IncidentMerge_proofs ------------------------
(***************************************************************************)
(* Proofs about IncidentMerge, for every number of incidents, alerts and   *)
(* merges handled at once.                                                 *)
(***************************************************************************)
EXTENDS IncidentMerge, TLAPS

\* A merge under way has two incidents that exist.
BusyHasTwo ==
    \A m \in Merges : pc[m] # "idle" =>
        source[m] \in exists /\ target[m] \in exists /\ source[m] # target[m]

\* Merges of the same incident know that they raced.
SharingIsRaced ==
    \A m, p \in Merges, i \in Incidents : m # p /\ Touches(m, i) /\ Touches(p, i) => raced[m]

\* What a merge that did not race found live, still is.
CleanIsLive ==
    \A m \in Merges : pc[m] # "idle" /\ ~raced[m] =>
        /\ mergedInto[target[m]] = None
        /\ pc[m] \in {"update", "mark"} => mergedInto[source[m]] = None

\* What a merge that did not race read, is still there.
CleanReadHolds ==
    \A m \in Merges : ~raced[m] =>
        /\ pc[m] = "get_source" => read[m] = fps[target[m]]
        /\ pc[m] = "update" => read[m] = fps[target[m]] \union fps[source[m]]
        /\ pc[m] = "mark" => fps[source[m]] \subseteq fps[target[m]]

\* An enrichment that holds an incident merged meanwhile is excused.
LookedUpIsLive ==
    \A a \in Alerts \ excused : found[a] # None => mergedInto[found[a]] \in {None, found[a]}

MergeInv == TypeOK /\ BusyHasTwo /\ SharingIsRaced /\ CleanIsLive /\ CleanReadHolds

AlertInv == LookedUpIsLive /\ AlertsFollowMerges

-----------------------------------------------------------------------------
LEMMA TypeInit == Init => TypeOK
<1> SUFFICES ASSUME Init PROVE TypeOK
  OBVIOUS
<1> USE ConstantsAssumption DEF Init
<1>1. raced \in [Merges -> BOOLEAN] /\ tangled \in BOOLEAN
  BY Zenon
<1>2. failures \in 0..MaxFailures /\ excused \in SUBSET Alerts
  OBVIOUS
<1> QED
  BY <1>1, <1>2 DEF TypeOK

LEMMA EnrichCases ==
    ASSUME NEW a \in Alerts, Enrich(a)
    PROVE  /\ UNCHANGED <<exists, fps, mergedInto, merges, tangled, excused>>
           /\ \/ \E i \in Live : Found(a, i) /\ UNCHANGED <<matched, failures>>
              \/ stage[a] = "new" /\ stage' = [stage EXCEPT ![a] = "search"]
                 /\ UNCHANGED <<matched, found>> /\ (Failure \/ UNCHANGED failures)
              \/ stage[a] \in {"search", "apply"} /\ EndEnrichment(a) /\ UNCHANGED matched /\ Failure
              \/ stage[a] = "search" /\ stage' = [stage EXCEPT ![a] = "done"]
                 /\ UNCHANGED <<matched, found, failures>>
              \/ stage[a] = "apply" /\ matched' = [matched EXCEPT ![a] = found[a]] /\ EndEnrichment(a)
                 /\ UNCHANGED failures
<1> USE DEF EnrichmentOnly
<1>1. CASE \E f \in Fingerprints : MatchByFingerprint(a, f)
  BY <1>1 DEF MatchByFingerprint
<1>2. CASE MatchByTextSearch(a)
  BY <1>2 DEF MatchByTextSearch
<1>3. CASE ApplyEnrichment(a)
  BY <1>3 DEF ApplyEnrichment
<1>4. CASE EnrichmentFails(a)
  BY <1>4 DEF EnrichmentFails
<1> QED
  BY <1>1, <1>2, <1>3, <1>4 DEF Enrich

LEMMA TypeStep == TypeOK /\ [Next]_vars => TypeOK'
<1> SUFFICES ASSUME TypeOK, [Next]_vars PROVE TypeOK'
  OBVIOUS
<1> USE ConstantsAssumption DEF TypeOK, tables, merges, enrichments
<1>1. ASSUME NEW m \in Merges, NEW t \in Incidents, NEW s \in Incidents, GetTarget(m, t, s) PROVE TypeOK'
  BY <1>1 DEF GetTarget, Live, Touches
<1>2. ASSUME NEW m \in Merges, GetSource(m) PROVE TypeOK'
  <2>1. CASE source[m] \in Live
    <3>1. fps[source[m]] \in SUBSET Fingerprints /\ read[m] \in SUBSET Fingerprints
      BY <2>1 DEF Live
    <3>2. read' = [read EXCEPT ![m] = read[m] \union fps[source[m]]]
      BY <1>2, <2>1 DEF GetSource
    <3>3. read' \in [Merges -> SUBSET Fingerprints]
      BY <3>1, <3>2
    <3> QED
      BY <1>2, <2>1, <3>3 DEF GetSource, Goto
  <2>2. CASE source[m] \notin Live
    BY <1>2, <2>2 DEF GetSource, Done
  <2> QED
    BY <2>1, <2>2
<1>3. ASSUME NEW m \in Merges, UpdateTarget(m) PROVE TypeOK'
  BY <1>3 DEF UpdateTarget, Goto
<1>4. ASSUME NEW m \in Merges, MarkSource(m) PROVE TypeOK'
  <2>1. CASE mergedInto[source[m]] = None
    <3>1. source[m] \in exists \union {None} /\ target[m] \in exists \union {None}
      OBVIOUS
    <3>2. mergedInto' \in [Incidents -> exists \union {None}]
      BY <1>4, <2>1, <3>1 DEF MarkSource
    <3>3. /\ tangled' \in BOOLEAN /\ excused' \in SUBSET Alerts
          /\ Goto(m, "reassign") /\ UNCHANGED read
      BY <1>4, <2>1 DEF MarkSource
    <3>4. UNCHANGED <<exists, fps, matched, enrichments, failures>>
      BY <1>4 DEF MarkSource
    <3> QED
      BY <3>2, <3>3, <3>4 DEF Goto
  <2>2. CASE mergedInto[source[m]] # None
    <3>1. UNCHANGED <<exists, fps, mergedInto, matched, enrichments, tangled, excused, failures>>
      BY <1>4, <2>2 DEF MarkSource
    <3>2. Done(m)
      BY <1>4, <2>2 DEF MarkSource
    <3> QED
      BY <3>1, <3>2 DEF Done
  <2> QED
    BY <2>1, <2>2
<1>5. ASSUME NEW m \in Merges, ReassignAlerts(m) PROVE TypeOK'
  BY <1>5 DEF ReassignAlerts, Done
<1>6. ASSUME NEW m \in Merges, MergeFails(m) PROVE TypeOK'
  BY <1>6 DEF MergeFails, Failure, Done
<1>7. ASSUME NEW i \in Incidents, NEW F \in SUBSET Fingerprints, Create(i, F) PROVE TypeOK'
  BY <1>7 DEF Create
<1>8. ASSUME NEW i \in Incidents, NEW F \in SUBSET Fingerprints, Update(i, F) PROVE TypeOK'
  BY <1>8 DEF Update, RacedBy, Touches
<1>9. ASSUME NEW i \in Incidents, Delete(i) PROVE TypeOK'
  BY <1>9 DEF Delete, Live, RacedBy, Touches
<1>10. ASSUME NEW a \in Alerts, Enrich(a) PROVE TypeOK'
  BY <1>10, EnrichCases DEF Found, EndEnrichment, Live, Failure
<1>11. CASE UNCHANGED vars
  BY <1>11 DEF vars
<1> QED
  BY <1>1, <1>2, <1>3, <1>4, <1>5, <1>6, <1>7, <1>8, <1>9, <1>10, <1>11 DEF Next, Merge

(* TypeOK is inductive.                                                    *)
THEOREM TypeCorrect == Spec => []TypeOK
<1>1. Init => TypeOK
  BY TypeInit
<1>2. TypeOK /\ [Next]_vars => TypeOK'
  BY TypeStep
<1> QED
  BY <1>1, <1>2, PTL DEF Spec

-----------------------------------------------------------------------------
(* Where an incident was merged to is decided once.                        *)

MergedOnce == \A i \in Incidents : mergedInto[i] # None => mergedInto'[i] = mergedInto[i]

(***************************************************************************)
(* Whatever merges of the same source, archiving and edits overlap, where  *)
(* an incident was merged to never changes (store.go, SetMergedInto and    *)
(* SoftDelete).                                                            *)
(***************************************************************************)
THEOREM MergedOnceCorrect == Spec => [][MergedOnce]_vars
<1>1. ASSUME TypeOK, [Next]_vars PROVE MergedOnce \/ UNCHANGED vars
  <2> USE <1>1 DEF MergedOnce, tables, TypeOK
  <2>1. ASSUME NEW m \in Merges, MarkSource(m) PROVE MergedOnce
    BY <2>1 DEF MarkSource
  <2>2. ASSUME NEW i \in Incidents, Delete(i) PROVE MergedOnce
    BY <2>2 DEF Delete, Live
  <2>3. ASSUME UNCHANGED mergedInto PROVE MergedOnce
    BY <2>3
  <2>4. ASSUME NEW m \in Merges, Merge(m) PROVE MergedOnce
    BY <2>1, <2>3, <2>4 DEF Merge, GetTarget, GetSource, UpdateTarget, ReassignAlerts, MergeFails
  <2>5. ASSUME NEW a \in Alerts, Enrich(a) PROVE MergedOnce
    BY <2>3, <2>5, EnrichCases
  <2> QED
    BY <2>2, <2>3, <2>4, <2>5 DEF Next, Create, Update
<1> QED
  BY <1>1, TypeCorrect, PTL DEF Spec

-----------------------------------------------------------------------------
(* What a merge that did not race relies on.                               *)

LEMMA MergeInit == Init => MergeInv
<1> SUFFICES ASSUME Init PROVE MergeInv
  OBVIOUS
<1>1. \A m \in Merges : pc[m] = "idle"
  BY DEF Init
<1> QED
  BY <1>1, TypeInit DEF MergeInv, BusyHasTwo, SharingIsRaced, CleanIsLive, CleanReadHolds, Touches

\* Statements that touch neither incidents nor merges.
LEMMA MergeUntouched ==
    MergeInv /\ UNCHANGED <<exists, fps, mergedInto, merges>> /\ TypeOK' => MergeInv'
BY DEF MergeInv, BusyHasTwo, SharingIsRaced, CleanIsLive, CleanReadHolds, Touches, merges

\* A merge begins: it shares its incidents with nobody, or they know.
LEMMA GetTargetKeeps ==
    ASSUME MergeInv, TypeOK', NEW m \in Merges, NEW t \in Incidents, NEW s \in Incidents,
           GetTarget(m, t, s)
    PROVE  MergeInv'
<1> USE DEF MergeInv, TypeOK, tables
<1>1. BusyHasTwo'
  BY DEF GetTarget, BusyHasTwo, Live
<1>2. SharingIsRaced'
  <2> SUFFICES ASSUME NEW p \in Merges, NEW q \in Merges, NEW i \in Incidents, p # q,
                      Touches(p, i)', Touches(q, i)'
               PROVE  raced'[p]
    BY DEF SharingIsRaced
  <2>1. CASE p = m
    BY <2>1 DEF GetTarget, Touches
  <2>2. CASE p # m /\ q = m
    BY <2>2 DEF GetTarget, Touches
  <2>3. CASE p # m /\ q # m
    BY <2>3 DEF GetTarget, Touches, SharingIsRaced
  <2> QED
    BY <2>1, <2>2, <2>3
<1>3. CleanIsLive'
  BY DEF GetTarget, CleanIsLive, Live
<1>4. CleanReadHolds'
  BY DEF GetTarget, CleanReadHolds
<1> QED
  BY <1>1, <1>2, <1>3, <1>4

\* A merge ends.
LEMMA DoneKeeps ==
    ASSUME MergeInv, TypeOK', NEW m \in Merges, Done(m), UNCHANGED <<exists, fps, mergedInto>>
    PROVE  MergeInv'
<1> USE DEF MergeInv, TypeOK, Done
<1>1. BusyHasTwo'
  BY DEF BusyHasTwo
<1>2. SharingIsRaced'
  BY DEF SharingIsRaced, Touches
<1>3. CleanIsLive'
  BY DEF CleanIsLive
<1>4. CleanReadHolds'
  BY DEF CleanReadHolds
<1> QED
  BY <1>1, <1>2, <1>3, <1>4

LEMMA GetSourceKeeps ==
    ASSUME MergeInv, TypeOK', NEW m \in Merges, GetSource(m)
    PROVE  MergeInv'
<1>1. CASE source[m] \notin Live
  BY <1>1, DoneKeeps DEF GetSource, tables
<1>2. CASE source[m] \in Live
  <2> USE <1>2 DEF MergeInv, TypeOK, tables, GetSource, Goto
  <2>1. BusyHasTwo'
    BY DEF BusyHasTwo
  <2>2. SharingIsRaced'
    BY DEF SharingIsRaced, Touches
  <2>3. CleanIsLive'
    BY DEF CleanIsLive, Live
  <2>4. CleanReadHolds'
    BY DEF CleanReadHolds
  <2> QED
    BY <2>1, <2>2, <2>3, <2>4
<1> QED
  BY <1>1, <1>2

\* Another merge that reads or writes the target knows that it raced.
LEMMA UpdateTargetKeeps ==
    ASSUME MergeInv, TypeOK', NEW m \in Merges, UpdateTarget(m)
    PROVE  MergeInv'
<1> USE DEF MergeInv, TypeOK, UpdateTarget, Goto
<1>1. BusyHasTwo'
  BY DEF BusyHasTwo
<1>2. SharingIsRaced'
  BY DEF SharingIsRaced, Touches
<1>3. CleanIsLive'
  BY DEF CleanIsLive
<1>4. CleanReadHolds'
  <2> SUFFICES ASSUME NEW p \in Merges, ~raced[p]
               PROVE  /\ pc'[p] = "get_source" => read[p] = fps'[target[p]]
                      /\ pc'[p] = "update" => read[p] = fps'[target[p]] \union fps'[source[p]]
                      /\ pc'[p] = "mark" => fps'[source[p]] \subseteq fps'[target[p]]
    BY DEF CleanReadHolds
  <2>1. CASE p = m
    BY <2>1 DEF CleanReadHolds, BusyHasTwo
  <2>2. CASE p # m /\ pc[p] # "idle"
    <3>1. target[m] # target[p] /\ target[m] # source[p]
      BY <2>2 DEF SharingIsRaced, Touches, BusyHasTwo
    <3>2. fps'[target[p]] = fps[target[p]] /\ fps'[source[p]] = fps[source[p]] /\ pc'[p] = pc[p]
      BY <3>1, <2>2 DEF BusyHasTwo
    <3> QED
      BY <3>2, <2>2 DEF CleanReadHolds
  <2>3. CASE p # m /\ pc[p] = "idle"
    BY <2>3
  <2> QED
    BY <2>1, <2>2, <2>3
<1> QED
  BY <1>1, <1>2, <1>3, <1>4

LEMMA MarkSourceKeeps ==
    ASSUME MergeInv, TypeOK', NEW m \in Merges, MarkSource(m)
    PROVE  MergeInv'
<1>1. CASE mergedInto[source[m]] # None
  BY <1>1, DoneKeeps DEF MarkSource
<1>2. CASE mergedInto[source[m]] = None
  <2>1. BusyHasTwo'
    BY <1>2 DEF BusyHasTwo, MergeInv, TypeOK, MarkSource, Goto
  <2>2. SharingIsRaced'
    <3>1. raced' = raced /\ \A p \in Merges, i \in Incidents : Touches(p, i)' <=> Touches(p, i)
      BY <1>2 DEF Touches, MergeInv, TypeOK, MarkSource, Goto
    <3> QED
      BY <3>1 DEF MergeInv, SharingIsRaced
  <2> USE <1>2 DEF MergeInv, TypeOK, MarkSource, Goto
  <2>3. CleanIsLive'
    <3> SUFFICES ASSUME NEW p \in Merges, pc'[p] # "idle", ~raced[p]
                 PROVE  /\ mergedInto'[target[p]] = None
                        /\ pc'[p] \in {"update", "mark"} => mergedInto'[source[p]] = None
      BY DEF CleanIsLive
    <3>1. CASE p = m
      BY <3>1 DEF CleanIsLive, BusyHasTwo
    <3>2. CASE p # m
      <4>1. source[m] # target[p] /\ source[m] # source[p] /\ pc'[p] = pc[p]
        BY <3>2 DEF SharingIsRaced, Touches, BusyHasTwo
      <4> QED
        BY <4>1 DEF CleanIsLive, BusyHasTwo
    <3> QED
      BY <3>1, <3>2
  <2>4. CleanReadHolds'
    BY DEF CleanReadHolds
  <2> QED
    BY <2>1, <2>2, <2>3, <2>4
<1> QED
  BY <1>1, <1>2

\* Edits and archiving tell the merges of the incident.
LEMMA OthersKeep ==
    ASSUME MergeInv, TypeOK', NEW i \in Incidents, NEW F \in SUBSET Fingerprints,
           Create(i, F) \/ Update(i, F) \/ Delete(i)
    PROVE  MergeInv'
<1> USE DEF MergeInv, TypeOK, merges, RacedBy, Touches
<1>1. BusyHasTwo'
  BY DEF BusyHasTwo, Create, Update, Delete
<1>2. SharingIsRaced'
  BY DEF SharingIsRaced, Create, Update, Delete
<1>3. CleanIsLive'
  BY DEF CleanIsLive, BusyHasTwo, Create, Update, Delete
<1>4. CleanReadHolds'
  <2>1. CASE Create(i, F)
    BY <2>1 DEF CleanReadHolds, BusyHasTwo, Create
  <2>2. CASE Update(i, F)
    BY <2>2 DEF CleanReadHolds, BusyHasTwo, Update
  <2>3. CASE Delete(i)
    BY <2>3 DEF CleanReadHolds, BusyHasTwo, Delete
  <2> QED
    BY <2>1, <2>2, <2>3
<1> QED
  BY <1>1, <1>2, <1>3, <1>4

LEMMA MergeStep == MergeInv /\ [Next]_vars => MergeInv'
<1> SUFFICES ASSUME MergeInv, [Next]_vars PROVE MergeInv'
  OBVIOUS
<1> USE DEF tables
<1>1. TypeOK'
  BY TypeStep DEF MergeInv
<1>2. ASSUME NEW m \in Merges, Merge(m) PROVE MergeInv'
  BY <1>1, <1>2, GetTargetKeeps, GetSourceKeeps, UpdateTargetKeeps, MarkSourceKeeps, DoneKeeps
     DEF Merge, ReassignAlerts, MergeFails
<1>3. ASSUME NEW i \in Incidents, NEW F \in SUBSET Fingerprints, Create(i, F) \/ Update(i, F)
      PROVE  MergeInv'
  BY <1>1, <1>3, OthersKeep
<1>4. ASSUME NEW i \in Incidents, Delete(i) PROVE MergeInv'
  BY <1>1, <1>4, OthersKeep, {} \in SUBSET Fingerprints
<1>5. ASSUME NEW a \in Alerts, Enrich(a) PROVE MergeInv'
  BY <1>1, <1>5, EnrichCases, MergeUntouched
<1>6. CASE UNCHANGED vars
  BY <1>1, <1>6, MergeUntouched DEF vars
<1> QED
  BY <1>2, <1>3, <1>4, <1>5, <1>6 DEF Next

LEMMA MergeInvariant == Spec => []MergeInv
BY MergeInit, MergeStep, PTL DEF Spec

-----------------------------------------------------------------------------
(* Nothing is forgotten.                                                   *)

Remembers == \A m \in Merges : pc'[m] # pc[m] /\ ~raced[m] => Known \subseteq Known'

\* Between its statements the target knows what was read, and is live.
LEMMA UpdateTargetRemembers ==
    ASSUME MergeInv, NEW m \in Merges, UpdateTarget(m), ~raced[m]
    PROVE  Known \subseteq Known'
<1> USE DEF MergeInv, TypeOK, UpdateTarget
<1>1. fps[target[m]] \subseteq fps'[target[m]]
  BY DEF CleanReadHolds, BusyHasTwo
<1>2. \A i \in exists : fps[i] \subseteq fps'[i]
  BY <1>1
<1>3. Live' = Live
  BY DEF Live
<1> QED
  BY <1>2, <1>3 DEF Known, Live

LEMMA MarkSourceRemembers ==
    ASSUME MergeInv, NEW m \in Merges, MarkSource(m), ~raced[m]
    PROVE  Known \subseteq Known'
<1> USE DEF MergeInv, TypeOK, MarkSource
<1>1. /\ fps[source[m]] \subseteq fps[target[m]]
      /\ mergedInto[target[m]] = None
      /\ source[m] # target[m]
      /\ source[m] \in exists /\ target[m] \in exists
  BY DEF CleanReadHolds, CleanIsLive, BusyHasTwo
<1>2. target[m] \in Live' /\ fps' = fps
  BY <1>1 DEF Live
<1>3. Live \ {source[m]} \subseteq Live'
  BY <1>1 DEF Live
<1> QED
  BY <1>1, <1>2, <1>3 DEF Known

(***************************************************************************)
(* A merge that did not race never makes the enrichment forget a           *)
(* fingerprint, for any number of incidents, fingerprints and merges       *)
(* (service.go, Merge; enrich.go, matchByFingerprint).                     *)
(***************************************************************************)
THEOREM MergeForgetsNothingCorrect == Spec => MergeForgetsNothing
<1>1. ASSUME MergeInv, [Next]_vars PROVE Remembers \/ UNCHANGED vars
  <2> USE <1>1 DEF tables
  <2>1. ASSUME NEW m \in Merges, UpdateTarget(m) PROVE Remembers
    BY <2>1, UpdateTargetRemembers DEF Remembers, UpdateTarget, Goto, MergeInv, TypeOK
  <2>2. ASSUME NEW m \in Merges, MarkSource(m) PROVE Remembers
    BY <2>2, MarkSourceRemembers DEF Remembers, MarkSource, Goto, Done, MergeInv, TypeOK
  <2>3. ASSUME UNCHANGED <<exists, fps, mergedInto>> PROVE Remembers
    BY <2>3 DEF Remembers, Known, Live
  <2>4. ASSUME UNCHANGED pc PROVE Remembers
    BY <2>4 DEF Remembers
  <2>5. ASSUME NEW m \in Merges, Merge(m) PROVE Remembers
    BY <2>1, <2>2, <2>3, <2>5 DEF Merge, GetTarget, GetSource, ReassignAlerts, MergeFails
  <2>6. ASSUME NEW a \in Alerts, Enrich(a) PROVE Remembers
    BY <2>3, <2>6, EnrichCases
  <2> QED
    BY <2>4, <2>5, <2>6 DEF Next, Create, Update, Delete, merges
<1>2. (Remembers \/ UNCHANGED vars) <=> [Remembers]_vars
  OBVIOUS
<1> QED
  BY <1>1, <1>2, MergeInvariant, PTL DEF Spec, MergeForgetsNothing, Remembers

-----------------------------------------------------------------------------
(* The alerts follow.                                                      *)

LEMMA AlertInit == Init => AlertInv
BY DEF Init, AlertInv, LookedUpIsLive, AlertsFollowMerges

LEMMA AlertUntouched ==
    ASSUME AlertInv, UNCHANGED <<mergedInto, matched, found, pc, source, excused>>
    PROVE  AlertInv'
BY DEF AlertInv, LookedUpIsLive, AlertsFollowMerges

\* A merge that has nothing to reassign moves on or ends.
LEMMA MergeMovesOn ==
    ASSUME AlertInv, TypeOK, NEW m \in Merges, pc[m] # "reassign",
           UNCHANGED <<mergedInto, matched, found, excused>>,
           \A p \in Merges \ {m} : pc'[p] = pc[p] /\ source'[p] = source[p]
    PROVE  AlertInv'
BY DEF AlertInv, LookedUpIsLive, AlertsFollowMerges, TypeOK

LEMMA MarkSourceFollows ==
    ASSUME AlertInv, MergeInv, NEW m \in Merges, MarkSource(m)
    PROVE  AlertInv'
<1> USE DEF MergeInv, TypeOK, MarkSource, enrichments
<1>1. CASE mergedInto[source[m]] # None
  BY <1>1, MergeMovesOn DEF Done
<1>2. CASE mergedInto[source[m]] = None
  <2> USE <1>2 DEF Goto
  <2>1. LookedUpIsLive'
    BY DEF AlertInv, LookedUpIsLive
  <2>2. AlertsFollowMerges'
    <3> SUFFICES ASSUME NEW a \in Alerts \ excused, matched[a] # None,
                        mergedInto'[matched[a]] \notin {None, matched[a]}
                 PROVE  \E p \in Merges : pc'[p] = "reassign" /\ source[p] = matched[a]
      BY DEF AlertsFollowMerges
    <3>1. CASE matched[a] = source[m]
      BY <3>1
    <3>2. CASE matched[a] # source[m]
      <4>1. mergedInto'[matched[a]] = mergedInto[matched[a]]
        BY <3>2
      <4>2. PICK p \in Merges : pc[p] = "reassign" /\ source[p] = matched[a]
        BY <4>1 DEF AlertInv, AlertsFollowMerges
      <4> QED
        BY <4>2
    <3> QED
      BY <3>1, <3>2
  <2> QED
    BY <2>1, <2>2 DEF AlertInv
<1> QED
  BY <1>1, <1>2

LEMMA ReassignAlertsFollows ==
    ASSUME AlertInv, MergeInv, NEW m \in Merges, ReassignAlerts(m)
    PROVE  AlertInv'
<1> USE DEF MergeInv, TypeOK, ReassignAlerts, Done, enrichments
<1>1. excused \subseteq excused'
  OBVIOUS
<1>2. LookedUpIsLive'
  BY <1>1 DEF AlertInv, LookedUpIsLive
<1>3. AlertsFollowMerges'
  <2> SUFFICES ASSUME NEW a \in Alerts \ excused', matched'[a] # None,
                      mergedInto[matched'[a]] \notin {None, matched'[a]}
               PROVE  \E p \in Merges : pc'[p] = "reassign" /\ source'[p] = matched'[a]
    BY DEF AlertsFollowMerges
  <2>1. CASE matched[a] = source[m]
    <3>1. ~raced[m] /\ matched'[a] = target[m]
      BY <2>1
    <3> QED
      BY <3>1 DEF CleanIsLive
  <2>2. CASE matched[a] # source[m]
    <3>1. matched'[a] = matched[a]
      BY <2>2
    <3>2. PICK p \in Merges : pc[p] = "reassign" /\ source[p] = matched[a]
      BY <1>1, <3>1 DEF AlertInv, AlertsFollowMerges
    <3> QED
      BY <2>2, <3>1, <3>2
  <2> QED
    BY <2>1, <2>2
<1> QED
  BY <1>2, <1>3 DEF AlertInv

LEMMA MergeFailsFollows ==
    ASSUME AlertInv, MergeInv, NEW m \in Merges, MergeFails(m)
    PROVE  AlertInv'
<1> USE DEF MergeInv, TypeOK, MergeFails, Done, enrichments, tables
<1>1. CASE pc[m] # "reassign"
  BY <1>1, MergeMovesOn
<1>2. CASE pc[m] = "reassign"
  BY <1>2 DEF AlertInv, LookedUpIsLive, AlertsFollowMerges
<1> QED
  BY <1>1, <1>2

LEMMA DeleteFollows ==
    ASSUME AlertInv, MergeInv, NEW i \in Incidents, Delete(i)
    PROVE  AlertInv'
BY DEF AlertInv, LookedUpIsLive, AlertsFollowMerges, MergeInv, TypeOK, Delete, enrichments

LEMMA EnrichFollows ==
    ASSUME AlertInv, MergeInv, NEW a \in Alerts, Enrich(a)
    PROVE  AlertInv'
<1> USE ConstantsAssumption, EnrichCases
    DEF MergeInv, TypeOK, Found, EndEnrichment, Live, merges
<1>1. LookedUpIsLive'
  BY DEF AlertInv, LookedUpIsLive
<1>2. AlertsFollowMerges'
  BY DEF AlertInv, LookedUpIsLive, AlertsFollowMerges
<1> QED
  BY <1>1, <1>2 DEF AlertInv

LEMMA AlertStep == AlertInv /\ MergeInv /\ [Next]_vars => AlertInv'
<1> SUFFICES ASSUME AlertInv, MergeInv, [Next]_vars PROVE AlertInv'
  OBVIOUS
<1> USE DEF tables, merges, enrichments
<1>1. ASSUME NEW m \in Merges, NEW t \in Incidents, NEW s \in Incidents, GetTarget(m, t, s)
      PROVE  AlertInv'
  BY <1>1, MergeMovesOn DEF GetTarget, MergeInv, TypeOK
<1>2. ASSUME NEW m \in Merges, GetSource(m) PROVE AlertInv'
  BY <1>2, MergeMovesOn DEF GetSource, Goto, Done, MergeInv, TypeOK
<1>3. ASSUME NEW m \in Merges, UpdateTarget(m) PROVE AlertInv'
  BY <1>3, MergeMovesOn DEF UpdateTarget, Goto, MergeInv, TypeOK
<1>4. ASSUME NEW m \in Merges, Merge(m) PROVE AlertInv'
  BY <1>1, <1>2, <1>3, <1>4, MarkSourceFollows, ReassignAlertsFollows, MergeFailsFollows DEF Merge
<1>5. ASSUME NEW i \in Incidents, NEW F \in SUBSET Fingerprints, Create(i, F) \/ Update(i, F)
      PROVE  AlertInv'
  BY <1>5, AlertUntouched DEF Create, Update
<1>6. CASE UNCHANGED vars
  BY <1>6, AlertUntouched DEF vars
<1> QED
  BY <1>4, <1>5, <1>6, DeleteFollows, EnrichFollows DEF Next

(***************************************************************************)
(* An alert is left on a merged incident only in the cases that            *)
(* AlertsFollowMerges names, for any number of merges and enrichments      *)
(* (service.go, Merge; enrich.go).                                         *)
(***************************************************************************)
THEOREM AlertsFollowMergesCorrect == Spec => []AlertsFollowMerges
<1>1. AlertInv => AlertsFollowMerges
  BY DEF AlertInv
<1> QED
  BY <1>1, AlertInit, AlertStep, MergeInvariant, PTL DEF Spec

-----------------------------------------------------------------------------
(* Following merged_into_id ends.                                          *)

\* A row that is not there yet has not been merged either.
FreshIsUnmerged == \A i \in Incidents \ exists : mergedInto[i] = None

EndInv == FreshIsUnmerged /\ MergesEnd

LEMMA EndInit == Init => EndInv
BY DEF Init, EndInv, FreshIsUnmerged, MergesEnd

LEMMA EndUntouched == EndInv /\ UNCHANGED <<exists, mergedInto, tangled>> => EndInv'
BY DEF EndInv, FreshIsUnmerged, MergesEnd, Closed

\* Whatever leads to the source leads on to the target, which is live.
LEMMA MarkSourceEnds ==
    ASSUME EndInv, MergeInv, NEW m \in Merges, MarkSource(m)
    PROVE  EndInv'
<1> USE DEF MarkSource
<1>1. CASE mergedInto[source[m]] # None
  BY <1>1, EndUntouched
<1>2. CASE mergedInto[source[m]] = None
  <2> USE <1>2 DEF MergeInv, TypeOK
  <2>1. source[m] \in exists /\ target[m] \in exists /\ source[m] # target[m]
    BY DEF BusyHasTwo
  <2>2. FreshIsUnmerged'
    BY <2>1 DEF EndInv, FreshIsUnmerged
  <2>3. MergesEnd'
    <3> SUFFICES ASSUME ~tangled', NEW S \in (SUBSET exists) \ {{}}, Closed(S)'
                 PROVE  \E i \in S : mergedInto'[i] \in {None, i}
      BY DEF MergesEnd
    <3>1. ~tangled /\ ~raced[m]
      OBVIOUS
    <3>2. CASE source[m] \in S
      <4>1. target[m] \in S
        BY <2>1, <3>2, ConstantsAssumption DEF Closed
      <4>2. mergedInto'[target[m]] = None
        BY <2>1, <3>1 DEF CleanIsLive
      <4> QED
        BY <4>1, <4>2
    <3>3. CASE source[m] \notin S
      <4>1. \A i \in S : mergedInto'[i] = mergedInto[i]
        BY <3>3
      <4> QED
        BY <3>1, <4>1 DEF EndInv, MergesEnd, Closed
    <3> QED
      BY <3>2, <3>3
  <2> QED
    BY <2>2, <2>3 DEF EndInv
<1> QED
  BY <1>1, <1>2

LEMMA CreateEnds ==
    ASSUME EndInv, NEW i \in Incidents, NEW F \in SUBSET Fingerprints, Create(i, F)
    PROVE  EndInv'
<1> USE DEF Create
<1>1. FreshIsUnmerged'
  BY DEF EndInv, FreshIsUnmerged
<1>2. MergesEnd'
  <2> SUFFICES ASSUME ~tangled, NEW S \in (SUBSET exists') \ {{}}, Closed(S)
               PROVE  \E j \in S : mergedInto[j] \in {None, j}
    BY DEF MergesEnd, Closed
  <2>1. CASE i \in S
    BY <2>1 DEF EndInv, FreshIsUnmerged
  <2>2. CASE i \notin S
    <3>1. S \in (SUBSET exists) \ {{}}
      BY <2>2
    <3> QED
      BY <3>1 DEF EndInv, MergesEnd
  <2> QED
    BY <2>1, <2>2
<1> QED
  BY <1>1, <1>2 DEF EndInv

\* An archived incident points to itself.
LEMMA DeleteEnds ==
    ASSUME EndInv, TypeOK, NEW i \in Incidents, Delete(i)
    PROVE  EndInv'
<1> USE DEF Delete, TypeOK, Live
<1>1. FreshIsUnmerged'
  BY DEF EndInv, FreshIsUnmerged
<1>2. MergesEnd'
  <2> SUFFICES ASSUME ~tangled, NEW S \in (SUBSET exists) \ {{}}, Closed(S)'
               PROVE  \E j \in S : mergedInto'[j] \in {None, j}
    BY DEF MergesEnd
  <2>1. CASE i \in S
    BY <2>1
  <2>2. CASE i \notin S
    <3>1. \A j \in S : mergedInto'[j] = mergedInto[j]
      BY <2>2
    <3> QED
      BY <3>1 DEF EndInv, MergesEnd, Closed
  <2> QED
    BY <2>1, <2>2
<1> QED
  BY <1>1, <1>2 DEF EndInv

LEMMA EndStep == EndInv /\ MergeInv /\ [Next]_vars => EndInv'
<1> SUFFICES ASSUME EndInv, MergeInv, [Next]_vars PROVE EndInv'
  OBVIOUS
<1> USE DEF tables
<1>1. ASSUME NEW m \in Merges, Merge(m) PROVE EndInv'
  BY <1>1, MarkSourceEnds, EndUntouched
     DEF Merge, GetTarget, GetSource, UpdateTarget, ReassignAlerts, MergeFails
<1>2. ASSUME NEW i \in Incidents, NEW F \in SUBSET Fingerprints, Create(i, F) \/ Update(i, F)
      PROVE  EndInv'
  BY <1>2, CreateEnds, EndUntouched DEF Update
<1>3. ASSUME NEW i \in Incidents, Delete(i) PROVE EndInv'
  BY <1>3, DeleteEnds DEF MergeInv
<1>4. ASSUME NEW a \in Alerts, Enrich(a) PROVE EndInv'
  BY <1>4, EnrichCases, EndUntouched
<1>5. CASE UNCHANGED vars
  BY <1>5, EndUntouched DEF vars
<1> QED
  BY <1>1, <1>2, <1>3, <1>4, <1>5 DEF Next

(***************************************************************************)
(* Merges that do not race never form a circle, whatever the number of     *)
(* incidents and of merges at once (service.go, Merge).                    *)
(***************************************************************************)
THEOREM MergesEndCorrect == Spec => []MergesEnd
<1>1. EndInv => MergesEnd
  BY DEF EndInv
<1> QED
  BY <1>1, EndInit, EndStep, MergeInvariant, PTL DEF Spec
=============================================================================
