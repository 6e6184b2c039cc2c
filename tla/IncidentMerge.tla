---------------------------- MODULE IncidentMerge ----------------------------
(***************************************************************************)
(* The incident knowledge base of pkg/incident (service.go, store.go) and  *)
(* the enrichment of new alerts from it (pkg/alert/enrich.go).  A merge is *)
(* five statements without a transaction: it reads target and source,      *)
(* writes the union to the target, marks the source and reassigns its      *)
(* alerts.  Merges, edits, archiving and enrichment interleave.            *)
(*                                                                         *)
(* The columns a merge unites (fingerprints, tags, services and so on) are *)
(* treated alike; fingerprints stand for them.  The best-of columns        *)
(* (solution, severity), history rows and the audit log are left out, the  *)
(* BookOwl fallback of the enrichment too: it names no incident.           *)
(***************************************************************************)
EXTENDS Naturals

CONSTANTS
    Incidents,     \* ids the incidents table can hand out (a bound: rows are never deleted)
    Fingerprints,
    Alerts,        \* new alerts to be enriched
    Merges,        \* slots for merge requests handled at once
    MaxFailures,   \* a bound: failed statements
    None           \* no incident

ASSUME ConstantsAssumption ==
    /\ None \notin Incidents
    /\ MaxFailures \in Nat

VARIABLES
    \* the tables
    exists,      \* the incidents that were created
    fps,         \* fps[i], the fingerprints column
    mergedInto,  \* mergedInto[i], the merged_into_id column; i itself once it is archived
    matched,     \* matched[a], the matched_incident_id column of an alert
    \* merge requests
    pc,          \* pc[m], the statement the merge in slot m executes next
    source,      \* source[m], sourceID
    target,      \* target[m], targetID
    read,        \* read[m], the fingerprints of target and source as the merge read them
    \* enrichments
    stage,       \* stage[a], what the enrichment of a does next
    found,       \* found[a], the incident it looked up
    \* history
    raced,       \* raced[m]: another merge, an edit or an archiving touched its incidents
    tangled,     \* whether a merge that raced has marked its source
    excused,     \* alerts that an overlap or a failure may leave on a merged incident
    failures     \* failed statements

tables == <<exists, fps, mergedInto, matched>>
merges == <<pc, source, target, read, raced>>
enrichments == <<stage, found>>
vars == <<tables, merges, enrichments, tangled, excused, failures>>

Live == {i \in exists : mergedInto[i] = None}

Touches(m, i) == pc[m] # "idle" /\ i \in {source[m], target[m]}

\* A statement outside slot m touches incident i.
RacedBy(i) == [m \in Merges |-> raced[m] \/ Touches(m, i)]

\* The slot goes on to statement next of its merge.
Goto(m, next) ==
    /\ pc' = [pc EXCEPT ![m] = next]
    /\ UNCHANGED <<source, target, raced>>

Done(m) ==
    /\ pc' = [pc EXCEPT ![m] = "idle"]
    /\ source' = [source EXCEPT ![m] = None]
    /\ target' = [target EXCEPT ![m] = None]
    /\ read' = [read EXCEPT ![m] = {}]
    /\ raced' = [raced EXCEPT ![m] = FALSE]

-----------------------------------------------------------------------------
(* Merge.                                                                  *)

\* Faulty variant: whether the target is merged itself is not looked at.
GetTargetUnchecked(m, t, s) ==
    /\ pc[m] = "idle"
    /\ t # s
    /\ t \in exists /\ s \in exists
    /\ pc' = [pc EXCEPT ![m] = "get_source"]
    /\ target' = [target EXCEPT ![m] = t]
    /\ source' = [source EXCEPT ![m] = s]
    /\ read' = [read EXCEPT ![m] = fps[t]]
    /\ raced' = [q \in Merges |->
                   IF q = m THEN \E p \in Merges : Touches(p, t) \/ Touches(p, s)
                            ELSE raced[q] \/ Touches(q, t) \/ Touches(q, s)]
    /\ UNCHANGED <<tables, enrichments, tangled, excused, failures>>

\* A target that is merged or archived is refused.
GetTarget(m, t, s) ==
    /\ pc[m] = "idle"
    /\ t # s
    /\ t \in Live /\ s \in exists
    /\ pc' = [pc EXCEPT ![m] = "get_source"]
    /\ target' = [target EXCEPT ![m] = t]
    /\ source' = [source EXCEPT ![m] = s]
    /\ read' = [read EXCEPT ![m] = fps[t]]
    /\ raced' = [q \in Merges |->
                   IF q = m THEN \E p \in Merges : Touches(p, t) \/ Touches(p, s)
                            ELSE raced[q] \/ Touches(q, t) \/ Touches(q, s)]
    /\ UNCHANGED <<tables, enrichments, tangled, excused, failures>>

\* A source that is merged or archived is refused.
GetSource(m) ==
    /\ pc[m] = "get_source"
    /\ IF source[m] \in Live
         THEN Goto(m, "update") /\ read' = [read EXCEPT ![m] = @ \union fps[source[m]]]
         ELSE Done(m)
    /\ UNCHANGED <<tables, enrichments, tangled, excused, failures>>

\* Faulty variant: the source is marked before the target has what it knew.
UpdateTargetAfterMark(m) ==
    /\ pc[m] = "update"
    /\ mergedInto[source[m]] = None
    /\ mergedInto' = [mergedInto EXCEPT ![source[m]] = target[m]]
    /\ Goto(m, "mark")
    /\ UNCHANGED <<exists, fps, matched, read, enrichments, tangled, excused, failures>>

\* Overwrites the columns of the target with what was read, WHERE id = $1.
UpdateTarget(m) ==
    /\ pc[m] = "update"
    /\ fps' = [fps EXCEPT ![target[m]] = read[m]]
    /\ Goto(m, "mark")
    /\ UNCHANGED <<exists, mergedInto, matched, read, enrichments, tangled, excused, failures>>

\* SetMergedInto, WHERE merged_into_id IS NULL; no row is an error.
MarkSource(m) ==
    /\ pc[m] = "mark"
    /\ IF mergedInto[source[m]] = None
         THEN /\ mergedInto' = [mergedInto EXCEPT ![source[m]] = target[m]]
              /\ Goto(m, "reassign") /\ UNCHANGED read
              /\ tangled' = (tangled \/ raced[m])
              /\ excused' = excused \union {a \in Alerts : found[a] = source[m]}
         ELSE Done(m) /\ UNCHANGED <<mergedInto, tangled, excused>>
    /\ UNCHANGED <<exists, fps, matched, enrichments, failures>>

\* Faulty variant: the columns of the statement are swapped.
ReassignAlertsBackwards(m) ==
    /\ pc[m] = "reassign"
    /\ matched' = [a \in Alerts |-> IF matched[a] = target[m] THEN source[m] ELSE matched[a]]
    /\ Done(m)
    /\ UNCHANGED <<exists, fps, mergedInto, enrichments, tangled, excused, failures>>

ReassignAlerts(m) ==
    /\ pc[m] = "reassign"
    /\ LET moved == {a \in Alerts : matched[a] = source[m]} IN
         /\ matched' = [a \in Alerts |-> IF a \in moved THEN target[m] ELSE matched[a]]
         /\ excused' = IF raced[m] THEN excused \union moved ELSE excused
    /\ Done(m)
    /\ UNCHANGED <<exists, fps, mergedInto, enrichments, tangled, failures>>

Failure ==
    /\ failures < MaxFailures
    /\ failures' = failures + 1

\* Nothing is undone.  When the last statement fails that is only logged.
MergeFails(m) ==
    /\ Failure
    /\ pc[m] # "idle"
    /\ Done(m)
    /\ excused' = IF pc[m] = "reassign"
                    THEN excused \union {a \in Alerts : matched[a] = source[m]}
                    ELSE excused
    /\ UNCHANGED <<tables, enrichments, tangled>>

-----------------------------------------------------------------------------
(* The other operations of the service, a statement each.                  *)

Create(i, F) ==
    /\ i \notin exists
    /\ exists' = exists \union {i}
    /\ fps' = [fps EXCEPT ![i] = F]
    /\ UNCHANGED <<mergedInto, matched, merges, enrichments, tangled, excused, failures>>

\* Update replaces the columns, of a merged incident too; the Get before it serves the history.
Update(i, F) ==
    /\ i \in exists
    /\ fps' = [fps EXCEPT ![i] = F]
    /\ raced' = RacedBy(i)
    /\ UNCHANGED <<exists, mergedInto, matched, pc, source, target, read, enrichments, tangled,
                   excused, failures>>

\* Delete: SoftDelete, WHERE merged_into_id IS NULL.
Delete(i) ==
    /\ i \in Live
    /\ mergedInto' = [mergedInto EXCEPT ![i] = i]
    /\ raced' = RacedBy(i)
    /\ UNCHANGED <<exists, fps, matched, pc, source, target, read, enrichments, tangled,
                   excused, failures>>

-----------------------------------------------------------------------------
(* Enrich.                                                                 *)

Found(a, i) ==
    /\ found' = [found EXCEPT ![a] = i]
    /\ stage' = [stage EXCEPT ![a] = "apply"]

EnrichmentOnly == UNCHANGED <<exists, fps, mergedInto, merges, tangled, excused>>

\* matchByFingerprint: any live incident with the fingerprint, LIMIT 1 without an order.
MatchByFingerprint(a, f) ==
    /\ stage[a] = "new"
    /\ LET S == {i \in Live : f \in fps[i]} IN
         \/ \E i \in S : Found(a, i)
         \/ S = {} /\ stage' = [stage EXCEPT ![a] = "search"] /\ UNCHANGED found
    /\ EnrichmentOnly
    /\ UNCHANGED <<matched, failures>>

\* Faulty variant: whether there was a match is not asked.
MatchByTextSearchUnasked(a) ==
    /\ stage[a] = "search"
    /\ \E i \in Live \union {None} : Found(a, i)
    /\ EnrichmentOnly
    /\ UNCHANGED <<matched, failures>>

\* matchByTextSearch: any live incident may rank best, or none well enough.
MatchByTextSearch(a) ==
    /\ stage[a] = "search"
    /\ \/ \E i \in Live : Found(a, i)
       \/ stage' = [stage EXCEPT ![a] = "done"] /\ UNCHANGED found
    /\ EnrichmentOnly
    /\ UNCHANGED <<matched, failures>>

EndEnrichment(a) ==
    /\ stage' = [stage EXCEPT ![a] = "done"]
    /\ found' = [found EXCEPT ![a] = None]

\* The incident is not looked at again.
ApplyEnrichment(a) ==
    /\ stage[a] = "apply"
    /\ matched' = [matched EXCEPT ![a] = found[a]]
    /\ EndEnrichment(a)
    /\ EnrichmentOnly
    /\ UNCHANGED failures

\* A lookup that fails goes on to the next one; the update is given up.
EnrichmentFails(a) ==
    /\ Failure
    /\ \/ stage[a] = "new" /\ stage' = [stage EXCEPT ![a] = "search"] /\ UNCHANGED found
       \/ stage[a] \in {"search", "apply"} /\ EndEnrichment(a)
    /\ EnrichmentOnly
    /\ UNCHANGED matched

-----------------------------------------------------------------------------
Init ==
    /\ exists = {}
    /\ fps = [i \in Incidents |-> {}]
    /\ mergedInto = [i \in Incidents |-> None]
    /\ matched = [a \in Alerts |-> None]
    /\ pc = [m \in Merges |-> "idle"]
    /\ source = [m \in Merges |-> None]
    /\ target = [m \in Merges |-> None]
    /\ read = [m \in Merges |-> {}]
    /\ stage = [a \in Alerts |-> "new"]
    /\ found = [a \in Alerts |-> None]
    /\ raced = [m \in Merges |-> FALSE]
    /\ tangled = FALSE
    /\ excused = {}
    /\ failures = 0

Merge(m) ==
    \/ \E t, s \in Incidents : GetTarget(m, t, s)
    \/ GetSource(m)
    \/ UpdateTarget(m)
    \/ MarkSource(m)
    \/ ReassignAlerts(m)
    \/ MergeFails(m)

Enrich(a) ==
    \/ \E f \in Fingerprints : MatchByFingerprint(a, f)
    \/ MatchByTextSearch(a)
    \/ ApplyEnrichment(a)
    \/ EnrichmentFails(a)

Next ==
    \/ \E m \in Merges : Merge(m)
    \/ \E i \in Incidents, F \in SUBSET Fingerprints : Create(i, F) \/ Update(i, F)
    \/ \E i \in Incidents : Delete(i)
    \/ \E a \in Alerts : Enrich(a)

Spec == Init /\ [][Next]_vars

-----------------------------------------------------------------------------
TypeOK ==
    /\ exists \in SUBSET Incidents
    /\ fps \in [Incidents -> SUBSET Fingerprints]
    /\ mergedInto \in [Incidents -> exists \union {None}]
    /\ matched \in [Alerts -> exists \union {None}]
    /\ pc \in [Merges -> {"idle", "get_source", "update", "mark", "reassign"}]
    /\ source \in [Merges -> exists \union {None}]
    /\ target \in [Merges -> exists \union {None}]
    /\ read \in [Merges -> SUBSET Fingerprints]
    /\ stage \in [Alerts -> {"new", "search", "apply", "done"}]
    /\ found \in [Alerts -> exists \union {None}]
    /\ \A a \in Alerts : stage[a] = "apply" <=> found[a] # None
    /\ raced \in [Merges -> BOOLEAN]
    /\ tangled \in BOOLEAN
    /\ excused \in SUBSET Alerts
    /\ failures \in 0..MaxFailures

\* Whoever follows merged_into_id from a member of S stays in S.
Closed(S) == \A i \in S : mergedInto[i] \in S \union {None}

(***************************************************************************)
(* As long as no merge raced with another one, an edit or an archiving of  *)
(* its incidents, following merged_into_id ends at an incident that is     *)
(* live or archived, never in a circle of merges, although target and      *)
(* source are checked in statements before they are written (service.go,   *)
(* Merge): wherever that leads, in particular around a circle, such an     *)
(* incident is among those that are passed.                                *)
(***************************************************************************)
MergesEnd ==
    ~tangled =>
        \A S \in (SUBSET exists) \ {{}} :
            Closed(S) => \E i \in S : mergedInto[i] \in {None, i}

\* The fingerprints for which an enrichment finds an incident.
Known == UNION {fps[i] : i \in Live}

(***************************************************************************)
(* A merge never makes the enrichment forget a fingerprint, not even in    *)
(* the middle of it or when it fails half-way: the target has what the     *)
(* source knew before the source is marked.  Only a merge that raced may   *)
(* (service.go, Merge; enrich.go, matchByFingerprint).                     *)
(***************************************************************************)
MergeForgetsNothing ==
    [][\A m \in Merges : pc'[m] # pc[m] /\ ~raced[m] => Known \subseteq Known']_vars

(***************************************************************************)
(* service.go:233, "All alerts referencing source are reassigned to        *)
(* target": an alert is left on an incident that was merged only while the *)
(* merge is about to reassign it, when that failed, when its enrichment    *)
(* had looked the incident up before, or when merges raced.                *)
(***************************************************************************)
AlertsFollowMerges ==
    \A a \in Alerts \ excused :
        LET i == matched[a] IN
          i # None /\ mergedInto[i] \notin {None, i} =>
              \E m \in Merges : pc[m] = "reassign" /\ source[m] = i
=============================================================================
