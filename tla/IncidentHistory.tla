--------------------------- MODULE IncidentHistory ---------------------------
(***************************************************************************)
(* The change history of incidents (pkg/incident): each operation of the   *)
(* service reads, writes the incident and then, in a statement of its own, *)
(* inserts what it did into incident_history.  Requests overlap, any       *)
(* statement may fail, and a failed insert is only logged.                 *)
(*                                                                         *)
(* Five columns stand for those of an incident: the fingerprints; the      *)
(* tags, for the other lists that a merge unites (services, clusters,      *)
(* namespaces, error patterns); the solution, for the texts of which a     *)
(* merge keeps the longer one, of which only the length is looked at, and  *)
(* for the severity, of which it keeps the higher; the runbook; and the    *)
(* post-mortem URL, which has a statement of its own.  The entry of a      *)
(* merge has the fingerprints only.  Title and category, which a merge     *)
(* leaves alone, and the alerts that it reassigns (IncidentMerge) are left *)
(* out.                                                                    *)
(***************************************************************************)
EXTENDS Naturals, SequencesExt

CONSTANTS
    Incidents,     \* a bound: ids the incidents table can hand out
    Fingerprints,
    Tags,
    Lengths,       \* a bound: the lengths of solutions, 0 when there is none
    Runbooks,
    Urls,
    Reports,       \* a bound: the contents that incidents are created with
    Updates,       \* a bound: the contents that incidents are updated to
    Requests,      \* slots for requests handled at once
    MaxChanges,    \* a bound: requests that change something
    MaxFailures,   \* a bound: failed statements
    None           \* no URL, no runbook, no incident

\* What Create and Update are given.
Contents == [fps : SUBSET Fingerprints, tags : SUBSET Tags, solution : Lengths,
             runbook : Runbooks \union {None}]

ASSUME ConstantsAssumption ==
    /\ None \notin Incidents /\ None \notin Urls /\ None \notin Runbooks
    /\ Lengths \subseteq Nat
    /\ Reports \subseteq Contents /\ Updates \subseteq Contents
    /\ MaxChanges \in Nat /\ MaxFailures \in Nat

Columns == {"fps", "tags", "solution", "runbook", "url"}

\* A row of the incidents table; into is merged_into_id, the incident itself once it is archived.
Row == [fps : SUBSET Fingerprints, tags : SUBSET Tags, solution : Lengths,
        runbook : Runbooks \union {None}, url : Urls \union {None}, into : Incidents \union {None}]

ASSUME RowAssumption == None \notin Row

VARIABLES
    row,         \* row[i], or None
    history,     \* history[i], the rows of incident_history, oldest first; the kind of a row is its
                 \* change_type, with the key of the diff for the two rows of a merge
    request,     \* request[q], the local variables of the request in slot q
    detail,      \* the local variables of a GET of one incident; detail.seen, a history variable, is
                 \* the number of its entries when its row was read
    \* history variables
    born,        \* born[i], the row as it was inserted
    overlapped,  \* incidents that two requests worked on at once
    untold,      \* incidents with a change whose entry was not inserted
    changes, failures

tables == <<row, history>>
vars == <<tables, request, detail, born, overlapped, untold, changes, failures>>

Idle == [pc |-> "idle", on |-> {}, id |-> None, source |-> None, wanted |-> None,
         old |-> None, new |-> None]
NoDetail == [pc |-> "idle", id |-> None, row |-> None, seen |-> 0, history |-> <<>>]

Init ==
    /\ row = [i \in Incidents |-> None]
    /\ history = [i \in Incidents |-> <<>>]
    /\ request = [q \in Requests |-> Idle]
    /\ detail = NoDetail
    /\ born = [i \in Incidents |-> None]
    /\ overlapped = {} /\ untold = {}
    /\ changes = 0 /\ failures = 0

Exists(i) == row[i] # None

\* Slot q takes a request that works on the incidents S.
Takes(q, S) ==
    /\ request[q].pc = "idle"
    /\ changes < MaxChanges /\ changes' = changes + 1
    /\ overlapped' = overlapped \union {i \in S : \E p \in Requests : i \in request[p].on}

Goes(q, next) == request' = [request EXCEPT ![q] = [@ EXCEPT !.pc = next]]
Ends(q) == request' = [request EXCEPT ![q] = Idle]

Tell(i, entry) == history' = [history EXCEPT ![i] = Append(@, entry)]

-----------------------------------------------------------------------------
(* Creating.                                                               *)

\* The row that is inserted.
Inserted(c) == [fps |-> c.fps, tags |-> c.tags, solution |-> c.solution, runbook |-> c.runbook,
                url |-> None, into |-> None]

\* Service.Create; any other error of the insert leaves nothing behind.
Create(q, i, c) ==
    /\ Takes(q, {i})
    /\ ~Exists(i)
    /\ row' = [row EXCEPT ![i] = Inserted(c)]
    /\ born' = [born EXCEPT ![i] = Inserted(c)]
    /\ request' = [request EXCEPT ![q] = [Idle EXCEPT !.pc = "created", !.on = {i}, !.id = i]]
    /\ UNCHANGED <<history, detail, untold, failures>>

\* createAgentKBEntry gives the incident one fingerprint and no runbook, and inserts no history.
\* The dialogs of Slack and Mattermost insert nothing at all: they leave the fingerprints out,
\* which the table does not allow.
CreateAgentKBEntry(q, i, c) ==
    /\ Takes(q, {})
    /\ \E f \in Fingerprints : c.fps = {f}
    /\ c.runbook = None
    /\ ~Exists(i)
    /\ row' = [row EXCEPT ![i] = Inserted(c)]
    /\ born' = [born EXCEPT ![i] = Inserted(c)]
    /\ UNCHANGED <<history, request, detail, untold, failures>>

RecordCreation(q) ==
    /\ request[q].pc = "created"
    /\ Tell(request[q].id, [kind |-> "created"])
    /\ Ends(q)
    /\ UNCHANGED <<row, detail, born, overlapped, untold, changes, failures>>

-----------------------------------------------------------------------------
(* Editing: Update and SetPostMortemURL read, write and record.            *)

\* What Update and SetPostMortemURL are asked for.
Edits == [kind : {"update"}, to : Updates] \union [kind : {"post_mortem"}, url : Urls]

\* Store.Update: all columns but the URL, whatever they are by now.
Updated(r, c) == [r EXCEPT !.fps = c.fps, !.tags = c.tags, !.solution = c.solution,
                           !.runbook = c.runbook]

Edited(r, wanted) == IF wanted.kind = "update" THEN Updated(r, wanted.to)
                                               ELSE [r EXCEPT !.url = wanted.url]

\* Faulty variant: an incident that is not found is edited.
ReadForEditOfAny(q, i, wanted) ==
    /\ Takes(q, {i})
    /\ request' = [request EXCEPT ![q] = [Idle EXCEPT !.pc = "edit", !.on = {i}, !.id = i,
                                                      !.wanted = wanted, !.old = row[i]]]
    /\ UNCHANGED <<tables, detail, born, untold, failures>>

\* An incident that is merged or archived can be edited too.
ReadForEdit(q, i, wanted) ==
    /\ Takes(q, {i})
    /\ Exists(i)
    /\ request' = [request EXCEPT ![q] = [Idle EXCEPT !.pc = "edit", !.on = {i}, !.id = i,
                                                      !.wanted = wanted, !.old = row[i]]]
    /\ UNCHANGED <<tables, detail, born, untold, failures>>

\* Faulty variant: a change of the URL alone is no change.
ComputeDiffOfUpdate(old, new) ==
    [c \in {c \in Columns \ {"url"} : old[c] # new[c]} |-> [old |-> old[c], new |-> new[c]]]

\* computeDiff: the columns that changed, with both values.
ComputeDiff(old, new) ==
    [c \in {c \in Columns : old[c] # new[c]} |-> [old |-> old[c], new |-> new[c]]]

WriteEdit(q) ==
    /\ request[q].pc = "edit"
    /\ LET r == request[q]
           new == Edited(row[r.id], r.wanted)
       IN /\ row' = [row EXCEPT ![r.id] = new]
          /\ IF ComputeDiff(r.old, new) = <<>> THEN Ends(q)
             ELSE request' = [request EXCEPT ![q] = [@ EXCEPT !.pc = "edited", !.new = new]]
    /\ UNCHANGED <<history, detail, born, overlapped, untold, changes, failures>>

RecordEdit(q) ==
    /\ request[q].pc = "edited"
    /\ Tell(request[q].id, [kind |-> "updated", diff |-> ComputeDiff(request[q].old, request[q].new)])
    /\ Ends(q)
    /\ UNCHANGED <<row, detail, born, overlapped, untold, changes, failures>>

-----------------------------------------------------------------------------
(* Archiving.                                                              *)

\* Service.Delete: an incident that is merged or archived is a 404.
Delete(q, i) ==
    /\ Takes(q, {i})
    /\ Exists(i) /\ row[i].into = None
    /\ row' = [row EXCEPT ![i] = [@ EXCEPT !.into = i]]
    /\ request' = [request EXCEPT ![q] = [Idle EXCEPT !.pc = "archived", !.on = {i}, !.id = i]]
    /\ UNCHANGED <<history, detail, born, untold, failures>>

RecordArchiving(q) ==
    /\ request[q].pc = "archived"
    /\ Tell(request[q].id, [kind |-> "archived"])
    /\ Ends(q)
    /\ UNCHANGED <<row, detail, born, overlapped, untold, changes, failures>>

-----------------------------------------------------------------------------
(* Merging.                                                                *)

\* Merge reads the target, which must be live.
ReadTarget(q, t, s) ==
    /\ Takes(q, {t, s})
    /\ t # s
    /\ Exists(t) /\ Exists(s) /\ row[t].into = None
    /\ request' = [request EXCEPT ![q] = [Idle EXCEPT !.pc = "source", !.on = {t, s}, !.id = t,
                                                      !.source = s, !.new = row[t]]]
    /\ UNCHANGED <<tables, detail, born, untold, failures>>

\* bestText and bestSeverity, bestUUID
BestText(a, b) == IF b > a THEN b ELSE a
BestUUID(a, b) == IF a # None THEN a ELSE b

\* The lists of both, the longer text, the runbook there is, and the target's own URL.
Union(t, s) == [t EXCEPT !.fps = @ \union s.fps, !.tags = @ \union s.tags,
                         !.solution = BestText(@, s.solution), !.runbook = BestUUID(@, s.runbook)]

\* Then the source, which must be live too.
ReadSource(q) ==
    /\ request[q].pc = "source"
    /\ LET r == request[q]
           s == row[r.source]
       IN IF s.into # None THEN Ends(q)
          ELSE request' = [request EXCEPT ![q] = [@ EXCEPT !.pc = "merge", !.old = s, !.new = Union(r.new, s)]]
    /\ UNCHANGED <<tables, detail, born, overlapped, untold, changes, failures>>

\* The target is overwritten with the union, but for the URL.
WriteTarget(q) ==
    /\ request[q].pc = "merge"
    /\ LET r == request[q]
       IN row' = [row EXCEPT ![r.id] = Updated(@, r.new)]
    /\ Goes(q, "mark")
    /\ UNCHANGED <<history, detail, born, overlapped, untold, changes, failures>>

\* Faulty variant: the source is marked whether it is live or not.
MarkSourceAnyway(q) ==
    /\ request[q].pc = "mark"
    /\ row' = [row EXCEPT ![request[q].source].into = request[q].id]
    /\ Goes(q, "merged")
    /\ UNCHANGED <<history, detail, born, overlapped, untold, changes, failures>>

\* The source is marked if it still is live; otherwise the merge fails with the target written.
MarkSource(q) ==
    /\ request[q].pc = "mark"
    /\ LET r == request[q]
       IN IF row[r.source].into = None
            THEN /\ row' = [row EXCEPT ![r.source] = [@ EXCEPT !.into = r.id]]
                 /\ Goes(q, "merged") /\ UNCHANGED untold
            ELSE Ends(q) /\ untold' = untold \union {r.id} /\ UNCHANGED row
    /\ UNCHANGED <<history, detail, born, overlapped, changes, failures>>

\* Faulty variant: what was added to the target is not said.
RecordOnTargetBriefly(q) ==
    /\ request[q].pc = "merged"
    /\ Tell(request[q].id, [kind |-> "merged_source", source |-> request[q].source, added |-> {}])
    /\ Goes(q, "told")
    /\ UNCHANGED <<row, detail, born, overlapped, untold, changes, failures>>

\* Faulty variant: it is recorded on the source.
RecordOnSourceTwice(q) ==
    /\ request[q].pc = "merged"
    /\ Tell(request[q].source, [kind |-> "merged_source", source |-> request[q].id, added |-> request[q].old.fps])
    /\ Goes(q, "told")
    /\ UNCHANGED <<row, detail, born, overlapped, untold, changes, failures>>

\* The entry of the target has the fingerprints of the source, and nothing of what the merge did
\* to the other columns.
RecordOnTarget(q) ==
    /\ request[q].pc = "merged"
    /\ Tell(request[q].id, [kind |-> "merged_source", source |-> request[q].source, added |-> request[q].old.fps])
    /\ Goes(q, "told")
    /\ UNCHANGED <<row, detail, born, overlapped, untold, changes, failures>>

RecordOnSource(q) ==
    /\ request[q].pc = "told"
    /\ Tell(request[q].source, [kind |-> "merged_into", into |-> request[q].id])
    /\ Ends(q)
    /\ UNCHANGED <<row, detail, born, overlapped, untold, changes, failures>>

-----------------------------------------------------------------------------
(* Failures: the next statement of a request fails.                        *)

\* The incidents whose change the rest of the request would tell of.
ToTell(r) == CASE r.pc \in {"created", "edited", "archived", "mark"} -> {r.id}
               [] r.pc = "merged" -> {r.id, r.source}
               [] r.pc = "told" -> {r.source}
               [] OTHER -> {}

Failure == failures < MaxFailures /\ failures' = failures + 1

\* An error ends the request, a crash of the process at that statement as well.
RequestFails(q) ==
    /\ Failure
    /\ request[q].pc # "idle"
    /\ untold' = untold \union ToTell(request[q])
    /\ Ends(q)
    /\ UNCHANGED <<tables, detail, born, overlapped, changes>>

\* A merge whose first entry fails goes on to the second.
RecordOnTargetFails(q) ==
    /\ Failure
    /\ request[q].pc = "merged"
    /\ untold' = untold \union {request[q].id}
    /\ Goes(q, "told")
    /\ UNCHANGED <<tables, detail, born, overlapped, changes>>

-----------------------------------------------------------------------------
(* Service.Get: the incident, then its history.                            *)

Get(i) ==
    /\ detail.pc = "idle"
    /\ Exists(i)
    /\ detail' = [NoDetail EXCEPT !.pc = "history", !.id = i, !.row = row[i],
                                   !.seen = Len(history[i])]
    /\ UNCHANGED <<tables, request, born, overlapped, untold, changes, failures>>

\* Faulty variant: ORDER BY created_at without DESC.
OldestFirst(h) == h

NewestFirst(h) == Reverse(h)

ListHistory ==
    /\ detail.pc = "history"
    /\ detail' = [detail EXCEPT !.pc = "answered", !.history = NewestFirst(history[detail.id])]
    /\ UNCHANGED <<tables, request, born, overlapped, untold, changes, failures>>

Answered ==
    /\ detail.pc = "answered"
    /\ detail' = NoDetail
    /\ UNCHANGED <<tables, request, born, overlapped, untold, changes, failures>>

Next ==
    \/ \E q \in Requests, i \in Incidents :
         \/ \E c \in Reports : Create(q, i, c) \/ CreateAgentKBEntry(q, i, c)
         \/ \E wanted \in Edits : ReadForEdit(q, i, wanted)
         \/ Delete(q, i)
         \/ \E s \in Incidents : ReadTarget(q, i, s)
    \/ \E q \in Requests :
         \/ RecordCreation(q)
         \/ WriteEdit(q) \/ RecordEdit(q)
         \/ RecordArchiving(q)
         \/ ReadSource(q) \/ WriteTarget(q) \/ MarkSource(q)
         \/ RecordOnTarget(q) \/ RecordOnSource(q)
         \/ RequestFails(q) \/ RecordOnTargetFails(q)
    \/ \E i \in Incidents : Get(i)
    \/ ListHistory
    \/ Answered

Spec == Init /\ [][Next]_vars

-----------------------------------------------------------------------------
(* Properties.                                                             *)

(***************************************************************************)
(* The tables, the locals of the requests and the history variables have   *)
(* their types: a request works on the incidents of its slot only, and     *)
(* what it holds of a row is a row.                                        *)
(***************************************************************************)
TypeOK ==
    /\ row \in [Incidents -> Row \union {None}]
    /\ \A i \in Incidents : ~Exists(i) => history[i] = <<>>
    /\ \A q \in Requests :
         /\ request[q].pc \in {"idle", "created", "edit", "edited", "archived", "source", "merge",
                               "mark", "merged", "told"}
         /\ request[q].on = {request[q].id, request[q].source} \ {None}
         /\ \A i \in request[q].on : Exists(i)
         /\ {request[q].old, request[q].new} \subseteq Row \union {None}
    /\ detail.row \in Row \union {None}
    /\ overlapped \subseteq Incidents /\ untold \subseteq Incidents
    /\ changes \in 0 .. MaxChanges /\ failures \in 0 .. MaxFailures

NamesTarget(e) == e.kind = "merged_into"
NamesSource(e) == e.kind = "merged_source"

\* What a reader makes of entry e of incident i, on top of the row r.
Replay(i, e, r) ==
    CASE e.kind = "updated" -> [c \in DOMAIN r |-> IF c \in DOMAIN e.diff THEN e.diff[c].new ELSE r[c]]
      [] e.kind = "archived" -> [r EXCEPT !.into = i]
      [] NamesTarget(e) -> [r EXCEPT !.into = e.into]
      [] NamesSource(e) -> [r EXCEPT !.fps = @ \union e.added]
      [] OTHER -> r

\* The rows that a reader gets to from the first row of i, after each of the entries h.
Told(i, first, h) ==
    LET told[k \in 0 .. Len(h)] == IF k = 0 THEN first ELSE Replay(i, h[k], told[k - 1])
    IN  told

\* The columns that a merge writes and its entry does not have.
Unsaid == {"tags", "solution", "runbook"}

\* Entry e is of an edit that changed column c.
Tells(e, c) == e.kind = "updated" /\ c \in DOMAIN e.diff

\* Column c is one that the entry of a merge lacks, and no edit of it came after the last merge.
MergedOver(c, h, k) ==
    /\ c \in Unsaid
    /\ \E j \in 1 .. k : NamesSource(h[j]) /\ \A l \in j + 1 .. k : ~Tells(h[l], c)

\* The first k of the entries h, oldest first, lead from the first row of i to r, column by column.
Explains(i, h, k, r) ==
    \A c \in DOMAIN r : Told(i, born[i], h)[k][c] = r[c] \/ MergedOver(c, h, k)

WorkedOn(i) == \E q \in Requests : i \in request[q].on

\* One request after the other worked on i, and every entry was inserted.
Undisturbed(i) == i \notin overlapped \union untold

(***************************************************************************)
(* The history of an incident leads from the row that was created to the   *)
(* row there is, when its requests came one after the other and no insert  *)
(* failed, whichever order they came in. computeDiff leaves no column out, *)
(* nor does the entry of an archiving; that of a merge has the             *)
(* fingerprints but not the severity, the tags, services, clusters,        *)
(* namespaces, error patterns, texts and runbook that the merge wrote as   *)
(* well (against docs/api/openapi.yaml:260, "its full change history"):    *)
(* each of those is unknown from a merge on until an edit changes it, and  *)
(* true again from then on.                                                *)
(***************************************************************************)
HistoryExplainsRow ==
    \A i \in Incidents :
      Exists(i) /\ Undisturbed(i) /\ ~WorkedOn(i) =>
        Explains(i, history[i], Len(history[i]), row[i])

(***************************************************************************)
(* However requests overlap and fail, an entry that says an incident was   *)
(* archived, or merged, is true of the row, and of the other incident:     *)
(* SoftDelete and SetMergedInto let one of several win, and only the one   *)
(* that won records it.                                                    *)
(***************************************************************************)
HistoryIsTrue ==
    \A i \in Incidents : \A e \in Range(history[i]) :
      /\ e.kind = "archived" => row[i].into = i
      /\ NamesTarget(e) => row[i].into = e.into
      /\ NamesSource(e) => row[e.source].into = i

\* Request q has marked s as merged into t and has not recorded it on t, on s.
TellsTarget(q, t, s) == request[q].pc = "merged" /\ request[q].id = t /\ request[q].source = s
TellsSource(q, t, s) == request[q].pc \in {"merged", "told"} /\ request[q].id = t /\ request[q].source = s

(***************************************************************************)
(* A merge, or an archiving, is in the history of both incidents, or a     *)
(* request is about to insert it, or its insert failed (the service logs   *)
(* that and nothing makes up for it).                                      *)
(***************************************************************************)
ClosingIsTold ==
    \A i \in Incidents :
      Exists(i) /\ row[i].into # None =>
        LET t == row[i].into IN
          IF t = i
            THEN \/ i \in untold
                 \/ \E e \in Range(history[i]) : e.kind = "archived"
                 \/ \E q \in Requests : request[q].pc = "archived" /\ request[q].id = i
            ELSE /\ \/ i \in untold
                    \/ \E e \in Range(history[i]) : NamesTarget(e)
                    \/ \E q \in Requests : TellsSource(q, t, i)
                 /\ \/ t \in untold
                    \/ \E e \in Range(history[t]) : NamesSource(e) /\ e.source = i
                    \/ \E q \in Requests : TellsTarget(q, t, i)

(***************************************************************************)
(* GET of an incident reads the row and then the history, and changes go   *)
(* on between the two.  The entries it answers, read from the last one     *)
(* back, still lead to the row it answers: those that were there when the  *)
(* row was read do, or with the next one; only when that change was still  *)
(* being recorded may it be missing.  What a merge wrote beside the        *)
(* fingerprints is excepted as in HistoryExplainsRow.                      *)
(***************************************************************************)
DetailIsExplained ==
    detail.pc = "answered" /\ Undisturbed(detail.id) =>
      LET h == Reverse(detail.history)
      IN \/ \E k \in {detail.seen, detail.seen + 1} \cap 0 .. Len(h) :
              Explains(detail.id, h, k, detail.row)
         \/ Len(h) = detail.seen /\ (WorkedOn(detail.id) \/ Len(history[detail.id]) > detail.seen)
=============================================================================
