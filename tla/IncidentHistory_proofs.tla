----------------------- MODULE IncidentHistory_proofs -----------------------
(***************************************************************************)
(* Proofs about IncidentHistory, for every number of incidents and of      *)
(* requests handled at once.                                               *)
(***************************************************************************)
EXTENDS IncidentHistory, WellFoundedInduction, TLAPS

\* The rows of incident_history.
Entry ==
    [kind : {"created", "archived"}]
      \union [kind : {"updated"}, diff : {ComputeDiff(o, n) : o \in Row, n \in Row}]
      \union [kind : {"merged_source"}, source : Incidents, added : SUBSET Fingerprints]
      \union [kind : {"merged_into"}, into : Incidents]

Merging == {"source", "merge", "mark", "merged", "told"}
Changing == {"created", "edit", "edited", "archived"}

RequestType ==
    [pc : {"idle"} \union Changing \union Merging, on : SUBSET Incidents,
     id : Incidents \union {None}, source : Incidents \union {None},
     wanted : Edits \union {None}, old : Row \union {None}, new : Row \union {None}]

TablesType ==
    /\ row \in [Incidents -> Row \union {None}]
    /\ history \in [Incidents -> Seq(Entry)]

Existing == {i \in Incidents : Exists(i)}

\* What a request r works on is in E, and what it holds was read.
Holds(r, E) ==
    /\ r.on = {r.id, r.source} \ {None}
    /\ r.pc = "idle" => r.id = None
    /\ r.pc # "idle" => r.id \in E
    /\ r.pc \in Merging => r.source \in E /\ r.id # r.source /\ r.new \in Row
    /\ r.pc \notin Merging => r.source = None
    /\ r.pc \in {"merge", "mark", "merged", "told"} => r.old \in Row
    /\ r.pc = "edit" => r.wanted \in Edits /\ r.old \in Row
    /\ r.pc = "edited" => r.old \in Row /\ r.new \in Row

RequestsType ==
    /\ request \in [Requests -> RequestType]
    /\ \A q \in Requests : Holds(request[q], Existing)

RestType ==
    /\ \A i \in Incidents : ~Exists(i) => history[i] = <<>>
    /\ DOMAIN detail = DOMAIN NoDetail /\ detail.row \in Row \union {None}
    /\ overlapped \subseteq Incidents /\ untold \subseteq Incidents
    /\ changes \in 0 .. MaxChanges /\ failures \in 0 .. MaxFailures

TypeInv == TablesType /\ RequestsType

-----------------------------------------------------------------------------
LEMMA Constants == None \notin Incidents /\ None \notin Urls /\ None \notin Row
BY ConstantsAssumption, RowAssumption

LEMMA InsertedIsARow ==
    ASSUME NEW c \in Reports
    PROVE  Inserted(c) \in Row
BY ConstantsAssumption DEF Inserted, Row, Contents

LEMMA UpdatedIsARow ==
    ASSUME NEW r \in Row, NEW c \in Contents \union Row
    PROVE  Updated(r, c) \in Row /\ Updated(r, c).into = r.into
BY DEF Updated, Contents, Row

LEMMA EditedIsARow ==
    ASSUME NEW r \in Row, NEW w \in Edits
    PROVE  Edited(r, w) \in Row /\ Edited(r, w).into = r.into
<1>1. CASE w.kind = "update"
  <2>1. w.to \in Contents
    BY <1>1, ConstantsAssumption DEF Edits
  <2> QED
    BY <1>1, <2>1, UpdatedIsARow DEF Edited
<1>2. CASE w.kind # "update"
  BY <1>2 DEF Edited, Edits, Row
<1> QED
  BY <1>1, <1>2

LEMMA EntriesAreEntries ==
    /\ [kind |-> "created"] \in Entry /\ [kind |-> "archived"] \in Entry
    /\ \A o, n \in Row : [kind |-> "updated", diff |-> ComputeDiff(o, n)] \in Entry
    /\ \A s \in Incidents, F \in SUBSET Fingerprints : [kind |-> "merged_source", source |-> s, added |-> F] \in Entry
    /\ \A t \in Incidents : [kind |-> "merged_into", into |-> t] \in Entry
BY DEF Entry

\* A request whose pc, and maybe what it holds, changes.
Kept(r, x) == x.on = r.on /\ x.id = r.id /\ x.source = r.source /\ x.wanted = r.wanted

LEMMA PcChanges ==
    ASSUME NEW r \in RequestType, NEW p \in Changing \union Merging
    PROVE  LET x == [r EXCEPT !.pc = p]
           IN x \in RequestType /\ Kept(r, x) /\ x.pc = p /\ x.old = r.old /\ x.new = r.new
BY DEF RequestType, Kept

LEMMA IdleIsARequest == Idle \in RequestType
BY DEF Idle, RequestType

LEMMA RangeOfAppend ==
    ASSUME NEW S, NEW s \in Seq(S), NEW e \in S
    PROVE  Range(Append(s, e)) = Range(s) \union {e}
<1> DEFINE t == Append(s, e)
<1>1. /\ t \in Seq(S) /\ Len(t) = Len(s) + 1 /\ Len(s) \in Nat
      /\ \A n \in 1 .. Len(s) : t[n] = s[n]
      /\ t[Len(s) + 1] = e
  OBVIOUS
<1>2. DOMAIN t = (1 .. Len(s)) \union {Len(s) + 1} /\ DOMAIN s = 1 .. Len(s)
  BY <1>1
<1> HIDE DEF t
<1>3. Range(t) = {t[n] : n \in 1 .. Len(s)} \union {t[Len(s) + 1]}
  BY <1>2 DEF Range
<1>4. {t[n] : n \in 1 .. Len(s)} = Range(s)
  BY <1>1, <1>2 DEF Range
<1> QED
  BY <1>1, <1>3, <1>4 DEF t

\* The entries of an incident after one was recorded.
LEMMA TellAppends ==
    ASSUME TablesType, NEW i \in Incidents, NEW e \in Entry, Tell(i, e)
    PROVE  /\ history' \in [Incidents -> Seq(Entry)]
           /\ Range(history'[i]) = Range(history[i]) \union {e}
           /\ \A j \in Incidents : j # i => history'[j] = history[j]
<1>1. history[i] \in Seq(Entry)
  BY DEF TablesType
<1>2. history'[i] = Append(history[i], e) /\ \A j \in Incidents : j # i => history'[j] = history[j]
  BY DEF Tell, TablesType
<1>3. Range(Append(history[i], e)) = Range(history[i]) \union {e}
  BY <1>1, RangeOfAppend
<1> QED
  BY <1>1, <1>2, <1>3 DEF Tell, TablesType

-----------------------------------------------------------------------------
(* The statements, by what they do to one request.                         *)

LEMMA HoldsOnMore ==
    ASSUME NEW r, NEW E, NEW F, E \subseteq F, Holds(r, E)
    PROVE  Holds(r, F)
BY DEF Holds

LEMMA IdleHolds == \A E : Holds(Idle, E)
BY DEF Idle, Holds, Merging

\* Request q becomes r.
LEMMA RequestBecomes ==
    ASSUME TypeInv, NEW q \in Requests, NEW r \in RequestType, request' = [request EXCEPT ![q] = r],
           TablesType', Existing \subseteq Existing', Holds(r, Existing')
    PROVE  TypeInv'
<1>1. request'[q] = r /\ \A p \in Requests \ {q} : request'[p] = request[p]
  BY DEF TypeInv, RequestsType
<1>2. request' \in [Requests -> RequestType]
  BY DEF TypeInv, RequestsType
<1>3. ASSUME NEW p \in Requests PROVE Holds(request'[p], Existing')
  <2>1. CASE p = q
    BY <1>1, <2>1
  <2>2. CASE p # q
    BY <1>1, <2>2, HoldsOnMore DEF TypeInv, RequestsType
  <2> QED
    BY <2>1, <2>2
<1> QED
  BY <1>2, <1>3 DEF TypeInv, RequestsType

LEMMA RequestEnds ==
    ASSUME TypeInv, NEW q \in Requests, Ends(q), TablesType', Existing \subseteq Existing'
    PROVE  TypeInv'
BY IdleIsARequest, IdleHolds, RequestBecomes DEF Ends

LEMMA RequestsUntouched ==
    ASSUME TypeInv, UNCHANGED request, TablesType', Existing \subseteq Existing'
    PROVE  TypeInv'
BY HoldsOnMore DEF TypeInv, RequestsType

\* An incident keeps existing when its row becomes another one.
LEMMA RowBecomes ==
    ASSUME TablesType, NEW i \in Incidents, NEW r \in Row, row' = [row EXCEPT ![i] = r],
           UNCHANGED history
    PROVE  TablesType' /\ Existing \subseteq Existing' /\ row'[i] = r /\ i \in Existing'
<1>1. row'[i] = r /\ \A j \in Incidents \ {i} : row'[j] = row[j]
  BY DEF TablesType
<1> QED
  BY <1>1, Constants DEF TablesType, Existing, Exists

LEMMA TypeInit == Init => TypeInv
<1> SUFFICES ASSUME Init PROVE TypeInv
  OBVIOUS
<1>1. TablesType
  BY DEF Init, TablesType
<1>2. RequestsType
  BY IdleIsARequest, IdleHolds DEF Init, RequestsType
<1> QED
  BY <1>1, <1>2 DEF TypeInv

-----------------------------------------------------------------------------
(* Types, statement by statement.                                          *)

LEMMA TypeCreate ==
    ASSUME TypeInv, NEW q \in Requests, NEW i \in Incidents, NEW c \in Reports, Create(q, i, c)
    PROVE  TypeInv'
<1> DEFINE r == [Idle EXCEPT !.pc = "created", !.on = {i}, !.id = i]
<1>1. TablesType' /\ Existing \subseteq Existing' /\ i \in Existing'
  BY InsertedIsARow, RowBecomes DEF Create, TypeInv
<1>2. r \in RequestType
  BY DEF Idle, RequestType, Changing
<1>3. Holds(r, Existing')
  BY <1>1, Constants DEF Idle, Holds, Merging
<1> QED
  BY <1>1, <1>2, <1>3, RequestBecomes DEF Create

LEMMA TypeCreateAgentKBEntry ==
    ASSUME TypeInv, NEW q \in Requests, NEW i \in Incidents, NEW c \in Reports, CreateAgentKBEntry(q, i, c)
    PROVE  TypeInv'
BY InsertedIsARow, RowBecomes, RequestsUntouched DEF CreateAgentKBEntry, TypeInv

\* Inserting an entry leaves the rows alone.
LEMMA TellTypes ==
    ASSUME TypeInv, NEW i \in Incidents, NEW e \in Entry, Tell(i, e), UNCHANGED row
    PROVE  TablesType' /\ Existing' = Existing
BY TellAppends DEF TypeInv, TablesType, Existing, Exists

LEMMA BusyRequest ==
    ASSUME TypeInv, NEW q \in Requests, request[q].pc # "idle"
    PROVE  request[q].id \in Incidents /\ row[request[q].id] \in Row /\ Exists(request[q].id)
BY DEF TypeInv, TablesType, RequestsType, Holds, Existing, Exists

LEMMA MergingRequest ==
    ASSUME TypeInv, NEW q \in Requests, request[q].pc \in Merging
    PROVE  /\ request[q].id \in Incidents /\ row[request[q].id] \in Row
           /\ request[q].source \in Incidents /\ row[request[q].source] \in Row
           /\ request[q].id # request[q].source
           /\ request[q].new \in Row
BY BusyRequest DEF TypeInv, TablesType, RequestsType, Holds, Existing, Exists, Merging

LEMMA TypeRecord ==
    ASSUME TypeInv, NEW q \in Requests, RecordCreation(q) \/ RecordEdit(q) \/ RecordArchiving(q)
    PROVE  TypeInv'
<1>1. request[q].id \in Incidents
  BY BusyRequest DEF RecordCreation, RecordEdit, RecordArchiving
<1>2. CASE RecordCreation(q)
  BY <1>1, <1>2, EntriesAreEntries, TellTypes, RequestEnds DEF RecordCreation
<1>3. CASE RecordEdit(q)
  <2>1. request[q].old \in Row /\ request[q].new \in Row
    BY <1>3 DEF RecordEdit, TypeInv, RequestsType, Holds
  <2> QED
    BY <1>1, <1>3, <2>1, EntriesAreEntries, TellTypes, RequestEnds DEF RecordEdit
<1>4. CASE RecordArchiving(q)
  BY <1>1, <1>4, EntriesAreEntries, TellTypes, RequestEnds DEF RecordArchiving
<1> QED
  BY <1>2, <1>3, <1>4

LEMMA TypeReadForEdit ==
    ASSUME TypeInv, NEW q \in Requests, NEW i \in Incidents, NEW w \in Edits, ReadForEdit(q, i, w)
    PROVE  TypeInv'
<1> DEFINE r == [Idle EXCEPT !.pc = "edit", !.on = {i}, !.id = i, !.wanted = w, !.old = row[i]]
<1>1. row[i] \in Row /\ i \in Existing
  BY DEF ReadForEdit, TypeInv, TablesType, Exists, Existing
<1>2. r \in RequestType
  BY <1>1 DEF Idle, RequestType, Changing
<1>3. Holds(r, Existing)
  BY <1>1, Constants DEF Idle, Holds, Merging
<1>4. TablesType' /\ Existing' = Existing
  BY DEF ReadForEdit, tables, TypeInv, TablesType, Existing, Exists
<1> QED
  BY <1>2, <1>3, <1>4, RequestBecomes DEF ReadForEdit

LEMMA TypeWriteEdit ==
    ASSUME TypeInv, NEW q \in Requests, WriteEdit(q)
    PROVE  /\ TypeInv' /\ Existing \subseteq Existing'
           /\ \A i \in Incidents : Exists(i) => row'[i].into = row[i].into
<1> DEFINE new == Edited(row[request[q].id], request[q].wanted)
<1> DEFINE r == [request[q] EXCEPT !.pc = "edited", !.new = new]
<1>1. request[q].id \in Incidents /\ row[request[q].id] \in Row
  BY BusyRequest DEF WriteEdit
<1>2. /\ request[q].wanted \in Edits /\ request[q].old \in Row
      /\ request[q] \in RequestType /\ Holds(request[q], Existing)
      /\ request[q].source = None
  BY DEF WriteEdit, TypeInv, RequestsType, Holds, Merging
<1>3. new \in Row /\ new.into = row[request[q].id].into
  BY <1>1, <1>2, EditedIsARow
<1>4. row' = [row EXCEPT ![request[q].id] = new] /\ UNCHANGED history
  BY DEF WriteEdit
<1>5. Ends(q) \/ request' = [request EXCEPT ![q] = r]
  BY DEF WriteEdit
<1> HIDE DEF new
<1>6. TablesType' /\ Existing \subseteq Existing' /\ request[q].id \in Existing'
  BY <1>1, <1>3, <1>4, RowBecomes DEF TypeInv
<1>7. ASSUME request' = [request EXCEPT ![q] = r] PROVE TypeInv'
  <2>1. /\ r \in RequestType /\ Kept(request[q], r)
        /\ r.pc = "edited" /\ r.old = request[q].old /\ r.new = new
    <3>1. "edited" \in Changing \union Merging
      BY DEF Changing
    <3>2. request[q] \in RequestType
      BY <1>2
    <3>3. Kept(request[q], r) /\ r.pc = "edited" /\ r.old = request[q].old /\ r.new = new
      BY <3>2 DEF RequestType, Kept
    <3>4. r \in RequestType
      BY <1>3, <3>1, <3>2 DEF RequestType
    <3> QED
      BY <3>3, <3>4
  <2> HIDE DEF r
  <2>2. Holds(r, Existing')
    BY <1>2, <1>3, <1>6, <2>1 DEF Holds, Merging, Kept
  <2> QED
    BY <1>6, <1>7, <2>1, <2>2, RequestBecomes
<1>8. TypeInv'
  BY <1>5, <1>6, <1>7, RequestEnds
<1>9. \A i \in Incidents : Exists(i) => row'[i].into = row[i].into
  BY <1>1, <1>3, <1>4 DEF TypeInv, TablesType
<1> QED
  BY <1>6, <1>8, <1>9

LEMMA TypeDelete ==
    ASSUME TypeInv, NEW q \in Requests, NEW i \in Incidents, Delete(q, i)
    PROVE  /\ TypeInv'
           /\ row'[i].into = i /\ row'[i] \in Row /\ row[i].into = None /\ row[i] \in Row
           /\ \A j \in Incidents : j # i => row'[j] = row[j]
<1> DEFINE r == [Idle EXCEPT !.pc = "archived", !.on = {i}, !.id = i]
<1> DEFINE new == [row[i] EXCEPT !.into = i]
<1>1. row[i] \in Row /\ row[i].into = None
  BY DEF Delete, TypeInv, TablesType, Exists
<1>2. new \in Row /\ new.into = i
  BY <1>1 DEF Row
<1>3. row' = [row EXCEPT ![i] = new] /\ UNCHANGED history
  BY DEF Delete
<1> HIDE DEF new
<1>4. TablesType' /\ Existing \subseteq Existing' /\ i \in Existing' /\ row'[i] = new
  BY <1>2, <1>3, RowBecomes DEF TypeInv
<1>5. r \in RequestType
  BY DEF Idle, RequestType, Changing
<1>6. Holds(r, Existing')
  BY <1>4, Constants DEF Idle, Holds, Merging
<1>7. TypeInv'
  BY <1>4, <1>5, <1>6, RequestBecomes DEF Delete
<1> QED
  BY <1>1, <1>2, <1>3, <1>4, <1>7 DEF TypeInv, TablesType

LEMMA TypeReadTarget ==
    ASSUME TypeInv, NEW q \in Requests, NEW t \in Incidents, NEW s \in Incidents, ReadTarget(q, t, s)
    PROVE  TypeInv'
<1> DEFINE r == [Idle EXCEPT !.pc = "source", !.on = {t, s}, !.id = t, !.source = s, !.new = row[t]]
<1>1. row[t] \in Row /\ t \in Existing /\ s \in Existing /\ t # s
  BY DEF ReadTarget, TypeInv, TablesType, Exists, Existing
<1>2. r \in RequestType
  BY <1>1 DEF Idle, RequestType, Merging
<1>3. Holds(r, Existing)
  BY <1>1, Constants DEF Idle, Holds, Merging
<1>4. TablesType' /\ Existing' = Existing
  BY DEF ReadTarget, tables, TypeInv, TablesType, Existing, Exists
<1> QED
  BY <1>2, <1>3, <1>4, RequestBecomes DEF ReadTarget

LEMMA UnionIsARow ==
    ASSUME NEW t \in Row, NEW s \in Row
    PROVE  Union(t, s) \in Row
<1>1. BestText(t.solution, s.solution) \in Lengths /\ BestUUID(t.runbook, s.runbook) \in Runbooks \union {None}
  BY DEF BestText, BestUUID, Row
<1> QED
  BY <1>1 DEF Union, Row

LEMMA TypeReadSource ==
    ASSUME TypeInv, NEW q \in Requests, ReadSource(q)
    PROVE  TypeInv'
<1> DEFINE s == row[request[q].source]
<1> DEFINE new == Union(request[q].new, s)
<1> DEFINE r == [request[q] EXCEPT !.pc = "merge", !.old = s, !.new = new]
<1>1. /\ s \in Row /\ new \in Row
      /\ request[q] \in RequestType /\ Holds(request[q], Existing) /\ request[q].pc = "source"
  BY MergingRequest, UnionIsARow DEF ReadSource, Merging, TypeInv, RequestsType
<1>2. TablesType' /\ Existing' = Existing
  BY DEF ReadSource, tables, TypeInv, TablesType, Existing, Exists
<1>3. Ends(q) \/ request' = [request EXCEPT ![q] = r]
  BY DEF ReadSource
<1>4. /\ r \in RequestType /\ Kept(request[q], r)
      /\ r.pc = "merge" /\ r.old = s /\ r.new = new
  <2>1. "merge" \in Changing \union Merging
    BY DEF Merging
  <2>2. s \in Row /\ new \in Row /\ request[q] \in RequestType
    BY <1>1
  <2> HIDE DEF s, new
  <2>3. Kept(request[q], r) /\ r.pc = "merge" /\ r.old = s /\ r.new = new
    BY <2>2 DEF RequestType, Kept
  <2>4. r \in RequestType
    BY <2>1, <2>2 DEF RequestType
  <2> QED
    BY <2>3, <2>4
<1> HIDE DEF r, new, s
<1>5. Holds(r, Existing)
  BY <1>1, <1>4 DEF Holds, Merging, Kept
<1> QED
  BY <1>2, <1>3, <1>4, <1>5, RequestBecomes, RequestEnds

\* A merge that goes on to a later statement holds what it held.
LEMMA MergeGoesOn ==
    ASSUME TypeInv, NEW q \in Requests, NEW next \in {"mark", "merged", "told"}, Goes(q, next),
           request[q].pc \in {"merge", "mark", "merged"}, TablesType', Existing \subseteq Existing'
    PROVE  TypeInv' /\ Kept(request[q], request'[q]) /\ request'[q].pc = next
<1> DEFINE r == [request[q] EXCEPT !.pc = next]
<1>1. request[q] \in RequestType /\ Holds(request[q], Existing)
  BY DEF TypeInv, RequestsType
<1>2. next \in Changing \union Merging
  BY DEF Merging
<1>3. /\ r \in RequestType /\ Kept(request[q], r)
      /\ r.pc = next /\ r.old = request[q].old /\ r.new = request[q].new
  BY <1>1, <1>2, PcChanges
<1>4. request' = [request EXCEPT ![q] = r]
  BY DEF Goes
<1> HIDE DEF r
<1>5. Holds(r, Existing)
  BY <1>1, <1>3 DEF Holds, Merging, Kept
<1>6. Holds(r, Existing')
  BY <1>5, HoldsOnMore
<1>7. request'[q] = r
  BY <1>4 DEF TypeInv, RequestsType
<1> QED
  BY <1>3, <1>4, <1>6, <1>7, RequestBecomes

LEMMA TypeWriteTarget ==
    ASSUME TypeInv, NEW q \in Requests, WriteTarget(q)
    PROVE  /\ TypeInv' /\ Existing \subseteq Existing' /\ Kept(request[q], request'[q])
           /\ \A i \in Incidents : Exists(i) => row'[i].into = row[i].into
<1> DEFINE old == row[request[q].id]
<1> DEFINE new == Updated(old, request[q].new)
<1>1. request[q].id \in Incidents /\ old \in Row /\ request[q].new \in Row
  BY MergingRequest DEF WriteTarget, Merging
<1>2. new \in Row /\ new.into = old.into
  BY <1>1, UpdatedIsARow
<1>3. row' = [row EXCEPT ![request[q].id] = new] /\ UNCHANGED history
  BY DEF WriteTarget
<1> HIDE DEF new
<1>4. TablesType' /\ Existing \subseteq Existing'
  BY <1>1, <1>2, <1>3, RowBecomes DEF TypeInv
<1>5. TypeInv' /\ Kept(request[q], request'[q])
  BY <1>4, MergeGoesOn DEF WriteTarget
<1>6. \A i \in Incidents : Exists(i) => row'[i].into = row[i].into
  BY <1>1, <1>2, <1>3 DEF TypeInv, TablesType
<1> QED
  BY <1>4, <1>5, <1>6

\* What the two outcomes of MarkSource do.
LEMMA TypeMarkSource ==
    ASSUME TypeInv, NEW q \in Requests, MarkSource(q)
    PROVE  /\ TypeInv'
           /\ \/ /\ row[request[q].source].into = None
                 /\ row'[request[q].source].into = request[q].id
                 /\ row'[request[q].source] \in Row
                 /\ Kept(request[q], request'[q]) /\ request'[q].pc = "merged"
                 /\ \A j \in Incidents : j # request[q].source => row'[j] = row[j]
              \/ UNCHANGED row
<1> DEFINE s == request[q].source
<1> DEFINE new == [row[s] EXCEPT !.into = request[q].id]
<1>1. s \in Incidents /\ request[q].id \in Incidents /\ row[s] \in Row
  BY MergingRequest DEF MarkSource, Merging
<1>2. CASE row[s].into = None
  <2>1. new \in Row /\ new.into = request[q].id
    BY <1>1 DEF Row
  <2>2. row' = [row EXCEPT ![s] = new] /\ UNCHANGED history /\ Goes(q, "merged")
    BY <1>2 DEF MarkSource
  <2> HIDE DEF new
  <2>3. TablesType' /\ Existing \subseteq Existing' /\ row'[s] = new
    BY <1>1, <2>1, <2>2, RowBecomes DEF TypeInv
  <2>4. TypeInv' /\ Kept(request[q], request'[q]) /\ request'[q].pc = "merged"
    BY <2>2, <2>3, MergeGoesOn DEF MarkSource
  <2>5. \A j \in Incidents : j # s => row'[j] = row[j]
    BY <2>2 DEF TypeInv, TablesType
  <2> QED
    BY <1>2, <2>1, <2>3, <2>4, <2>5
<1>3. CASE row[s].into # None
  <2>1. Ends(q) /\ UNCHANGED tables
    BY <1>3 DEF MarkSource, tables
  <2>2. TablesType' /\ Existing' = Existing
    BY <2>1 DEF tables, TypeInv, TablesType, Existing, Exists
  <2> QED
    BY <2>1, <2>2, RequestEnds DEF tables
<1> QED
  BY <1>2, <1>3

\* A merge holds the row of its source as it read it.
LEMMA AddedWasRead ==
    ASSUME TypeInv, NEW q \in Requests, request[q].pc = "merged"
    PROVE  request[q].old.fps \in SUBSET Fingerprints
<1>1. request[q].old \in Row
  BY DEF TypeInv, RequestsType, Holds
<1> QED
  BY <1>1 DEF Row

\* The entry of a merge on its target.
SourceEntry(q) == [kind |-> "merged_source", source |-> request[q].source, added |-> request[q].old.fps]

LEMMA TypeRecordOnTarget ==
    ASSUME TypeInv, NEW q \in Requests, RecordOnTarget(q)
    PROVE  /\ TypeInv' /\ Kept(request[q], request'[q]) /\ request'[q].pc = "told"
           /\ request[q].id \in Incidents
           /\ SourceEntry(q) \in Entry /\ Tell(request[q].id, SourceEntry(q))
<1>1. request[q].id \in Incidents /\ request[q].source \in Incidents
  BY MergingRequest DEF RecordOnTarget, Merging
<1>2. SourceEntry(q) \in Entry
  BY <1>1, AddedWasRead, EntriesAreEntries DEF RecordOnTarget, SourceEntry
<1>3. Tell(request[q].id, SourceEntry(q)) /\ UNCHANGED row
  BY DEF RecordOnTarget, SourceEntry
<1>4. TablesType' /\ Existing' = Existing
  BY <1>1, <1>2, <1>3, TellTypes
<1> QED
  BY <1>1, <1>2, <1>3, <1>4, MergeGoesOn DEF RecordOnTarget

LEMMA TypeRecordOnSource ==
    ASSUME TypeInv, NEW q \in Requests, RecordOnSource(q)
    PROVE  TypeInv'
<1>1. request[q].id \in Incidents /\ request[q].source \in Incidents
  BY MergingRequest DEF RecordOnSource, Merging
<1> QED
  BY <1>1, EntriesAreEntries, TellTypes, RequestEnds DEF RecordOnSource

LEMMA TypeFailures ==
    ASSUME TypeInv, NEW q \in Requests, RequestFails(q) \/ RecordOnTargetFails(q)
    PROVE  TypeInv'
<1>1. TablesType' /\ Existing' = Existing
  BY DEF RequestFails, RecordOnTargetFails, tables, TypeInv, TablesType, Existing, Exists
<1>2. CASE RequestFails(q)
  BY <1>1, <1>2, RequestEnds DEF RequestFails
<1>3. CASE RecordOnTargetFails(q)
  BY <1>1, <1>3, MergeGoesOn DEF RecordOnTargetFails
<1> QED
  BY <1>2, <1>3

\* The steps that a reader takes, and stuttering.
Reads ==
    \/ \E i \in Incidents : Get(i)
    \/ ListHistory
    \/ Answered
    \/ UNCHANGED vars

LEMMA ReadsChangeNothing ==
    ASSUME Reads
    PROVE  UNCHANGED <<row, history, request, untold>>
BY DEF Reads, Get, ListHistory, Answered, vars, tables

LEMMA TypeReads ==
    ASSUME TypeInv, Reads
    PROVE  TypeInv'
<1>1. TablesType' /\ Existing' = Existing
  BY ReadsChangeNothing DEF TypeInv, TablesType, Existing, Exists
<1> QED
  BY <1>1, ReadsChangeNothing, RequestsUntouched

LEMMA TypeStep == TypeInv /\ [Next]_vars => TypeInv'
<1> SUFFICES ASSUME TypeInv, [Next]_vars PROVE TypeInv'
  OBVIOUS
<1>1. ASSUME NEW q \in Requests, NEW i \in Incidents, NEW c \in Reports, Create(q, i, c)
      PROVE  TypeInv'
  BY <1>1, TypeCreate
<1>2. ASSUME NEW q \in Requests, NEW i \in Incidents, NEW c \in Reports, CreateAgentKBEntry(q, i, c)
      PROVE  TypeInv'
  BY <1>2, TypeCreateAgentKBEntry
<1>3. ASSUME NEW q \in Requests, NEW i \in Incidents, NEW w \in Edits, ReadForEdit(q, i, w)
      PROVE  TypeInv'
  BY <1>3, TypeReadForEdit
<1>4. ASSUME NEW q \in Requests, NEW i \in Incidents, Delete(q, i)
      PROVE  TypeInv'
  BY <1>4, TypeDelete
<1>5. ASSUME NEW q \in Requests, NEW i \in Incidents, NEW s \in Incidents, ReadTarget(q, i, s)
      PROVE  TypeInv'
  BY <1>5, TypeReadTarget
<1>6. ASSUME NEW q \in Requests, RecordCreation(q) \/ RecordEdit(q) \/ RecordArchiving(q)
      PROVE  TypeInv'
  BY <1>6, TypeRecord
<1>7. ASSUME NEW q \in Requests,
             WriteEdit(q) \/ ReadSource(q) \/ WriteTarget(q) \/ MarkSource(q)
               \/ RecordOnTarget(q) \/ RecordOnSource(q)
      PROVE  TypeInv'
  BY <1>7, TypeWriteEdit, TypeReadSource, TypeWriteTarget, TypeMarkSource, TypeRecordOnTarget,
     TypeRecordOnSource
<1>8. ASSUME NEW q \in Requests, RequestFails(q) \/ RecordOnTargetFails(q)
      PROVE  TypeInv'
  BY <1>8, TypeFailures
<1>9. ASSUME Reads PROVE TypeInv'
  BY <1>9, TypeReads
<1> QED
  BY <1>1, <1>2, <1>3, <1>4, <1>5, <1>6, <1>7, <1>8, <1>9 DEF Next, Reads
-----------------------------------------------------------------------------
(* What steps do to closed incidents: those that are archived or merged.   *)

Closed(i, t) == Exists(i) /\ row[i].into = t

Closing == {"archived", "merged", "told"}

\* A step that closes nothing, and that neither records nor forgets a closing.
Quiet ==
    /\ \A i, t \in Incidents : Closed(i, t)' <=> Closed(i, t)
    /\ untold \subseteq untold'
    /\ \A i \in Incidents :
         /\ Range(history[i]) \subseteq Range(history'[i])
         /\ \A e \in Range(history'[i]) : e \in Range(history[i]) \/ e.kind \in {"created", "updated"}
    /\ \A q \in Requests :
         request'[q] = request[q] \/ (request[q].pc \notin Closing /\ request'[q].pc \notin Closing)

\* An incident whose row is written keeps what it is merged into, or is new.
SameClosed == \A i, t \in Incidents : Closed(i, t)' <=> Closed(i, t)

LEMMA QuietWithoutEntry ==
    ASSUME TypeInv, NEW q \in Requests, NEW r, request' = [request EXCEPT ![q] = r],
           request[q].pc \notin Closing, r.pc \notin Closing,
           SameClosed, UNCHANGED history, untold \subseteq untold'
    PROVE  Quiet
<1>1. request'[q] = r /\ \A p \in Requests \ {q} : request'[p] = request[p]
  BY DEF TypeInv, RequestsType
<1>2. ASSUME NEW p \in Requests
      PROVE  request'[p] = request[p] \/ (request[p].pc \notin Closing /\ request'[p].pc \notin Closing)
  BY <1>1
<1> QED
  BY <1>2 DEF Quiet, SameClosed

LEMMA RowUnchanged ==
    ASSUME UNCHANGED row
    PROVE  SameClosed
BY DEF SameClosed, Closed, Exists

LEMMA QuietNewIncident ==
    ASSUME TypeInv, NEW i \in Incidents, NEW c \in Reports,
           ~Exists(i), row' = [row EXCEPT ![i] = Inserted(c)]
    PROVE  SameClosed
<1>1. row'[i] = Inserted(c) /\ \A j \in Incidents \ {i} : row'[j] = row[j]
  BY DEF TypeInv, TablesType
<1>2. Inserted(c).into = None
  BY DEF Inserted
<1> QED
  BY <1>1, <1>2, Constants DEF SameClosed, Closed, Exists

LEMMA QuietCreate ==
    ASSUME TypeInv, NEW q \in Requests, NEW i \in Incidents, NEW c \in Reports, Create(q, i, c)
    PROVE  Quiet
<1> DEFINE r == [Idle EXCEPT !.pc = "created", !.on = {i}, !.id = i]
<1>1. SameClosed
  BY QuietNewIncident DEF Create
<1>2. request[q].pc \notin Closing /\ r.pc \notin Closing
  BY DEF Create, Takes, Idle, Closing
<1>3. request' = [request EXCEPT ![q] = r] /\ UNCHANGED history /\ untold \subseteq untold'
  BY DEF Create
<1> QED
  BY <1>1, <1>2, <1>3, QuietWithoutEntry

LEMMA QuietCreateAgentKBEntry ==
    ASSUME TypeInv, NEW q \in Requests, NEW i \in Incidents, NEW c \in Reports, CreateAgentKBEntry(q, i, c)
    PROVE  Quiet
<1>1. SameClosed
  BY QuietNewIncident DEF CreateAgentKBEntry
<1> QED
  BY <1>1 DEF CreateAgentKBEntry, Quiet, SameClosed

LEMMA QuietReadForEdit ==
    ASSUME TypeInv, NEW q \in Requests, NEW i \in Incidents, NEW w \in Edits, ReadForEdit(q, i, w)
    PROVE  Quiet
<1> DEFINE r == [Idle EXCEPT !.pc = "edit", !.on = {i}, !.id = i, !.wanted = w, !.old = row[i]]
<1>1. request[q].pc \notin Closing /\ r.pc \notin Closing
  BY DEF ReadForEdit, Takes, Idle, Closing
<1>2. request' = [request EXCEPT ![q] = r] /\ UNCHANGED <<row, history, untold>>
  BY DEF ReadForEdit, tables
<1> QED
  BY <1>1, <1>2, RowUnchanged, QuietWithoutEntry

LEMMA QuietReadTarget ==
    ASSUME TypeInv, NEW q \in Requests, NEW t \in Incidents, NEW s \in Incidents, ReadTarget(q, t, s)
    PROVE  Quiet
<1> DEFINE r == [Idle EXCEPT !.pc = "source", !.on = {t, s}, !.id = t, !.source = s, !.new = row[t]]
<1>1. request[q].pc \notin Closing /\ r.pc \notin Closing
  BY DEF ReadTarget, Takes, Idle, Closing
<1>2. request' = [request EXCEPT ![q] = r] /\ UNCHANGED <<row, history, untold>>
  BY DEF ReadTarget, tables
<1> QED
  BY <1>1, <1>2, RowUnchanged, QuietWithoutEntry

LEMMA QuietWrites ==
    ASSUME TypeInv, NEW q \in Requests, WriteEdit(q) \/ WriteTarget(q)
    PROVE  Quiet
<1>1. TypeInv' /\ \A i \in Incidents : Exists(i) => row'[i].into = row[i].into
  BY TypeWriteEdit, TypeWriteTarget
<1>2. request[q].id \in Incidents /\ Exists(request[q].id)
  BY BusyRequest DEF WriteEdit, WriteTarget
<1>3. \A i \in Incidents : i # request[q].id => row'[i] = row[i]
  BY <1>2 DEF WriteEdit, WriteTarget, TypeInv, TablesType
<1>4. row'[request[q].id] # None
  <2>1. CASE WriteEdit(q)
    <3>1. request[q].wanted \in Edits /\ row[request[q].id] \in Row
      BY <2>1, BusyRequest DEF WriteEdit, TypeInv, RequestsType, Holds
    <3>2. row'[request[q].id] = Edited(row[request[q].id], request[q].wanted)
      BY <1>2, <2>1 DEF WriteEdit, TypeInv, TablesType
    <3> QED
      BY <3>1, <3>2, EditedIsARow, Constants
  <2>2. CASE WriteTarget(q)
    <3> DEFINE old == row[request[q].id]
    <3> DEFINE new == Updated(old, request[q].new)
    <3>1. old \in Row /\ request[q].new \in Row
      BY <2>2, MergingRequest DEF WriteTarget, Merging
    <3>2. new \in Row
      BY <3>1, UpdatedIsARow
    <3>3. row'[request[q].id] = new
      BY <1>2, <2>2 DEF WriteTarget, TypeInv, TablesType
    <3> QED
      BY <3>2, <3>3, Constants
  <2> QED
    BY <2>1, <2>2
<1>5. SameClosed
  BY <1>1, <1>2, <1>3, <1>4 DEF SameClosed, Closed, Exists
<1>6. UNCHANGED history /\ untold \subseteq untold'
  BY DEF WriteEdit, WriteTarget
<1>7. CASE WriteEdit(q)
  <2> DEFINE r == [request[q] EXCEPT !.pc = "edited", !.new = Edited(row[request[q].id], request[q].wanted)]
  <2>1. request[q] \in RequestType /\ request[q].pc = "edit"
    BY <1>7 DEF WriteEdit, TypeInv, RequestsType
  <2>2. r.pc = "edited"
    BY <2>1 DEF RequestType
  <2>3. request' = [request EXCEPT ![q] = r] \/ request' = [request EXCEPT ![q] = Idle]
    BY <1>7 DEF WriteEdit, Ends
  <2>4. Idle.pc = "idle"
    BY DEF Idle
  <2> HIDE DEF r
  <2>5. "edit" \notin Closing /\ "edited" \notin Closing /\ "idle" \notin Closing
    BY DEF Closing
  <2> QED
    BY <1>5, <1>6, <2>1, <2>2, <2>3, <2>4, <2>5, QuietWithoutEntry
<1>8. CASE WriteTarget(q)
  <2> DEFINE r == [request[q] EXCEPT !.pc = "mark"]
  <2>1. request[q] \in RequestType /\ request[q].pc = "merge"
    BY <1>8 DEF WriteTarget, TypeInv, RequestsType
  <2>2. r.pc = "mark"
    BY <2>1 DEF RequestType
  <2>3. request' = [request EXCEPT ![q] = r]
    BY <1>8 DEF WriteTarget, Goes
  <2> HIDE DEF r
  <2>4. "merge" \notin Closing /\ "mark" \notin Closing
    BY DEF Closing
  <2> QED
    BY <1>5, <1>6, <2>1, <2>2, <2>3, <2>4, QuietWithoutEntry
<1> QED
  BY <1>7, <1>8

LEMMA QuietReadSource ==
    ASSUME TypeInv, NEW q \in Requests, ReadSource(q)
    PROVE  Quiet
<1> DEFINE s == row[request[q].source]
<1> DEFINE r == [request[q] EXCEPT !.pc = "merge", !.old = s, !.new = Union(request[q].new, s)]
<1>1. request[q] \in RequestType /\ request[q].pc = "source"
  BY DEF ReadSource, TypeInv, RequestsType
<1>2. r.pc = "merge"
  BY <1>1 DEF RequestType
<1>3. request' = [request EXCEPT ![q] = r] \/ request' = [request EXCEPT ![q] = Idle]
  BY DEF ReadSource, Ends
<1>4. Idle.pc = "idle"
  BY DEF Idle
<1> HIDE DEF r
<1>5. "source" \notin Closing /\ "merge" \notin Closing /\ "idle" \notin Closing
  BY DEF Closing
<1>6. UNCHANGED <<row, history, untold>>
  BY DEF ReadSource, tables
<1> QED
  BY <1>1, <1>2, <1>3, <1>4, <1>5, <1>6, RowUnchanged, QuietWithoutEntry

LEMMA QuietRecord ==
    ASSUME TypeInv, NEW q \in Requests, RecordCreation(q) \/ RecordEdit(q)
    PROVE  Quiet
<1> DEFINE i == request[q].id
<1>1. i \in Incidents
  BY BusyRequest DEF RecordCreation, RecordEdit
<1>2. PICK e \in Entry : Tell(i, e) /\ e.kind \in {"created", "updated"}
  <2>1. CASE RecordCreation(q)
    BY <2>1, EntriesAreEntries DEF RecordCreation
  <2>2. CASE RecordEdit(q)
    <3>1. request[q].old \in Row /\ request[q].new \in Row
      BY <2>2 DEF RecordEdit, TypeInv, RequestsType, Holds
    <3> QED
      BY <2>2, <3>1, EntriesAreEntries DEF RecordEdit
  <2> QED
    BY <2>1, <2>2
<1>3. /\ Range(history'[i]) = Range(history[i]) \union {e}
      /\ \A j \in Incidents : j # i => history'[j] = history[j]
  BY <1>1, <1>2, TellAppends DEF TypeInv
<1>4. /\ request[q].pc \notin Closing /\ request'[q].pc \notin Closing
      /\ \A p \in Requests \ {q} : request'[p] = request[p]
  BY DEF RecordCreation, RecordEdit, Ends, Idle, Closing, TypeInv, RequestsType
<1>5. UNCHANGED <<row, untold>>
  BY DEF RecordCreation, RecordEdit
<1> HIDE DEF i
<1> QED
  BY <1>2, <1>3, <1>4, <1>5, RowUnchanged DEF Quiet, SameClosed

LEMMA QuietReads ==
    ASSUME Reads
    PROVE  Quiet
BY ReadsChangeNothing, RowUnchanged DEF Quiet, SameClosed

-----------------------------------------------------------------------------
(* The other steps: they close an incident, or end what a closing owes.    *)

Others(q) == \A p \in Requests \ {q} : request'[p] = request[p]

LEMMA DeleteCloses ==
    ASSUME TypeInv, NEW q \in Requests, NEW i \in Incidents, Delete(q, i)
    PROVE  /\ \A j, t \in Incidents : j # i => (Closed(j, t)' <=> Closed(j, t))
           /\ \A t \in Incidents : ~Closed(i, t) /\ (Closed(i, t)' <=> t = i)
           /\ Others(q) /\ UNCHANGED <<history, untold>>
           /\ request[q].pc \notin Closing
           /\ request'[q].pc = "archived" /\ request'[q].id = i
<1>1. /\ row'[i].into = i /\ row[i].into = None /\ row'[i] \in Row
      /\ \A j \in Incidents : j # i => row'[j] = row[j]
  BY TypeDelete
<1>2. /\ Others(q) /\ UNCHANGED <<history, untold>>
      /\ request[q].pc \notin Closing
      /\ request'[q].pc = "archived" /\ request'[q].id = i
  BY DEF Delete, Takes, Others, Idle, Closing, TypeInv, RequestsType
<1> QED
  BY <1>1, <1>2, Constants DEF Closed, Exists

LEMMA MarkSourceCloses ==
    ASSUME TypeInv, NEW q \in Requests, MarkSource(q), ~ UNCHANGED row
    PROVE  LET i == request[q].source
               t == request[q].id
           IN /\ \A j, u \in Incidents : j # i => (Closed(j, u)' <=> Closed(j, u))
              /\ \A u \in Incidents : ~Closed(i, u) /\ (Closed(i, u)' <=> u = t)
              /\ Others(q) /\ UNCHANGED <<history, untold>>
              /\ request[q].pc \notin Closing
              /\ request'[q].pc = "merged" /\ request'[q].id = t /\ request'[q].source = i
              /\ i \in Incidents /\ t \in Incidents /\ i # t
<1> DEFINE i == request[q].source
<1> DEFINE t == request[q].id
<1>1. i \in Incidents /\ t \in Incidents /\ i # t
  BY MergingRequest DEF MarkSource, Merging
<1>2. /\ row[i].into = None /\ row'[i].into = t /\ row'[i] \in Row
      /\ Kept(request[q], request'[q]) /\ request'[q].pc = "merged"
      /\ \A j \in Incidents : j # i => row'[j] = row[j]
  BY TypeMarkSource
<1>3. \A j, u \in Incidents : j # i => (Closed(j, u)' <=> Closed(j, u))
  BY <1>2 DEF Closed, Exists
<1>4. \A u \in Incidents : ~Closed(i, u) /\ (Closed(i, u)' <=> u = t)
  BY <1>1, <1>2, Constants DEF Closed, Exists, Kept
<1>5. Others(q) /\ UNCHANGED history
  BY DEF MarkSource, Goes, Ends, Others, TypeInv, RequestsType
<1>6. UNCHANGED untold
  BY DEF MarkSource
<1>7. request[q].pc \notin Closing
  BY DEF MarkSource, Closing
<1> QED
  BY <1>1, <1>2, <1>3, <1>4, <1>5, <1>6, <1>7 DEF Kept

LEMMA QuietMarkSource ==
    ASSUME TypeInv, NEW q \in Requests, MarkSource(q), UNCHANGED row
    PROVE  Quiet
<1>1. request[q].source \in Incidents /\ request[q].id \in Incidents /\ row[request[q].source] \in Row
  BY MergingRequest DEF MarkSource, Merging
<1>2. row[request[q].source].into # None
  <2> SUFFICES ASSUME row[request[q].source].into = None PROVE FALSE
    OBVIOUS
  <2>1. row' = [row EXCEPT ![request[q].source] = [@ EXCEPT !.into = request[q].id]]
    BY DEF MarkSource
  <2>2. row'[request[q].source].into = request[q].id
    BY <1>1, <2>1 DEF Row, TypeInv, TablesType
  <2> QED
    BY <1>1, <2>2, Constants
<1>3. /\ request' = [request EXCEPT ![q] = Idle] /\ UNCHANGED history /\ untold \subseteq untold'
      /\ request[q].pc \notin Closing
  BY <1>2 DEF MarkSource, Ends, Closing
<1>4. Idle.pc \notin Closing
  BY DEF Idle, Closing
<1> QED
  BY <1>3, <1>4, RowUnchanged, QuietWithoutEntry

LEMMA ArchivingRecorded ==
    ASSUME TypeInv, NEW q \in Requests, RecordArchiving(q)
    PROVE  LET i == request[q].id
               e == [kind |-> "archived"]
           IN /\ i \in Incidents /\ e \in Entry
              /\ Range(history'[i]) = Range(history[i]) \union {e}
              /\ \A j \in Incidents : j # i => history'[j] = history[j]
              /\ UNCHANGED <<row, untold>>
              /\ Others(q) /\ request[q].pc = "archived" /\ request'[q].pc \notin Closing
<1> DEFINE i == request[q].id
<1> DEFINE e == [kind |-> "archived"]
<1>1. i \in Incidents /\ e \in Entry
  BY BusyRequest, EntriesAreEntries DEF RecordArchiving
<1>2. Tell(i, e) /\ UNCHANGED <<row, untold>>
  BY DEF RecordArchiving
<1>3. Others(q) /\ request[q].pc = "archived" /\ request'[q].pc \notin Closing
  BY DEF RecordArchiving, Ends, Idle, Others, Closing, TypeInv, RequestsType
<1> HIDE DEF e
<1> QED
  BY <1>1, <1>2, <1>3, TellAppends DEF TypeInv, e

LEMMA MergeRecordedOnTarget ==
    ASSUME TypeInv, NEW q \in Requests, RecordOnTarget(q)
    PROVE  LET t == request[q].id
               e == SourceEntry(q)
           IN /\ t \in Incidents /\ request[q].source \in Incidents /\ e \in Entry
              /\ Range(history'[t]) = Range(history[t]) \union {e}
              /\ \A j \in Incidents : j # t => history'[j] = history[j]
              /\ UNCHANGED <<row, untold>>
              /\ Others(q) /\ request[q].pc = "merged"
              /\ Kept(request[q], request'[q]) /\ request'[q].pc = "told"
<1>1. request[q].id \in Incidents /\ request[q].source \in Incidents
  BY MergingRequest DEF RecordOnTarget, Merging
<1>2. /\ Kept(request[q], request'[q]) /\ request'[q].pc = "told"
      /\ SourceEntry(q) \in Entry /\ Tell(request[q].id, SourceEntry(q))
  BY TypeRecordOnTarget
<1>3. Others(q) /\ request[q].pc = "merged" /\ UNCHANGED <<row, untold>>
  BY DEF RecordOnTarget, Goes, Others, TypeInv, RequestsType
<1> QED
  BY <1>1, <1>2, <1>3, TellAppends DEF TypeInv

LEMMA MergeRecordedOnSource ==
    ASSUME TypeInv, NEW q \in Requests, RecordOnSource(q)
    PROVE  LET s == request[q].source
               e == [kind |-> "merged_into", into |-> request[q].id]
           IN /\ s \in Incidents /\ request[q].id \in Incidents /\ e \in Entry
              /\ Range(history'[s]) = Range(history[s]) \union {e}
              /\ \A j \in Incidents : j # s => history'[j] = history[j]
              /\ UNCHANGED <<row, untold>>
              /\ Others(q) /\ request[q].pc = "told" /\ request'[q].pc \notin Closing
<1> DEFINE s == request[q].source
<1> DEFINE e == [kind |-> "merged_into", into |-> request[q].id]
<1>1. s \in Incidents /\ request[q].id \in Incidents
  BY MergingRequest DEF RecordOnSource, Merging
<1>2. e \in Entry
  BY <1>1, EntriesAreEntries
<1>3. Tell(s, e) /\ UNCHANGED <<row, untold>>
  BY DEF RecordOnSource
<1>4. Others(q) /\ request[q].pc = "told" /\ request'[q].pc \notin Closing
  BY DEF RecordOnSource, Ends, Idle, Others, Closing, TypeInv, RequestsType
<1> HIDE DEF e
<1> QED
  BY <1>1, <1>2, <1>3, <1>4, TellAppends DEF TypeInv, e

-----------------------------------------------------------------------------
(* Entries are true.                                                       *)

EntryIsTrue(i, e) ==
    /\ e.kind = "archived" => Closed(i, i)
    /\ NamesTarget(e) => e.into \in Incidents /\ Closed(i, e.into)
    /\ NamesSource(e) => e.source \in Incidents /\ Closed(e.source, i)

\* A request that is about to record a closing made it.
RequestMadeIt(q) ==
    /\ request[q].pc = "archived" => Closed(request[q].id, request[q].id)
    /\ request[q].pc \in {"merged", "told"} => Closed(request[q].source, request[q].id)

TruthInv ==
    /\ \A i \in Incidents : \A e \in Range(history[i]) : EntryIsTrue(i, e)
    /\ \A q \in Requests : RequestMadeIt(q)

\* What is closed stays so.
Stays == \A i, t \in Incidents : Closed(i, t) => Closed(i, t)'

\* What was told before the step is still true after it.
LEMMA OldEntriesStayTrue ==
    ASSUME TruthInv, Stays
    PROVE  \A i \in Incidents : \A e \in Range(history[i]) : EntryIsTrue(i, e)'
BY DEF TruthInv, Stays, EntryIsTrue

LEMMA OtherRequestsStayTrue ==
    ASSUME TypeInv, TruthInv, Stays, NEW p \in Requests, request'[p] = request[p]
    PROVE  RequestMadeIt(p)'
<1>1. CASE request[p].pc = "archived"
  <2>1. request[p].id \in Incidents
    BY <1>1, BusyRequest
  <2> QED
    BY <1>1, <2>1 DEF TruthInv, Stays, RequestMadeIt
<1>2. CASE request[p].pc \in {"merged", "told"}
  <2>1. request[p].id \in Incidents /\ request[p].source \in Incidents
    BY <1>2, MergingRequest DEF Merging
  <2> QED
    BY <1>2, <2>1 DEF TruthInv, Stays, RequestMadeIt
<1>3. CASE request[p].pc \notin {"archived", "merged", "told"}
  BY <1>3 DEF RequestMadeIt
<1> QED
  BY <1>1, <1>2, <1>3

\* A step that inserts entry e for incident i on behalf of q, which keeps rows as they are.
LEMMA TruthIsTold ==
    ASSUME TypeInv, TruthInv, NEW q \in Requests, NEW i \in Incidents, NEW e \in Entry,
           Range(history'[i]) = Range(history[i]) \union {e},
           \A j \in Incidents : j # i => history'[j] = history[j],
           UNCHANGED row, Others(q), EntryIsTrue(i, e), RequestMadeIt(q)'
    PROVE  TruthInv'
<1>1. Stays
  BY DEF Stays, Closed, Exists
<1>2. EntryIsTrue(i, e)'
  BY DEF EntryIsTrue, Closed, Exists
<1>3. \A p \in Requests : RequestMadeIt(p)'
  BY <1>1, OtherRequestsStayTrue DEF Others
<1>4. ASSUME NEW j \in Incidents, NEW d \in Range(history'[j]) PROVE EntryIsTrue(j, d)'
  BY <1>1, <1>2, OldEntriesStayTrue
<1> QED
  BY <1>3, <1>4 DEF TruthInv

LEMMA TruthQuiet ==
    ASSUME TypeInv, TruthInv, Quiet
    PROVE  TruthInv'
<1>1. Stays
  BY DEF Quiet, Stays
<1>2. ASSUME NEW j \in Incidents, NEW d \in Range(history'[j]) PROVE EntryIsTrue(j, d)'
  <2>1. CASE d \in Range(history[j])
    BY <1>1, <2>1, OldEntriesStayTrue
  <2>2. CASE d.kind \in {"created", "updated"}
    BY <2>2 DEF EntryIsTrue, NamesTarget, NamesSource
  <2> QED
    BY <2>1, <2>2 DEF Quiet
<1>3. ASSUME NEW p \in Requests PROVE RequestMadeIt(p)'
  <2>1. CASE request'[p] = request[p]
    BY <1>1, <2>1, OtherRequestsStayTrue
  <2>2. CASE request'[p].pc \notin Closing
    BY <2>2 DEF RequestMadeIt, Closing
  <2> QED
    BY <2>1, <2>2 DEF Quiet
<1> QED
  BY <1>2, <1>3 DEF TruthInv

LEMMA TruthDelete ==
    ASSUME TypeInv, TruthInv, NEW q \in Requests, NEW i \in Incidents, Delete(q, i)
    PROVE  TruthInv'
<1>1. Stays
  BY DeleteCloses DEF Stays
<1>2. RequestMadeIt(q)'
  BY DeleteCloses DEF RequestMadeIt
<1>3. \A p \in Requests : RequestMadeIt(p)'
  BY <1>1, <1>2, DeleteCloses, OtherRequestsStayTrue DEF Others
<1>4. ASSUME NEW j \in Incidents, NEW d \in Range(history'[j]) PROVE EntryIsTrue(j, d)'
  BY <1>1, DeleteCloses, OldEntriesStayTrue
<1> QED
  BY <1>3, <1>4 DEF TruthInv

LEMMA TruthMarkSource ==
    ASSUME TypeInv, TruthInv, NEW q \in Requests, MarkSource(q)
    PROVE  TruthInv'
<1>1. CASE UNCHANGED row
  BY <1>1, QuietMarkSource, TruthQuiet
<1>2. CASE ~ UNCHANGED row
  <2>1. Stays
    <3> SUFFICES ASSUME NEW j \in Incidents, NEW u \in Incidents, Closed(j, u) PROVE Closed(j, u)'
      BY DEF Stays
    <3> QED
      BY <1>2, MarkSourceCloses
  <2>2. RequestMadeIt(q)'
    BY <1>2, MarkSourceCloses DEF RequestMadeIt
  <2>3. \A p \in Requests : RequestMadeIt(p)'
    BY <1>2, <2>1, <2>2, MarkSourceCloses, OtherRequestsStayTrue DEF Others
  <2>4. UNCHANGED history
    BY <1>2, MarkSourceCloses
  <2>5. ASSUME NEW j \in Incidents, NEW d \in Range(history'[j]) PROVE EntryIsTrue(j, d)'
    BY <2>1, <2>4, OldEntriesStayTrue
  <2> QED
    BY <2>3, <2>5 DEF TruthInv
<1> QED
  BY <1>1, <1>2

LEMMA TruthRecord ==
    ASSUME TypeInv, TruthInv, NEW q \in Requests,
           RecordArchiving(q) \/ RecordOnTarget(q) \/ RecordOnSource(q)
    PROVE  TruthInv'
<1>1. CASE RecordArchiving(q)
  <2> DEFINE e == [kind |-> "archived"]
  <2>1. EntryIsTrue(request[q].id, e) /\ RequestMadeIt(q)'
    BY <1>1, ArchivingRecorded DEF TruthInv, RequestMadeIt, EntryIsTrue, NamesTarget, NamesSource, Closing
  <2> HIDE DEF e
  <2> QED
    BY <1>1, <2>1, ArchivingRecorded, TruthIsTold DEF e
<1>2. CASE RecordOnTarget(q)
  <2>1. EntryIsTrue(request[q].id, SourceEntry(q))
    BY <1>2, MergeRecordedOnTarget DEF TruthInv, RequestMadeIt, EntryIsTrue, NamesTarget, NamesSource, SourceEntry
  <2>2. RequestMadeIt(q)'
    BY <1>2, MergeRecordedOnTarget DEF TruthInv, RequestMadeIt, Kept, Closed, Exists
  <2> QED
    BY <1>2, <2>1, <2>2, MergeRecordedOnTarget, TruthIsTold
<1>3. CASE RecordOnSource(q)
  <2> DEFINE e == [kind |-> "merged_into", into |-> request[q].id]
  <2>1. EntryIsTrue(request[q].source, e) /\ RequestMadeIt(q)'
    BY <1>3, MergeRecordedOnSource DEF TruthInv, RequestMadeIt, EntryIsTrue, NamesTarget, NamesSource, Closing
  <2> HIDE DEF e
  <2> QED
    BY <1>3, <2>1, MergeRecordedOnSource, TruthIsTold DEF e
<1> QED
  BY <1>1, <1>2, <1>3

LEMMA TruthFailures ==
    ASSUME TypeInv, TruthInv, NEW q \in Requests, RequestFails(q) \/ RecordOnTargetFails(q)
    PROVE  TruthInv'
<1>1. UNCHANGED <<row, history>> /\ Others(q)
  BY DEF RequestFails, RecordOnTargetFails, tables, Goes, Ends, Others, TypeInv, RequestsType
<1>2. Stays
  BY <1>1 DEF Stays, Closed, Exists
<1>3. RequestMadeIt(q)'
  <2>1. CASE RequestFails(q)
    BY <2>1 DEF RequestFails, Ends, Idle, RequestMadeIt, TypeInv, RequestsType
  <2>2. CASE RecordOnTargetFails(q)
    <3>1. request[q].pc = "merged" /\ Goes(q, "told")
      BY <2>2 DEF RecordOnTargetFails
    <3>2. TablesType' /\ Existing' = Existing
      BY <1>1 DEF TypeInv, TablesType, Existing, Exists
    <3>3. Kept(request[q], request'[q]) /\ request'[q].pc = "told"
      BY <3>1, <3>2, MergeGoesOn
    <3> QED
      BY <1>1, <3>1, <3>3 DEF TruthInv, RequestMadeIt, Kept, Closed, Exists
  <2> QED
    BY <2>1, <2>2
<1>4. \A p \in Requests : RequestMadeIt(p)'
  BY <1>1, <1>2, <1>3, OtherRequestsStayTrue DEF Others
<1>5. ASSUME NEW j \in Incidents, NEW d \in Range(history'[j]) PROVE EntryIsTrue(j, d)'
  BY <1>1, <1>2, OldEntriesStayTrue
<1> QED
  BY <1>4, <1>5 DEF TruthInv

LEMMA TruthInit == Init => TruthInv
<1> SUFFICES ASSUME Init PROVE TruthInv
  OBVIOUS
<1>1. \A i \in Incidents : Range(history[i]) = {}
  BY DEF Init, Range
<1> QED
  BY <1>1 DEF Init, Idle, TruthInv, RequestMadeIt

LEMMA QuietSteps ==
    ASSUME TypeInv, NEW q \in Requests, NEW i \in Incidents,
           \/ \E c \in Reports : Create(q, i, c) \/ CreateAgentKBEntry(q, i, c)
           \/ \E w \in Edits : ReadForEdit(q, i, w)
           \/ \E s \in Incidents : ReadTarget(q, i, s)
    PROVE  Quiet
BY QuietCreate, QuietCreateAgentKBEntry, QuietReadForEdit, QuietReadTarget

LEMMA QuietMoreSteps ==
    ASSUME TypeInv, NEW q \in Requests,
           RecordCreation(q) \/ WriteEdit(q) \/ RecordEdit(q) \/ ReadSource(q) \/ WriteTarget(q)
    PROVE  Quiet
BY QuietRecord, QuietWrites, QuietReadSource

LEMMA TruthStep == TypeInv /\ TruthInv /\ [Next]_vars => TruthInv'
<1> SUFFICES ASSUME TypeInv, TruthInv, [Next]_vars PROVE TruthInv'
  OBVIOUS
<1>1. CASE Quiet
  BY <1>1, TruthQuiet
<1>2. ASSUME NEW q \in Requests, NEW i \in Incidents, Delete(q, i) PROVE TruthInv'
  BY <1>2, TruthDelete
<1>3. ASSUME NEW q \in Requests,
             MarkSource(q) \/ RecordArchiving(q) \/ RecordOnTarget(q) \/ RecordOnSource(q)
      PROVE  TruthInv'
  BY <1>3, TruthMarkSource, TruthRecord
<1>4. ASSUME NEW q \in Requests, RequestFails(q) \/ RecordOnTargetFails(q) PROVE TruthInv'
  BY <1>4, TruthFailures
<1> QED
  BY <1>1, <1>2, <1>3, <1>4, QuietSteps, QuietMoreSteps, QuietReads DEF Next, Reads

\* Whoever opens the history of an incident reads no archiving and no merge that was lost to
\* another request: what an entry says of a closing is true of the rows (incident/service.go:203,
\* 217; SoftDelete and SetMergedInto of incident/store.go).
THEOREM HistoryIsTrueCorrect == Spec => []HistoryIsTrue
<1>1. TruthInv => HistoryIsTrue
  BY DEF TruthInv, EntryIsTrue, HistoryIsTrue, Closed
<1> QED
  BY <1>1, TypeInit, TypeStep, TruthInit, TruthStep, PTL DEF Spec

-----------------------------------------------------------------------------
(* Closings are told.                                                      *)

ToldArchived(i) ==
    \/ i \in untold
    \/ \E e \in Range(history[i]) : e.kind = "archived"
    \/ \E q \in Requests : request[q].pc = "archived" /\ request[q].id = i

ToldOnSource(i, t) ==
    \/ i \in untold
    \/ \E e \in Range(history[i]) : NamesTarget(e)
    \/ \E q \in Requests : TellsSource(q, t, i)

ToldOnTarget(i, t) ==
    \/ t \in untold
    \/ \E e \in Range(history[t]) : NamesSource(e) /\ e.source = i
    \/ \E q \in Requests : TellsTarget(q, t, i)

BothTold(i, t) == IF t = i THEN ToldArchived(i) ELSE ToldOnSource(i, t) /\ ToldOnTarget(i, t)

ToldInv == \A i, t \in Incidents : Closed(i, t) => BothTold(i, t)

\* A step forgets nothing that was told or given up.
Remembers ==
    /\ untold \subseteq untold'
    /\ \A i \in Incidents : Range(history[i]) \subseteq Range(history'[i])

\* What request p was to tell is told after the step, or still to be told.
Delivers(p) ==
    \A i, t \in Incidents :
      /\ request[p].pc = "archived" /\ request[p].id = i => ToldArchived(i)'
      /\ TellsSource(p, t, i) => ToldOnSource(i, t)'
      /\ TellsTarget(p, t, i) => ToldOnTarget(i, t)'

LEMMA UntouchedDelivers ==
    ASSUME NEW p \in Requests, request'[p] = request[p] \/ request[p].pc \notin Closing
    PROVE  Delivers(p)
<1>1. CASE request'[p] = request[p]
  BY <1>1 DEF Delivers, ToldArchived, ToldOnSource, ToldOnTarget, TellsSource, TellsTarget
<1>2. CASE request[p].pc \notin Closing
  BY <1>2 DEF Delivers, TellsSource, TellsTarget, Closing
<1> QED
  BY <1>1, <1>2

\* What was told stays told, when every request delivers.
LEMMA ToldStaysTold ==
    ASSUME Remembers, \A p \in Requests : Delivers(p), NEW i \in Incidents, NEW t \in Incidents, BothTold(i, t)
    PROVE  BothTold(i, t)'
<1>1. ToldArchived(i) => ToldArchived(i)'
  BY DEF Remembers, Delivers, ToldArchived
<1>2. ToldOnSource(i, t) => ToldOnSource(i, t)'
  BY DEF Remembers, Delivers, ToldOnSource
<1>3. ToldOnTarget(i, t) => ToldOnTarget(i, t)'
  BY DEF Remembers, Delivers, ToldOnTarget
<1> QED
  BY <1>1, <1>2, <1>3 DEF BothTold

LEMMA ToldQuiet ==
    ASSUME ToldInv, Quiet
    PROVE  ToldInv'
<1>1. Remembers
  BY DEF Quiet, Remembers
<1>2. \A p \in Requests : Delivers(p)
  BY UntouchedDelivers DEF Quiet
<1> QED
  BY <1>1, <1>2, ToldStaysTold DEF ToldInv, Quiet

\* A step that closes nothing and leaves all requests but q alone.
LEMMA ToldByOne ==
    ASSUME ToldInv, NEW q \in Requests, Others(q), Delivers(q), Remembers, UNCHANGED row
    PROVE  ToldInv'
<1>1. \A p \in Requests : Delivers(p)
  BY UntouchedDelivers DEF Others
<1>2. \A i, t \in Incidents : Closed(i, t)' => Closed(i, t)
  BY DEF Closed, Exists
<1> QED
  BY <1>1, <1>2, ToldStaysTold DEF ToldInv

LEMMA ToldDelete ==
    ASSUME TypeInv, ToldInv, NEW q \in Requests, NEW i \in Incidents, Delete(q, i)
    PROVE  ToldInv'
<1>1. Remembers /\ \A p \in Requests : Delivers(p)
  BY DeleteCloses, UntouchedDelivers DEF Remembers, Others
<1>2. ASSUME NEW j \in Incidents, NEW t \in Incidents, Closed(j, t)' PROVE BothTold(j, t)'
  <2>1. CASE j # i
    BY <1>1, <1>2, <2>1, DeleteCloses, ToldStaysTold DEF ToldInv
  <2>2. CASE j = i
    <3>1. t = i /\ request'[q].pc = "archived" /\ request'[q].id = i
      BY <1>2, <2>2, DeleteCloses
    <3> QED
      BY <2>2, <3>1 DEF BothTold, ToldArchived
  <2> QED
    BY <2>1, <2>2
<1> QED
  BY <1>2 DEF ToldInv

LEMMA ToldMarkSource ==
    ASSUME TypeInv, ToldInv, NEW q \in Requests, MarkSource(q)
    PROVE  ToldInv'
<1>1. CASE UNCHANGED row
  BY <1>1, QuietMarkSource, ToldQuiet
<1>2. CASE ~ UNCHANGED row
  <2>1. PICK i \in Incidents, t \in Incidents :
          /\ i = request[q].source /\ t = request[q].id /\ i # t
          /\ \A j, u \in Incidents : j # i => (Closed(j, u)' <=> Closed(j, u))
          /\ \A u \in Incidents : Closed(i, u)' => u = t
          /\ Others(q) /\ UNCHANGED <<history, untold>>
          /\ request[q].pc \notin Closing
          /\ request'[q].pc = "merged" /\ request'[q].id = t /\ request'[q].source = i
    BY <1>2, MarkSourceCloses
  <2>2. Remembers /\ \A p \in Requests : Delivers(p)
    BY <2>1, UntouchedDelivers DEF Remembers, Others
  <2>3. ASSUME NEW j \in Incidents, NEW u \in Incidents, Closed(j, u)' PROVE BothTold(j, u)'
    <3>1. CASE j # i
      BY <2>1, <2>2, <2>3, <3>1, ToldStaysTold DEF ToldInv
    <3>2. CASE j = i
      BY <2>1, <2>3, <3>2 DEF BothTold, ToldOnSource, ToldOnTarget, TellsSource, TellsTarget
    <3> QED
      BY <3>1, <3>2
  <2> QED
    BY <2>3 DEF ToldInv
<1> QED
  BY <1>1, <1>2

LEMMA ToldRecord ==
    ASSUME TypeInv, ToldInv, NEW q \in Requests,
           RecordArchiving(q) \/ RecordOnTarget(q) \/ RecordOnSource(q)
    PROVE  ToldInv'
<1>1. CASE RecordArchiving(q)
  <2>1. Delivers(q)
    BY <1>1, ArchivingRecorded DEF Delivers, ToldArchived, TellsSource, TellsTarget
  <2>2. Remembers /\ Others(q) /\ UNCHANGED row
    BY <1>1, ArchivingRecorded DEF Remembers
  <2> QED
    BY <2>1, <2>2, ToldByOne
<1>2. CASE RecordOnTarget(q)
  <2>1. \A i, t \in Incidents : TellsSource(q, t, i) => ToldOnSource(i, t)'
    BY <1>2, MergeRecordedOnTarget DEF ToldOnSource, TellsSource, Kept
  <2>2. \A i, t \in Incidents : TellsTarget(q, t, i) => ToldOnTarget(i, t)'
    <3> SUFFICES ASSUME NEW i \in Incidents, NEW t \in Incidents, TellsTarget(q, t, i)
                 PROVE  ToldOnTarget(i, t)'
      OBVIOUS
    <3>1. t = request[q].id /\ i = request[q].source
      BY DEF TellsTarget
    <3>2. PICK e \in Entry : e = SourceEntry(q) /\ e \in Range(history'[t])
      BY <1>2, <3>1, MergeRecordedOnTarget
    <3>3. NamesSource(e) /\ e.source = i
      BY <3>1, <3>2 DEF SourceEntry, NamesSource
    <3> QED
      BY <3>2, <3>3 DEF ToldOnTarget
  <2>3. Delivers(q)
    BY <1>2, <2>1, <2>2, MergeRecordedOnTarget DEF Delivers
  <2>4. Remembers /\ Others(q) /\ UNCHANGED row
    BY <1>2, MergeRecordedOnTarget DEF Remembers
  <2> QED
    BY <2>3, <2>4, ToldByOne
<1>3. CASE RecordOnSource(q)
  <2>1. Delivers(q)
    <3> SUFFICES ASSUME NEW i \in Incidents, NEW t \in Incidents, TellsSource(q, t, i)
                 PROVE  ToldOnSource(i, t)'
      BY <1>3, MergeRecordedOnSource DEF Delivers, TellsTarget
    <3>1. t = request[q].id /\ i = request[q].source
      BY DEF TellsSource
    <3>2. PICK e \in Entry : e = [kind |-> "merged_into", into |-> t] /\ e \in Range(history'[i])
      BY <1>3, <3>1, MergeRecordedOnSource
    <3> QED
      BY <3>2 DEF ToldOnSource, NamesTarget
  <2>2. Remembers /\ Others(q) /\ UNCHANGED row
    BY <1>3, MergeRecordedOnSource DEF Remembers
  <2> QED
    BY <2>1, <2>2, ToldByOne
<1> QED
  BY <1>1, <1>2, <1>3

LEMMA ToldFailures ==
    ASSUME TypeInv, ToldInv, NEW q \in Requests, RequestFails(q) \/ RecordOnTargetFails(q)
    PROVE  ToldInv'
<1>1. UNCHANGED <<row, history>> /\ Others(q)
  BY DEF RequestFails, RecordOnTargetFails, tables, Goes, Ends, Others, TypeInv, RequestsType
<1>2. Remembers
  BY <1>1 DEF Remembers, RequestFails, RecordOnTargetFails
<1>3. Delivers(q)
  <2>1. CASE RequestFails(q)
    BY <2>1 DEF RequestFails, ToTell, Delivers, ToldArchived, ToldOnSource, ToldOnTarget, TellsSource, TellsTarget
  <2>2. CASE RecordOnTargetFails(q)
    <3>1. request[q].pc = "merged" /\ Goes(q, "told") /\ request[q].id \in untold'
      BY <2>2 DEF RecordOnTargetFails
    <3>2. TablesType' /\ Existing' = Existing
      BY <1>1 DEF TypeInv, TablesType, Existing, Exists
    <3>3. Kept(request[q], request'[q]) /\ request'[q].pc = "told"
      BY <3>1, <3>2, MergeGoesOn
    <3> QED
      BY <3>1, <3>3 DEF Delivers, ToldOnSource, ToldOnTarget, TellsSource, TellsTarget, Kept
  <2> QED
    BY <2>1, <2>2
<1> QED
  BY <1>1, <1>2, <1>3, ToldByOne

LEMMA ToldStep == TypeInv /\ ToldInv /\ [Next]_vars => ToldInv'
<1> SUFFICES ASSUME TypeInv, ToldInv, [Next]_vars PROVE ToldInv'
  OBVIOUS
<1>1. CASE Quiet
  BY <1>1, ToldQuiet
<1>2. ASSUME NEW q \in Requests, NEW i \in Incidents, Delete(q, i) PROVE ToldInv'
  BY <1>2, ToldDelete
<1>3. ASSUME NEW q \in Requests,
             MarkSource(q) \/ RecordArchiving(q) \/ RecordOnTarget(q) \/ RecordOnSource(q)
      PROVE  ToldInv'
  BY <1>3, ToldMarkSource, ToldRecord
<1>4. ASSUME NEW q \in Requests, RequestFails(q) \/ RecordOnTargetFails(q) PROVE ToldInv'
  BY <1>4, ToldFailures
<1> QED
  BY <1>1, <1>2, <1>3, <1>4, QuietSteps, QuietMoreSteps, QuietReads DEF Next, Reads

\* However many requests overlap, a merge or an archiving is missing from a history only while its
\* request is at work on it or when an insert failed (incident/service.go:208-213, 290-312).
THEOREM ClosingIsToldCorrect == Spec => []ClosingIsTold
<1>1. Init => ToldInv
  BY DEF Init, ToldInv, Closed, Exists
<1>2. TypeInv /\ ToldInv => ClosingIsTold
  <2> SUFFICES ASSUME TypeInv, ToldInv, NEW i \in Incidents, Exists(i), row[i].into # None
               PROVE  BothTold(i, row[i].into)
    BY DEF ClosingIsTold, BothTold, ToldArchived, ToldOnSource, ToldOnTarget
  <2>1. row[i] \in Row
    BY DEF TypeInv, TablesType, Exists
  <2>2. row[i].into \in Incidents
    BY <2>1 DEF Row
  <2> QED
    BY <2>2 DEF ToldInv, Closed
<1> QED
  BY <1>1, <1>2, TypeInit, TypeStep, ToldStep, PTL DEF Spec

-----------------------------------------------------------------------------
(* The rest of the type invariant.                                         *)

LEMMA RestInit == Init => RestType
BY ConstantsAssumption DEF Init, RestType, NoDetail, Exists

\* A step that adds no entry for an incident that does not exist.
LEMMA EmptyStaysEmpty ==
    ASSUME RestType, Existing \subseteq Existing',
           \A i \in Incidents : i \in Existing \/ history'[i] = history[i]
    PROVE  \A i \in Incidents : ~Exists(i)' => history'[i] = <<>>
BY DEF RestType, Existing, Exists

LEMMA RestOfTaken ==
    ASSUME RestType, NEW q \in Requests, NEW S \in SUBSET Incidents, Takes(q, S),
           Existing \subseteq Existing', UNCHANGED <<history, detail, untold, failures>>
    PROVE  RestType'
<1>1. \A i \in Incidents : ~Exists(i)' => history'[i] = <<>>
  BY EmptyStaysEmpty
<1>2. overlapped' \subseteq Incidents
  BY DEF Takes, RestType
<1>3. changes' \in 0 .. MaxChanges
  BY ConstantsAssumption DEF Takes, RestType
<1> QED
  BY <1>1, <1>2, <1>3 DEF RestType

LEMMA RestOfNewRequest ==
    ASSUME TypeInv, RestType, NEW q \in Requests, NEW i \in Incidents,
           \/ \E c \in Reports : Create(q, i, c) \/ CreateAgentKBEntry(q, i, c)
           \/ \E w \in Edits : ReadForEdit(q, i, w)
           \/ Delete(q, i)
           \/ \E s \in Incidents : ReadTarget(q, i, s)
    PROVE  RestType'
<1>1. ASSUME NEW c \in Reports, Create(q, i, c)
      PROVE  RestType'
  <2>1. Existing \subseteq Existing'
    BY <1>1, InsertedIsARow, RowBecomes DEF Create, TypeInv
  <2> QED
    BY <1>1, <2>1, RestOfTaken DEF Create
<1>2. ASSUME NEW c \in Reports, CreateAgentKBEntry(q, i, c)
      PROVE  RestType'
  <2>1. Existing \subseteq Existing'
    BY <1>2, InsertedIsARow, RowBecomes DEF CreateAgentKBEntry, TypeInv
  <2> QED
    BY <1>2, <2>1, RestOfTaken DEF CreateAgentKBEntry
<1>3. ASSUME NEW w \in Edits, ReadForEdit(q, i, w) PROVE RestType'
  BY <1>3, RestOfTaken DEF ReadForEdit, tables, Existing, Exists
<1>4. CASE Delete(q, i)
  <2>1. Existing \subseteq Existing'
    BY <1>4, TypeDelete, Constants DEF Existing, Exists
  <2> QED
    BY <1>4, <2>1, RestOfTaken DEF Delete
<1>5. ASSUME NEW s \in Incidents, ReadTarget(q, i, s) PROVE RestType'
  BY <1>5, RestOfTaken DEF ReadTarget, tables, Existing, Exists
<1> QED
  BY <1>1, <1>2, <1>3, <1>4, <1>5

LEMMA RestOfWrites ==
    ASSUME TypeInv, RestType, NEW q \in Requests,
           WriteEdit(q) \/ ReadSource(q) \/ WriteTarget(q) \/ MarkSource(q)
    PROVE  RestType'
<1>1. Existing \subseteq Existing'
  <2>1. CASE WriteEdit(q) \/ WriteTarget(q)
    BY <2>1, TypeWriteEdit, TypeWriteTarget
  <2>2. CASE ReadSource(q)
    BY <2>2 DEF ReadSource, tables, Existing, Exists
  <2>3. CASE MarkSource(q)
    BY <2>3, TypeMarkSource, Constants DEF Existing, Exists
  <2> QED
    BY <2>1, <2>2, <2>3
<1>2. UNCHANGED <<history, detail, overlapped, changes, failures>>
  BY DEF WriteEdit, ReadSource, WriteTarget, MarkSource, tables
<1>3. untold' \subseteq Incidents
  <2>1. CASE MarkSource(q)
    BY <2>1, MergingRequest DEF MarkSource, Merging, RestType
  <2>2. CASE ~MarkSource(q)
    BY <2>2 DEF WriteEdit, ReadSource, WriteTarget, RestType
  <2> QED
    BY <2>1, <2>2
<1>4. \A i \in Incidents : ~Exists(i)' => history'[i] = <<>>
  BY <1>1, <1>2, EmptyStaysEmpty
<1> QED
  BY <1>2, <1>3, <1>4 DEF RestType

LEMMA RestOfRecords ==
    ASSUME TypeInv, RestType, NEW q \in Requests,
           RecordCreation(q) \/ RecordEdit(q) \/ RecordArchiving(q) \/ RecordOnTarget(q) \/ RecordOnSource(q)
    PROVE  RestType'
<1>1. UNCHANGED <<row, detail, overlapped, untold, changes, failures>>
  BY DEF RecordCreation, RecordEdit, RecordArchiving, RecordOnTarget, RecordOnSource
<1>2. request[q].id \in Existing /\ (request[q].pc \in Merging => request[q].source \in Existing)
  BY BusyRequest, MergingRequest, Constants
     DEF RecordCreation, RecordEdit, RecordArchiving, RecordOnTarget, RecordOnSource, Existing, Exists
<1>3. PICK i \in Existing : \A j \in Incidents : j = i \/ history'[j] = history[j]
  <2>1. CASE RecordOnSource(q)
    BY <1>2, <2>1 DEF RecordOnSource, Tell, Merging, TypeInv, TablesType
  <2>2. CASE ~RecordOnSource(q)
    BY <1>2, <2>2 DEF RecordCreation, RecordEdit, RecordArchiving, RecordOnTarget, Tell, TypeInv, TablesType
  <2> QED
    BY <2>1, <2>2
<1>4. \A j \in Incidents : ~Exists(j)' => history'[j] = <<>>
  BY <1>1, <1>3, EmptyStaysEmpty DEF Existing, Exists
<1> QED
  BY <1>1, <1>4 DEF RestType

LEMMA RestOfFailures ==
    ASSUME TypeInv, RestType, NEW q \in Requests, RequestFails(q) \/ RecordOnTargetFails(q)
    PROVE  RestType'
<1>1. UNCHANGED <<row, history, detail, overlapped, changes>>
  BY DEF RequestFails, RecordOnTargetFails, tables
<1>2. failures' \in 0 .. MaxFailures
  BY ConstantsAssumption DEF RequestFails, RecordOnTargetFails, Failure, RestType
<1>3. request[q].id \in Incidents /\ (request[q].pc \in Merging => request[q].source \in Incidents)
  BY BusyRequest, MergingRequest DEF RequestFails, RecordOnTargetFails
<1>4. untold' \subseteq Incidents
  BY <1>3 DEF RequestFails, RecordOnTargetFails, ToTell, Merging, RestType
<1> QED
  BY <1>1, <1>2, <1>4 DEF RestType, Exists

LEMMA RestOfReads ==
    ASSUME TypeInv, RestType, Reads
    PROVE  RestType'
<1>1. UNCHANGED <<row, history, overlapped, untold, changes, failures>>
  BY DEF Reads, Get, ListHistory, Answered, vars, tables
<1>2. DOMAIN detail' = DOMAIN NoDetail /\ detail'.row \in Row \union {None}
  <2>1. ASSUME NEW i \in Incidents, Get(i)
        PROVE  DOMAIN detail' = DOMAIN NoDetail /\ detail'.row \in Row \union {None}
    BY <2>1 DEF Get, NoDetail, TypeInv, TablesType
  <2>2. CASE ListHistory
    <3>1. detail' = [detail EXCEPT !.pc = "answered", !.history = NewestFirst(history[detail.id])]
      BY <2>2 DEF ListHistory
    <3>2. "row" \in DOMAIN detail
      BY DEF RestType, NoDetail
    <3> QED
      BY <3>1, <3>2 DEF RestType
  <2>3. CASE Answered \/ UNCHANGED vars
    BY <2>3 DEF Answered, vars, NoDetail, RestType
  <2> QED
    BY <2>1, <2>2, <2>3 DEF Reads
<1> QED
  BY <1>1, <1>2 DEF RestType, Exists

LEMMA RestStep == TypeInv /\ RestType /\ [Next]_vars => RestType'
<1> SUFFICES ASSUME TypeInv, RestType, [Next]_vars PROVE RestType'
  OBVIOUS
<1> QED
  BY RestOfNewRequest, RestOfWrites, RestOfRecords, RestOfFailures, RestOfReads DEF Next, Reads

\* Rows stay rows, a request works on incidents that exist, and an incident has a history only once
\* it is in the table (incident/store.go, incident/service.go).
THEOREM TypeCorrect == Spec => []TypeOK
<1>1. TypeInv /\ RestType => TypeOK
  <2> SUFFICES ASSUME TypeInv, RestType PROVE TypeOK
    OBVIOUS
  <2>1. ASSUME NEW q \in Requests
        PROVE  /\ request[q].pc \in {"idle", "created", "edit", "edited", "archived", "source", "merge",
                                     "mark", "merged", "told"}
               /\ request[q].on = {request[q].id, request[q].source} \ {None}
               /\ \A i \in request[q].on : Exists(i)
               /\ {request[q].old, request[q].new} \subseteq Row \union {None}
    BY DEF TypeInv, RequestsType, RequestType, Holds, Changing, Merging, Existing
  <2> QED
    BY <2>1 DEF TypeInv, TablesType, RestType, TypeOK
<1> QED
  BY <1>1, TypeInit, TypeStep, RestInit, RestStep, PTL DEF Spec

-----------------------------------------------------------------------------
(* What a reader makes of a history, by induction over its entries.        *)

LEMMA LeastIndex ==
    ASSUME NEW S, S \subseteq Nat, S # {}
    PROVE  \E i \in S : \A j \in S : i <= j
<1>1. PICK i \in S : \A j \in S : ~ (<<j, i>> \in OpToRel(<, Nat))
  BY WFMin, NatLessThanWellFounded
<1>2. ASSUME NEW j \in Nat, j < i PROVE <<j, i>> \in OpToRel(<, Nat)
  BY <1>2 DEF OpToRel
<1>3. \A j \in S : ~ (j < i)
  BY <1>1, <1>2
<1> QED
  BY <1>3

\* A set that has 0 and with a number the next one has all of them up to n.
LEMMA Induction ==
    ASSUME NEW n \in Nat, NEW S, 0 \in S, \A k \in 0 .. n - 1 : k \in S => k + 1 \in S
    PROVE  0 .. n \subseteq S
<1> DEFINE D == {k \in 0 .. n : k \notin S}
<1> SUFFICES ASSUME D # {} PROVE FALSE
  OBVIOUS
<1>1. D \subseteq Nat
  OBVIOUS
<1>2. PICK k \in D : \A j \in D : k <= j
  BY <1>1, LeastIndex
<1>3. k - 1 \in 0 .. n - 1 /\ k - 1 + 1 = k
  BY <1>2
<1>4. k - 1 \notin D
  BY <1>2
<1> QED
  BY <1>2, <1>3, <1>4

\* What the recursive function in Told makes of the row before.
Continued(i, first, h, told, k) == IF k = 0 THEN first ELSE Replay(i, h[k], told[k - 1])

LEMMA ToldUnfolds ==
    ASSUME NEW i, NEW first, NEW h
    PROVE  Told(i, first, h) =
             CHOOSE told : told = [k \in 0 .. Len(h) |-> Continued(i, first, h, told, k)]
BY DEF Told, Continued

\* That function exists: it can be continued by one more row.
LEMMA ToldExists ==
    ASSUME NEW i, NEW first, NEW h, Len(h) \in Nat
    PROVE  Told(i, first, h) = [k \in 0 .. Len(h) |-> Continued(i, first, h, Told(i, first, h), k)]
<1> DEFINE n == Len(h)
           Upto(g, m) == g = [k \in 0 .. m |-> Continued(i, first, h, g, k)]
           G == {m \in 0 .. n : \E g : Upto(g, m)}
<1>1. 0 \in G
  <2> DEFINE g == [k \in 0 .. 0 |-> first]
  <2>1. g = [k \in 0 .. 0 |-> Continued(i, first, h, g, k)]
    BY DEF Continued
  <2> QED
    BY <2>1
<1>2. ASSUME NEW m \in 0 .. n - 1, m \in G PROVE m + 1 \in G
  <2>1. PICK g : Upto(g, m)
    BY <1>2
  <2> DEFINE f == [k \in 0 .. m + 1 |-> IF k = m + 1 THEN Continued(i, first, h, g, k) ELSE g[k]]
  <2>2. ASSUME NEW k \in 0 .. m + 1 PROVE f[k] = Continued(i, first, h, f, k)
    <3>1. CASE k = 0
      BY <2>1, <3>1 DEF Continued
    <3>2. CASE k # 0
      <4>1. k - 1 \in 0 .. m /\ k - 1 # m + 1
        BY <3>2
      <4>2. f[k - 1] = g[k - 1]
        BY <4>1
      <4>3. f[k] = Continued(i, first, h, g, k)
        BY <2>1
      <4> QED
        BY <4>2, <4>3, <3>2 DEF Continued
    <3> QED
      BY <3>1, <3>2
  <2>3. f = [k \in 0 .. m + 1 |-> Continued(i, first, h, f, k)]
    BY <2>2
  <2>4. \E g1 : Upto(g1, m + 1)
    BY <2>3
  <2>5. m + 1 \in 0 .. n
    OBVIOUS
  <2> QED
    BY <2>4, <2>5
<1>3. n \in G
  <2> HIDE DEF G
  <2>1. 0 .. n \subseteq G
    BY <1>1, <1>2, Induction
  <2> QED
    BY <2>1
<1>4. \E g : Upto(g, n)
  BY <1>3
<1> QED
  BY <1>4, ToldUnfolds

LEMMA ToldBySteps ==
    ASSUME NEW i, NEW first, NEW h, Len(h) \in Nat
    PROVE  /\ Told(i, first, h)[0] = first
           /\ \A k \in 1 .. Len(h) : Told(i, first, h)[k] = Replay(i, h[k], Told(i, first, h)[k - 1])
<1> DEFINE told == Told(i, first, h)
<1>1. told = [k \in 0 .. Len(h) |-> Continued(i, first, h, told, k)]
  BY ToldExists
<1> HIDE DEF told
<1>2. told[0] = first
  BY <1>1 DEF Continued
<1>3. \A k \in 1 .. Len(h) : told[k] = Replay(i, h[k], told[k - 1])
  BY <1>1 DEF Continued
<1> QED
  BY <1>2, <1>3 DEF told

\* A new entry changes nothing of what was made of the older ones, and comes on top of that.
LEMMA ToldAppend ==
    ASSUME NEW i, NEW first, NEW S, NEW h \in Seq(S), NEW e \in S
    PROVE  /\ \A k \in 0 .. Len(h) : Told(i, first, Append(h, e))[k] = Told(i, first, h)[k]
           /\ Told(i, first, Append(h, e))[Len(h) + 1] = Replay(i, e, Told(i, first, h)[Len(h)])
<1> DEFINE g == Append(h, e)
           old == Told(i, first, h)
           new == Told(i, first, g)
           Same == {k \in 0 .. Len(h) : new[k] = old[k]}
<1>1. /\ Len(h) \in Nat /\ Len(g) = Len(h) + 1
      /\ g[Len(h) + 1] = e
      /\ \A k \in 1 .. Len(h) : g[k] = h[k]
  OBVIOUS
<1> HIDE DEF g
<1>2. old[0] = first /\ \A k \in 1 .. Len(h) : old[k] = Replay(i, h[k], old[k - 1])
  BY <1>1, ToldBySteps
<1>3. new[0] = first /\ \A k \in 1 .. Len(h) + 1 : new[k] = Replay(i, g[k], new[k - 1])
  BY <1>1, ToldBySteps
<1> HIDE DEF old, new
<1>4. 0 \in Same
  BY <1>1, <1>2, <1>3
<1>5. ASSUME NEW k \in 0 .. Len(h) - 1, k \in Same PROVE k + 1 \in Same
  <2>1. k + 1 \in 1 .. Len(h) /\ k + 1 - 1 = k /\ k + 1 \in 1 .. Len(h) + 1
    BY <1>1
  <2>2. old[k + 1] = Replay(i, h[k + 1], old[k]) /\ new[k + 1] = Replay(i, h[k + 1], new[k])
    BY <1>1, <1>2, <1>3, <2>1
  <2>3. new[k + 1] = old[k + 1]
    BY <1>5, <2>2
  <2> QED
    BY <1>1, <2>1, <2>3
<1>6. 0 .. Len(h) \subseteq Same
  <2> HIDE DEF Same
  <2> QED
    BY <1>1, <1>4, <1>5, Induction
<1>7. \A k \in 0 .. Len(h) : new[k] = old[k]
  BY <1>6
<1>8. Len(h) + 1 \in 1 .. Len(h) + 1 /\ Len(h) + 1 - 1 = Len(h)
  BY <1>1
<1>9. new[Len(h) + 1] = Replay(i, e, old[Len(h)])
  BY <1>1, <1>3, <1>7, <1>8
<1> QED
  BY <1>7, <1>9 DEF g, old, new

-----------------------------------------------------------------------------
(* The history explains the row: what it lacks is what the one request     *)
(* that works on the incident is about to tell.                            *)

RowColumns == {"fps", "tags", "solution", "runbook", "url", "into"}

\* The row that the history of i leads to.
Latest(i) == Told(i, born[i], history[i])[Len(history[i])]

\* The history of i leads to value v in column c.
Says(i, c, v) ==
    \/ Latest(i)[c] = v
    \/ MergedOver(c, history[i], Len(history[i]))

SaysRow(i, r) == \A c \in RowColumns : Says(i, c, r[c])

\* Request r has changed nothing of i that it has not told.
ToldAll(i, r) ==
    \/ r.pc \in {"created", "edit", "source", "merge"}
    \/ r.source = i /\ r.pc = "mark"
    \/ r.id = i /\ r.pc = "told"

\* Request r has closed i and is about to tell.
HasClosed(i, r) == r.pc = "archived" \/ (r.source = i /\ r.pc \in {"merged", "told"})

\* Request r has written the union to i and is about to tell.
HasUnited(i, r) == r.id = i /\ r.pc \in {"mark", "merged"}

\* What the history of i lacks while r works on it.
Explained(i, r) ==
    /\ ToldAll(i, r) => SaysRow(i, row[i])
    /\ r.pc = "edit" => r.old = row[i]
    /\ r.pc = "edited" => r.new = row[i] /\ SaysRow(i, r.old) /\ r.new.into = r.old.into
    /\ HasClosed(i, r) => /\ \A c \in RowColumns \ {"into"} : Says(i, c, row[i][c])
                          /\ row[i].into = IF r.pc = "archived" THEN i ELSE r.id
    /\ r.id = i /\ r.pc = "source" => r.new = row[i]
    /\ r.id = i /\ r.pc = "merge" => r.new.fps = row[i].fps \union r.old.fps
    /\ HasUnited(i, r) => /\ row[i].fps = Latest(i).fps \union r.old.fps
                          /\ \A c \in {"url", "into"} : Says(i, c, row[i][c])

BornType ==
    /\ born \in [Incidents -> Row \union {None}]
    /\ \A i \in Incidents : Exists(i) => born[i] \in Row

\* Requests that work on the same incident know.
AloneInv ==
    \A i \in Incidents \ overlapped : \A p, q \in Requests :
      i \in request[p].on /\ i \in request[q].on => p = q

Fits(i) ==
    /\ ~WorkedOn(i) => SaysRow(i, row[i])
    /\ \A q \in Requests : i \in request[q].on => Explained(i, request[q])

FitsInv == \A i \in Incidents : Exists(i) /\ Undisturbed(i) => Fits(i)

ExplainInv == BornType /\ AloneInv /\ FitsInv

LEMMA RowsHaveColumns ==
    ASSUME NEW r \in Row
    PROVE  /\ DOMAIN r = RowColumns
           /\ r.fps \in SUBSET Fingerprints
BY DEF Row, RowColumns

LEMMA ReplayKeepsColumns ==
    ASSUME NEW i, NEW e, NEW t, DOMAIN t = RowColumns
    PROVE  DOMAIN Replay(i, e, t) = RowColumns
BY DEF Replay

\* What each kind of entry does to a row.
LEMMA ReplayCreated ==
    ASSUME NEW i, NEW e, NEW t, e.kind = "created"
    PROVE  Replay(i, e, t) = t
BY DEF Replay, NamesTarget, NamesSource

LEMMA ReplayUpdated ==
    ASSUME NEW i, NEW e, NEW t, e.kind = "updated", DOMAIN t = RowColumns, NEW c \in RowColumns
    PROVE  Replay(i, e, t)[c] = IF c \in DOMAIN e.diff THEN e.diff[c].new ELSE t[c]
BY DEF Replay, NamesTarget, NamesSource

LEMMA ReplayArchived ==
    ASSUME NEW i, NEW e, NEW t, e.kind = "archived", DOMAIN t = RowColumns, NEW c \in RowColumns
    PROVE  Replay(i, e, t)[c] = IF c = "into" THEN i ELSE t[c]
BY DEF Replay, NamesTarget, NamesSource, RowColumns

LEMMA ReplayMergedInto ==
    ASSUME NEW i, NEW e, NEW t, e.kind = "merged_into", DOMAIN t = RowColumns, NEW c \in RowColumns
    PROVE  Replay(i, e, t)[c] = IF c = "into" THEN e.into ELSE t[c]
BY DEF Replay, NamesTarget, NamesSource, RowColumns

LEMMA ReplayMergedSource ==
    ASSUME NEW i, NEW e, NEW t, e.kind = "merged_source", DOMAIN t = RowColumns
    PROVE  /\ Replay(i, e, t)["fps"] = t["fps"] \union e.added
           /\ \A c \in RowColumns \ {"fps"} : Replay(i, e, t)[c] = t[c]
BY DEF Replay, NamesTarget, NamesSource, RowColumns

LEMMA ToldHasColumns ==
    ASSUME NEW i, NEW first, DOMAIN first = RowColumns, NEW h, Len(h) \in Nat
    PROVE  \A k \in 0 .. Len(h) : DOMAIN Told(i, first, h)[k] = RowColumns
<1> DEFINE told == Told(i, first, h)
           Good == {k \in 0 .. Len(h) : DOMAIN told[k] = RowColumns}
<1>1. told[0] = first /\ \A k \in 1 .. Len(h) : told[k] = Replay(i, h[k], told[k - 1])
  BY ToldBySteps
<1> HIDE DEF told
<1>2. 0 \in Good
  BY <1>1
<1>3. ASSUME NEW k \in 0 .. Len(h) - 1, k \in Good PROVE k + 1 \in Good
  <2>1. k + 1 \in 1 .. Len(h) /\ k + 1 \in 0 .. Len(h) /\ k + 1 - 1 = k
    OBVIOUS
  <2>2. told[k + 1] = Replay(i, h[k + 1], told[k])
    BY <1>1, <2>1
  <2>3. DOMAIN told[k + 1] = RowColumns
    BY <1>3, <2>2, ReplayKeepsColumns
  <2> QED
    BY <2>1, <2>3
<1>4. 0 .. Len(h) \subseteq Good
  <2> HIDE DEF Good
  <2> QED
    BY <1>2, <1>3, Induction
<1> QED
  BY <1>4 DEF told

LEMMA LatestHasColumns ==
    ASSUME TypeInv, BornType, NEW i \in Incidents, Exists(i)
    PROVE  DOMAIN Latest(i) = RowColumns
<1>1. history[i] \in Seq(Entry) /\ DOMAIN born[i] = RowColumns
  BY RowsHaveColumns DEF TypeInv, TablesType, BornType
<1>2. Len(history[i]) \in Nat /\ Len(history[i]) \in 0 .. Len(history[i])
  BY <1>1
<1> QED
  BY <1>1, <1>2, ToldHasColumns DEF Latest

\* An incident whose history is as it was.
LEMMA SaysTheSame ==
    ASSUME NEW i, history'[i] = history[i], born'[i] = born[i]
    PROVE  Latest(i)' = Latest(i) /\ \A c, v : Says(i, c, v)' <=> Says(i, c, v)
BY DEF Latest, Says, MergedOver

LEMMA ExplainedTheSame ==
    ASSUME NEW i, NEW q, history'[i] = history[i], born'[i] = born[i], row'[i] = row[i],
           request'[q] = request[q], Explained(i, request[q])
    PROVE  Explained(i, request[q])'
<1>1. Latest(i)' = Latest(i) /\ \A c, v : Says(i, c, v)' <=> Says(i, c, v)
  BY SaysTheSame
<1>2. /\ ToldAll(i, request[q])' <=> ToldAll(i, request[q])
      /\ HasClosed(i, request[q])' <=> HasClosed(i, request[q])
      /\ HasUnited(i, request[q])' <=> HasUnited(i, request[q])
  BY DEF ToldAll, HasClosed, HasUnited
<1> QED
  BY <1>1, <1>2 DEF Explained, SaysRow

\* An incident with one entry more.
LEMMA SaysMore ==
    ASSUME TypeInv, BornType, NEW i \in Incidents, Exists(i), NEW e \in Entry, Tell(i, e), born'[i] = born[i]
    PROVE  /\ Latest(i)' = Replay(i, e, Latest(i))
           /\ \A c \in Unsaid : NamesSource(e) => MergedOver(c, history[i], Len(history[i]))'
           /\ \A c : MergedOver(c, history[i], Len(history[i])) /\ ~Tells(e, c) =>
                      MergedOver(c, history[i], Len(history[i]))'
<1>1. history[i] \in Seq(Entry) /\ history'[i] = Append(history[i], e)
  BY DEF TypeInv, TablesType, Tell
<1> DEFINE h == history[i]
           g == Append(h, e)
<1>2. /\ Len(h) \in Nat /\ Len(g) = Len(h) + 1 /\ g[Len(h) + 1] = e
      /\ \A k \in 1 .. Len(h) : g[k] = h[k]
  BY <1>1
<1>3. Told(i, born[i], g)[Len(h) + 1] = Replay(i, e, Told(i, born[i], h)[Len(h)])
  BY <1>1, ToldAppend
<1>4. Latest(i)' = Replay(i, e, Latest(i))
  BY <1>1, <1>2, <1>3 DEF Latest
<1> HIDE DEF h, g
<1>5. ASSUME NEW c \in Unsaid, NamesSource(e) PROVE MergedOver(c, g, Len(h) + 1)
  <2>1. Len(h) + 1 \in 1 .. Len(h) + 1 /\ (Len(h) + 1) + 1 .. Len(h) + 1 = {}
    BY <1>2
  <2> QED
    BY <1>2, <1>5, <2>1 DEF MergedOver
<1>6. ASSUME NEW c, MergedOver(c, h, Len(h)), ~Tells(e, c) PROVE MergedOver(c, g, Len(h) + 1)
  <2>1. PICK j \in 1 .. Len(h) : NamesSource(h[j]) /\ \A l \in j + 1 .. Len(h) : ~Tells(h[l], c)
    BY <1>6 DEF MergedOver
  <2>2. j \in 1 .. Len(h) + 1 /\ NamesSource(g[j])
    BY <1>2, <2>1
  <2>3. ASSUME NEW l \in j + 1 .. Len(h) + 1 PROVE ~Tells(g[l], c)
    <3>1. CASE l = Len(h) + 1
      BY <1>2, <1>6, <3>1
    <3>2. CASE l # Len(h) + 1
      <4>1. l \in j + 1 .. Len(h) /\ l \in 1 .. Len(h)
        BY <1>2, <3>2
      <4> QED
        BY <1>2, <2>1, <4>1
    <3> QED
      BY <3>1, <3>2
  <2> QED
    BY <1>6, <2>2, <2>3 DEF MergedOver
<1>7. \A c : MergedOver(c, history[i], Len(history[i]))' <=> MergedOver(c, g, Len(h) + 1)
  BY <1>1, <1>2 DEF h, g, MergedOver
<1> QED
  BY <1>4, <1>5, <1>6, <1>7 DEF h

Untouched(j) == row'[j] = row[j] /\ history'[j] = history[j] /\ born'[j] = born[j]

\* What is left to show of an incident that only request q works on.
Mended(q, j) ==
    IF j \in request'[q].on THEN Explained(j, request[q])' ELSE SaysRow(j, row[j])'

\* A statement of request q; the others do not see it, as long as they work on something else.
LEMMA SlotStep ==
    ASSUME TypeInv, ExplainInv, NEW q \in Requests, Others(q), request'[q].on \subseteq request[q].on,
           UNCHANGED <<born, overlapped>>, untold \subseteq untold',
           \A j \in Incidents : Exists(j)' => Exists(j),
           \A j \in Incidents \ request[q].on : Untouched(j),
           \A j \in request[q].on : Undisturbed(j)' => Mended(q, j)
    PROVE  ExplainInv'
<1>1. BornType'
  BY DEF ExplainInv, BornType
<1>2. \A p \in Requests : request'[p].on \subseteq request[p].on
  BY DEF Others
<1>3. AloneInv'
  BY <1>2 DEF ExplainInv, AloneInv
<1>4. ASSUME NEW j \in Incidents, Exists(j)', Undisturbed(j)' PROVE Fits(j)'
  <2>1. Undisturbed(j) /\ Fits(j)
    BY <1>4 DEF Undisturbed, ExplainInv, FitsInv
  <2>2. CASE j \notin request[q].on
    <3>1. Untouched(j)
      BY <2>2
    <3>2. WorkedOn(j)' <=> WorkedOn(j)
      BY <2>2 DEF WorkedOn, Others
    <3>3. ~WorkedOn(j)' => SaysRow(j, row[j])'
      BY <2>1, <3>1, <3>2, SaysTheSame DEF Fits, SaysRow, Untouched
    <3>4. ASSUME NEW p \in Requests, j \in request'[p].on PROVE Explained(j, request[p])'
      <4>1. request'[p] = request[p]
        BY <2>2, <3>4 DEF Others
      <4>2. Explained(j, request[p])
        BY <2>1, <3>4, <4>1 DEF Fits
      <4> QED
        BY <3>1, <4>1, <4>2, ExplainedTheSame DEF Untouched
    <3> QED
      BY <3>3, <3>4 DEF Fits
  <2>3. CASE j \in request[q].on
    <3>1. \A p \in Requests \ {q} : j \notin request'[p].on
      BY <2>1, <2>3, <1>2 DEF ExplainInv, AloneInv, Undisturbed
    <3>2. Mended(q, j)
      BY <1>4, <2>3
    <3> QED
      BY <3>1, <3>2 DEF Mended, Fits, WorkedOn
  <2> QED
    BY <2>2, <2>3
<1> QED
  BY <1>1, <1>3, <1>4 DEF ExplainInv, FitsInv

\* A request that begins, on incidents that nobody works on or that are known to be overlapped.
LEMMA TakeStep ==
    ASSUME TypeInv, ExplainInv, BornType', NEW q \in Requests, NEW S \in SUBSET Incidents, Takes(q, S),
           Others(q), request'[q].on = S, UNCHANGED <<history, untold>>,
           \A j \in Incidents \ S : Untouched(j),
           \A j \in S : /\ Exists(j)'
                        /\ (Exists(j) => SaysRow(j, row[j])) => Explained(j, request[q])'
    PROVE  ExplainInv'
<1>1. overlapped \subseteq overlapped'
  BY DEF Takes
<1>2. ASSUME NEW j \in S, j \notin overlapped' PROVE \A p \in Requests : j \notin request[p].on
  BY <1>2 DEF Takes
<1>3. request[q].on = {}
  BY DEF Takes, TypeInv, RequestsType, Holds, Merging
<1>4. AloneInv'
  <2> SUFFICES ASSUME NEW i \in Incidents \ overlapped', NEW p \in Requests, NEW r \in Requests,
                      i \in request'[p].on, i \in request'[r].on, p # r
               PROVE  FALSE
    BY DEF AloneInv
  <2>1. CASE i \in S
    BY <1>2, <2>1 DEF Others
  <2>2. CASE i \notin S
    BY <1>1, <2>2 DEF Others, ExplainInv, AloneInv
  <2> QED
    BY <2>1, <2>2
<1>5. ASSUME NEW j \in Incidents, Exists(j)', Undisturbed(j)' PROVE Fits(j)'
  <2>1. Undisturbed(j)
    BY <1>1, <1>5 DEF Undisturbed
  <2>2. CASE j \in S
    <3>1. \A p \in Requests : j \notin request[p].on
      BY <1>2, <1>5, <2>2 DEF Undisturbed
    <3>2. Exists(j) => SaysRow(j, row[j])
      BY <2>1, <3>1 DEF ExplainInv, FitsInv, Fits, WorkedOn
    <3>3. Explained(j, request[q])'
      BY <2>2, <3>2
    <3>4. \A p \in Requests \ {q} : j \notin request'[p].on
      BY <3>1 DEF Others
    <3> QED
      BY <2>2, <3>3, <3>4 DEF Fits, WorkedOn
  <2>3. CASE j \notin S
    <3>1. Untouched(j)
      BY <2>3
    <3>2. Exists(j)
      BY <1>5, <3>1 DEF Untouched, Exists
    <3>3. WorkedOn(j)' <=> WorkedOn(j)
      BY <1>3, <2>3 DEF WorkedOn, Others
    <3>4. Fits(j)
      BY <2>1, <3>2 DEF ExplainInv, FitsInv
    <3>5. ~WorkedOn(j)' => SaysRow(j, row[j])'
      BY <3>1, <3>3, <3>4, SaysTheSame DEF Fits, SaysRow, Untouched
    <3>6. ASSUME NEW p \in Requests, j \in request'[p].on PROVE Explained(j, request[p])'
      <4>1. request'[p] = request[p]
        BY <2>3, <3>6 DEF Others
      <4>2. Explained(j, request[p])
        BY <3>4, <3>6, <4>1 DEF Fits
      <4> QED
        BY <3>1, <4>1, <4>2, ExplainedTheSame DEF Untouched
    <3> QED
      BY <3>5, <3>6 DEF Fits
  <2> QED
    BY <2>2, <2>3
<1> QED
  BY <1>4, <1>5 DEF ExplainInv, FitsInv

LEMMA SlotShape ==
    ASSUME TypeInv, NEW q \in Requests
    PROVE  /\ request[q].on \subseteq Existing
           /\ request[q].pc = "idle" => request[q].on = {}
           /\ request[q].pc \in Changing =>
                /\ request[q].on = {request[q].id} /\ request[q].id \in Incidents
                /\ request[q].source = None /\ request[q].source # request[q].id
           /\ request[q].pc \in Merging =>
                request[q].on = {request[q].id, request[q].source} /\ request[q].source # request[q].id
BY Constants DEF TypeInv, RequestsType, RequestType, Holds, Changing, Merging, Existing

\* What is known of an incident of the request before a statement after which it is undisturbed.
LEMMA WasExplained ==
    ASSUME TypeInv, ExplainInv, NEW q \in Requests, NEW j \in request[q].on,
           untold \subseteq untold', UNCHANGED overlapped, Undisturbed(j)'
    PROVE  Explained(j, request[q]) /\ Exists(j) /\ j \in Incidents /\ row[j] \in Row
<1>1. j \in Incidents /\ Exists(j)
  BY SlotShape DEF Existing
<1>2. Undisturbed(j)
  BY DEF Undisturbed
<1> QED
  BY <1>1, <1>2 DEF ExplainInv, FitsInv, Fits, TypeInv, TablesType, Exists

\* The request in slot q ends.
LEMMA SlotEnds ==
    ASSUME TypeInv, NEW q \in Requests, Ends(q)
    PROVE  /\ Others(q) /\ request'[q].on = {} /\ request'[q].on \subseteq request[q].on
           /\ \A j : SaysRow(j, row[j])' => Mended(q, j)
BY DEF Ends, TypeInv, RequestsType, Idle, Others, Mended

-----------------------------------------------------------------------------
(* Requests begin.                                                         *)

LEMMA ExplainCreate ==
    ASSUME TypeInv, RestType, ExplainInv, NEW q \in Requests, NEW i \in Incidents,
           NEW c \in Reports, Create(q, i, c)
    PROVE  ExplainInv'
<1> DEFINE r == [Idle EXCEPT !.pc = "created", !.on = {i}, !.id = i]
<1>1. Inserted(c) \in Row /\ Inserted(c) # None
  BY InsertedIsARow, Constants
<1>2. /\ row'[i] = Inserted(c) /\ born'[i] = Inserted(c) /\ history'[i] = <<>>
      /\ \A j \in Incidents \ {i} : Untouched(j)
      /\ born' \in [Incidents -> Row \union {None}]
  BY <1>1 DEF Create, TypeInv, TablesType, RestType, ExplainInv, BornType, Untouched
<1>3. BornType'
  BY <1>1, <1>2 DEF ExplainInv, BornType, Untouched, Exists
<1>4. request'[q] = r /\ Others(q)
  BY DEF Create, TypeInv, RequestsType, Others
<1>5. r.pc = "created" /\ r.on = {i} /\ r.id = i /\ r.source # i
  BY Constants DEF Idle
<1> HIDE DEF r
<1>6. SaysRow(i, row[i])'
  <2>1. Len(<<>>) = 0 /\ Len(<<>>) \in Nat
    OBVIOUS
  <2>2. Told(i, Inserted(c), <<>>)[0] = Inserted(c)
    BY <2>1, ToldBySteps
  <2> QED
    BY <1>2, <2>1, <2>2 DEF SaysRow, Says, Latest
<1>7. Explained(i, request[q])' /\ Exists(i)'
  BY <1>1, <1>2, <1>4, <1>5, <1>6 DEF Explained, ToldAll, HasClosed, HasUnited, Exists
<1>8. Takes(q, {i}) /\ {i} \in SUBSET Incidents /\ UNCHANGED <<history, untold>>
  BY DEF Create
<1> QED
  BY <1>2, <1>3, <1>4, <1>5, <1>7, <1>8, TakeStep

\* Nobody works on an incident that is not there.
LEMMA NobodyOnNew ==
    ASSUME TypeInv, NEW i \in Incidents, ~Exists(i)
    PROVE  ~WorkedOn(i)
BY SlotShape DEF WorkedOn, Existing

LEMMA ExplainCreateAgentKBEntry ==
    ASSUME TypeInv, RestType, ExplainInv, NEW q \in Requests, NEW i \in Incidents,
           NEW c \in Reports, CreateAgentKBEntry(q, i, c)
    PROVE  ExplainInv'
<1>1. Inserted(c) \in Row /\ Inserted(c) # None
  BY InsertedIsARow, Constants
<1>2. /\ row'[i] = Inserted(c) /\ born'[i] = Inserted(c) /\ history'[i] = <<>>
      /\ \A j \in Incidents \ {i} : Untouched(j)
      /\ born' \in [Incidents -> Row \union {None}]
  BY <1>1 DEF CreateAgentKBEntry, TypeInv, TablesType, RestType, ExplainInv, BornType, Untouched
<1>3. BornType'
  BY <1>1, <1>2 DEF ExplainInv, BornType, Untouched, Exists
<1>4. UNCHANGED <<request, untold>> /\ overlapped \subseteq overlapped' /\ ~Exists(i)
  BY DEF CreateAgentKBEntry, Takes
<1>5. AloneInv'
  BY <1>4 DEF ExplainInv, AloneInv
<1>6. SaysRow(i, row[i])'
  <2>1. Len(<<>>) = 0 /\ Len(<<>>) \in Nat
    OBVIOUS
  <2>2. Told(i, Inserted(c), <<>>)[0] = Inserted(c)
    BY <2>1, ToldBySteps
  <2> QED
    BY <1>2, <2>1, <2>2 DEF SaysRow, Says, Latest
<1>7. ASSUME NEW j \in Incidents, Exists(j)', Undisturbed(j)' PROVE Fits(j)'
  <2>1. CASE j = i
    BY <1>4, <1>6, <2>1, NobodyOnNew DEF Fits, WorkedOn
  <2>2. CASE j # i
    <3>1. Untouched(j) /\ Fits(j)
      BY <1>2, <1>4, <1>7, <2>2 DEF Untouched, Exists, Undisturbed, ExplainInv, FitsInv
    <3>2. ~WorkedOn(j)' => SaysRow(j, row[j])'
      BY <1>4, <3>1, SaysTheSame DEF Fits, SaysRow, Untouched, WorkedOn
    <3>3. \A p \in Requests : j \in request'[p].on => Explained(j, request[p])'
      BY <1>4, <3>1, ExplainedTheSame DEF Fits, Untouched
    <3> QED
      BY <3>2, <3>3 DEF Fits
  <2> QED
    BY <2>1, <2>2
<1> QED
  BY <1>3, <1>5, <1>7 DEF ExplainInv, FitsInv

LEMMA ExplainReadForEdit ==
    ASSUME TypeInv, ExplainInv, NEW q \in Requests, NEW i \in Incidents, NEW w \in Edits,
           ReadForEdit(q, i, w)
    PROVE  ExplainInv'
<1> DEFINE r == [Idle EXCEPT !.pc = "edit", !.on = {i}, !.id = i, !.wanted = w, !.old = row[i]]
<1>1. Takes(q, {i}) /\ UNCHANGED <<row, history, born, untold>> /\ Exists(i)
  BY DEF ReadForEdit, tables
<1>2. request'[q] = r /\ Others(q)
  BY DEF ReadForEdit, TypeInv, RequestsType, Others
<1>3. r.pc = "edit" /\ r.on = {i} /\ r.id = i /\ r.source # i /\ r.old = row[i]
  BY Constants DEF Idle
<1> HIDE DEF r
<1>4. ASSUME SaysRow(i, row[i]) PROVE Explained(i, request[q])'
  <2>1. SaysRow(i, row[i])'
    BY <1>1, <1>4, SaysTheSame DEF SaysRow
  <2> QED
    BY <1>1, <1>2, <1>3, <2>1 DEF Explained, ToldAll, HasClosed, HasUnited
<1>5. BornType' /\ Exists(i)' /\ \A j \in Incidents : Untouched(j)
  BY <1>1 DEF ExplainInv, BornType, Exists, Untouched
<1>6. {i} \in SUBSET Incidents /\ request'[q].on = {i}
  BY <1>2, <1>3
<1>7. \A j \in {i} : Exists(j)' /\ ((Exists(j) => SaysRow(j, row[j])) => Explained(j, request[q])')
  BY <1>1, <1>4, <1>5
<1> QED
  BY <1>1, <1>2, <1>5, <1>6, <1>7, TakeStep

LEMMA ExplainDelete ==
    ASSUME TypeInv, ExplainInv, NEW q \in Requests, NEW i \in Incidents, Delete(q, i)
    PROVE  ExplainInv'
<1> DEFINE r == [Idle EXCEPT !.pc = "archived", !.on = {i}, !.id = i]
<1>1. /\ Takes(q, {i}) /\ UNCHANGED <<history, born, untold>> /\ row[i] \in Row
      /\ row' = [row EXCEPT ![i] = [@ EXCEPT !.into = i]]
  BY DEF Delete, TypeInv, TablesType, Exists
<1>2. request'[q] = r /\ Others(q)
  BY DEF Delete, TypeInv, RequestsType, Others
<1>3. r.pc = "archived" /\ r.on = {i} /\ r.id = i /\ r.source # i
  BY Constants DEF Idle
<1> HIDE DEF r
<1>4. /\ row'[i] = [row[i] EXCEPT !.into = i]
      /\ \A j \in Incidents \ {i} : Untouched(j)
      /\ \A j \in Incidents : Exists(j)' => Exists(j)
  BY <1>1, Constants DEF TypeInv, TablesType, Untouched, Exists
<1>5. row'[i] \in Row /\ row'[i].into = i /\ \A c \in RowColumns \ {"into"} : row'[i][c] = row[i][c]
  BY <1>1, <1>4 DEF Row, RowColumns
<1>6. ASSUME SaysRow(i, row[i]) PROVE Explained(i, request[q])'
  <2>1. \A c \in RowColumns \ {"into"} : Says(i, c, row[i][c])'
    BY <1>1, <1>5, <1>6, SaysTheSame DEF SaysRow
  <2> QED
    BY <1>2, <1>3, <1>5, <2>1 DEF Explained, ToldAll, HasClosed, HasUnited
<1>7. BornType' /\ Exists(i) /\ Exists(i)'
  BY <1>1, <1>4, <1>5, Constants DEF ExplainInv, BornType, Exists
<1>8. request'[q].on = {i} /\ {i} \in SUBSET Incidents
  BY <1>2, <1>3
<1> QED
  BY <1>1, <1>2, <1>4, <1>6, <1>7, <1>8, TakeStep

LEMMA ExplainReadTarget ==
    ASSUME TypeInv, ExplainInv, NEW q \in Requests, NEW t \in Incidents, NEW s \in Incidents,
           ReadTarget(q, t, s)
    PROVE  ExplainInv'
<1> DEFINE r == [Idle EXCEPT !.pc = "source", !.on = {t, s}, !.id = t, !.source = s, !.new = row[t]]
<1>1. /\ Takes(q, {t, s}) /\ UNCHANGED <<row, history, born, untold>>
      /\ Exists(t) /\ Exists(s) /\ t # s
  BY DEF ReadTarget, tables
<1>2. request'[q] = r /\ Others(q)
  BY DEF ReadTarget, TypeInv, RequestsType, Others
<1>3. r.pc = "source" /\ r.on = {t, s} /\ r.id = t /\ r.source = s /\ r.new = row[t]
  BY DEF Idle
<1> HIDE DEF r
<1>4. ASSUME NEW j \in {t, s}, SaysRow(j, row[j]) PROVE Explained(j, request[q])'
  <2>1. SaysRow(j, row[j])'
    BY <1>1, <1>4, SaysTheSame DEF SaysRow
  <2> QED
    BY <1>1, <1>2, <1>3, <2>1 DEF Explained, ToldAll, HasClosed, HasUnited
<1>5. /\ BornType' /\ \A j \in {t, s} : Exists(j) /\ Exists(j)'
      /\ \A j \in Incidents : Untouched(j)
  BY <1>1 DEF ExplainInv, BornType, Exists, Untouched
<1>6. request'[q].on = {t, s} /\ {t, s} \in SUBSET Incidents
  BY <1>2, <1>3
<1> QED
  BY <1>1, <1>2, <1>4, <1>5, <1>6, TakeStep

-----------------------------------------------------------------------------
(* Requests tell what they did.                                            *)

\* An entry of incident i only.
LEMMA TellTouchesOne ==
    ASSUME TypeInv, NEW q \in Requests, NEW i \in request[q].on, NEW e \in Entry, Tell(i, e),
           UNCHANGED <<row, born>>
    PROVE  /\ i \in Incidents
           /\ \A j \in Incidents \ {i} : Untouched(j)
           /\ \A j \in Incidents \ request[q].on : Untouched(j)
           /\ \A j \in Incidents : Exists(j)' => Exists(j)
<1>1. i \in Incidents
  BY SlotShape DEF Existing
<1> QED
  BY <1>1, TellAppends DEF TypeInv, Untouched, Exists

\* The row that the history of i leads to with entry e, column by column, where it has that of r.
LEMMA SaysAfter ==
    ASSUME TypeInv, BornType, NEW i \in Incidents, Exists(i), NEW e \in Entry, Tell(i, e),
           UNCHANGED <<row, born>>,
           \A c \in RowColumns :
             \/ Replay(i, e, Latest(i))[c] = row[i][c]
             \/ Replay(i, e, Latest(i))[c] = Latest(i)[c] /\ Says(i, c, row[i][c]) /\ ~Tells(e, c)
             \/ c \in Unsaid /\ NamesSource(e)
    PROVE  SaysRow(i, row[i])'
<1>1. row'[i] = row[i] /\ born'[i] = born[i]
  OBVIOUS
<1>2. /\ Latest(i)' = Replay(i, e, Latest(i))
      /\ \A c \in Unsaid : NamesSource(e) => MergedOver(c, history[i], Len(history[i]))'
      /\ \A c : MergedOver(c, history[i], Len(history[i])) /\ ~Tells(e, c) =>
                 MergedOver(c, history[i], Len(history[i]))'
  BY <1>1, SaysMore
<1>3. ASSUME NEW c \in RowColumns PROVE Says(i, c, row[i][c])'
  BY <1>1, <1>2 DEF Says
<1> QED
  BY <1>3 DEF SaysRow

\* A request that ends with entry e of its incident.
LEMMA EndsWithEntry ==
    ASSUME TypeInv, ExplainInv, NEW q \in Requests, NEW i, request[q].on = {i}, NEW e \in Entry,
           Tell(i, e), Ends(q), UNCHANGED <<row, born, overlapped, untold>>,
           Explained(i, request[q]) /\ row[i] \in Row /\ DOMAIN Latest(i) = RowColumns =>
             \A c \in RowColumns :
               \/ Replay(i, e, Latest(i))[c] = row[i][c]
               \/ Replay(i, e, Latest(i))[c] = Latest(i)[c] /\ Says(i, c, row[i][c]) /\ ~Tells(e, c)
    PROVE  ExplainInv'
<1>1. /\ i \in Incidents /\ Exists(i)
      /\ \A j \in Incidents \ request[q].on : Untouched(j)
      /\ \A j \in Incidents : Exists(j)' => Exists(j)
  BY SlotShape, TellTouchesOne DEF Existing
<1>2. ASSUME NEW j \in request[q].on, Undisturbed(j)' PROVE SaysRow(j, row[j])'
  <2>1. j = i
    OBVIOUS
  <2>2. Explained(i, request[q]) /\ row[i] \in Row
    BY <1>2, <2>1, WasExplained
  <2>3. DOMAIN Latest(i) = RowColumns
    BY <1>1, LatestHasColumns DEF ExplainInv
  <2>4. SaysRow(i, row[i])'
    BY <1>1, <2>2, <2>3, SaysAfter DEF ExplainInv
  <2> QED
    BY <2>1, <2>4
<1> QED
  BY <1>1, <1>2, SlotEnds, SlotStep

LEMMA ExplainRecordCreation ==
    ASSUME TypeInv, ExplainInv, NEW q \in Requests, RecordCreation(q)
    PROVE  ExplainInv'
<1>1. PICK i : i = request[q].id
  OBVIOUS
<1>2. PICK e : e = [kind |-> "created"]
  OBVIOUS
<1>3. /\ request[q].pc = "created" /\ Tell(i, e) /\ Ends(q)
      /\ UNCHANGED <<row, born, overlapped, untold>>
  BY <1>1, <1>2 DEF RecordCreation
<1>4. request[q].on = {i} /\ e \in Entry /\ e.kind = "created"
  BY <1>1, <1>2, <1>3, SlotShape, EntriesAreEntries DEF Changing
<1>5. ASSUME Explained(i, request[q]), DOMAIN Latest(i) = RowColumns, NEW c \in RowColumns
      PROVE  Replay(i, e, Latest(i))[c] = Latest(i)[c] /\ Says(i, c, row[i][c]) /\ ~Tells(e, c)
  <2>1. Replay(i, e, Latest(i)) = Latest(i) /\ ~Tells(e, c)
    BY <1>4, ReplayCreated DEF Tells
  <2> QED
    BY <1>3, <1>5, <2>1 DEF Explained, ToldAll, SaysRow
<1> QED
  BY <1>3, <1>4, <1>5, EndsWithEntry

LEMMA ExplainRecordEdit ==
    ASSUME TypeInv, ExplainInv, NEW q \in Requests, RecordEdit(q)
    PROVE  ExplainInv'
<1>1. PICK i, old, new : i = request[q].id /\ old = request[q].old /\ new = request[q].new
  OBVIOUS
<1>2. PICK e : e = [kind |-> "updated", diff |-> ComputeDiff(old, new)]
  OBVIOUS
<1>3. /\ request[q].pc = "edited" /\ Tell(i, e) /\ Ends(q)
      /\ UNCHANGED <<row, born, overlapped, untold>>
  BY <1>1, <1>2 DEF RecordEdit
<1>4. request[q].on = {i} /\ i \in Incidents /\ old \in Row /\ new \in Row
  BY <1>1, <1>3, SlotShape DEF Changing, TypeInv, RequestsType, Holds
<1>5. e \in Entry
  BY <1>2, <1>4, EntriesAreEntries
<1>6. /\ e.kind = "updated"
      /\ DOMAIN e.diff = {c \in Columns : old[c] # new[c]}
      /\ \A c \in DOMAIN e.diff : e.diff[c].new = new[c]
  BY <1>2 DEF ComputeDiff
<1>7. ASSUME Explained(i, request[q]), DOMAIN Latest(i) = RowColumns, NEW c \in RowColumns
      PROVE  \/ Replay(i, e, Latest(i))[c] = row[i][c]
             \/ Replay(i, e, Latest(i))[c] = Latest(i)[c] /\ Says(i, c, row[i][c]) /\ ~Tells(e, c)
  <2>1. new = row[i] /\ SaysRow(i, old) /\ new.into = old.into
    BY <1>1, <1>3, <1>7 DEF Explained
  <2>2. Replay(i, e, Latest(i))[c] = IF c \in DOMAIN e.diff THEN e.diff[c].new ELSE Latest(i)[c]
    BY <1>6, <1>7, ReplayUpdated
  <2>3. CASE c \in DOMAIN e.diff
    BY <1>6, <2>1, <2>2, <2>3
  <2>4. CASE c \notin DOMAIN e.diff
    <3>1. old[c] = new[c]
      BY <1>6, <2>1, <2>4 DEF Columns, RowColumns
    <3> QED
      BY <2>1, <2>2, <2>4, <3>1 DEF SaysRow, Tells
  <2> QED
    BY <2>3, <2>4
<1> QED
  BY <1>3, <1>4, <1>5, <1>7, EndsWithEntry

LEMMA ExplainRecordArchiving ==
    ASSUME TypeInv, ExplainInv, NEW q \in Requests, RecordArchiving(q)
    PROVE  ExplainInv'
<1>1. PICK i : i = request[q].id
  OBVIOUS
<1>2. PICK e : e = [kind |-> "archived"]
  OBVIOUS
<1>3. /\ request[q].pc = "archived" /\ Tell(i, e) /\ Ends(q)
      /\ UNCHANGED <<row, born, overlapped, untold>>
  BY <1>1, <1>2 DEF RecordArchiving
<1>4. request[q].on = {i} /\ e \in Entry /\ e.kind = "archived"
  BY <1>1, <1>2, <1>3, SlotShape, EntriesAreEntries DEF Changing
<1>5. ASSUME Explained(i, request[q]), DOMAIN Latest(i) = RowColumns, NEW c \in RowColumns
      PROVE  \/ Replay(i, e, Latest(i))[c] = row[i][c]
             \/ Replay(i, e, Latest(i))[c] = Latest(i)[c] /\ Says(i, c, row[i][c]) /\ ~Tells(e, c)
  <2>1. /\ \A d \in RowColumns \ {"into"} : Says(i, d, row[i][d])
        /\ row[i].into = i
    BY <1>3, <1>5 DEF Explained, HasClosed
  <2>2. Replay(i, e, Latest(i))[c] = (IF c = "into" THEN i ELSE Latest(i)[c]) /\ ~Tells(e, c)
    BY <1>4, <1>5, ReplayArchived DEF Tells
  <2> QED
    BY <2>1, <2>2
<1> QED
  BY <1>3, <1>4, <1>5, EndsWithEntry

\* The source of a merge is told last.
LEMMA ExplainRecordOnSource ==
    ASSUME TypeInv, ExplainInv, NEW q \in Requests, RecordOnSource(q)
    PROVE  ExplainInv'
<1>1. PICK s, t : s = request[q].source /\ t = request[q].id
  OBVIOUS
<1>2. PICK e : e = [kind |-> "merged_into", into |-> t]
  OBVIOUS
<1>3. /\ request[q].pc = "told" /\ Tell(s, e) /\ Ends(q)
      /\ UNCHANGED <<row, born, overlapped, untold>>
  BY <1>1, <1>2 DEF RecordOnSource
<1>4. request[q].on = {t, s} /\ s # t /\ t \in Incidents /\ s \in Incidents /\ Exists(s)
  BY <1>1, <1>3, SlotShape DEF Merging, Existing
<1>5. e \in Entry /\ e.kind = "merged_into" /\ e.into = t
  BY <1>2, <1>4, EntriesAreEntries
<1>6. ASSUME NEW j \in request[q].on, Undisturbed(j)' PROVE SaysRow(j, row[j])'
  <2>1. Explained(j, request[q])
    BY <1>3, <1>6, WasExplained
  <2>2. CASE j = t
    <3>1. SaysRow(t, row[t])
      BY <1>1, <1>3, <2>1, <2>2 DEF Explained, ToldAll
    <3>2. history'[t] = history[t]
      BY <1>3, <1>4, <1>5, TellAppends DEF TypeInv
    <3> QED
      BY <1>3, <2>2, <3>1, <3>2, SaysTheSame DEF SaysRow
  <2>3. CASE j = s
    <3>1. /\ \A c \in RowColumns \ {"into"} : Says(s, c, row[s][c])
          /\ row[s].into = t
      BY <1>1, <1>3, <2>1, <2>3 DEF Explained, HasClosed
    <3>2. DOMAIN Latest(s) = RowColumns
      BY <1>4, LatestHasColumns DEF ExplainInv
    <3>3. \A c \in RowColumns : Replay(s, e, Latest(s))[c] = IF c = "into" THEN t ELSE Latest(s)[c]
      BY <1>5, <3>2, ReplayMergedInto
    <3>4. \A c \in RowColumns :
             \/ Replay(s, e, Latest(s))[c] = row[s][c]
             \/ Replay(s, e, Latest(s))[c] = Latest(s)[c] /\ Says(s, c, row[s][c]) /\ ~Tells(e, c)
      BY <1>5, <3>1, <3>3 DEF Tells
    <3>5. SaysRow(s, row[s])'
      BY <1>3, <1>4, <1>5, <3>4, SaysAfter DEF ExplainInv
    <3> QED
      BY <2>3, <3>5
  <2> QED
    BY <1>4, <2>2, <2>3
<1>7. /\ \A j \in Incidents \ request[q].on : Untouched(j)
      /\ \A j \in Incidents : Exists(j)' => Exists(j)
  BY <1>3, <1>4, <1>5, TellTouchesOne
<1> QED
  BY <1>3, <1>6, <1>7, SlotEnds, SlotStep
-----------------------------------------------------------------------------
(* Requests write and read.                                                *)

\* The request in slot q goes on with the locals r.
LEMMA SlotGoesOn ==
    ASSUME TypeInv, NEW q \in Requests, NEW r, request' = [request EXCEPT ![q] = r], r.on = request[q].on
    PROVE  /\ Others(q) /\ request'[q] = r /\ request'[q].on \subseteq request[q].on
           /\ \A j : Explained(j, request[q])' => Mended(q, j) \/ j \notin request[q].on
BY DEF TypeInv, RequestsType, Others, Mended

\* A statement that writes incident i only, and inserts no entry.
LEMMA WriteTouchesOne ==
    ASSUME TypeInv, NEW i \in Incidents, Exists(i), NEW new, row' = [row EXCEPT ![i] = new],
           UNCHANGED <<history, born>>
    PROVE  /\ row'[i] = new
           /\ \A j \in Incidents \ {i} : Untouched(j)
           /\ \A j \in Incidents : Exists(j)' => Exists(j)
BY DEF TypeInv, TablesType, Untouched, Exists

\* An update that changes no column.
LEMMA NoDiffNoChange ==
    ASSUME NEW old, NEW new, ComputeDiff(old, new) = <<>>
    PROVE  \A c \in Columns : old[c] = new[c]
<1>1. DOMAIN ComputeDiff(old, new) = {c \in Columns : old[c] # new[c]}
  BY DEF ComputeDiff
<1>2. DOMAIN <<>> = {}
  OBVIOUS
<1> QED
  BY <1>1, <1>2

LEMMA ExplainWriteEdit ==
    ASSUME TypeInv, ExplainInv, NEW q \in Requests, WriteEdit(q)
    PROVE  ExplainInv'
<1>1. PICK i, r, new : i = request[q].id /\ r = request[q] /\ new = Edited(row[i], r.wanted)
  OBVIOUS
<1>2. PICK next : next = [r EXCEPT !.pc = "edited", !.new = new]
  OBVIOUS
<1>3. /\ request[q].pc = "edit" /\ row' = [row EXCEPT ![i] = new]
      /\ UNCHANGED <<history, born, overlapped, untold>>
      /\ \/ ComputeDiff(r.old, new) = <<>> /\ Ends(q)
         \/ request' = [request EXCEPT ![q] = next]
  BY <1>1, <1>2 DEF WriteEdit
<1>4. request[q].on = {i} /\ i \in Incidents /\ Exists(i) /\ row[i] \in Row /\ r.source # i
  BY <1>1, <1>3, SlotShape DEF Changing, Existing, Exists, TypeInv, TablesType
<1>5. r \in RequestType /\ r.wanted \in Edits
  BY <1>1, <1>3, <1>4 DEF TypeInv, RequestsType, RequestType, Holds
<1>6. new \in Row /\ new.into = row[i].into
  BY <1>1, <1>4, <1>5, EditedIsARow
<1>7. /\ row'[i] = new
      /\ \A j \in Incidents \ request[q].on : Untouched(j)
      /\ \A j \in Incidents : Exists(j)' => Exists(j)
  BY <1>3, <1>4, WriteTouchesOne
<1>8. ASSUME NEW j \in request[q].on, Undisturbed(j)'
      PROVE  j = i /\ r.old = row[i] /\ SaysRow(i, row[i])
  <2>1. j = i /\ Explained(i, request[q])
    BY <1>3, <1>4, <1>8, WasExplained
  <2> QED
    BY <1>1, <1>3, <2>1 DEF Explained, ToldAll
<1>9. \A c, v : Says(i, c, v)' <=> Says(i, c, v)
  BY <1>3, SaysTheSame
<1>10. CASE ComputeDiff(r.old, new) = <<>> /\ Ends(q)
  <2>1. ASSUME NEW j \in request[q].on, Undisturbed(j)' PROVE SaysRow(j, row[j])'
    <3>1. j = i /\ r.old = row[i] /\ SaysRow(i, row[i])
      BY <1>8, <2>1
    <3>2. \A c \in RowColumns : row[i][c] = new[c]
      BY <1>6, <1>10, <3>1, NoDiffNoChange DEF Columns, RowColumns
    <3> QED
      BY <1>7, <1>9, <3>1, <3>2 DEF SaysRow
  <2> QED
    BY <1>3, <1>7, <1>10, <2>1, SlotEnds, SlotStep
<1>11. CASE request' = [request EXCEPT ![q] = next]
  <2>1. /\ next.pc = "edited" /\ next.new = new /\ next.old = r.old /\ next.on = request[q].on
        /\ next.source # i
    BY <1>1, <1>2, <1>4, <1>5 DEF RequestType
  <2>2. request'[q] = next
    BY <1>11, <2>1, SlotGoesOn
  <2>3. ASSUME NEW j \in request[q].on, Undisturbed(j)' PROVE Explained(j, request[q])'
    <3>1. j = i /\ r.old = row[i] /\ SaysRow(i, row[i])
      BY <1>8, <2>3
    <3>2. \A c \in RowColumns : Says(i, c, r.old[c])'
      BY <1>9, <3>1 DEF SaysRow
    <3>3. SaysRow(i, next.old)'
      BY <2>1, <3>2 DEF SaysRow
    <3>4. Explained(i, next)'
      BY <1>6, <1>7, <2>1, <3>1, <3>3 DEF Explained, ToldAll, HasClosed, HasUnited
    <3> QED
      BY <2>2, <3>1, <3>4
  <2> QED
    BY <1>3, <1>7, <1>11, <2>1, <2>3, SlotGoesOn, SlotStep
<1> QED
  BY <1>3, <1>10, <1>11

LEMMA ExplainReadSource ==
    ASSUME TypeInv, ExplainInv, NEW q \in Requests, ReadSource(q)
    PROVE  ExplainInv'
<1>1. PICK t, s, r : t = request[q].id /\ s = request[q].source /\ r = request[q]
  OBVIOUS
<1>2. PICK next : next = [r EXCEPT !.pc = "merge", !.old = row[s], !.new = Union(r.new, row[s])]
  OBVIOUS
<1>3. /\ request[q].pc = "source"
      /\ UNCHANGED <<row, history, born, overlapped, untold>>
      /\ Ends(q) \/ request' = [request EXCEPT ![q] = next]
  BY <1>1, <1>2 DEF ReadSource, tables
<1>4. request[q].on = {t, s} /\ s # t /\ r \in RequestType /\ r.new \in Row /\ row[s] \in Row
  BY <1>1, <1>3, SlotShape, MergingRequest DEF Merging, TypeInv, RequestsType
<1>5. \A j \in Incidents : Untouched(j) /\ (Exists(j)' => Exists(j))
  BY <1>3 DEF Untouched, Exists
<1>6. ASSUME NEW j \in request[q].on, Undisturbed(j)'
      PROVE  Explained(j, r) /\ SaysRow(j, row[j])'
  <2>1. Explained(j, request[q])
    BY <1>3, <1>6, WasExplained
  <2>2. SaysRow(j, row[j])
    BY <1>3, <2>1 DEF Explained, ToldAll
  <2> QED
    BY <1>1, <1>3, <2>1, <2>2, SaysTheSame DEF SaysRow
<1>7. CASE Ends(q)
  BY <1>3, <1>5, <1>6, <1>7, SlotEnds, SlotStep
<1>8. CASE request' = [request EXCEPT ![q] = next]
  <2>1. /\ next.pc = "merge" /\ next.on = request[q].on /\ next.id = t /\ next.source = s
        /\ next.old = row[s] /\ next.new.fps = r.new.fps \union row[s].fps
    BY <1>1, <1>2, <1>4 DEF RequestType, Union, Row
  <2>2. request'[q] = next
    BY <1>8, <2>1, SlotGoesOn
  <2>3. ASSUME NEW j \in request[q].on, Undisturbed(j)' PROVE Explained(j, request[q])'
    <3>1. j = t => r.new = row[t]
      BY <1>1, <1>3, <1>6, <2>3 DEF Explained
    <3>2. Explained(j, next)'
      BY <1>3, <1>4, <1>6, <2>1, <2>3, <3>1 DEF Explained, ToldAll, HasClosed, HasUnited
    <3> QED
      BY <2>2, <3>2
  <2> QED
    BY <1>3, <1>5, <1>8, <2>1, <2>3, SlotGoesOn, SlotStep
<1> QED
  BY <1>3, <1>7, <1>8
LEMMA ExplainWriteTarget ==
    ASSUME TypeInv, ExplainInv, NEW q \in Requests, WriteTarget(q)
    PROVE  ExplainInv'
<1>1. PICK t, s, r : t = request[q].id /\ s = request[q].source /\ r = request[q]
  OBVIOUS
<1>2. PICK next, new : /\ next = [r EXCEPT !.pc = "mark"]
                       /\ new = Updated(row[t], r.new)
  OBVIOUS
<1>3. /\ request[q].pc = "merge" /\ row' = [row EXCEPT ![t] = new]
      /\ UNCHANGED <<history, born, overlapped, untold>>
      /\ request' = [request EXCEPT ![q] = next]
  BY <1>1, <1>2 DEF WriteTarget, Goes
<1>4. /\ request[q].on = {t, s} /\ s # t /\ r \in RequestType /\ r.new \in Row /\ row[t] \in Row
      /\ t \in Incidents /\ Exists(t)
  BY <1>1, <1>3, SlotShape, MergingRequest, Constants DEF Merging, TypeInv, RequestsType, Exists
<1>5. /\ row'[t] = new
      /\ \A j \in Incidents \ request[q].on : Untouched(j)
      /\ \A j \in Incidents : Exists(j)' => Exists(j)
      /\ s \in Incidents => row'[s] = row[s]
  BY <1>3, <1>4, WriteTouchesOne DEF Untouched
<1>6. /\ next.pc = "mark" /\ next.on = request[q].on /\ next.id = t /\ next.source = s
      /\ next.old = r.old
  BY <1>1, <1>2, <1>4 DEF RequestType
<1>7. new.fps = r.new.fps /\ \A c \in {"url", "into"} : new[c] = row[t][c]
  BY <1>2, <1>4 DEF Row, Updated
<1>8. Latest(t)' = Latest(t) /\ \A j, c, v : Says(j, c, v)' <=> Says(j, c, v)
  BY <1>3, SaysTheSame
<1>9. ASSUME NEW j \in request[q].on, Undisturbed(j)' PROVE Explained(j, request[q])'
  <2>1. Explained(j, r) /\ j \in Incidents
    BY <1>1, <1>3, <1>9, WasExplained
  <2>2. SaysRow(j, row[j])
    BY <1>1, <1>3, <2>1 DEF Explained, ToldAll
  <2>3. CASE j = t
    <3>1. r.new.fps = row[t].fps \union r.old.fps
      BY <1>1, <1>3, <2>1, <2>3 DEF Explained
    <3>2. Latest(t).fps = row[t].fps /\ \A c \in {"url", "into"} : Says(t, c, row[t][c])
      BY <2>2, <2>3 DEF SaysRow, Says, RowColumns, MergedOver, Unsaid
    <3>3. /\ row'[t].fps = Latest(t)'.fps \union r.old.fps
          /\ \A c \in {"url", "into"} : Says(t, c, row[t][c])'
      BY <1>5, <1>7, <1>8, <3>1, <3>2 DEF Says
    <3>4. Explained(t, next)'
      BY <1>4, <1>6, <3>3 DEF Explained, ToldAll, HasClosed, HasUnited
    <3> QED
      BY <1>3, <1>6, <2>3, <3>4, SlotGoesOn
  <2>4. CASE j = s
    <3>1. row'[s] = row[s]
      BY <1>5, <2>1, <2>4
    <3>2. SaysRow(s, row[s])'
      BY <1>8, <2>2, <2>4, <3>1 DEF SaysRow
    <3>3. Explained(s, next)'
      BY <1>4, <1>6, <3>2 DEF Explained, ToldAll, HasClosed, HasUnited
    <3> QED
      BY <1>3, <1>6, <2>4, <3>3, SlotGoesOn
  <2> QED
    BY <1>4, <2>3, <2>4
<1> QED
  BY <1>3, <1>5, <1>6, <1>9, SlotGoesOn, SlotStep

\* Whether the source is marked or not.
LEMMA ExplainMarkSource ==
    ASSUME TypeInv, ExplainInv, NEW q \in Requests, MarkSource(q)
    PROVE  ExplainInv'
<1>1. PICK t, s, r : t = request[q].id /\ s = request[q].source /\ r = request[q]
  OBVIOUS
<1>2. PICK next, new : next = [r EXCEPT !.pc = "merged"] /\ new = [row[s] EXCEPT !.into = t]
  OBVIOUS
<1>3. /\ request[q].pc = "mark" /\ UNCHANGED <<history, born, overlapped>>
      /\ \/ /\ row' = [row EXCEPT ![s] = new] /\ UNCHANGED untold
            /\ request' = [request EXCEPT ![q] = next]
         \/ Ends(q) /\ untold' = untold \union {t} /\ UNCHANGED row
  BY <1>1, <1>2 DEF MarkSource, Goes
<1>4. /\ request[q].on = {t, s} /\ s # t /\ r \in RequestType /\ row[s] \in Row
      /\ s \in Incidents /\ Exists(s)
  BY <1>1, <1>3, SlotShape, MergingRequest, Constants DEF Merging, TypeInv, RequestsType, Exists
<1>5. /\ Latest(t)' = Latest(t) /\ \A j, c, v : Says(j, c, v)' <=> Says(j, c, v)
      /\ untold \subseteq untold'
  BY <1>3, SaysTheSame
<1>6. ASSUME NEW j \in request[q].on, Undisturbed(j)'
      PROVE  Explained(j, r) /\ j \in Incidents /\ (j = s => SaysRow(s, row[s]))
  <2>1. Explained(j, r) /\ j \in Incidents
    BY <1>1, <1>3, <1>5, <1>6, WasExplained
  <2> QED
    BY <1>1, <1>3, <2>1 DEF Explained, ToldAll
<1>7. CASE Ends(q) /\ untold' = untold \union {t} /\ UNCHANGED row
  <2>1. ASSUME NEW j \in request[q].on, Undisturbed(j)' PROVE SaysRow(j, row[j])'
    <3>1. j = s
      BY <1>4, <1>7, <2>1 DEF Undisturbed
    <3> QED
      BY <1>5, <1>6, <1>7, <2>1, <3>1 DEF SaysRow
  <2>2. \A j \in Incidents : Untouched(j) /\ (Exists(j)' => Exists(j))
    BY <1>3, <1>7 DEF Untouched, Exists
  <2> QED
    BY <1>3, <1>5, <1>7, <2>1, <2>2, SlotEnds, SlotStep
<1>8. CASE row' = [row EXCEPT ![s] = new] /\ UNCHANGED untold /\ request' = [request EXCEPT ![q] = next]
  <2>1. /\ row'[s] = new
        /\ \A j \in Incidents \ request[q].on : Untouched(j)
        /\ \A j \in Incidents : Exists(j)' => Exists(j)
        /\ t \in Incidents => row'[t] = row[t]
    BY <1>3, <1>4, <1>8, WriteTouchesOne DEF Untouched
  <2>2. /\ next.pc = "merged" /\ next.on = request[q].on /\ next.id = t /\ next.source = s
        /\ next.old = r.old
    BY <1>1, <1>2, <1>4 DEF RequestType
  <2>3. new.into = t /\ \A c \in RowColumns \ {"into"} : new[c] = row[s][c]
    BY <1>2, <1>4 DEF Row, RowColumns
  <2>4. ASSUME NEW j \in request[q].on, Undisturbed(j)' PROVE Explained(j, request[q])'
    <3>1. CASE j = t
      <4>1. /\ row[t].fps = Latest(t).fps \union r.old.fps
            /\ \A c \in {"url", "into"} : Says(t, c, row[t][c])
        BY <1>1, <1>3, <1>6, <2>4, <3>1 DEF Explained, HasUnited
      <4>2. row'[t] = row[t]
        BY <1>6, <2>1, <2>4, <3>1
      <4>3. /\ row'[t].fps = Latest(t)'.fps \union r.old.fps
            /\ \A c \in {"url", "into"} : Says(t, c, row[t][c])'
        BY <1>5, <4>1, <4>2 DEF Says
      <4>4. Explained(t, next)'
        BY <1>4, <2>2, <4>3 DEF Explained, ToldAll, HasClosed, HasUnited
      <4> QED
        BY <1>8, <2>2, <3>1, <4>4, SlotGoesOn
    <3>2. CASE j = s
      <4>1. \A c \in RowColumns \ {"into"} : Says(s, c, row[s][c])'
        BY <1>5, <1>6, <2>1, <2>3, <2>4, <3>2 DEF SaysRow
      <4>2. Explained(s, next)'
        BY <1>4, <2>1, <2>2, <2>3, <4>1 DEF Explained, ToldAll, HasClosed, HasUnited
      <4> QED
        BY <1>8, <2>2, <3>2, <4>2, SlotGoesOn
    <3> QED
      BY <1>4, <3>1, <3>2
  <2> QED
    BY <1>3, <1>8, <2>1, <2>2, <2>4, SlotGoesOn, SlotStep
<1> QED
  BY <1>3, <1>7, <1>8

LEMMA ExplainRecordOnTarget ==
    ASSUME TypeInv, ExplainInv, NEW q \in Requests, RecordOnTarget(q)
    PROVE  ExplainInv'
<1>1. PICK t, s, r : t = request[q].id /\ s = request[q].source /\ r = request[q]
  OBVIOUS
<1>2. PICK next, e : next = [r EXCEPT !.pc = "told"] /\ e = SourceEntry(q)
  OBVIOUS
<1>3. /\ request[q].pc = "merged" /\ Tell(t, e)
      /\ UNCHANGED <<row, born, overlapped, untold>>
      /\ request' = [request EXCEPT ![q] = next]
  BY <1>1, <1>2 DEF RecordOnTarget, Goes, SourceEntry
<1>4. /\ request[q].on = {t, s} /\ s # t /\ r \in RequestType
      /\ t \in Incidents /\ Exists(t)
  BY <1>1, <1>3, SlotShape DEF Merging, TypeInv, RequestsType, Existing
<1>5. e \in Entry /\ e.kind = "merged_source" /\ e.added = r.old.fps
  BY <1>1, <1>2, TypeRecordOnTarget DEF SourceEntry
<1>6. /\ next.pc = "told" /\ next.on = request[q].on /\ next.id = t /\ next.source = s
  BY <1>1, <1>2, <1>4 DEF RequestType
<1>7. ASSUME NEW j \in request[q].on, Undisturbed(j)' PROVE Explained(j, request[q])'
  <2>1. Explained(j, r) /\ j \in Incidents
    BY <1>1, <1>3, <1>7, WasExplained
  <2>2. CASE j = t
    <3>1. /\ row[t].fps = Latest(t).fps \union r.old.fps
          /\ \A c \in {"url", "into"} : Says(t, c, row[t][c])
      BY <1>1, <1>3, <2>1, <2>2 DEF Explained, HasUnited
    <3>2. DOMAIN Latest(t) = RowColumns
      BY <1>4, LatestHasColumns DEF ExplainInv
    <3>3. /\ Replay(t, e, Latest(t))["fps"] = Latest(t)["fps"] \union e.added
          /\ \A c \in RowColumns \ {"fps"} : Replay(t, e, Latest(t))[c] = Latest(t)[c]
      BY <1>5, <3>2, ReplayMergedSource
    <3>4. \A c \in RowColumns :
             \/ Replay(t, e, Latest(t))[c] = row[t][c]
             \/ Replay(t, e, Latest(t))[c] = Latest(t)[c] /\ Says(t, c, row[t][c]) /\ ~Tells(e, c)
             \/ c \in Unsaid /\ NamesSource(e)
      BY <1>5, <3>1, <3>3 DEF RowColumns, Unsaid, NamesSource, Tells
    <3>5. SaysRow(t, row[t])'
      BY <1>3, <1>4, <1>5, <3>4, SaysAfter DEF ExplainInv
    <3>6. Explained(t, next)'
      BY <1>4, <1>6, <3>5 DEF Explained, ToldAll, HasClosed, HasUnited
    <3> QED
      BY <1>3, <1>6, <2>2, <3>6, SlotGoesOn
  <2>3. CASE j = s
    <3>1. history'[s] = history[s] /\ row'[s] = row[s] /\ born'[s] = born[s]
      BY <1>3, <1>4, <1>5, <2>1, <2>3, TellAppends DEF TypeInv
    <3>2. /\ \A c \in RowColumns \ {"into"} : Says(s, c, row[s][c])
          /\ row[s].into = t
      BY <1>1, <1>3, <2>1, <2>3 DEF Explained, HasClosed
    <3>3. \A c, v : Says(s, c, v)' <=> Says(s, c, v)
      BY <3>1, SaysTheSame
    <3>4. \A c \in RowColumns \ {"into"} : Says(s, c, row[s][c])'
      BY <3>1, <3>2, <3>3
    <3>5. Explained(s, next)'
      BY <1>4, <1>6, <3>1, <3>2, <3>4 DEF Explained, ToldAll, HasClosed, HasUnited
    <3> QED
      BY <1>3, <1>6, <2>3, <3>5, SlotGoesOn
  <2> QED
    BY <1>4, <2>2, <2>3
<1>8. /\ \A j \in Incidents \ request[q].on : Untouched(j)
      /\ \A j \in Incidents : Exists(j)' => Exists(j)
  BY <1>3, <1>4, <1>5, TellTouchesOne
<1> QED
  BY <1>3, <1>6, <1>7, <1>8, SlotGoesOn, SlotStep
-----------------------------------------------------------------------------
(* Failures and reads.                                                     *)

\* Nothing of what a failed request has not told matters for an incident that is undisturbed.
LEMMA ExplainFailures ==
    ASSUME TypeInv, ExplainInv, NEW q \in Requests, RequestFails(q)
    PROVE  ExplainInv'
<1>1. PICK r : r = request[q]
  OBVIOUS
<1>2. /\ r.pc # "idle" /\ Ends(q) /\ UNCHANGED <<row, history, born, overlapped>>
      /\ untold' = untold \union ToTell(r)
  BY <1>1 DEF RequestFails, tables
<1>3. /\ r.pc \in Changing \union Merging
      /\ r.pc \in Changing => r.on = {r.id}
      /\ r.pc \in Merging => r.on = {r.id, r.source}
  BY <1>1, <1>2, SlotShape DEF TypeInv, RequestsType, RequestType
<1>4. \A j \in Incidents : Untouched(j) /\ (Exists(j)' => Exists(j))
  BY <1>2 DEF Untouched, Exists
<1>5. ASSUME NEW j \in request[q].on, Undisturbed(j)' PROVE SaysRow(j, row[j])'
  <2>1. j \notin ToTell(r)
    BY <1>2, <1>5 DEF Undisturbed
  <2>2. ToldAll(j, r)
    BY <1>1, <1>3, <1>5, <2>1 DEF ToldAll, ToTell, Changing, Merging
  <2>3. Explained(j, r)
    BY <1>1, <1>2, <1>5, WasExplained
  <2>4. SaysRow(j, row[j])
    BY <2>2, <2>3 DEF Explained
  <2> QED
    BY <1>2, <2>4, SaysTheSame DEF SaysRow
<1> QED
  BY <1>2, <1>4, <1>5, SlotEnds, SlotStep

LEMMA ExplainTargetUntold ==
    ASSUME TypeInv, ExplainInv, NEW q \in Requests, RecordOnTargetFails(q)
    PROVE  ExplainInv'
<1>1. PICK t, s, r : t = request[q].id /\ s = request[q].source /\ r = request[q]
  OBVIOUS
<1>2. PICK next : next = [r EXCEPT !.pc = "told"]
  OBVIOUS
<1>3. /\ request[q].pc = "merged" /\ UNCHANGED <<row, history, born, overlapped>>
      /\ untold' = untold \union {t}
      /\ request' = [request EXCEPT ![q] = next]
  BY <1>1, <1>2 DEF RecordOnTargetFails, Goes, tables
<1>4. request[q].on = {t, s} /\ s # t /\ r \in RequestType
  BY <1>1, <1>3, SlotShape DEF Merging, TypeInv, RequestsType
<1>5. /\ next.pc = "told" /\ next.on = request[q].on /\ next.id = t /\ next.source = s
  BY <1>1, <1>2, <1>4 DEF RequestType
<1>6. ASSUME NEW j \in request[q].on, Undisturbed(j)' PROVE Explained(j, request[q])'
  <2>1. j = s
    BY <1>3, <1>4, <1>6 DEF Undisturbed
  <2>2. Explained(s, r)
    BY <1>1, <1>3, <1>6, <2>1, WasExplained
  <2>3. /\ \A c \in RowColumns \ {"into"} : Says(s, c, row[s][c])
        /\ row[s].into = t
    BY <1>1, <1>3, <2>2 DEF Explained, HasClosed
  <2>4. \A c \in RowColumns \ {"into"} : Says(s, c, row[s][c])'
    BY <1>3, <2>3, SaysTheSame
  <2>5. Explained(s, next)'
    BY <1>3, <1>4, <1>5, <2>3, <2>4 DEF Explained, ToldAll, HasClosed, HasUnited
  <2> QED
    BY <1>3, <1>5, <2>1, <2>5, SlotGoesOn
<1>7. \A j \in Incidents : Untouched(j) /\ (Exists(j)' => Exists(j))
  BY <1>3 DEF Untouched, Exists
<1> QED
  BY <1>3, <1>5, <1>6, <1>7, SlotGoesOn, SlotStep

LEMMA ExplainReads ==
    ASSUME ExplainInv, UNCHANGED <<tables, request, born, overlapped, untold>>
    PROVE  ExplainInv'
<1>1. BornType' /\ AloneInv'
  BY DEF ExplainInv, BornType, AloneInv, Exists, tables
<1>2. ASSUME NEW j \in Incidents, Exists(j)', Undisturbed(j)' PROVE Fits(j)'
  <2>1. Fits(j)
    BY <1>2 DEF ExplainInv, FitsInv, Exists, Undisturbed, tables
  <2>2. ~WorkedOn(j)' => SaysRow(j, row[j])'
    BY <2>1, SaysTheSame DEF Fits, WorkedOn, SaysRow, tables
  <2>3. \A q \in Requests : j \in request'[q].on => Explained(j, request[q])'
    BY <2>1, ExplainedTheSame DEF Fits, tables
  <2> QED
    BY <2>2, <2>3 DEF Fits
<1> QED
  BY <1>1, <1>2 DEF ExplainInv, FitsInv

LEMMA ExplainInit == Init => ExplainInv
BY Constants DEF Init, ExplainInv, BornType, AloneInv, FitsInv, Exists, Idle

LEMMA ExplainStep == TypeInv /\ RestType /\ ExplainInv /\ [Next]_vars => ExplainInv'
<1> SUFFICES ASSUME TypeInv, RestType, ExplainInv, [Next]_vars PROVE ExplainInv'
  OBVIOUS
<1>1. ASSUME NEW q \in Requests, NEW i \in Incidents, NEW c \in Reports, Create(q, i, c)
      PROVE  ExplainInv'
  BY <1>1, ExplainCreate
<1>2. ASSUME NEW q \in Requests, NEW i \in Incidents, NEW c \in Reports, CreateAgentKBEntry(q, i, c)
      PROVE  ExplainInv'
  BY <1>2, ExplainCreateAgentKBEntry
<1>3. ASSUME NEW q \in Requests, NEW i \in Incidents, NEW w \in Edits, ReadForEdit(q, i, w)
      PROVE  ExplainInv'
  BY <1>3, ExplainReadForEdit
<1>4. ASSUME NEW q \in Requests, NEW i \in Incidents, Delete(q, i) PROVE ExplainInv'
  BY <1>4, ExplainDelete
<1>5. ASSUME NEW q \in Requests, NEW t \in Incidents, NEW s \in Incidents, ReadTarget(q, t, s)
      PROVE  ExplainInv'
  BY <1>5, ExplainReadTarget
<1>6. ASSUME NEW q \in Requests,
             RecordCreation(q) \/ RecordEdit(q) \/ RecordArchiving(q) \/ RecordOnTarget(q) \/ RecordOnSource(q)
      PROVE  ExplainInv'
  BY <1>6, ExplainRecordCreation, ExplainRecordEdit, ExplainRecordArchiving, ExplainRecordOnTarget,
     ExplainRecordOnSource
<1>7. ASSUME NEW q \in Requests, WriteEdit(q) \/ ReadSource(q) \/ WriteTarget(q) \/ MarkSource(q)
      PROVE  ExplainInv'
  BY <1>7, ExplainWriteEdit, ExplainReadSource, ExplainWriteTarget, ExplainMarkSource
<1>8. ASSUME NEW q \in Requests, RequestFails(q) \/ RecordOnTargetFails(q) PROVE ExplainInv'
  BY <1>8, ExplainFailures, ExplainTargetUntold
<1>9. ASSUME (\E i \in Incidents : Get(i)) \/ ListHistory \/ Answered \/ UNCHANGED vars PROVE ExplainInv'
  <2>1. UNCHANGED <<tables, request, born, overlapped, untold>>
    BY <1>9 DEF Get, ListHistory, Answered, vars
  <2> QED
    BY <2>1, ExplainReads
<1> QED
  BY <1>1, <1>2, <1>3, <1>4, <1>5, <1>6, <1>7, <1>8, <1>9 DEF Next

(***************************************************************************)
(* Replayed from the row that was created, the history of an incident      *)
(* leads to the row there is, when its requests came one after the other   *)
(* and no insert failed: computeDiff and the entry of an archiving leave   *)
(* no column out.  Of a merge the fingerprints are told, and its other     *)
(* columns are known again once an edit has changed them.                  *)
(***************************************************************************)
THEOREM HistoryExplainsRowCorrect == Spec => []HistoryExplainsRow
<1>1. Init => TypeInv /\ RestType /\ ExplainInv
  BY TypeInit, RestInit, ExplainInit
<1>2. TypeInv /\ RestType /\ ExplainInv /\ [Next]_vars => (TypeInv /\ RestType /\ ExplainInv)'
  BY TypeStep, RestStep, ExplainStep
<1>3. TypeInv /\ ExplainInv => HistoryExplainsRow
  <2> SUFFICES ASSUME TypeInv, ExplainInv, NEW i \in Incidents, Exists(i), Undisturbed(i), ~WorkedOn(i)
               PROVE  Explains(i, history[i], Len(history[i]), row[i])
    BY DEF HistoryExplainsRow
  <2>1. SaysRow(i, row[i])
    BY DEF ExplainInv, FitsInv, Fits
  <2>2. DOMAIN row[i] = RowColumns
    BY RowsHaveColumns DEF TypeInv, TablesType, Exists
  <2> QED
    BY <2>1, <2>2 DEF SaysRow, Says, Explains, Latest
<1> QED
  BY <1>1, <1>2, <1>3, PTL DEF Spec
-----------------------------------------------------------------------------
(* GET of an incident: what one step does to the incident that was read.   *)

\* A request works on i and has a change of it to tell.
Pends(i) == \E q \in Requests : i \in request[q].on /\ ~ToldAll(i, request[q])

Grows(i) == history'[i] = history[i] \/ \E e \in Entry : history'[i] = Append(history[i], e)

\* The change is told with one entry, or the incident was disturbed; the row waits for that.
Moves(i) ==
    /\ Exists(i)' /\ born'[i] = born[i] /\ Grows(i)
    /\ Undisturbed(i)' => Undisturbed(i)
    /\ Pends(i) /\ Undisturbed(i)' =>
         /\ row'[i] = row[i]
         /\ history'[i] = history[i] => Pends(i)'
         /\ history'[i] # history[i] => ~Pends(i)'

LEMMA AppendIsLonger ==
    ASSUME NEW S, NEW s \in Seq(S), NEW e \in S
    PROVE  Append(s, e) # s /\ Len(Append(s, e)) = Len(s) + 1
OBVIOUS

LEMMA SlotMoves ==
    ASSUME TypeInv, ExplainInv, NEW q \in Requests, Others(q), request'[q].on \subseteq request[q].on,
           UNCHANGED <<born, overlapped>>, untold \subseteq untold',
           NEW i \in Incidents, Exists(i)', i \notin request[q].on => Untouched(i),
           i \in request[q].on => Grows(i),
           i \in request[q].on /\ Undisturbed(i)' /\ ~ToldAll(i, request[q]) =>
             /\ row'[i] = row[i]
             /\ history'[i] = history[i] => i \in request'[q].on /\ ~ToldAll(i, request'[q])
             /\ history'[i] # history[i] /\ i \in request'[q].on => ToldAll(i, request'[q])
    PROVE  Moves(i)
<1>1. Grows(i) /\ born'[i] = born[i]
  BY DEF Untouched, Grows
<1>2. Undisturbed(i)' => Undisturbed(i)
  BY DEF Undisturbed
<1>3. ASSUME Pends(i), Undisturbed(i)'
      PROVE  /\ row'[i] = row[i]
             /\ history'[i] = history[i] => Pends(i)'
             /\ history'[i] # history[i] => ~Pends(i)'
  <2>1. PICK p \in Requests : i \in request[p].on /\ ~ToldAll(i, request[p])
    BY <1>3 DEF Pends
  <2>2. \A u \in Requests : i \in request[u].on => u = p
    BY <1>2, <1>3, <2>1 DEF ExplainInv, AloneInv, Undisturbed
  <2>3. CASE p = q
    <3>1. \A u \in Requests : i \in request'[u].on => u = q
      BY <2>2, <2>3 DEF Others
    <3>2. Pends(i)' <=> i \in request'[q].on /\ ~ToldAll(i, request'[q])
      <4>1. \A u \in Requests : ToldAll(i, request[u])' <=> ToldAll(i, request'[u])
        BY DEF ToldAll
      <4> QED
        BY <3>1, <4>1 DEF Pends
    <3> QED
      BY <1>3, <2>1, <2>3, <3>2
  <2>4. CASE p # q
    <3>1. request'[p] = request[p]
      BY <2>4 DEF Others
    <3>2. Pends(i)'
      BY <2>1, <3>1 DEF Pends, ToldAll
    <3>3. Untouched(i)
      BY <2>2, <2>4
    <3> QED
      BY <3>2, <3>3 DEF Untouched
  <2> QED
    BY <2>3, <2>4
<1> QED
  BY <1>1, <1>2, <1>3 DEF Moves

\* A request that begins leaves the others alone, and what it takes from one of them is overlapped.
LEMMA TakeMoves ==
    ASSUME TypeInv, NEW q \in Requests, NEW S, Takes(q, S), Others(q) \/ UNCHANGED request,
           UNCHANGED <<history, untold>>,
           NEW i \in Incidents, Exists(i)', born'[i] = born[i], i \notin S => row'[i] = row[i]
    PROVE  Moves(i)
<1>1. Undisturbed(i)' => Undisturbed(i)
  BY DEF Takes, Undisturbed
<1>2. request[q].on = {}
  BY SlotShape DEF Takes
<1>3. ASSUME Pends(i), Undisturbed(i)' PROVE row'[i] = row[i] /\ Pends(i)'
  <2>1. PICK p \in Requests : i \in request[p].on /\ ~ToldAll(i, request[p])
    BY <1>3 DEF Pends
  <2>2. i \notin S
    BY <1>3, <2>1 DEF Takes, Undisturbed
  <2>3. request'[p] = request[p]
    BY <1>2, <2>1 DEF Others
  <2>4. Pends(i)'
    BY <2>1, <2>3 DEF Pends, ToldAll
  <2> QED
    BY <2>2, <2>4
<1>4. Grows(i) /\ history'[i] = history[i]
  BY DEF Grows
<1> QED
  BY <1>1, <1>3, <1>4 DEF Moves

LEMMA MovesTaken ==
    ASSUME TypeInv, ExplainInv, NEW i \in Incidents, Exists(i), NEW q \in Requests, NEW j \in Incidents,
           \/ \E c \in Reports : Create(q, j, c) \/ CreateAgentKBEntry(q, j, c)
           \/ \E w \in Edits : ReadForEdit(q, j, w)
           \/ Delete(q, j)
           \/ \E s \in Incidents : ReadTarget(q, j, s)
    PROVE  Moves(i)
<1>1. row \in [Incidents -> Row \union {None}] /\ born \in [Incidents -> Row \union {None}]
  BY DEF TypeInv, TablesType, ExplainInv, BornType
<1>2. ASSUME NEW c \in Reports, Create(q, j, c) \/ CreateAgentKBEntry(q, j, c)
      PROVE  Moves(i)
  <2>1. PICK S : Takes(q, S)
    BY <1>2 DEF Create, CreateAgentKBEntry
  <2>2. j # i /\ row'[i] = row[i] /\ born'[i] = born[i] /\ UNCHANGED <<history, untold>>
    BY <1>1, <1>2 DEF Create, CreateAgentKBEntry, Exists
  <2>3. Others(q) \/ UNCHANGED request
    BY <1>2 DEF Create, CreateAgentKBEntry, Others, TypeInv, RequestsType
  <2> QED
    BY <2>1, <2>2, <2>3, TakeMoves DEF Exists
<1>3. ASSUME NEW w \in Edits, ReadForEdit(q, j, w) PROVE Moves(i)
  <2>1. Takes(q, {j}) /\ UNCHANGED <<row, born, history, untold>>
    BY <1>3 DEF ReadForEdit, tables
  <2>2. Others(q)
    BY <1>3 DEF ReadForEdit, Others, TypeInv, RequestsType
  <2> QED
    BY <2>1, <2>2, TakeMoves DEF Exists
<1>4. ASSUME Delete(q, j) PROVE Moves(i)
  <2>1. /\ Takes(q, {j}) /\ UNCHANGED <<born, history, untold>>
        /\ row' = [row EXCEPT ![j] = [@ EXCEPT !.into = j]] /\ row[j] \in Row
    BY <1>1, <1>4 DEF Delete, Exists
  <2>2. Others(q)
    BY <1>4 DEF Delete, Others, TypeInv, RequestsType
  <2>3. [row[j] EXCEPT !.into = j] \in Row
    BY <2>1 DEF Row
  <2>4. i # j => row'[i] = row[i]
    BY <1>1, <2>1
  <2>5. Exists(i)'
    BY <1>1, <2>1, <2>3, <2>4, Constants DEF Exists
  <2> QED
    BY <2>1, <2>2, <2>4, <2>5, TakeMoves
<1>5. ASSUME NEW s \in Incidents, ReadTarget(q, j, s) PROVE Moves(i)
  <2>1. Takes(q, {j, s}) /\ UNCHANGED <<row, born, history, untold>>
    BY <1>5 DEF ReadTarget, tables
  <2>2. Others(q)
    BY <1>5 DEF ReadTarget, Others, TypeInv, RequestsType
  <2> QED
    BY <2>1, <2>2, TakeMoves DEF Exists
<1> QED
  BY <1>2, <1>3, <1>4, <1>5
\* An entry of one of the incidents of the request.
LEMMA TellGrows ==
    ASSUME TypeInv, NEW q \in Requests, NEW t \in request[q].on, NEW e \in Entry, Tell(t, e),
           UNCHANGED <<row, born>>, NEW i \in Incidents, Exists(i)
    PROVE  /\ Exists(i)' /\ Grows(i) /\ row'[i] = row[i]
           /\ i # t => history'[i] = history[i]
           /\ i = t => history'[i] # history[i]
           /\ i \notin request[q].on => Untouched(i)
<1>1. t \in Incidents
  BY SlotShape DEF Existing
<1>2. history[t] \in Seq(Entry) /\ history'[t] = Append(history[t], e)
  BY <1>1 DEF Tell, TypeInv, TablesType
<1>3. history'[t] # history[t]
  BY <1>2, AppendIsLonger
<1>4. i # t => history'[i] = history[i]
  BY <1>1, TellAppends DEF TypeInv
<1>5. Grows(i)
  BY <1>2, <1>4 DEF Grows
<1> QED
  BY <1>3, <1>4, <1>5 DEF Exists, Untouched

\* A request that ends with an entry.
LEMMA MovesEnded ==
    ASSUME TypeInv, ExplainInv, NEW i \in Incidents, Exists(i), NEW q \in Requests,
           NEW t \in request[q].on, NEW e \in Entry, Tell(t, e), Ends(q),
           UNCHANGED <<row, born, overlapped, untold>>,
           \A j \in request[q].on \ {t} : ToldAll(j, request[q])
    PROVE  Moves(i)
<1>1. Others(q) /\ request'[q].on = {} /\ request'[q].on \subseteq request[q].on
  BY SlotEnds
<1>2. /\ Exists(i)' /\ Grows(i) /\ row'[i] = row[i]
      /\ i # t => history'[i] = history[i]
      /\ i = t => history'[i] # history[i]
      /\ i \notin request[q].on => Untouched(i)
  BY TellGrows
<1> QED
  BY <1>1, <1>2, SlotMoves

LEMMA MovesRecorded ==
    ASSUME TypeInv, ExplainInv, NEW i \in Incidents, Exists(i), NEW q \in Requests,
           RecordCreation(q) \/ RecordEdit(q) \/ RecordArchiving(q) \/ RecordOnSource(q)
    PROVE  Moves(i)
<1>1. PICK id, s, old, new :
        id = request[q].id /\ s = request[q].source /\ old = request[q].old /\ new = request[q].new
  OBVIOUS
<1>2. ASSUME NEW e \in Entry, Tell(id, e), request[q].pc \in Changing, Ends(q),
             UNCHANGED <<row, born, overlapped, untold>>
      PROVE  Moves(i)
  <2>1. request[q].on = {id}
    BY <1>1, <1>2, SlotShape
  <2> QED
    BY <1>2, <2>1, MovesEnded
<1>3. CASE RecordCreation(q)
  <2>1. PICK e : e = [kind |-> "created"]
    OBVIOUS
  <2>2. e \in Entry /\ Tell(id, e) /\ request[q].pc \in Changing /\ Ends(q)
    BY <1>1, <1>3, <2>1, EntriesAreEntries DEF RecordCreation, Changing
  <2> QED
    BY <1>2, <1>3, <2>2 DEF RecordCreation
<1>4. CASE RecordEdit(q)
  <2>1. PICK e : e = [kind |-> "updated", diff |-> ComputeDiff(old, new)]
    OBVIOUS
  <2>2. request[q].pc = "edited" /\ Tell(id, e) /\ request[q].pc \in Changing /\ Ends(q)
    BY <1>1, <1>4, <2>1 DEF RecordEdit, Changing
  <2>3. old \in Row /\ new \in Row
    BY <1>1, <2>2 DEF TypeInv, RequestsType, Holds
  <2>4. e \in Entry
    BY <2>1, <2>3, EntriesAreEntries
  <2> QED
    BY <1>2, <1>4, <2>2, <2>4 DEF RecordEdit
<1>5. CASE RecordArchiving(q)
  <2>1. PICK e : e = [kind |-> "archived"]
    OBVIOUS
  <2>2. e \in Entry /\ Tell(id, e) /\ request[q].pc \in Changing /\ Ends(q)
    BY <1>1, <1>5, <2>1, EntriesAreEntries DEF RecordArchiving, Changing
  <2> QED
    BY <1>2, <1>5, <2>2 DEF RecordArchiving
<1>6. CASE RecordOnSource(q)
  <2>1. PICK e : e = [kind |-> "merged_into", into |-> id]
    OBVIOUS
  <2>2. /\ request[q].pc = "told" /\ Tell(s, e) /\ Ends(q)
        /\ UNCHANGED <<row, born, overlapped, untold>>
    BY <1>1, <1>6, <2>1 DEF RecordOnSource
  <2>3. request[q].on = {id, s} /\ id \in Incidents
    BY <1>1, <2>2, SlotShape DEF Merging, Existing
  <2>4. e \in Entry
    BY <2>1, <2>3, EntriesAreEntries
  <2>5. \A j \in request[q].on \ {s} : ToldAll(j, request[q])
    BY <1>1, <2>2, <2>3 DEF ToldAll
  <2> QED
    BY <2>2, <2>3, <2>4, <2>5, MovesEnded
<1> QED
  BY <1>3, <1>4, <1>5, <1>6

LEMMA MovesRecordedOnTarget ==
    ASSUME TypeInv, ExplainInv, NEW i \in Incidents, Exists(i), NEW q \in Requests, RecordOnTarget(q)
    PROVE  Moves(i)
<1>1. PICK t, s, r : t = request[q].id /\ s = request[q].source /\ r = request[q]
  OBVIOUS
<1>2. PICK next, e : next = [r EXCEPT !.pc = "told"] /\ e = SourceEntry(q)
  OBVIOUS
<1>3. /\ request[q].pc = "merged" /\ Tell(t, e)
      /\ UNCHANGED <<row, born, overlapped, untold>>
      /\ request' = [request EXCEPT ![q] = next]
  BY <1>1, <1>2 DEF RecordOnTarget, Goes, SourceEntry
<1>4. request[q].on = {t, s} /\ s # t /\ r \in RequestType
  BY <1>1, <1>3, SlotShape DEF Merging, TypeInv, RequestsType
<1>5. e \in Entry
  BY <1>1, <1>2, TypeRecordOnTarget
<1>6. /\ next.pc = "told" /\ next.on = request[q].on /\ next.id = t /\ next.source = s
  BY <1>1, <1>2, <1>4 DEF RequestType
<1>7. Others(q) /\ request'[q] = next /\ request'[q].on \subseteq request[q].on
  BY <1>3, <1>6, SlotGoesOn
<1>8. /\ Exists(i)' /\ Grows(i) /\ row'[i] = row[i]
      /\ i # t => history'[i] = history[i]
      /\ i = t => history'[i] # history[i]
      /\ i \notin request[q].on => Untouched(i)
  BY <1>3, <1>4, <1>5, TellGrows
<1>9. ToldAll(t, next) /\ ~ToldAll(s, next)
  BY <1>4, <1>6 DEF ToldAll
<1> QED
  BY <1>3, <1>4, <1>6, <1>7, <1>8, <1>9, SlotMoves

\* Before these statements the request has nothing to tell of what they write.
LEMMA MovesWritten ==
    ASSUME TypeInv, ExplainInv, NEW i \in Incidents, Exists(i), NEW q \in Requests,
           WriteEdit(q) \/ ReadSource(q) \/ WriteTarget(q)
    PROVE  Moves(i)
<1>1. request[q].pc \in {"edit", "source", "merge"} /\ UNCHANGED <<history, born, overlapped, untold>>
  BY DEF WriteEdit, ReadSource, WriteTarget, tables
<1>2. PICK id : id = request[q].id
  OBVIOUS
<1>3. id \in request[q].on /\ id \in Incidents /\ row[id] \in Row
  BY <1>1, <1>2, SlotShape DEF Changing, Merging, Existing, Exists, TypeInv, TablesType
<1>4. \A j \in Incidents \ {id} : row'[j] = row[j]
  BY <1>2, <1>3 DEF WriteEdit, ReadSource, WriteTarget, tables, TypeInv, TablesType
<1>5. Exists(i)'
  <2>1. TypeInv' /\ \A j \in Incidents : Exists(j) => Exists(j)'
    BY TypeWriteEdit, TypeReadSource, TypeWriteTarget DEF ReadSource, tables, Exists, Existing
  <2> QED
    BY <2>1
<1>6. /\ Others(q)
      /\ Ends(q) \/ request'[q].on = request[q].on
  <2>1. request \in [Requests -> RequestType]
    BY DEF TypeInv, RequestsType
  <2>2. CASE Ends(q)
    BY <2>1, <2>2 DEF Ends, Others
  <2>3. ASSUME NEW next, request' = [request EXCEPT ![q] = next], next.on = request[q].on
        PROVE  Others(q) /\ request'[q].on = request[q].on
    BY <2>1, <2>3 DEF Others
  <2>4. CASE WriteEdit(q) /\ ~Ends(q)
    <3>1. PICK new : request' = [request EXCEPT ![q] = [request[q] EXCEPT !.pc = "edited", !.new = new]]
      BY <2>4 DEF WriteEdit
    <3>2. [request[q] EXCEPT !.pc = "edited", !.new = new].on = request[q].on
      BY <2>1 DEF RequestType
    <3> QED
      BY <2>3, <3>1, <3>2
  <2>5. CASE ReadSource(q) /\ ~Ends(q)
    <3>1. PICK old, new :
            request' = [request EXCEPT ![q] = [request[q] EXCEPT !.pc = "merge", !.old = old, !.new = new]]
      BY <2>5 DEF ReadSource
    <3>2. [request[q] EXCEPT !.pc = "merge", !.old = old, !.new = new].on = request[q].on
      BY <2>1 DEF RequestType
    <3> QED
      BY <2>3, <3>1, <3>2
  <2>6. CASE WriteTarget(q)
    <3>1. request' = [request EXCEPT ![q] = [request[q] EXCEPT !.pc = "mark"]]
      BY <2>6 DEF WriteTarget, Goes
    <3>2. [request[q] EXCEPT !.pc = "mark"].on = request[q].on
      BY <2>1 DEF RequestType
    <3> QED
      BY <2>3, <3>1, <3>2
  <2> QED
    BY <2>2, <2>4, <2>5, <2>6
<1>7. request'[q].on \subseteq request[q].on
  BY <1>6, SlotEnds
<1>8. ToldAll(i, request[q]) /\ Grows(i)
  BY <1>1 DEF ToldAll, Grows
<1>9. i \notin request[q].on => Untouched(i)
  BY <1>1, <1>3, <1>4 DEF Untouched
<1> QED
  BY <1>1, <1>5, <1>6, <1>7, <1>8, <1>9, SlotMoves

LEMMA MovesMarked ==
    ASSUME TypeInv, ExplainInv, NEW i \in Incidents, Exists(i), NEW q \in Requests, MarkSource(q)
    PROVE  Moves(i)
<1>1. PICK t, s, r : t = request[q].id /\ s = request[q].source /\ r = request[q]
  OBVIOUS
<1>2. PICK next, new : next = [r EXCEPT !.pc = "merged"] /\ new = [row[s] EXCEPT !.into = t]
  OBVIOUS
<1>3. /\ request[q].pc = "mark" /\ UNCHANGED <<history, born, overlapped>>
      /\ \/ /\ row' = [row EXCEPT ![s] = new] /\ UNCHANGED untold
            /\ request' = [request EXCEPT ![q] = next]
         \/ Ends(q) /\ untold' = untold \union {t} /\ UNCHANGED row
  BY <1>1, <1>2 DEF MarkSource, Goes
<1>4. /\ request[q].on = {t, s} /\ s # t /\ r \in RequestType /\ row[s] \in Row
      /\ t \in Incidents /\ s \in Incidents /\ Exists(s)
  BY <1>1, <1>3, SlotShape, MergingRequest, Constants DEF Merging, TypeInv, RequestsType, Exists
<1>5. /\ next.pc = "merged" /\ next.on = request[q].on /\ next.id = t /\ next.source = s
  BY <1>1, <1>2, <1>4 DEF RequestType
<1>6. new \in Row
  BY <1>2, <1>4 DEF Row
<1>7. Exists(i)' /\ \A j \in Incidents \ {s} : row'[j] = row[j]
  BY <1>3, <1>4, <1>6, Constants DEF Exists, TypeInv, TablesType
<1>8. Grows(i) /\ (i \notin request[q].on => Untouched(i))
  BY <1>3, <1>4, <1>7 DEF Grows, Untouched
<1>9. ToldAll(s, request[q])
  BY <1>1, <1>3 DEF ToldAll
<1>10. CASE Ends(q) /\ untold' = untold \union {t} /\ UNCHANGED row
  <2>1. i = t => ~Undisturbed(i)'
    BY <1>10 DEF Undisturbed
  <2> QED
    BY <1>3, <1>4, <1>7, <1>8, <1>9, <1>10, <2>1, SlotEnds, SlotMoves
<1>11. CASE row' = [row EXCEPT ![s] = new] /\ UNCHANGED untold /\ request' = [request EXCEPT ![q] = next]
  <2>1. Others(q) /\ request'[q] = next /\ request'[q].on \subseteq request[q].on
    BY <1>5, <1>11, SlotGoesOn
  <2>2. ~ToldAll(t, next)
    BY <1>4, <1>5 DEF ToldAll
  <2> QED
    BY <1>3, <1>4, <1>5, <1>7, <1>8, <1>9, <1>11, <2>1, <2>2, SlotMoves
<1> QED
  BY <1>3, <1>10, <1>11

LEMMA MovesFailed ==
    ASSUME TypeInv, ExplainInv, NEW i \in Incidents, Exists(i), NEW q \in Requests,
           RequestFails(q) \/ RecordOnTargetFails(q)
    PROVE  Moves(i)
<1>1. UNCHANGED <<row, history, born, overlapped>> /\ untold \subseteq untold'
  BY DEF RequestFails, RecordOnTargetFails, tables
<1>2. Exists(i)' /\ Grows(i) /\ Untouched(i)
  BY <1>1 DEF Exists, Grows, Untouched
<1>3. PICK t, s, r : t = request[q].id /\ s = request[q].source /\ r = request[q]
  OBVIOUS
<1>4. CASE RequestFails(q)
  <2>1. Ends(q) /\ r.pc # "idle" /\ untold' = untold \union ToTell(r)
    BY <1>3, <1>4 DEF RequestFails
  <2>2. /\ r.pc \in Changing \union Merging
        /\ r.pc \in Changing => r.on = {r.id}
        /\ r.pc \in Merging => r.on = {r.id, r.source}
    BY <1>3, <2>1, SlotShape DEF TypeInv, RequestsType, RequestType
  <2>3. i \in r.on /\ i \notin ToTell(r) => ToldAll(i, r)
    BY <2>2 DEF ToldAll, ToTell, Changing, Merging
  <2>4. Undisturbed(i)' => i \notin ToTell(r)
    BY <2>1 DEF Undisturbed
  <2> QED
    BY <1>1, <1>2, <1>3, <2>1, <2>3, <2>4, SlotEnds, SlotMoves
<1>5. CASE RecordOnTargetFails(q)
  <2>1. PICK next : next = [r EXCEPT !.pc = "told"]
    OBVIOUS
  <2>2. /\ request[q].pc = "merged" /\ untold' = untold \union {t}
        /\ request' = [request EXCEPT ![q] = next]
    BY <1>3, <1>5, <2>1 DEF RecordOnTargetFails, Goes
  <2>3. request[q].on = {t, s} /\ s # t /\ r \in RequestType
    BY <1>3, <2>2, SlotShape DEF Merging, TypeInv, RequestsType
  <2>4. next.pc = "told" /\ next.on = request[q].on /\ next.id = t /\ next.source = s
    BY <1>3, <2>1, <2>3 DEF RequestType
  <2>5. Others(q) /\ request'[q] = next /\ request'[q].on \subseteq request[q].on
    BY <2>2, <2>4, SlotGoesOn
  <2>6. ~ToldAll(s, next) /\ (i = t => ~Undisturbed(i)')
    BY <2>2, <2>3, <2>4 DEF ToldAll, Undisturbed
  <2> QED
    BY <1>1, <1>2, <2>3, <2>4, <2>5, <2>6, SlotMoves DEF Untouched
<1> QED
  BY <1>4, <1>5

LEMMA MovesRead ==
    ASSUME NEW i \in Incidents, Exists(i), UNCHANGED <<tables, request, born, overlapped, untold>>
    PROVE  Moves(i)
BY DEF Moves, Grows, Exists, Undisturbed, Pends, ToldAll, tables
LEMMA EveryMove ==
    ASSUME TypeInv, ExplainInv, [Next]_vars, NEW i \in Incidents, Exists(i)
    PROVE  Moves(i)
<1>1. ASSUME NEW q \in Requests, NEW j \in Incidents,
             \/ \E c \in Reports : Create(q, j, c) \/ CreateAgentKBEntry(q, j, c)
             \/ \E w \in Edits : ReadForEdit(q, j, w)
             \/ Delete(q, j)
             \/ \E s \in Incidents : ReadTarget(q, j, s)
      PROVE  Moves(i)
  BY <1>1, MovesTaken
<1>2. ASSUME NEW q \in Requests,
             RecordCreation(q) \/ RecordEdit(q) \/ RecordArchiving(q) \/ RecordOnTarget(q) \/ RecordOnSource(q)
      PROVE  Moves(i)
  BY <1>2, MovesRecorded, MovesRecordedOnTarget
<1>3. ASSUME NEW q \in Requests, WriteEdit(q) \/ ReadSource(q) \/ WriteTarget(q) \/ MarkSource(q)
      PROVE  Moves(i)
  BY <1>3, MovesWritten, MovesMarked
<1>4. ASSUME NEW q \in Requests, RequestFails(q) \/ RecordOnTargetFails(q) PROVE Moves(i)
  BY <1>4, MovesFailed
<1>5. ASSUME (\E j \in Incidents : Get(j)) \/ ListHistory \/ Answered \/ UNCHANGED vars PROVE Moves(i)
  <2>1. UNCHANGED <<tables, request, born, overlapped, untold>>
    BY <1>5 DEF Get, ListHistory, Answered, vars
  <2> QED
    BY <2>1, MovesRead
<1> QED
  BY <1>1, <1>2, <1>3, <1>4, <1>5 DEF Next

-----------------------------------------------------------------------------
(* GET of an incident: what it answers.                                    *)

LEMMA ReverseTwice ==
    ASSUME NEW S, NEW s \in Seq(S)
    PROVE  /\ Reverse(s) \in Seq(S) /\ Len(Reverse(s)) = Len(s)
           /\ Reverse(Reverse(s)) = s
<1>1. /\ Reverse(s) = [k \in 1 .. Len(s) |-> s[(Len(s) - k) + 1]]
      /\ Len(s) \in Nat
  BY DEF Reverse
<1>2. \A k \in 1 .. Len(s) : (Len(s) - k) + 1 \in 1 .. Len(s) /\ s[(Len(s) - k) + 1] \in S
  BY <1>1
<1>3. Reverse(s) \in Seq(S) /\ Len(Reverse(s)) = Len(s)
  BY <1>1, <1>2
<1>4. Reverse(Reverse(s)) = [k \in 1 .. Len(s) |-> Reverse(s)[(Len(s) - k) + 1]]
  BY <1>3 DEF Reverse
<1>5. ASSUME NEW k \in 1 .. Len(s) PROVE Reverse(s)[(Len(s) - k) + 1] = s[k]
  <2>1. Len(s) - ((Len(s) - k) + 1) + 1 = k
    BY <1>1
  <2> QED
    BY <1>1, <1>2, <2>1
<1>6. Reverse(Reverse(s)) = [k \in 1 .. Len(s) |-> s[k]]
  BY <1>4, <1>5
<1>7. s = [k \in 1 .. Len(s) |-> s[k]]
  OBVIOUS
<1> QED
  BY <1>3, <1>6, <1>7

\* The entries of a GET, oldest first: those there are until it has read them.
Entries == IF detail.pc = "history" THEN history[detail.id] ELSE Reverse(detail.history)

\* The first n entries of h lead to r, or with the next one they do.
LeadsTo(i, h, n, r) ==
    \/ n <= Len(h) /\ Explains(i, h, n, r)
    \/ n + 1 <= Len(h) /\ Explains(i, h, n + 1, r)

\* The change of the row that was read has no entry yet.
Awaits(i, n, r) == Len(history[i]) = n /\ row[i] = r /\ Pends(i)

DetailInv ==
    detail.pc \in {"history", "answered"} =>
      /\ detail.id \in Incidents /\ Exists(detail.id) /\ detail.row \in Row
      /\ Entries \in Seq(Entry) /\ detail.seen \in Nat
      /\ detail.seen <= Len(history[detail.id])
      /\ Undisturbed(detail.id) =>
           \/ LeadsTo(detail.id, Entries, detail.seen, detail.row)
           \/ /\ Len(Entries) = detail.seen
              /\ \/ Awaits(detail.id, detail.seen, detail.row)
                 \/ detail.pc = "answered" /\ Len(history[detail.id]) > detail.seen

\* When no change of it waits, the history leads to the row.
LEMMA NothingPends ==
    ASSUME TypeInv, ExplainInv, NEW i \in Incidents, Exists(i), Undisturbed(i), ~Pends(i)
    PROVE  Explains(i, history[i], Len(history[i]), row[i])
<1>1. Fits(i)
  BY DEF ExplainInv, FitsInv
<1>2. SaysRow(i, row[i])
  BY <1>1 DEF Fits, WorkedOn, Pends, Explained
<1>3. DOMAIN row[i] = RowColumns
  BY RowsHaveColumns DEF TypeInv, TablesType, Exists
<1> QED
  BY <1>2, <1>3 DEF SaysRow, Says, Explains, Latest

LEMMA ExplainsLonger ==
    ASSUME NEW i, NEW h \in Seq(Entry), NEW e \in Entry, NEW k \in 0 .. Len(h), NEW r
    PROVE  Explains(i, h, k, r) => Explains(i, Append(h, e), k, r)
<1>1. Told(i, born[i], Append(h, e))[k] = Told(i, born[i], h)[k]
  BY ToldAppend
<1> DEFINE g == Append(h, e)
<1>2. \A j \in 1 .. k : g[j] = h[j]
  OBVIOUS
<1>3. Told(i, born[i], g)[k] = Told(i, born[i], h)[k]
  BY <1>1
<1> HIDE DEF g
<1>4. ASSUME NEW c, MergedOver(c, h, k) PROVE MergedOver(c, g, k)
  BY <1>2, <1>4 DEF MergedOver
<1>5. Explains(i, h, k, r) => Explains(i, g, k, r)
  BY <1>3, <1>4 DEF Explains
<1> QED
  BY <1>5 DEF g

\* Entries that come later, and those of other incidents, do not matter.
LEMMA LeadsToStays ==
    ASSUME NEW i, NEW h \in Seq(Entry), NEW n \in Nat, NEW r, LeadsTo(i, h, n, r), born'[i] = born[i],
           NEW g, g = h \/ \E e \in Entry : g = Append(h, e)
    PROVE  LeadsTo(i, g, n, r)'
<1>1. LeadsTo(i, g, n, r)
  <2>1. CASE g = h
    BY <2>1
  <2>2. ASSUME NEW e \in Entry, g = Append(h, e) PROVE LeadsTo(i, g, n, r)
    <3>1. Len(g) = Len(h) + 1 /\ Len(h) \in Nat
      BY <2>2
    <3>2. ASSUME n <= Len(h), Explains(i, h, n, r) PROVE Explains(i, g, n, r)
      BY <2>2, <3>1, <3>2, ExplainsLonger
    <3>3. ASSUME n + 1 <= Len(h), Explains(i, h, n + 1, r) PROVE Explains(i, g, n + 1, r)
      BY <2>2, <3>1, <3>3, ExplainsLonger
    <3> QED
      BY <3>1, <3>2, <3>3 DEF LeadsTo
  <2> QED
    BY <2>1, <2>2
<1> QED
  BY <1>1 DEF LeadsTo, Explains

\* The row and its entries.
LEMMA DetailGet ==
    ASSUME TypeInv, ExplainInv, NEW i \in Incidents, Get(i)
    PROVE  DetailInv'
<1> DEFINE d == [NoDetail EXCEPT !.pc = "history", !.id = i, !.row = row[i], !.seen = Len(history[i])]
<1>1. /\ detail' = d /\ Exists(i)
      /\ UNCHANGED <<row, history, request, born, overlapped, untold>>
  BY DEF Get, tables
<1>2. /\ d.pc = "history" /\ d.id = i /\ d.row = row[i] /\ d.seen = Len(history[i])
  BY DEF NoDetail
<1> HIDE DEF d
<1>3. row[i] \in Row /\ history[i] \in Seq(Entry) /\ Len(history[i]) \in Nat
  BY <1>1 DEF TypeInv, TablesType, Exists
<1>4. Entries' = history[i] /\ Exists(i)'
  BY <1>1, <1>2 DEF Entries, Exists
<1>5. ASSUME Undisturbed(i)'
      PROVE  \/ LeadsTo(i, history[i], Len(history[i]), row[i])'
             \/ Awaits(i, Len(history[i]), row[i])'
  <2>1. Undisturbed(i)
    BY <1>1, <1>5 DEF Undisturbed
  <2>2. CASE Pends(i)
    <3>1. Pends(i)'
      BY <1>1, <2>2 DEF Pends, ToldAll
    <3> QED
      BY <1>1, <3>1 DEF Awaits
  <2>3. CASE ~Pends(i)
    <3>1. Explains(i, history[i], Len(history[i]), row[i])
      BY <1>1, <2>1, <2>3, NothingPends
    <3> QED
      BY <1>1, <1>3, <3>1 DEF LeadsTo, Explains
  <2> QED
    BY <2>2, <2>3
<1> QED
  BY <1>1, <1>2, <1>3, <1>4, <1>5 DEF DetailInv
\* NothingPends, of the next state.
NothingPendingExplains ==
    \A i \in Incidents :
      TypeInv /\ ExplainInv /\ Exists(i) /\ Undisturbed(i) /\ ~Pends(i) =>
        Explains(i, history[i], Len(history[i]), row[i])

LEMMA NothingPendsNext == NothingPendingExplains'
<1>1. NothingPendingExplains
  BY NothingPends DEF NothingPendingExplains
<1> QED
  BY <1>1, PTL

\* Requests go on between the two statements of a GET, and after them.
LEMMA DetailWaits ==
    ASSUME TypeInv, ExplainInv, DetailInv, [Next]_vars, TypeInv', ExplainInv', UNCHANGED detail
    PROVE  DetailInv'
<1> SUFFICES ASSUME detail.pc \in {"history", "answered"} PROVE DetailInv'
  BY DEF DetailInv
<1>1. PICK i, n, r, h, g : /\ i = detail.id /\ n = detail.seen /\ r = detail.row
                           /\ h = Entries /\ g = Entries'
  OBVIOUS
<1>2. /\ i \in Incidents /\ Exists(i) /\ r \in Row /\ h \in Seq(Entry)
      /\ n \in Nat /\ n <= Len(history[i])
  BY <1>1 DEF DetailInv
<1>3. Moves(i)
  BY <1>2, EveryMove
<1>4. /\ history[i] \in Seq(Entry) /\ Len(history[i]) \in Nat
      /\ \/ history'[i] = history[i]
         \/ \E e \in Entry : history'[i] = Append(history[i], e) /\ history'[i] # history[i]
                             /\ Len(history'[i]) = Len(history[i]) + 1
  BY <1>2, <1>3, AppendIsLonger DEF Moves, Grows, TypeInv, TablesType
<1>5. /\ detail.pc = "history" => h = history[i] /\ g = history'[i]
      /\ detail.pc = "answered" => g = h
  BY <1>1 DEF Entries
<1>6. g = h \/ \E e \in Entry : g = Append(h, e)
  BY <1>4, <1>5
<1>7. g \in Seq(Entry)
  BY <1>2, <1>6
<1>8. n <= Len(history'[i]) /\ (Len(history[i]) > n => Len(history'[i]) > n)
  BY <1>2, <1>4
<1>9. ASSUME Undisturbed(i)'
      PROVE  \/ LeadsTo(i, g, n, r)'
             \/ /\ Len(g) = n
                /\ Awaits(i, n, r)' \/ (detail.pc = "answered" /\ Len(history'[i]) > n)
  <2>1. Undisturbed(i)
    BY <1>3, <1>9 DEF Moves
  <2>2. \/ LeadsTo(i, h, n, r)
        \/ Len(h) = n /\ Awaits(i, n, r)
        \/ Len(h) = n /\ detail.pc = "answered" /\ Len(history[i]) > n
    BY <1>1, <2>1 DEF DetailInv
  <2>3. CASE LeadsTo(i, h, n, r)
    <3>1. LeadsTo(i, g, n, r)'
      BY <1>2, <1>3, <1>6, <2>3, LeadsToStays DEF Moves
    <3> QED
      BY <3>1
  <2>4. CASE Len(h) = n /\ Awaits(i, n, r)
    <3>1. /\ row'[i] = r /\ Len(history[i]) = n
          /\ history'[i] = history[i] => Pends(i)'
          /\ history'[i] # history[i] => ~Pends(i)'
      BY <1>3, <1>9, <2>4 DEF Awaits, Moves
    <3>2. CASE history'[i] = history[i]
      <4>1. Awaits(i, n, r)'
        BY <3>1, <3>2 DEF Awaits
      <4>2. g = h
        BY <1>5, <3>2
      <4> QED
        BY <2>4, <4>1, <4>2
    <3>3. CASE history'[i] # history[i]
      <4>1. Len(history'[i]) = n + 1
        BY <1>4, <3>1, <3>3
      <4>2. CASE detail.pc = "answered"
        BY <1>2, <1>5, <2>4, <4>1, <4>2
      <4>3. CASE detail.pc = "history"
        <5>1. Exists(i)' /\ ~Pends(i)'
          BY <1>3, <3>1, <3>3 DEF Moves
        <5>2. Explains(i, history[i], Len(history[i]), row[i])'
          BY <1>2, <1>9, <5>1, NothingPendsNext DEF NothingPendingExplains
        <5>3. Explains(i, g, n + 1, r)'
          BY <1>5, <3>1, <4>1, <4>3, <5>2 DEF Explains
        <5> QED
          BY <1>2, <1>5, <4>1, <4>3, <5>3 DEF LeadsTo
      <4> QED
        BY <4>2, <4>3
    <3> QED
      BY <3>2, <3>3
  <2>5. CASE Len(h) = n /\ detail.pc = "answered" /\ Len(history[i]) > n
    BY <1>5, <1>8, <2>5
  <2> QED
    BY <2>2, <2>3, <2>4, <2>5
<1>10. Exists(i)'
  BY <1>3 DEF Moves
<1> QED
  BY <1>1, <1>2, <1>7, <1>8, <1>9, <1>10 DEF DetailInv, LeadsTo, Explains, Awaits, Exists, Undisturbed

LEMMA DetailListHistory ==
    ASSUME TypeInv, RestType, DetailInv, ListHistory
    PROVE  DetailInv'
<1> DEFINE d == [detail EXCEPT !.pc = "answered", !.history = NewestFirst(history[detail.id])]
<1>1. /\ detail.pc = "history" /\ detail' = d
      /\ UNCHANGED <<row, history, request, born, overlapped, untold>>
  BY DEF ListHistory, tables
<1>2. DOMAIN detail = {"pc", "id", "row", "seen", "history"}
  BY DEF RestType, NoDetail
<1>3. /\ d.pc = "answered" /\ d.id = detail.id /\ d.row = detail.row /\ d.seen = detail.seen
      /\ d.history = Reverse(history[detail.id])
  BY <1>2 DEF NewestFirst
<1> HIDE DEF d
<1>4. PICK i, n, r, h : i = detail.id /\ n = detail.seen /\ r = detail.row /\ h = Entries
  OBVIOUS
<1>5. /\ i \in Incidents /\ Exists(i) /\ r \in Row /\ h \in Seq(Entry)
      /\ n \in Nat /\ n <= Len(history[i]) /\ h = history[i]
      /\ Undisturbed(i) => LeadsTo(i, h, n, r) \/ (Len(h) = n /\ Awaits(i, n, r))
  BY <1>1, <1>4 DEF DetailInv, Entries
<1>6. Entries' = h
  BY <1>1, <1>3, <1>4, <1>5, ReverseTwice DEF Entries
<1>7. Exists(i)' /\ (Undisturbed(i)' => Undisturbed(i))
  BY <1>1, <1>5 DEF Exists, Undisturbed
<1>8. /\ LeadsTo(i, h, n, r) => LeadsTo(i, h, n, r)'
      /\ Awaits(i, n, r) => Awaits(i, n, r)'
  BY <1>1 DEF LeadsTo, Explains, Awaits, Pends, ToldAll
<1>9. Undisturbed(i)' => LeadsTo(i, h, n, r)' \/ (Len(h) = n /\ Awaits(i, n, r)')
  BY <1>5, <1>7, <1>8
<1>10. /\ detail'.pc = "answered" /\ detail'.id = i /\ detail'.row = r /\ detail'.seen = n
       /\ history'[i] = history[i]
  BY <1>1, <1>3, <1>4
<1> QED
  BY <1>5, <1>6, <1>7, <1>9, <1>10 DEF DetailInv, LeadsTo, Explains, Awaits, Exists, Undisturbed

LEMMA DetailStep ==
    TypeInv /\ RestType /\ ExplainInv /\ DetailInv /\ TypeInv' /\ ExplainInv' /\ [Next]_vars => DetailInv'
<1> SUFFICES ASSUME TypeInv, RestType, ExplainInv, DetailInv, TypeInv', ExplainInv', [Next]_vars
             PROVE  DetailInv'
  OBVIOUS
<1>1. CASE UNCHANGED detail
  BY <1>1, DetailWaits
<1>2. CASE \E i \in Incidents : Get(i)
  BY <1>2, DetailGet
<1>3. CASE ListHistory
  BY <1>3, DetailListHistory
<1>4. CASE Answered
  BY <1>4 DEF Answered, NoDetail, DetailInv
<1>5. \/ UNCHANGED detail
      \/ \E i \in Incidents : Get(i)
      \/ ListHistory \/ Answered
  BY DEF Next, vars, Create, CreateAgentKBEntry, ReadForEdit, Delete, ReadTarget, RecordCreation, WriteEdit,
         RecordEdit, RecordArchiving, ReadSource, WriteTarget, MarkSource, RecordOnTarget, RecordOnSource,
         RequestFails, RecordOnTargetFails
<1> QED
  BY <1>1, <1>2, <1>3, <1>4, <1>5

(***************************************************************************)
(* GET of an incident reads the row and then the history, while changes go *)
(* on.  What it answers still fits: the entries lead to the row, or with   *)
(* the one that came in between they do, and only the entry of a change    *)
(* that was still being recorded when the history was read is missing.     *)
(***************************************************************************)
THEOREM DetailIsExplainedCorrect == Spec => []DetailIsExplained
<1>1. Init => TypeInv /\ RestType /\ ExplainInv /\ DetailInv
  <2>1. Init => DetailInv
    BY DEF Init, DetailInv, NoDetail
  <2> QED
    BY <2>1, TypeInit, RestInit, ExplainInit
<1>2. TypeInv /\ RestType /\ ExplainInv /\ DetailInv /\ [Next]_vars =>
        (TypeInv /\ RestType /\ ExplainInv /\ DetailInv)'
  BY TypeStep, RestStep, ExplainStep, DetailStep
<1>3. DetailInv => DetailIsExplained
  <2> SUFFICES ASSUME DetailInv, detail.pc = "answered", Undisturbed(detail.id)
               PROVE  LET h == Reverse(detail.history)
                      IN \/ \E k \in {detail.seen, detail.seen + 1} \cap 0 .. Len(h) :
                              Explains(detail.id, h, k, detail.row)
                         \/ /\ Len(h) = detail.seen
                            /\ WorkedOn(detail.id) \/ Len(history[detail.id]) > detail.seen
    BY DEF DetailIsExplained
  <2>1. PICK i, n, r, h : /\ i = detail.id /\ n = detail.seen /\ r = detail.row
                          /\ h = Reverse(detail.history)
    OBVIOUS
  <2>2. h = Entries /\ h \in Seq(Entry) /\ n \in Nat
    BY <2>1 DEF DetailInv, Entries
  <2>3. Len(h) \in Nat
    BY <2>2
  <2>4. \/ LeadsTo(i, h, n, r)
        \/ Len(h) = n /\ (Awaits(i, n, r) \/ Len(history[i]) > n)
    BY <2>1, <2>2 DEF DetailInv
  <2>5. CASE LeadsTo(i, h, n, r)
    <3>1. \E k \in {n, n + 1} \cap 0 .. Len(h) : Explains(i, h, k, r)
      BY <2>2, <2>3, <2>5 DEF LeadsTo
    <3> QED
      BY <2>1, <3>1
  <2>6. CASE Len(h) = n /\ (Awaits(i, n, r) \/ Len(history[i]) > n)
    <3>1. WorkedOn(i) \/ Len(history[i]) > n
      BY <2>6 DEF Awaits, Pends, WorkedOn
    <3> QED
      BY <2>1, <2>6, <3>1
  <2> QED
    BY <2>4, <2>5, <2>6
<1> QED
  BY <1>1, <1>2, <1>3, PTL DEF Spec
=============================================================================
