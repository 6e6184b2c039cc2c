----------------------- MODULE AlertLifecycle_proofs -----------------------
(***************************************************************************)
(* Proofs about AlertLifecycle, for every number of alerts, fingerprints   *)
(* and webhook requests handled at once: among them that it implements     *)
(* AlertLedger, whatever fails.                                            *)
(***************************************************************************)
EXTENDS AlertLifecycle, TLAPS

\* A slot that is busy is busy with a notification ...
BusyHasItem == \A r \in Requests : pc[r] # "idle" => item[r] \in Notification

\* ... and one that has decided on an alert has one.
HolderHasTarget == \A r \in Requests : Holds(r) => target[r] \in Alerts

TypeInv == TypeOK /\ BusyHasItem /\ HolderHasTarget

LEMMA NotificationFields ==
    ASSUME NEW n \in Notification
    PROVE  /\ n.fp \in Fingerprints
           /\ n.status \in {"firing", "resolved"}
           /\ n # None
BY ConstantsAssumption DEF Notification

LEMMA FirstStepIsAStep ==
    ASSUME NEW n \in Notification
    PROVE  FirstStep(n) \in {"redis_get", "resolve_fp", "create_unchecked"}
BY NotificationFields DEF FirstStep

LEMMA TypeInit == Init => TypeInv
<1> SUFFICES ASSUME Init PROVE TypeInv
  OBVIOUS
<1>1. TypeOK
  BY ConstantsAssumption DEF Init, TypeOK, Steps
<1>2. BusyHasItem /\ HolderHasTarget
  BY DEF Init, BusyHasItem, HolderHasTarget, Holds
<1> QED
  BY <1>1, <1>2 DEF TypeInv

LEMMA TypeStep == TypeInv /\ [Next]_vars => TypeInv'
<1> SUFFICES ASSUME TypeInv, [Next]_vars PROVE TypeInv'
  OBVIOUS
<1> USE ConstantsAssumption, NotificationFields
<1> USE DEF TypeInv, TypeOK, BusyHasItem, HolderHasTarget, Holds, Steps, Goto, Finish,
            rows, redis, slots, history
<1>1. ASSUME NEW r \in Requests, NEW n \in Notification, Receive(r, n) PROVE TypeInv'
  BY <1>1, FirstStepIsAStep DEF Receive
<1>2. ASSUME NEW r \in Requests, Work(r) PROVE TypeInv'
  <2>1. CASE RedisHit(r)
    BY <2>1 DEF RedisHit
  <2>2. CASE RedisMiss(r)
    BY <2>2 DEF RedisMiss
  <2>3. CASE RedisGetFails(r)
    BY <2>3 DEF RedisGetFails
  <2>4. CASE LookupFindsOpen(r)
    BY <2>4 DEF LookupFindsOpen, Open
  <2>5. CASE LookupFindsNone(r)
    BY <2>5 DEF LookupFindsNone
  <2>6. CASE LookupFails(r)
    BY <2>6 DEF LookupFails
  <2>7. CASE WarmCache(r)
    BY <2>7 DEF WarmCache, CacheSetMayFail, CacheSet
  <2>8. CASE Increment(r)
    BY <2>8 DEF Increment
  <2>9. CASE IncrementFails(r)
    BY <2>9 DEF IncrementFails
  <2>10. CASE Create(r)
    BY <2>10 DEF Create, Creating, Free
  <2>11. CASE CreateFails(r)
    BY <2>11 DEF CreateFails, Creating
  <2>12. CASE RecordNew(r)
    BY <2>12 DEF RecordNew, CacheSetMayFail, CacheSet
  <2>13. CASE AgentResolve(r)
    BY <2>13 DEF AgentResolve, SetResolved
  <2>14. CASE AgentResolveFails(r)
    BY <2>14 DEF AgentResolveFails
  <2>15. CASE ResolveByFingerprint(r)
    BY <2>15 DEF ResolveByFingerprint, SetResolved, Open
  <2>16. CASE ResolveByFingerprintFails(r)
    BY <2>16 DEF ResolveByFingerprintFails
  <2> QED
    BY <1>2, <2>1, <2>2, <2>3, <2>4, <2>5, <2>6, <2>7, <2>8, <2>9, <2>10,
       <2>11, <2>12, <2>13, <2>14, <2>15, <2>16 DEF Work
<1>3. ASSUME NEW a \in Alerts, People(a) PROVE TypeInv'
  <2>1. CASE Acknowledge(a)
    BY <2>1 DEF Acknowledge, AckStatement
  <2>2. CASE Resolve(a)
    BY <2>2 DEF Resolve, SetResolved
  <2>3. CASE ChatAckRead(a)
    BY <2>3 DEF ChatAckRead
  <2>4. CASE ChatAckUpdate(a)
    BY <2>4 DEF ChatAckUpdate, AckStatement
  <2>5. CASE ChatAckFails(a)
    BY <2>5 DEF ChatAckFails
  <2> QED
    BY <1>3, <2>1, <2>2, <2>3, <2>4, <2>5 DEF People
<1>4. CASE Tick
  BY <1>4 DEF Tick
<1>5. CASE Crash
  BY <1>5 DEF Crash
<1>6. CASE UNCHANGED vars
  BY <1>6 DEF vars
<1> QED
  BY <1>1, <1>2, <1>3, <1>4, <1>5, <1>6 DEF Next

(***************************************************************************)
(* Every column, key and slot holds a value of its type, however requests, *)
(* people, expiry and failures interleave: in particular no occurrence     *)
(* count passes the largest value of its column (webhook.go, dedup.go).    *)
(***************************************************************************)
THEOREM TypeCorrect == Spec => []TypeOK
<1>1. TypeInv => TypeOK
  BY DEF TypeInv
<1> QED
  BY <1>1, TypeInit, TypeStep, PTL DEF Spec

-----------------------------------------------------------------------------
(* DedupNamesOwnFingerprint is inductive relative to TypeInv.              *)

LEMMA DedupInit == Init => DedupNamesOwnFingerprint
BY DEF Init, DedupNamesOwnFingerprint, Holds

LEMMA DedupStep ==
    TypeInv /\ DedupNamesOwnFingerprint /\ [Next]_vars => DedupNamesOwnFingerprint'
<1> SUFFICES ASSUME TypeInv, DedupNamesOwnFingerprint, [Next]_vars
             PROVE  DedupNamesOwnFingerprint'
  OBVIOUS
<1> USE ConstantsAssumption, NotificationFields
<1> USE DEF TypeInv, TypeOK, BusyHasItem, HolderHasTarget, DedupNamesOwnFingerprint, Holds,
            Steps, Goto, Finish, rows, redis, slots, history
\* Steps that leave fingerprints, keys, targets and the absence of rows alone.
<1>1. ASSUME NEW r \in Requests, NEW n \in Notification, Receive(r, n)
      PROVE  DedupNamesOwnFingerprint'
  BY <1>1, FirstStepIsAStep DEF Receive
<1>2. ASSUME NEW r \in Requests, Work(r) PROVE DedupNamesOwnFingerprint'
  \* What a slot takes over from Redis or from the database has its fingerprint.
  <2>1. CASE RedisHit(r)
    BY <2>1 DEF RedisHit
  <2>2. CASE RedisMiss(r) \/ RedisGetFails(r)
    BY <2>2 DEF RedisMiss, RedisGetFails
  <2>3. CASE LookupFindsOpen(r)
    BY <2>3 DEF LookupFindsOpen, Open, IsOpen
  <2>4. CASE LookupFindsNone(r) \/ LookupFails(r)
    BY <2>4 DEF LookupFindsNone, LookupFails
  <2>5. CASE WarmCache(r)
    BY <2>5 DEF WarmCache, CacheSetMayFail, CacheSet
  <2>6. CASE Increment(r) \/ IncrementFails(r)
    BY <2>6 DEF Increment, IncrementFails
  \* A new row was absent, so no key and no target of another slot names it.
  <2>7. CASE Create(r)
    <3>1. PICK a \in Free :
            /\ status' = [status EXCEPT ![a] = item[r].status]
            /\ fpOf' = [fpOf EXCEPT ![a] = item[r].fp]
            /\ target' = [target EXCEPT ![r] = a]
      BY <2>7 DEF Create
    <3>2. a \in Alerts /\ status[a] = "absent" /\ status'[a] # "absent" /\ fpOf'[a] = item[r].fp
      BY <2>7, <3>1 DEF Create, Creating, Free
    <3>3. \A b \in Alerts \ {a} : status'[b] = status[b] /\ fpOf'[b] = fpOf[b]
      BY <3>1
    <3>4. ASSUME NEW f \in Fingerprints, cache'[f] # None
          PROVE  status'[cache'[f]] # "absent" /\ fpOf'[cache'[f]] = f
      BY <2>7, <3>2, <3>3, <3>4 DEF Create
    <3>5. ASSUME NEW q \in Requests, Holds(q)'
          PROVE  status'[target'[q]] # "absent" /\ fpOf'[target'[q]] = item'[q].fp
      BY <2>7, <3>1, <3>2, <3>3, <3>5 DEF Create
    <3> QED
      BY <3>4, <3>5
  <2>8. CASE CreateFails(r)
    BY <2>8 DEF CreateFails, Creating
  <2>9. CASE RecordNew(r)
    BY <2>9 DEF RecordNew, CacheSetMayFail, CacheSet
  <2>10. CASE AgentResolve(r)
    BY <2>10 DEF AgentResolve, SetResolved
  <2>11. CASE ResolveByFingerprint(r)
    BY <2>11 DEF ResolveByFingerprint, SetResolved, Open
  <2>12. CASE AgentResolveFails(r) \/ ResolveByFingerprintFails(r)
    BY <2>12 DEF AgentResolveFails, ResolveByFingerprintFails
  <2> QED
    BY <1>2, <2>1, <2>2, <2>3, <2>4, <2>5, <2>6, <2>7, <2>8, <2>9, <2>10, <2>11, <2>12
    DEF Work
<1>3. ASSUME NEW a \in Alerts, People(a) PROVE DedupNamesOwnFingerprint'
  <2>1. CASE Acknowledge(a)
    BY <2>1 DEF Acknowledge, AckStatement
  <2>2. CASE Resolve(a)
    BY <2>2 DEF Resolve, SetResolved
  <2>3. CASE ChatAckRead(a) \/ ChatAckFails(a)
    BY <2>3 DEF ChatAckRead, ChatAckFails
  <2>4. CASE ChatAckUpdate(a)
    BY <2>4 DEF ChatAckUpdate, AckStatement
  <2> QED
    BY <1>3, <2>1, <2>2, <2>3, <2>4 DEF People
<1>4. CASE Tick
  BY <1>4 DEF Tick
<1>5. CASE Crash
  BY <1>5 DEF Crash
<1>6. CASE UNCHANGED vars
  BY <1>6 DEF vars
<1> QED
  BY <1>1, <1>2, <1>3, <1>4, <1>5, <1>6 DEF Next

(***************************************************************************)
(* A dedup key in Redis and the alert a request counts on name an existing *)
(* row of the very fingerprint, for every number of alerts and requests    *)
(* and whatever fails (dedup.go, Check; webhook.go, createOrDedup).        *)
(***************************************************************************)
THEOREM DedupCorrect == Spec => []DedupNamesOwnFingerprint
BY TypeInit, TypeStep, DedupInit, DedupStep, PTL DEF Spec

-----------------------------------------------------------------------------
(***************************************************************************)
(* OneOpenAlertPerSlot needs to know what a slot about to insert a firing  *)
(* row found out: it has no open row of the fingerprint already.  That     *)
(* stays true although people act on the rows meanwhile, because only an   *)
(* alert that was resolved before can open again, and those are closed; a  *)
(* chat handler's pending acknowledgement is of a row that exists.         *)
(***************************************************************************)
ResolvedIsClosed == \A a \in Alerts : status[a] = "resolved" => a \in closed

AboutToInsert(r) == pc[r] = "create"

InsertsItsFirst ==
    \A r \in Requests, a \in Alerts :
        AboutToInsert(r) /\ fpOf[a] = item[r].fp /\ a \in NeverClosed(fpOf[a]) => by[a] # r

PendingExists == \A a \in ackPending : status[a] # "absent"

OpenInv == OneOpenAlertPerSlot /\ ResolvedIsClosed /\ InsertsItsFirst /\ PendingExists

LEMMA OpenInit == Init => OpenInv
BY ConstantsAssumption DEF Init, OpenInv, OneOpenAlertPerSlot, ResolvedIsClosed, InsertsItsFirst,
   PendingExists, AboutToInsert, NeverClosed, Open, IsOpen

\* A step opens no row, reopens closed ones at most, and sends no slot to its insert.
LEMMA NoNewOpenAlert ==
    ASSUME TypeInv, OpenInv,
           \A a \in Alerts : fpOf'[a] = fpOf[a] /\ by'[a] = by[a],
           \A a \in Alerts : status'[a] = "absent" <=> status[a] = "absent",
           closed \subseteq closed',
           ResolvedIsClosed',
           \A a \in ackPending' : a \in ackPending \/ (a \in Alerts /\ status[a] # "absent"),
           \A r \in Requests : AboutToInsert(r)' => AboutToInsert(r) /\ item'[r] = item[r]
    PROVE  OpenInv'
<1>1. \A a \in Alerts : a \in NeverClosed(fpOf[a])' => a \in NeverClosed(fpOf[a])
  BY DEF TypeInv, TypeOK, OpenInv, ResolvedIsClosed, NeverClosed, Open, IsOpen
<1>2. OneOpenAlertPerSlot'
  <2> SUFFICES ASSUME NEW a \in Alerts, NEW b \in Alerts, a # b, fpOf'[a] = fpOf'[b],
                      a \in NeverClosed(fpOf[a])', b \in NeverClosed(fpOf[b])',
                      by'[a] # None
               PROVE  by'[a] # by'[b]
    BY DEF OneOpenAlertPerSlot
  <2> QED
    BY <1>1 DEF OpenInv, OneOpenAlertPerSlot
<1>3. InsertsItsFirst'
  <2> SUFFICES ASSUME NEW r \in Requests, NEW a \in Alerts, AboutToInsert(r)',
                      fpOf'[a] = item'[r].fp, a \in NeverClosed(fpOf[a])'
               PROVE  by'[a] # r
    BY DEF InsertsItsFirst
  <2> QED
    BY <1>1 DEF OpenInv, InsertsItsFirst
<1>4. PendingExists'
  BY DEF TypeInv, TypeOK, OpenInv, PendingExists
<1> QED
  BY <1>2, <1>3, <1>4 DEF OpenInv

LEMMA OpenStep ==
    TypeInv /\ DedupNamesOwnFingerprint /\ OpenInv /\ [Next]_vars => OpenInv'
<1> SUFFICES ASSUME TypeInv, DedupNamesOwnFingerprint, OpenInv, [Next]_vars PROVE OpenInv'
  OBVIOUS
<1> USE ConstantsAssumption, NotificationFields
<1> USE DEF TypeInv, TypeOK, BusyHasItem, HolderHasTarget, ResolvedIsClosed, PendingExists,
            AboutToInsert, Holds, Steps, Goto, Finish, rows, redis, slots, history
<1>r. ResolvedIsClosed /\ PendingExists
  BY DEF OpenInv
<1>1. ASSUME NEW r \in Requests, NEW n \in Notification, Receive(r, n) PROVE OpenInv'
  BY <1>1, <1>r, FirstStepIsAStep, NoNewOpenAlert DEF Receive
<1>2. ASSUME NEW r \in Requests, Work(r) PROVE OpenInv'
  <2>1. CASE RedisHit(r)
    BY <2>1, <1>r, NoNewOpenAlert DEF RedisHit
  <2>2. CASE RedisMiss(r) \/ RedisGetFails(r)
    BY <2>2, <1>r, NoNewOpenAlert DEF RedisMiss, RedisGetFails
  <2>3. CASE LookupFindsOpen(r)
    BY <2>3, <1>r, NoNewOpenAlert DEF LookupFindsOpen
  \* The lookup has just seen that there is no open row of the fingerprint.
  <2>4. CASE LookupFindsNone(r)
    <3>1. UNCHANGED <<status, fpOf, by, closed, item>>
      BY <2>4 DEF LookupFindsNone
    <3>2. \A q \in Requests : AboutToInsert(q)' /\ q # r => AboutToInsert(q)
      BY <2>4 DEF LookupFindsNone
    <3>3. \A a \in Alerts : a \in NeverClosed(fpOf[a]) => fpOf[a] # item[r].fp
      BY <2>4 DEF LookupFindsNone, NeverClosed
    <3>4. InsertsItsFirst'
      BY <3>1, <3>2, <3>3 DEF OpenInv, InsertsItsFirst, NeverClosed, Open, IsOpen
    <3>5. OneOpenAlertPerSlot'
      BY <3>1 DEF OpenInv, OneOpenAlertPerSlot, NeverClosed, Open, IsOpen
    <3> QED
      BY <2>4, <3>1, <3>4, <3>5, <1>r DEF LookupFindsNone, OpenInv
  <2>5. CASE WarmCache(r)
    BY <2>5, <1>r, NoNewOpenAlert DEF WarmCache
  <2>6. CASE Increment(r) \/ IncrementFails(r)
    BY <2>6, <1>r, NoNewOpenAlert DEF Increment, IncrementFails
  \* The row it inserts is its only open one of the fingerprint that was never closed.
  <2>7. CASE Create(r)
    <3>1. PICK a \in Free :
            /\ status' = [status EXCEPT ![a] = item[r].status]
            /\ fpOf' = [fpOf EXCEPT ![a] = item[r].fp]
            /\ by' = [by EXCEPT ![a] = IF pc[r] = "create" THEN r ELSE None]
      BY <2>7 DEF Create
    <3>2. /\ a \in Alerts /\ status[a] = "absent"
          /\ fpOf'[a] = item[r].fp /\ status'[a] = item[r].status
          /\ by'[a] = IF AboutToInsert(r) THEN r ELSE None
      BY <3>1 DEF Free
    <3>3. \A b \in Alerts \ {a} :
            status'[b] = status[b] /\ fpOf'[b] = fpOf[b] /\ by'[b] = by[b]
      BY <3>1
    <3>4. closed' = IF item[r].status = "resolved" THEN closed \union {a} ELSE closed
      BY <2>7, <3>1, <3>2 DEF Create, Free
    <3>5. \A b \in Alerts \ {a} :
            b \in NeverClosed(fpOf[b])' => b \in NeverClosed(fpOf[b])
      BY <3>3, <3>4 DEF NeverClosed, Open, IsOpen
    <3>6. ResolvedIsClosed'
      BY <1>r, <3>2, <3>3, <3>4
    <3>7. OneOpenAlertPerSlot'
      <4> SUFFICES ASSUME NEW b \in Alerts, NEW c \in Alerts, b # c, fpOf'[b] = fpOf'[c],
                          b \in NeverClosed(fpOf[b])', c \in NeverClosed(fpOf[c])',
                          by'[b] # None
                   PROVE  by'[b] # by'[c]
        BY DEF OneOpenAlertPerSlot
      <4>1. CASE b # a /\ c # a
        BY <4>1, <3>3, <3>5 DEF OpenInv, OneOpenAlertPerSlot
      <4>2. CASE b = a
        BY <4>2, <3>2, <3>3, <3>5 DEF OpenInv, InsertsItsFirst
      <4>3. CASE c = a
        BY <4>3, <3>2, <3>3, <3>5 DEF OpenInv, InsertsItsFirst
      <4> QED
        BY <4>1, <4>2, <4>3
    <3>8. InsertsItsFirst'
      <4> SUFFICES ASSUME NEW q \in Requests, NEW b \in Alerts, AboutToInsert(q)',
                          fpOf'[b] = item'[q].fp, b \in NeverClosed(fpOf[b])'
                   PROVE  by'[b] # q
        BY DEF InsertsItsFirst
      <4>1. q # r /\ AboutToInsert(q) /\ item'[q] = item[q]
        BY <2>7 DEF Create
      <4> QED
        BY <4>1, <3>2, <3>3, <3>5 DEF OpenInv, InsertsItsFirst
    <3>9. PendingExists'
      BY <2>7, <1>r, <3>2, <3>3 DEF Create
    <3> QED
      BY <3>6, <3>7, <3>8, <3>9 DEF OpenInv
  <2>8. CASE CreateFails(r)
    BY <2>8, <1>r, NoNewOpenAlert DEF CreateFails, Creating
  <2>9. CASE RecordNew(r)
    BY <2>9, <1>r, NoNewOpenAlert DEF RecordNew
  <2>10. CASE AgentResolve(r)
    <3>1. status[target[r]] # "absent"
      BY <2>10 DEF AgentResolve, DedupNamesOwnFingerprint
    <3> QED
      BY <2>10, <3>1, <1>r, NoNewOpenAlert DEF AgentResolve, SetResolved
  <2>11. CASE ResolveByFingerprint(r)
    BY <2>11, <1>r, NoNewOpenAlert DEF ResolveByFingerprint, SetResolved, Open, IsOpen
  <2>12. CASE AgentResolveFails(r) \/ ResolveByFingerprintFails(r)
    BY <2>12, <1>r, NoNewOpenAlert DEF AgentResolveFails, ResolveByFingerprintFails
  <2>13. CASE LookupFails(r)
    BY <2>13, <1>r, NoNewOpenAlert DEF LookupFails
  <2> QED
    BY <1>2, <2>1, <2>2, <2>3, <2>4, <2>5, <2>6, <2>7, <2>8, <2>9, <2>10, <2>11, <2>12, <2>13
    DEF Work
<1>3. ASSUME NEW a \in Alerts, People(a) PROVE OpenInv'
  <2>1. CASE Acknowledge(a)
    BY <2>1, <1>r, NoNewOpenAlert DEF Acknowledge, AckStatement
  <2>2. CASE Resolve(a)
    BY <2>2, <1>r, NoNewOpenAlert DEF Resolve, SetResolved
  <2>3. CASE ChatAckRead(a) \/ ChatAckFails(a)
    BY <2>3, <1>r, NoNewOpenAlert DEF ChatAckRead, ChatAckFails
  <2>4. CASE ChatAckUpdate(a)
    BY <2>4, <1>r, NoNewOpenAlert DEF ChatAckUpdate, AckStatement
  <2> QED
    BY <1>3, <2>1, <2>2, <2>3, <2>4 DEF People
<1>4. CASE Tick
  BY <1>4, <1>r, NoNewOpenAlert DEF Tick
<1>5. CASE Crash
  BY <1>5, <1>r, NoNewOpenAlert DEF Crash
<1>6. CASE UNCHANGED vars
  BY <1>6, <1>r, NoNewOpenAlert DEF vars
<1> QED
  BY <1>1, <1>2, <1>3, <1>4, <1>5, <1>6 DEF Next

(***************************************************************************)
(* A slot whose lookup answers never inserts a second open alert of a      *)
(* fingerprint beside its first: duplicates need requests that overlap, or *)
(* a lookup that fails (webhook.go, createOrDedup).                        *)
(***************************************************************************)
THEOREM OneOpenAlertPerSlotCorrect == Spec => []OneOpenAlertPerSlot
<1>1. OpenInv => OneOpenAlertPerSlot
  BY DEF OpenInv
<1> QED
  BY <1>1, TypeInit, TypeStep, DedupInit, DedupStep, OpenInit, OpenStep, PTL DEF Spec

-----------------------------------------------------------------------------
(* AlertLifecycle implements AlertLedger.                                  *)

\* What the ledger knows of slot r.
Notice == [r \in Requests |-> IF Unsettled(r) THEN item[r] ELSE None]

Counting == {"redis_get", "db_lookup", "warm", "increment", "create"}

Closes(n) == n.source = "alertmanager" /\ n.status = "resolved"

\* Only a firing notification is looked up and counted, and only one that resolves all alerts of
\* its fingerprint gets there without an insert.
ItemFitsStep ==
    \A r \in Requests :
      /\ pc[r] \in Counting => item[r].status = "firing"
      /\ pc[r] = "create_unchecked" => ~Closes(item[r])
      /\ pc[r] = "resolve_fp" => Closes(item[r])

LedgerInv ==
    TypeInv /\ DedupNamesOwnFingerprint /\ PendingExists /\ ItemFitsStep

-----------------------------------------------------------------------------
LEMMA FitsInit == Init => ItemFitsStep
BY DEF Init, ItemFitsStep, Counting

LEMMA FitsStep == TypeInv /\ ItemFitsStep /\ [Next]_vars => ItemFitsStep'
<1> SUFFICES ASSUME TypeInv, ItemFitsStep, [Next]_vars PROVE ItemFitsStep'
  OBVIOUS
<1> USE DEF TypeInv, TypeOK, BusyHasItem, ItemFitsStep, Counting, Closes, Goto, Finish, slots
<1>1. ASSUME NEW r \in Requests, NEW n \in Notification, Receive(r, n) PROVE ItemFitsStep'
  BY <1>1, NotificationFields DEF Receive, FirstStep
<1>2. ASSUME NEW r \in Requests, Work(r) PROVE ItemFitsStep'
  <2>1. CASE RedisHit(r) \/ RedisMiss(r) \/ RedisGetFails(r)
    BY <2>1 DEF RedisHit, RedisMiss, RedisGetFails
  <2>2. CASE LookupFindsOpen(r) \/ LookupFindsNone(r) \/ LookupFails(r)
    BY <2>2 DEF LookupFindsOpen, LookupFindsNone, LookupFails
  <2>3. CASE WarmCache(r) \/ Increment(r) \/ IncrementFails(r)
    BY <2>3 DEF WarmCache, Increment, IncrementFails
  <2>4. CASE Create(r) \/ CreateFails(r) \/ RecordNew(r)
    BY <2>4 DEF Create, CreateFails, RecordNew
  <2>5. CASE AgentResolve(r) \/ AgentResolveFails(r) \/ ResolveByFingerprint(r)
             \/ ResolveByFingerprintFails(r)
    BY <2>5 DEF AgentResolve, AgentResolveFails, ResolveByFingerprint, ResolveByFingerprintFails
  <2> QED
    BY <1>2, <2>1, <2>2, <2>3, <2>4, <2>5 DEF Work
<1>3. ASSUME NEW a \in Alerts, People(a) PROVE ItemFitsStep'
  BY <1>3 DEF People, Acknowledge, Resolve, ChatAckRead, ChatAckUpdate, ChatAckFails
<1>4. CASE Tick
  BY <1>4 DEF Tick
<1>5. CASE Crash
  BY <1>5 DEF Crash
<1>6. CASE UNCHANGED vars
  BY <1>6 DEF vars
<1> QED
  BY <1>1, <1>2, <1>3, <1>4, <1>5, <1>6 DEF Next

-----------------------------------------------------------------------------
(* How the notices of the ledger change with the slots.                    *)

\* A slot that goes on to a statement of the same side keeps its notice.
LEMMA NoticeKept ==
    ASSUME TypeInv, NEW r \in Requests, NEW step, Goto(r, step),
           Unsettled(r) <=> step \in {"redis_get", "db_lookup", "warm", "increment", "create",
                                      "create_unchecked", "resolve_fp"}
    PROVE  Notice' = Notice
BY DEF TypeInv, TypeOK, Goto, Notice, Unsettled

LEMMA NoticeSettled ==
    ASSUME TypeInv, NEW r \in Requests, Unsettled(r), Finish(r) \/ Goto(r, "record")
    PROVE  /\ Notice[r] = item[r] /\ Notice[r] # None /\ item[r] \in Notification
           /\ Notice' = [Notice EXCEPT ![r] = None]
<1>1. item[r] \in Notification /\ item[r] # None
  BY ConstantsAssumption DEF TypeInv, BusyHasItem, Unsettled
<1> QED
  BY <1>1 DEF TypeInv, TypeOK, Finish, Goto, Notice, Unsettled

\* What happens after the notice was settled is none of the ledger's business.
LEMMA NoticeGone ==
    ASSUME TypeInv, NEW r \in Requests, ~Unsettled(r), Finish(r)
    PROVE  Notice' = Notice
BY DEF TypeInv, TypeOK, Finish, Notice, Unsettled

LEMMA NoticeOfSlots == ASSUME UNCHANGED slots PROVE Notice' = Notice
BY DEF slots, Notice, Unsettled

LEMMA LedgerStutters ==
    ASSUME UNCHANGED rows, Notice' = Notice
    PROVE  UNCHANGED Ledger!ledgerVars
BY DEF rows, Notice, Ledger!ledgerVars

-----------------------------------------------------------------------------
(* Every step is one of the ledger, or none.                               *)

LEMMA ReceiveAccepts ==
    ASSUME TypeInv, NEW r \in Requests, NEW n \in Notification, Receive(r, n)
    PROVE  Ledger!Accept(r, n)
<1>1. Notice[r] = None /\ UNCHANGED rows
  BY DEF Receive, Notice, Unsettled
<1>2. pc'[r] \in {"redis_get", "resolve_fp", "create_unchecked"} /\ item'[r] = n
  BY FirstStepIsAStep DEF TypeInv, TypeOK, Receive
<1>3. \A q \in Requests \ {r} : pc'[q] = pc[q] /\ item'[q] = item[q]
  BY DEF TypeInv, TypeOK, Receive
<1>4. Notice' = [Notice EXCEPT ![r] = n]
  BY <1>2, <1>3 DEF Notice, Unsettled
<1> QED
  BY <1>1, <1>4 DEF Ledger!Accept, Notice, rows

LEMMA IncrementCounts ==
    ASSUME LedgerInv, NEW r \in Requests, Increment(r)
    PROVE  Ledger!CountOn(r, target[r]) /\ target[r] \in Alerts
<1>1. Unsettled(r) /\ Finish(r)
  BY DEF Increment, Unsettled
<1>2. target[r] \in Alerts /\ status[target[r]] # "absent" /\ fpOf[target[r]] = item[r].fp
  BY DEF LedgerInv, TypeInv, HolderHasTarget, DedupNamesOwnFingerprint, Holds, Increment
<1>3. item[r].status = "firing"
  BY DEF LedgerInv, ItemFitsStep, Counting, Increment
<1> QED
  BY <1>1, <1>2, <1>3, NoticeSettled
  DEF LedgerInv, Increment, Notice, Ledger!CountOn, Ledger!Settle

LEMMA CreateEnters ==
    ASSUME LedgerInv, NEW r \in Requests, Create(r)
    PROVE  \E a \in Alerts : Ledger!Enter(r, a)
<1>1. Unsettled(r) /\ Goto(r, "record")
  BY DEF Create, Creating, Unsettled
<1>2. ~Closes(item[r])
  BY DEF LedgerInv, ItemFitsStep, Counting, Closes, Create, Creating
<1>3. PICK a \in Free :
        /\ status' = [status EXCEPT ![a] = item[r].status]
        /\ fpOf' = [fpOf EXCEPT ![a] = item[r].fp]
        /\ count' = [count EXCEPT ![a] = 1]
  BY DEF Create
<1>4. Ledger!Enter(r, a)
  BY <1>1, <1>2, <1>3, NoticeSettled
  DEF LedgerInv, Notice, Free, Closes, Ledger!Enter, Ledger!Closing, Ledger!Settle
<1> QED
  BY <1>3, <1>4 DEF Free

LEMMA ResolveCloses ==
    ASSUME LedgerInv, NEW r \in Requests, ResolveByFingerprint(r)
    PROVE  Ledger!CloseAll(r)
<1>1. Unsettled(r) /\ Finish(r)
  BY DEF ResolveByFingerprint, Unsettled
<1>2. Closes(item[r])
  BY DEF LedgerInv, ItemFitsStep, ResolveByFingerprint
<1>3. status' = [a \in Alerts |-> IF fpOf[a] = item[r].fp /\ status[a] # "absent"
                                   THEN "resolved" ELSE status[a]]
  BY DEF LedgerInv, TypeInv, TypeOK, ResolveByFingerprint, SetResolved, Open, IsOpen
<1>4. UNCHANGED <<fpOf, count>>
  BY DEF ResolveByFingerprint, SetResolved
<1> QED
  BY <1>1, <1>2, <1>3, <1>4, NoticeSettled
  DEF LedgerInv, Notice, Closes, Ledger!CloseAll, Ledger!Closing, Ledger!Settle

\* A statement fails, or the count is full.
LEMMA FailureDrops ==
    ASSUME LedgerInv, NEW r \in Requests, Unsettled(r), Finish(r), UNCHANGED rows,
           \/ "db" \in Faults
           \/ pc[r] = "increment" /\ count[target[r]] = MaxCount
    PROVE  Ledger!Drop(r)
<1>1. Faults # {} \/ \E a \in Alerts : fpOf[a] = item[r].fp /\ count[a] = MaxCount
  BY DEF LedgerInv, TypeInv, HolderHasTarget, DedupNamesOwnFingerprint, Holds
<1> QED
  BY <1>1, NoticeSettled DEF LedgerInv, rows, Notice, Ledger!Drop, Ledger!Settle

LEMMA CrashDrops ==
    ASSUME Crash
    PROVE  Ledger!DropAll
<1>1. Faults # {} /\ UNCHANGED rows
  BY DEF Crash
<1>2. Notice' = [r \in Requests |-> None]
  BY DEF Crash, Notice, Unsettled
<1> QED
  BY <1>1, <1>2 DEF rows, Notice, Ledger!DropAll

LEMMA PeopleChange ==
    ASSUME LedgerInv, NEW a \in Alerts, People(a)
    PROVE  Ledger!Acknowledged(a) \/ Ledger!Resolved(a) \/ UNCHANGED Ledger!ledgerVars
<1>0. Notice' = Notice
  <2>1. UNCHANGED slots
    BY DEF People, Acknowledge, Resolve, ChatAckRead, ChatAckUpdate, ChatAckFails
  <2> QED
    BY <2>1, NoticeOfSlots
<1>1. CASE Acknowledge(a) \/ ChatAckUpdate(a)
  BY <1>0, <1>1 DEF LedgerInv, PendingExists, Acknowledge, ChatAckUpdate, AckStatement, Notice,
     Ledger!Acknowledged
<1>2. CASE Resolve(a)
  <2>1. status' = [status EXCEPT ![a] = "resolved"]
    BY <1>2 DEF LedgerInv, TypeInv, TypeOK, Resolve, SetResolved
  <2> QED
    BY <1>0, <1>2, <2>1 DEF Resolve, SetResolved, Notice, Ledger!Resolved
<1>3. CASE ChatAckRead(a) \/ ChatAckFails(a)
  BY <1>0, <1>3, LedgerStutters DEF ChatAckRead, ChatAckFails
<1> QED
  BY <1>1, <1>2, <1>3 DEF People

\* The statements that leave the rows alone and the notice where it is.
LEMMA LookingUpStutters ==
    ASSUME LedgerInv, NEW r \in Requests,
           \/ RedisHit(r) \/ RedisMiss(r) \/ RedisGetFails(r)
           \/ LookupFindsOpen(r) \/ LookupFindsNone(r) \/ LookupFails(r) \/ WarmCache(r)
    PROVE  UNCHANGED Ledger!ledgerVars
<1>1. /\ UNCHANGED rows /\ Unsettled(r)
      /\ \E step \in {"db_lookup", "warm", "increment", "create", "create_unchecked"} :
           Goto(r, step)
  BY DEF RedisHit, RedisMiss, RedisGetFails, LookupFindsOpen, LookupFindsNone, LookupFails,
     WarmCache, Unsettled
<1> QED
  BY <1>1, NoticeKept, LedgerStutters DEF LedgerInv

LEMMA RecordingStutters ==
    ASSUME LedgerInv, NEW r \in Requests, RecordNew(r)
    PROVE  UNCHANGED Ledger!ledgerVars
<1>1. UNCHANGED rows /\ ~Unsettled(r) /\ (Finish(r) \/ Goto(r, "agent_resolve"))
  BY DEF RecordNew, Unsettled
<1> QED
  BY <1>1, NoticeKept, NoticeGone, LedgerStutters DEF LedgerInv

LEMMA AgentResolves ==
    ASSUME LedgerInv, NEW r \in Requests, AgentResolve(r)
    PROVE  Ledger!Resolved(target[r]) /\ target[r] \in Alerts
<1>1. target[r] \in Alerts /\ status[target[r]] # "absent"
  BY DEF LedgerInv, TypeInv, HolderHasTarget, DedupNamesOwnFingerprint, Holds, AgentResolve
<1>2. status' = [status EXCEPT ![target[r]] = "resolved"]
  BY <1>1 DEF LedgerInv, TypeInv, TypeOK, AgentResolve, SetResolved
<1>3. Notice' = Notice
  BY NoticeGone DEF LedgerInv, AgentResolve, Unsettled
<1> QED
  BY <1>1, <1>2, <1>3 DEF AgentResolve, SetResolved, Notice, Ledger!Resolved

LEMMA WorkRefines ==
    ASSUME LedgerInv, NEW r \in Requests, Work(r)
    PROVE  [Ledger!LedgerNext]_Ledger!ledgerVars
<1>1. CASE \/ RedisHit(r) \/ RedisMiss(r) \/ RedisGetFails(r)
           \/ LookupFindsOpen(r) \/ LookupFindsNone(r) \/ LookupFails(r) \/ WarmCache(r)
  BY <1>1, LookingUpStutters
<1>2. CASE Increment(r)
  BY <1>2, IncrementCounts DEF Ledger!LedgerNext
<1>3. CASE IncrementFails(r) \/ CreateFails(r) \/ ResolveByFingerprintFails(r)
  <2>1. Ledger!Drop(r)
    BY <1>3, FailureDrops
    DEF IncrementFails, CreateFails, Creating, ResolveByFingerprintFails, Unsettled
  <2> QED
    BY <2>1 DEF Ledger!LedgerNext
<1>4. CASE Create(r)
  BY <1>4, CreateEnters DEF Ledger!LedgerNext
<1>5. CASE RecordNew(r)
  BY <1>5, RecordingStutters
<1>6. CASE AgentResolve(r)
  BY <1>6, AgentResolves DEF Ledger!LedgerNext
<1>7. CASE AgentResolveFails(r)
  BY <1>7, NoticeGone, LedgerStutters DEF LedgerInv, AgentResolveFails, Unsettled
<1>8. CASE ResolveByFingerprint(r)
  BY <1>8, ResolveCloses DEF Ledger!LedgerNext
<1> QED
  BY <1>1, <1>2, <1>3, <1>4, <1>5, <1>6, <1>7, <1>8 DEF Work

LEMMA StepRefines == LedgerInv /\ [Next]_vars => [Ledger!LedgerNext]_Ledger!ledgerVars
<1> SUFFICES ASSUME LedgerInv, [Next]_vars PROVE [Ledger!LedgerNext]_Ledger!ledgerVars
  OBVIOUS
<1>1. ASSUME NEW r \in Requests, NEW n \in Notification, Receive(r, n)
      PROVE  Ledger!LedgerNext
  BY <1>1, ReceiveAccepts DEF LedgerInv, Ledger!LedgerNext
<1>2. ASSUME NEW r \in Requests, Work(r) PROVE [Ledger!LedgerNext]_Ledger!ledgerVars
  BY <1>2, WorkRefines
<1>3. ASSUME NEW a \in Alerts, People(a) PROVE [Ledger!LedgerNext]_Ledger!ledgerVars
  BY <1>3, PeopleChange DEF Ledger!LedgerNext
<1>4. CASE Tick
  BY <1>4, NoticeOfSlots, LedgerStutters DEF Tick
<1>5. CASE Crash
  BY <1>5, CrashDrops DEF Ledger!LedgerNext
<1>6. CASE UNCHANGED vars
  BY <1>6, NoticeOfSlots, LedgerStutters DEF vars
<1> QED
  BY <1>1, <1>2, <1>3, <1>4, <1>5, <1>6 DEF Next

LEMMA InitRefines == Init => Ledger!LedgerInit
BY DEF Init, Unsettled, Ledger!LedgerInit

(***************************************************************************)
(* Whatever requests, Redis and people do and whatever fails, ingestion    *)
(* settles a notification as the ledger says, and at most once             *)
(* (webhook.go, createOrDedup and handleAlertmanager; dedup.go, Check).    *)
(***************************************************************************)
THEOREM ImplementsLedgerCorrect == Spec => ImplementsLedger
<1>1. TypeInv /\ DedupNamesOwnFingerprint /\ OpenInv /\ ItemFitsStep => LedgerInv
  BY DEF OpenInv, LedgerInv
<1> QED
  BY <1>1, TypeInit, TypeStep, DedupInit, DedupStep, OpenInit, OpenStep, FitsInit, FitsStep,
     InitRefines, StepRefines, PTL DEF Spec, ImplementsLedger, Ledger!LedgerSpec
=============================================================================
