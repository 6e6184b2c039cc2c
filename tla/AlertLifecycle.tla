--------------------------- MODULE AlertLifecycle ---------------------------
(***************************************************************************)
(* Alert ingestion and the life of an alert row: pkg/alert (webhook.go,    *)
(* dedup.go, store.go, handler.go), the alert buttons and commands of      *)
(* pkg/slack and pkg/mattermost, and sqlc/queries/alerts/alerts.sql.       *)
(*                                                                         *)
(* The database and Redis are shared; every statement sent to one of them  *)
(* is one step, and webhook requests interleave between their statements.  *)
(* A request slot handles one notification at a time: a payload with       *)
(* several alerts is several notifications of one slot, one after the      *)
(* other, as the loop of handleAlertmanager handles them.                  *)
(*                                                                         *)
(* Left to other modules: the alert_group_id column (AlertGrouping) and    *)
(* matched_incident_id (the knowledge base), which the tail of             *)
(* createOrDedup sets and nothing here reads.                              *)
(***************************************************************************)
EXTENDS Naturals, FiniteSets

CONSTANTS
    Alerts,        \* ids the alerts table can hand out (a bound: rows are never deleted)
    Fingerprints,  \* fingerprints the monitoring systems send
    Requests,      \* slots for concurrently handled webhook requests
    Sources,       \* webhook endpoints in use, within AllSources
    Surfaces,      \* ways for people to act on alerts, within AllSurfaces
    Faults,        \* what may fail, within AllFaults
    TTL,           \* dedupTTL in ticks of the clock
    MaxCount,      \* largest occurrence_count; stands for the column's 2^31 - 1
    None           \* no alert, no fingerprint, no notification, no slot

AllSources  == {"alertmanager", "keep", "generic"}
AllSurfaces == {"ack", "chat_ack", "resolve"}
AllFaults   == {"redis", "db", "crash"}

(***************************************************************************)
(* A notification as the normalize functions leave it.  A generic          *)
(* notification is "resolved" exactly when an agent resolved it.           *)
(***************************************************************************)
Notification == [source : Sources, fp : Fingerprints, status : {"firing", "resolved"}]

ASSUME ConstantsAssumption ==
    /\ Sources \subseteq AllSources
    /\ Surfaces \subseteq AllSurfaces
    /\ Faults \subseteq AllFaults
    /\ TTL \in Nat \ {0}
    /\ MaxCount \in Nat \ {0}
    /\ None \notin Alerts
    /\ None \notin Fingerprints
    /\ None \notin Requests
    /\ None \notin Notification

VARIABLES
    \* the alerts table
    status,      \* status[a]; "absent" before the row is inserted
    fpOf,        \* fpOf[a], the fingerprint column
    count,       \* count[a], the occurrence_count column
    \* Redis
    cache,       \* cache[f], the alert id under alert:dedup:{schema}:f
    ttl,         \* ttl[f], ticks until that key expires; 0 without a key
    \* webhook requests
    pc,          \* pc[r], the statement slot r executes next
    item,        \* item[r], the notification slot r is handling
    target,      \* target[r], result.AlertID or resp.ID in slot r
    \* chat ack buttons
    ackPending,  \* alerts a chat handler has read as unacknowledged and not yet updated
    \* history, read by properties only
    by,          \* by[a], the slot that inserted row a after a lookup found none open
    closed       \* the alerts that have been resolved at some time

rows == <<status, fpOf, count>>
redis == <<cache, ttl>>
slots == <<pc, item, target>>
history == <<by, closed>>
vars == <<rows, redis, slots, ackPending, history>>

Steps == {"idle", "redis_get", "db_lookup", "warm", "increment",
          "create", "create_unchecked", "record", "agent_resolve", "resolve_fp"}

\* About to insert a row, with or without having seen that none is open.
Creating(r) == pc[r] \in {"create", "create_unchecked"}

IsOpen(a) == status[a] \in {"firing", "acknowledged"}

Open(f) == {a \in Alerts : IsOpen(a) /\ fpOf[a] = f}

Free == {a \in Alerts : status[a] = "absent"}

-----------------------------------------------------------------------------
(***************************************************************************)
(* A bound: a notification that may insert a row is accepted only while    *)
(* the table has an id left for it and for each one already in a slot.     *)
(***************************************************************************)
HasRoom == Cardinality({r \in Requests : pc[r] # "idle"}) < Cardinality(Free)

FirstStep(n) ==
    CASE n.status = "firing" -> "redis_get"
      [] n.status = "resolved" /\ n.source = "alertmanager" -> "resolve_fp"
      [] n.status = "resolved" /\ n.source # "alertmanager" -> "create_unchecked"

Receive(r, n) ==
    /\ pc[r] = "idle"
    /\ FirstStep(n) # "resolve_fp" => HasRoom
    /\ pc' = [pc EXCEPT ![r] = FirstStep(n)]
    /\ item' = [item EXCEPT ![r] = n]
    /\ UNCHANGED <<rows, redis, target, ackPending, history>>

Goto(r, step) ==
    /\ pc' = [pc EXCEPT ![r] = step]
    /\ UNCHANGED item

\* The slot is done with its notification.
Finish(r) ==
    /\ pc' = [pc EXCEPT ![r] = "idle"]
    /\ item' = [item EXCEPT ![r] = None]
    /\ target' = [target EXCEPT ![r] = None]

-----------------------------------------------------------------------------
(* Deduplicator.Check: Redis first, then the database.                     *)

\* Faulty variant: a hit renews the key, as a sliding expiry would.
RedisHitRenews(r) ==
    /\ pc[r] = "redis_get"
    /\ cache[item[r].fp] # None
    /\ target' = [target EXCEPT ![r] = cache[item[r].fp]]
    /\ ttl' = [ttl EXCEPT ![item[r].fp] = TTL]
    /\ Goto(r, "increment")
    /\ UNCHANGED <<rows, cache, ackPending, history>>

RedisHit(r) ==
    /\ pc[r] = "redis_get"
    /\ cache[item[r].fp] # None
    /\ target' = [target EXCEPT ![r] = cache[item[r].fp]]
    /\ Goto(r, "increment")
    /\ UNCHANGED <<rows, redis, ackPending, history>>

RedisMiss(r) ==
    /\ pc[r] = "redis_get"
    /\ cache[item[r].fp] = None
    /\ Goto(r, "db_lookup")
    /\ UNCHANGED <<rows, redis, target, ackPending, history>>

RedisGetFails(r) ==
    /\ "redis" \in Faults
    /\ pc[r] = "redis_get"
    /\ Goto(r, "db_lookup")
    /\ UNCHANGED <<rows, redis, target, ackPending, history>>

\* Faulty variant: the query forgets the fingerprint.
LookupFindsAnyOpen(r) ==
    /\ pc[r] = "db_lookup"
    /\ \E a \in Alerts : IsOpen(a) /\ target' = [target EXCEPT ![r] = a]
    /\ Goto(r, "warm")
    /\ UNCHANGED <<rows, redis, ackPending, history>>

(***************************************************************************)
(* GetAlertByFingerprint returns one open row.  The query takes the one    *)
(* with the latest last_fired_at; which one that is among several open     *)
(* rows is left open here.                                                 *)
(***************************************************************************)
LookupFindsOpen(r) ==
    /\ pc[r] = "db_lookup"
    /\ \E a \in Open(item[r].fp) : target' = [target EXCEPT ![r] = a]
    /\ Goto(r, "warm")
    /\ UNCHANGED <<rows, redis, ackPending, history>>

\* Faulty variant: the query looks for firing alerts only.
LookupFindsNoneFiring(r) ==
    /\ pc[r] = "db_lookup"
    /\ \A a \in Open(item[r].fp) : status[a] # "firing"
    /\ Goto(r, "create")
    /\ UNCHANGED <<rows, redis, target, ackPending, history>>

LookupFindsNone(r) ==
    /\ pc[r] = "db_lookup"
    /\ Open(item[r].fp) = {}
    /\ Goto(r, "create")
    /\ UNCHANGED <<rows, redis, target, ackPending, history>>

\* createOrDedup logs "dedup check failed, creating new alert" and goes on.
LookupFails(r) ==
    /\ "db" \in Faults
    /\ pc[r] = "db_lookup"
    /\ Goto(r, "create_unchecked")
    /\ UNCHANGED <<rows, redis, target, ackPending, history>>

\* Deduplicator.cacheSet: SET with the TTL, replacing key and TTL.
CacheSet(f, a) ==
    /\ cache' = [cache EXCEPT ![f] = a]
    /\ ttl' = [ttl EXCEPT ![f] = TTL]

CacheSetMayFail(f, a) ==
    \/ CacheSet(f, a)
    \/ "redis" \in Faults /\ UNCHANGED redis

WarmCache(r) ==
    /\ pc[r] = "warm"
    /\ CacheSetMayFail(item[r].fp, target[r])
    /\ Goto(r, "increment")
    /\ UNCHANGED <<rows, target, ackPending, history>>

-----------------------------------------------------------------------------
(* createOrDedup after Check.                                              *)

\* Faulty variant: the column has no largest value.
IncrementUnbounded(r) ==
    /\ pc[r] = "increment"
    /\ count' = [count EXCEPT ![target[r]] = @ + 1]
    /\ Finish(r)
    /\ UNCHANGED <<status, fpOf, redis, ackPending, history>>

\* Faulty variant: the request goes on to insert a row after counting.
IncrementThenCreate(r) ==
    /\ pc[r] = "increment"
    /\ count[target[r]] < MaxCount
    /\ count' = [count EXCEPT ![target[r]] = @ + 1]
    /\ Goto(r, "create")
    /\ UNCHANGED <<status, fpOf, redis, target, ackPending, history>>

(***************************************************************************)
(* IncrementAlertOccurrence: no condition on the status of the row.  The   *)
(* read that follows it only builds the response.                          *)
(***************************************************************************)
Increment(r) ==
    /\ pc[r] = "increment"
    /\ count[target[r]] < MaxCount
    /\ count' = [count EXCEPT ![target[r]] = @ + 1]
    /\ Finish(r)
    /\ UNCHANGED <<status, fpOf, redis, ackPending, history>>

\* The statement fails, also when the INTEGER column would overflow.
IncrementFails(r) ==
    /\ pc[r] = "increment"
    /\ "db" \in Faults \/ count[target[r]] = MaxCount
    /\ Finish(r)
    /\ UNCHANGED <<rows, redis, ackPending, history>>

Create(r) ==
    /\ Creating(r)
    /\ \E a \in Free :
         /\ status' = [status EXCEPT ![a] = item[r].status]
         /\ fpOf' = [fpOf EXCEPT ![a] = item[r].fp]
         /\ count' = [count EXCEPT ![a] = 1]
         /\ target' = [target EXCEPT ![r] = a]
         /\ by' = [by EXCEPT ![a] = IF pc[r] = "create" THEN r ELSE None]
         /\ closed' = IF item[r].status = "resolved" THEN closed \union {a} ELSE closed
    /\ Goto(r, "record")
    /\ UNCHANGED <<redis, ackPending>>

CreateFails(r) ==
    /\ "db" \in Faults
    /\ Creating(r)
    /\ Finish(r)
    /\ UNCHANGED <<rows, redis, ackPending, history>>

(***************************************************************************)
(* RecordNew, for resolved alerts too.  handleGeneric then resolves the    *)
(* alert an agent has dealt with; every other handler is done.             *)
(***************************************************************************)
RecordNew(r) ==
    /\ pc[r] = "record"
    /\ CacheSetMayFail(item[r].fp, target[r])
    /\ IF item[r].source = "generic" /\ item[r].status = "resolved"
         THEN Goto(r, "agent_resolve") /\ UNCHANGED target
         ELSE Finish(r)
    /\ UNCHANGED <<rows, ackPending, history>>

\* ResolveAlert, ResolveAlertByAgent, ResolveAlertByFingerprint: no condition but WHERE.
SetResolved(S) ==
    /\ status' = [a \in Alerts |-> IF a \in S THEN "resolved" ELSE status[a]]
    /\ closed' = closed \union S
    /\ UNCHANGED <<fpOf, count, by>>

AgentResolve(r) ==
    /\ pc[r] = "agent_resolve"
    /\ SetResolved({target[r]})
    /\ Finish(r)
    /\ UNCHANGED <<redis, ackPending>>

AgentResolveFails(r) ==
    /\ "db" \in Faults
    /\ pc[r] = "agent_resolve"
    /\ Finish(r)
    /\ UNCHANGED <<rows, redis, ackPending, history>>

-----------------------------------------------------------------------------
\* Faulty variant: the statement resolves one open row of the fingerprint only.
ResolveOneByFingerprint(r) ==
    /\ pc[r] = "resolve_fp"
    /\ \E S \in SUBSET Open(item[r].fp) : Cardinality(S) <= 1 /\ SetResolved(S)
    /\ Finish(r)
    /\ UNCHANGED <<redis, ackPending>>

(***************************************************************************)
(* handleAlertmanager on a resolved notification: one statement resolves   *)
(* every open row of the fingerprint; none of them is an error that is     *)
(* only logged.  The dedup key stays in Redis.                             *)
(***************************************************************************)
ResolveByFingerprint(r) ==
    /\ pc[r] = "resolve_fp"
    /\ SetResolved(Open(item[r].fp))
    /\ Finish(r)
    /\ UNCHANGED <<redis, ackPending>>

ResolveByFingerprintFails(r) ==
    /\ "db" \in Faults
    /\ pc[r] = "resolve_fp"
    /\ Finish(r)
    /\ UNCHANGED <<rows, redis, ackPending, history>>

-----------------------------------------------------------------------------
(* People.                                                                 *)

AckStatement(a) == status' = [status EXCEPT ![a] = "acknowledged"]

\* handleAcknowledge and the /nightowl ack command: no condition on the status.
Acknowledge(a) ==
    /\ "ack" \in Surfaces
    /\ status[a] # "absent"
    /\ AckStatement(a)
    /\ UNCHANGED <<fpOf, count, redis, slots, ackPending, history>>

\* handleResolve and the /nightowl resolve command.
Resolve(a) ==
    /\ "resolve" \in Surfaces
    /\ status[a] # "absent"
    /\ SetResolved({a})
    /\ UNCHANGED <<redis, slots, ackPending>>

\* The ack buttons read the alert, answer "already ..." unless it is firing ...
ChatAckRead(a) ==
    /\ "chat_ack" \in Surfaces
    /\ status[a] = "firing"
    /\ ackPending' = ackPending \union {a}
    /\ UNCHANGED <<rows, redis, slots, history>>

\* ... and then acknowledge it in a second statement.
ChatAckUpdate(a) ==
    /\ a \in ackPending
    /\ ackPending' = ackPending \ {a}
    /\ AckStatement(a)
    /\ UNCHANGED <<fpOf, count, redis, slots, history>>

ChatAckFails(a) ==
    /\ "db" \in Faults
    /\ a \in ackPending
    /\ ackPending' = ackPending \ {a}
    /\ UNCHANGED <<rows, redis, slots, history>>

-----------------------------------------------------------------------------
(* Redis time, and the API process.                                        *)

Tick ==
    /\ \E f \in Fingerprints : ttl[f] > 0
    /\ ttl' = [f \in Fingerprints |-> IF ttl[f] > 0 THEN ttl[f] - 1 ELSE 0]
    /\ cache' = [f \in Fingerprints |-> IF ttl[f] > 1 THEN cache[f] ELSE None]
    /\ UNCHANGED <<rows, slots, ackPending, history>>

\* The API process stops: what was under way in it is gone, nothing is rolled back.
Crash ==
    /\ "crash" \in Faults
    /\ \E r \in Requests : pc[r] # "idle"
    /\ pc' = [r \in Requests |-> "idle"]
    /\ item' = [r \in Requests |-> None]
    /\ target' = [r \in Requests |-> None]
    /\ ackPending' = {}
    /\ UNCHANGED <<rows, redis, history>>

-----------------------------------------------------------------------------
Init ==
    /\ status = [a \in Alerts |-> "absent"]
    /\ fpOf = [a \in Alerts |-> None]
    /\ count = [a \in Alerts |-> 0]
    /\ cache = [f \in Fingerprints |-> None]
    /\ ttl = [f \in Fingerprints |-> 0]
    /\ pc = [r \in Requests |-> "idle"]
    /\ item = [r \in Requests |-> None]
    /\ target = [r \in Requests |-> None]
    /\ ackPending = {}
    /\ by = [a \in Alerts |-> None]
    /\ closed = {}

\* The statements of a request that has been received.
Work(r) ==
    \/ RedisHit(r)
    \/ RedisMiss(r)
    \/ RedisGetFails(r)
    \/ LookupFindsOpen(r)
    \/ LookupFindsNone(r)
    \/ LookupFails(r)
    \/ WarmCache(r)
    \/ Increment(r)
    \/ IncrementFails(r)
    \/ Create(r)
    \/ CreateFails(r)
    \/ RecordNew(r)
    \/ AgentResolve(r)
    \/ AgentResolveFails(r)
    \/ ResolveByFingerprint(r)
    \/ ResolveByFingerprintFails(r)

People(a) ==
    \/ Acknowledge(a)
    \/ Resolve(a)
    \/ ChatAckRead(a)
    \/ ChatAckUpdate(a)
    \/ ChatAckFails(a)

Next ==
    \/ \E r \in Requests, n \in Notification : Receive(r, n)
    \/ \E r \in Requests : Work(r)
    \/ \E a \in Alerts : People(a)
    \/ Tick
    \/ Crash

Spec == Init /\ [][Next]_vars

(***************************************************************************)
(* Fairness: a request that was received runs on, the clock of Redis runs, *)
(* and the monitoring system repeats a firing notification (Alertmanager's *)
(* repeat_interval) for as long as there is a slot and an id for it.       *)
(***************************************************************************)
ReceiveFiring(f) ==
    \E r \in Requests, n \in Notification :
        n.fp = f /\ n.status = "firing" /\ Receive(r, n)

Fairness ==
    /\ \A r \in Requests : WF_vars(Work(r))
    /\ WF_vars(Tick)
    /\ \A f \in Fingerprints : SF_vars(ReceiveFiring(f))

FairSpec == Spec /\ Fairness

-----------------------------------------------------------------------------
TypeOK ==
    /\ status \in [Alerts -> {"absent", "firing", "acknowledged", "resolved"}]
    /\ fpOf \in [Alerts -> Fingerprints \union {None}]
    /\ count \in [Alerts -> 0..MaxCount]
    /\ cache \in [Fingerprints -> Alerts \union {None}]
    /\ ttl \in [Fingerprints -> 0..TTL]
    /\ pc \in [Requests -> Steps]
    /\ item \in [Requests -> Notification \union {None}]
    /\ target \in [Requests -> Alerts \union {None}]
    /\ ackPending \in SUBSET Alerts
    /\ by \in [Alerts -> Requests \union {None}]
    /\ closed \in SUBSET Alerts

Holds(r) == pc[r] \in {"warm", "increment", "record", "agent_resolve"}

(***************************************************************************)
(* A dedup key in Redis, and the alert a request has decided to count a    *)
(* notification on, name an existing row of that very fingerprint, however *)
(* requests, key expiry, Redis failures and crashes interleave: a firing   *)
(* is never counted on another fingerprint's alert (dedup.go, Check).      *)
(***************************************************************************)
DedupNamesOwnFingerprint ==
    /\ \A f \in Fingerprints :
          cache[f] # None => status[cache[f]] # "absent" /\ fpOf[cache[f]] = f
    /\ \A r \in Requests :
          Holds(r) => status[target[r]] # "absent" /\ fpOf[target[r]] = item[r].fp

NeverClosed(f) == Open(f) \ closed

(***************************************************************************)
(* The check for an open alert and the insert of a new one are separate    *)
(* statements, so requests that overlap can each insert one; but one slot  *)
(* never adds a second open alert to a fingerprint while its first is      *)
(* still open.  So where the lookup answers, a fingerprint has no more     *)
(* open alerts than there are requests handled at once, alerts that an     *)
(* acknowledgement reopened aside (webhook.go, createOrDedup).             *)
(***************************************************************************)
OneOpenAlertPerSlot ==
    \A a, b \in Alerts :
        /\ a # b
        /\ fpOf[a] = fpOf[b]
        /\ a \in NeverClosed(fpOf[a])
        /\ b \in NeverClosed(fpOf[b])
        /\ by[a] # None
        => by[a] # by[b]

(***************************************************************************)
(* While a monitoring system keeps sending firing for a fingerprint and    *)
(* nothing fails, the fingerprint has an open alert again and again: a     *)
(* stale dedup key delays the alert by no more than the TTL, because a hit *)
(* does not renew the key (dedup.go, Check).  Behaviours that use up the   *)
(* ids of the model are set aside.                                         *)
(***************************************************************************)
RepeatedFiringIsHeard ==
    \A f \in Fingerprints : []<>(Open(f) # {}) \/ <>[](~HasRoom)

(***************************************************************************)
(* Ingestion implements the ledger: whatever requests, Redis and people    *)
(* do, a notification is settled as AlertLedger says, and at most once; it *)
(* is settled when the row is inserted, counted on or closed (webhook.go,  *)
(* createOrDedup and handleAlertmanager).                                  *)
(***************************************************************************)
Unsettled(r) ==
    pc[r] \in {"redis_get", "db_lookup", "warm", "increment", "create", "create_unchecked",
               "resolve_fp"}

Ledger == INSTANCE AlertLedger WITH
    Notifications <- Notification,
    Lossy <- Faults # {},
    notice <- [r \in Requests |-> IF Unsettled(r) THEN item[r] ELSE None]

ImplementsLedger == Ledger!LedgerSpec
=============================================================================
