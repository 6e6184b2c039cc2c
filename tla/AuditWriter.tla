---------------------------- MODULE AuditWriter ----------------------------
(***************************************************************************)
(* The asynchronous audit log writer of internal/audit/audit.go and the    *)
(* way internal/app/app.go runAPI starts and stops it.  Request handlers   *)
(* put entries into a bounded channel without ever waiting; one goroutine  *)
(* takes them out, collects a batch and writes it, tenant by tenant.  On   *)
(* shutdown the context is cancelled, which ends that goroutine, and only  *)
(* then the HTTP server waits for its handlers and the channel is closed.  *)
(***************************************************************************)
EXTENDS Naturals, Sequences, FiniteSets, SequencesExt

CONSTANTS
    Tenants,       \* tenant schemas
    NoTenant,      \* the empty schema of a request without a tenant
    BufferSize,    \* bufferSize, capacity of the channel
    FlushBatch,    \* flushBatch
    MaxActive,     \* a bound: requests handled at once
    MaxEntries,    \* a bound: entries logged
    DBFails        \* whether writing to the database may fail

ASSUME ConstantsAssumption ==
    /\ NoTenant \notin Tenants
    /\ BufferSize \in Nat
    /\ FlushBatch \in Nat \ {0}
    /\ MaxActive \in Nat
    /\ MaxEntries \in Nat
    /\ DBFails \in BOOLEAN

\* Entries are numbered as they are logged.
Entry == [n : 1..MaxEntries, tenant : Tenants \union {NoTenant}]

VARIABLES
    server,     \* runAPI: "serving", "shutdown" (Shutdown waits), "closing" (Close waits), "exited"
    active,     \* requests being handled
    logged,     \* number of entries handed to Log
    entries,    \* the channel
    closed,     \* whether the channel is closed
    writer,     \* the goroutine: "select", "drain", "flush" or "done"
    resume,     \* where the goroutine goes on after a flush
    batch,      \* batch of run; what is left of it during a flush
    written,    \* the rows of the tenants' audit_log tables, in the order of insertion
    lost,       \* history: entries that will not be written, by their numbers
    panicked,   \* history: whether a Log sent on the closed channel
    early        \* history: numbers of the entries queued before the context was cancelled

process == <<server, active>>
channel == <<logged, entries, closed, lost, panicked, early>>
goroutine == <<writer, resume, batch>>
vars == <<process, channel, goroutine, written>>

Numbers(S) == {e.n : e \in S}

Cancelled == server # "serving"

-----------------------------------------------------------------------------
(* Request handlers.                                                       *)

StartRequest ==
    /\ server = "serving"
    /\ active < MaxActive
    /\ active' = active + 1
    /\ UNCHANGED <<server, channel, goroutine, written>>

\* A request that is not logged: reads, and requests that failed.
EndRequest ==
    /\ active > 0
    /\ server # "exited"
    /\ active' = active - 1
    /\ UNCHANGED <<server, channel, goroutine, written>>

\* Faulty variant: one entry too many fits in.
FullByOneMore == Len(entries) > BufferSize

Full == Len(entries) = BufferSize

(***************************************************************************)
(* Log: a send that is given up when the channel is full.  A send on a     *)
(* closed channel panics, with or without the default branch.              *)
(***************************************************************************)
Log(tenant) ==
    /\ active > 0
    /\ server # "exited"
    /\ logged < MaxEntries
    /\ logged' = logged + 1
    /\ active' = active - 1
    /\ LET e == [n |-> logged + 1, tenant |-> tenant] IN
         \/ /\ ~closed /\ ~Full
            /\ entries' = Append(entries, e)
            /\ early' = IF Cancelled THEN early ELSE early \union {e.n}
            /\ UNCHANGED <<lost, panicked>>
         \/ /\ ~closed /\ Full
            /\ lost' = lost \union {e.n}
            /\ UNCHANGED <<entries, panicked, early>>
         \/ /\ closed
            /\ lost' = lost \union {e.n}
            /\ panicked' = TRUE
            /\ UNCHANGED <<entries, early>>
    /\ UNCHANGED <<server, closed, goroutine, written>>

-----------------------------------------------------------------------------
(* The goroutine, run and flush.                                           *)

\* Faulty variant: the entry is put before those of the batch.
TakeNewestFirst ==
    /\ entries # <<>>
    /\ entries' = Tail(entries)
    /\ batch' = <<Head(entries)>> \o batch
    /\ UNCHANGED <<logged, closed, lost, panicked, early>>

Take ==
    /\ entries # <<>>
    /\ entries' = Tail(entries)
    /\ batch' = Append(batch, Head(entries))
    /\ UNCHANGED <<logged, closed, lost, panicked, early>>

FlushThen(next) ==
    /\ writer' = "flush"
    /\ resume' = next

ReceiveEntry ==
    /\ writer = "select"
    /\ Take
    /\ IF Len(batch') >= FlushBatch THEN FlushThen("select") ELSE UNCHANGED <<writer, resume>>
    /\ UNCHANGED <<process, written>>

Ticker ==
    /\ writer = "select"
    /\ batch # <<>>
    /\ FlushThen("select")
    /\ UNCHANGED <<process, channel, batch, written>>

ContextDone ==
    /\ writer = "select"
    /\ Cancelled
    /\ writer' = "drain"
    /\ UNCHANGED <<process, channel, resume, batch, written>>

DrainEntry ==
    /\ writer = "drain"
    /\ Take
    /\ UNCHANGED <<process, writer, resume, written>>

\* Faulty variant: the drained entries are not flushed.
DrainedAndGone ==
    /\ writer = "drain"
    /\ entries = <<>>
    /\ writer' = "done"
    /\ UNCHANGED <<process, channel, resume, batch, written>>

\* Nothing is left to take, whether the channel is closed by now or not.
Drained ==
    /\ writer = "drain"
    /\ entries = <<>>
    /\ FlushThen("done")
    /\ UNCHANGED <<process, channel, batch, written>>

\* The channel was closed and emptied before the context was looked at.
ChannelClosed ==
    /\ writer = "select"
    /\ closed /\ entries = <<>>
    /\ FlushThen("done")
    /\ UNCHANGED <<process, channel, batch, written>>

Of(tenant) == {e \in ToSet(batch) : e.tenant = tenant}

\* The elements of s that are in S, in their order.
Only(s, S) ==
    LET only[i \in 0..Len(s)] ==
          IF i = 0 THEN <<>>
          ELSE IF s[i] \in S THEN Append(only[i - 1], s[i]) ELSE only[i - 1]
    IN  only[Len(s)]

\* Faulty variant: the batch is not emptied.
WriteTenantAgain(tenant) ==
    /\ writer = "flush"
    /\ Of(tenant) # {}
    /\ \E S \in SUBSET Of(tenant) :
         /\ CASE tenant = NoTenant -> S = {}
              [] tenant # NoTenant -> DBFails \/ S = Of(tenant)
         /\ written' = written \o Only(batch, S)
         /\ lost' = lost \union Numbers(Of(tenant) \ S)
    /\ UNCHANGED <<process, logged, entries, closed, panicked, early, goroutine>>

(***************************************************************************)
(* Writing the entries of one tenant, in their order; the tenants come in  *)
(* any order.  Entries without a tenant are skipped.  With a database that *)
(* fails, any of the entries, or all of them, are not written.             *)
(***************************************************************************)
WriteTenant(tenant) ==
    /\ writer = "flush"
    /\ Of(tenant) # {}
    /\ \E S \in SUBSET Of(tenant) :
         /\ CASE tenant = NoTenant -> S = {}
              [] tenant # NoTenant -> DBFails \/ S = Of(tenant)
         /\ written' = written \o Only(batch, S)
         /\ lost' = lost \union Numbers(Of(tenant) \ S)
    /\ batch' = Only(batch, ToSet(batch) \ Of(tenant))
    /\ UNCHANGED <<process, logged, entries, closed, panicked, early, writer, resume>>

EndFlush ==
    /\ writer = "flush"
    /\ batch = <<>>
    /\ writer' = resume
    /\ UNCHANGED <<process, channel, resume, batch, written>>

-----------------------------------------------------------------------------
(* runAPI on its way out.                                                  *)

Cancel ==
    /\ server = "serving"
    /\ server' = "shutdown"
    /\ UNCHANGED <<active, channel, goroutine, written>>

\* Shutdown returns when no handler is left, or after its 10 seconds all the same;
\* the deferred Close then closes the channel ...
ShutdownReturns ==
    /\ server = "shutdown"
    /\ server' = "closing"
    /\ closed' = TRUE
    /\ UNCHANGED <<active, logged, entries, lost, panicked, early, goroutine, written>>

\* ... and waits for the goroutine.
CloseReturns ==
    /\ server = "closing"
    /\ writer = "done"
    /\ server' = "exited"
    /\ UNCHANGED <<active, channel, goroutine, written>>

-----------------------------------------------------------------------------
Init ==
    /\ server = "serving"
    /\ active = 0
    /\ logged = 0
    /\ entries = <<>>
    /\ closed = FALSE
    /\ writer = "select"
    /\ resume = "select"
    /\ batch = <<>>
    /\ written = <<>>
    /\ lost = {}
    /\ panicked = FALSE
    /\ early = {}

Writing ==
    \/ ReceiveEntry
    \/ Ticker
    \/ ContextDone
    \/ DrainEntry
    \/ Drained
    \/ ChannelClosed
    \/ \E t \in Tenants \union {NoTenant} : WriteTenant(t)
    \/ EndFlush

Next ==
    \/ StartRequest
    \/ EndRequest
    \/ \E t \in Tenants \union {NoTenant} : Log(t)
    \/ Writing
    \/ Cancel
    \/ ShutdownReturns
    \/ CloseReturns

Spec == Init /\ [][Next]_vars

(***************************************************************************)
(* The goroutine runs; its ticker fires and its select takes a branch that *)
(* stays ready, so a tick is not put off for ever by arriving entries.     *)
(***************************************************************************)
FairSpec == Spec /\ WF_vars(Writing) /\ SF_vars(Ticker) /\ SF_vars(ContextDone)

-----------------------------------------------------------------------------
TypeOK ==
    /\ server \in {"serving", "shutdown", "closing", "exited"}
    /\ active \in 0..MaxActive
    /\ logged \in 0..MaxEntries
    /\ entries \in Seq(Entry) /\ Len(entries) <= BufferSize
    /\ closed \in BOOLEAN
    /\ writer \in {"select", "drain", "flush", "done"}
    /\ resume \in {"select", "done"}
    /\ batch \in Seq(Entry)
    /\ written \in Seq(Entry)
    /\ lost \in SUBSET (1..MaxEntries)
    /\ panicked \in BOOLEAN
    /\ early \in SUBSET (1..MaxEntries)

(***************************************************************************)
(* No entry disappears or is written twice on its way through channel,     *)
(* batch and database, whatever the goroutine does between: each logged    *)
(* entry is in exactly one of those places or was given up knowingly       *)
(* (audit.go, Log, run and flush).                                         *)
(***************************************************************************)
EveryEntryAccountedFor ==
    LET places == written \o batch \o entries
        numbers == {places[i].n : i \in DOMAIN places}
    IN  /\ Cardinality(numbers) = Len(places)
        /\ numbers \intersect lost = {}
        /\ numbers \union lost = 1..logged

(***************************************************************************)
(* Grouping a batch by tenant reorders entries of different tenants, never *)
(* those of one: every audit log is in the order of logging, over batches  *)
(* and the final drain (audit.go, flush).                                  *)
(***************************************************************************)
TenantLogInOrder ==
    \A i, j \in DOMAIN written :
        i < j /\ written[i].tenant = written[j].tenant => written[i].n < written[j].n

(***************************************************************************)
(* An entry queued before the context is cancelled is written, whenever    *)
(* the shutdown comes and whichever branch the select takes, if the        *)
(* database works and the entry has a tenant (audit.go, Start and run).    *)
(***************************************************************************)
EarlyEntriesAreWritten ==
    \A n \in 1..MaxEntries :
        n \in early ~> n \in lost \union {written[i].n : i \in DOMAIN written}
=============================================================================
