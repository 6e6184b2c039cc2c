# Verification of NightOwl

NightOwl takes alerts from monitoring systems, deduplicates, enriches and groups them, escalates
them through tiers until somebody acknowledges, plans who is on call, and keeps a knowledge base of
incidents. It is a Go service in two processes (`internal/app/app.go`): the *API* serves webhooks,
the REST interface and the chat integrations; the *worker* runs the escalation engine and the
top-up of the on-call schedules. All lasting state is in PostgreSQL, one schema per tenant; Redis
holds the deduplication keys. There are almost no transactions: an operation is a sequence of
single statements, each of which commits by itself, and the operations of concurrent requests and
of the worker interleave between statements. That is where this code can go wrong and where the
models look.

This directory holds TLA+ modules of the core of the program, the TLC configurations that check
them on small instances, and TLAPS proofs. `PROJECT.json` lists components, runs, mutants (faulty
variants of mapped definitions that a run must reject), hazards, findings, and the source lines
each definition stands for.

    tlc -workers 2 -config AlertLifecycle_safety.cfg MCAlertLifecycle.tla
    tlapm AlertLifecycle_proofs.tla

## 1. Inventory

### Components with a model

| Component | State | Operations | Hard behaviour | What makes it correct |
|---|---|---|---|---|
| Alert ingestion and alert rows (`pkg/alert`) | `alerts` rows: status, fingerprint, occurrence count | webhooks of Alertmanager, Keep and generic senders; acknowledge, resolve | look-up and insert are separate statements; resolved overtakes firing; statements fail half-way | each notification settled at most once, on an alert of its own fingerprint; duplicates only from overlapping requests |
| Deduplication (`pkg/alert/dedup.go`) | Redis key per fingerprint, TTL five minutes | check with fallback to the database, warm, record | the key outlives the alert; concurrent requests warm it with older ids; Redis fails | keys stay within their fingerprint; a stale key delays an alert by its TTL at most |
| Chat acknowledgements (`pkg/slack`, `pkg/mattermost`) | none of their own | ack buttons, ack and resolve commands | reads an alert, then updates it without a condition | an alert resolved in between is reopened, but that never lets a request slot add a duplicate |
| Escalation engine (`pkg/escalation/engine.go`) | `current_escalation_tier`, `escalation_events` | tick: list, read policy, move tier, record, publish | listed rows go stale; a failure between tier and event; several workers; policy edits | follows the dry run of the policy; at most one late escalation per worker; events match escalations |
| Escalation policies | `escalation_policies` | update, dry run | edited while the engine works | see the engine |
| Audit log writer (`internal/audit`) | bounded channel, batch, `audit_log` rows of each tenant | Log, run, flush, Close | channel full; tenants fail one by one; shutdown while handlers log | every entry accounted for; per-tenant order; queued entries are written before exit |
| Alert grouping (`pkg/alertgroup`) | rules, groups with counters, `alert_group_id` | evaluate a new alert, save a rule and backfill, delete a rule | evaluation and backfill race; assign and count are two statements | no alert slips between the two; counters cover the members |
| Incidents and merging (`pkg/incident`), enrichment (`pkg/alert/enrich.go`) | `incidents` with `merged_into_id`; `matched_incident_id` | create, update, archive, merge; match by fingerprint or text | five statements without a transaction; two merges at once; enrichment beside a merge | merged once; no circle; nothing forgotten; alerts follow |
| Incident history (`pkg/incident/service.go`, `incident_history`) | rows of changes with a diff | every operation above inserts one or two entries; GET reads a row and its entries | the entry is a statement of its own, whose failure is only logged; the diff is against a row read earlier; the entry of a merge leaves most columns out | the entries lead from the first row to the last but for what a merge does not tell; what they say of merges is true; a merge is told on both sides |
| On-call schedule (`pkg/roster` store, scheduler, worker) | members, `roster_schedule` rows with locks | generate, top-up, add or deactivate a member, set or unlock a week | generations overlap with each other and with edits; the upsert ignores the lock; counts and look back are statements of their own whose errors are dropped | locks hold; even turns; limit on consecutive weeks; announced weeks stay; duty follows the members |
| On-call resolution, overrides, coverage, calendar (`pkg/roster/service.go`, `store.go`, `handler.go`, `ical.go`) | rosters, weeks, `roster_overrides` | create, update, delete rosters; overrides; set and unlock weeks; who is on call, coverage with gaps, calendar | three readers derive the same fact from three sets of statements while the tables are edited: by dates on the clock of the caller, by instants, by clock times in the zone of the roster | whoever is named was on call at some moment; the readers agree; gaps are exact; weeks do not overlap |

How they interact. A webhook request runs normalisation, deduplication, insert, enrichment and
grouping in one goroutine; enrichment reads incidents, grouping reads rules. The engine reads the
alert rows that requests and people write; nothing but the rows connects the two processes, apart
from two Redis channels: the engine publishes on `nightowl:alert:escalated`, where nobody listens,
and listens on `nightowl:alert:ack` only to log what nobody publishes. Every handler that changes
something hands an entry to the audit writer. Changing the members of a roster generates its
schedule in the same request; the worker generates the schedules of all rosters every six hours.

### Components without a model, and why

- *Handoff notifications*: `HandoffWorker` only logs, and is never started.
- *Slack and Mattermost messages, messaging registry, callouts*: formatting and calls to services;
  their handlers for Twilio change no state.
- *Tenants, authentication adapter*: wrappers of an external library, which creates schemas, runs
  the migrations and authenticates.
- *Tenant configuration, API keys, personal tokens, users and preferences*: one statement per
  operation, nothing to interleave; tenant configuration is one row where the last writer wins.
- *BookOwl client*: forwards requests to another service.
- *Configuration, telemetry, generated queries, API documentation, web interface*: no state that
  changes, or none of their own. `internal/db` is generated and not in the repository; the models
  read the queries in `sqlc/queries`.
- *Seed data*: inserts rows once, before anything else runs. The models use it for the rows the
  interface cannot make (alerts with a policy, rosters with two founders).

## 2. The modules

| Module | Models | Composed with |
|---|---|---|
| `AlertLedger` | what ingestion promises, without Redis and without order of statements | implemented by `AlertLifecycle` |
| `AlertLifecycle` | ingestion, deduplication, people's actions | `AlertLedger` by a refinement mapping |
| `EscalationEngine` | the engine, the policy, the alert rows as the engine sees them | |
| `AuditWriter` | the writer and the shutdown of the API process | |
| `AlertGrouping` | evaluation, backfill, rules, groups | |
| `IncidentMerge` | incidents, merges, enrichment | |
| `IncidentHistory` | the operations on incidents with the history they write | |
| `RosterSchedule` | generation, top-up, members, manual weeks: who gets a week | |
| `OnCall` | rosters, weeks, overrides and the three readers: who is on call | |
| `AlertLifecycle_proofs`, `EscalationEngine_proofs`, `AuditWriter_proofs`, `AlertGrouping_proofs`, `IncidentMerge_proofs`, `IncidentHistory_proofs`, `RosterSchedule_proofs`, `OnCall_proofs` | theorems and proofs | each extends its component; the refinement of `AlertLedger` is in `AlertLifecycle_proofs` |

Each component has an `MC` module with the small instances. An operator introduced by
"Faulty variant" is used by no specification: it is a plausible bug of the definition below it, and
a run must find its property violated with it in place.

**AlertLifecycle.** `status`, `fpOf`, `count` are columns; `cache`, `ttl` Redis; `pc`, `item`,
`target` the local variables of a request, whose `pc` is the next statement. `Receive` is the
handler's loop reaching a notification; `FirstStep` is the three-way split between
`createOrDedup` for firing alerts, `ResolveAlertByFingerprint` for Alertmanager, and
`createOrDedup` for resolved notifications of Keep and of generic senders, which insert a row that
is already resolved. `RedisHit ... WarmCache` are `Deduplicator.Check`, `Increment`, `Create` and
`RecordNew` the rest of `createOrDedup`, `AgentResolve` the tail of `handleGeneric`. `Acknowledge`,
`Resolve` are statements without a condition on the status; `ChatAckRead` and `ChatAckUpdate` the
two steps of the buttons. Every statement has a failing twin where `Faults` allows it; `Crash` stops
the API process. `by` and `closed` are history for the properties.

**AlertLedger** has one variable beside the rows: `notice`, what was accepted in a slot and not
settled. A notification is counted on an alert, entered as a new one, closes all alerts of its
fingerprint, or - only where something may fail or a count is full - is dropped. In the mapping
`notice` is the slot's notification until the statement that settles it.

**EscalationEngine.** `List` is `ListPendingEscalationAlerts`; what it lists is a snapshot in
`todo`. `ReadPolicy` is `GetEscalationPolicy` and the choice of tier (`NextIndex`, `Cumulative`),
then `UpdateTier`, `CreateEvent`, `Publish`, each with its failure; `Restart` stops a worker in the
middle of a tick. `Stop` is an acknowledgement or resolution, `UpdatePolicy` is `handleUpdate`.
Alerts in `Seeded` name the policy; those that a webhook inserts (`Raise`) do not, because
`Store.Create` never sets the column. `DryRun` translates `handleDryRun`. `bumps`, `late` and
`failures` are history.

**AuditWriter.** `entries` is the channel, `writer`, `resume` and `batch` the goroutine, `server`
how far `runAPI` is on its way out. `Log` is the `select` with `default`; a send on the closed
channel panics. A flush writes tenant by tenant in any order, and with a failing database any part
of a tenant's entries may be missing.

**AlertGrouping.** An evaluation (`Insert`, `ListRules`) and a backfill (`SaveRule`, `ListAlerts`)
end in the same three statements `Upsert`, `Assign`, `Count`. What matchers and `group_by` say of
labels is a function of rule content and alert. `DeleteRule` cascades to the groups and clears the
alerts' column, as the foreign keys of the migration do.

**IncidentMerge.** A merge is `GetTarget`, `GetSource`, `UpdateTarget`, `MarkSource`,
`ReassignAlerts`. Fingerprints stand for every column a merge unites. An archived incident points
to itself, as `SoftDelete` writes it. `raced`, `tangled` and `excused` record whether other
statements touched the incidents of a merge meanwhile: without a transaction some properties hold
of merges that did not race only, and the history says exactly which.

**RosterSchedule.** `gen[g]` is the state of one run of `GenerateSchedule`, statement by statement:
`ReadMembers`, then `CountPrimary` and `CountSecondary` of member after member, `ReadSchedule`,
`LookBack` over week after week, then `SkipLocked` or `AssignWeek` for each week of the window, then
`Respond`. A statement whose error is returned ends the run (`GenerateFails`). The errors of the counts
and of the look back are dropped, and the run goes on with a count of 0 or without the weeks before its
window (`Loses`); the history `lost` says which of the two kinds it has lost. `PickPrimary` and
`PickSecondary` translate `pickPrimary` and `pickSecondary`, including the order of ties. `TopUp` is
the loop of the worker, `ChangeMembers` a member handler, which generates afterwards,
`UpdateScheduleWeek` locks. Weeks are numbered: handoff day, times and dates are in `OnCall`. The
founders are different people, as UNIQUE (roster_id, user_id) of migration 000009 has it.

**IncidentHistory.** `row` and `history` are the tables, `request[q]` the local variables of an
operation of the service, whose `pc` is its next statement, `detail` those of a GET. An operation
reads, writes and then inserts its entry: an edit computes its diff from the row it read
(`computeDiff`), a merge marks its source and then tells both incidents, and every insert has a
twin that fails. Five columns stand for those of the table: the fingerprints; the tags, for the lists
that a merge unites as well (services, clusters, namespaces, error patterns); the solution, for the
texts and the severity, of which a merge keeps the longer or the higher; the runbook, which it takes
over; and the post-mortem URL, which has a statement of its own. The entry that a merge writes on its
target has the fingerprints and none of the others (`RecordOnTarget`). `born`, `overlapped` and
`untold` are history.

**OnCall.** `rosters`, `schedule` and `overrides` are the tables. Days are numbered, day 0 a Sunday,
and have `PerDay` instants, counted in UTC. The zone of a roster is an offset, east or west;
daylight saving is left out. A caller gives a timestamp, an instant `at` with an `offset`: handlers
keep it, and where the store compares it with a date, that is the date on the clock of the caller
(`Date`), in `RowsOn` for the on-call endpoint and in `FetchRows` for the window of coverage.
`gen[r]` is `GenerateSchedule` again, with the dates that `RosterSchedule` leaves out
(`AlignToHandoffDay`) and without the choice of a person. `query` is one request that reads:
`GetOnCall`, `CheckOverride`, `LookUpWeek` are the statements of `resolveOnCall`; `GetCoverage`,
`FetchRows`, `FetchOverrides`, `Compute` those of coverage with its active hours (`InActiveHours`,
`InHandoffWindow`) and gaps; `ExportICS`, `ExportWeeks`, `ExportOverrides` those of the calendar.
`Changed` counts the edits made during the request, so that an answer can be compared with the
moments it may come from. `shifted` records the two edits that take weeks off the handoff day.

## 3. Properties

The comment above each property says what it means and which code it is about. The important ones:

- `OneOpenAlertPerSlot` (AlertLifecycle): as look-up and insert are separate, a fingerprint can have
  several open alerts, but one request slot never adds a second one while its first is open.
- `DedupNamesOwnFingerprint`: no key and no decision of a request names another fingerprint's row.
- `ImplementsLedger`: every step of ingestion is a step of the ledger or a stutter.
- `RepeatedFiringIsHeard`: while firing is repeated, an alert is open again and again.
- `OneLateEscalationPerWorker`, `EventsMatchEscalations`, `EngineFollowsDryRun`,
  `DryRunIsCarriedOut` (EscalationEngine).
- `EveryEntryAccountedFor`, `TenantLogInOrder`, `EarlyEntriesAreWritten` (AuditWriter).
- `NothingSlipsThrough`, `CountersCoverMembers` (AlertGrouping).
- `MergesEnd` (a set of incidents that is closed under `merged_into_id` has one that is live or
  archived, so no merges go round in a circle), `MergeForgetsNothing`, `AlertsFollowMerges`
  (IncidentMerge); `MergedOnce`, where an incident was merged to never changes, is a theorem.
- `HistoryExplainsRow` (IncidentHistory): the entries of an incident lead from the row that was
  created to the row there is, column by column, unless requests overlapped on it or an insert failed.
  The columns whose change a merge does not tell are unknown from a merge on, until an edit changes
  them.
- `HistoryIsTrue`, `ClosingIsTold`: however requests overlap, what an entry says of a merge or an
  archiving is true, and each is told on both sides, or will be, or its insert failed.
- `DetailIsExplained`: a GET that reads between two statements of an edit answers a row and entries
  that fit, or misses one that is still being written, with the same exception for merges.
- `LocksHold` and `DutyFollowsMembers` (RosterSchedule).
- `EvenTurns`, `NoLongRun`: a generation that was alone spreads primary duty but for one week, if it
  lost no count, and keeps to the limit on consecutive weeks, if it lost no look back. Without those
  conditions both fail, since the code goes on with what it lost as 0 or nobody.
- `AnnouncedWeeksStay`: generating again changes no week of an undisturbed plan, however top-ups and
  requests interleave and fail, until a read is lost: what is written then is no longer the plan.
- `OneWeekPerDay` (OnCall): weeks never overlap while the handoff day stays and weeks set by hand
  begin on it.
- `AnswerWasTrue`, `CoverageAgrees`, `CalendarAgrees`: three readers, each with its own statements
  and its own arithmetic, name who was on call at one moment during the request. The endpoint answers
  by the date on the clock of the caller (`AnswerWasTrue`). Coverage and calendar go by instants, and
  agree with what the endpoint says when it is asked in UTC; coverage does so for the weeks that begin
  by the date of the end of its window, as the caller wrote it. Section 7 says what these conditions
  stand for.
- `GapsAreExact`: the summary of gaps has exactly the slots in which no roster is on duty. On duty is
  what `isRosterActiveAt` takes for it: overrides do not count, and a follow-the-sun roster without
  active hours has the twelve hours from its handoff. `docs/08-roster-v2.md` has both otherwise
  (`oncall_override` shows the first).
- `RelayHasNoGap`: two rosters that take over from each other leave no gap, across midnight and
  zones.

## 4. Runs and bounds

| Run | Instance | Why it is enough |
|---|---|---|
| `lifecycle_safety` | 2 alerts, 2 fingerprints, 2 slots, all sources, surfaces and failures, TTL 2, count up to 2 | two requests, two fingerprints and two rows are what it takes for a key, a target or an insert to be confused; the largest count is reached |
| `lifecycle_live` | 3 alerts, 1 fingerprint, 2 slots, people resolve, no failures, TTL 2, fair | a stale key, its expiry and another row after it fit in; a third row shows that it happens again |
| `escalation_safety` | 2 alerts, one with a policy, 2 workers, 3 policies edited at any time, 2 failures, 3 escalations | both workers escalate the same row, once before and once after an edit, and fail in between |
| `escalation_plan` | 2 alerts with a policy, 1 worker, 5 policies with ascending tiers, 1 failure, ages to 4, 6 escalations, fair | every tier of every policy is reached and policies that repeat go round at least twice |
| `escalation_repeat` | 1 alert, 1 worker, a policy that repeats once | violation |
| `audit` | 2 tenants and none, channel of 2, batch of 2, 2 handlers, 3 entries, failing database, fair | the channel overflows, a batch fills by size and by ticker, tenants mix in one batch, and the shutdown meets every state |
| `grouping` | 2 alerts, 2 rules, 1 key, 3 contents (takes all, takes one and comes first, disabled), 2 jobs, 1 failure | an evaluation beside a backfill, two backfills, a rule deleted between any two statements |
| `incident` | 3 incidents, 1 fingerprint, 1 alert, 2 merges, 1 failure | chains and circles of merges, the same source twice, enrichment beside both |
| `roster` | 2 users who both found the roster, 4 weeks, 2 ahead, limit 2, one request beside the top-up, a window of the first two weeks, the third week set by hand, 2 events, fair | two generations overlap, each may lose any of its reads, the limit and the look back bite, a week is locked and unlocked inside and outside windows, members come and go while an older generation is still writing; 1.9 million states |
| `history` | 2 incidents, 2 requests, 1 fingerprint, 1 tag, 1 runbook, 1 URL, solutions of length 0 and 1, incidents with nothing, with everything or as an agent leaves them, 2 updates, 4 changes, 1 failure | two edits, an edit beside a merge, merges towards each other, an edit of what a merge has written, an archiving beside a merge, and a GET beside any; 2.1 million states |
| `oncall` | 2 rosters in two zones, 2 users, 2 overrides, days of 4 instants, 3 events, callers in UTC, east of it and two instants west, coverage of a window in UTC and of one from an eastern to a western clock | rosters that relieve each other, one with hours past midnight, one always on duty whose handoff day is 8; two overrides that overlap, an empty one, one across the midnight where weeks change, which callers date differently; a generation or three edits during any of the three readings; 2.3 million states |
| `oncall_override` | as `oncall` | violation |

Bounds of the models that are not in the code: the sets of ids; `MaxFailures`, `MaxAge`,
`MaxEscalations` (an alert that was escalated that often is not listed any more), `MaxActive`,
`MaxEntries`, `MaxChanges`,
`LastWeek`, `Windows`, `Edits`, `MaxEvents`, in `IncidentHistory` `Lengths`, `Reports`, `Updates`, and in
`OnCall` the inputs `Foundings`, `Updates`, `Froms`, `Duties`, `Edits`, `Shapes`, `Timestamps`,
`Windows`. `MaxCount` stands for the 2^31 - 1 of an
INTEGER column, and the statement fails there, as it does in PostgreSQL. `HasRoom` accepts a
notification that may insert a row only while there is an id left for it. Ids, slots and workers
are permuted (SYMMETRY) in runs of safety properties only. Deadlock is checked except where the
system really stops or the ids are used up: `audit` (the process exits) and `grouping` (all alerts
inserted and closed, all rule ids used and deleted).

## 5. Fairness

- *Ingestion*: a request that was received runs on (weak, per slot); Redis' clock runs (weak); a
  monitoring system repeats a firing notification as often as there is a free slot (strong: a free
  slot comes and goes). Alertmanager does so by its `repeat_interval`. Behaviours that use up the
  ids of the model are set aside in the property itself. People are not fair.
- *Engine*: the ticker fires every 30 seconds and `processAlert` runs on (weak, per worker); time
  passes (weak). Neither acknowledgements nor failures nor restarts are fair.
- *Audit*: the goroutine runs (weak); a branch of its `select` that stays ready again and again is
  taken (strong, for the ticker and for the cancelled context): Go chooses among ready branches at
  random. Nothing is assumed of handlers or of the shutdown.
- *Roster*: only the loop of the worker is fair, which runs for ever and whose statements return, if
  with an error. Requests may hang for ever.

## 6. Proofs

`AlertLifecycle_proofs.tla`, for every set of alerts, fingerprints, requests, sources, surfaces and
failures, every TTL and every largest count, from `ConstantsAssumption` alone (ids of one kind do
not contain `None`, TTL and largest count are positive):

- `TypeCorrect`: `Spec => []TypeOK`. `TypeOK` is not inductive, since a step uses the notification
  and the target of its slot, which the type allows to be absent. `TypeInv` adds that a busy slot
  has a notification (`BusyHasItem`) and that one which has decided on an alert has one
  (`HolderHasTarget`).
- `DedupCorrect`: `Spec => []DedupNamesOwnFingerprint`, inductive relative to `TypeInv`. A hit takes
  over what the invariant says of the key, a look-up what the query says, an insert writes the
  fingerprint it then caches, and no statement changes the fingerprint of a row.
- `OneOpenAlertPerSlotCorrect`: `Spec => []OneOpenAlertPerSlot`. The inductive invariant `OpenInv`
  adds that a slot about to insert after a look-up has no open alert of that fingerprint of its own
  (`InsertsItsFirst`); that resolved rows are closed (`ResolvedIsClosed`), so that an
  acknowledgement that reopens one is told apart; and that a pending chat acknowledgement is of a
  row that exists (`PendingExists`), so that it cannot conjure one up. `NoNewOpenAlert` carries all
  steps that neither insert nor send a slot to its insert.

`ImplementsLedgerCorrect`, in the same module, is `Spec => ImplementsLedger`: ingestion
implements the ledger. `LedgerInv` joins the invariants above with `ItemFitsStep`: only a firing
notification reaches the statements that count, and only one that closes all alerts of its
fingerprint gets to the statement that does. Every action then maps to a step of the ledger or to
a stutter; the lemmas on `Notice` say when a slot's notification counts as settled.

`EscalationEngine_proofs.tla`, for every set of policies the constants allow and every finite set of
workers:

- `TypeCorrect`, whose difficulty is that `NextIndex` picks a tier there is; that the first tier
  with a property exists rests on the well-foundedness of Nat.
- `OneLateEscalationPerWorkerCorrect`: a worker lists an alert once (`ListedOnce`), and once it has
  escalated one that is over it does not hold it any more (`LateIsOver`).
- `EventsMatchEscalationsCorrect`: events and escalations differ by the workers between the two
  statements and the failures, a count kept through lemmas on the cardinality of those workers.
- `EngineFollowsDryRunCorrect`: every escalation is the next one of the dry run, and due, under
  `Steady`: one worker, a policy that is not edited, and policies whose tiers ascend from 1. Those are
  the hypotheses of the `escalation_plan` run too; with two workers, an edit in between or tiers out of
  order the code does leave the dry run. `PlanInv` puts every alert at the place in the policy that its
  number of escalations gives it (`OnCourse`) and says that what the worker listed is still so and what
  it chose is due (`DueNow`). `NextIndexFollows` is the lemma on the two ways of walking a policy: the
  engine looks for the next higher tier, the dry run counts.

`AuditWriter_proofs.tla`, for any tenants, number of entries, capacity and size of a batch:
`TypeCorrect`, `EveryEntryAccountedForCorrect`, `TenantLogInOrderCorrect`, from
`WriterInv == TypeOK /\ InOrder /\ Accounted`. What is written, the batch and the channel hold the
entries in the order of logging, and those of the first are ahead of the rest of their tenant
(`InOrder`); every entry that was logged is in one of the three or lost, never both (`Accounted`). The
lemmas say that filtering a batch by tenant keeps order and that a flush loses only what it drops.

`IncidentMerge_proofs.tla`: `TypeCorrect`; `MergedOnceCorrect`; `MergeForgetsNothingCorrect` and
`AlertsFollowMergesCorrect`. `MergeInv` says what a merge that has not raced still knows when it
writes: its two incidents are apart (`BusyHasTwo`), others that share one with it are on record
(`SharingIsRaced`), its incidents are live (`CleanIsLive`) and their rows are those it read
(`CleanReadHolds`). `MergesEndCorrect` needs, beside `MergeInv`, that nobody points to an incident that
is not there yet (`EndInv`): a merge that marks its source gives every closed set that held the source
the target as well, which is live. `AlertInv` adds that what an enrichment holds
is live, or the alert is excused.

`IncidentHistory_proofs.tla`: `TypeCorrect`; `HistoryIsTrueCorrect` (`TruthInv`: entries are true, a
request about to tell of a closing made it, and closings stay); `ClosingIsToldCorrect` (`ToldInv`).
Most steps are quiet, they neither close an incident nor tell of it; the few that do get a step of
the proof each. `HistoryExplainsRowCorrect` replays the entries with a recursive function:
`ExplainInv` says of an incident whose requests came one after the other that the replay so far,
with the entry its request is about to insert, leads to the row (`FitsInv`), and that this request
is alone (`AloneInv`). Both speak of one column at a time, so that a column which a merge left
untold is excepted until an entry has it again (`MergedOver`), whichever request comes next.
`DetailIsExplainedCorrect` adds `DetailInv`: what a GET has read still fits when at most one change
has come in between.

`RosterSchedule_proofs.tla`, for any users, founders, number of weeks, windows, edits, slots for
generations, and any limit on consecutive weeks:

- `LocksHoldCorrect`. `GenerationInv` types the runs of `GenerateSchedule`; `LockInv` says that a week
  which must hold is locked and that no generation at work will write it, since each read it as locked.
- `TypeCorrect`, from `TypeInv`: the members a generation read are some and different
  (`ActiveMembersAre`), so whom it picks is one of them (`LeastServedIs`) and the secondary is somebody
  else; the weeks it has passed, or found locked, have a row (`Provided`).
- `NoLongRunCorrect` and `EvenTurnsCorrect`, from `AloneInv`, which says of a generation that nobody has
  disturbed, whichever of its reads failed: while it counts, it knows the duty of the members it has
  come to (`KnownCounts`), and while it looks back, the run it has found so far (`Looking`). What it
  knows of counts (`SoundCounts`) takes no lost count and nothing of the look back, what it knows of runs
  (`SoundRuns`) no lost look back and nothing of the counts: the two limits hold independently. Then the
  weeks it read as locked are as they were (`Kept`); a run of one primary up to the week
  before is known to `last` and `consecutive` (`Tracked`), from which `PickBreaksRun` follows; a count
  falls short of the weeks served by no more than the locked weeks that were skipped, and the last
  primary is closer to all others than any two members are (`Balanced`). The last part is what makes the
  bound of one week inductive: it pays for the week that the limit on consecutive weeks takes from the
  member who has served least.
- `AnnouncedWeeksStayCorrect`, from `PlanInv`. A generation that loses a read ends the plan, and a
  plan begins only when no other generation is at work. What is planned for a week (`Planned`) is a
  function of the members and the weeks before it: their duty, the run up to it, the limit. From the
  first week of an undisturbed plan on, the table holds the plan without a gap and nothing else
  (`OnlyPlan`); every generation that starts inside it or right behind it, complete or not, knows
  exactly what the table holds (`Exact`), found no lock and has no hole behind it (`Within`), so it
  writes what is there, or the next week of the plan (`PicksPlanned`, `PlanStays`). The plan itself
  comes from a generation that was alone and skipped nothing (`Laid`).

`AlertGrouping_proofs.tla`, for finite sets of alerts and jobs: `TypeCorrect`;
`NothingSlipsThroughCorrect` by `CoverInv`: while nothing has failed, for each alert outside groups
and each rule that takes it, some job has yet to handle the pair; `CountersCoverMembersCorrect`,
with lemmas on how members and uncounted assignments change by one.

`OnCall_proofs.tla`, for any number of rosters, weeks, overrides and instants a day (an even number,
since noon is one), any constant offsets of zones and callers, windows, slot lengths and active hours:

- `OneWeekPerDayCorrect` by `WeeksInv`: the weeks of a roster, and the week that a generation is going
  to write, begin on the same day modulo 7 and differ by more than nothing, hence by at least seven.
  `TypeCorrect` adds the types of generations, overrides and the request.
- `GapsAreExactCorrect`: the loop over the slots (`Scan`) closes gaps and carries an open one;
  `Tracked` says after each slot that the closed gaps and the open one are the slots without anybody,
  in order and apart. `RelayHasNoGapCorrect` is about hours past midnight in two zones.
- `AnswerWasTrueCorrect`, `CoverageAgreesCorrect`, `CalendarAgreesCorrect`: the three readers
  against `OnCallAt`, who is on call at a moment. While at most one edit was made (`Changed(1)`),
  the tables were in two states during the request (`AtMostOne`, `EditInv`), and what it has read so
  far is what one of them held (`OnCallInv`, `CalendarInv`, and `CoverageInv` with `Fetched`). The
  rest is arithmetic. What the endpoint names for a timestamp (`NamedOn`) is who is on call on the
  caller's date, since `RowsOn` finds the weeks in force on the clock of the caller (`RowsOnClock`).
  No clock is a day ahead of UTC (`DayAhead`), so that `LookBack` by the caller's date still fetches
  every week that may cover a slot; at the other end only weeks that begin by the caller's date are
  known (`Known`), which is the exception of `CoverageAgrees`. Weeks do not overlap, and a week is
  found by the day it is looked up for.

Model-checked only. Liveness under fairness (`RepeatedFiringIsHeard`, `DryRunIsCarriedOut`,
`EarlyEntriesAreWritten`, `DutyFollowsMembers`): out of the prover's reach. Every other property of
a passing run is a theorem.

## 7. What the checks show

Everything above holds in its instance. Two statements of the repository do not hold of the code and
have a run that shows how:

1. `escalation_repeat`. `repeat_count` is shown as "Repeats: n", and the engine says it calculates
   "how many full cycles we've done"; it does not, so 1 repeats for ever. As elapsed time counts
   from `created_at`, the repetitions come one per tick and tier.
2. `oncall_override`. "If an override exists during what would be a gap, the gap is filled"
   (`docs/08-roster-v2.md:778`, and `:789`). Coverage looks at overrides only of rosters that are on
   duty, so the gap stays.

Others were met while modelling. They have no run of their own: a property that holds excepts what
the code does, and fails without the exception, or the model shows it.

- "primary duty spread evenly across all active members" (`docs/08-roster-v2.md:182`). The errors of
  the counts are dropped (`scheduler.go:37`, `:39`): a count that fails is 0, and whoever has served
  most is picked again. `EvenTurns` excepts generations that lost a count (`Loses`).
- Anyone who has been primary for `max_consecutive` weeks is filtered out (`:173`). The errors of the
  look back are dropped (`scheduler.go:60`, `:67`): the run starts afresh. `NoLongRun` excepts
  generations that lost it (`LookBack`), and either loss rewrites weeks that were announced, which
  `AnnouncedWeeksStay` excepts.
- GET "returns the incident with its full change history" (`docs/api/openapi.yaml:260`), and edits to
  solutions are tracked by diffs (`docs/01-requirements.md:39`). The entry of a merge has the
  fingerprints only (`service.go:292`); a solution, severity or tag it has overwritten is in none
  (`RecordOnTarget`). `HistoryExplainsRow` and `DetailIsExplained` take those columns for unknown
  (`MergedOver`).
- "finds the schedule entry covering a specific timestamp" (`store.go:413`). The timestamp keeps the
  offset of the caller, and its own date is compared with the dates of the weeks (`store.go:424`):
  next to midnight UTC one instant has two dates, and two people are on call at it (`RowsOn`).
  `AnswerWasTrue` goes by the date of the caller.
- Coverage looks up who is on call in every slot (`docs/08-roster-v2.md:678`). `ListSchedule` gets the
  end of the window as it was given (`service.go:282`): on a clock west of UTC the week that begins on
  the last day is not read, and its slots are unassigned (`FetchRows`). `CoverageAgrees` excepts that
  week.
- A roster without active hours is "treated as 24h coverage during scheduled weeks" (`:777`). A
  follow-the-sun one has twelve hours (`OnDuty`, in `GapsAreExact`), as
  `docs/04-integrations-workflow.md:249` says.
- The engine steps unacknowledged firing alerts through tiers (`docs/02-architecture.md:222`). It lists
  alerts with a policy, and ingestion never sets one (`pkg/alert/store.go:44`): what a webhook inserts is
  never escalated (only `Seeded` alerts have a policy in `EscalationEngine`).
- The dry run "simulates the full escalation path" (`docs/04-integrations-workflow.md:313`). With tiers
  listed as 2, 1 the engine stops after tier 2. `EngineFollowsDryRun` and `DryRunIsCarriedOut` are
  checked with ascending tiers.
- `dedup.go:51` says that Check returns the id of "a matching open alert". On a Redis hit it returns
  whatever id is cached, and resolving deletes no key: for up to five minutes a firing is counted on
  a resolved alert (`RedisHit`). `RepeatedFiringIsHeard` bounds the damage.
- "Close waits for all pending entries to be flushed" (`audit.go:72`), but the goroutine has ended
  with the context by then, and what handlers log until the HTTP server has shut down stays in the
  channel (`AuditWriter`).
- The create-incident dialogs of Slack and Mattermost pass nil fingerprints to a NOT NULL column
  (`pkg/slack/handler.go:296`, `pkg/mattermost/interactions.go:166`), so that the insert fails.
- "It is idempotent" (`internal/seed/seed.go:26`), but a first run that failed half-way is never
  completed by a later one.

Properties had to be stated weaker than the documentation in these places, and each property says
so: a lock on a week set while a generation is at work is lost (`docs/08-roster-v2.md:129`,
`LocksHold`); weeks locked inside a window do not count as served (`:169`, `EvenTurns`); the top-up
rewrites all unlocked weeks rather than fill unscheduled ones (`:477`, `AnnouncedWeeksStay`); a
policy whose tiers are not in ascending order skips tiers, so the passing runs of the engine's plan
have ascending ones (`EngineFollowsDryRun`, `DryRunIsCarriedOut`); merges that race can go round in
a circle, forget a fingerprint or leave alerts behind (`MergesEnd`, `MergeForgetsNothing`,
`AlertsFollowMerges`). The first tier of a policy is notified only after its own timeout, in engine
and dry run alike.

Not covered by a property yet: the schedule that a roster's creation generates in a goroutine on
the connection of the request (`handler.go:108`), as connections belong to an external library.

## 8. Plan

1. `AlertSystem`: ingestion, engine, grouping and acknowledgements composed over one table of
   alerts: an acknowledged alert is not escalated for ever, and duplicates of one fingerprint end in
   one group.
2. Widen what exists: activation and end date of rosters once the code looks at them, several
   rosters in the top-up, tenant configuration, the seed's order of statements.
3. Proofs: the theorems of `AlertSystem`.

## 9. Not modelled

Beyond the components listed in section 1: the text of messages, notifications and logs; matching of
labels and full text, which are constants of the modules; authentication, tenants' schemas and
connections, which an external library owns; daylight saving, which makes the offset of a zone
change with the date (`OnCall` has zones with constant offsets); the HTTP calls to Slack, Mattermost
and BookOwl, which change no table and are not repeated. A component with one statement per
operation has nothing that interleaves, and its model would restate its SQL.
