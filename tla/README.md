# OpenSOAR in TLA+

A formal model of OpenSOAR (`src/opensoar` and the playbooks of
`playbooks/examples`): from a webhook to the committed run rows of the playbooks
it triggers, what playbooks, analysts and the retention purge do to alerts and
incidents, observables and their enrichment, accounts and API keys, the scheduler
and the anomaly detection, the playbook registry and the configured integrations.
The interleavings of API requests, Celery workers, crashes, retries and
redeliveries are modelled. TLC checks the modules on small instances, TLAPS proves
their invariants for every size of the system.

Paths below are relative to `src/src/opensoar` unless they start with `docs/`,
`tests/` or `playbooks/`.

## 1. Inventory

| Component | State | Operations | Hard because |
|---|---|---|---|
| Webhook ingestion (`api/webhooks.py`, `ingestion/webhook.py`) | `alerts` rows, `duplicate_count` | receive an alert: SELECT, INSERT or UPDATE, dispatch, COMMIT | concurrent requests; dispatch before commit |
| Webhook gate (`middleware/rate_limit.py`, `api/webhooks.py`, `api/api_keys.py`) | request times per client and process; keys | admit, check a key, stamp it, revoke it | the edge of the window; a key revoked while it is stamped |
| Trigger matching (`core/triggers.py`, `core/registry.py`) | in-memory registry | `match` | ordering, duplicate trigger types |
| Queue routing (`worker/routing.py`, `worker/tasks.py`) | three broker queues | `delay` | boundary of the ranks |
| Celery tasks (`worker/tasks.py`, `worker/celery_app.py`) | messages, retries, task results | execute a playbook or a sequence | crash, redelivery, retry, late acknowledgement |
| Registry (`core/registry.py`, `api/playbooks.py`) | modules, registry of each process; `playbook_definitions` | discover, sync, reload, enable | check-then-insert, iteration over a live dict, row locks |
| Executor (`core/executor.py`) | `playbook_runs` | execute | order of flush, body and commit; one session per run |
| Actions (`core/decorators.py`) | `action_results`, the session | attempt, record, back off | recording inside the attempt; gather on one session |
| Playbooks (`playbooks/examples`, `runtime.py`) | the alert, through two kinds of sessions | resolve, assign, escalate, isolate, report | stale attributes, row locks until the end of the run, timeouts after a COMMIT |
| Alert API (`api/alerts.py`) | status, determination, assignment, `resolved_at`; activity trail | update, claim, bulk, delete, create or link an incident | lost updates, reopening |
| Incidents (`api/incidents.py`, `api/incident_templates.py`) | incidents, links, templates | create, update, link, unlink, save a template, dispatch its playbooks | check-then-insert; templates that change |
| Comments (`api/activities.py`, `comments/`, `notifications.py`) | comments with history, mentions | post, edit, notify | JSON history in place; notification after the COMMIT |
| Enrichment (`worker/enrichment.py`, `api/observables.py`) | observables, in-flight keys | materialise, enqueue, run | task before commit, TTL, read-modify-write |
| Enrichment cache (`integrations/cache.py`) | cached results with TTL | get_or_fetch, invalidate | invalidation against a fetch in progress |
| Scheduler (`core/scheduler.py`) | `last_run`, Redis locks | tick | several instances, lock TTL, wall clock |
| Anomaly detection (`ai/anomaly.py`, `worker/anomaly.py`) | anomalies | compute signals, store each once a day | overlapping passes, midnight |
| Retention (`retention/service.py`, `worker/retention.py`) | `archived_at` | archive, purge | foreign keys roll the purge back |
| Accounts (`api/auth.py`, `auth/`, `bootstrap_admin.py`) | analysts, roles, tokens | register, bootstrap, update, change a password | the last admin, the unique name |
| Integrations (`api/integrations.py`, `integrations/loader.py`) | instances and their health | create, edit, delete, check | a slow call between SELECT and COMMIT |

The components meet in the database (PostgreSQL, READ COMMITTED; each request, run
and health check has a session of its own, which writes the columns it has
changed) and in the Celery broker (Redis). Nothing else is shared: the API process
never waits for a worker.

What makes them correct: an alert is one row per key; a task that was accepted is
executed or reported as failed; the playbooks of an alert run in order, each with
that alert; what is recorded of a run is what happened; every run ends. The
activity trail of an alert or incident tells the state it is in, whoever wrote it;
nothing is purged before its time; what an operator or administrator has set is
not undone by what runs beside it; there is always an administrator.
`PROJECT.json` lists the places where this is hard to test, with the properties
that cover each.

## 2. Modules

```
SoarState        shared: alerts table, broker
  |- AlertIngest     webhook requests (API process)
  |- PlaybookWorker  Celery workers, executor, sync_to_db
       \- AlertPipeline   composition, DELETE /alerts, manual and template runs
            \- PipelineLedger       the refinement of TaskLedger
                 |- MCAlertPipeline
                 \- AlertPipelineProofs  TLAPS
TaskLedger       abstract: what is promised of a task
ActionRetry      the @action wrapper inside one run
  |- MCActionRetry, ActionRetryProofs
TriggerMatch     match() and the choice of the queue
  |- MCTriggerMatch, TriggerMatchProofs
Enrichment       observables: materialise, claim, task, cache, endpoints
  |- MCEnrichment, EnrichmentProofs
CaseRows         alerts, incidents, links, activities, comments; a session
  |- AlertApi        handlers of api/alerts.py
  |    |- IncidentApi     handlers of incidents and templates
  |    |- Responders      the example playbooks
  |- Comments        comments, mentions, notifications
  |- Retention       the purge
       \- CaseWork        composition of the five
            |- MCCaseWork, CaseWorkProofs
Accounts, WebhookGate
  \- Access         administrators create and revoke the keys of the gate
       |- MCAccess, AccessProofs
Scheduler, Detection
  \- PeriodicDetection   the detection as the job of the scheduler
       |- MCPeriodicDetection, PeriodicDetectionProofs
Registry, Integrations
  \- Catalogue      what an installation runs
       |- MCCatalogue, CatalogueProofs
```

**SoarState** has the committed rows (`alerts`, `dup`) and the broker (`queue`,
`copies`). An alert is named by the request that inserts it. A message is `<<task,
alert, retries, copy>>`: `self.retry()` adds one to `retries`, a redelivery makes
a new `copy`; so a message is exactly one delivery, which is also the scope of one
`sequence_id`. The three queues of the broker are one set here: workers take
messages in any order.

**AlertIngest** splits a request at its awaits: `SelectNone/One/Many` (the
deduplication query and `scalar_one_or_none`), `FlushInsert/FlushUpdate`,
`Dispatch`, `Commit`, and `Abort` for every early end. A flushed write is visible
to others only after `Commit`; a flushed UPDATE holds the row lock (`Locked`). The
history `beside` has the requests that were open together with a request, for the
properties. What `_auto_enrich` does between the flush and the dispatch of a new
alert is the module Enrichment; nothing here reads the rows it writes.

**PlaybookWorker** is one record per Celery pool process: `Receive`,
`UnknownPlaybook`, `SyncSelect`/`SyncCommit` (`sync_to_db` and its unique name),
then for each playbook `SelectAlert`, `FlushRun` (with the foreign key), `RunBody`
(returns, raises, is cancelled, exits, or leaves a broken session), `CommitRun`;
at the end `Finish`, or `Retry`/`GiveUp`, and `Ack`. Faults are `DbError`, `Crash`
(the node; redelivered), `ProcessLost` (one pool process; acknowledged, because
`task_reject_on_worker_lost` is not set) and `VisibilityTimeout`. Celery and
PostgreSQL are modelled from the way the code configures and uses them.

**ActionRetry** models the attempts of every action of a playbook and the one
session they share. The session is SQLAlchemy's: a flush during another flush
raises, a refused flush rolls back and leaves the session broken. The variable
`gather`, fixed at the start, chooses between `asyncio.gather` and awaiting in
turn.

**TriggerMatch** makes each iteration of the loops of `match` and
`highest_priority_queue` a step, so that what they compute is an invariant.

**Enrichment** follows a new alert's IOCs through `_auto_enrich` (one step per
SELECT, `Flush`, `Consult` for the cache, `Mark` or `MarkInMemory` for the
in-flight claim, `Delay`, `Commit`) and the task through a worker (`Receive`,
`Get`, one `Hit` or `Miss`/`Fetched` per source, `Complete`, `Fail`, `Swallow`,
`Clear`, `Ack`), with the endpoints that create observables and add or drop
enrichments. `scene` fixes which alerts, posts, edits and workers take part. A row
is named by the call that inserts it. `Column` is the ORM's rule that only changed
columns are written. Faults are `Crash`, `ProcessLost`, `Redeliver`, and
`ExpireClaim`; `slips[k]` counts the claims of a key that expired under a running
task, were bypassed in memory, or belong to a delivery that was repeated.

**TaskLedger** says what is promised of a task without requests, messages or
workers: it is accepted once; attempts go through its playbooks from the first
one, in order; a closed attempt does no more, and leaves the task to another or
gives it an outcome, "returned" only after the whole sequence. **PipelineLedger**
maps the pipeline to it: an attempt is one delivery, done are its committed runs,
closed is acknowledged.

**CaseRows** has the tables analysts work on and the one shape of their handlers:
a SELECT loads rows, checks and sets attributes (`Load`); the COMMIT writes the
columns that differ from the loaded ones (`Merge`), adds the activities, links and
rows, and fails where an UPDATE finds no row or a foreign key is violated
(`CommitFails`). Other calls commit in between. Dates are days; a NULL date is 0.

**AlertApi** and **IncidentApi** are the handlers up to the COMMIT: what each
loads, refuses, sets and logs. `TriggerTemplatePlaybooks` is the dispatch after
the COMMIT of an incident, playbook by playbook; it may fail after some of them
(`TriggerFails`). **Comments** adds and edits comments: `HistoryAfter` is the list
that edits extend, `NewMentions` who is told after the COMMIT, one by one
(`Notify`), unless the process dies (`DieBeforeNotify`). **Retention** is the
purge, an UPDATE or DELETE per table in one transaction, by the daily task with
its retries and by hand, against the foreign keys of runs (`Blocked`). Without a
grace period it deletes what it has just archived (`Older`, `Swept`).

**Responders** runs tasks of one or two of the six example playbooks on an alert.
A run loads the alert into the session of the executor, or finds the object that
the playbook before it has left there, whose attributes the COMMIT does not expire
(`StartRun`, `Holding`); the helpers of `runtime.py` work on that object and flush
at once, which locks the row until the run is committed (`Flushed`, `Waits`); all
other actions open a session of their own (`OwnSession`). What a lookup or a
language model says is a free choice. A timeout can come before or after the
COMMIT of an action (`ActionTimesOut`), and a flush that waits for another run
fails the task (`FlushTimesOut`), which Celery starts again (`TaskFails`). The
variable `desk` of **CaseWork** fixes which kinds of calls a behaviour mixes.

**Accounts** splits each request into the step that authenticates, reads and
checks, and the COMMIT; `Written` is the rule for columns. **WebhookGate** is the
rate limiter, with a bucket for each process and client, who is known by the
prefix of the key sent or else by the address (`Senders`, `Limit`), and the check
of the key. Nothing is awaited while the limiter's lock is held, so it is one
step. `overlapped` (also in Detection) records that two requests were between
check and COMMIT at the same time, where the code promises nothing.

**Scheduler** has a clock that counts seconds for `time.monotonic()` and Redis,
the wall clock of each instance, which is ahead of it by a number of seconds
(`Wall`, `skew`) that `SetClock` changes between ticks, the tick bucket and the
Redis key with its TTL; `starts` and `own` are histories. **Detection** computes
the signals over day counts (`Raising`, `Spikes` in integers) between its two
SELECTs and the COMMIT; its day and its window, which begins within a day
(`WindowStart`), come from the wall clock of its instance.

**Registry** scans files in one step (nothing is awaited), and syncs the
dictionary of a process in a loop that awaits the database at every name:
autoflush, row locks (`WaitsFor`), the unique name, a dictionary that a reload has
replaced (`Changed`). A file is its playbook's name, so importing files in order
(`InOrder`) sets the entries that are there in place and appends the others
(`Register`). **Integrations** has the edits of instances and the health check,
which calls a service between its SELECT and its COMMIT; the histories `moved` and
`met` say what happened to the row in between.

Definitions that begin with "Mutant:" in their comment are deliberately wrong
variants of the definition after them. They are part of no specification; each
shows that a property would notice that bug.

## 3. Runs

| Run | Instance | What it shows |
|---|---|---|
| `pipeline` | two scenes (`SceneSpec`): 1 request, 2 playbooks (one without a definition row), 2 workers, 1 retry, 1 fault; or 3 requests with one key, deletions and rollbacks | order and uniqueness of runs per delivery, foreign key, no lost task, explained repetition, the inductive invariant (which includes the type of every variable), and the refinement of TaskLedger; two alerts with one key come from requests that overlapped; what `duplicate_count` may be |
| `settle` | 1 request and 1 single run (by hand or from a template), 2 workers, one with an older image, 1 retry, 1 fault, with fairness | every task comes to rest; only the delivery that inserted the alert runs without it |
| `actions` | 3 actions with 0, 1 and 1 retries, in turn and gathered, 1 refused flush, with fairness | finality of failures, results on record; in turn, one record each; the run ends |
| `matching` | all registries of 2 playbooks (2 orders, 3 priorities, 3 kinds of conditions), 5 payloads, 2 sources | the list is exact and duplicate-free; no playbook waits in a queue less urgent than its own |
| `enrichment` | three scenes: 2 alerts with one IOC on 2 workers, without an integration; with one, 2 alerts and a row posted to an incident; 1 alert, a post and a call that adds or drops an entry, with a worker and the cache | each enrichment in progress beyond the first has its cause; a pending observable has a reason |
| `cases` | 3 calls (3 comments) in 9 mixtures, 2 alerts, 1 incident, 2 versions of a template, 2 analysts | the trail tells the status; resolved alerts have a determination; links are accounted for; templates, histories and mentions |
| `lifecycle` | 2 calls and 5 days of purges, or calls and 2 tasks of the example playbooks with 1 retry, on 1 alert and 1 incident | the trail with playbooks at work; a run's resolution lands; nothing is purged early; a blocked purge stays blocked |
| `access` | 3 account requests on 2 names from 0, 1 or 2 admins; 3 webhooks of two clients (a key, an address) in 2 processes, window 2, limit 2, with key requests | there is an active admin, and one bootstrap; the window; a revoked key stays revoked |
| `detection` | 2 instances, interval 2, TTL 1, wall clocks up to 1 second apart, in two scenes: no alerts, 3 seconds, and clocks that are set between ticks; or a past of 1 or 2 alerts, 1 new alert, 2 addresses, 2 severities, clocks that are not set, fewer seconds | starts of one bucket are a TTL apart; an instance does not repeat a bucket by itself; a signal once a day; first-seen addresses are reported |
| `catalogue` | 2 API processes and a worker, 3 syncs, 2 files, 2 edits; or 3 editors and 2 health checks of 2 configurations | a successful scan is complete; no two API syncs wait for each other; an instance shown healthy with a broken configuration has an explanation |

Two runs are violated, by disagreements between the code and a comment, a test or
a document (quoted in `PROJECT.json`):

| Run | What happens |
|---|---|
| `dedup_race` | two deliveries of one key insert two alerts, after which every further delivery of the key fails |
| `execution_order` | a playbook of the trigger type "webhook" comes after one of the source, though its `order` is lower |

Other departures from comments and documents are in the model without a run of
their own:

* `duplicate_count` loses increments (`FlushUpdate` writes the count that was
  read), and a duplicate dispatches its playbooks again (`Dispatch`).
* A worker can overtake the COMMIT of a delivery: the playbook runs without its
  alert (`UnseenOnlyAtArrival` says for whom), and an observable stays pending for
  good (`PendingExplained`).
* An action that succeeded is called again when its record could not be flushed.
* A sequence of low-priority playbooks only goes to the default queue (`Route`),
  though `worker/routing.py:62` has it in the most urgent queue of its playbooks;
  `NothingLingers` says what holds.
* `SystemExit` in a body commits the run as "running" (`RunBody`).
* A run that resolves an alert it had loaded as resolved, or that the playbook
  before it in the sequence has resolved, leaves it as an analyst has reopened it
  (`ResolutionLands`); `isolate_endpoint` reopens resolved alerts; an escalation
  can leave a resolved alert with the determination "unknown".
* Of two edits of a comment that overlap, one may lose the text of the other; only
  the first text is safe (`OriginalTextKept`).
* Two admins who demote each other leave none (`overlapped`).
* A bucket may be started again once its key has expired, as the TTL (60 s by
  default) is shorter than an interval of 15 minutes; by the same instance only
  after a failure, a restart or a clock set back (`StartsApart`,
  `TickNotRepeated`).
* Of two health checks that overlap, one may lose its verdict
  (`HealthyExplained`), though the endpoint means to persist the result.
* An alert or incident that was archived and then reopened is purged nevertheless.
* An exception of an unlisted type in one playbook file stops discovery (`Fatal`).
* A reload that fills the dictionary to the same size again is not noticed by the
  iterator of a sync in progress, which goes on in the new one, without the
  playbooks before its position and perhaps backwards in the order of locks: the
  condition `overrun` in `ReloadComplete` and `ApiSyncsNeverDeadlock`.

### Bounds

`MaxRetries` is 1 instead of 3: the retry path and its exhaustion both occur.
`MaxFaults` bounds crashes, lost processes and redeliveries, which would otherwise
make the number of copies unbounded; one fault already gives two concurrent
executions of one task. `MaxDbErrors` bounds refused flushes; one breaks the
session for good. Two playbooks are enough for an order, two workers for a race on
`sync_to_db` and for a concurrent redelivery, three requests with one key for
insert, lost update and `MultipleResultsFound`. `MaxCopies` and `MaxSlips` (for
each value) bound redeliveries and lost claims in Enrichment: one of each already
gives two enrichments at once.

In CaseWork two overlapping calls make a lost update and a third shows what is
built on it; `desk` lets calls meet that touch the same rows, which keeps mixtures
of unrelated ones out. `MaxDay` is 5 with retention and grace of one day: an alert
is archived on the third day, purged on the fifth, and can be resolved, reopened
and blocked between. `TaskRetries` and `PurgeRetries` are 1 in `lifecycle`. In
Access two processes and three requests reach and cross a limit of 2, and one key
and one address are two clients in one process; `MaxTime` is two windows. In
PeriodicDetection `MaxClock` covers two buckets and two days; the TTL is shorter
than the interval, so a key can expire within its bucket; with `MaxSkew` two wall
clocks are in different buckets at once, and one that is set back names an old
one; each instance may be late, fail or restart. Wall clocks are set between ticks
only. `MaxEdits` allows a file to break and to be repaired.

Symmetry is used where calls, workers, writers, instances or processes are
interchangeable and no liveness is checked; `settle` tells its workers apart and
checks liveness, and does not. The theorems do not depend on any of these bounds.

Deadlock is not checked: the systems stop when every request is answered and every
message acknowledged.

### Fairness

`settle` assumes that the event loop continues every request, and that a worker
continues the message it holds and takes another when idle. The second includes
that playbook bodies end: actions have a timeout (300 s by default), playbooks
have none, so this is an assumption about playbooks. `actions` assumes that each
attempt ends (`wait_for` bounds it) and that sleeps end. Faults, deletions, manual
runs and failures of a function are never assumed to happen.

## 4. Proofs

All theorems hold for arbitrary constants that satisfy the named assumptions,
which TLC evaluates on every run, as it does the assumptions of the modules
without proofs: `ConstantsAssumption`, `WorkerAssumption`, `ActionAssumption`,
`MatchAssumption`, `SeedsAssumption`, `PastsAssumption`, `EnrichmentAssumption`,
`RegistryAssumption`, those of the gate, the scheduler and the detection,
`InstancesAssumption` (it is the instances of the scheduler that detect), and in
CaseWork `IdAssumption` (alerts and incidents have names of their own, and calls
have none of theirs), `BodiesAssumption`, `IncidentPatchAssumption`,
`TemplateAssumption`, `SubjectAssumption`, `DeskAssumption` and
`RetentionAssumption` (what requests may ask, which sessions meet, and that
periods are numbers of days). `SeedsAssumption` says of the tables a behaviour
starts with what `AdminsRemain` says of all later ones: where an account was ever
inserted as an admin, one admin is active.

**AlertPipelineProofs.** `SequencePrefix`, `RunsKeepTheirAlert` and
`TaskAccounted` are not inductive. The strengthening `IInv` adds

* `MessagesKnown`, `Undispatched`: no message comes from a copy that does not
  exist yet, so a published or redelivered message is new;
* `OneActiveDelivery`: of one copy of a task at most one message is queued or
  executing. A retry publishes its successor *before* it is acknowledged, so the
  two coexist, but the older one commits nothing any more;
* `RunsBehind`, `Progress`: the runs of a delivery are at positions before the one
  being executed, and all of those are there. With the previous point this gives
  the prefix property; `Progress` also records that an open run row pins its
  alert, which with the guard of `DeleteAlert` gives `RunsKeepTheirAlert`;
* `RetryCovered`: a message that was retried and not yet acknowledged is backed by
  a witness with more retries (a message, a worker, or a final result). The order
  on retries is what makes the argument well-founded: without it two
  acknowledgements could each rely on the other.

Each action is a lemma per part of `IInv`; steps of a worker that only move its
program counter share one lemma (`StaysLemma`).

The refinement (`ImplementsTaskLedger`) needs two more facts, `LedgerInv`: a
delivery that is over, acknowledged or about to be, has fewer retries than any
message or active delivery of its copy and no other worker acknowledges it
(`EndedBehind`), so whatever a worker executes or acknowledges is still open for
the ledger; and only a fault makes a copy beyond the first (`CopiesBounded`), so
every delivery is one of the finitely many attempts. Then a first publication is
`Accept`; a committed run is `ExecuteNext`, because by `Progress` and `RunsBehind`
the positions executed are exactly those before it; an acknowledgement is `Leave`
or `Conclude`; and every other step, redeliveries included, changes nothing that
the ledger shows. The simulation is of steps; liveness of the pipeline is
`TasksSettle`, which TLC checks. `CopiesBounded` also gives `RepeatsExplained`:
without a fault there is one copy, without a retry one delivery, and a delivery
commits a position once.

`OriginInv` follows the alert that a message names: an alert in the table was
committed by a request that is over (`AlertsDone`), so one that was deleted never
comes back; a message about an alert of another request was published when that
request was over (`Origins`); and a playbook that did not see such an alert finds
it gone when it flushes its run row (`LateInsert`). `UnseenOnlyAtArrival` is part
of it.

`DedupInv` is about deduplication. Requests that are open together are beside each
other (`OpenOverlap`), so what a SELECT has returned can be outdated by a request
beside it only, and two alerts with one key stand because their requests were
beside each other (`TwinsInv`, hence `TwinsOverlapped`). Of every alert,
`CountsOf` bounds the `duplicate_count` in its row and those that open requests
have read (`CountedIn`): between 1 and the deliveries merged into it, and exact
where all of these were separate (`DuplicatesCounted`).

**ActionRetryProofs.** `IInv` adds that every call is an attempt, that the action
waiting for a flush is the one flushing and its row is being written, and that
failures are written only by an action with nothing left to try. For
`InTurnExact`, `InTurn` says of a run that awaits in turn that at most one action
is under way, so the session never refuses it, and that every win is on record or
being written.

**TriggerMatchProofs.** The loop invariants: the names seen are those listed; they
come from the trigger types gone through and the visited part of the current one;
the inner loop visits in order; `best` is "high" once a high playbook was met,
which gives `NothingLingers`. Another (`ByTypeThenOrder`) says in which order the
list is: by trigger type first, which is what the document leaves out.
`ValueOverlap` shows that the four cases of `_condition_value_matches` are overlap
of two sets of values.

**AccessProofs.** Of the accounts, `AccountsInv` says what a loaded request is
going to write (`Plan`) and, while no two requests that may change who is admin
have been open at once, that the account an update has loaded still has the role
and the activity it was loaded with, and that an active admin is left without it
or with what will be written (`UpdateCurrent`): the check of
`_assert_not_last_active_admin` is made long before the UPDATE. `AdminsRemain`
follows. Of the gate, `GateInv` says that a bucket of the limiter, which pruning
shortens, still lists as many requests of any part of the current window as were
let through (`Counted`); so a request that finds the bucket short finds the window
short, and no window, at whatever second it ends, holds more than `MaxRequests` of
one client in one process. `RevokedForGood` needs the types only.

**PeriodicDetectionProofs.** A start of the job leaves its key for `LockTtl`
seconds (`Keyed`), so two starts of one bucket are at least that far apart
(`StartsApart`), on whatever wall clocks. For `TickNotRepeated`, `OwnReached`: the
wall clock of an instance had reached every bucket it has started when `last_run`
was advanced, and `last_run` is an interval old when the job is due again, so the
next bucket is a later one. Of the detections, `NotStored`: what a detection that
has read the anomalies is going to store is not there for its day, kept as long as
no two are open at once. `FirstSeenInv` needs no such condition: of each alert
that an open detection has read, the window has seen the address, or it has been
reported, or the detection is going to report it (`Promised`), and interleaved
commits, whose dates may be a day late, only add to that.

**EnrichmentProofs.** `InflightBound` is not inductive: `Claimed` adds that one of
the enrichments of a key has the claim in Redis, while each of the others has its
slip, and `OwnTasks` that a delivery is held by one worker only, without which two
workers could give back one claim. `DELETE` of a claim, its expiry and a crash
after the claim was given back are the steps that need the sum to be counted;
requests about to dispatch and deliveries are counted together (`Delaying`,
`Running`). `AccountsInv` follows an observable from the loop that skips or
dispatches it (`RequestAccounts`, before there is a row) over the COMMIT to the
outcome of its task (`WorkerAccounts`: a status that a worker has loaded and
therefore does not write is one that somebody stored).

**CaseWorkProofs.** `Shape` has the types of the tables and sessions and, for each
session that has loaded its rows, the relation between what its UPDATE will write
and the entries it will add: a status that differs from the loaded one comes with
the entry that says so and no other (`Spoken`, `AlertSaid`, `IncidentSaid`), and
likewise determinations, creations and links (`DeterminationSaid`, `CreationSaid`,
`LinksSaid`). It is shown once for each handler and playbook action. Every step is
then one of a few kinds (`StepOK`: a session opens, closes, commits or ends, the
purge commits, or nothing that a trail could show changes), and the invariants
below are argued by kind and not by handler. `Lands` says where the entries of a
trail are after a COMMIT: those of earlier sessions in their order, without those
of deleted rows, then the new ones in theirs.

* `TrailInv`, with `Dated`, gives `IncidentTrail` and `AlertTrail`. A COMMIT
  writes the columns that differ from the loaded row, not from the current one;
  what it does not write it does not say either, so the last entry of the trail,
  whoever wrote it, is about the value that is there. Entries are archived and
  purged from the beginning of a trail, because dates never decrease along it
  (`Dated`), so that the end survives as long as anything does.
* `DeterminationInv` gives `ResolvedDetermined`: a determination that a session
  has loaded is not unknown again, unless an entry says that somebody has reset
  it, so that the check on the loaded row holds for the current one.
* `LinksInv` gives `LinksAccounted`. A link bears the name of the call that has
  committed it, so that no two calls write the same; the links of a pair and the
  entries about it, which a COMMIT adds to and a DELETE removes from, are counted
  with bijections between positions before and after it (`PairsLand`).
* `TemplateInv` says that what was sent is a prefix of the playbooks of the
  version the call has loaded, and all of them when it is done, and `TalkInv` the
  texts, histories and mentions of comments to what the edits in progress have
  loaded (`OriginalTextKept`, `MentionsNotified`).
* `PurgeInv` gives `NotPurgedYoung` and `BlockedForGood`: an archived row was past
  its retention on the day it was archived, and after a blocked purge some overdue
  alert has a run, which is never deleted. `ResolutionLands` needs `Shape` only.

For these proofs the model selects entries with `Kept`, which says which positions
remain and in which order: the recursive definition of `SelectSeq` is out of the
provers' reach. `LinksAccounted`, `AlertTrail` and `ResolvedDetermined` are stated
where the purge does not run, which deletes old entries and keeps rows and links.

**CatalogueProofs.** `Orderly` says of a sync whose process has not been scanned
again: its dictionary lists the files in ascending order, each playbook it has
come to is set, held or defined, and the names it holds come before the one it has
set. The first gives `ReloadComplete`, where `AllReached` shows that a scan that
no file stops has come to every file. The last gives `ApiSyncsNeverDeadlock`:
where two wait for each other the names would be both smaller and larger. The
proof does not go through without the condition `overrun`, and rightly: with four
files and six edits two API processes deadlock after a reload that the iterator of
one has not noticed, in behaviours that the bounds of the run leave out. For
`HealthyExplained`, `Knows` says of a check in progress, or one whose verdict
still stands, that it has the configuration of the row unless that was changed
since its SELECT, and the status unless another check was saved since (`Reads`);
and `InstanceInv` that a row which says healthy owes it to a check that found it
so (`Found`), as an identifier is never used again. Two lemmas stand in for
induction: `Climb` (an interval through which a set can be climbed is part of it,
by counting the numbers above the first exception) and `InOrderEnumerates`
(sorting is possible, by counting the smaller elements).

Only model-checked are the liveness properties `TasksSettle` and `RunEnds`, which
rest on fairness and are out of the prover's reach. Every other property of a
passing run is a theorem.

## 5. Plan

1. Lemmas that say more of the sessions: deadlocks of more than two syncs, and the
   purge together with `LinksAccounted`.
2. Lemmas about `Merge` and `Written`: two sessions that change different columns
   of a row commute.
3. The Elasticsearch poller (`scripts/elastic_poller.py`) with its checkpoint, as
   a client of AlertIngest.

## 6. Not modelled

The contents of alerts, payloads and results (only keys and the fields conditions
look at); the extraction of fields (`ingestion/normalize.py`) and the HMAC
signature, which are functions of one request. The age of a cached verdict, and
which entries of an observable a concurrent write loses; which tenant's
integrations a lookup uses.

The AI endpoints (`api/ai.py`, `api/ai_dedup.py`): they read alerts and write
none, auto-resolve included, which only returns suggestions. Connectors, whose
answers are free choices. Tenant hooks, permissions, metrics, logs, the web UI,
migrations, deployment and scripts.

`add_current_alert_comment`, which no playbook calls. Of the determinations only
"unknown", one that closes an alert and one that does not are told apart;
"suspicious" behaves like "malicious". The purge and the playbooks are not mixed
in one behaviour; a run as such (the row that blocks the purge) is. A playbook
that resolves an alert does so in one flush, without the update of the analyst it
may be assigned to.

A commit whose outcome the client does not learn (connection lost during COMMIT)
counts as failed here; in reality it may have succeeded, which a retry then
repeats. Cancellation in the middle of a flush is not modelled in ActionRetry.
After a failed gather the actions that go on running beyond the executor's commit
are not followed.
