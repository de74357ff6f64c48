# Verification of the workflow-automation platform

TLA+ models, TLC runs and TLAPS proofs for the multi-tenant workflow platform in
`src/` (Django + Celery on PostgreSQL and Redis, a FastAPI service for the LLM
agents, a React frontend). The modules are written from the code; where the
repository's own documents promise something the code does not keep, a run shows
the counterexample (`findings` in `PROJECT.json`).

## 1. The system

### 1.1 Components, state and operations

| Component | State | Operations |
|---|---|---|
| workflow engine, `workflows/` | `Event`, `TaskRecord` (status, attempts, unique idempotency key); Celery messages | `emit_event`, `enqueue_task` (on_commit), `run_handler`, `mark_running/done/failed/dead` |
| onboarding, `onboarding/` | `Client`, `OnboardingTemplate`/`OnboardingStep`, `OnboardingRun` (completed_steps, status); Celery messages `run_step` | `create_client`, the handler `start_onboarding`, `run_step` (welcome e-mail, document request, setup task), `_mark_step_complete` |
| follow-ups, `followups/` | `Reminder` (draft, pending, sent, cancelled), `FollowupRule` | `schedule_invoice_reminder`, `create_draft_reminder`, `approve_draft`, cancel, the hourly scan `process_due_reminders` |
| invoices, `invoices/` | `Invoice` + lines, `RecurringSchedule` (next_run, consecutive_failures, is_active) | `issue_invoice`, `issue_invoice_from_schedule`, the daily scan `check_recurring_invoices`, schedule edits |
| data entry, `dataentry/` | `DataEntryRecord` (pending, valid, invalid, dispatched, dead) | four ingestion adapters, `process_record` (map, validate, dispatch) |
| tenants, `tenants/` | `Tenant` (suspended or not, webhook secret), `Membership`, the session's `app.tenant_id` | `create_tenant`, the tenant middleware, the row-level-security policies |
| users, `users/` | accounts | authentication, permission classes |
| audit, `audit/` and `ai_audit/` | append-only logs (triggers refuse UPDATE and DELETE) | `log`, the ingest of LLM calls |
| integrations, `integrations/` | `IntegrationConfig`, unique per (tenant, kind) | `get_adapter`, the vendor adapters |
| AI service, `ai_service/` | the rate limiter's counters in Redis; agents' graph state; the collection of document vectors | `RateLimiter.check`, the choice of a provider, e-mail parsing, document ingestion, follow-up drafting, input and output guards |
| settings, `wa_main/` | – | Celery and Beat configuration, the order of the middleware |
| frontend, `frontend/` | browser state | API client, portals |
| ops, `ops/`, `docker/` | – | runbooks, load tests, dashboards |

### 1.2 How they interact

* A view or service inside `transaction.atomic()` calls `emit_event`; the
  callback of the commit creates the `TaskRecord` and publishes `run_handler`.
* `run_handler` calls the handler registered for the event's name:
  `client.created` starts `start_onboarding`, which publishes one `run_step` per
  template step; the steps call integration adapters, and the setup step creates
  a `TaskRecord` of its own.
* Beat starts two scans: due reminders hourly, recurring schedules daily. Issuing
  an invoice talks to storage, billing, e-mail and chat and schedules a reminder.
* The AI service writes draft reminders that a person approves.
* Every request passes the tenant middleware and a permission class before its
  view; both read rows that operators may change a moment later.
* Every worker holds Python copies of rows it read; all coordination goes through
  the database rows, the unique constraints and the broker's messages.

### 1.3 What is hard

Stale copies written back with absolute values; external effects (e-mail, object
storage, billing) inside or before a transaction that may fail; messages
acknowledged before they are executed, and messages delivered twice; messages
published before their transaction commits; loops over many rows where one row's
exception ends the loop; two scans at the same time; users who cancel or pause
what a scan is working on; answers of vendors that are lost; permissions, secrets
and providers that change between the check and the use; counters in Redis whose
increment and expiry are two calls.

### 1.4 What makes each component correct

* **Workflow engine**: an event whose transaction committed, and no other, gets
  its task; one process or message at a time is responsible for it; it ends
  `done` or `dead` after at most `MAX_RETRIES` handler starts, `dead` with one
  audit row; settled is final.
* **Onboarding**: a run is done when, and only when, all its steps were carried
  out; nothing is sent for a run that was rolled back; each repeated mail has a
  cause; no step is thrown away.
* **Follow-ups**: no LLM draft leaves without a person's approval; `sent` means
  mailed; a cancelled reminder stays silent; every due reminder is handled.
* **Invoices**: an issued row is backed by what the vendors were told, its total is
  the one that was billed up to the column's decimals, and the vendors know of no
  invoice the database does not, failures apart.
* **Recurring invoices**: invoices are a cadence apart; the failure count is
  exact; one schedule never starves another.
* **Data entry**: `dispatched` means the object exists; one number, one invoice;
  every call of `process_record` leads to a verdict.
* **Tenants, users, audit**: one founding per slug, with an audit row nobody can
  take back; who stores something met what that endpoint asks for, who is refused
  lacked something.
* **Ingest**: a receipt is only given for rows that are there; a failed upload
  leaves the beginning of the file.
* **Rate limiter**: no window admits more than its limit, none refuses before it
  is full, and a counter outlives its window only after a failure.
* **Agents**: no mail the guard rejects, and nothing the analyzer recognises in a
  mail, reaches a model; the paid provider is used only in need; a document's chunks
  are the document.

## 2. Modules

| Module | Models | Of the code |
|---|---|---|
| `TaskLifecycle` | what the engine promises: the life cycle of one task, and what is left of it after a replay | `workflows/models.py`, README |
| `TaskEngine` | the engine; `FollowsLifecycle` is the refinement of `TaskLifecycle` | `workflows/services.py`, `workflows/tasks.py` |
| `RunLifecycle` | what onboarding promises of a client's runs: which are there, which steps were carried out, which are done | `onboarding/models.py`, `handlers.py`, `step_runners.py` |
| `Onboarding` | handler, step messages, counter, both ways to create a client; `FollowsRunLifecycle` is the refinement of `RunLifecycle` | `onboarding/*` |
| `Followups` | reminders, requests, the hourly scan | `followups/*` |
| `Integrations` | a tenant's integrations, `get_adapter`, what a call of a vendor can come to | `integrations/*` |
| `InvoiceIssue` | one invoice: entered or created by the scan, edited, and issued by `issue_invoice`; extends `Integrations` | `invoices/services.py`, `views.py`, `models.py` |
| `RecurringInvoices` | the daily scan, next to edits, pauses and deletions | `invoices/tasks.py` |
| `DataEntry` | staging and `process_record` | `dataentry/tasks.py`, mappers |
| `RateLimiter` | the fixed-window counter | `ai_service/limits.py` |
| `Access` | tenants, memberships, accounts, and a request's way to its view | `tenants/*`, `users/*`, `audit/*` |
| `Ingest` | form, upload, webhook and LLM-call endpoints; extends `Access` | `dataentry/views.py`, adapters, `ai_audit/*` |
| `Agents` | the three agents and the choice of a provider; extends `Ingest` | `ai_service/*` |
| `Platform` | the three above composed, with the history the properties need | – |
| `...Proofs` | theorems about the module of that name | – |
| `MC...` | the instances TLC checks | – |

How they fit together: `Onboarding` takes from `TaskEngine` only what the engine
may do with a handler (run it, again after it raised, again after `mark_done`
failed). `RecurringInvoices` takes an issue as one step that succeeds or fails;
`InvoiceIssue` opens that step (creation of the row, its lines and its total
included), and finds its vendors through `Integrations`, whose rows an administrator
changes meanwhile. `InvoiceIssue` and the AI service create
rows that `Followups` starts from (`Create`, `CreateDraft`; `Agents` has the
request that stores such a draft), `Ingest` stages the rows `DataEntry` works on, and
`DataEntry` creates the draft invoices and clients the other modules start from.
`Access`, `Ingest` and `Agents` are layers of one system: a request of any kind is
one process that passes the middleware and the permission class of `Access`, and
then does what its view does.

### 2.1 State and steps

Every process that works on a Python object is a process of the model with a copy
of the row, a program counter and one step per query, save, publication or call
to a vendor. What one database transaction makes visible at once is one step;
what happens inside a transaction but is visible outside it (a message, an
e-mail, a push to the billing system) is a step of its own.

* `TaskEngine`: `Emit`, `Commit`, `Rollback` are the emitter's transaction,
  `GetOrCreate` and `Delay` the two statements of `enqueue_task` in the callback.
  In the worker `Dequeue` takes a message and reads the row, `MarkRunning`,
  `MarkDone`, `MarkFailed`, `MarkDead` are the four saves, `HandlerReturns` and
  `HandlerRaises` the handler, `Retry` is `self.retry`; `SaveFails`,
  `EmitterCrash`, `WorkerCrash`, `Redeliver` and `Requeue` are the faults, counted
  by kind; `Requeue` is the runbook's choice for a dead task, `pending` again or
  `cancelled`. `starts` and `completions` are history.
* `Onboarding`: `OpenRun`, `PublishStep`, `CommitRun`, `HandlerRaises` are the
  transaction of `start_onboarding`; `TakeStep`, `StepReturns`/`StepRaises`,
  `CountStep`, `CloseRun` are `run_step` and `_mark_step_complete` (an increment
  in the database, then a second read that decides whether the run is done).
  `SendUnanswered` is a step whose mail went out although the adapter raised: the
  step is retried and may mail again, within one delivery.
* `Followups`: `GetObject` then `Cancel`, `Approve` or `Edit` are a request;
  `BeginScan`, `NextRow`, `Send`/`SendImpossible`, `Save`, `Audit`, `EndScan`
  are the scan. `SaveStatus` raises for a deleted row, `Edit` inserts it again.
* `InvoiceIssue`: `Enter` is an invoice of the API or of data entry; the scan
  creates one in three saves (`CreateInvoice`, `AddLines`, `SaveTotal`), between
  which anybody can read and issue it. Then one step per call of a vendor, each of
  which may answer, refuse, or do what it is asked while its answer is lost, and the
  billing system may answer without an id (`PushInvoice`, id 0 for `''`); `Commit`, or
  the failure of the issue at any point before it. An editor reads the row and saves
  it later. Amounts are ten-thousandths; a quantity times a price has four decimals,
  and `Column` is what `numeric(12, 2)` makes of a sum when it is stored, while the
  process that computed it goes on with the unrounded one. Due dates are versions.
  The chat message is a step of its own, whose failure is swallowed. `push` of a row
  and `creation` are history: which push its issue made, and whether anybody read the
  invoice before it was complete.
* `RecurringInvoices`: `BeginScan` takes the date and the rows, `CreateInvoice`
  reads the clock again for the number, `IssueSucceeds`/`IssueFails` change the
  copy, `SaveRow`/`SaveRefused` write it. A cadence is a number of days. `resting`
  remembers the schedules paused while no scan worked on them.
* `DataEntry`: `Start`, `SaveValid`, `CreateContact` or `GetClient`,
  `CreateClient`, `CreateInvoice`, each of which may raise (`CreateRaises`), and
  `Return` with the final status.
* `RateLimiter`: a call of `check` is `INCR`, then, for the first of a window,
  `EXPIRE`, then the answer; the clock ticks in between, keys run out, and a call
  may be cut short.
* `Access`, `Ingest`, `Agents`: a request arrives, the middleware reads the tenant,
  the permission class the membership, the view its rows; each read is a step and
  what operators do (suspend, remove, rotate, delete) happens between any two. A
  member's request may lack the tenant header or the token. An uploaded file is one
  step per row, an empty one is answered without rows. The nodes of an agent's graph
  are steps; a document is the sequence of its words, a text the set of what matters
  about it: a reason to reject it, personal data that Presidio's analyzer recognises
  and `redact_pii` replaces, and personal data that it misses and that stays. `Platform` adds `held` and `missed`: which facts about a request's tenant,
  sender and proof held, and which did not, at some moment since it arrived.

The definitions named `of` and `as` under `mutants` in `PROJECT.json` come in pairs
(`MarkSent` and `NotSaved`): the second is a plausible mistake and is used by
no specification; it shows that the property notices the mistake.

## 3. Runs

| Run | Shows |
|---|---|
| `engine` | with one fault of each of the five kinds (an emitter and a worker die, a save fails, a message is delivered twice, a dead task is set to pending or cancelled by hand): the safety properties, that the engine implements `TaskLifecycle`, and that committed events get settled |
| `onboarding` | the counter is right under concurrent steps; a rolled-back run leaves no trace; onboarding implements `RunLifecycle`; a run whose steps were all carried out becomes done; one dead worker, one lost answer of the mail server, and one replay of the handler or duplicate delivery included |
| `onboarding_early_step` | *violated*: a step published before the commit may be lost |
| `followups` | two overlapping scans and a request: approval, cancellation and `sent` keep their meaning, each repeated e-mail has a cause, and a due reminder waits only for one that cannot be mailed |
| `followups_starved` | *violated*: one reminder that cannot be mailed keeps the others waiting for ever |
| `invoice_issue` | an issued invoice was stored, billed with its date and, but for the rounding of the column, its total, mailed, audited and followed up, and its vendor id is what the billing system answered, if only `''`; vendors keep orphans only from failures, lost answers and a changed integration included |
| `invoice_imported_total` | *violated*: an invoice that data entry imported is billed with one total and stored with another |
| `recurring` | failure count, disabling, cadence, pauses, and that a scan which began gives each due schedule its turn |
| `dataentry` | `dispatched` is true, a number is one invoice, every call is answered |
| `limiter` | a window admits its limit and no more, refuses only when full, and a counter that never expires had a failure |
| `platform` | one founding per slug, entries that met what their endpoint asks for, refusals that had a cause, honest receipts, guarded mails, the paid provider, whole documents |
| `platform_rls` | *violated*: where the row policies bind, no request finds its tenant |

The type invariant of a module whose proofs establish it is not checked again by a
run: it is the theorem `TypeCorrect` of that module.

### 3.1 Bounds

* `engine`: two events that share an idempotency key, because the races are of two
  emitters over one row and of two copies of a message over two workers; two
  workers, so that both copies run at once. `MaxRetries` is 3 (the code's is 4): a
  first attempt, one in the middle and the last, and with one fault of each kind
  the counters can already disagree by as much as a fault makes them. Any number of
  tasks, workers, retries and faults is the proofs' part.
* `onboarding*`: a template with a step that mails and one that inserts a row under
  a unique key; two workers, so that both finish at once and each decides whether
  the run is done; two starts of the handler, so that a run rolled back and a run
  committed coexist; `StepRetries` is 1, since a message's retry count only decides
  whether another follows; one mail goes out unanswered (`MaxUnanswered`), which
  suffices for two mails of one delivery. Longer templates and more of everything are
  proved.
* `followups*`: two reminders, so that one may block, outlive or reorder the
  other in a scan; two scans that may overlap; one request at a time beside them,
  because a request is one read and one write; one edit or fault. In `followups`
  the second reminder cannot be mailed; reminders without recipient, two requests
  at a time and more mishaps are the proofs' part.
* `invoice_issue`: two processes issue, three times in all, and one edits once:
  a stale copy can be saved over an issue, and an issue over an edit; one failure,
  one change of an integration. The processes that issue are symmetric, and either may
  be the scan that creates the invoice. `LineSum = 10050` is 1.005, a sum the column
  rounds up. `FirstTotal = 0` is the invoice the API creates (for one that data entry
  imported see `invoice_imported_total`, where the first total is 2 and there are no
  lines). More edits are the proofs' part.
* `recurring`: one schedule with a cadence of two days and one of a day, which can
  never be issued; the failure limit is 2 instead of 3 and the days end at 2, so
  that the limit is reached and passed; one slip, refusal, death, edit and
  deletion. Where a property says `Spared(...)` it excludes exactly the incidents
  that break it, and the other incidents still happen. One scan at a time; for
  `PauseIsKept` and `NeverDisabledEarly` overlapping scans are the proofs' part.
* `dataentry`: two invoices with one number, whose clients differ; one of them has
  the contact's address, so that an address may have two clients; an incomplete
  row and one of kind `other`; any create may raise; three calls, so that a row may
  be processed twice while another is; one death.
* `limiter`: two tenants, three callers and four calls around two turns of the
  minute with a limit of 2: a third call of one window is refused, and a slow
  caller of the old window meets two of the new one. A minute has two ticks and a
  key lives three, which is the code's 60 < 65 < 120 seconds.
* `platform*`: one slug and two accounts, two requests of any kind at a time and two
  in all, and two changes by operators or providers: the properties relate a
  request to what others did between two of its steps, and two changes are
  enough to undo and redo a fact. A file of two rows is one that can fail after
  its first; documents of up to three words meet chunks of two at an empty, a short,
  an exact and a remaining length. Accounts and requests are symmetric; there are no
  temporal properties in the run.

Deadlock is not checked: each system may stop when nobody emits, edits or calls,
and when its bounds are used up.

### 3.2 Fairness

Weak fairness of what the machinery runs by itself, never of what people, vendors
or time do: the callback of a committed transaction and the workers
(`TaskEngine`), the engine's run of a handler and the workers (`Onboarding`), the
hourly scan that Beat starts again and again and the requests in progress
(`Followups`), a daily scan once it has begun (`RecurringInvoices`), the workers
(`DataEntry`). It is stated per process, not per message: a worker goes on, but may
choose any message, and a handler may always raise. Strong fairness is not needed
anywhere. That a daily scan begins is not assumed: the Beat entry's schedule is a
plain string (`wa_main/settings/base.py:109`), which Celery does not take for a
crontab (section 7). The hourly entry is a crontab (line 113), so `Followups`
assumes a Beat process that runs. A liveness property about work a worker may take with it into its death says so
(`faults["worker"] > 0`, `crashes > 0`): nothing in the code starts it again. No
liveness is claimed of the requests of `Platform`, which the client may give up.

## 4. Properties

* `OneCarrier` (`TaskEngine`): one emitter, message or worker at most may make a
  task run, none once it is settled. The unique key and `created` in
  `enqueue_task` and one retry per failed run are all the locking there is. It and
  `AttemptsCountStarts` (the column written from a copy counts the starts) and
  `DeadIsAuditedOnce` speak of what has not been replayed (`Unreplayed`), at any
  moment of a behaviour in which faults of the other kinds happen.
* `FollowsLifecycle`: the steps of the README's diagram. After a replay
  `TaskLifecycle` promises less (`Overrun`: each run still tells the truth about
  its own end), and the engine keeps that.
* `SettledIsTrue`, `CompletesOnce`, `OnlyCommittedEventsRun` hold under every
  fault; `FiresReliably` excuses the deaths and the failed saves, and speaks of the
  first time a task is settled.
* `CompletedCountsSteps` (`Onboarding`): the counter differs from the set of steps
  that ran by the workers about to count, those that died and the duplicates.
  `NoEffectWithoutRun`, `MailsOncePerReplay` (a step mails once, once more per
  duplicate and once more per mail whose answer was lost), `AllRanLeadsToDone`.
* `FollowsRunLifecycle`: without transactions, messages and workers, a run appears, its
  steps are carried out, and it is reported as done; a duplicate excuses one letter and
  one missing step, a lost answer one letter, a replay one run. `DoneMeansAllRan` is its consequence for a run that
  is done, and proved as well.
* `NoDraftMailedUnapproved`, `SentIsTrue`, `CancelledForGood`,
  `RepeatsHaveACause`, `OnlyBrokenOnesBlock` (`Followups`). `CancelledForGood`
  starts when nobody who read the row earlier is still at work: before that the
  code does revive a cancelled reminder (section 7). `RepeatsHaveACause` has a
  factor for the requests, because each of two that read the same draft may approve
  it, one of them after the scan.
* `IssuedIsBacked`, `IssuedMatchesBilling`, `BilledTotalIsStored`,
  `OrphansOnlyFromFailures` (`InvoiceIssue`). An issued row names the push of its own
  issue by what that was answered; `''` when the answer had no id, so that the property
  does not promise an id. `BilledTotalIsStored` compares what was billed, rounded as the
  column rounds, with the row: the code bills up to four decimals. It leaves out
  invoices somebody read before the scan had given them their lines (section 7).
* `DisabledAfterLimit`, `InvoicesOnCadence`, `NeverDisabledEarly`, `PauseIsKept`,
  `DueIsHandled` (`RecurringInvoices`). `DueIsHandled` speaks of what a scan found due
  when it began, not of days on which none does. `PauseIsKept` is about pauses made while no
  scan works on the schedule: a scan's save overwrites the others (section 7).
* `DispatchedIsReal`, `OneInvoicePerNumber`, `TriggeredIsDecided` (`DataEntry`).
* `WithinLimit`, `RefusedOnlyWhenFull`, `LeaksNeedAFailure` (`RateLimiter`), however
  slow a caller is between its two calls.
* `FoundedOnce`, `EntryWasAllowed`, `RefusalHasACause`, `ReceiptsAreHonest`,
  `MailIsGuarded`, `PaidOnlyInNeed`, `ChunksKeepTheText` (`Platform`). A request may
  be let in by a fact that has changed by the time it stores its rows; what the
  code promises, and `EntryWasAllowed` says, is that each fact its endpoint asks for
  held at a moment since it arrived. The endpoints ask for different things (`Needs`):
  members for an active tenant and a membership; the webhook for a tenant, suspended or
  not, and its signature; the log of LLM calls for a tenant, suspended or not, and the
  service's token; the route that drafts follow-ups for a tenant and nothing else.
  `MailIsGuarded` is relative to Presidio's analyzer: what it does not recognise is
  shown to the model and may be in the answer, whose fields are a name and an address.

## 5. Proofs

Proved with TLAPS for every value of the constants, from the named assumptions on
them (types, finite sets of processes where something is counted, and that `None`
is none of the values it stands beside). Each module proves its `TypeOK` first.

**`TaskEngineProofs`.** For any number of faults of every kind. `OneCarrier` and
`AttemptsCountStarts` are not inductive: that a retry does not start a task twice
depends on the message and the worker's copy agreeing with the row. `IInv` has
two parts: `Always`, what every fault leaves intact (who owns a row, what a settled
row stands for), and `Once`, what holds until something is replayed: two carriers of
one task are the same carrier, and what the row looks like while an emitter, a
message or a worker carries it (the status, and that the message's retry count, the
copy and the column agree). `Inductive` proves `Spec => []IInv`, one step per action
and per conjunct; the properties follow. After a replay several carriers work on one
task, so `CompletesOnce` needs a count: `Covered` adds up, for each task, the handlers
that returned, the emitters about to publish, the messages and the workers whose
handler has not returned, and bounds the sum by one and the failed saves and
duplicates so far (by none before there is a row). That these sets are finite is part
of it, so the theorem does not assume finitely many events or workers.
`Refinement` maps each step of the engine to one of `TaskLifecycle` or a stutter.

**`OnboardingProofs`.** For any template, integrations, workers, crashes, replays and
duplicates. `Lineage` says what the broker and the workers may hold of a run, and that
nothing was done for one that is not in the database. The counter is right because a
delivery, a message whatever its retries, is in one place at a time, the queue or a
worker that handles it (`Unique`). `Tally` bounds the count of a run by the steps that
ran: from below but for the workers that died, from above but for the duplicates
delivered so far, less those that may still count a step again (`Twice`). `Mailed`
does the same for the mails of a step (sent and still to be sent, against one, the
duplicates and the lost answers), `Replays` for the runs that committed, and `Closed`
says what the worker that closed a run saw. `CompletedCountsSteps`,
`DoneMeansAllRan`, `NoEffectWithoutRun` and `MailsOncePerReplay` follow; the steps
argue about cardinalities of finite sets. `Refinement` maps each step to one of
`RunLifecycle` or a stutter, by the same invariant: `Replays` bounds the runs when
another appears, `Mailed` the letters when a handler returns, since its own delivery is
still counted then, and `Tally` the steps when a run is closed; `Reached` adds that what
is done or replayed is in the database and that a setup step has left its row.

**`FollowupsProofs`.** For any reminders, silent ones included, requests, overlapping
scans, edits and faults. A scan mails the copy it read and an edit writes the status
it read, so the invariant has to speak of them: `HeldBack` says that an unapproved
draft is draft, cancelled or deleted, that nobody who read its row read anything
else, and that no scan holds it; `Untouched`, that nobody holds a reminder that does
not exist yet; `SentSeen`, what is known of a reminder whoever saw it sent.
`RepeatsHaveACause` needs a count the code does not keep, how often the row became
pending: `Caused` says that some number of such releases explains both the mails
(`Spent`: each scan that holds the row may mail it once per release) and is itself
explained by the requests and edits so far (`Releases`).

**`InvoiceIssueProofs`.** For any issuers, editors, issues, failures and changes of
the integrations. `Backed` says of the row and of every editor's copy, which may be
saved over it, what `IssuedIsBacked` says of the row; `Known`, what an issuer has
been through at its stage. `Accounted` counts the vendors' records against commits,
issues under way and failures. `Totals` follows the amounts: while the scan creates the
invoice nobody else has it (`InCreation`); from then on the lines stay as they are, and
the row, every copy and every push have their sum once it is rounded (`Settled`), for
which `Rounded` shows that rounding twice is rounding once. `BilledTotalIsStoredHolds`
has the premise `FirstTotal = 0`, that an invoice which is entered has a total of its
lines, none; without it the property is false (`invoice_imported_total`).

**`RecurringInvoicesProofs`.** For any schedules, cadences, days and incidents.
`PauseIsKept` and `NeverDisabledEarly` for any number of overlapping scans.
`DisabledAfterLimit` and `InvoicesOnCadence` under `Sole`, that there is one scan:
two scans that overlap both issue what was due.

**`DataEntryProofs`.** For any rows, workers, calls and deaths: `Earned` says that a
worker about to save `DISPATCHED` has seen to it that the client or invoice exists.

**`RateLimiterProofs`.** For any tenants, callers, limit and failures, and a time to
live longer than a minute and no longer than two: `Spent` relates a key's value to the answers given, `Lives` says that the key
of an open window cannot run out, `Owned` that a key without time to live has a
caller about to set it or a failure behind it.

**`PlatformProofs`.** For any tenants, accounts, requests, secrets, sizes of a file and of
a chunk, and any number of requests and of changes by operators; `Access`, `Ingest` and
`Agents` only have meaning together, so the theorems are about `Platform`. The invariant
has one part per question. `OnItsPath` says which requests come to which stage, `Entitled`
what a request has shown by that stage: the facts read so far were true when they were
read, so they are in `held`, which only grows (`Watched`); a copied secret is matched
against the proof when it is read, not when it is used. `Caused` is its counterpart for
`missed`. It holds only where the row policies do not bind, which is the premise of
`RefusalHasACauseHolds` and false in `platform_rls`. `HasTenant` says that whoever is past
the permission class has a tenant, header or not. `Guarded` follows what the analyzer
recognises in a text through the filters, and the choice of a model to the moment the
local one was down. `TypeCorrect` covers every variable of the four modules (`Bounded`
the counters). `Counted` says
that the rows of a tenant cover its receipts and those still to be given by requests that
have stored their row, and that the `i`-th rows of files cover the next ones and the
uploads in between; the requests counted are finitely many because each began by a step
of its own (`Busy`), whatever the set of possible requests. `ChunksKeepTheText` is
an induction over the length of a document. The library's induction theorems cannot be
used, so `LeastElement` derives that a set of naturals has a least element from the
well-foundedness of `<`, and `FlattenIs` looks at the first chunk at which the
concatenation would differ. `NoRequestAssumption` and `ProviderAssumption` say that `None`
is neither a request nor a provider.

Only model-checked: liveness under fairness, which the prover cannot state
(`FiresReliably`, `AllRanLeadsToDone`, `OnlyBrokenOnesBlock`, `DueIsHandled`,
`TriggeredIsDecided`). No module uses `RECURSIVE`.

## 6. Divergences shown by a run

1. `invoice_imported_total`: an invoice imported with a total and no line items
   (`dataentry/tasks.py:88-95`) is billed with that total and then saved with the
   sum of its line items, 0 (`invoices/services.py:59`, `invoices/models.py:65`).
2. `onboarding_early_step`: `start_onboarding` publishes steps inside its
   transaction without `on_commit` (`onboarding/handlers.py:60`); a worker that is
   faster than the commit finds no run (`step_runners.py:39`, outside the `try`)
   and the step is lost: the run stays `running`.
3. `followups_starved`: the hourly loop has no `try` (`followups/services.py:123`);
   one reminder that cannot be mailed ends it, for all tenants.
4. `platform_rls`: "The application sets the session variable per request"
   (`tenants/rls.py:5-7`), but only tests call `set_session_tenant`; once
   `docker/postgres-init/01-nosuperuser.sql` makes the policies bind, the
   middleware's query (`tenants/middleware.py:49`) finds no tenant.

## 7. Divergences seen while modelling, without a run of their own

The passing properties exclude or count exactly these; each is a behaviour of the
modules as they stand.

* `run_handler` returns early only for a task already `done`
  (`workflows/tasks.py:25`): two deliveries of one message that overlap both run
  the handler.
* Two copies of a message start a handler more often than `MAX_RETRIES`
  (`workflows/services.py:101` writes the copy's attempts plus one), and the one
  with Celery's last retry can leave the row `failed` for ever
  (`workflows/tasks.py:40`).
* A worker killed in a handler takes the task with it: the message was
  acknowledged when taken (`workflows/tasks.py:13`, no `acks_late`) and nothing
  looks for `running` rows. The same holds for a process that dies between the
  commit and the callback.
* A dead task set to `pending` by hand never runs
  (`ops/runbooks/incident.md:55-59`): only `enqueue_task` publishes.
* A step whose mail was accepted while the answer was lost is tried again and mails
  again (`onboarding/step_runners.py:46-55`; `integrations/email/django_smtp.py:42`
  sends without an idempotency key): one delivery, two mails.
* A redelivered step of an onboarding run is counted twice
  (`onboarding/step_runners.py:170`), so the run may be done with a step missing.
* A client created by `POST /api/clients` (`onboarding/views.py:25`) or by data
  entry (`dataentry/tasks.py:60`) is never onboarded: no event is emitted.
* A scan that fails between the e-mail and the save mails the reminder again
  (`followups/services.py:131`).
* An edit of a reminder writes back the status it read (`followups/views.py:14`)
  over a cancel, an approval or the scan's `sent`.
* An invoice issued twice, or by two requests, is billed and mailed twice
  (`invoices/services.py:25` neither locks nor looks at the status).
* "Vendor-side invoice id" (`integrations/base.py:49`): an answer without one gives
  `''` (`invoice_ninja.py:47`), and the invoice is issued with an empty `vendor_id`.
* The scan bills the total it computed, with up to four decimals, and the row keeps
  two (`invoices/services.py:98-99`, `models.py:42`).
* The scan creates the invoice, its lines and its total without a transaction
  (`invoices/services.py:85-98`): whoever issues or edits it in between bills or
  stores a total of 0 (`creation = "early"`).
* A scan that dies after issuing and before `save` bills again the next day, and a
  schedule paused while a scan holds it is active again (`invoices/tasks.py:56`).
* Any failure of a dispatch makes a staged row `INVALID` (`dataentry/tasks.py:120`),
  `DEAD` is never set, a second call for a contact makes a second client, and
  nothing outside the tests calls `process_record`.
* The daily scan's Beat schedule is the string `"0 0 * * *"`
  (`wa_main/settings/base.py:109`) where Celery expects a number, a `timedelta` or a
  schedule object: the comment's "daily at 00:00 UTC" is not what it gets, and a Beat
  that stops at the entry would not start the hourly scan either.
* Two requests that read one draft may both approve it, the second after the scan:
  a sent reminder becomes pending and is mailed again
  (`followups/services.py:102-104`).
* A tenant cannot have both MinIO and Nextcloud: `IntegrationConfig` is unique per
  tenant and kind (`integrations/models.py:37`), and `issue_invoice` always asks for
  `minio` whatever the row's `vendor` is (`integrations/models.py:12`): a tenant
  with Nextcloud cannot issue (`GetAdapter`).
* `crm/suitecrm.py:49` promises `IntegrationUnavailable`, but the token is fetched
  outside the `try` (line 52); `IntegrationAuthFailed` and `RateLimited`
  (`integrations/base.py:15`) are never raised, and a 401 is reported as retryable.
* The loser of a race for a slug gets `IntegrityError`, not the `TenantSlugTaken` of
  the docstring (`tenants/services.py:29`).
* The webhook and the LLM-call log accept rows for suspended tenants
  (`tenants/models.py:19`: "Soft-disable flag for suspended tenants").
* The route that drafts follow-ups asks nobody who they are
  (`ai_service/routes/agents.py:81`): whoever reaches the service stores drafts in any
  tenant.
* "Every agent invocation in the AI service emits one row here"
  (`ai_audit/models.py:3`): the AI service never calls the endpoint.
* The rate limiter, `auth.current_user` and `configure_langsmith` are used by no
  route, so nothing is "rejected with 429" (`ai_service/limits.py:3-5`).
* "The MVP always scrubs PII from model output" (`ai_service/safety/output_guards.py:3`):
  the agent that drafts follow-ups stores the model's reply as it is, and shows the
  model the recipient's address. Where it scrubs, it replaces what the analyzer
  recognises (`safety/pii.py:14-24`); `test_email_parse_agent.py:48` expects a name to
  come through.
* "tenant-scoped PGVector collection" (`ai_service/agents/document_extract.py:6`):
  the route passes tenant 0 (`routes/agents.py:65`), and one collection may hold
  vectors of several embedding models (`llm/embeddings.py:24-38`).
* `ops/locust/seed_load_user.py:23` calls `create_tenant` without its admin and
  unpacks a tuple it does not return.
* The frontend logs in with a field `username` where the model's is `email`, never
  refreshes its token, and keeps one cache for all tenants and users.

## 8. Not modelled, and why

* Frontend, settings, operations: rendering, configuration and deployment, without
  protocol state of their own. What they decide is in the models: Celery's
  acknowledgement, the order of the middleware, the missing `ATOMIC_REQUESTS`, the
  start of the scans, the operator's choice for a dead task.
* Integrations are modelled in part: the lookup, and that a call answers, refuses or
  loses its answer. The Nextcloud and SuiteCRM adapters' own requests are single
  calls without state of the project's own.
* AI service: prompts, the language models and the ranking of search results are
  external; the search and health routes change nothing.
* Tenants: `set_session_tenant` is called by tests only; the database's evaluation of a
  policy is one Boolean (`RlsEnforced`).
* Inside the modelled components: editing templates during a run, `due_at` and
  recipients of reminders, deletion of invoices, the single lines of an invoice (their
  sum, and its rounding, are modelled), the PDF, parsing of ingested files, a save of
  a staged row's own status that fails.
* Two hazards have no property, because the code never takes the step in question:
  nobody calls `process_record`, and nothing reads which model made a vector
  (`dataentry/views.py:43`, `ai_service/llm/embeddings.py:26`).

## 9. Plan

Done: the modules of section 2 and the proofs of section 5.

1. Composition: `TaskEngine` with `Onboarding`, with the engine as an instance, so
   that its own retries decide when the handler runs again; `RecurringInvoices`,
   `InvoiceIssue` and `Followups` over several invoices.
2. Abstract specifications: a staged row's life cycle (`DataEntry`), with a refinement
   under the repeated calls it tolerates.
3. Edits of templates during a run, and of `due_at` between scans.
