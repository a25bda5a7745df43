# Attenda API: verification development

Attenda is a multi-tenant workforce backend (Express, Prisma/PostgreSQL, Redis,
S3): attendance, breaks, leave, shifts, timesheets, payroll and the notification
machinery around them. `src/src/` holds the program, `src/prisma/` its schema,
triggers and migrations, `src/BACKEND_API_AND_LOGIC.md` (below: *the reference*)
describes the behaviour. Several API instances run at once; each of them serves
requests and also runs the scheduled jobs.

What is hard in such a program is not any single handler. It is that a handler
is a sequence of awaited calls (a read, a decision, a write, an upload, a
release) with other handlers, jobs and other instances in between, that a call
may fail, or commit without its reply arriving, and that an instance may die
after any of them. A call whose failure the code treats as that of the whole
request is an abort; failures that it catches and goes on from (a clean-up, a
swallowed notice, a retry after an update that failed) are actions or outcomes of
their own. This development models the handlers at that grain, one
database, Redis, S3 or HTTP call per step, checks them with TLC on small
instances and proves the central invariants with TLAPS.

- [Inventory](#inventory)
- [Modules](#modules)
- [Runs](#runs)
- [Fairness](#fairness)
- [Proofs](#proofs)
- [Known disagreements](#known-disagreements)
- [What is not modelled](#what-is-not-modelled)
- [Plan](#plan)

How to run, inside `tla/`: `tlc -workers 2 -config MCOutbox_batch.cfg MCOutbox`
for a run (PROJECT.json lists module and cfg of each), `tlapm OutboxProofs.tla`
for the proofs.

## Inventory

| Component | State it keeps | Operations | Hard about it |
|---|---|---|---|
| Payroll period runs (`routes/payroll.ts`, reimbursement in `routes/expenses.ts`, triggers) | `payroll_records`, source attendance rows, pay rates, payslip objects in S3, two Redis leases | generate, auto-generate (cron), adjust, recall, process-full, reimburse, rate changes | figures computed from rows read before the write; maker and checker; three stores to keep in step |
| Transactional outbox (`services/outbox.ts`) | `outbox_events` with claim token, attempts, backoff | emit (in a transaction), claim batch, apply effect, publish or release, replay of dead letters | crash between effect and mark, slow worker after its claim was taken over |
| Webhook deliveries (`services/webhookDelivery.ts`) | `org_webhook_deliveries`, failure count and activity of `org_webhooks` | claim, send, outcome, auto-disable, replay, test, recovery | same, plus a shared failure counter read and written in steps |
| Sessions and refresh tokens (`services/refreshTokens.ts`) | `refresh_tokens`, `user_sessions` | login, rotate, revoke (one, others, all), purge | overlapping rotation, reuse detection, revocation during rotation |
| Idempotency keys (`middleware/idempotency.ts`) | `idempotency_records` | look up, claim, run the route, record, purge | claim outlived by its route, crash after the commit, expiry |
| Attendance records and breaks (`routes/attendance.ts`, detectors in `jobs/scheduler.ts`) | `attendance_records`, `break_records` | check-in, ip-event, heartbeat, check-out, break start/end, override; late, absent, heartbeat, stale, auto-checkout and break jobs | requests of several devices and six jobs write one row |
| Shifts (`routes/shifts.ts`, `shift-field-ops.ts`, `shift-planning.ts`) | templates and their flags, assignments with publication and acknowledgement, swaps, emergency offers, plan drafts | save, publish, assign, edit, answer, swap, offer, claim, draft | flags cleared by value in READ COMMITTED, publication from findings read earlier, decisions on two pages |
| Leave (`routes/leave.ts`, `services/leave-request.ts`, `leaveAccrual.ts`) | requests, yearly balances, accrual grants, leave days in attendance | submit, approve, reject, cancel, adjust, accrue | two pages decide one row; pending requests reserve nothing |
| Approvals (`services/approval-workflows.ts`, `routes/overtime.ts`, `expenses.ts`, ...) | overtime, expenses, remote days, late notices, corrections, availability, and the attendance row they change | file, decide in the inbox, decide on a page, cancel | conditional updates beside updates by id |
| Time tracking (`routes/time-tracking.ts`) | time entries, weekly timesheets | start and stop a timer, enter, edit, delete, submit, review | review of what was resubmitted |
| Accounts (`routes/auth.ts`, parts of `users.ts`, `middleware/auth.ts`) | `users`, `user_sessions`, Redis `sid:` keys, links, second factor | log-in, lock-out, codes, single sign-on, reset, invitation, changes, deactivation | the account is read once and written by id; database and Redis |
| People and roles (`routes/users.ts`, `org-rbac.ts`, `admin.ts`, `utils/rbac-seed.ts`) | people, role assignments and their mirror, roles, seats | register, approve, create, import, assign, delete a role, repair at start | several statements without a transaction |
| Onboarding, offboarding (`routes/onboarding.ts`, `offboarding.ts`, services) | templates and tasks; cases, settlement, access | assign, close; open, edit, settle, revoke access | last task closed twice; job against routes |
| Notification deliveries (`services/notificationDelivery.ts`) | `notification_deliveries` | claim, quiet hours, digest, send, retry, recover | partial claim of a digest, crash between send and mark |
| WhatsApp (`services/whatsapp.ts`, `whatsappUsage.ts`) | messages, monthly usage | reserve, send, retry, alert, apply reports | limit reached by several senders; reports out of order |
| Scheduler (`jobs/scheduler.ts`, `services/schedulerState.ts`, `orgJobSchedules.ts`) | Redis job leases, schedules, marker rows | acquire, run, complete, release | lease lost under a slow job |
| Scheduled reports (`services/scheduledReports.ts`, `routes/misc.ts`) | schedules, runs | create, patch, claim, produce, mail | a PATCH from an old read |
| AI assistant (`routes/ai.ts`, `services/ai/`) | conversation, proposals, quota | propose, confirm, cancel, apply | overlapping messages; crash after the change |
| Attendance devices (`routes/attendance-devices.ts`) | keys, enrolment and check-in challenges | enrol, confirm, approve, revoke, prove | enrolment started again during approval |
| Offline batches (`POST /attendance/sync`) | Redis lock, watermark, events | lock, mark, replay, finish | timeouts with the request still running |
| Pay arithmetic (`utils/payroll.ts`, `statutoryPayroll.ts`) | none | pure | rounding, caps, thresholds |

Interactions. A business transaction writes its outbox row in the same database
transaction (explicitly, or by a trigger); the outbox publisher turns the row
into in-app notifications, channel deliveries, webhook deliveries and a Redis
message; channel and webhook deliveries have queues of their own. Attendance
writes reach payroll through the trigger
`enforce_attendance_payroll_input_integrity`, which refuses changes under a
processed payroll record and marks a draft stale. Payroll endpoints exclude each
other by Redis leases with renewal (`utils/redisLease.ts`); jobs exclude their
own second run by a Redis lease per job. Mutating requests may pass through the
idempotency middleware. Refresh tokens gate everything.

What makes each component correct, and where it is stated:

- payroll: nobody finalizes the records they generated; what is finalized was
  computed from the current sources, is announced once, shown by its payslip and
  frozen; a claim is paid once;
- outbox and webhooks: no duplicate deliveries are queued, nothing is published
  without its effect, dead means exhausted, everything settles in the end, one
  sender at a time, one alert;
- tokens: a token is exchanged once, reuse revokes its family, a revoked session
  exchanges nothing;
- idempotency: one commit per key, a commit is always guarded by a row, a replay
  answers the request it was sent for;
- attendance: check-out and breaks agree, nobody is in two breaks, a device that
  reports is not checked out, a check-in time stands, one absence alert;
- shifts: employees are asked about what is published and their answer is of what
  they were sent; a swap or an offer takes effect once;
- leave, approvals and timesheets: one decision, one effect, agreeing with balance,
  attendance row, payroll and week;
- accounts and people: failures lock, changes and revocations end sessions, links
  are spent, seats hold, everybody has a role that agrees with its mirror;
- jobs: what is due is done in the end, and done once, or once more for every
  interruption that was recovered;
- guards: a device proves the key it is trusted for, the assistant applies what
  was confirmed, offline events keep their order.

PROJECT.json lists the main hazards at their lines, with the properties that
catch them; the comments of the properties' parts name the others.

## Modules

Each module models one component: variables are the rows and the local variables
of the requests in progress (`pc`, what a request has read), an action is one
awaited call. A transaction, or a conditional `updateMany`, is one step. Data is
reduced to what the properties distinguish. Every definition that translates
code is in PROJECT.json's `map` with its lines; definitions marked *Mutant* are
wrong variants that show that the properties bite, and are used by no
specification. `MC*` modules give constants their values and compose components.

Most modules end in one invariant `...Safe`, a conjunction of named parts: the
type invariant and what the component promises, each part with its own comment.
Where the code does not prevent an overlap, the part says so in its hypothesis by
means of a history variable (`raced`, `twin`, `gap`, `together`, ...), so that the
exception is exactly the overlap and not a weaker statement. [Known
disagreements](#known-disagreements) lists these exceptions.

### Payroll (MCPayroll, PayrollProofs)

One period of one organisation. A record carries status, `inputs_stale`,
completeness, manual adjustment, maker and checker; its base and gross pay are
the *versions* of attendance rows and pay rules (and the adjustment) they were
computed from, so "fresh" is a comparison of versions. Requests take the period
and the configuration lease in the order of the code (`GenerateStart`,
`GenerateConfig`, ...) and `Finish` is the `finally` block. Generate reads rows
and rates once (`GenerateLoad`), then per employee attendance (`GenerateRead`)
and upsert (`GenerateWrite`); `Process*` is check, load, upload, conditional
finalization with its outbox row, clean-up; a finalization that commits without
its reply arriving goes to the catch block as well (`ProcessCleanup`). `Adjust*`, `Recall*` and `Reimburse*`
read, then write by id. `AttendanceWrite` is any write through the trigger.
`Abort` is an exception, `Crash` the death of the instance with leases left to
expire, `Expire` their expiry; `LeaseMayBeLost` also lets a live holder lose its
lease. `raced` is a history variable: figures were in flight when their source
changed.

### Outbox and OutboxContract (MCOutbox, OutboxProofs)

A worker is one `publishOutboxBatch`: `Claim` is the claiming statement (ordered,
limited, SKIP LOCKED, attempts incremented), `Notify`/`Publish`/`Dispatch`/
`Unsupported` the effects with their failures (including a commit whose reply is
lost), `MarkPublished` and `Release` the token-guarded updates. The random claim
token is the worker's identity, replaced by `Gone` when the batch ends, which is
what randomness buys. Clocks are abstracted: a claim gets stale and a backoff
elapses at any time, also under a worker that is merely slow. `ReplayRead` and
`ReplayWrite` are the two calls of the dead-letter endpoint.

`OutboxContract` is what the outbox promises about one event: it is owed once its
row is committed, each of its effects is queued at most once, it is published
when what it owes has been done, and for ever; a dead letter may be put back. It
knows no claims, attempts, workers or failures. `Outbox!Contract(e)` instantiates
it for a row: `outcome` is read off `published` and `dead`, `made` off the queued
effects (`Outcome`, `Made`, `Duties`). A notification owes nothing by name, since
preferences decide what is queued for it. For the notification with a long dedupe
key the counted effect is the in-app row, because its channel rows may repeat.
`ImplementsContract` is the conjunction of `Contract(e)!Spec` over the rows,
written with one action so that TLC checks it in one pass.

### WebhookDelivery (MCWebhookDelivery, JobsProofs)

One endpoint. A process is an `attemptQueuedDelivery`, a replay or a test
request. Claim, read, send, outcome, counter, re-read, disable, alert are separate
steps. `RecoverStale` is the first update of the job; `LongSend` lets a request
outlast the ten-minute claim (the five-second timeout is one of inactivity).
Deletion of the endpoint keeps the deliveries (`webhook_id` becomes null).
Creation, editing and secret rotation of endpoints are not modelled.

### RefreshTokens (MCGuards, GuardsProofs)

One user. Tokens are numbered as they are issued; a client holds a token only
when it was returned. `Present` verifies and finds the row, `CheckSession`,
`IssueSession`, `IssueToken`, `Consume` are the calls of a rotation in order,
`RevokeStep` the transaction of the revocations. Tokens without a row (from
before rotation, or purged) migrate into a new family. Time advances between
requests: a request takes seconds, lifetimes are thirty days. Access tokens and
the Redis `sid:` keys are in Accounts.

### Idempotency (MCGuards, GuardsProofs)

One user and key. `Arrive` looks the row up and decides (answer, delete when
expired, give up when stale, create); `Create` meets the unique index; `Handler`
is the route, abstracted to whether it commits and how it answers; `Send*` record
the outcome. The route is assumed to answer 4xx only before it commits, which is
an assumption on every route and listed as a hazard.

### Attendance (MCAttendance, AttendanceProofs)

One employee-day. Instants are abstracted to who wrote them, heartbeats to their
order and to whether the newest one is within the grace period (`fresh`).
`CheckinDecisions` is what check-in and ip-event make of the row they read;
`Create`, `Update`, `Away`, `Reopen`, `BeatWrite` are the later statements.
Check-out, break start and break end re-read inside their transaction. The late
and absent detectors, the heartbeat monitor, the break manager and the two
closing jobs (stale sweep and shift auto-checkout, constant `Closers`) each read,
then write; a job's lease keeps its own second run out. The rows that
`settleBreaks` adds for skipped mandatory breaks are closed when they are
inserted and are left out, as are location, device and clock validation.

### ShiftTemplates, Roster (MCRoster, RosterProofs)

`ShiftTemplates` has the flags default and organisation-wide. Its transactions are
READ COMMITTED, so a statement works on the rows it saw when it started: a request
is the snapshot of its first statement and all that follows. `Roster` adds
assignments, swaps, offers and drafts. A handler that inserts is one step, since
the unique index on employee and day decides; a handler that updates by id is a
read and a write. A record of an assignment carries what the employee answered
(`of`) and which overlap it went through (`gap`). The notices that edits and
publications send are not part of it: they may be lost, and nothing in the schedule
depends on them. One compliance
rule, the rest between shifts (`TooClose`), stands for all of them.

### LeaveRequests, Approvals, Timesheets (MCRequests, RequestsProofs)

`LeaveRequests` is one employee and leave type, paid or unpaid, over a change of
year, with the two pages that approve, the cancellation by id, manual adjustments,
and the monthly accrual with carry-over. Requests are of whole days; every other
writer of an attendance row (check-in, check-out, partial leave) is `Attend`.
`Approvals` has the other kinds of request side by side:
the inbox claims a row by a conditional update, the pages write by id, and both
change the attendance row `day`, which check-in, check-out and override write too.
Every one of these writes passes the trigger of the attendance table
(`RowUnlocked`): once payroll is processed the writer's transaction is rolled back,
the claim of the request with it (`Refused`). A remote day is filed by the check-in
that wrote its row, so its rejection finds a check-in and changes nothing.
`Timesheets` has entries on a line of instants; the employee's own
handlers hold an advisory lock and are one step, a review and the check-out do
not take it.

### Accounts, Staffing, Onboarding (MCPeople, PeopleProofs)

`Accounts` is one account: a call reads it once, then writes by id, call by call,
to the database and to Redis. A session remembers the password and role it was
opened under, so that "ends sessions" compares. A role is written whenever one is
given, and PUT /users/:id revokes only if it differs from the one it read (`Unseen`).
Redis may fail to read or to count the wrong codes (`Lapse`). `Staffing` is the
people and roles of an organisation, with requests that die between their statements,
callers that leave the mirror alone (`OptOut`) and the repair at start (`Restart`).
`Onboarding` is templates and the tasks of a hire; a request that closed a task may
fail before its notice, or the notice does (`CloseFails`).

### Offboarding, Notifications, WhatsApp, Reminders, ScheduledReports (MCJobs, JobsProofs)

The background work: each module has the job with its lease or claim, the death of
an instance between two statements, the recovery, and the routes that write the
same rows. In `Offboarding` a log-in reads `is_active` and opens its session later
(`LoginBegins`, `LoginOpens`), and an invitation is accepted without looking
(`SetupAccount`). In `Notifications` the update that marks a message as sent may fail
after the provider took it ("unmarked"), and the message is queued again. In
`WhatsApp` a failing alert is swallowed (`AlertFails`). `Reminders` has the
scheduler's lease, the organisation's schedule and the markers, for three jobs that
use them differently (deadlines, the nudges of a remote session, the daily nudge).

A batch of `Notifications` works with the `now` it was given and the user as it was
read with the rows: `clock` holds the rows that are available at that time, so a row
that is put off is not taken up again by the same batch, and a batch that began late,
after the lease of another was lost, may find available what the other put off. A
digest reads the user once more, except whether the account is active. The run
starts with digests off, where no batches overlap, and with digests on, where they
do and a change of preferences may turn the digest off between two batches. With
digests on, deaths, failing updates and the other changes of preferences are each
explored alone (`OneUpset`); with digests off they are combined.

### Devices, Assistant, OfflineSync (MCGuards, GuardsProofs)

`Devices` has enrolment, approval and proofs of an employee's keys; signatures are
right or wrong. `Assistant` is a conversation whose requests overlap; the language
model is external and may answer, read, propose a change or fail. `OfflineSync` is
a batch of offline events under its Redis lock; the requests it makes may time out
and still be running.

### Composition

`MCRoster`, `MCRequests`, `MCPeople`, `MCJobs` and `MCGuards` put components that
belong together under one specification. Components that share rows are composed
in the modules themselves (Roster on ShiftTemplates, Approvals on the attendance
row and payroll, Timesheets with check-out and review, Reminders with lease,
schedule and marker). Between components that share nothing the product adds
states and no behaviour, so a behaviour keeps the `focus` it starts with and the
run covers the sum of the parts.

## Runs

| Run | Instance | What it shows |
|---|---|---|
| `payroll_run` | 1 employee, 2 administrators with both permissions, 2 requests, 2 attendance and 2 rate versions, aborts and crashes | `MakerChecker`, `FreshUnlessRaced`, `RateFreshWhenFinalized`, `PayslipMatchesRecord`, `NotifiedOnce`, `ProcessedIsFrozen` for overlapping generate, auto-generate, process-full, recall and rate changes |
| `payroll_serial` | 2 employees, 1 request, 1 claim, aborts | every endpoint one at a time: a run that finalizes one employee and fails on the next and is repeated; `TypeOK`, `GrossIncludesAdjustment` and `ReimbursedOnce` when nothing overlaps |
| `payroll_stale` | 2 requests | **violated**: `ProcessedIsFresh`, the reference's unconditional claim |
| `outbox_batch` | a notification and an organisation event, 2 workers, 2 administrators, 2 attempts, batches of 2, 2 replays (also of the same row), all failures | `TypeOK`, `DeadIsExhausted`, `QueuedOnce`, and the refinement `ImplementsContract` |
| `outbox_settles` | an unsupported and an organisation event, 2 workers, batches of 1, failing effects and lost replies, fair | `EventuallySettled` while nobody dies |
| `webhook_attempts` | 1 delivery, 2 processes, 2 attempts, threshold 2, 2 replays, 1 test, 1 crash, 1 overlong request, deletion, fair | `WebhookSafe`, `EventuallySettled` |
| `attendance_day` | 2 device requests, 1 closing job, 2 break rows, 2 heartbeats, at most 2 in progress | `AttendanceSafe`, `ReportedStands` |
| `guards_requests` | tokens: 3 tokens, 2 families, one token without a row, 2 requests, lifetimes of 2, time to 3; keys: 3 requests, 2 contents, 2 rows; devices: 2 keys, 2 requests, limits of 1, 2 enrolments and challenges; assistant: 2 requests, 2 changes, 3 messages, limits 2 and 4; batches: 3 events, 2 requests, 3 batches; a crash in each | `TokensSafe`, `NoExchangeAfterRevocation`, `IdempotencySafe`, `DevicesSafe`, `AssistantSafe`, `SyncSafe` |
| `roster_week` | 2 managers, 2 employees, 2 shifts too close to each other in one order, 2 days of which one is the published week, 2 assignments, 1 swap, 1 offer | `TemplatesSafe`, `RosterSafe`; foci templates, publish (one assignment, both managers), rest (two assignments of one employee, one request), swaps, offers, plans |
| `requests_decisions` | 2 leave requests, 3 days over a change of year, 2 desks; 2 other requests, 2 reviewers; 3 time entries, 4 instants, 2 weeks | `LeaveSafe`, `ApprovalsSafe`, `TimesheetsSafe`, `LockedStands`; foci leave, balances, overtime, corrections, claims, timesheets |
| `people_accounts` | 2 calls, 2 sessions, lock at 2 and escalation at 3 failures, 2 wrong codes, 1 crash, 1 failure of Redis; 3 people, 2 seats, 2 system roles and a custom one, 2 administrators; 2 templates, 2 tasks, 2 clerks | `AccountsSafe`, `StaffSafe`, `OnboardingSafe`; foci login, credentials, access, leaver, factor, hiring, roles, templates, tasks |
| `jobs_background` | 2 cases, 2 requests; 2 deliveries, 2 batches, 2 attempts; 2 messages with a limit of 2, 2 callbacks; 2 subjects, 2 instances; 2 runners, a schedule of period 2 and time to 3; one fault or lost lease each, fair | `OffboardingSafe`, `NotificationsSafe`, `WhatsAppSafe`, `StatusNeverRegresses`, `RemindersSafe`, `ReportsSafe`, `OutstandingIsDone`; foci revocation, sessions, settlement, deliveries, digests, messages, receipts, deadlines, remote, daily, timetable |

Why these bounds. The races are between two actors: two requests (three for the
idempotency key, where winner, loser and late reader differ) suffice to make each
of them happen, and the mutants, all found in the same instances, show that the
instances are large enough for the properties to fail. Two attempts instead of
eight keep "not the last", "the last" and "one too many" apart; two versions tell
current from outdated; lifetimes of two steps with time to three include valid,
expired and purged. In `attendance_day` one closing job stands for both, because
they write the same columns; the constant allows two. In `outbox_batch` the two
rows differ in kind, so that both effect paths overlap in one batch.

`payroll_run` leaves adjust and reimburse out and `payroll_serial` leaves
concurrency out, because together they violate the properties, see
[Known disagreements](#known-disagreements). In `payroll_serial` adjust sets hours
only: an explicit value replaces the reimbursed amounts by design.

## Fairness

Only what the scheduling of the code gives is assumed. `Outbox!FairSpec`: the
cron fires every minute on some instance (weak fairness of `Claim`), a batch that
was started runs on, time passes. Nobody is assumed to replay a dead letter, no
effect is assumed to succeed. `WebhookDelivery!FairSpec`: the job takes every due
row each minute; strong fairness on the claim because replays and recoveries may
disable it for a moment; attempts run on; claims age. The receiver may fail for
ever. `MCJobs!MCSpec`: the cron starts each job again and again on some
instance, and a job that was started runs on until it ends or dies
(`RevokerNext`, `NotificationFairness`, `ReminderFairness`, `ReportFairness`);
deaths and faults are bounded by constants, Redis keys expire. No request of a
user is fair, and no provider is assumed to accept anything. The other
specifications are safety only.

## Proofs

TLAPS checks the theorems below for every value of the constants that satisfies
the modules' assumptions: any number of employees, rows, requests, instances and
attempts. Most of the `...Safe` properties are not inductive: requests decide on a
row they read some steps ago. The strengthening says, for each label a request
may be at, what of its reading still holds; it was checked by TLC as an invariant
of the run's instance before it was proved. Where a run explores a component by
focus, the theorem is about the component's whole specification (`StaffSpec`,
`DevicesSpec`, ..., the component's `Init` and all its actions together), which
includes what the foci explore.

The assumptions on constants are those of the modules: bounds are numbers, the
null value is none of the values it stands next to, and sets that are counted
(`Procs`, `DeviceRequests`, `Calls`, `Items`, `Batches`, `Requests`, `Days`) are
finite; the subjects of a reminder job are a sequence. There is a role
(`Roles # {}`: a new account is given one), and the leave balance that the first
year opens with is within the bound on balances (`Opening <= MaxTotal`).

### Payroll (PayrollProofs)

- `PayrollTypeOK`, that is `Spec => []TypeOK`.
- `MakerCheckerHolds`, when a live holder does not lose its lease. process-full
  compares `generated_by` with its actor when it loads the rows and finalizes them
  many calls later; that the rows still have the maker it compared needs that no
  generate holds the period lease in between. The strengthening: a request at a
  label behind the lease owns it, the rows a generate run has still to write are
  not processed, and every row still to be finalized exists and has a maker other
  than the request's actor. The cron writes without a lease, but only rows that do
  not exist, with maker null.
- `NotifiedOnceHolds`, also when leases are lost: the outbox row is written by the
  conditional finalization (`RecallsFinal`).
- `FreshUnlessRacedHolds`, also when leases are lost. The invariant `FigureInv`
  follows the versions from the reading to the finalization: `SameBase`,
  `SettledFresh`, `AttendanceSeen`, `RecordSeen`.
- `RateFreshHolds`, an action property, when no live holder loses its lease: the
  configuration lease keeps the pay rules still while figures are computed
  (`ConfigExclusive`, `RateSeen`, `DraftRate`).
- `PayslipMatchesHolds` and `ProcessedFrozenHolds`, when no live holder loses its
  lease and without the adjust and reimburse endpoints (`NoEdits`): these write by
  id after they looked at the status and may change a record that was processed in
  between, which is what [Known disagreements](#known-disagreements) reports. The
  invariant: what was uploaded is the pay of the record that is still a draft
  (`LoadedOpen`, `UploadedCurrent`). A processed record has that object or none, and
  none only if its own run deleted it (`DeletedPdf`).
- `GrossIncludesAdjustmentHolds` and `ReimbursedOnceHolds`, when requests do not
  overlap (`Serial`), for all endpoints with their aborts and crashes; the second
  for finitely many claims and when nothing else sets the adjustment
  (`AdjustValues = {}`), as an explicit value replaces reimbursed amounts.

The hypotheses are those of the runs: `payroll_run` and `payroll_serial` check the
properties under them, and without them TLC has counterexamples.

### Outbox (OutboxProofs)

- `OutboxTypeOK` and `OutboxDeadIsExhausted`. The token of a row held by a running
  worker comes with the worker's `tries` equal to the row's `attempts` (so the
  worker's stale copy decides correctly whether this was the last attempt); an idle
  worker owns no token; a published or dead row carries none; dead rows have all
  their attempts. The first part is what a replay that leaves the claim alone
  would break.
- `OutboxImplementsContract`, that is `Spec => ImplementsContract`, and
  `OutboxQueuedOnce`. Every step of Outbox is a step of the contract of the row it
  works on, or leaves its outcome and effects alone. That needs four facts more: a
  worker's batch and current row are rows that exist; a worker about to dispatch
  has announced, and one about to mark an organisation event has done both
  effects; a channel is queued at most once unless the key is long; a row that does
  not exist is neither published nor dead.

### Requests at the door (GuardsProofs)

- `IdempotencyHolds`: the row a running request created is its own and has not
  expired (`RunnerHasRow`), and what was committed is known to a row (`CommitsKnown`).
- `TokensHold` and `RevocationHolds`: while a family is open every use of a token
  was exchanged or is in progress, by cardinality (`UsesKnown`); a rotation that is
  past the check of the session loses its token with the session
  (`RevokedTogether`), and sessions outlive their tokens (`SessionsOutlive`).
- `SyncHolds`: a batch under way has the lock (`BatchHasLock`), and what it has
  applied is a prefix of its events (`PrefixApplied`).
- `DevicesHold`: the key that is trusted was proved in the latest enrolment
  (`LatestEnrolment`); the limit of open challenges is kept by counting the issuers
  that have counted and not yet inserted (`ChallengeRoom`).
- `AssistantHolds`: a request that applies or cancels has cleared the proposal
  (`DecidersKnown`, `PendingUndecided`).

### Attendance (AttendanceProofs)

- `AttendanceHolds`: `AttendanceSafe`; and `ReportedHolds`: `ReportedStands`, an
  action property. What a stale reading is still good for: a request or job that
  found a row finds one (`RequestsKnown`, `JobsKnown`); a check-in that updates a
  placeholder does not meet a row that a check-in inserted; the heartbeat the
  monitor found expired is not fresh if it is still the newest (`ExpiryKnown`),
  since a new heartbeat has a new instant; the break manager starts a break only
  while none of its own is open (`ManagerAlone`), since its lease keeps a second
  run out and nobody else starts one for the employee; an absence is alerted by the
  run that set the flag (`AbsenceKnown`).

### Schedule (RosterProofs)

- `TemplatesHold`: `TemplatesSafe`. Without an overlap one request is active, or all
  of them are set-default; a request that is about to write has matched every row
  that has a flag it turns on, and a flag it keeps is its template's alone
  (`NoOverlap`); a template that keeps a flag is published (`SetHadFlag`), and one
  that is being created is known to nobody else (`CreatesUnknown`).
- `RosterHolds`: `RosterSafe`. A write keeps what a row says of itself (`Sound`) only
  if the writer's reading of the row is still right. `Knows` says, for every request
  and row, what of it is: the row a published edit has read is still published, the
  version an answer is about is still the version, the rows that a publication read
  have templates that it read; or else `gap` says that requests raced. A writer that
  meets another request on its row records it (`Rewrites`), which is what keeps
  `Knows` for the others. The assignments of a swap cannot be deleted (`SwapsKnown`),
  an offer's template is there until it takes its offers with it (`OffersListed`),
  and an offer under cancellation was open or is recorded as raced (`CancelKnown`).

### Requests and approvals (RequestsProofs)

- `TimesheetsHold` and `LocksHold` (an action property): the entries of a sheet and
  the reviews in progress agree with its status.
- `ApprovalsHold`: a pending request is undecided and an approved one has its effect
  (`DecidedAsStatus`), all minutes are extra until overtime is approved, and a
  decision that is not stale has read them (`AllExtra`). That the attendance of a
  processed payroll stands (`PaidAttendanceStands`) needs no strengthening, and
  that a decision refused by the trigger leaves its request pending is part of
  `DecidedAsStatus`.
- `LeaveHolds`: a pending request has cost nothing, and one that never met another
  is the only one pending and still fits its balance (`PendingFits`, which
  `WithinBalance` needs when it is approved); a submission in progress knows as much
  of the rows and the balance it has read (`DesksKnow`); a year without a balance
  is the second, and nothing was booked on it (`Unopened`), so that the balance the
  accrual opens starts from the days carried over. `used_days` is stated as the
  number of pairs of a request and a day that are charged to the year
  (`DaysCharged`): an approval adds the pairs of its request, and no sum over a set
  has to be reasoned about.

### People (PeopleProofs)

- `StaffHolds`, `OnboardingHolds`, `OffboardingHolds`: each request knows of the
  rows it will write by id either what it read, or that the overlap is recorded in
  the history variable that the property names.
- `AccountsHold`: a call that will open a session has read the password, role and
  state that are in force, or it was overlapped (`AllReadOrRaced`); an open session
  from before a change was overlapped by it, or saw a role put back by a request
  that took it for no change, or the change has yet to revoke every session
  (`StaleIsEnded`), and once a deactivation has revoked, only overlapped or
  unchecked sessions are open (`LeaverIsOut`). Failures that reach the limit have
  set the lock or are about to (`LockComes`). Links are numbered in the order they
  are issued, and a spent one is an old one (`LinksApart`). Codes that were tried
  and calls that are trying one are counted together with the failures of Redis
  (`TriesBounded`).

### Jobs (JobsProofs)

- `WhatsAppHolds`: the messages accepted and those that hold a reservation are at
  most the reserved ones, and these at most the limit (`ReservedFirst`, by
  cardinality). `ReportsAdvance` (an action property, `StatusNeverRegresses`): a
  report that is being applied advances the status (`CallbacksAdvance`).
- `ReportsHold`: a run belongs to the runner that claimed it (`RunsOwned`), a mail to
  its run (`MailsKnown`), a date that was left is never claimed again (`LeftForGood`),
  and no run is later than `next_run_at` (`NothingLater`).
- `RemindersHold`: an instance that completes a marker or stamps a session has
  queued (`QueuedFirst`), although the marker may be another's by then; the tasks an
  instance has passed are handled unless it knows of a failure (`PassedHandled`),
  which is what the completion of the job relies on; and a session whose daily nudge
  is being sent has one sender, before whose message all others were repeated for a
  failure (`NudgeClaimed`, `NudgeAlone`, `NudgesPaid`). Leases play no part in it.
- `NotificationsHold`: copies and attempts are counted against what pays for them.
  A row that no digest has crossed is in the hands of one batch (`HeldAlone`), what
  went out was recorded, could not be, or will be recovered (`CopiesCounted`), a recovery finds rows
  that no batch holds (`StaleIsFree`) and is owed to a death (`OrphansOfDeaths`). How
  far the count that a batch will write may lag behind is bounded by the batches
  that overlapped it (`LagsBounded`, `AliveAreOverlaps`).
- `WebhookHolds`: `WebhookSafe`. The invariant counts: every attempt and every sender
  beyond one at a time is paid for by a crash or by a request that outlasted its
  claim (`SendersPaid`, `AttemptsPaid`, `Alone`), and one process sends the
  alert, for an endpoint that it has disabled (`AlertInv`).

### Only model-checked

- Liveness (`EventuallySettled` of Outbox and of WebhookDelivery, `OutstandingIsDone`):
  fairness and ENABLED are out of the prover's reach.

## Known disagreements

One is a run that TLC shows violated (`expect: violation`), with its finding in
PROJECT.json: `payroll_stale` (`routes/payroll.ts:301`). Generate clears
`inputs_stale` although the attendance changed after it read it; process-full
finalizes old figures. The reference, line 560, says this cannot happen.

Three more can be seen by changing a configuration:

- `services/outbox.ts:66`: a crash in the last attempt leaves a row that is neither
  published nor dead. Add `"crash"` to `Failures` in `MCOutbox_settles.cfg`:
  `EventuallySettled` is violated.
- `routes/expenses.ts:261`: concurrent reimbursements overwrite each other or pay a
  claim twice. Give `MCPayroll_serial.cfg` two `Procs` and two `Claims`:
  `ReimbursedOnce` is violated.
- `services/webhookDelivery.ts:86` and `:92`: a test request writes the failure
  count it read before sending (losing a success in between) and may disable the
  endpoint without the alert that the reference promises at line 612.

The following were met while modelling; the model contains the behaviour, and
the properties are stated with the exception it forces:

- `routes/payroll.ts:718`: the finalizing update accepts drafts only, so a recalled
  record never becomes processed again, although the comment at line 566 says it
  can be "re-processed".
- `routes/payroll.ts:501`: adjust tests the status of a row it read before it
  took the leases (compare `:215`), so that a record processed in between is
  changed: `ProcessedIsFrozen` fails when adjust overlaps process-full.
- `routes/payroll.ts:219`: generate computes gross pay from the adjustment it
  loaded at the start; a reimbursement in between stays in `manual_adjustment`
  and is missing from gross (`GrossIncludesAdjustment`).
- `routes/payroll.ts:717`: the payslip is rendered from the row as loaded; a
  reimbursement before the finalization makes them differ
  (`PayslipMatchesRecord`). Reimbursement takes no lease.
- `routes/payroll.ts:757`: the catch block deletes the payslip, also when the
  finalization was committed and only its reply was lost: a processed record without
  its object (`DeletedPdf` in `PayslipMatchesRecord`).
- A holder that loses its Redis lease (`utils/redisLease.ts`) loses
  `MakerChecker`; the database conditions alone still keep `FreshUnlessRaced` and
  `NotifiedOnce`. Set `LeaseMayBeLost = TRUE` to see it.
- `services/notifications.ts:209`: a dedupe key of more than 36 characters gets a
  random event id, so that a retried outbox row queues its channels again (the
  reference, line 703). `QueuedOnce` excepts `LongKey`.
- `services/webhookDelivery.ts:209`: recovery of a stale claim does not look at
  the attempts; a crash in the eighth attempt leads to a ninth (the reference,
  line 422). `AttemptsPerRecovery` counts them.
- `services/webhookDelivery.ts:226`: a replay updates by id what it read as dead;
  of two overlapping replays the second requeues a delivery that is being sent or
  has been delivered. `OneSender` excepts a second replay, which the run includes.
- `services/refreshTokens.ts:158`: a token without a row is migrated each time it
  is presented until its JWT expires; the comment at `:142` says "accepted once".
  `ExchangedOnce` is about tracked tokens.
- `jobs/scheduler.ts:474` and `:825`: the stale sweep and the shift auto-checkout
  write by id; a manual check-out between their read and write is overwritten.
- `jobs/scheduler.ts:317`: the absent detector marks a row absent whose employee
  has checked in meanwhile; the heartbeat monitor and the auto-checkout then skip
  the row (the reference, line 460). The alert is lost when the job dies between
  the mark and the alert.
- `jobs/scheduler.ts:410`: the heartbeat monitor settles the breaks before its
  conditional update: breaks of someone still at work are closed, or one started
  in between stays open on a row that is checked out.
- `jobs/scheduler.ts:883`: the break manager inserts a break from an earlier read,
  also when the employee has just started one or checked out; hence the exception
  for automatic breaks in `CheckoutClosesBreaks` and `OneOpenBreak`.
- `routes/attendance.ts:1326`: re-entry reopens by id; two devices record the same
  gap twice, and a manual check-out in between is undone.
- `routes/attendance.ts:1468`: on a placeholder row two overlapping check-ins both
  update, the second replaces the time; `CheckInStands` is about rows a check-in
  inserted.
- `routes/attendance.ts:1706`: a failure to stop the timer rolls the check-out
  back; the reference, line 685, says it does not.
- `middleware/idempotency.ts:121`: a 4xx answer frees the key. That no route commits
  before it answers 4xx is an assumption on each of them.
- `routes/shifts.ts:659`: two requests that clear a flag by its value leave two
  default templates (`together` in `OneOfEachFlag`).
- `routes/shifts.ts:1511`: what changes while a week is being published may be
  published unseen (`gap` in `OverriddenIsPublished`); a swap never asks again
  (`AnsweredWhatWasSent`).
- `routes/shifts.ts:1059`: the notice of a change to a published assignment has the
  assignment's id as its dedupe key, so that the notice of a second change is skipped
  as a duplicate; `:1521`: the notices of a publication are sent after its
  transaction, and `services/notifications.ts:235` swallows their failures. No
  property says that an employee whose answer is awaited was told.
- `routes/shifts.ts:1772`: the shift page approves a swap whatever its status;
  `SwapDecidedOnce` is about swaps decided in the inbox.
- `routes/shift-field-ops.ts:289`: an offer claimed while it is being cancelled is
  cancelled and filled (`raced` in `WithdrawnUnfilled`).
- `routes/leave.ts:174` and `:295`: cancelling and rejecting by id overwrite an
  approval; the days stay deducted (`raced` in `DeductedOnce`).
- `services/leave-request.ts:48` and `:51`: two submissions in progress together are
  both accepted, pending requests reserve nothing, and a year without a balance
  row limits nothing (`twin` in `NoDoubleBooking` and `WithinBalance`).
- `routes/attendance.ts:1465`: a check-in on a day of leave replaces the status of the
  row, and `:1915` and partial leave write it too (`written` in
  `LeaveDaysWereApproved`).
- `routes/expenses.ts:175`, `routes/overtime.ts:63`, `routes/attendance.ts:948`: pages
  that decide by id may both win (`raced` in `DecidedOnce`); a check-out after the
  approval resets overtime (`routes/attendance.ts:1725`, `stale`).
- `services/approval-workflows.ts:401` and `routes/attendance.ts:2079`: a correction or
  an override of an absent row writes a check-in and leaves it absent; no property
  relates the two columns.
- `routes/users.ts:679`: sessions are revoked before the account is deactivated, and
  invitations and single sign-on do not look at `is_active` (`LeaverHasNoSession`).
- `routes/users.ts:657`: the sessions are revoked if the role differs from the one that
  was read; when another request has changed it since, a request that writes the old
  role back sees no change and leaves the sessions opened meanwhile (`unseen` in
  `ChangeEndsSessions`).
- `routes/org-rbac.ts:183`: with `sync_legacy_role: false` the assignment and its mirror
  differ (`unsynced` in `MirrorAgrees`).
- `routes/auth.ts:409`: requests in parallel try more codes than the limit
  (`WrongCodesBounded` allows one each); `:411` and `:431`: without Redis a code is
  tried uncounted (`lapses`); `:457`: a setup during the check of a code
  enables a secret nobody verified (`setupRaced`).
- `routes/users.ts:395`: overlapping creations and reactivations exceed the seats;
  `:441`: a request that dies leaves a person without role until the next start.
- `utils/rbac-seed.ts:155`: a system role created without its permissions stays so.
- `routes/admin.ts:273`: an organisation is active before its contact address is
  refused.
- `routes/onboarding.ts:121`, `services/onboarding.ts:92`: overlapping saves leave two
  defaults, overlapping assignments make the tasks twice; `routes/onboarding.ts:253`:
  a request that fails after it closed the last task, or whose notice fails
  (`:284`), leaves completion unannounced (`lost` in `CompletionAnnounced`).
- `routes/offboarding.ts:46`, `:84`, `:167`: two cases are opened together; an edit or
  a saved settlement overwrites by id what was submitted or revoked meanwhile. Once
  access is revoked the checklist can no longer be edited, although the notice of
  the revocation asks to complete it.
- `routes/auth.ts:140` and `:240`: a log-in that read the account before it was
  deactivated opens a session after the revocation, and setup-account (`:346`) never
  looks at `is_active` (`slipped` in `RevokedIsLoggedOut`).
- `services/notificationDelivery.ts:148`: a digest contains rows it did not claim
  (`crossed`); `:37`: a recovery does not look at the attempts (`AttemptsLimited`);
  `:109` and `:154`: when the update that marks a message as sent fails, the message is
  queued and sent again (`unmarked` in `SentOncePerRecovery`).
- `services/whatsappUsage.ts:77`: a failing alert is swallowed; the next attempt gives it
  again, if there is one (`muted` in `LimitIsAnnounced`).
- `services/whatsapp.ts:180`: a report that arrives before the message's identifier
  is stored is ignored for good; two reports applied together may regress.
- `jobs/scheduler.ts:949`: a nudge the provider refused counts as sent; `:955`: one
  it accepted is sent again when a later statement fails.
- `services/scheduledReports.ts:66`: a run whose runner died stays `running` and its
  date is lost; `routes/misc.ts:1238`: a PATCH may write an old date back, which is
  then claimed in vain every minute (`NextIsNew`).
- `routes/attendance-devices.ts:45`: the limit of five devices is tested before the
  insert, and not at all when a revoked key is enrolled again.
- `routes/attendance.ts:94`: the retry of an event whose first request still runs is
  answered 409 and reported as parked for review.

## What is not modelled

Single-row CRUD (projects, announcements, kudos, documents, most of the platform
administration, profiles), read-only queries, reports and dashboards, the tools
and wording of the AI agent, the providers of e-mail, push and WhatsApp (pure
I/O), the validation of locations, device evidence and clocks (arithmetic and
cryptography on one request), coverage, budget and cost of shifts, the rotation
of webhook secrets. Pay arithmetic is pure: Payroll uses the version of its inputs
in its place. PROJECT.json lists each part with its reason.

## Plan

Done, in the order of importance: Payroll, Outbox with its contract,
WebhookDelivery, RefreshTokens, Idempotency, Attendance, Roster, LeaveRequests,
Approvals, Timesheets, Accounts, Staffing, Onboarding, Offboarding, Notifications,
WhatsApp, Reminders, ScheduledReports, Assistant, Devices, OfflineSync.

Every invariant and action property of a passing run is also a theorem. Models next:
pay arithmetic as operators against a reference definition, coverage rules, and the
abstract queue that WebhookDelivery and Notifications would implement as Outbox does.
