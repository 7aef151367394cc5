# WMS-B in TLA+

A verification development for the back end of WMS-B, the workforce management
system in `src/`. It holds TLA+ modules that model the program's own logic,
configurations with which TLC checks them on small instances, and theorems,
with proofs TLAPS checks, that hold for every value of the constants.
`PROJECT.json` maps every definition to the lines it stands for.

Contents: 1 the system and its inventory, 2 the modules and how they correspond
to the code, 3 what each run checks and its bounds, 4 fairness, 5 what is proved
and how, 6 where the code and its texts disagree, 7 what is not modelled, 8 plan.

## 1. The system

One Node process serves an Express application (`src/server.js`, `src/app.js`)
and runs five timers (`src/workers/index.js`: health every 30 s, infrastructure,
backup scheduler and notification worker every minute, backup retention every
hour). State lives in three places.

* *JSON files*, one per collection, read and written synchronously and whole by
  `database/jsonStore.js`. Every domain record is here. A write is followed by a
  best-effort copy of the records to Postgres (`_shared/postgresRecords.js`), in
  the background and in order; a failed copy is logged and forgotten. At start
  the copies are merged back.
* *Postgres tables*, read and written with `await`: backups and their settings,
  the user accounts, health measurements, the technical audit.
* *Memory of the process*: the two queues of backup jobs, the handlers suspended
  at an `await`, the running ticks.

Three facts decide how everything is modelled.

* JavaScript is single-threaded: the code between two awaits runs to its end. A
  handler over JSON collections only is therefore **one** action. A handler that
  awaits is one action per stretch between awaits, and what it read before an
  await may be stale after it.
* `setInterval` does not wait for the last run of its function: ticks of one
  timer overlap when one takes longer than the period.
* There is no recovery code. And every stop is a crash: the handlers of SIGTERM
  and SIGINT read `runtimeConfig` (`server.js:38`), a constant of another
  function, throw, and end the process in the middle of whatever it was doing.

### Components

Each entry: state; operations; who it talks to; what is hard; what is right.

**Backups** (`modules/backups/*`). Rows of table `backups` with status,
verification, path and deletion mark, the settings row, archives in storage,
arrays `backupQueue` and `restoreQueue`, set `runningBackups`. An archive is named by
the millisecond of its job. Queue by hand or by the scheduler, run, verify, restore, delete, expire, change settings. Calls
`pg_dump`, `psql` and storage; is called by requests and two timers. Hard: six
kinds of suspended handlers interleave with two queues whose callbacks reschedule
themselves; rejected queries in error handlers; crashes; two jobs of one millisecond.
Right: no queued job is forgotten or run twice, an active row is being worked on, a
verified backup has its archive, one automatic backup a day, everything queued ends.

**Paystack payments** (`modules/integrations/integration.service.js`,
`paystack.service.js`). Collections `payments` and `integration_webhook_events`.
Initialise, verify, transfer (each suspended in a call to Paystack) and the
webhook. The accountant's portal records and reconciles payments in the same collection.
Hard: an answer awaited while the webhook writes the same record; events repeated, late
and reordered, with ids shared by the events of one charge; a connection that breaks after
Paystack acted; records of one reference, made or renamed by the portal. Right: success is
shown only for what was paid, and is not taken back without cause.

**Payroll** (`modules/payroll/*`). Periods, runs, items, approvals, payment rows.
Create, approve, reject, pay by hand, pay through Paystack, lock, cancel. Hard:
paying through Paystack awaits once per item while other requests reject or cancel
the run; a refusal or a restart leaves half of the rows; other requests write payments
with the references of its items. Right: no item is paid twice or unapproved, a run shown
as paid has paid all its items, a row stands for a charge, paying ends.

**Notifications** (`modules/notifications/*`). Collections `notification_jobs`,
`push_subscriptions`, delivery logs. `send()` queues a job per channel;
`processQueue()` takes up to 25 due jobs; subscribe and unsubscribe. Hard: calls
overlap and hold stale copies of jobs; answers of push services arrive after the
user unsubscribed; retries; a stop in the middle of a job. Right: a job is given
up only after its attempts, one that is being sent is in somebody's hands, a
subscription that is off stays off, the worker gets to every job.

**Email** (`modules/email/*`). Collections `email_jobs`, `email_logs`, the
switch of the service. Queue, drain, check of the configuration. Fed by
notifications and by direct requests. Hard and right: as above, and the log agrees
with the mail.

**Leave** (`modules/leave/*`, and the portals `manager/service.js`,
`hod`, `hr/hr.service.js`). Collections `leave_requests`, `leave_balances`,
`leave_extensions`. Apply, approve, reject, withdraw, cancel, extend, adjust. Hard:
long sequences of legal calls by two implementations of the same workflow, one of
which keeps the books and one of which does not. Right: balances hold exactly the
days of the requests; what remains is not driven below zero.

**Authentication, accounts and sessions** (`auth/*`, `modules/auth/routes.js`,
`modules/security/*`, `modules/profile/*`). Accounts (Postgres, with a copy in
`users.json`), sessions (JSON), failure counters, the setting and the challenges of
the second factor. Sign in, refresh, sign out, lock, unlock, reset, revoke, turn a
second factor on and off. Hard: rows read before an await and written after it, a copy
that a start writes back, sign-ins suspended while an administrator acts. Right: no
more sessions than the limit, a challenge opens one session, the second factor is as it was last asked for.

**Local persistence** (`database/jsonStore.js`, `_shared/postgresRecords.js`,
`employees/employeeProfile.js`, `server.js`). Files, the chain of queued copies,
table `operational_records`. Write, copy, make profiles, merge at start. Hard: stops
between a write and its copy or inside a write, failed copies, disks that come back
empty, equal time stamps, a start that writes before it has read. Right: the copy
follows the writes in order, a start serves nothing older than the copy, and the
merge, which looks at stamps only, takes the newer content.

**Expenses, procurement, bills** (`modules/expenses`, `procurement`, `bills`,
`vendors`, `accountant`). Requests for money with levels of approval that depend on
the amount, orders with partial receipts, bills and claims paid in parts. Synchronous
handlers. Hard: long sequences, sums at their limits, drafts edited under a policy that
changes, portals that write the same rows with other fields. Right: nothing is
paid or ordered beyond what was approved at every level.

**Attendance** (`modules/attendance`, `manager`). Check-ins against a schedule at a
place, corrections, the leads' clock. Hard: shifts that span midnight in another zone
than the server's, retries, schedules edited during a shift. Right: one check-in per
shift, of the shift that is open.

**Meetings** (`modules/meetings`, portals). Rooms and times. Hard: the conflict
check is separated from the write by a call to Google or Zoom; portals check nothing.
Right: two meetings clash only if one was put there unchecked.

**Events, announcements** (`modules/events`, `announcements`). A record, its audience,
who was told and who answered. Hard: publishing again, audiences and memberships that
change. Right: everyone is counted once and told once.

**Staff** (`modules/employers`, `departments`, `hr`, `roles`, `users`). Employees with
their status, salary, department, account and role. Hard: the status of the
employee and that of the account are two writes with an await between them; raises
are kept in two collections; default roles exist without a row. Right: whoever is out
of work has no access, a raise is applied once, codes and keys are of one.

**Interns** (`modules/nyscIntern`, `intern`). Placements, supervisors, logins. Hard: a
person is found by name or address, an account is awaited. Right: one open placement.

**Discipline, targets** (`modules/discipline`, `targets`). Cases with actions and
appeals; targets with tasks. Hard: reviews after the end, portals that write the status
alone. Right: the status is what the history says, complete means reached.

**Payroll calculation** (`payroll-calculation.service.js`, `payroll.service.js`). Salaries
with days of effect, components, taxes, deductions. Right: paid from one salary, off by
rounding alone.

**Other integrations** (Slack, Google, Zoom). A connection per provider and OAuth
states. Hard: test, refresh and exchange are suspended while others disconnect or
connect again. Right: tokens fit the status and belong to one authorisation.

**Role workspaces** (`hr`, `hod`, `manager`, `secretary`, `accountant`,
`employee`). Second implementations of the operations above; modelled
with the component whose records they write. Company e-mail (`secretary`) is
theirs alone: an address is of one mailbox, through retries and changes of mind.

**Own records** (the portals, `profile`, `users`, `auth/accountStore.js`). A person's name, number and
photo are in users.json, in Postgres and in the employee's row. Hard: portals, profile page,
administrators and starts write different ones of the three, with awaits in between. Right: each
place has what its last writer was asked for.

**No logic of their own:** generic resources, audit trails, system settings,
health, dashboards, reports, search, HTTP wiring, schema, scripts, the PWA;
section 7 says why they stay out.

## 2. Modules

    Backups ............ MCBackups, BackupsProofs
    Payments ........... PaymentsProofs
    Payroll ............ INSTANCE Payments; MCPayroll, PayrollProofs
    Delivery ........... what a delivery queue promises (abstract)
    EmailQueue ......... implements Delivery
    Notifications ...... INSTANCE EmailQueue, implements Delivery; MCNotifications,
                         NotificationsProofs
    Leave .............. MCLeave, LeaveProofs
    Persistence ........ MCPersistence, PersistenceProofs
    Workflows .......... EXTENDS Payments and INSTANCEs the modules below; MCWorkflows,
                         MoneyProofs (its money but Salaries and Careers), WorkflowsProofs (the rest):
      money              Expenses, Procurement, Bills, Salaries, Careers
      people             Employment, Placements, Departments, Roles, Discipline, Targets, OwnRecord
      time               Attendance, Meetings, Events, Announcements
      access             Accounts, SecondFactor, CompanyEmail, Connections

An `MC` module extends its module with the symmetry, or the sets, of the instance. Each proof
module extends the module it is about. Names are those of the code wherever TLA+
allows. An operator `f_bug` next to `f` is a form of `f` with a plausible
bug: replacing `f` by it must break a property, which shows that the property is
able to fail.

**Backups.** `status`, `verification`, `filePath`, `deletedAt`, `automatic`,
`createdOn`, `completedOn` are the columns; `files` the storage, by name: whose archive lies
there; `archive` the name a job gave its own, which is new, or that of another job that was named in
the same millisecond and is still at its `pg_dump`; `backupQueue`,
`restoreQueue` the arrays; `backupWake`, `restoreWake` count the `setImmediate`
callbacks not yet run; `job[b]` and `restore[b]` are the await at which the
execution of b stands. A slot of `Request` is a suspended request or tick;
`pc[r]` names the query it waits for. `queueManualBackup` up to its first await is
an action, `createBackupJob` and `enqueueBackup` the next ones. A job or a restore ends in
step "end", in which audit, heartbeat and the clearing of its directory are awaited, and holds its id until
then. `rejectQuery`, `rejectCompletion` and the second branches of `completeRestore` and `deleteFile` are
what may be rejected (`Faults`), `crash` a stop: memory is lost, rows and
files stay. Dates are days; `comeDue` lets the schedule pass. `requests` counts what was accepted
or started, ticks included.

**Payments.** `payments` are the records in order; one is found by its reference, the first
of several (`savePayment`). `recordPayment` and `reconcilePayment` are the accountant's portal: what its
body may choose, reference, status and deletion, is a reference of `Ref` or none and one status "booked",
since no status it writes equals the "success" of Paystack's records. `call[c]` is a suspended request with its answer once Paystack gave
one; `settle` is the rest of the handler. Paystack is the environment, as the code
uses it: `charge` its own state, `events` a set it delivers from again and again.
An event "other" is recorded and leaves the status. `EventsNumbered` says whether an event has its own id or, as the code falls back
to, that of its charge.

**Payroll.** The whole run life cycle; `payByPaystack` starts, `payItem` sends an
item's query through `Pay!initializePaystackPayment`, `itemAnswered` saves Paystack's answer and the row, `finishPaystack`
writes the status at the end, `stopPaying` is a throw out of the loop, `restart` a
stop of the process. A payment request is one call of Payments named by its run,
so that webhooks, other initialisations and verifications (`askElsewhere`) and the portal (`book`) run between
the items; the last two note the reference in `touched`. Transfers leave no record and are left out.
References are distinct per run and employee.

**EmailQueue, Notifications.** A job keeps its status, retry count and
`errors`, a history variable: attempts that failed. `tick[t].todo` are the copies a
call of `processQueue()` took, with the retry count of the copy: what it writes back
is computed from them. A call runs from one await to the next; an email job does
not wait, because `sendEmail` only queues mail. Time is a Boolean `due` per job.
`Delivery` is the abstract specification: open until done or dropped, dropped only after `MaxRetries`
failed attempts, final afterwards. The refinement maps `sending` to open. It holds
while calls do not overlap; overlapping calls deliver a job twice and settle it
again, which `Delivery` does not allow, and the invariants of run `Notifications`
say what is left then.

**Leave.** One action per handler. `remaining` is `calculateRemaining`; `granted`
stands for allocated, carried forward and accrued days together. `less` is
`Math.max(0, m - n)`. `portalCreates` and `portalDecides` are the portals, which
overwrite the row with the body of the request. A count of working days is a
number in `Days`.

**Persistence.** One collection, that of the employees, because the server itself
writes to it at a start. A record is its `updatedAt` (`at`) and the last edit its content
has (`edit`; 0 for a profile the server made). `queue` is `persistTail`: snapshots of
the whole file, the first of which is copied record by record, `done` being the ones
behind it. `phase` is how far `start()` is: `syncAllUsersToSupabase` ends with the
profiles, `loadCollectionsFromPostgres` reads the table, `hydrate` merges, `listen` makes
the profiles again and opens the port. Copies run between these steps. `stop` loses the
memory, and the file too if it is inside `writeFileSync`; `loseDisk` is a
deployment on a temporary disk, as the documentation describes the host. The wall
clock does not go back; an account is linked to its profile (`accounts`) or found by
its e-mail. Left out: an account whose link was lost together with the file, which gets a second profile. A profile
is never deleted: no handler sets `deletedAt` in this collection.

**The modules of Workflows.** Each models one service and the portals that write its
rows. Workflows holds one part at a time in the variables `s1` to `s7`; its parameters `Rol(U, n)`,
`Att(S, L)` and `Con(R)` say which half of a module a part is. `Service`, `Portal` and the like group the actions in `Next`; an action is a handler,
or a stretch of one between two awaits when it is named after what ended the wait
(`exchangesCode`, `createUser`). Auxiliary variables (`held`, `restored`, `resumed`, `unchecked`, `raced`,
`edited`, `overlapped`, `overtaken`, `muddled`, `asked`, `assigned`, `trail`, `closing`) record what happened
and appear in no guard. Several hold the rows that somebody wrote past the service's checks, or whose
handlers overlapped; a property that excludes them says how far the code's promise
goes, and holds for whatever the services are asked in any order.

* *Expenses, Procurement, Bills*: `...Approval` are the rows of approvals, one per
  level; levels follow from the amount (`FinanceFrom`, `BoardFrom`, `TwoFrom`, `ThreeFrom`,
  `Levels`). The accountant's portal writes a bill's statuses (`portalUpdates`) and its total, paid and
  due (`portalPrices`, counted in `prices`); the levels and the creator a body may also write are left out, as are the
  fields a manager's decision of a claim or a purchase may add to the row. Payments of the accountant's portal, in fields the services never read, are counted
  apart (`MaxAside`, `MaxPortal`).
* *Salaries*: money is in cents, rates in percent. `up` is which way a half is rounded:
  `toFixed` on a binary fraction decides it. `portalCreates` and `portalUpdates` are the accountant's
  deductions, any fields of them. `Forever` and `Unset` are days that are missing.
* *Careers*: `adjustment` and `increment` are the two collections of a raise.
* *Attendance*: time is in slots of a day, `zone` the offset of a place; `workDate` is the day a
  check-in is of. Whether a position is accepted is a verdict of the request.
* *Meetings*: `external` holds the meetings whose provider is awaited; `unchecked` what was
  written without looking for conflicts, `raced` those that await and looked before another meeting was written.
* *Events, Announcements*: `held` and `timePasses` are the calendar, `told` and `notices` count.
* *Employment*: `inFlight` are the staff actions suspended in the update of an account;
  `resetPassword` is the token of a forgotten password, `restored` who was let in since by it or by an administrator.
* *Placements*: `provisioning` is where the creation of a login stands; a restart loses it.
* *Roles*: `rows` are what is stored over the defaults; `listAllRoles` joins both as the code does.
* *Accounts*: one account; `handler[h]` is a suspended request with the row it read, `mirror` the
  row of `users.json`; sessions are numbered in the order they are opened, `active` are those in force
  and `newer(s, k)` the ones of s opened after k.
* *SecondFactor*: `store` is the setting in Postgres and in the local file; `muddled` says that calls
  overlapped, or a query failed between two of them.
* *Connections*: tokens are named by the grant they came from, so that a mixture shows; `overtaken`
  are the providers whose connection a call overwrote that was awaited when it changed hands, until it is made
  anew with nobody waiting.
* *OwnRecord*: the phone number stands for the fields a person may change; `file`, `db` and `row` are
  its three places, `asked.in` those that hold what was last asked for; `seen` is what a suspended
  request read or saved, and writes again.

## 3. Runs

| run | asks | bounds |
|---|---|---|
| BackupsCalm | are active rows worked on, and do verified backups keep archive and verification? (`ActiveIsServed`, `VerifiedIsStored`, `VerifiedStaysVerified`) | 2 backups, 2 slots, 4 requests or ticks, 2 days, overlapping ticks, no faults |
| BackupsCrash | what of it survives rejected queries and a crash? (`Inv`, `OneAutomaticPerDay`) | 2 backups, 2 slots, 4 requests or ticks, faults, 1 crash, ticks do not overlap |
| BackupsFair | does every backup that was handed over and every restore end? (`BackupsSettle`) | 2 backups, 2 slots, 3 requests or ticks, overlapping ticks, faults |
| BackupsBusyIsNotDeleted | service.js:152 "Running or restoring backups cannot be deleted." - violated | 2 backups, 2 slots, 4 requests |
| Payroll | is nothing paid twice or unapproved, is what is paid paid in full, does a row stand for a charge, does paying end? (`Inv`, `ItemPaidOnce`, `PaidWasApproved`, `PaidRunIsPaid`, `RowHasCharge`, `PayingEnds`) | 1 run, 2 employees, 1 other request, 2 records by the portal |
| PayrollOnlyApproved | "Only approved payroll runs can be processed for payment." - violated | 1 run, 1 employee |
| Notifications | what do overlapping calls with stale copies keep? (`FailedWasTried`, `SendingIsHeld`, `MailLogAgrees`) | 2 calls, 2 drains, 2 jobs, 2 mails, 2 attempts, 1 subscription |
| NotificationsFair | do the queues implement `Delivery`, does the worker settle every job, do subscriptions stay off? (`OneActivePerEndpoint`, `SubscriptionsStayOff`, `JobsAreDelivered`, `MailIsDelivered`, `JobsSettle`) | 1 call, 1 drain, batch of 1, 2 jobs, 2 subscriptions of one endpoint, 1 stop |
| Leave | do balances and requests agree, and what overdraws a balance? (`TypeOK`, `BooksAreKept`, `OverdrawnByApproval`) | 2 employees, 2 requests, 2 extensions, 1 type, days 1 or 2, grants 0 or 3 |
| Persistence | does the table follow the files, and does a start serve the newest? (`CopyIsBehind`, `StampsOrderEdits`, `CopyNeverGoesBack`, `CopiesCatchUp`) | 2 records, one a profile, 3 instants, 3 edits, 3 snapshots, 1 rejected query, 2 stops |
| PersistenceProfilesAreKept | project-documentation.md: the disk of the host is temporary, people are stored in Supabase - violated | 1 edit, 1 stop |
| Workflows | the thirteen properties of the table below | 24 parts, listed in Workflows; two of most things, one of the rest |

Run Workflows explores Payments and twenty modules in one state space: a behaviour chooses its
`part` at the start and stays in it. The parts share no row, so nothing is lost by not
interleaving them; what does interact is inside one part.

| property | says | parts |
|---|---|---|
| SuccessIsEarned, SuccessIsKept | a payment is shown as successful only if its charge was, and a success goes only by a refusal, a new event or the accountant's reconciliation | Payments |
| MoneyLeavesAsApproved | claims are reimbursed, goods ordered and bills paid after every level approved, and no more than was approved; a bill the portal wrote over is left to it in what it wrote | Expenses, Procurement, Bills |
| PayIsAsDecided | one salary is in force on a day and pay is off by rounding alone; a promotion or raise is applied once and reported as what it became | Salaries, Careers |
| NamesAreOfOne | an address is of one mailbox, a code of one department, a key of one role, an employee of one account | CompanyEmail, Departments, Roles (twice: roles, users) |
| BookedOnceOrUnchecked | meetings that clash were put there unchecked, or one looked before another was written while its provider was awaited | Meetings |
| OutOfWorkHasNoAccess | no active account for somebody put out of work, until the administrator reactivates it or they reset their password | Employment |
| StatusIsExplained | a case is what its history ends with; complete is reached | Discipline, Targets |
| WrittenLastIsKept | a connection's tokens fit its status and are of one authorisation, unless a late answer overwrote it; a person's number is in each place what its last writer put there | Connections (twice: with and without refreshing), OwnRecord |
| CheckInIsOfItsShift | a check-in is of the open shift, and its first | Attendance (twice: staff, leads) |
| SignInsAreAsAllowed | a sign-in or refresh leaves its own session and no more than the limit; one session per challenge; the second factor as asked for | Accounts, SecondFactor |
| CountedAndToldOnce | guests are counted once and check in during the event; nobody is told of an announcement twice | Events, Announcements |
| OneOpenPlacement | no step gives a person a second open placement or reopens an ended one | Placements |

Why the bounds suffice. Two backups are what the guards compare: one busy, one
asking. Two slots give every pair of suspended handlers, the races here being
between two. Four requests reach two backups, a restore of one and a deletion, or two restores, one waiting
for the other; two days tell today from an expired day. Three are enough for `BackupsSettle`: two jobs and a restore, or three
ticks. One reference with two calls lets
answers and events cross; three records of the portal are one before, one behind and one renamed into it, four
events every kind of one charge. The run Payroll has no events: none of its properties reads a record's
status, and the webhook adds only a record of a reference that Paystack knows. One
run suffices for payroll because handlers write only their own run and the
references of two runs differ; the proofs drop the bound. A second employee is the
second item, so that a payment can stop half way. Two attempts let a copy be one
attempt stale; a batch of one with two jobs makes a job wait for its turn. Two
requests of two employees let one block the other, be withdrawn by the other
employee, or be extended twice; with grants of 3 and requests of 2 a balance
can be too small for the second. Two stops let a start be cut off and followed by
another; three instants give an edit before, at and after another; one record that is a
profile and one that is not tell the two ways to write apart.

Of Workflows: a second row is there where rows compete (addresses, codes, rooms, keys,
appeals, tasks, OAuth states, promotions with raises) and left out where a handler touches the
row it is given. Three levels with amounts of 1 to 3 (1 and 3 in Expenses) put an amount on each side of each threshold;
0 and 3 in a body of the portal are nothing and more than is left.
Six slots, three a day, with two zones reach both sides of midnight on the server and at the place.
Two suspended requests give every pair. Roles, Attendance and Connections have two parts each,
one for each half (roles and accounts, staff and leads, a provider that refreshes tokens and one that
does not), because the halves share no row; together they fire every action. Not reached: two employees on one target, an OAuth state used with
another provider's call, a third suspended request.

`CHECK_DEADLOCK FALSE` stands where a bounded instance really stops: all ids used,
all crashes spent, everything settled. Leave never stops, since balances can always
be adjusted, so its run checks deadlock.

The bounds are named: `MaxRequests`, `MaxCrashes`, `MaxDay` (Backups), `MaxRecords`, `MaxEvents` (Payments), `MaxJobs`,
`MaxSubs`, `MaxMail`, `MaxDirect`, `MaxCrashes` (Notifications, EmailQueue),
`Days`, `Grant` (Leave),
`MaxClock`, `MaxEdits`, `MaxQueue`, `MaxFaults`, `MaxStops` (Persistence), and
those the modules of Workflows comment as bounds (`MaxRows`, `MaxEdits`, `MaxInFlight`,
`MaxSession`, `MaxCodes`, `MaxPrices`, `Written`, `Horizon` and so on). `MaxRetries`, `JobLimit`, `MailLimit` are the code's own
limits made small.

## 4. Fairness

* `BackupsFair`: weak fairness of every suspended request (a query is answered),
  of the callbacks (`setImmediate` runs) and of every execution (`pg_dump`, `psql`
  and storage end). Nothing is assumed of users, of the timers or of time, and
  queries and deletions may be rejected, save the UPDATE of a catch block, whose rejection ends the
  process. There are no crashes: nothing recovers a row after one, and the code does not claim it.
* `Payroll`: weak fairness of a payment request's next step and of Paystack's
  answer to it; `fetch` settles. Users, webhooks and restarts are unfair.
* `NotificationsFair`: weak fairness of the worker (called every minute by its timer,
  its awaits settle) and of the passing of a retry's delay. Nobody drains mail: only
  `POST /queue/process` does, so there is no fairness for it and no liveness either.

* `Persistence`: weak fairness of the chain of copies, whose queries settle. The
  property excludes stops and rejected queries; starts and users are unfair.
* Workflows: none. Its properties are safety; what should eventually happen there (a scheduled
  announcement, for instance) either waits for a person or does not happen, see section 6.

## 5. Proofs

Every safety invariant and every action property of the runs is proved: 38 results are listed in
`PROJECT.json`, for any sets and any bounds. Each rests on the named assumption of its module
(`BackupsAssumption`, `WorkflowsAssumption` and so on: a sentinel is no member of the sets, bounds and amounts are
naturals, rates are percentages up to 100), which TLC also evaluates in the runs, and on no other, unless its
statement says so: the results that hold without crashes, without rejected queries or while calls do not overlap
have that as a hypothesis, and the runs of the same property are instances of it.

An invariant that had to be strengthened was first checked by TLC as an invariant of a small
instance, then proved inductive. Where a property is only of a step, the same invariant holds before it.

**BackupsProofs.** `TypeOK` is not inductive alone: `markDeleted` writes the row
`cur[r]`, so `SlotsAim` (a slot past its first await is at a backup) is proved with
it. `NoLostWakeup` is inductive with the types: a callback consumes at most one
wake-up together with an id, and the re-entrant `finally` block adds one whenever
ids are left. `OneHolder` needs `AbsentIsFree`: an id just handed out has no
holder. Together they are `Inv` (`InvHolds`). `ServedWithoutCrash` holds
where `MaxCrashes = 0` and no query is rejected; with `HolderInv` (the last two)
`ActiveIsServed` is inductive: whoever lets go of an active backup hands it on.
`VerificationIsKept` (no rejected queries) is a step property and rests on
`UnfinishedIsUnverified`: a backup that still has a creator, a place in the queue or a
job before its verification is neither verified nor restored, so the steps that write the
column never meet a verified one. One rejected query after `completeBackup` is enough to lose it.
`VerifiedIsStored` rests on `StoredInv`: only a job at its `pg_dump` writes a file, so the name of an archive
that was verified holds it, or that of a namesake, until somebody removes it (`SavedStays`, `StoredNames`);
a removal aims at a row with a path and marks that row deleted next, so a path
without an archive is of a row, or of a namesake of one, that is deleted or about to be. `OneAutomaticPerDay` rests on
`TickInv`: one tick is at work, and after its check of the day and before its insertion no automatic backup
of that day is left, because nobody but a tick creates one; it holds through crashes and rejected queries.

**PaymentsProofs.** `SuccessIsEarned` becomes inductive with two conjuncts: a
verification was answered "ok", and an event "success" exists, only for a charge that
succeeded, and such a charge can only be reversed. What the portal writes has another status
(`Booking`), and a saved status goes to the first record of its reference (`Saving`). `SuccessIsKept` rests on lemma
`GrantsAreOpen`: an initialisation whose answer is waiting to be handled is of a charge
that cannot have succeeded yet.

**PayrollProofs.** `Inv` adds `PayInv` to the three safety properties: a run leaves
APPROVED when it is paid and never returns; an item still to pay has no row; a
query awaits the answer of an item still to pay. Since handlers write one run, the
proof is per run: `Safe(r)` is kept by steps of r (`PayingSafe`, `DecisionSafe`) and by steps
of another run (`PayingElsewhere`, `SameRun`). `RowsHaveCharges` adds that the reference of a record has
a charge, was touched by somebody else, or is of a run whose payment a refusal has ended (`RecordsKnown`); charges and `touched` only
grow (`ChargesStay`, `KnownStays`), and a run asks for initialisations only (`AskedStays`), which are
answered "ok" only for a charge that was opened (`NewRowKnown`).

**LeaveProofs.** `BooksAreKept` is a property of steps: an employee's books that
agree still agree after any step that is not one of three. The lemmas say when
agreement survives: nothing of the employee changes (`Untouched`), one request holds
all the days (`OneHeld`, `HeldAgrees`), a request leaves its status and its days leave the
balance (`MoveAgrees`), another's request moves (`MoveOther`). Types are needed to know that releases
never take more than is held. `OverdrawnOnlyByApproval` goes through the handlers one by
one.

**PersistenceProofs.** Stamps grow along a chain: table, snapshots in their order, file
(`Ordered`), in the records each has; none is later than the clock (`Stamped`). A start on an
empty disk breaks the chain's end, so `Hydrating` says what stands in for the file until
the merge: the rows that were read, or else what the start itself wrote. From this
`ChainInv` follow `CopyIsBehind`, and `CopyNeverGoesBack` because only the head of
the queue is copied. `LaterStampNewerEdit` looks at all versions of a record that are anywhere (`Around`): no version holds
an edit that was not made yet, so a new edit is the newest whatever its stamp (`OrderInv`).

**NotificationsProofs.** The difficulty is that calls count from copies. `Counted` says of a job that its
retry count lags behind the attempts that failed, and `Backed` of a call that each copy it still has to do lags
behind those attempts too, which only grow (`StillBacked`), so a job is given up only after the attempts (`FailedWereTried`),
and the log, which is written with the job, agrees (`LogsAgree`). `SendingHeld` holds up to the first
stop: a call marks the first job of its `todo` and leaves it there until the answer. Subscriptions are looked at through what a step may
do to them (`SubsChange`): a push answer only switches off, so neither `OneSubscription` nor `OffStaysOff` needs more.
Where calls do not overlap, copies are exact (`ExactJobs`, `ExactMail`); then every step maps to one of
`Delivery` or to none, and the refinements `JobsImplementDelivery`, `MailImplementsDelivery` follow.

**MoneyProofs.** Each row agrees with its approvals on its own (`ClaimAgrees`, `RequestAgrees`, `OrderAgrees`,
`BillAgrees`): the levels signed are those up to the one it waits for, none is missing where the status is past approval, and the
sums paid, received or reimbursed are at most what was approved. Rows edited past the service are excluded where the
property excludes them; of a bill whose amounts the portal wrote only `recorded` agrees with the payments. An action touches one row, so the proof is of the row written, for any amounts,
thresholds and levels.

**WorkflowsProofs.** A step of Workflows is a step of one part, and one that leaves the part alone keeps its
invariant, `Inv` at the end of its module. What each adds to its property:

* *Employment*: nobody is half hired, and an employee whose status a suspended request is about to change has lost access
  already. *Meetings*: what a meeting whose provider is awaited is about to write is free, unless another was written since (`raced`).
* *Discipline, Targets*: a row nobody wrote by hand is where its own operations leave it.
* *Connections*: a waiting call that nobody overtook is of a connection with tokens; a state held by a callback was used by it alone.
  *OwnRecord*: a request that was not overtaken holds the number it is about to write.
* *CompanyEmail*: a mailbox is of a request that says CREATED. *Departments*: only types. *Roles*: a row has an id of its own or
  is the one of a default key, which makes `ofKey` single, and a role without a row has its default; an account being inserted counts as one of its employee.
* *Attendance*: only types and that staff alone have a schedule; the work is arithmetic, of days, zones and shifts on both sides of midnight.
* *Placements*: a sign-in that waits is for the address of its placement, an ended one has its record.
* *Events, Announcements*: who checked in was at one that was held; a notice was given to a recipient, and none of a draft.
* *Salaries*: of the salaries of an employee that can be in force, no two begin on a day, so the latest is one. The rounding is algebra: each
  of the three rounded lines is off by half a cent at most, and rates up to 100 % keep what tax and pension make of the first error
  within it (`OffByRounding`). The code does not check rates; larger or negative ones are outside `SalariesConstants`.
* *Careers*: what waits for approval was not applied, and of the two collections of a raise the second says APPROVED exactly when the
  raise was applied.
* *Accounts*: session numbers are at most `opened`, so the newest `limit` contain the one just opened; that they are
  `limit` many at most is a lemma on finite sets of numbers.
* *SecondFactor*: `Orderly`, for requests one at a time: the request that waits to write holds what was
  asked for, with the newest codes. For challenges, at most one handler signs in with a verified one that opened nothing.

**Only model-checked.** Liveness: `BackupsSettle`, `PayingEnds`, `JobsSettle`, `CopiesCatchUp`. They need fairness and
`ENABLED`, which are out of the prover's reach. The three runs that expect a violation are counterexamples, not theorems.

## 6. Where the code and its texts disagree

Each is in `PROJECT.json` with its line; the first three have a run that shows it.

* A backup that starts to run, or to be restored, between the check and the UPDATE of
  a deletion is deleted while busy.
* On an empty disk a start overwrites the profiles of all accounts, in the files and in
  their copy: it makes them before it reads the copy.
* A run that is cancelled or rejected while it is paid through Paystack goes on being paid, and is
  then set back to PAYMENT_PROCESSING.
* The answer to a verification overwrites the success that a webhook recorded meanwhile.
* Payments: the accountant's reconciliation renames, deletes or overwrites a record of Paystack; a refused verification of a
  reference Paystack never saw saves a failed record, with which the item of a payroll gets a row without a charge; an unlisted
  event recorded first hides the later event of its charge when ids are shared.
* Bills: with amounts written by the portal more is paid than the total, and what is due falls below zero.
* Backups: two archives of one millisecond share a file, and the deletion of one removes both; an automatic row whose
  settings could not be marked stays pending for ever and refuses every later backup; two ticks that overlap queue two automatic
  backups; a restore accepted while the last one of that backup is in its final awaits is dropped; an archive
  whose deletion failed stays in storage.
* Accounts: whoever is suspended or has left is back in after resetting a forgotten password.
* Rejecting leave in a portal releases no days.
* With equal time stamps a start replaces an edit by its predecessor; two requests queue two backups; a run already paid or locked can be
  rejected; a superadmin's withdrawal releases days on the superadmin's balance; an
  extension can be approved after its request ended, and again; an approved leave, however
  old, refuses every new request; the two-step leave workflow has one step and no reader;
  unsubscribing an endpoint revokes its first record, the active one stays; a mail taken
  while the service is off, and notification jobs that were skipped, are marked sent; a configuration check turns mail
  on again; `psql` without ON_ERROR_STOP reports a restore that failed as completed;
  graceful shutdown throws.
* Announcements: nothing publishes a scheduled one; people who join the audience later see it.
* Events: a published one can be published, and its guests told, again.
* Staff: an exit under review can be completed; every update of a department without a status activates
  it, one to inactive asks for no confirmation; a department keeps the name of a head it lost; a promotion takes
  back a raise given since it was asked for; a default role that is renamed comes back under its old key.
* Attendance: late arrival at an overnight shift is judged by the minute of the day, wrong on one side of midnight.
* Pay: updating a deduction erases the fields not named; a salary assigned for later ends the present one at once.
* Access: the second factor of the profile is not asked for at sign-in, and one turned off while another request of
  the profile waits is on again; a disconnected integration whose test was in flight is shown as active.
* Own records: a start takes back a number saved on the profile page, any change of an account by an administrator
  one saved in a portal, and looking at a profile one saved meanwhile; a number an employee cleared stays in the account and is
  shown again; an accountant's is not shown before the next start.
* Interns: people without an address are taken for one person; conversion can be repeated.
* Company e-mail: `resolve` of a failed request is always refused. Discipline: a case is resolved with an appeal pending.

## 7. Not modelled

* *Of modelled components:* what `PROJECT.json` notes for each: loans, bonuses and payslip records of payroll;
  read state, rules and preferences of notifications; templates, credentials and the test mail of
  email; leave types, policies and the count of working days; attachments, comments, minutes, milestones and the
  like, which only add rows; archive formats, encryption, wording, logs and audit rows
  (no decision reads them); positions, risk and the contents of tokens (a verdict of the request).
* *Permissions* are abstracted to "somebody may do this": the modelled properties hold
  whoever acts.
* *Components that will stay out:* generic resources, audit trails, settings
  (one synchronous write of one record each); system health (measurements no decision
  reads); dashboards, reports, search, lookups (they only read); HTTP wiring, schema,
  scripts, the browser's PWA (no state of the domain).

## 8. Plan

Done, in this order: Backups, Payments, Payroll, the delivery queues, Leave, Persistence, then
Expenses, Procurement, Bills, Attendance, Meetings, CompanyEmail, Accounts, Careers, Employment, Discipline,
Events, Announcements, Placements, Departments, Targets, Connections, Salaries, Roles, SecondFactor, OwnRecord and their
composition Workflows.

All safety properties are proved. What is left:

1. Theorems beside those of the runs: that a refinement of `Delivery` is what overlapping calls lose (how often
   a job can be delivered), and lemmas on the liveness arguments, such as measures that each step of a
   worker decreases, which need no `ENABLED`.
2. Model: overlap of calls with more of the rules and preferences of notifications; loans, bonuses and
   payslips of payroll; the leave types and the count of working days.

Runs are one per question. Further modules without interaction share a run that explores
each from its own initial state.
