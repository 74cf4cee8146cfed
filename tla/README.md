# A TLA+ development of uptime-platform

uptime-platform checks HTTP, TCP, DNS, TLS and ICMP endpoints, opens and resolves
incidents, and tells people about them. It runs as an API, one or more schedulers,
a notification worker and a retention job, which share a PostgreSQL database and
nothing else: every coordination between them is a row lock, a lease in a row or a
unique index. This directory models that coordination, model-checks it with TLC on
small instances, and proves its safety with TLAPS for every size.

Source paths below are relative to `src/src/uptime_platform/`.

## 1. Inventory

| Component | State it keeps | Operations | Talks to others by |
|---|---|---|---|
| Scheduler and check leases (`scheduler/`, `monitors/sqlalchemy_repository.py`) | `monitors.next_check_at`, `check_lease_token`, `check_lease_until`; in memory the wave's claims and the `attempted` set | `run_forever`, `run_once`, `claim_due`, `_check_monitor`, `_release_claims`, SIGTERM | row locks (`FOR UPDATE`, `SKIP LOCKED`), leases |
| Recording of results (`checks/service.py`, `incidents/`, `maintenance/`) | `status`, counters, `checks`, `incidents`, `outbox_events` | `run` (manual check), `record`, `_handle_incident_transition` | the monitor's row lock, the unique index on open incidents, events in the outbox |
| Monitor state machine (`monitors/state.py`) | none, a pure function | `apply_check_result` | called by `record` |
| Monitors (`monitors/service.py`) | settings, thresholds | create, update, delete | the monitor's row lock, `ON DELETE CASCADE` |
| Outbox and fan-out (`outbox/`, `notifications/service.py`) | `outbox_events.processed_at`, one `notification_deliveries` row per event and destination | `claim_pending`, `fan_out` | row locks, unique (event, destination) |
| Notification worker (`notifications/worker.py`, its repository) | `attempts`, `next_attempt_at`, `locked_until`, `lease_token`, `processed_at` | claim, check of the remaining lease, send, update, release | leases; sends to the outside |
| Retention (`retention/`) | none | deletes old checks, incidents, deliveries, events in batches | `SKIP LOCKED` deletes |
| Organizations and members (`organizations/`) | memberships and roles | add, update_role, delete | lock of the organization's row |
| Sessions and registration (`auth/`) | refresh sessions, users, the default organization | register, login, refresh, revoke | row locks |
| API access (`auth/dependencies.py`, `api_keys/`, the routers) | keys and `last_used_at`; ids of monitors, destinations, windows | organization context from a token or key, create, delete | row locks, foreign keys, cascades |
| Settings (`*/service.py`, PATCH) | settings of monitors, destinations, pages | read, merge, validate, write | the monitor's row lock; none for the others |
| Status pages (`status_pages/`) | pages, slugs, positions of monitors | create, publish, add, remove, delete; the public page | unique slug, foreign keys, reads |
| Statistics (`statistics/`) | none | totals over a period and whether they are partial | reads, while retention deletes |
| Frontend (`frontend/src/`) | access token, current organization, loads in flight | shared refresh, retry after 401, organization switch | HTTP |

What is hard about it, and what makes each part correct:

* **Leases.** A scheduler may be suspended for any time between its claim and its
  record, be killed anywhere, or lose the answer to a COMMIT. Correct means: a result
  is recorded only by the claim that holds the row (*fencing*); a late release does
  not free somebody else's lease; as long as timeouts work no endpoint is probed by
  two schedulers at once; a due monitor is probed in the end; a cycle ends and stays
  within its limits.
* **Recording.** Manual checks take no lease, so they overlap scheduled ones; edits,
  deletions and maintenance windows come in between the probe and its record.
  `_handle_incident_transition` looks at two statuses only. Correct means: nothing is
  overwritten, every result counts, a monitor is DOWN exactly while it has its one
  open incident, and the events tell the same story.
* **Notifications.** Sends are at least once: a worker may die, be suspended or lose its
  lease between a send and the record of it, and a recipient may have got a message whose
  send failed. Correct means: results are fenced as above; no attempt is lost or counted
  twice, so that `max_attempts` is a bound; what has ended stays ended; what counts as
  delivered was received; as long as timeouts work two workers do not send the same
  delivery at once, the time kept back for recording is enough, and a duplicate has an
  unrecorded success behind it; a due delivery is sent, and ends, in the end. In which
  order an opened and a resolved event arrive is not promised: their deliveries are retried
  independently.
* **Outbox and retention.** Events are fanned out in batches by several workers while
  destinations are edited, and cleaned up by every scheduler process. Correct means: each
  event reaches every destination that was enabled while it waited, as one delivery and
  never as a second one; a cleanup takes nothing that is unfinished, although deleting an
  event cascades; every event is fanned out and what is completed goes in the end.
* **Membership and registration.** Correct means: an organization keeps an owner, an admin
  never touches an admin or owner although roles change under him, one user adopts the
  default organization, and the bootstrap command creates one administrator.
* **Sessions and the frontend.** One refresh for many 401s; tabs share a cookie, and the
  API commits after it has answered. Correct means: a login has one live token; a session
  ends for a reason; logout is final; no request waits for ever, and none is repeated in
  another organization.
* **Access, settings, status pages, statistics.** Requests act on what they have found while
  others delete it. Correct means: rows come and go only with the right role in the right
  organization, keys are not deleted while in use, windows and page entries have their
  monitors, addresses are unique; a stored configuration is a valid one and a PATCH undoes
  only concurrent ones; a status page shows what lasts; statistics flag what is missing.

`PROJECT.json` lists each hazard with its line and the properties that cover it, or says
why none does.

## 2. Modules

| Module | What it is |
|---|---|
| `FencedLease` | abstract: what the lease columns of a table promise to the processes that share it |
| `CheckLease` | detailed: schedulers, `claim_due`, waves, record's lease check, release, SIGTERM, crash, restart, API transactions on the same rows, time. Implements `FencedLease` |
| `CheckLease_proofs` | its TLAPS proofs |
| `MonitorState` | `apply_check_result` and the two transitions that matter to incidents |
| `MonitorHistory` | a monitor with the history of its results, to compare the counters with a definition that keeps none |
| `MonitorLife` | abstract: what a monitor's status, incident and last event are if its results, edits and deletion come one at a time |
| `CheckRecording` | detailed: scheduled and manual checks, edits, deletion, maintenance, incidents, events, purging of incidents. Uses `MonitorState`, implements `MonitorLife` |
| `CheckRecording_proofs` | its TLAPS proofs |
| `NotificationDelivery` | the notification worker: claims, the time for a send, retries, release, SIGTERM, crash, restart, time. Implements `FencedLease` too |
| `NotificationDelivery_proofs` | its TLAPS proofs |
| `OutboxFanout` | events, fan-out transactions, edits of destinations, cleanups |
| `OutboxFanout_proofs` | its TLAPS proofs |
| `Accounts` | members and roles, registration, the bootstrap command, new organizations |
| `Accounts_proofs` | its TLAPS proofs |
| `Sessions` | refresh tokens at the API together with the tabs of a browser |
| `Sessions_proofs` | its TLAPS proofs |
| `ApiAccess` | who may create and delete what, through which key, and the locks that takes |
| `ApiAccess_proofs` | its TLAPS proofs |
| `StatusPages` | pages, their monitors, and visits |
| `Settings` | PATCH requests on a monitor, a destination or a page |
| `Statistics` | recorded checks, cleanups, and what an answer is about |
| `Parts` | one instance of each of the smaller modules `ApiAccess`, `StatusPages`, `MonitorHistory`, `Statistics` and `Settings`, side by side |
| `Parts_proofs` | TLAPS proofs about the last four of them |
| `MCCheckLease`, `MCCheckRecording`, `MCNotificationDelivery`, `MCAccounts`, `MCSessions`, `MCParts` | symmetry sets and the functions that are constants, for TLC |

`CheckLease` and `NotificationDelivery` are composed with the abstract `FencedLease`, and
`CheckRecording` with `MonitorLife`, by refinement mappings. The others meet in what they assume of each other: `CheckRecording`
reduces a lease to a scheduled check that may record, which is what `CheckLease` shows;
`OutboxFanout` takes events as they are recorded and ends deliveries as
`NotificationDelivery` does; `ApiAccess` changes roles as `Accounts` may.

### CheckLease

The variables `row`, `dueIn`, `leaseToken`, `leaseLeft` and `rowLock` are the monitors
table, the others the memory of the scheduler processes. One action is one
transaction, or one stretch of code between two `await`s that others can observe:

| Code | Actions |
|---|---|
| `run_forever`, `run_once` | `Poll`, `EndCycle`, `WaveDone`, `Release` |
| `_claim_monitors` / `claim_due` | `ClaimSelect` (locks, tokens), `ClaimCommit`, `ClaimFail` |
| `_check_monitor` | `ProbeEnd`, `TaskFail` |
| `record` with a lease token | `RecordLock`, `RecordGone`, `RecordVerify`, `RecordDiscard`, `RecordCommit` |
| `_release_claims` | `Release`, `ReleaseFail` |
| `scheduler/main.py` | `Cancel` (SIGTERM, which acts once), `Crash`, `Restart` |
| API | `ApiCreate`, `ApiLock`, then `ApiEdit`, `ApiManual` or `ApiDelete` |
| clocks | `Tick` |

* *Time is counted down.* `dueIn` is `next_check_at` minus the database clock and
  `leaseLeft` is `check_lease_until` minus that clock. Time may pass for ever in a
  finite state space, without a bound on a clock. The bound that remains is `MaxLate`:
  a monitor later than that counts as that late.
* *The claim transaction has a phase of its own*, "claiming": rows are locked, tokens
  are chosen, nobody sees them. `claimAge` is the time since `claim_due` read the clock;
  the lease that reaches the row at COMMIT is shorter by it. `ClaimCommit` needs
  `claimAge < Grace` because `asyncio.timeout(lease_grace_seconds)` was entered before
  the clock was read. `ClaimFail` may still let the COMMIT reach the database.
* *`Prompt`* says whether timeouts fire on time. With `Prompt = FALSE` a process may be
  suspended anywhere for any time: the fencing properties hold all the same. With
  `Prompt = TRUE`, `Tick` does not pass a timeout that is due.
* *Tokens.* uuid4 does not repeat; `Fresh` picks a token that neither the row nor any
  process knows, which lets a small set of tokens be used again. The set must hold one
  token more than there are processes, or claims would be refused; the cfgs keep to it.
* *`Timeouts`* is chosen at each claim, since an edit may change `timeout_seconds`
  between claims; the claim keeps the value it has read.
* *`Release`* is one step for all rows of a wave, although the code issues an UPDATE per
  row in one transaction: the rows become visible together at its COMMIT. It waits for
  row locks that others hold on rows that still carry its token.
* *PAUSED*: no code in the repository sets that status, yet `claim_due` filters on it;
  `Paused` is a set of monitors that have it from the start.
* *`attempted` is empty between cycles*, as the local variable of `run_once` is.
* Left out: metrics, logging, `_run_lock` (the one task of a process calls `run_once`).

### MonitorState and MonitorHistory

Counters are compared with thresholds only, and the schemas bound these, so `More`
stops counting at the largest threshold. `MonitorHistory` keeps all results and defines
DOWN from them alone: a streak of `failure_threshold` failures that no streak of
`recovery_threshold` successes has followed.

### CheckRecording

A check is `Claim` (scheduled) or `RunManual`, a probe outside any transaction, then
`RecordBegin` (row lock, read, stored check, lookup of a maintenance window) and
`RecordQuiet`, `RecordCommit` or `RecordDiscard`; `Abort` is any failure or death in
between and the rollback that follows. `Flush` writes what SQLAlchemy writes: the
columns that differ from what was read, which is why reading without a lock would lose
updates. Edits, creation, deletion with its cascade, windows and the purging of resolved
incidents interleave with all that. A lease is reduced to the scheduled check that may
record; `CheckLease` shows what is behind it. `OneAtATime` says that all this implements
`MonitorLife`, where there is neither overlap nor transaction: `LifeOf` maps a monitor's row,
its open incident and its last event to its `life`, and the two counters to one streak. A
result that is stored during maintenance, a purge, and every step before a commit are
stutters there. `lastEvent` is the newest outbox event of a
monitor, `trail` an auxiliary variable: the streak of results recorded.

### NotificationDelivery

The same shape as `CheckLease`, for `notification_deliveries`: `row`, `done`
(`processed_at`), `attempts`, `dueIn`, `leaseToken`, `leaseLeft` and `rowLock` are the
table, the others the memory of the workers.

| Code | Actions |
|---|---|
| `run_forever`, `run_once` | `Poll`, `FanOut` or `FanOutFail`, `EndCycle`, `WaveDone` |
| `claim_pending` | `ClaimSelect`, `ClaimCommit`, `ClaimFail` |
| `_process_delivery`, `_load_delivery_data`, `remaining_lease_seconds` | `LoadData`, `StartSend` or `SkipSend` |
| `_send_delivery` | `SendOk`, `SendError` |
| `_process_delivery_safely` | `TaskFail` |
| `update` | `RecordLock`, `RecordGone`, `RecordVerify`, `RecordDiscard`, `RecordCommit` |
| `_release_claims` | `Release`, `ReleaseFail` |
| `notifications/main.py` | `Cancel` (SIGTERM, once), `Crash`, `Restart` |
| cascades, retention | `DeleteRow` |
| clocks | `Tick` |

* *Times* are counted down here too. `timer` is what is left of the `asyncio.timeout`
  the task is in; `Prompt` says whether these fire on time. The lease is the largest of
  `lease_seconds` and `send + 3 * database + 1`, as in the settings the worker is built
  with, and `SendTime` is what `_process_delivery` gives a send: the rest of the lease
  after the query (`elapsed`), with one `database_timeout_seconds` kept back.
* *A send that does not end well*, by an error, a timeout or the death of the worker, may
  have reached the recipient; `Abandon` leaves both outcomes open.
* *An unexpected exception* is not recorded as a failure: `TaskFail` leaves the row as it
  was and the delivery due. `Poison` is a set of deliveries whose channel always raises.
* *Clock skew.* `next_attempt_at` is computed by the worker's clock and compared with the
  database's; `Skew` is the largest difference. The same holds for new deliveries.
* *`received`, `lost` and `recordedBy` are auxiliary*: no action reads them. They say how
  often a recipient got the message, whether one of these was not recorded as a success,
  and by whose claim the last lease was ended. `MaxReceived` bounds the first.
* Left out: leases with a timestamp and no token, which only a version before the column
  could leave behind; what a fan-out creates, beyond new deliveries appearing;
  the content of messages.

### OutboxFanout

| Code | Actions |
|---|---|
| `record`, outbox `create` | `CreateEvent` |
| outbox `claim_pending` | `ClaimEvents` |
| `NotificationService.fan_out` | `GetEnabled`, `Insert` per destination, `MarkProcessed` |
| end of `_fan_out_pending_events` | `FanOutCommit`, `ForeignKeyFails`, `FanOutAborts` |
| destination routes | `PutDestination`, `DeleteDestination` (with its cascade) |
| `NotificationDelivery` | `Deliver` |
| `RetentionRepository`, `RetentionService` | `PurgeRows`, `PurgeEvents`, `PurgeCommit`, `PurgeAborts`; `RowAges`, `EventAges` |

Statements see what is committed when they start; a fan-out and a cleanup are therefore
several steps, with their locks between them. `row` keeps "purged" and "dropped" apart from
"none", so that a delivery that comes back can be told from a new one. `seen` is history: for
a waiting event, whether each destination has been enabled or disabled meanwhile.
A failed delivery (all attempts used) never gets `processed_at` and is kept for ever, with
its event; `CompletedIsPurged` speaks of the others. A cleanup takes the oldest candidates;
here it takes any, so that what holds does not depend on the order. The order in which
events become visible is free, since `created_at` is the time of the check and not of the
commit. Order of arrival at a recipient is not promised by the code.

### Accounts

A request is a transaction with the role its actor had when it began. `BeginMember`,
`AddCheck`, `AddInsert`, `LockOrganization`, `Decide` and `Write` are `member_service.py`;
`BeginRegister`, `Adopt`, `CreateUser` are `AuthService.register`; `BeginBootstrap` and
`BootstrapCheck` are `cli.py`, whose rest is a registration; `CreateOrganization` is
`OrganizationService.create`. `Fail` is any refusal, error or death. `founders` and `boots`
are history. What the model shows besides its properties: a registration through the API
does not take the advisory lock of the bootstrap command, so it may come between the
command's check and its commit and the command then creates its administrator beside that
user. A member who is an admin when his request begins and is demoted meanwhile still
completes it; `ChangesAreCovered` is about the role he began with.

### Sessions

One user, his refresh tokens, and the tabs that share one cookie. FastAPI (0.141) ends the
dependency that commits after it has sent the response, so the answer to a refresh
(`RefreshServe`, `Refreshed`) and the transaction's `Commit` or `Rollback` are free to come in
either order, and a tab may present a token that is not committed yet.

| Code | Actions |
|---|---|
| `src/frontend/src/api/interceptors.ts` | `Make`, `Cancelled`, `Answered`, `Refused`, `Denied`, `Refreshed`, `RefreshFailed` |
| `stores/auth.ts` | `Join` in `Denied`, `RefreshLost`, `Login`, `LogoutSend`, `LoggedOut`, `LogoutLost` |
| `stores/organizations.ts` | `Switch`, `Enter`, `Moved` |
| `auth/router.py`, `auth/refresh_service.py` | `RefreshServe`, `RefreshRefuse`, `LogoutServe`, `Login`, `TokenExpires` |
| `db/session.py` | `Commit`, `Rollback` |

`upset` is history. It says whether the session has ended or was *disturbed*: an answer or a
commit was lost, or a call overlapped another one or an open commit. `SessionEndsForAReason`
and `LogoutIsFinal` hold for sessions that were not disturbed; for others they do not, and the
model shows why: two tabs that refresh at once leave one of them refused, and its answer
clears the cookie that the other has just been given. Within one tab the shared
`refreshPromise` excludes this, which is what `SessionEndsForAReason` is about. Losses stop once
the session is disturbed (`Calm`), which bounds the state space and hides nothing from the
properties, which say nothing of disturbed sessions.

### ApiAccess

A request is a transaction: `BeginKey` and `TouchKey` or `BeginUser` give it an organization and a
role, a route checks the role and finds its row, and a statement writes and holds locks
until `Commit`. What the code does here, and the model with it: `update_last_used` runs in the
request's own transaction, so requests with one key take turns, a manual check keeps its
key's row locked while it probes, and a key cannot be deleted while it is in use; that
`update_last_used` finds no row is not looked at, so a request whose key was just deleted
goes on; an API key acts as a member; no route asks for an owner; and deleting a row that is
gone is no error. `Home` gives each id the organization it is drawn for, as uuid4 does not
repeat. `RoleChanges` is any change of a membership while requests are under way.

### StatusPages

Each request of an administrator is one transaction in which nothing follows the statement
that writes, so that statement and its commit are one step; before it lies the read
(`CreatePage`, `AddMonitor`) whose finding may be stale. A visit lists the page's monitors
and then reads each with a statement of its own. `same` is history: the monitors that have
not changed since the visit began. Two monitors may get the same position, as the position
is counted before the insert. `Absent` is a number so that positions are of one kind.

### Settings

`row` are the fields whose updates can be lost or contradict each other, of two values each.
`Read` locks a monitor's row and no other; `Reread` is the second read that the repositories
make, merge and validation included; `Write` flushes the columns that differ from the second
read, and a JSON column holds several fields. That PATCH requests on destinations and pages
undo each other is what the code does; `UndoneWasConcurrent` says that nothing else does.

### Statistics

Times are days. A check is recorded at its time or one tick later, cleanups lock and delete
what is older than `Days` and skip each other's rows, and an answer is flagged as partial by the
five conditions of the code. A request that reads the clock, and its checks at a later tick,
may miss checks that expired in between without saying so; `AnswersAreComplete` excludes it.

## 3. Runs

| Run | Instance | Question |
|---|---|---|
| `lease_fencing` | `CheckLease_two`: 2 processes, 2 monitors, waves of 2, 3 tokens, deletions, suspended processes | Do late results and late releases, in bulk, stay harmless? Is the invariant of the proofs one? |
| `lease_prompt` | `CheckLease_prompt`: 3 processes, 1 monitor, 4 tokens, timeouts of 1 and 2, grace 2, skew 1, edits, manual checks and deletions, prompt timeouts | Can two probes of a monitor overlap? |
| `lease_live` | `CheckLease_live`: 1 process, 2 monitors, batches of 2 in waves of 1, crashes, lost COMMITs, deletions | Does a cycle end, and is each due monitor probed? |
| `recording` | `CheckRecording_one`: 1 monitor; a scheduled check, two manual ones and an edit at a time; thresholds up to 3; 2 incident ids | Do overlapping checks and edits have the effects they have one at a time? Status, incident, events and counters under every interleaving |
| `delivery_fencing` | `NotificationDelivery_one`: 2 workers, 1 delivery, 3 attempts, 3 tokens, skew 1, suspended workers, deletion | Do late results stay harmless, and what has ended stay ended? Is the invariant of the proofs one? |
| `delivery_prompt` | `NotificationDelivery_prompt`: 2 workers, 1 delivery, prompt timeouts, send timeout 2, database timeout 5, skew 1 | Do sends overlap, are duplicates unexplained? |
| `delivery_retry` | `NotificationDelivery_retry`: 1 worker, 1 delivery, failing sends, crashes, deletion | Does a delivery end, in success or without attempts left? |
| `delivery_poison` | `NotificationDelivery_poison`: 1 worker, 2 deliveries in a wave, of which one always raises | Is the other delivery sent? |
| `outbox` | `OutboxFanout`: 2 workers, 1 cleaner, 2 events, 1 destination, 3 edits, 1 rollback | Does each event reach who was enabled, once; is nothing unfinished purged; does all of it end? |
| `accounts` | `Accounts`: 3 users, the default organization and another, 2 requests at a time | Does an organization keep an owner, are changes covered, are founders alone? |
| `sessions` | `Sessions`: 2 tabs, 2 requests, 2 organizations, 3 tokens, a second login | One live token, reasons for the end, final logouts, waiters woken, no request in another organization? |
| `parts` | `MCParts`: 2 requests at a time in each part; every history of up to 8 results with every pair of thresholds up to 3; 2 cleanups of 1 row over 5 days | The nine properties of the smaller modules |

The behaviours of `parts` are of six kinds, chosen in the initial state, of instances that have
nothing to do with each other and stand still meanwhile: `ApiAccess` with a monitor, a window, a key and another organization's destination;
`StatusPages` once with two pages, one slug and two requests, and once with two monitors on
a published page that is visited while they change twice and an earlier request ends; `MonitorHistory`; `Statistics`; `Settings`.

*Why these bounds.* A lease concerns one row, and every hazard of it needs at most a
stale process and its replacement; the third process of `lease_prompt` lets the replacement
become stale as well, and two monitors add what a wave does in bulk. Timeouts
of 1 and 2 with a grace of 2 make a lease of a longer timeout meet a shorter one, and let
a claim transaction use up part of the grace. Two manual checks are the smallest number that overlap without a
lease; three is the smallest threshold that tells "at", "before" and "after" it apart. An
incident id is free again once purged or cascaded, so two ids are an open and a resolved
one. A delivery needs a worker whose lease runs out and its replacement, three attempts
(the first, one in between, the last), and two messages received to see a duplicate. A
database timeout of 5 is the smallest at which claim, load and lease query together can use
up so much of the lease that the time kept back for recording matters: with less, the
lease of `send + 3 * database + 1` is enough by itself. Two events make a batch whose first
event may fail with its second; three edits (`MaxEdits`) enable, disable and delete a
destination; one rollback (`MaxFaults`) is followed by the batch's repetition. Three users are two
owners and a new member, or two owners and the admin who meets them. Three tokens are a
login, its refresh and a refresh of that, or a second login (`MaxLogins`). Two requests that
meet are enough for every lost update, since each overwrites at most what one other has
written. Five days with a retention of two leave checks that are kept, expired and deleted.
Symmetry sets are used in safety runs only.

*Deadlock* is checked in the runs of leases, deliveries and recordings. In `outbox`, `accounts`,
`sessions` and `parts` it is not: events, tokens, ids, edits and days are used up, and a
system in which nothing is left to do has stopped rightly. That nobody waits for ever is
stated there by properties: `EventIsFannedOut` and `CompletedIsPurged`, `WaitersAreWoken`.

*Mutants.* Beside the definitions stand mutants of them (`LeaseTime_NoGrace`, ...): each
is a plausible bug, and each property is violated by the one PROJECT.json names for it.

## 4. Fairness

`FairSpec` assumes of the environment what liveness needs and no more:

* weak fairness of a cycle's steps or their failures, of each task, of API transactions
  ending and of time: event loops and the database go on, and every call in the code has
  a timeout (`asyncio.timeout` around claim, probe, record and release);
* weak fairness of `Restart`: a container that ends is started again;
* strong fairness of `Poll`, of selecting a monitor that is first again and again and of
  committing such a claim: a process may crash for ever, but not always at the same
  point. `CycleEnds` and `DueIsProbed` would be false of a process that is killed during
  every claim.

`NotificationDelivery` has the same assumptions, and strong fairness of loading a
delivery's data and starting its send. `RetrySpec` adds strong fairness of a send ending
and of its result being recorded: a delivery whose record failed every time would be sent
for ever, since an attempt that is not recorded does not count. This is what the code
does, and the reason why `DeliveryEnds` cannot do with less. Neither assumes anything of
deliveries in `Poison`. `DueIsSent` is checked with a batch that holds the poison delivery
as well as the other: a delivery that always raises is never counted, stays first
in the order of `next_attempt_at`, and a full batch of such would keep others out.

`OutboxFanout.FairSpec` assumes that some worker goes on with a fan-out that it can go on with,
that each cleaner does, and that time passes. Nothing is assumed of deliveries, of the API or
of any particular worker; rollbacks are bounded by `MaxFaults`, for a database that fails every
transaction fans nothing out. `Sessions`, `Accounts` and `Parts` state no fairness: their
properties are about safety.

`DueIsProbed` is checked with a batch that holds every monitor and with deletions as the
only API writes. Both restrictions are real: monitors whose checks keep failing stay
first in the order of `next_check_at`, so a full batch of them would keep others out; and
API transactions that hold a row's lock at every SELECT would hide the row from
`SKIP LOCKED`. The first is a hazard that PROJECT.json lists without a property.

## 5. Proofs

All theorems hold for every value of the constants that satisfies the named assumptions of
the modules: finite sets of processes and monitors, limits that are positive integers,
null values that are not data. Tokens may be infinite.

**CheckLease_proofs.** `TypeCorrect` comes first; its interesting part is that a lease
never gets a negative duration, which needs the bound of the claim transaction.
`Fencing` is the inductive invariant `FencingInv`: *TasksFitClaims* (tasks exist for claims
of a running wave only), *TransactionsHoldLocks* (claiming and recording transactions hold
the row's lock, and the row is there), *ClaimsAreFree* (a row being claimed has no live
lease and another token) and *TokensAreUnique*, together with `VerifiedHoldsLease`. None
of these is inductive alone: a verified result keeps its lease because nobody else has
the lock, nobody else can have the lock because claims meet no live lease, and a token
in a row tells the processes apart because no two know the same.
`RowsAreFenced` is the refinement: the initial states map to initial states and each
step, row by row, is a `Keep`, `Claim`, `Accept` or `Drop` of `FencedLease`.
`LeaseIsLeftByOwner` is an action property from the same invariant. `LeasesOutliveProbes`
adds the timed part, `leaseLeft > probeLeft` while probing, and `ProbesDoNotOverlap`
follows: a claim needs `leaseLeft = 0`, which a running probe excludes.
`CyclesAreBounded` uses an invariant that gives an open claim transaction its room in
the batch, and the library's facts on the cardinality of unions.

**CheckRecording_proofs.** `Base` (types, and *a transaction that has begun sees its row as
it is*) is inductive because of `FOR UPDATE`; with it a flush is an assignment of the whole
row (`FlushOnRead`), so each commit can be reasoned about as one step. On it rests
`Announced`: DOWN exactly with an open incident, that incident unique and of a monitor
that is there, and equal to what the last event says. Its parts need each other:
uniqueness makes the `CHOOSE` of a resolution deterministic, and the event part makes the
alternation provable. The run `recording` has one monitor; that incidents of several do not
get mixed up is what these theorems show. `Counted` relates counters and the streak of results and gives
`EveryResultCounts` and `StatusIsEarned`.

`RecordingIsSerial` is the refinement of `MonitorLife`, on top of both. `Shape` writes the
life of a monitor from its row, its open incident and its last event; `ShapeOfResult` shows that
`apply_check_result` on a row does to its shape what `Recorded` does to a life, which needs
`Counted`: one of the two counters is zero, so that one streak can stand for them.
`CommitIsResult` then takes the three ways a commit can go, and `Announced` is what makes the
incident that the code resolves the one that `MonitorLife` has open, and a new incident's id one
that nobody has open. The other steps change one life or none (`SameLife`, `OneLifeChanges`).

**NotificationDelivery_proofs.** `Fencing` has the parts it has for checks and two more.
`HolderSeesAttempts` (the claim in a row has read the row's attempts) needs fencing,
since `update` writes the number that the claim has read plus one; and `ClosedHasNoLease`
needs it in turn. With these, `RowsAreFenced` and `ClosedDeliveriesStayClosed` follow from one
lemma on what a step can do to a row. `SuccessesWereReceived` adds that a pending success
has been received. The timed invariant `LeaseOutlivesTask` says that a lease outlasts a
send by `DbTimeout` and the recording that follows by what is left of its timeout; that is
the arithmetic of `SendTime`, and with unique tokens it yields `NoSendsOverlap` and
`NoResultIsStale`. `DuplicatesHaveReasons` needs two more layers: *SuccessKeepsLease* (a success
not recorded yet has the lease in the row, for longer than its transaction may take, so that
nobody else can claim the delivery) and *ReceiptsAreKnown* (what the recipient has got is
recorded, about to be, or lost, and what is recorded or about to be is not being sent).
Together they leave a lost success as the only reason for a second one. That claims and releases in bulk, by several workers, do no harm is
shown here and not by a run. The module assumes `RetryAssumption`, that back-off times are natural
numbers, because the provers know nothing of powers; TLC evaluates it in every run.

**OutboxFanout_proofs.** `OutboxInv` is inductive: *NewEventsAreWatched* (a waiting event has no
deliveries, and its history holds what its destinations are now), *Faithful* (the events a
fan-out holds are its own and new, and its rows are those of the destinations it has come
past) and *HoldsOld* (what a cleanup has selected stays old and bare). The last two are what
`FOR UPDATE SKIP LOCKED` is for: no two transactions share a row, so what one has read still
holds when it commits. `EnabledAreReached`, `EndedStaysEnded` and `UnfinishedIsSpared` follow from
the invariant and one lemma each on what a step does to rows.

**Accounts_proofs.** `AccountsInv` adds to the properties what each request has read and why it
still holds: *MemberHeld* (from lock to commit the organization's row is locked, so the role
and the number of owners are still those that were judged) and *FounderHeld* (a registration
that adopts the default organization holds its row, others have ids of their own, a
bootstrap command holds the advisory lock). `OwnersRemain`, `FoundersAreAlone`,
`AdministratorIsAlone` and `CommitsAreCovered` are consequences.

**Sessions_proofs.** `SessionsInv` has four layers, each resting on the one before: tokens that
are known have been drawn with their login (*KnownTokens*); an open transaction alone holds a
live token and creates a pending one of the same login (*TransactionsFit*, which makes
`OneLiveToken` survive a commit); undisturbed, calls come one at a time and the *tip*, the token
that the next call will present, is the only one of its login that works but for those about
to be revoked (*CallsTakeTurns*, from which `LogoutIsFinal` follows); and until the session ends
the tip works (*TipWorks*, from which `SessionEndsForAReason` follows). `RequestsStay` needs only
*RequestsFit*.

**ApiAccess_proofs.** `ApiInv` says of each request what it knows (*ContextFits*), of new rows that
nobody else makes them and that a window has its monitor (*NewRowsFit*), and of deletions that
their row is in nobody else's hands (*DeletesAreAlone*); `KeysTakeTurns` is one of its parts.
`ChangesInside` is the action property from it, cascades included.

**Parts_proofs.** The theorems are about the instances in `Parts`, and of the specification of
each smaller module alone, so that they hold of its every behaviour and not only of those that
the run has room for.

* `PagesHold`: `PagesInv` has a part for the administrators (addresses are unique and what is shown
  fits, because the index and the foreign keys judge at the write what the read found before it)
  and one for visits (what has been read of a monitor that did not change since is what it is
  now). `VisitorsSeeWhatLasts` follows from the second and `Overall`. `PagesAssumption`, on the
  homes of pages and monitors, is an ASSUME of `Parts`.
* `StoredStaysAccepted` and `UpdatesAreLostToConcurrentOnes` rest on `SettingsInv`: what is about to
  be written is the accepted merge of what was read first, and who edits a monitor has its lock
  and has read what is there. The lock is why a monitor's update undoes none; destinations and
  pages have none, and what is undone there is shown to be what the writer had read before.
* `OnlyExpiredGo` (only expired checks are deleted or about to be) gives `UnflaggedIsComplete`: an
  answer about a period that begins before the retention window is flagged, and any other
  misses nothing.
* `HistoryDecides`: the definition on the whole history says "there is a streak of failures and
  no streak of successes after it", so no induction over histories is needed. It is enough to
  know what one more result does to the streaks at the end of a history, and that the counters
  are those streaks up to the largest threshold (*CountersFollowHistory*).

In each module the theorem on the whole invariant (`LeasesHold` of `LeaseInv`, `DeliveriesHold` of `DeliveryInv`,
`RecordingHolds` of `RecordingInv`, `ReadsHold`, `SessionsHold`, `ApiInvariant`) is what its run checks as an invariant.
Some proved properties are consequences that no run checks any more, because the invariant
that contains them is checked: `CycleIsBounded`, `ResultsAreNotStale`, and the parts about types;
or, as `EventsAlternate`, because `OneAtATime` says more.

**Only model-checked:** the liveness properties `CycleEnds`, `DueIsProbed`, `DueIsSent`,
`DeliveryEnds`, `EventIsFannedOut` and `CompletedIsPurged`, which are out of the prover's reach. Every
safety property that a run checks is also a theorem.

## 6. What is not modelled

* *Probes and channels* as such: network I/O, whose answer is a free choice in `CheckLease`,
  `CheckRecording` and `NotificationDelivery`. A channel that always raises is a constant there.
* *Formatting* of notifications, charts, metrics, logging, and the parts of the schemas that only
  bound a value: they keep no state and decide nothing that the models tell apart.
* *Configuration and start*: read once, and constants of the models. `db/session.py` is the commit
  or rollback at the end of every transaction.
* *Views and router of the frontend*, `restoreSession` and `loadOrganizations` as requests.
* *Migrations, deployment, in-memory repositories*: the first two run outside the system, the
  last are the tests' doubles of the SQL that is modelled.
* *Sums and averages* of the statistics: only which checks they are about.
* *Timestamps of incidents and events* under clock skew: `checked_at` is the application's clock,
  so that an incident may be resolved before it was started; nothing in the code depends on
  that order but display.

Transactions are READ COMMITTED and atomic, row locks are exclusive, and a lost connection
rolls back: that is PostgreSQL, which is assumed and not modelled further.

## 7. What could follow

1. `Starvation`: waves ordered by lateness when a full batch of monitors fails for ever.
2. `CheckLease` and `CheckRecording` in one specification, each shown to be refined by the
   composition; then the way from a recorded result, as `MonitorLife` tells it, to a delivery.
3. An abstract specification of a delivery's whole life, as `MonitorLife` is one of a monitor's.
